SPECIFICATION Spec
CONSTANTS
  TERMINAL_COUNT = 2
  Frequencies = {1024, 512, 256}
  RTC_ALARM_THERSHOLD = 14
  PreemptCompare = TRUE
PROPERTIES
  ReadWaitsItsPeriod
