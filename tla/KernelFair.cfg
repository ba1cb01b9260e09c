SPECIFICATION FairSpec
CONSTANTS
  TERMINAL_COUNT = 2
  MAX_PID_COUNT = 3
  Inputs = {"char", "alt_f"}
  EarlyKeys = FALSE
  KeysInHalt = FALSE
  KeysInRestore = FALSE
  KillsInRestore = FALSE
PROPERTIES
  EveryTerminalRuns
  LineReachesReader
