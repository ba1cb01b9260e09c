SPECIFICATION Spec
CONSTANTS
  TERMINAL_COUNT = 2
  MAX_PID_COUNT = 4
  Inputs = {"char", "ctrl_c", "alt_f", "fault", "vidmap"}
  EarlyKeys = FALSE
  KeysInHalt = FALSE
  KeysInRestore = TRUE
  KillsInRestore = TRUE
INVARIANTS
  FrontIsOwn
  StackAndPageOwn
  BaseShellPids
  ParentWaits
  OneChild
PROPERTIES
  ImplementsSessions
