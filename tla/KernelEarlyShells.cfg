SPECIFICATION Spec
CONSTANTS
  TERMINAL_COUNT = 2
  MAX_PID_COUNT = 4
  Inputs = {"char", "ctrl_s", "alt_f"}
  EarlyKeys = TRUE
  KeysInHalt = FALSE
  KeysInRestore = FALSE
  KillsInRestore = FALSE
INVARIANTS
  OnlyShellsRestart
