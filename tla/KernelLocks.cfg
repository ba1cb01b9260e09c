SPECIFICATION Spec
CONSTANTS
  TERMINAL_COUNT = 2
  MAX_PID_COUNT = 3
  Inputs = {"char", "ctrl_c", "ctrl_s", "ctrl_p", "alt_f", "fault", "vidmap"}
  EarlyKeys = FALSE
  KeysInHalt = FALSE
  KeysInRestore = FALSE
  KillsInRestore = FALSE
INVARIANTS
  ProgressOwned
  CriticalNotPreempted
  KillBeforeUser
  KillsAreForFront
  VideoRouted
  VidmapOwned
  ReaderEchoes

