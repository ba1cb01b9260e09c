SPECIFICATION FairSpec
CONSTANTS
  Terminal = {t1}
  Char = {a, b}
  NUL = NUL
  KEYBOARD_BUFFER_SIZE = 2
  SIZEOF_INT = 1
  Requests = {0, 1, 3}
  CanKill = TRUE
INVARIANTS
  TypeOK
  NothingStale
  ReadsTypedLine
PROPERTIES
  ReadReturns
