SPECIFICATION Spec
CONSTANTS
  TERMINAL_COUNT = 3
  Cells <- MCCells
  Cursor <- MCCursor
  Text = {"blank"}
  Drawings = {"b"}
  Blank = "blank"
  Home <- MCHome
  PutC <- MCPutC
  KeysInRestore = FALSE
INVARIANTS
  Routed
PROPERTIES
  ImplementsConsoles
