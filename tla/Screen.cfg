SPECIFICATION Spec
CONSTANTS
  NUM_ROWS = 2
  NUM_COLS = 4
  TAB_SIZE = 2
  KEYBOARD_BUFFER_SIZE = 3
  Events = {}
  PAPER_ROWS = 5
INVARIANTS
  TypeOK
  WindowOnPaper
  LineAtCursor
