SPECIFICATION Spec
CONSTANTS
  Custom = {1, 3}
  Results = {1, 2}
  HandlerFaults = FALSE
  InnerBytes = 64
  MaxDepth = 3
INVARIANT ExceptionStatus
