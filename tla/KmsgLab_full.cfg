CONSTANTS
  Cap = 3
  MaxOthers = 2
  Earlier = FALSE
  TotalN = 4
  Batch = 2
  ModLines = 0
  Pairs = {{"fill"}}
SPECIFICATION Spec
PROPERTY FullIsFull
CHECK_DEADLOCK FALSE
