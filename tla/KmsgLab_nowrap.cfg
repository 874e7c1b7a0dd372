CONSTANTS
  Cap = 6
  MaxOthers = 0
  Earlier = TRUE
  TotalN = 5
  Batch = 4
  ModLines = 0
  Pairs = {{"fill"}}
SPECIFICATION Spec
INVARIANT NoWrapMeansNone
CHECK_DEADLOCK FALSE
