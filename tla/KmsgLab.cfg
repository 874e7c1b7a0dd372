CONSTANTS
  Cap = 3
  MaxOthers = 2
  Earlier = TRUE
  TotalN = 3
  Batch = 2
  ModLines = 2
  Pairs = {{"fill", "console"}, {"console", "pty"}}
SPECIFICATION Spec
INVARIANTS TypeOK SampleIsAStretch NothingLoadedAfter PtyUnloads
PROPERTY PrintedOnce
CHECK_DEADLOCK FALSE
