CONSTANTS
  Users = {u, v}
  MsgMax = 1
  MaxWrites = 1
  Sectors = 1
  Words = 1
  Tags = {t1}
  MaxIO = 1
  NoRq = none
SPECIFICATION Spec
INVARIANT FailedLoadLeavesNothing
CHECK_DEADLOCK FALSE
