CONSTANTS
  ArrMax = 3
  Junk = junk
  Blank = blank
  ReadMax = 3
  MaxDeploys = 2
  None = none
  MaxTouches = 2
SPECIFICATION Spec
INVARIANTS TypeOK CbNotified SceneClean FreshIfCleaned
CHECK_DEADLOCK FALSE
