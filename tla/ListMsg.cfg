CONSTANTS
  Tasks = {t1, t2}
  Fds = {f1, f2}
  Nodes = {n1, n2}
  MaxWrites = 3
  NULL = NULL
  NoOne = NoOne
  WILD = WILD
SPECIFICATION Spec
INVARIANTS TypeOK CursorLive NodesAccounted
PROPERTIES IsALog CallsReturn
CHECK_DEADLOCK FALSE
