CONSTANTS
  Tasks = {t1, t2}
  Fds = {f1, f2}
  Nodes = {n1, n2}
  MaxWrites = 2
  NULL = NULL
  NoOne = NoOne
  WILD = WILD
SPECIFICATION SafeSpec
INVARIANTS ReadersIndependent
CHECK_DEADLOCK FALSE
