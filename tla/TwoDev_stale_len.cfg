CONSTANTS
  NDEV = 2
  Sizeof = 3
  Offset = 2
  Procs = {p, q}
  BufMax = 2
  Untouched = zero
  MaxCount = 3
  SizeMod = 8
SPECIFICATION TdSpec
INVARIANT ReadValid
