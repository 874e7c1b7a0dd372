CONSTANTS
  Users = {u, v}
  MsgMax = 2
  MaxWrites = 3
  Sectors = 2
  Words = 2
  Tags = {t1, t2}
  MaxIO = 3
  NoRq = none
  NDEV = 2
  Sizeof = 3
  Offset = 2
  Procs = {p, q}
  BufMax = 2
  Untouched = zero
  MaxCount = 3
  SizeMod = 8
  Mappers = {p1, p2}
  BUF_PAGES = 4
  MaxPages = 5
SPECIFICATION LabSpec
INVARIANTS TypeOK TdTypeOK MbufTypeOK OneMessage WithinBounds MappedIsAlive FreedClean NothingLeft ReleasedInOrder LiveIsComplete DiskKeepsData
PROPERTIES Isolated EchoSplices
CHECK_DEADLOCK FALSE
