CONSTANTS
  p1 = p1
  p2 = p2
  l1 = l1
  l2 = l2
  l3 = l3
  d1 = d1
  Procs = {p1, p2}
  Loops = {l1, l2, l3}
  Disks = {d1}
  DiskSize <- MCDiskSize
  ImgSize = 6
  Align = 2
  Mod = 8
  MaxStarts = 3
  MaxHeld = 1
SPECIFICATION Spec
SYMMETRY Symmetry
INVARIANTS TypeOK LabShows LeftAsFound EntryFits
PROPERTIES OwnMediumOnly
CHECK_DEADLOCK FALSE
