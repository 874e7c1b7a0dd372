CONSTANTS
  Lines = {l1}
  Toggles = 6
  Readers = {r1}
SPECIFICATION SafeSpec
INVARIANTS ThreadedOncePerIrq
