CONSTANTS
  Lines = {l1, l2}
  Toggles = 6
  Readers = {r1}
SPECIFICATION Spec
INVARIANTS TypeOK  HitsAccounted
PROPERTIES ModuleContract HitsGetSeen UnloadFinishes StrandedForGood
