SPECIFICATION Spec
CONSTANTS
  Writers = {w1, w2}
  Users = {u1}
  Nobody = Nobody
  Retention = 0
  MaxRows = 3
  MaxClock = 1
SYMMETRY Symmetry
INVARIANTS ForkOnlyByOverlap SerialSavesChain
CHECK_DEADLOCK FALSE
