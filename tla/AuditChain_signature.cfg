SPECIFICATION Spec
CONSTANTS
  Writers = {w1}
  Users = {u1}
  Nobody = Nobody
  Retention = 9
  MaxRows = 3
  MaxClock = 2
SYMMETRY Symmetry
INVARIANTS SignaturesVerify
CHECK_DEADLOCK FALSE
