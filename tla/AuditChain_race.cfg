SPECIFICATION Spec
CONSTANTS
  Writers = {w1, w2}
  Users = {u1}
  Nobody = Nobody
  Retention = 9
  MaxRows = 3
  MaxClock = 2
SYMMETRY Symmetry
INVARIANTS LinksVerify
CHECK_DEADLOCK FALSE
