SPECIFICATION Spec
CONSTANTS
  User = {u1, u2, u3}
  Owner = owner
  MaxConn = 3
INVARIANTS
  NothingLeaked
SYMMETRY UserSymmetry
CHECK_DEADLOCK FALSE
