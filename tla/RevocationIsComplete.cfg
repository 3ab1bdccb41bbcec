SPECIFICATION Spec
CONSTANTS
  Requests = {r1, r2, r3}
  Users = {u1}
  None = None
  FailClosed = TRUE
  MaxFaults = 1
SYMMETRY RequestSymmetry
INVARIANT RevocationIsComplete
CHECK_DEADLOCK FALSE
