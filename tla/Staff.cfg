SPECIFICATION Spec
CONSTANTS
  Requests = {r1, r2, r3}
  SeedRows <- StaffSeed
  Ops = {"updateUser", "deleteUser"}
  RoleNames = {"Red"}
  TeamNames = {"a"}
  Emails = {"ann@", "bob@"}
  None = None
SYMMETRY RequestSymmetry
INVARIANT LeaderRemains
PROPERTY WritesMerge
CHECK_DEADLOCK FALSE
