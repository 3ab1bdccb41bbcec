SPECIFICATION Spec
CONSTANTS
  Requests = {r1, r2}
  SeedRows <- PlatformSeed
  Ops = {"createTeam", "deleteTeam", "createUser", "deleteRole"}
  RoleNames = {"Red", "Blue"}
  TeamNames = {"a", "new", "b"}
  Emails = {"root@", "ann@", "joe@"}
  None = None
SYMMETRY RequestSymmetry
INVARIANT ParentsAreActive
CHECK_DEADLOCK FALSE
