SPECIFICATION Spec
CONSTANTS
  Requests = {r1, r2}
  SeedRows <- PlatformSeed
  Ops = {"createRole", "updateRole", "deleteRole", "createTeam", "updateTeam",
         "deleteTeam", "createUser", "updateUser", "deleteUser"}
  RoleNames = {"Red", "red", "Blue"}
  TeamNames = {"a", "new", "b"}
  Emails = {"root@", "ann@", "joe@"}
  None = None
SYMMETRY RequestSymmetry
INVARIANTS
  TypeOK
  KeysAreUnique
  OrphansComeFromRaces
  EmittedIsCreated
  RosterAgrees
PROPERTIES
  TeamsAreIsolated
CHECK_DEADLOCK FALSE
