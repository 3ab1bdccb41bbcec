SPECIFICATION Spec
CONSTANTS
  Requests = {r1, r2, r3, r4}
  Users = {u1}
  None = None
  FailClosed = TRUE
  MaxFaults = 1
SYMMETRY RequestSymmetry
INVARIANTS
  TypeOK
  SingleUse
  RefusedFamilyIsDead
  ReuseHasRival
  NoOrphanFamily
  LogoutRevokes
  RevokeAllVoids
  RevokedIsRefused
PROPERTY FamilySpec
CHECK_DEADLOCK FALSE
