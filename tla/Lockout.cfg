SPECIFICATION FairSpec
CONSTANTS
  Attempts = {a1, a2, a3}
  MaxAttempts = 2
  LockDurations <- Durations
  MaxFaults = 2
INVARIANTS
  TypeOK
  OvershootIsBounded
  WindowIsComing
PROPERTY LockEndsWithoutFaults
