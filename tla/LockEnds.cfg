SPECIFICATION FairSpec
CONSTANTS
  Attempts = {a1, a2}
  MaxAttempts = 2
  LockDurations <- PositiveDurations
  MaxFaults = 1
PROPERTY LockEnds
