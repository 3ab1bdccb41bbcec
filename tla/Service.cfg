SPECIFICATION Spec
CONSTANTS
  Environments <- MCEnvironments
  RequestSet <- MCRequests
  Build = 2
  RequestIds = {r1, r2}
  MaxOutages = 2
  Slots = {s1, s2}
  Durations <- MCDurations
  Sessions = {1}
  MaxRenewals = 2
  Slowest = 2
  Rows = {1, 2, 3, 4}
  Times = {1, 2, 3}
  PageSize = 2
  MaxWrites = 2
INVARIANTS
  NamespacesAgree
  ServesOnlyWhenSafe
  
  NobodyIsCutOff
  JobsNeverOverlap
  LifetimesAgree
  PagesAreExact
PROPERTIES
  ShutdownEnds
  RequestsAreAnswered
  JobsRunAgain
CHECK_DEADLOCK FALSE
