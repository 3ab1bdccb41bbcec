SPECIFICATION Spec
CONSTANTS
  Takers = {t1, t2, t3}
  Free = Free
  Callbacks = {c1, c2}
  FastRetries = 10
  SlowInterval = 30000
  MaxOutages = 2
  MaxCalls = 3
  Channels = {x, y}
  Handlers = {h1, h2}
  NoHandler = NoHandler
  MaxCommands = 3
  MaxExecs = 2
INVARIANTS
  LockIsExclusive
  SubscriptionsSurvive
  UnsubscribeIsFinal
  PipelineTellsTheTruth
PROPERTIES
  NobodyFreesForAnother
  LockIsFreed
  EveryReconnectionIsAnnounced
  BackoffGrows
  RedisIsFoundAgain
CHECK_DEADLOCK FALSE
