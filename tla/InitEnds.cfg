SPECIFICATION ConnectionSpec
CONSTANTS
  Callbacks = {}
  FastRetries = 5
  SlowInterval = 30000
  MaxOutages = 0
PROPERTY InitEnds
CHECK_DEADLOCK FALSE
