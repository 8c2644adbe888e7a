CONSTANTS
  a = a
  b = b
  NoSensor = NoSensor
  IndexStride = 10
  MaxHeight = 2
  Chain <- MCChain
  Sensors <- MCSensors
  MaxRetries = 2
  QueueBound = 1
  MaxCrashes = 1
  Faults = FALSE
  HeadsMaySkip = FALSE
SPECIFICATION Spec
INVARIANT NothingLostBelowCursor
CHECK_DEADLOCK FALSE
