CONSTANTS
  a = a
  b = b
  NoSensor = NoSensor
  IndexStride = 10
  MaxHeight = 2
  Chain <- GrantRevokeChain
  Sensors <- MCSensors
  MaxRetries = 2
  QueueBound = 1
  MaxCrashes = 1
  Faults = TRUE
  HeadsMaySkip = FALSE
SPECIFICATION Spec
INVARIANT ProjectionSettles
CHECK_DEADLOCK FALSE
