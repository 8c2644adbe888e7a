CONSTANTS
  a = a
  b = b
  NoSensor = NoSensor
  IndexStride = 10
  MaxHeight = 2
  Chain <- GrantRevokeChain
  Sensors <- MCSensors
  MaxRetries = 2
  QueueBound = 1
  MaxCrashes = 0
  Faults = FALSE
  HeadsMaySkip = FALSE
SPECIFICATION Spec
INVARIANT NewDevicesAreEligible
CHECK_DEADLOCK FALSE
