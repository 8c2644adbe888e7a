CONSTANTS
  a = a
  b = b
  NoSensor = NoSensor
  IndexStride = 10
  MaxHeight = 2
  Chain <- MCChain
  Sensors <- MCSensors
  MaxRetries = 2
  QueueBound = 2
  MaxCrashes = 1
  Faults = TRUE
  HeadsMaySkip = TRUE
SPECIFICATION Spec
INVARIANT TypeOK
INVARIANT ProcessedIsAccounted
INVARIANT CursorIsAccounted
PROPERTY GoesBackOnlyInReplay
PROPERTY DeadLetteredForCause
PROPERTY ProjectsChain
PROPERTY BlockIsLeft
PROPERTY BackfillEnds
CHECK_DEADLOCK FALSE
