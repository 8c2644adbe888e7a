CONSTANTS
  p1 = p1
  p2 = p2
  Partitions <- MCPartitions
  Log <- MCLog
  MaxCrashes = 0
  Faults = TRUE
SPECIFICATION Spec
INVARIANT FailedIsRetried
CHECK_DEADLOCK FALSE
