CONSTANTS
  p1 = p1
  p2 = p2
  Partitions <- MCPartitions
  Log <- MCLog
  MaxCrashes = 2
  Faults = TRUE
SPECIFICATION Spec
INVARIANT TypeOK
INVARIANT LossHasCause
PROPERTY RelaysCids
PROPERTY InHandIsReleased
PROPERTY StopReturns
PROPERTY CommitFollowsFinality
PROPERTY AnchorsOnlyUncommitted
CHECK_DEADLOCK FALSE
