CONSTANTS
  p1 = p1
  p2 = p2
  t1 = t1
  Loop = Loop
  Partitions <- MCPartitions
  Log <- MCLog
  BatchSize = 2
  Timers <- MCTimers
  MaxCrashes = 1
  Faults = TRUE
SPECIFICATION Spec
INVARIANT TypeOK
INVARIANT LossHasCause
INVARIANT BatchHasTrigger
PROPERTY RelaysTelemetry
PROPERTY BatchIsFlushed
