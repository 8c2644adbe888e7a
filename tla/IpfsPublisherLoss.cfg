CONSTANTS
  p1 = p1
  p2 = p2
  t1 = t1
  Loop = Loop
  Partitions <- MCPartitions
  Log <- MCLog
  BatchSize = 3
  Timers <- MCTimers
  MaxCrashes = 0
  Faults = FALSE
SPECIFICATION Spec
INVARIANT NoTelemetryLost
