CONSTANTS
  p1 = p1
  p2 = p2
  Partitions <- MCPartitions
  Log <- MCLog
  MaxProcesses = 2
  Faults = TRUE
SPECIFICATION Spec
INVARIANT TypeOK
INVARIANT CountsAgree
INVARIANT LossHasCause
PROPERTY FetchedIsHandedOver
PROPERTY StopReturns
CHECK_DEADLOCK FALSE
