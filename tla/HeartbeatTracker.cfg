CONSTANTS
  a = a
  m1 = m1
  m2 = m2
  NoHash = NoHash
  Sensors <- MCSensors
  Scrapes <- MCScrapes
  OnlineWindow = 1
  RetentionWindow = 2
  MaxTime = 4
  MaxProcesses = 2
  Faults = TRUE
SPECIFICATION Spec
SYMMETRY Symmetry
INVARIANT TypeOK
INVARIANT ReportIsTrue
INVARIANT HashIsListed
PROPERTY RecordIsKept
PROPERTY ErasedIsStaleOrRaced
CHECK_DEADLOCK FALSE
