CONSTANTS
  r1 = r1
  r2 = r2
  r3 = r3
  s1 = s1
  n1 = n1
  Requests <- MCRequests
  Sensors <- MCSensors
  Nonces <- MCNonces
  Envelopes <- MCEnvelopes
  Strategies = {"registry-sync"}
  Skew = 1
  Ttl = 4
  MaxLatency = 1
  MaxTime = 1
  MaxRestarts = 0
  MaxUpdates = 0
  Faults = FALSE
SPECIFICATION Spec
CHECK_DEADLOCK FALSE
INVARIANT DuplicateIsConflict
