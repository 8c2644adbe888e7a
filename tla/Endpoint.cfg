CONSTANTS
  r1 = r1
  r2 = r2
  r3 = r3
  s1 = s1
  n1 = n1
  Requests <- MCRequests
  Sensors <- MCSensors
  Nonces <- MCNonces
  Envelopes <- MCEnvelopes
  Strategies = {"registry-sync", "whitelist"}
  Skew = 1
  Ttl = 4
  MaxLatency = 1
  MaxTime = 4
  MaxRestarts = 1
  MaxUpdates = 1
  Faults = TRUE
SPECIFICATION Spec
SYMMETRY Symmetry
INVARIANT TypeOK
INVARIANT AcknowledgedIsNotRepeated
INVARIANT PublishedWasVouched
INVARIANT AnswerMatchesTopics
PROPERTY DecidesAtOnce
CHECK_DEADLOCK FALSE
