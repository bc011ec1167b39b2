SPECIFICATION ProxySpec
CONSTANTS
  c1 = c1
  c2 = c2
  Calls = {c1, c2}
  FailureThreshold = 2
  HalfOpenMaxTrials = 1
  RecoveryTimeout = 2
  CallTimeout = 2
INVARIANTS DeadUpstreamTrips
