SPECIFICATION FairSpec
CONSTANTS
  c1 = c1
  c2 = c2
  c3 = c3
  Calls = {c1, c2, c3}
  FailureThreshold = 2
  HalfOpenMaxTrials = 1
  RecoveryTimeout = 2
  CallTimeout = 2
INVARIANTS ProbeBound
PROPERTIES KeepsContract OpenIsProbed HalfOpenResolves
