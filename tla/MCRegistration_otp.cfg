SPECIFICATION Spec
CONSTANTS
  m1 = m1
  s1 = s1
  s2 = s2
  s3 = s3
  s4 = s4
  r1 = r1
  r2 = r2
  Null = Null
  Emails = {m1}
  Sids = {s1, s2, s3, s4}
  Requests = {r1, r2}
  RateMax = 2
  RateWindow = 2
  AttemptMax = 1
  OtpTTL = 1
  MaxTime = 3
CONSTRAINT Bounds
VIEW Seen
SYMMETRY Symmetry
INVARIANTS AttemptsBounded RegistrationOutlivesOtp SendsBounded
PROPERTIES UserMatchedOtp
CHECK_DEADLOCK FALSE
