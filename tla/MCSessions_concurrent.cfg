SPECIFICATION Spec
CONSTANTS
  u1 = u1
  u2 = u2
  s1 = s1
  s2 = s2
  d1 = d1
  d2 = d2
  r1 = r1
  r2 = r2
  Null = Null
  Users = {u1, u2}
  Sids = {s1, s2}
  Fingerprints = {d1, d2}
  Requests = {r1, r2}
  SessionTTL = 1
  RefreshTTL = 1
  AccessTTL = 1
  MaxTime = 2
SYMMETRY Symmetry
INVARIANTS RotationBoundToLogin
PROPERTIES OnlyOwnerRevokes RevocationFinal
CHECK_DEADLOCK FALSE
