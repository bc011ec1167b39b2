SPECIFICATION Spec
CONSTANTS
  u1 = u1
  u2 = u2
  s1 = s1
  s2 = s2
  d1 = d1
  d2 = d2
  r1 = r1
  r2 = r2
  Null = Null
  Users = {u1}
  Sids = {s1, s2}
  Fingerprints = {d1, d2}
  Requests = {r1, r2}
  SessionTTL = 2
  RefreshTTL = 2
  AccessTTL = 1
  MaxTime = 1
SYMMETRY Symmetry
PROPERTIES LogoutAllEndsEverySession
CHECK_DEADLOCK FALSE
