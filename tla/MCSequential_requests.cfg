SPECIFICATION SeqSpec
CONSTANTS
  u1 = u1
  u2 = u2
  s1 = s1
  s2 = s2
  d1 = d1
  d2 = d2
  r1 = r1
  Null = Null
  Users = {u1, u2}
  Sids = {s1, s2}
  Fingerprints = {d1, d2}
  Requests = {r1}
  SessionTTL = 2
  RefreshTTL = 3
  AccessTTL = 1
  MaxTime = 3
SYMMETRY Symmetry
INVARIANTS HeldSessionsIndexed LatestTokenStored
PROPERTIES LogoutAllEndsIndexed KeepsStore
CHECK_DEADLOCK FALSE
