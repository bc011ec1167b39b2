SPECIFICATION Spec
CONSTANTS
  u1 = u1
  u2 = u2
  s1 = s1
  s2 = s2
  r1 = r1
  r2 = r2
  Null = Null
  Users = {u1, u2}
  Sids = {s1, s2}
  Requests = {r1, r2}
  AccessTTL = 1
  RefreshTTL = 2
  OtpTTL = 1
  MaxTime = 1
SYMMETRY Symmetry
PROPERTIES ActsForVerified ActsInLogin LogoutEndsOwn ReuseExplained KeepsStore
CHECK_DEADLOCK FALSE
