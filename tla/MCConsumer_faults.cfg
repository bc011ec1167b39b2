SPECIFICATION FairSpec
CONSTANTS
  p1 = p1
  p2 = p2
  e1 = e1
  e2 = e2
  Pods = {p1, p2}
  Events = {e1, e2}
  NoPod = NoPod
  NoEvent = NoEvent
  LeaseTTL = 2
  ProcessedTTL = 3
  MaxFaults = 2
  MaxTime = 4
INVARIANTS ExclusiveWhilePrompt DropExplained
PROPERTIES KeepsContract EventuallyMailed
CHECK_DEADLOCK FALSE
