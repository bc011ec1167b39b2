SPECIFICATION Spec
CONSTANTS
  k1 = k1
  k2 = k2
  c1 = c1
  c2 = c2
  default = default
  auth = auth
  Keys = {k1}
  Presets = {default}
  Capacity <- OneCapacity
  Rate <- OneRate
  Unit = 3
  MsPerSec = 2
  Calls = {c1, c2}
  NoKey = NoKey
  NoPreset = NoPreset
  MaxFaults = 2
  MaxBack = 1
  MaxTime = 8
INVARIANTS RateKept RetryHonest
CHECK_DEADLOCK FALSE
PROPERTIES KeepsContract
