SPECIFICATION FairSpec
CONSTANTS
  NoReason = NoReason
INVARIANTS HandlersHaveRedis NothingCutOff
PROPERTIES ShutdownTerminates
CHECK_DEADLOCK FALSE
