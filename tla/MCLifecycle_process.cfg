SPECIFICATION FairSpec
CONSTANTS
  prisma = prisma
  redis = redis
  r1 = r1
  r2 = r2
  Redis = redis
  Deps = {prisma, redis}
  Requests = {r1, r2}
  NoCaller = NoCaller
INVARIANTS ServesConnected EveryDisconnectTried
PROPERTIES ShutdownTerminates
CHECK_DEADLOCK FALSE
