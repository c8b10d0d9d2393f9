SPECIFICATION Spec
CONSTANTS
  Hop = {h1}
  Mac = {m1}
  None = None
  SR_ARPCACHE_SZ = 1
  SR_ARPCACHE_TO = 1
  MaxTries = 2
  SweepLag = 1
  Ttl = {2}
INVARIANTS NoUseAfterFree
CHECK_DEADLOCK FALSE
