SPECIFICATION FairSpec
CONSTANTS
  Hop = {h1, h2}
  Mac = {m1}
  None = None
  SR_ARPCACHE_SZ = 2
  SR_ARPCACHE_TO = 1
  MaxTries = 2
  SweepLag = 1
  Ttl = {1, 2}
INVARIANTS CacheInv EntriesFresh GivesUpLate NextPointersValid
PROPERTIES RequestEnds
CHECK_DEADLOCK FALSE
