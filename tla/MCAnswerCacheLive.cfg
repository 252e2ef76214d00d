SPECIFICATION FairSpec
CONSTANTS
  Calls = {c1, c2, c3}
  Keys = {k1, k2}
  v1 = v1
  v2 = v1
  bad = bad
  Values <- MCValues
  Cacheable <- MCCacheable
  Errors = {e1}
  CacheLimit = 1
  None = None
PROPERTIES ImplementsSingleFlight EveryCallReturns
