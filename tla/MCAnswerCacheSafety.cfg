SPECIFICATION Spec
CONSTANTS
  Calls = {c1, c2, c3}
  Keys = {k1, k2, k3}
  v1 = v1
  v2 = v2
  bad = bad
  Values <- MCValues
  Cacheable <- MCCacheable
  Errors = {e1}
  CacheLimit = 2
  None = None
SYMMETRY Interchangeable
INVARIANTS TypeOK AtMostOnceConcurrently FollowersShareTheOutcome EntriesAreEarned
PROPERTIES AnswersAreStable ForgetsOnlyTheOldest
