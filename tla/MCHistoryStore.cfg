SPECIFICATION FairSpec
CONSTANTS
  Reservers = {r1}
  Recorders = {a1, a2}
  Markers = {m1}
  Identities = {ada}
  IdentityLimit = 1
  GlobalLimit = 1
  MaxDay = 0
  MaxRestarts = 1
  None = None
CHECK_DEADLOCK FALSE
INVARIANT AcknowledgedIsDurable
PROPERTY EveryStoreCallReturns
