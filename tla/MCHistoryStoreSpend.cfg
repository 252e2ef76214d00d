SPECIFICATION Spec
CONSTANTS
  Reservers = {r1, r2, r3}
  Recorders = {a1}
  Markers = {m1}
  Identities = {ada, ben, cyd}
  IdentityLimit = 1
  GlobalLimit = 2
  MaxDay = 1
  MaxRestarts = 1
  None = None
SYMMETRY Interchangeable
CHECK_DEADLOCK FALSE
PROPERTY ImplementsStorePromise
INVARIANTS CeilingHolds BlameIsRight PaidIffAllowed
