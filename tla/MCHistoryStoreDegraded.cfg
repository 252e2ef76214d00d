SPECIFICATION Spec
CONSTANTS
  Reservers = {}
  Recorders = {a1, a2}
  Markers = {}
  Identities = {ada}
  IdentityLimit = 1
  GlobalLimit = 1
  MaxDay = 0
  MaxRestarts = 0
  None = None
SYMMETRY Interchangeable
CHECK_DEADLOCK FALSE
INVARIANT DegradedTellsTheLastWrite
