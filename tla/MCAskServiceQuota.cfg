SPECIFICATION Spec
CONSTANTS
  Requests = {r1, r2}
  Questions = {q1, q2}
  MaxVersion = 0
  MaxCost = 1
  MaxRestarts = 0
  Telemetry = {TRUE, FALSE}
  None = None
SYMMETRY Interchangeable
CHECK_DEADLOCK FALSE
INVARIANT QuotaIsTheMostRecent
