SPECIFICATION Spec
CONSTANTS
  Requests = {r1, r2, r3}
  Questions = {q1}
  MaxVersion = 1
  MaxCost = 0
  MaxRestarts = 0
  Telemetry = {FALSE}
  None = None
SYMMETRY Interchangeable
CHECK_DEADLOCK FALSE
INVARIANTS NobodyIsStranded AnswersMatchTheirKey
PROPERTY FailuresAreNotReplayed
