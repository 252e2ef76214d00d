SPECIFICATION FairSpec
CONSTANTS
  Requests = {r1, r2}
  Questions = {q1}
  MaxVersion = 0
  MaxCost = 1
  MaxRestarts = 1
  Telemetry = {TRUE, FALSE}
  None = None
CHECK_DEADLOCK FALSE
INVARIANTS HistoryAddsUp NothingBehindTheCeiling
PROPERTY EveryRequestIsAnswered
