SPECIFICATION FairSpec
CONSTANTS
  s1 = s1
  s2 = s2
  s3 = s3
  Statements <- Texts3
  OtherNames <- Undispatched
  MaxCalls = 3
  NoSql = NoSql
CHECK_DEADLOCK FALSE
INVARIANTS NeverRunsTwice TraceIsDense RetriesAreJustified VerdictExplained BillIsWhole
PROPERTIES ImplementsRunPromise RefusalEndsTheRun EveryRunEnds
