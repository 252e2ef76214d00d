SPECIFICATION Spec
CONSTANTS
  None = None
  NoFile = NoFile
  Junk = Junk
  Garbled = Garbled
  FirstCallTokens = 1
  MaxRetryWait = 1
  MinQuestions = 1
  MaxQuestions = 3
  Invocations <- CommandLines
  Documents <- DatasetEdits
  Databases <- RowCounts
  Usages <- UsageBlocks
  Headers <- HeaderBlocks
  Refusals <- LimitsNamed
  Gaps = {0, 2}
  GoldResults <- GoldOutcomes
  Answers <- RowsReturned
  Conclusions <- Endings
  PromptTokens = 1
  LoopBudget = 3
  MaxRuns = 2
  MaxDay = 1
CHECK_DEADLOCK FALSE
INVARIANTS TypeOK PausesAreJustified LedgerIsExact ReconciledFigureStands
  RefusedRunsAreNotFiled EntriesBillEveryPass ComparableEntriesScoredTheSame
