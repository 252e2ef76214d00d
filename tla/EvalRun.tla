------------------------------- MODULE EvalRun ------------------------------
(***************************************************************************)
(* evals/run_evals.py: one benchmark run after another on one machine.     *)
(* A run reads the dataset, weighs what it would cost against the ledger   *)
(* and the provider's limits, puts every question of a split to the model  *)
(* through the pacer, and then keeps two books: the ledger of the day and  *)
(* EVALS.md.                                                               *)
(*                                                                         *)
(* The model, the provider, the database and the maintainer who edits the  *)
(* dataset are the environment.  A strategy is what run_case sees of it: a *)
(* few provider calls and a conclusion (the loop itself is AgentLoop).     *)
(* Prompts are not rendered: every prompt is PromptTokens long.            *)
(***************************************************************************)
EXTENDS Pacing, Ledger, Scoring, Dataset, Functions

CONSTANTS
  Invocations,   \* command lines, with what of the environment main() reads
  Documents,     \* what questions.yaml may hold
  Databases,     \* the row counts the database may hold
  Usages,        \* usage blocks of a response, None among them
  Headers,       \* header blocks of a response, None among them
  Refusals,      \* the limit a 429 body names, or None
  Gaps,          \* time that may pass between two calls
  GoldResults,   \* what each reference query may come to
  Answers,       \* the rows a generated query may return
  Conclusions,   \* how else a strategy may end: a category, and whether SQL is shown
  PromptTokens,  \* bound: the prompt of any question, in tokens
  LoopBudget,    \* MAX_PROVIDER_CALLS
  MaxRuns, MaxDay   \* bounds: how many runs, how many midnights

ASSUME EvalAssumption ==
  /\ PromptTokens \in Nat /\ LoopBudget \in Nat
  /\ MaxRuns \in Nat /\ MaxDay \in Nat /\ Gaps \subseteq Nat
  /\ Usages \subseteq {None} \cup TokenUsage
  /\ \A r \in Refusals : r = None \/ r \in [code : LimitCodes, used : Nat]
  /\ \A h \in Headers : h = None \/
       \A name \in DOMAIN h : h[name] \in Nat \cup Duration \cup {Garbled}
  /\ Invocations # {} /\ Documents # {} /\ Databases # {}
  /\ \A a \in Invocations : a.repeat \in Int /\ a.maxCalls \in Nat \cup {None}

\* A list of a YAML document is a sequence.
ASSUME DocumentsAssumption ==
  \A d \in Documents :
    d # Junk /\ Has(d, "questions") /\ d.questions # Junk =>
      d.questions \in Seq(Range(d.questions))

VARIABLES
  pc,         \* where main() stands
  args,       \* its arguments
  document,   \* questions.yaml
  database,   \* the row counts of the benchmark database
  spend,      \* the ledger as main() read it, or NoFile under --ignore-daily-spend
  gold,       \* each question's reference result
  calls,      \* provider calls put for the question at hand
  bill,       \* its AgentResult.usage so far
  cases,      \* the cases of this pass
  reports,    \* the reports of the passes that ended
  evals,      \* EVALS.md, entry by entry
  code,       \* the exit code of the last run
  runs,       \* how many runs were started
  meter,      \* what this run's calls were reported to cost: probe and questions
  told        \* what the runs of today told the ledger, as the provider billed it

progress == <<spend, gold, calls, bill, cases, reports>>
books == <<evals, ledger, told>>
world == <<document, database, today>>
vars == <<pacing, progress, books, world, pc, args, code, runs, meter>>

----------------------------------------------------------------------------
(* What a run is asked to do.                                              *)

IsLoop == args.strategy = "loop"

\* resolve_rendering: what the strategy ships with, unless one is named.
Rendering ==
  IF args.rendering # None THEN args.rendering
  ELSE IF IsLoop THEN "compact" ELSE "ddl"

\* The glossary is on by default for the loop, and for it alone.
Glossary == IF args.glossary # None THEN args.glossary ELSE IsLoop

\* build_strategy refuses a single-shot run it could not carry out.
StrategyFits ==
  IsLoop \/ (args.mode = "full" /\ ~Glossary /\ Rendering = "ddl")

\* _default_budget and max_calls; single-shot makes one call whatever is said.
Budget ==
  IF args.maxCalls \notin {None, 0} THEN args.maxCalls
  ELSE IF IsLoop THEN LoopBudget ELSE 1

CallBudget ==
  IF ~IsLoop THEN 1 ELSE IF args.maxCalls # None THEN args.maxCalls ELSE LoopBudget

Dataset == ParseDataset(document)
Selected == QuestionsInSplit(Dataset, args.split)

\* project_run_cost, over all passes, and project_requests.
ProjectRunCost ==
  ProjectWorstCase(PromptTokens, Len(Selected), Budget) * args.repeat
ProjectRequests == Len(Selected) * Budget * args.repeat

ProjectionCeiling ==
  IF args.maxProjection # None THEN args.maxProjection ELSE args.tokenBudget

\* fingerprint_for and schema_fingerprint: hashes taken as what they are of.
PromptFingerprint == IF IsLoop THEN <<"loop", Glossary>> ELSE <<"single-shot">>
SchemaFingerprint == Rendering

----------------------------------------------------------------------------
(* Starting, and the checks that end a run before it spends.               *)

Exit(status) == pc' = "ended" /\ code' = status

\* The memory of a process that has just begun, or is gone.
Forget ==
  /\ NewPacer
  /\ spend' = NoFile /\ gold' = <<>> /\ calls' = 0 /\ bill' = NoUsage
  /\ cases' = <<>> /\ reports' = <<>>
  /\ meter' = [probe |-> 0, questions |-> 0]

\* A new process, whatever has been done to the dataset and the database since
\* the last one.
Start ==
  /\ pc = "ended" /\ runs < MaxRuns
  /\ pc' = "checking" /\ args' \in Invocations
  /\ document' \in Documents /\ database' \in Databases
  /\ runs' = runs + 1
  /\ Forget
  /\ UNCHANGED <<books, today, code>>

\* A dataset that loads, a provider with a key, a strategy that can run.
Acceptable ==
  /\ args.repeat > 0
  /\ IsDataset(document)
  /\ args.provider \in {"groq", "cerebras"}
  /\ StrategyFits

RefuseArguments ==
  /\ pc = "checking" /\ ~Acceptable
  /\ Exit(2)
  /\ UNCHANGED <<pacing, progress, books, world, args, runs, meter>>

\* Without a tokenizer there is no projection; with one it may be too high.
RefuseCost ==
  /\ pc = "checking" /\ Acceptable /\ ProjectionCeiling # None
  /\ args.countable => ProjectRunCost > ProjectionCeiling
  /\ Exit(IF args.countable THEN 1 ELSE 2)
  /\ UNCHANGED <<pacing, progress, books, world, args, runs, meter>>

ReadLedger ==
  /\ pc = "checking" /\ Acceptable
  /\ ProjectionCeiling # None =>
       args.countable /\ ProjectRunCost <= ProjectionCeiling
  /\ spend' = IF args.ignoreSpend THEN NoFile ELSE Load
  /\ pc' = "probing"
  /\ UNCHANGED <<pacing, gold, calls, bill, cases, reports, books, world, args,
                 code, runs, meter>>

----------------------------------------------------------------------------
(* Provider calls.                                                         *)

\* GroqProvider.complete: answered, refused with a 429, or failed; a call may
\* also fail once its headers are read.
GroqProvider(status, usage, headers) ==
  /\ status # "answered" => usage = None
  /\ Complete(usage, SnapshotFromHeaders(headers), status = "refused")

\* CerebrasProvider.complete reads the same from headers of other names.
CerebrasProvider(status, usage, headers) ==
  /\ status # "answered" => usage = None
  /\ Complete(usage, SnapshotFromCerebrasHeaders(headers), status = "refused")

CallProvider(status, usage, headers) ==
  IF args.provider = "groq" THEN GroqProvider(status, usage, headers)
  ELSE CerebrasProvider(status, usage, headers)

Reported(usage) == IF usage = None THEN 0 ELSE usage.tokens

\* probe_rate_limits: one call whose outcome is only talked about.  What it
\* prints rewords a refusal, so main() finds no limit named in it.
Probe(status, usage, headers) ==
  /\ pc = "probing"
  /\ CallProvider(status, usage, headers)
  /\ ~SummaryFails(lastLimits')
  /\ meter' = [meter EXCEPT !.probe = @ + Reported(usage)]
  /\ pc' = "weighing"
  /\ UNCHANGED <<progress, books, world, args, code, runs>>

\* check_quota, without the remark about tokens per minute.
OverTheDay ==
  /\ spend # NoFile
  /\ spend.tokens + (IF args.countable THEN ProjectRunCost ELSE 0)
       > args.dailyLimit

OverTheRequests ==
  /\ lastLimits # None /\ lastLimits.requests.remaining # None
  /\ ProjectRequests > lastLimits.requests.remaining

OverQuota == OverTheDay \/ OverTheRequests

RefuseQuota ==
  /\ pc = "weighing" /\ OverQuota
  /\ Exit(1)
  /\ UNCHANGED <<pacing, progress, books, world, args, runs, meter>>

PassQuota ==
  /\ pc = "weighing" /\ ~OverQuota
  /\ pc' = "verifying"
  /\ UNCHANGED <<pacing, progress, books, world, args, code, runs, meter>>

----------------------------------------------------------------------------
(* Scoring the questions.                                                  *)

\* verify_fingerprint: a count differs or cannot be taken.
RefuseFingerprint ==
  /\ pc = "verifying"
  /\ Exit(1)
  /\ UNCHANGED <<pacing, progress, books, world, args, runs, meter>>

\* execute_gold: every reference query of the dataset, once for all passes.
ExecuteGold ==
  /\ pc = "verifying" /\ database = Dataset.fingerprint
  /\ \E results \in [Range(Dataset.questions) -> UNION Range(GoldResults)] :
       /\ \A q \in DOMAIN results : results[q] \in GoldResults[q.gold]
       /\ gold' = [id \in {q.id : q \in DOMAIN results} |->
                    results[CHOOSE q \in DOMAIN results : q.id = id]]
  /\ pc' = "asking"
  /\ UNCHANGED <<pacing, spend, calls, bill, cases, reports, books, world, args,
                 code, runs, meter>>

Question == Selected[Len(cases) + 1]
More == Len(cases) < Len(Selected)

\* The end of run_case, and run_pass looking at what the pass has been billed.
Score(case) ==
  LET spent == TotalUsage(Append(cases, case))
      over == /\ args.tokenBudget # None /\ spent.measured
              /\ spent.tokens > args.tokenBudget
  IN  /\ cases' = Append(cases, case)
      /\ calls' = 0 /\ bill' = NoUsage
      /\ IF over THEN Exit(1) ELSE pc' = "asking" /\ code' = code

\* A reference query that failed says nothing about the model.
ScoreBrokenGold ==
  /\ pc = "asking" /\ More /\ ~gold[Question.id].ok
  /\ Score(Case(Question, "broken_gold", FALSE, NoUsage, None))
  /\ UNCHANGED <<pacing, spend, gold, reports, books, world, args, runs, meter>>

\* A budget of no calls at all, which --max-calls 0 asks of the loop.
ScoreWithoutCalls ==
  /\ pc = "asking" /\ More /\ gold[Question.id].ok /\ CallBudget = 0
  /\ Score(Case(Question, "budget_exhausted", FALSE, NoUsage, None))
  /\ UNCHANGED <<pacing, spend, gold, reports, books, world, args, runs, meter>>

Wait(elapsed) ==
  /\ pc = "asking" /\ More /\ gold[Question.id].ok /\ CallBudget > 0
  /\ Pace(elapsed)
  /\ pc' = "calling"
  /\ UNCHANGED <<progress, books, world, args, code, runs, meter>>

\* usage_for_call: the provider's figure, a local count, or nothing.  The
\* single-shot result has no usage at all.
CallBill(usage) ==
  IF ~IsLoop THEN NoUsage
  ELSE IF usage # None THEN usage
  ELSE IF args.countable
       THEN [tokens |-> PromptTokens, calls |-> 1, measured |-> FALSE]
       ELSE NoUsage

Answered(usage, headers) ==
  /\ pc = "calling"
  /\ CallProvider("answered", usage, headers)
  /\ calls' = calls + 1
  /\ bill' = Plus(bill, CallBill(usage))
  /\ meter' = [meter EXCEPT !.questions = @ + Reported(usage)]
  /\ pc' = "answered"
  /\ UNCHANGED <<spend, gold, cases, reports, books, world, args, code, runs>>

\* A 429 ends the question; its body may name the limit and what is used of it.
Refused(headers, refusal) ==
  /\ pc = "calling"
  /\ CallProvider("refused", None, headers)
  /\ LET body == LimitFromMessage(refusal)
         named == IF body # None /\ body.code = "TPD" THEN body.used ELSE None
     IN  Score(Case(Question, "rate_limited", FALSE, bill, named))
  /\ UNCHANGED <<spend, gold, reports, books, world, args, runs, meter>>

Failed(headers) ==
  /\ pc = "calling"
  /\ CallProvider("failed", None, headers)
  /\ Score(Case(Question, "provider_error", FALSE, bill, None))
  /\ UNCHANGED <<spend, gold, reports, books, world, args, runs, meter>>

\* The loop may ask again while it has calls left.
AskAgainUnbounded ==  \* faulty: the budget is not looked at
  /\ pc = "answered" /\ IsLoop
  /\ pc' = "asking"
  /\ UNCHANGED <<pacing, progress, books, world, args, code, runs, meter>>

AskAgain ==
  /\ pc = "answered" /\ IsLoop /\ calls < CallBudget
  /\ pc' = "asking"
  /\ UNCHANGED <<pacing, progress, books, world, args, code, runs, meter>>

\* The statement ran: its rows are compared with the reference rows.
Execute(rows) ==
  /\ pc = "answered"
  /\ Score(ExecutedCase(Question,
             ResultsMatch(gold[Question.id].rows, rows, Question.ordered), bill, None))
  /\ UNCHANGED <<pacing, spend, gold, reports, books, world, args, runs, meter>>

\* Or it did not, or there was none.
Conclude(ending) ==
  /\ pc = "answered"
  /\ Score(Case(Question, ending.category, ending.sql, bill, None))
  /\ UNCHANGED <<pacing, spend, gold, reports, books, world, args, runs, meter>>

\* run_pass returns its report; run_evaluation goes on to the next pass.
EndPass ==
  /\ pc = "asking" /\ ~More
  /\ reports' = Append(reports, Aggregate(cases))
  /\ cases' = <<>>
  /\ pc' = IF Len(reports) + 1 < args.repeat THEN "asking" ELSE "recording"
  /\ UNCHANGED <<pacing, spend, gold, calls, bill, books, world, args, code, runs,
                 meter>>

----------------------------------------------------------------------------
(* Keeping the books.                                                      *)

\* total_usage of the passes, and the cases of all of them.
TotalOfFirst(passes) == passes[1].usage  \* faulty: the first pass speaks for all

TotalOf(passes) ==
  LET sum[n \in 0..Len(passes)] ==
        IF n = 0 THEN NoUsage ELSE Plus(sum[n - 1], passes[n].usage)
  IN  sum[Len(passes)]

CasesOf(passes) == UNION {Range(passes[i].cases) : i \in DOMAIN passes}
RateLimitedAtFirst(passes) ==  \* faulty: so does it here
  {c \in Range(passes[1].cases) : c.category = "rate_limited"}
RateLimited(passes) == {c \in CasesOf(passes) : c.category = "rate_limited"}

\* The printed report, and the day's total: what went through the wrapper.
RecordScoredSpend ==  \* faulty: the reports are added up, which know no probe
  /\ pc = "recording"
  /\ ~SummaryFails(lastLimits)
  /\ IF ~args.ignoreSpend /\ TotalOf(reports).measured
     THEN /\ Record(TotalOf(reports).tokens, TotalOf(reports).calls)
          /\ told' = told + meter.probe + meter.questions
     ELSE UNCHANGED <<ledger, told>>
  /\ pc' = "reconciling"
  /\ UNCHANGED <<pacing, progress, evals, world, args, code, runs, meter>>

RecordSpend ==
  /\ pc = "recording"
  /\ ~SummaryFails(lastLimits)
  /\ IF ~args.ignoreSpend /\ paced.spent.measured
     THEN /\ Record(paced.spent.tokens, paced.calls)
          /\ told' = told + meter.probe + meter.questions
     ELSE UNCHANGED <<ledger, told>>
  /\ pc' = "reconciling"
  /\ UNCHANGED <<pacing, progress, evals, world, args, code, runs, meter>>

\* used_tokens_from_refusals: the most any refusal of the run named.
NamedFigures == {c.named : c \in RateLimited(reports)} \ {None}

ReconcileFromRefusals ==
  /\ pc = "reconciling"
  /\ IF args.ignoreSpend \/ NamedFigures = {}
     THEN UNCHANGED ledger
     ELSE \E largest \in NamedFigures :
            (\A n \in NamedFigures : n <= largest) /\ Reconcile(largest)
  /\ pc' = "filing"
  /\ UNCHANGED <<pacing, progress, evals, told, world, args, code, runs, meter>>

\* A number taken against the clock is not filed.
RefuseToFile ==
  /\ pc = "filing" /\ args.record /\ RateLimited(reports) # {}
  /\ Exit(1)
  /\ UNCHANGED <<pacing, progress, books, world, args, runs, meter>>

\* format_report: the entry of a run, with the failing cases by name unless
\* the split is the held-out one and they were not asked for.
Entry ==
  LET first == reports[1]
      revealed == args.reveal /\ args.split = "test"
      withheld == args.split = "test" /\ ~revealed
  IN  [prompt |-> PromptFingerprint, schema |-> SchemaFingerprint,
       split |-> args.split, partition |-> SplitFingerprint(Dataset),
       scored |-> {c.id : c \in Range(first.cases)},
       usage |-> TotalOf(reports), passes |-> Len(reports), revealed |-> revealed,
       detail |-> IF withheld THEN {} ELSE first.failures]

\* append_to_evals.
File ==
  /\ pc = "filing" /\ args.record /\ RateLimited(reports) = {}
  /\ evals' = Append(evals, Entry)
  /\ Exit(0)
  /\ UNCHANGED <<pacing, progress, ledger, told, world, args, runs, meter>>

LeaveUnrecorded ==
  /\ pc = "filing" /\ ~args.record
  /\ Exit(0)
  /\ UNCHANGED <<pacing, progress, books, world, args, runs, meter>>

----------------------------------------------------------------------------
(* The world outside the run.                                              *)

\* The process ends where it stands: interrupted, or by an exception, which
\* summary() raises of a bucket with no remainder.  Killed while it writes the
\* ledger, it leaves a file nobody can read.
Die ==
  /\ pc # "ended"
  /\ pc' = "ended" /\ code' = None
  /\ \/ UNCHANGED <<ledger, told>>
     \/ pc \in {"recording", "reconciling"} /\ ledger' = NoFile /\ told' = 0
  /\ Forget
  /\ UNCHANGED <<evals, world, args, runs>>

Midnight ==
  /\ today < MaxDay
  /\ today' = today + 1 /\ told' = 0
  /\ UNCHANGED <<pacing, progress, evals, ledger, document, database, pc, args,
                 code, runs, meter>>

----------------------------------------------------------------------------
Steps == {"ended", "checking", "probing", "weighing", "verifying", "asking",
          "calling", "answered", "recording", "reconciling", "filing"}

\* The types of the state, and the call budget of a question.
TypeOK ==
  /\ pc \in Steps /\ args \in Invocations
  /\ document \in Documents /\ database \in Databases
  /\ today \in 0..MaxDay /\ runs \in 0..MaxRuns
  /\ code \in {None, 0, 1, 2}
  /\ spend \in DailySpend \cup {NoFile} /\ ledger \in DailySpend \cup {NoFile}
  /\ told \in Nat /\ meter \in [probe : Nat, questions : Nat]
  /\ calls \in 0..CallBudget /\ bill \in TokenUsage
  /\ lastUsage \in TokenUsage \cup {None}
  /\ lastLimits \in RateLimitSnapshot \cup {None}
  /\ retryAfter \in Nat \cup {None}
  /\ paced \in [spent : TokenUsage, calls : Nat]
  /\ pause \in [elapsed : Nat, wait : Nat]

Init ==
  /\ pc = "ended" /\ code = None /\ runs = 0
  /\ args = CHOOSE invocation \in Invocations : TRUE
  /\ document = CHOOSE d \in Documents : TRUE
  /\ database = CHOOSE d \in Databases : TRUE
  /\ today = 0
  /\ ledger = NoFile /\ evals = <<>> /\ told = 0
  /\ spend = NoFile /\ gold = <<>> /\ calls = 0 /\ bill = NoUsage
  /\ cases = <<>> /\ reports = <<>>
  /\ meter = [probe |-> 0, questions |-> 0]
  /\ lastUsage = None /\ lastLimits = None /\ retryAfter = None
  /\ paced = [spent |-> NoUsage, calls |-> 0]
  /\ pause = [elapsed |-> 0, wait |-> 0]

Next ==
  \/ Start \/ RefuseArguments \/ RefuseCost \/ ReadLedger
  \/ \E status \in {"answered", "refused", "failed"}, usage \in Usages,
        headers \in Headers : Probe(status, usage, headers)
  \/ RefuseQuota \/ PassQuota \/ RefuseFingerprint \/ ExecuteGold
  \/ ScoreBrokenGold \/ ScoreWithoutCalls
  \/ \E elapsed \in Gaps : Wait(elapsed)
  \/ \E usage \in Usages, headers \in Headers : Answered(usage, headers)
  \/ \E headers \in Headers, refusal \in Refusals : Refused(headers, refusal)
  \/ \E headers \in Headers : Failed(headers)
  \/ AskAgain
  \/ \E rows \in Answers : Execute(rows)
  \/ \E ending \in Conclusions : Conclude(ending)
  \/ EndPass
  \/ RecordSpend \/ ReconcileFromRefusals
  \/ RefuseToFile \/ File \/ LeaveUnrecorded
  \/ Die \/ Midnight

Spec == Init /\ [][Next]_vars

----------------------------------------------------------------------------
(* Properties.                                                             *)

\* No call is sent into a bucket that, by the provider's own last word, cannot
\* yet hold what it is reckoned to cost, none before the retry-after it gave
\* unless that is longer than the pacer is willing to wait, and no wait is a
\* second longer than the buckets called for (PacedProvider._wait_seconds).
PausesAreJustified ==
  pc = "calling" =>
    IF retryAfter # None THEN
      pause.elapsed + pause.wait >= retryAfter \/ pause.wait >= MaxRetryWait
    ELSE lastLimits # None =>
      /\ ~Short(pause.elapsed + pause.wait)
      /\ pause.wait > 0 => Short(pause.elapsed + pause.wait - 1)

\* As long as no refusal has replaced it, the ledger's figure for today is the
\* sum of what the provider billed the runs that came to their report: every
\* call of them, the probe included, and none twice (ledger.record,
\* PacedProvider.spent).
LedgerIsExact ==
  ledger # NoFile /\ ledger.day = today /\ ~ledger.reconciled =>
    ledger.tokens = told

\* When a run was refused for the day's tokens, the provider's own total is
\* what the ledger holds once its books are kept: a later estimate is not
\* added to it, and of several totals the last word of the provider, the
\* largest, stands (used_tokens_from_refusals, and its place in main()).
ReconciledFigureStands ==
  pc = "ended" /\ code \in {0, 1} /\ Len(reports) = args.repeat
      /\ ~args.ignoreSpend /\ NamedFigures # {} =>
    ledger.reconciled /\ \A n \in NamedFigures : n <= ledger.tokens
                      /\ ledger.tokens \in NamedFigures

\* No entry of EVALS.md comes from a run one of whose passes, not only the
\* first, was rate limited (AC18).
RefusedRunsAreNotFiled ==
  pc = "ended" /\ code = 0 /\ args.record =>
    \A i \in DOMAIN reports : \A j \in DOMAIN reports[i].cases :
      reports[i].cases[j].category # "rate_limited"

\* The tokens an entry calls measured are what the provider billed for the
\* questions of every pass, and not for the probe (total_usage).
EntriesBillEveryPass ==
  pc = "ended" /\ code = 0 /\ args.record =>
    LET entry == evals[Len(evals)]
    IN  /\ entry.passes = args.repeat
        /\ entry.usage.measured => entry.usage.tokens = meter.questions

\* Two entries that look comparable, with one split and one split fingerprint,
\* were taken over the same questions, whatever was done to the dataset
\* between the two (split_fingerprint, questions_in_split).
ComparableEntriesScoredTheSame ==
  \A i, j \in 1..Len(evals) :
    evals[i].split = evals[j].split /\ evals[i].partition = evals[j].partition =>
      evals[i].scored = evals[j].scored
=============================================================================
