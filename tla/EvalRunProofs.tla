---------------------------- MODULE EvalRunProofs ---------------------------
(***************************************************************************)
(* Theorems about EvalRun: for every sequence of runs, dataset edits,      *)
(* refusals and midnights the day's ledger says what the provider billed,  *)
(* or what the provider itself named, and no run the provider refused is   *)
(* filed as a measurement.                                                 *)
(*                                                                         *)
(* The argument: what the pacer has counted is at every moment what the    *)
(* run's calls were reported to cost (Billing), so the one addition made   *)
(* at the end carries the ledger from one exact figure to the next; and    *)
(* every figure a refusal names stays in the reports until the books are   *)
(* kept (Passes).                                                          *)
(***************************************************************************)
EXTENDS EvalRun, PacingProofs

\* What a case or a report may say of the day's tokens.
NamesTokens(list) ==
  \E S : list \in Seq(S) /\ \A c \in S : c.named \in Nat \cup {None}

NamedInv ==
  /\ NamesTokens(cases)
  /\ \E S : reports \in Seq(S) /\ \A r \in S : NamesTokens(r.cases)

\* The pacer's total is the run's reported cost.
Billing ==
  /\ paced \in [spent : TokenUsage, calls : Nat]
  /\ meter \in [probe : Nat, questions : Nat]
  /\ paced.spent.tokens = meter.probe + meter.questions

\* The ledger is of today, or of an earlier day, or absent.
LedgerInv ==
  /\ Billing
  /\ today \in Nat /\ told \in Nat
  /\ ledger \in DailySpend \cup {NoFile}
  /\ ledger # NoFile => ledger.day <= today
  /\ ledger = NoFile => told = 0
  /\ ledger # NoFile /\ ledger.day # today => told = 0
  /\ LedgerIsExact

\* How many passes a run has behind it.
Before == {"checking", "probing", "weighing", "verifying"}
During == {"asking", "calling", "answered"}

Passes ==
  /\ args \in Invocations
  /\ pc \in Before => reports = <<>>
  /\ pc \in (Before \cup During) \ {"checking"} => args.repeat > 0
  /\ pc \in During => Len(reports) < args.repeat
  /\ pc = "filing" /\ ~args.ignoreSpend /\ NamedFigures # {} =>
       ledger.reconciled /\ ledger.tokens \in NamedFigures
         /\ \A n \in NamedFigures : n <= ledger.tokens

----------------------------------------------------------------------------
(* Sequences, usages and figures.                                          *)

\* Appending a case that names a figure, or none, keeps a list of such cases.
LEMMA AppendNames ==
  ASSUME NEW list, NamesTokens(list), NEW c, c.named \in Nat \cup {None}
  PROVE  NamesTokens(Append(list, c))
<1>1. PICK S : list \in Seq(S) /\ \A x \in S : x.named \in Nat \cup {None}
  BY DEF NamesTokens
<1>2. Append(list, c) \in Seq(S \cup {c})
  <2>1. list \in Seq(S \cup {c}) BY <1>1
  <2> QED BY <2>1
<1> QED BY <1>1, <1>2 DEF NamesTokens

\* The empty list names nothing.
LEMMA EmptyNames == NamesTokens(<<>>)
<1>1. PICK S : S = {} OBVIOUS
<1>2. <<>> \in Seq(S) OBVIOUS
<1>3. \A c \in S : c.named \in Nat \cup {None} BY <1>1
<1> QED BY <1>2, <1>3 DEF NamesTokens

\* TokenUsage.__add__ adds the token counts, the identity included.
LEMMA PlusTokens ==
  ASSUME NEW u \in TokenUsage, NEW v \in TokenUsage
  PROVE  Plus(u, v) \in TokenUsage /\ Plus(u, v).tokens = u.tokens + v.tokens
BY DEF Plus, IsZero, TokenUsage

\* The cases of a report are the cases it was made of.
LEMMA AggregateCases == ASSUME NEW list PROVE Aggregate(list).cases = list
BY DEF Aggregate

\* Every figure a refusal named is a count of tokens.
LEMMA FiguresAreCounts == ASSUME NamedInv PROVE NamedFigures \subseteq Nat
<1>1. PICK S : reports \in Seq(S) /\ \A r \in S : NamesTokens(r.cases)
  BY DEF NamedInv
<1> SUFFICES ASSUME NEW n \in NamedFigures PROVE n \in Nat
  OBVIOUS
<1>2. PICK c \in CasesOf(reports) : n = c.named /\ n # None
  BY DEF NamedFigures, RateLimited
<1>3. PICK i \in DOMAIN reports : c \in Range(reports[i].cases)
  BY DEF CasesOf
<1>4. NamesTokens(reports[i].cases) BY <1>1, <1>3
<1>5. PICK T : /\ reports[i].cases \in Seq(T)
               /\ \A x \in T : x.named \in Nat \cup {None}
  BY <1>4 DEF NamesTokens
<1>6. c \in T BY <1>3, <1>5 DEF Range
<1> QED BY <1>2, <1>5, <1>6

----------------------------------------------------------------------------
(* What the cases and the reports name.                                    *)

\* run_case files a figure only from a 429 that named the tokens of the day.
LEMMA NamedStep == ASSUME NamedInv, [Next]_vars PROVE NamedInv'
<1> USE EvalAssumption, EmptyNames
<1>1. ASSUME NEW c, c.named \in Nat \cup {None}, Score(c), reports' = reports
      PROVE  NamedInv'
  <2>1. cases' = Append(cases, c) BY <1>1 DEF Score
  <2>2. NamesTokens(cases') BY <1>1, <2>1, AppendNames DEF NamedInv
  <2> QED BY <1>1, <2>2 DEF NamedInv
<1>2. ASSUME Forget PROVE NamedInv'
  <2>1. cases' = <<>> /\ reports' = <<>> BY <1>2 DEF Forget
  <2>2. PICK S : S = {} OBVIOUS
  <2>3. <<>> \in Seq(S) /\ \A r \in S : NamesTokens(r.cases) BY <2>2
  <2> QED BY <2>1, <2>3 DEF NamedInv
<1>3. ASSUME UNCHANGED <<cases, reports>> PROVE NamedInv'
  BY <1>3 DEF NamedInv
<1>4. CASE Start \/ Die BY <1>4, <1>2 DEF Start, Die
<1>5. CASE ScoreBrokenGold \/ ScoreWithoutCalls
  BY <1>5, <1>1 DEF ScoreBrokenGold, ScoreWithoutCalls, Case
<1>6. ASSUME NEW headers \in Headers, NEW refusal \in Refusals, Refused(headers, refusal)
      PROVE  NamedInv'
  <2> DEFINE body == LimitFromMessage(refusal)
             named == IF body # None /\ body.code = "TPD" THEN body.used ELSE None
  <2>1. named \in Nat \cup {None} BY DEF LimitFromMessage
  <2>2. Case(Question, "rate_limited", FALSE, bill, named).named = named BY DEF Case
  <2> QED BY <1>6, <1>1, <2>1, <2>2 DEF Refused
<1>7. ASSUME NEW headers \in Headers, Failed(headers) PROVE NamedInv'
  BY <1>7, <1>1 DEF Failed, Case
<1>8. ASSUME NEW rows \in Answers, Execute(rows) PROVE NamedInv'
  <2> DEFINE correct == ResultsMatch(gold[Question.id].rows, rows, Question.ordered)
  <2>1. ExecutedCase(Question, correct, bill, None).named = None BY DEF ExecutedCase
  <2> QED BY <1>8, <1>1, <2>1 DEF Execute
<1>9. ASSUME NEW ending \in Conclusions, Conclude(ending) PROVE NamedInv'
  BY <1>9, <1>1 DEF Conclude, Case
<1>10. CASE EndPass
  <2>1. cases' = <<>> /\ reports' = Append(reports, Aggregate(cases))
    BY <1>10 DEF EndPass
  <2>2. PICK S : reports \in Seq(S) /\ \A r \in S : NamesTokens(r.cases)
    BY DEF NamedInv
  <2>3. Append(reports, Aggregate(cases)) \in Seq(S \cup {Aggregate(cases)})
    <3>1. reports \in Seq(S \cup {Aggregate(cases)}) BY <2>2
    <3> QED BY <3>1
  <2>4. NamesTokens(Aggregate(cases).cases) BY AggregateCases DEF NamedInv
  <2> HIDE DEF NamesTokens
  <2> QED BY <2>1, <2>2, <2>3, <2>4 DEF NamedInv
<1>11. CASE RefuseArguments \/ RefuseCost \/ ReadLedger \/ RefuseQuota \/ PassQuota
            \/ RefuseFingerprint \/ ExecuteGold \/ AskAgain
  BY <1>11, <1>3 DEF RefuseArguments, RefuseCost, ReadLedger, RefuseQuota,
     PassQuota, RefuseFingerprint, ExecuteGold, AskAgain, progress
<1>12. CASE RecordSpend \/ ReconcileFromRefusals \/ RefuseToFile \/ File
            \/ LeaveUnrecorded \/ Midnight
  BY <1>12, <1>3 DEF RecordSpend, ReconcileFromRefusals, RefuseToFile, File,
     LeaveUnrecorded, Midnight, progress
<1>13. ASSUME NEW status \in {"answered", "refused", "failed"},
              NEW usage \in Usages, NEW headers \in Headers,
              Probe(status, usage, headers)
       PROVE  NamedInv'
  BY <1>13, <1>3 DEF Probe, progress
<1>14. ASSUME NEW elapsed \in Gaps, Wait(elapsed) PROVE NamedInv'
  BY <1>14, <1>3 DEF Wait, progress
<1>15. ASSUME NEW usage \in Usages, NEW headers \in Headers, Answered(usage, headers)
       PROVE  NamedInv'
  BY <1>15, <1>3 DEF Answered
<1>16. CASE UNCHANGED vars BY <1>16, <1>3 DEF vars, progress
<1> HIDE DEF NamedInv
<1> QED BY <1>4, <1>5, <1>6, <1>7, <1>8, <1>9, <1>10, <1>11, <1>12, <1>13, <1>14,
           <1>15, <1>16 DEF Next

\* The figure a refusal names, in every case and report, is a number or none.
LEMMA NamedInductive == Spec => []NamedInv
<1>1. Init => NamedInv
  <2> SUFFICES ASSUME Init PROVE NamedInv OBVIOUS
  <2>1. cases = <<>> /\ reports = <<>> BY DEF Init
  <2>2. PICK S : S = {} OBVIOUS
  <2>3. <<>> \in Seq(S) /\ \A r \in S : NamesTokens(r.cases) BY <2>2
  <2> QED BY <2>1, <2>3, EmptyNames DEF NamedInv
<1>2. NamedInv /\ [Next]_vars => NamedInv' BY NamedStep
<1> QED BY <1>1, <1>2, PTL DEF Spec

----------------------------------------------------------------------------
(* What was spent.                                                         *)

\* The pacer sees every call, and nothing but calls.
LEMMA BillingStep == ASSUME Billing, [Next]_vars PROVE Billing'
<1> USE EvalAssumption DEF Billing
<1>1. ASSUME NEW status \in {"answered", "refused", "failed"},
             NEW usage \in Usages, NEW headers, CallProvider(status, usage, headers)
      PROVE  /\ paced' \in [spent : TokenUsage, calls : Nat]
             /\ paced'.spent.tokens = paced.spent.tokens + Reported(usage)
             /\ Reported(usage) \in Nat
             /\ status # "answered" => usage = None
  <2>1. PICK limits, refused : Complete(usage, limits, refused)
    BY <1>1 DEF CallProvider, GroqProvider, CerebrasProvider
  <2>2. status # "answered" => usage = None
    BY <1>1 DEF CallProvider, GroqProvider, CerebrasProvider
  <2>3. CASE usage = None
    BY <2>1, <2>2, <2>3 DEF Complete, Reported, TokenUsage
  <2>4. CASE usage # None
    <3>1. usage \in TokenUsage /\ usage.tokens \in Nat
      <4>1. usage \in TokenUsage BY <2>4
      <4> QED BY <4>1 DEF TokenUsage
    <3>2. /\ Plus(paced.spent, usage) \in TokenUsage
          /\ Plus(paced.spent, usage).tokens = paced.spent.tokens + usage.tokens
      BY <3>1, PlusTokens
    <3> QED BY <2>1, <2>2, <2>4, <3>1, <3>2 DEF Complete, Reported
  <2> QED BY <2>3, <2>4
<1>2. ASSUME Forget PROVE Billing'
  BY <1>2 DEF Forget, NewPacer, NoUsage, TokenUsage
<1>3. ASSUME UNCHANGED <<paced, meter>> PROVE Billing'
  BY <1>3
<1>4. CASE Start \/ Die BY <1>4, <1>2 DEF Start, Die
<1>5. ASSUME NEW status \in {"answered", "refused", "failed"},
             NEW usage \in Usages, NEW headers \in Headers,
             Probe(status, usage, headers)
      PROVE  Billing'
  <2>1. CallProvider(status, usage, headers) BY <1>5 DEF Probe
  <2>2. meter' = [meter EXCEPT !.probe = @ + Reported(usage)] BY <1>5 DEF Probe
  <2>3. paced.spent.tokens \in Nat BY DEF TokenUsage
  <2> QED BY <1>1, <2>1, <2>2, <2>3
<1>6. ASSUME NEW usage \in Usages, NEW headers \in Headers, Answered(usage, headers)
      PROVE  Billing'
  <2>1. CallProvider("answered", usage, headers) BY <1>6 DEF Answered
  <2>2. meter' = [meter EXCEPT !.questions = @ + Reported(usage)] BY <1>6 DEF Answered
  <2>3. paced.spent.tokens \in Nat BY DEF TokenUsage
  <2> QED BY <1>1, <2>1, <2>2, <2>3
<1>7. ASSUME NEW headers \in Headers,
             (\E refusal \in Refusals : Refused(headers, refusal)) \/ Failed(headers)
      PROVE  Billing'
  <2>1. PICK status \in {"refused", "failed"} : CallProvider(status, None, headers)
    BY <1>7 DEF Refused, Failed
  <2>2. meter' = meter BY <1>7 DEF Refused, Failed
  <2>3. PICK limits, refused : Complete(None, limits, refused)
    BY <2>1 DEF CallProvider, GroqProvider, CerebrasProvider
  <2>4. paced'.spent = paced.spent /\ paced'.calls = paced.calls + 1
        /\ paced' \in [spent : TokenUsage, calls : Nat]
    BY <2>3 DEF Complete
  <2> QED BY <2>2, <2>4
<1>8. ASSUME NEW elapsed \in Gaps, Wait(elapsed) PROVE Billing'
  BY <1>8 DEF Wait, Pace
<1>9. CASE ScoreBrokenGold \/ ScoreWithoutCalls
  BY <1>9, <1>3 DEF ScoreBrokenGold, ScoreWithoutCalls, pacing
<1>10. ASSUME (\E rows \in Answers : Execute(rows)) \/
              (\E ending \in Conclusions : Conclude(ending))
       PROVE  Billing'
  BY <1>10, <1>3 DEF Execute, Conclude, pacing
<1>11. CASE RefuseArguments \/ RefuseCost \/ ReadLedger \/ RefuseQuota \/ PassQuota
            \/ RefuseFingerprint \/ ExecuteGold \/ AskAgain \/ EndPass
  BY <1>11, <1>3 DEF RefuseArguments, RefuseCost, ReadLedger, RefuseQuota,
     PassQuota, RefuseFingerprint, ExecuteGold, AskAgain, EndPass, pacing
<1>12. CASE RecordSpend \/ ReconcileFromRefusals \/ RefuseToFile \/ File
            \/ LeaveUnrecorded \/ Midnight
  BY <1>12, <1>3 DEF RecordSpend, ReconcileFromRefusals, RefuseToFile, File,
     LeaveUnrecorded, Midnight, pacing
<1>13. CASE UNCHANGED vars BY <1>13, <1>3 DEF vars, pacing
<1> HIDE DEF Billing
<1> QED BY <1>4, <1>5, <1>6, <1>7, <1>8, <1>9, <1>10, <1>11, <1>12, <1>13 DEF Next

\* ledger.load returns a record of the day.
LEMMA LoadIsDailySpend == ASSUME LedgerInv PROVE Load \in DailySpend
<1>1. EmptyDay \in DailySpend BY DEF LedgerInv, EmptyDay, DailySpend
<1>2. ledger # NoFile => ledger \in DailySpend BY DEF LedgerInv
<1> QED BY <1>1, <1>2, Zenon DEF Load

\* Record adds to what the file says of today, and starts from nothing else.
LEMMA LedgerStep == ASSUME LedgerInv, NamedInv, [Next]_vars PROVE LedgerInv'
<1> USE EvalAssumption, LedgerAssumption
<1>1. Billing' BY BillingStep DEF LedgerInv
<1>2. ASSUME UNCHANGED <<ledger, told, today>> PROVE LedgerInv'
  BY <1>1, <1>2 DEF LedgerInv, LedgerIsExact, DailySpend
<1>3. CASE RecordSpend
  <2>1. CASE UNCHANGED <<ledger, told>>
    BY <1>2, <1>3, <2>1 DEF RecordSpend, world
  <2>2. CASE /\ Record(paced.spent.tokens, paced.calls)
             /\ told' = told + meter.probe + meter.questions
    <3>1. /\ paced.spent.tokens \in Nat /\ paced.calls \in Nat
          /\ meter.probe \in Nat /\ meter.questions \in Nat
          /\ paced.spent.tokens = meter.probe + meter.questions
      BY DEF LedgerInv, Billing, TokenUsage
    <3>2. today' = today BY <1>3 DEF RecordSpend, world
    <3>3. /\ Load \in DailySpend /\ Load.day = today
          /\ ~Load.reconciled => Load.tokens = told
      BY DEF LedgerInv, LedgerIsExact, Load, EmptyDay, DailySpend
    <3>4. ledger' = [Load EXCEPT !.tokens = @ + paced.spent.tokens,
                                 !.requests = @ + paced.calls]
      BY <2>2 DEF Record
    <3>5. /\ ledger' \in DailySpend /\ ledger'.day = today
          /\ ledger'.reconciled = Load.reconciled
          /\ ledger'.tokens = Load.tokens + paced.spent.tokens
      <4>1. PICK old \in DailySpend : old = Load BY <3>3
      <4>2. PICK t \in Nat, n \in Nat : t = paced.spent.tokens /\ n = paced.calls
        BY <3>1
      <4>3. ledger' = [old EXCEPT !.tokens = @ + t, !.requests = @ + n]
        BY <3>4, <4>1, <4>2
      <4>4. ledger' = [day |-> old.day, tokens |-> old.tokens + t,
                       requests |-> old.requests + n, reconciled |-> old.reconciled]
        BY <4>3 DEF DailySpend
      <4>5. /\ old.day \in Nat /\ old.reconciled \in BOOLEAN
            /\ old.tokens \in Nat /\ old.requests \in Nat
        BY DEF DailySpend
      <4>6. old.tokens + t \in Nat /\ old.requests + n \in Nat BY <4>5
      <4>7. ledger' \in DailySpend BY <4>4, <4>5, <4>6, Zenon DEF DailySpend
      <4> QED BY <3>3, <4>1, <4>2, <4>4, <4>7
    <3>6. told \in Nat /\ told' \in Nat /\ told' = told + paced.spent.tokens
          /\ today \in Nat
      BY <2>2, <3>1 DEF LedgerInv
    <3> QED BY <1>1, <3>1, <3>2, <3>3, <3>5, <3>6
            DEF LedgerInv, LedgerIsExact, DailySpend
  <2> QED BY <1>3, <2>1, <2>2 DEF RecordSpend
<1>4. CASE ReconcileFromRefusals
  <2>1. told' = told /\ today' = today
    BY <1>4 DEF ReconcileFromRefusals, world
  <2>2. CASE ledger' = ledger BY <1>2, <2>1, <2>2
  <2>3. CASE \E figure \in NamedFigures : Reconcile(figure)
    <3>1. PICK figure \in NamedFigures : Reconcile(figure) BY <2>3
    <3>2. figure \in Nat BY FiguresAreCounts
    <3>3. Load \in DailySpend /\ Load.day = today
      BY DEF LedgerInv, Load, EmptyDay, DailySpend
    <3>4. ledger' \in DailySpend /\ ledger'.day = today /\ ledger'.reconciled
      BY <3>1, <3>2, <3>3 DEF Reconcile, DailySpend
    <3> QED BY <1>1, <2>1, <3>4 DEF LedgerInv, LedgerIsExact, DailySpend
  <2> QED BY <1>4, <2>2, <2>3 DEF ReconcileFromRefusals
<1>5. CASE Die
  <2>1. CASE UNCHANGED <<ledger, told>> BY <1>2, <1>5, <2>1 DEF Die, world
  <2>2. CASE ledger' = NoFile /\ told' = 0
    BY <1>1, <1>5, <2>2 DEF Die, world, LedgerInv, LedgerIsExact
  <2> QED BY <1>5, <2>1, <2>2 DEF Die
<1>6. CASE Midnight
  <2>1. ledger' = ledger /\ today' = today + 1 /\ told' = 0 BY <1>6 DEF Midnight
  <2> QED BY <1>1, <2>1 DEF LedgerInv, LedgerIsExact, DailySpend
<1>7. CASE Start \/ RefuseArguments \/ RefuseCost \/ ReadLedger \/ RefuseQuota
           \/ PassQuota \/ RefuseFingerprint \/ ExecuteGold \/ AskAgain \/ EndPass
  BY <1>7, <1>2 DEF Start, RefuseArguments, RefuseCost, ReadLedger, RefuseQuota,
     PassQuota, RefuseFingerprint, ExecuteGold, AskAgain, EndPass, books, world
<1>8. CASE ScoreBrokenGold \/ ScoreWithoutCalls \/ RefuseToFile \/ File
           \/ LeaveUnrecorded
  BY <1>8, <1>2 DEF ScoreBrokenGold, ScoreWithoutCalls, RefuseToFile, File,
     LeaveUnrecorded, books, world
<1>9. ASSUME NEW status \in {"answered", "refused", "failed"},
             NEW usage \in Usages, NEW headers \in Headers,
             Probe(status, usage, headers)
      PROVE  LedgerInv'
  BY <1>9, <1>2 DEF Probe, books, world
<1>10. ASSUME (\E elapsed \in Gaps : Wait(elapsed)) \/
              (\E usage \in Usages, headers \in Headers : Answered(usage, headers))
       PROVE  LedgerInv'
  BY <1>10, <1>2 DEF Wait, Answered, books, world
<1>11. ASSUME NEW headers \in Headers,
              (\E refusal \in Refusals : Refused(headers, refusal)) \/ Failed(headers)
       PROVE  LedgerInv'
  BY <1>11, <1>2 DEF Refused, Failed, books, world
<1>12. ASSUME (\E rows \in Answers : Execute(rows)) \/
              (\E ending \in Conclusions : Conclude(ending))
       PROVE  LedgerInv'
  BY <1>12, <1>2 DEF Execute, Conclude, books, world
<1>13. CASE UNCHANGED vars BY <1>13, <1>2 DEF vars, books, world
<1> HIDE DEF LedgerInv
<1> QED BY <1>3, <1>4, <1>5, <1>6, <1>7, <1>8, <1>9, <1>10, <1>11, <1>12, <1>13
        DEF Next

\* As long as no refusal has replaced it, the ledger's figure for today is the
\* sum of what the provider billed the runs that came to their report
\* (ledger.record, PacedProvider.spent).
THEOREM LedgerExact == Spec => []LedgerIsExact
<1>1. Init => LedgerInv
  BY EvalAssumption, LedgerAssumption
     DEF Init, LedgerInv, Billing, LedgerIsExact, NoUsage, TokenUsage
<1>2. LedgerInv /\ NamedInv /\ [Next]_vars => LedgerInv' BY LedgerStep
<1>3. LedgerInv => LedgerIsExact BY DEF LedgerInv
<1> QED BY <1>1, <1>2, <1>3, NamedInductive, PTL DEF Spec

----------------------------------------------------------------------------
(* What refusals say.                                                      *)

\* An action that ends the run with exit code 0 is one of the two last ones.
LEMMA FiledStep ==
  ASSUME RefusedRunsAreNotFiled, [Next]_vars PROVE RefusedRunsAreNotFiled'
<1> USE EvalAssumption, PacingAssumption
<1>1. ASSUME pc' # "ended" \/ code' # 0 PROVE RefusedRunsAreNotFiled'
  BY <1>1 DEF RefusedRunsAreNotFiled
<1>2. ASSUME UNCHANGED <<pc, args, code, reports>> PROVE RefusedRunsAreNotFiled'
  BY <1>2 DEF RefusedRunsAreNotFiled
<1>3. ASSUME NEW c, Score(c), pc # "ended" PROVE RefusedRunsAreNotFiled'
  <2>1. pc' = "asking" \/ code' = 1 BY <1>3 DEF Score, Exit
  <2> QED BY <1>1, <2>1
<1>4. CASE File
  <2>1. RateLimited(reports) = {} /\ reports' = reports
    BY <1>4 DEF File, progress
  <2>2. \A i \in DOMAIN reports : \A j \in DOMAIN reports[i].cases :
          reports[i].cases[j] \in CasesOf(reports)
    BY DEF CasesOf, Range
  <2>3. \A i \in DOMAIN reports : \A j \in DOMAIN reports[i].cases :
          reports[i].cases[j].category # "rate_limited"
    BY <2>1, <2>2 DEF RateLimited
  <2> QED BY <2>1, <2>3 DEF RefusedRunsAreNotFiled
<1>5. CASE LeaveUnrecorded
  BY <1>5 DEF LeaveUnrecorded, RefusedRunsAreNotFiled
<1>6. CASE Start \/ Die BY <1>6, <1>1 DEF Start, Die
<1>7. CASE RefuseArguments \/ RefuseCost \/ RefuseQuota \/ RefuseFingerprint
           \/ RefuseToFile
  BY <1>7, <1>1 DEF RefuseArguments, RefuseCost, RefuseQuota, RefuseFingerprint,
     RefuseToFile, Exit
<1>8. CASE ReadLedger \/ PassQuota \/ ExecuteGold \/ AskAgain \/ EndPass
           \/ RecordSpend \/ ReconcileFromRefusals
  BY <1>8, <1>1 DEF ReadLedger, PassQuota, ExecuteGold, AskAgain, EndPass,
     RecordSpend, ReconcileFromRefusals
<1>9. CASE ScoreBrokenGold \/ ScoreWithoutCalls
  BY <1>9, <1>3 DEF ScoreBrokenGold, ScoreWithoutCalls
<1>10. ASSUME NEW status \in {"answered", "refused", "failed"},
              NEW usage \in Usages, NEW headers \in Headers,
              Probe(status, usage, headers)
       PROVE  RefusedRunsAreNotFiled'
  BY <1>10, <1>1 DEF Probe
<1>11. ASSUME (\E elapsed \in Gaps : Wait(elapsed)) \/
              (\E usage \in Usages, headers \in Headers : Answered(usage, headers))
       PROVE  RefusedRunsAreNotFiled'
  BY <1>11, <1>1 DEF Wait, Answered
<1>12. ASSUME NEW headers \in Headers,
              (\E refusal \in Refusals : Refused(headers, refusal)) \/ Failed(headers)
       PROVE  RefusedRunsAreNotFiled'
  BY <1>12, <1>3 DEF Refused, Failed
<1>13. ASSUME (\E rows \in Answers : Execute(rows)) \/
              (\E ending \in Conclusions : Conclude(ending))
       PROVE  RefusedRunsAreNotFiled'
  BY <1>13, <1>3 DEF Execute, Conclude
<1>14. CASE Midnight BY <1>14, <1>2 DEF Midnight, progress
<1>15. CASE UNCHANGED vars BY <1>15, <1>2 DEF vars, progress
<1> HIDE DEF RefusedRunsAreNotFiled
<1> QED BY <1>4, <1>5, <1>6, <1>7, <1>8, <1>9, <1>10, <1>11, <1>12, <1>13, <1>14,
           <1>15 DEF Next

\* No entry of EVALS.md comes from a run one of whose passes was rate limited
\* (main()'s refusal before append_to_evals, AC18).
THEOREM RefusedNotFiled == Spec => []RefusedRunsAreNotFiled
<1>1. Init => RefusedRunsAreNotFiled
  BY PacingAssumption DEF Init, RefusedRunsAreNotFiled
<1> QED BY <1>1, FiledStep, PTL DEF Spec

\* The named figures depend on the reports alone.
LEMMA SameFigures ==
  ASSUME reports' = reports PROVE NamedFigures' = NamedFigures
BY DEF NamedFigures, RateLimited, CasesOf

\* The passes of a run are counted, and the figure it was refused with is kept
\* from the last report to the filing.
LEMMA PassesStep ==
  ASSUME Passes, NamedInv, LedgerInv, ReconciledFigureStands, [Next]_vars
  PROVE  Passes' /\ ReconciledFigureStands'
<1> USE EvalAssumption, PacingAssumption
<1>a. args.repeat \in Int BY DEF Passes
<1>b. \E S : reports \in Seq(S) BY DEF NamedInv
<1>1. ASSUME NEW status \in {1, 2}, Exit(status), reports' = reports, args' = args,
             status = 1 => Len(reports) # args.repeat
      PROVE  Passes' /\ ReconciledFigureStands'
  BY <1>1 DEF Passes, ReconciledFigureStands, Exit, Before, During
<1>2. ASSUME NEW c, Score(c), reports' = reports, args' = args, pc \in During
      PROVE  Passes' /\ ReconciledFigureStands'
  <2>1. Len(reports) < args.repeat /\ args.repeat > 0
    BY <1>2 DEF Passes, Before, During
  <2>2. Len(reports) \in Nat BY <1>b
  <2>3. CASE Exit(1) BY <1>1, <1>2, <1>a, <2>1, <2>2, <2>3
  <2>4. CASE pc' = "asking"
    BY <1>2, <2>1, <2>4 DEF Passes, ReconciledFigureStands, Before, During
  <2> QED BY <1>2, <2>3, <2>4 DEF Score
<1>3. CASE Start
  <2>1. reports' = <<>> /\ args' \in Invocations /\ pc' = "checking"
    BY <1>3 DEF Start, Forget
  <2> QED BY <2>1 DEF Passes, ReconciledFigureStands, Before, During
<1>4. CASE Die
  <2>1. pc' = "ended" /\ code' = None /\ args' = args BY <1>4 DEF Die
  <2> QED BY <2>1 DEF Passes, ReconciledFigureStands, Before, During
<1>5. CASE RefuseArguments
  BY <1>5, <1>1 DEF RefuseArguments, progress
<1>6. CASE RefuseCost
  <2>1. args.repeat > 0 /\ reports = <<>> /\ UNCHANGED <<reports, args>>
    BY <1>6 DEF RefuseCost, Acceptable, Passes, Before, progress
  <2>2. \E status \in {1, 2} : Exit(status) BY <1>6 DEF RefuseCost
  <2>3. Len(reports) # args.repeat BY <2>1, <1>a
  <2> QED BY <1>1, <2>1, <2>2, <2>3
<1>7. CASE RefuseQuota \/ RefuseFingerprint
  <2>1. args.repeat > 0 /\ reports = <<>> /\ UNCHANGED <<reports, args>> /\ Exit(1)
    BY <1>7 DEF RefuseQuota, RefuseFingerprint, Passes, Before, During, progress
  <2>2. Len(reports) # args.repeat BY <2>1, <1>a
  <2> QED BY <1>1, <2>1, <2>2
<1>8. ASSUME NEW next \in Before \cup During, pc' = next,
             UNCHANGED <<reports, args>>, args.repeat > 0,
             next \in Before => reports = <<>>,
             next \in During => Len(reports) < args.repeat
      PROVE  Passes' /\ ReconciledFigureStands'
  BY <1>8 DEF Passes, ReconciledFigureStands, Before, During
<1>9. CASE ReadLedger
  BY <1>9, <1>8 DEF ReadLedger, Acceptable, Passes, Before, During
<1>10. ASSUME NEW status \in {"answered", "refused", "failed"},
              NEW usage \in Usages, NEW headers \in Headers,
              Probe(status, usage, headers)
       PROVE  Passes' /\ ReconciledFigureStands'
  BY <1>10, <1>8 DEF Probe, Passes, Before, During, progress
<1>11. CASE PassQuota
  BY <1>11, <1>8 DEF PassQuota, Passes, Before, During, progress
<1>12. CASE ExecuteGold
  <2>1. /\ reports = <<>> /\ args.repeat > 0 /\ pc' = "asking"
        /\ UNCHANGED <<reports, args>>
    BY <1>12 DEF ExecuteGold, Passes, Before, During
  <2>2. Len(reports) < args.repeat BY <2>1, <1>a
  <2> QED BY <1>8, <2>1, <2>2 DEF Before, During
<1>13. ASSUME (\E elapsed \in Gaps : Wait(elapsed)) \/ AskAgain \/
              (\E usage \in Usages, headers \in Headers : Answered(usage, headers))
       PROVE  Passes' /\ ReconciledFigureStands'
  <2>1. /\ pc \in During /\ pc' \in During
        /\ UNCHANGED <<reports, args>>
    BY <1>13 DEF Wait, AskAgain, Answered, During, progress
  <2> QED BY <1>8, <2>1 DEF Passes, Before, During
<1>14. CASE ScoreBrokenGold \/ ScoreWithoutCalls
  BY <1>14, <1>2 DEF ScoreBrokenGold, ScoreWithoutCalls, During
<1>15. ASSUME NEW headers \in Headers,
              (\E refusal \in Refusals : Refused(headers, refusal)) \/ Failed(headers)
       PROVE  Passes' /\ ReconciledFigureStands'
  BY <1>15, <1>2 DEF Refused, Failed, During
<1>16. ASSUME (\E rows \in Answers : Execute(rows)) \/
              (\E ending \in Conclusions : Conclude(ending))
       PROVE  Passes' /\ ReconciledFigureStands'
  BY <1>16, <1>2 DEF Execute, Conclude, During
<1>17. CASE EndPass
  <2>1. /\ reports' = Append(reports, Aggregate(cases)) /\ args' = args
        /\ args.repeat > 0
        /\ pc' = IF Len(reports) + 1 < args.repeat THEN "asking" ELSE "recording"
    BY <1>17 DEF EndPass, Passes, Before, During
  <2>2. Len(reports') = Len(reports) + 1
    <3>1. PICK S : reports \in Seq(S) BY <1>b
    <3>2. reports \in Seq(S \cup {Aggregate(cases)}) BY <3>1
    <3> QED BY <2>1, <3>2
  <2> QED BY <2>1, <2>2 DEF Passes, ReconciledFigureStands, Before, During
<1>18. CASE RecordSpend
  BY <1>18 DEF RecordSpend, Passes, ReconciledFigureStands, Before, During
<1>19. CASE ReconcileFromRefusals
  <2>1. pc' = "filing" /\ args' = args /\ reports' = reports
    BY <1>19 DEF ReconcileFromRefusals, progress
  <2>2. NamedFigures' = NamedFigures BY <2>1, SameFigures
  <2>3. ASSUME ~args.ignoreSpend, NamedFigures # {}
        PROVE  /\ ledger'.reconciled /\ ledger'.tokens \in NamedFigures
               /\ \A n \in NamedFigures : n <= ledger'.tokens
    <3>1. PICK largest \in NamedFigures :
            (\A n \in NamedFigures : n <= largest) /\ Reconcile(largest)
      BY <1>19, <2>3 DEF ReconcileFromRefusals
    <3>2. ledger'.reconciled /\ ledger'.tokens = largest
      <4>1. ledger' = [Load EXCEPT !.tokens = largest, !.reconciled = TRUE]
        BY <3>1 DEF Reconcile
      <4>2. PICK old \in DailySpend : old = Load
        BY LoadIsDailySpend
      <4>3. ledger' = [day |-> old.day, tokens |-> largest,
                       requests |-> old.requests, reconciled |-> TRUE]
        <5>1. ledger' = [old EXCEPT !.tokens = largest, !.reconciled = TRUE]
          BY <4>1, <4>2, Zenon
        <5> QED BY <5>1 DEF DailySpend
      <4> QED BY <4>3
    <3> QED BY <3>1, <3>2
  <2> QED BY <2>1, <2>2, <2>3 DEF Passes, ReconciledFigureStands, Before, During
<1>20. CASE RefuseToFile \/ File \/ LeaveUnrecorded
  <2>1. /\ pc = "filing" /\ pc' = "ended"
        /\ UNCHANGED <<reports, args, ledger>>
    BY <1>20 DEF RefuseToFile, File, LeaveUnrecorded, Exit, progress, books
  <2>2. NamedFigures' = NamedFigures BY <2>1, SameFigures
  <2> QED BY <2>1, <2>2 DEF Passes, ReconciledFigureStands, Before, During
<1>21. CASE Midnight \/ UNCHANGED vars
  <2>1. UNCHANGED <<pc, args, code, reports, ledger>>
    BY <1>21 DEF Midnight, vars, progress, books
  <2>2. NamedFigures' = NamedFigures BY <2>1, SameFigures
  <2> QED BY <2>1, <2>2 DEF Passes, ReconciledFigureStands, Before, During
<1> HIDE DEF Passes, ReconciledFigureStands
<1> QED BY <1>3, <1>4, <1>5, <1>6, <1>7, <1>9, <1>10, <1>11, <1>12, <1>13, <1>14,
           <1>15, <1>16, <1>17, <1>18, <1>19, <1>20, <1>21 DEF Next

\* When a run was refused for the day's tokens, the largest total a refusal
\* named is what the ledger holds when the run has kept its books
\* (used_tokens_from_refusals after ledger.record in main()).
THEOREM ReconciledStands == Spec => []ReconciledFigureStands
<1>1. Init => Passes /\ ReconciledFigureStands
  BY EvalAssumption, PacingAssumption
     DEF Init, Passes, ReconciledFigureStands, Before, During
<1>2. Init => LedgerInv
  BY EvalAssumption, LedgerAssumption
     DEF Init, LedgerInv, Billing, LedgerIsExact, NoUsage, TokenUsage
<1>3. LedgerInv /\ NamedInv /\ [Next]_vars => LedgerInv' BY LedgerStep
<1>4. Passes /\ ReconciledFigureStands /\ NamedInv /\ LedgerInv /\ [Next]_vars =>
        (Passes /\ ReconciledFigureStands)'
  BY PassesStep
<1> QED BY <1>1, <1>2, <1>3, <1>4, NamedInductive, PTL DEF Spec

----------------------------------------------------------------------------
(* The pauses.                                                             *)

\* What the pacer keeps of the latest call.
Kept ==
  /\ lastUsage \in TokenUsage \cup {None}
  /\ lastLimits \in RateLimitSnapshot \cup {None}
  /\ retryAfter \in Nat \cup {None}

PaceInv == Kept /\ PausesAreJustified

\* What is kept of a call (its usage, its limits, the wait it was given) is what
\* its own reply said.
LEMMA KeptStep == ASSUME Kept, [Next]_vars PROVE Kept'
<1> USE EvalAssumption DEF Kept
<1>1. ASSUME NEW status, NEW usage \in Usages \cup {None}, NEW headers \in Headers,
             CallProvider(status, usage, headers)
      PROVE  Kept'
  <2>1. HeaderBlock(headers) BY Zenon DEF HeaderBlock
  <2>2. PICK limits, refused :
          limits \in RateLimitSnapshot \cup {None} /\ Complete(usage, limits, refused)
    BY <1>1, <2>1, SnapshotTyped DEF CallProvider, GroqProvider, CerebrasProvider
  <2>3. lastUsage' = usage /\ lastLimits' = limits
    BY <2>2 DEF Complete
  <2>4. retryAfter' \in Nat \cup {None}
    <3>1. retryAfter' = IF refused /\ limits # None /\ limits.retry # 0
                        THEN limits.retry ELSE None
      BY <2>2 DEF Complete
    <3>2. limits # None => limits.retry \in Nat \cup {None}
      BY <2>2 DEF RateLimitSnapshot
    <3> QED BY <3>1, <3>2
  <2> QED BY <2>2, <2>3, <2>4
<1>2. ASSUME Forget PROVE Kept' BY <1>2 DEF Forget, NewPacer
<1>3. ASSUME UNCHANGED <<lastUsage, lastLimits, retryAfter>> PROVE Kept'
  BY <1>3
<1>4. CASE Start \/ Die BY <1>4, <1>2 DEF Start, Die
<1>5. ASSUME NEW status \in {"answered", "refused", "failed"},
             NEW usage \in Usages, NEW headers \in Headers,
             Probe(status, usage, headers) \/ Answered(usage, headers)
      PROVE  Kept'
  BY <1>5, <1>1 DEF Probe, Answered
<1>6. ASSUME NEW headers \in Headers,
             (\E refusal \in Refusals : Refused(headers, refusal)) \/ Failed(headers)
      PROVE  Kept'
  BY <1>6, <1>1 DEF Refused, Failed
<1>7. ASSUME NEW elapsed \in Gaps, Wait(elapsed) PROVE Kept'
  BY <1>7, <1>3 DEF Wait, Pace
<1>8. CASE RefuseArguments \/ RefuseCost \/ ReadLedger \/ RefuseQuota \/ PassQuota
           \/ RefuseFingerprint \/ ExecuteGold \/ AskAgain \/ EndPass
  BY <1>8, <1>3 DEF RefuseArguments, RefuseCost, ReadLedger, RefuseQuota,
     PassQuota, RefuseFingerprint, ExecuteGold, AskAgain, EndPass, pacing
<1>9. CASE ScoreBrokenGold \/ ScoreWithoutCalls \/ RecordSpend
           \/ ReconcileFromRefusals \/ RefuseToFile \/ File \/ LeaveUnrecorded
           \/ Midnight \/ UNCHANGED vars
  BY <1>9, <1>3 DEF ScoreBrokenGold, ScoreWithoutCalls, RecordSpend,
     ReconcileFromRefusals, RefuseToFile, File, LeaveUnrecorded, Midnight, vars,
     pacing
<1>10. ASSUME (\E rows \in Answers : Execute(rows)) \/
              (\E ending \in Conclusions : Conclude(ending))
       PROVE  Kept'
  BY <1>10, <1>3 DEF Execute, Conclude, pacing
<1> HIDE DEF Kept
<1> QED BY <1>4, <1>5, <1>6, <1>7, <1>8, <1>9, <1>10 DEF Next

\* PacedProvider._wait_seconds, as the call that follows finds it.
LEMMA WaitIsJustified ==
  ASSUME Kept, NEW elapsed \in Gaps, Wait(elapsed)
  PROVE  PausesAreJustified'
<1> USE EvalAssumption, PacingAssumption
<1>1. /\ pause' = [elapsed |-> elapsed, wait |-> WaitSeconds(elapsed)]
      /\ UNCHANGED <<lastUsage, lastLimits, retryAfter>>
  BY DEF Wait, Pace
<1>2. elapsed \in Nat OBVIOUS
<1>3. PICK w : w = WaitSeconds(elapsed) OBVIOUS
<1>4. pause'.elapsed = elapsed /\ pause'.wait = w BY <1>1, <1>3
<1>5. CASE retryAfter # None
  <2>1. retryAfter \in Nat BY <1>5 DEF Kept
  <2>2. CASE retryAfter # 0
    <3>1. w = Least(retryAfter, MaxRetryWait)
      BY <1>3, <1>5, <2>2 DEF WaitSeconds
    <3>2. elapsed + w >= retryAfter \/ w >= MaxRetryWait
      BY <1>2, <2>1, <3>1 DEF Least
    <3> QED BY <1>1, <1>4, <1>5, <3>2 DEF PausesAreJustified
  <2>3. CASE retryAfter = 0
    <3>1. w \in Nat
      <4>1. CASE lastLimits = None
        BY <1>3, <2>3, <4>1 DEF WaitSeconds
      <4>2. CASE lastLimits # None
        <5>1. Reckoning BY <4>2 DEF Kept, Reckoning
        <5>2. w = WaitFor(elapsed) BY <1>3, <2>3, <4>2 DEF WaitSeconds
        <5> QED BY <1>2, <5>1, <5>2, WaitEndsTheShortage
      <4> QED BY <4>1, <4>2
    <3>2. elapsed + w >= retryAfter BY <1>2, <2>3, <3>1
    <3> QED BY <1>1, <1>4, <1>5, <3>2 DEF PausesAreJustified
  <2> QED BY <2>2, <2>3
<1>6. CASE retryAfter = None /\ lastLimits # None
  <2>1. Reckoning BY <1>6 DEF Kept, Reckoning
  <2>2. w = WaitFor(elapsed) BY <1>3, <1>6 DEF WaitSeconds
  <2>3. ~Short(elapsed + w) /\ (w > 0 => Short(elapsed + w - 1))
    BY <1>2, <2>1, <2>2, WaitEndsTheShortage
  <2>4. Demands' = Demands BY <1>1 DEF Demands, Needed, NextCallCost
  <2>5. /\ ~Short(pause.elapsed + pause.wait)'
        /\ pause'.wait > 0 => Short(pause.elapsed + pause.wait - 1)'
    BY <1>4, <2>3, <2>4 DEF Short
  <2> QED BY <1>1, <1>6, <2>5 DEF PausesAreJustified
<1>7. CASE retryAfter = None /\ lastLimits = None
  BY <1>1, <1>7 DEF PausesAreJustified
<1> QED BY <1>5, <1>6, <1>7

\* Every step leaves a pause that the last call's limits, usage and refusal justify.
LEMMA PauseStep == ASSUME PaceInv, [Next]_vars PROVE PaceInv'
<1> USE DEF PaceInv
<1>1. Kept' BY KeptStep
<1>2. ASSUME pc' # "calling" PROVE PausesAreJustified'
  BY <1>2 DEF PausesAreJustified
<1>3. ASSUME UNCHANGED <<pc, lastUsage, lastLimits, retryAfter, pause>>
      PROVE  PausesAreJustified'
  <2>1. Demands' = Demands BY <1>3 DEF Demands, Needed, NextCallCost
  <2> QED BY <1>3, <2>1 DEF PausesAreJustified, Short
<1>4. ASSUME NEW elapsed \in Gaps, Wait(elapsed) PROVE PausesAreJustified'
  BY <1>4, WaitIsJustified
<1>5. ASSUME Start \/ Die \/ ReadLedger \/ PassQuota \/ ExecuteGold \/ AskAgain
           \/ EndPass \/ RecordSpend \/ ReconcileFromRefusals
      PROVE  PausesAreJustified'
  BY <1>5, <1>2 DEF Start, Die, ReadLedger, PassQuota, ExecuteGold, AskAgain,
     EndPass, RecordSpend, ReconcileFromRefusals
<1>6. ASSUME RefuseArguments \/ RefuseCost \/ RefuseQuota \/ RefuseFingerprint
           \/ RefuseToFile \/ File \/ LeaveUnrecorded
      PROVE  PausesAreJustified'
  BY <1>6, <1>2 DEF RefuseArguments, RefuseCost, RefuseQuota, RefuseFingerprint,
     RefuseToFile, File, LeaveUnrecorded, Exit
<1>7. ASSUME NEW c, Score(c) PROVE PausesAreJustified'
  BY <1>7, <1>2, EvalAssumption DEF Score, Exit
<1>8. ASSUME ScoreBrokenGold \/ ScoreWithoutCalls
      PROVE  PausesAreJustified'
  BY <1>8, <1>7 DEF ScoreBrokenGold, ScoreWithoutCalls
<1>9. ASSUME NEW status, NEW usage, NEW headers,
             Probe(status, usage, headers) \/ Answered(usage, headers)
      PROVE  PausesAreJustified'
  BY <1>9, <1>2 DEF Probe, Answered
<1>10. ASSUME NEW headers \in Headers,
              (\E refusal \in Refusals : Refused(headers, refusal)) \/ Failed(headers)
       PROVE  PausesAreJustified'
  BY <1>10, <1>7 DEF Refused, Failed
<1>11. ASSUME (\E rows \in Answers : Execute(rows)) \/
              (\E ending \in Conclusions : Conclude(ending))
       PROVE  PausesAreJustified'
  BY <1>11, <1>7 DEF Execute, Conclude
<1>12. ASSUME Midnight \/ UNCHANGED vars
      PROVE  PausesAreJustified'
  BY <1>12, <1>3 DEF Midnight, vars, pacing
<1> HIDE DEF PaceInv, PausesAreJustified
<1>13. PausesAreJustified'
  BY <1>4, <1>5, <1>6, <1>8, <1>9, <1>10, <1>11, <1>12 DEF Next
<1> QED BY <1>1, <1>13 DEF PaceInv

\* No call is sent into a bucket that cannot hold it, by the provider's last
\* word, nor before a retry-after the pacer will wait for, and no wait is a
\* second longer than that (PacedProvider._wait_seconds).
THEOREM PausesJustified == Spec => []PausesAreJustified
<1>1. Init => PaceInv
  BY EvalAssumption, PacingAssumption
     DEF Init, PaceInv, Kept, PausesAreJustified
<1>2. PaceInv => PausesAreJustified BY DEF PaceInv
<1> QED BY <1>1, <1>2, PauseStep, PTL DEF Spec

----------------------------------------------------------------------------
(* Types.                                                                  *)

\* What TypeOK says and the invariants above do not.
Place ==
  /\ pc \in Steps /\ code \in {None, 0, 1, 2}
  /\ args \in Invocations /\ document \in Documents /\ database \in Databases
  /\ today \in 0..MaxDay /\ runs \in 0..MaxRuns
  /\ spend \in DailySpend \cup {NoFile}
  /\ pause \in [elapsed : Nat, wait : Nat]

\* A question has a call left while it may make one.
CallsLeft ==
  /\ calls \in 0..CallBudget /\ bill \in TokenUsage
  /\ pc \in Before => calls = 0
  /\ pc = "asking" => calls = 0 \/ calls < CallBudget
  /\ pc = "calling" => calls < CallBudget

\* The calls a question may make are a number.
LEMMA CallBudgetIsNat == ASSUME args \in Invocations PROVE CallBudget \in Nat
BY EvalAssumption DEF CallBudget

\* Every call of a question is made while it has calls left.
LEMMA CallsLeftStep == ASSUME Place, CallsLeft, [Next]_vars PROVE CallsLeft'
<1> USE EvalAssumption
<1>1. ASSUME args' \in Invocations, calls' = 0, bill' = NoUsage,
             pc' # "calling"
      PROVE  CallsLeft'
  <2>1. CallBudget' \in Nat BY <1>1, EvalAssumption DEF CallBudget
  <2>2. NoUsage \in TokenUsage BY DEF NoUsage, TokenUsage
  <2> QED BY <1>1, <2>1, <2>2 DEF CallsLeft
<1>2. ASSUME args' = args, calls' = calls, bill' = bill,
             pc' \in Before => pc \in Before,
             pc' = "asking" => pc' = pc \/ calls = 0 \/ calls < CallBudget,
             pc' = "calling" => pc' = pc \/ calls < CallBudget
      PROVE  CallsLeft'
  <2>1. CallBudget' = CallBudget BY <1>2 DEF CallBudget, IsLoop
  <2> QED BY <1>2, <2>1 DEF CallsLeft
<1>3. ASSUME NEW c, Score(c), args' = args PROVE CallsLeft'
  <2>1. calls' = 0 /\ bill' = NoUsage /\ args' \in Invocations
    BY <1>3 DEF Score, Place
  <2>2. pc' = "asking" \/ pc' = "ended" BY <1>3 DEF Score, Exit
  <2> QED BY <1>1, <2>1, <2>2
<1>4. CASE Start \/ Die BY <1>4, <1>1 DEF Start, Die, Forget, Place
<1>5. CASE RefuseArguments \/ RefuseCost \/ RefuseQuota \/ RefuseFingerprint
           \/ RefuseToFile \/ File \/ LeaveUnrecorded \/ Midnight \/ UNCHANGED vars
  BY <1>5, <1>2 DEF RefuseArguments, RefuseCost, RefuseQuota, RefuseFingerprint,
     RefuseToFile, File, LeaveUnrecorded, Midnight, Exit, progress, vars, Before
<1>6. CASE ReadLedger \/ PassQuota \/ RecordSpend \/ ReconcileFromRefusals
  BY <1>6, <1>2 DEF ReadLedger, PassQuota, RecordSpend, ReconcileFromRefusals,
     progress, Before
<1>7. CASE ScoreBrokenGold \/ ScoreWithoutCalls
  BY <1>7, <1>3 DEF ScoreBrokenGold, ScoreWithoutCalls
<1>8. ASSUME NEW headers \in Headers,
             (\E refusal \in Refusals : Refused(headers, refusal)) \/ Failed(headers)
      PROVE  CallsLeft'
  BY <1>8, <1>3 DEF Refused, Failed
<1>9. ASSUME (\E rows \in Answers : Execute(rows)) \/
              (\E ending \in Conclusions : Conclude(ending))
      PROVE  CallsLeft'
  BY <1>9, <1>3 DEF Execute, Conclude
<1>10. ASSUME NEW status, NEW usage, NEW headers, Probe(status, usage, headers)
       PROVE  CallsLeft'
  BY <1>10, <1>2 DEF Probe, progress, Before
<1>11. CASE ExecuteGold \/ AskAgain \/ EndPass
  <2>1. CASE ExecuteGold
    BY <1>2, <2>1 DEF ExecuteGold, CallsLeft, Before
  <2>2. CASE AskAgain BY <1>2, <2>2 DEF AskAgain, Before, progress
  <2>3. CASE EndPass BY <1>2, <2>3 DEF EndPass, Before
  <2> QED BY <1>11, <2>1, <2>2, <2>3
<1>12. ASSUME NEW elapsed \in Gaps, Wait(elapsed) PROVE CallsLeft'
  <2>1. calls < CallBudget
    <3>1. CallBudget \in Nat BY CallBudgetIsNat DEF Place
    <3> QED BY <1>12, <3>1 DEF Wait, CallsLeft
  <2> QED BY <1>12, <1>2, <2>1 DEF Wait, Before, progress
<1>13. ASSUME NEW usage \in Usages, NEW headers \in Headers, Answered(usage, headers)
       PROVE  CallsLeft'
  <2>1. calls' = calls + 1 /\ bill' = Plus(bill, CallBill(usage))
        /\ args' = args /\ pc = "calling" /\ pc' = "answered"
    BY <1>13 DEF Answered
  <2>2. CallBudget \in Nat /\ CallBudget' = CallBudget
    BY <2>1, CallBudgetIsNat DEF Place, CallBudget, IsLoop
  <2>3. CallBill(usage) \in TokenUsage
    <3>1. usage # None => usage \in TokenUsage OBVIOUS
    <3>2. NoUsage \in TokenUsage BY DEF NoUsage, TokenUsage
    <3>3. [tokens |-> PromptTokens, calls |-> 1, measured |-> FALSE] \in TokenUsage
      BY DEF TokenUsage
    <3> QED BY <3>1, <3>2, <3>3, Zenon DEF CallBill
  <2>4. bill' \in TokenUsage BY <2>1, <2>3, PlusTokens DEF CallsLeft
  <2> QED BY <2>1, <2>2, <2>4 DEF CallsLeft, Before
<1> HIDE DEF CallsLeft
<1> QED BY <1>4, <1>5, <1>6, <1>7, <1>8, <1>9, <1>10, <1>11, <1>12, <1>13 DEF Next

\* Every step leaves the runner where its arguments and its ledger say it is.
LEMMA PlaceStep == ASSUME Place, LedgerInv, Kept, [Next]_vars PROVE Place'
<1> USE EvalAssumption DEF Place, Steps
<1>1. ASSUME NEW c, Score(c), pause' = pause \/ pause' = [elapsed |-> 0, wait |-> 0],
             UNCHANGED <<args, document, database, today, runs, spend>>
      PROVE  Place'
  BY <1>1 DEF Score, Exit
<1>2. CASE Start \/ Die
  BY <1>2 DEF Start, Die, Forget, NewPacer, world
<1>3. CASE RefuseArguments \/ RefuseCost \/ RefuseQuota \/ RefuseFingerprint
           \/ RefuseToFile \/ File \/ LeaveUnrecorded
  BY <1>3 DEF RefuseArguments, RefuseCost, RefuseQuota, RefuseFingerprint,
     RefuseToFile, File, LeaveUnrecorded, Exit, progress, pacing, world
<1>4. CASE PassQuota \/ RecordSpend \/ ReconcileFromRefusals \/ ExecuteGold
           \/ AskAgain \/ EndPass \/ UNCHANGED vars
  BY <1>4 DEF PassQuota, RecordSpend, ReconcileFromRefusals, ExecuteGold,
     AskAgain, EndPass, progress, pacing, world, vars
<1>5. CASE ReadLedger
  <2>1. spend' \in DailySpend \cup {NoFile}
    BY <1>5, LoadIsDailySpend DEF ReadLedger
  <2> QED BY <1>5, <2>1 DEF ReadLedger, pacing, world
<1>6. CASE Midnight
  BY <1>6 DEF Midnight, progress, pacing
<1>7. CASE ScoreBrokenGold \/ ScoreWithoutCalls
  BY <1>7, <1>1 DEF ScoreBrokenGold, ScoreWithoutCalls, pacing, world
<1>8. ASSUME (\E rows \in Answers : Execute(rows)) \/
              (\E ending \in Conclusions : Conclude(ending))
      PROVE  Place'
  BY <1>8, <1>1 DEF Execute, Conclude, pacing, world
<1>9. ASSUME NEW status, NEW usage, NEW headers, CallProvider(status, usage, headers)
      PROVE  pause' = [elapsed |-> 0, wait |-> 0]
  BY <1>9 DEF CallProvider, GroqProvider, CerebrasProvider, Complete
<1>10. ASSUME NEW headers \in Headers,
              (\E refusal \in Refusals : Refused(headers, refusal)) \/ Failed(headers)
       PROVE  Place'
  BY <1>10, <1>1, <1>9 DEF Refused, Failed, world
<1>11. ASSUME NEW status, NEW usage, NEW headers,
              Probe(status, usage, headers) \/ Answered(usage, headers)
       PROVE  Place'
  BY <1>11, <1>9 DEF Probe, Answered, progress, world
<1>12. ASSUME NEW elapsed \in Gaps, Wait(elapsed) PROVE Place'
  <2>1. WaitSeconds(elapsed) \in Nat
    <3>1. elapsed \in Nat OBVIOUS
    <3>2. CASE retryAfter \notin {None, 0}
      BY <3>2, PacingAssumption DEF WaitSeconds, Kept, Least
    <3>3. CASE retryAfter \in {None, 0} /\ lastLimits = None
      BY <3>3 DEF WaitSeconds
    <3>4. CASE retryAfter \in {None, 0} /\ lastLimits # None
      <4>1. Reckoning BY <3>4 DEF Kept, Reckoning
      <4>2. WaitSeconds(elapsed) = WaitFor(elapsed) BY <3>4 DEF WaitSeconds
      <4> QED BY <3>1, <4>1, <4>2, WaitEndsTheShortage
    <3> QED BY <3>2, <3>3, <3>4
  <2>2. pause' = [elapsed |-> elapsed, wait |-> WaitSeconds(elapsed)]
    BY <1>12 DEF Wait, Pace
  <2>3. pause' \in [elapsed : Nat, wait : Nat] BY <2>1, <2>2
  <2> QED BY <1>12, <2>3 DEF Wait, progress, world
<1> HIDE DEF Place
<1> QED BY <1>2, <1>3, <1>4, <1>5, <1>6, <1>7, <1>8, <1>10, <1>11, <1>12 DEF Next

\* The types of the state, and no question asks its provider more often than
\* its budget allows (main(), CALL_BUDGETS).
THEOREM TypeCorrect == Spec => []TypeOK
<1> USE EvalAssumption, PacingAssumption, LedgerAssumption
<1>1. Init => LedgerInv
  BY DEF Init, LedgerInv, Billing, LedgerIsExact, NoUsage, TokenUsage
<1>2. Init => Kept BY DEF Init, Kept
<1>3. Init => Place BY DEF Init, Place, Steps
<1>4. Init => CallsLeft
  <2> SUFFICES ASSUME Init PROVE CallsLeft OBVIOUS
  <2>1. CallBudget \in Nat BY CallBudgetIsNat DEF Init
  <2> QED BY <2>1 DEF Init, CallsLeft, NoUsage, TokenUsage
<1>5. LedgerInv /\ NamedInv /\ [Next]_vars => LedgerInv' BY LedgerStep
<1>6. Kept /\ [Next]_vars => Kept' BY KeptStep
<1>7. Place /\ LedgerInv /\ Kept /\ [Next]_vars => Place' BY PlaceStep
<1>8. CallsLeft /\ Place /\ [Next]_vars => CallsLeft' BY CallsLeftStep
<1>9. LedgerInv /\ Kept /\ Place /\ CallsLeft => TypeOK
  BY DEF LedgerInv, Billing, Kept, Place, CallsLeft, TypeOK
<1> QED BY <1>1, <1>2, <1>3, <1>4, <1>5, <1>6, <1>7, <1>8, <1>9, NamedInductive, PTL
        DEF Spec
=============================================================================
