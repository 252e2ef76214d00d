-------------------------- MODULE EvalEntriesProofs -------------------------
(***************************************************************************)
(* Theorems about EvalRun: for every sequence of runs and of edits to the  *)
(* dataset, what an entry of EVALS.md calls measured is what the provider  *)
(* billed for the questions of all its passes, and two entries that look   *)
(* comparable were taken over the same questions.                          *)
(*                                                                         *)
(* A bill, the total of a pass, the total of the passes and the questions  *)
(* of a split are formed along lists.  The first part says what these      *)
(* recursive functions compute: there is one function that satisfies each  *)
(* recursion, and a longer list adds its last member.  The second follows  *)
(* a reported token from the bill to the case, to the report and into the  *)
(* entry (Counted), the third a question from the split into the report    *)
(* (Orderly).                                                              *)
(*                                                                         *)
(* The last part is about the grade of a case: what two lists of rows have *)
(* in common when they are counted alike (Reorders), and what rounding     *)
(* does.                                                                   *)
(***************************************************************************)
EXTENDS EvalRunProofs, FiniteSetTheorems, WellFoundedInduction

----------------------------------------------------------------------------
(* Sums over lists.                                                        *)

\* A set of numbers that is not empty has a lowest one.
LEMMA Lowest ==
  ASSUME NEW T \in SUBSET Nat, T # {}
  PROVE  \E m \in T : \A n \in T : ~(n < m)
<1>1. \E m \in T : \A n \in T : <<n, m>> \notin OpToRel(<, Nat)
  BY WFMin, NatLessThanWellFounded, Zenon
<1>2. \A n, m \in T : n < m => <<n, m>> \in OpToRel(<, Nat)
  BY DEF OpToRel
<1> QED BY <1>1, <1>2

\* f[n] is zero and the usages of the first n of a list, added up one by one.
SumsUp(f, zero, list, N) ==
  f = [n \in 0..N |-> IF n = 0 THEN zero ELSE Plus(f[n - 1], list[n].usage)]

\* There is one such function: two of them would differ first at some n.
LEMMA OneSum ==
  ASSUME NEW N \in Nat, NEW zero, NEW list, NEW f, NEW g,
         SumsUp(f, zero, list, N), SumsUp(g, zero, list, N)
  PROVE  f = g
<1>1. SUFFICES ASSUME NEW k \in 0..N, f[k] # g[k] PROVE FALSE
  BY DEF SumsUp
<1> DEFINE Bad == {n \in 0..N : f[n] # g[n]}
<1>2. Bad \in SUBSET Nat /\ Bad # {} BY <1>1
<1> HIDE DEF Bad
<1>3. PICK m \in Bad : \A n \in Bad : ~(n < m) BY <1>2, Lowest
<1> USE DEF Bad
<1>4. m # 0 BY DEF SumsUp
<1>5. m - 1 \in 0..N /\ m - 1 \notin Bad BY <1>3, <1>4
<1>6. f[m] = Plus(f[m - 1], list[m].usage) /\ g[m] = Plus(g[m - 1], list[m].usage)
  BY <1>4 DEF SumsUp
<1> QED BY <1>5, <1>6

\* And there is one: it is carried from each list to the next longer.
LEMMA SumExists ==
  ASSUME NEW N \in Nat, NEW zero, NEW list
  PROVE  \E f : SumsUp(f, zero, list, N)
<1> DEFINE Bad == {n \in 0..N : ~\E f : SumsUp(f, zero, list, n)}
<1>1. SUFFICES ASSUME N \in Bad PROVE FALSE
  OBVIOUS
<1>2. Bad \in SUBSET Nat /\ Bad # {} BY <1>1
<1> HIDE DEF Bad
<1>3. PICK m \in Bad : \A n \in Bad : ~(n < m) BY <1>2, Lowest
<1> USE DEF Bad
<1>4. m # 0
  <2>1. SumsUp([n \in 0..0 |-> zero], zero, list, 0) BY DEF SumsUp
  <2> QED BY <2>1
<1>5. m - 1 \in 0..N /\ m - 1 \notin Bad BY <1>3, <1>4
<1>6. PICK f : SumsUp(f, zero, list, m - 1) BY <1>5
<1> DEFINE g == [n \in 0..m |-> IF n = m THEN Plus(f[m - 1], list[m].usage) ELSE f[n]]
<1>7. SumsUp(g, zero, list, m)
  <2>1. ASSUME NEW n \in 0..m
        PROVE  g[n] = IF n = 0 THEN zero ELSE Plus(g[n - 1], list[n].usage)
    <3>1. CASE n = m BY <1>4, <3>1
    <3>2. CASE n # m
      <4>1. n \in 0..(m - 1) BY <3>2
      <4>2. f[n] = IF n = 0 THEN zero ELSE Plus(f[n - 1], list[n].usage)
        BY <1>6, <4>1 DEF SumsUp
      <4> QED BY <3>2, <4>1, <4>2
    <3> QED BY <3>1, <3>2
  <2> QED BY <2>1 DEF SumsUp
<1> QED BY <1>3, <1>7

\* The sum over a longer list is the sum so far and what is new.
LEMMA SumOfLonger ==
  ASSUME NEW S, NEW list \in Seq(S), NEW c, NEW zero, NEW f, NEW g,
         SumsUp(f, zero, list, Len(list)),
         SumsUp(g, zero, Append(list, c), Len(list) + 1)
  PROVE  g[Len(list) + 1] = Plus(f[Len(list)], c.usage)
<1>1. PICK N \in Nat : N = Len(list) OBVIOUS
<1> DEFINE h == [n \in 0..N |-> g[n]]
           longer == Append(list, c)
<1>2. list \in Seq(S \cup {c}) OBVIOUS
<1>3. /\ \A n \in 1..N : longer[n] = list[n]
      /\ longer[N + 1] = c
  BY <1>1, <1>2
<1> HIDE DEF longer
<1>4. \A n \in 0..(N + 1) : g[n] = IF n = 0 THEN zero ELSE Plus(g[n - 1], longer[n].usage)
  BY <1>1 DEF SumsUp, longer
<1>5. SumsUp(h, zero, list, N)
  <2>1. ASSUME NEW n \in 0..N
        PROVE  h[n] = IF n = 0 THEN zero ELSE Plus(h[n - 1], list[n].usage)
    <3>1. CASE n = 0 BY <3>1, <1>4
    <3>2. CASE n # 0
      <4>1. n \in 1..N /\ n - 1 \in 0..N /\ n \in 0..(N + 1) BY <3>2
      <4>2. g[n] = Plus(g[n - 1], longer[n].usage) BY <1>4, <3>2, <4>1
      <4> QED BY <1>3, <3>2, <4>1, <4>2
    <3> QED BY <3>1, <3>2
  <2> QED BY <2>1 DEF SumsUp
<1>6. h = f BY <1>1, <1>5, OneSum
<1>7. g[N + 1] = Plus(g[N], c.usage)
  <2>1. N + 1 \in 0..(N + 1) /\ N + 1 # 0 /\ N + 1 - 1 = N OBVIOUS
  <2> QED BY <1>3, <1>4, <2>1
<1>8. g[N] = f[N] BY <1>6
<1> QED BY <1>1, <1>7, <1>8

\* What _total_usage and total_usage have in common.
Total(zero, list) ==
  LET sum[n \in 0..Len(list)] ==
        IF n = 0 THEN zero ELSE Plus(sum[n - 1], list[n].usage)
  IN  sum[Len(list)]

\* The recursion that defines a total has its one solution.
LEMMA TotalSums ==
  ASSUME NEW zero, NEW list, Len(list) \in Nat
  PROVE  \E f : SumsUp(f, zero, list, Len(list)) /\ Total(zero, list) = f[Len(list)]
<1> DEFINE f == CHOOSE g : g = [n \in 0..Len(list) |->
                    IF n = 0 THEN zero ELSE Plus(g[n - 1], list[n].usage)]
<1>1. \E g : g = [n \in 0..Len(list) |->
                    IF n = 0 THEN zero ELSE Plus(g[n - 1], list[n].usage)]
  <2>1. \E g : SumsUp(g, zero, list, Len(list)) BY SumExists, Zenon
  <2> QED BY <2>1 DEF SumsUp
<1>2. f = [n \in 0..Len(list) |->
             IF n = 0 THEN zero ELSE Plus(f[n - 1], list[n].usage)]
  BY <1>1, Zenon
<1>3. Total(zero, list) = f[Len(list)] BY DEF Total
<1> HIDE DEF f
<1>4. SumsUp(f, zero, list, Len(list)) BY <1>2 DEF SumsUp
<1> QED BY <1>3, <1>4

\* An empty list adds nothing, a longer one its last usage.
LEMMA TotalOfLonger ==
  ASSUME NEW zero
  PROVE  /\ Total(zero, <<>>) = zero
         /\ \A S : \A list \in Seq(S) : \A c :
              Total(zero, Append(list, c)) = Plus(Total(zero, list), c.usage)
<1>1. Total(zero, <<>>) = zero
  <2>1. Len(<<>>) = 0 /\ 0 \in Nat OBVIOUS
  <2>2. PICK f : SumsUp(f, zero, <<>>, 0) /\ Total(zero, <<>>) = f[0]
    BY <2>1, TotalSums
  <2> QED BY <2>2 DEF SumsUp
<1>2. ASSUME NEW S, NEW list \in Seq(S), NEW c
      PROVE  Total(zero, Append(list, c)) = Plus(Total(zero, list), c.usage)
  <2>1. Len(list) \in Nat /\ Len(Append(list, c)) = Len(list) + 1
    <3>1. list \in Seq(S \cup {c}) OBVIOUS
    <3> QED BY <3>1
  <2>2. PICK f : /\ SumsUp(f, zero, list, Len(list))
                 /\ Total(zero, list) = f[Len(list)]
    BY <2>1, TotalSums
  <2>3. PICK g : /\ SumsUp(g, zero, Append(list, c), Len(list) + 1)
                 /\ Total(zero, Append(list, c)) = g[Len(list) + 1]
    <3>1. Len(list) + 1 \in Nat BY <2>1
    <3> QED BY <2>1, <3>1, TotalSums
  <2>4. g[Len(list) + 1] = Plus(f[Len(list)], c.usage)
    BY <2>2, <2>3, SumOfLonger
  <2> QED BY <2>2, <2>3, <2>4
<1> QED BY <1>1, <1>2

\* _total_usage of a pass, which begins measured.
LEMMA TotalUsageOf ==
  /\ TotalUsage(<<>>) = [tokens |-> 0, calls |-> 0, measured |-> TRUE]
  /\ \A S : \A list \in Seq(S) : \A c :
       TotalUsage(Append(list, c)) = Plus(TotalUsage(list), c.usage)
<1> DEFINE zero == [NoUsage EXCEPT !.measured = TRUE]
<1>1. zero = [tokens |-> 0, calls |-> 0, measured |-> TRUE]
  <2>1. ASSUME NEW u \in TokenUsage, NEW v, v = [u EXCEPT !.measured = TRUE]
        PROVE  v = [tokens |-> u.tokens, calls |-> u.calls, measured |-> TRUE]
    BY <2>1 DEF TokenUsage
  <2>2. NoUsage \in TokenUsage /\ NoUsage.tokens = 0 /\ NoUsage.calls = 0
    BY DEF NoUsage, TokenUsage
  <2>3. zero = [tokens |-> NoUsage.tokens, calls |-> NoUsage.calls, measured |-> TRUE]
    BY <2>1, <2>2, Zenon
  <2> QED BY <2>2, <2>3, Zenon
<1>2. \A list : TotalUsage(list) = Total(zero, list) BY DEF TotalUsage, Total
<1> HIDE DEF zero
<1> QED BY <1>1, <1>2, TotalOfLonger

\* total_usage of the passes, which begins with nothing.
LEMMA TotalOfPasses ==
  /\ TotalOf(<<>>) = NoUsage
  /\ \A S : \A list \in Seq(S) : \A c :
       TotalOf(Append(list, c)) = Plus(TotalOf(list), c.usage)
<1>1. \A list : TotalOf(list) = Total(NoUsage, list) BY Zenon DEF TotalOf, Total
<1> QED BY <1>1, TotalOfLonger

----------------------------------------------------------------------------
(* From the bill to the entry.                                             *)

Scored == TotalUsage(cases)
Filed == TotalOf(reports)

\* Nothing in a usage is a local count.
Sound(u) == IsZero(u) \/ u.measured

\* The bill of the question, the total of the pass and that of the passes are
\* together what the provider reported, as long as all of it was measured.  A
\* single-shot run bills nothing at all.
Counted ==
  /\ bill \in TokenUsage /\ Scored \in TokenUsage /\ Filed \in TokenUsage
  /\ meter.questions \in Nat
  /\ IsLoop /\ Sound(bill) /\ Sound(Scored) /\ Sound(Filed) =>
       Filed.tokens + Scored.tokens + bill.tokens = meter.questions
  /\ ~IsLoop => bill = NoUsage /\ IsZero(Scored) /\ Filed = NoUsage

\* A question with calls behind it is a question of this pass, and its
\* reference query ran; without calls it has no bill.
Keeping == {"recording", "reconciling", "filing"}

Underway ==
  /\ calls = 0 => bill = NoUsage
  /\ pc \in {"calling", "answered"} \/ calls # 0 => More /\ gold[Question.id].ok
  /\ pc \in Before \cup Keeping => calls = 0
  /\ pc \in Keeping => cases = <<>> /\ Len(reports) = args.repeat

\* A sum without local counts has no part with one.
LEMMA SoundParts ==
  ASSUME NEW u \in TokenUsage, NEW v \in TokenUsage, Sound(Plus(u, v))
  PROVE  Sound(u) /\ Sound(v)
BY DEF Sound, Plus, IsZero, TokenUsage

\* What usage_for_call files of an answer has the provider's count, or it is
\* a local count and says so.
LEMMA CallBillCounts ==
  ASSUME NEW usage \in Usages
  PROVE  /\ CallBill(usage) \in TokenUsage /\ Reported(usage) \in Nat
         /\ IsLoop /\ Sound(CallBill(usage)) => CallBill(usage).tokens = Reported(usage)
         /\ ~IsLoop => CallBill(usage) = NoUsage
<1>1. usage = None \/ usage \in TokenUsage BY EvalAssumption
<1>2. NoUsage \in TokenUsage /\ NoUsage.tokens = 0 BY DEF NoUsage, TokenUsage
<1>3. CASE ~IsLoop
  BY <1>1, <1>2, <1>3 DEF CallBill, Reported, TokenUsage
<1>4. CASE IsLoop /\ usage # None
  BY <1>1, <1>4 DEF CallBill, Reported, TokenUsage
<1>5. CASE IsLoop /\ usage = None /\ ~args.countable
  BY <1>2, <1>5 DEF CallBill, Reported
<1>6. CASE IsLoop /\ usage = None /\ args.countable
  <2>1. CallBill(usage) = [tokens |-> PromptTokens, calls |-> 1, measured |-> FALSE]
    BY <1>6 DEF CallBill
  <2>2. CallBill(usage) \in TokenUsage BY <2>1, EvalAssumption DEF TokenUsage
  <2>3. ~Sound(CallBill(usage)) BY <2>1 DEF Sound, IsZero
  <2> QED BY <1>6, <2>2, <2>3 DEF Reported
<1> QED BY <1>3, <1>4, <1>5, <1>6

\* Nothing counted, nothing reported: what Forget leaves.
LEMMA ForgottenIsCounted == ASSUME Forget PROVE Counted'
<1>1. bill' = NoUsage /\ cases' = <<>> /\ reports' = <<>> /\ meter'.questions = 0
  BY DEF Forget
<1>2. Scored' = [tokens |-> 0, calls |-> 0, measured |-> TRUE] /\ Filed' = NoUsage
  BY <1>1, TotalUsageOf, TotalOfPasses DEF Scored, Filed
<1> QED BY <1>1, <1>2 DEF Counted, NoUsage, TokenUsage, IsZero

\* A case takes the bill of its question into the pass.
LEMMA ScoreCounts ==
  ASSUME Counted, NamedInv, NEW c, c.usage = bill, Score(c),
         UNCHANGED <<reports, args, meter>>
  PROVE  Counted'
<1>1. cases' = Append(cases, c) /\ bill' = NoUsage BY DEF Score
<1>2. PICK S : cases \in Seq(S) BY DEF NamedInv, NamesTokens
<1>3. Scored' = Plus(Scored, bill) BY <1>1, <1>2, TotalUsageOf DEF Scored
<1>4. Filed' = Filed /\ (IsLoop' <=> IsLoop) BY DEF Filed, IsLoop
<1>5. /\ bill \in TokenUsage /\ Scored \in TokenUsage /\ Filed \in TokenUsage
      /\ meter.questions \in Nat
  BY DEF Counted
<1>6. Scored' \in TokenUsage /\ Scored'.tokens = Scored.tokens + bill.tokens
  BY <1>3, <1>5, PlusTokens
<1>7. Sound(Scored') => Sound(Scored) /\ Sound(bill)
  BY <1>3, <1>5, SoundParts
<1>8. NoUsage \in TokenUsage /\ NoUsage.tokens = 0 BY DEF NoUsage, TokenUsage
<1>9. CASE IsLoop
  <2>1. ASSUME Sound(Scored'), Sound(Filed')
        PROVE  Filed'.tokens + Scored'.tokens + bill'.tokens = meter'.questions
    <3>1. Filed.tokens + Scored.tokens + bill.tokens = meter.questions
      BY <1>4, <1>7, <1>9, <2>1 DEF Counted
    <3>2. Filed.tokens \in Nat /\ Scored.tokens \in Nat /\ bill.tokens \in Nat
      BY <1>5 DEF TokenUsage
    <3> QED BY <1>1, <1>4, <1>6, <1>8, <3>1, <3>2
  <2> QED BY <1>1, <1>4, <1>5, <1>6, <1>8, <1>9, <2>1 DEF Counted, Sound
<1>10. CASE ~IsLoop
  <2>1. Scored' = Scored BY <1>3, <1>10 DEF Counted, Plus, NoUsage, IsZero
  <2> QED BY <1>1, <1>4, <1>5, <1>8, <1>10, <2>1 DEF Counted
<1> QED BY <1>9, <1>10

\* An answer is billed as the provider reported it.
LEMMA AnswerCounts ==
  ASSUME Counted, NEW usage \in Usages, NEW headers, Answered(usage, headers)
  PROVE  Counted'
<1>1. /\ bill' = Plus(bill, CallBill(usage))
      /\ meter' = [meter EXCEPT !.questions = @ + Reported(usage)]
      /\ UNCHANGED <<cases, reports, args>>
  BY DEF Answered
<1>2. Scored' = Scored /\ Filed' = Filed /\ (IsLoop' <=> IsLoop)
  BY <1>1 DEF Scored, Filed, IsLoop
<1>3. /\ bill \in TokenUsage /\ Scored \in TokenUsage /\ Filed \in TokenUsage
      /\ meter.questions \in Nat
  BY DEF Counted
<1>4. bill' \in TokenUsage /\ bill'.tokens = bill.tokens + CallBill(usage).tokens
  BY <1>1, <1>3, CallBillCounts, PlusTokens
<1>5. meter'.questions = meter.questions + Reported(usage) /\ Reported(usage) \in Nat
  BY <1>1, CallBillCounts DEF Counted
<1>6. CASE IsLoop
  <2>1. ASSUME Sound(bill'), Sound(Scored), Sound(Filed)
        PROVE  Filed.tokens + Scored.tokens + bill'.tokens = meter'.questions
    <3>1. Sound(bill) /\ Sound(CallBill(usage))
      BY <1>1, <1>3, <2>1, CallBillCounts, SoundParts
    <3>2. Filed.tokens + Scored.tokens + bill.tokens = meter.questions
      BY <1>6, <2>1, <3>1 DEF Counted
    <3>3. CallBill(usage).tokens = Reported(usage) BY <1>6, <3>1, CallBillCounts
    <3>4. Filed.tokens \in Nat /\ Scored.tokens \in Nat /\ bill.tokens \in Nat
      BY <1>3 DEF TokenUsage
    <3> QED BY <1>4, <1>5, <3>2, <3>3, <3>4
  <2> QED BY <1>2, <1>3, <1>4, <1>5, <1>6, <2>1 DEF Counted
<1>7. CASE ~IsLoop
  <2>1. bill' = bill
    BY <1>1, <1>7, CallBillCounts DEF Counted, Plus, NoUsage, IsZero
  <2> QED BY <1>2, <1>3, <1>5, <1>7, <2>1 DEF Counted
<1> QED BY <1>6, <1>7

\* A report takes the total of its pass into that of the passes.
LEMMA PassCounts ==
  ASSUME Counted, NamedInv, EndPass PROVE Counted'
<1>1. /\ reports' = Append(reports, Aggregate(cases)) /\ cases' = <<>>
      /\ UNCHANGED <<bill, meter, args>>
  BY DEF EndPass
<1>2. PICK S : reports \in Seq(S) BY DEF NamedInv
<1>3. Aggregate(cases).usage = Scored BY DEF Aggregate, Scored
<1>4. Filed' = Plus(Filed, Scored) BY <1>1, <1>2, <1>3, TotalOfPasses DEF Filed
<1>5. Scored' = [tokens |-> 0, calls |-> 0, measured |-> TRUE]
  BY <1>1, TotalUsageOf DEF Scored
<1>6. /\ bill \in TokenUsage /\ Scored \in TokenUsage /\ Filed \in TokenUsage
      /\ meter.questions \in Nat
  BY DEF Counted
<1>7. Filed' \in TokenUsage /\ Filed'.tokens = Filed.tokens + Scored.tokens
  BY <1>4, <1>6, PlusTokens
<1>8. Sound(Filed') => Sound(Filed) /\ Sound(Scored) BY <1>4, <1>6, SoundParts
<1>9. Scored' \in TokenUsage /\ Scored'.tokens = 0 /\ IsZero(Scored')
  BY <1>5 DEF TokenUsage, IsZero
<1>10. IsLoop' <=> IsLoop BY <1>1 DEF IsLoop
<1>11. CASE IsLoop
  <2>1. ASSUME Sound(bill), Sound(Filed')
        PROVE  Filed'.tokens + Scored'.tokens + bill'.tokens = meter'.questions
    <3>1. Filed.tokens + Scored.tokens + bill.tokens = meter.questions
      BY <1>8, <1>11, <2>1 DEF Counted
    <3>2. Filed.tokens \in Nat /\ Scored.tokens \in Nat /\ bill.tokens \in Nat
      BY <1>6 DEF TokenUsage
    <3> QED BY <1>1, <1>7, <1>9, <3>1, <3>2
  <2> QED BY <1>1, <1>6, <1>7, <1>9, <1>10, <1>11, <2>1 DEF Counted
<1>12. CASE ~IsLoop
  <2>1. Filed' = Filed BY <1>4, <1>12 DEF Counted, Plus
  <2> QED BY <1>1, <1>6, <1>9, <1>10, <1>12, <2>1 DEF Counted
<1> QED BY <1>11, <1>12

\* No other step bills, scores or reports anything.
LEMMA CountedStep ==
  ASSUME Counted, Underway, NamedInv, CallsLeft, [Next]_vars PROVE Counted'
<1> USE EvalAssumption
<1>1. ASSUME UNCHANGED <<bill, cases, reports, args>>, meter'.questions = meter.questions
      PROVE  Counted'
  BY <1>1 DEF Counted, Scored, Filed, IsLoop
<1>2. CASE Start \/ Die BY <1>2, ForgottenIsCounted DEF Start, Die
<1>3. CASE ScoreBrokenGold
  <2>1. bill = NoUsage BY <1>3 DEF ScoreBrokenGold, Underway
  <2> QED BY <1>3, <2>1, ScoreCounts DEF ScoreBrokenGold, Case
<1>4. CASE ScoreWithoutCalls
  <2>1. calls = 0 BY <1>4 DEF ScoreWithoutCalls, CallsLeft
  <2> QED BY <1>4, <2>1, ScoreCounts DEF ScoreWithoutCalls, Underway, Case
<1>5. ASSUME NEW headers \in Headers,
             (\E refusal \in Refusals : Refused(headers, refusal)) \/ Failed(headers)
      PROVE  Counted'
  <2>1. PICK c : c.usage = bill /\ Score(c)
    BY <1>5 DEF Refused, Failed, Case
  <2> QED BY <1>5, <2>1, ScoreCounts DEF Refused, Failed
<1>6. ASSUME (\E rows \in Answers : Execute(rows)) \/
              (\E ending \in Conclusions : Conclude(ending))
      PROVE  Counted'
  <2>1. PICK c : c.usage = bill /\ Score(c)
    BY <1>6 DEF Execute, Conclude, Case, ExecutedCase
  <2> QED BY <1>6, <2>1, ScoreCounts DEF Execute, Conclude
<1>7. ASSUME NEW usage \in Usages, NEW headers \in Headers, Answered(usage, headers)
      PROVE  Counted'
  BY <1>7, AnswerCounts
<1>8. CASE EndPass BY <1>8, PassCounts
<1>9. ASSUME NEW status, NEW usage, NEW headers, Probe(status, usage, headers)
      PROVE  Counted'
  <2>1. meter'.questions = meter.questions
    BY <1>9 DEF Probe
  <2> QED BY <1>9, <1>1, <2>1 DEF Probe, progress
<1>10. ASSUME NEW elapsed \in Gaps, Wait(elapsed) PROVE Counted'
  BY <1>10, <1>1 DEF Wait, progress
<1>11. CASE RefuseArguments \/ RefuseCost \/ ReadLedger \/ RefuseQuota \/ PassQuota
            \/ RefuseFingerprint \/ ExecuteGold \/ AskAgain
  BY <1>11, <1>1 DEF RefuseArguments, RefuseCost, ReadLedger, RefuseQuota,
     PassQuota, RefuseFingerprint, ExecuteGold, AskAgain, progress
<1>12. CASE RecordSpend \/ ReconcileFromRefusals \/ RefuseToFile \/ File
            \/ LeaveUnrecorded \/ Midnight \/ UNCHANGED vars
  BY <1>12, <1>1 DEF RecordSpend, ReconcileFromRefusals, RefuseToFile, File,
     LeaveUnrecorded, Midnight, progress, vars
<1> HIDE DEF Counted
<1> QED BY <1>2, <1>3, <1>4, <1>5, <1>6, <1>7, <1>8, <1>9, <1>10, <1>11, <1>12
        DEF Next

\* A question is given up with its calls and its bill, and the books are kept
\* after the last of the passes.
LEMMA UnderwayStep ==
  ASSUME Underway, Passes, NamedInv, CallsLeft, Place, [Next]_vars PROVE Underway'
<1> USE EvalAssumption DEF Before, Keeping
<1>1. ASSUME calls' = 0, bill' = NoUsage,
             pc' \notin {"calling", "answered"} \cup Keeping
      PROVE  Underway'
  BY <1>1 DEF Underway
<1>2. ASSUME UNCHANGED <<calls, bill, cases, reports, gold, args, document>>,
             pc' \in {"calling", "answered"} => More /\ gold[Question.id].ok,
             pc' \in Before => pc \in Before \cup Keeping,
             pc' \in Keeping => pc \in Keeping
      PROVE  Underway'
  <2>1. (More' <=> More) /\ Question' = Question
    BY <1>2 DEF More, Question, Selected, Dataset
  <2> QED BY <1>2, <2>1 DEF Underway
<1>3. ASSUME NEW c, Score(c) PROVE Underway'
  BY <1>3, <1>1 DEF Score, Exit
<1>4. CASE Start \/ Die BY <1>4, <1>1 DEF Start, Die, Forget
<1>5. CASE RefuseArguments \/ RefuseCost \/ RefuseQuota \/ RefuseFingerprint
           \/ RefuseToFile \/ File \/ LeaveUnrecorded
  BY <1>5, <1>2 DEF RefuseArguments, RefuseCost, RefuseQuota, RefuseFingerprint,
     RefuseToFile, File, LeaveUnrecorded, Exit, progress, world
<1>6. CASE ReadLedger \/ PassQuota \/ RecordSpend \/ ReconcileFromRefusals
  BY <1>6, <1>2 DEF ReadLedger, PassQuota, RecordSpend, ReconcileFromRefusals,
     progress, world
<1>7. CASE AskAgain BY <1>7, <1>2 DEF AskAgain, progress, world
<1>8. CASE Midnight \/ UNCHANGED vars
  <2>1. UNCHANGED <<pc, calls, bill, cases, reports, gold, args, document>>
    BY <1>8 DEF Midnight, progress, vars, world
  <2> QED BY <1>2, <2>1 DEF Underway
<1>9. CASE ScoreBrokenGold \/ ScoreWithoutCalls
  BY <1>9, <1>3 DEF ScoreBrokenGold, ScoreWithoutCalls
<1>10. ASSUME NEW headers \in Headers,
              (\E refusal \in Refusals : Refused(headers, refusal)) \/ Failed(headers)
       PROVE  Underway'
  BY <1>10, <1>3 DEF Refused, Failed
<1>11. ASSUME (\E rows \in Answers : Execute(rows)) \/
              (\E ending \in Conclusions : Conclude(ending))
       PROVE  Underway'
  BY <1>11, <1>3 DEF Execute, Conclude
<1>12. ASSUME NEW status, NEW usage, NEW headers, Probe(status, usage, headers)
       PROVE  Underway'
  BY <1>12, <1>2 DEF Probe, progress, world
<1>13. CASE ExecuteGold
  BY <1>13, <1>1 DEF ExecuteGold, Underway
<1>14. ASSUME NEW elapsed \in Gaps, Wait(elapsed) PROVE Underway'
  BY <1>14, <1>2 DEF Wait, progress, world
<1>15. ASSUME NEW usage \in Usages, NEW headers \in Headers, Answered(usage, headers)
       PROVE  Underway'
  <2>1. /\ pc = "calling" /\ pc' = "answered" /\ calls' = calls + 1
        /\ UNCHANGED <<cases, gold, args, document>>
    BY <1>15 DEF Answered, world
  <2>2. (More' <=> More) /\ Question' = Question
    BY <2>1 DEF More, Question, Selected, Dataset
  <2>3. calls \in Nat
    <3>1. CallBudget \in Nat BY CallBudgetIsNat DEF Place
    <3> QED BY <3>1 DEF CallsLeft
  <2> QED BY <2>1, <2>2, <2>3 DEF Underway
<1>16. CASE EndPass
  <2>1. /\ calls = 0 /\ bill = NoUsage /\ UNCHANGED <<calls, bill, args>>
        /\ cases' = <<>> /\ reports' = Append(reports, Aggregate(cases))
        /\ pc' = IF Len(reports) + 1 < args.repeat THEN "asking" ELSE "recording"
    BY <1>16 DEF EndPass, Underway
  <2>2. Len(reports) \in Nat /\ Len(reports') = Len(reports) + 1
    <3>1. PICK S : reports \in Seq(S) BY DEF NamedInv
    <3>2. reports \in Seq(S \cup {Aggregate(cases)}) BY <3>1
    <3> QED BY <2>1, <3>2
  <2>3. args.repeat \in Int /\ Len(reports) < args.repeat
    BY <1>16 DEF EndPass, Passes, During
  <2> QED BY <2>1, <2>2, <2>3 DEF Underway
<1> HIDE DEF Underway
<1> QED BY <1>4, <1>5, <1>6, <1>7, <1>8, <1>9, <1>10, <1>11, <1>12, <1>13, <1>14,
           <1>15, <1>16 DEF Next

\* EVALS.md grows at its end.
EvalsGrow == \E S : evals \in Seq(S)

\* Every step leaves a list of entries.
LEMMA EvalsGrowStep == ASSUME EvalsGrow, [Next]_vars PROVE EvalsGrow'
<1>1. CASE evals' = evals BY <1>1 DEF EvalsGrow
<1>2. CASE evals' = Append(evals, Entry)
  <2>1. PICK S : evals \in Seq(S) BY DEF EvalsGrow
  <2>2. evals \in Seq(S \cup {Entry}) BY <2>1
  <2>3. evals' \in Seq(S \cup {Entry}) BY <1>2, <2>2
  <2> QED BY <2>3 DEF EvalsGrow
<1>3. evals' = evals \/ evals' = Append(evals, Entry)
  BY DEF Next, vars, books, Start, RefuseArguments, RefuseCost, ReadLedger, Probe,
     RefuseQuota, PassQuota, RefuseFingerprint, ExecuteGold, ScoreBrokenGold,
     ScoreWithoutCalls, Wait, Answered, Refused, Failed, AskAgain, Execute,
     Conclude, EndPass, RecordSpend, ReconcileFromRefusals, RefuseToFile, File,
     LeaveUnrecorded, Die, Midnight
<1> QED BY <1>1, <1>2, <1>3

\* An entry is written with the totals of its passes, and none but File ends a
\* run that was to be recorded with exit code 0.
LEMMA EntriesStep ==
  ASSUME EntriesBillEveryPass, Counted, Underway, EvalsGrow, [Next]_vars
  PROVE  EntriesBillEveryPass'
<1> USE EvalAssumption, PacingAssumption
<1>1. ASSUME pc' # "ended" \/ code' # 0 PROVE EntriesBillEveryPass'
  BY <1>1 DEF EntriesBillEveryPass
<1>2. ASSUME UNCHANGED <<pc, args, code, evals, meter>> PROVE EntriesBillEveryPass'
  BY <1>2 DEF EntriesBillEveryPass
<1>3. ASSUME NEW c, Score(c), pc # "ended" PROVE EntriesBillEveryPass'
  <2>1. pc' = "asking" \/ code' = 1 BY <1>3 DEF Score, Exit
  <2> QED BY <1>1, <2>1
<1>4. CASE File
  <2>1. /\ pc = "filing" /\ evals' = Append(evals, Entry)
        /\ UNCHANGED <<args, meter, reports>>
    BY <1>4 DEF File, progress
  <2>2. /\ cases = <<>> /\ bill = NoUsage /\ Len(reports) = args.repeat
    BY <2>1 DEF Underway, Keeping
  <2>3. evals'[Len(evals')] = Entry
    <3>1. PICK S : evals \in Seq(S) BY DEF EvalsGrow
    <3>2. evals \in Seq(S \cup {Entry}) BY <3>1
    <3> QED BY <2>1, <3>2
  <2>4. Entry.passes = args.repeat /\ Entry.usage = Filed
    BY <2>2 DEF Entry, Filed
  <2>5. Scored = [tokens |-> 0, calls |-> 0, measured |-> TRUE]
    BY <2>2, TotalUsageOf DEF Scored
  <2>6. Filed.measured => Filed.tokens = meter.questions
    <3>1. SUFFICES ASSUME Filed.measured PROVE Filed.tokens = meter.questions
      OBVIOUS
    <3>2. IsLoop BY <3>1 DEF Counted, NoUsage
    <3>3. Sound(bill) /\ Sound(Scored) /\ Sound(Filed)
      BY <2>2, <2>5, <3>1 DEF Sound, IsZero, NoUsage
    <3>4. Filed.tokens + Scored.tokens + bill.tokens = meter.questions
      BY <3>2, <3>3 DEF Counted
    <3>5. Filed.tokens \in Nat BY DEF Counted, TokenUsage
    <3> QED BY <2>2, <2>5, <3>4, <3>5 DEF NoUsage
  <2> QED BY <2>1, <2>3, <2>4, <2>6 DEF EntriesBillEveryPass
<1>5. CASE LeaveUnrecorded
  BY <1>5 DEF LeaveUnrecorded, EntriesBillEveryPass
<1>6. CASE Start \/ Die BY <1>6, <1>1 DEF Start, Die
<1>7. CASE RefuseArguments \/ RefuseCost \/ RefuseQuota \/ RefuseFingerprint
           \/ RefuseToFile
  BY <1>7, <1>1 DEF RefuseArguments, RefuseCost, RefuseQuota, RefuseFingerprint,
     RefuseToFile, Exit
<1>8. CASE ReadLedger \/ PassQuota \/ ExecuteGold \/ AskAgain \/ EndPass
           \/ RecordSpend \/ ReconcileFromRefusals
  BY <1>8, <1>1 DEF ReadLedger, PassQuota, ExecuteGold, AskAgain, EndPass,
     RecordSpend, ReconcileFromRefusals
<1>9. CASE ScoreBrokenGold \/ ScoreWithoutCalls
  BY <1>9, <1>3 DEF ScoreBrokenGold, ScoreWithoutCalls
<1>10. ASSUME NEW status, NEW usage, NEW headers,
              Probe(status, usage, headers) \/ Answered(usage, headers)
       PROVE  EntriesBillEveryPass'
  BY <1>10, <1>1 DEF Probe, Answered
<1>11. ASSUME NEW elapsed \in Gaps, Wait(elapsed) PROVE EntriesBillEveryPass'
  BY <1>11, <1>1 DEF Wait
<1>12. ASSUME NEW headers \in Headers,
              (\E refusal \in Refusals : Refused(headers, refusal)) \/ Failed(headers)
       PROVE  EntriesBillEveryPass'
  BY <1>12, <1>3 DEF Refused, Failed
<1>13. ASSUME (\E rows \in Answers : Execute(rows)) \/
              (\E ending \in Conclusions : Conclude(ending))
       PROVE  EntriesBillEveryPass'
  BY <1>13, <1>3 DEF Execute, Conclude
<1>14. CASE Midnight \/ UNCHANGED vars
  BY <1>14, <1>2 DEF Midnight, progress, vars, books
<1> HIDE DEF EntriesBillEveryPass
<1> QED BY <1>4, <1>5, <1>6, <1>7, <1>8, <1>9, <1>10, <1>11, <1>12, <1>13, <1>14
        DEF Next

----------------------------------------------------------------------------
(* The questions of a split.                                               *)

\* f[n] is what a split keeps of the first n questions.
Keeps(f, list, split, N) ==
  f = [n \in 0..N |-> IF n = 0 THEN <<>>
                      ELSE IF InSplit(list[n], split) THEN Append(f[n - 1], list[n])
                      ELSE f[n - 1]]

\* There is such a function, carried from each list to the next longer.
LEMMA KeepsExists ==
  ASSUME NEW N \in Nat, NEW list, NEW split
  PROVE  \E f : Keeps(f, list, split, N)
<1> DEFINE Bad == {n \in 0..N : ~\E f : Keeps(f, list, split, n)}
<1>1. SUFFICES ASSUME N \in Bad PROVE FALSE
  OBVIOUS
<1>2. Bad \in SUBSET Nat /\ Bad # {} BY <1>1
<1> HIDE DEF Bad
<1>3. PICK m \in Bad : \A n \in Bad : ~(n < m) BY <1>2, Lowest
<1> USE DEF Bad
<1>4. m # 0
  <2>1. Keeps([n \in 0..0 |-> <<>>], list, split, 0) BY DEF Keeps
  <2> QED BY <2>1
<1>5. m - 1 \in 0..N /\ m - 1 \notin Bad BY <1>3, <1>4
<1>6. PICK f : Keeps(f, list, split, m - 1) BY <1>5
<1> DEFINE last == IF InSplit(list[m], split) THEN Append(f[m - 1], list[m]) ELSE f[m - 1]
           g == [n \in 0..m |-> IF n = m THEN last ELSE f[n]]
<1>7. Keeps(g, list, split, m)
  <2>1. ASSUME NEW n \in 0..m
        PROVE  g[n] = IF n = 0 THEN <<>>
                      ELSE IF InSplit(list[n], split) THEN Append(g[n - 1], list[n])
                      ELSE g[n - 1]
    <3>1. CASE n = m BY <1>4, <3>1
    <3>2. CASE n # m
      <4>1. n \in 0..(m - 1) BY <3>2
      <4>2. f[n] = IF n = 0 THEN <<>>
                   ELSE IF InSplit(list[n], split) THEN Append(f[n - 1], list[n])
                   ELSE f[n - 1]
        BY <1>6, <4>1 DEF Keeps
      <4> QED BY <3>2, <4>1, <4>2
    <3> QED BY <3>1, <3>2
  <2> HIDE DEF g
  <2> QED BY <2>1 DEF Keeps, g
<1> QED BY <1>3, <1>7

\* The members of a longer list.
LEMMA RangeOfLonger ==
  ASSUME NEW S, NEW list \in Seq(S), NEW q
  PROVE  Range(Append(list, q)) = Range(list) \cup {q}
<1>1. list \in Seq(S \cup {q}) OBVIOUS
<1>2. /\ DOMAIN Append(list, q) = 1..(Len(list) + 1) /\ DOMAIN list = 1..Len(list)
      /\ Append(list, q)[Len(list) + 1] = q
      /\ \A i \in 1..Len(list) : Append(list, q)[i] = list[i]
      /\ Len(list) \in Nat
  BY <1>1
<1>3. 1..(Len(list) + 1) = (1..Len(list)) \cup {Len(list) + 1} BY <1>2
<1> HIDE DEF Range
<1>4. ASSUME NEW x \in Range(Append(list, q)) PROVE x \in Range(list) \cup {q}
  BY <1>2, <1>3 DEF Range
<1>5. ASSUME NEW x \in Range(list) \cup {q} PROVE x \in Range(Append(list, q))
  BY <1>2, <1>3 DEF Range
<1> QED BY <1>4, <1>5

\* The questions of a split among the first n of a list.
FirstOf(list, split, n) ==
  {q \in {list[i] : i \in 1..n} : InSplit(q, split)}

\* questions_in_split returns the questions of the split, and no others.
LEMMA SplitHolds ==
  ASSUME NEW S, NEW d, d.questions \in Seq(S), NEW split
  PROVE  /\ QuestionsInSplit(d, split) \in Seq(S)
         /\ Range(QuestionsInSplit(d, split))
              = {q \in Range(d.questions) : InSplit(q, split)}
<1>1. PICK list \in Seq(S) : list = d.questions OBVIOUS
<1>2. PICK N \in Nat : N = Len(list) OBVIOUS
<1> DEFINE f == CHOOSE g : g = [n \in 0..N |->
                  IF n = 0 THEN <<>>
                  ELSE IF InSplit(list[n], split) THEN Append(g[n - 1], list[n])
                  ELSE g[n - 1]]
<1>3. \E g : g = [n \in 0..N |->
                  IF n = 0 THEN <<>>
                  ELSE IF InSplit(list[n], split) THEN Append(g[n - 1], list[n])
                  ELSE g[n - 1]]
  <2>1. \E g : Keeps(g, list, split, N) BY KeepsExists, Zenon
  <2> QED BY <2>1, Zenon DEF Keeps
<1>4. f = [n \in 0..N |->
             IF n = 0 THEN <<>>
             ELSE IF InSplit(list[n], split) THEN Append(f[n - 1], list[n])
             ELSE f[n - 1]]
  BY <1>3, Zenon
<1>5. QuestionsInSplit(d, split) = f[N] BY <1>1, <1>2 DEF QuestionsInSplit
<1> HIDE DEF f
<1>6. ASSUME NEW n \in 0..N
      PROVE  f[n] \in Seq(S) /\ Range(f[n]) = FirstOf(list, split, n)
  <2> DEFINE Right(k) == f[k] \in Seq(S) /\ Range(f[k]) = FirstOf(list, split, k)
             Bad == {k \in 0..N : ~Right(k)}
  <2>1. SUFFICES ASSUME n \in Bad PROVE FALSE OBVIOUS
  <2>2. Bad \in SUBSET Nat /\ Bad # {} BY <2>1
  <2> HIDE DEF Bad
  <2>3. PICK m \in Bad : \A k \in Bad : ~(k < m) BY <2>2, Lowest
  <2>4. m \in 0..N /\ ~Right(m) BY DEF Bad
  <2>5. Right(0)
    <3>1. f[0] = <<>> BY <1>4
    <3>2. Range(<<>>) = {} BY DEF Range
    <3>3. FirstOf(list, split, 0) = {} BY DEF FirstOf
    <3>4. f[0] \in Seq(S) BY <3>1
    <3>5. Range(f[0]) = {} BY <3>1, <3>2, Zenon
    <3> QED BY <3>3, <3>4, <3>5, Zenon
  <2>6. m \in 1..N /\ m - 1 \in 0..N
    <3>1. m # 0 BY <2>4, <2>5
    <3> QED BY <2>4, <3>1
  <2>7. Right(m - 1)
    <3>1. m - 1 \notin Bad BY <2>3, <2>6
    <3>2. \A k \in 0..N : k \notin Bad => Right(k) BY Zenon DEF Bad
    <3> QED BY <2>6, <3>1, <3>2, Zenon
  <2>8. f[m] = IF InSplit(list[m], split) THEN Append(f[m - 1], list[m]) ELSE f[m - 1]
    <3>1. m \in 0..N /\ m # 0 BY <2>6
    <3>2. f[m] = IF m = 0 THEN <<>>
                 ELSE IF InSplit(list[m], split) THEN Append(f[m - 1], list[m])
                 ELSE f[m - 1]
      BY <1>4, <3>1, Zenon
    <3> QED BY <3>1, <3>2, Zenon
  <2>9. list[m] \in S BY <1>2, <2>6
  <2>10. FirstOf(list, split, m) = FirstOf(list, split, m - 1)
           \cup {x \in {list[m]} : InSplit(x, split)}
    <3>1. 1..m = (1..(m - 1)) \cup {m} BY <2>6
    <3> QED BY <3>1 DEF FirstOf
  <2>11. CASE InSplit(list[m], split)
    <3>1. f[m] \in Seq(S) BY <2>7, <2>8, <2>9, <2>11
    <3>2. Range(f[m]) = FirstOf(list, split, m - 1) \cup {list[m]}
      BY <2>7, <2>8, <2>9, <2>11, RangeOfLonger
    <3> QED BY <2>4, <2>10, <2>11, <3>1, <3>2
  <2>12. CASE ~InSplit(list[m], split)
    <3>1. f[m] = f[m - 1] BY <2>8, <2>12
    <3>2. FirstOf(list, split, m) = FirstOf(list, split, m - 1) BY <2>10, <2>12
    <3> QED BY <2>4, <2>7, <3>1, <3>2
  <2> QED BY <2>11, <2>12
<1>7. f[N] \in Seq(S) /\ Range(f[N]) = FirstOf(list, split, N) BY <1>2, <1>6
<1>8. FirstOf(list, split, N) = {q \in Range(list) : InSplit(q, split)}
  BY <1>2 DEF Range, FirstOf
<1> QED BY <1>1, <1>5, <1>7, <1>8

----------------------------------------------------------------------------
(* From the split to the entry.                                            *)

\* What the split fingerprint says the split is.
IdsOf(partition, split) ==
  {pair[1] : pair \in {p \in partition : split \in {"all", p[2]}}}

\* A pass goes through the questions of its split in their order, and so its
\* report is of these; what was filed is what its split fingerprint says.
Orderly ==
  /\ pc \notin {"ended", "checking"} => IsDataset(document)
  /\ pc \in Before => cases = <<>> /\ reports = <<>>
  /\ pc \in During =>
       /\ Len(cases) <= Len(Selected)
       /\ \A i \in 1..Len(cases) : cases[i].id = Selected[i].id
  /\ pc \in During \cup Keeping =>
       \A r \in 1..Len(reports) :
         {c.id : c \in Range(reports[r].cases)} = {q.id : q \in Range(Selected)}
  /\ pc \in Keeping => Len(reports) >= 1
  /\ \A i \in 1..Len(evals) :
       evals[i].scored = IdsOf(evals[i].partition, evals[i].split)

\* A document that loads has a list of questions, and the dataset has as many.
LEMMA QuestionsAreListed ==
  ASSUME document \in Documents, IsDataset(document)
  PROVE  \E S : Dataset.questions \in Seq(S)
<1>1. document # Junk /\ Has(document, "questions") /\ document.questions # Junk
  BY DEF IsDataset, HasKeys, RequiredTopLevel, Has
<1>2. PICK T : document.questions \in Seq(T)
  BY <1>1, DocumentsAssumption
<1>3. PICK raw \in Seq(T) : raw = document.questions BY <1>2
<1>4. Dataset.questions = [i \in DOMAIN raw |-> AsQuestion(raw[i])]
  BY <1>3 DEF Dataset, ParseDataset
<1>5. PICK n \in Nat : DOMAIN raw = 1..n BY <1>3
<1>6. Dataset.questions \in [1..n -> {AsQuestion(raw[i]) : i \in 1..n}]
  BY <1>4, <1>5
<1>7. Dataset.questions \in Seq({AsQuestion(raw[i]) : i \in 1..n}) BY <1>6
<1> QED BY <1>7

\* The ids of the selected questions are those the split fingerprint names.
LEMMA SelectedIds ==
  ASSUME document \in Documents, IsDataset(document)
  PROVE  /\ \E S : Selected \in Seq(S)
         /\ {q.id : q \in Range(Selected)} = IdsOf(SplitFingerprint(Dataset), args.split)
<1>1. PICK S : Dataset.questions \in Seq(S) BY QuestionsAreListed
<1>2. PICK d : d = Dataset OBVIOUS
<1>3. /\ Selected \in Seq(S)
      /\ Range(Selected) = {q \in Range(d.questions) : InSplit(q, args.split)}
  BY <1>1, <1>2, SplitHolds DEF Selected
<1>4. {q.id : q \in Range(Selected)}
        = {q.id : q \in {r \in Range(d.questions) : InSplit(r, args.split)}}
  BY <1>3
<1>5. ASSUME NEW x PROVE x \in {q.id : q \in Range(Selected)}
                            <=> x \in IdsOf(SplitFingerprint(d), args.split)
  <2>1. x \in {q.id : q \in Range(Selected)} <=>
          \E i \in DOMAIN d.questions :
            x = d.questions[i].id /\ args.split \in {"all", d.questions[i].split}
    BY <1>4 DEF Range, InSplit
  <2>2. SplitFingerprint(d)
          = {<<d.questions[i].id, d.questions[i].split>> : i \in DOMAIN d.questions}
    BY DEF SplitFingerprint
  <2>3. ASSUME NEW i \in DOMAIN d.questions, x = d.questions[i].id,
               args.split \in {"all", d.questions[i].split}
        PROVE  x \in IdsOf(SplitFingerprint(d), args.split)
    <3>1. PICK p \in SplitFingerprint(d) : p = <<x, d.questions[i].split>>
      BY <2>2, <2>3
    <3>2. p[1] = x /\ args.split \in {"all", p[2]} BY <2>3, <3>1
    <3> QED BY <3>2 DEF IdsOf
  <2>4. ASSUME x \in IdsOf(SplitFingerprint(d), args.split)
        PROVE  \E i \in DOMAIN d.questions :
                 x = d.questions[i].id /\ args.split \in {"all", d.questions[i].split}
    <3>1. PICK p \in SplitFingerprint(d) : x = p[1] /\ args.split \in {"all", p[2]}
      BY <2>4 DEF IdsOf
    <3>2. PICK i \in DOMAIN d.questions :
            p = <<d.questions[i].id, d.questions[i].split>>
      BY <2>2, <3>1
    <3>3. x = d.questions[i].id /\ args.split \in {"all", d.questions[i].split}
      BY <3>1, <3>2
    <3> QED BY <3>3
  <2> QED BY <2>1, <2>3, <2>4
<1> QED BY <1>2, <1>3, <1>5

\* A case is of the question that is next in the split.
LEMMA ScoreIsOrderly ==
  ASSUME Orderly, NamedInv, More, pc \in During, document \in Documents,
         NEW c, c.id = Question.id, Score(c),
         UNCHANGED <<reports, args, document, evals>>
  PROVE  Orderly'
<1>1. cases' = Append(cases, c) /\ pc' \in {"asking", "ended"}
  BY DEF Score, Exit
<1>2. PICK S : cases \in Seq(S) BY DEF NamedInv, NamesTokens
<1>3. cases \in Seq(S \cup {c}) BY <1>2
<1>4. /\ Len(cases) \in Nat /\ Len(cases') = Len(cases) + 1
      /\ cases'[Len(cases) + 1] = c
      /\ \A i \in 1..Len(cases) : cases'[i] = cases[i]
  BY <1>1, <1>3
<1>5. Selected' = Selected BY DEF Selected, Dataset
<1>6. IsDataset(document) BY DEF Orderly, During
<1>7. Len(Selected) \in Nat
  <2>1. PICK T : Selected \in Seq(T) BY <1>6, SelectedIds
  <2> QED BY <2>1
<1>8. Len(cases') <= Len(Selected) BY <1>4, <1>7 DEF More
<1>9. ASSUME NEW i \in 1..Len(cases') PROVE cases'[i].id = Selected[i].id
  <2>1. CASE i \in 1..Len(cases) BY <1>4, <2>1 DEF Orderly
  <2>2. CASE i = Len(cases) + 1 BY <1>4, <2>2 DEF Question
  <2> QED BY <1>4, <2>1, <2>2
<1>10. IsDataset(document)' BY <1>6
<1>11. \A r \in 1..Len(reports') :
         {x.id : x \in Range(reports'[r].cases)} = {q.id : q \in Range(Selected')}
  BY <1>5 DEF Orderly
<1> QED BY <1>1, <1>5, <1>8, <1>9, <1>10, <1>11
        DEF Orderly, Before, During, Keeping

\* A finished pass has a case for every question of its split.
LEMMA PassIsOrderly ==
  ASSUME Orderly, NamedInv, document \in Documents, EndPass
  PROVE  Orderly'
<1>1. /\ reports' = Append(reports, Aggregate(cases)) /\ cases' = <<>>
      /\ UNCHANGED <<args, document, evals>> /\ pc = "asking" /\ ~More
      /\ pc' \in {"asking", "recording"}
  BY DEF EndPass, world, books
<1>2. PICK S : reports \in Seq(S) BY DEF NamedInv
<1>3. reports \in Seq(S \cup {Aggregate(cases)}) BY <1>2
<1>4. /\ Len(reports) \in Nat /\ Len(reports') = Len(reports) + 1
      /\ reports'[Len(reports) + 1] = Aggregate(cases)
      /\ \A r \in 1..Len(reports) : reports'[r] = reports[r]
  BY <1>1, <1>3
<1>5. Selected' = Selected BY <1>1 DEF Selected, Dataset
<1>6. IsDataset(document) BY <1>1 DEF Orderly
<1>7. PICK T : Selected \in Seq(T) BY <1>6, SelectedIds
<1>8. PICK U : cases \in Seq(U) BY DEF NamedInv, NamesTokens
<1>9. /\ Len(cases) = Len(Selected)
      /\ \A i \in 1..Len(cases) : cases[i].id = Selected[i].id
  BY <1>1, <1>7, <1>8 DEF Orderly, More, During
<1>10. {c.id : c \in Range(cases)} = {q.id : q \in Range(Selected)}
  <2>1. DOMAIN cases = DOMAIN Selected /\ DOMAIN cases = 1..Len(cases)
    BY <1>7, <1>8, <1>9
  <2> QED BY <1>9, <2>1 DEF Range
<1>11. ASSUME NEW r \in 1..Len(reports')
       PROVE  {c.id : c \in Range(reports'[r].cases)} = {q.id : q \in Range(Selected)}
  <2>1. CASE r \in 1..Len(reports) BY <1>1, <1>4, <2>1 DEF Orderly, During
  <2>2. CASE r = Len(reports) + 1 BY <1>4, <1>10, <2>2, AggregateCases
  <2>3. r \in 1..Len(reports) \/ r = Len(reports) + 1 BY <1>4
  <2> QED BY <2>1, <2>2, <2>3
<1>12. IsDataset(document)' BY <1>1, <1>6
<1>13. Len(cases') = 0 /\ 0 <= Len(Selected)
  <2>1. cases' = <<>> BY <1>1
  <2>2. Len(Selected) \in Nat BY <1>7
  <2> QED BY <2>1, <2>2
<1>14. Len(reports') >= 1 BY <1>4
<1>15. pc' \notin Before BY <1>1 DEF Before
<1>16. \A i \in 1..Len(cases') : cases'[i].id = Selected'[i].id BY <1>13
<1>17. \A r \in 1..Len(reports') :
         {c.id : c \in Range(reports'[r].cases)} = {q.id : q \in Range(Selected')}
  BY <1>5, <1>11
<1>18. \A i \in 1..Len(evals') :
         evals'[i].scored = IdsOf(evals'[i].partition, evals'[i].split)
  BY <1>1 DEF Orderly
<1> QED BY <1>5, <1>12, <1>13, <1>14, <1>15, <1>16, <1>17, <1>18 DEF Orderly

\* What is filed is what the split fingerprint beside it says.
LEMMA FileIsOrderly ==
  ASSUME Orderly, NamedInv, EvalsGrow, document \in Documents, File
  PROVE  Orderly'
<1>1. /\ pc = "filing" /\ pc' = "ended" /\ evals' = Append(evals, Entry)
  BY DEF File, Exit
<1>2. PICK S : evals \in Seq(S) BY DEF EvalsGrow
<1>3. evals \in Seq(S \cup {Entry}) BY <1>2
<1>4. /\ Len(evals) \in Nat /\ Len(evals') = Len(evals) + 1
      /\ evals'[Len(evals) + 1] = Entry
      /\ \A i \in 1..Len(evals) : evals'[i] = evals[i]
  BY <1>1, <1>3
<1>5. IsDataset(document) /\ Len(reports) >= 1 BY <1>1 DEF Orderly, Keeping
<1>6. /\ Entry.scored = {c.id : c \in Range(reports[1].cases)}
      /\ Entry.partition = SplitFingerprint(Dataset) /\ Entry.split = args.split
  BY DEF Entry
<1>7. {c.id : c \in Range(reports[1].cases)} = {q.id : q \in Range(Selected)}
  <2>1. Len(reports) \in Nat
    <3>1. PICK T : reports \in Seq(T) BY DEF NamedInv
    <3> QED BY <3>1
  <2>2. 1 \in 1..Len(reports) BY <1>5, <2>1
  <2>3. pc \in During \cup Keeping BY <1>1 DEF Keeping
  <2> QED BY <2>2, <2>3, Zenon DEF Orderly
<1>8. Entry.scored = IdsOf(Entry.partition, Entry.split)
  BY <1>5, <1>6, <1>7, SelectedIds
<1>9. \A i \in 1..Len(evals') :
        evals'[i].scored = IdsOf(evals'[i].partition, evals'[i].split)
  <2>1. ASSUME NEW i \in 1..Len(evals')
        PROVE  evals'[i].scored = IdsOf(evals'[i].partition, evals'[i].split)
    <3>1. CASE i \in 1..Len(evals) BY <1>4, <3>1 DEF Orderly
    <3>2. CASE i = Len(evals) + 1 BY <1>4, <1>8, <3>2
    <3> QED BY <1>4, <3>1, <3>2
  <2> QED BY <2>1
<1> QED BY <1>1, <1>9 DEF Orderly, Before, During, Keeping

\* No other step scores a question, and the dataset is edited between runs.
LEMMA OrderlyStep ==
  ASSUME Orderly, Underway, Passes, NamedInv, EvalsGrow, Place, [Next]_vars
  PROVE  Orderly'
<1> USE EvalAssumption
<1>a. document \in Documents BY DEF Place
<1>1. ASSUME UNCHANGED <<cases, reports, args, document, evals>>,
             pc' \in During => pc \in During,
             pc' \in Keeping => pc \in Keeping,
             pc' \in Before => pc \in Before,
             pc' \notin {"ended", "checking"} => pc \notin {"ended", "checking"}
      PROVE  Orderly'
  <2>1. Selected' = Selected /\ (IsDataset(document)' <=> IsDataset(document))
    BY <1>1 DEF Selected, Dataset
  <2>2. pc' \in During \cup Keeping => pc \in During \cup Keeping BY <1>1
  <2>3. UNCHANGED <<cases, reports, evals>> BY <1>1
  <2> HIDE DEF Before, During, Keeping
  <2> QED BY <1>1, <2>1, <2>2, <2>3 DEF Orderly
<1>2. ASSUME evals' = evals, cases' = <<>>, reports' = <<>>,
             pc' \in {"ended", "checking"}
      PROVE  Orderly'
  BY <1>2 DEF Orderly, Before, During, Keeping
<1>3. CASE Start \/ Die BY <1>3, <1>2 DEF Start, Die, Forget, books
<1>4. CASE RefuseArguments \/ RefuseCost \/ RefuseQuota \/ RefuseFingerprint
           \/ RefuseToFile \/ LeaveUnrecorded
  BY <1>4, <1>1 DEF RefuseArguments, RefuseCost, RefuseQuota, RefuseFingerprint,
     RefuseToFile, LeaveUnrecorded, Exit, progress, books, world, Before, During,
     Keeping
<1>5. CASE ReadLedger
  <2>1. /\ pc = "checking" /\ pc' = "probing" /\ IsDataset(document)
        /\ UNCHANGED <<cases, reports, document, evals>>
    BY <1>5 DEF ReadLedger, Acceptable, books, world
  <2>2. IsDataset(document)' BY <2>1
  <2> QED BY <2>1, <2>2 DEF Orderly, Before, During, Keeping
<1>6. CASE PassQuota \/ RecordSpend \/ ReconcileFromRefusals \/ AskAgain
  BY <1>6, <1>1 DEF PassQuota, RecordSpend, ReconcileFromRefusals, AskAgain,
     progress, books, world, Before, During, Keeping
<1>7. CASE ExecuteGold
  <2>1. /\ pc = "verifying" /\ pc' = "asking" /\ cases = <<>> /\ reports = <<>>
        /\ UNCHANGED <<cases, reports, args, document, evals>>
    BY <1>7 DEF ExecuteGold, Orderly, Before, books, world
  <2>2. IsDataset(document) BY <2>1 DEF Orderly
  <2>3. Selected' = Selected /\ IsDataset(document)'
    BY <2>1, <2>2 DEF Selected, Dataset
  <2>4. PICK T : Selected \in Seq(T) BY <1>a, <2>2, SelectedIds
  <2>5. Len(cases') = 0 /\ Len(reports') = 0 /\ 0 <= Len(Selected') BY <2>1, <2>3, <2>4
  <2> QED BY <2>1, <2>3, <2>5 DEF Orderly, Before, During, Keeping
<1>8. ASSUME NEW status, NEW usage, NEW headers,
             Probe(status, usage, headers) \/ Answered(usage, headers)
      PROVE  Orderly'
  BY <1>8, <1>1 DEF Probe, Answered, progress, books, world, Before, During, Keeping
<1>9. ASSUME NEW elapsed \in Gaps, Wait(elapsed) PROVE Orderly'
  BY <1>9, <1>1 DEF Wait, progress, books, world, Before, During, Keeping
<1>10. CASE ScoreBrokenGold \/ ScoreWithoutCalls
  <2>1. PICK c : c.id = Question.id /\ Score(c)
    BY <1>10 DEF ScoreBrokenGold, ScoreWithoutCalls, Case
  <2> QED BY <1>a, <1>10, <2>1, ScoreIsOrderly
          DEF ScoreBrokenGold, ScoreWithoutCalls, During, books, world
<1>11. ASSUME NEW headers \in Headers,
              (\E refusal \in Refusals : Refused(headers, refusal)) \/ Failed(headers)
       PROVE  Orderly'
  <2>1. PICK c : c.id = Question.id /\ Score(c)
    BY <1>11 DEF Refused, Failed, Case
  <2>2. More /\ pc = "calling" BY <1>11 DEF Refused, Failed, Underway
  <2> QED BY <1>a, <1>11, <2>1, <2>2, ScoreIsOrderly
          DEF Refused, Failed, During, books, world
<1>12. ASSUME (\E rows \in Answers : Execute(rows)) \/
              (\E ending \in Conclusions : Conclude(ending))
       PROVE  Orderly'
  <2>1. PICK c : c.id = Question.id /\ Score(c)
    BY <1>12 DEF Execute, Conclude, Case, ExecutedCase
  <2>2. More /\ pc = "answered" BY <1>12 DEF Execute, Conclude, Underway
  <2> QED BY <1>a, <1>12, <2>1, <2>2, ScoreIsOrderly
          DEF Execute, Conclude, During, books, world
<1>13. CASE EndPass BY <1>a, <1>13, PassIsOrderly
<1>14. CASE File BY <1>a, <1>14, FileIsOrderly
<1>15. CASE Midnight \/ UNCHANGED vars
  <2>1. UNCHANGED <<pc, cases, reports, args, document, evals>>
    BY <1>15 DEF Midnight, progress, vars, books, world
  <2> QED BY <1>1, <2>1
<1> HIDE DEF Orderly
<1> QED BY <1>3, <1>4, <1>5, <1>6, <1>7, <1>8, <1>9, <1>10, <1>11, <1>12, <1>13,
           <1>14, <1>15 DEF Next

\* What the theorems rest on.
EntriesInv ==
  /\ NamedInv /\ LedgerInv /\ Kept /\ Place /\ CallsLeft
  /\ Passes /\ ReconciledFigureStands
  /\ Counted /\ Underway /\ EvalsGrow /\ Orderly

\* At first nothing was asked, billed, reported or filed.
LEMMA EntriesInit ==
  ASSUME Init, NamedInv
  PROVE  EntriesInv /\ EntriesBillEveryPass
<1> USE EvalAssumption, PacingAssumption, LedgerAssumption
<1>1. LedgerInv
  BY DEF Init, LedgerInv, Billing, LedgerIsExact, NoUsage, TokenUsage
<1>2. Kept /\ Place BY DEF Init, Kept, Place, Steps
<1>3. CallsLeft
  <2>1. CallBudget \in Nat BY CallBudgetIsNat DEF Init
  <2> QED BY <2>1 DEF Init, CallsLeft, NoUsage, TokenUsage
<1>4. Passes /\ ReconciledFigureStands
  BY DEF Init, Passes, ReconciledFigureStands, Before, During
<1>5. Counted
  <2>1. Scored = [tokens |-> 0, calls |-> 0, measured |-> TRUE] /\ Filed = NoUsage
    BY TotalUsageOf, TotalOfPasses DEF Init, Scored, Filed
  <2> QED BY <2>1 DEF Init, Counted, NoUsage, TokenUsage, IsZero
<1>6. Underway /\ EntriesBillEveryPass
  BY DEF Init, Underway, EntriesBillEveryPass, Before, Keeping
<1>7. EvalsGrow
  <2>1. PICK S : S = {} OBVIOUS
  <2>2. evals \in Seq(S) BY DEF Init
  <2> QED BY <2>2 DEF EvalsGrow
<1>8. Orderly BY DEF Init, Orderly, Before, During, Keeping
<1> QED BY <1>1, <1>2, <1>3, <1>4, <1>5, <1>6, <1>7, <1>8 DEF EntriesInv

\* Every step keeps it.
LEMMA EntriesInvStep == ASSUME EntriesInv, [Next]_vars PROVE EntriesInv'
<1> USE DEF EntriesInv
<1>1. NamedInv' BY NamedStep
<1>2. LedgerInv' /\ Kept' BY LedgerStep, KeptStep
<1>3. Place' /\ CallsLeft' BY PlaceStep, CallsLeftStep
<1>4. Passes' /\ ReconciledFigureStands' BY PassesStep
<1>5. Counted' /\ Underway' BY CountedStep, UnderwayStep
<1>6. EvalsGrow' /\ Orderly' BY EvalsGrowStep, OrderlyStep
<1> QED BY <1>1, <1>2, <1>3, <1>4, <1>5, <1>6

\* The tokens an entry of EVALS.md calls measured are what the provider billed
\* for the questions of every pass (total_usage, main()).
THEOREM EntriesBillAll == Spec => []EntriesBillEveryPass
<1>1. Init /\ NamedInv => EntriesInv /\ EntriesBillEveryPass BY EntriesInit
<1>2. EntriesInv /\ [Next]_vars => EntriesInv' BY EntriesInvStep
<1>3. EntriesBillEveryPass /\ EntriesInv /\ [Next]_vars => EntriesBillEveryPass'
  BY EntriesStep DEF EntriesInv
<1> QED BY <1>1, <1>2, <1>3, NamedInductive, PTL DEF Spec

\* Two entries with one split and one split fingerprint were taken over the
\* same questions (split_fingerprint, questions_in_split).
THEOREM ComparableScored == Spec => []ComparableEntriesScoredTheSame
<1>1. Init /\ NamedInv => EntriesInv BY EntriesInit
<1>2. EntriesInv /\ [Next]_vars => EntriesInv' BY EntriesInvStep
<1>3. EntriesInv => ComparableEntriesScoredTheSame
  BY DEF EntriesInv, Orderly, ComparableEntriesScoredTheSame
<1> QED BY <1>1, <1>2, <1>3, NamedInductive, PTL DEF Spec

----------------------------------------------------------------------------
(* What is scored correct.                                                 *)

\* The places of a value in a list, which Counter counts.
Places(list, value) == {i \in DOMAIN list : list[i] = value}

\* t lists what s lists, in another order: p says which member went where.
Reorders(p, s, t) ==
  p \in Bijection(DOMAIN s, DOMAIN t) /\ \A i \in DOMAIN s : t[p[i]] = s[i]

LEMMA PlacesAreFinite ==
  ASSUME NEW list, NEW n \in Nat, DOMAIN list = 1..n, NEW value
  PROVE  IsFiniteSet(Places(list, value)) /\ Cardinality(Places(list, value)) \in Nat
<1>1. IsFiniteSet(1..n)
  BY FS_Interval
<1>2. Places(list, value) \in SUBSET (1..n)
  BY DEF Places
<1> QED
  BY <1>1, <1>2, FS_Subset, FS_CardinalityType

\* Reordering a list moves the places of each value, one to one.
LEMMA ReorderedCounts ==
  ASSUME NEW s, NEW t, NEW n \in Nat, DOMAIN s = 1..n, DOMAIN t = 1..n,
         NEW p, Reorders(p, s, t), NEW value
  PROVE  Cardinality(Places(s, value)) = Cardinality(Places(t, value))
<1> DEFINE S == Places(s, value)
           T == Places(t, value)
           q == [i \in S |-> p[i]]
<1>1. /\ p \in [1..n -> 1..n]
      /\ \A i, j \in 1..n : p[i] = p[j] => i = j
      /\ \A k \in 1..n : \E i \in 1..n : p[i] = k
      /\ \A i \in 1..n : t[p[i]] = s[i]
  BY DEF Reorders, Bijection, Injection, Surjection, IsInjective
<1>2. \A i \in 1..n : i \in S <=> p[i] \in T
  BY <1>1 DEF Places
<1>3. q \in Injection(S, T)
  BY <1>1, <1>2 DEF Injection, IsInjective, Places
<1>4. q \in Surjection(S, T)
  BY <1>1, <1>2 DEF Surjection, Places
<1>5. ExistsBijection(S, T)
  BY <1>3, <1>4 DEF Bijection, ExistsBijection
<1> QED
  BY <1>5, PlacesAreFinite, FS_Bijection

\* Lists of the same counts are reordered by matching the places of each value.
LEMMA CountsReorder ==
  ASSUME NEW s, NEW t, NEW n \in Nat, DOMAIN s = 1..n, DOMAIN t = 1..n,
         \A i \in 1..n : Cardinality(Places(s, s[i])) = Cardinality(Places(t, s[i]))
  PROVE  \E p : Reorders(p, s, t)
<1> DEFINE Matchings(i) == Bijection(Places(s, s[i]), Places(t, s[i]))
           p == [i \in 1..n |-> (CHOOSE b \in Matchings(i) : TRUE)[i]]
<1>1. \A i \in 1..n : (CHOOSE b \in Matchings(i) : TRUE) \in Matchings(i)
  <2> SUFFICES ASSUME NEW i \in 1..n PROVE Matchings(i) # {}
    OBVIOUS
  <2>1. ExistsBijection(Places(s, s[i]), Places(t, s[i]))
    BY PlacesAreFinite, FS_SameCardinalityBij
  <2> QED
    BY <2>1 DEF ExistsBijection
<1>2. ASSUME NEW i \in 1..n
      PROVE  p[i] \in Places(t, s[i])
  <2>1. i \in Places(s, s[i])
    BY DEF Places
  <2> QED
    BY <2>1, <1>1 DEF Bijection, Injection
<1>3. ASSUME NEW i \in 1..n, NEW j \in 1..n, p[i] = p[j]
      PROVE  i = j
  <2>1. s[i] = t[p[i]] /\ s[j] = t[p[j]]
    BY <1>2 DEF Places
  <2>2. s[i] = s[j] /\ Matchings(i) = Matchings(j)
    BY <2>1, <1>3
  <2>3. PICK b \in Matchings(i) : b[i] = p[i] /\ b[j] = p[j]
    BY <1>1, <2>2
  <2>4. i \in Places(s, s[i]) /\ j \in Places(s, s[i])
    BY <2>2 DEF Places
  <2> QED
    BY <2>3, <2>4, <1>3 DEF Bijection, Injection, IsInjective
<1>4. p \in Injection(1..n, 1..n)
  BY <1>2, <1>3 DEF Injection, IsInjective, Places
<1> HIDE DEF p
<1>5. p \in Surjection(1..n, 1..n)
  BY <1>4, FS_Interval, FS_Injection
<1>6. Reorders(p, s, t)
  BY <1>2, <1>4, <1>5 DEF Reorders, Bijection, Places
<1> QED
  BY <1>6

\* What Counter compares, whatever the rows are: two lists have the same counts
\* exactly when one is the other in some order.
LEMMA SameBagIsReordering ==
  ASSUME NEW R, NEW s \in Seq(R), NEW t \in Seq(R)
  PROVE  SameBag(s, t) <=> \E p : Reorders(p, s, t)
<1>1. /\ Len(s) \in Nat /\ DOMAIN s = 1..Len(s)
      /\ Len(t) \in Nat /\ DOMAIN t = 1..Len(t)
  OBVIOUS
<1>2. SameBag(s, t) <=>
        /\ Len(s) = Len(t)
        /\ \A i \in DOMAIN s :
             Cardinality(Places(s, s[i])) = Cardinality(Places(t, s[i]))
  BY DEF SameBag, Places
<1>3. ASSUME SameBag(s, t) PROVE \E p : Reorders(p, s, t)
  BY <1>1, <1>2, <1>3, CountsReorder
<1>4. ASSUME NEW p, Reorders(p, s, t) PROVE SameBag(s, t)
  <2>1. ExistsBijection(1..Len(s), 1..Len(t))
    BY <1>1, <1>4 DEF Reorders, ExistsBijection
  <2>2. Len(s) = Len(t)
    <3>1. \A n \in Nat : IsFiniteSet(1..n) /\ Cardinality(1..n) = n
      BY FS_Interval
    <3>2. Cardinality(1..Len(t)) = Cardinality(1..Len(s))
      BY <1>1, <2>1, <3>1, FS_Bijection, Zenon
    <3>3. Len(s) = Cardinality(1..Len(s)) /\ Len(t) = Cardinality(1..Len(t))
      BY <1>1, <3>1, Zenon
    <3> QED
      BY <3>2, <3>3, Zenon
  <2> QED
    BY <1>1, <1>2, <1>4, <2>2, ReorderedCounts
<1> QED
  BY <1>3, <1>4

\* An order can be undone, followed by another, and left as it is.
LEMMA OrdersCompose ==
  ASSUME NEW s, NEW t, NEW u
  PROVE  /\ \E p : Reorders(p, s, s)
         /\ (\E p : Reorders(p, s, t)) => \E q : Reorders(q, t, s)
         /\ (\E p : Reorders(p, s, t)) /\ (\E q : Reorders(q, t, u)) =>
              \E r : Reorders(r, s, u)
<1>1. \E p : Reorders(p, s, s)
  <2>1. [i \in DOMAIN s |-> i] \in Bijection(DOMAIN s, DOMAIN s)
    BY DEF Bijection, Injection, Surjection, IsInjective
  <2> QED
    BY <2>1 DEF Reorders
<1>2. ASSUME NEW p, Reorders(p, s, t) PROVE \E q : Reorders(q, t, s)
  <2> DEFINE q == [k \in DOMAIN t |-> CHOOSE i \in DOMAIN s : p[i] = k]
  <2>1. /\ p \in [DOMAIN s -> DOMAIN t]
        /\ \A i, j \in DOMAIN s : p[i] = p[j] => i = j
        /\ \A k \in DOMAIN t : \E i \in DOMAIN s : p[i] = k
        /\ \A i \in DOMAIN s : t[p[i]] = s[i]
    BY <1>2 DEF Reorders, Bijection, Injection, Surjection, IsInjective
  <2>2. \A k \in DOMAIN t : q[k] \in DOMAIN s /\ p[q[k]] = k
    BY <2>1
  <2>3. \A i \in DOMAIN s : q[p[i]] = i
    BY <2>1, <2>2
  <2> HIDE DEF q
  <2>4. q \in [DOMAIN t -> DOMAIN s]
    BY <2>2 DEF q
  <2>5. q \in Bijection(DOMAIN t, DOMAIN s)
    BY <2>1, <2>2, <2>3, <2>4 DEF Bijection, Injection, Surjection, IsInjective
  <2>6. \A k \in DOMAIN t : s[q[k]] = t[k]
    BY <2>1, <2>2
  <2> QED
    BY <2>5, <2>6 DEF Reorders
<1>3. ASSUME NEW p, NEW q, Reorders(p, s, t), Reorders(q, t, u)
      PROVE  \E r : Reorders(r, s, u)
  <2> DEFINE r == [i \in DOMAIN s |-> q[p[i]]]
  <2>1. /\ p \in [DOMAIN s -> DOMAIN t]
        /\ \A i, j \in DOMAIN s : p[i] = p[j] => i = j
        /\ \A k \in DOMAIN t : \E i \in DOMAIN s : p[i] = k
        /\ \A i \in DOMAIN s : t[p[i]] = s[i]
    BY <1>3 DEF Reorders, Bijection, Injection, Surjection, IsInjective
  <2>2. /\ q \in [DOMAIN t -> DOMAIN u]
        /\ \A i, j \in DOMAIN t : q[i] = q[j] => i = j
        /\ \A k \in DOMAIN u : \E i \in DOMAIN t : q[i] = k
        /\ \A i \in DOMAIN t : u[q[i]] = t[i]
    BY <1>3 DEF Reorders, Bijection, Injection, Surjection, IsInjective
  <2>3. r \in Bijection(DOMAIN s, DOMAIN u)
    BY <2>1, <2>2 DEF Bijection, Injection, Surjection, IsInjective
  <2>4. \A i \in DOMAIN s : u[r[i]] = s[i]
    BY <2>1, <2>2
  <2> QED
    BY <2>3, <2>4 DEF Reorders
<1> QED
  BY <1>1, <1>2, <1>3

\* Normalised rows are a list again.
LEMMA NormalisedRows ==
  ASSUME NEW Row, NEW rows \in Seq(Row),
         NEW R, \A i \in DOMAIN rows : NormaliseRows(rows)[i] \in R
  PROVE  NormaliseRows(rows) \in Seq(R)
<1> DEFINE Normalised(i) == [j \in DOMAIN rows[i] |-> NormaliseValue(rows[i][j])]
<1>1. NormaliseRows(rows) = [i \in 1..Len(rows) |-> Normalised(i)]
  BY DEF NormaliseRows
<1>2. Len(rows) \in Nat /\ DOMAIN rows = 1..Len(rows)
  OBVIOUS
<1>3. \A i \in 1..Len(rows) : Normalised(i) \in R
  BY <1>1, <1>2
<1> HIDE DEF Normalised
<1>4. ASSUME NEW n \in Nat, \A i \in 1..n : Normalised(i) \in R
      PROVE  [i \in 1..n |-> Normalised(i)] \in Seq(R)
  BY <1>4
<1> QED
  BY <1>1, <1>2, <1>3, <1>4

\* results_match: for a question without an order a result is correct exactly
\* when some order of it agrees with the gold rows, cell for cell after rounding;
\* for one with an order, when it agrees as it is, which is the stricter grade.
\* Either way it does not matter which of two results is called gold, and what
\* matches the same gold matches.
THEOREM MatchesUpToOrder ==
  ASSUME NEW Row, NEW wanted \in Seq(Row), NEW given \in Seq(Row),
         NEW other \in Seq(Row), NEW ordered \in BOOLEAN
  PROVE  /\ ResultsMatch(wanted, given, FALSE) <=>
              \E p : Reorders(p, NormaliseRows(wanted), NormaliseRows(given))
         /\ ResultsMatch(wanted, given, TRUE) => ResultsMatch(wanted, given, FALSE)
         /\ ResultsMatch(wanted, given, ordered) => ResultsMatch(given, wanted, ordered)
         /\ ResultsMatch(wanted, given, ordered) /\ ResultsMatch(given, other, ordered)
              => ResultsMatch(wanted, other, ordered)
<1> DEFINE Same(a, b) == \E p : Reorders(p, NormaliseRows(a), NormaliseRows(b))
<1>1. \A a, b \in Seq(Row) : SameBag(NormaliseRows(a), NormaliseRows(b)) <=> Same(a, b)
  <2> SUFFICES ASSUME NEW a \in Seq(Row), NEW b \in Seq(Row)
               PROVE  SameBag(NormaliseRows(a), NormaliseRows(b)) <=> Same(a, b)
    OBVIOUS
  <2> DEFINE R == {NormaliseRows(a)[i] : i \in DOMAIN a}
                    \cup {NormaliseRows(b)[i] : i \in DOMAIN b}
  <2>1. /\ \A i \in DOMAIN a : NormaliseRows(a)[i] \in R
        /\ \A i \in DOMAIN b : NormaliseRows(b)[i] \in R
    OBVIOUS
  <2> HIDE DEF R
  <2>2. NormaliseRows(a) \in Seq(R) /\ NormaliseRows(b) \in Seq(R)
    BY <2>1, NormalisedRows
  <2> QED
    BY <2>2, SameBagIsReordering
<1>2. \A a, b \in Seq(Row) : ResultsMatch(a, b, FALSE) <=> Same(a, b)
  BY <1>1 DEF ResultsMatch
<1>3. \A a, b : ResultsMatch(a, b, TRUE) <=> NormaliseRows(a) = NormaliseRows(b)
  BY DEF ResultsMatch
<1>4. \A a, b, c : Same(a, a) /\ (Same(a, b) => Same(b, a)) /\ (Same(a, b) /\ Same(b, c) => Same(a, c))
  BY OrdersCompose
<1>5. \A a, b : NormaliseRows(a) = NormaliseRows(b) => Same(a, b)
  BY <1>4
<1>6. ResultsMatch(wanted, given, FALSE) <=> Same(wanted, given)
  BY <1>2
<1> HIDE DEF Same
<1>7. ResultsMatch(wanted, given, TRUE) => ResultsMatch(wanted, given, FALSE)
  BY <1>2, <1>3, <1>5
<1>8. ASSUME NEW a \in Seq(Row), NEW b \in Seq(Row), NEW c \in Seq(Row)
      PROVE  /\ ResultsMatch(a, b, TRUE) => ResultsMatch(b, a, TRUE)
             /\ ResultsMatch(a, b, TRUE) /\ ResultsMatch(b, c, TRUE) =>
                  ResultsMatch(a, c, TRUE)
             /\ ResultsMatch(a, b, FALSE) => ResultsMatch(b, a, FALSE)
             /\ ResultsMatch(a, b, FALSE) /\ ResultsMatch(b, c, FALSE) =>
                  ResultsMatch(a, c, FALSE)
  BY <1>2, <1>3, <1>4
<1>9. ordered = TRUE \/ ordered = FALSE
  OBVIOUS
<1> QED
  BY <1>6, <1>7, <1>8, <1>9, Zenon DEF Same

\* Rounding takes each number to one of the nearest, an exact half away from
\* zero, is symmetric about zero, keeps the order and leaves alone what has six
\* places already: numbers that match are closer to each other than one unit of
\* the sixth place.
THEOREM QuantizeRounds ==
  ASSUME NEW m \in Int, NEW n \in Int
  PROVE  /\ Quantize(n) \in Int
         /\ n - 5 <= 10 * Quantize(n) /\ 10 * Quantize(n) <= n + 5
         /\ n >= 0 => n - 5 < 10 * Quantize(n)
         /\ Quantize(-n) = -Quantize(n)
         /\ Quantize(10 * n) = n
         /\ m <= n => Quantize(m) <= Quantize(n)
         /\ Quantize(m) = Quantize(n) => m - n < 10 /\ n - m < 10
  BY DEF Quantize
=============================================================================
