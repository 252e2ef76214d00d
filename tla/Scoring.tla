------------------------------- MODULE Scoring ------------------------------
(***************************************************************************)
(* evals/scoring.py: whether two results carry the same answer, and the    *)
(* report one pass over the questions adds up to.                          *)
(*                                                                         *)
(* A cell is a record of its kind and value.  The value of a number counts *)
(* units of 10^-7, one digit more than the six that normalise_value keeps; *)
(* a list holds cells that are no lists.  Rates are kept as their counts.  *)
(***************************************************************************)
EXTENDS Integers, Sequences, FiniteSets, Tokens

\* Decimal(str(value)).quantize(SIX_PLACES, ROUND_HALF_UP).
Quantize(n) == IF n >= 0 THEN (n + 5) \div 10 ELSE -((-n + 5) \div 10)

\* A boolean keeps its kind, and so never equals a number (_Bool).
NormaliseScalar(cell) ==
  IF cell.kind = "number" THEN [cell EXCEPT !.value = Quantize(@)] ELSE cell

NormaliseValue(cell) ==
  IF cell.kind = "list"
  THEN [cell EXCEPT !.value = [i \in DOMAIN @ |-> NormaliseScalar(@[i])]]
  ELSE NormaliseScalar(cell)

NormaliseRows(rows) ==
  [i \in DOMAIN rows |-> [j \in DOMAIN rows[i] |-> NormaliseValue(rows[i][j])]]

\* Counter(gold) == Counter(candidate).
SameBag(s, t) ==
  /\ Len(s) = Len(t)
  /\ \A i \in DOMAIN s :
       Cardinality({j \in DOMAIN s : s[j] = s[i]})
         = Cardinality({j \in DOMAIN t : t[j] = s[i]})

ResultsMatch(goldRows, candidateRows, ordered) ==
  LET gold == NormaliseRows(goldRows)
      candidate == NormaliseRows(candidateRows)
  IN  IF ordered THEN gold = candidate ELSE SameBag(gold, candidate)

----------------------------------------------------------------------------
(* CaseResult: `named` is the day's usage a refusal stated in its error.   *)

Case(question, category, sql, usage, named) ==
  [id |-> question.id, tier |-> question.tier, correct |-> FALSE,
   validated |-> sql /\ category # "rejected", executed |-> FALSE,
   category |-> category, usage |-> usage, named |-> named]

ExecutedCase(question, correct, usage, none) ==
  [id |-> question.id, tier |-> question.tier, correct |-> correct,
   validated |-> TRUE, executed |-> TRUE,
   category |-> IF correct THEN "" ELSE "wrong_result", usage |-> usage,
   named |-> none]

\* _total_usage, which begins with TokenUsage(measured=True).
TotalUsage(cases) ==
  LET sum[n \in 0..Len(cases)] ==
        IF n = 0 THEN [NoUsage EXCEPT !.measured = TRUE]
        ELSE Plus(sum[n - 1], cases[n].usage)
  IN  sum[Len(cases)]

CountOf(cases, Chosen(_)) == Cardinality({i \in DOMAIN cases : Chosen(cases[i])})

\* aggregate: the three headline counts share the denominator `total`.
Aggregate(cases) ==
  LET Correct(c) == c.correct
      Validated(c) == c.validated
      Executed(c) == c.executed
      failed == {i \in DOMAIN cases : ~cases[i].correct}
      tiers == {cases[i].tier : i \in DOMAIN cases}
      categories == {cases[i].category : i \in failed} \ {""}
  IN  [cases |-> cases, total |-> Len(cases),
       correct |-> CountOf(cases, Correct),
       validated |-> CountOf(cases, Validated),
       executed |-> CountOf(cases, Executed),
       perTier |-> [t \in tiers |->
                      Cardinality({i \in DOMAIN cases : cases[i].tier = t
                                                          /\ cases[i].correct})],
       breakdown |-> [c \in categories |->
                        Cardinality({i \in failed : cases[i].category = c})],
       failures |-> {cases[i].id : i \in failed},
       usage |-> TotalUsage(cases)]
=============================================================================
