----------------------------- MODULE MCEvalRun -----------------------------
(* An instance of EvalRun for TLC. *)
EXTENDS EvalRun, TLC

\* A question of the easy tier, and one of the expert tier.
Easy(id, split) ==
  [id |-> id, tier |-> "easy", question |-> "how many", gold_sql |-> "count",
   ordered |-> FALSE, covers |-> <<"track">>, split |-> split]
Expert(id, split) ==
  [id |-> id, tier |-> "expert", question |-> "churn", gold_sql |-> "joined",
   naive_sql |-> "plain", glossary |-> <<"churned">>, ordered |-> TRUE,
   covers |-> <<"customer">>, split |-> split]

File1(questions) ==
  [version |-> 3, dataset |-> "chinook", fingerprint |-> [track |-> 1],
   questions |-> questions]

\* A question moves from one split to the other; a retired id comes back.
DatasetEdits ==
  {File1(<<Easy("q1", "dev"), Expert("q2", "test")>>),
   File1(<<Easy("q1", "test"), Expert("q2", "test")>>),
   File1(<<Easy("q1", "dev"), Expert("q2", "test")>>)
     @@ [retired |-> [q1 |-> "ambiguous"]]}
RowCounts == {[track |-> 1], [track |-> 2]}

Invocation ==
  [strategy |-> "loop", mode |-> "full", rendering |-> None, glossary |-> None,
   split |-> "dev", repeat |-> 1, maxCalls |-> 1, tokenBudget |-> None,
   maxProjection |-> None, dailyLimit |-> 9, ignoreSpend |-> FALSE,
   record |-> TRUE, reveal |-> FALSE, provider |-> "groq", countable |-> TRUE]
CommandLines ==
  {[Invocation EXCEPT !.repeat = 2, !.tokenBudget = 2, !.maxProjection = 9],
   [Invocation EXCEPT !.strategy = "single-shot", !.split = "test", !.provider = "cerebras"],
   [Invocation EXCEPT !.maxCalls = 2, !.tokenBudget = 2],
   [Invocation EXCEPT !.record = FALSE, !.ignoreSpend = TRUE, !.split = "all",
                         !.maxCalls = 0],
   [Invocation EXCEPT !.tokenBudget = 1, !.countable = FALSE]}

UsageBlocks == {None, [tokens |-> 2, calls |-> 1, measured |-> TRUE]}

\* Nothing; or, of Groq, a bucket with one token left and two requests, and of
\* Cerebras a limit whose remainder does not parse.
HeaderBlocks ==
  {None,
   ("limit-tokens" :> 5) @@ ("remaining-tokens" :> 1) @@ ("reset-tokens" :> 4)
     @@ ("limit-requests" :> 20) @@ ("remaining-requests" :> 2)
     @@ ("limit-requests-day" :> 20) @@ ("remaining-requests-day" :> Garbled)
     @@ ("retry-after" :> 2)}
LimitsNamed == {[code |-> "TPD", used |-> 8], [code |-> "TPM", used |-> 9]}

Number(n) == [kind |-> "number", value |-> n]
GoldRows == <<<<Number(10)>>, <<Number(20)>>>>
Counted == [ok |-> TRUE, rows |-> GoldRows]
GoldOutcomes ==
  [count |-> {Counted}, joined |-> {Counted, [ok |-> FALSE, rows |-> <<>>]}]
RowsReturned == {<<<<Number(20)>>, <<Number(13)>>>>}
Endings == {[category |-> "rejected", sql |-> TRUE]}
=============================================================================
