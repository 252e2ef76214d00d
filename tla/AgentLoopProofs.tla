-------------------------- MODULE AgentLoopProofs --------------------------
(***************************************************************************)
(* Theorems about AgentLoop, for every budget, every set of statements and *)
(* whatever the model, the database and the catalogue do.                  *)
(*                                                                         *)
(* The argument: while the run goes on, the trace has exactly one step per *)
(* completed turn (Turns), seen_sql is exactly the set of statements in    *)
(* the trace (SeenIsTried), and spent_once holds every category that has   *)
(* used up its one retry (Spent).                                          *)
(*                                                                         *)
(* A run is a behaviour of RunPromise, since a statement in hand is a new  *)
(* one (InHandIsTried). A run has a bounded number of steps left           *)
(* (Remaining), and the attempts its trace does not show are those of a    *)
(* repeated statement (Short).                                             *)
(***************************************************************************)
EXTENDS AgentLoop, SequenceTheorems, FiniteSetTheorems, TLAPS

Running == pc \in {"start", "asking", "acting"}

\* One step per turn: the calls are ahead of the trace only inside a turn.
Turns ==
  /\ TraceIsDense
  /\ pc = "start" => calls = 0
  /\ pc = "acting" => calls = Len(steps) + 1

SeenIsTried ==
  /\ \A i \in Executions : steps[i].sql \in seen
  /\ \A s \in seen : \E i \in Executions : steps[i].sql = s

\* No run goes on after an answer, and only a lookup or an answer is ok.
NoAnswerYet ==
  /\ \A i \in 1..Len(steps) :
       steps[i].ok => steps[i].category = "" /\ steps[i].action \in {"execute_sql", "get_schema"}
  /\ Running => \A i \in Executions : ~steps[i].ok

\* A step that was not the last word was justified; a category retried once
\* is spent from its first appearance on.
Justified(i) ==
  \/ steps[i].ok /\ steps[i].action = "get_schema"
  \/ steps[i].category \in Retried
  \/ /\ steps[i].category \in RetriedOnce
     /\ \A j \in 1..(i - 1) : steps[j].category # steps[i].category

Spent ==
  /\ \A i \in 1..Len(steps) : i < Len(steps) \/ Running => Justified(i)
  /\ Running => \A i \in 1..Len(steps) :
       steps[i].category \in RetriedOnce => steps[i].category \in spentOnce

IInv ==
  /\ TypeOK /\ Turns /\ SeenIsTried /\ NeverRunsTwice /\ NoAnswerYet /\ Spent
  /\ VerdictExplained

----------------------------------------------------------------------------
(* What a step may be: the end of the run, the start of the loop, a call   *)
(* to the provider, or a turn that adds one step to the trace.             *)

Ends ==
  /\ Running /\ pc' = "done" /\ ~result'.ok
  /\ UNCHANGED <<steps, seen, spentOnce>>
  /\ calls' = calls \/ (pc = "asking" /\ calls' = calls + 1)
  /\ result'.category \notin {"timeout", "gate_violation"}
  /\ result'.category = "budget_exhausted" => pc = "asking" /\ calls = MaxCalls /\ calls' = calls
  /\ result'.category = "repeated_sql" => result'.sql \in seen

Begins == pc = "start" /\ pc' = "asking" /\ UNCHANGED <<calls, steps, seen, spentOnce>>

Asks == pc = "asking" /\ pc' = "acting" /\ calls' = calls + 1
        /\ UNCHANGED <<steps, seen, spentOnce>>

Tried(st) ==
  /\ st.action = "execute_sql" /\ st.sql \notin seen
  /\ seen' = seen \cup {st.sql} /\ lastSql' = st.sql

LookedUp(st) == st.action # "execute_sql" /\ st.category \notin {"timeout", "gate_violation"}
                /\ UNCHANGED <<seen, lastSql>>

Answers(st) ==
  /\ st.ok /\ st.action = "execute_sql" /\ pc' = "done"
  /\ result' = [ok |-> TRUE, sql |-> st.sql, category |-> ""]
  /\ UNCHANGED spentOnce

Turn(st) ==
  /\ pc = "acting" /\ calls' = calls
  /\ st.attempt = calls /\ steps' = Append(steps, st)
  /\ (st.ok => st.category = "" /\ st.action \in {"execute_sql", "get_schema"})
  /\ st.category \notin {"budget_exhausted", "repeated_sql"}
  /\ Tried(st) \/ LookedUp(st)
  /\ Answers(st) \/ ((st.ok => st.action = "get_schema") /\ FollowPolicy(st))

\* _failure ends the run with the category and the SQL it is given.
LEMMA FailureSays ==
  ASSUME NEW s, NEW k, Failure(s, k)
  PROVE  pc' = "done" /\ ~result'.ok /\ result'.sql = s /\ result'.category = k
BY DEF Failure

\* A failure is an AgentResult.
LEMMA FailureType ==
  ASSUME NEW s \in Texts, NEW k \in Categories, Failure(s, k)
  PROVE  pc' = "done" /\ result' \in [ok : BOOLEAN, sql : Texts, category : Categories]
BY DEF Failure

\* What a turn puts in its step is of the right kind.
LEMMA InHand ==
  ASSUME TypeOK
  PROVE  /\ calls \in Nat /\ lastSql \in Texts
         /\ action.name \in Names /\ action.argument \in Texts
<1>1. calls \in Nat
  BY LoopAssumption DEF TypeOK
<1>2. action \in Action /\ lastSql \in Texts
  BY DEF TypeOK
<1> QED
  BY <1>1, <1>2 DEF Action

\* A step put together from its parts is a Step.
LEMMA StepType ==
  ASSUME NEW n \in Nat, NEW a \in Names, NEW s \in Texts, NEW b \in BOOLEAN,
         NEW k \in Categories
  PROVE  [attempt |-> n, action |-> a, sql |-> s, ok |-> b, category |-> k] \in Step
BY DEF Step

\* The names and categories the code writes out are known ones.
LEMMA Known ==
  /\ {"no_sql_returned", "connection_error", "rate_limited", "provider_error",
      "repeated_sql", "budget_exhausted", "timeout", "unknown_action", ""} \subseteq Categories
  /\ {"execute_sql", "get_schema"} \cup OtherNames \subseteq Names
  /\ NoSql \in Texts /\ Statements \subseteq Texts
BY DEF Categories, ExecutionFailures, Names, Texts

\* A statement that fails is a turn.
LEMMA ExecutingIsATurn ==
  ASSUME TypeOK, NEW o \in ExecutionFailures, ExecuteFails(o)
  PROVE  \E st \in Step : Turn(st)
<1> DEFINE st == [attempt |-> calls, action |-> "execute_sql", sql |-> action.argument,
                  ok |-> FALSE, category |-> Categorise(o, action.explicit)]
<1>1. FreshStatement /\ FollowPolicy(st) /\ calls' = calls
      /\ seen' = seen \cup {action.argument} /\ lastSql' = action.argument
  BY DEF ExecuteFails
<1>2. Categorise(o, action.explicit) \in ExecutionFailures \cup {"no_sql_returned"}
  BY DEF Categorise
<1>3. st \in Step
  <2>1. Categorise(o, action.explicit) \in Categories
    BY <1>2 DEF Categories
  <2> QED
    BY <2>1, InHand, Known, StepType
<1>4. st.category \notin {"budget_exhausted", "repeated_sql"}
  BY <1>2 DEF ExecutionFailures
<1>5. steps' = Append(steps, st)
  BY <1>1 DEF FollowPolicy
<1>6. Turn(st)
  BY <1>1, <1>4, <1>5 DEF Turn, Tried, FreshStatement
<1> QED
  BY <1>3, <1>6

\* A statement that succeeds is a turn.
LEMMA AnsweringIsATurn ==
  ASSUME TypeOK, ExecuteSucceeds
  PROVE  \E st \in Step : Turn(st)
<1> DEFINE st == [attempt |-> calls, action |-> "execute_sql", sql |-> action.argument,
                  ok |-> TRUE, category |-> ""]
<1>1. st \in Step
  BY InHand, Known, StepType
<1>2. Answers(st) /\ Tried(st)
  BY DEF ExecuteSucceeds, FreshStatement, Tried, Answers
<1>3. /\ pc = "acting" /\ calls' = calls /\ steps' = Append(steps, st)
      /\ st.attempt = calls /\ st.category = "" /\ st.action = "execute_sql"
  BY DEF ExecuteSucceeds, FreshStatement
<1>4. st.category \notin {"budget_exhausted", "repeated_sql"}
  OBVIOUS
<1> HIDE DEF st
<1>5. Turn(st)
  BY <1>2, <1>3, <1>4 DEF Turn
<1> QED
  BY <1>1, <1>5

\* A schema lookup is a turn.
LEMMA LookingUpIsATurn ==
  ASSUME TypeOK, NEW b \in BOOLEAN, GetSchema(b)
  PROVE  \E st \in Step : Turn(st)
<1> DEFINE st == [attempt |-> calls, action |-> "get_schema", sql |-> NoSql, ok |-> b,
                  category |-> IF b THEN "" ELSE "connection_error"]
<1>1. st \in Step
  BY InHand, Known, StepType
<1>2. FollowPolicy(st) /\ pc = "acting" /\ UNCHANGED <<calls, seen, lastSql>>
  BY DEF GetSchema
<1>3. Turn(st)
  BY <1>2 DEF FollowPolicy, Turn, LookedUp
<1> QED
  BY <1>1, <1>3

\* An action nobody dispatches is a turn.
LEMMA MisnamingIsATurn ==
  ASSUME TypeOK, UnknownAction
  PROVE  \E st \in Step : Turn(st)
<1> DEFINE st == [attempt |-> calls, action |-> action.name, sql |-> NoSql, ok |-> FALSE,
                  category |-> "unknown_action"]
<1>1. st \in Step
  BY InHand, Known, StepType
<1>2. FollowPolicy(st) /\ pc = "acting" /\ UNCHANGED <<calls, seen, lastSql>>
      /\ action.name # "execute_sql"
  BY LoopAssumption DEF UnknownAction
<1>3. Turn(st)
  BY <1>2 DEF FollowPolicy, Turn, LookedUp
<1> QED
  BY <1>1, <1>3

\* Every step is one of these, or changes nothing.
LEMMA StepShape ==
  ASSUME TypeOK, [Next]_vars
  PROVE  Ends \/ Begins \/ Asks \/ (\E st \in Step : Turn(st)) \/ UNCHANGED vars
<1> USE DEF state
<1>1. ASSUME NoQuestion \/ SchemaUnreadable PROVE Ends
  <2>1. /\ pc = "start" /\ UNCHANGED <<calls, steps, seen, spentOnce>>
        /\ Failure(NoSql, "no_sql_returned") \/ Failure(lastSql, "connection_error")
    BY <1>1 DEF NoQuestion, SchemaUnreadable
  <2>2. /\ pc' = "done" /\ ~result'.ok
        /\ result'.category \in {"no_sql_returned", "connection_error"}
    BY <2>1, FailureSays
  <2> QED
    BY <2>1, <2>2 DEF Ends, Running
<1>2. ASSUME NEW k \in {"rate_limited", "provider_error"}, NoProvider(k) \/ CallFails(k)
      PROVE  Ends
  <2>1. CASE NoProvider(k)
    <3>1. pc = "start" /\ UNCHANGED <<calls, steps, seen, spentOnce>> /\ Failure(lastSql, k)
      BY <2>1 DEF NoProvider
    <3>2. pc' = "done" /\ ~result'.ok /\ result'.category = k
      BY <3>1, FailureSays
    <3> QED
      BY <3>1, <3>2 DEF Ends, Running
  <2>2. CASE CallFails(k)
    <3>1. /\ pc = "asking" /\ calls' = calls + 1 /\ Failure(lastSql, k)
          /\ UNCHANGED <<steps, seen, spentOnce>>
      BY <2>2 DEF CallFails
    <3>2. pc' = "done" /\ ~result'.ok /\ result'.category = k
      BY <3>1, FailureSays
    <3> QED
      BY <3>1, <3>2 DEF Ends, Running
  <2> QED
    BY <1>2, <2>1, <2>2
<1>3. ASSUME NoStatement PROVE Ends
  <2>1. /\ pc = "acting" /\ UNCHANGED <<calls, steps, seen, spentOnce>>
        /\ Failure(lastSql, "no_sql_returned")
    BY <1>3 DEF NoStatement
  <2>2. pc' = "done" /\ ~result'.ok /\ result'.category = "no_sql_returned"
    BY <2>1, FailureSays
  <2> QED
    BY <2>1, <2>2 DEF Ends, Running
<1>4. ASSUME Repeated PROVE Ends
  <2>1. /\ pc = "acting" /\ action.argument \in seen
        /\ UNCHANGED <<calls, steps, seen, spentOnce>>
        /\ Failure(action.argument, "repeated_sql")
    BY <1>4 DEF Repeated
  <2>2. pc' = "done" /\ ~result'.ok /\ result'.category = "repeated_sql" /\ result'.sql = action.argument
    BY <2>1, FailureSays
  <2> QED
    BY <2>1, <2>2 DEF Ends, Running
<1>5. ASSUME OutOfBudget PROVE Ends
  <2>1. /\ pc = "asking" /\ calls = MaxCalls /\ UNCHANGED <<calls, steps, seen, spentOnce>>
        /\ Failure(lastSql, "budget_exhausted")
    BY <1>5 DEF OutOfBudget
  <2>2. pc' = "done" /\ ~result'.ok /\ result'.category = "budget_exhausted"
    BY <2>1, FailureSays
  <2> QED
    BY <2>1, <2>2 DEF Ends, Running
<1>6. ASSUME Begin PROVE Begins
  BY <1>6 DEF Begin, Begins
<1>7. ASSUME NEW r \in Response, NEW u \in CallUsage, Respond(r, u) PROVE Asks
  BY <1>7 DEF Respond, Asks
<1> QED
  BY <1>1, <1>2, <1>3, <1>4, <1>5, <1>6, <1>7, ExecutingIsATurn, AnsweringIsATurn,
     LookingUpIsATurn, MisnamingIsATurn DEF Next

\* What appending a step to the trace does.
LEMMA Appending ==
  ASSUME TypeOK, NEW st \in Step, steps' = Append(steps, st)
  PROVE  /\ Len(steps) \in Nat /\ Len(steps') = Len(steps) + 1
         /\ \A i \in 1..Len(steps) : steps'[i] = steps[i]
         /\ steps'[Len(steps) + 1] = st
         /\ 1..Len(steps') = 1..Len(steps) \cup {Len(steps) + 1}
         /\ Executions' = Executions \cup
              (IF st.action = "execute_sql" THEN {Len(steps) + 1} ELSE {})
<1>1. /\ Len(steps) \in Nat /\ Len(steps') = Len(steps) + 1
      /\ \A i \in 1..Len(steps) : steps'[i] = steps[i]
      /\ steps'[Len(steps) + 1] = st
  BY DEF TypeOK
<1>2. 1..Len(steps') = 1..Len(steps) \cup {Len(steps) + 1}
  BY <1>1
<1> QED
  BY <1>1, <1>2 DEF Executions

----------------------------------------------------------------------------
(* Types.                                                                  *)

\* The sum of two usages is a usage.
LEMMA PlusIsUsage ==
  ASSUME NEW u \in TokenUsage, NEW v \in TokenUsage
  PROVE  Plus(u, v) \in TokenUsage
BY DEF TokenUsage, Plus, IsZero

\* A call made within the budget stays within it.
LEMMA CountUp ==
  ASSUME TypeOK, calls < MaxCalls, calls' = calls + 1
  PROVE  calls' \in 0..MaxCalls
BY LoopAssumption DEF TypeOK

\* What a call reports is a usage.
LEMMA UsageTypes == CallUsage \subseteq TokenUsage /\ NoUsage \in TokenUsage
<1>1. NoUsage \in TokenUsage
  BY DEF NoUsage, TokenUsage
<1>2. \A b \in BOOLEAN : [tokens |-> 1, calls |-> 1, measured |-> b] \in TokenUsage
  BY DEF TokenUsage
<1> QED
  BY <1>1, <1>2 DEF CallUsage

\* The end of a turn keeps the trace and the verdict in their types.
LEMMA PolicyKeepsTypes ==
  ASSUME TypeOK, NEW st \in Step, FollowPolicy(st), lastSql' \in Texts
  PROVE  /\ pc' \in {"asking", "done"} /\ steps' \in Seq(Step)
         /\ spentOnce' \subseteq RetriedOnce
         /\ result' \in [ok : BOOLEAN, sql : Texts, category : Categories]
<1>1. st.category \in Categories
  BY DEF Step
<1>2. (pc' = "asking" /\ UNCHANGED result) \/ Failure(lastSql', st.category)
  BY DEF FollowPolicy
<1>3. steps' \in Seq(Step) /\ spentOnce' \subseteq RetriedOnce
  <2>1. steps' = Append(steps, st)
    BY DEF FollowPolicy
  <2>2. spentOnce' = spentOnce
        \/ (st.category \in RetriedOnce /\ spentOnce' = spentOnce \cup {st.category})
    BY DEF FollowPolicy
  <2>3. steps \in Seq(Step) /\ spentOnce \subseteq RetriedOnce
    BY DEF TypeOK
  <2> QED
    BY <2>1, <2>2, <2>3, AppendProperties
<1>4. /\ pc' \in {"asking", "done"}
      /\ result' \in [ok : BOOLEAN, sql : Texts, category : Categories]
  BY <1>1, <1>2, FailureType DEF TypeOK
<1> QED
  BY <1>3, <1>4

\* A step keeps every variable in its type.
LEMMA TypePreserved ==
  ASSUME TypeOK, [Next]_vars
  PROVE  TypeOK'
<1> USE LoopAssumption, Known, InHand, FailureType DEF TypeOK, state
<1>1. ASSUME NoQuestion \/ SchemaUnreadable PROVE TypeOK'
  BY <1>1 DEF NoQuestion, SchemaUnreadable
<1>2. ASSUME NEW k \in {"rate_limited", "provider_error"}, NoProvider(k) PROVE TypeOK'
  BY <1>2 DEF NoProvider
<1>3. ASSUME NEW k \in {"rate_limited", "provider_error"}, CallFails(k) PROVE TypeOK'
  <2>1. calls' \in 0..MaxCalls
    BY <1>3, CountUp DEF CallFails
  <2>2. result' \in [ok : BOOLEAN, sql : Texts, category : Categories]
    BY <1>3 DEF CallFails
  <2> QED
    BY <1>3, <2>1, <2>2 DEF CallFails
<1>4. ASSUME Begin PROVE TypeOK'
  BY <1>4 DEF Begin
<1>5. ASSUME NEW r \in Response, NEW u \in CallUsage, Respond(r, u) PROVE TypeOK'
  <2>1. calls' \in 0..MaxCalls
    BY <1>5, CountUp DEF Respond
  <2>2. u \in TokenUsage
    BY UsageTypes
  <2>3. usage' \in TokenUsage
    BY <1>5, <2>2, PlusIsUsage DEF Respond
  <2>4. bills' \in Seq(TokenUsage)
    BY <1>5, <2>2, AppendProperties DEF Respond
  <2>5. action' \in Action
    BY <1>5 DEF Respond, ParseAction, Response, Action, Names
  <2>6. pc' = "acting" /\ UNCHANGED <<call, steps, seen, spentOnce, lastSql, result>>
    BY <1>5 DEF Respond
  <2> QED
    BY <2>1, <2>3, <2>4, <2>5, <2>6
<1>6. ASSUME NoStatement \/ OutOfBudget PROVE TypeOK'
  BY <1>6 DEF NoStatement, OutOfBudget
<1>7. ASSUME Repeated PROVE TypeOK'
  BY <1>7 DEF Repeated, Texts
<1>8. ASSUME ExecuteSucceeds PROVE TypeOK'
  <2>1. [attempt |-> calls, action |-> "execute_sql", sql |-> action.argument,
         ok |-> TRUE, category |-> ""] \in Step
    BY StepType
  <2>2. steps' \in Seq(Step)
    BY <1>8, <2>1, AppendProperties DEF ExecuteSucceeds
  <2>3. /\ pc' = "done" /\ seen' \subseteq Statements /\ lastSql' \in Texts
        /\ result' \in [ok : BOOLEAN, sql : Texts, category : Categories]
        /\ UNCHANGED <<call, calls, spentOnce, usage, action, bills>>
    BY <1>8 DEF ExecuteSucceeds, FreshStatement, Texts
  <2> QED
    BY <2>2, <2>3
<1>9. ASSUME NEW o \in ExecutionFailures, ExecuteFails(o) PROVE TypeOK'
  <2>1. Categorise(o, action.explicit) \in Categories
    BY DEF Categorise, Categories
  <2>2. [attempt |-> calls, action |-> "execute_sql", sql |-> action.argument, ok |-> FALSE,
         category |-> Categorise(o, action.explicit)] \in Step
    BY <2>1, StepType
  <2>3. /\ lastSql' \in Texts /\ seen' \subseteq Statements
        /\ UNCHANGED <<call, calls, usage, action, bills>>
    BY <1>9 DEF ExecuteFails, FreshStatement, Texts
  <2>4. FollowPolicy([attempt |-> calls, action |-> "execute_sql", sql |-> action.argument,
                      ok |-> FALSE, category |-> Categorise(o, action.explicit)])
    BY <1>9 DEF ExecuteFails
  <2> HIDE DEF TypeOK
  <2>5. /\ pc' \in {"asking", "done"} /\ steps' \in Seq(Step) /\ spentOnce' \subseteq RetriedOnce
        /\ result' \in [ok : BOOLEAN, sql : Texts, category : Categories]
    BY <2>2, <2>3, <2>4, PolicyKeepsTypes
  <2> QED
    BY <2>3, <2>5 DEF TypeOK
<1>10. ASSUME NEW b \in BOOLEAN, GetSchema(b) PROVE TypeOK'
  <2>1. [attempt |-> calls, action |-> "get_schema", sql |-> NoSql, ok |-> b,
         category |-> IF b THEN "" ELSE "connection_error"] \in Step
    BY StepType
  <2>2. FollowPolicy([attempt |-> calls, action |-> "get_schema", sql |-> NoSql, ok |-> b,
                      category |-> IF b THEN "" ELSE "connection_error"])
    BY <1>10 DEF GetSchema
  <2>3. UNCHANGED <<call, calls, seen, lastSql, usage, action, bills>>
    BY <1>10 DEF GetSchema
  <2>4. lastSql' \in Texts
    BY <2>3
  <2> HIDE DEF TypeOK
  <2>5. /\ pc' \in {"asking", "done"} /\ steps' \in Seq(Step) /\ spentOnce' \subseteq RetriedOnce
        /\ result' \in [ok : BOOLEAN, sql : Texts, category : Categories]
    BY <2>1, <2>2, <2>4, PolicyKeepsTypes
  <2> QED
    BY <2>3, <2>5 DEF TypeOK
<1>11. ASSUME UnknownAction PROVE TypeOK'
  <2>1. [attempt |-> calls, action |-> action.name, sql |-> NoSql, ok |-> FALSE,
         category |-> "unknown_action"] \in Step
    BY StepType
  <2>2. FollowPolicy([attempt |-> calls, action |-> action.name, sql |-> NoSql,
                      ok |-> FALSE, category |-> "unknown_action"])
    BY <1>11 DEF UnknownAction
  <2>3. UNCHANGED <<call, calls, seen, lastSql, usage, action, bills>>
    BY <1>11 DEF UnknownAction
  <2>4. lastSql' \in Texts
    BY <2>3
  <2> HIDE DEF TypeOK
  <2>5. /\ pc' \in {"asking", "done"} /\ steps' \in Seq(Step) /\ spentOnce' \subseteq RetriedOnce
        /\ result' \in [ok : BOOLEAN, sql : Texts, category : Categories]
    BY <2>1, <2>2, <2>4, PolicyKeepsTypes
  <2> QED
    BY <2>3, <2>5 DEF TypeOK
<1>12. ASSUME UNCHANGED vars PROVE TypeOK'
  BY <1>12 DEF vars
<1> QED
  BY <1>1, <1>2, <1>3, <1>4, <1>5, <1>6, <1>7, <1>8, <1>9, <1>10, <1>11, <1>12 DEF Next

----------------------------------------------------------------------------
(* The trace: one step per kind of step.                                   *)

\* A step keeps the trace dense.
LEMMA TurnsPreserved ==
  ASSUME TypeOK, Turns, [Next]_vars
  PROVE  Turns'
<1> USE DEF Turns, TraceIsDense
<1>1. ASSUME Ends \/ Begins \/ Asks \/ UNCHANGED vars PROVE Turns'
  BY <1>1 DEF Ends, Begins, Asks, Running, vars, state, TypeOK
<1>2. ASSUME NEW st \in Step, Turn(st) PROVE Turns'
  <2>1. steps' = Append(steps, st)
    BY <1>2 DEF Turn
  <2>2. /\ Len(steps) \in Nat /\ Len(steps') = Len(steps) + 1
        /\ \A i \in 1..Len(steps) : steps'[i] = steps[i]
        /\ steps'[Len(steps) + 1] = st
        /\ 1..Len(steps') = 1..Len(steps) \cup {Len(steps) + 1}
        /\ Executions' = Executions \cup
             (IF st.action = "execute_sql" THEN {Len(steps) + 1} ELSE {})
    BY <2>1, Appending
  <2>3. pc' \in {"asking", "done"}
    BY <1>2 DEF Turn, Answers, FollowPolicy, Failure
  <2>4. pc = "acting" /\ calls' = calls /\ st.attempt = calls /\ calls = Len(steps) + 1
    BY <1>2 DEF Turn
  <2>5. \A i \in 1..Len(steps') : steps'[i].attempt = i
    BY <2>2, <2>4
  <2> QED
    BY <2>2, <2>3, <2>4, <2>5
<1> QED
  BY <1>1, <1>2, StepShape

\* What was tried is what is in the trace.
LEMMA SeenPreserved ==
  ASSUME TypeOK, SeenIsTried, [Next]_vars
  PROVE  SeenIsTried'
<1> USE DEF SeenIsTried
<1>1. ASSUME Ends \/ Begins \/ Asks \/ UNCHANGED vars PROVE SeenIsTried'
  BY <1>1 DEF Ends, Begins, Asks, Running, Executions, vars, state
<1>2. ASSUME NEW st \in Step, Turn(st) PROVE SeenIsTried'
  <2>1. steps' = Append(steps, st)
    BY <1>2 DEF Turn
  <2>2. /\ Len(steps) \in Nat /\ Len(steps') = Len(steps) + 1
        /\ \A i \in 1..Len(steps) : steps'[i] = steps[i]
        /\ steps'[Len(steps) + 1] = st
        /\ 1..Len(steps') = 1..Len(steps) \cup {Len(steps) + 1}
        /\ Executions' = Executions \cup
             (IF st.action = "execute_sql" THEN {Len(steps) + 1} ELSE {})
    BY <2>1, Appending
  <2>3. CASE Tried(st)
    <3>1. \A i \in Executions : i \in 1..Len(steps)
      BY DEF Executions
    <3> QED
      BY <2>2, <2>3, <3>1 DEF Tried
  <2>4. CASE LookedUp(st)
    <3>1. \A i \in Executions : i \in 1..Len(steps)
      BY DEF Executions
    <3> QED
      BY <2>2, <2>4, <3>1 DEF LookedUp
  <2> QED
    BY <1>2, <2>3, <2>4 DEF Turn
<1> QED
  BY <1>1, <1>2, StepShape

\* Only a statement that was not tried is executed.
LEMMA OncePreserved ==
  ASSUME TypeOK, SeenIsTried, NeverRunsTwice, [Next]_vars
  PROVE  NeverRunsTwice'
<1> USE DEF NeverRunsTwice
<1>1. ASSUME Ends \/ Begins \/ Asks \/ UNCHANGED vars PROVE NeverRunsTwice'
  BY <1>1 DEF Ends, Begins, Asks, Running, Executions, vars, state
<1>2. ASSUME NEW st \in Step, Turn(st) PROVE NeverRunsTwice'
  <2>1. steps' = Append(steps, st)
    BY <1>2 DEF Turn
  <2>2. /\ Len(steps) \in Nat /\ Len(steps') = Len(steps) + 1
        /\ \A i \in 1..Len(steps) : steps'[i] = steps[i]
        /\ steps'[Len(steps) + 1] = st
        /\ 1..Len(steps') = 1..Len(steps) \cup {Len(steps) + 1}
        /\ Executions' = Executions \cup
             (IF st.action = "execute_sql" THEN {Len(steps) + 1} ELSE {})
    BY <2>1, Appending
  <2>3. \A i \in Executions : i \in 1..Len(steps) /\ steps[i].sql \in seen
    BY DEF Executions, SeenIsTried
  <2>4. CASE Tried(st)
    BY <2>2, <2>3, <2>4 DEF Tried
  <2>5. CASE LookedUp(st)
    BY <2>2, <2>3, <2>5 DEF LookedUp
  <2> QED
    BY <1>2, <2>4, <2>5 DEF Turn
<1> QED
  BY <1>1, <1>2, StepShape

\* An answer ends the run.
LEMMA AnswerPreserved ==
  ASSUME TypeOK, NoAnswerYet, [Next]_vars
  PROVE  NoAnswerYet'
<1> USE DEF NoAnswerYet
<1>1. ASSUME Ends \/ Begins \/ Asks \/ UNCHANGED vars PROVE NoAnswerYet'
  BY <1>1 DEF Ends, Begins, Asks, Running, Executions, vars, state
<1>2. ASSUME NEW st \in Step, Turn(st) PROVE NoAnswerYet'
  <2>1. steps' = Append(steps, st)
    BY <1>2 DEF Turn
  <2>2. /\ Len(steps) \in Nat /\ Len(steps') = Len(steps) + 1
        /\ \A i \in 1..Len(steps) : steps'[i] = steps[i]
        /\ steps'[Len(steps) + 1] = st
        /\ 1..Len(steps') = 1..Len(steps) \cup {Len(steps) + 1}
        /\ Executions' = Executions \cup
             (IF st.action = "execute_sql" THEN {Len(steps) + 1} ELSE {})
    BY <2>1, Appending
  <2>3. \A i \in Executions : i \in 1..Len(steps)
    BY DEF Executions
  <2>4. Running /\ (Running' => ~(st.ok /\ st.action = "execute_sql"))
    BY <1>2 DEF Turn, Answers, Running
  <2>5. st.ok => st.category = "" /\ st.action \in {"execute_sql", "get_schema"}
    BY <1>2 DEF Turn
  <2>6. \A i \in 1..Len(steps') : steps'[i].ok =>
          steps'[i].category = "" /\ steps'[i].action \in {"execute_sql", "get_schema"}
    BY <2>2, <2>5
  <2>7. Running' => \A i \in Executions' : ~steps'[i].ok
    BY <2>2, <2>3, <2>4
  <2> QED
    BY <2>6, <2>7
<1> QED
  BY <1>1, <1>2, StepShape

\* A step is followed by another only for a reason.
LEMMA SpentPreserved ==
  ASSUME TypeOK, NoAnswerYet, Spent, [Next]_vars
  PROVE  Spent'
<1> USE DEF Spent
<1>1. ASSUME Ends \/ Begins \/ Asks \/ UNCHANGED vars PROVE Spent'
  BY <1>1 DEF Ends, Begins, Asks, Running, Justified, vars, state
<1>2. ASSUME NEW st \in Step, Turn(st) PROVE Spent'
  <2>1. steps' = Append(steps, st)
    BY <1>2 DEF Turn
  <2>2. /\ Len(steps) \in Nat /\ Len(steps') = Len(steps) + 1
        /\ \A i \in 1..Len(steps) : steps'[i] = steps[i]
        /\ steps'[Len(steps) + 1] = st
        /\ 1..Len(steps') = 1..Len(steps) \cup {Len(steps) + 1}
        /\ Executions' = Executions \cup
             (IF st.action = "execute_sql" THEN {Len(steps) + 1} ELSE {})
    BY <2>1, Appending
  <2>3. Running /\ \A i \in 1..Len(steps) : Justified(i)
    BY <1>2 DEF Turn, Running
  <2>4. \A i \in 1..Len(steps) : Justified(i)'
    BY <2>2, <2>3 DEF Justified
  <2>5. CASE Answers(st)
    <3>1. ~Running'
      BY <2>5 DEF Answers, Running
    <3>2. \A i \in 1..Len(steps') : i < Len(steps') => i \in 1..Len(steps)
      BY <2>2
    <3> QED
      BY <2>4, <3>1, <3>2
  <2>6. CASE (st.ok => st.action = "get_schema") /\ FollowPolicy(st)
    <3>1. CASE pc' = "done"
      <4>1. ~Running'
        BY <3>1 DEF Running
      <4>2. \A i \in 1..Len(steps') : i < Len(steps') => i \in 1..Len(steps)
        BY <2>2
      <4> QED
        BY <2>4, <4>1, <4>2
    <3>2. CASE pc' = "asking"
      <4>1. \/ st.ok \/ st.category \in Retried
            \/ st.category \in RetriedOnce /\ st.category \notin spentOnce
        BY <2>6, <3>2 DEF FollowPolicy, Failure
      <4> PICK n \in Nat : n = Len(steps) + 1
        BY <2>2
      <4>2. Justified(n)'
        <5>1. ASSUME st.category \in RetriedOnce, st.category \notin spentOnce,
                     NEW j \in 1..(n - 1)
              PROVE  steps'[j].category # st.category
          <6>1. j \in 1..Len(steps)
            BY <2>2
          <6> QED
            BY <2>2, <2>3, <5>1, <6>1
        <5>2. steps'[n] = st
          BY <2>2
        <5>3. CASE st.ok \/ st.category \in Retried
          BY <2>6, <5>2, <5>3 DEF Justified
        <5>4. CASE st.category \in RetriedOnce /\ st.category \notin spentOnce
          BY <5>1, <5>2, <5>4 DEF Justified
        <5> QED
          BY <4>1, <5>3, <5>4
      <4>3. spentOnce \subseteq spentOnce'
            /\ (~st.ok /\ st.category \in RetriedOnce => st.category \in spentOnce')
        BY <2>6 DEF FollowPolicy
      <4>4. st.ok => st.category \notin RetriedOnce
        BY <1>2 DEF Turn, RetriedOnce
      <4>5. \A i \in 1..Len(steps') : Justified(i)'
        <5>1. ASSUME NEW i \in 1..Len(steps') PROVE Justified(i)'
          <6>1. i \in 1..Len(steps) \/ i = n
            BY <2>2
          <6> QED
            BY <2>4, <4>2, <6>1
        <5> QED
          BY <5>1
      <4>6. \A i \in 1..Len(steps') :
              steps'[i].category \in RetriedOnce => steps'[i].category \in spentOnce'
        BY <2>2, <2>3, <4>3, <4>4
      <4> QED
        BY <4>5, <4>6
    <3> QED
      BY <2>6, <3>1, <3>2 DEF FollowPolicy, Failure
  <2> QED
    BY <1>2, <2>5, <2>6 DEF Turn
<1> QED
  BY <1>1, <1>2, StepShape

\* A verdict agrees with the trace it ends.
LEMMA VerdictPreserved ==
  ASSUME IInv, [Next]_vars
  PROVE  VerdictExplained'
<1> USE DEF IInv
<1>1. ASSUME Begins \/ Asks PROVE VerdictExplained'
  BY <1>1 DEF Begins, Asks, VerdictExplained
<1>2. ASSUME UNCHANGED vars PROVE VerdictExplained'
  BY <1>2 DEF vars, state, VerdictExplained, Final, Executions
<1>3. ASSUME Ends PROVE VerdictExplained'
  <2>1. /\ \A i \in Executions : ~steps[i].ok
        /\ \A i \in 1..Len(steps) :
             steps[i].ok \/ steps[i].category \in Retried \cup RetriedOnce
        /\ pc = "asking" => calls = Len(steps)
        /\ \A s \in seen : \E i \in Executions : steps[i].sql = s
    BY <1>3 DEF Ends, Running, NoAnswerYet, Spent, Justified, Turns, TraceIsDense, SeenIsTried
  <2>2. steps' = steps /\ Executions' = Executions
    BY <1>3 DEF Ends, Executions
  <2> QED
    BY <1>3, <2>1, <2>2 DEF Ends, VerdictExplained
<1>4. ASSUME NEW st \in Step, Turn(st), pc' = "done" PROVE VerdictExplained'
  <2>1. steps' = Append(steps, st)
    BY <1>4 DEF Turn
  <2>2. /\ Len(steps) \in Nat /\ Len(steps') = Len(steps) + 1
        /\ \A i \in 1..Len(steps) : steps'[i] = steps[i]
        /\ steps'[Len(steps) + 1] = st
        /\ 1..Len(steps') = 1..Len(steps) \cup {Len(steps) + 1}
        /\ Executions' = Executions \cup
             (IF st.action = "execute_sql" THEN {Len(steps) + 1} ELSE {})
    BY <2>1, Appending
  <2>3. /\ steps' # <<>> /\ Final' = st /\ st.attempt = calls'
        /\ \A i \in Executions : i \in 1..Len(steps) /\ ~steps[i].ok
    <3>1. steps' # <<>> /\ Final' = st
      BY <2>2 DEF Final
    <3>2. st.attempt = calls' /\ Running
      BY <1>4 DEF Turn, Running
    <3> QED
      BY <3>1, <3>2 DEF NoAnswerYet, Executions
  <2>4. CASE Answers(st)
    BY <2>2, <2>3, <2>4 DEF Answers, VerdictExplained
  <2>5. CASE (st.ok => st.action = "get_schema") /\ FollowPolicy(st)
    <3>1. ~st.ok /\ result' = [ok |-> FALSE, sql |-> lastSql', category |-> st.category]
      BY <1>4, <2>5 DEF FollowPolicy, Failure
    <3>2. /\ st.category \notin {"budget_exhausted", "repeated_sql"}
          /\ st.category \in {"timeout", "gate_violation"} => lastSql' = st.sql
      BY <1>4 DEF Turn, Tried, LookedUp
    <3>3. ~\E i \in Executions' : steps'[i].ok
      BY <2>2, <2>3, <3>1
    <3> QED
      BY <2>3, <3>1, <3>2, <3>3 DEF VerdictExplained
  <2> QED
    BY <1>4, <2>4, <2>5 DEF Turn
<1>5. ASSUME NEW st \in Step, Turn(st), pc' # "done" PROVE VerdictExplained'
  BY <1>5 DEF VerdictExplained
<1> QED
  BY <1>1, <1>2, <1>3, <1>4, <1>5, StepShape

----------------------------------------------------------------------------
(* The theorems.                                                           *)

\* The invariant holds at the start,
LEMMA InitEstablishes == Init => IInv
<1> SUFFICES ASSUME Init PROVE IInv
  OBVIOUS
<1> USE LoopAssumption DEF Init
<1>1. TypeOK
  <2>1. action \in Action /\ lastSql \in Texts
    BY DEF Action, Names, Texts
  <2>2. usage \in TokenUsage
    BY DEF TokenUsage, NoUsage
  <2>3. result \in [ok : BOOLEAN, sql : Texts, category : Categories]
    BY DEF NoResult, Categories, Texts
  <2>4. steps \in Seq(Step) /\ bills \in Seq(TokenUsage) /\ calls \in 0..MaxCalls
    OBVIOUS
  <2> QED
    BY <2>1, <2>2, <2>3, <2>4 DEF TypeOK
<1>2. Turns /\ SeenIsTried /\ NeverRunsTwice
  BY DEF Turns, TraceIsDense, SeenIsTried, NeverRunsTwice, Executions
<1>3. NoAnswerYet /\ Spent /\ VerdictExplained
  BY DEF NoAnswerYet, Spent, VerdictExplained, Executions
<1> QED
  BY <1>1, <1>2, <1>3 DEF IInv

\* every step keeps it,
LEMMA StepPreserves == IInv /\ [Next]_vars => IInv'
BY TypePreserved, TurnsPreserved, SeenPreserved, OncePreserved, AnswerPreserved,
   SpentPreserved, VerdictPreserved DEF IInv

\* and so it always holds.
LEMMA IInvHolds == Spec => []IInv
BY InitEstablishes, StepPreserves, PTL DEF Spec

\* Every variable keeps its type: no run makes more than MaxCalls calls.
THEOREM TypeCorrect == Spec => []TypeOK
<1>1. IInv => TypeOK
  BY DEF IInv
<1> QED
  BY <1>1, IInvHolds, PTL

\* No statement reaches the database twice in one run.
THEOREM NoStatementRunsTwice == Spec => []NeverRunsTwice
<1>1. IInv => NeverRunsTwice
  BY DEF IInv
<1> QED
  BY <1>1, IInvHolds, PTL

\* The trace is numbered without a gap, so its rows have distinct keys.
THEOREM DenseTrace == Spec => []TraceIsDense
<1>1. IInv => TraceIsDense
  BY DEF IInv, Turns
<1> QED
  BY <1>1, IInvHolds, PTL

\* Whatever fails, the loop goes on only for a reason the policy gives.
THEOREM JustifiedRetries == Spec => []RetriesAreJustified
<1>1. IInv => RetriesAreJustified
  BY DEF IInv, Spent, Justified, Running, RetriesAreJustified
<1> QED
  BY <1>1, IInvHolds, PTL

\* The verdict of every run agrees with its trace.
THEOREM VerdictsAgreeWithTraces == Spec => []VerdictExplained
<1>1. IInv => VerdictExplained
  BY DEF IInv
<1> QED
  BY <1>1, IInvHolds, PTL

----------------------------------------------------------------------------
(* The bill.                                                               *)

\* While a run goes on each call it made has its entry, and what was counted
\* of calls was counted of tokens, so that a usage of no calls is empty.
BillInv ==
  /\ BillIsWhole
  /\ Running => Len(bills) = calls
  /\ usage.tokens = usage.calls

\* What one more entry does to the calls that reported anything.
LEMMA OneMoreReport ==
  ASSUME TypeOK, NEW u \in TokenUsage, bills' = Append(bills, u)
  PROVE  /\ Len(bills) \in Nat /\ Len(bills') = Len(bills) + 1
         /\ Len(bills) + 1 \notin Reported
         /\ \A i \in Reported : bills'[i] = bills[i]
         /\ bills'[Len(bills) + 1] = u
         /\ Reported' = Reported \cup (IF IsZero(u) THEN {} ELSE {Len(bills) + 1})
         /\ IsFiniteSet(Reported)
<1>1. /\ Len(bills) \in Nat /\ Len(bills') = Len(bills) + 1
      /\ \A i \in 1..Len(bills) : bills'[i] = bills[i]
      /\ bills'[Len(bills) + 1] = u
  BY DEF TypeOK
<1>2. 1..Len(bills') = 1..Len(bills) \cup {Len(bills) + 1}
  BY <1>1
<1>3. Reported' = Reported \cup (IF IsZero(u) THEN {} ELSE {Len(bills) + 1})
  BY <1>1, <1>2 DEF Reported, IsZero
<1>4. IsFiniteSet(Reported)
  <2>1. IsFiniteSet(1..Len(bills))
    BY <1>1, FS_Interval
  <2>2. Reported \in SUBSET (1..Len(bills))
    BY DEF Reported
  <2> QED
    BY <2>1, <2>2, FS_Subset
<1> QED
  BY <1>1, <1>3, <1>4 DEF Reported

\* A response is billed: nothing is added for a call that reported nothing,
\* and the first report is taken as it is.
LEMMA ResponseIsBilled ==
  ASSUME TypeOK, BillInv, NEW r \in Response, NEW u \in CallUsage, Respond(r, u)
  PROVE  BillInv'
<1>1. /\ pc = "asking" /\ pc' = "acting" /\ calls' = calls + 1 /\ calls \in Nat
      /\ usage' = Plus(usage, u) /\ bills' = Append(bills, u)
  BY InHand DEF Respond
<1>2. u \in TokenUsage /\ usage \in TokenUsage
  BY UsageTypes DEF TypeOK
<1>3. /\ Len(bills) \in Nat /\ Len(bills') = Len(bills) + 1
      /\ Len(bills) + 1 \notin Reported
      /\ \A i \in Reported : bills'[i] = bills[i]
      /\ bills'[Len(bills) + 1] = u
      /\ Reported' = Reported \cup (IF IsZero(u) THEN {} ELSE {Len(bills) + 1})
      /\ IsFiniteSet(Reported)
  BY <1>1, <1>2, OneMoreReport
<1>4. Len(bills') = calls'
  BY <1>1, <1>3 DEF BillInv, Running
<1>5. /\ usage.calls = Cardinality(Reported) /\ usage.tokens = usage.calls
      /\ usage.measured <=> Reported # {} /\ \A i \in Reported : bills[i].measured
  BY DEF BillInv, BillIsWhole
<1>6. CASE IsZero(u)
  <2>1. usage' = usage /\ Reported' = Reported
    BY <1>1, <1>3, <1>6 DEF Plus
  <2> QED
    BY <1>1, <1>3, <1>4, <1>5, <2>1 DEF BillInv, BillIsWhole
<1>7. CASE ~IsZero(u)
  <2>1. u.tokens = 1 /\ u.calls = 1
    BY <1>7 DEF CallUsage, NoUsage, IsZero
  <2>2. Reported' = Reported \cup {Len(bills) + 1}
    BY <1>3, <1>7
  <2>3. Cardinality(Reported') = Cardinality(Reported) + 1
    BY <1>3, <2>2, FS_AddElement
  <2>4. IsZero(usage) <=> Reported = {}
    <3>1. Cardinality(Reported) = 0 <=> Reported = {}
      BY <1>3, FS_EmptySet
    <3> QED
      BY <1>2, <1>5, <3>1 DEF IsZero, TokenUsage
  <2>5. usage'.calls = usage.calls + 1 /\ usage'.tokens = usage.tokens + 1
    BY <1>1, <1>2, <1>7, <2>1 DEF Plus, IsZero, TokenUsage
  <2>6. (\A i \in Reported' : bills'[i].measured)
          <=> (\A i \in Reported : bills[i].measured) /\ u.measured
    BY <1>3, <2>2
  <2>7. usage'.measured <=> Reported' # {} /\ \A i \in Reported' : bills'[i].measured
    <3>1. CASE IsZero(usage)
      <4>1. usage' = u
        BY <1>1, <1>7, <3>1 DEF Plus
      <4> QED
        BY <2>2, <2>4, <2>6, <3>1, <4>1
    <3>2. CASE ~IsZero(usage)
      <4>1. usage'.measured <=> usage.measured /\ u.measured
        BY <1>1, <1>7, <3>2 DEF Plus
      <4> QED
        BY <1>5, <2>2, <2>4, <2>6, <3>2, <4>1
    <3> QED
      BY <3>1, <3>2
  <2> QED
    BY <1>1, <1>4, <1>5, <2>3, <2>5, <2>7 DEF BillInv, BillIsWhole
<1> QED
  BY <1>6, <1>7

\* A step that asks nobody changes no bill, and a failed call leaves it one
\* entry short of the calls.
LEMMA OtherStepsBillNothing ==
  ASSUME [Next]_vars,
         ~ \E r \in Response, u \in CallUsage : Respond(r, u)
  PROVE  /\ UNCHANGED <<usage, bills>>
         /\ calls' = calls \/ (pc = "asking" /\ calls' = calls + 1 /\ pc' = "done")
         /\ pc = "done" => UNCHANGED vars
         /\ Running' => calls' = calls
<1> USE DEF state
<1>1. CASE NoQuestion \/ SchemaUnreadable \/ Begin \/ NoStatement \/ Repeated \/ OutOfBudget
  BY <1>1 DEF NoQuestion, SchemaUnreadable, Begin, NoStatement, Repeated, OutOfBudget
<1>2. ASSUME NEW k \in {"rate_limited", "provider_error"}, NoProvider(k)
      PROVE  UNCHANGED <<usage, bills, calls>> /\ pc = "start"
  BY <1>2 DEF NoProvider
<1>3. ASSUME NEW k \in {"rate_limited", "provider_error"}, CallFails(k)
      PROVE  UNCHANGED <<usage, bills>> /\ pc = "asking" /\ calls' = calls + 1 /\ pc' = "done"
  BY <1>3 DEF CallFails, Failure
<1>4. CASE ExecuteSucceeds \/ UnknownAction
  BY <1>4, Zenon DEF ExecuteSucceeds, UnknownAction, FreshStatement
<1>5. ASSUME NEW o \in ExecutionFailures, ExecuteFails(o)
      PROVE  UNCHANGED <<usage, bills, calls>> /\ pc = "acting"
  BY <1>5 DEF ExecuteFails, FreshStatement
<1>6. ASSUME NEW b \in BOOLEAN, GetSchema(b)
      PROVE  UNCHANGED <<usage, bills, calls>> /\ pc = "acting"
  BY <1>6, Zenon DEF GetSchema
<1>7. CASE UNCHANGED vars
  BY <1>7 DEF vars
<1> QED
  BY <1>1, <1>2, <1>3, <1>4, <1>5, <1>6, <1>7 DEF Next, Running

\* and so every bill is kept.
LEMMA BillInvHolds == Spec => []BillInv
<1>1. Init => BillInv
  <2> SUFFICES ASSUME Init PROVE BillInv
    OBVIOUS
  <2>1. bills = <<>> /\ calls = 0 /\ usage = NoUsage /\ Reported = {}
    BY DEF Init, Reported
  <2> QED
    BY <2>1, FS_EmptySet DEF BillInv, BillIsWhole, NoUsage
<1>2. TypeOK /\ BillInv /\ [Next]_vars => BillInv'
  <2> SUFFICES ASSUME TypeOK, BillInv, [Next]_vars PROVE BillInv'
    OBVIOUS
  <2>1. CASE \E r \in Response, u \in CallUsage : Respond(r, u)
    BY <2>1, ResponseIsBilled
  <2>2. CASE ~ \E r \in Response, u \in CallUsage : Respond(r, u)
    <3>1. /\ UNCHANGED <<usage, bills>>
          /\ calls' = calls \/ (pc = "asking" /\ calls' = calls + 1 /\ pc' = "done")
          /\ pc = "done" => UNCHANGED vars
          /\ Running' => calls' = calls
      BY <2>2, OtherStepsBillNothing
    <3>2. Reported' = Reported
      BY <3>1 DEF Reported
    <3>3. Len(bills') \in {calls', calls' - 1} /\ (Running' => Len(bills') = calls')
      BY <3>1, InHand DEF BillInv, BillIsWhole, Running, vars, TypeOK
    <3> QED
      BY <3>1, <3>2, <3>3 DEF BillInv, BillIsWhole
  <2> QED
    BY <2>1, <2>2
<1> QED
  BY <1>1, <1>2, TypeCorrect, PTL DEF Spec

\* The usage of every run counts each call that reported anything, once, and is
\* measured exactly when all of these were.
THEOREM BillsAreWhole == Spec => []BillIsWhole
<1>1. BillInv => BillIsWhole
  BY DEF BillInv
<1> QED
  BY <1>1, BillInvHolds, PTL

----------------------------------------------------------------------------
(* Refusals.                                                               *)

\* What was not marked as an action is taken for a statement (parse_action).
Unmarked == ~action.explicit => action.name = "execute_sql"

\* A response without an action line that is no statement either ends the run.
THEOREM RefusalsEndTheRun == Spec => RefusalEndsTheRun
<1>1. Init => Unmarked
  BY DEF Init, Unmarked
<1>2. Unmarked /\ [Next]_vars => Unmarked'
  <2> SUFFICES ASSUME Unmarked, [Next]_vars PROVE Unmarked'
    OBVIOUS
  <2>1. ASSUME NEW r \in Response, NEW u \in CallUsage, Respond(r, u) PROVE Unmarked'
    BY <2>1 DEF Respond, ParseAction, Unmarked
  <2>2. ASSUME ~ \E r \in Response, u \in CallUsage : Respond(r, u) PROVE action' = action
    <3> USE DEF state
    <3>1. CASE NoQuestion \/ SchemaUnreadable \/ Begin \/ NoStatement \/ Repeated \/ OutOfBudget
      BY <3>1 DEF NoQuestion, SchemaUnreadable, Begin, NoStatement, Repeated, OutOfBudget
    <3>2. ASSUME NEW k \in {"rate_limited", "provider_error"}, NoProvider(k) \/ CallFails(k)
          PROVE  action' = action
      BY <3>2 DEF NoProvider, CallFails
    <3>3. CASE ExecuteSucceeds \/ UnknownAction
      BY <3>3, Zenon DEF ExecuteSucceeds, UnknownAction
    <3>4. ASSUME NEW o \in ExecutionFailures, ExecuteFails(o) PROVE action' = action
      BY <3>4 DEF ExecuteFails
    <3>5. ASSUME NEW b \in BOOLEAN, GetSchema(b) PROVE action' = action
      BY <3>5, Zenon DEF GetSchema
    <3> QED
      BY <2>2, <3>1, <3>2, <3>3, <3>4, <3>5 DEF Next, vars
  <2> QED
    BY <2>1, <2>2 DEF Unmarked
<1>3. ASSUME TypeOK, Unmarked, [Next]_vars, pc = "acting", ~action.explicit, pc' = "asking"
      PROVE  steps'[Len(steps')].category \in {"database_error", "timeout"}
  <2>1. action.name = "execute_sql"
    BY <1>3 DEF Unmarked
  <2>2. PICK o \in ExecutionFailures : ExecuteFails(o)
    <3>1. ~ (NoQuestion \/ SchemaUnreadable \/ Begin \/ OutOfBudget)
      BY <1>3 DEF NoQuestion, SchemaUnreadable, Begin, OutOfBudget
    <3>2. ~ (NoStatement \/ Repeated \/ ExecuteSucceeds)
      BY <1>3 DEF NoStatement, Repeated, ExecuteSucceeds, Failure
    <3>3. \A k \in {"rate_limited", "provider_error"} : ~ (NoProvider(k) \/ CallFails(k))
      BY <1>3 DEF NoProvider, CallFails
    <3>4. \A r \in Response, u \in CallUsage : ~ Respond(r, u)
      BY <1>3 DEF Respond
    <3>5. (\A b \in BOOLEAN : ~ GetSchema(b)) /\ ~ UnknownAction
      BY <2>1, LoopAssumption DEF GetSchema, UnknownAction
    <3>6. ~ UNCHANGED vars
      BY <1>3 DEF vars
    <3> QED
      BY <1>3, <3>1, <3>2, <3>3, <3>4, <3>5, <3>6 DEF Next
  <2> DEFINE st == [attempt |-> calls, action |-> "execute_sql", sql |-> action.argument,
                    ok |-> FALSE, category |-> Categorise(o, action.explicit)]
  <2>3. FollowPolicy(st)
    BY <2>2 DEF ExecuteFails
  <2>4. st.category \in Retried \cup RetriedOnce /\ steps' = Append(steps, st)
    BY <1>3, <2>3 DEF FollowPolicy, Failure
  <2>5. st.category \in {"database_error", "timeout"}
    BY <1>3, <2>4 DEF Categorise, Retried, RetriedOnce, ExecutionFailures
  <2>6. steps'[Len(steps')] = st
    BY <1>3, <2>4 DEF TypeOK
  <2> QED
    BY <2>5, <2>6
<1>4. TypeOK /\ Unmarked /\ [Next]_vars =>
        [pc = "acting" /\ ~action.explicit /\ pc' = "asking"
           => steps'[Len(steps')].category \in {"database_error", "timeout"}]_vars
  BY <1>3
<1> QED
  BY <1>1, <1>2, <1>4, TypeCorrect, PTL DEF Spec, RefusalEndsTheRun

----------------------------------------------------------------------------
(* Refinement of RunPromise.                                               *)

\* A run that goes on has no verdict, and the SQL it has in hand is one that
\* was tried.
InHandIsTried ==
  /\ pc # "done" => result = NoResult
  /\ lastSql \in {NoSql} \cup seen

\* Every step keeps that.
LEMMA InHandPreserved ==
  ASSUME TypeOK, InHandIsTried, [Next]_vars
  PROVE  InHandIsTried'
<1> USE DEF state, InHandIsTried
<1>1. CASE NoQuestion \/ SchemaUnreadable \/ NoStatement \/ OutOfBudget
  BY <1>1 DEF NoQuestion, SchemaUnreadable, NoStatement, OutOfBudget, Failure
<1>2. ASSUME NEW k \in {"rate_limited", "provider_error"}, NoProvider(k) \/ CallFails(k)
      PROVE  InHandIsTried'
  BY <1>2 DEF NoProvider, CallFails, Failure
<1>3. CASE Begin
  BY <1>3 DEF Begin
<1>4. ASSUME NEW r \in Response, NEW u \in CallUsage, Respond(r, u) PROVE InHandIsTried'
  BY <1>4 DEF Respond
<1>5. CASE Repeated
  BY <1>5 DEF Repeated, Failure
<1>6. ASSUME NEW st \in Step, Turn(st) PROVE InHandIsTried'
  <2>1. lastSql' \in {NoSql} \cup seen'
    BY <1>6, Zenon DEF Turn, Tried, LookedUp
  <2>2. pc' # "done" => result' = result
    BY <1>6, Zenon DEF Turn, Answers, FollowPolicy, Failure
  <2>3. pc = "acting"
    BY <1>6, Zenon DEF Turn
  <2> QED
    BY <2>1, <2>2, <2>3
<1>7. CASE UNCHANGED vars
  BY <1>7 DEF vars
<1> QED
  BY <1>1, <1>2, <1>3, <1>4, <1>5, <1>6, <1>7, ExecutingIsATurn, AnsweringIsATurn,
     LookingUpIsATurn, MisnamingIsATurn DEF Next

\* What the promise lets a failure name is what has been seen.
LEMMA NamedIsSeen ==
  ASSUME SeenIsTried
  PROVE  Promise!Named = {NoSql} \cup seen
<1>1. \A t \in Executed : t.sql \in seen
  BY DEF SeenIsTried, Executed
<1>2. \A s \in seen : \E t \in Executed : t.sql = s
  <2> TAKE s \in seen
  <2>1. PICK i \in Executions : steps[i].sql = s
    BY DEF SeenIsTried
  <2>2. [call |-> steps[i].attempt, sql |-> steps[i].sql] \in Executed
    BY DEF Executed
  <2> QED
    BY <2>1, <2>2
<1>3. {t.sql : t \in Executed} = seen
  BY <1>1, <1>2
<1> QED
  BY <1>3 DEF Promise!Named

\* A run that has not ended is open to the promise,
LEMMA OpenRun ==
  ASSUME InHandIsTried, pc # "done"
  PROVE  Ended = Promise!Open
<1>1. result = NoResult
  BY DEF InHandIsTried
<1>2. (pc = "done") = FALSE
  OBVIOUS
<1> QED
  BY <1>1, <1>2, Zenon DEF NoResult, Ended, Promise!Open

\* and one that fails with a statement in hand fails as it may.
LEMMA FailsAsPromised ==
  ASSUME SeenIsTried, NEW s \in {NoSql} \cup seen, NEW k, Failure(s, k)
  PROVE  Ended' \in {Promise!Failure(sql) : sql \in Promise!Named}
<1>1. Ended' = Promise!Failure(s)
  BY DEF Failure, Ended, Promise!Failure
<1>2. s \in Promise!Named
  BY NamedIsSeen
<1> QED
  BY <1>1, <1>2

\* A step that is no execution tries nothing,
LEMMA NothingTried ==
  ASSUME TypeOK,
         UNCHANGED steps \/ \E st \in Step : st.action # "execute_sql" /\ steps' = Append(steps, st)
  PROVE  Executed' = Executed
<1>1. CASE UNCHANGED steps
  BY <1>1 DEF Executed, Executions
<1>2. ASSUME NEW st \in Step, st.action # "execute_sql", steps' = Append(steps, st)
      PROVE  Executed' = Executed
  <2>1. /\ \A i \in 1..Len(steps) : steps'[i] = steps[i]
        /\ Executions' = Executions
    BY <1>2, Appending
  <2> QED
    BY <2>1 DEF Executed, Executions
<1> QED
  BY <1>1, <1>2

\* and an execution tries its statement, in the turn of the last call.
LEMMA StatementTried ==
  ASSUME IInv, pc = "acting", NEW st \in Step, st.action = "execute_sql",
         st.attempt = calls, st.sql \notin seen, steps' = Append(steps, st)
  PROVE  /\ Executed' = Executed \cup {[call |-> calls, sql |-> st.sql]}
         /\ \A t \in Executed : t.call # calls /\ t.sql # st.sql
         /\ calls # 0
<1>1. /\ Len(steps) \in Nat /\ \A i \in 1..Len(steps) : steps'[i] = steps[i]
      /\ steps'[Len(steps) + 1] = st
      /\ Executions' = Executions \cup {Len(steps) + 1}
  BY Appending DEF IInv
<1>2. Executed' = Executed \cup {[call |-> calls, sql |-> st.sql]}
  BY <1>1 DEF Executed, Executions
<1>3. calls = Len(steps) + 1 /\ \A i \in 1..Len(steps) : steps[i].attempt = i
  BY DEF IInv, Turns, TraceIsDense
<1>4. \A i \in Executions : steps[i].attempt # calls /\ steps[i].sql \in seen
  BY <1>1, <1>3 DEF IInv, SeenIsTried, Executions
<1>5. \A t \in Executed : t.call # calls /\ t.sql # st.sql
  <2> TAKE t \in Executed
  <2>1. PICK i \in Executions : t = [call |-> steps[i].attempt, sql |-> steps[i].sql]
    BY DEF Executed
  <2>2. t.call = steps[i].attempt /\ t.sql = steps[i].sql
    BY <2>1
  <2> QED
    BY <1>4, <2>2
<1> QED
  BY <1>1, <1>2, <1>3, <1>5

\* The run starts as promised,
LEMMA InitRefines == Init => Promise!Init
<1> SUFFICES ASSUME Init PROVE Promise!Init
  OBVIOUS
<1>1. calls = 0 /\ usage.calls = 0
  BY DEF Init, NoUsage
<1>2. Executed = {}
  BY DEF Init, Executed, Executions
<1>3. Ended = Promise!Open
  BY OpenRun DEF Init, InHandIsTried
<1> QED
  BY <1>1, <1>2, <1>3 DEF Promise!Init

\* a call that answers is one question, billed at most once,
LEMMA RespondRefines ==
  ASSUME TypeOK, InHandIsTried, NEW r \in Response, NEW u \in CallUsage, Respond(r, u)
  PROVE  Promise!Ask
<1>1. /\ pc = "asking" /\ pc' = "acting" /\ calls < MaxCalls /\ calls' = calls + 1
      /\ usage' = Plus(usage, u) /\ UNCHANGED <<steps, result>>
  BY DEF Respond
<1>2. usage'.calls \in {usage.calls, usage.calls + 1}
  <2>1. usage \in TokenUsage /\ u.calls \in {0, 1}
    BY DEF TypeOK, CallUsage, NoUsage
  <2>2. CASE IsZero(u)
    BY <1>1, <2>2 DEF Plus
  <2>3. CASE ~IsZero(u)
    <3>1. CASE IsZero(usage)
      BY <1>1, <2>1, <2>3, <3>1 DEF Plus, IsZero
    <3>2. CASE ~IsZero(usage)
      BY <1>1, <2>1, <2>3, <3>2 DEF Plus, TokenUsage
    <3> QED
      BY <3>1, <3>2
  <2> QED
    BY <2>2, <2>3
<1>3. Ended = Promise!Open /\ Ended' = Ended /\ Executed' = Executed
  BY <1>1, OpenRun, NothingTried DEF Ended
<1> QED
  BY <1>1, <1>2, <1>3 DEF Promise!Ask

\* a turn that reaches the database tries its statement, and any other turn
\* tries nothing and goes on or gives up,
LEMMA TurnRefines ==
  ASSUME IInv, InHandIsTried, [Next]_vars, NEW st \in Step, Turn(st)
  PROVE  (\E sql \in Statements : Promise!Try(sql)) \/ Promise!GiveUp \/ UNCHANGED Promise!promise
<1>1. /\ pc = "acting" /\ calls' = calls /\ st.attempt = calls /\ steps' = Append(steps, st)
      /\ Tried(st) \/ LookedUp(st)
      /\ Answers(st) \/ ((st.ok => st.action = "get_schema") /\ FollowPolicy(st))
  BY Zenon DEF Turn
<1>2. usage' = usage
  <2>1. ~ \E r \in Response, u \in CallUsage : Respond(r, u)
    BY <1>1 DEF Respond
  <2> QED
    BY <2>1, OtherStepsBillNothing
<1>3. Ended = Promise!Open
  BY <1>1, OpenRun
<1>4. ASSUME pc' = "asking", result' = result PROVE Ended' = Ended
  BY <1>1, <1>4 DEF Ended
<1>5. ASSUME NEW sql, NEW k, Failure(sql, k) PROVE Ended' = Promise!Failure(sql)
  BY <1>5 DEF Failure, Ended, Promise!Failure
<1>6. ASSUME FollowPolicy(st)
      PROVE  (pc' = "asking" /\ result' = result) \/ Failure(lastSql', st.category)
  BY <1>6 DEF FollowPolicy
<1>7. CASE Tried(st)
  <2>1. st.sql \in Statements
    <3>1. TypeOK'
      BY TypePreserved DEF IInv
    <3> QED
      BY <1>7, <3>1 DEF Tried, TypeOK
  <2>2. /\ Executed' = Executed \cup {[call |-> calls, sql |-> st.sql]}
        /\ \A t \in Executed : t.call # calls /\ t.sql # st.sql
        /\ calls # 0
    BY <1>1, <1>7, StatementTried DEF Tried
  <2>3. Ended' \in {Promise!Open, Promise!Answer(st.sql), Promise!Failure(st.sql)}
    <3>1. ASSUME Answers(st) PROVE Ended' = Promise!Answer(st.sql)
      <4>1. result' = [ok |-> TRUE, sql |-> st.sql, category |-> ""] /\ pc' = "done"
        BY <3>1, Zenon DEF Answers
      <4>2. (pc = "done")' = TRUE
        BY <4>1, Zenon
      <4> QED
        BY <4>1, <4>2, Zenon DEF Ended, Promise!Answer
    <3>2. ASSUME FollowPolicy(st) PROVE Ended' \in {Promise!Open, Promise!Failure(st.sql)}
      BY <1>3, <1>4, <1>5, <1>6, <1>7, <3>2 DEF Tried
    <3> QED
      BY <1>1, <3>1, <3>2
  <2>4. Promise!Try(st.sql)
    BY <1>1, <1>2, <1>3, <2>2, <2>3 DEF Promise!Try
  <2> QED
    BY <2>1, <2>4
<1>8. CASE LookedUp(st)
  <2>1. Executed' = Executed
    BY <1>1, <1>8, NothingTried DEF IInv, LookedUp
  <2>2. lastSql' = lastSql /\ FollowPolicy(st)
    BY <1>1, <1>8, Zenon DEF LookedUp, Answers
  <2>3. CASE pc' = "asking" /\ result' = result
    BY <1>1, <1>2, <1>4, <2>1, <2>3 DEF Promise!promise
  <2>4. CASE Failure(lastSql, st.category)
    <3>1. Ended' \in {Promise!Failure(sql) : sql \in Promise!Named}
      BY <2>4, FailsAsPromised DEF IInv, InHandIsTried
    <3> QED
      BY <1>1, <1>2, <1>3, <2>1, <3>1 DEF Promise!GiveUp
  <2> QED
    BY <1>6, <2>2, <2>3, <2>4
<1> QED
  BY <1>1, <1>7, <1>8

\* and so every step is one the promise allows, or none of its business.
LEMMA StepRefines ==
  ASSUME IInv, InHandIsTried, [Next]_vars
  PROVE  [Promise!Next]_(Promise!promise)
<1> USE DEF state
<1>1. ASSUME NEW s \in {NoSql} \cup seen, NEW k, Failure(s, k), pc # "done",
             UNCHANGED <<calls, steps, usage>>
      PROVE  Promise!GiveUp
  <2>1. Executed' = Executed
    BY <1>1, NothingTried DEF IInv
  <2>2. Ended' \in {Promise!Failure(sql) : sql \in Promise!Named}
    BY <1>1, FailsAsPromised DEF IInv
  <2> QED
    BY <1>1, <2>1, <2>2, OpenRun DEF Promise!GiveUp
<1>2. CASE NoQuestion \/ SchemaUnreadable \/ NoStatement \/ OutOfBudget
  <2>1. /\ pc # "done" /\ UNCHANGED <<calls, steps, usage>>
        /\ \E s \in {NoSql} \cup seen : \E k : Failure(s, k)
    BY <1>2 DEF NoQuestion, SchemaUnreadable, NoStatement, OutOfBudget, InHandIsTried
  <2> QED
    BY <1>1, <2>1 DEF Promise!Next
<1>3. ASSUME NEW k \in {"rate_limited", "provider_error"}, NoProvider(k)
      PROVE  Promise!GiveUp
  <2>1. /\ pc # "done" /\ UNCHANGED <<calls, steps, usage>> /\ Failure(lastSql, k)
    BY <1>3 DEF NoProvider
  <2> QED
    BY <1>1, <2>1 DEF InHandIsTried
<1>4. ASSUME NEW k \in {"rate_limited", "provider_error"}, CallFails(k)
      PROVE  Promise!AskInVain
  <2>1. /\ pc = "asking" /\ calls < MaxCalls /\ calls' = calls + 1
        /\ UNCHANGED <<steps, usage>> /\ Failure(lastSql, k)
    BY <1>4 DEF CallFails
  <2>2. Ended' \in {Promise!Failure(sql) : sql \in Promise!Named}
    BY <2>1, FailsAsPromised DEF IInv, InHandIsTried
  <2>3. Executed' = Executed /\ Ended = Promise!Open
    BY <2>1, NothingTried, OpenRun DEF IInv
  <2> QED
    BY <2>1, <2>2, <2>3 DEF Promise!AskInVain
<1>5. CASE Begin
  <2>1. pc = "start" /\ pc' = "asking" /\ UNCHANGED <<calls, steps, usage, result>>
    BY <1>5 DEF Begin
  <2>2. Executed' = Executed /\ Ended' = Ended
    BY <2>1, NothingTried DEF IInv, Ended
  <2> QED
    BY <2>1, <2>2 DEF Promise!promise
<1>6. CASE Repeated
  <2>1. /\ pc = "acting" /\ action.argument \in seen /\ Failure(action.argument, "repeated_sql")
        /\ UNCHANGED <<calls, steps, usage>>
    BY <1>6 DEF Repeated
  <2> QED
    BY <1>1, <2>1 DEF Promise!Next
<1>7. ASSUME NEW r \in Response, NEW u \in CallUsage, Respond(r, u) PROVE Promise!Ask
  BY <1>7, RespondRefines DEF IInv
<1>8. CASE UNCHANGED vars
  BY <1>8 DEF vars, Promise!promise, Executed, Executions, Ended
<1>9. CASE \/ ExecuteSucceeds \/ \E o \in ExecutionFailures : ExecuteFails(o)
          \/ UnknownAction \/ \E b \in BOOLEAN : GetSchema(b)
  <2>1. \E st \in Step : Turn(st)
    BY <1>9, ExecutingIsATurn, AnsweringIsATurn, LookingUpIsATurn, MisnamingIsATurn DEF IInv
  <2> QED
    BY <2>1, TurnRefines DEF Promise!Next
<1> QED
  BY <1>2, <1>3, <1>4, <1>5, <1>6, <1>7, <1>8, <1>9 DEF Next, Promise!Next

\* Whatever the model and the database answer, a run is one that RunPromise
\* allows: a budget of calls, one new statement for each at most, a bill within
\* the calls, and one verdict that names what the database was given.
THEOREM LoopKeepsItsPromise == Spec => ImplementsRunPromise
<1>1. Init => InHandIsTried
  BY DEF Init, InHandIsTried
<1>2. IInv /\ InHandIsTried /\ [Next]_vars => InHandIsTried'
  BY InHandPreserved DEF IInv
<1>3. IInv /\ InHandIsTried /\ [Next]_vars => [Promise!Next]_(Promise!promise)
  BY StepRefines
<1> QED
  BY <1>1, <1>2, <1>3, InitRefines, IInvHolds, PTL DEF Spec, ImplementsRunPromise, Promise!Spec

----------------------------------------------------------------------------
(* What becomes of the claim that every attempt is traced, and why a run   *)
(* must end.                                                               *)

\* The trace falls short of the completed calls by the last one at most, and
\* only if that one repeated a statement or brought none.
OnlyARepeatIsUntraced ==
  pc = "done" =>
    \/ {steps[i].attempt : i \in 1..Len(steps)} = 1..Len(bills)
    \/ /\ {steps[i].attempt : i \in 1..Len(steps)} = 1..(Len(bills) - 1)
       /\ result.category = "repeated_sql"
            \/ (action.name = "execute_sql" /\ action.argument = NoSql)

Short ==
  pc = "done" =>
    \/ Len(bills) = Len(steps)
    \/ /\ Len(bills) = Len(steps) + 1
       /\ result.category = "repeated_sql"
            \/ (action.name = "execute_sql" /\ action.argument = NoSql)

\* A run that ends is as short of its calls as it may be.
LEMMA EndsShort ==
  ASSUME IInv, BillInv, Short, [Next]_vars
  PROVE  Short'
<1> USE DEF state
<1>1. /\ Len(steps) \in Nat /\ calls \in Nat
      /\ pc = "start" => Len(bills) = Len(steps)
      /\ pc = "asking" => Len(bills) = Len(steps)
      /\ pc = "acting" => Len(bills) = Len(steps) + 1
  <2>1. Len(steps) \in Nat /\ calls \in Nat
    BY InHand DEF IInv, TypeOK
  <2>2. pc = "start" => Len(steps) = 0
    BY <2>1 DEF IInv, Turns, TraceIsDense
  <2> QED
    BY <2>1, <2>2 DEF IInv, Turns, TraceIsDense, BillInv, Running
<1>2. CASE NoQuestion \/ SchemaUnreadable \/ OutOfBudget
  <2>1. pc \in {"start", "asking"} /\ UNCHANGED <<steps, bills>>
    BY <1>2 DEF NoQuestion, SchemaUnreadable, OutOfBudget
  <2> QED
    BY <1>1, <2>1 DEF Short
<1>3. ASSUME NEW k \in {"rate_limited", "provider_error"}, NoProvider(k) \/ CallFails(k)
      PROVE  Short'
  <2>1. pc \in {"start", "asking"} /\ UNCHANGED <<steps, bills>>
    BY <1>3 DEF NoProvider, CallFails
  <2> QED
    BY <1>1, <2>1 DEF Short
<1>4. CASE NoStatement
  <2>1. /\ pc = "acting" /\ action.name = "execute_sql" /\ action.argument = NoSql
        /\ UNCHANGED <<steps, bills, action>>
    BY <1>4 DEF NoStatement
  <2> QED
    BY <1>1, <2>1 DEF Short
<1>5. CASE Repeated
  <2>1. /\ pc = "acting" /\ UNCHANGED <<steps, bills>>
        /\ Failure(action.argument, "repeated_sql")
    BY <1>5 DEF Repeated
  <2>2. result'.category = "repeated_sql"
    BY <2>1, FailureSays
  <2> QED
    BY <1>1, <2>1, <2>2 DEF Short
<1>6. ASSUME NEW st \in Step, Turn(st) PROVE Short'
  <2>1. pc = "acting" /\ steps' = Append(steps, st)
    BY <1>6, Zenon DEF Turn
  <2>2. bills' = bills
    <3>1. ~ \E r \in Response, u \in CallUsage : Respond(r, u)
      BY <2>1 DEF Respond
    <3> QED
      BY <3>1, OtherStepsBillNothing
  <2>3. Len(steps') = Len(steps) + 1
    BY <2>1, Appending DEF IInv
  <2> QED
    BY <1>1, <2>1, <2>2, <2>3 DEF Short
<1>7. ASSUME Begin \/ \E r \in Response, u \in CallUsage : Respond(r, u) PROVE Short'
  BY <1>7 DEF Begin, Respond, Short
<1>8. CASE UNCHANGED vars
  BY <1>8 DEF vars, Short
<1> QED
  BY <1>2, <1>3, <1>4, <1>5, <1>6, <1>7, <1>8, ExecutingIsATurn, AnsweringIsATurn,
     LookingUpIsATurn, MisnamingIsATurn DEF Next, IInv

\* AC21 as the code keeps it: the attempts of a trace are all the completed
\* calls, or all but a last one that repeated a statement or brought none.
THEOREM TracesMissOnlyRepeats == Spec => []OnlyARepeatIsUntraced
<1>1. Init => Short
  BY DEF Init, Short
<1>2. IInv /\ BillInv /\ Short /\ [Next]_vars => Short'
  BY EndsShort
<1>3. IInv /\ Short => OnlyARepeatIsUntraced
  <2> SUFFICES ASSUME IInv, Short, pc = "done" PROVE OnlyARepeatIsUntraced
    BY DEF OnlyARepeatIsUntraced
  <2>1. Len(steps) \in Nat /\ \A i \in 1..Len(steps) : steps[i].attempt = i
    BY DEF IInv, Turns, TraceIsDense, TypeOK
  <2>2. {steps[i].attempt : i \in 1..Len(steps)} = 1..Len(steps)
    BY <2>1
  <2> QED
    BY <2>1, <2>2 DEF Short, OnlyARepeatIsUntraced
<1> QED
  BY <1>1, <1>2, <1>3, IInvHolds, BillInvHolds, PTL DEF Spec

\* How many steps a run has left at most: two for each call it may still make,
\* one to start and one to stop.
Remaining ==
  CASE pc = "start"  -> 2 * MaxCalls + 2
    [] pc = "asking" -> 2 * (MaxCalls - calls) + 1
    [] pc = "acting" -> 2 * (MaxCalls - calls) + 2
    [] pc = "done"   -> 0

EveryStepCounts == [][Remaining' < Remaining]_vars

\* Whatever the model and the database answer, no run takes more than
\* 2 * MaxCalls + 2 steps: each step leaves fewer to take.
THEOREM RunsAreBounded == Spec => [](Remaining \in Nat) /\ EveryStepCounts
<1>1. IInv => Remaining \in Nat
  BY LoopAssumption DEF IInv, TypeOK, Remaining
<1>2. ASSUME IInv, Next, ~UNCHANGED vars PROVE Remaining' < Remaining
  <2>1. /\ MaxCalls \in Nat /\ calls \in Nat /\ calls <= MaxCalls
        /\ pc = "start" => calls = 0
        /\ pc \in {"start", "asking", "acting", "done"}
    <3>1. MaxCalls \in Nat /\ calls \in 0..MaxCalls
      BY <1>2, LoopAssumption DEF IInv, TypeOK
    <3>2. pc \in {"start", "asking", "acting", "done"}
      BY <1>2 DEF IInv, TypeOK
    <3> QED
      BY <1>2, <3>1, <3>2 DEF IInv, Turns
  <2>2. ASSUME Ends PROVE Remaining' < Remaining
    BY <2>1, <2>2 DEF Ends, Running, Remaining
  <2>3. ASSUME Begins PROVE Remaining' < Remaining
    BY <2>1, <2>3 DEF Begins, Remaining
  <2>4. ASSUME Asks PROVE Remaining' < Remaining
    BY <2>1, <2>4 DEF Asks, Remaining
  <2>5. ASSUME NEW st \in Step, Turn(st) PROVE Remaining' < Remaining
    <3>1. pc = "acting" /\ calls' = calls
      BY <2>5, Zenon DEF Turn
    <3>2. pc' \in {"asking", "done"}
      BY <2>5, Zenon DEF Turn, Answers, FollowPolicy, Failure
    <3> QED
      BY <2>1, <3>1, <3>2 DEF Remaining
  <2> QED
    BY <1>2, <2>2, <2>3, <2>4, <2>5, StepShape DEF IInv
<1>3. IInv /\ [Next]_vars => [Remaining' < Remaining]_vars
  BY <1>2
<1> QED
  BY <1>1, <1>3, IInvHolds, PTL DEF Spec, EveryStepCounts
=============================================================================
