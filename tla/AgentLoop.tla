----------------------------- MODULE AgentLoop -----------------------------
(***************************************************************************)
(* One run of answer() in api/agent/orchestrator.py: ask the model, do     *)
(* what it says, show it what happened, and stop for one of the reasons    *)
(* the retry policy names.                                                 *)
(*                                                                         *)
(* The model, the database and the catalogue are the environment: what the *)
(* model replies, what a statement comes to and whether the schema can be  *)
(* read are chosen anew each time.  Prompts, messages and rows are left    *)
(* out; a statement is a member of Statements.                             *)
(***************************************************************************)
EXTENDS Naturals, Sequences, FiniteSets, Tokens

CONSTANTS
  Statements,   \* SQL texts a model may produce, stripped and not empty
  OtherNames,   \* action names the loop does not dispatch, "" included
  MaxCalls,     \* max_calls
  NoSql         \* the empty text

ASSUME LoopAssumption ==
  /\ MaxCalls \in Nat
  /\ NoSql \notin Statements
  /\ {"execute_sql", "get_schema"} \cap OtherNames = {}

VARIABLES
  call,       \* how answer() was called
  pc,         \* "start", "asking", "acting" or "done"
  calls,      \* state.calls
  steps,      \* state.steps
  seen,       \* state.seen_sql
  spentOnce,  \* state.spent_once
  lastSql,    \* state.last_sql
  usage,      \* state.usage
  action,     \* the parsed action of this turn
  result,     \* the AgentResult: ok, sql and category
  bills       \* what each completed call reported, in order

state == <<calls, steps, seen, spentOnce, lastSql, usage>>
vars == <<call, pc, state, action, result, bills>>

----------------------------------------------------------------------------
(* Data.                                                                   *)

Texts == Statements \cup {NoSql}
Names == {"execute_sql", "get_schema"} \cup OtherNames

Action == [name : Names, argument : Texts, explicit : BOOLEAN]

\* A response, think blocks and fences removed: it opens with an `ACTION:`
\* line or it does not.
Response == [marked : BOOLEAN, name : Names, text : Texts]

\* parse_action: without an action line the whole text is SQL to execute.
ParseAction(response) ==
  IF response.marked
  THEN [name |-> response.name, argument |-> response.text, explicit |-> TRUE]
  ELSE [name |-> "execute_sql", argument |-> response.text, explicit |-> FALSE]

ExecutionFailures ==
  {"rejected", "timeout", "database_error", "connection_error", "gate_violation"}

\* RETRY_POLICY, as the categories it retries; every other category stops.
Retried == {"database_error", "rejected", "unknown_action"}
RetriedOnce == {"timeout"}

Categories == ExecutionFailures \cup
  {"", "unknown_action", "no_sql_returned", "provider_error", "rate_limited",
   "budget_exhausted", "repeated_sql"}

Step == [attempt : Nat, action : Names, sql : Texts, ok : BOOLEAN,
         category : Categories]

\* usage_for_call: the provider's own figure, a local estimate, or nothing
\* when there is no tokenizer.
CallUsage == {[tokens |-> 1, calls |-> 1, measured |-> TRUE],
              [tokens |-> 1, calls |-> 1, measured |-> FALSE], NoUsage}

\* The arguments: a question that is not blank, SCHEMA_FULL with no schema
\* handed over, and an injected provider.
Arguments == [asked : BOOLEAN, readsSchema : BOOLEAN, provider : BOOLEAN]

NoResult == [ok |-> FALSE, sql |-> NoSql, category |-> ""]

\* The types of the state; the budget is a type: calls never passes MaxCalls.
TypeOK ==
  /\ call \in Arguments
  /\ pc \in {"start", "asking", "acting", "done"}
  /\ calls \in 0..MaxCalls
  /\ steps \in Seq(Step)
  /\ seen \subseteq Statements
  /\ spentOnce \subseteq RetriedOnce
  /\ lastSql \in Texts
  /\ usage \in TokenUsage
  /\ action \in Action
  /\ result \in [ok : BOOLEAN, sql : Texts, category : Categories]
  /\ bills \in Seq(TokenUsage)

Init ==
  /\ call \in Arguments
  /\ pc = "start"
  /\ calls = 0 /\ steps = <<>> /\ seen = {} /\ spentOnce = {} /\ lastSql = NoSql
  /\ usage = NoUsage
  /\ action = [name |-> "execute_sql", argument |-> NoSql, explicit |-> FALSE]
  /\ result = NoResult
  /\ bills = <<>>

\* _failure, given the SQL the run last had in hand.
Failure(sql, category) ==
  /\ pc' = "done"
  /\ result' = [ok |-> FALSE, sql |-> sql, category |-> category]

----------------------------------------------------------------------------
(* Before the loop: the question, the schema and the provider.             *)

NoQuestion ==
  /\ pc = "start" /\ ~call.asked
  /\ Failure(NoSql, "no_sql_returned")
  /\ UNCHANGED <<call, state, action, bills>>

SchemaUnreadable ==
  /\ pc = "start" /\ call.asked /\ call.readsSchema
  /\ Failure(lastSql, "connection_error")
  /\ UNCHANGED <<call, state, action, bills>>

NoProvider(category) ==
  /\ pc = "start" /\ call.asked /\ ~call.provider
  /\ Failure(lastSql, category)
  /\ UNCHANGED <<call, state, action, bills>>

Begin ==
  /\ pc = "start" /\ call.asked
  /\ pc' = "asking"
  /\ UNCHANGED <<call, state, action, result, bills>>

----------------------------------------------------------------------------
(* A turn: one call to the provider, then what the reply asks for.         *)

\* The call fails: it is counted, but it reported no usage.
CallFails(category) ==
  /\ pc = "asking" /\ calls < MaxCalls
  /\ calls' = calls + 1
  /\ Failure(lastSql, category)
  /\ UNCHANGED <<call, steps, seen, spentOnce, lastSql, usage, action, bills>>

RespondPastTheBudget(response, cost) ==  \* faulty: `<=` for `<`
  /\ pc = "asking" /\ calls <= MaxCalls
  /\ pc' = "acting"
  /\ calls' = calls + 1
  /\ usage' = Plus(usage, cost)
  /\ bills' = Append(bills, cost)
  /\ action' = ParseAction(response)
  /\ UNCHANGED <<call, steps, seen, spentOnce, lastSql, result>>

RespondLookingUpForFree(response, cost) ==  \* faulty: get_schema is not counted
  /\ pc = "asking" /\ calls < MaxCalls /\ Len(steps) < MaxCalls
  /\ pc' = "acting"
  /\ action' = ParseAction(response)
  /\ calls' = IF action'.name = "get_schema" THEN calls ELSE calls + 1
  /\ usage' = Plus(usage, cost)
  /\ bills' = Append(bills, cost)
  /\ UNCHANGED <<call, steps, seen, spentOnce, lastSql, result>>

Respond(response, cost) ==
  /\ pc = "asking" /\ calls < MaxCalls
  /\ pc' = "acting"
  /\ calls' = calls + 1
  /\ usage' = Plus(usage, cost)
  /\ bills' = Append(bills, cost)
  /\ action' = ParseAction(response)
  /\ UNCHANGED <<call, steps, seen, spentOnce, lastSql, result>>

NoStatement ==
  /\ pc = "acting" /\ action.name = "execute_sql" /\ action.argument = NoSql
  /\ Failure(lastSql, "no_sql_returned")
  /\ UNCHANGED <<call, state, action, bills>>

Repeated ==
  /\ pc = "acting" /\ action.name = "execute_sql" /\ action.argument \in seen
  /\ lastSql' = action.argument
  /\ Failure(action.argument, "repeated_sql")
  /\ UNCHANGED <<call, calls, steps, seen, spentOnce, usage, action, bills>>

FollowPolicyWithoutOnce(step) ==  \* faulty: a timeout is retried like an error
  /\ steps' = Append(steps, step)
  /\ IF step.ok \/ step.category \in Retried \cup RetriedOnce
     THEN pc' = "asking" /\ UNCHANGED result
     ELSE Failure(lastSql', step.category)
  /\ UNCHANGED spentOnce

\* The end of the turn, from the append to the retry policy.
FollowPolicy(step) ==
  LET once == step.category \in RetriedOnce /\ step.category \notin spentOnce
  IN  /\ steps' = Append(steps, step)
      /\ IF step.ok \/ step.category \in Retried \/ once
         THEN pc' = "asking" /\ UNCHANGED result
         ELSE Failure(lastSql', step.category)
      /\ spentOnce' = IF ~step.ok /\ once THEN spentOnce \cup {step.category}
                      ELSE spentOnce

CategoriseByResult(category, explicit) == category  \* faulty: no refusal

\* _categorise_execution: what was never an action was no statement either.
Categorise(category, explicit) ==
  IF category = "rejected" /\ ~explicit THEN "no_sql_returned" ELSE category

FreshStatement ==
  pc = "acting" /\ action.name = "execute_sql" /\ action.argument \in Statements \ seen

ExecuteSucceeds ==
  /\ FreshStatement
  /\ seen' = seen \cup {action.argument}
  /\ lastSql' = action.argument
  /\ steps' = Append(steps, [attempt |-> calls, action |-> "execute_sql",
                 sql |-> action.argument, ok |-> TRUE, category |-> ""])
  /\ pc' = "done"
  /\ result' = [ok |-> TRUE, sql |-> action.argument, category |-> ""]
  /\ UNCHANGED <<call, calls, spentOnce, usage, action, bills>>

ExecuteFailsForgetting(outcome) ==  \* faulty: only what ran is remembered
  /\ FreshStatement
  /\ seen' = IF outcome \in {"rejected", "timeout"} THEN seen
             ELSE seen \cup {action.argument}
  /\ lastSql' = action.argument
  /\ FollowPolicy([attempt |-> calls, action |-> "execute_sql",
                   sql |-> action.argument, ok |-> FALSE,
                   category |-> Categorise(outcome, action.explicit)])
  /\ UNCHANGED <<call, calls, usage, action, bills>>

ExecuteFails(outcome) ==
  /\ FreshStatement
  /\ seen' = seen \cup {action.argument}
  /\ lastSql' = action.argument
  /\ FollowPolicy([attempt |-> calls, action |-> "execute_sql",
                   sql |-> action.argument, ok |-> FALSE,
                   category |-> Categorise(outcome, action.explicit)])
  /\ UNCHANGED <<call, calls, usage, action, bills>>

GetSchema(readable) ==
  /\ pc = "acting" /\ action.name = "get_schema"
  /\ UNCHANGED <<call, calls, seen, lastSql, usage, action, bills>>
  /\ FollowPolicy([attempt |-> calls, action |-> "get_schema", sql |-> NoSql,
                   ok |-> readable,
                   category |-> IF readable THEN "" ELSE "connection_error"])

UnknownAction ==
  /\ pc = "acting" /\ action.name \in OtherNames
  /\ UNCHANGED <<call, calls, seen, lastSql, usage, action, bills>>
  /\ FollowPolicy([attempt |-> calls, action |-> action.name, sql |-> NoSql,
                   ok |-> FALSE, category |-> "unknown_action"])

OutOfBudgetAfterAFailure ==  \* faulty: a last lookup falls off the loop
  /\ pc = "asking" /\ calls = MaxCalls
  /\ steps # <<>> /\ ~steps[Len(steps)].ok
  /\ Failure(lastSql, "budget_exhausted")
  /\ UNCHANGED <<call, state, action, bills>>

OutOfBudgetOnTheLastCall ==  \* faulty: the last call is never made
  /\ pc = "asking" /\ calls + 1 >= MaxCalls
  /\ Failure(lastSql, "budget_exhausted")
  /\ UNCHANGED <<call, state, action, bills>>

OutOfBudget ==
  /\ pc = "asking" /\ calls = MaxCalls
  /\ Failure(lastSql, "budget_exhausted")
  /\ UNCHANGED <<call, state, action, bills>>

Next ==
  \/ NoQuestion \/ SchemaUnreadable \/ Begin
  \/ \E category \in {"rate_limited", "provider_error"} :
       NoProvider(category) \/ CallFails(category)
  \/ \E response \in Response, cost \in CallUsage : Respond(response, cost)
  \/ NoStatement \/ Repeated \/ ExecuteSucceeds
  \/ \E outcome \in ExecutionFailures : ExecuteFails(outcome)
  \/ \E readable \in BOOLEAN : GetSchema(readable)
  \/ UnknownAction \/ OutOfBudget

Spec == Init /\ [][Next]_vars
FairSpec == Spec /\ WF_vars(Next)

----------------------------------------------------------------------------
(* Properties.                                                             *)

Final == steps[Len(steps)]
Executions == {i \in 1..Len(steps) : steps[i].action = "execute_sql"}

\* A statement reaches the database at most once per question, whatever came
\* between its two appearances and however the first one ended.
NeverRunsTwice ==
  \A i, j \in Executions : i # j => steps[i].sql # steps[j].sql

\* The trace is numbered 1, 2, 3 with no gap, and falls short of the calls by
\* at most the one in hand: lookups are not free, and (ask_id, attempt) is a
\* key of the step table that record_ask writes the trace to.
TraceIsDense ==
  /\ \A i \in 1..Len(steps) : steps[i].attempt = i
  /\ calls \in {Len(steps), Len(steps) + 1}
  /\ pc = "asking" => calls = Len(steps)

\* The loop went on after a step only for a reason RETRY_POLICY gives: a
\* lookup that worked, a retriable failure, or the first timeout.  So no
\* question waits for the statement timeout more than twice.
RetriesAreJustified ==
  \A i \in 1..Len(steps) : (i < Len(steps) \/ pc = "asking") =>
    \/ steps[i].ok /\ steps[i].action = "get_schema"
    \/ steps[i].category \in Retried
    \/ /\ steps[i].category \in RetriedOnce
       /\ \A j \in 1..(i - 1) : steps[j].category # steps[i].category

\* A response that performed no action and was no statement either is a
\* refusal, and the model is not asked again.
RefusalEndsTheRun ==
  [][pc = "acting" /\ ~action.explicit /\ pc' = "asking"
       => steps'[Len(steps')].category \in {"database_error", "timeout"}]_vars

\* The verdict agrees with the trace: success is the last statement executed,
\* a failure has no successful execution behind it, a category that stops a
\* run is the last step's own or one that leaves no step, and the budget is
\* blamed only when all of it went on steps worth retrying.
VerdictExplained ==
  pc = "done" =>
    /\ result.ok <=> \E i \in Executions : steps[i].ok
    /\ result.ok => /\ steps # <<>> /\ Final.ok /\ Final.sql = result.sql
                    /\ Final.attempt = calls
    /\ result.category = "budget_exhausted" =>
         /\ calls = MaxCalls /\ Len(steps) = MaxCalls
         /\ \A i \in 1..Len(steps) :
              steps[i].ok \/ steps[i].category \in Retried \cup RetriedOnce
    /\ result.category = "repeated_sql" =>
         \E i \in Executions : steps[i].sql = result.sql
    /\ result.category \in {"timeout", "gate_violation"} =>
         Final.category = result.category /\ Final.sql = result.sql

\* The bill: the usage of a run counts each completed call that reported
\* anything, once, and calls itself measured exactly when all of those were
\* and there was one.
Reported == {i \in 1..Len(bills) : ~IsZero(bills[i])}
BillIsWhole ==
  /\ usage.calls = Cardinality(Reported)
  /\ usage.measured <=> Reported # {} /\ \A i \in Reported : bills[i].measured
  /\ Len(bills) \in {calls, calls - 1}

\* Every question gets an answer or a failure.
EveryRunEnds == <>(pc = "done")

\* AC21 of specs/007-agent-loop.md: the trace holds every attempt.  The code
\* leaves out the attempt that repeated a statement: its call is counted and
\* its SQL is the result's, and no step says so.
EveryAttemptIsTraced ==
  pc = "done" /\ action.argument # NoSql =>
    {steps[i].attempt : i \in 1..Len(steps)} = 1..Len(bills)

----------------------------------------------------------------------------
(* Refinement: what the trace, the bill and the verdict of a run amount to.*)

Executed == {[call |-> steps[i].attempt, sql |-> steps[i].sql] : i \in Executions}
Ended == [over |-> pc = "done", ok |-> result.ok, sql |-> result.sql]

Promise == INSTANCE RunPromise WITH
  asked <- calls, billed <- usage.calls, tried <- Executed, verdict <- Ended

\* Whatever the model and the database answer, a run stays within its budget of
\* calls and its bill within its calls, gives the database one new statement
\* per call at most, and its verdict names what the database was given.
ImplementsRunPromise == Promise!Spec
=============================================================================
