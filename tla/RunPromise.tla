----------------------------- MODULE RunPromise -----------------------------
(***************************************************************************)
(* What one run of the agent promises whoever pays for it, with no trace,  *)
(* prompt, policy or category in it.  The model is asked at most MaxCalls  *)
(* times, and each time is billed at most once; between two questions to   *)
(* the model at most one statement goes to the database, and never one     *)
(* that went there before; and the run ends once, with the statement that  *)
(* has just answered, or with a failure that names a statement the         *)
(* database was given, or none.  After that nothing moves.                 *)
(***************************************************************************)
EXTENDS Naturals

CONSTANTS Statements, MaxCalls, NoSql

VARIABLES
  asked,    \* how often the model was asked
  billed,   \* how many of those calls are on the bill
  tried,    \* the statements the database was given, and after which call
  verdict   \* how the run ended

promise == <<asked, billed, tried, verdict>>

Open == [over |-> FALSE, ok |-> FALSE, sql |-> NoSql]
Answer(sql) == [over |-> TRUE, ok |-> TRUE, sql |-> sql]
Failure(sql) == [over |-> TRUE, ok |-> FALSE, sql |-> sql]

\* What a failure may name.
Named == {NoSql} \cup {t.sql : t \in tried}

Init == asked = 0 /\ billed = 0 /\ tried = {} /\ verdict = Open

Ask ==
  /\ verdict = Open /\ asked < MaxCalls
  /\ asked' = asked + 1
  /\ billed' \in {billed, billed + 1}
  /\ UNCHANGED <<tried, verdict>>

\* A call that fails is not billed, and is the last.
AskInVain ==
  /\ verdict = Open /\ asked < MaxCalls
  /\ asked' = asked + 1
  /\ verdict' \in {Failure(sql) : sql \in Named}
  /\ UNCHANGED <<billed, tried>>

Try(sql) ==
  /\ verdict = Open /\ asked # 0
  /\ \A t \in tried : t.call # asked /\ t.sql # sql
  /\ tried' = tried \cup {[call |-> asked, sql |-> sql]}
  /\ verdict' \in {Open, Answer(sql), Failure(sql)}
  /\ UNCHANGED <<asked, billed>>

GiveUp ==
  /\ verdict = Open
  /\ verdict' \in {Failure(sql) : sql \in Named}
  /\ UNCHANGED <<asked, billed, tried>>

Next == Ask \/ AskInVain \/ GiveUp \/ \E sql \in Statements : Try(sql)

Spec == Init /\ [][Next]_promise
=============================================================================
