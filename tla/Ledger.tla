------------------------------- MODULE Ledger -------------------------------
(***************************************************************************)
(* evals/ledger.py: the file that remembers, from one benchmark run to the *)
(* next, what has been spent of today's allowance.                         *)
(***************************************************************************)
EXTENDS Naturals

CONSTANT NoFile   \* the file is absent or unreadable

VARIABLES
  ledger,  \* what spend.json holds
  today    \* utc_today()

\* DailySpend.
DailySpend == [day : Nat, tokens : Nat, requests : Nat, reconciled : BOOLEAN]

ASSUME LedgerAssumption == NoFile \notin DailySpend

EmptyDay ==
  [day |-> today, tokens |-> 0, requests |-> 0, reconciled |-> FALSE]

\* load: a file of another day is not carried forward, nor one nobody can read.
Load == IF ledger # NoFile /\ ledger.day = today THEN ledger ELSE EmptyDay

\* record: what a run was billed is added to what the file says now.
Record(tokens, requests) ==
  ledger' = [Load EXCEPT !.tokens = @ + tokens, !.requests = @ + requests]

\* reconcile: the provider's own total replaces the estimate.
ReconcileAdding(used) ==  \* faulty: a total is taken for a delta
  ledger' = [Load EXCEPT !.tokens = @ + used, !.reconciled = TRUE]

Reconcile(used) ==
  ledger' = [Load EXCEPT !.tokens = used, !.reconciled = TRUE]
=============================================================================
