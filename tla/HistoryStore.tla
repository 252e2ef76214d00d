---------------------------- MODULE HistoryStore ----------------------------
(***************************************************************************)
(* The writers of api/store/history.py: reserve_question, record_ask and   *)
(* record_feedback, run by the request threads of one process against one  *)
(* SQLite file that outlives the process.                                  *)
(*                                                                         *)
(* Every writer holds _write_lock from before it opens its connection      *)
(* until after it has committed or failed.  What it executes before the    *)
(* commit is seen by its own connection only, so its body is one action    *)
(* and its commit another; a crash may fall between any two.               *)
(*                                                                         *)
(* A row is named by the call that inserts it (uuid4 makes it unique), and *)
(* a row of daily_usage, which is only ever incremented in place, is the   *)
(* set of committed increments that it counts.                             *)
(***************************************************************************)
EXTENDS Naturals, FiniteSets

CONSTANTS
  Reservers,      \* invocations of reserve_question
  Recorders,      \* invocations of record_ask, which name the rows of `ask`
  Markers,        \* invocations of record_feedback
  Identities,     \* the identities questions are reserved for
  IdentityLimit,  \* QUERYPILOT_DAILY_IDENTITY_LIMIT
  GlobalLimit,    \* QUERYPILOT_DAILY_GLOBAL_LIMIT
  MaxDay,         \* bound: the last day modelled
  MaxRestarts,    \* bound: how often the process dies
  None            \* no call, no result, no row

Calls == Reservers \cup Recorders \cup Markers

ASSUME StoreAssumption ==
  /\ IsFiniteSet(Reservers)
  /\ Reservers \cap (Recorders \cup Markers) = {} /\ Recorders \cap Markers = {}
  /\ None \notin Calls /\ None \notin Identities
  /\ IdentityLimit \in Nat \ {0} /\ GlobalLimit \in Nat \ {0}
  /\ MaxDay \in Nat /\ MaxRestarts \in Nat

VARIABLES
  pc,        \* where each call stands
  lock,      \* the call that holds _write_lock
  today,     \* the UTC date
  stamp,     \* the usage_date a reservation read before it took the lock
  who,       \* the identity of a reservation
  target,    \* the ask_id a mark names
  result,    \* what each call is about to return or raise
  ledger,    \* daily_usage: the committed increments
  asks,      \* the committed rows of `ask`, each with its steps
  marks,     \* the committed rows of `feedback`
  degraded,  \* _degraded # ""
  failed,    \* whether the last write of record_ask to end has failed
  restarts   \* how often the process has died

durable == <<ledger, asks, marks>>
inputs == <<stamp, who, target>>
health == <<degraded, failed>>
vars == <<pc, lock, today, inputs, result, durable, health, restarts>>

Days == 0..MaxDay

\* daily_usage: SUM(question_count) of one day, and one row's count.
Total(d) == Cardinality({r \in ledger : stamp[r] = d})
Count(d, i) == Cardinality({r \in ledger : stamp[r] = d /\ who[r] = i})

Limits == {"identity_daily_limit", "global_daily_limit"}

Results == {"allowed", "ledger_unavailable", "raised", "recorded", "failed",
            "stored", "unknown_ask"} \cup Limits

\* What a call may come to.  record_ask has no way to raise.
ResultsOf(c) ==
  IF c \in Reservers THEN {"allowed", "ledger_unavailable", "raised"} \cup Limits
  ELSE IF c \in Recorders THEN {"recorded", "failed"}
  ELSE {"stored", "unknown_ask", "raised"}

Sites == {"idle", "waiting", "opening", "body", "committing", "leaving",
          "flagging", "done", "died"}
Holding == {"opening", "body", "committing", "leaving"}

\* The types of the state.  Its conjunct on `result` says that record_ask
\* comes to an id or to None whatever the store raises.
TypeOK ==
  /\ pc \in [Calls -> Sites]
  /\ lock \in Calls \cup {None}
  /\ today \in Days
  /\ stamp \in [Reservers -> Days]
  /\ who \in [Reservers -> Identities \cup {None}]
  /\ target \in [Markers -> Recorders \cup {None}]
  /\ result \in [Calls -> Results \cup {None}]
  /\ \A c \in Calls : result[c] \in ResultsOf(c) \cup {None}
  /\ ledger \subseteq Reservers /\ asks \subseteq Recorders /\ marks \subseteq Markers
  /\ degraded \in BOOLEAN /\ failed \in BOOLEAN
  /\ restarts \in 0..MaxRestarts

Init ==
  /\ pc = [c \in Calls |-> "idle"] /\ lock = None
  /\ today = 0
  /\ stamp = [r \in Reservers |-> 0] /\ who = [r \in Reservers |-> None]
  /\ target = [m \in Markers |-> None]
  /\ result = [c \in Calls |-> None]
  /\ ledger = {} /\ asks = {} /\ marks = {}
  /\ degraded = FALSE /\ failed = FALSE
  /\ restarts = 0

Goto(c, from, to) == pc[c] = from /\ pc' = [pc EXCEPT ![c] = to]
Conclude(c, res) == result' = [result EXCEPT ![c] = res]

----------------------------------------------------------------------------
(* Faulty variants: the definition each is named after, as a plausible bug *)
(* would have it.  Only the mutation runs of PROJECT.json use them.        *)

EnterWithoutTheLock(c) ==
  /\ Goto(c, "waiting", "opening")
  /\ lock' = c
  /\ UNCHANGED <<today, inputs, result, durable, health, restarts>>

RefuseGlobalFirst(r) ==
  /\ Total(stamp[r]) + 1 > GlobalLimit
  /\ Goto(r, "body", "leaving")
  /\ Conclude(r, "global_daily_limit")
  /\ UNCHANGED <<lock, today, inputs, durable, health, restarts>>

AdmitAtOnce(r) ==
  /\ Count(stamp[r], who[r]) + 1 <= IdentityLimit
  /\ Total(stamp[r]) + 1 <= GlobalLimit
  /\ Goto(r, "body", "committing")
  /\ ledger' = ledger \cup {r}
  /\ UNCHANGED <<lock, today, inputs, result, asks, marks, health, restarts>>

FailureRaises(c) == {"raised"}

WriteReportsEarly(a) ==
  /\ Goto(a, "body", "leaving")
  /\ Conclude(a, "recorded")
  /\ UNCHANGED <<lock, today, inputs, durable, health, restarts>>

FailsHoldingTheLock(c) ==
  /\ pc[c] \in {"body", "committing"}
  /\ pc' = [pc EXCEPT ![c] = "done"]
  /\ Conclude(c, IF c \in Recorders THEN "failed"
                 ELSE IF c \in Reservers THEN "ledger_unavailable" ELSE "raised")
  /\ failed' = IF c \in Recorders THEN TRUE ELSE failed
  /\ UNCHANGED <<lock, today, inputs, durable, degraded, restarts>>

----------------------------------------------------------------------------
(* A call arrives.  A reservation reads the date before it takes the lock; *)
(* a mark names an id that some answer was returned with, or an unknown    *)
(* one.                                                                    *)

Reserve(r, i) ==
  /\ Goto(r, "idle", "waiting")
  /\ stamp' = [stamp EXCEPT ![r] = today]
  /\ who' = [who EXCEPT ![r] = i]
  /\ UNCHANGED <<lock, today, target, result, durable, health, restarts>>

Record(a) ==
  /\ Goto(a, "idle", "waiting")
  /\ UNCHANGED <<lock, today, inputs, result, durable, health, restarts>>

Returned(a) == pc[a] = "done" /\ result[a] = "recorded"

Mark(m, a) ==
  /\ a # None => Returned(a)
  /\ Goto(m, "idle", "waiting")
  /\ target' = [target EXCEPT ![m] = a]
  /\ UNCHANGED <<lock, today, stamp, who, result, durable, health, restarts>>

(* `with _write_lock, _connect(path)`: the lock, then the connection.      *)

Enter(c) ==
  /\ lock = None
  /\ Goto(c, "waiting", "opening")
  /\ lock' = c
  /\ UNCHANGED <<today, inputs, result, durable, health, restarts>>

Open(c) ==
  /\ Goto(c, "opening", "body")
  /\ UNCHANGED <<lock, today, inputs, result, durable, health, restarts>>

\* What a sqlite3.Error makes of a call.
Failure(c) ==
  IF c \in Reservers THEN {"ledger_unavailable"}
  ELSE IF c \in Recorders THEN {"failed"} ELSE {"raised"}

\* What may go wrong in _connect: mkdir and the schema file also raise
\* OSError, which reserve_question does not catch.
OpenFailure(c) == IF c \in Reservers THEN {"ledger_unavailable", "raised"} ELSE Failure(c)

Fail(c, res) ==
  /\ pc' = [pc EXCEPT ![c] = "leaving"]
  /\ Conclude(c, res)
  /\ failed' = IF c \in Recorders THEN TRUE ELSE failed
  /\ UNCHANGED <<lock, today, inputs, durable, degraded, restarts>>

OpenFails(c) == pc[c] = "opening" /\ \E res \in OpenFailure(c) : Fail(c, res)

\* A statement or the commit raises; the connection closes, nothing is kept.
StatementFails(c) ==
  pc[c] \in {"body", "committing"} /\ \E res \in Failure(c) : Fail(c, res)

----------------------------------------------------------------------------
(* The three bodies.                                                       *)

RefuseIdentity(r) ==
  /\ Count(stamp[r], who[r]) + 1 > IdentityLimit
  /\ Goto(r, "body", "leaving")
  /\ Conclude(r, "identity_daily_limit")
  /\ UNCHANGED <<lock, today, inputs, durable, health, restarts>>

RefuseGlobal(r) ==
  /\ Count(stamp[r], who[r]) + 1 <= IdentityLimit
  /\ Total(stamp[r]) + 1 > GlobalLimit
  /\ Goto(r, "body", "leaving")
  /\ Conclude(r, "global_daily_limit")
  /\ UNCHANGED <<lock, today, inputs, durable, health, restarts>>

Admit(r) ==
  /\ Count(stamp[r], who[r]) + 1 <= IdentityLimit
  /\ Total(stamp[r]) + 1 <= GlobalLimit
  /\ Goto(r, "body", "committing")
  /\ UNCHANGED <<lock, today, inputs, result, durable, health, restarts>>

Write(a) ==
  /\ Goto(a, "body", "committing")
  /\ UNCHANGED <<lock, today, inputs, result, durable, health, restarts>>

RefuseUnknown(m) ==
  /\ target[m] \notin asks
  /\ Goto(m, "body", "leaving")
  /\ Conclude(m, "unknown_ask")
  /\ UNCHANGED <<lock, today, inputs, durable, health, restarts>>

Attach(m) ==
  /\ target[m] \in asks
  /\ Goto(m, "body", "committing")
  /\ UNCHANGED <<lock, today, inputs, result, durable, health, restarts>>

CommitReservation(r) ==
  /\ Goto(r, "committing", "leaving")
  /\ ledger' = ledger \cup {r}
  /\ Conclude(r, "allowed")
  /\ UNCHANGED <<lock, today, inputs, asks, marks, health, restarts>>

CommitAsk(a) ==
  /\ Goto(a, "committing", "leaving")
  /\ asks' = asks \cup {a}
  /\ Conclude(a, "recorded")
  /\ failed' = FALSE
  /\ UNCHANGED <<lock, today, inputs, ledger, marks, degraded, restarts>>

CommitMark(m) ==
  /\ Goto(m, "committing", "leaving")
  /\ marks' = marks \cup {m}
  /\ Conclude(m, "stored")
  /\ UNCHANGED <<lock, today, inputs, ledger, asks, health, restarts>>

(* The `with` ends and the lock is free; only then does record_ask, and    *)
(* only record_ask, write _degraded.                                       *)

Leave(c) ==
  /\ Goto(c, "leaving", IF c \in Recorders THEN "flagging" ELSE "done")
  /\ lock' = None
  /\ UNCHANGED <<today, inputs, result, durable, health, restarts>>

Flag(a) ==
  /\ Goto(a, "flagging", "done")
  /\ degraded' = (result[a] = "failed")
  /\ UNCHANGED <<lock, today, inputs, result, durable, failed, restarts>>

----------------------------------------------------------------------------
(* The world: the date changes, the process dies and is started again.     *)

Midnight ==
  /\ today < MaxDay
  /\ today' = today + 1
  /\ UNCHANGED <<pc, lock, inputs, result, durable, health, restarts>>

Restart ==
  /\ restarts < MaxRestarts
  /\ restarts' = restarts + 1
  /\ pc' = [c \in Calls |-> IF pc[c] \in {"idle", "done"} THEN pc[c] ELSE "died"]
  /\ lock' = None
  /\ degraded' = FALSE /\ failed' = FALSE
  /\ UNCHANGED <<today, inputs, result, durable>>

ReserverStep(r) ==
  RefuseIdentity(r) \/ RefuseGlobal(r) \/ Admit(r) \/ CommitReservation(r)
RecorderStep(a) == Write(a) \/ CommitAsk(a) \/ Flag(a)
MarkerStep(m) == RefuseUnknown(m) \/ Attach(m) \/ CommitMark(m)

\* What a call does on its own once it has arrived.
Step(c) ==
  \/ Enter(c) \/ Open(c) \/ OpenFails(c) \/ StatementFails(c) \/ Leave(c)
  \/ c \in Reservers /\ ReserverStep(c)
  \/ c \in Recorders /\ RecorderStep(c)
  \/ c \in Markers /\ MarkerStep(c)

Next ==
  \/ \E r \in Reservers, i \in Identities : Reserve(r, i)
  \/ \E a \in Recorders : Record(a)
  \/ \E m \in Markers, a \in Recorders \cup {None} : Mark(m, a)
  \/ \E c \in Calls : Step(c)
  \/ Midnight
  \/ Restart

Spec == Init /\ [][Next]_vars
FairSpec == Spec /\ \A c \in Calls : WF_vars(Step(c))

----------------------------------------------------------------------------
(* Properties.                                                             *)

\* The daily ceiling: whatever the interleaving of requests, failed commits,
\* restarts and midnights, no usage_date is charged more questions than the
\* global limit, nor any identity more than its own (reserve_question).
CeilingHolds ==
  \A d \in Days :
    /\ Total(d) <= GlobalLimit
    /\ \A i \in Identities : Count(d, i) <= IdentityLimit

\* A refusal names the ceiling that really fired, and goes on being true of
\* that day: "you" only when this identity has none left, "everyone" only
\* when the deployment has none left and this identity still has some.
BlameIsRight ==
  \A r \in Reservers : pc[r] = "done" =>
    LET mine == Count(stamp[r], who[r])
        all == Total(stamp[r])
    IN  /\ result[r] = "identity_daily_limit" => mine = IdentityLimit
        /\ result[r] = "global_daily_limit" =>
             all = GlobalLimit /\ mine < IdentityLimit

\* A caller pays for exactly the questions it was allowed: an answered
\* reservation is in the ledger if and only if it was admitted, across failed
\* commits and restarts ("checked, not incremented, on a refusal").
PaidIffAllowed ==
  \A r \in Reservers : pc[r] = "done" => (r \in ledger <=> result[r] = "allowed")

\* An id that record_ask has handed out is durable: a mark against it is never
\* told that the answer is unknown, restarts included, and a mark that was
\* acknowledged is in the store on a row that exists (record_feedback).
AcknowledgedIsDurable ==
  \A m \in Markers : pc[m] = "done" =>
    /\ result[m] = "unknown_ask" => target[m] = None
    /\ result[m] = "stored" => m \in marks /\ target[m] \in asks

\* No store call waits for ever: each returns, raises or dies with its process.
EveryStoreCallReturns ==
  \A c \in Calls : pc[c] = "waiting" ~> pc[c] \in {"done", "died"}

\* What the docstring of degraded() says: once every record_ask is over, the
\* flag /health reports is set exactly when the last write has failed.  The
\* code does not keep this: it writes the flag after it has freed the lock.
DegradedTellsTheLastWrite ==
  (\A a \in Recorders : pc[a] \in {"idle", "done", "died"}) => degraded = failed

----------------------------------------------------------------------------
(* Refinement: each call is decided in one step of the promise, a charge, a *)
(* row or a mark as it commits, a refusal as it reads, a failure as it is   *)
(* caught.  Locks, bodies, midnights and the death of the process are       *)
(* stutters.                                                                *)

Promise == INSTANCE StorePromise WITH
  day <- stamp, whose <- who, aim <- target, paid <- ledger, rows <- asks,
  told <- result

\* Although a call checks in one transaction step and commits in another, and
\* others and crashes come between, its callers see one indivisible operation:
\* refused only at a ceiling that is reached, charged only below both.
ImplementsStorePromise == Promise!Spec
=============================================================================
