---------------------------- MODULE StorePromise ----------------------------
(***************************************************************************)
(* What the history store promises its callers, with no lock, connection,  *)
(* transaction or crash in it.  A call asks, and is then decided once, in  *)
(* one step that reads and writes the store together: a reservation is     *)
(* allowed and charged, refused by the ceiling that is reached, or fails   *)
(* and costs nothing; an answer is kept or lost; a mark is put on a row    *)
(* that was handed out, or names none.  Nothing decided is taken back.     *)
(* Whoever dies before the decision has done nothing, and after it nothing *)
(* less.                                                                   *)
(***************************************************************************)
EXTENDS Naturals, FiniteSets

CONSTANTS Reservers, Recorders, Markers, Identities, Days,
          IdentityLimit, GlobalLimit, None

VARIABLES
  day,    \* the day each reservation is for
  whose,  \* the identity it is for, None before it asks
  aim,    \* the row each mark names
  paid,   \* the reservations that have been charged
  rows,   \* the answers that are kept
  marks,  \* the marks that are kept
  told    \* what each call came to, None until it is decided

promise == <<day, whose, aim, paid, rows, marks, told>>

\* What this identity has used on that day, and what everybody has.
Mine(r) == Cardinality({q \in paid : day[q] = day[r] /\ whose[q] = whose[r]})
All(r) == Cardinality({q \in paid : day[q] = day[r]})

Init ==
  /\ day \in [Reservers -> Days] /\ whose = [r \in Reservers |-> None]
  /\ aim = [m \in Markers |-> None]
  /\ paid = {} /\ rows = {} /\ marks = {}
  /\ told = [c \in Reservers \cup Recorders \cup Markers |-> None]

Decide(c, outcome) ==
  /\ told[c] = None
  /\ told' = [told EXCEPT ![c] = outcome]

Ask(r, d, i) ==
  /\ whose[r] = None /\ told[r] = None
  /\ day' = [day EXCEPT ![r] = d] /\ whose' = [whose EXCEPT ![r] = i]
  /\ UNCHANGED <<aim, paid, rows, marks, told>>

Allow(r) ==
  /\ whose[r] # None /\ r \notin paid
  /\ Mine(r) < IdentityLimit /\ All(r) < GlobalLimit
  /\ paid' = paid \cup {r}
  /\ Decide(r, "allowed")
  /\ UNCHANGED <<day, whose, aim, rows, marks>>

RefuseIdentity(r) ==
  /\ whose[r] # None /\ Mine(r) = IdentityLimit
  /\ Decide(r, "identity_daily_limit")
  /\ UNCHANGED <<day, whose, aim, paid, rows, marks>>

RefuseGlobal(r) ==
  /\ whose[r] # None /\ Mine(r) < IdentityLimit /\ All(r) = GlobalLimit
  /\ Decide(r, "global_daily_limit")
  /\ UNCHANGED <<day, whose, aim, paid, rows, marks>>

FailToReserve(r) ==
  /\ whose[r] # None /\ r \notin paid
  /\ \E how \in {"ledger_unavailable", "raised"} : Decide(r, how)
  /\ UNCHANGED <<day, whose, aim, paid, rows, marks>>

Keep(a) ==
  /\ a \notin rows
  /\ rows' = rows \cup {a}
  /\ Decide(a, "recorded")
  /\ UNCHANGED <<day, whose, aim, paid, marks>>

Lose(a) ==
  /\ a \notin rows
  /\ Decide(a, "failed")
  /\ UNCHANGED <<day, whose, aim, paid, rows, marks>>

Aim(m, a) ==
  /\ aim[m] = None /\ told[m] = None
  /\ a \in rows /\ told[a] = "recorded"
  /\ aim' = [aim EXCEPT ![m] = a]
  /\ UNCHANGED <<day, whose, paid, rows, marks, told>>

Attach(m) ==
  /\ aim[m] \in rows /\ m \notin marks
  /\ marks' = marks \cup {m}
  /\ Decide(m, "stored")
  /\ UNCHANGED <<day, whose, aim, paid, rows>>

FindNothing(m) ==
  /\ aim[m] = None
  /\ Decide(m, "unknown_ask")
  /\ UNCHANGED <<day, whose, aim, paid, rows, marks>>

FailToMark(m) ==
  /\ m \notin marks
  /\ Decide(m, "raised")
  /\ UNCHANGED <<day, whose, aim, paid, rows, marks>>

Next ==
  \/ \E r \in Reservers, d \in Days, i \in Identities : Ask(r, d, i)
  \/ \E r \in Reservers :
       Allow(r) \/ RefuseIdentity(r) \/ RefuseGlobal(r) \/ FailToReserve(r)
  \/ \E a \in Recorders : Keep(a) \/ Lose(a)
  \/ \E m \in Markers, a \in Recorders : Aim(m, a)
  \/ \E m \in Markers : Attach(m) \/ FindNothing(m) \/ FailToMark(m)

Spec == Init /\ [][Next]_promise
=============================================================================
