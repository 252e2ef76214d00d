------------------------- MODULE HistoryStoreProofs -------------------------
(***************************************************************************)
(* Theorems about HistoryStore: for every number of requests, identities,  *)
(* days and restarts, and every pair of limits, the daily ceiling holds,   *)
(* a question is paid for exactly when it was allowed, a refusal names the *)
(* ceiling that fired, and what was acknowledged is durable.               *)
(*                                                                         *)
(* The argument: _write_lock is held by exactly the call that is inside    *)
(* its `with` (Exclusion), so the room that Admit saw is still there when  *)
(* its increment commits (Room), although other calls have run since.      *)
(*                                                                         *)
(* Each call is then one step of StorePromise and stutters otherwise; a    *)
(* call moves in one direction only (Onward); and what degraded() reports  *)
(* is right in the executions where no two calls are between their         *)
(* transaction and the flag (LastWriteFlagged).                            *)
(***************************************************************************)
EXTENDS HistoryStore, FiniteSetTheorems, TLAPS

OnDay(d) == {r \in ledger : stamp[r] = d}
OnDayBy(d, i) == {r \in ledger : stamp[r] = d /\ who[r] = i}

\* The lock belongs to the one call that is between Enter and Leave.
Exclusion == \A c \in Calls : pc[c] \in Holding <=> lock = c

\* Until it commits a reservation is not in the ledger; from then on it is
\* there exactly when it was allowed.
Charged ==
  \A r \in Reservers :
    /\ pc[r] \in {"idle", "waiting", "opening", "body", "committing"} => r \notin ledger
    /\ pc[r] \in {"leaving", "done"} => (r \in ledger <=> result[r] = "allowed")

\* Between the check and the commit there is room for one more.
Room ==
  \A r \in Reservers : pc[r] = "committing" =>
    /\ Count(stamp[r], who[r]) + 1 <= IdentityLimit
    /\ Total(stamp[r]) + 1 <= GlobalLimit

\* BlameIsRight from the moment of the decision.
Blame ==
  \A r \in Reservers : pc[r] \in {"leaving", "done"} =>
    /\ result[r] = "identity_daily_limit" =>
         Count(stamp[r], who[r]) = IdentityLimit
    /\ result[r] = "global_daily_limit" =>
         /\ Total(stamp[r]) = GlobalLimit
         /\ Count(stamp[r], who[r]) < IdentityLimit

\* A reservation that has been made names an identity and a day.
Stamped == \A r \in Reservers : pc[r] \notin {"idle", "died"} => who[r] \in Identities

\* What a recorder says of its row, and a marker of its own and its target's.
Durable ==
  /\ \A a \in Recorders :
       pc[a] \in {"leaving", "flagging", "done"} /\ result[a] = "recorded" => a \in asks
  /\ \A m \in Markers :
       /\ pc[m] # "idle" => target[m] = None \/ target[m] \in asks
       /\ pc[m] \in {"leaving", "done"} =>
            /\ result[m] = "unknown_ask" => target[m] = None
            /\ result[m] = "stored" => m \in marks /\ target[m] \in asks
       /\ pc[m] = "committing" => target[m] \in asks

IInv ==
  /\ TypeOK /\ Exclusion /\ Charged /\ Room /\ CeilingHolds /\ Blame /\ Stamped
  /\ Durable

----------------------------------------------------------------------------
(* The parts of the invariant that do not count: one step per action.      *)

\* A step keeps every variable in its type.
LEMMA TypePreserved ==
  ASSUME TypeOK, [Next]_vars
  PROVE  TypeOK'
<1> USE StoreAssumption DEF TypeOK, Limits, Results, ResultsOf, Sites, Calls, vars,
       inputs, durable, health, Goto, Conclude
<1>1. ASSUME NEW r \in Reservers, NEW i \in Identities, Reserve(r, i)
       PROVE TypeOK'
  BY <1>1 DEF Reserve
<1>2. ASSUME NEW a \in Recorders, Record(a) PROVE TypeOK'
  BY <1>2 DEF Record
<1>3. ASSUME NEW m \in Markers, NEW a \in Recorders \cup {None}, Mark(m, a)
       PROVE TypeOK'
  BY <1>3 DEF Mark, Returned
<1>4. ASSUME NEW c \in Calls, Enter(c) PROVE TypeOK'
  BY <1>4 DEF Enter
<1>5. ASSUME NEW c \in Calls, Open(c) PROVE TypeOK'
  BY <1>5 DEF Open
<1>6. ASSUME NEW c \in Calls, OpenFails(c) PROVE TypeOK'
  <2>1. /\ pc' \in [Calls -> Sites]
        /\ result' \in [Calls -> Results \cup {None}]
        /\ \A d \in Calls : result'[d] \in ResultsOf(d) \cup {None}
    BY <1>6 DEF OpenFails, OpenFailure, Failure, Fail
  <2>2. failed' \in BOOLEAN
    BY <1>6 DEF OpenFails, OpenFailure, Failure, Fail
  <2>3. UNCHANGED <<lock, today, stamp, who, target, ledger, asks, marks, degraded,
                    restarts>>
    BY <1>6 DEF OpenFails, OpenFailure, Failure, Fail
  <2> QED
    BY <2>1, <2>2, <2>3
<1>7. ASSUME NEW c \in Calls, StatementFails(c) PROVE TypeOK'
  <2>1. /\ pc' \in [Calls -> Sites]
        /\ result' \in [Calls -> Results \cup {None}]
        /\ \A d \in Calls : result'[d] \in ResultsOf(d) \cup {None}
    BY <1>7 DEF StatementFails, Failure, Fail
  <2>2. failed' \in BOOLEAN
    BY <1>7 DEF StatementFails, Failure, Fail
  <2>3. UNCHANGED <<lock, today, stamp, who, target, ledger, asks, marks, degraded,
                    restarts>>
    BY <1>7 DEF StatementFails, Failure, Fail
  <2> QED
    BY <2>1, <2>2, <2>3
<1>8. ASSUME NEW c \in Calls, Leave(c) PROVE TypeOK'
  BY <1>8 DEF Leave
<1>9. ASSUME NEW r \in Reservers, RefuseIdentity(r) PROVE TypeOK'
  BY <1>9 DEF RefuseIdentity
<1>10. ASSUME NEW r \in Reservers, RefuseGlobal(r) PROVE TypeOK'
  BY <1>10 DEF RefuseGlobal
<1>11. ASSUME NEW r \in Reservers, Admit(r) PROVE TypeOK'
  BY <1>11 DEF Admit
<1>12. ASSUME NEW r \in Reservers, CommitReservation(r) PROVE TypeOK'
  BY <1>12 DEF CommitReservation
<1>13. ASSUME NEW a \in Recorders, Write(a) PROVE TypeOK'
  BY <1>13 DEF Write
<1>14. ASSUME NEW a \in Recorders, CommitAsk(a) PROVE TypeOK'
  <2>1. /\ pc' \in [Calls -> Sites]
        /\ result' \in [Calls -> Results \cup {None}]
        /\ \A d \in Calls : result'[d] \in ResultsOf(d) \cup {None}
    BY <1>14 DEF CommitAsk
  <2>2. asks' \subseteq Recorders /\ failed' \in BOOLEAN
    BY <1>14 DEF CommitAsk
  <2> QED
    BY <1>14, <2>1, <2>2 DEF CommitAsk
<1>15. ASSUME NEW a \in Recorders, Flag(a) PROVE TypeOK'
  BY <1>15 DEF Flag
<1>16. ASSUME NEW m \in Markers, RefuseUnknown(m) PROVE TypeOK'
  BY <1>16 DEF RefuseUnknown
<1>17. ASSUME NEW m \in Markers, Attach(m) PROVE TypeOK'
  BY <1>17 DEF Attach
<1>18. ASSUME NEW m \in Markers, CommitMark(m) PROVE TypeOK'
  BY <1>18 DEF CommitMark
<1>19. ASSUME Midnight PROVE TypeOK'
  BY <1>19 DEF Midnight, Days
<1>20. ASSUME Restart PROVE TypeOK'
  <2>1. pc' \in [Calls -> Sites]
    BY <1>20 DEF Restart
  <2>2. restarts' \in 0..MaxRestarts
    BY <1>20 DEF Restart
  <2>3. lock' = None /\ degraded' = FALSE /\ failed' = FALSE
    BY <1>20 DEF Restart
  <2>4. UNCHANGED <<today, stamp, who, target, result, ledger, asks, marks>>
    BY <1>20 DEF Restart
  <2> QED
    BY <2>1, <2>2, <2>3, <2>4
<1>21. ASSUME UNCHANGED vars PROVE TypeOK'
  BY <1>21
<1> QED
  BY <1>1, <1>2, <1>3, <1>4, <1>5, <1>6, <1>7, <1>8, <1>9, <1>10, <1>11, <1>12,
       <1>13, <1>14, <1>15, <1>16, <1>17, <1>18, <1>19, <1>20, <1>21
  DEF Next, Step, ReserverStep, RecorderStep, MarkerStep

\* Only the call that holds the lock is inside its `with`.
LEMMA ExclusionPreserved ==
  ASSUME TypeOK, Exclusion, [Next]_vars
  PROVE  Exclusion'
<1> USE StoreAssumption DEF TypeOK, Exclusion, Holding, Calls, vars, inputs,
       durable, health, Goto, Conclude
<1>1. ASSUME NEW r \in Reservers, NEW i \in Identities, Reserve(r, i)
       PROVE Exclusion'
  BY <1>1 DEF Reserve
<1>2. ASSUME NEW a \in Recorders, Record(a) PROVE Exclusion'
  BY <1>2 DEF Record
<1>3. ASSUME NEW m \in Markers, NEW a \in Recorders \cup {None}, Mark(m, a)
       PROVE Exclusion'
  BY <1>3 DEF Mark, Returned
<1>4. ASSUME NEW c \in Calls, Enter(c) PROVE Exclusion'
  BY <1>4 DEF Enter
<1>5. ASSUME NEW c \in Calls, Open(c) PROVE Exclusion'
  BY <1>5 DEF Open
<1>6. ASSUME NEW c \in Calls, OpenFails(c) PROVE Exclusion'
  BY <1>6 DEF OpenFails, OpenFailure, Failure, Fail
<1>7. ASSUME NEW c \in Calls, StatementFails(c) PROVE Exclusion'
  BY <1>7 DEF StatementFails, Failure, Fail
<1>8. ASSUME NEW c \in Calls, Leave(c) PROVE Exclusion'
  BY <1>8 DEF Leave
<1>9. ASSUME NEW r \in Reservers, RefuseIdentity(r) PROVE Exclusion'
  BY <1>9 DEF RefuseIdentity
<1>10. ASSUME NEW r \in Reservers, RefuseGlobal(r) PROVE Exclusion'
  BY <1>10 DEF RefuseGlobal
<1>11. ASSUME NEW r \in Reservers, Admit(r) PROVE Exclusion'
  BY <1>11 DEF Admit
<1>12. ASSUME NEW r \in Reservers, CommitReservation(r) PROVE Exclusion'
  BY <1>12 DEF CommitReservation
<1>13. ASSUME NEW a \in Recorders, Write(a) PROVE Exclusion'
  BY <1>13 DEF Write
<1>14. ASSUME NEW a \in Recorders, CommitAsk(a) PROVE Exclusion'
  BY <1>14 DEF CommitAsk
<1>15. ASSUME NEW a \in Recorders, Flag(a) PROVE Exclusion'
  BY <1>15 DEF Flag
<1>16. ASSUME NEW m \in Markers, RefuseUnknown(m) PROVE Exclusion'
  BY <1>16 DEF RefuseUnknown
<1>17. ASSUME NEW m \in Markers, Attach(m) PROVE Exclusion'
  BY <1>17 DEF Attach
<1>18. ASSUME NEW m \in Markers, CommitMark(m) PROVE Exclusion'
  BY <1>18 DEF CommitMark
<1>19. ASSUME Midnight PROVE Exclusion'
  BY <1>19 DEF Midnight, Days
<1>20. ASSUME Restart PROVE Exclusion'
  BY <1>20 DEF Restart
<1>21. ASSUME UNCHANGED vars PROVE Exclusion'
  BY <1>21
<1> QED
  BY <1>1, <1>2, <1>3, <1>4, <1>5, <1>6, <1>7, <1>8, <1>9, <1>10, <1>11, <1>12,
       <1>13, <1>14, <1>15, <1>16, <1>17, <1>18, <1>19, <1>20, <1>21
  DEF Next, Step, ReserverStep, RecorderStep, MarkerStep

\* A step charges a reservation only as it is allowed.
LEMMA ChargedPreserved ==
  ASSUME TypeOK, Charged, [Next]_vars
  PROVE  Charged'
<1> USE StoreAssumption DEF TypeOK, Charged, Limits, Results, ResultsOf, Calls,
       vars, inputs, durable, health, Goto, Conclude
<1>1. ASSUME NEW r \in Reservers, NEW i \in Identities, Reserve(r, i)
       PROVE Charged'
  BY <1>1 DEF Reserve
<1>2. ASSUME NEW a \in Recorders, Record(a) PROVE Charged'
  BY <1>2 DEF Record
<1>3. ASSUME NEW m \in Markers, NEW a \in Recorders \cup {None}, Mark(m, a)
       PROVE Charged'
  BY <1>3 DEF Mark, Returned
<1>4. ASSUME NEW c \in Calls, Enter(c) PROVE Charged'
  BY <1>4 DEF Enter
<1>5. ASSUME NEW c \in Calls, Open(c) PROVE Charged'
  BY <1>5 DEF Open
<1>6. ASSUME NEW c \in Calls, OpenFails(c) PROVE Charged'
  BY <1>6 DEF OpenFails, OpenFailure, Failure, Fail
<1>7. ASSUME NEW c \in Calls, StatementFails(c) PROVE Charged'
  BY <1>7 DEF StatementFails, Failure, Fail
<1>8. ASSUME NEW c \in Calls, Leave(c) PROVE Charged'
  BY <1>8 DEF Leave
<1>9. ASSUME NEW r \in Reservers, RefuseIdentity(r) PROVE Charged'
  BY <1>9 DEF RefuseIdentity
<1>10. ASSUME NEW r \in Reservers, RefuseGlobal(r) PROVE Charged'
  BY <1>10 DEF RefuseGlobal
<1>11. ASSUME NEW r \in Reservers, Admit(r) PROVE Charged'
  BY <1>11 DEF Admit
<1>12. ASSUME NEW r \in Reservers, CommitReservation(r) PROVE Charged'
  BY <1>12 DEF CommitReservation
<1>13. ASSUME NEW a \in Recorders, Write(a) PROVE Charged'
  BY <1>13 DEF Write
<1>14. ASSUME NEW a \in Recorders, CommitAsk(a) PROVE Charged'
  BY <1>14 DEF CommitAsk
<1>15. ASSUME NEW a \in Recorders, Flag(a) PROVE Charged'
  BY <1>15 DEF Flag
<1>16. ASSUME NEW m \in Markers, RefuseUnknown(m) PROVE Charged'
  BY <1>16 DEF RefuseUnknown
<1>17. ASSUME NEW m \in Markers, Attach(m) PROVE Charged'
  BY <1>17 DEF Attach
<1>18. ASSUME NEW m \in Markers, CommitMark(m) PROVE Charged'
  BY <1>18 DEF CommitMark
<1>19. ASSUME Midnight PROVE Charged'
  BY <1>19 DEF Midnight, Days
<1>20. ASSUME Restart PROVE Charged'
  BY <1>20 DEF Restart
<1>21. ASSUME UNCHANGED vars PROVE Charged'
  BY <1>21
<1> QED
  BY <1>1, <1>2, <1>3, <1>4, <1>5, <1>6, <1>7, <1>8, <1>9, <1>10, <1>11, <1>12,
       <1>13, <1>14, <1>15, <1>16, <1>17, <1>18, <1>19, <1>20, <1>21
  DEF Next, Step, ReserverStep, RecorderStep, MarkerStep

\* A step keeps the identity of every reservation made.
LEMMA StampedPreserved ==
  ASSUME TypeOK, Stamped, [Next]_vars
  PROVE  Stamped'
<1> USE StoreAssumption DEF TypeOK, Stamped, Calls, vars, inputs, durable, health,
       Goto, Conclude
<1>1. ASSUME NEW r \in Reservers, NEW i \in Identities, Reserve(r, i)
       PROVE Stamped'
  BY <1>1 DEF Reserve
<1>2. ASSUME NEW a \in Recorders, Record(a) PROVE Stamped'
  BY <1>2 DEF Record
<1>3. ASSUME NEW m \in Markers, NEW a \in Recorders \cup {None}, Mark(m, a)
       PROVE Stamped'
  BY <1>3 DEF Mark, Returned
<1>4. ASSUME NEW c \in Calls, Enter(c) PROVE Stamped'
  BY <1>4 DEF Enter
<1>5. ASSUME NEW c \in Calls, Open(c) PROVE Stamped'
  BY <1>5 DEF Open
<1>6. ASSUME NEW c \in Calls, OpenFails(c) PROVE Stamped'
  BY <1>6 DEF OpenFails, OpenFailure, Failure, Fail
<1>7. ASSUME NEW c \in Calls, StatementFails(c) PROVE Stamped'
  BY <1>7 DEF StatementFails, Failure, Fail
<1>8. ASSUME NEW c \in Calls, Leave(c) PROVE Stamped'
  BY <1>8 DEF Leave
<1>9. ASSUME NEW r \in Reservers, RefuseIdentity(r) PROVE Stamped'
  BY <1>9 DEF RefuseIdentity
<1>10. ASSUME NEW r \in Reservers, RefuseGlobal(r) PROVE Stamped'
  BY <1>10 DEF RefuseGlobal
<1>11. ASSUME NEW r \in Reservers, Admit(r) PROVE Stamped'
  BY <1>11 DEF Admit
<1>12. ASSUME NEW r \in Reservers, CommitReservation(r) PROVE Stamped'
  BY <1>12 DEF CommitReservation
<1>13. ASSUME NEW a \in Recorders, Write(a) PROVE Stamped'
  BY <1>13 DEF Write
<1>14. ASSUME NEW a \in Recorders, CommitAsk(a) PROVE Stamped'
  BY <1>14 DEF CommitAsk
<1>15. ASSUME NEW a \in Recorders, Flag(a) PROVE Stamped'
  BY <1>15 DEF Flag
<1>16. ASSUME NEW m \in Markers, RefuseUnknown(m) PROVE Stamped'
  BY <1>16 DEF RefuseUnknown
<1>17. ASSUME NEW m \in Markers, Attach(m) PROVE Stamped'
  BY <1>17 DEF Attach
<1>18. ASSUME NEW m \in Markers, CommitMark(m) PROVE Stamped'
  BY <1>18 DEF CommitMark
<1>19. ASSUME Midnight PROVE Stamped'
  BY <1>19 DEF Midnight, Days
<1>20. ASSUME Restart PROVE Stamped'
  BY <1>20 DEF Restart
<1>21. ASSUME UNCHANGED vars PROVE Stamped'
  BY <1>21
<1> QED
  BY <1>1, <1>2, <1>3, <1>4, <1>5, <1>6, <1>7, <1>8, <1>9, <1>10, <1>11, <1>12,
       <1>13, <1>14, <1>15, <1>16, <1>17, <1>18, <1>19, <1>20, <1>21
  DEF Next, Step, ReserverStep, RecorderStep, MarkerStep

\* A step never takes back a row it has acknowledged.
LEMMA DurablePreserved ==
  ASSUME TypeOK, Durable, [Next]_vars
  PROVE  Durable'
<1> USE StoreAssumption DEF TypeOK, Durable, Calls, vars, inputs, durable, health,
       Goto, Conclude
<1>1. ASSUME NEW r \in Reservers, NEW i \in Identities, Reserve(r, i)
       PROVE Durable'
  BY <1>1 DEF Reserve
<1>2. ASSUME NEW a \in Recorders, Record(a) PROVE Durable'
  BY <1>2 DEF Record
<1>3. ASSUME NEW m \in Markers, NEW a \in Recorders \cup {None}, Mark(m, a)
       PROVE Durable'
  BY <1>3 DEF Mark, Returned
<1>4. ASSUME NEW c \in Calls, Enter(c) PROVE Durable'
  BY <1>4 DEF Enter
<1>5. ASSUME NEW c \in Calls, Open(c) PROVE Durable'
  BY <1>5 DEF Open
<1>6. ASSUME NEW c \in Calls, OpenFails(c) PROVE Durable'
  BY <1>6 DEF OpenFails, OpenFailure, Failure, Fail
<1>7. ASSUME NEW c \in Calls, StatementFails(c) PROVE Durable'
  BY <1>7 DEF StatementFails, Failure, Fail
<1>8. ASSUME NEW c \in Calls, Leave(c) PROVE Durable'
  BY <1>8 DEF Leave
<1>9. ASSUME NEW r \in Reservers, RefuseIdentity(r) PROVE Durable'
  BY <1>9 DEF RefuseIdentity
<1>10. ASSUME NEW r \in Reservers, RefuseGlobal(r) PROVE Durable'
  BY <1>10 DEF RefuseGlobal
<1>11. ASSUME NEW r \in Reservers, Admit(r) PROVE Durable'
  BY <1>11 DEF Admit
<1>12. ASSUME NEW r \in Reservers, CommitReservation(r) PROVE Durable'
  BY <1>12 DEF CommitReservation
<1>13. ASSUME NEW a \in Recorders, Write(a) PROVE Durable'
  BY <1>13 DEF Write
<1>14. ASSUME NEW a \in Recorders, CommitAsk(a) PROVE Durable'
  BY <1>14 DEF CommitAsk
<1>15. ASSUME NEW a \in Recorders, Flag(a) PROVE Durable'
  BY <1>15 DEF Flag
<1>16. ASSUME NEW m \in Markers, RefuseUnknown(m) PROVE Durable'
  BY <1>16 DEF RefuseUnknown
<1>17. ASSUME NEW m \in Markers, Attach(m) PROVE Durable'
  BY <1>17 DEF Attach
<1>18. ASSUME NEW m \in Markers, CommitMark(m) PROVE Durable'
  BY <1>18 DEF CommitMark
<1>19. ASSUME Midnight PROVE Durable'
  BY <1>19 DEF Midnight, Days
<1>20. ASSUME Restart PROVE Durable'
  BY <1>20 DEF Restart
<1>21. ASSUME UNCHANGED vars PROVE Durable'
  <2>1. UNCHANGED <<pc, result, target, asks, marks>>
    BY <1>21
  <2> QED
    BY <2>1
<1> QED
  BY <1>1, <1>2, <1>3, <1>4, <1>5, <1>6, <1>7, <1>8, <1>9, <1>10, <1>11, <1>12,
       <1>13, <1>14, <1>15, <1>16, <1>17, <1>18, <1>19, <1>20, <1>21
  DEF Next, Step, ReserverStep, RecorderStep, MarkerStep

----------------------------------------------------------------------------
(* Counting.                                                               *)

\* The counts of any day are natural numbers.
LEMMA CountsAreNatural ==
  ASSUME TypeOK, NEW d, NEW i
  PROVE  Total(d) \in Nat /\ Count(d, i) \in Nat
<1>1. IsFiniteSet({r \in ledger : stamp[r] = d})
  BY FS_Subset, StoreAssumption DEF TypeOK
<1>2. IsFiniteSet({r \in ledger : stamp[r] = d /\ who[r] = i})
  BY FS_Subset, StoreAssumption DEF TypeOK
<1> QED
  BY <1>1, <1>2, FS_CardinalityType DEF Total, Count

\* A reservation that is only being made is not in the ledger, so the date and
\* identity it takes change no count.
LEMMA ReservingCountsNothing ==
  ASSUME TypeOK, Charged, NEW r \in Reservers, NEW i \in Identities, Reserve(r, i),
         NEW d, NEW j
  PROVE  Total(d)' = Total(d) /\ Count(d, j)' = Count(d, j)
<1>1. r \notin ledger /\ ledger' = ledger
  BY DEF Charged, Reserve, Goto, durable
<1>2. \A q \in ledger : stamp'[q] = stamp[q] /\ who'[q] = who[q]
  BY <1>1 DEF Reserve, TypeOK
<1>3. {q \in ledger' : stamp'[q] = d} = {q \in ledger : stamp[q] = d}
  BY <1>1, <1>2
<1>4. {q \in ledger' : stamp'[q] = d /\ who'[q] = j}
        = {q \in ledger : stamp[q] = d /\ who[q] = j}
  BY <1>1, <1>2
<1> QED
  BY <1>3, <1>4 DEF Total, Count

\* A commit adds one to its own day and identity and nothing to any other.
LEMMA CommittingCountsOne ==
  ASSUME TypeOK, Charged, NEW r \in Reservers, CommitReservation(r), NEW d, NEW j
  PROVE  /\ Total(d)' = IF d = stamp[r] THEN Total(d) + 1 ELSE Total(d)
         /\ Count(d, j)' = IF d = stamp[r] /\ j = who[r] THEN Count(d, j) + 1
                           ELSE Count(d, j)
<1> DEFINE T == {q \in ledger : stamp[q] = d}
           C == {q \in ledger : stamp[q] = d /\ who[q] = j}
<1>1. r \notin ledger /\ ledger' = ledger \cup {r} /\ stamp' = stamp /\ who' = who
  BY DEF Charged, CommitReservation, Goto, inputs
<1>2. IsFiniteSet(T) /\ IsFiniteSet(C)
  BY FS_Subset, StoreAssumption DEF TypeOK
<1>3. {q \in ledger' : stamp'[q] = d} = IF d = stamp[r] THEN T \cup {r} ELSE T
  BY <1>1
<1>4. {q \in ledger' : stamp'[q] = d /\ who'[q] = j}
        = IF d = stamp[r] /\ j = who[r] THEN C \cup {r} ELSE C
  BY <1>1
<1>5. r \notin T /\ r \notin C
  BY <1>1
<1>6. Cardinality(T \cup {r}) = Cardinality(T) + 1 /\ Cardinality(C \cup {r}) = Cardinality(C) + 1
  BY <1>2, <1>5, FS_AddElement
<1> QED
  BY <1>3, <1>4, <1>6 DEF Total, Count

\* Every other step leaves the counts alone.
LEMMA OthersCountNothing ==
  ASSUME UNCHANGED <<ledger, stamp, who>>, NEW d, NEW j
  PROVE  Total(d)' = Total(d) /\ Count(d, j)' = Count(d, j)
BY DEF Total, Count

\* The ceiling, the room of the one call about to commit, and the blame of every
\* refusal, kept together: a commit is the only step that counts, it had room for
\* one, and no other call can be committing.
LEMMA CeilingPreserved ==
  ASSUME IInv, [Next]_vars
  PROVE  (Room /\ CeilingHolds /\ Blame)'
<1> USE StoreAssumption DEF IInv, TypeOK, Exclusion, Room, CeilingHolds, Blame,
       Stamped, Holding, Limits, Calls, vars, inputs, durable, health, Goto, Conclude
<1>1. ASSUME NEW r \in Reservers, NEW i \in Identities, Reserve(r, i)
       PROVE (Room /\ CeilingHolds /\ Blame)'
  <2>1. UNCHANGED ledger /\ \A q \in Reservers \ {r} : stamp'[q] = stamp[q] /\ who'[q] = who[q]
    BY <1>1 DEF Reserve
  <2>2. \A q \in Reservers : pc'[q] \in {"committing", "leaving", "done"} =>
          /\ q # r /\ pc[q] = pc'[q] /\ result'[q] = result[q]
          /\ stamp'[q] = stamp[q] /\ who'[q] = who[q]
    BY <1>1 DEF Reserve
  <2>3. \A d, j : Total(d)' = Total(d) /\ Count(d, j)' = Count(d, j)
    BY <1>1, ReservingCountsNothing
  <2> QED
    BY <2>2, <2>3
<1>2. ASSUME NEW a \in Recorders, Record(a)
       PROVE (Room /\ CeilingHolds /\ Blame)'
  BY <1>2, OthersCountNothing DEF Record
<1>3. ASSUME NEW m \in Markers, NEW a \in Recorders \cup {None}, Mark(m, a)
       PROVE (Room /\ CeilingHolds /\ Blame)'
  BY <1>3, OthersCountNothing DEF Mark, Returned
<1>4. ASSUME NEW c \in Calls, Enter(c) PROVE (Room /\ CeilingHolds /\ Blame)'
  BY <1>4, OthersCountNothing DEF Enter
<1>5. ASSUME NEW c \in Calls, Open(c) PROVE (Room /\ CeilingHolds /\ Blame)'
  BY <1>5, OthersCountNothing DEF Open
<1>6. ASSUME NEW c \in Calls, OpenFails(c)
       PROVE (Room /\ CeilingHolds /\ Blame)'
  BY <1>6, OthersCountNothing DEF OpenFails, OpenFailure, Failure, Fail
<1>7. ASSUME NEW c \in Calls, StatementFails(c)
       PROVE (Room /\ CeilingHolds /\ Blame)'
  BY <1>7, OthersCountNothing DEF StatementFails, Failure, Fail
<1>8. ASSUME NEW c \in Calls, Leave(c) PROVE (Room /\ CeilingHolds /\ Blame)'
  BY <1>8, OthersCountNothing DEF Leave
<1>9. ASSUME NEW r \in Reservers, RefuseIdentity(r)
       PROVE (Room /\ CeilingHolds /\ Blame)'
  <2>1. Total(stamp[r]) \in Nat /\ Count(stamp[r], who[r]) \in Nat
    BY CountsAreNatural
  <2>2. Count(stamp[r], who[r]) = IdentityLimit
    BY <1>9, <2>1 DEF RefuseIdentity
  <2>3. \A d, j : Total(d)' = Total(d) /\ Count(d, j)' = Count(d, j)
    BY <1>9, OthersCountNothing DEF RefuseIdentity
  <2>4. /\ UNCHANGED <<stamp, who>> /\ result'[r] = "identity_daily_limit"
        /\ \A q \in Reservers \ {r} : pc'[q] = pc[q] /\ result'[q] = result[q]
        /\ pc'[r] = "leaving"
    BY <1>9 DEF RefuseIdentity
  <2> QED
    BY <2>2, <2>3, <2>4
<1>10. ASSUME NEW r \in Reservers, RefuseGlobal(r)
       PROVE (Room /\ CeilingHolds /\ Blame)'
  <2>1. Total(stamp[r]) \in Nat /\ Count(stamp[r], who[r]) \in Nat
    BY CountsAreNatural
  <2>2. Total(stamp[r]) = GlobalLimit /\ Count(stamp[r], who[r]) < IdentityLimit
    BY <1>10, <2>1 DEF RefuseGlobal
  <2>3. \A d, j : Total(d)' = Total(d) /\ Count(d, j)' = Count(d, j)
    BY <1>10, OthersCountNothing DEF RefuseGlobal
  <2>4. /\ UNCHANGED <<stamp, who>> /\ result'[r] = "global_daily_limit"
        /\ \A q \in Reservers \ {r} : pc'[q] = pc[q] /\ result'[q] = result[q]
        /\ pc'[r] = "leaving"
    BY <1>10 DEF RefuseGlobal
  <2> QED
    BY <2>2, <2>3, <2>4
<1>11. ASSUME NEW r \in Reservers, Admit(r)
       PROVE (Room /\ CeilingHolds /\ Blame)'
  BY <1>11, OthersCountNothing DEF Admit
<1>12. ASSUME NEW r \in Reservers, CommitReservation(r)
       PROVE (Room /\ CeilingHolds /\ Blame)'
  <2>1. \A d, j : Total(d) \in Nat /\ Count(d, j) \in Nat
    BY CountsAreNatural
  <2>2. \A d, j :
          /\ Total(d)' = IF d = stamp[r] THEN Total(d) + 1 ELSE Total(d)
          /\ Count(d, j)' = IF d = stamp[r] /\ j = who[r] THEN Count(d, j) + 1
                            ELSE Count(d, j)
    BY <1>12, CommittingCountsOne
  <2>3. /\ UNCHANGED <<stamp, who>> /\ result'[r] = "allowed" /\ pc'[r] = "leaving"
        /\ \A q \in Reservers \ {r} : pc'[q] = pc[q] /\ result'[q] = result[q]
        /\ pc[r] = "committing" /\ stamp[r] \in Days
    BY <1>12 DEF CommitReservation
  <2>4. \A q \in Reservers : pc[q] = "committing" => q = r
    BY <2>3
  <2>5. /\ Count(stamp[r], who[r]) + 1 <= IdentityLimit
        /\ Total(stamp[r]) + 1 <= GlobalLimit
    BY <2>3
  <2>6. Room'
    BY <2>3, <2>4
  <2>7. CeilingHolds'
    BY <2>1, <2>2, <2>5
  <2>8. Blame'
    <3>1. ASSUME NEW q \in Reservers, pc'[q] \in {"leaving", "done"}, q # r,
                 result[q] = "identity_daily_limit"
          PROVE  Count(stamp[q], who[q])' = IdentityLimit
      <4>1. Count(stamp[q], who[q]) = IdentityLimit
        BY <2>3, <3>1
      <4>2. ~(stamp[q] = stamp[r] /\ who[q] = who[r])
        BY <2>1, <2>5, <4>1
      <4> QED
        BY <2>2, <2>3, <4>1, <4>2
    <3>2. ASSUME NEW q \in Reservers, pc'[q] \in {"leaving", "done"}, q # r,
                 result[q] = "global_daily_limit"
          PROVE  Total(stamp[q])' = GlobalLimit /\ Count(stamp[q],
       who[q])' < IdentityLimit
      <4>1. Total(stamp[q]) = GlobalLimit /\ Count(stamp[q], who[q]) < IdentityLimit
        BY <2>3, <3>2
      <4>2. stamp[q] # stamp[r]
        BY <2>1, <2>5, <4>1
      <4> QED
        BY <2>2, <2>3, <4>1, <4>2
    <3> QED
      BY <2>3, <3>1, <3>2
  <2> QED
    BY <2>6, <2>7, <2>8
<1>13. ASSUME NEW a \in Recorders, Write(a)
       PROVE (Room /\ CeilingHolds /\ Blame)'
  BY <1>13, OthersCountNothing DEF Write
<1>14. ASSUME NEW a \in Recorders, CommitAsk(a)
       PROVE (Room /\ CeilingHolds /\ Blame)'
  BY <1>14, OthersCountNothing DEF CommitAsk
<1>15. ASSUME NEW a \in Recorders, Flag(a)
       PROVE (Room /\ CeilingHolds /\ Blame)'
  BY <1>15, OthersCountNothing DEF Flag
<1>16. ASSUME NEW m \in Markers, RefuseUnknown(m)
       PROVE (Room /\ CeilingHolds /\ Blame)'
  BY <1>16, OthersCountNothing DEF RefuseUnknown
<1>17. ASSUME NEW m \in Markers, Attach(m)
       PROVE (Room /\ CeilingHolds /\ Blame)'
  BY <1>17, OthersCountNothing DEF Attach
<1>18. ASSUME NEW m \in Markers, CommitMark(m)
       PROVE (Room /\ CeilingHolds /\ Blame)'
  BY <1>18, OthersCountNothing DEF CommitMark
<1>19. ASSUME Midnight PROVE (Room /\ CeilingHolds /\ Blame)'
  BY <1>19, OthersCountNothing DEF Midnight, Days
<1>20. ASSUME Restart PROVE (Room /\ CeilingHolds /\ Blame)'
  BY <1>20, OthersCountNothing DEF Restart
<1>21. ASSUME UNCHANGED vars PROVE (Room /\ CeilingHolds /\ Blame)'
  BY <1>21, OthersCountNothing
<1> QED
  BY <1>1, <1>2, <1>3, <1>4, <1>5, <1>6, <1>7, <1>8, <1>9, <1>10, <1>11, <1>12,
       <1>13, <1>14, <1>15, <1>16, <1>17, <1>18, <1>19, <1>20, <1>21
  DEF Next, Step, ReserverStep, RecorderStep, MarkerStep

----------------------------------------------------------------------------
(* The theorems.                                                           *)

\* The invariant holds at the start,
LEMMA InitEstablishes == Init => IInv
<1> SUFFICES ASSUME Init PROVE IInv
  OBVIOUS
<1> USE StoreAssumption DEF Init, Calls
<1>1. TypeOK
  <2>1. 0 \in Days /\ 0 \in 0..MaxRestarts
    BY DEF Days
  <2>2. /\ pc \in [Calls -> Sites] /\ lock = None
        /\ result \in [Calls -> Results \cup {None}]
        /\ \A c \in Calls : result[c] \in ResultsOf(c) \cup {None}
    BY DEF Sites
  <2>3. /\ who \in [Reservers -> Identities \cup {None}]
        /\ target \in [Markers -> Recorders \cup {None}]
    OBVIOUS
  <2>4. stamp \in [Reservers -> Days]
    BY <2>1
  <2> QED
    BY <2>1, <2>2, <2>3, <2>4 DEF TypeOK
<1>2. Exclusion /\ Charged /\ Stamped /\ Durable
  BY DEF Exclusion, Holding, Charged, Stamped, Durable
<1>3. Room /\ Blame
  BY DEF Room, Blame
<1>4. ASSUME NEW d, NEW i PROVE Total(d) = 0 /\ Count(d, i) = 0
  <2>1. {r \in ledger : stamp[r] = d} = {} /\ {r \in ledger : stamp[r] = d /\ who[r] = i} = {}
    OBVIOUS
  <2> QED
    BY <2>1, FS_EmptySet DEF Total, Count
<1>5. CeilingHolds
  BY <1>4 DEF CeilingHolds
<1> QED
  BY <1>1, <1>2, <1>3, <1>5 DEF IInv

\* every step keeps it,
LEMMA StepPreserves == IInv /\ [Next]_vars => IInv'
BY TypePreserved, ExclusionPreserved, ChargedPreserved, CeilingPreserved,
   StampedPreserved, DurablePreserved DEF IInv

\* and so it always holds.
LEMMA IInvHolds == Spec => []IInv
BY InitEstablishes, StepPreserves, PTL DEF Spec

\* Every variable keeps its type; in particular no failure of the store makes
\* record_ask raise.
THEOREM TypeCorrect == Spec => []TypeOK
<1>1. IInv => TypeOK
  BY DEF IInv
<1> QED
  BY <1>1, IInvHolds, PTL

\* No day is ever charged beyond the global limit, no identity beyond its own.
THEOREM DailyCeiling == Spec => []CeilingHolds
<1>1. IInv => CeilingHolds
  BY DEF IInv
<1> QED
  BY <1>1, IInvHolds, PTL

\* Every refusal names the ceiling that fired, and stays true of its day.
THEOREM RefusalsBlameTheRightCeiling == Spec => []BlameIsRight
<1>1. IInv => BlameIsRight
  BY DEF IInv, Blame, BlameIsRight
<1> QED
  BY <1>1, IInvHolds, PTL

\* A caller is charged for the questions it was allowed and for no other.
THEOREM ChargedExactlyWhenAllowed == Spec => []PaidIffAllowed
<1>1. IInv => PaidIffAllowed
  BY DEF IInv, Charged, PaidIffAllowed
<1> QED
  BY <1>1, IInvHolds, PTL

\* What the store has acknowledged survives everything that follows.
THEOREM AcknowledgedRowsStay == Spec => []AcknowledgedIsDurable
<1>1. IInv => AcknowledgedIsDurable
  BY DEF IInv, Durable, AcknowledgedIsDurable
<1> QED
  BY <1>1, IInvHolds, PTL

----------------------------------------------------------------------------
(* Refinement of StorePromise.                                             *)

Undecided == {"idle", "waiting", "opening", "body", "committing"}

\* A call that is not yet decided has left nothing behind; one that has not
\* arrived has asked for nothing; and what is charged is charged to somebody.
Clean ==
  /\ \A c \in Calls : pc[c] \in Undecided => result[c] = None
  /\ \A r \in Reservers :
       /\ pc[r] \in Undecided => r \notin ledger
       /\ pc[r] = "idle" => who[r] = None
  /\ \A a \in Recorders : pc[a] \in Undecided => a \notin asks
  /\ \A m \in Markers :
       /\ pc[m] \in Undecided => m \notin marks
       /\ pc[m] = "idle" => target[m] = None
  /\ \A r \in ledger : who[r] \in Identities

\* A step leaves nothing behind before its call is decided.
LEMMA CleanPreserved ==
  ASSUME TypeOK, Stamped, Clean, [Next]_vars
  PROVE  Clean'
<1> USE StoreAssumption DEF TypeOK, Clean, Undecided, Stamped, Calls, vars, inputs,
       durable, health, Goto, Conclude
<1>1. ASSUME NEW r \in Reservers, NEW i \in Identities, Reserve(r, i)
       PROVE Clean'
  BY <1>1 DEF Reserve
<1>2. ASSUME NEW a \in Recorders, Record(a) PROVE Clean'
  BY <1>2 DEF Record
<1>3. ASSUME NEW m \in Markers, NEW a \in Recorders \cup {None}, Mark(m, a)
       PROVE Clean'
  BY <1>3 DEF Mark, Returned
<1>4. ASSUME NEW c \in Calls, Enter(c) PROVE Clean'
  BY <1>4 DEF Enter
<1>5. ASSUME NEW c \in Calls, Open(c) PROVE Clean'
  BY <1>5 DEF Open
<1>6. ASSUME NEW c \in Calls, OpenFails(c) PROVE Clean'
  BY <1>6 DEF OpenFails, OpenFailure, Failure, Fail
<1>7. ASSUME NEW c \in Calls, StatementFails(c) PROVE Clean'
  BY <1>7 DEF StatementFails, Failure, Fail
<1>8. ASSUME NEW c \in Calls, Leave(c) PROVE Clean'
  BY <1>8 DEF Leave
<1>9. ASSUME NEW r \in Reservers, RefuseIdentity(r) PROVE Clean'
  BY <1>9 DEF RefuseIdentity
<1>10. ASSUME NEW r \in Reservers, RefuseGlobal(r) PROVE Clean'
  BY <1>10 DEF RefuseGlobal
<1>11. ASSUME NEW r \in Reservers, Admit(r) PROVE Clean'
  BY <1>11 DEF Admit
<1>12. ASSUME NEW r \in Reservers, CommitReservation(r) PROVE Clean'
  BY <1>12 DEF CommitReservation
<1>13. ASSUME NEW a \in Recorders, Write(a) PROVE Clean'
  BY <1>13 DEF Write
<1>14. ASSUME NEW a \in Recorders, CommitAsk(a) PROVE Clean'
  BY <1>14 DEF CommitAsk
<1>15. ASSUME NEW a \in Recorders, Flag(a) PROVE Clean'
  BY <1>15 DEF Flag
<1>16. ASSUME NEW m \in Markers, RefuseUnknown(m) PROVE Clean'
  BY <1>16 DEF RefuseUnknown
<1>17. ASSUME NEW m \in Markers, Attach(m) PROVE Clean'
  BY <1>17 DEF Attach
<1>18. ASSUME NEW m \in Markers, CommitMark(m) PROVE Clean'
  BY <1>18 DEF CommitMark
<1>19. ASSUME Midnight PROVE Clean'
  BY <1>19 DEF Midnight, Days
<1>20. ASSUME Restart PROVE Clean'
  BY <1>20 DEF Restart
<1>21. ASSUME UNCHANGED vars PROVE Clean'
  BY <1>21
<1> QED
  BY <1>1, <1>2, <1>3, <1>4, <1>5, <1>6, <1>7, <1>8, <1>9, <1>10, <1>11, <1>12,
       <1>13, <1>14, <1>15, <1>16, <1>17, <1>18, <1>19, <1>20, <1>21
  DEF Next, Step, ReserverStep, RecorderStep, MarkerStep



\* A mapped reservation is counted as the store counts it.
LEMMA MappedCounts ==
  ASSUME NEW r
  PROVE  /\ Promise!Mine(r) = Count(stamp[r], who[r])
         /\ Promise!All(r) = Total(stamp[r])
BY DEF Promise!Mine, Promise!All, Count, Total, Promise!Cardinality, Cardinality

\* The initial states are the promise's.
LEMMA InitRefines == Init => Promise!Init /\ Clean
<1> SUFFICES ASSUME Init PROVE Promise!Init /\ Clean
  OBVIOUS
<1>1. stamp \in [Reservers -> Days]
  BY InitEstablishes DEF IInv, TypeOK
<1>2. Promise!Init
  BY <1>1 DEF Init, Promise!Init, Calls
<1>3. Clean
  BY StoreAssumption DEF Init, Clean, Undecided, Calls
<1> QED
  BY <1>2, <1>3

\* Every step of the store is a step of the promise or a stutter.
LEMMA StepRefines ==
  ASSUME IInv, Clean, [Next]_vars
  PROVE  [Promise!Next]_(Promise!promise)
<1>0. /\ TypeOK /\ Exclusion /\ Charged /\ Room /\ CeilingHolds /\ Blame /\ Stamped
      /\ Durable /\ Clean
  BY DEF IInv
<1> USE StoreAssumption DEF Calls, inputs, durable, health, Goto, Conclude,
       Promise!promise
<1>1. ASSUME NEW r \in Reservers, NEW i \in Identities, Reserve(r, i)
       PROVE Promise!Ask(r, today, i) /\ today \in Days
  <2>1. /\ who[r] = None /\ result[r] = None /\ today \in Days
        /\ stamp' = [stamp EXCEPT ![r] = today] /\ who' = [who EXCEPT ![r] = i]
        /\ UNCHANGED <<target, ledger, asks, marks, result>>
    BY <1>0, <1>1 DEF Reserve, Clean, Undecided, TypeOK
  <2> QED
    BY <2>1 DEF Promise!Ask
<1>2. ASSUME NEW a \in Recorders, Record(a) PROVE UNCHANGED Promise!promise
  BY <1>2 DEF Record
<1>3. ASSUME NEW m \in Markers, NEW a \in Recorders \cup {None}, Mark(m, a)
       PROVE UNCHANGED Promise!promise \/ (a \in Recorders /\ Promise!Aim(m, a))
  <2>1. /\ target[m] = None /\ result[m] = None
        /\ target' = [target EXCEPT ![m] = a]
        /\ UNCHANGED <<ledger, asks, marks, result, stamp, who>>
    BY <1>0, <1>3 DEF Mark, Clean, Undecided
  <2>2. CASE a = None
    <3>1. target' = target
      BY <1>0, <2>1, <2>2 DEF TypeOK
    <3> QED
      BY <2>1, <3>1
  <2>3. CASE a # None
    <3>1. a \in Recorders /\ result[a] = "recorded" /\ a \in asks
      BY <1>0, <1>3, <2>3 DEF Mark, Returned, Durable
    <3> QED
      BY <2>1, <3>1 DEF Promise!Aim
  <2> QED
    BY <2>2, <2>3
<1>4. ASSUME NEW c \in Calls, Enter(c) PROVE UNCHANGED Promise!promise
  BY <1>4 DEF Enter
<1>5. ASSUME NEW c \in Calls, Open(c) PROVE UNCHANGED Promise!promise
  BY <1>5 DEF Open
<1>6. ASSUME NEW c \in Calls, OpenFails(c) \/ StatementFails(c)
       PROVE \/ c \in Reservers /\ Promise!FailToReserve(c)
             \/ c \in Recorders /\ Promise!Lose(c)
             \/ c \in Markers /\ Promise!FailToMark(c)
  <2>1. PICK how : /\ how \in OpenFailure(c) /\ Fail(c, how)
                   /\ pc[c] \in {"opening", "body", "committing"}
    BY <1>6 DEF OpenFails, StatementFails, OpenFailure, Failure
  <2>2. /\ result[c] = None /\ result' = [result EXCEPT ![c] = how]
        /\ UNCHANGED <<target, ledger, asks, marks, stamp, who>>
    BY <1>0, <2>1 DEF Fail, Clean, Undecided
  <2>3. CASE c \in Reservers
    <3>1. how \in {"ledger_unavailable", "raised"} /\ c \notin ledger /\ who[c] \in Identities
      BY <1>0, <2>1, <2>3 DEF OpenFailure, Failure, Charged, Stamped
    <3> QED
      BY <2>2, <2>3, <3>1 DEF Promise!FailToReserve, Promise!Decide
  <2>4. CASE c \in Recorders
    <3>1. how = "failed" /\ c \notin asks
      BY <1>0, <2>1, <2>4 DEF OpenFailure, Failure, Clean, Undecided
    <3> QED
      BY <2>2, <2>4, <3>1 DEF Promise!Lose, Promise!Decide
  <2>5. CASE c \in Markers
    <3>1. how = "raised" /\ c \notin marks
      BY <1>0, <2>1, <2>5 DEF OpenFailure, Failure, Clean, Undecided
    <3> QED
      BY <2>2, <2>5, <3>1 DEF Promise!FailToMark, Promise!Decide
  <2> QED
    BY <2>3, <2>4, <2>5
<1>8. ASSUME NEW c \in Calls, Leave(c) PROVE UNCHANGED Promise!promise
  BY <1>8 DEF Leave
<1>9. ASSUME NEW r \in Reservers, RefuseIdentity(r)
       PROVE Promise!RefuseIdentity(r)
  <2>1. /\ Count(stamp[r], who[r]) + 1 > IdentityLimit /\ pc[r] = "body"
        /\ result[r] = None /\ result' = [result EXCEPT ![r] = "identity_daily_limit"]
        /\ UNCHANGED <<target, ledger, asks, marks, stamp, who>>
    BY <1>0, <1>9 DEF RefuseIdentity, Clean, Undecided
  <2>2. who[r] \in Identities /\ stamp[r] \in Days
    BY <1>0, <2>1 DEF Stamped, TypeOK
  <2>3. Count(stamp[r], who[r]) \in Nat /\ Count(stamp[r], who[r]) <= IdentityLimit
    BY <1>0, <2>2, CountsAreNatural DEF CeilingHolds
  <2>4. who[r] # None /\ Promise!Mine(r) = IdentityLimit
    BY <1>0, <2>1, <2>2, <2>3, MappedCounts
  <2> QED
    BY <2>1, <2>4 DEF Promise!RefuseIdentity, Promise!Decide
<1>10. ASSUME NEW r \in Reservers, RefuseGlobal(r)
       PROVE Promise!RefuseGlobal(r)
  <2>1. /\ Count(stamp[r], who[r]) + 1 <= IdentityLimit /\ pc[r] = "body"
        /\ Total(stamp[r]) + 1 > GlobalLimit
        /\ result[r] = None /\ result' = [result EXCEPT ![r] = "global_daily_limit"]
        /\ UNCHANGED <<target, ledger, asks, marks, stamp, who>>
    BY <1>0, <1>10 DEF RefuseGlobal, Clean, Undecided
  <2>2. who[r] \in Identities /\ stamp[r] \in Days
    BY <1>0, <2>1 DEF Stamped, TypeOK
  <2>3. /\ Count(stamp[r], who[r]) \in Nat /\ Total(stamp[r]) \in Nat
        /\ Total(stamp[r]) <= GlobalLimit
    BY <1>0, <2>2, CountsAreNatural DEF CeilingHolds
  <2>4. /\ who[r] # None /\ Promise!Mine(r) < IdentityLimit
        /\ Promise!All(r) = GlobalLimit
    BY <1>0, <2>1, <2>2, <2>3, MappedCounts
  <2> QED
    BY <2>1, <2>4 DEF Promise!RefuseGlobal, Promise!Decide
<1>11. ASSUME NEW r \in Reservers, Admit(r) PROVE UNCHANGED Promise!promise
  BY <1>11 DEF Admit
<1>12. ASSUME NEW r \in Reservers, CommitReservation(r)
       PROVE Promise!Allow(r)
  <2>1. /\ pc[r] = "committing" /\ r \notin ledger /\ ledger' = ledger \cup {r}
        /\ result[r] = None /\ result' = [result EXCEPT ![r] = "allowed"]
        /\ UNCHANGED <<target, asks, marks, stamp, who>>
    BY <1>0, <1>12 DEF CommitReservation, Clean, Undecided
  <2>2. /\ Count(stamp[r], who[r]) + 1 <= IdentityLimit
        /\ Total(stamp[r]) + 1 <= GlobalLimit
        /\ Count(stamp[r], who[r]) \in Nat /\ Total(stamp[r]) \in Nat
    BY <1>0, <2>1, CountsAreNatural DEF Room
  <2>3. who[r] \in Identities
    BY <1>0, <2>1 DEF Stamped
  <2>4. /\ who[r] # None /\ Promise!Mine(r) < IdentityLimit
        /\ Promise!All(r) < GlobalLimit
    BY <1>0, <2>2, <2>3, MappedCounts
  <2> QED
    BY <2>1, <2>4 DEF Promise!Allow, Promise!Decide
<1>13. ASSUME NEW a \in Recorders, Write(a) PROVE UNCHANGED Promise!promise
  BY <1>13 DEF Write
<1>14. ASSUME NEW a \in Recorders, CommitAsk(a) PROVE Promise!Keep(a)
  <2>1. a \notin asks /\ result[a] = None
    BY <1>0, <1>14 DEF CommitAsk, Clean, Undecided
  <2> QED
    BY <1>14, <2>1 DEF CommitAsk, Promise!Keep, Promise!Decide
<1>15. ASSUME NEW a \in Recorders, Flag(a) PROVE UNCHANGED Promise!promise
  BY <1>15 DEF Flag
<1>16. ASSUME NEW m \in Markers, RefuseUnknown(m) PROVE Promise!FindNothing(m)
  <2>1. target[m] = None /\ result[m] = None
    BY <1>0, <1>16 DEF RefuseUnknown, Durable, Clean, Undecided
  <2> QED
    BY <1>16, <2>1 DEF RefuseUnknown, Promise!FindNothing, Promise!Decide
<1>17. ASSUME NEW m \in Markers, Attach(m) PROVE UNCHANGED Promise!promise
  BY <1>17 DEF Attach
<1>18. ASSUME NEW m \in Markers, CommitMark(m) PROVE Promise!Attach(m)
  <2>1. target[m] \in asks /\ result[m] = None /\ m \notin marks
    BY <1>0, <1>18 DEF CommitMark, Durable, Clean, Undecided
  <2> QED
    BY <1>18, <2>1 DEF CommitMark, Promise!Attach, Promise!Decide
<1>19. ASSUME Midnight \/ Restart PROVE UNCHANGED Promise!promise
  BY <1>19 DEF Midnight, Restart
<1>21. ASSUME UNCHANGED vars PROVE UNCHANGED Promise!promise
  BY <1>21 DEF vars
<1> QED
  BY <1>1, <1>2, <1>3, <1>4, <1>5, <1>6, <1>8, <1>9, <1>10, <1>11, <1>12, <1>13,
     <1>14, <1>15, <1>16, <1>17, <1>18, <1>19, <1>21
  DEF Next, Step, ReserverStep, RecorderStep, MarkerStep, Promise!Next

\* To its callers the store is the promise: every operation happens at once or
\* not at all, whoever else is under way and wherever the process dies.
THEOREM StoreKeepsItsPromise == Spec => ImplementsStorePromise
<1>1. IInv /\ Clean /\ [Next]_vars => Clean' /\ [Promise!Next]_(Promise!promise)
  <2>1. IInv => TypeOK /\ Stamped
    BY DEF IInv
  <2> QED
    BY <2>1, CleanPreserved, StepRefines
<1> QED
  BY InitRefines, <1>1, IInvHolds, PTL DEF Spec, ImplementsStorePromise, Promise!Spec

----------------------------------------------------------------------------
(* What becomes of the docstring of degraded(), and why a call must end.   *)

\* No record_ask is about to write the flag while another is decided and has
\* not written it yet.
OneFlagAtATime ==
  \A a, b \in Recorders :
    pc[a] = "flagging" /\ pc[b] \in {"leaving", "flagging"} => a = b

\* Then the flag, or the one write of it that is due, is about the last write.
LastWriteFlagged ==
  /\ \A a \in Recorders :
       pc[a] \in {"leaving", "flagging"} => (failed <=> result[a] = "failed")
  /\ (\A a \in Recorders : pc[a] \notin {"leaving", "flagging"}) => (degraded <=> failed)

\* A step with no two flags due keeps that.
LEMMA FlagPreserved ==
  ASSUME TypeOK, Exclusion, LastWriteFlagged, OneFlagAtATime, OneFlagAtATime',
       [Next]_vars
  PROVE  LastWriteFlagged'
<1> USE StoreAssumption DEF TypeOK, Exclusion, Holding, LastWriteFlagged,
       OneFlagAtATime, Calls, vars, inputs, durable, health, Goto, Conclude
<1>1. ASSUME NEW r \in Reservers, NEW i \in Identities, Reserve(r, i)
       PROVE LastWriteFlagged'
  BY <1>1 DEF Reserve
<1>2. ASSUME NEW a \in Recorders, Record(a) PROVE LastWriteFlagged'
  BY <1>2 DEF Record
<1>3. ASSUME NEW m \in Markers, NEW a \in Recorders \cup {None}, Mark(m, a)
       PROVE LastWriteFlagged'
  BY <1>3 DEF Mark, Returned
<1>4. ASSUME NEW c \in Calls, Enter(c) PROVE LastWriteFlagged'
  BY <1>4 DEF Enter
<1>5. ASSUME NEW c \in Calls, Open(c) PROVE LastWriteFlagged'
  BY <1>5 DEF Open
<1>6. ASSUME NEW c \in Calls, OpenFails(c) PROVE LastWriteFlagged'
  BY <1>6 DEF OpenFails, OpenFailure, Failure, Fail
<1>7. ASSUME NEW c \in Calls, StatementFails(c) PROVE LastWriteFlagged'
  BY <1>7 DEF StatementFails, Failure, Fail
<1>8. ASSUME NEW c \in Calls, Leave(c) PROVE LastWriteFlagged'
  BY <1>8 DEF Leave
<1>9. ASSUME NEW r \in Reservers, RefuseIdentity(r) PROVE LastWriteFlagged'
  BY <1>9 DEF RefuseIdentity
<1>10. ASSUME NEW r \in Reservers, RefuseGlobal(r) PROVE LastWriteFlagged'
  BY <1>10 DEF RefuseGlobal
<1>11. ASSUME NEW r \in Reservers, Admit(r) PROVE LastWriteFlagged'
  BY <1>11 DEF Admit
<1>12. ASSUME NEW r \in Reservers, CommitReservation(r) PROVE LastWriteFlagged'
  BY <1>12 DEF CommitReservation
<1>13. ASSUME NEW a \in Recorders, Write(a) PROVE LastWriteFlagged'
  BY <1>13 DEF Write
<1>14. ASSUME NEW a \in Recorders, CommitAsk(a) PROVE LastWriteFlagged'
  BY <1>14 DEF CommitAsk
<1>15. ASSUME NEW a \in Recorders, Flag(a) PROVE LastWriteFlagged'
  BY <1>15 DEF Flag
<1>16. ASSUME NEW m \in Markers, RefuseUnknown(m) PROVE LastWriteFlagged'
  BY <1>16 DEF RefuseUnknown
<1>17. ASSUME NEW m \in Markers, Attach(m) PROVE LastWriteFlagged'
  BY <1>17 DEF Attach
<1>18. ASSUME NEW m \in Markers, CommitMark(m) PROVE LastWriteFlagged'
  BY <1>18 DEF CommitMark
<1>19. ASSUME Midnight PROVE LastWriteFlagged'
  BY <1>19 DEF Midnight, Days
<1>20. ASSUME Restart PROVE LastWriteFlagged'
  BY <1>20 DEF Restart
<1>21. ASSUME UNCHANGED vars PROVE LastWriteFlagged'
  BY <1>21
<1> QED
  BY <1>1, <1>2, <1>3, <1>4, <1>5, <1>6, <1>7, <1>8, <1>9, <1>10, <1>11, <1>12,
       <1>13, <1>14, <1>15, <1>16, <1>17, <1>18, <1>19, <1>20, <1>21
  DEF Next, Step, ReserverStep, RecorderStep, MarkerStep

\* degraded() tells whether the last write failed, as its docstring says, in
\* every execution in which no two record_ask calls are at once past their
\* commit and before their flag: that overlap is all that is wrong with it.
THEOREM DegradedWithoutOverlap ==
  Spec /\ []OneFlagAtATime => []DegradedTellsTheLastWrite
<1>1. Init => LastWriteFlagged
  BY DEF Init, LastWriteFlagged, Calls
<1>2. /\ IInv /\ LastWriteFlagged /\ OneFlagAtATime /\ OneFlagAtATime' /\ [Next]_vars
      => LastWriteFlagged'
  BY FlagPreserved DEF IInv
<1>3. IInv /\ LastWriteFlagged => DegradedTellsTheLastWrite
  BY DEF IInv, TypeOK, LastWriteFlagged, DegradedTellsTheLastWrite
<1> QED
  BY <1>1, <1>2, <1>3, IInvHolds, PTL DEF Spec

\* How far a call is from its end.
Left(c) ==
  CASE pc[c] = "idle"       -> 7
    [] pc[c] = "waiting"    -> 6
    [] pc[c] = "opening"    -> 5
    [] pc[c] = "body"       -> 4
    [] pc[c] = "committing" -> 3
    [] pc[c] = "leaving"    -> 2
    [] pc[c] = "flagging"   -> 1
    [] OTHER                -> 0

\* Whoever moves, no call goes back, and a step of its own takes it on.
Onward(c) == Left(c)' <= Left(c) /\ (Step(c) => Left(c)' < Left(c))
EveryStepIsOnward == [][\A c \in Calls : Onward(c)]_vars

\* Who waits for the lock waits for a call that is on its way out of it.
WaitersHaveAHolder ==
  \A c \in Calls : pc[c] = "waiting" =>
    lock = None \/ \E h \in Calls \ {c} : lock = h /\ Left(h) \in 2..5

\* A call's own step takes it on,
LEMMA StepIsOnward ==
  ASSUME TypeOK, NEW c \in Calls, Step(c)
  PROVE  /\ Left(c)' < Left(c)
         /\ \A d \in Calls \ {c} : pc'[d] = pc[d]
<1> USE StoreAssumption DEF TypeOK, Calls, Goto
<1>1. CASE Enter(c) \/ Open(c) \/ Leave(c)
  BY <1>1 DEF Enter, Open, Leave, Left
<1>2. CASE OpenFails(c) \/ StatementFails(c)
  <2>1. /\ pc[c] \in {"opening", "body", "committing"}
        /\ pc' = [pc EXCEPT ![c] = "leaving"]
    BY <1>2 DEF OpenFails, StatementFails, Fail
  <2> QED
    BY <2>1 DEF Left
<1>3. CASE RefuseIdentity(c) \/ RefuseGlobal(c) \/ Admit(c) \/ CommitReservation(c)
  BY <1>3 DEF RefuseIdentity, RefuseGlobal, Admit, CommitReservation, Left
<1>4. CASE Write(c) \/ CommitAsk(c) \/ Flag(c)
  BY <1>4 DEF Write, CommitAsk, Flag, Left
<1>5. CASE RefuseUnknown(c) \/ Attach(c) \/ CommitMark(c)
  BY <1>5 DEF RefuseUnknown, Attach, CommitMark, Left
<1> QED
  BY <1>1, <1>2, <1>3, <1>4, <1>5 DEF Step, ReserverStep, RecorderStep, MarkerStep

\* and what others do, or the world, never sets it back.
LEMMA NobodyIsSetBack ==
  ASSUME TypeOK, [Next]_vars, NEW c \in Calls
  PROVE  Left(c)' <= Left(c)
<1> USE StoreAssumption DEF TypeOK, Calls, Goto, Left
<1>1. ASSUME NEW d \in Calls, Step(d) PROVE Left(c)' <= Left(c)
  <2>1. CASE d = c
    <3>1. Left(c)' < Left(c)
      BY <1>1, <2>1, StepIsOnward
    <3> QED
      BY <3>1
  <2>2. CASE d # c
    BY <1>1, <2>2, StepIsOnward
  <2> QED
    BY <2>1, <2>2
<1>2. ASSUME NEW r \in Reservers, NEW i \in Identities, Reserve(r, i)
      PROVE  Left(c)' <= Left(c)
  BY <1>2 DEF Reserve
<1>3. ASSUME NEW a \in Recorders, Record(a) PROVE Left(c)' <= Left(c)
  BY <1>3 DEF Record
<1>4. ASSUME NEW m \in Markers, NEW a \in Recorders \cup {None}, Mark(m, a)
      PROVE  Left(c)' <= Left(c)
  BY <1>4 DEF Mark
<1>5. CASE Midnight \/ UNCHANGED vars
  BY <1>5 DEF Midnight, vars
<1>6. CASE Restart
  BY <1>6 DEF Restart
<1> QED
  BY <1>1, <1>2, <1>3, <1>4, <1>5, <1>6 DEF Next

\* However calls interleave and the process dies, a store call takes at most
\* six steps of its own, none of them twice, and whoever holds _write_lock has
\* at most four left before it frees it: what EveryStoreCallReturns needs of the
\* code, apart from the scheduler.
THEOREM CallsRunOut == Spec => EveryStepIsOnward /\ []WaitersHaveAHolder
<1>1. IInv /\ [Next]_vars => [\A c \in Calls : Onward(c)]_vars
  BY StepIsOnward, NobodyIsSetBack DEF IInv, Onward
<1>2. IInv => WaitersHaveAHolder
  <2> SUFFICES ASSUME IInv, NEW c \in Calls, pc[c] = "waiting", lock # None
               PROVE  \E h \in Calls \ {c} : lock = h /\ Left(h) \in 2..5
    BY DEF WaitersHaveAHolder
  <2>1. lock \in Calls /\ pc[lock] \in Holding
    BY DEF IInv, TypeOK, Exclusion
  <2>2. lock # c /\ Left(lock) \in 2..5
    BY <2>1 DEF Holding, Left
  <2> QED
    BY <2>1, <2>2
<1> QED
  BY <1>1, <1>2, IInvHolds, PTL DEF Spec, EveryStepIsOnward
=============================================================================
