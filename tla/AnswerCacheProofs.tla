------------------------- MODULE AnswerCacheProofs -------------------------
(***************************************************************************)
(* Proofs about AnswerCache, for any calls, keys, values and errors and    *)
(* any positive limit.  The inductive invariant IInv is split by what it   *)
(* talks about: who holds which slot of _inflight (Slots), what followers  *)
(* and their leaders have in common (Crews), what a _Pending holds at each *)
(* point of its leader's `finally` (Cells), and what the dictionary holds  *)
(* (Store).                                                                *)
(*                                                                         *)
(* Every step is a step of SingleFlight or a stutter, and takes no call    *)
(* back (Onward).                                                          *)
(***************************************************************************)
EXTENDS AnswerCache, SequenceTheorems, TLAPS

(* A slot of _inflight holds the one call in flight for its key.           *)
Slots ==
  /\ \A k \in Keys : inflight[k] # None =>
       InFlight(inflight[k]) /\ key[inflight[k]] = k
  /\ \A c \in Calls : InFlight(c) => key[c] \in Keys /\ inflight[key[c]] = c

(* A call that has not entered holds nothing; whoever holds a _Pending     *)
(* leads it, or follows a leader that asked for the same key.              *)
Crews ==
  /\ \A c \in Calls : pc[c] = "start" => held[c] = None /\ key[c] = None
  /\ \A c \in Calls : pc[c] # "start" => key[c] \in Keys
  /\ \A c \in Calls : InFlight(c) \/ pc[c] = "wake" => held[c] = c
  /\ \A c \in Calls : pc[c] = "waiting" => Follower(c)
  /\ \A c \in Calls : Follower(c) =>
       /\ held[held[c]] = held[c]
       /\ key[held[c]] = key[c]
       /\ pc[c] \in {"waiting", "done"}

(* The contents of a _Pending follow its leader through the `finally`.     *)
Cells ==
  /\ \A c \in Calls : pc[c] \in {"start", "computing"} => local[c] = Nothing
  /\ \A c \in Calls : pc[c] = "judging" =>
       local[c].error = None /\ local[c].value \in Values
  /\ \A c \in Calls : Leader(c) =>
       /\ pending[c].set <=> pc[c] = "done"
       /\ pc[c] \in {"publishError", "release", "wake", "done"} =>
            pending[c].value = local[c].value
       /\ pc[c] \in {"release", "wake", "done"} =>
            pending[c].error = local[c].error
  /\ \A c \in Calls : Settled(c) => local[c] # Nothing
  /\ \A c \in Calls : Follower(c) /\ pc[c] = "done" => pc[held[c]] = "done"

(* A call has an outcome only when it has returned.                        *)
Quiet == \A c \in Calls : pc[c] # "done" => outcome[c] = NoOutcome

(* The dictionary holds only answers that were earned, none for a key      *)
(* whose leader has yet to judge its value, and its order lists its keys.  *)
Store ==
  /\ \A c \in Calls : pc[c] \in {"computing", "judging"} => entries[key[c]] = None
  /\ \A k \in Keys : entries[k] # None =>
       /\ entries[k] \in Cacheable
       /\ \E c \in Calls : /\ Settled(c) /\ key[c] = k
                           /\ local[c] = [value |-> entries[k], error |-> None]

IInv == TypeOK /\ Slots /\ Crews /\ Cells /\ Quiet /\ FollowersShareTheOutcome
        /\ Store /\ OneDictionary

----------------------------------------------------------------------------
(* What _remember does to a well-formed dictionary: the key is stored, the *)
(* others keep their value or are forgotten, and it stays well formed and  *)
(* within its limit.                                                       *)
LEMMA RememberKeepsTheDictionary ==
  ASSUME TypeOK, OneDictionary,
         NEW k \in Keys, NEW v \in Values, Remember(k, v)
  PROVE  /\ entries' \in [Keys -> Values \cup {None}]
         /\ order' \in Seq(Keys) /\ Len(order') <= CacheLimit
         /\ entries'[k] = v
         /\ \A j \in Keys \ {k} : entries'[j] \in {entries[j], None}
         /\ OneDictionary'
<1> DEFINE kept == IF entries[k] = None THEN Append(order, k) ELSE order
           excess == IF Len(kept) > CacheLimit THEN Len(kept) - CacheLimit ELSE 0
           evicted == {kept[i] : i \in 1..excess}
<1>1. /\ order' = SubSeq(kept, excess + 1, Len(kept))
      /\ entries' = [j \in Keys |-> IF j \in evicted THEN None
                                    ELSE IF j = k THEN v ELSE entries[j]]
  BY Zenon DEF Remember
<1>2. /\ order \in Seq(Keys) /\ Len(order) \in Nat /\ Len(order) <= CacheLimit
      /\ entries \in [Keys -> Values \cup {None}]
      /\ CacheLimit \in Nat \ {0} /\ None \notin Values
  BY LenProperties, CacheAssumption DEF TypeOK
<1>3. /\ kept \in Seq(Keys) /\ Len(kept) \in Nat
      /\ \A i \in 1..Len(order) : kept[i] = order[i]
      /\ entries[k] = None => Len(kept) = Len(order) + 1 /\ kept[Len(kept)] = k
      /\ entries[k] # None => kept = order
  BY <1>2
<1>4. \A i, j \in 1..Len(kept) : kept[i] = kept[j] => i = j
  <2>1. CASE entries[k] # None
    BY <2>1, <1>3 DEF OneDictionary
  <2>2. CASE entries[k] = None
    <3>1. \A i \in 1..Len(order) : order[i] # k
      BY <2>2 DEF OneDictionary
    <3>2. QED
      BY <2>2, <3>1, <1>2, <1>3 DEF OneDictionary
  <2>3. QED BY <2>1, <2>2
<1>5. \A j \in Keys : (\E i \in 1..Len(kept) : kept[i] = j) <=> entries[j] # None \/ j = k
  <2>1. CASE entries[k] # None
    BY <2>1, <1>3 DEF OneDictionary
  <2>2. CASE entries[k] = None
    BY <2>2, <1>2, <1>3 DEF OneDictionary
  <2>3. QED BY <2>1, <2>2
<1>6. /\ excess \in Nat /\ excess <= Len(kept)
      /\ Len(kept) - excess <= CacheLimit
      /\ excess # 0 => entries[k] = None /\ excess < Len(kept)
  BY <1>2, <1>3
<1> HIDE DEF kept, excess
<1>7. /\ order' \in Seq(Keys) /\ Len(order') = Len(kept) - excess
      /\ \A i \in 1..Len(order') : order'[i] = kept[i + excess]
  <2>1. \A i \in (excess + 1)..Len(kept) : kept[i] \in Keys
    BY <1>3, <1>6, ElementOfSeq
  <2>2. QED
    BY <2>1, <1>1, <1>3, <1>6, SubSeqProperties
<1>8. k \notin evicted
  BY <1>3, <1>4, <1>6
<1>9. entries' \in [Keys -> Values \cup {None}] /\ entries'[k] = v
      /\ \A j \in Keys \ {k} : entries'[j] \in {entries[j], None}
  BY <1>1, <1>2, <1>8
<1>10. \A j \in Keys : entries'[j] # None <=> (j \notin evicted /\ (entries[j] # None \/ j = k))
  BY <1>1, <1>2, <1>8
<1>11. \A j \in Keys : entries'[j] # None <=> \E i \in 1..Len(order') : order'[i] = j
  <2>1. ASSUME NEW j \in Keys, entries'[j] # None
        PROVE  \E i \in 1..Len(order') : order'[i] = j
    <3>1. PICK i \in 1..Len(kept) : kept[i] = j
      BY <2>1, <1>5, <1>10
    <3>2. i > excess
      BY <3>1, <2>1, <1>10, <1>6
    <3>3. i - excess \in 1..Len(order') /\ order'[i - excess] = j
      BY <3>1, <3>2, <1>3, <1>6, <1>7
    <3>4. QED BY <3>3
  <2>2. ASSUME NEW j \in Keys, NEW i \in 1..Len(order'), order'[i] = j
        PROVE  entries'[j] # None
    <3>1. i + excess \in 1..Len(kept) /\ kept[i + excess] = j
      BY <2>2, <1>3, <1>6, <1>7
    <3>2. j \notin evicted
      BY <3>1, <1>4, <1>6, <1>3
    <3>3. QED BY <3>1, <3>2, <1>5, <1>10
  <2>3. QED BY <2>1, <2>2
<1>12. \A i, j \in 1..Len(order') : order'[i] = order'[j] => i = j
  BY <1>3, <1>4, <1>6, <1>7
<1>13. QED
  BY <1>2, <1>6, <1>7, <1>9, <1>11, <1>12 DEF OneDictionary

(* What _remember forgets is the oldest entry of a full dictionary, to make *)
(* room for a key that was not in it.                                      *)
LEMMA RememberForgetsTheOldest ==
  ASSUME TypeOK, OneDictionary,
         NEW k \in Keys, NEW v \in Values, Remember(k, v),
         NEW j \in Keys, entries[j] # None, entries'[j] = None
  PROVE  Len(order) = CacheLimit /\ j = order[1] /\ entries[k] = None
<1> DEFINE kept == IF entries[k] = None THEN Append(order, k) ELSE order
           excess == IF Len(kept) > CacheLimit THEN Len(kept) - CacheLimit ELSE 0
           evicted == {kept[i] : i \in 1..excess}
<1>1. entries' = [i \in Keys |-> IF i \in evicted THEN None
                                  ELSE IF i = k THEN v ELSE entries[i]]
  BY Zenon DEF Remember
<1>2. /\ order \in Seq(Keys) /\ Len(order) \in Nat /\ Len(order) <= CacheLimit
      /\ CacheLimit \in Nat \ {0} /\ None \notin Values
  BY LenProperties, CacheAssumption DEF TypeOK
<1>3. /\ \A i \in 1..Len(order) : kept[i] = order[i]
      /\ entries[k] = None => Len(kept) = Len(order) + 1
      /\ entries[k] # None => kept = order
  BY <1>2
<1> HIDE DEF kept
<1>4. j \in evicted
  BY <1>1, <1>2
<1>5. excess # 0 => entries[k] = None /\ Len(order) = CacheLimit /\ excess = 1
  BY <1>2, <1>3
<1>6. excess \in Nat
  BY <1>2, <1>3
<1> QED
  BY <1>2, <1>3, <1>4, <1>5, <1>6

----------------------------------------------------------------------------
(* Writing one field of a _Pending leaves the table of them well typed.    *)
LEMMA PendingUpdates ==
  ASSUME TypeOK, NEW c \in Calls
  PROVE  LET Pendings == [value : Values \cup {None}, error : Errors \cup {None},
                          set : BOOLEAN]
         IN  /\ [pending EXCEPT ![c].value = local[c].value] \in [Calls -> Pendings]
             /\ [pending EXCEPT ![c].error = local[c].error] \in [Calls -> Pendings]
             /\ [pending EXCEPT ![c].set = TRUE] \in [Calls -> Pendings]
<1> DEFINE Pendings == [value : Values \cup {None}, error : Errors \cup {None},
                        set : BOOLEAN]
<1>1. /\ pending \in [Calls -> Pendings]
      /\ local[c].value \in Values \cup {None} /\ local[c].error \in Errors \cup {None}
  BY DEF TypeOK
<1>2. pending[c] \in Pendings
  BY <1>1
<1>3. /\ [pending[c] EXCEPT !.value = local[c].value] \in Pendings
      /\ [pending[c] EXCEPT !.error = local[c].error] \in Pendings
      /\ [pending[c] EXCEPT !.set = TRUE] \in Pendings
  BY <1>1, <1>2
<1> HIDE DEF Pendings
<1>4. QED
  BY <1>1, <1>3 DEF Pendings

----------------------------------------------------------------------------
(* Every step preserves the types.                                         *)
LEMMA TypePreserved ==
  ASSUME TypeOK, Slots, Crews, Cells, OneDictionary, [Next]_vars
  PROVE  TypeOK'
<1> USE CacheAssumption DEF TypeOK, Goto, dict, Nothing, NewPending, NoOutcome, Sites
<1>1. ASSUME NEW c \in Calls, NEW k \in Keys, Hit(c, k)
      PROVE  TypeOK'
  BY <1>1 DEF Hit
<1>2. ASSUME NEW c \in Calls, NEW k \in Keys, Follow(c, k)
      PROVE  TypeOK'
  BY <1>2 DEF Follow
<1>3. ASSUME NEW c \in Calls, NEW k \in Keys, Lead(c, k)
      PROVE  TypeOK'
  BY <1>3 DEF Lead
<1>4. ASSUME NEW c \in Calls, NEW v \in Values, ComputeReturns(c, v)
      PROVE  TypeOK'
  <2>1. [local[c] EXCEPT !.value = v] \in [value : Values \cup {None}, error : Errors \cup {None}]
    OBVIOUS
  <2>2. QED BY <1>4, <2>1 DEF ComputeReturns
<1>5. ASSUME NEW c \in Calls, NEW e \in Errors, ComputeRaises(c, e)
      PROVE  TypeOK'
  <2>1. [local[c] EXCEPT !.error = e] \in [value : Values \cup {None}, error : Errors \cup {None}]
    OBVIOUS
  <2>2. QED BY <1>5, <2>1 DEF ComputeRaises
<1>6. ASSUME NEW c \in Calls, Keep(c)
      PROVE  TypeOK'
  <2>1. key[c] \in Keys /\ local[c].value \in Values /\ Remember(key[c], local[c].value)
    BY <1>6 DEF Keep, Crews
  <2>2. entries' \in [Keys -> Values \cup {None}] /\ order' \in Seq(Keys) /\ Len(order') <= CacheLimit
    BY <2>1, RememberKeepsTheDictionary
  <2>3. QED BY <1>6, <2>2 DEF Keep
<1>7. ASSUME NEW c \in Calls, Discard(c)
      PROVE  TypeOK'
  BY <1>7 DEF Discard
<1>8. ASSUME NEW c \in Calls, NEW e \in Errors, JudgeRaises(c, e)
      PROVE  TypeOK'
  <2>1. [local[c] EXCEPT !.error = e] \in [value : Values \cup {None}, error : Errors \cup {None}]
    OBVIOUS
  <2>2. QED BY <1>8, <2>1 DEF JudgeRaises
<1>9. ASSUME NEW c \in Calls, PublishValue(c)
      PROVE  TypeOK'
  BY <1>9, PendingUpdates DEF PublishValue
<1>10. ASSUME NEW c \in Calls, PublishError(c)
      PROVE  TypeOK'
  BY <1>10, PendingUpdates DEF PublishError
<1>11. ASSUME NEW c \in Calls, Release(c)
      PROVE  TypeOK'
  BY <1>11 DEF Release
<1>12. ASSUME NEW c \in Calls, Wake(c)
      PROVE  TypeOK'
  BY <1>12, PendingUpdates DEF Wake
<1>13. ASSUME NEW c \in Calls, FollowerRaises(c)
      PROVE  TypeOK'
  BY <1>13 DEF FollowerRaises, Crews, Follower
<1>14. ASSUME NEW c \in Calls, FollowerReturns(c)
      PROVE  TypeOK'
  BY <1>14 DEF FollowerReturns, Crews, Follower
<1>15. ASSUME Clear
      PROVE  TypeOK'
  BY <1>15 DEF Clear
<1>16. ASSUME UNCHANGED vars
      PROVE  TypeOK'
  BY <1>16 DEF vars, dict
<1>17. QED
  BY <1>1, <1>2, <1>3, <1>4, <1>5, <1>6, <1>7, <1>8, <1>9, <1>10, <1>11, <1>12, <1>13, <1>14, <1>15, <1>16
     DEF Next, Enter, Step, Compute, Judge, Finish, Resume, AllReturned

(* Every step keeps the slots of _inflight with the calls in flight.       *)
LEMMA SlotsPreserved ==
  ASSUME TypeOK, Slots, Crews, [Next]_vars
  PROVE  Slots'
<1> USE CacheAssumption DEF TypeOK, Slots, Crews, InFlight, Goto, dict, Sites
<1>1. ASSUME NEW c \in Calls, NEW k \in Keys, Hit(c, k)
      PROVE  Slots'
  BY <1>1 DEF Hit
<1>2. ASSUME NEW c \in Calls, NEW k \in Keys, Follow(c, k)
      PROVE  Slots'
  BY <1>2 DEF Follow
<1>3. ASSUME NEW c \in Calls, NEW k \in Keys, Lead(c, k)
      PROVE  Slots'
  BY <1>3 DEF Lead
<1>4. ASSUME NEW c \in Calls, NEW v \in Values, ComputeReturns(c, v)
      PROVE  Slots'
  BY <1>4 DEF ComputeReturns
<1>5. ASSUME NEW c \in Calls, NEW e \in Errors, ComputeRaises(c, e)
      PROVE  Slots'
  BY <1>5 DEF ComputeRaises
<1>6. ASSUME NEW c \in Calls, Keep(c)
      PROVE  Slots'
  BY <1>6 DEF Keep
<1>7. ASSUME NEW c \in Calls, Discard(c)
      PROVE  Slots'
  BY <1>7 DEF Discard
<1>8. ASSUME NEW c \in Calls, NEW e \in Errors, JudgeRaises(c, e)
      PROVE  Slots'
  BY <1>8 DEF JudgeRaises
<1>9. ASSUME NEW c \in Calls, PublishValue(c)
      PROVE  Slots'
  BY <1>9 DEF PublishValue
<1>10. ASSUME NEW c \in Calls, PublishError(c)
      PROVE  Slots'
  BY <1>10 DEF PublishError
<1>11. ASSUME NEW c \in Calls, Release(c)
      PROVE  Slots'
  BY <1>11 DEF Release
<1>12. ASSUME NEW c \in Calls, Wake(c)
      PROVE  Slots'
  BY <1>12 DEF Wake
<1>13. ASSUME NEW c \in Calls, FollowerRaises(c)
      PROVE  Slots'
  BY <1>13 DEF FollowerRaises
<1>14. ASSUME NEW c \in Calls, FollowerReturns(c)
      PROVE  Slots'
  BY <1>14 DEF FollowerReturns
<1>15. ASSUME Clear
      PROVE  Slots'
  BY <1>15 DEF Clear
<1>16. ASSUME UNCHANGED vars
      PROVE  Slots'
  BY <1>16 DEF vars, dict
<1>17. QED
  BY <1>1, <1>2, <1>3, <1>4, <1>5, <1>6, <1>7, <1>8, <1>9, <1>10, <1>11, <1>12, <1>13, <1>14, <1>15, <1>16
     DEF Next, Enter, Step, Compute, Judge, Finish, Resume, AllReturned

(* Every step keeps followers with their leaders.                          *)
LEMMA CrewsPreserved ==
  ASSUME TypeOK, Slots, Crews, [Next]_vars
  PROVE  Crews'
<1> USE CacheAssumption DEF TypeOK, Slots, Crews, InFlight, Follower, Goto, dict, Sites
<1>1. ASSUME NEW c \in Calls, NEW k \in Keys, Hit(c, k)
      PROVE  Crews'
  BY <1>1 DEF Hit
<1>2. ASSUME NEW c \in Calls, NEW k \in Keys, Follow(c, k)
      PROVE  Crews'
  BY <1>2 DEF Follow
<1>3. ASSUME NEW c \in Calls, NEW k \in Keys, Lead(c, k)
      PROVE  Crews'
  BY <1>3 DEF Lead
<1>4. ASSUME NEW c \in Calls, NEW v \in Values, ComputeReturns(c, v)
      PROVE  Crews'
  BY <1>4 DEF ComputeReturns
<1>5. ASSUME NEW c \in Calls, NEW e \in Errors, ComputeRaises(c, e)
      PROVE  Crews'
  BY <1>5 DEF ComputeRaises
<1>6. ASSUME NEW c \in Calls, Keep(c)
      PROVE  Crews'
  BY <1>6 DEF Keep
<1>7. ASSUME NEW c \in Calls, Discard(c)
      PROVE  Crews'
  BY <1>7 DEF Discard
<1>8. ASSUME NEW c \in Calls, NEW e \in Errors, JudgeRaises(c, e)
      PROVE  Crews'
  BY <1>8 DEF JudgeRaises
<1>9. ASSUME NEW c \in Calls, PublishValue(c)
      PROVE  Crews'
  BY <1>9 DEF PublishValue
<1>10. ASSUME NEW c \in Calls, PublishError(c)
      PROVE  Crews'
  BY <1>10 DEF PublishError
<1>11. ASSUME NEW c \in Calls, Release(c)
      PROVE  Crews'
  BY <1>11 DEF Release
<1>12. ASSUME NEW c \in Calls, Wake(c)
      PROVE  Crews'
  BY <1>12 DEF Wake
<1>13. ASSUME NEW c \in Calls, FollowerRaises(c)
      PROVE  Crews'
  BY <1>13 DEF FollowerRaises
<1>14. ASSUME NEW c \in Calls, FollowerReturns(c)
      PROVE  Crews'
  BY <1>14 DEF FollowerReturns
<1>15. ASSUME Clear
      PROVE  Crews'
  BY <1>15 DEF Clear
<1>16. ASSUME UNCHANGED vars
      PROVE  Crews'
  BY <1>16 DEF vars, dict
<1>17. QED
  BY <1>1, <1>2, <1>3, <1>4, <1>5, <1>6, <1>7, <1>8, <1>9, <1>10, <1>11, <1>12, <1>13, <1>14, <1>15, <1>16
     DEF Next, Enter, Step, Compute, Judge, Finish, Resume, AllReturned

(* Every step keeps each _Pending in step with its leader.                 *)
LEMMA CellsPreserved ==
  ASSUME TypeOK, Slots, Crews, Cells, [Next]_vars
  PROVE  Cells'
<1> USE CacheAssumption DEF TypeOK, Slots, Crews, Cells, InFlight, Leader, Follower, Settled, Goto, dict, Sites, Nothing, NewPending
<1>1. ASSUME NEW c \in Calls, NEW k \in Keys, Hit(c, k)
      PROVE  Cells'
  BY <1>1 DEF Hit
<1>2. ASSUME NEW c \in Calls, NEW k \in Keys, Follow(c, k)
      PROVE  Cells'
  BY <1>2 DEF Follow
<1>3. ASSUME NEW c \in Calls, NEW k \in Keys, Lead(c, k)
      PROVE  Cells'
  BY <1>3 DEF Lead
<1>4. ASSUME NEW c \in Calls, NEW v \in Values, ComputeReturns(c, v)
      PROVE  Cells'
  BY <1>4 DEF ComputeReturns
<1>5. ASSUME NEW c \in Calls, NEW e \in Errors, ComputeRaises(c, e)
      PROVE  Cells'
  BY <1>5 DEF ComputeRaises
<1>6. ASSUME NEW c \in Calls, Keep(c)
      PROVE  Cells'
  BY <1>6 DEF Keep
<1>7. ASSUME NEW c \in Calls, Discard(c)
      PROVE  Cells'
  BY <1>7 DEF Discard
<1>8. ASSUME NEW c \in Calls, NEW e \in Errors, JudgeRaises(c, e)
      PROVE  Cells'
  BY <1>8 DEF JudgeRaises
<1>9. ASSUME NEW c \in Calls, PublishValue(c)
      PROVE  Cells'
  BY <1>9 DEF PublishValue
<1>10. ASSUME NEW c \in Calls, PublishError(c)
      PROVE  Cells'
  BY <1>10 DEF PublishError
<1>11. ASSUME NEW c \in Calls, Release(c)
      PROVE  Cells'
  BY <1>11 DEF Release
<1>12. ASSUME NEW c \in Calls, Wake(c)
      PROVE  Cells'
  BY <1>12 DEF Wake
<1>13. ASSUME NEW c \in Calls, FollowerRaises(c)
      PROVE  Cells'
  BY <1>13 DEF FollowerRaises
<1>14. ASSUME NEW c \in Calls, FollowerReturns(c)
      PROVE  Cells'
  BY <1>14 DEF FollowerReturns
<1>15. ASSUME Clear
      PROVE  Cells'
  BY <1>15 DEF Clear
<1>16. ASSUME UNCHANGED vars
      PROVE  Cells'
  BY <1>16 DEF vars, dict
<1>17. QED
  BY <1>1, <1>2, <1>3, <1>4, <1>5, <1>6, <1>7, <1>8, <1>9, <1>10, <1>11, <1>12, <1>13, <1>14, <1>15, <1>16
     DEF Next, Enter, Step, Compute, Judge, Finish, Resume, AllReturned

(* Every step gives an outcome only to a call that returns.                *)
LEMMA QuietPreserved ==
  ASSUME TypeOK, Quiet, [Next]_vars
  PROVE  Quiet'
<1> USE CacheAssumption DEF TypeOK, Quiet, Goto, dict
<1>1. ASSUME NEW c \in Calls, NEW k \in Keys, Hit(c, k)
      PROVE  Quiet'
  BY <1>1 DEF Hit
<1>2. ASSUME NEW c \in Calls, NEW k \in Keys, Follow(c, k)
      PROVE  Quiet'
  BY <1>2 DEF Follow
<1>3. ASSUME NEW c \in Calls, NEW k \in Keys, Lead(c, k)
      PROVE  Quiet'
  BY <1>3 DEF Lead
<1>4. ASSUME NEW c \in Calls, NEW v \in Values, ComputeReturns(c, v)
      PROVE  Quiet'
  BY <1>4 DEF ComputeReturns
<1>5. ASSUME NEW c \in Calls, NEW e \in Errors, ComputeRaises(c, e)
      PROVE  Quiet'
  BY <1>5 DEF ComputeRaises
<1>6. ASSUME NEW c \in Calls, Keep(c)
      PROVE  Quiet'
  BY <1>6 DEF Keep
<1>7. ASSUME NEW c \in Calls, Discard(c)
      PROVE  Quiet'
  BY <1>7 DEF Discard
<1>8. ASSUME NEW c \in Calls, NEW e \in Errors, JudgeRaises(c, e)
      PROVE  Quiet'
  BY <1>8 DEF JudgeRaises
<1>9. ASSUME NEW c \in Calls, PublishValue(c)
      PROVE  Quiet'
  BY <1>9 DEF PublishValue
<1>10. ASSUME NEW c \in Calls, PublishError(c)
      PROVE  Quiet'
  BY <1>10 DEF PublishError
<1>11. ASSUME NEW c \in Calls, Release(c)
      PROVE  Quiet'
  BY <1>11 DEF Release
<1>12. ASSUME NEW c \in Calls, Wake(c)
      PROVE  Quiet'
  BY <1>12 DEF Wake
<1>13. ASSUME NEW c \in Calls, FollowerRaises(c)
      PROVE  Quiet'
  BY <1>13 DEF FollowerRaises
<1>14. ASSUME NEW c \in Calls, FollowerReturns(c)
      PROVE  Quiet'
  BY <1>14 DEF FollowerReturns
<1>15. ASSUME Clear
      PROVE  Quiet'
  BY <1>15 DEF Clear
<1>16. ASSUME UNCHANGED vars
      PROVE  Quiet'
  BY <1>16 DEF vars, dict
<1>17. QED
  BY <1>1, <1>2, <1>3, <1>4, <1>5, <1>6, <1>7, <1>8, <1>9, <1>10, <1>11, <1>12, <1>13, <1>14, <1>15, <1>16
     DEF Next, Enter, Step, Compute, Judge, Finish, Resume, AllReturned

(* A step that touches the outcome of one call only, and that call's key   *)
(* only when it holds no _Pending, disturbs no other follower.             *)
LEMMA OthersStillShare ==
  ASSUME TypeOK, Crews, FollowersShareTheOutcome, NEW c \in Calls,
         local' = local, held' = held,
         key' = key \/ held[c] = None,
         \A d \in Calls \ {c} : /\ pc'[d] = pc[d] /\ outcome'[d] = outcome[d]
                                /\ key'[d] = key[d],
         Follower(c) /\ pc'[c] = "done" => SharesTheOutcome(c)'
  PROVE  FollowersShareTheOutcome'
<1> SUFFICES ASSUME NEW d \in Calls, Follower(d), pc'[d] = "done"
             PROVE  SharesTheOutcome(d)'
  BY DEF FollowersShareTheOutcome, Follower
<1>1. CASE d = c
  BY <1>1
<1>2. CASE d # c
  <2>1. SharesTheOutcome(d)
    BY <1>2 DEF FollowersShareTheOutcome
  <2>2. held[d] \in Calls /\ held[held[d]] = held[d]
    BY DEF TypeOK, Crews, Follower
  <2>3. key'[held[d]] = key[held[d]]
    BY <2>2, CacheAssumption
  <2>4. QED
    BY <1>2, <2>1, <2>3 DEF SharesTheOutcome
<1>3. QED BY <1>1, <1>2

(* Every step keeps followers' outcomes those of their leaders.            *)
LEMMA SharePreserved ==
  ASSUME TypeOK, Slots, Crews, Cells, FollowersShareTheOutcome, [Next]_vars
  PROVE  FollowersShareTheOutcome'
<1> USE CacheAssumption DEF TypeOK, Slots, Crews, Cells, InFlight, Leader, Follower, Goto, dict, Sites
<1>1. ASSUME NEW c \in Calls, NEW k \in Keys, Hit(c, k)
      PROVE  FollowersShareTheOutcome'
  <2>1. /\ held[c] = None /\ local' = local /\ held' = held
        /\ \A d \in Calls \ {c} : /\ pc'[d] = pc[d] /\ outcome'[d] = outcome[d]
                               /\ key'[d] = key[d]
    BY <1>1 DEF Hit
  <2>2. ~Follower(c)
    BY <2>1
  <2>3. QED BY <2>1, <2>2, OthersStillShare
<1>2. ASSUME NEW c \in Calls, NEW k \in Keys, Follow(c, k)
      PROVE  FollowersShareTheOutcome'
  BY <1>2 DEF Follow, FollowersShareTheOutcome, SharesTheOutcome
<1>3. ASSUME NEW c \in Calls, NEW k \in Keys, Lead(c, k)
      PROVE  FollowersShareTheOutcome'
  BY <1>3 DEF Lead, FollowersShareTheOutcome, SharesTheOutcome
<1>4. ASSUME NEW c \in Calls, NEW v \in Values, ComputeReturns(c, v)
      PROVE  FollowersShareTheOutcome'
  BY <1>4 DEF ComputeReturns, FollowersShareTheOutcome, SharesTheOutcome
<1>5. ASSUME NEW c \in Calls, NEW e \in Errors, ComputeRaises(c, e)
      PROVE  FollowersShareTheOutcome'
  BY <1>5 DEF ComputeRaises, FollowersShareTheOutcome, SharesTheOutcome
<1>6. ASSUME NEW c \in Calls, Keep(c)
      PROVE  FollowersShareTheOutcome'
  BY <1>6 DEF Keep, FollowersShareTheOutcome, SharesTheOutcome
<1>7. ASSUME NEW c \in Calls, Discard(c)
      PROVE  FollowersShareTheOutcome'
  BY <1>7 DEF Discard, FollowersShareTheOutcome, SharesTheOutcome
<1>8. ASSUME NEW c \in Calls, NEW e \in Errors, JudgeRaises(c, e)
      PROVE  FollowersShareTheOutcome'
  BY <1>8 DEF JudgeRaises, FollowersShareTheOutcome, SharesTheOutcome
<1>9. ASSUME NEW c \in Calls, PublishValue(c)
      PROVE  FollowersShareTheOutcome'
  BY <1>9 DEF PublishValue, FollowersShareTheOutcome, SharesTheOutcome
<1>10. ASSUME NEW c \in Calls, PublishError(c)
      PROVE  FollowersShareTheOutcome'
  BY <1>10 DEF PublishError, FollowersShareTheOutcome, SharesTheOutcome
<1>11. ASSUME NEW c \in Calls, Release(c)
      PROVE  FollowersShareTheOutcome'
  BY <1>11 DEF Release, FollowersShareTheOutcome, SharesTheOutcome
<1>12. ASSUME NEW c \in Calls, Wake(c)
      PROVE  FollowersShareTheOutcome'
  <2>1. /\ held[c] = c /\ local' = local /\ held' = held /\ key' = key
        /\ \A d \in Calls \ {c} : pc'[d] = pc[d] /\ outcome'[d] = outcome[d]
    BY <1>12 DEF Wake
  <2>2. ~Follower(c)
    BY <2>1
  <2>3. QED BY <2>1, <2>2, OthersStillShare
<1>13. ASSUME NEW c \in Calls, FollowerRaises(c)
      PROVE  FollowersShareTheOutcome'
  <2>1. /\ local' = local /\ held' = held /\ key' = key
        /\ \A d \in Calls \ {c} : pc'[d] = pc[d] /\ outcome'[d] = outcome[d]
    BY <1>13 DEF FollowerRaises
  <2>2. key[c] = key[held[c]] /\ pc[held[c]] = "done" /\ held[c] \in Calls
    BY <1>13 DEF FollowerRaises
  <2>3. pending[held[c]].value = local[held[c]].value /\ pending[held[c]].error = local[held[c]].error
    BY <1>13, <2>2 DEF FollowerRaises
  <2>4. IF local[held[c]].error # None
        THEN outcome'[c] = [value |-> None, error |-> local[held[c]].error, hit |-> FALSE]
        ELSE outcome'[c] = [value |-> local[held[c]].value, error |-> None, hit |-> TRUE]
    BY <1>13, <2>3 DEF FollowerRaises
  <2>5. SharesTheOutcome(c)'
    BY <2>1, <2>2, <2>4 DEF SharesTheOutcome
  <2>6. QED BY <2>1, <2>5, OthersStillShare
<1>14. ASSUME NEW c \in Calls, FollowerReturns(c)
      PROVE  FollowersShareTheOutcome'
  <2>1. /\ local' = local /\ held' = held /\ key' = key
        /\ \A d \in Calls \ {c} : pc'[d] = pc[d] /\ outcome'[d] = outcome[d]
    BY <1>14 DEF FollowerReturns
  <2>2. key[c] = key[held[c]] /\ pc[held[c]] = "done" /\ held[c] \in Calls
    BY <1>14 DEF FollowerReturns
  <2>3. pending[held[c]].value = local[held[c]].value /\ pending[held[c]].error = local[held[c]].error
    BY <1>14, <2>2 DEF FollowerReturns
  <2>4. IF local[held[c]].error # None
        THEN outcome'[c] = [value |-> None, error |-> local[held[c]].error, hit |-> FALSE]
        ELSE outcome'[c] = [value |-> local[held[c]].value, error |-> None, hit |-> TRUE]
    BY <1>14, <2>3 DEF FollowerReturns
  <2>5. SharesTheOutcome(c)'
    BY <2>1, <2>2, <2>4 DEF SharesTheOutcome
  <2>6. QED BY <2>1, <2>5, OthersStillShare
<1>15. ASSUME Clear
      PROVE  FollowersShareTheOutcome'
  BY <1>15 DEF Clear, FollowersShareTheOutcome, SharesTheOutcome
<1>16. ASSUME UNCHANGED vars
      PROVE  FollowersShareTheOutcome'
  BY <1>16 DEF vars, dict, FollowersShareTheOutcome, SharesTheOutcome
<1>17. QED
  BY <1>1, <1>2, <1>3, <1>4, <1>5, <1>6, <1>7, <1>8, <1>9, <1>10, <1>11, <1>12, <1>13, <1>14, <1>15, <1>16
     DEF Next, Enter, Step, Compute, Judge, Finish, Resume, AllReturned

(* Every step keeps the mapping and its insertion order one dictionary.    *)
LEMMA DictionaryPreserved ==
  ASSUME TypeOK, Slots, Crews, Cells, OneDictionary, [Next]_vars
  PROVE  OneDictionary'
<1>1. ASSUME NEW c \in Calls, NEW k \in Keys, Hit(c, k)
      PROVE  OneDictionary'
  BY <1>1 DEF Hit, dict, OneDictionary
<1>2. ASSUME NEW c \in Calls, NEW k \in Keys, Follow(c, k)
      PROVE  OneDictionary'
  BY <1>2 DEF Follow, dict, OneDictionary
<1>3. ASSUME NEW c \in Calls, NEW k \in Keys, Lead(c, k)
      PROVE  OneDictionary'
  BY <1>3 DEF Lead, dict, OneDictionary
<1>4. ASSUME NEW c \in Calls, NEW v \in Values, ComputeReturns(c, v)
      PROVE  OneDictionary'
  BY <1>4 DEF ComputeReturns, dict, OneDictionary
<1>5. ASSUME NEW c \in Calls, NEW e \in Errors, ComputeRaises(c, e)
      PROVE  OneDictionary'
  BY <1>5 DEF ComputeRaises, dict, OneDictionary
<1>6. ASSUME NEW c \in Calls, Keep(c)
      PROVE  OneDictionary'
  <2>1. key[c] \in Keys /\ local[c].value \in Cacheable /\ local[c].value \in Values /\ local[c].error = None
        /\ InFlight(c) /\ held[c] = c /\ Remember(key[c], local[c].value)
    BY <1>6 DEF Keep, Crews, InFlight, Goto, Cells, TypeOK
  <2>2. QED BY <2>1, RememberKeepsTheDictionary
<1>7. ASSUME NEW c \in Calls, Discard(c)
      PROVE  OneDictionary'
  BY <1>7 DEF Discard, dict, OneDictionary
<1>8. ASSUME NEW c \in Calls, NEW e \in Errors, JudgeRaises(c, e)
      PROVE  OneDictionary'
  BY <1>8 DEF JudgeRaises, dict, OneDictionary
<1>9. ASSUME NEW c \in Calls, PublishValue(c)
      PROVE  OneDictionary'
  BY <1>9 DEF PublishValue, dict, OneDictionary
<1>10. ASSUME NEW c \in Calls, PublishError(c)
      PROVE  OneDictionary'
  BY <1>10 DEF PublishError, dict, OneDictionary
<1>11. ASSUME NEW c \in Calls, Release(c)
      PROVE  OneDictionary'
  BY <1>11 DEF Release, dict, OneDictionary
<1>12. ASSUME NEW c \in Calls, Wake(c)
      PROVE  OneDictionary'
  BY <1>12 DEF Wake, dict, OneDictionary
<1>13. ASSUME NEW c \in Calls, FollowerRaises(c)
      PROVE  OneDictionary'
  BY <1>13 DEF FollowerRaises, dict, OneDictionary
<1>14. ASSUME NEW c \in Calls, FollowerReturns(c)
      PROVE  OneDictionary'
  BY <1>14 DEF FollowerReturns, dict, OneDictionary
<1>15. ASSUME Clear
      PROVE  OneDictionary'
  BY <1>15, EmptySeq DEF Clear, OneDictionary
<1>16. ASSUME UNCHANGED vars
      PROVE  OneDictionary'
  BY <1>16 DEF vars, dict, OneDictionary
<1>17. QED
  BY <1>1, <1>2, <1>3, <1>4, <1>5, <1>6, <1>7, <1>8, <1>9, <1>10, <1>11, <1>12, <1>13, <1>14, <1>15, <1>16
     DEF Next, Enter, Step, Compute, Judge, Finish, Resume, AllReturned

(* Every step keeps the stored answers earned.                             *)
LEMMA StorePreserved ==
  ASSUME TypeOK, Slots, Crews, Cells, OneDictionary, Store, [Next]_vars
  PROVE  Store'
<1> USE CacheAssumption DEF TypeOK, Slots, Crews, Cells, Store, InFlight, Leader, Settled, Goto, dict, Sites
<1>1. ASSUME NEW c \in Calls, NEW k \in Keys, Hit(c, k)
      PROVE  Store'
  BY <1>1 DEF Hit
<1>2. ASSUME NEW c \in Calls, NEW k \in Keys, Follow(c, k)
      PROVE  Store'
  BY <1>2 DEF Follow
<1>3. ASSUME NEW c \in Calls, NEW k \in Keys, Lead(c, k)
      PROVE  Store'
  BY <1>3 DEF Lead
<1>4. ASSUME NEW c \in Calls, NEW v \in Values, ComputeReturns(c, v)
      PROVE  Store'
  BY <1>4 DEF ComputeReturns
<1>5. ASSUME NEW c \in Calls, NEW e \in Errors, ComputeRaises(c, e)
      PROVE  Store'
  BY <1>5 DEF ComputeRaises
<1>6. ASSUME NEW c \in Calls, Keep(c)
      PROVE  Store'
  <2>1. key[c] \in Keys /\ local[c].value \in Cacheable /\ local[c].value \in Values /\ local[c].error = None
        /\ InFlight(c) /\ held[c] = c /\ Remember(key[c], local[c].value)
    BY <1>6 DEF Keep, Crews, InFlight, Goto, Cells, TypeOK
  <2>2. /\ entries' \in [Keys -> Values \cup {None}]
        /\ entries'[key[c]] = local[c].value
        /\ \A j \in Keys \ {key[c]} : entries'[j] \in {entries[j], None}
        /\ OneDictionary'
    BY <2>1, RememberKeepsTheDictionary
  <2>3. /\ pc' = [pc EXCEPT ![c] = "publishValue"] /\ pc[c] = "judging"
        /\ local' = local /\ held' = held /\ key' = key
    BY <1>6 DEF Keep
  <2>4. Settled(c)' /\ local'[c] = [value |-> local[c].value, error |-> None]
    BY <2>1, <2>3
  <2>5. \A d \in Calls : Settled(d) => Settled(d)'
    BY <2>3
  <2>6. ASSUME NEW d \in Calls, pc'[d] \in {"computing", "judging"}
        PROVE  entries'[key'[d]] = None
    BY <2>1, <2>2, <2>3, <2>6
  <2>7. ASSUME NEW k \in Keys, entries'[k] # None
        PROVE  /\ entries'[k] \in Cacheable
               /\ \E d \in Calls : /\ Settled(d)' /\ key'[d] = k
                                   /\ local'[d] = [value |-> entries'[k], error |-> None]
    <3>1. CASE k = key[c]
      BY <3>1, <2>1, <2>2, <2>3, <2>4
    <3>2. CASE k # key[c]
      <4>1. entries'[k] = entries[k]
        BY <3>2, <2>2, <2>7
      <4>2. QED BY <4>1, <2>3, <2>5, <2>7
    <3>3. QED BY <3>1, <3>2
  <2>8. QED BY <2>6, <2>7
<1>7. ASSUME NEW c \in Calls, Discard(c)
      PROVE  Store'
  BY <1>7 DEF Discard
<1>8. ASSUME NEW c \in Calls, NEW e \in Errors, JudgeRaises(c, e)
      PROVE  Store'
  BY <1>8 DEF JudgeRaises
<1>9. ASSUME NEW c \in Calls, PublishValue(c)
      PROVE  Store'
  BY <1>9 DEF PublishValue
<1>10. ASSUME NEW c \in Calls, PublishError(c)
      PROVE  Store'
  BY <1>10 DEF PublishError
<1>11. ASSUME NEW c \in Calls, Release(c)
      PROVE  Store'
  BY <1>11 DEF Release
<1>12. ASSUME NEW c \in Calls, Wake(c)
      PROVE  Store'
  BY <1>12 DEF Wake
<1>13. ASSUME NEW c \in Calls, FollowerRaises(c)
      PROVE  Store'
  BY <1>13 DEF FollowerRaises
<1>14. ASSUME NEW c \in Calls, FollowerReturns(c)
      PROVE  Store'
  BY <1>14 DEF FollowerReturns
<1>15. ASSUME Clear
      PROVE  Store'
  BY <1>15 DEF Clear
<1>16. ASSUME UNCHANGED vars
      PROVE  Store'
  BY <1>16 DEF vars, dict
<1>17. QED
  BY <1>1, <1>2, <1>3, <1>4, <1>5, <1>6, <1>7, <1>8, <1>9, <1>10, <1>11, <1>12, <1>13, <1>14, <1>15, <1>16
     DEF Next, Enter, Step, Compute, Judge, Finish, Resume, AllReturned

----------------------------------------------------------------------------
(* The invariant the theorems below rest on.                               *)
LEMMA IInvHolds == Spec => []IInv
<1>1. Init => IInv
  BY CacheAssumption, EmptySeq
     DEF Init, IInv, TypeOK, Slots, Crews, Cells, Store, OneDictionary, Quiet,
         FollowersShareTheOutcome, InFlight, Leader, Follower, Settled, Sites,
         Nothing, NewPending, NoOutcome
<1>2. IInv /\ [Next]_vars => IInv'
  BY TypePreserved, SlotsPreserved, CrewsPreserved, CellsPreserved, QuietPreserved,
     SharePreserved, StorePreserved, DictionaryPreserved DEF IInv
<1>3. QED
  BY <1>1, <1>2, PTL DEF Spec

(* Every variable keeps its type and the dictionary its limit.             *)
THEOREM TypeCorrect == Spec => []TypeOK
BY IInvHolds, PTL DEF IInv

(* At most one computation per key is in flight, whatever the other calls  *)
(* do and whatever is evicted or cleared meanwhile.                        *)
THEOREM OneComputationPerKey == Spec => []AtMostOnceConcurrently
<1>1. IInv => AtMostOnceConcurrently
  BY DEF IInv, Slots, AtMostOnceConcurrently
<1>2. QED BY <1>1, IInvHolds, PTL

(* Every follower that has returned got its leader's own outcome.          *)
THEOREM FollowersGetTheOutcome == Spec => []FollowersShareTheOutcome
BY IInvHolds, PTL DEF IInv

(* Only acceptable answers of unfailed computations of that key are kept.  *)
THEOREM StoredAnswersAreEarned == Spec => []EntriesAreEarned
<1>1. IInv => EntriesAreEarned
  BY DEF IInv, Store, EntriesAreEarned, Settled
<1>2. QED BY <1>1, IInvHolds, PTL

(* A waiting call always has somebody who will wake it, or has been woken. *)
THEOREM WaitersHaveAWaker == Spec => []NoStrandedWaiter
<1>1. IInv => NoStrandedWaiter
  <2> SUFFICES ASSUME IInv, NEW c \in Calls, pc[c] = "waiting"
               PROVE  /\ held[c] \in Calls
                      /\ \/ InFlight(held[c]) /\ inflight[key[c]] = held[c]
                         \/ pc[held[c]] = "wake"
                         \/ pending[held[c]].set
    BY DEF NoStrandedWaiter
  <2>1. /\ held[c] \in Calls /\ held[held[c]] = held[c] /\ key[held[c]] = key[c]
        /\ held[c] # None
    BY CacheAssumption DEF IInv, TypeOK, Crews, Follower
  <2>2. pc[held[c]] \notin {"start", "waiting"}
    BY <2>1 DEF IInv, Crews, Follower
  <2>3. CASE InFlight(held[c])
    BY <2>1, <2>3 DEF IInv, Slots
  <2>4. CASE ~InFlight(held[c])
    BY <2>1, <2>2, <2>4 DEF IInv, TypeOK, Sites, InFlight, Cells, Leader
  <2>5. QED BY <2>1, <2>3, <2>4
<1>2. QED BY <1>1, IInvHolds, PTL

(* No step overwrites a stored answer with another one.                    *)
THEOREM StoredAnswersAreStable == Spec => AnswersAreStable
<1>1. IInv /\ [Next]_vars =>
        [\A k \in Keys : entries[k] # None => entries'[k] \in {entries[k], None}]_vars
  <2> SUFFICES ASSUME IInv, Next, NEW k \in Keys, entries[k] # None
               PROVE  entries'[k] \in {entries[k], None}
    OBVIOUS
  <2>1. CASE \E c \in Calls : Keep(c)
    <3>1. PICK c \in Calls : Keep(c)
      BY <2>1
    <3>2. /\ key[c] \in Keys /\ local[c].value \in Values
          /\ entries[key[c]] = None /\ Remember(key[c], local[c].value)
      BY <3>1 DEF Keep, Goto, IInv, Crews, Cells, Store
    <3>3. k # key[c] /\ TypeOK /\ OneDictionary
      BY <3>2 DEF IInv
    <3>4. QED BY <3>2, <3>3, RememberKeepsTheDictionary
  <2>2. CASE Clear
    BY <2>2 DEF Clear
  <2>3. CASE ~(\E c \in Calls : Keep(c)) /\ ~Clear
    <3>1. entries' = entries
      BY <2>3 DEF Next, Enter, Step, Compute, Judge, Finish, Resume, AllReturned, vars, dict,
                  Hit, Follow, Lead, ComputeReturns, ComputeRaises, Discard, JudgeRaises,
                  PublishValue, PublishError, Release, Wake, FollowerRaises, FollowerReturns
    <3>2. QED BY <3>1
  <2>4. QED BY <2>1, <2>2, <2>3
<1>2. QED
  BY <1>1, IInvHolds, PTL DEF Spec, AnswersAreStable

(* A step that forgets an answer cleared the cache, or had a full cache,    *)
(* stored another answer and dropped the oldest one.                       *)
THEOREM OnlyTheOldestIsForgotten == Spec => ForgetsOnlyTheOldest
<1>1. IInv /\ [Next]_vars =>
        [\A k \in Keys :
           entries[k] # None /\ entries'[k] = None /\ order' # <<>> =>
             /\ Len(order) = CacheLimit
             /\ k = order[1]
             /\ \E j \in Keys : entries[j] = None /\ entries'[j] # None]_vars
  <2> SUFFICES ASSUME IInv, Next, NEW k \in Keys,
                      entries[k] # None, entries'[k] = None, order' # <<>>
               PROVE  /\ Len(order) = CacheLimit
                      /\ k = order[1]
                      /\ \E j \in Keys : entries[j] = None /\ entries'[j] # None
    OBVIOUS
  <2>1. CASE \E c \in Calls : Keep(c)
    <3>1. PICK c \in Calls : Keep(c)
      BY <2>1
    <3>2. /\ key[c] \in Keys /\ local[c].value \in Values
          /\ entries[key[c]] = None /\ Remember(key[c], local[c].value)
      BY <3>1 DEF Keep, Goto, IInv, Crews, Cells, Store
    <3>3. TypeOK /\ OneDictionary
      BY DEF IInv
    <3>4. Len(order) = CacheLimit /\ k = order[1]
      BY <3>2, <3>3, RememberForgetsTheOldest
    <3>5. entries'[key[c]] = local[c].value
      BY <3>2, <3>3, RememberKeepsTheDictionary
    <3>6. entries'[key[c]] # None
      BY <3>2, <3>5, CacheAssumption
    <3> QED
      BY <3>2, <3>4, <3>6
  <2>2. CASE Clear
    BY <2>2 DEF Clear
  <2>3. CASE ~(\E c \in Calls : Keep(c)) /\ ~Clear
    <3>1. entries' = entries
      BY <2>3 DEF Next, Enter, Step, Compute, Judge, Finish, Resume, AllReturned, vars, dict,
                  Hit, Follow, Lead, ComputeReturns, ComputeRaises, Discard, JudgeRaises,
                  PublishValue, PublishError, Release, Wake, FollowerRaises, FollowerReturns
    <3>2. QED BY <3>1
  <2>4. QED BY <2>1, <2>2, <2>3
<1>2. QED
  BY <1>1, IInvHolds, PTL DEF Spec, ForgetsOnlyTheOldest

----------------------------------------------------------------------------
(* Refinement: the mapped initial state is SingleFlight's, and each action *)
(* of the cache is one of SingleFlight's or a stutter.                     *)
LEMMA InitRefines == Init => Promise!Init
BY DEF Init, Promise!Init, Verdict, Settled, Leader, Nothing, NoOutcome,
       Promise!Unsettled, Promise!Untold

(* Outside the three ways a flight is settled, no verdict changes.         *)
LEMMA VerdictStays ==
  ASSUME TypeOK, local' = local, NEW c \in Calls,
         \A d \in Calls \ {c} : pc'[d] = pc[d] /\ held'[d] = held[d],
         Settled(c)' <=> Settled(c)
  PROVE  Verdict' = Verdict
<1>1. \A d \in Calls : Settled(d)' <=> Settled(d)
  BY DEF Settled, Leader
<1>2. QED
  BY <1>1 DEF Verdict

(* A leader that leaves compute() and the judging block settles its flight.*)
LEMMA VerdictSettles ==
  ASSUME TypeOK, Cells, held' = held, NEW c \in Calls,
         held[c] = c, pc[c] \in {"computing", "judging"},
         pc' = [pc EXCEPT ![c] = "publishValue"],
         NEW out, local' = [local EXCEPT ![c] = out], out # Nothing,
         out \in [value : Values \cup {None}, error : Errors \cup {None}]
  PROVE  /\ Verdict' = [Verdict EXCEPT ![c] = out]
         /\ Verdict[c] = Promise!Unsettled
         /\ out # Promise!Unsettled /\ out \in Promise!Verdicts
<1>1. \A d \in Calls \ {c} : (Settled(d)' <=> Settled(d)) /\ local'[d] = local[d]
  BY DEF Settled, Leader, TypeOK
<1>2. Settled(c)' /\ local'[c] = out /\ ~Settled(c)
  BY DEF Settled, Leader, TypeOK
<1>3. Verdict' = [Verdict EXCEPT ![c] = out]
  <2>1. Verdict' = [d \in Calls |-> IF d = c THEN out ELSE Verdict[d]]
    BY <1>1, <1>2 DEF Verdict
  <2>2. QED
    BY <2>1 DEF Verdict
<1>4. QED
  BY <1>2, <1>3 DEF Verdict, Nothing, Promise!Unsettled, Promise!Verdicts

\* Every step of the cache is a step of the promise, or a stutter.
LEMMA StepRefines ==
  ASSUME IInv, [Next]_vars
  PROVE  [Promise!Next]_(Promise!spec)
<1> USE CacheAssumption
<1>. USE DEF Promise!spec
<1>0. TypeOK /\ Slots /\ Crews /\ Cells /\ Quiet /\ Store /\ OneDictionary
  BY DEF IInv
<1>1. ASSUME NEW c \in Calls, NEW k \in Keys, Hit(c, k)
      PROVE  Promise!FromMemory(c, k)
  <2>1. held[c] = None /\ key[c] = None /\ pc[c] = "start"
    BY <1>0, <1>1 DEF Hit, Goto, Crews
  <2>2. Verdict' = Verdict
    BY <1>0, <1>1, <2>1, VerdictStays DEF Hit, Goto, Settled, Leader, TypeOK
  <2>3. QED
    BY <1>1, <2>1, <2>2 DEF Hit, dict, Promise!FromMemory
<1>2. ASSUME NEW c \in Calls, NEW k \in Keys, Follow(c, k)
      PROVE  Promise!Board(c, k)
  <2>1. held[c] = None /\ key[c] = None /\ pc[c] = "start"
    BY <1>0, <1>2 DEF Follow, Goto, Crews
  <2>2. Verdict' = Verdict
    BY <1>0, <1>2, <2>1, VerdictStays DEF Follow, Goto, Settled, Leader, TypeOK
  <2>3. QED
    BY <1>2, <2>1, <2>2 DEF Follow, dict, Promise!Board
<1>3. ASSUME NEW c \in Calls, NEW k \in Keys, Lead(c, k)
      PROVE  Promise!Open(c, k)
  <2>1. held[c] = None /\ key[c] = None /\ pc[c] = "start"
    BY <1>0, <1>3 DEF Lead, Goto, Crews
  <2>2. Verdict' = Verdict
    BY <1>0, <1>3, <2>1, VerdictStays DEF Lead, Goto, Settled, Leader, TypeOK
  <2>3. QED
    BY <1>3, <2>1, <2>2 DEF Lead, dict, Promise!Open
<1>4. ASSUME NEW c \in Calls, NEW v \in Values, ComputeReturns(c, v)
      PROVE  UNCHANGED Promise!spec
  <2>1. \A d \in Calls : /\ Settled(d)' <=> Settled(d)
                         /\ Settled(d) => local'[d] = local[d]
    BY <1>0, <1>4 DEF ComputeReturns, Goto, Settled, Leader, TypeOK
  <2>2. Verdict' = Verdict
    BY <2>1 DEF Verdict
  <2>3. QED
    BY <1>4, <2>2 DEF ComputeReturns, dict
<1>5. ASSUME NEW c \in Calls, NEW e \in Errors, ComputeRaises(c, e)
      PROVE  \E out \in Promise!Verdicts : Promise!Settle(c, out)
  <2> DEFINE out == [value |-> None, error |-> e]
  <2>1. /\ pc[c] = "computing" /\ pc' = [pc EXCEPT ![c] = "publishValue"]
        /\ local' = [local EXCEPT ![c].error = e]
        /\ UNCHANGED <<key, held, inflight, entries, outcome>>
    BY <1>5 DEF ComputeRaises, Goto, dict
  <2>2. InFlight(c) /\ held[c] = c /\ inflight[key[c]] = c /\ local[c] = Nothing
    BY <1>0, <2>1 DEF InFlight, Slots, Crews, Cells
  <2>3. local' = [local EXCEPT ![c] = out]
    <3>1. [local[c] EXCEPT !.error = e] = out
      BY <2>2 DEF Nothing
    <3>2. QED BY <2>1, <3>1
  <2>4. out # Nothing /\ out \in [value : Values \cup {None}, error : Errors \cup {None}]
    BY DEF Nothing
  <2> HIDE DEF out
  <2>5. /\ Verdict' = [Verdict EXCEPT ![c] = out] /\ Verdict[c] = Promise!Unsettled
        /\ out # Promise!Unsettled /\ out \in Promise!Verdicts
    BY <1>0, <2>1, <2>2, <2>3, <2>4, VerdictSettles
  <2>6. out.error # None
    BY DEF out
  <2>7. QED
    BY <2>1, <2>2, <2>5, <2>6 DEF Promise!Settle
<1>6. ASSUME NEW c \in Calls, Keep(c)
      PROVE  \E out \in Promise!Verdicts : Promise!Settle(c, out)
  <2>1. /\ pc[c] = "judging" /\ pc' = [pc EXCEPT ![c] = "publishValue"]
        /\ local[c].value \in Cacheable /\ Remember(key[c], local[c].value)
        /\ UNCHANGED <<key, local, held, inflight, outcome>>
    BY <1>6 DEF Keep, Goto
  <2>2. /\ InFlight(c) /\ held[c] = c /\ inflight[key[c]] = c /\ key[c] \in Keys
        /\ local[c].error = None /\ local[c].value \in Values
        /\ entries[key[c]] = None
    BY <1>0, <2>1 DEF InFlight, Slots, Crews, Cells, Store
  <2>3. /\ local' = [local EXCEPT ![c] = local[c]] /\ local[c] # Nothing
        /\ local[c] \in [value : Values \cup {None}, error : Errors \cup {None}]
    BY <1>0, <2>1, <2>2 DEF TypeOK, Nothing
  <2>4. /\ Verdict' = [Verdict EXCEPT ![c] = local[c]] /\ Verdict[c] = Promise!Unsettled
        /\ local[c] # Promise!Unsettled /\ local[c] \in Promise!Verdicts
    BY <1>0, <2>1, <2>2, <2>3, VerdictSettles
  <2>5. /\ entries' \in [Keys -> Values \cup {None}]
        /\ entries'[key[c]] = local[c].value
        /\ \A j \in Keys \ {key[c]} : entries'[j] \in {entries[j], None}
    BY <1>0, <2>1, <2>2, RememberKeepsTheDictionary
  <2> DEFINE gone == {j \in Keys \ {key[c]} : entries'[j] = None}
  <2>6. /\ gone \in SUBSET (Keys \ {key[c]})
        /\ entries' = [k \in Keys |-> IF k = key[c] THEN local[c].value
                                      ELSE IF k \in gone THEN None ELSE entries[k]]
    BY <2>5
  <2>7. QED
    BY <2>1, <2>2, <2>4, <2>6 DEF Promise!Settle
<1>7. ASSUME NEW c \in Calls, Discard(c)
      PROVE  \E out \in Promise!Verdicts : Promise!Settle(c, out)
  <2>1. /\ pc[c] = "judging" /\ pc' = [pc EXCEPT ![c] = "publishValue"]
        /\ local[c].value \notin Cacheable
        /\ UNCHANGED <<key, local, held, inflight, entries, outcome>>
    BY <1>7 DEF Discard, Goto, dict
  <2>2. /\ InFlight(c) /\ held[c] = c /\ inflight[key[c]] = c
        /\ local[c].value \in Values
    BY <1>0, <2>1 DEF InFlight, Slots, Crews, Cells
  <2>3. /\ local' = [local EXCEPT ![c] = local[c]] /\ local[c] # Nothing
        /\ local[c] \in [value : Values \cup {None}, error : Errors \cup {None}]
    BY <1>0, <2>1, <2>2 DEF TypeOK, Nothing
  <2>4. /\ Verdict' = [Verdict EXCEPT ![c] = local[c]] /\ Verdict[c] = Promise!Unsettled
        /\ local[c] # Promise!Unsettled /\ local[c] \in Promise!Verdicts
    BY <1>0, <2>1, <2>2, <2>3, VerdictSettles
  <2>5. QED
    BY <2>1, <2>2, <2>4 DEF Promise!Settle
<1>8. ASSUME NEW c \in Calls, NEW e \in Errors, JudgeRaises(c, e)
      PROVE  \E out \in Promise!Verdicts : Promise!Settle(c, out)
  <2> DEFINE out == [value |-> local[c].value, error |-> e]
  <2>1. /\ pc[c] = "judging" /\ pc' = [pc EXCEPT ![c] = "publishValue"]
        /\ local' = [local EXCEPT ![c].error = e]
        /\ UNCHANGED <<key, held, inflight, entries, outcome>>
    BY <1>8 DEF JudgeRaises, Goto, dict
  <2>2. /\ InFlight(c) /\ held[c] = c /\ inflight[key[c]] = c
        /\ local[c].value \in Values
    BY <1>0, <2>1 DEF InFlight, Slots, Crews, Cells
  <2>3. local[c] \in [value : Values \cup {None}, error : Errors \cup {None}]
    BY <1>0 DEF TypeOK
  <2>4. [local[c] EXCEPT !.error = e] = out
    BY <2>3
  <2>5. local' = [local EXCEPT ![c] = out]
    BY <2>1, <2>4
  <2>6. out # Nothing /\ out \in [value : Values \cup {None}, error : Errors \cup {None}]
    BY <2>2 DEF Nothing
  <2>7. out.error # None
    OBVIOUS
  <2> HIDE DEF out
  <2>8. /\ Verdict' = [Verdict EXCEPT ![c] = out] /\ Verdict[c] = Promise!Unsettled
        /\ out # Promise!Unsettled /\ out \in Promise!Verdicts
    BY <1>0, <2>1, <2>2, <2>5, <2>6, VerdictSettles
  <2>9. QED
    BY <2>1, <2>2, <2>7, <2>8 DEF Promise!Settle
<1>9. ASSUME NEW c \in Calls, PublishValue(c) \/ PublishError(c)
      PROVE  UNCHANGED Promise!spec
  <2>1. Verdict' = Verdict
    BY <1>0, <1>9, VerdictStays DEF PublishValue, PublishError, Goto, Settled, Leader, TypeOK
  <2>2. QED
    BY <1>9, <2>1 DEF PublishValue, PublishError, dict
<1>10. ASSUME NEW c \in Calls, Release(c)
       PROVE  Promise!Close(c)
  <2>1. Verdict' = Verdict
    BY <1>0, <1>10, VerdictStays DEF Release, Goto, Settled, Leader, TypeOK
  <2>2. /\ InFlight(c) /\ held[c] = c /\ inflight[key[c]] = c
        /\ Verdict[c] = local[c] /\ local[c] # Nothing
    BY <1>0, <1>10 DEF Release, Goto, InFlight, Slots, Crews, Cells, Settled, Leader, Verdict
  <2>3. QED
    BY <1>10, <2>1, <2>2 DEF Release, dict, Promise!Close, Promise!Unsettled, Nothing
<1>11. ASSUME NEW c \in Calls, Wake(c)
       PROVE  Promise!Tell(c)
  <2>1. Verdict' = Verdict
    BY <1>0, <1>11, VerdictStays DEF Wake, Goto, Settled, Leader, TypeOK
  <2>2. /\ pc[c] = "wake" /\ held[c] = c /\ key[c] \in Keys
        /\ Verdict[c] = local[c] /\ local[c] # Nothing
        /\ outcome[c] = NoOutcome
    BY <1>0, <1>11 DEF Wake, Goto, Crews, Cells, Quiet, Settled, Leader, Verdict
  <2>3. inflight[key[c]] # c
    BY <1>0, <2>2 DEF Slots, InFlight
  <2>4. QED
    BY <1>11, <2>1, <2>2, <2>3
       DEF Wake, dict, Promise!Tell, Promise!Unsettled, Promise!Untold, Nothing, NoOutcome
<1>12. ASSUME NEW c \in Calls, FollowerRaises(c) \/ FollowerReturns(c)
       PROVE  Promise!Tell(c)
  <2>1. /\ pc[c] = "waiting" /\ held[c] \in Calls /\ held[c] # c /\ held[held[c]] = held[c]
        /\ key[held[c]] = key[c] /\ key[c] \in Keys /\ outcome[c] = NoOutcome
        /\ pending[held[c]].set
    BY <1>0, <1>12 DEF FollowerRaises, FollowerReturns, Crews, Follower, Quiet, TypeOK
  <2>2. pc[held[c]] = "done"
    BY <1>0, <2>1 DEF Cells, Leader
  <2>3. /\ pending[held[c]].value = local[held[c]].value
        /\ pending[held[c]].error = local[held[c]].error
    BY <1>0, <2>1, <2>2 DEF Cells, Leader
  <2>4. Verdict[held[c]] = local[held[c]] /\ local[held[c]] # Nothing
    BY <1>0, <2>1, <2>2 DEF Verdict, Settled, Leader, Cells
  <2>5. inflight[key[held[c]]] # held[c]
    BY <1>0, <2>1, <2>2 DEF Slots, InFlight
  <2>6. Verdict' = Verdict
    BY <1>0, <1>12, <2>1, VerdictStays
       DEF FollowerRaises, FollowerReturns, Goto, Settled, Leader, TypeOK
  <2>7. outcome' = [outcome EXCEPT ![c] =
          IF local[held[c]].error # None
          THEN [value |-> None, error |-> local[held[c]].error, hit |-> FALSE]
          ELSE [value |-> local[held[c]].value, error |-> None, hit |-> c # held[c]]]
    BY <1>12, <2>1, <2>3 DEF FollowerRaises, FollowerReturns
  <2>8. UNCHANGED <<key, held, inflight, entries>>
    BY <1>12 DEF FollowerRaises, FollowerReturns, dict
  <2>9. QED
    BY <2>1, <2>4, <2>5, <2>6, <2>7, <2>8
       DEF Promise!Tell, Promise!Unsettled, Promise!Untold, Nothing, NoOutcome
<1>13. ASSUME Clear
       PROVE  Promise!Forget(Keys)
  <2>1. Verdict' = Verdict
    BY <1>13 DEF Clear, Verdict, Settled, Leader
  <2>2. QED
    BY <1>13, <2>1 DEF Clear, Promise!Forget
<1>14. ASSUME UNCHANGED vars
       PROVE  UNCHANGED Promise!spec
  BY <1>14 DEF vars, Verdict, Settled, Leader
<1>15. QED
  BY <1>1, <1>2, <1>3, <1>4, <1>5, <1>6, <1>7, <1>8, <1>9, <1>10, <1>11, <1>12, <1>13, <1>14
     DEF Next, Enter, Step, Compute, Judge, Finish, Resume, AllReturned, Promise!Next

(* The cache, with its locks, events and evictions, keeps the promise.     *)
THEOREM CacheImplementsSingleFlight == Spec => ImplementsSingleFlight
<1>1. IInv /\ [Next]_vars => [Promise!Next]_(Promise!spec)
  BY StepRefines
<1>2. QED
  BY InitRefines, <1>1, IInvHolds, PTL DEF Spec, ImplementsSingleFlight, Promise!Spec

(* How far a call is from its return.                                      *)
Left(c) ==
  CASE pc[c] = "start"        -> 8
    [] pc[c] = "computing"    -> 7
    [] pc[c] = "judging"      -> 6
    [] pc[c] = "publishValue" -> 5
    [] pc[c] = "publishError" -> 4
    [] pc[c] = "release"      -> 3
    [] pc[c] = "wake"         -> 2
    [] pc[c] = "waiting"      -> 1
    [] OTHER                  -> 0

(* Whoever moves, no call goes back, and a step of its own takes it on.    *)
Onward(c) == Left(c)' <= Left(c) /\ (Step(c) => Left(c)' < Left(c))
EveryStepIsOnward == [][\A c \in Calls : Onward(c)]_vars

(* Entering, or a step of its own, takes a call on and leaves the others.  *)
LEMMA StepIsOnward ==
  ASSUME TypeOK, NEW c \in Calls, Enter(c) \/ Step(c)
  PROVE  /\ Left(c)' < Left(c)
         /\ \A d \in Calls \ {c} : pc'[d] = pc[d]
<1> USE DEF TypeOK, Goto
<1>1. CASE Enter(c)
  <2>1. pc[c] = "start" /\ \E to \in {"done", "waiting", "computing"} : pc' = [pc EXCEPT ![c] = to]
    BY <1>1 DEF Enter, Hit, Follow, Lead
  <2>2. QED
    BY <2>1 DEF Left
<1>2. CASE Compute(c)
  <2>1. pc[c] = "computing"
        /\ \E to \in {"judging", "publishValue"} : pc' = [pc EXCEPT ![c] = to]
    BY <1>2 DEF Compute, ComputeReturns, ComputeRaises
  <2>2. QED
    BY <2>1 DEF Left
<1>3. CASE Judge(c)
  <2>1. pc[c] = "judging" /\ pc' = [pc EXCEPT ![c] = "publishValue"]
    BY <1>3 DEF Judge, Keep, Discard, JudgeRaises
  <2>2. QED
    BY <2>1 DEF Left
<1>4. CASE Finish(c)
  BY <1>4 DEF Finish, PublishValue, PublishError, Release, Wake, Left
<1>5. CASE Resume(c)
  BY <1>5 DEF Resume, FollowerRaises, FollowerReturns, Left
<1>6. QED
  BY <1>1, <1>2, <1>3, <1>4, <1>5 DEF Step

(* However calls interleave, evict and clear, a call that has entered      *)
(* takes at most seven steps of its own, none of them twice, and one that  *)
(* waits waits for a call that has not returned, or is free to go: what    *)
(* EveryCallReturns needs of the code, apart from the scheduler.           *)
THEOREM CallsRunOut == Spec => EveryStepIsOnward /\ []NoStrandedWaiter
<1>1. TypeOK /\ [Next]_vars => [\A c \in Calls : Onward(c)]_vars
  <2>1. SUFFICES ASSUME TypeOK, [Next]_vars, NEW c \in Calls, vars' # vars PROVE Onward(c)
    OBVIOUS
  <2>2. ASSUME NEW d \in Calls, Enter(d) \/ Step(d) PROVE Left(c)' <= Left(c)
    <3>1. CASE d = c
      <4>1. Left(c)' < Left(c)
        BY <2>1, <2>2, <3>1, StepIsOnward
      <4>2. QED
        BY <4>1 DEF Left
    <3>2. CASE d # c
      <4>1. pc'[c] = pc[c]
        BY <2>1, <2>2, <3>2, StepIsOnward
      <4>2. QED
        BY <4>1 DEF Left
    <3>3. QED
      BY <3>1, <3>2
  <2>3. ASSUME Clear \/ AllReturned PROVE Left(c)' <= Left(c)
    BY <2>3 DEF Clear, AllReturned, vars, Left
  <2>4. Left(c)' <= Left(c)
    BY <2>1, <2>2, <2>3 DEF Next
  <2>5. Step(c) => Left(c)' < Left(c)
    BY <2>1, StepIsOnward
  <2>6. QED
    BY <2>4, <2>5 DEF Onward
<1>2. QED
  BY <1>1, TypeCorrect, WaitersHaveAWaker, PTL DEF Spec, EveryStepIsOnward
=============================================================================
