---------------------------- MODULE AnswerCache ----------------------------
(***************************************************************************)
(* The answer cache of api/http/cache.py: get_or_compute, _remember and    *)
(* clear, run by the request threads of one process.                       *)
(*                                                                         *)
(* One element of Calls is one invocation of get_or_compute.  A `with      *)
(* _lock` block is one action, because everything _lock guards is only     *)
(* touched inside such blocks; every statement outside the lock that       *)
(* another thread can observe is an action of its own.  A _Pending object  *)
(* is named by the call that created it, so a follower that wakes late     *)
(* still holds the object it joined and not a later one for the same key.  *)
(***************************************************************************)
EXTENDS Naturals, Sequences

CONSTANTS
  Calls,       \* invocations of get_or_compute
  Keys,        \* cache keys
  Values,      \* what compute() may return
  Cacheable,   \* the values the caller's `cacheable` predicate accepts
  Errors,      \* what compute() or cacheable() may raise
  CacheLimit,  \* CACHE_LIMIT
  None         \* Python's None: no value, no error, no call

ASSUME CacheAssumption ==
  /\ Cacheable \subseteq Values
  /\ CacheLimit \in Nat \ {0}
  /\ None \notin Calls /\ None \notin Keys
  /\ None \notin Values /\ None \notin Errors

VARIABLES
  pc,        \* where each call stands in get_or_compute
  key,       \* the key each call was made with
  local,     \* a leader's local variables `value` and `error`
  held,      \* the _Pending a call holds, named by its leader
  pending,   \* the contents of each _Pending
  inflight,  \* _inflight
  entries,   \* _entries, as a mapping
  order,     \* _entries, as an insertion order: oldest key first
  outcome    \* what each call returned or raised

vars == <<pc, key, local, held, pending, inflight, entries, order, outcome>>
dict == <<entries, order>>

Sites == {"start", "waiting", "computing", "judging", "publishValue",
          "publishError", "release", "wake", "done"}

Nothing == [value |-> None, error |-> None]
NoOutcome == [value |-> None, error |-> None, hit |-> FALSE]
NewPending == [value |-> None, error |-> None, set |-> FALSE]

TypeOK ==
  /\ pc \in [Calls -> Sites]
  /\ key \in [Calls -> Keys \cup {None}]
  /\ local \in [Calls -> [value : Values \cup {None}, error : Errors \cup {None}]]
  /\ held \in [Calls -> Calls \cup {None}]
  /\ pending \in [Calls -> [value : Values \cup {None},
                            error : Errors \cup {None}, set : BOOLEAN]]
  /\ inflight \in [Keys -> Calls \cup {None}]
  /\ entries \in [Keys -> Values \cup {None}]
  /\ order \in Seq(Keys) /\ Len(order) <= CacheLimit
  /\ outcome \in [Calls -> [value : Values \cup {None},
                            error : Errors \cup {None}, hit : BOOLEAN]]

Init ==
  /\ pc = [c \in Calls |-> "start"]
  /\ key = [c \in Calls |-> None]
  /\ local = [c \in Calls |-> Nothing]
  /\ held = [c \in Calls |-> None]
  /\ pending = [c \in Calls |-> NewPending]
  /\ inflight = [k \in Keys |-> None]
  /\ entries = [k \in Keys |-> None]
  /\ order = <<>>
  /\ outcome = [c \in Calls |-> NoOutcome]

Goto(c, from, to) == pc[c] = from /\ pc' = [pc EXCEPT ![c] = to]

----------------------------------------------------------------------------
(* Faulty variants: the definition each is named after, as a plausible bug *)
(* would have it.  Only the mutation runs of PROJECT.json use them.        *)

RememberUnbounded(k, v) ==
  /\ order' = IF entries[k] = None THEN Append(order, k) ELSE order
  /\ entries' = [entries EXCEPT ![k] = v]

RememberEvictingLast(k, v) ==
  LET full == entries[k] = None /\ Len(order) = CacheLimit
      last == order[Len(order)]
  IN  /\ order' = IF full THEN Append(SubSeq(order, 1, Len(order) - 1), k)
                  ELSE IF entries[k] = None THEN Append(order, k) ELSE order
      /\ entries' = [j \in Keys |-> IF j = k THEN v
                                    ELSE IF full /\ j = last THEN None
                                    ELSE entries[j]]

LeadWithoutLooking(c, k) ==
  /\ entries[k] = None
  /\ Goto(c, "start", "computing")
  /\ key' = [key EXCEPT ![c] = k]
  /\ held' = [held EXCEPT ![c] = c]
  /\ pending' = [pending EXCEPT ![c] = NewPending]
  /\ inflight' = [inflight EXCEPT ![k] = c]
  /\ UNCHANGED <<local, dict, outcome>>

ComputeReturnsAndReleases(c, v) ==
  /\ Goto(c, "computing", "judging")
  /\ local' = [local EXCEPT ![c].value = v]
  /\ inflight' = [inflight EXCEPT ![key[c]] = None]
  /\ UNCHANGED <<key, held, pending, dict, outcome>>

ComputeRaisesOutright(c, e) ==
  /\ Goto(c, "computing", "done")
  /\ local' = [local EXCEPT ![c].error = e]
  /\ outcome' = [outcome EXCEPT ![c].error = e]
  /\ UNCHANGED <<key, held, pending, inflight, dict>>

PublishValueAfterSetting(c) ==
  /\ Goto(c, "publishValue", "publishError")
  /\ pending' = [pending EXCEPT ![c].value = local[c].value, ![c].set = TRUE]
  /\ UNCHANGED <<key, local, held, inflight, dict, outcome>>

FollowerReturnsAMiss(c) ==
  /\ pc[c] = "waiting" /\ pending[held[c]].set
  /\ pending[held[c]].error = None
  /\ Goto(c, "waiting", "done")
  /\ outcome' = [outcome EXCEPT ![c].value = pending[held[c]].value]
  /\ UNCHANGED <<key, local, held, pending, inflight, dict>>

----------------------------------------------------------------------------
(* The first `with _lock` block: a hit, a follower or a leader.            *)

Hit(c, k) ==
  /\ entries[k] # None
  /\ Goto(c, "start", "done")
  /\ key' = [key EXCEPT ![c] = k]
  /\ outcome' = [outcome EXCEPT ![c] =
                   [value |-> entries[k], error |-> None, hit |-> TRUE]]
  /\ UNCHANGED <<local, held, pending, inflight, dict>>

Follow(c, k) ==
  /\ entries[k] = None /\ inflight[k] # None
  /\ Goto(c, "start", "waiting")
  /\ key' = [key EXCEPT ![c] = k]
  /\ held' = [held EXCEPT ![c] = inflight[k]]
  /\ UNCHANGED <<local, pending, inflight, dict, outcome>>

Lead(c, k) ==
  /\ entries[k] = None /\ inflight[k] = None
  /\ Goto(c, "start", "computing")
  /\ key' = [key EXCEPT ![c] = k]
  /\ held' = [held EXCEPT ![c] = c]
  /\ pending' = [pending EXCEPT ![c] = NewPending]
  /\ inflight' = [inflight EXCEPT ![k] = c]
  /\ UNCHANGED <<local, dict, outcome>>

----------------------------------------------------------------------------
(* The leader: compute() outside the lock, then the second locked block.   *)

ComputeReturns(c, v) ==
  /\ Goto(c, "computing", "judging")
  /\ local' = [local EXCEPT ![c].value = v]
  /\ UNCHANGED <<key, held, pending, inflight, dict, outcome>>

ComputeRaises(c, e) ==
  /\ Goto(c, "computing", "publishValue")
  /\ local' = [local EXCEPT ![c].error = e]
  /\ UNCHANGED <<key, held, pending, inflight, dict, outcome>>

(* _remember.  Assigning to a key already present keeps its position; the  *)
(* keys in front of the last CacheLimit are deleted.                       *)
Remember(k, v) ==
  LET kept   == IF entries[k] = None THEN Append(order, k) ELSE order
      excess == IF Len(kept) > CacheLimit THEN Len(kept) - CacheLimit ELSE 0
      evicted == {kept[i] : i \in 1..excess}
  IN  /\ order' = SubSeq(kept, excess + 1, Len(kept))
      /\ entries' = [j \in Keys |-> IF j \in evicted THEN None
                                    ELSE IF j = k THEN v ELSE entries[j]]

KeepAnything(c) ==   \* a faulty variant of Keep
  /\ Goto(c, "judging", "publishValue")
  /\ Remember(key[c], local[c].value)
  /\ UNCHANGED <<key, local, held, pending, inflight, outcome>>

Keep(c) ==
  /\ local[c].value \in Cacheable
  /\ Goto(c, "judging", "publishValue")
  /\ Remember(key[c], local[c].value)
  /\ UNCHANGED <<key, local, held, pending, inflight, outcome>>

Discard(c) ==
  /\ local[c].value \notin Cacheable
  /\ Goto(c, "judging", "publishValue")
  /\ UNCHANGED <<key, local, held, pending, inflight, dict, outcome>>

(* cacheable(value) itself raises: `value` stays set beside the error.     *)
JudgeRaises(c, e) ==
  /\ Goto(c, "judging", "publishValue")
  /\ local' = [local EXCEPT ![c].error = e]
  /\ UNCHANGED <<key, held, pending, inflight, dict, outcome>>

----------------------------------------------------------------------------
(* The `finally` block, statement by statement.                            *)

PublishValue(c) ==
  /\ Goto(c, "publishValue", "publishError")
  /\ pending' = [pending EXCEPT ![c].value = local[c].value]
  /\ UNCHANGED <<key, local, held, inflight, dict, outcome>>

PublishError(c) ==
  /\ Goto(c, "publishError", "release")
  /\ pending' = [pending EXCEPT ![c].error = local[c].error]
  /\ UNCHANGED <<key, local, held, inflight, dict, outcome>>

Release(c) ==
  /\ Goto(c, "release", "wake")
  /\ inflight' = [inflight EXCEPT ![key[c]] = None]
  /\ UNCHANGED <<key, local, held, pending, dict, outcome>>

(* event.set(), and the leader returns its value or re-raises its error.   *)
Wake(c) ==
  /\ Goto(c, "wake", "done")
  /\ pending' = [pending EXCEPT ![c].set = TRUE]
  /\ outcome' = [outcome EXCEPT ![c] =
                   IF local[c].error # None
                   THEN [value |-> None, error |-> local[c].error, hit |-> FALSE]
                   ELSE [value |-> local[c].value, error |-> None, hit |-> FALSE]]
  /\ UNCHANGED <<key, local, held, inflight, dict>>

----------------------------------------------------------------------------
(* A follower past event.wait().                                           *)

FollowerRaises(c) ==
  /\ pc[c] = "waiting" /\ pending[held[c]].set
  /\ pending[held[c]].error # None
  /\ Goto(c, "waiting", "done")
  /\ outcome' = [outcome EXCEPT ![c] =
                   [value |-> None, error |-> pending[held[c]].error, hit |-> FALSE]]
  /\ UNCHANGED <<key, local, held, pending, inflight, dict>>

FollowerReturns(c) ==
  /\ pc[c] = "waiting" /\ pending[held[c]].set
  /\ pending[held[c]].error = None
  /\ Goto(c, "waiting", "done")
  /\ outcome' = [outcome EXCEPT ![c] =
                   [value |-> pending[held[c]].value, error |-> None, hit |-> TRUE]]
  /\ UNCHANGED <<key, local, held, pending, inflight, dict>>

(* clear(): the entries go, the computations in flight stay.               *)
Clear ==
  /\ order # <<>>
  /\ entries' = [k \in Keys |-> None]
  /\ order' = <<>>
  /\ UNCHANGED <<pc, key, local, held, pending, inflight, outcome>>

----------------------------------------------------------------------------
Enter(c) == \E k \in Keys : Hit(c, k) \/ Follow(c, k) \/ Lead(c, k)

Compute(c) ==
  \/ \E v \in Values : ComputeReturns(c, v)
  \/ \E e \in Errors : ComputeRaises(c, e)

Judge(c) == Keep(c) \/ Discard(c) \/ \E e \in Errors : JudgeRaises(c, e)

Finish(c) == PublishValue(c) \/ PublishError(c) \/ Release(c) \/ Wake(c)

Resume(c) == FollowerRaises(c) \/ FollowerReturns(c)

(* What a call does once it is inside get_or_compute.                      *)
Step(c) == Compute(c) \/ Judge(c) \/ Finish(c) \/ Resume(c)

(* Every call has returned: the process has nothing left to do.            *)
AllReturned == (\A c \in Calls : pc[c] = "done") /\ UNCHANGED vars

Next ==
  \/ \E c \in Calls : Enter(c) \/ Step(c)
  \/ Clear
  \/ AllReturned

(* A thread that is inside get_or_compute keeps being scheduled, and       *)
(* compute() ends: the agent makes a bounded number of provider calls, each *)
(* under a client timeout, and every statement under a server timeout.     *)
(* Nobody is obliged to ask a question or to clear the cache.              *)
Fairness == \A c \in Calls : WF_vars(Step(c))

Spec == Init /\ [][Next]_vars
FairSpec == Spec /\ Fairness

----------------------------------------------------------------------------
(* Properties.                                                             *)

(* The call holds the in-flight slot of its key: from registering its      *)
(* _Pending until it pops it in the `finally`.                             *)
InFlight(c) ==
  pc[c] \in {"computing", "judging", "publishValue", "publishError", "release"}

Leader(c) == held[c] = c
Follower(c) == held[c] \notin {c, None}

(* "Computing at most once per key concurrently": no two calls are between *)
(* registering and releasing the same key, whatever is evicted or cleared  *)
(* meanwhile, and the key of each is marked in _inflight.                  *)
AtMostOnceConcurrently ==
  \A c, d \in Calls :
    InFlight(c) /\ InFlight(d) /\ key[c] = key[d] => c = d

(* A follower answers its own question with exactly what its leader        *)
(* produced: the error if there was one, otherwise the value, and never a  *)
(* field read before it was published.                                     *)
SharesTheOutcome(c) ==
  LET l == held[c] IN
    /\ key[c] = key[l]
    /\ IF local[l].error # None
       THEN outcome[c] = [value |-> None, error |-> local[l].error, hit |-> FALSE]
       ELSE outcome[c] = [value |-> local[l].value, error |-> None, hit |-> TRUE]

FollowersShareTheOutcome ==
  \A c \in Calls : Follower(c) /\ pc[c] = "done" => SharesTheOutcome(c)

(* No waiter is ever stranded: the call it waits on either has not reached *)
(* event.set() yet, or has set the event, whichever way compute() ended.   *)
NoStrandedWaiter ==
  \A c \in Calls :
    pc[c] = "waiting" =>
      /\ held[c] \in Calls
      /\ \/ InFlight(held[c]) /\ inflight[key[c]] = held[c]
         \/ pc[held[c]] = "wake"
         \/ pending[held[c]].set

(* What is stored was earned: each stored value is one `cacheable` accepts, *)
(* computed for that very key by a call that did not fail.  A failure is   *)
(* never kept.                                                             *)
EntriesAreEarned ==
  \A k \in Keys :
    entries[k] # None =>
      /\ entries[k] \in Cacheable
      /\ \E c \in Calls : /\ Leader(c) /\ key[c] = k
                          /\ local[c] = [value |-> entries[k], error |-> None]

(* The mapping and the insertion order are one dictionary: the order lists *)
(* every stored key exactly once.                                          *)
OneDictionary ==
  /\ \A k \in Keys : entries[k] # None <=> \E i \in 1..Len(order) : order[i] = k
  /\ \A i, j \in 1..Len(order) : order[i] = order[j] => i = j

(* An answer once stored is never overwritten by another one: it changes   *)
(* only by being evicted or cleared.                                       *)
AnswersAreStable ==
  [][\A k \in Keys : entries[k] # None => entries'[k] \in {entries[k], None}]_vars

(* A step that forgets an answer without clearing the cache had a full     *)
(* cache, stored another answer, and dropped the oldest one.               *)
ForgetsOnlyTheOldest ==
  [][\A k \in Keys :
       entries[k] # None /\ entries'[k] = None /\ order' # <<>> =>
         /\ Len(order) = CacheLimit
         /\ k = order[1]
         /\ \E j \in Keys : entries[j] = None /\ entries'[j] # None]_vars

(* The cache implements SingleFlight.  A flight is settled when the leader *)
(* leaves compute() and the judging block; what a call is told is what it  *)
(* returned or raised.                                                     *)
Settled(c) == Leader(c) /\ pc[c] \in {"publishValue", "publishError", "release",
                                     "wake", "done"}

Verdict == [c \in Calls |-> IF Settled(c) THEN local[c] ELSE Nothing]

Promise == INSTANCE SingleFlight WITH
  asked <- key, aboard <- held, flight <- inflight, memory <- entries,
  verdict <- Verdict, reply <- outcome

ImplementsSingleFlight == Promise!Spec

(* Every call that entered get_or_compute leaves it.                       *)
EveryCallReturns == \A c \in Calls : pc[c] # "start" ~> pc[c] = "done"

=============================================================================
