---------------------------- MODULE SingleFlight ----------------------------
(***************************************************************************)
(* What the answer cache promises its callers, with no lock, event or      *)
(* eviction order in it.  For each question at most one flight is open.    *)
(* Whoever asks is answered from memory, boards the open flight, or opens  *)
(* one; the flight is settled once, with a value or an error; it is closed *)
(* to newcomers; and then everybody aboard is told the same thing.  Memory *)
(* may forget any answer at any time, and remembers exactly the values     *)
(* worth keeping, at the moment their flight is settled.                   *)
(***************************************************************************)
EXTENDS Naturals

CONSTANTS Calls, Keys, Values, Cacheable, Errors, None

VARIABLES
  asked,    \* the key each call asked for, None before it asks
  aboard,   \* the call whose flight each call is on, None for neither
  flight,   \* the call that opened the flight open for each key
  memory,   \* the answer remembered for each key
  verdict,  \* how the flight of each call was settled, Unsettled until it is
  reply     \* what each call was told, Untold until it is

spec == <<asked, aboard, flight, memory, verdict, reply>>

Verdicts == [value : Values \cup {None}, error : Errors \cup {None}]

Unsettled == [value |-> None, error |-> None]
Untold == [value |-> None, error |-> None, hit |-> FALSE]

Init ==
  /\ asked = [c \in Calls |-> None]
  /\ aboard = [c \in Calls |-> None]
  /\ flight = [k \in Keys |-> None]
  /\ memory = [k \in Keys |-> None]
  /\ verdict = [c \in Calls |-> Unsettled]
  /\ reply = [c \in Calls |-> Untold]

FromMemory(c, k) ==
  /\ asked[c] = None /\ memory[k] # None
  /\ asked' = [asked EXCEPT ![c] = k]
  /\ reply' = [reply EXCEPT ![c] = [value |-> memory[k], error |-> None, hit |-> TRUE]]
  /\ UNCHANGED <<aboard, flight, memory, verdict>>

Board(c, k) ==
  /\ asked[c] = None /\ memory[k] = None /\ flight[k] # None
  /\ asked' = [asked EXCEPT ![c] = k]
  /\ aboard' = [aboard EXCEPT ![c] = flight[k]]
  /\ UNCHANGED <<flight, memory, verdict, reply>>

Open(c, k) ==
  /\ asked[c] = None /\ memory[k] = None /\ flight[k] = None
  /\ asked' = [asked EXCEPT ![c] = k]
  /\ aboard' = [aboard EXCEPT ![c] = c]
  /\ flight' = [flight EXCEPT ![k] = c]
  /\ UNCHANGED <<memory, verdict, reply>>

(* The flight of c is settled.  An answer worth keeping is remembered,     *)
(* for a question that has none, and may push others out; nothing else is. *)
Settle(c, out) ==
  /\ aboard[c] = c /\ verdict[c] = Unsettled /\ flight[asked[c]] = c
  /\ out # Unsettled
  /\ verdict' = [verdict EXCEPT ![c] = out]
  /\ IF out.error = None /\ out.value \in Cacheable
     THEN /\ memory[asked[c]] = None
          /\ \E gone \in SUBSET (Keys \ {asked[c]}) :
               memory' = [k \in Keys |-> IF k = asked[c] THEN out.value
                                         ELSE IF k \in gone THEN None ELSE memory[k]]
     ELSE memory' = memory
  /\ UNCHANGED <<asked, aboard, flight, reply>>

Close(c) ==
  /\ aboard[c] = c /\ verdict[c] # Unsettled /\ flight[asked[c]] = c
  /\ flight' = [flight EXCEPT ![asked[c]] = None]
  /\ UNCHANGED <<asked, aboard, memory, verdict, reply>>

(* Everybody aboard a closed flight is told its verdict; only the call     *)
(* that opened it paid, so everyone else is told it was a hit.             *)
Tell(c) ==
  /\ asked[c] # None /\ aboard[c] # None /\ reply[c] = Untold
  /\ LET l == aboard[c] IN
       /\ verdict[l] # Unsettled /\ flight[asked[l]] # l /\ asked[l] = asked[c]
       /\ reply' = [reply EXCEPT ![c] =
            IF verdict[l].error # None
            THEN [value |-> None, error |-> verdict[l].error, hit |-> FALSE]
            ELSE [value |-> verdict[l].value, error |-> None, hit |-> c # l]]
  /\ UNCHANGED <<asked, aboard, flight, memory, verdict>>

Forget(gone) ==
  /\ memory' = [k \in Keys |-> IF k \in gone THEN None ELSE memory[k]]
  /\ UNCHANGED <<asked, aboard, flight, verdict, reply>>

Next ==
  \/ \E c \in Calls, k \in Keys : FromMemory(c, k) \/ Board(c, k) \/ Open(c, k)
  \/ \E c \in Calls : Close(c) \/ Tell(c)
  \/ \E c \in Calls, out \in Verdicts : Settle(c, out)
  \/ \E gone \in SUBSET Keys : Forget(gone)

Spec == Init /\ [][Next]_spec
=============================================================================
