----------------------------- MODULE AskService -----------------------------
(***************************************************************************)
(* POST /ask of api/main.py, run by the request threads of one process: a  *)
(* question is weighed against the daily ceiling, answered by the cache or *)
(* by a run of the agent, shown to the quota observer, written to the      *)
(* history and returned.                                                   *)
(*                                                                         *)
(* The parts are taken at their word.  The cache is the promise SingleFlight *)
(* that AnswerCache implements, so a flight here stands for its locks and  *)
(* events.  A reservation and a history row are single steps that may fail, *)
(* as the theorems about HistoryStore allow.  A run of the agent is one     *)
(* step that costs something and comes to an answer, as in AgentLoop, or   *)
(* raises.  A member of Questions is a question put to one target.         *)
(***************************************************************************)
EXTENDS Naturals

CONSTANTS
  Requests,     \* invocations of ask()
  Questions,    \* a question and the target it is put to
  MaxVersion,   \* bound: how often the target's schema changes
  MaxCost,      \* bound: the usage of one run, MAX_PROVIDER_CALLS in calls
  MaxRestarts,  \* bound: how often the process dies
  Telemetry,    \* whether a run's provider has a rate-limit snapshot to hand over
  None          \* no request, no key, no answer, no row

ASSUME ServiceAssumption ==
  /\ MaxVersion \in Nat /\ MaxCost \in Nat /\ MaxRestarts \in Nat
  /\ Telemetry \subseteq BOOLEAN
  /\ None \notin Requests

VARIABLES
  at,         \* where each request stands
  question,   \* what it asks
  read,       \* the schema its fingerprints were taken from
  answer,     \* its _Answered: the result, and whether this was a cache hit
  spent,      \* the usage its own run of the agent reported
  reading,    \* the provider call its rate-limit snapshot comes from, or 0
  response,   \* what the client was told
  charged,    \* the requests the daily ledger has counted
  rows,       \* the history row of each request: its usage and cache_hit
  catalogue,  \* the version of the target's schema
  clock,      \* the provider calls that reported their limits so far
  quota,      \* quota._snapshot: the call it comes from, or 0
  restarts,   \* how often the process has died
  asked, aboard, flight, memory, verdict, reply   \* the cache: SingleFlight

durable == <<charged, rows>>
world == <<catalogue, clock, restarts>>
cache == <<asked, aboard, flight, memory, verdict, reply>>
vars == <<at, question, read, answer, spent, reading, response, durable, world,
          quota, cache>>

Versions == 0..MaxVersion
Keys == Questions \X Versions   \* cache_key

\* AgentResult: its verdict, its usage and the schema its prompt rendered.
Result == [ok : BOOLEAN, usage : 0..MaxCost, prompt : Versions \cup {None}]
Row == [usage : 0..MaxCost, hit : BOOLEAN]
NoAnswer == [value |-> None, hit |-> FALSE]

\* _is_cacheable.
IsCacheableAlways == Result   \* faulty: a failure is kept as well
IsCacheable == {result \in Result : result.ok}

Cache == INSTANCE SingleFlight WITH
  Calls <- Requests, Values <- Result, Cacheable <- IsCacheable, Errors <- {"raised"}

Sites == {"idle", "reading", "asking", "bypassing", "computing", "closing",
          "waiting", "observing", "recording", "responding", "done", "died"}
Responses == {"refused", "raised", "answered", "unrecorded"}

ASSUME NoneAssumption == None \notin Result /\ None \notin Responses /\ None \notin Keys

TypeOK ==
  /\ at \in [Requests -> Sites]
  /\ question \in [Requests -> Questions \cup {None}]
  /\ read \in [Requests -> Versions \cup {None}]
  /\ answer \in [Requests -> [value : Result \cup {None}, hit : BOOLEAN]]
  /\ spent \in [Requests -> 0..MaxCost]
  /\ reading \in [Requests -> Nat] /\ clock \in Nat /\ quota \in Nat
  /\ response \in [Requests -> Responses \cup {None}]
  /\ charged \subseteq Requests
  /\ rows \in [Requests -> Row \cup {None}]
  /\ catalogue \in Versions /\ restarts \in 0..MaxRestarts
  /\ asked \in [Requests -> Keys \cup {None}]
  /\ aboard \in [Requests -> Requests \cup {None}]
  /\ flight \in [Keys -> Requests \cup {None}]
  /\ memory \in [Keys -> Result \cup {None}]
  /\ verdict \in [Requests -> Cache!Verdicts]
  /\ reply \in [Requests -> [value : Result \cup {None},
                             error : {"raised", None}, hit : BOOLEAN]]

Init ==
  /\ at = [r \in Requests |-> "idle"]
  /\ question = [r \in Requests |-> None] /\ read = [r \in Requests |-> None]
  /\ answer = [r \in Requests |-> NoAnswer]
  /\ spent = [r \in Requests |-> 0] /\ reading = [r \in Requests |-> 0]
  /\ response = [r \in Requests |-> None]
  /\ charged = {} /\ rows = [r \in Requests |-> None]
  /\ catalogue = 0 /\ clock = 0 /\ quota = 0 /\ restarts = 0
  /\ Cache!Init

Goto(r, from, to) == at[r] = from /\ at' = [at EXCEPT ![r] = to]
Told(r, what) == response' = [response EXCEPT ![r] = what]
Key(r) == <<question[r], read[r]>>

----------------------------------------------------------------------------
(* Faulty variants: the definition each is named after, as a plausible bug *)
(* would have it.  Only the mutation runs of PROJECT.json use them.        *)

RefuseOpen(r, q) ==   \* a ledger that cannot be read lets the question through
  /\ Goto(r, "idle", "reading")
  /\ question' = [question EXCEPT ![r] = q]
  /\ UNCHANGED <<read, answer, spent, reading, response, durable, world, quota, cache>>

PromptReadAgain(r) == {catalogue, None}   \* the schema is not handed on

EffectiveUsageOfTheResult(r) == answer[r].value.usage   \* a hit is billed again

RaiseUnpublished(r, cost) ==   \* the flight of a run that raised stays open
  /\ Goto(r, "computing", "done")
  /\ spent' = [spent EXCEPT ![r] = cost]
  /\ Told(r, "raised")
  /\ UNCHANGED <<question, read, answer, reading, durable, world, quota, cache>>

----------------------------------------------------------------------------
(* The door: the target, and the daily ceiling.                            *)

UnknownDatabase(r) ==
  /\ Goto(r, "idle", "done")
  /\ Told(r, "refused")
  /\ UNCHANGED <<question, read, answer, spent, reading, durable, world, quota, cache>>

\* A ceiling is reached, or the ledger is unavailable: nothing is charged.
Refuse(r, q) ==
  /\ Goto(r, "idle", "done")
  /\ question' = [question EXCEPT ![r] = q]
  /\ Told(r, "refused")
  /\ UNCHANGED <<read, answer, spent, reading, durable, world, quota, cache>>

\* reserve_question lets an OSError escape, and so does ask().
ReserveRaises(r) ==
  /\ Goto(r, "idle", "done")
  /\ Told(r, "raised")
  /\ UNCHANGED <<question, read, answer, spent, reading, durable, world, quota, cache>>

Admit(r, q) ==
  /\ Goto(r, "idle", "reading")
  /\ question' = [question EXCEPT ![r] = q]
  /\ charged' = charged \cup {r}
  /\ UNCHANGED <<read, answer, spent, reading, response, rows, world, quota, cache>>

----------------------------------------------------------------------------
(* _answer_or_replay: the fingerprints, and then the cache or its bypass.  *)

ReadSchema(r) ==
  /\ Goto(r, "reading", "asking")
  /\ read' = [read EXCEPT ![r] = catalogue]
  /\ UNCHANGED <<question, answer, spent, reading, response, durable, world, quota, cache>>

SchemaUnreadable(r) ==
  /\ Goto(r, "reading", "bypassing")
  /\ UNCHANGED <<question, read, answer, spent, reading, response, durable, world,
                 quota, cache>>

Answer(r, value, hit) == answer' = [answer EXCEPT ![r] = [value |-> value, hit |-> hit]]

Replay(r) ==
  /\ Goto(r, "asking", "observing")
  /\ Cache!FromMemory(r, Key(r))
  /\ Answer(r, memory[Key(r)], TRUE)
  /\ UNCHANGED <<question, read, spent, reading, response, durable, world, quota>>

Join(r) ==
  /\ Goto(r, "asking", "waiting")
  /\ Cache!Board(r, Key(r))
  /\ UNCHANGED <<question, read, answer, spent, reading, response, durable, world, quota>>

Lead(r) ==
  /\ Goto(r, "asking", "computing")
  /\ Cache!Open(r, Key(r))
  /\ UNCHANGED <<question, read, answer, spent, reading, response, durable, world, quota>>

\* What the agent was shown: the schema the key was made of, handed on.
Prompt(r) == {read[r]}

\* A run that reported `cost`; its provider may have reported its limits.
Spend(r, cost, reported) ==
  /\ spent' = [spent EXCEPT ![r] = cost]
  /\ clock' = IF reported THEN clock + 1 ELSE clock
  /\ reading' = IF reported THEN [reading EXCEPT ![r] = clock + 1] ELSE reading
  /\ UNCHANGED <<catalogue, restarts>>

\* compute(schema) returns; what is cacheable is kept.
Run(r, result, reported) ==
  /\ Goto(r, "computing", "closing")
  /\ result.prompt \in Prompt(r)
  /\ Cache!Settle(r, [value |-> result, error |-> None])
  /\ Spend(r, result.usage, reported)
  /\ UNCHANGED <<question, read, answer, response, durable, quota>>

\* compute(schema) raises, after calls that were paid for.
RunRaises(r, cost) ==
  /\ Goto(r, "computing", "closing")
  /\ Cache!Settle(r, [value |-> None, error |-> "raised"])
  /\ Spend(r, cost, FALSE)
  /\ UNCHANGED <<question, read, answer, response, durable, quota>>

Close(r) ==
  /\ Goto(r, "closing", "waiting")
  /\ Cache!Close(r)
  /\ UNCHANGED <<question, read, answer, spent, reading, response, durable, world, quota>>

\* get_or_compute returns to the leader and to each follower, or raises.
Return(r) ==
  /\ Goto(r, "waiting", "observing")
  /\ Cache!Tell(r)
  /\ reply'[r].error = None
  /\ Answer(r, reply'[r].value, reply'[r].hit)
  /\ UNCHANGED <<question, read, spent, reading, response, durable, world, quota>>

Raise(r) ==
  /\ Goto(r, "waiting", "done")
  /\ Cache!Tell(r)
  /\ reply'[r].error # None
  /\ Told(r, "raised")
  /\ UNCHANGED <<question, read, answer, spent, reading, durable, world, quota>>

\* compute() without a key: answer() reads the schema itself, or fails to.
Bypass(r, result, reported) ==
  /\ Goto(r, "bypassing", "observing")
  /\ result.prompt \in {catalogue, None}
  /\ result.prompt = None => ~result.ok /\ result.usage = 0 /\ ~reported
  /\ Answer(r, result, FALSE)
  /\ Spend(r, result.usage, reported)
  /\ UNCHANGED <<question, read, response, durable, quota, cache>>

BypassRaises(r, cost) ==
  /\ Goto(r, "bypassing", "done")
  /\ Told(r, "raised")
  /\ Spend(r, cost, FALSE)
  /\ UNCHANGED <<question, read, answer, durable, quota, cache>>

----------------------------------------------------------------------------
(* The way out: quota.observe, _record_history and the response.           *)

Observe(r) ==
  /\ Goto(r, "observing", "recording")
  /\ quota' = IF reading[r] # 0 THEN reading[r] ELSE quota
  /\ UNCHANGED <<question, read, answer, spent, reading, response, durable, world, cache>>

\* `usage` reports what this request spent, so a hit reports zero.
EffectiveUsage(r) == IF answer[r].hit THEN 0 ELSE answer[r].value.usage

Record(r) ==
  /\ Goto(r, "recording", "responding")
  /\ rows' = [rows EXCEPT ![r] = [usage |-> EffectiveUsage(r), hit |-> answer[r].hit]]
  /\ UNCHANGED <<question, read, answer, spent, reading, response, charged, world,
                 quota, cache>>

\* record_ask swallows the failure and returns None.
RecordFails(r) ==
  /\ Goto(r, "recording", "responding")
  /\ UNCHANGED <<question, read, answer, spent, reading, response, durable, world,
                 quota, cache>>

Respond(r) ==
  /\ Goto(r, "responding", "done")
  /\ Told(r, IF rows[r] = None THEN "unrecorded" ELSE "answered")
  /\ UNCHANGED <<question, read, answer, spent, reading, durable, world, quota, cache>>

----------------------------------------------------------------------------
(* The world: the cache is cleared, the schema migrates, the process dies. *)

Clear ==
  /\ Cache!Forget(Keys)
  /\ UNCHANGED <<at, question, read, answer, spent, reading, response, durable, world,
                 quota>>

Migrate ==
  /\ catalogue < MaxVersion
  /\ catalogue' = catalogue + 1
  /\ UNCHANGED <<at, question, read, answer, spent, reading, response, durable, clock,
                 restarts, quota, cache>>

\* The ledger and the history outlive the process; the cache does not.
Restart ==
  /\ restarts < MaxRestarts
  /\ restarts' = restarts + 1
  /\ at' = [r \in Requests |-> IF at[r] \in {"idle", "done"} THEN at[r] ELSE "died"]
  /\ quota' = 0
  /\ asked' = [r \in Requests |-> None] /\ aboard' = [r \in Requests |-> None]
  /\ flight' = [k \in Keys |-> None] /\ memory' = [k \in Keys |-> None]
  /\ verdict' = [r \in Requests |-> Cache!Unsettled]
  /\ reply' = [r \in Requests |-> Cache!Untold]
  /\ UNCHANGED <<question, read, answer, spent, reading, response, durable, catalogue,
                 clock>>

\* What a request does on its own once it was admitted.
Step(r) ==
  \/ ReadSchema(r) \/ SchemaUnreadable(r)
  \/ Replay(r) \/ Join(r) \/ Lead(r)
  \/ \E result \in Result, reported \in Telemetry :
       Run(r, result, reported) \/ Bypass(r, result, reported)
  \/ \E cost \in 0..MaxCost : RunRaises(r, cost) \/ BypassRaises(r, cost)
  \/ Close(r) \/ Return(r) \/ Raise(r)
  \/ Observe(r) \/ Record(r) \/ RecordFails(r) \/ Respond(r)

Next ==
  \/ \E r \in Requests : UnknownDatabase(r) \/ ReserveRaises(r) \/ Step(r)
  \/ \E r \in Requests, q \in Questions : Refuse(r, q) \/ Admit(r, q)
  \/ Clear \/ Migrate \/ Restart

Spec == Init /\ [][Next]_vars
FairSpec == Spec /\ \A r \in Requests : WF_vars(Step(r))

----------------------------------------------------------------------------
(* Properties.                                                             *)

\* What was billed can be read off the history, with no filter to remember:
\* every row carries exactly what its own request spent, so a replayed or
\* coalesced answer adds nothing, and a request that was answered with an id
\* has its row.  What a restart, an exception or a failed write takes is a
\* whole row, never a part of one.
HistoryAddsUp ==
  \A r \in Requests :
    /\ rows[r] # None => rows[r].usage = spent[r] /\ (rows[r].hit => spent[r] = 0)
    /\ response[r] = "answered" => rows[r] # None

\* Nothing is spent behind the ceiling: whoever used the agent, was answered
\* or left a row was counted for the day first, and whoever was refused spent
\* nothing and left nothing.
NothingBehindTheCeiling ==
  \A r \in Requests :
    /\ spent[r] # 0 \/ rows[r] # None \/ answer[r] # NoAnswer => r \in charged
    /\ response[r] = "refused" => r \notin charged

\* An answer belongs to the schema its key was made of, however long it was
\* kept, whoever computed it and whatever was migrated meanwhile.
AnswersMatchTheirKey ==
  \A r \in Requests :
    answer[r].value # None /\ read[r] # None => answer[r].value.prompt = read[r]

\* A failure is shared with those who waited for it and with nobody else: the
\* next request for the same key starts again.
FailuresAreNotReplayed ==
  [][\A r \in Requests :
       at[r] = "asking" /\ at'[r] = "observing" => answer'[r].value.ok]_vars

\* Nobody is left waiting for a flight that will not land: the request that
\* leads it is still to settle and close it, however its run ends, or has done
\* both, and then the answer is there to be told.
NobodyIsStranded ==
  \A r \in Requests : at[r] = "waiting" =>
    LET leader == aboard[r]
    IN  \/ leader # r /\ at[leader] \in {"computing", "closing"}
        \/ /\ verdict[leader] # Cache!Unsettled /\ asked[leader] = asked[r]
           /\ flight[asked[r]] # leader /\ reply[r] = Cache!Untold

\* Every admitted question is answered, unless the process dies under it.
EveryRequestIsAnswered ==
  \A r \in Requests : at[r] = "reading" ~> at[r] \in {"done", "died"}

\* quota.observe, "Remember the most recent rate-limit snapshot": once a
\* request has handed its snapshot over, /quota is at least as recent.  The
\* code keeps the one that was handed over last.
QuotaIsTheMostRecent ==
  \A r \in Requests :
    at[r] \in {"recording", "responding", "done"} => quota >= reading[r]
=============================================================================
