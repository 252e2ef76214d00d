# A verification development of QueryPilot

QueryPilot answers a question in plain English about a PostgreSQL database: an agent
has a language model write SQL, runs it read-only, shows the model what happened, and
returns rows with the working. This directory models the parts of it in which order,
concurrency, failure and money meet, checks them with TLC on small instances, and
proves the safety properties with TLAPS for every value of the constants.

Paths below are those of the repository (`src/api/...`). `PROJECT.json` maps every
definition that models code to its lines, and lists the runs, the mutations, the
hazards and the theorems.

## 1. Inventory

| Component | Code | State it keeps | What is hard |
|---|---|---|---|
| ask endpoint | `api/main.py` `ask`, `_answer_or_replay`, `_record_history` | none of its own; drives all the others | one question crosses six components, any of which may fail, while others do the same |
| answer cache | `api/http/cache.py` | `_entries`, `_inflight`, one `_Pending` per flight | single flight: leaders, followers, eviction, clearing, exceptions |
| history store and daily ceiling | `api/store/history.py`, `schema.sql` | one SQLite file; `_write_lock`, `_initialised`, `_degraded` | check-then-increment, failed commits, restarts, midnight, a flag written outside the lock |
| agent loop | `api/agent/orchestrator.py`, `protocol.py` | `_State` of one run | budget, once-only retries, duplicate statements, refusals, a trace that is a key of a table |
| token accounting | `api/llm/base.py` `TokenUsage`, `counting.py` | a sum | an identity that also means "nothing was measured" |
| quota observer | `api/http/quota.py` | the last snapshot and its time | snapshots handed over out of order |
| HTTP gate | `api/http/auth.py`, `headers.py`, `forwarded.py` | an identity memo `_memo` | a memo compared in one read and used in the next, replaced in between |
| configuration and targets | `api/config.py`, `targets.py` | none; reads the environment and secret files anew | a file that cannot be read must not mean "nobody is required to log in" |
| engine cache | `api/db/engine.py` | one engine per target | unlocked check-then-create |
| statement execution | `api/db/execution.py` | a session per statement | the read-only transaction behind the validator, the row cap, the category of a failure |
| SQL validator | `api/safety/validator.py` | none | a walk over a syntax tree in which a write can stand anywhere |
| introspection | `api/db/introspection.py` | none | three reads in three transactions, any of which may be truncated |
| failure mapping, shapes, serialization | `api/http/errors.py`, `shapes.py`, `serialization.py` | none | the shape is decided on encoded rows |
| prompts, fingerprints, glossary | `api/agent/prompts.py`, `fingerprints.py`, `glossary.py` | a glossary memo | the key must describe the schema the prompt saw |
| pacing and rate limits | `api/llm/pacing.py`, `rate_limits.py` | the last snapshot, usage and retry-after of a run | three sources of one wait, rounding |
| providers and factory | `api/llm/groq_provider.py`, `cerebras_provider.py`, `factory.py` | none | what a refused or failed call still reports |
| evaluation runner and ledger | `evals/run_evals.py`, `ledger.py`, `scoring.py`, `dataset.py` | the day's spend file, `EVALS.md` | a run that dies, is refused or meets midnight between spending and writing it down |
| web pages | `api/web/app.js`, `history.js` | the question in flight | a late answer |
| single-shot strategy, sampling, tools, CI | the rest | none | nothing a state machine would show |

How they interact. FastAPI runs each synchronous handler in a thread of one process,
behind an authentication middleware that runs on the event loop. `ask()` calls
`history.reserve_question` (a lock and a commit), reads the schema, calls
`cache.get_or_compute`, in which one thread runs `answer()` while others wait on an
event, hands the provider's snapshot to `quota.observe`, writes the row with
`history.record_ask` and returns. `answer()` calls the provider and `execute_sql`, which
validates, takes the target's engine and runs one read-only transaction. All shared
state is in the modules named above; there is no other message passing. What survives
the death of the process is the SQLite file. The evaluation runner is a second program:
it drives the same `answer()` question by question and keeps two files of its own.

What makes each correct, in a line: the cache computes once and shares the outcome; the
ceiling is never exceeded and never charged for nothing; the loop's verdict, trace and
bill tell one story; the history adds up to the bill; an answer is for the schema of its
key and from the database that was asked; everybody is answered; a secret that was
withdrawn stops working; no write gets as far as the database's own refusal; and the
benchmark's books are exact, its refused runs are not filed, and what it files can be
compared.

## 2. Modules

    SingleFlight      what the cache promises (abstract)
      ^ implemented by            ^ used by
    AnswerCache                 AskService  --- the ceiling and the history row as single
                                              steps, a run of the agent as one step

    StorePromise      what the store promises its callers (abstract)
      ^ implemented by
    HistoryStore      the three writers of the SQLite file

    RunPromise        what a run promises whoever pays for it (abstract)
      ^ implemented by
    AgentLoop         one run of answer()       extends Tokens

    Service           every request through the gate, its handler and its statements
      extends         Identities, Validator, Introspection, Results (the pure parts)

    EvalRun           one benchmark run after another
      extends         Pacing (extends Tokens), Ledger, Scoring, Dataset

Each state machine `X` has an `MCX` that gives TLC its constants, one or more `.cfg`, and
an `XProofs` with its theorems. Definitions marked *faulty* in a module, under names that extend the
name of the definition they corrupt, are plausible bugs used only to show that the
properties can fail (section 6).

### AnswerCache and SingleFlight

One element of `Calls` is one invocation of `get_or_compute`. A `with _lock` block is one
action, since what the lock guards is only touched inside such blocks; every statement
outside that another thread can see is its own action. So `Hit`, `Follow` and `Lead` are
the three ways through lines 138-146; `ComputeReturns`/`ComputeRaises` are `compute()`;
`Keep`, `Discard` and `JudgeRaises` are `cacheable` and `_remember`; `PublishValue`,
`PublishError`, `Release` and `Wake` are the four writes of the `finally`, in its order;
`FollowerReturns` and `FollowerRaises` are a follower after `event.wait()`. A `_Pending`
is named by the call that made it, so a late follower still reads the object it joined.
`AllReturned` is the end of a finite set of calls.

`SingleFlight` says the same with no lock, no event and no eviction order: a flight is
opened, settled once, closed to newcomers, and then everybody aboard is told the same;
memory may forget anything at any time. `Promise` in `AnswerCache` is the refinement
mapping; a flight is settled when its leader leaves the judging block.

### HistoryStore

Reservers, recorders and markers are invocations of `reserve_question`, `record_ask` and
`record_feedback`. Each waits for `_write_lock` (`Enter`), opens its connection (`Open`,
`OpenFails`), runs its statements (`Admit`, `RefuseIdentity`, `RefuseGlobal`, `Write`,
`Attach`, `RefuseUnknown`, or `StatementFails`), commits (`Commit...`, or
`StatementFails`) and frees the lock (`Leave`). What is executed before the commit is
seen by its own connection only, so the body is one action and the commit another.
`record_ask` then writes `_degraded` outside the lock (`Flag`). The UTC date is read
before the lock is taken (`Reserve`), so `Midnight` can fall between. `Restart` kills
every call and forgets the lock and the flag, never the file. A row of `daily_usage` is
the set of committed increments it counts. SQLite itself, its WAL and the durability of
a commit are external.

`StorePromise` has no lock, connection, transaction or crash: a call asks and is then
decided once, in one step that reads and writes the store together. That is what `ask()`
takes a reservation and a history row for, although the code reads, commits and reports
in three steps between which other calls run and the process may die. The mapping
`Promise` sends each variable to the one of the same meaning (`paid <- ledger`,
`told <- result`), so a charge is decided at its commit, a refusal where the count is
read, and a failure where it is caught.

### AgentLoop

One run of `answer()`. The model, the database and the catalogue are the environment:
`Respond` takes any response of the model through `ParseAction`, and `ExecuteSucceeds`,
`ExecuteFails` and `GetSchema` any outcome `api/db/execution.py` and `get_schema` can
come to. A statement is an element of `Statements`. `FollowPolicy` is lines 550-566,
including `spent_once`; `Categorise` turns an unmarked rejection into a refusal;
`OutOfBudget` is the fall out of the `while`. `NoQuestion`, `SchemaUnreadable` and
`NoProvider` are the early returns. `Plus` and `CallUsage` are `TokenUsage.__add__` and
`usage_for_call` with the two token counts taken as one. `bills` is history: what each
completed call reported.

`RunPromise` forgets the trace, the policy and the categories and keeps what a run costs:
how often the model was asked, how many of those calls are on the bill, which statements
went to the database after which call, and the verdict. At most one statement follows a
call, none is given twice, and a verdict names what the database was given. The mapping
reads the statements off the trace (`Executed`) and the verdict off the result (`Ended`).

### AskService

`ask()` from the door to the response, for requests that run at the same time. The parts
are taken at the word of the other modules: the cache is `SingleFlight` itself
(`Cache!FromMemory`, `Board`, `Open`, `Settle`, `Close`, `Tell`), a reservation and a
history row are single steps that may fail in the ways `HistoryStore` allows, and a run
of the agent costs up to `MaxCost` and returns or raises. `Refuse`, `ReserveRaises` and
`Admit` are the ceiling; `ReadSchema` fixes the fingerprints and hands the schema on
(`Prompt`); `Bypass` is the run without a key when the schema could not be read, in which
`answer()` reads the schema itself; `Observe`, `Record`/`RecordFails` and `Respond` are
the way out. `Clear`, `Migrate` and `Restart` are the world. An element of `Questions` is
a question together with its target, because both are in the key; normalisation of the
question's text and hashing are not modelled.

### Service, and the pure parts it is built from

`AskService` follows the money of a question; `Service` follows its credentials, its
target and its rows. One element of `Requests` is one thread slot, which serves one
request after another. `pc` is the place in the code and `stage` is the caller of the
shared routines, since `current_identities` and `execute_sql` are each reached from
several places.

* The gate. `Arrive` is the middleware up to the decision; `Compare`, `Take` and
  `LoadAndRemember` are lines 309-325 of `auth.py`, which is `current_identities` with
  its two reads of `_memo` as two actions. On the event loop nothing else runs between
  them, and `AtTheGate` says so, but the handlers of `/health` call the same function
  from their threads. `Decide` is what each caller does with the outcome. `Identities` holds the
  operators: `GetSecret` (file before variable, and a file that cannot be read is not an
  absent one), `LoadIdentities`, `Identify`, the trusted proxies and the client's address.
* The handlers. `Databases`, `UnknownDatabase`, `RefuseToSpend`, `BeginSchema` and the
  rest are the branches of `/databases`, `/schema`, `/ask` and `/health`; `FailureFor`
  is the response table of `errors.py`. What `/ask` does about spending, cache, loop and
  history is `AskService`'s; here a question reads the schema and ends with its last
  statement (`WriteStatement`) or otherwise (`EndLoop`).
* A statement. `Reject` is the validator; `MissEngine`, `HasEngine`, `CreateEngine` and
  `NoDatabaseUrl` are `_EngineCache.__call__`, whose test and assignment are separate
  steps; `RunStatement`, `RefuseWrite` and `FailToRun` are the transaction.
  `Validator` takes a text as what sqlglot makes of it: statements, each a tree of nodes
  with their class and parent. It then does what `validate_sql` does: length, parse, one
  statement, root, walk, branches of set operations. `WriteNodes` in `Service` is, apart
  from that, what PostgreSQL itself refuses in a read-only transaction: more than the
  validator forbids by row locks, and by functions that write (`calls`).
* The schema. `RelationRows`, `ColumnRows` and `KeyRows` of `Introspection` are the three
  queries over a catalogue, `Assemble` is the assembly with its refusals; `TakeReading`
  takes each from whatever the catalogue then is.
* The answer. `EncodeRows`, `Classify` and `ChartSeries` of `Results` are
  `serialization.py` and `shapes.py`, used by `AskAnswer` in the order of `main.py`. Rows
  that hold a NaN or an infinity cannot be rendered, and the question is answered with 500.

`Rotate` replaces the file of secrets and `Migrate` the catalogue of a database. `past`,
`versions`, `began`, `since` and `seen` are history: they only say what was in force when
a request, and the oldest request then in flight, arrived.

### EvalRun, and the pure parts it is built from

`main()` of `run_evals.py`, from the command line to `EVALS.md`, one run after another.
`Start` takes a command line and whatever the question file and the database then hold;
`RefuseArguments`, `RefuseCost`, `RefuseQuota` and `RefuseFingerprint` are the exits
before a question is asked; `Probe` is the call made only to read the limits;
`ExecuteGold` is the reference queries; `Wait`, `Answered`, `Refused` and `Failed` are
one paced provider call; `AskAgain`, `Execute` and `Conclude` are what `run_case` sees of
a strategy; `EndPass` closes a pass; `RecordSpend`, `ReconcileFromRefusals`,
`RefuseToFile`, `File` and `LeaveUnrecorded` are the end of `main()` in its order. `Die`
ends the process anywhere; `Midnight` moves the date. `meter` and `told` are history:
what this run's calls, and the runs of today, were reported to cost.

`Pacing` has both vendors' headers, the parsing of durations, the buckets (one of them
refilled in proportion to time), `WaitSeconds` and the bookkeeping of `PacedProvider`;
`Ledger` is the spend file; `Scoring` normalises and compares results and adds a report
up; `Dataset` is the loader of the question file with each of its refusals, the splits
and their fingerprint; `Tokens` is `TokenUsage`.

## 3. Runs

| Run | Instance | What it shows |
|---|---|---|
| `cache_safety` | 3 calls, 3 keys, limit 2, one value that must not be kept | one computation per key; followers get exactly the leader's outcome; what is kept was earned, is not overwritten, and only the oldest is evicted |
| `cache_live` | 3 calls, 2 keys, limit 1 | the cache implements `SingleFlight`; every call returns, whichever way `compute()` ends |
| `store_spend` | 3 reservations, 1 recorder, 1 marker, 3 identities, limits 1 and 2, 2 days, 1 restart | the store implements `StorePromise`; `CeilingHolds`, `BlameIsRight`, `PaidIffAllowed` |
| `store_calls` | 1 reservation, 2 recorders, 1 marker, 1 restart | what was acknowledged is durable; every call leaves the store |
| `store_degraded` | 2 recorders | violation, see section 7 |
| `agent_loop` | the shipped budget of 3 calls, 3 statements | the loop implements `RunPromise`; trace, retries, verdict, bill; every run ends |
| `agent_trace` | the same | violation, see section 7 |
| `ask_three` | 3 requests for one question, 1 migration, runs that cost nothing | an answer matches the schema of its key; failures are not replayed; nobody waits for a request that has left |
| `ask_two` | 2 requests, 1 restart, snapshots or none | the history adds up; nothing behind the ceiling; everybody is answered |
| `ask_quota` | 2 requests, 2 questions | violation, see section 7 |
| `evaluation` | 2 runs, 5 command lines, 3 question files, 2 databases, 1 midnight | the day's ledger is exact, or the provider's own figure; pauses are as long as they must be and no longer; refused runs are not filed; an entry bills every pass; comparable entries asked the same |
| `service` | 2 requests at a time, 7 kinds of request, 3 targets, 1 rotation, 1 migration | withdrawn secrets die; answers and schemas are of the database that was asked; only row locks and functions that write get past the validator; the shape of an answer is that of the driver's rows unless a NUMERIC is in it |

Why the bounds are enough to be interesting. Three callers are a leader, a follower and
a third that comes after the release; three keys over two entries force an eviction
while a flight is open, and a limit of one makes every store an eviction. Three
reservations with limits 1 and 2 exhaust both ceilings, on both sides of midnight; three
identities are needed for it, since with two the third question of a day is always
refused by its own ceiling and the global one never fires. The
agent's budget is the shipped one (`MAX_PROVIDER_CALLS`), so every trace of the deployed
loop is covered; three statements are as many as it can try. Three requests for one
question are a leader, a follower and a later hit, and one migration is enough for a key
and a prompt to disagree. A second question would only add a key that nobody shares;
`ask_quota` has two so that both requests run. Calls, keys, requests and identities are
symmetric wherever no liveness is checked.

`service`: two requests are the thread in `/health` that holds an old configuration and
the request at the gate that read a new one, and they are the two first users of an
engine; each slot serves again after it has replied, so a third request can arrive under
the memo the first two left. The configurations are an old secret, a new one and a file
that cannot be read; the third target is known and not configured. Each statement is
there for one part of the validator or what lies behind it: a union with a branch of
values, an insert inside a CTE, a row lock, a function that writes, which no syntax
shows, and a quotient that is a NaN. The union gives a number and a NUMERIC on one
database, which is a chart only because it was encoded, and on the other a label and a
column of JSON that begins with a null and mixes numbers with lists. One database has
more columns than the row cap, so that a reading is truncated, and the other gains a
table with a key between two readings. `evaluation`: two runs are what it takes for a
ledger to carry over and for two entries to be compared; the command lines differ in
passes, provider, strategy and whether anything is recorded; the question files move a
question from one split to the other, or bring a retired id back. Groq's bucket has one
token left for a call of two and a request limit that some command lines exceed,
Cerebras's remainder does not parse; one refusal names the tokens of the day and one
those of the minute; calls follow each other after 0 or 2 seconds, at once or when the
bucket has refilled.

Deadlock is not checked where the system may stop: all calls finished and the world
used up its bounded midnights, migrations, restarts and runs. `cache_safety` and
`cache_live` do check it, with `AllReturned` as the only legitimate end, and so does
`service`, in which a request can always arrive or go on.

## 4. Fairness

Weak fairness, one formula per call (`Step(c)`), and only once the call has begun:
nothing is assumed of arrivals, midnights, clears, migrations or restarts. The code
justifies it: a thread that holds no lock is scheduled; each lock is held for a bounded
block; each step that talks to the outside is bounded, the provider by its client's
timeout and the call budget, a statement by `statement_timeout`, SQLite by its busy
timeout. `Lock` and `Event` make no promise of fairness among waiters, and in these
instances none is needed: the number of calls is finite, so a waiter is overtaken only
finitely often.

`Service` and `EvalRun` state no fairness and no liveness: nothing in them waits for
anything but its own next step. The waiting of a request is in `AnswerCache`,
`HistoryStore` and `AskService`, and the runner is one thread.

## 5. Theorems

Most are of the form `Spec => []P` or `Spec => [][A]_v`; the refinements are `Spec =>
Promise!Spec`; two are conditional, `Spec /\ []Q => []P`, where a run of section 7
refutes `P` without `Q`; and some are about the pure operators alone. They hold for any
sets and bounds that meet the named assumption of the module (`CacheAssumption`,
`StoreAssumption`, `LoopAssumption`, `ServiceAssumption`, `NoneAssumption`,
`EvalAssumption`, `DocumentsAssumption`, `PacingAssumption`, `DatasetAssumption`, `LedgerAssumption`,
`HoldsAssumption`: sets are disjoint, limits and bounds are numbers, `None` is none of the
data, a list of a YAML document is a sequence, and, for `Service`, what PostgreSQL returns
is a table, with as many cells in each row as it has columns). TLC evaluates every one
of them in the runs.

* **AnswerCacheProofs.** `TypeCorrect`, `OneComputationPerKey`, `FollowersGetTheOutcome`,
  `StoredAnswersAreEarned`, `WaitersHaveAWaker`, `StoredAnswersAreStable`, and
  `CacheImplementsSingleFlight`. The invariant ties each slot of `_inflight` to the one
  call in flight for its key (`Slots`), each follower to a leader with its key (`Crews`),
  what a `_Pending` holds to how far its leader is in the `finally` (`Cells`), and says
  that a key whose leader has not judged its value has no entry (`Store`), which is why
  `_remember` never overwrites. Every step then maps to a step of the promise or a
  stutter. `OnlyTheOldestIsForgotten` follows from the same invariant and from what
  `_remember` does to a full and to a not yet full cache. `CallsRunOut`: a call has at most
  seven steps of its own, and a waiting one waits for a call that has not returned, or is
  free to go.
* **HistoryStoreProofs.** `TypeCorrect`, `DailyCeiling`, `RefusalsBlameTheRightCeiling`,
  `ChargedExactlyWhenAllowed`, `AcknowledgedRowsStay`. The ceiling alone is not inductive:
  between the check and the commit other calls run. `Exclusion` says that the lock
  belongs to the one call inside its `with`, and `Room` that what `Admit` saw still
  holds at its commit. The counting steps use the library's theorems on cardinality.
  `StoreKeepsItsPromise`: each step is one of `StorePromise` or a stutter; `Allow` needs
  `Room` to be a step of a promise that checks and charges at once. `CallsRunOut`: a call
  has at most six steps of its own, and whoever holds the lock has at most four before it
  is free. `DegradedWithoutOverlap`: `_degraded` tells the last write in every execution
  in which no call is about to write the flag while another is decided and has not
  written it yet, so the overlap `store_degraded` shows is the only thing wrong with it (`LastWriteFlagged`).
* **AgentLoopProofs.** `TypeCorrect`, `NoStatementRunsTwice`, `DenseTrace`,
  `JustifiedRetries`, `VerdictsAgreeWithTraces`, for every budget. The invariant says that
  the trace has one step per completed turn (`Turns`), that `seen_sql` is the set of
  statements in it (`SeenIsTried`), and that `spent_once` holds each category that has
  used its one retry (`Spent`). `BillsAreWhole` adds `BillInv`: while the run goes on
  every call has its entry in the bill, and calls are counted only with their tokens, so
  that a usage of no calls is empty and adding it changes nothing. `RefusalsEndTheRun`
  adds `Unmarked`: a response without an action line is taken for a statement.
  `LoopKeepsItsPromise`: each step is one of `RunPromise`, since a statement in hand is
  not among those tried (`InHandIsTried`) and every completed call has its own place in
  the trace. `RunsAreBounded`: each step lowers the number of steps a run has left, from
  `2 * MaxCalls + 2`. `TracesMissOnlyRepeats` is what holds in place of the claim that
  `agent_trace` refutes: an attempt without a step is the last one, and it repeated a
  statement or brought none (`Short`).
* **AskServiceProofs.** `TypeCorrect`, `TheHistoryAddsUp`, `TheCeilingComesFirst`,
  `AnswersMatch`, `NoFailureIsReplayed`. An answer is followed from the run to the row:
  what is settled or kept belongs to the key it is filed under (`Carried`), and whoever
  has an answer has spent exactly what it is credited with (`Credited`).
  `NobodyWaitsForNobody`: a waiting request has a leader that is still to settle and to
  close its flight, or has done both (`Flown`). `TheCacheIsUsedAsPromised`: every step
  that touches the cache is one `SingleFlight` allows its callers, or the process starting
  anew, so that what `AnswerCache` implements is what the endpoint relies on.
  `RequestsRunOut`: an admitted question has at most eight steps to its response.
  `QuotaWithoutOvertaking`: the last snapshot handed over is the latest reading in every
  execution in which no two are on their way at once and the process lives (`Recent`).
* **PacingProofs.** The arithmetic of the pacer, for every header block: the wait it
  computes is the least whole number of seconds after which every bucket can hold the
  call (`WaitIsLongest`, `WaitEndsTheShortage`), which rests on rounding a quotient up
  being the exact inverse of rounding the refill down (`CeilingAffords`).
* **EvalRunProofs.** `TypeCorrect`, `LedgerExact`, `ReconciledStands`,
  `RefusedNotFiled`, `PausesJustified`, for any sequence of runs, deaths and midnights.
  `LedgerIsExact` is not inductive: what is added at the end of a run is the pacer's
  total, so `Billing` says that this is at every moment what the run's calls were
  reported to cost, and `LedgerInv` that the ledger is never of a later day than today.
  `Passes` keeps each figure a refusal named in the reports until the books are closed.
  `PausesJustified` takes what the pacer keeps of the last call (`Kept`) and the lemmas
  of `PacingProofs`. `TypeCorrect` takes `CallsLeft`, the call budget of a question.
* **EvalEntriesProofs.** `EntriesBillAll`, `ComparableScored`: what is filed in
  EVALS.md. `Counted` says that the bill of the question, the total of the pass and the
  total of the passes are together what the provider reported, as long as none of them
  holds a local count, and `Underway` that a question without calls has no bill. `Orderly`
  follows the questions: a pass goes through its split in order, so that each report is
  of exactly the questions the split fingerprint names. Both rest on what the recursive
  functions along a list compute (`TotalOfLonger`, `SplitHolds`), which is proved from
  the least number a failing length would have (`Lowest`) in place of induction.
  Of the scoring, `MatchesUpToOrder`: comparing columns and counts of rows, as the code
  does, is the same as one result being a reordering of the other, which takes a matching
  of the places of each row (`CountsReorder`); and `QuantizeRounds`: what rounding does to
  any recorded number.
* **ServiceProofs.** `TypeCorrect`, `SecretsDie`, `RepliesComeHome`, `WritesStop`,
  `ShapesAgree`, for any number of requests, targets, configurations and catalogues.
  `Admission` is the invariant of the gate. A memo is only ever replaced by what some
  request in flight has read (`Remembered`), and a request that compared and has not yet
  taken is judged by what was in force after the oldest request then in flight arrived
  (`Compared`, `Taken`); the order of the stamps (`Stamped`) makes that bound stable.
  `Serving` is the invariant of what is served: an engine leads to the database of its
  own target, and the engines a target has been given and those about to be created are
  together no more than the requests (`Pooled`); a result is rows of its request's target,
  or a failure whose category says how far it got (`Resulted`, `Replied`); a reading is of
  a catalogue in force while the request was served and no older than the one before
  (`Gathered`); an assembled schema was assembled from three such whole readings
  (`Sourced`). `LocalStep` says once that no
  step touches another request's variables, and every other lemma uses it.
  `SchemaIsTheCatalogue`: of the rows of one catalogue `get_schema` makes one table for
  each public table or view, with its live columns and its foreign keys, each key by
  itself and its members paired in order, for any catalogue that keeps PostgreSQL's own
  uniqueness constraints (`WellFormed`). The code says of that pairing that no database
  of its own could show it (`introspection.py`, above `FOREIGN_KEYS_SQL`). With `Sourced`
  it gives `SchemasAreExact`: unless the database was migrated since the request arrived,
  the schema in hand is that of the database as it is.

So every invariant, action property and refinement that a passing run checks is a
theorem. `TypeOK` of `HistoryStore`, `AgentLoop` and `AskService` is proved and no longer
run, since the other properties evaluate every variable; TLC still checks it where it
says more than types.

Only model-checked: the liveness properties (`EveryCallReturns`, `EveryStoreCallReturns`,
`EveryRunEnds`, `EveryRequestIsAnswered`), because fairness and ENABLED are out of the
prover's reach. What they need of the code is proved: that a call cannot go on for ever
and that nobody waits for somebody who is gone (`CallsRunOut`, `RunsAreBounded`,
`RequestsRunOut`, `NobodyWaitsForNobody`). What is left to TLC is that a call which is
not waiting has a step to take and that a fair scheduler therefore finishes it.

What the proofs do not join: `AskService` takes the store and the loop as single steps of
its own. That these are the steps `StorePromise` and `RunPromise` describe is a reading of
the two modules, not a theorem; that the store and the loop keep those promises is one.

## 6. The properties can fail

Each property of a passing run has a mutation in `PROJECT.json`: a definition that models
code is replaced by its faulty variant, and the run must then refute the property. The
variants are bugs one could commit here: publishing after the event is set, evicting the
newest entry, releasing the key before the answer is judged, letting an exception skip
the `finally`, checking the ceiling without the lock or in the other order, incrementing
before the commit, failing with the lock held, letting an exception through to a caller
that expects a verdict, leaving a flight open behind a run that raised, `<=` for `<` in
the budget, forgetting a statement that failed, retrying every timeout, losing the identity of the sum, keeping
failures, reading the schema twice, billing a hit, and going on when the ledger is down;
comparing the memo with nothing, building every engine from the default target's DSN,
building an engine for each statement, walking only the root of a statement, encoding
a null as text; asking on past the budget, adding up the reports
in place of the bill, looking at the first pass only, adding to a reconciled figure,
leaving out the time that has passed, and fingerprinting a split by its ids alone.

## 7. Where the code and its documents disagree

* **`store_degraded`.** `record_ask` frees `_write_lock` before it writes `_degraded`, so
  of a failing and a succeeding write the flag can show the earlier. `/health` can then
  report a healthy store whose last write failed, or the opposite, until the next write.
* **`agent_trace`.** `specs/007-agent-loop.md` AC21 wants every attempt in the trace. A
  repeated statement is counted and billed and leaves no step.
* **`ask_quota`.** `quota.observe` keeps the snapshot that is handed over last, and stamps
  it with the present time. Of two overlapping requests the slower can put an older
  reading over a newer one.

These are not violation runs; each was met while modelling and is stated here at its
line. The modules model what the code does.

* `auth.py:294-298` says that a map cannot outlive the value it came from. Lines 316-317
  compare `_memo[0]` and then return `_memo[1]` in a second read. A thread of `/health`
  that read the old file can store the old pair in between, so that a request that read
  the new file is judged by the old map. `RevokedSecretsDie` is what does hold: the old
  map is gone when the requests in flight at the change are.
* The schema is read in three transactions (`introspection.py:231`), so a migration may
  give tables of one moment and columns of a later one. `RepliesComeFromTheirTarget`
  says exactly how torn a schema can be.
* `execution.py:143-151` says that SQLSTATE 25006 "can only mean the validator passed a
  write", and `specs/003-execute-sql.md:190-201` and `tests/test_execution.py:617-679` that
  no known input reaches `gate_violation`. `SELECT ... FOR UPDATE` and `FOR SHARE` do: they
  parse to a `Select` with a `Lock`, which `validator.py:94-111` does not forbid, and
  PostgreSQL refuses them in a read-only transaction. So does a `SELECT` of a function that
  writes (`nextval`), which no syntax shows. The run then ends as a defect of the safety
  layer that is logged at error level and not retried. In `service` `RefuseWrite` fires on
  both; `WritesStopAtTheValidator` and the theorem `WritesStop` are what does hold.
* `main.py:680-693` decides the shape after `encode_rows`, where a `Decimal` is already a
  string. `shapes.py:48-56` and `tests/test_result_shapes.py:96-98` count `Decimal` as a
  measure, and `serialization.py:18-20` and `app.js:450-476` expect such strings to be
  charted. A label with a `NUMERIC` amount is therefore never offered as a chart; an
  integer, an id for instance, with a `NUMERIC` amount is offered as one, with the id as
  the bars and the amount as the label, the transposition `main.py:686-690` warns of. The
  distribution that `tests/test_result_shapes.py:125-146` pins is taken on the driver's
  rows, so it is not the product's, although `shapes.py:1-9` says one classifier serves
  both. `OnlyNumericChangesTheShape` says that the two differ in exactly these cases, and
  in no other.
* `serialization.py:42-51` passes a float that is NaN or infinite through as JSON-ready.
  JSON has no such value and `JSONResponse` raises on it, after the answer was recorded
  and kept, so that `/ask` answers 500 then and on every repetition of the question.
* `engine.py:104` and `:126` speak of one engine for each target. Two first requests may
  build one each and the pool that lost stays open; `TypeOK` of `Service` bounds the pools
  of a target by the requests served at a time.
* `fingerprints.py:98-101` hashes the built-in glossary, not the one deployed for the
  target, so the cache key does not change when the deployed glossary does, against
  `fingerprints.py:64-72` and `cache.py:16-19`. The glossary's memo is keyed by target
  and path (`glossary.py:218-224`): a file replaced in place is not read again, although
  `glossary.py:186-189` says that no restart is needed.
* `run_evals.py`: the reconciliation before the run (1392-1401) never finds a figure,
  because line 424 has already reworded the refusal. The exits at 1431, 1462 and 1465
  return before `ledger.record`, though 1495-1497 says that what a run spent is written
  whether or not it is recorded. `passed_validation` (463-467) is true of a failure that
  carries a rejected statement. `--split all` writes details of held-out questions and
  `--reveal-test-failures` without `--record` leaves no trace, though 1051 says that it
  is recorded. `run_case` with its default strategy and no rendering (459-460) meets the
  `ValueError` of 265-266. A refusal for the day's tokens that arrives before midnight
  and is reconciled after it writes yesterday's total into today's ledger.
* `pacing.py:48-50` says that `DEFAULT_CALL_TOKENS` is used once per run; it is used again
  after every call that failed. `RateLimitSnapshot.summary()` (`rate_limits.py:230-245`)
  raises a `TypeError` when a limit is known and what remains is not, so such a probe
  ends the run (`SummaryFails`).
* `spend_status` (`history.py:529`) promises not to raise and lets an `OSError` of
  `_connect` through.
* `app.js:208-237` may write a late reply to a mark under the next answer, and
  `app.js:563-577` lets the slower of two schema responses have the panel.

## 8. Not modelled, and why

* SQLite's durability under a power failure (`synchronous=NORMAL`), and a second process
  on the same file, which `_write_lock` cannot see (`history.py:74-86` names it and
  leaves it to the busy timeout). The deployment runs one process.
* `_ensure_schema` and `_initialised`: idempotent DDL, applied on the way into a
  connection, and part of `Open`. The readers of the history, of feedback and of
  `spend_status` see one committed state each.
* Prompt and message text, the rendering of schemas, `type_names.py`, `sampling.py` and
  the tokenizer: data that no property tells apart. Fingerprints are modelled where they
  are taken and what they go into; the glossary file and its memo are not (section 7).
* The network clients, sqlglot, SQLAlchemy and PostgreSQL are the environment: they
  come to any outcome the code distinguishes.
* The age at which `/quota` calls a reading stale, the static pages, the single-shot
  strategy (one straight line, superseded), the container's probe, `pagila_smoke.py`, the
  operator's tools and CI, and the browser.

## 9. What could follow

1. `AskService` over `StorePromise` and `RunPromise` by INSTANCE, as it is over
   `SingleFlight`; and the join of `Service` and `AskService`, which now share a question
   at its schema and its result.
2. The glossary's memo with its key, and the two late answers of `app.js`, each against
   what its comment promises.
3. The history's readers and `_ensure_schema` beside the writers.
