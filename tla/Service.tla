------------------------------ MODULE Service ------------------------------
(***************************************************************************)
(* One process of api/main.py serving requests at the same time: the gate  *)
(* in front of every path (it runs on the event loop, and has it to itself *)
(* until it hands the request on), and the handlers of /health,            *)
(* /databases, /schema and /ask, which run in threads.  While they do, an  *)
(* operator replaces the file of secrets and a database is migrated.       *)
(*                                                                         *)
(* What /ask does about spending, the cache, the loop and the history is   *)
(* AskService's; here it reads the schema, and answers with what the last  *)
(* statement of the loop came to or with another ending of the loop.       *)
(*                                                                         *)
(* past and versions keep what the file and each database have held, began *)
(* and since which configuration was the latest when a request, and the    *)
(* oldest request then in flight, arrived; seen does so for catalogues.    *)
(***************************************************************************)
EXTENDS Naturals, Sequences, FiniteSets, Identities, Validator, Introspection, Results

CONSTANTS
  Requests,        \* what is served at a time
  Inputs,          \* what may be asked
  Targets,         \* DATABASE_TARGETS
  DefaultTarget,   \* DEFAULT_TARGET
  ConfiguredTargets,  \* those whose DSN is in the environment
  Configurations,  \* what the file of secrets may hold
  FirstConfiguration,  \* and held when the process started
  Catalogues,      \* for each target, what its catalogue may be
  FirstCatalogue,  \* and was
  Statements,      \* what the model may write
  LoopEndings,     \* how the loop may end other than with a statement,
  Ceilings,        \* what the daily ceiling may say,
  Errors,          \* and what may befall a statement, as categories
  Holds,           \* for each target, the columns and rows of each statement
  MaxRows,         \* MAX_ROWS
  HealthQuery,     \* _HEALTH_QUERY
  CatalogueQuery,  \* the three queries of introspection.py are queries
  MaxRotations, MaxMigrations

ASSUME ServiceAssumption ==
  /\ IsFiniteSet(Requests)
  /\ Inputs # {}
  /\ DefaultTarget \in Targets /\ ConfiguredTargets \subseteq Targets
  /\ None \notin Targets
  /\ FirstConfiguration \in Configurations
  /\ \A target \in Targets : FirstCatalogue[target] \in Catalogues[target]
  /\ UsersVariable \in Configurations \cup {None}
  /\ LoopEndings \subseteq {"budget_exhausted", "repeated_sql", "unknown_action",
                          "no_sql_returned", "provider_error", "rate_limited"}
  /\ Ceilings \subseteq {"identity_daily_limit", "global_daily_limit",
                       "ledger_unavailable"}
  /\ Errors \subseteq {"timeout", "database_error", "connection_error"}
  /\ MaxRows \in Nat /\ MaxRotations \in Nat /\ MaxMigrations \in Nat

\* What PostgreSQL gives for a statement has as many cells in each row as it
\* has columns.  A column may mix kinds, as one of JSON does.
Table(found) ==
  /\ found.columns \in Nat
  /\ found.rows \in Seq(Seq(CellKinds))
  /\ \A i \in DOMAIN found.rows : Len(found.rows[i]) = found.columns

ASSUME HoldsAssumption ==
  /\ DOMAIN Holds = Targets
  /\ \A target \in Targets : \A text \in DOMAIN Holds[target] :
       Table(Holds[target][text])

VARIABLES
  pc, input, stage, raw, identity, began, since, seen, readings, schema, sql,
  result, reply, memo, past, engines, created, versions

local == <<pc, input, stage, raw, identity, began, since, seen, readings, schema, sql,
           result, reply>>
shared == <<memo, past, engines, created, versions>>
vars == <<local, shared>>

----------------------------------------------------------------------------
(* Requests and what they are about.                                       *)

File == past[Len(past)]
Catalogue(target) == versions[target][Len(versions[target])]

NoResult == [ok |-> FALSE, category |-> "", columns |-> 0, rows |-> <<>>,
             truncated |-> FALSE]
NoSql == [tooLong |-> FALSE, parsed |-> <<>>, calls |-> FALSE]
NoReply == [secured |-> FALSE, body |-> [kind |-> "error", status |-> 0]]
NoMemo == [raw |-> None, identities |-> None]

\* _resolve_target: an unknown name is None.
ResolveTarget(request) ==
  IF request.database = None THEN DefaultTarget
  ELSE IF request.database \in Targets THEN request.database ELSE None

Target(r) ==
  IF stage[r] = "health" THEN DefaultTarget ELSE ResolveTarget(input[r])

CatalogueStages == {"relations", "columns", "keys"}

\* What execute_sql was given.
Statement(r) ==
  IF stage[r] \in CatalogueStages THEN CatalogueQuery
  ELSE IF stage[r] \in {"health", "status"} THEN HealthQuery ELSE sql[r]

InFlight == {r \in Requests : pc[r] \notin {"idle", "replied"}}
AtTheGate == {r \in InFlight : stage[r] = "gate" /\ pc[r] # "routing"}

Become(r, place) == pc' = [pc EXCEPT ![r] = place]
Enter(r, name, place) ==
  /\ stage' = [stage EXCEPT ![r] = name]
  /\ Become(r, place)

\* What a handler leaves behind when it returns.
ofTheHandler == <<began, seen, readings, schema, result>>

\* A handler that raises is answered with 500 from outside the middleware.
Answer(r, body) ==
  /\ Become(r, "replied")
  /\ reply' = [reply EXCEPT ![r] = [secured |-> body.status # 500 /\ OverTls(input[r]),
                                    body |-> body]]
  /\ began' = [began EXCEPT ![r] = 1]
  /\ seen' = [seen EXCEPT ![r] = [t \in Targets |-> 1]]
  /\ readings' = [readings EXCEPT ![r] = <<>>]
  /\ schema' = [schema EXCEPT ![r] = NoSchema]
  /\ result' = [result EXCEPT ![r] = NoResult]

----------------------------------------------------------------------------
(* The response table of http/errors.py.                                   *)

Answered == {"rejected", "database_error", "timeout", "gate_violation",
             "budget_exhausted", "repeated_sql", "unknown_action", "no_sql_returned"}
Unavailable == {"connection_error", "provider_error", "rate_limited",
                "ledger_unavailable"}
Throttled == {"identity_daily_limit", "global_daily_limit"}
Retryable == {"database_error", "budget_exhausted", "unknown_action", "no_sql_returned"}
               \cup Unavailable \cup Throttled

FailureFor(category) ==
  [status |-> IF category \in Answered THEN 200
              ELSE IF category = "unknown_database" THEN 400
              ELSE IF category \in Throttled THEN 429 ELSE 503,
   retryable |-> category \in Retryable]

NoSeries == [label |-> 0, measure |-> 0]
Failed(category) ==
  [kind |-> "failure", category |-> category, status |-> FailureFor(category).status,
   retryable |-> FailureFor(category).retryable]
Error(status) == [kind |-> "error", status |-> status]

AnswerOf(columns, rows) ==
  LET shape == Classify(columns, rows)
  IN  [kind |-> "answer", status |-> 200, rows |-> rows, shape |-> shape,
       series |-> IF shape = "chartable" THEN ChartSeries(rows) ELSE NoSeries]

\* The rows are encoded first, and the shape is that of the encoded ones.  With
\* a NaN or an infinity among them JSONResponse raises.
AskAnswer(outcome) ==
  IF Renderable(EncodeRows(outcome.rows))
  THEN AnswerOf(outcome.columns, EncodeRows(outcome.rows))
  ELSE Error(500)

----------------------------------------------------------------------------
(* A request arrives and leaves.                                           *)

\* The oldest request in flight, if that is older than this one.
Oldest(r) ==
  LET arrivals == {Len(past)} \cup {began[q] : q \in InFlight \ {r}}
  IN  CHOOSE b \in arrivals : \A a \in arrivals : b <= a

\* The configuration is read anew each time it is needed, and then
\* current_identities compares what was read.
ReadSecret(r, name) ==
  /\ raw' = [raw EXCEPT ![r] = GetSecret(File)]
  /\ Enter(r, name, "comparing")

\* Middleware: who the client is, then the gate, which an open path passes.
Arrive(r) ==
  /\ pc[r] \in {"idle", "replied"}
  /\ began' = [began EXCEPT ![r] = Len(past)]
  /\ since' = [since EXCEPT ![r] = Oldest(r)]
  /\ seen' = [seen EXCEPT ![r] = [t \in Targets |-> Len(versions[t])]]
  /\ identity' = [identity EXCEPT ![r] = None]
  /\ readings' = [readings EXCEPT ![r] = <<>>]
  /\ schema' = [schema EXCEPT ![r] = NoSchema]
  /\ sql' = [sql EXCEPT ![r] = NoSql]
  /\ result' = [result EXCEPT ![r] = NoResult]
  /\ reply' = [reply EXCEPT ![r] = NoReply]
  /\ \E request \in Inputs :
       /\ input' = [input EXCEPT ![r] = request]
       /\ IF IsOpen(request.path)
          THEN ReadSecret(r, "identify")
          ELSE AtTheGate = {} /\ ReadSecret(r, "gate")
  /\ UNCHANGED shared

----------------------------------------------------------------------------
(* current_identities, from the three places that call it.                 *)

\* What follows once the identities have loaded, or have not (None).
DecideAtTheGate(r, identities) ==
  LET name == Identify(identities, input[r].header)
  IN  /\ stage[r] = "gate"
      /\ identity' = [identity EXCEPT ![r] = name]
      /\ IF name = None
         THEN Answer(r, Error(401)) /\ UNCHANGED stage
         ELSE Enter(r, "route", "routing") /\ UNCHANGED <<reply, ofTheHandler>>

IdentifyCaller(r, identities) ==
  /\ stage[r] = "identify"
  /\ identity' = [identity EXCEPT ![r] = Identify(identities, input[r].header)]
  /\ Enter(r, "health", "submitting")
  /\ UNCHANGED <<reply, ofTheHandler>>

\* _auth_status, and the rest of what an identified caller of /health is told.
AuthStatus(r, identities) ==
  /\ stage[r] = "status"
  /\ Answer(r, [kind |-> "health", status |-> IF result[r].ok THEN 200 ELSE 503,
                configured |-> identities # None, users |-> SecretStatus(File)])
  /\ UNCHANGED <<identity, stage>>

Decide(r, identities) ==
  \/ DecideAtTheGate(r, identities)
  \/ IdentifyCaller(r, identities)
  \/ AuthStatus(r, identities)

CompareLoadedOnce(r) ==  \* faulty: the memo is for the life of the process
  /\ pc[r] = "comparing"
  /\ Become(r, IF memo # NoMemo THEN "taking" ELSE "loading")
  /\ UNCHANGED <<input, stage, raw, identity, began, since, seen, readings, schema,
                 sql, result, reply, shared>>

Compare(r) ==
  /\ pc[r] = "comparing"
  /\ Become(r, IF memo # NoMemo /\ memo.raw = raw[r] THEN "taking" ELSE "loading")
  /\ UNCHANGED <<input, stage, raw, identity, began, since, seen, readings, schema,
                 sql, result, reply, shared>>

\* _memo is read again for its map.
Take(r) ==
  /\ pc[r] = "taking"
  /\ Decide(r, memo.identities)
  /\ raw' = [raw EXCEPT ![r] = None]
  /\ UNCHANGED <<input, since, sql, shared>>

\* A configuration that does not load is not remembered.
LoadAndRemember(r) ==
  /\ pc[r] = "loading"
  /\ LET identities == LoadIdentities(raw[r])
     IN  /\ memo' = IF identities = None THEN memo
                    ELSE [raw |-> raw[r], identities |-> identities]
         /\ Decide(r, identities)
  /\ raw' = [raw EXCEPT ![r] = None]
  /\ UNCHANGED <<input, since, sql, past, engines, created, versions>>

----------------------------------------------------------------------------
(* The handlers.                                                           *)

\* _target_configured, for each.
Available == [t \in Targets |-> t \in ConfiguredTargets]

Databases(r) ==
  /\ pc[r] = "routing" /\ input[r].path = "/databases"
  /\ Answer(r, [kind |-> "targets", status |-> 200, available |-> Available,
                default |-> DefaultTarget])
  /\ UNCHANGED <<input, stage, raw, identity, since, sql, shared>>

UnknownDatabase(r) ==
  /\ pc[r] = "routing" /\ input[r].path \in {"/schema", "/ask"}
  /\ ResolveTarget(input[r]) = None
  /\ Answer(r, IF input[r].path = "/ask" THEN Failed("unknown_database")
               ELSE Error(400))
  /\ UNCHANGED <<input, stage, raw, identity, since, sql, shared>>

\* reserve_question refused.
RefuseToSpend(r) ==
  /\ pc[r] = "routing" /\ input[r].path = "/ask"
  /\ ResolveTarget(input[r]) # None
  /\ \E category \in Ceilings : Answer(r, Failed(category))
  /\ UNCHANGED <<input, stage, raw, identity, since, sql, shared>>

\* _deployed_fingerprints begins with the relation list.
BeginSchema(r) ==
  /\ pc[r] = "routing" /\ input[r].path \in {"/schema", "/ask"}
  /\ ResolveTarget(input[r]) # None
  /\ Enter(r, "relations", "submitting")
  /\ UNCHANGED <<input, raw, identity, began, since, seen, readings, schema, sql, result,
                 reply, shared>>
----------------------------------------------------------------------------
(* execute_sql.                                                            *)

kept == <<input, stage, raw, identity, began, since, seen, readings, schema, sql, reply>>

\* What PostgreSQL will not do in a read-only transaction: write, define, and
\* lock rows (FOR UPDATE, FOR SHARE), which is how it starts an update.
WriteNodes ==
  {"Insert", "Update", "Delete", "Merge", "Copy", "Create", "Drop", "Alter",
   "TruncateTable", "Grant", "Revoke", "Into", "Lock"}

\* The writes that the syntax of a text shows, and any at all.
ShownWrites(text) ==
  IF text.parsed = Unparsed THEN {}
  ELSE {class \in WriteNodes :
          \E tree \in {text.parsed[i] : i \in DOMAIN text.parsed} \ {Empty} :
          \E n \in Nodes(tree) : tree.class[n] = class}
Writes(text) == text.calls \/ ShownWrites(text) # {}

Came(r, outcome) ==
  /\ result' = [result EXCEPT ![r] = outcome]
  /\ Become(r, "returned")

Fails(category) == [NoResult EXCEPT !.category = category]

Reject(r) ==
  /\ pc[r] = "submitting" /\ ~ValidateSql(Statement(r))
  /\ Came(r, Fails("rejected"))
  /\ UNCHANGED <<kept, shared>>

CreateAlways(r) ==  \* faulty: an engine for every statement
  /\ pc[r] = "submitting" /\ ValidateSql(Statement(r))
  /\ Become(r, "creating")
  /\ UNCHANGED <<kept, result, shared>>

\* `target not in self._engines`, outside any lock.  An engine that is there
\* stays, so what follows a test that finds one needs no step of its own.
MissEngine(r) ==
  /\ pc[r] = "submitting" /\ ValidateSql(Statement(r))
  /\ engines[Target(r)] = None
  /\ Become(r, "creating")
  /\ UNCHANGED <<kept, result, shared>>

HasEngine(r) ==
  \/ pc[r] = "running"
  \/ /\ pc[r] = "submitting" /\ ValidateSql(Statement(r))
     /\ engines[Target(r)] # None

CreateDefaultEngine(r) ==  \* faulty: get_database_url() for every target
  /\ pc[r] = "creating" /\ Target(r) \in ConfiguredTargets
  /\ engines' = [engines EXCEPT ![Target(r)] = DefaultTarget]
  /\ created' = [created EXCEPT ![Target(r)] = created[Target(r)] + 1]
  /\ Become(r, "running")
  /\ UNCHANGED <<kept, result, memo, past, versions>>

\* The engine of a target is known by the database it connects to; one that was
\* there already is lost with its pool.
CreateEngine(r) ==
  /\ pc[r] = "creating" /\ Target(r) \in ConfiguredTargets
  /\ engines' = [engines EXCEPT ![Target(r)] = Target(r)]
  /\ created' = [created EXCEPT ![Target(r)] = created[Target(r)] + 1]
  /\ Become(r, "running")
  /\ UNCHANGED <<kept, result, memo, past, versions>>

NoDatabaseUrl(r) ==
  /\ pc[r] = "creating" /\ Target(r) \notin ConfiguredTargets
  /\ Came(r, Fails("connection_error"))
  /\ UNCHANGED <<kept, shared>>

Fetched(n) == IF n > MaxRows THEN MaxRows ELSE n

FirstRows(rows) == SubSeq(rows, 1, Fetched(Len(rows)))

\* _run: one read-only transaction, rolled back whatever happens, and at most
\* MAX_ROWS of what it finds.
RunStatement(r) ==
  /\ HasEngine(r) /\ stage[r] \in {"statement", "health"}
  /\ ~Writes(Statement(r))
  /\ Statement(r) \in DOMAIN Holds[engines[Target(r)]]
  /\ LET found == Holds[engines[Target(r)]][Statement(r)]
     IN  Came(r, [NoResult EXCEPT !.ok = TRUE, !.columns = found.columns,
                                  !.rows = FirstRows(found.rows),
                                  !.truncated = Len(found.rows) > MaxRows])
  /\ UNCHANGED <<kept, shared>>

\* SQLSTATE 25006: the transaction is read-only, whatever the validator thought.
RefuseWrite(r) ==
  /\ HasEngine(r) /\ Writes(Statement(r))
  /\ Came(r, Fails("gate_violation"))
  /\ UNCHANGED <<kept, shared>>

\* A timeout, an error of the statement, or no connection.
FailToRun(r) ==
  /\ HasEngine(r)
  /\ \E category \in Errors : Came(r, Fails(category))
  /\ UNCHANGED <<kept, shared>>

----------------------------------------------------------------------------
(* What the handlers do with the result.                                   *)

\* The catalogue queries give sets of rows; more than can be fetched of them
\* are no reading.
Whole(rows) == Cardinality(rows) <= MaxRows

RowsOf(r, catalogue) ==
  IF stage[r] = "relations" THEN RelationRows(catalogue)
  ELSE IF stage[r] = "columns" THEN ColumnRows(catalogue) ELSE KeyRows(catalogue)

Read(r) == RowsOf(r, Catalogue(engines[Target(r)]))

EndSchema(r) ==
  /\ readings' = [readings EXCEPT ![r] = <<>>]
  /\ result' = [result EXCEPT ![r] = NoResult]
  /\ Enter(r, "read", "prepared")
  /\ UNCHANGED <<input, raw, identity, began, since, seen, sql, reply, shared>>

NextStage == [relations |-> "columns", columns |-> "keys"]

TakeReading(r) ==
  /\ HasEngine(r) /\ stage[r] \in {"relations", "columns"}
  /\ Whole(Read(r))
  /\ readings' = [readings EXCEPT ![r] = Append(readings[r], Read(r))]
  /\ Enter(r, NextStage[stage[r]], "submitting")
  /\ UNCHANGED <<input, raw, identity, began, since, seen, schema, sql, result,
                 reply, shared>>

AssembleSchema(r) ==
  /\ HasEngine(r) /\ stage[r] = "keys"
  /\ Whole(Read(r))
  /\ schema' = [schema EXCEPT ![r] = Assemble(readings[r][1], readings[r][2], Read(r))]
  /\ EndSchema(r)

RefusePartialSchema(r) ==
  /\ HasEngine(r) /\ stage[r] \in CatalogueStages
  /\ ~Whole(Read(r))
  /\ UNCHANGED schema
  /\ EndSchema(r)

\* The query failed.
FailSchema(r) ==
  /\ pc[r] = "returned" /\ stage[r] \in CatalogueStages
  /\ UNCHANGED schema
  /\ EndSchema(r)

ReplyWithSchema(r) ==
  /\ pc[r] = "prepared" /\ input[r].path = "/schema"
  /\ Answer(r, IF schema[r] = NoSchema THEN Error(503)
               ELSE [kind |-> "schema", status |-> 200, tables |-> SchemaToDict(schema[r])])
  /\ UNCHANGED <<input, stage, raw, identity, since, sql, shared>>

\* The loop asks the model for a statement and runs it; the schema was for the
\* prompt.
WriteStatement(r) ==
  /\ pc[r] = "prepared" /\ input[r].path = "/ask"
  /\ \E statement \in Statements : sql' = [sql EXCEPT ![r] = statement]
  /\ schema' = [schema EXCEPT ![r] = NoSchema]
  /\ seen' = [seen EXCEPT ![r] = [t \in Targets |-> 1]]
  /\ Enter(r, "statement", "submitting")
  /\ UNCHANGED <<input, raw, identity, began, since, readings, result, reply, shared>>

\* The loop ends some other way; without a schema, for want of a database.
EndLoop(r) ==
  /\ pc[r] = "prepared" /\ input[r].path = "/ask"
  /\ \E category \in LoopEndings \cup
                       (IF schema[r] = NoSchema THEN {"connection_error"} ELSE {}) :
       Answer(r, Failed(category))
  /\ UNCHANGED <<input, stage, raw, identity, since, sql, shared>>

ReplyWithAnswer(r) ==
  /\ pc[r] = "returned" /\ stage[r] = "statement"
  /\ Answer(r, IF result[r].ok THEN AskAnswer(result[r])
               ELSE Failed(result[r].category))
  /\ UNCHANGED <<input, stage, raw, identity, since, sql, shared>>

\* /health says no more than ok or degraded to whom it does not know.
ReplyToAnyone(r) ==
  /\ pc[r] = "returned" /\ stage[r] = "health" /\ identity[r] = None
  /\ Answer(r, Error(IF result[r].ok THEN 200 ELSE 503))
  /\ UNCHANGED <<input, stage, raw, identity, since, sql, shared>>

ReportStatus(r) ==
  /\ pc[r] = "returned" /\ stage[r] = "health" /\ identity[r] # None
  /\ ReadSecret(r, "status")
  /\ UNCHANGED <<input, identity, began, since, seen, readings, schema, sql, result,
                 reply, shared>>

----------------------------------------------------------------------------
(* Around the process.                                                     *)

Rotate ==
  /\ Len(past) <= MaxRotations
  /\ \E content \in Configurations \ {File} : past' = Append(past, content)
  /\ UNCHANGED <<local, memo, engines, created, versions>>

Migrate(target) ==
  /\ Len(versions[target]) <= MaxMigrations
  /\ \E catalogue \in Catalogues[target] \ {Catalogue(target)} :
       versions' = [versions EXCEPT ![target] = Append(versions[target], catalogue)]
  /\ UNCHANGED <<local, memo, past, engines, created>>

Init ==
  /\ pc = [r \in Requests |-> "idle"]
  /\ input = [r \in Requests |-> CHOOSE request \in Inputs : TRUE]
  /\ stage = [r \in Requests |-> "gate"]
  /\ raw = [r \in Requests |-> None]
  /\ identity = [r \in Requests |-> None]
  /\ began = [r \in Requests |-> 1]
  /\ since = [r \in Requests |-> 1]
  /\ seen = [r \in Requests |-> [t \in Targets |-> 1]]
  /\ readings = [r \in Requests |-> <<>>]
  /\ schema = [r \in Requests |-> NoSchema]
  /\ sql = [r \in Requests |-> NoSql]
  /\ result = [r \in Requests |-> NoResult]
  /\ reply = [r \in Requests |-> NoReply]
  /\ memo = NoMemo
  /\ past = <<FirstConfiguration>>
  /\ engines = [t \in Targets |-> None]
  /\ created = [t \in Targets |-> 0]
  /\ versions = [t \in Targets |-> <<FirstCatalogue[t]>>]

Gate(r) == Arrive(r) \/ Compare(r) \/ Take(r) \/ LoadAndRemember(r)

Handle(r) ==
  \/ Databases(r) \/ UnknownDatabase(r) \/ RefuseToSpend(r) \/ BeginSchema(r)
  \/ TakeReading(r) \/ AssembleSchema(r) \/ RefusePartialSchema(r) \/ FailSchema(r)
  \/ ReplyWithSchema(r) \/ WriteStatement(r) \/ EndLoop(r) \/ ReplyWithAnswer(r) \/ ReplyToAnyone(r)
  \/ ReportStatus(r)

ExecuteSql(r) ==
  \/ Reject(r) \/ MissEngine(r) \/ CreateEngine(r) \/ NoDatabaseUrl(r)
  \/ RunStatement(r) \/ RefuseWrite(r) \/ FailToRun(r)

Next ==
  \/ \E r \in Requests : Gate(r) \/ Handle(r) \/ ExecuteSql(r)
  \/ Rotate
  \/ \E target \in Targets : Migrate(target)

Spec == Init /\ [][Next]_vars

----------------------------------------------------------------------------
(* Properties.                                                             *)

Places == {"idle", "comparing", "taking", "loading", "routing",
           "submitting", "creating", "running", "returned", "prepared", "replied"}
Stages == {"gate", "identify", "status", "route", "health", "statement", "read"}
            \cup CatalogueStages

\* The state has its types; the memo holds only what loads, whole, from its own
\* raw value; and a target gets at most one pool more than it needs for every
\* other request served with the first one (engine.py:135).
TypeOK ==
  /\ pc \in [Requests -> Places] /\ stage \in [Requests -> Stages]
  /\ input \in [Requests -> Inputs]
  /\ raw \in [Requests -> Configurations \cup {None}]
  /\ past \in Seq(Configurations) /\ past # <<>>
  /\ memo # NoMemo => /\ memo.identities = LoadIdentities(memo.raw)
                      /\ memo.identities # None
  /\ engines \in [Targets -> Targets \cup {None}]
  /\ created \in [Targets -> 0..Cardinality(Requests)]

Decided(r) ==
  pc[r] # "idle" /\ (stage[r] \notin {"gate", "identify"} \/ pc[r] = "replied")

Configured(raws) == {LoadIdentities(content) : content \in raws}

\* auth.py:294-298 promises that a map cannot outlive the value it came from.
\* Whoever is let in, turned away or told at /health that a configuration
\* loads is judged by one that was in force after the oldest request then in
\* flight arrived: a secret taken out of the file stops working when the
\* requests that were being served at that moment have left.
RevokedSecretsDie ==
  \A r \in Requests :
    LET inForce == {GetSecret(past[i]) : i \in since[r]..Len(past)}
    IN  /\ Decided(r) =>
             \E identities \in Configured(inForce) :
               identity[r] = Identify(identities, input[r].header)
        /\ pc[r] = "replied" /\ reply[r].body.kind = "health" =>
             \E identities \in Configured(inForce) :
               reply[r].body.configured = (identities # None)

\* An answer's rows are rows of the database that was asked, and a schema is
\* put together from three whole readings of its catalogue, each in force while
\* the request was served and none older than the one before: nothing of
\* another target, of an earlier request or of a truncated reading.
RepliesComeFromTheirTarget ==
  \A r \in Requests :
    LET target == ResolveTarget(input[r])
        catalogues == versions[target]
    IN  /\ pc[r] = "replied" /\ reply[r].body.kind = "answer" =>
             reply[r].body.rows = EncodeRows(FirstRows(Holds[target][sql[r]].rows))
        /\ schema[r] # NoSchema =>
             \E i \in seen[r][target]..Len(catalogues) :
             \E j \in i..Len(catalogues) : \E k \in j..Len(catalogues) :
               /\ Whole(RelationRows(catalogues[i]))
               /\ Whole(ColumnRows(catalogues[j]))
               /\ Whole(KeyRows(catalogues[k]))
               /\ schema[r] = Assemble(RelationRows(catalogues[i]),
                                       ColumnRows(catalogues[j]), KeyRows(catalogues[k]))

\* The read-only transaction is the second line of defence: all that it has to
\* stop are row locks and functions that write, never a statement that shows
\* another write, wherever in it that stands.  (execution.py:143-151 says it can
\* only be a write that the validator passed by mistake.)
WritesStopAtTheValidator ==
  \A r \in Requests :
    result[r].category = "gate_violation" =>
      ValidateSql(Statement(r)) /\ ShownWrites(Statement(r)) \subseteq {"Lock"}

\* One column of two is NUMERIC by its first value, and could be drawn.
OneOfTwoIsNumeric(columns, rows) ==
  /\ columns = 2 /\ Len(rows) > 1
  /\ \E c \in 1..2 : /\ ColumnSample(rows, c) = "decimal"
                      /\ ColumnSample(rows, 3 - c) # "decimal"

\* shapes.py is to be one classifier for the product and for the measurements
\* of tests/test_result_shapes.py.  The product hands it rows that are already
\* encoded and the measurements the driver's (main.py:680-693); the shape, and
\* the columns a chart is drawn from, are the same for both exactly when the
\* result is not two columns of which one is NUMERIC.
OnlyNumericChangesTheShape ==
  \A r \in Requests :
    pc[r] = "replied" /\ reply[r].body.kind = "answer" =>
      LET found == Holds[ResolveTarget(input[r])][sql[r]]
          rows == FirstRows(found.rows)
          measured == AnswerOf(found.columns, rows)
      IN  IF OneOfTwoIsNumeric(found.columns, rows)
          THEN reply[r].body.shape # measured.shape
          ELSE /\ reply[r].body.shape = measured.shape
               /\ reply[r].body.series = measured.series
=============================================================================
