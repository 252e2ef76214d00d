---------------------------- MODULE ServiceProofs ---------------------------
(***************************************************************************)
(* The properties of Service for every number of requests, every set of    *)
(* targets, configurations, catalogues and statements, and every bound.    *)
(* There are two inductive invariants: Admission, of the gate and its      *)
(* memo, and Serving, of engines, results, replies and schemas.            *)
(*                                                                         *)
(* The last section is about the operators: what get_schema makes of the   *)
(* rows of one catalogue describes that catalogue.                         *)
(***************************************************************************)
EXTENDS Service, TLAPS, FiniteSetTheorems, SequenceTheorems, WellFoundedInduction

\* What one request does next.
Act(r) == Gate(r) \/ Handle(r) \/ ExecuteSql(r)

\* Every local variable is a function of the request.
Shaped ==
  /\ DOMAIN pc = Requests /\ DOMAIN input = Requests /\ DOMAIN stage = Requests
  /\ DOMAIN raw = Requests /\ DOMAIN identity = Requests /\ DOMAIN began = Requests
  /\ DOMAIN since = Requests /\ DOMAIN seen = Requests
  /\ DOMAIN readings = Requests /\ DOMAIN schema = Requests /\ DOMAIN sql = Requests
  /\ DOMAIN result = Requests /\ DOMAIN reply = Requests

\* A request leaves the local variables of every other one alone (each is a
\* thread, or the event loop, with a stack of its own).
Others(r) ==
  \A q \in Requests \ {r} :
    /\ pc'[q] = pc[q] /\ input'[q] = input[q] /\ stage'[q] = stage[q]
    /\ raw'[q] = raw[q] /\ identity'[q] = identity[q] /\ began'[q] = began[q]
    /\ since'[q] = since[q] /\ seen'[q] = seen[q] /\ readings'[q] = readings[q]
    /\ schema'[q] = schema[q] /\ sql'[q] = sql[q] /\ result'[q] = result[q]
    /\ reply'[q] = reply[q]

\* No handler reaches into the variables of another request.
LEMMA LocalStep ==
  ASSUME Shaped, NEW r \in Requests, Act(r)
  PROVE  Shaped' /\ Others(r)
<1>1. CASE Arrive(r)
  BY <1>1 DEF Arrive, ReadSecret, Enter, Become, shared, Shaped, Others
<1>2. CASE Compare(r)
  BY <1>2 DEF Compare, Become, shared, Shaped, Others
<1>3. CASE Take(r)
  BY <1>3
    DEF Take, Decide, DecideAtTheGate, IdentifyCaller, AuthStatus, Answer, Enter,
        Become, ofTheHandler, shared, Shaped, Others
<1>4. CASE LoadAndRemember(r)
  BY <1>4
    DEF LoadAndRemember, Decide, DecideAtTheGate, IdentifyCaller, AuthStatus, Answer,
        Enter, Become, ofTheHandler, shared, Shaped, Others
<1>5. CASE Databases(r)
  BY <1>5 DEF Databases, Answer, Become, shared, Shaped, Others
<1>6. CASE UnknownDatabase(r)
  BY <1>6 DEF UnknownDatabase, Answer, Become, shared, Shaped, Others
<1>7. CASE RefuseToSpend(r)
  BY <1>7 DEF RefuseToSpend, Answer, Become, shared, Shaped, Others
<1>8. CASE BeginSchema(r)
  BY <1>8 DEF BeginSchema, Enter, Become, shared, Shaped, Others
<1>9. CASE Reject(r)
  BY <1>9 DEF Reject, Came, Become, kept, shared, Shaped, Others
<1>10. CASE MissEngine(r)
  BY <1>10 DEF MissEngine, Become, kept, shared, Shaped, Others
<1>11. CASE CreateEngine(r)
  BY <1>11 DEF CreateEngine, Become, kept, shared, Shaped, Others
<1>12. CASE NoDatabaseUrl(r)
  BY <1>12 DEF NoDatabaseUrl, Came, Become, kept, shared, Shaped, Others
<1>13. CASE RunStatement(r)
  BY <1>13 DEF RunStatement, Came, Become, kept, shared, Shaped, Others
<1>14. CASE RefuseWrite(r)
  BY <1>14 DEF RefuseWrite, Came, Become, kept, shared, Shaped, Others
<1>15. CASE FailToRun(r)
  BY <1>15 DEF FailToRun, Came, Become, kept, shared, Shaped, Others
<1>16. CASE TakeReading(r)
  BY <1>16 DEF TakeReading, Enter, Become, shared, Shaped, Others
<1>17. CASE AssembleSchema(r)
  BY <1>17 DEF AssembleSchema, EndSchema, Enter, Become, shared, Shaped, Others
<1>18. CASE RefusePartialSchema(r)
  BY <1>18 DEF RefusePartialSchema, EndSchema, Enter, Become, shared, Shaped, Others
<1>19. CASE FailSchema(r)
  BY <1>19 DEF FailSchema, EndSchema, Enter, Become, shared, Shaped, Others
<1>20. CASE ReplyWithSchema(r)
  BY <1>20 DEF ReplyWithSchema, Answer, Become, shared, Shaped, Others
<1>21. CASE WriteStatement(r)
  BY <1>21 DEF WriteStatement, Enter, Become, shared, Shaped, Others
<1>22. CASE EndLoop(r)
  BY <1>22 DEF EndLoop, Answer, Become, shared, Shaped, Others
<1>23. CASE ReplyWithAnswer(r)
  BY <1>23 DEF ReplyWithAnswer, Answer, Become, shared, Shaped, Others
<1>24. CASE ReplyToAnyone(r)
  BY <1>24 DEF ReplyToAnyone, Answer, Become, shared, Shaped, Others
<1>25. CASE ReportStatus(r)
  BY <1>25 DEF ReportStatus, ReadSecret, Enter, Become, shared, Shaped, Others
<1> QED  BY <1>1, <1>2, <1>3, <1>4, <1>5, <1>6, <1>7, <1>8, <1>9, <1>10, <1>11, <1>12,
           <1>13, <1>14, <1>15, <1>16, <1>17, <1>18, <1>19, <1>20, <1>21, <1>22, <1>23,
           <1>24, <1>25 DEF Act, Gate, Handle, ExecuteSql

Waiting == {"comparing", "taking", "loading"}

\* A configuration the file has held since a given one.
InForce(content, first) == \E i \in first..Len(past) : content = GetSecret(past[i])

\* The stamps are of configurations there have been, and a request in flight
\* arrived no earlier than the oldest one any other arrived beside.
Stamped ==
  /\ past \in Seq(Configurations) /\ past # <<>>
  /\ \A r \in Requests : began[r] \in 1..Len(past) /\ since[r] \in 1..Len(past)
  /\ \A r \in Requests : \A q \in InFlight : since[r] <= began[q]

Staged == \A r \in Requests :
  pc[r] \notin Waiting \cup {"idle", "replied"} => stage[r] \notin {"gate", "identify"}

\* What a request read of the file, it read since it arrived.
Compared == \A r \in Requests : pc[r] \in Waiting => InForce(raw[r], began[r])

\* The memo's map is what its own raw value loads to (auth.py:320-321).
Remembered ==
  memo # NoMemo => memo.identities = LoadIdentities(memo.raw) /\ memo.identities # None

\* The memo that a request is about to read again may have been replaced, but
\* only by one that was in flight beside it, with what that one had read.
Taken == \A r \in Requests : pc[r] = "taking" =>
  memo # NoMemo /\ InForce(memo.raw, since[r])

JudgedBy(r, identities) == identity[r] = Identify(identities, input[r].header)

\* RevokedSecretsDie, of identities,
Judged == \A r \in Requests : Decided(r) =>
  \E i \in since[r]..Len(past) : JudgedBy(r, LoadIdentities(GetSecret(past[i])))

\* and of what /health reports.
Told == \A r \in Requests : pc[r] = "replied" /\ reply[r].body.kind = "health" =>
  \E i \in since[r]..Len(past) :
    reply[r].body.configured = (LoadIdentities(GetSecret(past[i])) # None)

\* The inductive invariant of the gate.  RevokedSecretsDie alone is not
\* inductive: between the comparison and the second read of the memo it takes
\* Taken, and Taken takes the order of the stamps.
Admission ==
  Shaped /\ Stamped /\ Staged /\ Compared /\ Remembered /\ Taken /\ Judged /\ Told

\* The stamp of an arrival is no later than that of any request in flight.
LEMMA OldestIsLeast ==
  ASSUME Stamped, NEW r \in Requests
  PROVE  /\ Len(past) \in Nat \ {0}
         /\ Oldest(r) \in 1..Len(past)
         /\ \A q \in InFlight \ {r} : Oldest(r) <= began[q]
<1> DEFINE arrivals == {Len(past)} \cup {began[q] : q \in InFlight \ {r}}
<1>1. Len(past) \in Nat \ {0}
  BY DEF Stamped
<1>2. arrivals \in SUBSET (1..Len(past))
  BY <1>1 DEF Stamped, InFlight
<1>3. \E b \in arrivals : \A a \in arrivals : b <= a
  <2>1. arrivals \in SUBSET Nat /\ Len(past) \in arrivals
    BY <1>1, <1>2
  <2> HIDE DEF arrivals
  <2>2. \E b \in arrivals : \A a \in arrivals : ~(<<a, b>> \in OpToRel(<, Nat))
    BY <2>1, WFMin, NatLessThanWellFounded
  <2>3. ASSUME NEW a \in Nat, NEW b \in Nat, ~(<<a, b>> \in OpToRel(<, Nat))
        PROVE  b <= a
    BY <2>3 DEF OpToRel
  <2> QED  BY <2>1, <2>2, <2>3
<1>4. Oldest(r) \in arrivals /\ \A a \in arrivals : Oldest(r) <= a
  BY <1>3 DEF Oldest
<1> QED  BY <1>1, <1>2, <1>4

\* What every handler is to the gate: it neither judges a caller nor touches the
\* memo, and at most reads the file anew.
Quiet(r) ==
  /\ UNCHANGED <<memo, past, since, identity, input>>
  /\ pc[r] \notin Waiting \cup {"idle", "replied"}
  /\ stage'[r] \notin {"gate", "identify"} \/ stage'[r] = stage[r]
  /\ \/ pc'[r] \notin Waiting \cup {"idle", "replied"} /\ began' = began
     \/ pc'[r] = "comparing" /\ raw'[r] = GetSecret(File) /\ began' = began
     \/ pc'[r] = "replied" /\ began'[r] = 1 /\ reply'[r].body.kind # "health"

\* Every step of a handler and of execute_sql is quiet.
LEMMA QuietStep ==
  ASSUME Shaped, NEW r \in Requests, Handle(r) \/ ExecuteSql(r)
  PROVE  Quiet(r)
<1>1. CASE Databases(r)
  BY <1>1 DEF Databases, Answer, Become, shared, Shaped, Quiet, Waiting
<1>2. CASE UnknownDatabase(r)
  BY <1>2
    DEF UnknownDatabase, Answer, Become, Failed, Error, shared, Shaped, Quiet, Waiting
<1>3. CASE RefuseToSpend(r)
  BY <1>3 DEF RefuseToSpend, Answer, Become, Failed, shared, Shaped, Quiet, Waiting
<1>4. CASE BeginSchema(r)
  BY <1>4 DEF BeginSchema, Enter, Become, shared, Shaped, Quiet, Waiting
<1>5. CASE Reject(r)
  BY <1>5 DEF Reject, Came, Become, kept, shared, Shaped, Quiet, Waiting
<1>6. CASE MissEngine(r)
  BY <1>6 DEF MissEngine, Become, kept, shared, Shaped, Quiet, Waiting
<1>7. CASE CreateEngine(r)
  BY <1>7 DEF CreateEngine, Become, kept, shared, Shaped, Quiet, Waiting
<1>8. CASE NoDatabaseUrl(r)
  BY <1>8 DEF NoDatabaseUrl, Came, Become, kept, shared, Shaped, Quiet, Waiting
<1>9. CASE RunStatement(r)
  BY <1>9 DEF RunStatement, Came, Become, kept, HasEngine, shared, Shaped, Quiet, Waiting
<1>10. CASE RefuseWrite(r)
  BY <1>10 DEF RefuseWrite, Came, Become, kept, HasEngine, shared, Shaped, Quiet, Waiting
<1>11. CASE FailToRun(r)
  BY <1>11 DEF FailToRun, Came, Become, kept, HasEngine, shared, Shaped, Quiet, Waiting
<1>12. CASE TakeReading(r)
  BY <1>12
    DEF TakeReading, Enter, Become, HasEngine, NextStage, shared, Shaped, Quiet,
        Waiting
<1>13. CASE AssembleSchema(r)
  BY <1>13
    DEF AssembleSchema, EndSchema, Enter, Become, HasEngine, shared, Shaped, Quiet,
        Waiting
<1>14. CASE RefusePartialSchema(r)
  BY <1>14
    DEF RefusePartialSchema, EndSchema, Enter, Become, HasEngine, shared, Shaped,
        Quiet, Waiting
<1>15. CASE FailSchema(r)
  BY <1>15 DEF FailSchema, EndSchema, Enter, Become, shared, Shaped, Quiet, Waiting
<1>16. CASE ReplyWithSchema(r)
  BY <1>16 DEF ReplyWithSchema, Answer, Become, Error, shared, Shaped, Quiet, Waiting
<1>17. CASE WriteStatement(r)
  BY <1>17 DEF WriteStatement, Enter, Become, shared, Shaped, Quiet, Waiting
<1>18. CASE EndLoop(r)
  BY <1>18 DEF EndLoop, Answer, Become, Failed, shared, Shaped, Quiet, Waiting
<1>19. CASE ReplyWithAnswer(r)
  BY <1>19
    DEF ReplyWithAnswer, Answer, Become, AskAnswer, AnswerOf, Error, Failed, shared,
        Shaped, Quiet, Waiting
<1>20. CASE ReplyToAnyone(r)
  BY <1>20 DEF ReplyToAnyone, Answer, Become, Error, shared, Shaped, Quiet, Waiting
<1>21. CASE ReportStatus(r)
  BY <1>21 DEF ReportStatus, ReadSecret, Enter, Become, shared, Shaped, Quiet, Waiting
<1> QED  BY <1>1, <1>2, <1>3, <1>4, <1>5, <1>6, <1>7, <1>8, <1>9, <1>10, <1>11, <1>12,
           <1>13, <1>14, <1>15, <1>16, <1>17, <1>18, <1>19, <1>20, <1>21
  DEF Handle, ExecuteSql

\* What current_identities and its caller come to, given the map.
Settled(r, identities) ==
  /\ UNCHANGED <<past, since, input>>
  /\ pc'[r] \in {"replied", "routing", "submitting"}
  /\ IF pc'[r] = "replied" THEN began'[r] = 1
     ELSE began' = began /\ stage'[r] \in {"route", "health"}
  /\ \/ /\ identity'[r] = Identify(identities, input[r].header)
        /\ pc'[r] = "replied" => reply'[r].body.kind # "health"
     \/ /\ stage[r] = "status" /\ pc'[r] = "replied" /\ identity'[r] = identity[r]
        /\ reply'[r].body.configured = (identities # None)

\* A request that takes the memo's map is judged by it and changes no memo.
LEMMA TakeSettles ==
  ASSUME Shaped, NEW r \in Requests, Take(r)
  PROVE  Settled(r, memo.identities) /\ memo' = memo
<1>1. CASE DecideAtTheGate(r, memo.identities)
  BY <1>1 DEF Take, DecideAtTheGate, Answer, Enter, Become, ofTheHandler, shared, Error,
              Shaped, Settled
<1>2. CASE IdentifyCaller(r, memo.identities)
  BY <1>2 DEF Take, IdentifyCaller, Enter, Become, ofTheHandler, shared, Shaped, Settled
<1>3. CASE AuthStatus(r, memo.identities)
  BY <1>3 DEF Take, AuthStatus, Answer, Become, shared, Shaped, Settled
<1> QED  BY <1>1, <1>2, <1>3 DEF Take, Decide, shared

\* A request that loads is judged by what it read, and remembers only what loads.
LEMMA LoadSettles ==
  ASSUME Shaped, NEW r \in Requests, LoadAndRemember(r)
  PROVE  /\ Settled(r, LoadIdentities(raw[r]))
         /\ \/ memo' = memo
            \/ /\ memo' = [raw |-> raw[r], identities |-> LoadIdentities(raw[r])]
               /\ memo' # NoMemo /\ LoadIdentities(raw[r]) # None
<1> DEFINE identities == LoadIdentities(raw[r])
<1>1. Settled(r, identities)
  <2>1. Decide(r, identities) /\ UNCHANGED <<input, since, past>>
    BY DEF LoadAndRemember
  <2> HIDE DEF identities
  <2>2. CASE DecideAtTheGate(r, identities)
    BY <2>1, <2>2 DEF DecideAtTheGate, Answer, Enter, Become, ofTheHandler, Error,
                Shaped, Settled
  <2>3. CASE IdentifyCaller(r, identities)
    BY <2>1, <2>3 DEF IdentifyCaller, Enter, Become, ofTheHandler, Shaped, Settled
  <2>4. CASE AuthStatus(r, identities)
    BY <2>1, <2>4 DEF AuthStatus, Answer, Become, Shaped, Settled
  <2> QED  BY <2>1, <2>2, <2>3, <2>4 DEF Decide
<1>2. \/ memo' = memo
      \/ memo' = [raw |-> raw[r], identities |-> identities] /\ identities # None
  BY DEF LoadAndRemember
<1> QED  BY <1>1, <1>2 DEF NoMemo

\* The stamps stay in order when a request arrives.
LEMMA StampsOfAnArrival ==
  ASSUME Admission, NEW r \in Requests, Arrive(r)
  PROVE  Stamped'
<1>1. Shaped' /\ Others(r)
  BY LocalStep DEF Admission, Act, Gate
<1>2. /\ past' = past /\ began'[r] = Len(past) /\ since'[r] = Oldest(r)
  BY DEF Arrive, shared, Admission, Shaped
<1>3. /\ Len(past) \in Nat \ {0} /\ Oldest(r) \in 1..Len(past)
      /\ \A q \in InFlight \ {r} : Oldest(r) <= began[q]
  BY OldestIsLeast DEF Admission
<1>4. \A q \in Requests \ {r} :
         /\ began'[q] = began[q] /\ since'[q] = since[q]
         /\ began[q] \in 1..Len(past) /\ since[q] \in 1..Len(past)
         /\ q \in InFlight' => q \in InFlight
  BY <1>1 DEF Others, Admission, Stamped, InFlight
<1>5. \A p \in Requests : began'[p] \in 1..Len(past') /\ since'[p] \in 1..Len(past')
  BY <1>2, <1>3, <1>4
<1>6. ASSUME NEW p \in Requests, NEW q \in InFlight' PROVE since'[p] <= began'[q]
  <2>1. q \in Requests
    BY DEF InFlight
  <2>2. CASE q = r
    BY <1>2, <1>3, <1>5, <2>2
  <2>3. CASE q # r /\ p = r
    BY <1>2, <1>3, <1>4, <2>1, <2>3
  <2>4. CASE q # r /\ p # r
    BY <1>4, <2>1, <2>4 DEF Admission, Stamped
  <2> QED  BY <2>2, <2>3, <2>4
<1> QED  BY <1>2, <1>5, <1>6 DEF Admission, Stamped

\* The stamps stay in order when a request goes on, or leaves.
LEMMA StampsOfTheRest ==
  ASSUME Admission, NEW r \in Requests, Act(r), past' = past, since' = since,
         IF pc'[r] = "replied" THEN began'[r] = 1 ELSE began'[r] = began[r],
         pc[r] \notin {"idle", "replied"}
  PROVE  Stamped'
<1>1. Shaped' /\ Others(r)
  BY LocalStep DEF Admission
<1>2. Len(past) \in Nat \ {0}
  BY DEF Admission, Stamped
<1>3. \A q \in Requests : began[q] \in 1..Len(past) /\ since[q] \in 1..Len(past)
  BY DEF Admission, Stamped
<1>4. \A q \in Requests : began'[q] \in 1..Len(past)
  BY <1>1, <1>2, <1>3 DEF Others
<1>5. \A q \in InFlight' : q \in InFlight /\ began'[q] = began[q]
  BY <1>1 DEF Others, InFlight
<1> QED  BY <1>3, <1>4, <1>5 DEF Admission, Stamped

\* What has been in force since one configuration has been since an earlier one.
LEMMA Later ==
  ASSUME Stamped, NEW content, NEW first \in 1..Len(past), NEW next \in 1..Len(past),
         first <= next, InForce(content, next)
  PROVE  InForce(content, first)
<1>1. PICK i \in next..Len(past) : content = GetSecret(past[i])
  BY DEF InForce
<1>2. Len(past) \in Nat /\ i \in first..Len(past)
  BY DEF Stamped
<1> QED  BY <1>1, <1>2 DEF InForce

\* What the file holds is in force.
LEMMA Latest ==
  ASSUME Stamped, NEW first \in 1..Len(past)
  PROVE  InForce(GetSecret(File), first)
<1>1. Len(past) \in Nat /\ Len(past) \in first..Len(past)
  BY DEF Stamped
<1> QED  BY <1>1 DEF InForce, File

\* Arriving keeps the invariant.
LEMMA ArrivalAdmits ==
  ASSUME Admission, NEW r \in Requests, Arrive(r)
  PROVE  Admission'
<1>1. Shaped' /\ Others(r) /\ Stamped'
  BY LocalStep, StampsOfAnArrival DEF Admission, Act, Gate
<1>2. /\ past' = past /\ memo' = memo /\ pc'[r] = "comparing"
      /\ stage'[r] \in {"gate", "identify"} /\ raw'[r] = GetSecret(File)
      /\ began'[r] = Len(past)
  BY DEF Arrive, ReadSecret, Enter, Become, shared, Admission, Shaped
<1>3. InForce(GetSecret(File), Len(past))
  BY Latest DEF Admission, Stamped
<1>4. Staged'
  BY <1>1, <1>2 DEF Admission, Staged, Others, Waiting
<1>5. Compared'
  BY <1>1, <1>2, <1>3 DEF Admission, Compared, Others, InForce
<1>6. Remembered' /\ Taken'
  BY <1>1, <1>2 DEF Admission, Remembered, Taken, Others, InForce
<1>7. Judged' /\ Told'
  BY <1>1, <1>2 DEF Admission, Judged, JudgedBy, Told, Others, Decided
<1> QED  BY <1>1, <1>4, <1>5, <1>6, <1>7 DEF Admission

\* So does comparing: a memo that equals what was read is as recent as that.
LEMMA ComparisonAdmits ==
  ASSUME Admission, NEW r \in Requests, Compare(r)
  PROVE  Admission'
<1>1. Shaped' /\ Others(r)
  BY LocalStep DEF Admission, Act, Gate
<1>2. /\ UNCHANGED <<past, memo, since, began, raw, stage, identity, input, reply>>
      /\ pc[r] = "comparing" /\ pc'[r] \in {"taking", "loading"}
      /\ pc'[r] = "taking" => memo # NoMemo /\ memo.raw = raw[r]
  BY DEF Compare, Become, shared, Admission, Shaped
<1>3. Stamped'
  BY <1>2, StampsOfTheRest DEF Admission, Act, Gate
<1>4. InForce(raw[r], began[r]) /\ InForce(raw[r], since[r])
  <2>1. since[r] <= began[r]
    BY <1>2 DEF Admission, Stamped, InFlight
  <2> QED  BY <1>2, <2>1, Later DEF Admission, Stamped, Compared, Waiting
<1>5. Staged' /\ Compared'
  BY <1>1, <1>2, <1>4 DEF Admission, Staged, Compared, Others, Waiting, InForce
<1>6. Remembered' /\ Taken'
  BY <1>1, <1>2, <1>4 DEF Admission, Remembered, Taken, Others, InForce
<1>7. Judged' /\ Told'
  BY <1>1, <1>2 DEF Admission, Judged, JudgedBy, Told, Others, Decided
<1> QED  BY <1>1, <1>3, <1>5, <1>6, <1>7 DEF Admission

\* So does judging a caller by a configuration in force since the oldest request.
LEMMA SettlingAdmits ==
  ASSUME Admission, NEW r \in Requests, Act(r), pc[r] \in Waiting,
         NEW content, Settled(r, LoadIdentities(content)), InForce(content, since[r]),
         Remembered', Taken'
  PROVE  Admission'
<1>1. Shaped' /\ Others(r)
  BY LocalStep DEF Admission
<1>2. Stamped'
  BY StampsOfTheRest DEF Settled, Waiting
<1>3. Staged'
  BY <1>1 DEF Admission, Staged, Others, Settled
<1>4. Compared'
  BY <1>1 DEF Admission, Compared, Others, Settled, Waiting, InForce
<1>5. PICK i \in since[r]..Len(past) : content = GetSecret(past[i])
  BY DEF InForce
<1>6. UNCHANGED <<past, since, input>>
  BY DEF Settled
<1>7. Judged'
  <2>1. ASSUME NEW q \in Requests \ {r}, Decided(q)'
        PROVE  \E k \in since[q]..Len(past) : JudgedBy(q, LoadIdentities(GetSecret(past[k])))'
    BY <1>1, <1>6, <2>1 DEF Admission, Judged, JudgedBy, Others, Decided
  <2>2. \E k \in since[r]..Len(past) : JudgedBy(r, LoadIdentities(GetSecret(past[k])))'
    <3>1. CASE identity'[r] = Identify(LoadIdentities(content), input[r].header)
      BY <1>5, <1>6, <3>1 DEF JudgedBy
    <3>2. CASE stage[r] = "status" /\ identity'[r] = identity[r]
      <4>1. Decided(r)
        BY <3>2 DEF Decided, Waiting
      <4> QED  BY <1>6, <3>2, <4>1 DEF Admission, Judged, JudgedBy
    <3> QED  BY <3>1, <3>2 DEF Settled
  <2> QED  BY <1>6, <2>1, <2>2 DEF Judged
<1>8. Told'
  BY <1>1, <1>5, <1>6 DEF Admission, Told, Others, Settled
<1> QED  BY <1>1, <1>2, <1>3, <1>4, <1>7, <1>8 DEF Admission

\* So does taking the map from the memo, whichever memo it is by then.
LEMMA TakingAdmits ==
  ASSUME Admission, NEW r \in Requests, Take(r)
  PROVE  Admission'
<1>1. Act(r) /\ pc[r] = "taking" /\ pc[r] \in Waiting
  BY DEF Act, Gate, Take, Waiting
<1>2. Settled(r, memo.identities) /\ memo' = memo
  BY TakeSettles DEF Admission
<1>3. memo # NoMemo /\ InForce(memo.raw, since[r])
  BY <1>1 DEF Admission, Taken
<1>4. memo.identities = LoadIdentities(memo.raw)
  BY <1>3 DEF Admission, Remembered
<1>5. Remembered' /\ Taken'
  <2>1. Others(r)
    BY <1>1, LocalStep DEF Admission
  <2> QED  BY <1>2, <2>1 DEF Admission, Remembered, Taken, Others, Settled, InForce
<1> QED  BY <1>1, <1>2, <1>3, <1>4, <1>5, SettlingAdmits

\* So does loading: the new memo is as recent as every request in flight needs.
LEMMA LoadingAdmits ==
  ASSUME Admission, NEW r \in Requests, LoadAndRemember(r)
  PROVE  Admission'
<1>1. Act(r) /\ pc[r] = "loading" /\ pc[r] \in Waiting /\ r \in InFlight
  BY DEF Act, Gate, LoadAndRemember, Waiting, InFlight
<1>2. /\ Settled(r, LoadIdentities(raw[r]))
      /\ \/ memo' = memo
         \/ memo' = [raw |-> raw[r], identities |-> LoadIdentities(raw[r])]
            /\ memo' # NoMemo /\ LoadIdentities(raw[r]) # None
  BY LoadSettles DEF Admission
<1>3. \A q \in Requests : InForce(raw[r], since[q])
  <2>1. InForce(raw[r], began[r])
    BY <1>1 DEF Admission, Compared
  <2> QED  BY <1>1, <2>1, Later DEF Admission, Stamped
<1>4. Remembered'
  BY <1>2 DEF Admission, Remembered
<1>5. Taken'
  <2>1. Others(r)
    BY <1>1, LocalStep DEF Admission
  <2> QED  BY <1>2, <1>3, <2>1 DEF Admission, Taken, Others, Settled, InForce
<1> QED  BY <1>1, <1>2, <1>3, <1>4, <1>5, SettlingAdmits

\* So does every step of a handler.
LEMMA QuietAdmits ==
  ASSUME Admission, NEW r \in Requests, Handle(r) \/ ExecuteSql(r)
  PROVE  Admission'
<1>1. Shaped' /\ Others(r) /\ Quiet(r)
  BY LocalStep, QuietStep DEF Admission, Act
<1>2. UNCHANGED <<past, memo, since, identity, input>> /\ Decided(r)
  <2>1. stage[r] \notin {"gate", "identify"}
    BY <1>1 DEF Admission, Staged, Quiet
  <2> QED  BY <1>1, <2>1 DEF Quiet, Decided
<1>3. Stamped'
  BY <1>1, StampsOfTheRest DEF Act, Quiet
<1>4. Staged'
  BY <1>1 DEF Admission, Staged, Others, Quiet
<1>5. Compared'
  <2>1. InForce(GetSecret(File), began[r])
    BY Latest DEF Admission, Stamped
  <2> QED  BY <1>1, <1>2, <2>1 DEF Admission, Compared, Others, Quiet, Waiting, InForce
<1>6. Remembered' /\ Taken'
  BY <1>1, <1>2 DEF Admission, Remembered, Taken, Others, Quiet, InForce, Waiting
<1>7. Judged'
  BY <1>1, <1>2 DEF Admission, Judged, JudgedBy, Others, Decided
<1>8. Told'
  BY <1>1, <1>2 DEF Admission, Told, Others, Quiet
<1> QED  BY <1>1, <1>3, <1>4, <1>5, <1>6, <1>7, <1>8 DEF Admission

\* So does replacing the file: nothing that was in force leaves the past.
LEMMA RotationAdmits ==
  ASSUME Admission, Rotate
  PROVE  Admission'
<1>1. UNCHANGED <<local, memo>>
  BY DEF Rotate
<1>2. /\ past' \in Seq(Configurations) /\ Len(past') = Len(past) + 1
      /\ Len(past) \in Nat /\ past' # <<>>
      /\ \A i \in 1..Len(past) : past'[i] = past[i]
  BY DEF Rotate, Admission, Stamped
<1>3. \A content : \A first \in 1..Len(past) :
        InForce(content, first) =>
          \E i \in first..Len(past') : content = GetSecret(past'[i])
  BY <1>2 DEF InForce
<1>4. \A r \in Requests : began[r] \in 1..Len(past) /\ since[r] \in 1..Len(past)
  BY DEF Admission, Stamped
<1>5. Shaped' /\ Staged' /\ Remembered'
  BY <1>1 DEF Admission, Shaped, Staged, Remembered, local
<1>6. Stamped'
  BY <1>1, <1>2, <1>4 DEF Admission, Stamped, InFlight, local
<1>7. Compared' /\ Taken'
  BY <1>1, <1>3, <1>4 DEF Admission, Compared, Taken, InForce, local
<1>8. Judged'
  BY <1>1, <1>2, <1>4 DEF Admission, Judged, JudgedBy, Decided, local
<1>9. Told'
  BY <1>1, <1>2, <1>4 DEF Admission, Told, local
<1> QED  BY <1>5, <1>6, <1>7, <1>8, <1>9 DEF Admission

\* The invariant of the gate holds when the process starts.
LEMMA AdmissionStarts ==
  ASSUME ServiceAssumption, Init
  PROVE  Admission
<1>1. past = <<FirstConfiguration>> /\ FirstConfiguration \in Configurations
  BY DEF Init, ServiceAssumption
<1>2. past \in Seq(Configurations) /\ past # <<>> /\ Len(past) = 1
  BY <1>1
<1> QED  BY <1>2
  DEF Init, Admission, Shaped, Stamped, Staged, Compared, Remembered, Taken,
                     Judged, Told, InFlight, Waiting, Decided, NoMemo

\* Every step keeps the invariant of the gate.
LEMMA AdmissionStays ==
  ASSUME Admission, [Next]_vars
  PROVE  Admission'
<1>1. ASSUME NEW r \in Requests, Gate(r) \/ Handle(r) \/ ExecuteSql(r)
      PROVE  Admission'
  BY <1>1, ArrivalAdmits, ComparisonAdmits, TakingAdmits, LoadingAdmits, QuietAdmits
  DEF Gate
<1>2. CASE Rotate
  BY <1>2, RotationAdmits
<1>3. CASE \E target \in Targets : Migrate(target)
  BY <1>3 DEF Migrate, local, Admission, Shaped, Stamped, Staged, Compared, Remembered,
              Taken, Judged, JudgedBy, Told, InForce, InFlight, Decided
<1>4. CASE UNCHANGED vars
  BY <1>4 DEF vars, shared, local, Admission, Shaped, Stamped, Staged, Compared,
              Remembered, Taken, Judged, JudgedBy, Told, InForce, InFlight, Decided
<1> QED  BY <1>1, <1>2, <1>3, <1>4 DEF Next

\* The invariant of the gate holds.
LEMMA AdmissionHolds == Spec => []Admission
<1>1. Init => Admission
  BY ServiceAssumption, AdmissionStarts
<1> QED  BY <1>1, AdmissionStays, PTL DEF Spec

\* Whoever is let in is judged by a configuration in force after the oldest
\* request then in flight arrived (auth.py:294-321), for any number of requests,
\* configurations and rotations.
THEOREM SecretsDie == Spec => []RevokedSecretsDie
<1>1. Admission => RevokedSecretsDie
  BY DEF Admission, Judged, JudgedBy, Told, RevokedSecretsDie, Configured
<1> QED  BY <1>1, AdmissionHolds, PTL

\* Within execute_sql.
Doing == {"submitting", "creating", "running", "returned"}

\* The kinds of steps that matter to what is served: a step of the gate that
\* does not answer,
Waits(r) ==
  /\ pc[r] \in Waiting
  /\ UNCHANGED <<input, seen, readings, schema, sql, result, engines, created, versions>>
  /\ \/ pc'[r] \in Waiting /\ stage'[r] = stage[r]
     \/ pc'[r] = "routing" /\ stage[r] = "gate" /\ stage'[r] = "route"
     \/ pc'[r] = "submitting" /\ stage[r] = "identify" /\ stage'[r] = "health"

\* a reply other than an answer to a question,
Leaves(r) ==
  /\ pc[r] \in Waiting \cup {"routing", "prepared"} \/ stage[r] = "health"
  /\ UNCHANGED <<input, stage, sql, engines, created, versions>>
  /\ \E body : Answer(r, body) /\ body.kind # "answer"

\* an outcome of execute_sql,
Comes(r) ==
  /\ pc[r] \in {"submitting", "creating", "running"} /\ UNCHANGED <<kept, shared>>
  /\ \E outcome :
       /\ Came(r, outcome)
       /\ outcome.category = "gate_violation" => HasEngine(r) /\ Writes(Statement(r))
       /\ outcome.ok =>
            /\ HasEngine(r) /\ Statement(r) \in DOMAIN Holds[engines[Target(r)]]
            /\ outcome.columns = Holds[engines[Target(r)]][Statement(r)].columns
            /\ outcome.rows = FirstRows(Holds[engines[Target(r)]][Statement(r)].rows)

\* the end of a schema that was not assembled,
Ends(r) ==
  /\ pc[r] \in Doing /\ stage[r] \in CatalogueStages
  /\ EndSchema(r) /\ UNCHANGED schema

\* and the actions that are of a kind of their own.
Step(r) ==
  \/ Arrive(r) \/ Waits(r) \/ Leaves(r) \/ BeginSchema(r) \/ MissEngine(r)
  \/ CreateEngine(r) \/ Comes(r) \/ TakeReading(r) \/ AssembleSchema(r)
  \/ Ends(r)
  \/ WriteStatement(r) \/ ReplyWithAnswer(r) \/ ReportStatus(r)

\* What a failed execution says.
LEMMA Failing ==
  \A category : Fails(category).category = category /\ Fails(category).ok = FALSE
BY DEF Fails, NoResult

\* Every step of a request is of one of these kinds.
LEMMA KindOfStep ==
  ASSUME Shaped, ServiceAssumption, NEW r \in Requests, Act(r)
  PROVE  Step(r)
<1>1. CASE Compare(r)
  BY <1>1 DEF Compare, Become, shared, Waiting, Shaped, Waits, Step
<1>2. CASE Take(r)
  <2>1. /\ pc[r] = "taking" /\ UNCHANGED <<input, sql, engines, created, versions>>
        /\ \E identities : Decide(r, identities)
    BY <1>2 DEF Take, shared
  <2>2. PICK identities : Decide(r, identities)
    BY <2>1
  <2>3. CASE DecideAtTheGate(r, identities)
    <3>1. CASE Identify(identities, input[r].header) = None
      BY <2>1, <2>3, <3>1 DEF DecideAtTheGate, Error, Waiting, Leaves, Step
    <3>2. CASE Identify(identities, input[r].header) # None
      BY <2>1, <2>3, <3>2
        DEF DecideAtTheGate, Enter, Become, ofTheHandler, Waiting, Shaped, Waits,
            Step
    <3> QED  BY <3>1, <3>2
  <2>4. CASE IdentifyCaller(r, identities)
    BY <2>1, <2>4
      DEF IdentifyCaller, Enter, Become, ofTheHandler, Waiting, Shaped, Waits, Step
  <2>5. CASE AuthStatus(r, identities)
    BY <2>1, <2>5 DEF AuthStatus, Waiting, Leaves, Step
  <2> QED  BY <2>2, <2>3, <2>4, <2>5 DEF Decide
<1>3. CASE LoadAndRemember(r)
  <2>1. /\ pc[r] = "loading" /\ UNCHANGED <<input, sql, engines, created, versions>>
        /\ \E identities : Decide(r, identities)
    BY <1>3 DEF LoadAndRemember, shared
  <2>2. PICK identities : Decide(r, identities)
    BY <2>1
  <2>3. CASE DecideAtTheGate(r, identities)
    <3>1. CASE Identify(identities, input[r].header) = None
      BY <2>1, <2>3, <3>1 DEF DecideAtTheGate, Error, Waiting, Leaves, Step
    <3>2. CASE Identify(identities, input[r].header) # None
      BY <2>1, <2>3, <3>2
        DEF DecideAtTheGate, Enter, Become, ofTheHandler, Waiting, Shaped, Waits,
            Step
    <3> QED  BY <3>1, <3>2
  <2>4. CASE IdentifyCaller(r, identities)
    BY <2>1, <2>4
      DEF IdentifyCaller, Enter, Become, ofTheHandler, Waiting, Shaped, Waits, Step
  <2>5. CASE AuthStatus(r, identities)
    BY <2>1, <2>5 DEF AuthStatus, Waiting, Leaves, Step
  <2> QED  BY <2>2, <2>3, <2>4, <2>5 DEF Decide
<1>4. CASE Databases(r)
  BY <1>4 DEF Databases, shared, Leaves, Step
<1>5. CASE UnknownDatabase(r)
  BY <1>5 DEF UnknownDatabase, Failed, Error, shared, Leaves, Step
<1>6. CASE RefuseToSpend(r)
  BY <1>6 DEF RefuseToSpend, Failed, shared, Leaves, Step
<1>7. CASE ReplyWithSchema(r)
  BY <1>7 DEF ReplyWithSchema, Error, shared, Leaves, Step
<1>8. CASE EndLoop(r)
  BY <1>8 DEF EndLoop, Failed, shared, Leaves, Step
<1>9. CASE ReplyToAnyone(r)
  BY <1>9 DEF ReplyToAnyone, Error, shared, Leaves, Step
<1>10. CASE Reject(r)
  <2>1. /\ pc[r] \in {"submitting", "creating", "running"} /\ UNCHANGED <<kept, shared>>
        /\ Came(r, Fails("rejected"))
    BY <1>10 DEF Reject, HasEngine
  <2> QED  BY <2>1, Failing DEF Comes, Step
<1>11. CASE NoDatabaseUrl(r)
  <2>1. /\ pc[r] \in {"submitting", "creating", "running"} /\ UNCHANGED <<kept, shared>>
        /\ Came(r, Fails("connection_error"))
    BY <1>11 DEF NoDatabaseUrl, HasEngine
  <2> QED  BY <2>1, Failing DEF Comes, Step
<1>12. CASE RefuseWrite(r)
  <2>1. /\ pc[r] \in {"submitting", "creating", "running"} /\ UNCHANGED <<kept, shared>>
        /\ Came(r, Fails("gate_violation")) /\ HasEngine(r) /\ Writes(Statement(r))
    BY <1>12 DEF RefuseWrite, HasEngine
  <2> QED  BY <2>1, Failing DEF Comes, Step
<1>13. CASE FailToRun(r)
  <2>1. /\ pc[r] \in {"submitting", "running"} /\ UNCHANGED <<kept, shared>>
        /\ \E category \in Errors : Came(r, Fails(category))
    BY <1>13 DEF FailToRun, HasEngine
  <2>2. \A category \in Errors : category # "gate_violation"
    BY DEF ServiceAssumption
  <2> QED  BY <2>1, <2>2, Failing DEF Comes, Step
<1>14. CASE RunStatement(r)
  <2> DEFINE found == Holds[engines[Target(r)]][Statement(r)]
           outcome == [NoResult EXCEPT !.ok = TRUE, !.columns = found.columns,
                                       !.rows = FirstRows(found.rows),
                                       !.truncated = Len(found.rows) > MaxRows]
  <2>1. /\ pc[r] \in {"submitting", "running"} /\ UNCHANGED <<kept, shared>>
        /\ Came(r, outcome) /\ HasEngine(r)
        /\ Statement(r) \in DOMAIN Holds[engines[Target(r)]]
    BY <1>14 DEF RunStatement, HasEngine
  <2>2. /\ outcome.category = "" /\ outcome.columns = found.columns
        /\ outcome.rows = FirstRows(found.rows)
    BY DEF NoResult
  <2> HIDE DEF outcome
  <2> QED  BY <2>1, <2>2 DEF Comes, Step
<1>15. CASE RefusePartialSchema(r)
  BY <1>15 DEF RefusePartialSchema, HasEngine, Doing, Ends, Step
<1>16. CASE FailSchema(r)
  BY <1>16 DEF FailSchema, Doing, Ends, Step
<1> QED  BY <1>1, <1>2, <1>3, <1>4, <1>5, <1>6, <1>7, <1>8, <1>9, <1>10, <1>11, <1>12,
           <1>13, <1>14, <1>15, <1>16 DEF Step, Act, Gate, Handle, ExecuteSql

\* Where a request is says what it has passed: a schema is read only within
\* execute_sql, of a target there is, and what runs has been validated.
Placed == \A r \in Requests :
  /\ pc[r] \notin Waiting \cup {"idle", "replied"} =>
       stage[r] \notin {"gate", "identify", "status"}
  /\ stage[r] \in CatalogueStages => pc[r] \in Doing
  /\ pc[r] = "prepared" => stage[r] = "read"
  /\ pc[r] \in Doing \cup {"prepared"} => Target(r) \in Targets
  /\ pc[r] = "running" => engines[Target(r)] # None
  /\ pc[r] \in {"creating", "running"} => ValidateSql(Statement(r))

\* Who is building an engine for a target.
Creating(t) == {r \in Requests : pc[r] = "creating" /\ Target(r) = t}

\* A target's pools so far and those being built are no more than the requests.
Pooled ==
  /\ engines \in [Targets -> Targets \cup {None}] /\ created \in [Targets -> Nat]
  /\ \A t \in Targets :
       /\ engines[t] \in {None, t}
       /\ engines[t] = None => created[t] = 0
       /\ created[t] + Cardinality(Creating(t)) <= Cardinality(Requests)

Found(r) == Holds[ResolveTarget(input[r])][sql[r]]

Finds(r) == /\ ResolveTarget(input[r]) \in Targets
            /\ sql[r] \in DOMAIN Holds[ResolveTarget(input[r])]

\* What the validator passes, and the read-only transaction may yet stop.
PassesAsReadOnly(text) == ValidateSql(text) /\ ShownWrites(text) \subseteq {"Lock"}

\* What a result is of: the statement of the request, on the target it named.
Resulted == \A r \in Requests :
  /\ result[r].category = "gate_violation" =>
       /\ pc[r] = "returned" \/ stage[r] = "status"
       /\ PassesAsReadOnly(Statement(r))
  /\ result[r].ok /\ pc[r] = "returned" /\ stage[r] = "statement" =>
       /\ Finds(r) /\ result[r].columns = Found(r).columns
       /\ result[r].rows = FirstRows(Found(r).rows)

Replied == \A r \in Requests : pc[r] = "replied" /\ reply[r].body.kind = "answer" =>
  Finds(r) /\ reply[r].body = AnswerOf(Found(r).columns, EncodeRows(FirstRows(Found(r).rows)))

InSequence ==
  \A t \in Targets : versions[t] \in Seq(Catalogues[t]) /\ versions[t] # <<>>

Seen ==
  /\ DOMAIN versions = Targets /\ InSequence
  /\ \A r \in Requests : \A t \in Targets : seen[r][t] \in 1..Len(versions[t])

\* The first reading, the first two, and the schema, in the order of the
\* catalogues they are of.
ReadRelations(rows, catalogues, first) == \E i \in first..Len(catalogues) :
  Whole(RelationRows(catalogues[i])) /\ rows = <<RelationRows(catalogues[i])>>

ReadColumns(rows, catalogues, first) ==
  \E i \in first..Len(catalogues) : \E j \in i..Len(catalogues) :
    /\ Whole(RelationRows(catalogues[i])) /\ Whole(ColumnRows(catalogues[j]))
    /\ rows = <<RelationRows(catalogues[i]), ColumnRows(catalogues[j])>>

Gathered == \A r \in Requests :
  /\ stage[r] \notin {"columns", "keys"} => readings[r] = <<>>
  /\ stage[r] = "columns" =>
       ReadRelations(readings[r], versions[Target(r)], seen[r][Target(r)])
  /\ stage[r] = "keys" =>
       ReadColumns(readings[r], versions[Target(r)], seen[r][Target(r)])

ReadWhole(tables, catalogues, first) ==
  \E i \in first..Len(catalogues) :
  \E j \in i..Len(catalogues) : \E k \in j..Len(catalogues) :
    /\ Whole(RelationRows(catalogues[i])) /\ Whole(ColumnRows(catalogues[j]))
    /\ Whole(KeyRows(catalogues[k]))
    /\ tables = Assemble(RelationRows(catalogues[i]), ColumnRows(catalogues[j]),
                         KeyRows(catalogues[k]))

Asked(r) == ResolveTarget(input[r])

Sourced == \A r \in Requests : schema[r] # NoSchema =>
  Asked(r) \in Targets /\ ReadWhole(schema[r], versions[Asked(r)], seen[r][Asked(r)])

\* The inductive invariant of what is served.
Serving ==
  Shaped /\ Placed /\ Pooled /\ Resulted /\ Replied /\ Seen /\ Gathered /\ Sourced

\* Another request's step changes neither the target nor the statement of one.
LEMMA SameTask ==
  ASSUME NEW r \in Requests, Others(r)
  PROVE  \A q \in Requests \ {r} : Target(q)' = Target(q) /\ Statement(q)' = Statement(q)
BY DEF Others, Target, Statement, ResolveTarget

\* A name resolves to a target or to nothing (main.py's _resolve_target).
LEMMA ResolvedTarget ==
  ASSUME ServiceAssumption
  PROVE  \A request : ResolveTarget(request) \in Targets \cup {None}
BY DEF ServiceAssumption, ResolveTarget

\* Every step leaves requests where they have passed what they must.
LEMMA PlacedStep ==
  ASSUME Serving, ServiceAssumption, NEW r \in Requests, Step(r), Others(r)
  PROVE  Placed'
<1>1. ASSUME NEW t \in Targets, engines[t] # None PROVE engines'[t] # None
  <2>1. engines' = engines \/ CreateEngine(r)
    BY
      DEF Step, Arrive, Waits, Leaves, Answer, BeginSchema, MissEngine, Comes,
          TakeReading,
           AssembleSchema, Ends, EndSchema, WriteStatement, ReplyWithAnswer, ReportStatus, shared
  <2> QED  BY <1>1, <2>1 DEF CreateEngine, Serving, Pooled, ServiceAssumption
<1>2. ASSUME NEW q \in Requests \ {r}
      PROVE  /\ pc'[q] \notin Waiting \cup {"idle", "replied"} =>
                  stage'[q] \notin {"gate", "identify", "status"}
             /\ stage'[q] \in CatalogueStages => pc'[q] \in Doing
             /\ pc'[q] = "prepared" => stage'[q] = "read"
             /\ pc'[q] \in Doing \cup {"prepared"} => Target(q)' \in Targets
             /\ pc'[q] = "running" => engines'[Target(q)'] # None
             /\ pc'[q] \in {"creating", "running"} => ValidateSql(Statement(q)')
  BY <1>1, <1>2, SameTask DEF Others, Serving, Placed, Doing
<1> DEFINE placed == /\ pc'[r] \notin Waiting \cup {"idle", "replied"} =>
                          stage'[r] \notin {"gate", "identify", "status"}
                     /\ stage'[r] \in CatalogueStages => pc'[r] \in Doing
                     /\ pc'[r] = "prepared" => stage'[r] = "read"
                     /\ pc'[r] \in Doing \cup {"prepared"} => Target(r)' \in Targets
                     /\ pc'[r] = "running" => engines'[Target(r)'] # None
                     /\ pc'[r] \in {"creating", "running"} => ValidateSql(Statement(r)')
<1>3. placed
  <2>0. /\ Shaped /\ Placed /\ Pooled /\ DefaultTarget \in Targets
        /\ ConfiguredTargets \subseteq Targets
        /\ None \notin Targets /\ \A request : ResolveTarget(request) \in Targets \cup {None}
    BY ResolvedTarget DEF Serving, ServiceAssumption
  <2>1. CASE Arrive(r)
    BY <2>0, <2>1
      DEF Arrive, ReadSecret, Enter, Become, shared, Shaped, Placed, Pooled, Target,
          ResolveTarget, Statement, Waiting, Doing, CatalogueStages
  <2>2. CASE Waits(r)
    BY <2>0, <2>2
      DEF Waits, Shaped, Placed, Pooled, Target, ResolveTarget, Statement, Waiting,
          Doing, CatalogueStages
  <2>3. CASE Leaves(r)
    <3>1. pc'[r] = "replied" /\ stage'[r] = stage[r]
      BY <2>0, <2>3 DEF Leaves, Answer, Become, Shaped
    <3>2. stage[r] \notin CatalogueStages
      BY <2>0, <2>3 DEF Leaves, Placed, Waiting, Doing, CatalogueStages
    <3> QED  BY <3>1, <3>2 DEF Doing
  <2>4. CASE BeginSchema(r)
    BY <2>0, <2>4
      DEF BeginSchema, Enter, Become, shared, Shaped, Placed, Pooled, Target,
          ResolveTarget, Statement, Waiting, Doing, CatalogueStages
  <2>5. CASE MissEngine(r)
    BY <2>0, <2>5
      DEF MissEngine, Become, kept, shared, Shaped, Placed, Pooled, Target,
          ResolveTarget, Statement, Waiting, Doing, CatalogueStages
  <2>6. CASE CreateEngine(r)
    <3>1. /\ pc[r] = "creating" /\ pc'[r] = "running" /\ UNCHANGED <<input, stage, sql>>
          /\ engines' = [engines EXCEPT ![Target(r)] = Target(r)]
      BY <2>0, <2>6 DEF CreateEngine, Become, kept, Shaped
    <3>2. Target(r)' = Target(r) /\ Statement(r)' = Statement(r)
      BY <3>1 DEF Target, Statement
    <3>3. /\ Target(r) \in Targets /\ stage[r] \notin {"gate", "identify", "status"}
          /\ ValidateSql(Statement(r))
      BY <2>0, <3>1 DEF Placed, Waiting, Doing
    <3>4. engines'[Target(r)] # None
      BY <2>0, <3>1, <3>3 DEF Pooled
    <3> QED  BY <3>1, <3>2, <3>3, <3>4 DEF Doing
  <2>7. CASE Comes(r)
    <3>1. /\ pc[r] \in Doing /\ pc'[r] = "returned"
          /\ UNCHANGED <<input, stage, sql>>
      BY <2>0, <2>7 DEF Comes, Came, Become, kept, Shaped, Doing
    <3>2. Target(r)' = Target(r)
      BY <3>1 DEF Target
    <3>3. /\ Target(r) \in Targets
          /\ stage[r] \notin {"gate", "identify", "status"}
      BY <2>0, <3>1 DEF Placed, Waiting, Doing
    <3> QED  BY <3>1, <3>2, <3>3 DEF Doing
  <2>8. CASE TakeReading(r)
    BY <2>0, <2>8
      DEF TakeReading, HasEngine, NextStage, Enter, Become, shared, Shaped, Placed,
          Pooled, Target, ResolveTarget, Statement, Waiting, Doing, CatalogueStages
  <2>9. CASE AssembleSchema(r)
    BY <2>0, <2>9
      DEF AssembleSchema, HasEngine, EndSchema, Enter, Become, shared, Shaped,
          Placed, Pooled, Target, ResolveTarget, Statement, Waiting, Doing,
          CatalogueStages
  <2>10. CASE Ends(r)
    BY <2>0, <2>10
      DEF Ends, EndSchema, Enter, Become, shared, Shaped, Placed, Pooled, Target,
          ResolveTarget, Statement, Waiting, Doing, CatalogueStages
  <2>11. CASE WriteStatement(r)
    BY <2>0, <2>11
      DEF WriteStatement, Enter, Become, shared, Shaped, Placed, Pooled, Target,
          ResolveTarget, Statement, Waiting, Doing, CatalogueStages
  <2>12. CASE ReplyWithAnswer(r)
    BY <2>0, <2>12
      DEF ReplyWithAnswer, Answer, Become, shared, Shaped, Placed, Pooled, Target,
          ResolveTarget, Statement, Waiting, Doing, CatalogueStages
  <2>13. CASE ReportStatus(r)
    BY <2>0, <2>13
      DEF ReportStatus, ReadSecret, Enter, Become, shared, Shaped, Placed, Pooled,
          Target, ResolveTarget, Statement, Waiting, Doing, CatalogueStages
  <2> QED  BY <2>1, <2>2, <2>3, <2>4, <2>5, <2>6, <2>7, <2>8, <2>9, <2>10, <2>11, <2>12,
             <2>13 DEF Step
<1> QED  BY <1>2, <1>3 DEF Placed

\* Only a request that missed builds an engine, once, so the pools of a target
\* are counted by those who missed together (engine.py:135).
LEMMA PooledStep ==
  ASSUME Serving, ServiceAssumption, NEW r \in Requests, Step(r), Others(r)
  PROVE  Pooled'
<1>1. ASSUME NEW t \in Targets
      PROVE  /\ Creating(t)' \subseteq Creating(t) \cup {r}
             /\ pc'[r] # "creating" => Creating(t)' \subseteq Creating(t) \ {r}
             /\ Target(r)' # t => Creating(t)' \subseteq Creating(t) \ {r}
             /\ IsFiniteSet(Creating(t)) /\ Creating(t) \subseteq Requests
  <2>1. Creating(t) \subseteq Requests /\ IsFiniteSet(Requests)
    BY DEF Creating, ServiceAssumption
  <2>2. IsFiniteSet(Creating(t))
    BY <2>1, FS_Subset
  <2> QED  BY <2>1, <2>2, SameTask DEF Creating, Others
<1>2. Shaped /\ Pooled /\ Cardinality(Requests) \in Nat
  BY FS_CardinalityType DEF Serving, ServiceAssumption
<1>3. ASSUME NEW S, NEW T, S \subseteq T, IsFiniteSet(T)
      PROVE  Cardinality(S) \in Nat /\ Cardinality(T) \in Nat
             /\ Cardinality(S) <= Cardinality(T)
  BY <1>3, FS_Subset, FS_CardinalityType
<1>4. CASE MissEngine(r)
  <2>1. /\ UNCHANGED <<engines, created, input, stage>>
        /\ engines[Target(r)] = None
    BY <1>4 DEF MissEngine, kept, shared
  <2>2. Target(r)' = Target(r)
    BY <2>1 DEF Target
  <2>3. ASSUME NEW t \in Targets
        PROVE  created[t] + Cardinality(Creating(t)') <= Cardinality(Requests)
    <3>1. CASE Target(r) = t
      <4>1. created[t] = 0
        BY <1>2, <2>1, <3>1 DEF Pooled
      <4>2. Creating(t)' \subseteq Requests
        BY <1>1
      <4> QED  BY <1>2, <1>3, <4>1, <4>2 DEF ServiceAssumption
    <3>2. CASE Target(r) # t
      <4>1. Creating(t)' \subseteq Creating(t) /\ IsFiniteSet(Creating(t))
        BY <1>1, <2>2, <3>2
      <4> QED  BY <1>2, <1>3, <4>1 DEF Pooled
    <3> QED  BY <3>1, <3>2
  <2> QED  BY <1>2, <2>1, <2>3 DEF Pooled
<1>5. CASE CreateEngine(r)
  <2>1. /\ pc[r] = "creating" /\ Target(r) \in Targets /\ pc'[r] = "running"
        /\ engines' = [engines EXCEPT ![Target(r)] = Target(r)]
        /\ created' = [created EXCEPT ![Target(r)] = created[Target(r)] + 1]
    BY <1>2, <1>5 DEF CreateEngine, Become, Shaped, ServiceAssumption
  <2>2. ASSUME NEW t \in Targets
        PROVE  created'[t] + Cardinality(Creating(t)') <= Cardinality(Requests)
    <3>1. Creating(t)' \subseteq Creating(t) \ {r} /\ IsFiniteSet(Creating(t))
      BY <1>1, <2>1
    <3>2. CASE Target(r) = t
      <4>1. r \in Creating(t)
        BY <2>1, <3>2 DEF Creating
      <4>2. Cardinality(Creating(t) \ {r}) = Cardinality(Creating(t)) - 1
            /\ IsFiniteSet(Creating(t) \ {r})
        BY <3>1, <4>1, FS_RemoveElement
      <4> QED  BY <1>2, <1>3, <2>1, <3>1, <3>2, <4>2 DEF Pooled
    <3>3. CASE Target(r) # t
      <4>1. Creating(t)' \subseteq Creating(t)
        BY <3>1
      <4> QED  BY <1>2, <1>3, <2>1, <3>1, <3>3, <4>1 DEF Pooled
    <3> QED  BY <3>2, <3>3
  <2> QED  BY <1>2, <2>1, <2>2 DEF Pooled, ServiceAssumption
<1>6. CASE ~MissEngine(r) /\ ~CreateEngine(r)
  <2>1. UNCHANGED <<engines, created>> /\ pc'[r] # "creating"
    <3>1. CASE Arrive(r)
      BY <1>2, <3>1 DEF Arrive, ReadSecret, Enter, Become, shared, Shaped, Waiting
    <3>2. CASE Waits(r)
      BY <1>2, <3>2 DEF Waits, Shaped, Waiting
    <3>3. CASE Leaves(r)
      BY <1>2, <3>3 DEF Leaves, Answer, Become, Shaped, Waiting
    <3>4. CASE BeginSchema(r)
      BY <1>2, <3>4 DEF BeginSchema, Enter, Become, shared, Shaped, Waiting
    <3>5. CASE MissEngine(r)
    BY <1>6, <3>5
    <3>6. CASE CreateEngine(r)
    BY <1>6, <3>6
    <3>7. CASE Comes(r)
      BY <1>2, <3>7 DEF Comes, Came, Become, kept, shared, Shaped, Waiting
    <3>8. CASE TakeReading(r)
      BY <1>2, <3>8
        DEF TakeReading, HasEngine, NextStage, Enter, Become, shared, Shaped,
            Waiting
    <3>9. CASE AssembleSchema(r)
      BY <1>2, <3>9
        DEF AssembleSchema, HasEngine, EndSchema, Enter, Become, shared, Shaped,
            Waiting
    <3>10. CASE Ends(r)
      BY <1>2, <3>10 DEF Ends, EndSchema, Enter, Become, shared, Shaped, Waiting
    <3>11. CASE WriteStatement(r)
      BY <1>2, <3>11 DEF WriteStatement, Enter, Become, shared, Shaped, Waiting
    <3>12. CASE ReplyWithAnswer(r)
      BY <1>2, <3>12 DEF ReplyWithAnswer, Answer, Become, shared, Shaped, Waiting
    <3>13. CASE ReportStatus(r)
      BY <1>2, <3>13 DEF ReportStatus, ReadSecret, Enter, Become, shared, Shaped, Waiting
    <3> QED  BY <3>1, <3>2, <3>3, <3>4, <3>5, <3>6, <3>7, <3>8, <3>9, <3>10, <3>11,
               <3>12, <3>13 DEF Step
  <2>2. ASSUME NEW t \in Targets
        PROVE  created'[t] + Cardinality(Creating(t)') <= Cardinality(Requests)
    <3>1. Creating(t)' \subseteq Creating(t) /\ IsFiniteSet(Creating(t))
      BY <1>1, <2>1
    <3> QED  BY <1>2, <1>3, <2>1, <3>1 DEF Pooled
  <2> QED  BY <1>2, <2>1, <2>2 DEF Pooled
<1> QED  BY <1>4, <1>5, <1>6

\* Another request's step does not change what a statement finds.
LEMMA SameFound ==
  ASSUME NEW r \in Requests, Others(r)
  PROVE  \A q \in Requests \ {r} : Found(q)' = Found(q) /\ Finds(q)' = Finds(q)
BY DEF Others, Found, Finds, ResolveTarget

\* What the validator lets through shows no write but a row lock: every other
\* class of node PostgreSQL would refuse is forbidden, in every statement of the
\* text and wherever in it (validator.py:319-330).
LEMMA ValidatedIsReadOnly ==
  ASSUME NEW text, ValidateSql(text)
  PROVE  PassesAsReadOnly(text)
<1>1. PICK i \in DOMAIN text.parsed :
        /\ \A j \in DOMAIN text.parsed \ {i} : text.parsed[j] = Empty
        /\ IsQuery(text.parsed[i])
  BY DEF ValidateSql
<1>2. \A n \in Nodes(text.parsed[i]) : text.parsed[i].class[n] \notin ForbiddenNodes
  BY <1>1 DEF IsQuery, Walk
<1>3. WriteNodes \ {"Lock"} \subseteq ForbiddenNodes
  BY DEF WriteNodes, ForbiddenNodes, DML, DDL
<1>4. ASSUME NEW class \in ShownWrites(text)
      PROVE  class = "Lock"
  <2>1. class \in WriteNodes
        /\ \E tree \in {text.parsed[j] : j \in DOMAIN text.parsed} \ {Empty} :
           \E n \in Nodes(tree) : tree.class[n] = class
    BY <1>4 DEF ShownWrites
  <2>2. PICK n \in Nodes(text.parsed[i]) : class = text.parsed[i].class[n]
    BY <1>1, <2>1
  <2> QED  BY <1>2, <1>3, <2>1, <2>2
<1> QED  BY <1>4 DEF PassesAsReadOnly

\* Every step leaves results those of the statement and target they are for.
LEMMA ResultedStep ==
  ASSUME Serving, ServiceAssumption, NEW r \in Requests, Step(r), Others(r)
  PROVE  Resulted'
<1>1. ASSUME NEW q \in Requests \ {r}
      PROVE  /\ result'[q].category = "gate_violation" =>
                  /\ pc'[q] = "returned" \/ stage'[q] = "status"
                  /\ PassesAsReadOnly(Statement(q)')
             /\ result'[q].ok /\ pc'[q] = "returned" /\ stage'[q] = "statement" =>
                  /\ Finds(q)' /\ result'[q].columns = Found(q)'.columns
                  /\ result'[q].rows = FirstRows(Found(q)'.rows)
  BY SameTask, SameFound DEF Others, Serving, Resulted
<1>2. Shaped /\ Placed /\ Pooled /\ Resulted
  BY DEF Serving
<1>3. NoResult.category = "" /\ NoResult.ok = FALSE
  BY DEF NoResult
<1>4. result'[r].category = "gate_violation" =>
        /\ pc'[r] = "returned" \/ stage'[r] = "status"
        /\ PassesAsReadOnly(Statement(r)')
  <2>1. CASE Arrive(r)
    BY <1>2, <1>3, <2>1
      DEF Arrive, ReadSecret, Enter, Become, shared, Shaped, Placed, Resulted,
          Statement, Waiting, Doing, CatalogueStages
  <2>2. CASE Waits(r)
    BY <1>2, <1>3, <2>2
      DEF Waits, Shaped, Placed, Resulted, Statement, Waiting, Doing,
          CatalogueStages
  <2>3. CASE Leaves(r)
    BY <1>2, <1>3, <2>3
      DEF Leaves, Answer, Become, Shaped, Placed, Resulted, Statement, Waiting,
          Doing, CatalogueStages
  <2>4. CASE BeginSchema(r)
    BY <1>2, <1>3, <2>4
      DEF BeginSchema, Enter, Become, shared, Shaped, Placed, Resulted, Statement,
          Waiting, Doing, CatalogueStages
  <2>5. CASE MissEngine(r)
    BY <1>2, <1>3, <2>5
      DEF MissEngine, Become, kept, shared, Shaped, Placed, Resulted, Statement,
          Waiting, Doing, CatalogueStages
  <2>6. CASE CreateEngine(r)
    BY <1>2, <1>3, <2>6
      DEF CreateEngine, Become, kept, Shaped, Placed, Resulted, Statement, Waiting,
          Doing, CatalogueStages
  <2>7. CASE Comes(r)
    <3>1. /\ result'[r].category = "gate_violation" => HasEngine(r) /\ Writes(Statement(r))
          /\ pc'[r] = "returned" /\ UNCHANGED <<input, stage, sql>>
      BY <2>7, <1>2 DEF Comes, Came, Become, kept, Shaped
    <3>2. HasEngine(r) => PassesAsReadOnly(Statement(r))
      BY <1>2, ValidatedIsReadOnly DEF HasEngine, Placed
    <3>3. Statement(r)' = Statement(r)
      BY <3>1 DEF Statement
    <3> QED  BY <3>1, <3>2, <3>3
  <2>8. CASE TakeReading(r)
    BY <1>2, <1>3, <2>8
      DEF TakeReading, HasEngine, NextStage, Enter, Become, shared, Shaped, Placed,
          Resulted, Statement, Waiting, Doing, CatalogueStages
  <2>9. CASE AssembleSchema(r)
    BY <1>2, <1>3, <2>9
      DEF AssembleSchema, HasEngine, EndSchema, Enter, Become, shared, Shaped,
          Placed, Resulted, Statement, Waiting, Doing, CatalogueStages
  <2>10. CASE Ends(r)
    BY <1>2, <1>3, <2>10
      DEF Ends, EndSchema, Enter, Become, shared, Shaped, Placed, Resulted,
          Statement, Waiting, Doing, CatalogueStages
  <2>11. CASE WriteStatement(r)
    BY <1>2, <1>3, <2>11
      DEF WriteStatement, Enter, Become, shared, Shaped, Placed, Resulted,
          Statement, Waiting, Doing, CatalogueStages
  <2>12. CASE ReplyWithAnswer(r)
    BY <1>2, <1>3, <2>12
      DEF ReplyWithAnswer, Answer, Become, shared, Shaped, Placed, Resulted,
          Statement, Waiting, Doing, CatalogueStages
  <2>13. CASE ReportStatus(r)
    BY <1>2, <1>3, <2>13
      DEF ReportStatus, ReadSecret, Enter, Become, shared, Shaped, Placed, Resulted,
          Statement, Waiting, Doing, CatalogueStages
  <2> QED  BY <2>1, <2>2, <2>3, <2>4, <2>5, <2>6, <2>7, <2>8, <2>9, <2>10, <2>11, <2>12,
             <2>13 DEF Step
<1>5. result'[r].ok /\ pc'[r] = "returned" /\ stage'[r] = "statement" =>
        /\ Finds(r)' /\ result'[r].columns = Found(r)'.columns
        /\ result'[r].rows = FirstRows(Found(r)'.rows)
  <2>1. CASE Arrive(r)
    BY <1>2, <2>1 DEF Arrive, ReadSecret, Enter, Become, shared, Shaped, Waiting, Doing
  <2>2. CASE Waits(r)
    BY <1>2, <2>2 DEF Waits, Shaped, Waiting, Doing
  <2>3. CASE Leaves(r)
    BY <1>2, <2>3 DEF Leaves, Answer, Become, Shaped, Waiting, Doing
  <2>4. CASE BeginSchema(r)
    BY <1>2, <2>4 DEF BeginSchema, Enter, Become, shared, Shaped, Waiting, Doing
  <2>5. CASE MissEngine(r)
    BY <1>2, <2>5 DEF MissEngine, Become, kept, shared, Shaped, Waiting, Doing
  <2>6. CASE CreateEngine(r)
    BY <1>2, <2>6 DEF CreateEngine, Become, kept, Shaped, Waiting, Doing
  <2>7. CASE Comes(r)
    <3> SUFFICES ASSUME result'[r].ok, stage'[r] = "statement"
                 PROVE  /\ Finds(r)' /\ result'[r].columns = Found(r)'.columns
                        /\ result'[r].rows = FirstRows(Found(r)'.rows)
      OBVIOUS
    <3>1. /\ UNCHANGED <<input, stage, sql, engines>>
          /\ pc[r] \in Doing /\ HasEngine(r)
          /\ Statement(r) \in DOMAIN Holds[engines[Target(r)]]
          /\ result'[r].columns = Holds[engines[Target(r)]][Statement(r)].columns
          /\ result'[r].rows = FirstRows(Holds[engines[Target(r)]][Statement(r)].rows)
      BY <2>7, <1>2 DEF Comes, Came, kept, shared, Shaped, Doing
    <3>2. Target(r) = ResolveTarget(input[r]) /\ Statement(r) = sql[r]
      BY <3>1 DEF Target, Statement, CatalogueStages
    <3>3. Target(r) \in Targets /\ engines[Target(r)] = Target(r)
      BY <1>2, <3>1 DEF Placed, Pooled, HasEngine
    <3> QED  BY <3>1, <3>2, <3>3 DEF Finds, Found, ResolveTarget
  <2>8. CASE TakeReading(r)
    BY <1>2, <2>8
      DEF TakeReading, HasEngine, NextStage, Enter, Become, shared, Shaped, Waiting,
          Doing
  <2>9. CASE AssembleSchema(r)
    BY <1>2, <2>9
      DEF AssembleSchema, HasEngine, EndSchema, Enter, Become, shared, Shaped,
          Waiting, Doing
  <2>10. CASE Ends(r)
    BY <1>2, <2>10 DEF Ends, EndSchema, Enter, Become, shared, Shaped, Waiting, Doing
  <2>11. CASE WriteStatement(r)
    BY <1>2, <2>11 DEF WriteStatement, Enter, Become, shared, Shaped, Waiting, Doing
  <2>12. CASE ReplyWithAnswer(r)
    BY <1>2, <2>12 DEF ReplyWithAnswer, Answer, Become, shared, Shaped, Waiting, Doing
  <2>13. CASE ReportStatus(r)
    BY <1>2, <2>13
      DEF ReportStatus, ReadSecret, Enter, Become, shared, Shaped, Waiting, Doing
  <2> QED  BY <2>1, <2>2, <2>3, <2>4, <2>5, <2>6, <2>7, <2>8, <2>9, <2>10, <2>11, <2>12,
             <2>13 DEF Step
<1> QED  BY <1>1, <1>4, <1>5 DEF Resulted

\* Every step leaves answers those of the statement and target they are for.
LEMMA RepliedStep ==
  ASSUME Serving, ServiceAssumption, NEW r \in Requests, Step(r), Others(r)
  PROVE  Replied'
<1>1. ASSUME NEW q \in Requests \ {r}, pc'[q] = "replied", reply'[q].body.kind = "answer"
      PROVE  /\ Finds(q)'
             /\ reply'[q].body =
                  AnswerOf(Found(q)'.columns, EncodeRows(FirstRows(Found(q)'.rows)))
  BY <1>1, SameFound DEF Others, Serving, Replied
<1>2. Shaped /\ Resulted
  BY DEF Serving
<1>3. ASSUME pc'[r] = "replied", reply'[r].body.kind = "answer"
      PROVE  /\ Finds(r)'
             /\ reply'[r].body =
                  AnswerOf(Found(r)'.columns, EncodeRows(FirstRows(Found(r)'.rows)))
  <2>1. CASE Arrive(r)
    BY <1>2, <1>3, <2>1 DEF Arrive, ReadSecret, Enter, Become, shared, Shaped, Waiting
  <2>2. CASE Waits(r)
    BY <1>2, <1>3, <2>2 DEF Waits, Shaped, Waiting
  <2>3. CASE Leaves(r)
    BY <1>2, <1>3, <2>3 DEF Leaves, Answer, Become, Shaped, Waiting
  <2>4. CASE BeginSchema(r)
    BY <1>2, <1>3, <2>4 DEF BeginSchema, Enter, Become, shared, Shaped, Waiting
  <2>5. CASE MissEngine(r)
    BY <1>2, <1>3, <2>5 DEF MissEngine, Become, kept, shared, Shaped, Waiting
  <2>6. CASE CreateEngine(r)
    BY <1>2, <1>3, <2>6 DEF CreateEngine, Become, kept, Shaped, Waiting
  <2>7. CASE Comes(r)
    BY <1>2, <1>3, <2>7 DEF Comes, Came, Become, kept, shared, Shaped, Waiting
  <2>8. CASE TakeReading(r)
    BY <1>2, <1>3, <2>8
      DEF TakeReading, HasEngine, NextStage, Enter, Become, shared, Shaped, Waiting
  <2>9. CASE AssembleSchema(r)
    BY <1>2, <1>3, <2>9
      DEF AssembleSchema, HasEngine, EndSchema, Enter, Become, shared, Shaped,
          Waiting
  <2>10. CASE Ends(r)
    BY <1>2, <1>3, <2>10 DEF Ends, EndSchema, Enter, Become, shared, Shaped, Waiting
  <2>11. CASE WriteStatement(r)
    BY <1>2, <1>3, <2>11 DEF WriteStatement, Enter, Become, shared, Shaped, Waiting
  <2>12. CASE ReplyWithAnswer(r)
    <3>1. /\ pc[r] = "returned" /\ stage[r] = "statement" /\ UNCHANGED <<input, sql>>
          /\ reply'[r].body = IF result[r].ok THEN AskAnswer(result[r])
                                             ELSE Failed(result[r].category)
      BY <2>12, <1>2 DEF ReplyWithAnswer, Answer, Shaped
    <3>2. result[r].ok
      BY <1>3, <3>1 DEF Failed
    <3>3. /\ Finds(r) /\ result[r].columns = Found(r).columns
          /\ result[r].rows = FirstRows(Found(r).rows)
      BY <1>2, <3>1, <3>2 DEF Resulted
    <3>4. AskAnswer(result[r]) =
            AnswerOf(result[r].columns, EncodeRows(result[r].rows))
      BY <1>3, <3>1, <3>2 DEF AskAnswer, Error
    <3> QED  BY <3>1, <3>2, <3>3, <3>4 DEF Finds, Found, ResolveTarget
  <2>13. CASE ReportStatus(r)
    BY <1>2, <1>3, <2>13
      DEF ReportStatus, ReadSecret, Enter, Become, shared, Shaped, Waiting
  <2> QED  BY <2>1, <2>2, <2>3, <2>4, <2>5, <2>6, <2>7, <2>8, <2>9, <2>10, <2>11, <2>12,
             <2>13 DEF Step
<1> QED  BY <1>1, <1>3 DEF Replied

\* A request does not change a catalogue.
LEMMA VersionsKept ==
  ASSUME NEW r \in Requests, Step(r)
  PROVE  versions' = versions
BY DEF Step, Arrive, Waits, Leaves, BeginSchema, MissEngine, CreateEngine, Comes, TakeReading,
       AssembleSchema, Ends, EndSchema, WriteStatement, ReplyWithAnswer, ReportStatus, shared

\* Every step leaves the stamps of the catalogues within what there has been.
LEMMA SeenStep ==
  ASSUME Serving, ServiceAssumption, NEW r \in Requests, Step(r), Others(r)
  PROVE  Seen'
<1>1. versions' = versions
  BY VersionsKept
<1>2. \A t \in Targets : Len(versions[t]) \in Nat \ {0}
  BY DEF Serving, Seen, InSequence
<1>3. Shaped /\ \A t \in Targets : seen[r][t] \in 1..Len(versions[t])
  BY DEF Serving, Seen
<1>4. \A t \in Targets : seen'[r][t] \in 1..Len(versions[t])
  <2>1. CASE Arrive(r)
    BY <1>2, <1>3, <2>1 DEF Arrive, ReadSecret, Enter, Become, shared, Shaped
  <2>2. CASE Waits(r)
    BY <1>2, <1>3, <2>2 DEF Waits, Shaped
  <2>3. CASE Leaves(r)
    BY <1>2, <1>3, <2>3 DEF Leaves, Answer, Become, Shaped
  <2>4. CASE BeginSchema(r)
    BY <1>2, <1>3, <2>4 DEF BeginSchema, Enter, Become, shared, Shaped
  <2>5. CASE MissEngine(r)
    BY <1>2, <1>3, <2>5 DEF MissEngine, Become, kept, shared, Shaped
  <2>6. CASE CreateEngine(r)
    BY <1>2, <1>3, <2>6 DEF CreateEngine, Become, kept, Shaped
  <2>7. CASE Comes(r)
    BY <1>2, <1>3, <2>7 DEF Comes, Came, Become, kept, shared, Shaped
  <2>8. CASE TakeReading(r)
    BY <1>2, <1>3, <2>8
      DEF TakeReading, HasEngine, NextStage, Enter, Become, shared, Shaped
  <2>9. CASE AssembleSchema(r)
    BY <1>2, <1>3, <2>9
      DEF AssembleSchema, HasEngine, EndSchema, Enter, Become, shared, Shaped
  <2>10. CASE Ends(r)
    BY <1>2, <1>3, <2>10 DEF Ends, EndSchema, Enter, Become, shared, Shaped
  <2>11. CASE WriteStatement(r)
    BY <1>2, <1>3, <2>11 DEF WriteStatement, Enter, Become, shared, Shaped
  <2>12. CASE ReplyWithAnswer(r)
    BY <1>2, <1>3, <2>12 DEF ReplyWithAnswer, Answer, Become, shared, Shaped
  <2>13. CASE ReportStatus(r)
    BY <1>2, <1>3, <2>13 DEF ReportStatus, ReadSecret, Enter, Become, shared, Shaped
  <2> QED  BY <2>1, <2>2, <2>3, <2>4, <2>5, <2>6, <2>7, <2>8, <2>9, <2>10, <2>11, <2>12,
             <2>13 DEF Step
<1> QED  BY <1>1, <1>4 DEF Serving, Seen, InSequence, Others

\* A catalogue query reads what the target's own catalogue holds now.
LEMMA ReadingNow ==
  ASSUME Serving, NEW r \in Requests, HasEngine(r), stage[r] \in CatalogueStages
  PROVE  /\ Target(r) = ResolveTarget(input[r]) /\ Target(r) \in Targets
         /\ Read(r) = RowsOf(r, versions[Target(r)][Len(versions[Target(r)])])
         /\ Len(versions[Target(r)]) \in Nat
         /\ seen[r][Target(r)] \in 1..Len(versions[Target(r)])
<1>1. Target(r) \in Targets /\ engines[Target(r)] = Target(r)
  BY DEF Serving, Placed, Pooled, HasEngine, Doing
<1> QED  BY <1>1 DEF Serving, Seen, InSequence, Read, Catalogue, Target, CatalogueStages

\* Sequences of one and of two elements.
LEMMA Appended ==
  ASSUME NEW x, NEW y
  PROVE  Append(<<>>, x) = <<x>> /\ Append(<<x>>, y) = <<x, y>>
<1>1. PICK S : S = {x, y}
  OBVIOUS
<1>2. x \in S /\ y \in S /\ <<x>> \in Seq(S) /\ <<x, y>> \in Seq(S)
  BY <1>1
<1>3. /\ Append(<<x>>, y) \in Seq(S) /\ Len(Append(<<x>>, y)) = 2
      /\ Append(<<x>>, y)[1] = x /\ Append(<<x>>, y)[2] = y
  BY <1>2
<1>4. \A i \in 1..2 : Append(<<x>>, y)[i] = <<x, y>>[i]
  BY <1>3
<1>5. Append(<<x>>, y) = <<x, y>>
  BY <1>2, <1>3, <1>4, SeqEqual
<1>6. Append(<<>>, x) = <<x>>
  OBVIOUS
<1> QED  BY <1>5, <1>6

\* Every step leaves the readings whole, in order, and of the same target.
LEMMA GatheredStep ==
  ASSUME Serving, ServiceAssumption, NEW r \in Requests, Step(r), Others(r)
  PROVE  Gathered'
<1>1. versions' = versions
  BY VersionsKept
<1>2. ASSUME NEW q \in Requests \ {r}
      PROVE  /\ stage'[q] \notin {"columns", "keys"} => readings'[q] = <<>>
             /\ stage'[q] = "columns" =>
                  ReadRelations(readings'[q], versions[Target(q)'], seen'[q][Target(q)'])
             /\ stage'[q] = "keys" =>
                  ReadColumns(readings'[q], versions[Target(q)'], seen'[q][Target(q)'])
  BY <1>1, SameTask DEF Others, Serving, Gathered
<1>3. Shaped /\ Placed /\ Gathered
  BY DEF Serving
<1>4. /\ stage'[r] \notin {"columns", "keys"} => readings'[r] = <<>>
      /\ stage'[r] = "columns" =>
           ReadRelations(readings'[r], versions[Target(r)'], seen'[r][Target(r)'])
      /\ stage'[r] = "keys" =>
           ReadColumns(readings'[r], versions[Target(r)'], seen'[r][Target(r)'])
  <2>1. CASE Arrive(r)
    BY <1>3, <2>1
      DEF Arrive, ReadSecret, Enter, Become, shared, Shaped, Placed, Gathered,
          Waiting, Doing, CatalogueStages
  <2>2. CASE Waits(r)
    <3>1. stage'[r] \notin {"columns", "keys"} /\ readings'[r] = <<>>
      BY <1>3, <2>2 DEF Waits, Placed, Gathered, Waiting, Doing, CatalogueStages
    <3> QED  BY <3>1
  <2>3. CASE Leaves(r)
    BY <1>3, <2>3
      DEF Leaves, Answer, Become, Shaped, Placed, Gathered, Waiting, Doing,
          CatalogueStages
  <2>4. CASE BeginSchema(r)
    BY <1>3, <2>4
      DEF BeginSchema, Enter, Become, shared, Shaped, Placed, Gathered, Waiting,
          Doing, CatalogueStages
  <2>5. CASE MissEngine(r)
    <3>1. /\ UNCHANGED <<input, stage, seen, readings>> /\ Target(r)' = Target(r)
      BY <2>5 DEF MissEngine, kept, Target
    <3> QED  BY <1>1, <1>3, <3>1 DEF Gathered
  <2>6. CASE CreateEngine(r)
    <3>1. /\ UNCHANGED <<input, stage, seen, readings>> /\ Target(r)' = Target(r)
      BY <2>6 DEF CreateEngine, kept, Target
    <3> QED  BY <1>1, <1>3, <3>1 DEF Gathered
  <2>7. CASE Comes(r)
    <3>1. /\ UNCHANGED <<input, stage, seen, readings>> /\ Target(r)' = Target(r)
      BY <2>7 DEF Comes, kept, Target
    <3> QED  BY <1>1, <1>3, <3>1 DEF Gathered
  <2>8. CASE TakeReading(r)
    <3> DEFINE t == Target(r)
               last == Len(versions[t])
    <3>1. /\ HasEngine(r) /\ stage[r] \in {"relations", "columns"} /\ Whole(Read(r))
          /\ readings'[r] = Append(readings[r], Read(r))
          /\ stage'[r] = NextStage[stage[r]] /\ UNCHANGED <<input, seen>>
      BY <1>3, <2>8 DEF TakeReading, Enter, Shaped
    <3>2. /\ t = ResolveTarget(input[r]) /\ t \in Targets
          /\ Read(r) = RowsOf(r, versions[t][last])
          /\ last \in Nat /\ seen[r][t] \in 1..last
      BY <3>1, ReadingNow DEF CatalogueStages
    <3>3. Target(r)' = t
      BY <3>1, <3>2 DEF Target, NextStage
    <3>4. CASE stage[r] = "relations"
      <4>1. readings'[r] = <<RelationRows(versions[t][last])>>
        BY <1>3, <3>1, <3>2, <3>4, Appended DEF Gathered, RowsOf
      <4>2. last \in seen[r][t]..last
        BY <3>2
      <4>3. ReadRelations(readings'[r], versions[t], seen'[r][t])
        BY <1>1, <3>1, <3>2, <3>4, <4>1, <4>2 DEF ReadRelations, RowsOf
      <4>4. stage'[r] = "columns"
        BY <3>1, <3>4 DEF NextStage
      <4> QED  BY <3>3, <4>3, <4>4
    <3>5. CASE stage[r] = "columns"
      <4>1. PICK i \in seen[r][t]..last : /\ Whole(RelationRows(versions[t][i]))
                                        /\ readings[r] = <<RelationRows(versions[t][i])>>
        BY <1>3, <3>5 DEF Gathered, ReadRelations
      <4>2. /\ Read(r) = ColumnRows(versions[t][last]) /\ last \in i..last
            /\ readings'[r] = <<RelationRows(versions[t][i]), ColumnRows(versions[t][last])>>
        BY <3>1, <3>2, <3>5, <4>1, Appended DEF RowsOf
      <4>3. ReadColumns(readings'[r], versions[t], seen'[r][t])
        BY <1>1, <3>1, <4>1, <4>2 DEF ReadColumns
      <4>4. stage'[r] = "keys"
        BY <3>1, <3>5 DEF NextStage
      <4> QED  BY <3>3, <4>3, <4>4
    <3> QED  BY <3>1, <3>4, <3>5
  <2>9. CASE AssembleSchema(r)
    BY <1>3, <2>9
      DEF AssembleSchema, HasEngine, EndSchema, Enter, Become, shared, Shaped,
          Placed, Gathered, Waiting, Doing, CatalogueStages
  <2>10. CASE Ends(r)
    BY <1>3, <2>10
      DEF Ends, EndSchema, Enter, Become, shared, Shaped, Placed, Gathered, Waiting,
          Doing, CatalogueStages
  <2>11. CASE WriteStatement(r)
    BY <1>3, <2>11
      DEF WriteStatement, Enter, Become, shared, Shaped, Placed, Gathered, Waiting,
          Doing, CatalogueStages
  <2>12. CASE ReplyWithAnswer(r)
    BY <1>3, <2>12
      DEF ReplyWithAnswer, Answer, Become, shared, Shaped, Placed, Gathered,
          Waiting, Doing, CatalogueStages
  <2>13. CASE ReportStatus(r)
    BY <1>3, <2>13
      DEF ReportStatus, ReadSecret, Enter, Become, shared, Shaped, Placed, Gathered,
          Waiting, Doing, CatalogueStages
  <2> QED  BY <2>1, <2>2, <2>3, <2>4, <2>5, <2>6, <2>7, <2>8, <2>9, <2>10, <2>11, <2>12,
             <2>13 DEF Step
<1> QED  BY <1>1, <1>2, <1>4 DEF Gathered

\* Every step leaves schemas assembled from three whole readings.
LEMMA SourcedStep ==
  ASSUME Serving, ServiceAssumption, NEW r \in Requests, Step(r), Others(r)
  PROVE  Sourced'
<1>1. versions' = versions
  BY VersionsKept
<1>2. ASSUME NEW q \in Requests \ {r}, schema'[q] # NoSchema
      PROVE  /\ Asked(q)' \in Targets
             /\ ReadWhole(schema'[q], versions[Asked(q)'], seen'[q][Asked(q)'])
  BY <1>2 DEF Others, Serving, Sourced, Asked
<1>3. Shaped /\ Sourced
  BY DEF Serving
<1>4. \/ schema'[r] = NoSchema
      \/ schema'[r] = schema[r] /\ seen'[r] = seen[r] /\ input'[r] = input[r]
      \/ AssembleSchema(r)
  <2>1. CASE Arrive(r)
    BY <1>3, <2>1 DEF Arrive, ReadSecret, Enter, Become, shared, Shaped, kept
  <2>2. CASE Waits(r)
    BY <1>3, <2>2 DEF Waits, Shaped, kept
  <2>3. CASE Leaves(r)
    BY <1>3, <2>3 DEF Leaves, Answer, Become, Shaped, kept
  <2>4. CASE BeginSchema(r)
    BY <1>3, <2>4 DEF BeginSchema, Enter, Become, shared, Shaped, kept
  <2>5. CASE MissEngine(r)
    BY <1>3, <2>5 DEF MissEngine, Become, kept, shared, Shaped, kept
  <2>6. CASE CreateEngine(r)
    BY <1>3, <2>6 DEF CreateEngine, Become, kept, Shaped, kept
  <2>7. CASE Comes(r)
    BY <1>3, <2>7 DEF Comes, Came, Become, kept, shared, Shaped, kept
  <2>8. CASE TakeReading(r)
    BY <1>3, <2>8
      DEF TakeReading, HasEngine, NextStage, Enter, Become, shared, Shaped, kept
  <2>9. CASE AssembleSchema(r)
    BY <2>9
  <2>10. CASE Ends(r)
    BY <1>3, <2>10 DEF Ends, EndSchema, Enter, Become, shared, Shaped, kept
  <2>11. CASE WriteStatement(r)
    BY <1>3, <2>11 DEF WriteStatement, Enter, Become, shared, Shaped, kept
  <2>12. CASE ReplyWithAnswer(r)
    BY <1>3, <2>12 DEF ReplyWithAnswer, Answer, Become, shared, Shaped, kept
  <2>13. CASE ReportStatus(r)
    BY <1>3, <2>13 DEF ReportStatus, ReadSecret, Enter, Become, shared, Shaped, kept
  <2> QED  BY <2>1, <2>2, <2>3, <2>4, <2>5, <2>6, <2>7, <2>8, <2>9, <2>10, <2>11, <2>12,
             <2>13 DEF Step
<1>5. CASE AssembleSchema(r)
  <2> DEFINE t == Target(r)
             last == Len(versions[t])
  <2>1. /\ HasEngine(r) /\ stage[r] = "keys" /\ Whole(Read(r))
        /\ schema'[r] = Assemble(readings[r][1], readings[r][2], Read(r))
        /\ UNCHANGED <<input, seen>>
    BY <1>3, <1>5 DEF AssembleSchema, EndSchema, Shaped
  <2>2. /\ t = ResolveTarget(input[r]) /\ t \in Targets
        /\ Read(r) = KeyRows(versions[t][last])
        /\ last \in Nat /\ seen[r][t] \in 1..last
    BY <2>1, ReadingNow DEF CatalogueStages, RowsOf
  <2>3. PICK i \in seen[r][t]..last : \E j \in i..last :
          /\ Whole(RelationRows(versions[t][i])) /\ Whole(ColumnRows(versions[t][j]))
          /\ readings[r] = <<RelationRows(versions[t][i]), ColumnRows(versions[t][j])>>
    BY <2>1 DEF Serving, Gathered, ReadColumns
  <2>4. PICK j \in i..last :
          /\ Whole(RelationRows(versions[t][i])) /\ Whole(ColumnRows(versions[t][j]))
          /\ readings[r] = <<RelationRows(versions[t][i]), ColumnRows(versions[t][j])>>
    BY <2>3
  <2>5. last \in j..last
    BY <2>2, <2>4
  <2>6. /\ Whole(KeyRows(versions[t][last]))
        /\ schema'[r] = Assemble(RelationRows(versions[t][i]), ColumnRows(versions[t][j]),
                                KeyRows(versions[t][last]))
    BY <2>1, <2>2, <2>4
  <2>7. ReadWhole(schema'[r], versions[t], seen'[r][t])
    BY <1>1, <2>1, <2>3, <2>4, <2>5, <2>6 DEF ReadWhole
  <2>8. Asked(r)' = t /\ Asked(r)' \in Targets
    BY <2>1, <2>2 DEF Asked
  <2> QED  BY <1>1, <1>2, <2>7, <2>8 DEF Sourced
<1>6. CASE schema'[r] = NoSchema
  BY <1>1, <1>2, <1>6 DEF Sourced
<1>7. CASE schema'[r] = schema[r] /\ seen'[r] = seen[r] /\ input'[r] = input[r]
  BY <1>1, <1>2, <1>3, <1>7 DEF Sourced, Asked
<1> QED  BY <1>4, <1>5, <1>6, <1>7

Typed ==
  /\ pc \in [Requests -> Places] /\ stage \in [Requests -> Stages]
  /\ input \in [Requests -> Inputs] /\ raw \in [Requests -> Configurations \cup {None}]

\* Every step keeps the types of the local variables.
LEMMA TypedStep ==
  ASSUME Typed, Stamped, ServiceAssumption, NEW r \in Requests, Act(r)
  PROVE  Typed'
<1>0. GetSecret(File) \in Configurations \cup {None}
  <2>1. File \in Configurations
    BY DEF Stamped, File
  <2> QED  BY <2>1 DEF GetSecret, ReadSecretFile, ServiceAssumption
<1>1. CASE Arrive(r)
  BY <1>0, <1>1
    DEF Arrive, ReadSecret, Enter, Become, shared, Typed, Places, Stages,
        CatalogueStages
<1>2. CASE Compare(r)
  BY <1>0, <1>2 DEF Compare, Become, shared, Typed, Places, Stages, CatalogueStages
<1>3. CASE Take(r)
  BY <1>0, <1>3
    DEF Take, Decide, DecideAtTheGate, IdentifyCaller, AuthStatus, Answer, Enter,
        Become, ofTheHandler, shared, Typed, Places, Stages, CatalogueStages
<1>4. CASE LoadAndRemember(r)
  BY <1>0, <1>4
    DEF LoadAndRemember, Decide, DecideAtTheGate, IdentifyCaller, AuthStatus, Answer,
        Enter, Become, ofTheHandler, shared, Typed, Places, Stages, CatalogueStages
<1>5. CASE Databases(r)
  BY <1>0, <1>5
    DEF Databases, Answer, Become, shared, Typed, Places, Stages, CatalogueStages
<1>6. CASE UnknownDatabase(r)
  BY <1>0, <1>6
    DEF UnknownDatabase, Answer, Become, shared, Typed, Places, Stages,
        CatalogueStages
<1>7. CASE RefuseToSpend(r)
  BY <1>0, <1>7
    DEF RefuseToSpend, Answer, Become, shared, Typed, Places, Stages, CatalogueStages
<1>8. CASE BeginSchema(r)
  BY <1>0, <1>8
    DEF BeginSchema, Enter, Become, shared, Typed, Places, Stages, CatalogueStages
<1>9. CASE Reject(r)
  BY <1>0, <1>9
    DEF Reject, Came, Become, kept, shared, Typed, Places, Stages, CatalogueStages
<1>10. CASE MissEngine(r)
  BY <1>0, <1>10
    DEF MissEngine, Become, kept, shared, Typed, Places, Stages, CatalogueStages
<1>11. CASE CreateEngine(r)
  BY <1>0, <1>11
    DEF CreateEngine, Become, kept, shared, Typed, Places, Stages, CatalogueStages
<1>12. CASE NoDatabaseUrl(r)
  BY <1>0, <1>12
    DEF NoDatabaseUrl, Came, Become, kept, shared, Typed, Places, Stages,
        CatalogueStages
<1>13. CASE RunStatement(r)
  BY <1>0, <1>13
    DEF RunStatement, Came, Become, kept, shared, Typed, Places, Stages,
        CatalogueStages
<1>14. CASE RefuseWrite(r)
  BY <1>0, <1>14
    DEF RefuseWrite, Came, Become, kept, shared, Typed, Places, Stages,
        CatalogueStages
<1>15. CASE FailToRun(r)
  BY <1>0, <1>15
    DEF FailToRun, Came, Become, kept, shared, Typed, Places, Stages, CatalogueStages
<1>16. CASE TakeReading(r)
  BY <1>0, <1>16
    DEF TakeReading, Enter, Become, HasEngine, NextStage, shared, Typed, Places,
        Stages, CatalogueStages
<1>17. CASE AssembleSchema(r)
  BY <1>0, <1>17
    DEF AssembleSchema, EndSchema, Enter, Become, shared, Typed, Places, Stages,
        CatalogueStages
<1>18. CASE RefusePartialSchema(r)
  BY <1>0, <1>18
    DEF RefusePartialSchema, EndSchema, Enter, Become, shared, Typed, Places, Stages,
        CatalogueStages
<1>19. CASE FailSchema(r)
  BY <1>0, <1>19
    DEF FailSchema, EndSchema, Enter, Become, shared, Typed, Places, Stages,
        CatalogueStages
<1>20. CASE ReplyWithSchema(r)
  BY <1>0, <1>20
    DEF ReplyWithSchema, Answer, Become, shared, Typed, Places, Stages,
        CatalogueStages
<1>21. CASE WriteStatement(r)
  BY <1>0, <1>21
    DEF WriteStatement, Enter, Become, shared, Typed, Places, Stages, CatalogueStages
<1>22. CASE EndLoop(r)
  BY <1>0, <1>22
    DEF EndLoop, Answer, Become, shared, Typed, Places, Stages, CatalogueStages
<1>23. CASE ReplyWithAnswer(r)
  BY <1>0, <1>23
    DEF ReplyWithAnswer, Answer, Become, shared, Typed, Places, Stages,
        CatalogueStages
<1>24. CASE ReplyToAnyone(r)
  BY <1>0, <1>24
    DEF ReplyToAnyone, Answer, Become, shared, Typed, Places, Stages, CatalogueStages
<1>25. CASE ReportStatus(r)
  BY <1>0, <1>25
    DEF ReportStatus, ReadSecret, Enter, Become, shared, Typed, Places, Stages,
        CatalogueStages
<1> QED  BY <1>1, <1>2, <1>3, <1>4, <1>5, <1>6, <1>7, <1>8, <1>9, <1>10, <1>11, <1>12,
           <1>13, <1>14, <1>15, <1>16, <1>17, <1>18, <1>19, <1>20, <1>21, <1>22, <1>23,
           <1>24, <1>25 DEF Act, Gate, Handle, ExecuteSql

\* A migration keeps the invariant: what was read stays read.
LEMMA MigrationKeeps ==
  ASSUME Serving, NEW target \in Targets, Migrate(target)
  PROVE  Serving'
<1>1. UNCHANGED <<local, engines, created>>
  BY DEF Migrate
<1>2. /\ DOMAIN versions' = Targets
      /\ \A t \in Targets : versions'[t] \in Seq(Catalogues[t]) /\ versions'[t] # <<>>
      /\ \A t \in Targets : Len(versions[t]) \in Nat /\ Len(versions[t]) <= Len(versions'[t])
      /\ \A t \in Targets : \A i \in 1..Len(versions[t]) : versions'[t][i] = versions[t][i]
  <2>1. PICK catalogue \in Catalogues[target] :
          versions' = [versions EXCEPT ![target] = Append(versions[target], catalogue)]
    BY DEF Migrate
  <2>2. /\ DOMAIN versions = Targets
        /\ \A t \in Targets : versions[t] \in Seq(Catalogues[t]) /\ versions[t] # <<>>
    BY DEF Serving, Seen, InSequence
  <2>3. ASSUME NEW t \in Targets
        PROVE  /\ versions'[t] \in Seq(Catalogues[t]) /\ versions'[t] # <<>>
               /\ Len(versions[t]) \in Nat /\ Len(versions[t]) <= Len(versions'[t])
               /\ \A i \in 1..Len(versions[t]) : versions'[t][i] = versions[t][i]
    <3>1. CASE t = target
      <4>1. versions'[t] = Append(versions[t], catalogue) /\ catalogue \in Catalogues[t]
        BY <2>1, <2>2, <3>1
      <4>2. versions[t] \in Seq(Catalogues[t]) /\ Len(versions[t]) \in Nat
        BY <2>2
      <4>3. /\ versions'[t] \in Seq(Catalogues[t]) /\ versions'[t] # <<>>
            /\ Len(versions'[t]) = Len(versions[t]) + 1
            /\ \A i \in 1..Len(versions[t]) : versions'[t][i] = versions[t][i]
        <5>1. PICK S : S = Catalogues[t]
          OBVIOUS
        <5>2. PICK old \in Seq(S) : old = versions[t]
          BY <4>2, <5>1
        <5>3. /\ Append(old, catalogue) \in Seq(S) /\ Append(old, catalogue) # <<>>
              /\ Len(Append(old, catalogue)) = Len(old) + 1
              /\ \A i \in 1..Len(old) : Append(old, catalogue)[i] = old[i]
          BY <4>1, <5>1, AppendProperties
        <5> QED  BY <4>1, <5>1, <5>2, <5>3
      <4> QED  BY <4>2, <4>3
    <3>2. CASE t # target
      BY <2>1, <2>2, <3>2
    <3> QED  BY <3>1, <3>2
  <2> QED  BY <2>1, <2>2, <2>3
<1>3. Shaped' /\ Placed' /\ Pooled' /\ Resulted' /\ Replied'
  BY <1>1 DEF Serving, Shaped, Placed, Pooled, Resulted, Replied, Creating, Found, Finds,
              Target, Statement, local
<1>4. \A r \in Requests : \A t \in Targets :
        /\ seen'[r][t] = seen[r][t] /\ seen[r][t] \in 1..Len(versions[t])
        /\ seen[r][t] \in 1..Len(versions'[t])
  BY <1>1, <1>2 DEF Serving, Seen, local
<1>5. Seen'
  BY <1>2, <1>4 DEF Seen, InSequence
<1>6. \A t \in Targets : \A first \in 1..Len(versions[t]) : \A rows :
        /\ ReadRelations(rows, versions[t], first) => ReadRelations(rows, versions'[t], first)
        /\ ReadColumns(rows, versions[t], first) => ReadColumns(rows, versions'[t], first)
        /\ ReadWhole(rows, versions[t], first) => ReadWhole(rows, versions'[t], first)
  <2> SUFFICES ASSUME NEW t \in Targets, NEW first \in 1..Len(versions[t]), NEW rows
               PROVE  /\ ReadRelations(rows, versions[t], first) =>
                            ReadRelations(rows, versions'[t], first)
                      /\ ReadColumns(rows, versions[t], first) =>
                            ReadColumns(rows, versions'[t], first)
                      /\ ReadWhole(rows, versions[t], first) =>
                            ReadWhole(rows, versions'[t], first)
    OBVIOUS
  <2> DEFINE old == versions[t]
             new == versions'[t]
  <2>1. /\ Len(old) \in Nat /\ Len(old) <= Len(new) /\ Len(new) \in Nat
        /\ \A i \in 1..Len(old) : new[i] = old[i]
    BY <1>2
  <2>2. first \in 1..Len(old)
    OBVIOUS
  <2> HIDE DEF old, new
  <2>3. ASSUME ReadRelations(rows, old, first) PROVE ReadRelations(rows, new, first)
    <3>1. PICK i \in first..Len(old) :
            Whole(RelationRows(old[i])) /\ rows = <<RelationRows(old[i])>>
      BY <2>3 DEF ReadRelations
    <3>2. i \in first..Len(new) /\ new[i] = old[i]
      BY <2>1, <2>2
    <3> QED  BY <3>1, <3>2 DEF ReadRelations
  <2>4. ASSUME ReadColumns(rows, old, first) PROVE ReadColumns(rows, new, first)
    <3>1. PICK i \in first..Len(old), j \in first..Len(old) : j \in i..Len(old) /\
            /\ Whole(RelationRows(old[i])) /\ Whole(ColumnRows(old[j]))
            /\ rows = <<RelationRows(old[i]), ColumnRows(old[j])>>
      BY <2>1, <2>2, <2>4 DEF ReadColumns
    <3>2. /\ i \in first..Len(new) /\ new[i] = old[i]
          /\ j \in i..Len(new) /\ new[j] = old[j]
      BY <2>1, <2>2, <3>1
    <3> QED  BY <3>1, <3>2 DEF ReadColumns
  <2>5. ASSUME ReadWhole(rows, old, first) PROVE ReadWhole(rows, new, first)
    <3>1. PICK i \in first..Len(old), j \in first..Len(old), k \in first..Len(old) :
            /\ j \in i..Len(old) /\ k \in j..Len(old)
            /\ Whole(RelationRows(old[i])) /\ Whole(ColumnRows(old[j]))
            /\ Whole(KeyRows(old[k]))
            /\ rows = Assemble(RelationRows(old[i]), ColumnRows(old[j]), KeyRows(old[k]))
      BY <2>1, <2>2, <2>5 DEF ReadWhole
    <3>2. /\ i \in first..Len(new) /\ new[i] = old[i]
          /\ j \in i..Len(new) /\ new[j] = old[j]
          /\ k \in j..Len(new) /\ new[k] = old[k]
      BY <2>1, <2>2, <3>1
    <3> QED  BY <3>1, <3>2 DEF ReadWhole
  <2> QED  BY <2>3, <2>4, <2>5 DEF old, new
<1>7. Gathered'
  <2>1. ASSUME NEW r \in Requests, stage[r] \in {"columns", "keys"}
        PROVE  Target(r) \in Targets
    BY <2>1 DEF Serving, Placed, CatalogueStages, Doing
  <2>2. \A r \in Requests : Target(r)' = Target(r)
    BY <1>1 DEF Target, local
  <2> QED  BY <1>1, <1>4, <1>6, <2>1, <2>2 DEF Serving, Gathered, local
<1>8. Sourced'
  <2>1. \A r \in Requests : Asked(r)' = Asked(r)
    BY <1>1 DEF Asked, local
  <2> QED  BY <1>1, <1>4, <1>6, <2>1 DEF Serving, Sourced, local
<1> QED  BY <1>3, <1>5, <1>7, <1>8 DEF Serving

\* The invariant of what is served holds when the process starts.
LEMMA ServingStarts ==
  ASSUME ServiceAssumption, Init
  PROVE  Serving
<1>1. \A t \in Targets : Creating(t) = {}
  BY DEF Init, Creating
<1>2. Cardinality({}) = 0 /\ Cardinality(Requests) \in Nat
  BY FS_EmptySet, FS_CardinalityType DEF ServiceAssumption
<1>3. Pooled
  <2>1. /\ engines = [t \in Targets |-> None] /\ created = [t \in Targets |-> 0]
        /\ \A t \in Targets : Cardinality(Creating(t)) = 0
    BY <1>1, <1>2 DEF Init
  <2> QED  BY <1>2, <2>1 DEF Pooled
<1>4. Seen
  <2>1. /\ versions = [t \in Targets |-> <<FirstCatalogue[t]>>]
        /\ seen = [r \in Requests |-> [t \in Targets |-> 1]]
    BY DEF Init
  <2>2. ASSUME NEW t \in Targets
        PROVE  /\ versions[t] \in Seq(Catalogues[t]) /\ versions[t] # <<>>
               /\ Len(versions[t]) = 1
    <3>1. PICK S : S = Catalogues[t]
      OBVIOUS
    <3>2. PICK first \in S : first = FirstCatalogue[t]
      BY <3>1 DEF ServiceAssumption
    <3>3. <<first>> \in Seq(S) /\ <<first>> # <<>> /\ Len(<<first>>) = 1
      OBVIOUS
    <3>4. versions[t] = <<first>>
      BY <2>1, <3>2
    <3> QED  BY <3>1, <3>3, <3>4
  <2> QED  BY <2>1, <2>2 DEF Seen, InSequence
<1>5. Shaped /\ Placed /\ Resulted /\ Replied /\ Gathered /\ Sourced
  BY DEF Init, Shaped, Placed, Resulted, Replied, Gathered, Sourced, NoResult, NoReply,
         Waiting, Doing, CatalogueStages
<1> QED  BY <1>3, <1>4, <1>5 DEF Serving

\* Every step keeps the invariant of what is served.
LEMMA ServingStays ==
  ASSUME Serving, ServiceAssumption, [Next]_vars
  PROVE  Serving'
<1>1. ASSUME NEW r \in Requests, Act(r)
      PROVE  Serving'
  <2>1. Shaped' /\ Others(r) /\ Step(r)
    BY <1>1, LocalStep, KindOfStep DEF Serving
  <2> QED  BY <2>1, PlacedStep, PooledStep, ResultedStep, RepliedStep, SeenStep,
              GatheredStep, SourcedStep DEF Serving
<1>2. CASE Rotate \/ UNCHANGED vars
  <2>1. UNCHANGED <<local, engines, created, versions>>
    BY <1>2 DEF Rotate, vars, shared
  <2> QED  BY <2>1
    DEF Serving, Shaped, Placed, Pooled, Resulted, Replied, Seen, InSequence,
                Gathered, Sourced, Asked, Creating, Found, Finds, Target, Statement, local
<1> QED  BY <1>1, <1>2, MigrationKeeps DEF Next, Act

\* The invariant of what is served holds.
LEMMA ServingHolds == Spec => []Serving
<1>1. Init => Serving
  BY ServiceAssumption, ServingStarts
<1>2. Serving /\ [Next]_vars => Serving'
  BY ServiceAssumption, ServingStays
<1> QED  BY <1>1, <1>2, PTL DEF Spec

\* The types, a memo that is whole, and no more pools for a target than there
\* are requests (engine.py:135), for any number of requests and targets.
THEOREM TypeCorrect == Spec => []TypeOK
<1>1. Init => Typed
  BY ServiceAssumption DEF Init, Typed, Places, Stages, CatalogueStages, ServiceAssumption
<1>2. Typed /\ Admission /\ [Next]_vars => Typed'
  <2> SUFFICES ASSUME Typed, Admission, [Next]_vars PROVE Typed'
    OBVIOUS
  <2>1. ASSUME NEW r \in Requests, Act(r) PROVE Typed'
    BY <2>1, ServiceAssumption, TypedStep DEF Admission
  <2>2. CASE Rotate \/ (\E target \in Targets : Migrate(target)) \/ UNCHANGED vars
    BY <2>2 DEF Rotate, Migrate, vars, local, Typed
  <2> QED  BY <2>1, <2>2 DEF Next, Act
<1>3. Typed /\ Admission /\ Serving => TypeOK
  <2> SUFFICES ASSUME Typed, Admission, Serving PROVE TypeOK
    OBVIOUS
  <2>1. ASSUME NEW t \in Targets PROVE created[t] \in 0..Cardinality(Requests)
    <3>1. Creating(t) \subseteq Requests /\ IsFiniteSet(Requests)
      BY ServiceAssumption DEF Creating, ServiceAssumption
    <3>2. Cardinality(Creating(t)) \in Nat /\ Cardinality(Requests) \in Nat
      BY <3>1, FS_Subset, FS_CardinalityType
    <3> QED  BY <3>2 DEF Serving, Pooled
  <2>2. created \in [Targets -> 0..Cardinality(Requests)]
    BY <2>1 DEF Serving, Pooled
  <2> QED  BY <2>2 DEF TypeOK, Typed, Admission, Stamped, Remembered, Serving, Pooled
<1> QED  BY <1>1, <1>2, <1>3, AdmissionHolds, ServingHolds, PTL DEF Spec

\* The fields of an answer.
LEMMA AnswerFields ==
  ASSUME NEW columns, NEW rows
  PROVE  /\ AnswerOf(columns, rows).rows = rows
         /\ AnswerOf(columns, rows).shape = Classify(columns, rows)
         /\ Classify(columns, rows) = "chartable" =>
              AnswerOf(columns, rows).series = ChartSeries(rows)
BY DEF AnswerOf

\* An answer's rows are the asked database's, and a schema is assembled from
\* three whole readings of its catalogue in order (main.py:680-693,
\* introspection.py:231), however requests and migrations interleave.
THEOREM RepliesComeHome == Spec => []RepliesComeFromTheirTarget
<1>1. Serving => RepliesComeFromTheirTarget
  <2> SUFFICES ASSUME Serving, NEW r \in Requests
               PROVE  /\ pc[r] = "replied" /\ reply[r].body.kind = "answer" =>
                           reply[r].body.rows = EncodeRows(FirstRows(Found(r).rows))
                      /\ schema[r] # NoSchema =>
                           ReadWhole(schema[r], versions[Asked(r)], seen[r][Asked(r)])
    BY DEF RepliesComeFromTheirTarget, Found, ReadWhole, Asked
  <2>1. ASSUME pc[r] = "replied", reply[r].body.kind = "answer"
        PROVE  reply[r].body.rows = EncodeRows(FirstRows(Found(r).rows))
    BY <2>1, AnswerFields DEF Serving, Replied
  <2>2. schema[r] # NoSchema => ReadWhole(schema[r], versions[Asked(r)], seen[r][Asked(r)])
    BY DEF Serving, Sourced
  <2> QED  BY <2>1, <2>2
<1> QED  BY <1>1, ServingHolds, PTL

\* All that the read-only transaction ever stops are row locks and functions
\* that write: a statement that shows any other write has not passed the
\* validator (execution.py:143-151).
THEOREM WritesStop == Spec => []WritesStopAtTheValidator
<1>1. Serving => WritesStopAtTheValidator
  BY DEF Serving, Resulted, PassesAsReadOnly, WritesStopAtTheValidator
<1> QED  BY <1>1, ServingHolds, PTL

\* One of two columns is the measure exactly when one is numeric and the other
\* is not (shapes.py:122-125).
LEMMA OneMeasure ==
  ASSUME NEW rows
  PROVE  Cardinality(Measures(rows)) = 1 <=>
           ~(IsNumeric(ColumnSample(rows, 1)) <=> IsNumeric(ColumnSample(rows, 2)))
<1>1. Measures(rows) = {c \in {1, 2} : IsNumeric(ColumnSample(rows, c))}
  <2>1. 1..2 = {1, 2}
    OBVIOUS
  <2> QED  BY <2>1 DEF Measures
<1>2. CASE IsNumeric(ColumnSample(rows, 1)) /\ IsNumeric(ColumnSample(rows, 2))
  <2>1. Measures(rows) = {1, 2}
    BY <1>1, <1>2
  <2>2. IsFiniteSet({1}) /\ Cardinality({1}) = 1
    BY FS_Singleton
  <2>3. Cardinality({1} \cup {2}) = 2
    BY <2>2, FS_AddElement
  <2>4. {1} \cup {2} = {1, 2}
    OBVIOUS
  <2> QED  BY <1>2, <2>1, <2>3, <2>4
<1>3. CASE IsNumeric(ColumnSample(rows, 1)) /\ ~IsNumeric(ColumnSample(rows, 2))
  <2>1. Measures(rows) = {1}
    BY <1>1, <1>3
  <2> QED  BY <1>3, <2>1, FS_Singleton
<1>4. CASE ~IsNumeric(ColumnSample(rows, 1)) /\ IsNumeric(ColumnSample(rows, 2))
  <2>1. Measures(rows) = {2}
    BY <1>1, <1>4
  <2> QED  BY <1>4, <2>1, FS_Singleton
<1>5. CASE ~IsNumeric(ColumnSample(rows, 1)) /\ ~IsNumeric(ColumnSample(rows, 2))
  <2>1. Measures(rows) = {}
    BY <1>1, <1>5
  <2> QED  BY <1>5, <2>1, FS_EmptySet
<1> QED  BY <1>2, <1>3, <1>4, <1>5

\* There is a first one among some numbers.
LEMMA FirstOfSome ==
  ASSUME NEW numbers \in SUBSET Nat, numbers # {}
  PROVE  \E a \in numbers : \A b \in numbers : a <= b
<1>1. \E a \in numbers : \A b \in numbers : <<b, a>> \notin OpToRel(<, Nat)
  BY WFMin, NatLessThanWellFounded, Zenon
<1>2. \A a, b \in numbers : b < a => <<b, a>> \in OpToRel(<, Nat)
  BY DEF OpToRel
<1>3. \E a \in numbers : \A b \in numbers : ~(b < a)
  BY <1>1, <1>2, Zenon
<1> QED  BY <1>3

\* Encoding keeps the place of a column's first value, and whether it is a
\* number, unless it is a Decimal (serialization.py:42-58).
LEMMA EncodedSample ==
  ASSUME NEW rows \in Seq(Seq(CellKinds)), NEW column \in 1..2
  PROVE  IsNumeric(ColumnSample(EncodeRows(rows), column)) <=>
           IsNumeric(ColumnSample(rows, column)) /\ ColumnSample(rows, column) # "decimal"
<1> DEFINE encoded == EncodeRows(rows)
<1>1. DOMAIN encoded = DOMAIN rows /\ DOMAIN rows \subseteq Nat
  BY DEF EncodeRows
<1>2. ASSUME NEW i \in DOMAIN rows
      PROVE  /\ DOMAIN encoded[i] = DOMAIN rows[i]
             /\ column \in DOMAIN rows[i] =>
                  /\ encoded[i][column] = ToJsonable(rows[i][column])
                  /\ rows[i][column] \in CellKinds
  BY DEF EncodeRows
<1>3. ASSUME NEW cell \in CellKinds
      PROVE  /\ ToJsonable(cell) = "null" <=> cell = "null"
             /\ IsNumeric(ToJsonable(cell)) <=> IsNumeric(cell) /\ cell # "decimal"
  BY DEF ToJsonable, CellKinds, Passthrough, IsNumeric
<1> HIDE DEF encoded
<1>4. Filled(encoded, column) = Filled(rows, column)
  BY <1>1, <1>2, <1>3 DEF Filled
<1>5. CASE Filled(rows, column) = {}
  BY <1>4, <1>5 DEF ColumnSample, IsNumeric, encoded
<1>6. CASE Filled(rows, column) # {}
  <2> DEFINE first == CHOOSE i \in Filled(rows, column) :
                        \A j \in Filled(rows, column) : i <= j
  <2>1. Filled(rows, column) \in SUBSET Nat
    BY <1>1 DEF Filled
  <2>2. \E a \in Filled(rows, column) : \A b \in Filled(rows, column) : a <= b
    BY <1>6, <2>1, FirstOfSome
  <2>3. first \in Filled(rows, column)
    BY <2>2
  <2>4. /\ ColumnSample(rows, column) = rows[first][column]
        /\ ColumnSample(encoded, column) = encoded[first][column]
    BY <1>4, <1>6 DEF ColumnSample
  <2>5. first \in DOMAIN rows /\ column \in DOMAIN rows[first]
    BY <2>3 DEF Filled
  <2> HIDE DEF first
  <2> QED  BY <1>2, <1>3, <2>4, <2>5 DEF encoded
<1> QED  BY <1>5, <1>6

\* What the classifier makes of a result before and after it is encoded: the
\* same, unless one of two columns is NUMERIC (main.py:680-693).
LEMMA EncodedShape ==
  ASSUME NEW columns \in Nat, NEW rows \in Seq(Seq(CellKinds))
  PROVE  IF OneOfTwoIsNumeric(columns, rows)
         THEN AnswerOf(columns, EncodeRows(rows)).shape # AnswerOf(columns, rows).shape
         ELSE /\ AnswerOf(columns, EncodeRows(rows)).shape = AnswerOf(columns, rows).shape
              /\ AnswerOf(columns, EncodeRows(rows)).series = AnswerOf(columns, rows).series
<1> DEFINE encoded == EncodeRows(rows)
<1>1. DOMAIN encoded = 1..Len(rows) /\ Len(encoded) = Len(rows) /\ Len(rows) \in Nat
      /\ (encoded = <<>> <=> rows = <<>>)
  BY DEF EncodeRows
<1>2. \A c \in 1..2 : IsNumeric(ColumnSample(encoded, c)) <=>
        IsNumeric(ColumnSample(rows, c)) /\ ColumnSample(rows, c) # "decimal"
  BY EncodedSample
<1>3. \A c \in 1..2 : ColumnSample(rows, c) = "decimal" => IsNumeric(ColumnSample(rows, c))
  BY DEF IsNumeric
<1> HIDE DEF encoded
<1>4. /\ AnswerOf(columns, encoded).shape = Classify(columns, encoded)
      /\ AnswerOf(columns, rows).shape = Classify(columns, rows)
      /\ AnswerOf(columns, encoded).series =
           IF Classify(columns, encoded) = "chartable" THEN ChartSeries(encoded) ELSE NoSeries
      /\ AnswerOf(columns, rows).series =
           IF Classify(columns, rows) = "chartable" THEN ChartSeries(rows) ELSE NoSeries
  BY DEF AnswerOf
<1>5. CASE columns # 2 \/ Len(rows) <= 1
  <2>1. Classify(columns, encoded) = Classify(columns, rows)
        /\ Classify(columns, rows) # "chartable"
    BY <1>1, <1>5 DEF Classify
  <2>2. ~OneOfTwoIsNumeric(columns, rows)
    BY <1>1, <1>5 DEF OneOfTwoIsNumeric
  <2> QED  BY <1>4, <2>1, <2>2 DEF encoded
<1>6. CASE columns = 2 /\ Len(rows) > 1
  <2>1. /\ Classify(columns, rows) =
             IF Cardinality(Measures(rows)) = 1 THEN "chartable" ELSE "table"
        /\ Classify(columns, encoded) =
             IF Cardinality(Measures(encoded)) = 1 THEN "chartable" ELSE "table"
    BY <1>1, <1>6 DEF Classify
  <2>2. OneOfTwoIsNumeric(columns, rows) <=>
          ~(ColumnSample(rows, 1) = "decimal" <=> ColumnSample(rows, 2) = "decimal")
    <3>1. \A c \in 1..2 : (c = 1 /\ 3 - c = 2) \/ (c = 2 /\ 3 - c = 1)
      OBVIOUS
    <3>2. 1 \in 1..2 /\ 2 \in 1..2 /\ 3 - 1 = 2 /\ 3 - 2 = 1
      OBVIOUS
    <3> QED  BY <1>6, <3>1, <3>2 DEF OneOfTwoIsNumeric
  <2>3. CASE OneOfTwoIsNumeric(columns, rows)
    <3>1. Classify(columns, encoded) # Classify(columns, rows)
      BY <1>2, <1>3, <2>1, <2>2, <2>3, OneMeasure
    <3> QED  BY <1>4, <2>3, <3>1 DEF encoded
  <2>4. CASE ~OneOfTwoIsNumeric(columns, rows)
    <3>1. Classify(columns, encoded) = Classify(columns, rows)
      BY <1>2, <1>3, <2>1, <2>2, <2>4, OneMeasure
    <3>2. ASSUME Classify(columns, rows) = "chartable"
          PROVE  Measures(encoded) = Measures(rows)
      <4>1. ~(IsNumeric(ColumnSample(rows, 1)) <=> IsNumeric(ColumnSample(rows, 2)))
        BY <2>1, <3>2, OneMeasure
      <4>2. \A c \in 1..2 : ColumnSample(rows, c) # "decimal"
        BY <1>3, <2>2, <2>4, <4>1
      <4> QED  BY <1>2, <4>2 DEF Measures
    <3>3. Classify(columns, rows) = "chartable" => ChartSeries(encoded) = ChartSeries(rows)
      BY <3>2 DEF ChartSeries
    <3> QED  BY <1>4, <2>4, <3>1, <3>3 DEF encoded
  <2> QED  BY <2>3, <2>4
<1> QED  BY <1>1, <1>5, <1>6

\* The shape of an answer, and the columns its chart is drawn from, are those of
\* the driver's own rows exactly when the result is not two columns of which one
\* is NUMERIC, whatever PostgreSQL found (main.py:680-693, shapes.py:1-9).
THEOREM ShapesAgree == Spec => []OnlyNumericChangesTheShape
<1>1. Serving => OnlyNumericChangesTheShape
  <2> SUFFICES ASSUME Serving, NEW r \in Requests, pc[r] = "replied",
                      reply[r].body.kind = "answer"
               PROVE  LET rows == FirstRows(Found(r).rows)
                          measured == AnswerOf(Found(r).columns, rows)
                      IN  IF OneOfTwoIsNumeric(Found(r).columns, rows)
                          THEN reply[r].body.shape # measured.shape
                          ELSE /\ reply[r].body.shape = measured.shape
                               /\ reply[r].body.series = measured.series
    BY DEF OnlyNumericChangesTheShape, Found
  <2> DEFINE rows == FirstRows(Found(r).rows)
  <2>1. Finds(r) /\ reply[r].body = AnswerOf(Found(r).columns, EncodeRows(rows))
    BY DEF Serving, Replied
  <2>2. Table(Found(r)) /\ MaxRows \in Nat
    BY <2>1, HoldsAssumption, ServiceAssumption
      DEF Finds, Found, HoldsAssumption, ServiceAssumption
  <2>3. Found(r).columns \in Nat /\ rows \in Seq(Seq(CellKinds))
    BY <2>2 DEF Table, FirstRows, Fetched
  <2> HIDE DEF rows
  <2> QED  BY <2>1, <2>3, EncodedShape DEF rows
<1> QED  BY <1>1, ServingHolds, PTL

----------------------------------------------------------------------------
(* What a schema says of the database.                                     *)

\* The columns of a relation that are there to be queried.
Live(c, r) == {a \in c.attributes : a.rel = r.oid /\ a.num > 0 /\ ~a.dropped}

\* The foreign keys of a relation.
Foreign(c, r) == {f \in c.foreign : f.namespace = "public" /\ f.rel = r.oid}

\* What the keys of its own catalogue make PostgreSQL keep of any database.
WellFormed(c) ==
  /\ \A r, s \in c.relations :
       r.oid = s.oid \/ (r.namespace = s.namespace /\ r.name = s.name) => r = s
  /\ \A a, b \in c.attributes : a.rel = b.rel /\ a.num = b.num => a = b
  /\ \A f, g \in c.foreign : f.rel = g.rel /\ f.name = g.name => f = g
  /\ \A f \in c.foreign :
       /\ 1 \in DOMAIN f.columns /\ DOMAIN f.referredColumns = DOMAIN f.columns
       /\ \E r \in c.relations : r.oid = f.rel /\ r.namespace = f.namespace
       /\ \E r \in c.relations : r.oid = f.referred
       /\ \A i \in DOMAIN f.columns :
            /\ \E a \in c.attributes : a.rel = f.rel /\ a.num = f.columns[i]
            /\ \E a \in c.attributes : a.rel = f.referred /\ a.num = f.referredColumns[i]

\* k is the foreign key f, its members paired in the order of the constraint.
DescribesKey(k, f, c) ==
  /\ DOMAIN k.columns = DOMAIN f.columns /\ DOMAIN k.referredColumns = DOMAIN f.columns
  /\ \A r \in c.relations : r.oid = f.referred => k.referredTable = r.name
  /\ \A i \in DOMAIN f.columns, a \in c.attributes :
       /\ a.rel = f.rel /\ a.num = f.columns[i] => k.columns[i] = a.name
       /\ a.rel = f.referred /\ a.num = f.referredColumns[i] => k.referredColumns[i] = a.name

\* t is the relation r: its columns under their numbers, its keys one by one.
DescribesTable(t, r, c) ==
  /\ t.name = r.name /\ t.kind = r.kind
  /\ DOMAIN t.columns = {a.num : a \in Live(c, r)}
  /\ \A a \in Live(c, r) :
       /\ t.columns[a.num].name = a.name /\ t.columns[a.num].type = a.type
       /\ t.columns[a.num].nullable <=> ~a.notnull
       /\ t.columns[a.num].primaryKey <=>
            \E k \in c.primary : k.rel = r.oid /\ a.num \in k.columns
  /\ \A f \in Foreign(c, r) : \E k \in t.foreignKeys : DescribesKey(k, f, c)
  /\ \A k \in t.foreignKeys : \E f \in Foreign(c, r) : DescribesKey(k, f, c)

\* The row COLUMNS_SQL gives of a column, and FOREIGN_KEYS_SQL of a member.
ColumnRow(c, r, a) ==
  [relname |-> r.name, attname |-> a.name, attnum |-> a.num, type |-> a.type,
   notnull |-> a.notnull,
   primary |-> \E k \in c.primary : k.rel = r.oid /\ a.num \in k.columns]

\* A public relation is known by its name.
LEMMA NamesAreUnique ==
  ASSUME NEW c, WellFormed(c)
  PROVE  \A r, s \in Public(c) : r.name = s.name => r = s
BY DEF WellFormed, Public

\* The rows under the name of a relation are those of its own columns.
LEMMA ColumnsOfOne ==
  ASSUME NEW c, WellFormed(c), NEW r \in Public(c)
  PROVE  {row \in ColumnRows(c) : row.relname = r.name} = {ColumnRow(c, r, a) : a \in Live(c, r)}
<1>1. ASSUME NEW row \in ColumnRows(c), row.relname = r.name
      PROVE  \E a \in Live(c, r) : row = ColumnRow(c, r, a)
  <2>1. PICK p \in Public(c) \X c.attributes :
          /\ p[2].rel = p[1].oid /\ p[2].num > 0 /\ ~p[2].dropped
          /\ row = ColumnRow(c, p[1], p[2])
    BY <1>1, Zenon DEF ColumnRows, ColumnRow
  <2>2. p[1] \in Public(c) /\ p[2] \in c.attributes
    BY <2>1
  <2>3. row.relname = p[1].name
    BY <2>1 DEF ColumnRow
  <2>4. p[1] = r
    BY <1>1, <2>2, <2>3, NamesAreUnique, Zenon
  <2> QED
    BY <2>1, <2>2, <2>4, Zenon DEF Live
<1>2. ASSUME NEW a \in Live(c, r)
      PROVE  ColumnRow(c, r, a) \in ColumnRows(c) /\ ColumnRow(c, r, a).relname = r.name
  <2>1. ColumnRow(c, r, a).relname = r.name
    BY DEF ColumnRow
  <2> DEFINE p == <<r, a>>
  <2>2. /\ p \in Public(c) \X c.attributes /\ p[1] = r /\ p[2] = a
        /\ a.rel = r.oid /\ a.num > 0 /\ ~a.dropped
    BY DEF Live
  <2> HIDE DEF p
  <2>3. ColumnRow(c, p[1], p[2]) \in ColumnRows(c)
    BY <2>2, Zenon DEF ColumnRows, ColumnRow
  <2> QED
    BY <2>1, <2>2, <2>3
<1> QED
  BY <1>1, <1>2

Named(c, oid) == CHOOSE r \in c.relations : r.oid = oid
Attribute(c, oid, num) == CHOOSE a \in c.attributes : a.rel = oid /\ a.num = num

KeyRow(c, f, i) ==
  [relname |-> Named(c, f.rel).name, conname |-> f.name, ordinal |-> i,
   column |-> Attribute(c, f.rel, f.columns[i]).name,
   referredTable |-> Named(c, f.referred).name,
   referredColumn |-> Attribute(c, f.referred, f.referredColumns[i]).name]

\* A join on a key of the catalogue finds the one row it means.
LEMMA LookedUp ==
  ASSUME NEW c, WellFormed(c)
  PROVE  /\ \A r \in c.relations : Named(c, r.oid) = r
         /\ \A a \in c.attributes : Attribute(c, a.rel, a.num) = a
<1>1. ASSUME NEW r \in c.relations PROVE Named(c, r.oid) = r
  BY DEF WellFormed, Named
<1>2. ASSUME NEW a \in c.attributes PROVE Attribute(c, a.rel, a.num) = a
  BY DEF WellFormed, Attribute
<1> QED
  BY <1>1, <1>2

\* The rows under the name of a relation are those of its own keys.
LEMMA KeysOfOne ==
  ASSUME NEW c, WellFormed(c), NEW r \in Public(c), NEW row
  PROVE  row \in KeyRows(c) /\ row.relname = r.name
           <=> \E f \in Foreign(c, r) : \E i \in DOMAIN f.columns : row = KeyRow(c, f, i)
<1>1. KeyRows(c) = UNION {{KeyRow(c, f, i) : i \in DOMAIN f.columns} :
                            f \in {g \in c.foreign : g.namespace = "public"}}
  BY Zenon DEF KeyRows, KeyRow, Named, Attribute
<1>2. \A f, i : KeyRow(c, f, i).relname = Named(c, f.rel).name
  BY DEF KeyRow
<1>3. \A f \in c.foreign : f.namespace = "public" =>
        (Named(c, f.rel).name = r.name <=> f.rel = r.oid)
  BY LookedUp DEF WellFormed, Public
<1> QED
  BY <1>1, <1>2, <1>3 DEF Foreign

\* Grouping by the name of the constraint gives each key back: two keys of one
\* relation onto one other stay two, and the members of a key are paired in the
\* order of the constraint (_group_foreign_keys).
LEMMA KeysAreGrouped ==
  ASSUME NEW c, WellFormed(c), NEW r \in Public(c),
         NEW rows, rows = {row \in KeyRows(c) : row.relname = r.name}
  PROVE  /\ \A f \in Foreign(c, r) : \E k \in GroupForeignKeys(rows) : DescribesKey(k, f, c)
         /\ \A k \in GroupForeignKeys(rows) : \E f \in Foreign(c, r) : DescribesKey(k, f, c)
<1> DEFINE of(name) == {row \in rows : row.conname = name}
           ordinals(name) == {row.ordinal : row \in of(name)}
           member(name, i) == CHOOSE row \in of(name) : row.ordinal = i
           key(name) ==
             [columns |-> [i \in ordinals(name) |-> member(name, i).column],
              referredTable |-> member(name, 1).referredTable,
              referredColumns |-> [i \in ordinals(name) |-> member(name, i).referredColumn]]
<1>1. GroupForeignKeys(rows) = {key(name) : name \in {row.conname : row \in rows}}
  BY Zenon DEF GroupForeignKeys
<1>2. \A row : row \in rows <=> \E f \in Foreign(c, r) : \E i \in DOMAIN f.columns : row = KeyRow(c, f, i)
  BY KeysOfOne
<1>3. \A f, i : KeyRow(c, f, i).conname = f.name /\ KeyRow(c, f, i).ordinal = i
  BY DEF KeyRow
<1>4. ASSUME NEW f \in Foreign(c, r) PROVE DescribesKey(key(f.name), f, c)
  <2>1. \A g \in Foreign(c, r) : g.name = f.name => g = f
    BY DEF Foreign, WellFormed
  <2>2. \A row : row \in of(f.name) <=> \E i \in DOMAIN f.columns : row = KeyRow(c, f, i)
    BY <1>2, <1>3, <2>1
  <2>3. ordinals(f.name) = DOMAIN f.columns
    BY <1>3, <2>2
  <2>4. \A i \in DOMAIN f.columns : member(f.name, i) = KeyRow(c, f, i)
    BY <1>3, <2>2
  <2> HIDE DEF of, ordinals, member
  <2>5. 1 \in DOMAIN f.columns
    BY DEF Foreign, WellFormed
  <2>6. /\ DOMAIN key(f.name).columns = ordinals(f.name)
        /\ DOMAIN key(f.name).referredColumns = ordinals(f.name)
        /\ key(f.name).referredTable = member(f.name, 1).referredTable
    OBVIOUS
  <2>7. \A i \in ordinals(f.name) :
          /\ key(f.name).columns[i] = member(f.name, i).column
          /\ key(f.name).referredColumns[i] = member(f.name, i).referredColumn
    OBVIOUS
  <2> HIDE DEF key
  <2>8. \A i : /\ KeyRow(c, f, i).column = Attribute(c, f.rel, f.columns[i]).name
               /\ KeyRow(c, f, i).referredTable = Named(c, f.referred).name
               /\ KeyRow(c, f, i).referredColumn =
                    Attribute(c, f.referred, f.referredColumns[i]).name
    BY DEF KeyRow
  <2>9. /\ DOMAIN key(f.name).columns = DOMAIN f.columns
        /\ DOMAIN key(f.name).referredColumns = DOMAIN f.columns
        /\ key(f.name).referredTable = Named(c, f.referred).name
    BY <2>3, <2>4, <2>5, <2>6, <2>8
  <2>10. \A i \in DOMAIN f.columns :
           /\ key(f.name).columns[i] = Attribute(c, f.rel, f.columns[i]).name
           /\ key(f.name).referredColumns[i] =
                Attribute(c, f.referred, f.referredColumns[i]).name
    BY <2>3, <2>4, <2>7, <2>8
  <2> QED
    BY <2>9, <2>10, LookedUp DEF DescribesKey
<1>5. ASSUME NEW f \in Foreign(c, r) PROVE f.name \in {row.conname : row \in rows}
  <2>1. KeyRow(c, f, 1) \in rows
    BY <1>2 DEF Foreign, WellFormed
  <2> QED
    BY <2>1, <1>3
<1>6. ASSUME NEW row \in rows PROVE \E f \in Foreign(c, r) : f.name = row.conname
  BY <1>2, <1>3
<1> HIDE DEF of, ordinals, member, key
<1>7. ASSUME NEW f \in Foreign(c, r)
      PROVE  \E k \in GroupForeignKeys(rows) : DescribesKey(k, f, c)
  BY <1>1, <1>4, <1>5
<1>8. ASSUME NEW k \in GroupForeignKeys(rows)
      PROVE  \E f \in Foreign(c, r) : DescribesKey(k, f, c)
  BY <1>1, <1>4, <1>6
<1> QED
  BY <1>7, <1>8

\* The table get_schema makes of a row of the relation list.
TableOf(columns, keys, relation) ==
  LET columnsOf(name) == {row \in columns : row.relname = name}
      column(name, num) == CHOOSE row \in columnsOf(name) : row.attnum = num
  IN  [name |-> relation.relname, kind |-> relation.relkind,
       columns |->
         [num \in {row.attnum : row \in columnsOf(relation.relname)} |->
            LET row == column(relation.relname, num)
            IN  [name |-> row.attname, type |-> row.type,
                 nullable |-> ~row.notnull, primaryKey |-> row.primary]],
       foreignKeys |->
         GroupForeignKeys({row \in keys : row.relname = relation.relname})]

\* It is the relation that row is of.
LEMMA TableIsDescribed ==
  ASSUME NEW c, WellFormed(c), NEW r \in Public(c),
         NEW t, t = TableOf(ColumnRows(c), KeyRows(c), [relname |-> r.name, relkind |-> r.kind])
  PROVE  DescribesTable(t, r, c)
<1> DEFINE rows == {row \in ColumnRows(c) : row.relname = r.name}
           column(num) == CHOOSE row \in rows : row.attnum = num
           made(row) == [name |-> row.attname, type |-> row.type,
                         nullable |-> ~row.notnull, primaryKey |-> row.primary]
           columns == [num \in {row.attnum : row \in rows} |-> made(column(num))]
           keys == GroupForeignKeys({row \in KeyRows(c) : row.relname = r.name})
<1>1. t = [name |-> r.name, kind |-> r.kind, columns |-> columns, foreignKeys |-> keys]
  BY Zenon DEF TableOf
<1>2. rows = {ColumnRow(c, r, a) : a \in Live(c, r)}
  BY ColumnsOfOne
<1>3. \A a : ColumnRow(c, r, a).attnum = a.num
  BY DEF ColumnRow
<1> HIDE DEF rows
<1>4. \A a, b \in Live(c, r) : a.num = b.num => a = b
  BY DEF Live, WellFormed
<1>5. \A a \in Live(c, r) : column(a.num) = ColumnRow(c, r, a)
  BY <1>2, <1>3, <1>4
<1>6. {row.attnum : row \in rows} = {a.num : a \in Live(c, r)}
  BY <1>2, <1>3
<1> HIDE DEF column, made
<1>7. \A a \in Live(c, r) : columns[a.num] = made(ColumnRow(c, r, a))
  BY <1>5, <1>6
<1>8. DOMAIN columns = {a.num : a \in Live(c, r)}
  BY <1>6
<1> HIDE DEF columns, keys
<1>9. ASSUME NEW a \in Live(c, r)
      PROVE  /\ made(ColumnRow(c, r, a)).name = a.name
             /\ made(ColumnRow(c, r, a)).type = a.type
             /\ made(ColumnRow(c, r, a)).nullable <=> ~a.notnull
             /\ made(ColumnRow(c, r, a)).primaryKey <=>
                  \E k \in c.primary : k.rel = r.oid /\ a.num \in k.columns
  BY Zenon DEF made, ColumnRow
<1>10. /\ \A f \in Foreign(c, r) : \E k \in keys : DescribesKey(k, f, c)
       /\ \A k \in keys : \E f \in Foreign(c, r) : DescribesKey(k, f, c)
  BY KeysAreGrouped DEF keys
<1>11. t.name = r.name /\ t.kind = r.kind /\ t.columns = columns /\ t.foreignKeys = keys
  BY <1>1
<1> QED
  BY <1>7, <1>8, <1>9, <1>10, <1>11, Zenon DEF DescribesTable

\* One table for every public relation, and none besides.
DescribesCatalogue(tables, c) ==
  /\ \A r \in Public(c) : \E t \in tables : DescribesTable(t, r, c)
  /\ \A t \in tables : \E r \in Public(c) : DescribesTable(t, r, c)

\* get_schema loses nothing and adds nothing: of the rows of one catalogue it
\* makes one table for each public table or view, with every column that has
\* not been dropped under its number, its nullability and whether it is any
\* part of the primary key, and every foreign key with its members in order
\* (introspection.py calls the pairing reasoned about rather than observed).
THEOREM SchemaIsTheCatalogue ==
  ASSUME NEW c, WellFormed(c), Public(c) # {}
  PROVE  DescribesCatalogue(Assemble(RelationRows(c), ColumnRows(c), KeyRows(c)), c)
<1> DEFINE made(r) == TableOf(ColumnRows(c), KeyRows(c), [relname |-> r.name, relkind |-> r.kind])
           tables == Assemble(RelationRows(c), ColumnRows(c), KeyRows(c))
<1>1. RelationRows(c) # {}
  BY DEF RelationRows
<1>2. tables = {TableOf(ColumnRows(c), KeyRows(c), relation) : relation \in RelationRows(c)}
  BY <1>1, Zenon DEF Assemble, TableOf
<1>3. tables = {made(r) : r \in Public(c)}
  BY <1>2, Zenon DEF RelationRows
<1>4. \A r \in Public(c) : DescribesTable(made(r), r, c)
  BY TableIsDescribed
<1> HIDE DEF made, tables
<1>5. DescribesCatalogue(tables, c)
  BY <1>3, <1>4 DEF DescribesCatalogue
<1> QED
  BY <1>5 DEF tables

\* A schema in hand is that of the database as it is, unless the database was
\* migrated since the request arrived.
UndisturbedSchemasAreExact ==
  \A r \in Requests :
    /\ schema[r] # NoSchema
    /\ seen[r][Asked(r)] = Len(versions[Asked(r)])
    /\ WellFormed(Catalogue(Asked(r)))
    => DescribesCatalogue(schema[r], Catalogue(Asked(r)))

\* What a request reads of a database in three transactions is exactly that
\* database, in every execution in which no migration comes between: the torn
\* reading is all that RepliesComeFromTheirTarget has to allow for.
THEOREM SchemasAreExact == Spec => []UndisturbedSchemasAreExact
<1>1. Serving => UndisturbedSchemasAreExact
  <2> SUFFICES ASSUME Serving, NEW r \in Requests, schema[r] # NoSchema,
                      seen[r][Asked(r)] = Len(versions[Asked(r)]),
                      WellFormed(Catalogue(Asked(r)))
               PROVE  DescribesCatalogue(schema[r], Catalogue(Asked(r)))
    BY DEF UndisturbedSchemasAreExact
  <2> DEFINE n == Len(versions[Asked(r)])
             c == Catalogue(Asked(r))
  <2>1. Asked(r) \in Targets /\ ReadWhole(schema[r], versions[Asked(r)], n)
    BY DEF Serving, Sourced
  <2>2. n \in Nat
    BY <2>1 DEF Serving, Seen, InSequence
  <2>3. schema[r] = Assemble(RelationRows(c), ColumnRows(c), KeyRows(c))
    <3>1. PICK i \in n..n : \E j \in i..n : \E k \in j..n :
            schema[r] = Assemble(RelationRows(versions[Asked(r)][i]),
                                 ColumnRows(versions[Asked(r)][j]),
                                 KeyRows(versions[Asked(r)][k]))
      BY <2>1 DEF ReadWhole
    <3>2. i = n /\ \A j \in i..n : j = n /\ \A k \in j..n : k = n
      BY <2>2
    <3> QED
      BY <3>1, <3>2 DEF Catalogue
  <2>4. RelationRows(c) # {}
    BY <2>3 DEF Assemble
  <2>5. Public(c) # {}
    BY <2>4 DEF RelationRows
  <2> QED
    BY <2>3, <2>5, SchemaIsTheCatalogue
<1> QED  BY <1>1, ServingHolds, PTL
=============================================================================
