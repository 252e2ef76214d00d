-------------------------- MODULE AskServiceProofs --------------------------
(***************************************************************************)
(* Theorems about AskService: for every number of requests, questions,     *)
(* schema versions and restarts, and every cost of a run, the history adds *)
(* up, nothing is spent behind the ceiling, an answer belongs to the       *)
(* schema it was asked under, and a failure is not replayed.               *)
(*                                                                         *)
(* The argument: an answer is carried from the run that computed it to the *)
(* row that records it, through the flight, the memory and the replies of  *)
(* the cache, and at each station it is tied to the key it is kept under   *)
(* and to the usage of the request it is credited to (Carried, Credited).  *)
(*                                                                         *)
(* Nobody waits for a request that has left (Flown), a request moves in    *)
(* one direction only (Onward), and the cache is used by the operations    *)
(* that SingleFlight promises. The last snapshot of the provider's limits  *)
(* that was handed over is the latest one as long as no two are on their   *)
(* way (Recent).                                                           *)
(***************************************************************************)
EXTENDS AskService, TLAPS

\* Before its own run of the agent is over.
Early == {"idle", "reading", "asking", "bypassing", "computing"}

\* Every request past the door was counted; only a finished one was told.
Counted ==
  \A r \in Requests :
    /\ at[r] = "idle" => r \notin charged
    /\ at[r] \notin {"idle", "done", "died"} => r \in charged
    /\ response[r] # None => at[r] = "done"

\* What a request has not got yet.
Fresh ==
  \A r \in Requests :
    /\ at[r] \in Early => spent[r] = 0
    /\ at[r] \in {"idle", "reading", "bypassing"} => read[r] = None
    /\ at[r] \in Early \cup {"closing", "waiting"} => answer[r] = NoAnswer
    /\ at[r] \in Early \cup {"closing", "waiting", "observing", "recording"} =>
         rows[r] = None

\* What a request on its way out has.
Answered ==
  \A r \in Requests :
    at[r] \in {"observing", "recording", "responding"} => answer[r].value # None

\* How far a request is with the cache.
Afloat ==
  \A r \in Requests :
    /\ at[r] = "reading" => question[r] \in Questions
    /\ at[r] = "asking" => Key(r) \in Keys
    /\ at[r] \in {"idle", "reading", "asking", "bypassing"} =>
         asked[r] = None /\ verdict[r] = Cache!Unsettled
    /\ at[r] = "computing" => asked[r] # None /\ verdict[r] = Cache!Unsettled
    /\ at[r] = "waiting" /\ aboard[r] # r => spent[r] = 0

\* What the cache carries belongs to the key it is filed under.
Carried ==
  /\ \A r \in Requests :
       /\ asked[r] # None => asked[r] = Key(r)
       /\ verdict[r].value # None =>
            verdict[r].value.prompt = read[r] /\ verdict[r].value.usage = spent[r]
  /\ \A k \in Keys : memory[k] # None => memory[k].ok /\ memory[k].prompt = k[2]

\* An answer is credited with what its request spent.
Credited == \A r \in Requests : answer[r].value # None => spent[r] = EffectiveUsage(r)

IInv ==
  /\ TypeOK /\ Counted /\ Fresh /\ Answered /\ Afloat /\ Carried /\ Credited
  /\ HistoryAddsUp /\ NothingBehindTheCeiling /\ AnswersMatchTheirKey

----------------------------------------------------------------------------
(* What the cache promises, as its callers use it.                         *)

\* Everybody aboard is told the verdict of the flight, and whether it is theirs.
LEMMA WhatIsTold ==
  ASSUME TypeOK, NEW r \in Requests, Cache!Tell(r)
  PROVE  /\ aboard[r] \in Requests /\ asked[r] # None
         /\ asked[aboard[r]] = asked[r]
         /\ reply' \in [Requests -> [value : Result \cup {None},
                                      error : {"raised", None}, hit : BOOLEAN]]
         /\ reply'[r] \in [value : Result \cup {None},
                            error : {"raised", None}, hit : BOOLEAN]
         /\ reply'[r].error = None =>
              /\ reply'[r].value = verdict[aboard[r]].value
              /\ reply'[r].value # None
              /\ reply'[r].hit = (r # aboard[r])
<1> DEFINE l == aboard[r]
           told == IF verdict[l].error # None
                   THEN [value |-> None, error |-> verdict[l].error, hit |-> FALSE]
                   ELSE [value |-> verdict[l].value, error |-> None, hit |-> r # l]
<1>1. /\ l \in Requests /\ asked[r] # None /\ asked[l] = asked[r]
      /\ verdict[l] \in Cache!Verdicts /\ verdict[l] # Cache!Unsettled
      /\ reply' = [reply EXCEPT ![r] = told]
  BY DEF TypeOK, Cache!Tell
<1>2. told \in [value : Result \cup {None}, error : {"raised", None}, hit : BOOLEAN]
  BY <1>1 DEF Cache!Verdicts
<1>3. told.error = None =>
        told.value = verdict[l].value /\ told.value # None /\ told.hit = (r # l)
  BY <1>1 DEF Cache!Verdicts, Cache!Unsettled
<1> HIDE DEF told
<1> QED
  BY <1>1, <1>2, <1>3 DEF TypeOK

\* Settling keeps a result worth keeping, for its own key, and no other.
LEMMA WhatIsKept ==
  ASSUME TypeOK, NEW r \in Requests, NEW out \in Cache!Verdicts,
         asked[r] # None, Cache!Settle(r, out)
  PROVE  /\ verdict' = [verdict EXCEPT ![r] = out]
         /\ UNCHANGED <<asked, aboard, flight, reply>>
         /\ verdict' \in [Requests -> Cache!Verdicts]
         /\ memory' \in [Keys -> Result \cup {None}]
         /\ \A k \in Keys :
              \/ memory'[k] \in {None, memory[k]}
              \/ k = asked[r] /\ memory'[k] = out.value /\ out.value \in IsCacheable
<1>1. asked[r] \in Keys /\ IsCacheable \subseteq Result
  BY DEF TypeOK, IsCacheable
<1>2. CASE out.error = None /\ out.value \in IsCacheable
  <2>1. PICK gone \in SUBSET (Keys \ {asked[r]}) :
          memory' = [k \in Keys |-> IF k = asked[r] THEN out.value
                                    ELSE IF k \in gone THEN None ELSE memory[k]]
    BY <1>2 DEF Cache!Settle
  <2> QED
    BY <1>1, <1>2, <2>1 DEF TypeOK, Cache!Settle
<1>3. CASE ~(out.error = None /\ out.value \in IsCacheable)
  BY <1>3 DEF TypeOK, Cache!Settle
<1> QED
  BY <1>2, <1>3

----------------------------------------------------------------------------
(* The parts of the invariant: one step per action.                        *)

\* A step keeps every variable in its type.
LEMMA TypePreserved ==
  ASSUME TypeOK, Answered, Afloat, [Next]_vars
  PROVE  TypeOK'
<1>0. \A r \in Requests, out \in Cache!Verdicts :
        asked[r] # None /\ Cache!Settle(r, out) =>
          /\ UNCHANGED <<asked, aboard, flight, reply>>
          /\ verdict' \in [Requests -> Cache!Verdicts]
          /\ memory' \in [Keys -> Result \cup {None}]
  BY WhatIsKept
<1> USE ServiceAssumption, NoneAssumption
       DEF TypeOK, Answered, Afloat, Sites, Responses, Row, Result, NoAnswer, Key, Keys,
       Cache!Verdicts, Cache!Unsettled, Cache!Untold, IsCacheable, EffectiveUsage,
       Goto, Told, Answer, Spend, vars, durable, world, cache
<1>1. ASSUME NEW r \in Requests, UnknownDatabase(r) PROVE TypeOK'
  BY <1>1 DEF UnknownDatabase
<1>2. ASSUME NEW r \in Requests, ReserveRaises(r) PROVE TypeOK'
  BY <1>2 DEF ReserveRaises
<1>3. ASSUME NEW r \in Requests, NEW q \in Questions, Refuse(r, q) PROVE TypeOK'
  BY <1>3 DEF Refuse
<1>4. ASSUME NEW r \in Requests, NEW q \in Questions, Admit(r, q) PROVE TypeOK'
  BY <1>4 DEF Admit
<1>5. ASSUME NEW r \in Requests, ReadSchema(r) PROVE TypeOK'
  BY <1>5 DEF ReadSchema
<1>6. ASSUME NEW r \in Requests, SchemaUnreadable(r) PROVE TypeOK'
  BY <1>6 DEF SchemaUnreadable
<1>7. ASSUME NEW r \in Requests, Replay(r) PROVE TypeOK'
  BY <1>7 DEF Replay, Cache!FromMemory
<1>8. ASSUME NEW r \in Requests, Join(r) PROVE TypeOK'
  BY <1>8 DEF Join, Cache!Board
<1>9. ASSUME NEW r \in Requests, Lead(r) PROVE TypeOK'
  BY <1>9 DEF Lead, Cache!Open
<1>10. ASSUME NEW r \in Requests, NEW result \in Result, NEW reported \in BOOLEAN,
             Run(r, result, reported)
       PROVE TypeOK'
  <2> DEFINE out == [value |-> result, error |-> None]
  <2>1. out \in Cache!Verdicts /\ asked[r] # None /\ Cache!Settle(r, out)
    BY <1>10 DEF Run
  <2> HIDE DEF out
  <2>2. /\ UNCHANGED <<asked, aboard, flight, reply>>
        /\ verdict' \in [Requests -> Cache!Verdicts]
        /\ memory' \in [Keys -> Result \cup {None}]
    BY <1>0, <2>1
  <2>3. /\ spent' \in [Requests -> 0..MaxCost] /\ reading' \in [Requests -> Nat]
        /\ clock' \in Nat /\ UNCHANGED <<catalogue, restarts>>
    BY <1>10 DEF Run
  <2>4. /\ at' \in [Requests -> Sites]
        /\ UNCHANGED <<question, read, answer, response, charged, rows, quota>>
    BY <1>10 DEF Run
  <2> HIDE DEF Result, Keys, Sites, Row
  <2> QED
    BY <2>2, <2>3, <2>4
<1>11. ASSUME NEW r \in Requests, NEW cost \in 0..MaxCost, RunRaises(r, cost)
       PROVE TypeOK'
  <2> DEFINE out == [value |-> None, error |-> "raised"]
  <2>1. out \in Cache!Verdicts /\ asked[r] # None /\ Cache!Settle(r, out)
    BY <1>11 DEF RunRaises
  <2> HIDE DEF out
  <2>2. /\ UNCHANGED <<asked, aboard, flight, reply>>
        /\ verdict' \in [Requests -> Cache!Verdicts]
        /\ memory' \in [Keys -> Result \cup {None}]
    BY <1>0, <2>1
  <2> QED
    BY <1>11, <2>2 DEF RunRaises
<1>12. ASSUME NEW r \in Requests, Close(r) PROVE TypeOK'
  BY <1>12 DEF Close, Cache!Close
<1>13. ASSUME NEW r \in Requests, Return(r) PROVE TypeOK'
  <2>1. /\ reply' \in [Requests -> [value : Result \cup {None},
                                     error : {"raised", None}, hit : BOOLEAN]]
        /\ reply'[r].value \in Result \cup {None} /\ reply'[r].hit \in BOOLEAN
    BY <1>13, WhatIsTold DEF Return
  <2>2. answer' \in [Requests -> [value : Result \cup {None}, hit : BOOLEAN]]
    BY <1>13, <2>1 DEF Return
  <2> QED
    BY <1>13, <2>1, <2>2 DEF Return, Cache!Tell
<1>14. ASSUME NEW r \in Requests, Raise(r) PROVE TypeOK'
  BY <1>14 DEF Raise, Cache!Tell
<1>15. ASSUME NEW r \in Requests, NEW result \in Result, NEW reported \in BOOLEAN,
             Bypass(r, result, reported)
       PROVE TypeOK'
  BY <1>15 DEF Bypass
<1>16. ASSUME NEW r \in Requests, NEW cost \in 0..MaxCost, BypassRaises(r, cost)
       PROVE TypeOK'
  BY <1>16 DEF BypassRaises
<1>17. ASSUME NEW r \in Requests, Observe(r) PROVE TypeOK'
  BY <1>17 DEF Observe
<1>18. ASSUME NEW r \in Requests, Record(r) PROVE TypeOK'
  BY <1>18 DEF Record
<1>19. ASSUME NEW r \in Requests, RecordFails(r) PROVE TypeOK'
  BY <1>19 DEF RecordFails
<1>20. ASSUME NEW r \in Requests, Respond(r) PROVE TypeOK'
  BY <1>20 DEF Respond
<1>21. ASSUME Clear PROVE TypeOK'
  BY <1>21 DEF Clear, Cache!Forget
<1>22. ASSUME Migrate PROVE TypeOK'
  BY <1>22 DEF Migrate, Versions
<1>23. ASSUME Restart PROVE TypeOK'
  BY <1>23 DEF Restart
<1>24. CASE UNCHANGED vars
  BY <1>24
<1> HIDE DEF TypeOK, Answered, Afloat, Result, Keys, Row
<1> QED
  BY [Next]_vars, ServiceAssumption,
     <1>1, <1>2, <1>3, <1>4, <1>5, <1>6, <1>7, <1>8, <1>9, <1>10,
     <1>11, <1>12, <1>13, <1>14, <1>15, <1>16, <1>17, <1>18, <1>19, <1>20,
     <1>21, <1>22, <1>23, <1>24
     DEF Next, Step

\* Counted before admission, and told at the end.
LEMMA CountedPreserved ==
  ASSUME TypeOK, Counted, [Next]_vars
  PROVE  Counted'
<1> USE NoneAssumption DEF TypeOK, Counted, Responses, Goto, Told, Answer, Spend, vars, durable, world, cache
<1>1. ASSUME NEW r \in Requests, UnknownDatabase(r) PROVE Counted'
  BY <1>1 DEF UnknownDatabase
<1>2. ASSUME NEW r \in Requests, ReserveRaises(r) PROVE Counted'
  BY <1>2 DEF ReserveRaises
<1>3. ASSUME NEW r \in Requests, NEW q \in Questions, Refuse(r, q) PROVE Counted'
  BY <1>3 DEF Refuse
<1>4. ASSUME NEW r \in Requests, NEW q \in Questions, Admit(r, q) PROVE Counted'
  BY <1>4 DEF Admit
<1>5. ASSUME NEW r \in Requests, ReadSchema(r) PROVE Counted'
  BY <1>5 DEF ReadSchema
<1>6. ASSUME NEW r \in Requests, SchemaUnreadable(r) PROVE Counted'
  BY <1>6 DEF SchemaUnreadable
<1>7. ASSUME NEW r \in Requests, Replay(r) PROVE Counted'
  BY <1>7 DEF Replay
<1>8. ASSUME NEW r \in Requests, Join(r) PROVE Counted'
  BY <1>8 DEF Join
<1>9. ASSUME NEW r \in Requests, Lead(r) PROVE Counted'
  BY <1>9 DEF Lead
<1>10. ASSUME NEW r \in Requests, NEW result \in Result, NEW reported \in BOOLEAN,
             Run(r, result, reported)
       PROVE Counted'
  BY <1>10 DEF Run
<1>11. ASSUME NEW r \in Requests, NEW cost \in 0..MaxCost, RunRaises(r, cost)
       PROVE Counted'
  BY <1>11 DEF RunRaises
<1>12. ASSUME NEW r \in Requests, Close(r) PROVE Counted'
  BY <1>12 DEF Close
<1>13. ASSUME NEW r \in Requests, Return(r) PROVE Counted'
  BY <1>13 DEF Return
<1>14. ASSUME NEW r \in Requests, Raise(r) PROVE Counted'
  BY <1>14 DEF Raise
<1>15. ASSUME NEW r \in Requests, NEW result \in Result, NEW reported \in BOOLEAN,
             Bypass(r, result, reported)
       PROVE Counted'
  BY <1>15 DEF Bypass
<1>16. ASSUME NEW r \in Requests, NEW cost \in 0..MaxCost, BypassRaises(r, cost)
       PROVE Counted'
  BY <1>16 DEF BypassRaises
<1>17. ASSUME NEW r \in Requests, Observe(r) PROVE Counted'
  BY <1>17 DEF Observe
<1>18. ASSUME NEW r \in Requests, Record(r) PROVE Counted'
  BY <1>18 DEF Record
<1>19. ASSUME NEW r \in Requests, RecordFails(r) PROVE Counted'
  BY <1>19 DEF RecordFails
<1>20. ASSUME NEW r \in Requests, Respond(r) PROVE Counted'
  BY <1>20 DEF Respond
<1>21. ASSUME Clear PROVE Counted'
  BY <1>21 DEF Clear
<1>22. ASSUME Migrate PROVE Counted'
  BY <1>22 DEF Migrate
<1>23. ASSUME Restart PROVE Counted'
  BY <1>23 DEF Restart
<1>24. CASE UNCHANGED vars
  BY <1>24
<1> QED
  BY [Next]_vars, ServiceAssumption,
     <1>1, <1>2, <1>3, <1>4, <1>5, <1>6, <1>7, <1>8, <1>9, <1>10,
     <1>11, <1>12, <1>13, <1>14, <1>15, <1>16, <1>17, <1>18, <1>19, <1>20,
     <1>21, <1>22, <1>23, <1>24
     DEF Next, Step

\* What is yet to come stays absent.
LEMMA FreshPreserved ==
  ASSUME TypeOK, Fresh, [Next]_vars
  PROVE  Fresh'
<1> USE DEF TypeOK, Fresh, Early, Goto, Told, Answer, Spend, vars, durable, world, cache
<1>1. ASSUME NEW r \in Requests, UnknownDatabase(r) PROVE Fresh'
  BY <1>1 DEF UnknownDatabase
<1>2. ASSUME NEW r \in Requests, ReserveRaises(r) PROVE Fresh'
  BY <1>2 DEF ReserveRaises
<1>3. ASSUME NEW r \in Requests, NEW q \in Questions, Refuse(r, q) PROVE Fresh'
  BY <1>3 DEF Refuse
<1>4. ASSUME NEW r \in Requests, NEW q \in Questions, Admit(r, q) PROVE Fresh'
  BY <1>4 DEF Admit
<1>5. ASSUME NEW r \in Requests, ReadSchema(r) PROVE Fresh'
  BY <1>5 DEF ReadSchema
<1>6. ASSUME NEW r \in Requests, SchemaUnreadable(r) PROVE Fresh'
  BY <1>6 DEF SchemaUnreadable
<1>7. ASSUME NEW r \in Requests, Replay(r) PROVE Fresh'
  BY <1>7 DEF Replay
<1>8. ASSUME NEW r \in Requests, Join(r) PROVE Fresh'
  BY <1>8 DEF Join
<1>9. ASSUME NEW r \in Requests, Lead(r) PROVE Fresh'
  BY <1>9 DEF Lead
<1>10. ASSUME NEW r \in Requests, NEW result \in Result, NEW reported \in BOOLEAN,
             Run(r, result, reported)
       PROVE Fresh'
  BY <1>10 DEF Run
<1>11. ASSUME NEW r \in Requests, NEW cost \in 0..MaxCost, RunRaises(r, cost)
       PROVE Fresh'
  BY <1>11 DEF RunRaises
<1>12. ASSUME NEW r \in Requests, Close(r) PROVE Fresh'
  BY <1>12 DEF Close
<1>13. ASSUME NEW r \in Requests, Return(r) PROVE Fresh'
  BY <1>13 DEF Return
<1>14. ASSUME NEW r \in Requests, Raise(r) PROVE Fresh'
  BY <1>14 DEF Raise
<1>15. ASSUME NEW r \in Requests, NEW result \in Result, NEW reported \in BOOLEAN,
             Bypass(r, result, reported)
       PROVE Fresh'
  BY <1>15 DEF Bypass
<1>16. ASSUME NEW r \in Requests, NEW cost \in 0..MaxCost, BypassRaises(r, cost)
       PROVE Fresh'
  BY <1>16 DEF BypassRaises
<1>17. ASSUME NEW r \in Requests, Observe(r) PROVE Fresh'
  BY <1>17 DEF Observe
<1>18. ASSUME NEW r \in Requests, Record(r) PROVE Fresh'
  BY <1>18 DEF Record
<1>19. ASSUME NEW r \in Requests, RecordFails(r) PROVE Fresh'
  BY <1>19 DEF RecordFails
<1>20. ASSUME NEW r \in Requests, Respond(r) PROVE Fresh'
  BY <1>20 DEF Respond
<1>21. ASSUME Clear PROVE Fresh'
  BY <1>21 DEF Clear
<1>22. ASSUME Migrate PROVE Fresh'
  BY <1>22 DEF Migrate
<1>23. ASSUME Restart PROVE Fresh'
  BY <1>23 DEF Restart
<1>24. CASE UNCHANGED vars
  BY <1>24
<1> QED
  BY [Next]_vars, ServiceAssumption,
     <1>1, <1>2, <1>3, <1>4, <1>5, <1>6, <1>7, <1>8, <1>9, <1>10,
     <1>11, <1>12, <1>13, <1>14, <1>15, <1>16, <1>17, <1>18, <1>19, <1>20,
     <1>21, <1>22, <1>23, <1>24
     DEF Next, Step

\* The way out is entered with an answer.
LEMMA AnsweredPreserved ==
  ASSUME TypeOK, Answered, [Next]_vars
  PROVE  Answered'
<1> USE NoneAssumption DEF TypeOK, Answered,
       Goto, Told, Answer, Spend, vars, durable, world, cache
<1>1. ASSUME NEW r \in Requests, UnknownDatabase(r) PROVE Answered'
  BY <1>1 DEF UnknownDatabase
<1>2. ASSUME NEW r \in Requests, ReserveRaises(r) PROVE Answered'
  BY <1>2 DEF ReserveRaises
<1>3. ASSUME NEW r \in Requests, NEW q \in Questions, Refuse(r, q) PROVE Answered'
  BY <1>3 DEF Refuse
<1>4. ASSUME NEW r \in Requests, NEW q \in Questions, Admit(r, q) PROVE Answered'
  BY <1>4 DEF Admit
<1>5. ASSUME NEW r \in Requests, ReadSchema(r) PROVE Answered'
  BY <1>5 DEF ReadSchema
<1>6. ASSUME NEW r \in Requests, SchemaUnreadable(r) PROVE Answered'
  BY <1>6 DEF SchemaUnreadable
<1>7. ASSUME NEW r \in Requests, Replay(r) PROVE Answered'
  BY <1>7 DEF Replay, Cache!FromMemory
<1>8. ASSUME NEW r \in Requests, Join(r) PROVE Answered'
  BY <1>8 DEF Join
<1>9. ASSUME NEW r \in Requests, Lead(r) PROVE Answered'
  BY <1>9 DEF Lead
<1>10. ASSUME NEW r \in Requests, NEW result \in Result, NEW reported \in BOOLEAN,
             Run(r, result, reported)
       PROVE Answered'
  BY <1>10 DEF Run
<1>11. ASSUME NEW r \in Requests, NEW cost \in 0..MaxCost, RunRaises(r, cost)
       PROVE Answered'
  BY <1>11 DEF RunRaises
<1>12. ASSUME NEW r \in Requests, Close(r) PROVE Answered'
  BY <1>12 DEF Close
<1>13. ASSUME NEW r \in Requests, Return(r) PROVE Answered'
  BY <1>13 DEF Return, Cache!Tell, Cache!Verdicts, Cache!Unsettled
<1>14. ASSUME NEW r \in Requests, Raise(r) PROVE Answered'
  BY <1>14 DEF Raise
<1>15. ASSUME NEW r \in Requests, NEW result \in Result, NEW reported \in BOOLEAN,
             Bypass(r, result, reported)
       PROVE Answered'
  BY <1>15 DEF Bypass
<1>16. ASSUME NEW r \in Requests, NEW cost \in 0..MaxCost, BypassRaises(r, cost)
       PROVE Answered'
  BY <1>16 DEF BypassRaises
<1>17. ASSUME NEW r \in Requests, Observe(r) PROVE Answered'
  BY <1>17 DEF Observe
<1>18. ASSUME NEW r \in Requests, Record(r) PROVE Answered'
  BY <1>18 DEF Record
<1>19. ASSUME NEW r \in Requests, RecordFails(r) PROVE Answered'
  BY <1>19 DEF RecordFails
<1>20. ASSUME NEW r \in Requests, Respond(r) PROVE Answered'
  BY <1>20 DEF Respond
<1>21. ASSUME Clear PROVE Answered'
  BY <1>21 DEF Clear
<1>22. ASSUME Migrate PROVE Answered'
  BY <1>22 DEF Migrate
<1>23. ASSUME Restart PROVE Answered'
  BY <1>23 DEF Restart
<1>24. CASE UNCHANGED vars
  BY <1>24
<1> QED
  BY [Next]_vars, ServiceAssumption,
     <1>1, <1>2, <1>3, <1>4, <1>5, <1>6, <1>7, <1>8, <1>9, <1>10,
     <1>11, <1>12, <1>13, <1>14, <1>15, <1>16, <1>17, <1>18, <1>19, <1>20,
     <1>21, <1>22, <1>23, <1>24
     DEF Next, Step

\* Asking, boarding and settling happen in this order.
LEMMA AfloatPreserved ==
  ASSUME TypeOK, Fresh, Afloat, [Next]_vars
  PROVE  Afloat'
<1> USE DEF TypeOK, Fresh, Afloat, Early, Key, Keys, Cache!Unsettled,
       Goto, Told, Answer, Spend, vars, durable, world, cache
<1>1. ASSUME NEW r \in Requests, UnknownDatabase(r) PROVE Afloat'
  BY <1>1 DEF UnknownDatabase
<1>2. ASSUME NEW r \in Requests, ReserveRaises(r) PROVE Afloat'
  BY <1>2 DEF ReserveRaises
<1>3. ASSUME NEW r \in Requests, NEW q \in Questions, Refuse(r, q) PROVE Afloat'
  BY <1>3 DEF Refuse
<1>4. ASSUME NEW r \in Requests, NEW q \in Questions, Admit(r, q) PROVE Afloat'
  BY <1>4 DEF Admit
<1>5. ASSUME NEW r \in Requests, ReadSchema(r) PROVE Afloat'
  BY <1>5 DEF ReadSchema
<1>6. ASSUME NEW r \in Requests, SchemaUnreadable(r) PROVE Afloat'
  BY <1>6 DEF SchemaUnreadable
<1>7. ASSUME NEW r \in Requests, Replay(r) PROVE Afloat'
  BY <1>7 DEF Replay, Cache!FromMemory
<1>8. ASSUME NEW r \in Requests, Join(r) PROVE Afloat'
  BY <1>8 DEF Join, Cache!Board
<1>9. ASSUME NEW r \in Requests, Lead(r) PROVE Afloat'
  <2>1. asked' = [asked EXCEPT ![r] = Key(r)] /\ Key(r) \in Keys
    BY <1>9 DEF Lead, Cache!Open
  <2>2. at' = [at EXCEPT ![r] = "computing"] /\ at[r] = "asking"
        /\ aboard' = [aboard EXCEPT ![r] = r]
        /\ UNCHANGED <<question, read, spent, verdict>>
    BY <1>9 DEF Lead, Cache!Open
  <2>3. asked'[r] # None
    BY <2>1, NoneAssumption DEF TypeOK
  <2> QED
    BY <2>1, <2>2, <2>3
<1>10. ASSUME NEW r \in Requests, NEW result \in Result, NEW reported \in BOOLEAN,
             Run(r, result, reported)
       PROVE Afloat'
  BY <1>10 DEF Run, Cache!Settle
<1>11. ASSUME NEW r \in Requests, NEW cost \in 0..MaxCost, RunRaises(r, cost)
       PROVE Afloat'
  BY <1>11 DEF RunRaises, Cache!Settle
<1>12. ASSUME NEW r \in Requests, Close(r) PROVE Afloat'
  BY <1>12 DEF Close, Cache!Close
<1>13. ASSUME NEW r \in Requests, Return(r) PROVE Afloat'
  BY <1>13 DEF Return, Cache!Tell
<1>14. ASSUME NEW r \in Requests, Raise(r) PROVE Afloat'
  BY <1>14 DEF Raise, Cache!Tell
<1>15. ASSUME NEW r \in Requests, NEW result \in Result, NEW reported \in BOOLEAN,
             Bypass(r, result, reported)
       PROVE Afloat'
  BY <1>15 DEF Bypass
<1>16. ASSUME NEW r \in Requests, NEW cost \in 0..MaxCost, BypassRaises(r, cost)
       PROVE Afloat'
  BY <1>16 DEF BypassRaises
<1>17. ASSUME NEW r \in Requests, Observe(r) PROVE Afloat'
  BY <1>17 DEF Observe
<1>18. ASSUME NEW r \in Requests, Record(r) PROVE Afloat'
  BY <1>18 DEF Record
<1>19. ASSUME NEW r \in Requests, RecordFails(r) PROVE Afloat'
  BY <1>19 DEF RecordFails
<1>20. ASSUME NEW r \in Requests, Respond(r) PROVE Afloat'
  BY <1>20 DEF Respond
<1>21. ASSUME Clear PROVE Afloat'
  BY <1>21 DEF Clear, Cache!Forget
<1>22. ASSUME Migrate PROVE Afloat'
  BY <1>22 DEF Migrate
<1>23. ASSUME Restart PROVE Afloat'
  BY <1>23 DEF Restart
<1>24. CASE UNCHANGED vars
  BY <1>24
<1> HIDE DEF TypeOK, Fresh, Afloat, Keys
<1> QED
  BY [Next]_vars, ServiceAssumption,
     <1>1, <1>2, <1>3, <1>4, <1>5, <1>6, <1>7, <1>8, <1>9, <1>10,
     <1>11, <1>12, <1>13, <1>14, <1>15, <1>16, <1>17, <1>18, <1>19, <1>20,
     <1>21, <1>22, <1>23, <1>24
     DEF Next, Step

\* What is settled and what is kept belongs to its key.
LEMMA CarriedPreserved ==
  ASSUME TypeOK, Fresh, Afloat, Carried, [Next]_vars
  PROVE  Carried'
<1> DEFINE Outside(r) == asked[r] = None /\ verdict[r].value = None
<1>0. \A r \in Requests : at[r] \in {"reading", "bypassing"} => Outside(r)
  BY DEF Afloat, Cache!Unsettled
<1> USE DEF TypeOK, Fresh, Afloat, Carried, Early, Key, Keys, Cache!Unsettled,
       Goto, Told, Answer, Spend, vars, durable, world, cache
<1>1. ASSUME NEW r \in Requests, UnknownDatabase(r) PROVE Carried'
  BY <1>1 DEF UnknownDatabase
<1>2. ASSUME NEW r \in Requests, ReserveRaises(r) PROVE Carried'
  BY <1>2 DEF ReserveRaises
<1>3. ASSUME NEW r \in Requests, NEW q \in Questions, Refuse(r, q) PROVE Carried'
  BY <1>3 DEF Refuse
<1>4. ASSUME NEW r \in Requests, NEW q \in Questions, Admit(r, q) PROVE Carried'
  BY <1>4 DEF Admit
<1>5. ASSUME NEW r \in Requests, ReadSchema(r) PROVE Carried'
  <2>1. asked[r] = None /\ verdict[r].value = None
    BY <1>0, <1>5 DEF ReadSchema
  <2>2. \A s \in Requests \ {r} : read'[s] = read[s]
    BY <1>5 DEF ReadSchema
  <2> QED
    BY <1>5, <2>1, <2>2 DEF ReadSchema
<1>6. ASSUME NEW r \in Requests, SchemaUnreadable(r) PROVE Carried'
  BY <1>6 DEF SchemaUnreadable
<1>7. ASSUME NEW r \in Requests, Replay(r) PROVE Carried'
  BY <1>7 DEF Replay, Cache!FromMemory
<1>8. ASSUME NEW r \in Requests, Join(r) PROVE Carried'
  BY <1>8 DEF Join, Cache!Board
<1>9. ASSUME NEW r \in Requests, Lead(r) PROVE Carried'
  BY <1>9 DEF Lead, Cache!Open
<1>10. ASSUME NEW r \in Requests, NEW result \in Result, NEW reported \in BOOLEAN,
             Run(r, result, reported)
       PROVE Carried'
  <2> DEFINE out == [value |-> result, error |-> None]
  <2>1. out \in Cache!Verdicts /\ asked[r] # None /\ Cache!Settle(r, out)
    BY <1>10 DEF Run, Cache!Verdicts
  <2>2. /\ verdict' = [verdict EXCEPT ![r] = out] /\ asked' = asked
        /\ \A k \in Keys :
             \/ memory'[k] \in {None, memory[k]}
             \/ k = asked[r] /\ memory'[k] = out.value /\ out.value \in IsCacheable
    BY <2>1, WhatIsKept
  <2>3. asked[r] = Key(r)
    BY <2>1
  <2>4. out.value # None => out.value.prompt = read[r] /\ out.value.usage = spent'[r]
    BY <1>10 DEF Run, Prompt
  <2>5. spent' = [spent EXCEPT ![r] = spent'[r]] /\ UNCHANGED <<question, read>>
    BY <1>10 DEF Run
  <2> HIDE DEF out
  <2> QED
    BY <2>2, <2>3, <2>4, <2>5 DEF IsCacheable
<1>11. ASSUME NEW r \in Requests, NEW cost \in 0..MaxCost, RunRaises(r, cost)
       PROVE Carried'
  <2> DEFINE out == [value |-> None, error |-> "raised"]
  <2>1. out \in Cache!Verdicts /\ asked[r] # None /\ Cache!Settle(r, out)
    BY <1>11 DEF RunRaises, Cache!Verdicts
  <2>2. /\ verdict' = [verdict EXCEPT ![r] = out] /\ asked' = asked
        /\ \A k \in Keys :
             \/ memory'[k] \in {None, memory[k]}
             \/ k = asked[r] /\ memory'[k] = out.value /\ out.value \in IsCacheable
    BY <2>1, WhatIsKept
  <2>3. asked[r] = Key(r)
    BY <2>1
  <2>4. out.value # None => out.value.prompt = read[r] /\ out.value.usage = spent'[r]
    BY <1>11 DEF RunRaises
  <2>5. spent' = [spent EXCEPT ![r] = spent'[r]] /\ UNCHANGED <<question, read>>
    BY <1>11 DEF RunRaises
  <2> HIDE DEF out
  <2> QED
    BY <2>2, <2>3, <2>4, <2>5 DEF IsCacheable
<1>12. ASSUME NEW r \in Requests, Close(r) PROVE Carried'
  BY <1>12 DEF Close, Cache!Close
<1>13. ASSUME NEW r \in Requests, Return(r) PROVE Carried'
  BY <1>13 DEF Return, Cache!Tell
<1>14. ASSUME NEW r \in Requests, Raise(r) PROVE Carried'
  BY <1>14 DEF Raise, Cache!Tell
<1>15. ASSUME NEW r \in Requests, NEW result \in Result, NEW reported \in BOOLEAN,
             Bypass(r, result, reported)
       PROVE Carried'
  <2>1. asked[r] = None /\ verdict[r].value = None
    BY <1>0, <1>15 DEF Bypass
  <2>2. \A s \in Requests \ {r} : spent'[s] = spent[s]
    BY <1>15 DEF Bypass
  <2> QED
    BY <1>15, <2>1, <2>2 DEF Bypass
<1>16. ASSUME NEW r \in Requests, NEW cost \in 0..MaxCost, BypassRaises(r, cost)
       PROVE Carried'
  <2>1. asked[r] = None /\ verdict[r].value = None
    BY <1>0, <1>16 DEF BypassRaises
  <2>2. \A s \in Requests \ {r} : spent'[s] = spent[s]
    BY <1>16 DEF BypassRaises
  <2> QED
    BY <1>16, <2>1, <2>2 DEF BypassRaises
<1>17. ASSUME NEW r \in Requests, Observe(r) PROVE Carried'
  BY <1>17 DEF Observe
<1>18. ASSUME NEW r \in Requests, Record(r) PROVE Carried'
  BY <1>18 DEF Record
<1>19. ASSUME NEW r \in Requests, RecordFails(r) PROVE Carried'
  BY <1>19 DEF RecordFails
<1>20. ASSUME NEW r \in Requests, Respond(r) PROVE Carried'
  BY <1>20 DEF Respond
<1>21. ASSUME Clear PROVE Carried'
  BY <1>21 DEF Clear, Cache!Forget
<1>22. ASSUME Migrate PROVE Carried'
  BY <1>22 DEF Migrate
<1>23. ASSUME Restart PROVE Carried'
  BY <1>23 DEF Restart
<1>24. CASE UNCHANGED vars
  BY <1>24
<1> HIDE DEF TypeOK, Fresh, Afloat, Carried, Keys
<1> QED
  BY [Next]_vars, ServiceAssumption,
     <1>1, <1>2, <1>3, <1>4, <1>5, <1>6, <1>7, <1>8, <1>9, <1>10,
     <1>11, <1>12, <1>13, <1>14, <1>15, <1>16, <1>17, <1>18, <1>19, <1>20,
     <1>21, <1>22, <1>23, <1>24
     DEF Next, Step

\* Whoever is answered is credited with what they spent.
LEMMA CreditedPreserved ==
  ASSUME TypeOK, Fresh, Afloat, Carried, Credited, [Next]_vars
  PROVE  Credited'
<1> USE DEF TypeOK, Fresh, Afloat, Carried, Credited, EffectiveUsage, Early, NoAnswer,
       Goto, Told, Answer, Spend, vars, durable, world, cache
<1>1. ASSUME NEW r \in Requests, UnknownDatabase(r) PROVE Credited'
  BY <1>1 DEF UnknownDatabase
<1>2. ASSUME NEW r \in Requests, ReserveRaises(r) PROVE Credited'
  BY <1>2 DEF ReserveRaises
<1>3. ASSUME NEW r \in Requests, NEW q \in Questions, Refuse(r, q) PROVE Credited'
  BY <1>3 DEF Refuse
<1>4. ASSUME NEW r \in Requests, NEW q \in Questions, Admit(r, q) PROVE Credited'
  BY <1>4 DEF Admit
<1>5. ASSUME NEW r \in Requests, ReadSchema(r) PROVE Credited'
  BY <1>5 DEF ReadSchema
<1>6. ASSUME NEW r \in Requests, SchemaUnreadable(r) PROVE Credited'
  BY <1>6 DEF SchemaUnreadable
<1>7. ASSUME NEW r \in Requests, Replay(r) PROVE Credited'
  BY <1>7 DEF Replay, Cache!FromMemory
<1>8. ASSUME NEW r \in Requests, Join(r) PROVE Credited'
  BY <1>8 DEF Join, Cache!Board
<1>9. ASSUME NEW r \in Requests, Lead(r) PROVE Credited'
  BY <1>9 DEF Lead, Cache!Open
<1>10. ASSUME NEW r \in Requests, NEW result \in Result, NEW reported \in BOOLEAN,
             Run(r, result, reported)
       PROVE Credited'
  BY <1>10 DEF Run, Cache!Settle
<1>11. ASSUME NEW r \in Requests, NEW cost \in 0..MaxCost, RunRaises(r, cost)
       PROVE Credited'
  BY <1>11 DEF RunRaises, Cache!Settle
<1>12. ASSUME NEW r \in Requests, Close(r) PROVE Credited'
  BY <1>12 DEF Close, Cache!Close
<1>13. ASSUME NEW r \in Requests, Return(r) PROVE Credited'
  <2>1. /\ aboard[r] \in Requests
        /\ reply'[r].error = None
        /\ reply'[r].value = verdict[aboard[r]].value /\ reply'[r].value # None
        /\ reply'[r].hit = (r # aboard[r])
    BY <1>13, WhatIsTold DEF Return
  <2>2. aboard[r] # r => spent[r] = 0
    BY <1>13 DEF Return
  <2>3. aboard[r] = r => reply'[r].value.usage = spent[r]
    BY <2>1
  <2>4. /\ answer' = [answer EXCEPT ![r] = [value |-> reply'[r].value, hit |-> reply'[r].hit]]
        /\ spent' = spent
    BY <1>13 DEF Return
  <2>5. answer'[r].hit = (r # aboard[r]) /\ answer'[r].value = reply'[r].value
    BY <2>1, <2>4
  <2>6. spent'[r] = IF answer'[r].hit THEN 0 ELSE answer'[r].value.usage
    <3>1. CASE r = aboard[r]
      BY <2>3, <2>4, <2>5, <3>1
    <3>2. CASE r # aboard[r]
      BY <2>2, <2>4, <2>5, <3>2
    <3> QED
      BY <3>1, <3>2
  <2>7. \A s \in Requests \ {r} : answer'[s] = answer[s] /\ spent'[s] = spent[s]
    BY <2>4
  <2> QED
    BY <2>6, <2>7
<1>14. ASSUME NEW r \in Requests, Raise(r) PROVE Credited'
  BY <1>14 DEF Raise, Cache!Tell
<1>15. ASSUME NEW r \in Requests, NEW result \in Result, NEW reported \in BOOLEAN,
             Bypass(r, result, reported)
       PROVE Credited'
  BY <1>15 DEF Bypass
<1>16. ASSUME NEW r \in Requests, NEW cost \in 0..MaxCost, BypassRaises(r, cost)
       PROVE Credited'
  BY <1>16 DEF BypassRaises
<1>17. ASSUME NEW r \in Requests, Observe(r) PROVE Credited'
  BY <1>17 DEF Observe
<1>18. ASSUME NEW r \in Requests, Record(r) PROVE Credited'
  BY <1>18 DEF Record
<1>19. ASSUME NEW r \in Requests, RecordFails(r) PROVE Credited'
  BY <1>19 DEF RecordFails
<1>20. ASSUME NEW r \in Requests, Respond(r) PROVE Credited'
  BY <1>20 DEF Respond
<1>21. ASSUME Clear PROVE Credited'
  BY <1>21 DEF Clear, Cache!Forget
<1>22. ASSUME Migrate PROVE Credited'
  BY <1>22 DEF Migrate
<1>23. ASSUME Restart PROVE Credited'
  BY <1>23 DEF Restart
<1>24. CASE UNCHANGED vars
  BY <1>24
<1> HIDE DEF TypeOK, Fresh, Afloat, Carried, Credited
<1> QED
  BY [Next]_vars, ServiceAssumption,
     <1>1, <1>2, <1>3, <1>4, <1>5, <1>6, <1>7, <1>8, <1>9, <1>10,
     <1>11, <1>12, <1>13, <1>14, <1>15, <1>16, <1>17, <1>18, <1>19, <1>20,
     <1>21, <1>22, <1>23, <1>24
     DEF Next, Step

\* The history adds up.
LEMMA HistoryPreserved ==
  ASSUME TypeOK, Fresh, Counted, Answered, Credited, HistoryAddsUp, [Next]_vars
  PROVE  HistoryAddsUp'
<1> USE NoneAssumption DEF TypeOK, Fresh, Counted, Answered, Credited, HistoryAddsUp,
       Early, NoAnswer, EffectiveUsage, Responses, Goto, Told, Answer, Spend, vars, durable, world, cache
<1>1. ASSUME NEW r \in Requests, UnknownDatabase(r) PROVE HistoryAddsUp'
  BY <1>1 DEF UnknownDatabase
<1>2. ASSUME NEW r \in Requests, ReserveRaises(r) PROVE HistoryAddsUp'
  BY <1>2 DEF ReserveRaises
<1>3. ASSUME NEW r \in Requests, NEW q \in Questions, Refuse(r, q)
       PROVE HistoryAddsUp'
  BY <1>3 DEF Refuse
<1>4. ASSUME NEW r \in Requests, NEW q \in Questions, Admit(r, q)
       PROVE HistoryAddsUp'
  BY <1>4 DEF Admit
<1>5. ASSUME NEW r \in Requests, ReadSchema(r) PROVE HistoryAddsUp'
  BY <1>5 DEF ReadSchema
<1>6. ASSUME NEW r \in Requests, SchemaUnreadable(r) PROVE HistoryAddsUp'
  BY <1>6 DEF SchemaUnreadable
<1>7. ASSUME NEW r \in Requests, Replay(r) PROVE HistoryAddsUp'
  BY <1>7 DEF Replay
<1>8. ASSUME NEW r \in Requests, Join(r) PROVE HistoryAddsUp'
  BY <1>8 DEF Join
<1>9. ASSUME NEW r \in Requests, Lead(r) PROVE HistoryAddsUp'
  BY <1>9 DEF Lead
<1>10. ASSUME NEW r \in Requests, NEW result \in Result, NEW reported \in BOOLEAN,
             Run(r, result, reported)
       PROVE HistoryAddsUp'
  BY <1>10 DEF Run
<1>11. ASSUME NEW r \in Requests, NEW cost \in 0..MaxCost, RunRaises(r, cost)
       PROVE HistoryAddsUp'
  BY <1>11 DEF RunRaises
<1>12. ASSUME NEW r \in Requests, Close(r) PROVE HistoryAddsUp'
  BY <1>12 DEF Close
<1>13. ASSUME NEW r \in Requests, Return(r) PROVE HistoryAddsUp'
  BY <1>13 DEF Return
<1>14. ASSUME NEW r \in Requests, Raise(r) PROVE HistoryAddsUp'
  BY <1>14 DEF Raise
<1>15. ASSUME NEW r \in Requests, NEW result \in Result, NEW reported \in BOOLEAN,
             Bypass(r, result, reported)
       PROVE HistoryAddsUp'
  BY <1>15 DEF Bypass
<1>16. ASSUME NEW r \in Requests, NEW cost \in 0..MaxCost, BypassRaises(r, cost)
       PROVE HistoryAddsUp'
  BY <1>16 DEF BypassRaises
<1>17. ASSUME NEW r \in Requests, Observe(r) PROVE HistoryAddsUp'
  BY <1>17 DEF Observe
<1>18. ASSUME NEW r \in Requests, Record(r) PROVE HistoryAddsUp'
  BY <1>18 DEF Record
<1>19. ASSUME NEW r \in Requests, RecordFails(r) PROVE HistoryAddsUp'
  BY <1>19 DEF RecordFails
<1>20. ASSUME NEW r \in Requests, Respond(r) PROVE HistoryAddsUp'
  BY <1>20 DEF Respond
<1>21. ASSUME Clear PROVE HistoryAddsUp'
  BY <1>21 DEF Clear
<1>22. ASSUME Migrate PROVE HistoryAddsUp'
  BY <1>22 DEF Migrate
<1>23. ASSUME Restart PROVE HistoryAddsUp'
  BY <1>23 DEF Restart
<1>24. CASE UNCHANGED vars
  BY <1>24
<1> QED
  BY [Next]_vars, ServiceAssumption,
     <1>1, <1>2, <1>3, <1>4, <1>5, <1>6, <1>7, <1>8, <1>9, <1>10,
     <1>11, <1>12, <1>13, <1>14, <1>15, <1>16, <1>17, <1>18, <1>19, <1>20,
     <1>21, <1>22, <1>23, <1>24
     DEF Next, Step

\* Nothing is spent, answered or recorded before it is counted.
LEMMA CeilingPreserved ==
  ASSUME TypeOK, Fresh, Counted, NothingBehindTheCeiling, [Next]_vars
  PROVE  NothingBehindTheCeiling'
<1> USE NoneAssumption DEF TypeOK, Responses, Fresh, Counted, NothingBehindTheCeiling, Early,
       Goto, Told, Answer, Spend, vars, durable, world, cache
<1>1. ASSUME NEW r \in Requests, UnknownDatabase(r) PROVE NothingBehindTheCeiling'
  BY <1>1 DEF UnknownDatabase
<1>2. ASSUME NEW r \in Requests, ReserveRaises(r) PROVE NothingBehindTheCeiling'
  BY <1>2 DEF ReserveRaises
<1>3. ASSUME NEW r \in Requests, NEW q \in Questions, Refuse(r, q)
       PROVE NothingBehindTheCeiling'
  BY <1>3 DEF Refuse
<1>4. ASSUME NEW r \in Requests, NEW q \in Questions, Admit(r, q)
       PROVE NothingBehindTheCeiling'
  BY <1>4 DEF Admit
<1>5. ASSUME NEW r \in Requests, ReadSchema(r) PROVE NothingBehindTheCeiling'
  BY <1>5 DEF ReadSchema
<1>6. ASSUME NEW r \in Requests, SchemaUnreadable(r) PROVE NothingBehindTheCeiling'
  BY <1>6 DEF SchemaUnreadable
<1>7. ASSUME NEW r \in Requests, Replay(r) PROVE NothingBehindTheCeiling'
  BY <1>7 DEF Replay
<1>8. ASSUME NEW r \in Requests, Join(r) PROVE NothingBehindTheCeiling'
  BY <1>8 DEF Join
<1>9. ASSUME NEW r \in Requests, Lead(r) PROVE NothingBehindTheCeiling'
  BY <1>9 DEF Lead
<1>10. ASSUME NEW r \in Requests, NEW result \in Result, NEW reported \in BOOLEAN,
             Run(r, result, reported)
       PROVE NothingBehindTheCeiling'
  BY <1>10 DEF Run
<1>11. ASSUME NEW r \in Requests, NEW cost \in 0..MaxCost, RunRaises(r, cost)
       PROVE NothingBehindTheCeiling'
  BY <1>11 DEF RunRaises
<1>12. ASSUME NEW r \in Requests, Close(r) PROVE NothingBehindTheCeiling'
  BY <1>12 DEF Close
<1>13. ASSUME NEW r \in Requests, Return(r) PROVE NothingBehindTheCeiling'
  BY <1>13 DEF Return
<1>14. ASSUME NEW r \in Requests, Raise(r) PROVE NothingBehindTheCeiling'
  BY <1>14 DEF Raise
<1>15. ASSUME NEW r \in Requests, NEW result \in Result, NEW reported \in BOOLEAN,
             Bypass(r, result, reported)
       PROVE NothingBehindTheCeiling'
  BY <1>15 DEF Bypass
<1>16. ASSUME NEW r \in Requests, NEW cost \in 0..MaxCost, BypassRaises(r, cost)
       PROVE NothingBehindTheCeiling'
  BY <1>16 DEF BypassRaises
<1>17. ASSUME NEW r \in Requests, Observe(r) PROVE NothingBehindTheCeiling'
  BY <1>17 DEF Observe
<1>18. ASSUME NEW r \in Requests, Record(r) PROVE NothingBehindTheCeiling'
  BY <1>18 DEF Record
<1>19. ASSUME NEW r \in Requests, RecordFails(r) PROVE NothingBehindTheCeiling'
  BY <1>19 DEF RecordFails
<1>20. ASSUME NEW r \in Requests, Respond(r) PROVE NothingBehindTheCeiling'
  BY <1>20 DEF Respond
<1>21. ASSUME Clear PROVE NothingBehindTheCeiling'
  BY <1>21 DEF Clear
<1>22. ASSUME Migrate PROVE NothingBehindTheCeiling'
  BY <1>22 DEF Migrate
<1>23. ASSUME Restart PROVE NothingBehindTheCeiling'
  BY <1>23 DEF Restart
<1>24. CASE UNCHANGED vars
  BY <1>24
<1> QED
  BY [Next]_vars, ServiceAssumption,
     <1>1, <1>2, <1>3, <1>4, <1>5, <1>6, <1>7, <1>8, <1>9, <1>10,
     <1>11, <1>12, <1>13, <1>14, <1>15, <1>16, <1>17, <1>18, <1>19, <1>20,
     <1>21, <1>22, <1>23, <1>24
     DEF Next, Step

\* An answer matches the key it was asked under.
LEMMA AnswersPreserved ==
  ASSUME TypeOK, Fresh, Afloat, Carried, AnswersMatchTheirKey, [Next]_vars
  PROVE  AnswersMatchTheirKey'
<1> USE DEF TypeOK, Fresh, Afloat, Carried, AnswersMatchTheirKey, Key, Keys, Early, NoAnswer,
       Goto, Told, Answer, Spend, vars, durable, world, cache
<1>1. ASSUME NEW r \in Requests, UnknownDatabase(r) PROVE AnswersMatchTheirKey'
  BY <1>1 DEF UnknownDatabase
<1>2. ASSUME NEW r \in Requests, ReserveRaises(r) PROVE AnswersMatchTheirKey'
  BY <1>2 DEF ReserveRaises
<1>3. ASSUME NEW r \in Requests, NEW q \in Questions, Refuse(r, q)
       PROVE AnswersMatchTheirKey'
  BY <1>3 DEF Refuse
<1>4. ASSUME NEW r \in Requests, NEW q \in Questions, Admit(r, q)
       PROVE AnswersMatchTheirKey'
  BY <1>4 DEF Admit
<1>5. ASSUME NEW r \in Requests, ReadSchema(r) PROVE AnswersMatchTheirKey'
  BY <1>5 DEF ReadSchema
<1>6. ASSUME NEW r \in Requests, SchemaUnreadable(r) PROVE AnswersMatchTheirKey'
  BY <1>6 DEF SchemaUnreadable
<1>7. ASSUME NEW r \in Requests, Replay(r) PROVE AnswersMatchTheirKey'
  BY <1>7 DEF Replay, Cache!FromMemory
<1>8. ASSUME NEW r \in Requests, Join(r) PROVE AnswersMatchTheirKey'
  BY <1>8 DEF Join, Cache!Board
<1>9. ASSUME NEW r \in Requests, Lead(r) PROVE AnswersMatchTheirKey'
  BY <1>9 DEF Lead, Cache!Open
<1>10. ASSUME NEW r \in Requests, NEW result \in Result, NEW reported \in BOOLEAN,
             Run(r, result, reported)
       PROVE AnswersMatchTheirKey'
  BY <1>10 DEF Run, Cache!Settle
<1>11. ASSUME NEW r \in Requests, NEW cost \in 0..MaxCost, RunRaises(r, cost)
       PROVE AnswersMatchTheirKey'
  BY <1>11 DEF RunRaises, Cache!Settle
<1>12. ASSUME NEW r \in Requests, Close(r) PROVE AnswersMatchTheirKey'
  BY <1>12 DEF Close, Cache!Close
<1>13. ASSUME NEW r \in Requests, Return(r) PROVE AnswersMatchTheirKey'
  <2>1. /\ aboard[r] \in Requests /\ asked[r] # None
        /\ asked[aboard[r]] = asked[r] /\ reply'[r].error = None
        /\ reply'[r].value = verdict[aboard[r]].value /\ reply'[r].value # None
    BY <1>13, WhatIsTold DEF Return
  <2>2. reply'[r].value.prompt = read[aboard[r]] /\ read[aboard[r]] = read[r]
    BY <2>1
  <2> QED
    BY <1>13, <2>1, <2>2 DEF Return
<1>14. ASSUME NEW r \in Requests, Raise(r) PROVE AnswersMatchTheirKey'
  BY <1>14 DEF Raise, Cache!Tell
<1>15. ASSUME NEW r \in Requests, NEW result \in Result, NEW reported \in BOOLEAN,
             Bypass(r, result, reported)
       PROVE AnswersMatchTheirKey'
  BY <1>15 DEF Bypass
<1>16. ASSUME NEW r \in Requests, NEW cost \in 0..MaxCost, BypassRaises(r, cost)
       PROVE AnswersMatchTheirKey'
  BY <1>16 DEF BypassRaises
<1>17. ASSUME NEW r \in Requests, Observe(r) PROVE AnswersMatchTheirKey'
  BY <1>17 DEF Observe
<1>18. ASSUME NEW r \in Requests, Record(r) PROVE AnswersMatchTheirKey'
  BY <1>18 DEF Record
<1>19. ASSUME NEW r \in Requests, RecordFails(r) PROVE AnswersMatchTheirKey'
  BY <1>19 DEF RecordFails
<1>20. ASSUME NEW r \in Requests, Respond(r) PROVE AnswersMatchTheirKey'
  BY <1>20 DEF Respond
<1>21. ASSUME Clear PROVE AnswersMatchTheirKey'
  BY <1>21 DEF Clear, Cache!Forget
<1>22. ASSUME Migrate PROVE AnswersMatchTheirKey'
  BY <1>22 DEF Migrate
<1>23. ASSUME Restart PROVE AnswersMatchTheirKey'
  BY <1>23 DEF Restart
<1>24. CASE UNCHANGED vars
  BY <1>24
<1> QED
  BY [Next]_vars, ServiceAssumption,
     <1>1, <1>2, <1>3, <1>4, <1>5, <1>6, <1>7, <1>8, <1>9, <1>10,
     <1>11, <1>12, <1>13, <1>14, <1>15, <1>16, <1>17, <1>18, <1>19, <1>20,
     <1>21, <1>22, <1>23, <1>24
     DEF Next, Step

----------------------------------------------------------------------------
(* The theorems.                                                           *)

\* The strengthening that is inductive.
LEMMA Invariant == Spec => []IInv
<1>1. Init => IInv
  BY ServiceAssumption, NoneAssumption
     DEF Init, IInv, TypeOK, Counted, Fresh, Answered, Afloat, Carried, Credited,
         HistoryAddsUp, NothingBehindTheCeiling, AnswersMatchTheirKey, Sites, Responses,
         NoAnswer, Versions, Early, Cache!Init, Cache!Verdicts, Cache!Unsettled,
         Cache!Untold
<1>2. IInv /\ [Next]_vars => IInv'
  BY TypePreserved, CountedPreserved, FreshPreserved, AnsweredPreserved, AfloatPreserved,
     CarriedPreserved, CreditedPreserved, HistoryPreserved, CeilingPreserved,
     AnswersPreserved DEF IInv
<1> QED
  BY <1>1, <1>2, PTL DEF Spec

\* ask() never leaves the states its declarations describe: every row of the
\* history carries a usage of its own, whatever the cache answered.
THEOREM TypeCorrect == Spec => []TypeOK
  BY Invariant, PTL DEF IInv

\* The rows of the history add up to what was spent, for any mixture of
\* hits, coalesced answers, failures, lost writes and restarts.
THEOREM TheHistoryAddsUp == Spec => []HistoryAddsUp
  BY Invariant, PTL DEF IInv

\* The agent is never used, and no answer or row is given, for a request the
\* daily ledger has not counted.
THEOREM TheCeilingComesFirst == Spec => []NothingBehindTheCeiling
  BY Invariant, PTL DEF IInv

\* A kept or shared answer was computed under the schema of its key.
THEOREM AnswersMatch == Spec => []AnswersMatchTheirKey
  BY Invariant, PTL DEF IInv

\* A failure is never answered from memory.
THEOREM NoFailureIsReplayed == Spec => FailuresAreNotReplayed
<1>1. IInv /\ [Next]_vars =>
        \A r \in Requests :
          at[r] = "asking" /\ at'[r] = "observing" => answer'[r].value.ok
  <2> SUFFICES ASSUME IInv, [Next]_vars, NEW r \in Requests,
                      at[r] = "asking", at'[r] = "observing"
               PROVE  answer'[r].value.ok
    OBVIOUS
  <2>1. Replay(r)
    <3>1. TypeOK
      BY DEF IInv
    <3>2. PICK s \in Requests : Step(s)
      BY <3>1 DEF TypeOK, Next, vars, Goto, UnknownDatabase, ReserveRaises, Refuse,
                  Admit, Clear, Migrate, Restart
    <3>3. s = r
      BY <3>1, <3>2 DEF TypeOK, Step, Goto, ReadSchema, SchemaUnreadable, Replay, Join,
                  Lead, Run, RunRaises, Close, Return, Raise, Bypass, BypassRaises,
                  Observe, Record, RecordFails, Respond
    <3> QED
      BY <3>1, <3>2, <3>3 DEF TypeOK, Step, Goto, ReadSchema, SchemaUnreadable, Join,
                  Lead, Run, RunRaises, Close, Return, Raise, Bypass, BypassRaises,
                  Observe, Record, RecordFails, Respond
  <2>2. Key(r) \in Keys /\ memory[Key(r)].ok
    BY <2>1 DEF IInv, Afloat, Carried, Replay, Goto, Cache!FromMemory
  <2> QED
    BY <2>1, <2>2 DEF IInv, TypeOK, Replay, Answer
<1> QED
  BY <1>1, Invariant, PTL DEF Spec, FailuresAreNotReplayed

----------------------------------------------------------------------------
(* The cache as it is used.                                                *)

\* A flight is open exactly while its leader computes and closes, and whoever
\* waits is aboard one that is open or has been settled.
Flown ==
  /\ \A k \in Keys : flight[k] # None =>
       at[flight[k]] \in {"computing", "closing"} /\ asked[flight[k]] = k
  /\ \A r \in Requests :
       /\ at[r] \in Early \cup {"closing", "waiting"} => reply[r] = Cache!Untold
       /\ at[r] \in {"computing", "closing"} =>
            /\ asked[r] \in Keys /\ flight[asked[r]] = r /\ aboard[r] = r
            /\ verdict[r] # Cache!Unsettled <=> at[r] = "closing"
       /\ at[r] = "waiting" =>
            /\ asked[r] \in Keys /\ aboard[r] \in Requests /\ asked[aboard[r]] = asked[r]
            /\ \/ at[aboard[r]] \in {"computing", "closing"}
               \/ verdict[aboard[r]] # Cache!Unsettled

\* Settling a flight keeps it open.
LEMMA SettlingKeepsFlown ==
  ASSUME TypeOK, Flown, NEW r \in Requests, NEW out, out # Cache!Unsettled,
         Goto(r, "computing", "closing"), verdict' = [verdict EXCEPT ![r] = out],
         UNCHANGED <<asked, aboard, flight, reply>>
  PROVE  Flown'
<1> USE DEF TypeOK, Flown, Goto, Early
<1>1. /\ at[r] = "computing" /\ at'[r] = "closing" /\ verdict'[r] # Cache!Unsettled
      /\ \A s \in Requests \ {r} : at'[s] = at[s] /\ verdict'[s] = verdict[s]
  OBVIOUS
<1> HIDE DEF TypeOK, Goto
<1>2. \A k \in Keys : flight'[k] # None =>
        at'[flight'[k]] \in {"computing", "closing"} /\ asked'[flight'[k]] = k
  <2> SUFFICES ASSUME NEW k \in Keys, flight[k] # None
               PROVE  at'[flight[k]] \in {"computing", "closing"} /\ asked[flight[k]] = k
    OBVIOUS
  <2>1. flight[k] \in Requests
    BY DEF TypeOK
  <2> QED
    BY <1>1, <2>1
<1> QED
  BY <1>1, <1>2

\* No step leaves a flight without its leader, or a waiting request without one.
LEMMA FlownPreserved ==
  ASSUME TypeOK, Afloat, Flown, [Next]_vars
  PROVE  Flown'
<1> USE DEF TypeOK, Afloat, Flown, Early, Keys, Cache!Unsettled, Cache!Untold,
       Goto, Told, Answer, Spend, vars, durable, world, cache
<1>1. ASSUME NEW r \in Requests, UnknownDatabase(r) PROVE Flown'
  BY <1>1 DEF UnknownDatabase
<1>2. ASSUME NEW r \in Requests, ReserveRaises(r) PROVE Flown'
  BY <1>2 DEF ReserveRaises
<1>3. ASSUME NEW r \in Requests, NEW q \in Questions, Refuse(r, q) PROVE Flown'
  BY <1>3 DEF Refuse
<1>4. ASSUME NEW r \in Requests, NEW q \in Questions, Admit(r, q) PROVE Flown'
  BY <1>4 DEF Admit
<1>5. ASSUME NEW r \in Requests, ReadSchema(r) PROVE Flown'
  BY <1>5 DEF ReadSchema
<1>6. ASSUME NEW r \in Requests, SchemaUnreadable(r) PROVE Flown'
  BY <1>6 DEF SchemaUnreadable
<1>7. ASSUME NEW r \in Requests, Replay(r) PROVE Flown'
  BY <1>7 DEF Replay, Cache!FromMemory
<1>8. ASSUME NEW r \in Requests, Join(r) PROVE Flown'
  BY <1>8 DEF Join, Cache!Board
<1>9. ASSUME NEW r \in Requests, Lead(r) PROVE Flown'
  <2> DEFINE k == Key(r)
  <2>1. /\ at[r] = "asking" /\ at' = [at EXCEPT ![r] = "computing"] /\ k \in Keys
        /\ asked[r] = None /\ verdict[r] = Cache!Unsettled /\ flight[k] = None
        /\ asked' = [asked EXCEPT ![r] = k] /\ aboard' = [aboard EXCEPT ![r] = r]
        /\ flight' = [flight EXCEPT ![k] = r] /\ UNCHANGED <<verdict, reply>>
    BY <1>9 DEF Lead, Cache!Open
  <2> HIDE DEF k
  <2>2. /\ at'[r] = "computing" /\ asked'[r] = k /\ aboard'[r] = r /\ flight'[k] = r
        /\ \A s \in Requests \ {r} :
             at'[s] = at[s] /\ asked'[s] = asked[s] /\ aboard'[s] = aboard[s]
        /\ \A j \in Keys \ {k} : flight'[j] = flight[j]
    BY <2>1
  <2>3. \A j \in Keys : flight'[j] # None =>
          at'[flight'[j]] \in {"computing", "closing"} /\ asked'[flight'[j]] = j
    <3> SUFFICES ASSUME NEW j \in Keys, flight'[j] # None
                 PROVE  at'[flight'[j]] \in {"computing", "closing"} /\ asked'[flight'[j]] = j
      OBVIOUS
    <3>1. CASE j = k
      BY <2>2, <3>1
    <3>2. CASE j # k
      BY <2>1, <2>2, <3>2
    <3> QED
      BY <3>1, <3>2
  <2>4. \A s \in Requests : at'[s] \in {"computing", "closing"} =>
          /\ asked'[s] \in Keys /\ flight'[asked'[s]] = s /\ aboard'[s] = s
          /\ verdict'[s] # Cache!Unsettled <=> at'[s] = "closing"
    <3> SUFFICES ASSUME NEW s \in Requests, s # r, at'[s] \in {"computing", "closing"}
                 PROVE  /\ asked'[s] \in Keys /\ flight'[asked'[s]] = s /\ aboard'[s] = s
                        /\ verdict'[s] # Cache!Unsettled <=> at'[s] = "closing"
      BY <2>1, <2>2
    <3>1. s # None /\ asked[s] \in Keys /\ flight[asked[s]] = s
      BY <2>2, ServiceAssumption
    <3>2. asked[s] # k
      BY <2>1, <3>1
    <3> QED
      BY <2>1, <2>2, <3>1, <3>2
  <2>5. \A s \in Requests : at'[s] = "waiting" =>
          /\ asked'[s] \in Keys /\ aboard'[s] \in Requests /\ asked'[aboard'[s]] = asked'[s]
          /\ \/ at'[aboard'[s]] \in {"computing", "closing"}
             \/ verdict'[aboard'[s]] # Cache!Unsettled
    <3> SUFFICES ASSUME NEW s \in Requests, s # r, at'[s] = "waiting"
                 PROVE  /\ asked'[s] \in Keys /\ aboard'[s] \in Requests
                        /\ asked'[aboard'[s]] = asked'[s]
                        /\ \/ at'[aboard'[s]] \in {"computing", "closing"}
                           \/ verdict'[aboard'[s]] # Cache!Unsettled
      BY <2>2
    <3>1. aboard[s] # r
      BY <2>1, <2>2
    <3> QED
      BY <2>1, <2>2, <3>1
  <2>6. \A s \in Requests : at'[s] \in Early \cup {"closing", "waiting"} =>
          reply'[s] = Cache!Untold
    <3> SUFFICES ASSUME NEW s \in Requests, at'[s] \in Early \cup {"closing", "waiting"}
                 PROVE  reply[s] = Cache!Untold
      BY <2>1
    <3> QED
      BY <2>1, <2>2
  <2> QED
    BY <2>3, <2>4, <2>5, <2>6
<1>10. ASSUME NEW r \in Requests, NEW result \in Result, NEW reported \in BOOLEAN,
             Run(r, result, reported)
       PROVE Flown'
  <2> DEFINE out == [value |-> result, error |-> None]
  <2>1. /\ Goto(r, "computing", "closing") /\ verdict' = [verdict EXCEPT ![r] = out]
        /\ out # Cache!Unsettled /\ UNCHANGED <<asked, aboard, flight, reply>>
    BY <1>10 DEF Run, Cache!Settle
  <2> HIDE DEF out
  <2> QED
    BY <2>1, SettlingKeepsFlown
<1>11. ASSUME NEW r \in Requests, NEW cost \in 0..MaxCost, RunRaises(r, cost)
       PROVE Flown'
  <2> DEFINE out == [value |-> None, error |-> "raised"]
  <2>1. /\ Goto(r, "computing", "closing") /\ verdict' = [verdict EXCEPT ![r] = out]
        /\ out # Cache!Unsettled /\ UNCHANGED <<asked, aboard, flight, reply>>
    BY <1>11 DEF RunRaises, Cache!Settle
  <2> HIDE DEF out
  <2> QED
    BY <2>1, SettlingKeepsFlown
<1>12. ASSUME NEW r \in Requests, Close(r) PROVE Flown'
  <2>1. /\ at[r] = "closing" /\ at' = [at EXCEPT ![r] = "waiting"]
        /\ flight[asked[r]] = r /\ flight' = [flight EXCEPT ![asked[r]] = None]
        /\ UNCHANGED <<asked, aboard, verdict, reply>>
    BY <1>12 DEF Close, Cache!Close
  <2>2. /\ at'[r] = "waiting" /\ \A s \in Requests \ {r} : at'[s] = at[s]
        /\ asked[r] \in Keys /\ aboard[r] = r /\ verdict[r] # Cache!Unsettled
        /\ flight'[asked[r]] = None
        /\ \A k \in Keys \ {asked[r]} : flight'[k] = flight[k]
    BY <2>1
  <2>3. \A k \in Keys : flight'[k] # None =>
          at'[flight'[k]] \in {"computing", "closing"} /\ asked'[flight'[k]] = k
    <3> SUFFICES ASSUME NEW k \in Keys, flight'[k] # None
                 PROVE  at'[flight'[k]] \in {"computing", "closing"} /\ asked'[flight'[k]] = k
      OBVIOUS
    <3>1. /\ k # asked[r] /\ flight'[k] = flight[k] /\ flight[k] \in Requests
          /\ asked[flight[k]] = k
      BY <2>2
    <3> QED
      BY <2>1, <2>2, <3>1
  <2>4. \A s \in Requests : at'[s] \in {"computing", "closing"} =>
          /\ asked'[s] \in Keys /\ flight'[asked'[s]] = s /\ aboard'[s] = s
          /\ verdict'[s] # Cache!Unsettled <=> at'[s] = "closing"
    <3> SUFFICES ASSUME NEW s \in Requests, at'[s] \in {"computing", "closing"}
                 PROVE  /\ asked[s] \in Keys /\ flight'[asked[s]] = s /\ aboard[s] = s
                        /\ verdict[s] # Cache!Unsettled <=> at'[s] = "closing"
      BY <2>1
    <3>1. s # r /\ at'[s] = at[s] /\ asked[s] \in Keys /\ flight[asked[s]] = s
      BY <2>2
    <3>2. asked[s] # asked[r]
      BY <2>1, <3>1
    <3> QED
      BY <2>2, <3>1, <3>2
  <2>5. \A s \in Requests : at'[s] = "waiting" =>
          /\ asked'[s] \in Keys /\ aboard'[s] \in Requests /\ asked'[aboard'[s]] = asked'[s]
          /\ \/ at'[aboard'[s]] \in {"computing", "closing"}
             \/ verdict'[aboard'[s]] # Cache!Unsettled
    <3> SUFFICES ASSUME NEW s \in Requests, at'[s] = "waiting"
                 PROVE  /\ asked[s] \in Keys /\ aboard[s] \in Requests
                        /\ asked[aboard[s]] = asked[s]
                        /\ \/ at'[aboard[s]] \in {"computing", "closing"}
                           \/ verdict[aboard[s]] # Cache!Unsettled
      BY <2>1
    <3>1. CASE s = r
      BY <2>2, <3>1
    <3>2. CASE s # r
      <4>1. at[s] = "waiting"
        BY <2>2, <3>2
      <4> QED
        BY <2>2, <4>1
    <3> QED
      BY <3>1, <3>2
  <2>6. \A s \in Requests : at'[s] \in Early \cup {"closing", "waiting"} =>
          reply'[s] = Cache!Untold
    <3> SUFFICES ASSUME NEW s \in Requests, at'[s] \in Early \cup {"closing", "waiting"}
                 PROVE  reply[s] = Cache!Untold
      BY <2>1
    <3> QED
      BY <2>1, <2>2
  <2> QED
    BY <2>3, <2>4, <2>5, <2>6
<1>13. ASSUME NEW r \in Requests, Return(r) PROVE Flown'
  BY <1>13 DEF Return, Cache!Tell
<1>14. ASSUME NEW r \in Requests, Raise(r) PROVE Flown'
  BY <1>14 DEF Raise, Cache!Tell
<1>15. ASSUME NEW r \in Requests, NEW result \in Result, NEW reported \in BOOLEAN,
             Bypass(r, result, reported)
       PROVE Flown'
  BY <1>15 DEF Bypass
<1>16. ASSUME NEW r \in Requests, NEW cost \in 0..MaxCost, BypassRaises(r, cost)
       PROVE Flown'
  BY <1>16 DEF BypassRaises
<1>17. ASSUME NEW r \in Requests, Observe(r) PROVE Flown'
  BY <1>17 DEF Observe
<1>18. ASSUME NEW r \in Requests, Record(r) PROVE Flown'
  BY <1>18 DEF Record
<1>19. ASSUME NEW r \in Requests, RecordFails(r) PROVE Flown'
  BY <1>19 DEF RecordFails
<1>20. ASSUME NEW r \in Requests, Respond(r) PROVE Flown'
  BY <1>20 DEF Respond
<1>21. ASSUME Clear PROVE Flown'
  BY <1>21 DEF Clear, Cache!Forget
<1>22. ASSUME Migrate PROVE Flown'
  BY <1>22 DEF Migrate
<1>23. ASSUME Restart PROVE Flown'
  BY <1>23 DEF Restart
<1>24. CASE UNCHANGED vars
  BY <1>24
<1> HIDE DEF TypeOK, Afloat, Flown, Keys
<1> QED
  BY [Next]_vars, ServiceAssumption,
     <1>1, <1>2, <1>3, <1>4, <1>5, <1>6, <1>7, <1>8, <1>9, <1>10,
     <1>11, <1>12, <1>13, <1>14, <1>15, <1>16, <1>17, <1>18, <1>19, <1>20,
     <1>21, <1>22, <1>23, <1>24
     DEF Next, Step

\* Nobody waits for a request that has left: its leader is still to land, or
\* has landed, and then nothing is left to wait for.
THEOREM NobodyWaitsForNobody == Spec => []NobodyIsStranded
<1>1. Init => Flown
  BY ServiceAssumption DEF Init, Flown, Cache!Init, Early
<1>2. IInv /\ Flown /\ [Next]_vars => Flown'
  BY FlownPreserved DEF IInv
<1>3. IInv /\ Flown => NobodyIsStranded
  <2> SUFFICES ASSUME IInv, Flown, NEW r \in Requests, at[r] = "waiting",
                      ~(aboard[r] # r /\ at[aboard[r]] \in {"computing", "closing"})
               PROVE  /\ verdict[aboard[r]] # Cache!Unsettled
                      /\ asked[aboard[r]] = asked[r]
                      /\ flight[asked[r]] # aboard[r] /\ reply[r] = Cache!Untold
    BY DEF NobodyIsStranded
  <2>1. /\ asked[r] \in Keys /\ aboard[r] \in Requests /\ asked[aboard[r]] = asked[r]
        /\ reply[r] = Cache!Untold /\ at[aboard[r]] \notin {"computing", "closing"}
        /\ verdict[aboard[r]] # Cache!Unsettled
    BY DEF Flown
  <2>2. flight[asked[r]] # aboard[r]
    BY <2>1, ServiceAssumption DEF Flown
  <2> QED
    BY <2>1, <2>2
<1> QED
  BY <1>1, <1>2, <1>3, Invariant, PTL DEF Spec

----------------------------------------------------------------------------
(* What becomes of the docstring of quota.observe.                         *)

\* A snapshot was taken and has not been handed over.
Unobserved(r) == at[r] \in {"closing", "waiting", "observing"} /\ reading[r] # 0

OneReadingAtATime ==
  \A r, s \in Requests : Unobserved(r) /\ Unobserved(s) => r = s

\* A snapshot that is on its way is the latest there is, and will arrive.
Recent ==
  \A r \in Requests :
    /\ reading[r] <= clock
    /\ at[r] \in Early => reading[r] = 0
    /\ Unobserved(r) => reading[r] = clock
    /\ at[r] \in {"closing", "waiting"} /\ reading[r] # 0 =>
         aboard[r] = r /\ verdict[r].error = None
    /\ at[r] \in {"recording", "responding", "done"} => reading[r] <= quota

\* Short of a restart, a step with one snapshot on its way keeps that.
LEMMA RecentPreserved ==
  ASSUME TypeOK, Afloat, Flown, Recent, OneReadingAtATime', restarts' = restarts, [Next]_vars
  PROVE  Recent'
<1> USE DEF TypeOK, Recent, Unobserved, Early, Cache!Unsettled,
       Goto, Told, Answer, Spend, vars, durable, world, cache
<1>1. ASSUME NEW r \in Requests, UnknownDatabase(r) PROVE Recent'
  BY <1>1 DEF UnknownDatabase
<1>2. ASSUME NEW r \in Requests, ReserveRaises(r) PROVE Recent'
  BY <1>2 DEF ReserveRaises
<1>3. ASSUME NEW r \in Requests, NEW q \in Questions, Refuse(r, q) PROVE Recent'
  BY <1>3 DEF Refuse
<1>4. ASSUME NEW r \in Requests, NEW q \in Questions, Admit(r, q) PROVE Recent'
  BY <1>4 DEF Admit
<1>5. ASSUME NEW r \in Requests, ReadSchema(r) PROVE Recent'
  BY <1>5 DEF ReadSchema
<1>6. ASSUME NEW r \in Requests, SchemaUnreadable(r) PROVE Recent'
  BY <1>6 DEF SchemaUnreadable
<1>7. ASSUME NEW r \in Requests, Replay(r) PROVE Recent'
  BY <1>7 DEF Replay, Cache!FromMemory
<1>8. ASSUME NEW r \in Requests, Join(r) PROVE Recent'
  BY <1>8 DEF Join, Cache!Board
<1>9. ASSUME NEW r \in Requests, Lead(r) PROVE Recent'
  BY <1>9 DEF Lead, Cache!Open
<1>10. ASSUME NEW r \in Requests, NEW result \in Result, NEW reported \in BOOLEAN,
             Run(r, result, reported)
       PROVE Recent'
  <2> DEFINE new == IF reported THEN clock + 1 ELSE 0
  <2>1. /\ at[r] = "computing" /\ at' = [at EXCEPT ![r] = "closing"] /\ reading[r] = 0
        /\ reading' = [reading EXCEPT ![r] = new]
        /\ clock' = (IF reported THEN clock + 1 ELSE clock)
        /\ verdict' = [verdict EXCEPT ![r] = [value |-> result, error |-> None]]
        /\ UNCHANGED <<aboard, quota>>
    BY <1>10 DEF Run, Cache!Settle
  <2>2. aboard[r] = r
    BY <2>1 DEF Flown
  <2>3. \A s \in Requests \ {r} : reported => ~Unobserved(s)
    <3> SUFFICES ASSUME NEW s \in Requests, s # r, reported, Unobserved(s) PROVE FALSE
      OBVIOUS
    <3>1. Unobserved(r)' /\ Unobserved(s)'
      BY <2>1
    <3> QED
      BY <3>1 DEF OneReadingAtATime
  <2>4. ASSUME NEW s \in Requests, s # r
        PROVE  /\ at'[s] = at[s] /\ reading'[s] = reading[s] /\ verdict'[s] = verdict[s]
               /\ reading[s] <= clock' /\ (Unobserved(s) => reading[s] = clock')
    BY <2>1, <2>3, <2>4
  <2>5. /\ at'[r] = "closing" /\ reading'[r] = new /\ verdict'[r].error = None
        /\ new <= clock' /\ (new # 0 => new = clock')
    BY <2>1
  <2> QED
    BY <2>1, <2>2, <2>4, <2>5
<1>11. ASSUME NEW r \in Requests, NEW cost \in 0..MaxCost, RunRaises(r, cost)
       PROVE Recent'
  <2>1. /\ at[r] = "computing" /\ at' = [at EXCEPT ![r] = "closing"] /\ reading[r] = 0
        /\ reading' = [reading EXCEPT ![r] = 0]
        /\ verdict' = [verdict EXCEPT ![r] = [value |-> None, error |-> "raised"]]
        /\ UNCHANGED <<aboard, quota, clock>>
    BY <1>11 DEF RunRaises, Cache!Settle
  <2>2. ASSUME NEW s \in Requests, s # r
        PROVE  at'[s] = at[s] /\ reading'[s] = reading[s] /\ verdict'[s] = verdict[s]
    BY <2>1, <2>2
  <2>3. at'[r] = "closing" /\ reading'[r] = 0
    BY <2>1
  <2> QED
    BY <2>1, <2>2, <2>3
<1>12. ASSUME NEW r \in Requests, Close(r) PROVE Recent'
  BY <1>12 DEF Close, Cache!Close
<1>13. ASSUME NEW r \in Requests, Return(r) PROVE Recent'
  BY <1>13 DEF Return, Cache!Tell
<1>14. ASSUME NEW r \in Requests, Raise(r) PROVE Recent'
  <2>1. /\ at[r] = "waiting" /\ at' = [at EXCEPT ![r] = "done"]
        /\ UNCHANGED <<reading, clock, quota, aboard, verdict>> /\ Cache!Tell(r)
        /\ reply'[r].error # None
    BY <1>14 DEF Raise, Cache!Tell
  <2>2. verdict[aboard[r]].error # None
    BY <2>1 DEF Cache!Tell
  <2>3. reading[r] = 0
    BY <2>1, <2>2
  <2> QED
    BY <2>1, <2>3
<1>15. ASSUME NEW r \in Requests, NEW result \in Result, NEW reported \in BOOLEAN,
             Bypass(r, result, reported)
       PROVE Recent'
  <2> DEFINE new == IF reported THEN clock + 1 ELSE 0
  <2>1. /\ at[r] = "bypassing" /\ at' = [at EXCEPT ![r] = "observing"] /\ reading[r] = 0
        /\ reading' = [reading EXCEPT ![r] = new]
        /\ clock' = (IF reported THEN clock + 1 ELSE clock)
        /\ UNCHANGED <<aboard, verdict, quota>>
    BY <1>15 DEF Bypass
  <2>2. \A s \in Requests \ {r} : reported => ~Unobserved(s)
    <3> SUFFICES ASSUME NEW s \in Requests, s # r, reported, Unobserved(s) PROVE FALSE
      OBVIOUS
    <3>1. Unobserved(r)' /\ Unobserved(s)'
      BY <2>1
    <3> QED
      BY <3>1 DEF OneReadingAtATime
  <2>3. ASSUME NEW s \in Requests, s # r
        PROVE  /\ at'[s] = at[s] /\ reading'[s] = reading[s]
               /\ reading[s] <= clock' /\ (Unobserved(s) => reading[s] = clock')
    BY <2>1, <2>2, <2>3
  <2>4. /\ at'[r] = "observing" /\ reading'[r] = new
        /\ new <= clock' /\ (new # 0 => new = clock')
    BY <2>1
  <2> QED
    BY <2>1, <2>3, <2>4
<1>16. ASSUME NEW r \in Requests, NEW cost \in 0..MaxCost, BypassRaises(r, cost)
       PROVE Recent'
  BY <1>16 DEF BypassRaises
<1>17. ASSUME NEW r \in Requests, Observe(r) PROVE Recent'
  BY <1>17 DEF Observe
<1>18. ASSUME NEW r \in Requests, Record(r) PROVE Recent'
  BY <1>18 DEF Record
<1>19. ASSUME NEW r \in Requests, RecordFails(r) PROVE Recent'
  BY <1>19 DEF RecordFails
<1>20. ASSUME NEW r \in Requests, Respond(r) PROVE Recent'
  BY <1>20 DEF Respond
<1>21. ASSUME Clear PROVE Recent'
  BY <1>21 DEF Clear, Cache!Forget
<1>22. ASSUME Migrate PROVE Recent'
  BY <1>22 DEF Migrate
<1>23. ASSUME Restart PROVE Recent'
  BY <1>23 DEF Restart
<1>24. CASE UNCHANGED vars
  BY <1>24
<1> HIDE DEF TypeOK, Recent
<1> QED
  BY [Next]_vars, ServiceAssumption,
     <1>1, <1>2, <1>3, <1>4, <1>5, <1>6, <1>7, <1>8, <1>9, <1>10,
     <1>11, <1>12, <1>13, <1>14, <1>15, <1>16, <1>17, <1>18, <1>19, <1>20,
     <1>21, <1>22, <1>23, <1>24
     DEF Next, Step

\* quota keeps the most recent snapshot, as its docstring says, in every
\* execution in which no two requests have one on its way at once and the
\* process lives: that snapshots overtake each other is all that is wrong.
THEOREM QuotaWithoutOvertaking ==
  Spec /\ []OneReadingAtATime /\ [](restarts = 0) => []QuotaIsTheMostRecent
<1>1. Init => Flown /\ Recent
  BY ServiceAssumption DEF Init, Flown, Recent, Unobserved, Cache!Init, Early
<1>2. IInv /\ Flown /\ [Next]_vars => Flown'
  BY FlownPreserved DEF IInv
<1>3. /\ IInv /\ Flown /\ Recent /\ [Next]_vars
      /\ OneReadingAtATime' /\ restarts = 0 /\ (restarts = 0)'
      => Recent'
  BY RecentPreserved DEF IInv
<1>4. Recent /\ IInv => QuotaIsTheMostRecent
  BY DEF Recent, QuotaIsTheMostRecent, IInv, TypeOK
<1> QED
  BY <1>1, <1>2, <1>3, <1>4, Invariant, PTL DEF Spec

----------------------------------------------------------------------------
(* How the endpoint uses the cache, and how far a request has to go.       *)

\* Between restarts the cache is used by its operations alone, in the order
\* and under the conditions SingleFlight states; a restart begins it anew.
Anew == restarts' = restarts + 1 /\ Cache!Init'
CacheUsedAsPromised == Cache!Init /\ [][Cache!Next \/ Anew]_cache

\* An operation of the cache leaves the guard of ask() as the code has it.
LEMMA UseIsPromised ==
  ASSUME TypeOK, Afloat, [Next]_vars
  PROVE  [Cache!Next \/ Anew]_cache
<1>1. ASSUME NEW r \in Requests, at[r] = "asking"
      PROVE  Key(r) \in Keys
  BY <1>1 DEF Afloat
<1>2. ASSUME NEW r \in Requests,
             \/ UnknownDatabase(r) \/ ReserveRaises(r) \/ ReadSchema(r) \/ SchemaUnreadable(r)
             \/ Observe(r) \/ Record(r) \/ RecordFails(r) \/ Respond(r)
      PROVE  UNCHANGED cache
  BY <1>2 DEF UnknownDatabase, ReserveRaises, ReadSchema, SchemaUnreadable,
              Observe, Record, RecordFails, Respond
<1>3. ASSUME NEW r \in Requests, NEW q \in Questions, Refuse(r, q) \/ Admit(r, q)
      PROVE  UNCHANGED cache
  BY <1>3 DEF Refuse, Admit
<1>4. ASSUME NEW r \in Requests, Replay(r) \/ Join(r) \/ Lead(r)
      PROVE  Cache!Next
  <2>1. Key(r) \in Keys
    BY <1>1, <1>4 DEF Replay, Join, Lead, Goto
  <2>2. Cache!FromMemory(r, Key(r)) \/ Cache!Board(r, Key(r)) \/ Cache!Open(r, Key(r))
    BY <1>4 DEF Replay, Join, Lead
  <2> QED
    BY <2>1, <2>2 DEF Cache!Next
<1>5. ASSUME NEW r \in Requests, NEW result \in Result, NEW reported \in Telemetry,
             Run(r, result, reported)
      PROVE  Cache!Next
  <2>1. [value |-> result, error |-> None] \in Cache!Verdicts
    BY DEF Cache!Verdicts
  <2>2. Cache!Settle(r, [value |-> result, error |-> None])
    BY <1>5 DEF Run
  <2> QED
    BY <2>1, <2>2 DEF Cache!Next
<1>6. ASSUME NEW r \in Requests, NEW cost \in 0..MaxCost, RunRaises(r, cost)
      PROVE  Cache!Next
  <2>1. [value |-> None, error |-> "raised"] \in Cache!Verdicts
    BY DEF Cache!Verdicts
  <2>2. Cache!Settle(r, [value |-> None, error |-> "raised"])
    BY <1>6 DEF RunRaises
  <2> QED
    BY <2>1, <2>2 DEF Cache!Next
<1>7. ASSUME NEW r \in Requests, NEW result \in Result, NEW reported \in Telemetry,
             Bypass(r, result, reported)
      PROVE  UNCHANGED cache
  BY <1>7 DEF Bypass
<1>8. ASSUME NEW r \in Requests, NEW cost \in 0..MaxCost, BypassRaises(r, cost)
      PROVE  UNCHANGED cache
  BY <1>8 DEF BypassRaises
<1>9. ASSUME NEW r \in Requests, Close(r) \/ Return(r) \/ Raise(r)
      PROVE  Cache!Next
  BY <1>9 DEF Close, Return, Raise, Cache!Next
<1>10. CASE Clear
  BY <1>10 DEF Clear, Cache!Next
<1>11. CASE Migrate \/ UNCHANGED vars
  BY <1>11 DEF Migrate, vars
<1>12. CASE Restart
  BY <1>12 DEF Restart, Anew, Cache!Init
<1> QED
  BY <1>2, <1>3, <1>4, <1>5, <1>6, <1>7, <1>8, <1>9, <1>10, <1>11, <1>12
     DEF Next, Step

\* ask() and its callers use the answer cache as SingleFlight promises it, so
\* what AnswerCache is shown to implement is what the endpoint relies on.
THEOREM TheCacheIsUsedAsPromised == Spec => CacheUsedAsPromised
<1>1. Init => Cache!Init
  BY DEF Init
<1>2. IInv /\ [Next]_vars => [Cache!Next \/ Anew]_cache
  BY UseIsPromised DEF IInv
<1> QED
  BY <1>1, <1>2, Invariant, PTL DEF Spec, CacheUsedAsPromised

\* How far a request is from its end.
Left(r) ==
  CASE at[r] = "idle"                     -> 9
    [] at[r] = "reading"                  -> 8
    [] at[r] \in {"asking", "bypassing"}  -> 7
    [] at[r] = "computing"                -> 6
    [] at[r] = "closing"                  -> 5
    [] at[r] = "waiting"                  -> 4
    [] at[r] = "observing"                -> 3
    [] at[r] = "recording"                -> 2
    [] at[r] = "responding"               -> 1
    [] OTHER                              -> 0

\* Whoever moves, no request goes back, and a step of its own takes it on.
Onward(r) == Left(r)' <= Left(r) /\ (Step(r) => Left(r)' < Left(r))
EveryStepIsOnward == [][\A r \in Requests : Onward(r)]_vars

\* A request's own step takes it on,
LEMMA StepIsOnward ==
  ASSUME TypeOK, NEW r \in Requests, Step(r)
  PROVE  /\ Left(r)' < Left(r)
         /\ \A s \in Requests \ {r} : at'[s] = at[s]
<1> USE DEF TypeOK, Goto
<1>1. CASE ReadSchema(r) \/ SchemaUnreadable(r)
  BY <1>1 DEF ReadSchema, SchemaUnreadable, Left
<1>2. CASE Replay(r) \/ Join(r) \/ Lead(r)
  <2>1. /\ at[r] = "asking"
        /\ \E site \in {"observing", "waiting", "computing"} : at' = [at EXCEPT ![r] = site]
    BY <1>2 DEF Replay, Join, Lead
  <2> QED
    BY <2>1 DEF Left
<1>3. ASSUME NEW result \in Result, NEW reported \in Telemetry,
             Run(r, result, reported) \/ Bypass(r, result, reported)
      PROVE  /\ Left(r)' < Left(r)
             /\ \A s \in Requests \ {r} : at'[s] = at[s]
  <2>1. \/ at[r] = "computing" /\ at' = [at EXCEPT ![r] = "closing"]
        \/ at[r] = "bypassing" /\ at' = [at EXCEPT ![r] = "observing"]
    BY <1>3 DEF Run, Bypass
  <2> QED
    BY <2>1 DEF Left
<1>4. ASSUME NEW cost \in 0..MaxCost, RunRaises(r, cost) \/ BypassRaises(r, cost)
      PROVE  /\ Left(r)' < Left(r)
             /\ \A s \in Requests \ {r} : at'[s] = at[s]
  <2>1. \/ at[r] = "computing" /\ at' = [at EXCEPT ![r] = "closing"]
        \/ at[r] = "bypassing" /\ at' = [at EXCEPT ![r] = "done"]
    BY <1>4 DEF RunRaises, BypassRaises
  <2> QED
    BY <2>1 DEF Left
<1>5. CASE Close(r) \/ Return(r) \/ Raise(r)
  BY <1>5 DEF Close, Return, Raise, Left
<1>6. CASE Observe(r) \/ Record(r) \/ RecordFails(r) \/ Respond(r)
  BY <1>6 DEF Observe, Record, RecordFails, Respond, Left
<1> QED
  BY Step(r), <1>1, <1>2, <1>3, <1>4, <1>5, <1>6 DEF Step

\* and what others do, or the world, never sets it back.
LEMMA NobodyIsSetBack ==
  ASSUME TypeOK, [Next]_vars, NEW r \in Requests
  PROVE  Left(r)' <= Left(r)
<1> USE DEF TypeOK, Goto, Left
<1>1. ASSUME NEW s \in Requests, Step(s) PROVE Left(r)' <= Left(r)
  <2>1. CASE s = r
    <3>1. Left(r)' < Left(r)
      BY <1>1, <2>1, StepIsOnward
    <3> QED
      BY <3>1
  <2>2. CASE s # r
    BY <1>1, <2>2, StepIsOnward
  <2> QED
    BY <2>1, <2>2
<1>2. ASSUME NEW s \in Requests, UnknownDatabase(s) \/ ReserveRaises(s)
      PROVE  Left(r)' <= Left(r)
  BY <1>2 DEF UnknownDatabase, ReserveRaises
<1>3. ASSUME NEW s \in Requests, NEW q \in Questions, Refuse(s, q) \/ Admit(s, q)
      PROVE  Left(r)' <= Left(r)
  BY <1>3 DEF Refuse, Admit
<1>4. CASE Clear \/ Migrate \/ UNCHANGED vars
  BY <1>4 DEF Clear, Migrate, vars
<1>5. CASE Restart
  BY <1>5 DEF Restart
<1> QED
  BY <1>1, <1>2, <1>3, <1>4, <1>5 DEF Next

\* However requests interleave, the cache is cleared and the process dies, an
\* admitted question takes at most eight steps of its own to its response, none
\* of them twice: with NobodyWaitsForNobody, what EveryRequestIsAnswered needs
\* of the code, apart from the scheduler.
THEOREM RequestsRunOut == Spec => EveryStepIsOnward
<1>1. IInv /\ [Next]_vars => [\A r \in Requests : Onward(r)]_vars
  BY StepIsOnward, NobodyIsSetBack DEF IInv, Onward
<1> QED
  BY <1>1, Invariant, PTL DEF Spec, EveryStepIsOnward
=============================================================================
