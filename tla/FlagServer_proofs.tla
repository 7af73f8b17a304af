-------------------------- MODULE FlagServer_proofs --------------------------
(***************************************************************************)
(* Theorems about FlagServer, for any number of threads, flags, versions   *)
(* and faults.                                                             *)
(***************************************************************************)
EXTENDS FlagServer, FiniteSetTheorems, SequenceTheorems, TLAPS

Rows == SUBSET (Name \X FlagOrNone)

-----------------------------------------------------------------------------
(* Names, rows and Redis keys *)

LEMMA NamePair ==
  ASSUME NEW n \in Name
  PROVE  n[1] \in Env /\ n[2] \in Key /\ n = <<n[1], n[2]>>
BY DEF Name

LEMMA NameOfFlag ==
  ASSUME NEW f \in Flag
  PROVE  NameOf(f) \in Name
BY DEF Flag, NameOf, Name

LEMMA KeyOfName ==
  ASSUME NEW n \in Name
  PROVE  CacheKey(n) \in RedisKey
BY DEF RedisKey

LEMMA SeedSize == Cardinality(Seed) \in Nat
BY StoreAssumption, FS_CardinalityType

LEMMA SomeName == /\ (CHOOSE n \in Name : TRUE) \in Name
                  /\ (CHOOSE b \in Body : TRUE) \in Body
<1>1. PICK e \in Env, k \in Key, b \in Body : TRUE
  BY FlagsAssumption
<1>2. <<e, k>> \in Name
  BY DEF Name
<1>3. QED
  BY <1>1, <1>2

LEMMA BlankType ==
  ASSUME NEW op \in Operation, NEW n \in Name
  PROVE  Blank(op, n) \in Request
BY SomeName DEF Blank, Request, FlagOrNone

LEMMA NoRequestType == NoRequest \in Request
BY SomeName, BlankType DEF NoRequest, Operation

LEMMA FreshType == Fresh \in Local
BY DEF Fresh, Local, FlagOrNone

LEMMA NoResponseType == NoResponse \in Response
BY NoRequestType DEF NoResponse, Response, Status

LEMMA TypeInit == Init => TypeOK
<1> SUFFICES ASSUME Init PROVE TypeOK
    OBVIOUS
<1>1. StoreTypeOK
  BY SeedSize, StoreAssumption DEF Init, StoreInit, StoreTypeOK, FlagOrNone
<1>2. CacheTypeOK
  BY DEF Init, CacheInit, CacheTypeOK
<1>3. QED
  BY <1>1, <1>2, NoRequestType, FreshType, NoResponseType, StoreAssumption
  DEF Init, TypeOK, Call, FlagOrNone
-----------------------------------------------------------------------------
(* What the helpers of the actions do to the types *)

LEMMA GotoType ==
  ASSUME TypeOK, NEW t \in Threads, NEW p \in Call, Goto(t, p)
  PROVE  /\ pc' \in [Threads -> Call]
         /\ req' \in [Threads -> Request]
         /\ response' \in Response
BY NoResponseType DEF TypeOK, Goto

LEMMA RespondType ==
  ASSUME TypeOK, NEW t \in Threads, NEW status \in Status, NEW rows \in Rows,
         Respond(t, status, rows)
  PROVE  /\ pc' \in [Threads -> Call]
         /\ req' \in [Threads -> Request]
         /\ local' \in [Threads -> Local]
         /\ response' \in Response
<1>1. pc' \in [Threads -> Call]
  BY DEF TypeOK, Respond, Call
<1>2. req' \in [Threads -> Request]
  BY NoRequestType DEF TypeOK, Respond
<1>3. local' \in [Threads -> Local]
  BY FreshType DEF TypeOK, Respond
<1>4. response' \in Response
  BY DEF TypeOK, Respond, Response, Rows
<1>5. QED
  BY <1>1, <1>2, <1>3, <1>4

LEMMA NoCommitType ==
  ASSUME TypeOK, NoCommit
  PROVE  committed' \subseteq Flag /\ seen' \in [Threads -> Rows]
<1>1. \A t \in Threads : {} \in Rows /\ seen[t] \in Rows
  BY DEF TypeOK, Rows
<1>2. seen' \in [Threads -> Rows]
  BY <1>1 DEF NoCommit
<1>3. QED
  BY <1>2 DEF TypeOK, NoCommit

LEMMA ObserveType ==
  ASSUME TypeOK, NEW n \in Name, NEW v \in FlagOrNone, Observe(n, v)
  PROVE  committed' \subseteq Flag /\ seen' \in [Threads -> Rows]
<1>1. committed' \subseteq Flag
  BY DEF TypeOK, Observe, FlagOrNone
<1>2. ASSUME NEW t \in Threads
      PROVE  {} \in Rows /\ seen[t] \in Rows /\ seen[t] \cup {<<n, v>>} \in Rows
  BY DEF TypeOK, Rows
<1>3. QED
  BY <1>1, <1>2 DEF Observe

LEMMA ServedType ==
  ASSUME TypeOK, NEW n \in Name, NEW f \in FlagOrNone, Served(n, f)
  PROVE  copy' \in [Name -> FlagOrNone]
BY DEF TypeOK, Served

LEMMA RevisedType ==
  ASSUME NEW f \in Flag, NEW b \in Body, NEW e \in BOOLEAN
  PROVE  Revised(f, b, e) \in Flag
BY DEF Flag, Revised

(* What the statements of the repositories leave in the tables. *)
LEMMA ApplyType ==
  ASSUME TypeOK, NEW r \in Request, Apply(r)
  PROVE  StoreTypeOK' /\ flags'[r.name] \in FlagOrNone
<1> DEFINE n == r.name
<1>1. n \in Name /\ r.body \in Body /\ r.enabled \in BOOLEAN
  BY DEF Request
<1>2. flags \in [Name -> FlagOrNone] /\ nextId \in Nat \ {0} /\ audit_log \subseteq AuditEntry
  BY DEF TypeOK, StoreTypeOK
<1>3. CASE Create(n, r.body, r.enabled)
  BY <1>1, <1>2, <1>3, NamePair DEF Create, StoreTypeOK, FlagOrNone, Flag
<1>4. CASE Update(n, r.body, r.enabled)
  <2>1. flags[n] \in Flag
    BY <1>1, <1>2, <1>4 DEF Update, CanBump, FlagOrNone
  <2>2. Revised(flags[n], r.body, r.enabled) \in Flag
    BY <1>1, <2>1, RevisedType
  <2>3. QED
    BY <1>1, <1>2, <1>4, <2>2 DEF Update, StoreTypeOK, FlagOrNone
<1>5. CASE Toggle(n)
  <2>1. flags[n] \in Flag
    BY <1>1, <1>2, <1>5 DEF Toggle, CanBump, FlagOrNone
  <2>2. Revised(flags[n], flags[n].body, ~flags[n].enabled) \in Flag
    BY <2>1, RevisedType DEF Flag
  <2>3. QED
    BY <1>1, <1>2, <1>5, <2>2 DEF Toggle, StoreTypeOK, FlagOrNone
<1>6. CASE Remove(n)
  BY <1>1, <1>2, <1>6 DEF Remove, StoreTypeOK, FlagOrNone
<1>7. QED
  BY <1>3, <1>4, <1>5, <1>6 DEF Apply

(* A flag survives its way through the cache. *)
LEMMA RoundTrip ==
  ASSUME NEW f \in Flag
  PROVE  FromJson(ToJson(f)) = f
BY DEF Flag, ToJson, FromJson

LEMMA StoredFlag ==
  /\ \A f \in Flag : ToJson(f) \in FlagJson
  /\ \A j \in FlagJson : FromJson(j) \in Flag
BY DEF Flag, FlagJson, ToJson, FromJson

LEMMA SetFlagType ==
  ASSUME TypeOK, NEW f \in Flag, SetFlag(f)
  PROVE  cache' \in [RedisKey -> FlagJson \cup {NoFlag}]
BY NameOfFlag, KeyOfName, StoredFlag DEF TypeOK, CacheTypeOK, SetFlag

LEMMA RacedType ==
  ASSUME TypeOK, NEW f \in Flag
  PROVE  RacedBy(f) \subseteq RedisKey
BY NameOfFlag, KeyOfName DEF TypeOK, RacedBy
-----------------------------------------------------------------------------
(* Type correctness *)

(* What a thread's state holds. *)
LEMMA ThreadFacts ==
  ASSUME TypeOK, NEW t \in Threads
  PROVE  /\ req[t] \in Request /\ req[t].name \in Name /\ req[t].names \in SUBSET Name
         /\ local[t] \in Local
         /\ local[t].existing \in FlagOrNone /\ local[t].result \in FlagOrNone
         /\ local[t].todo \in SUBSET Name /\ local[t].rows \in Rows
         /\ \A n \in Name : FindByKey(n) \in FlagOrNone /\ CacheGet(n) \in FlagOrNone
<1>1. ASSUME NEW n \in Name PROVE CacheGet(n) \in FlagOrNone
  BY KeyOfName, StoredFlag DEF TypeOK, CacheTypeOK, CacheGet, FlagOrNone
<1>2. QED
  BY <1>1 DEF TypeOK, StoreTypeOK, Request, Local, Rows, FindByKey

LEMMA RowSet ==
  /\ {} \in Rows
  /\ \A n \in Name, f \in FlagOrNone : {<<n, f>>} \in Rows
BY DEF Rows

LEMMA StartType ==
  ASSUME TypeOK, NEW t \in Threads, NEW r \in Request, Start(t, r)
  PROVE  /\ pc' \in [Threads -> Call] /\ req' \in [Threads -> Request]
         /\ local' \in [Threads -> Local] /\ response' \in Response
         /\ seen' \in [Threads -> Rows]
<1>1. FirstCall(r.op) \in Call
  BY DEF FirstCall, Call
<1>2. [local[t] EXCEPT !.todo = r.names] \in Local
  BY ThreadFacts DEF Local, Request
<1>3. {<<n, flags[n]>> : n \in r.names} \in Rows
  BY DEF Request, Rows, TypeOK, StoreTypeOK
<1>4. QED
  BY <1>1, <1>2, <1>3, NoResponseType DEF Start, TypeOK, Rows

(* Every request a thread can receive is one. *)
LEMMA RequestType ==
  ASSUME NEW n \in Name
  PROVE  /\ \A op \in {"toggle", "delete", "evaluate"} : Blank(op, n) \in Request
         /\ \A f \in FlagOrNone : [Blank("get", n) EXCEPT !.inm = f] \in Request
         /\ \A b \in Body, e \in BOOLEAN :
              /\ [Blank("update", n) EXCEPT !.body = b, !.enabled = e] \in Request
              /\ [Blank("create", n) EXCEPT !.body = b, !.enabled = e] \in Request
         /\ \A ns \in SUBSET Name :
              /\ [Blank("evaluate_bulk", n) EXCEPT !.names = ns] \in Request
              /\ [Blank("list", n) EXCEPT !.names = ns] \in Request
<1>1. \A op \in Operation : Blank(op, n) \in Request
  BY BlankType
<1>2. QED
  BY <1>1 DEF Operation, Mutators, Evaluators, Request, Blank

LEMMA BeginType ==
  ASSUME TypeOK, NEW t \in Threads, Begin(t)
  PROVE  TypeOK'
<1>1. PICK n \in Name :
       \/ \E op \in {"toggle", "delete", "evaluate"} : Start(t, Blank(op, n))
       \/ \E f \in {NoFlag, copy[n]} :
            Start(t, [Blank("get", n) EXCEPT !.inm = f])
       \/ \E b \in Body, e \in BOOLEAN :
            Start(t, [Blank("update", n) EXCEPT !.body = b, !.enabled = e])
       \/ \E b \in Body, e \in BOOLEAN :
            Start(t, [Blank("create", n) EXCEPT !.body = b, !.enabled = e])
       \/ \E ns \in SUBSET ({n[1]} \X Key) :
            Start(t, [Blank("evaluate_bulk", n) EXCEPT !.names = ns])
       \/ \E ns \in {{n[1]} \X Key, Name} :
            Start(t, [Blank("list", n) EXCEPT !.names = ns])
  BY DEF Begin
<1>2. \A f \in {NoFlag, copy[n]} : f \in FlagOrNone
  BY DEF TypeOK, FlagOrNone
<1>3. {n[1]} \X Key \subseteq Name
  BY NamePair DEF Name
<1>4. PICK r \in Request : Start(t, r)
  BY <1>1, <1>2, <1>3, RequestType
<1>5. QED
  BY <1>4, StartType DEF Begin, TypeOK, Rows, StoreTypeOK, CacheTypeOK, storeVars, cacheVars

(* The ends of the handlers, with and without a failed last call. *)
LEMMA AnswerFillType ==
  ASSUME TypeOK, NEW t \in Threads, AnswerFill(t)
  PROVE  /\ StoreTypeOK' /\ doubt' \in [Name -> Request]
         /\ pc' \in [Threads -> Call] /\ req' \in [Threads -> Request]
         /\ local' \in [Threads -> Local] /\ response' \in Response
         /\ copy' \in [Name -> FlagOrNone]
         /\ committed' \subseteq Flag /\ seen' \in [Threads -> Rows]
<1>1. {<<req[t].name, local[t].result>>} \in Rows
  BY ThreadFacts, RowSet
<1>2. QED
  BY <1>1, ThreadFacts, RespondType, ServedType, NoCommitType
  DEF AnswerFill, TypeOK, StoreTypeOK, storeVars, Status

LEMMA AnswerMutationType ==
  ASSUME TypeOK, NEW t \in Threads, AnswerMutation(t)
  PROVE  /\ StoreTypeOK' /\ doubt' \in [Name -> Request]
         /\ late' \subseteq Flag
         /\ pc' \in [Threads -> Call] /\ req' \in [Threads -> Request]
         /\ local' \in [Threads -> Local] /\ response' \in Response
         /\ copy' \in [Name -> FlagOrNone]
         /\ committed' \subseteq Flag /\ seen' \in [Threads -> Rows]
<1>1. {<<req[t].name, local[t].result>>} \in Rows
  BY ThreadFacts, RowSet
<1>2. QED
  BY <1>1, RespondType, NoCommitType
  DEF AnswerMutation, TypeOK, StoreTypeOK, CacheTypeOK, storeVars, Status

LEMMA AfterAuditType ==
  ASSUME TypeOK, NEW t \in Threads, AfterAudit(t)
  PROVE  /\ CacheTypeOK'
         /\ pc' \in [Threads -> Call] /\ req' \in [Threads -> Request]
         /\ local' \in [Threads -> Local] /\ response' \in Response
         /\ copy' \in [Name -> FlagOrNone]
         /\ committed' \subseteq Flag /\ seen' \in [Threads -> Rows]
         /\ raced' \subseteq RedisKey
<1>1. {<<req[t].name, local[t].result>>} \in Rows
  BY ThreadFacts, RowSet
<1>2. QED
  BY <1>1, RespondType, GotoType, NoCommitType
  DEF AfterAudit, TypeOK, CacheTypeOK, cacheVars, Status, Call

LEMMA EntryType ==
  ASSUME TypeOK, NEW t \in Threads, HandlerOK(t), pc[t] = "audit"
  PROVE  Entry(t) \in AuditEntry
<1>1. req[t].op \in {"create", "update", "delete", "toggle"}
  BY DEF HandlerOK, Mutators
<1>2. CASE req[t].op = "delete"
  <2>1. local[t].existing \in Flag
    BY <1>2, ThreadFacts DEF HandlerOK, FlagOrNone
  <2>2. QED
    BY <1>2, <2>1, ThreadFacts DEF Entry, AuditEntry, Flag
<1>3. CASE req[t].op # "delete"
  <2>1. local[t].result \in Flag
    BY <1>3, ThreadFacts DEF HandlerOK, FlagOrNone
  <2>2. QED
    BY <1>1, <1>3, <2>1, ThreadFacts DEF Entry, AuditEntry, Flag
<1>4. QED
  BY <1>2, <1>3

LEMMA StepType ==
  ASSUME TypeOK, NEW t \in Threads, HandlerOK(t), Step(t)
  PROVE  TypeOK'
<1> USE DEF storeVars, cacheVars, historyVars
<1>1. CASE LookupHit(t)
  <2> DEFINE n == req[t].name
  <2>1. n \in Name /\ CacheGet(n) \in FlagOrNone /\ {<<n, CacheGet(n)>>} \in Rows
    BY ThreadFacts, RowSet
  <2>2. \E status \in Status : Respond(t, status, {<<n, CacheGet(n)>>})
    BY <1>1 DEF LookupHit, Status
  <2>3. copy' \in [Name -> FlagOrNone]
    BY <1>1, <2>1, ServedType DEF LookupHit, TypeOK
  <2>4. QED
    BY <1>1, <2>1, <2>2, <2>3, RespondType, NoCommitType
    DEF LookupHit, TypeOK, StoreTypeOK, CacheTypeOK, Rows
<1>2. CASE LookupMiss(t)
  BY <1>2, GotoType DEF LookupMiss, TypeOK, StoreTypeOK, CacheTypeOK, Call
<1>3. CASE FindNothing(t)
  <2>1. PICK n \in Name : Respond(t, "not_found", {<<n, NoFlag>>})
    BY <1>3, ThreadFacts DEF FindNothing
  <2>2. {<<n, NoFlag>>} \in Rows
    BY RowSet DEF FlagOrNone
  <2>3. QED
    BY <1>3, <2>1, <2>2, RespondType, NoCommitType
    DEF FindNothing, TypeOK, StoreTypeOK, CacheTypeOK, Rows, Status
<1>4. CASE FindRow(t)
  <2> DEFINE row == FindByKey(req[t].name)
  <2>1. /\ [local[t] EXCEPT !.result = row] \in Local
        /\ [local[t] EXCEPT !.existing = row] \in Local
    BY ThreadFacts DEF Local
  <2>2. local' \in [Threads -> Local]
    BY <1>4, <2>1 DEF FindRow, TypeOK
  <2>3. \E p \in Call : Goto(t, p)
    BY <1>4 DEF FindRow, Call
  <2>4. QED
    BY <1>4, <2>2, <2>3, GotoType DEF FindRow, TypeOK, StoreTypeOK, CacheTypeOK
<1>5. CASE EvaluateOne(t)
  <2>1. PICK n \in local[t].todo :
          LET rows == local[t].rows \cup {<<n, FindByKey(n)>>} IN
          IF local[t].todo = {n}
          THEN Respond(t, "ok", rows)
          ELSE /\ local' = [local EXCEPT ![t].todo = @ \ {n}, ![t].rows = rows]
               /\ Goto(t, "find")
    BY <1>5 DEF EvaluateOne
  <2> DEFINE rows == local[t].rows \cup {<<n, FindByKey(n)>>}
             more == [local[t] EXCEPT !.todo = @ \ {n}, !.rows = rows]
  <2>2. n \in Name /\ rows \in Rows
    BY ThreadFacts, RowSet DEF Rows
  <2>3. more \in Local
    BY <2>2, ThreadFacts DEF Local, Rows
  <2>4. \/ Respond(t, "ok", rows)
        \/ local' = [local EXCEPT ![t] = more] /\ Goto(t, "find")
    BY <2>1 DEF TypeOK
  <2>5. /\ pc' \in [Threads -> Call] /\ req' \in [Threads -> Request]
        /\ local' \in [Threads -> Local] /\ response' \in Response
    BY <2>2, <2>3, <2>4, RespondType, GotoType DEF TypeOK, Call, Status
  <2>6. QED
    BY <1>5, <2>5, NoCommitType DEF EvaluateOne, TypeOK, StoreTypeOK, CacheTypeOK, Rows
<1>6. CASE Fill(t)
  <2>1. local[t].result \in Flag
    BY <1>6, ThreadFacts DEF Fill, HandlerOK, FlagOrNone
  <2>2. QED
    BY <1>6, <2>1, AnswerFillType, SetFlagType, RacedType DEF Fill, TypeOK, CacheTypeOK, Rows
<1>7. CASE WriteCommits(t)
  <2>1. StoreTypeOK' /\ flags'[req[t].name] \in FlagOrNone
    BY <1>7, ApplyType, ThreadFacts DEF WriteCommits
  <2>2. [local[t] EXCEPT !.result = flags'[req[t].name]] \in Local
    BY <2>1, ThreadFacts DEF Local
  <2>3. doubt' \in [Name -> Request]
    BY <1>7, NoRequestType DEF WriteCommits, TypeOK
  <2>4. QED
    BY <1>7, <2>1, <2>2, <2>3, ThreadFacts, GotoType, ObserveType
    DEF WriteCommits, TypeOK, CacheTypeOK, Call, Rows
<1>8. CASE WriteRefused(t)
  <2> DEFINE n == req[t].name
  <2>1. {} \in Rows /\ {<<n, NoFlag>>} \in Rows /\ {<<n, flags[n]>>} \in Rows
    BY RowSet, ThreadFacts DEF FlagOrNone, FindByKey
  <2>2. \E status \in Status, rows \in Rows : Respond(t, status, rows)
    BY <1>8, <2>1 DEF WriteRefused, Status
  <2>3. QED
    BY <1>8, <2>2, RespondType, NoCommitType
    DEF WriteRefused, TypeOK, StoreTypeOK, CacheTypeOK, Rows
<1>9. CASE Audit(t)
  <2>1. pc[t] = "audit"
    BY <1>9 DEF Audit, AfterAudit
  <2>2. Entry(t) \in AuditEntry
    BY <2>1, EntryType
  <2>3. StoreTypeOK' /\ doubt' \in [Name -> Request]
    BY <1>9, <2>2 DEF Audit, LogAction, TypeOK, StoreTypeOK
  <2>4. QED
    BY <1>9, <2>3, AfterAuditType DEF Audit, TypeOK, Rows
<1>10. CASE InvalidateEntry(t)
  <2>1. cache' \in [RedisKey -> FlagJson \cup {NoFlag}]
    BY <1>10 DEF InvalidateEntry, Invalidate, TypeOK, CacheTypeOK
  <2>2. QED
    BY <1>10, <2>1, AnswerMutationType DEF InvalidateEntry, TypeOK, CacheTypeOK, Rows
<1>11. CASE ListAll(t)
  <2>1. ListRows(req[t].names) \in Rows
    BY ThreadFacts DEF ListRows, Rows, TypeOK, StoreTypeOK
  <2>2. QED
    BY <1>11, <2>1, RespondType, NoCommitType
    DEF ListAll, TypeOK, StoreTypeOK, CacheTypeOK, Rows, Status
<1>12. QED
  BY <1>1, <1>2, <1>3, <1>4, <1>5, <1>6, <1>7, <1>8, <1>9, <1>10, <1>11 DEF Step

LEMMA FaultyStepType ==
  ASSUME TypeOK, NEW t \in Threads, HandlerOK(t), FaultyStep(t)
  PROVE  TypeOK'
<1> USE DEF storeVars, cacheVars, historyVars
<1>1. ASSUME Fault PROVE faults' \in Nat
  BY <1>1 DEF Fault, TypeOK
<1>2. CASE LookupFails(t)
  BY <1>1, <1>2, GotoType DEF LookupFails, TypeOK, StoreTypeOK, CacheTypeOK, Call
<1>3. CASE CallFails(t)
  BY <1>1, <1>3, RowSet, RespondType, NoCommitType
  DEF CallFails, TypeOK, StoreTypeOK, CacheTypeOK, Rows, Status
<1>4. CASE FillFails(t)
  <2>1. local[t].result \in Flag
    BY <1>4, ThreadFacts DEF FillFails, HandlerOK, FlagOrNone
  <2>2. late' \subseteq Flag
    BY <1>4, <2>1 DEF FillFails, TypeOK, CacheTypeOK
  <2>3. QED
    BY <1>1, <1>4, <2>2, AnswerFillType DEF FillFails, TypeOK, CacheTypeOK, Rows
<1>5. CASE WriteInDoubt(t)
  <2>1. doubt' \in [Name -> Request]
    BY <1>5, ThreadFacts DEF WriteInDoubt, TypeOK
  <2>2. QED
    BY <1>1, <1>5, <2>1, RowSet, RespondType, NoCommitType
    DEF WriteInDoubt, TypeOK, StoreTypeOK, CacheTypeOK, Rows, Status
<1>6. CASE AuditFails(t)
  BY <1>1, <1>6, AfterAuditType DEF AuditFails, TypeOK, StoreTypeOK, Rows
<1>7. CASE InvalidateFails(t)
  BY <1>1, <1>7, AnswerMutationType DEF InvalidateFails, TypeOK, CacheTypeOK, Rows
<1>8. QED
  BY <1>2, <1>3, <1>4, <1>5, <1>6, <1>7 DEF FaultyStep

(* A write that settles was one, of the row it is remembered for. *)
LEMMA DoubtedWrite ==
  ASSUME TypeOK, DoubtOK, NEW n \in Name, Apply(doubt[n])
  PROVE  doubt[n] \in Request /\ doubt[n].name = n /\ faults > 0
<1>1. NoRequest.op = "get"
  BY DEF NoRequest, Blank
<1>2. doubt[n] # NoRequest
  BY <1>1 DEF Apply
<1>3. QED
  BY <1>2 DEF TypeOK, DoubtOK

LEMMA EnvironmentType ==
  ASSUME TypeOK, DoubtOK,
         \/ \E n \in Name : WriteSettles(n)
         \/ \E k \in RedisKey : ExpireEntry(k)
         \/ \E f \in late : LateSet(f)
         \/ \E i \in Instances : Crash(i)
  PROVE  TypeOK'
<1> USE DEF storeVars, cacheVars, threadVars
<1>1. CASE \E k \in RedisKey : ExpireEntry(k)
  BY <1>1, NoResponseType
  DEF ExpireEntry, Expire, TypeOK, StoreTypeOK, CacheTypeOK
<1>2. ASSUME NEW f \in late, LateSet(f) PROVE TypeOK'
  <2>1. f \in Flag
    BY DEF TypeOK, CacheTypeOK
  <2>2. cache' \in [RedisKey -> FlagJson \cup {NoFlag}] /\ raced' \subseteq RedisKey
    BY <1>2, <2>1, SetFlagType, RacedType DEF LateSet
  <2>3. QED
    BY <1>2, <2>2, NoResponseType DEF LateSet, TypeOK, StoreTypeOK, CacheTypeOK
<1>3. ASSUME NEW i \in Instances, Crash(i) PROVE TypeOK'
  <2>1. /\ pc' \in [Threads -> Call]
        /\ req' \in [Threads -> Request]
        /\ local' \in [Threads -> Local]
    BY <1>3, NoRequestType, FreshType DEF Crash, TypeOK, Call
  <2>2. faults' \in Nat
    BY <1>3 DEF Crash, Fault, TypeOK
  <2>3. QED
    BY <1>3, <2>1, <2>2, NoResponseType, NoCommitType
    DEF Crash, TypeOK, StoreTypeOK, CacheTypeOK, Rows
<1>4. ASSUME NEW n \in Name, WriteSettles(n) PROVE TypeOK'
  <2>1. doubt[n] \in Request /\ doubt[n].name = n
    BY <1>4, DoubtedWrite DEF WriteSettles
  <2>2. StoreTypeOK' /\ flags'[n] \in FlagOrNone
    BY <1>4, <2>1, ApplyType DEF WriteSettles
  <2>3. doubt' \in [Name -> Request]
    BY <1>4, NoRequestType DEF WriteSettles, TypeOK
  <2>4. committed' \subseteq Flag /\ seen' \in [Threads -> Rows]
    BY <1>4, <2>2, ObserveType DEF WriteSettles
  <2>5. QED
    BY <1>4, <2>2, <2>3, <2>4, NoResponseType DEF WriteSettles, TypeOK, CacheTypeOK, Rows
<1>5. QED
  BY <1>1, <1>2, <1>3, <1>4

LEMMA StutterType ==
  ASSUME TypeOK, UNCHANGED vars
  PROVE  TypeOK'
BY DEF vars, storeVars, cacheVars, threadVars, clientVars, historyVars,
       TypeOK, StoreTypeOK, CacheTypeOK
-----------------------------------------------------------------------------
(* What a handler holds when it gets to a call *)

(* A step of one thread's handler leaves the other handlers alone. *)
LEMMA OthersUntouched ==
  ASSUME NEW t \in Threads, NEW u \in Threads \ {t}, TypeOK,
         Begin(t) \/ Step(t) \/ FaultyStep(t)
  PROVE  pc'[u] = pc[u] /\ req'[u] = req[u] /\ local'[u] = local[u]
<1> USE DEF TypeOK
<1>1. CASE Begin(t)
  <2>1. PICK r : Start(t, r)
    BY <1>1 DEF Begin
  <2>2. QED
    BY <2>1 DEF Start
<1>2. ASSUME NEW p, Goto(t, p) PROVE pc'[u] = pc[u] /\ req'[u] = req[u]
  BY <1>2 DEF Goto
<1>3. ASSUME NEW status, NEW rows, Respond(t, status, rows)
      PROVE  pc'[u] = pc[u] /\ req'[u] = req[u] /\ local'[u] = local[u]
  BY <1>3 DEF Respond
<1>4. CASE Step(t)
  BY <1>2, <1>3, <1>4
  DEF Step, LookupHit, LookupMiss, FindNothing, FindRow, EvaluateOne, ListAll, Fill,
      AnswerFill, WriteCommits, WriteRefused, Audit, AfterAudit, InvalidateEntry,
      AnswerMutation
<1>5. CASE FaultyStep(t)
  BY <1>2, <1>3, <1>5
  DEF FaultyStep, LookupFails, CallFails, FillFails, WriteInDoubt, AuditFails,
      InvalidateFails, AnswerFill, AfterAudit, AnswerMutation
<1>6. QED
  BY <1>1, <1>4, <1>5

LEMMA RespondHandler ==
  ASSUME TypeOK, NEW t \in Threads, NEW status, NEW rows, Respond(t, status, rows)
  PROVE  HandlerOK(t)'
BY DEF TypeOK, Respond, HandlerOK

LEMMA GotoEffect ==
  ASSUME TypeOK, NEW t \in Threads, NEW p, Goto(t, p)
  PROVE  pc'[t] = p /\ req'[t] = req[t]
BY DEF TypeOK, Goto

LEMMA BeginHandler ==
  ASSUME TypeOK, NEW t \in Threads, HandlerOK(t), Begin(t)
  PROVE  HandlerOK(t)'
<1>1. PICK r : Start(t, r)
  BY DEF Begin
<1>2. /\ pc'[t] = FirstCall(r.op) /\ req'[t] = r
      /\ local'[t] = [local[t] EXCEPT !.todo = r.names]
  BY <1>1 DEF Start, TypeOK
<1>3. local[t].existing = NoFlag /\ local[t].result = NoFlag
  <2>1. local[t] = Fresh
    BY DEF Begin, HandlerOK
  <2>2. QED
    BY <2>1 DEF Fresh
<1>4. local'[t].existing = NoFlag /\ local'[t].result = NoFlag
  BY <1>2, <1>3, ThreadFacts DEF Local
<1>5. CASE r.op \in {"get", "evaluate"}
  BY <1>2, <1>4, <1>5 DEF HandlerOK, FirstCall
<1>6. CASE r.op = "create"
  BY <1>2, <1>4, <1>6 DEF HandlerOK, FirstCall
<1>7. CASE r.op \notin {"get", "evaluate", "create"}
  BY <1>2, <1>4, <1>7 DEF HandlerOK, FirstCall
<1>8. QED
  BY <1>5, <1>6, <1>7

(* A write leaves a row behind, except a delete. *)
LEMMA ApplyResult ==
  ASSUME TypeOK, NEW r \in Request, Apply(r)
  PROVE  flags'[r.name] = NoFlag <=> r.op = "delete"
<1> DEFINE n == r.name
<1>1. /\ n \in Name /\ r.body \in Body /\ r.enabled \in BOOLEAN
      /\ flags \in [Name -> FlagOrNone] /\ nextId \in Nat \ {0}
  BY DEF Request, TypeOK, StoreTypeOK
<1>2. CASE r.op = "create" /\ Create(n, r.body, r.enabled)
  <2>1. [id |-> nextId, env |-> n[1], key |-> n[2], body |-> r.body,
         enabled |-> r.enabled, version |-> 1] \in Flag
    BY <1>1, NamePair DEF Flag
  <2>2. QED
    BY <1>1, <1>2, <2>1, FlagsAssumption DEF Create
<1>3. CASE r.op \in {"update", "toggle"} /\ \E b \in Body, e \in BOOLEAN :
             flags[n] \in Flag /\ flags' = [flags EXCEPT ![n] = Revised(flags[n], b, e)]
  BY <1>1, <1>3, RevisedType, FlagsAssumption
<1>4. CASE r.op = "delete" /\ Remove(n)
  BY <1>1, <1>4 DEF Remove
<1>5. ASSUME r.op = "update", Update(n, r.body, r.enabled)
      PROVE  \E b \in Body, e \in BOOLEAN :
             flags[n] \in Flag /\ flags' = [flags EXCEPT ![n] = Revised(flags[n], b, e)]
  BY <1>1, <1>5 DEF Update, CanBump, FlagOrNone
<1>6. ASSUME r.op = "toggle", Toggle(n)
      PROVE  \E b \in Body, e \in BOOLEAN :
             flags[n] \in Flag /\ flags' = [flags EXCEPT ![n] = Revised(flags[n], b, e)]
  <2>1. flags[n] \in Flag
    BY <1>1, <1>6 DEF Toggle, CanBump, FlagOrNone
  <2>2. flags[n].body \in Body /\ (~flags[n].enabled) \in BOOLEAN
    BY <2>1 DEF Flag
  <2>3. QED
    BY <1>1, <1>6, <2>1, <2>2 DEF Toggle
<1>7. QED
  BY <1>2, <1>3, <1>4, <1>5, <1>6 DEF Apply

LEMMA AfterAuditHandler ==
  ASSUME TypeOK, NEW t \in Threads, HandlerOK(t), AfterAudit(t)
  PROVE  HandlerOK(t)'
<1>1. CASE req[t].op = "create"
  BY <1>1, RespondHandler DEF AfterAudit
<1>2. CASE req[t].op # "create"
  BY <1>2, GotoEffect DEF AfterAudit, HandlerOK
<1>3. QED
  BY <1>1, <1>2

LEMMA StepHandler ==
  ASSUME TypeOK, NEW t \in Threads, HandlerOK(t), Step(t)
  PROVE  HandlerOK(t)'
<1>1. CASE LookupHit(t)
  BY <1>1, RespondHandler DEF LookupHit
<1>2. CASE LookupMiss(t)
  <2>1. pc'[t] = "find" /\ req'[t] = req[t]
    BY <1>2, GotoEffect DEF LookupMiss
  <2>2. QED
    BY <1>2, <2>1 DEF LookupMiss, HandlerOK
<1>3. CASE FindNothing(t)
  BY <1>3, RespondHandler DEF FindNothing
<1>4. CASE FindRow(t)
  <2> DEFINE row == FindByKey(req[t].name)
  <2>1. row # NoFlag /\ req[t].op # "create"
    BY <1>4 DEF FindRow, HandlerOK
  <2>2. CASE req[t].op = "get"
    <3>1. /\ pc'[t] = "fill" /\ req'[t] = req[t]
          /\ local'[t] = [local[t] EXCEPT !.result = row]
      BY <1>4, <2>2, GotoEffect DEF FindRow, TypeOK
    <3>2. local'[t].result = row
      BY <3>1, ThreadFacts DEF Local
    <3>3. QED
      BY <2>1, <2>2, <3>1, <3>2 DEF HandlerOK
  <2>3. CASE req[t].op # "get"
    <3>1. /\ pc'[t] = "write" /\ req'[t] = req[t]
          /\ local'[t] = [local[t] EXCEPT !.existing = row]
      BY <1>4, <2>3, GotoEffect DEF FindRow, TypeOK
    <3>2. local'[t].existing = row
      BY <3>1, ThreadFacts DEF Local
    <3>3. req[t].op \in Mutators
      BY <1>4, <2>3 DEF FindRow
    <3>4. QED
      BY <2>1, <3>1, <3>2, <3>3 DEF HandlerOK
  <2>4. QED
    BY <2>2, <2>3
<1>5. CASE EvaluateOne(t)
  <2>1. req[t].op # "create"
    BY <1>5 DEF EvaluateOne, Evaluators
  <2>2. \/ \E rows : Respond(t, "ok", rows)
        \/ Goto(t, "find")
    BY <1>5 DEF EvaluateOne
  <2>3. QED
    BY <2>1, <2>2, RespondHandler, GotoEffect DEF HandlerOK
<1>6. CASE Fill(t)
  BY <1>6, RespondHandler DEF Fill, AnswerFill
<1>7. CASE WriteCommits(t)
  <2> DEFINE n == req[t].name
  <2>1. /\ pc'[t] = "audit" /\ req'[t] = req[t]
        /\ local'[t] = [local[t] EXCEPT !.result = flags'[n]]
    BY <1>7, GotoEffect DEF WriteCommits, TypeOK
  <2>2. local'[t].result = flags'[n] /\ local'[t].existing = local[t].existing
    BY <2>1, ThreadFacts DEF Local
  <2>3. flags'[n] = NoFlag <=> req[t].op = "delete"
    BY <1>7, ApplyResult, ThreadFacts DEF WriteCommits
  <2>4. QED
    BY <1>7, <2>1, <2>2, <2>3 DEF WriteCommits, HandlerOK
<1>8. CASE WriteRefused(t)
  BY <1>8, RespondHandler DEF WriteRefused
<1>9. CASE Audit(t)
  BY <1>9, AfterAuditHandler DEF Audit
<1>10. CASE InvalidateEntry(t)
  BY <1>10, RespondHandler DEF InvalidateEntry, AnswerMutation
<1>11. CASE ListAll(t)
  BY <1>11, RespondHandler DEF ListAll
<1>12. QED
  BY <1>1, <1>2, <1>3, <1>4, <1>5, <1>6, <1>7, <1>8, <1>9, <1>10, <1>11 DEF Step

LEMMA FaultyStepHandler ==
  ASSUME TypeOK, NEW t \in Threads, HandlerOK(t), FaultyStep(t)
  PROVE  HandlerOK(t)'
<1>1. CASE LookupFails(t)
  <2>1. pc'[t] = "find" /\ req'[t] = req[t]
    BY <1>1, GotoEffect DEF LookupFails
  <2>2. QED
    BY <1>1, <2>1 DEF LookupFails, HandlerOK
<1>2. CASE CallFails(t)
  BY <1>2, RespondHandler DEF CallFails
<1>3. CASE FillFails(t)
  BY <1>3, RespondHandler DEF FillFails, AnswerFill
<1>4. CASE WriteInDoubt(t)
  BY <1>4, RespondHandler DEF WriteInDoubt
<1>5. CASE AuditFails(t)
  BY <1>5, AfterAuditHandler DEF AuditFails
<1>6. CASE InvalidateFails(t)
  BY <1>6, RespondHandler DEF InvalidateFails, AnswerMutation
<1>7. QED
  BY <1>1, <1>2, <1>3, <1>4, <1>5, <1>6 DEF FaultyStep
-----------------------------------------------------------------------------
(* Writes in doubt *)

LEMMA DoubtNext ==
  ASSUME TypeOK, DoubtOK, [Next]_vars
  PROVE  DoubtOK'
<1> USE DEF storeVars, historyVars, TypeOK
<1>1. ASSUME NEW t \in Threads, WriteInDoubt(t)
      PROVE  DoubtOK'
  <2>1. faults' > 0 /\ req[t].name \in Name
    BY <1>1, ThreadFacts DEF WriteInDoubt, Fault
  <2>2. QED
    BY <1>1, <2>1 DEF WriteInDoubt, DoubtOK
<1>2. ASSUME NEW n \in Name, WriteSettles(n)
      PROVE  DoubtOK'
  BY <1>2 DEF WriteSettles, DoubtOK
<1>3. ASSUME \A n \in Name : doubt'[n] \in {doubt[n], NoRequest},
             faults' \in {faults, faults + 1}
      PROVE  DoubtOK'
  BY <1>3 DEF DoubtOK
<1>4. ASSUME NEW t \in Threads, Begin(t) \/ Step(t) \/ FaultyStep(t), ~WriteInDoubt(t)
      PROVE  /\ \A n \in Name : doubt'[n] \in {doubt[n], NoRequest}
             /\ faults' \in {faults, faults + 1}
  <2>1. CASE Begin(t)
    BY <2>1 DEF Begin
  <2>2. CASE Step(t)
    BY <2>2
    DEF Step, LookupHit, LookupMiss, FindNothing, FindRow, EvaluateOne, ListAll, Fill,
        AnswerFill, WriteCommits, WriteRefused, Audit, AfterAudit, LogAction,
        InvalidateEntry, AnswerMutation
  <2>3. CASE FaultyStep(t)
    BY <1>4, <2>3
    DEF FaultyStep, LookupFails, CallFails, FillFails, AuditFails,
        InvalidateFails, AnswerFill, AfterAudit, AnswerMutation, Fault
  <2>4. QED
    BY <1>4, <2>1, <2>2, <2>3
<1>5. CASE \/ \E k \in RedisKey : ExpireEntry(k)
           \/ \E f \in late : LateSet(f)
           \/ \E i \in Instances : Crash(i)
           \/ UNCHANGED vars
  BY <1>3, <1>5 DEF ExpireEntry, LateSet, Crash, Fault, vars
<1>6. QED
  BY <1>1, <1>2, <1>3, <1>4, <1>5 DEF Next
-----------------------------------------------------------------------------
TypeInv == TypeOK /\ HandlersOK /\ DoubtOK

LEMMA TypeInvInit == Init => TypeInv
BY TypeInit DEF Init, TypeInv, HandlersOK, HandlerOK, DoubtOK

LEMMA TypeInvNext == TypeInv /\ [Next]_vars => TypeInv'
<1> SUFFICES ASSUME TypeInv, [Next]_vars PROVE TypeInv'
    OBVIOUS
<1>1. TypeOK /\ DoubtOK /\ (\A t \in Threads : HandlerOK(t)) /\ DoubtOK'
  BY DoubtNext DEF TypeInv, HandlersOK
<1>2. ASSUME NEW t \in Threads, Begin(t) \/ Step(t) \/ FaultyStep(t)
      PROVE  TypeInv'
  <2>1. TypeOK'
    BY <1>1, <1>2, BeginType, StepType, FaultyStepType
  <2>2. HandlerOK(t)'
    BY <1>1, <1>2, BeginHandler, StepHandler, FaultyStepHandler
  <2>3. ASSUME NEW u \in Threads \ {t} PROVE HandlerOK(u)'
    BY <1>1, <1>2, OthersUntouched DEF HandlerOK
  <2>4. QED
    BY <1>1, <2>1, <2>2, <2>3 DEF TypeInv, HandlersOK
<1>3. CASE \/ \E n \in Name : WriteSettles(n)
           \/ \E k \in RedisKey : ExpireEntry(k)
           \/ \E f \in late : LateSet(f)
  BY <1>1, <1>3, EnvironmentType
  DEF WriteSettles, ExpireEntry, LateSet, threadVars, TypeInv, HandlersOK, HandlerOK
<1>4. ASSUME NEW i \in Instances, Crash(i) PROVE TypeInv'
  <2>1. TypeOK'
    BY <1>1, <1>4, EnvironmentType
  <2>2. ASSUME NEW u \in Threads PROVE HandlerOK(u)'
    <3>1. CASE u \in i
      BY <1>4, <3>1 DEF Crash, HandlerOK
    <3>2. CASE u \notin i
      BY <1>1, <1>4, <3>2 DEF Crash, HandlerOK
    <3>3. QED
      BY <3>1, <3>2
  <2>3. QED
    BY <1>1, <2>1, <2>2 DEF TypeInv, HandlersOK
<1>5. CASE UNCHANGED vars
  BY <1>1, <1>5, StutterType DEF vars, threadVars, TypeInv, HandlersOK, HandlerOK
<1>6. QED
  BY <1>2, <1>3, <1>4, <1>5 DEF Next

THEOREM TypeInvariant == Spec => []TypeInv
BY TypeInvInit, TypeInvNext, PTL DEF Spec

(* Every variable keeps to its type, in particular: nothing but a flag is  *)
(* ever cached or logged, whatever fails.                                  *)
THEOREM TypeCorrect == Spec => []TypeOK
BY TypeInvariant, PTL DEF TypeInv
-----------------------------------------------------------------------------
(* The table and the rows ever committed *)

TableInv == TypeInv /\ TableNewest /\ VersionIdentifiesContent

(* A request's write reaches the database, of a handler or long in doubt. *)
Commit(r) == Apply(r) /\ Observe(r.name, flags'[r.name])

(* Nothing else changes the table. *)
LEMMA OnlyCommits ==
  ASSUME TypeInv, [Next]_vars
  PROVE  (\E r \in Request : Commit(r)) \/ UNCHANGED <<flags, nextId, committed>>
<1> USE DEF storeVars, historyVars
<1>1. ASSUME NEW t \in Threads, Begin(t) \/ Step(t) \/ FaultyStep(t)
      PROVE  Commit(req[t]) \/ UNCHANGED <<flags, nextId, committed>>
  <2>1. CASE Begin(t)
    BY <2>1 DEF Begin
  <2>2. CASE Step(t)
    BY <2>2
    DEF Step, LookupHit, LookupMiss, FindNothing, FindRow, EvaluateOne, ListAll, Fill,
        AnswerFill, WriteCommits, WriteRefused, Audit, AfterAudit, LogAction,
        InvalidateEntry, AnswerMutation, NoCommit, Commit
  <2>3. CASE FaultyStep(t)
    BY <2>3
    DEF FaultyStep, LookupFails, CallFails, FillFails, WriteInDoubt, AuditFails,
        InvalidateFails, AnswerFill, AfterAudit, AnswerMutation, NoCommit, Commit
  <2>4. QED
    BY <1>1, <2>1, <2>2, <2>3
<1>2. CASE \/ \E k \in RedisKey : ExpireEntry(k)
           \/ \E f \in late : LateSet(f)
           \/ \E i \in Instances : Crash(i)
  BY <1>2 DEF ExpireEntry, LateSet, Crash, NoCommit
<1>3. ASSUME NEW n \in Name, WriteSettles(n)
      PROVE  doubt[n] \in Request /\ Commit(doubt[n])
  BY <1>3, DoubtedWrite DEF WriteSettles, Commit, TypeInv
<1>4. CASE UNCHANGED vars
  BY <1>4 DEF vars
<1>5. \A t \in Threads : req[t] \in Request
  BY DEF TypeInv, TypeOK
<1>6. QED
  BY <1>1, <1>2, <1>3, <1>4, <1>5 DEF Next

(* The three things a statement does to the row of its name. *)
LEMMA ApplyCases ==
  ASSUME TypeOK, NEW r \in Request, Apply(r)
  PROVE  \/ /\ flags[r.name] = NoFlag
            /\ flags' = [flags EXCEPT ![r.name] =
                 [id |-> nextId, env |-> r.name[1], key |-> r.name[2],
                  body |-> r.body, enabled |-> r.enabled, version |-> 1]]
            /\ nextId' = nextId + 1
         \/ /\ flags[r.name] \in Flag
            /\ \E b \in Body, e \in BOOLEAN :
                 flags' = [flags EXCEPT ![r.name] = Revised(flags[r.name], b, e)]
            /\ nextId' = nextId
         \/ /\ flags[r.name] \in Flag
            /\ flags' = [flags EXCEPT ![r.name] = NoFlag]
            /\ nextId' = nextId
<1> DEFINE n == r.name
<1>1. /\ n \in Name /\ r.body \in Body /\ r.enabled \in BOOLEAN
      /\ flags \in [Name -> FlagOrNone]
  BY DEF Request, TypeOK, StoreTypeOK
<1>2. CASE Create(n, r.body, r.enabled)
  BY <1>2 DEF Create
<1>3. CASE Update(n, r.body, r.enabled)
  BY <1>1, <1>3 DEF Update, CanBump, FlagOrNone
<1>4. CASE Toggle(n)
  <2>1. flags[n] \in Flag
    BY <1>1, <1>4 DEF Toggle, CanBump, FlagOrNone
  <2>2. flags[n].body \in Body /\ (~flags[n].enabled) \in BOOLEAN
    BY <2>1 DEF Flag
  <2>3. QED
    BY <1>1, <1>4, <2>1, <2>2 DEF Toggle
<1>5. CASE Remove(n)
  BY <1>1, <1>5 DEF Remove, FlagOrNone
<1>6. QED
  BY <1>2, <1>3, <1>4, <1>5 DEF Apply

LEMMA CommitTable ==
  ASSUME TypeOK, TableNewest, VersionIdentifiesContent,
         NEW r \in Request, Commit(r)
  PROVE  TableNewest' /\ VersionIdentifiesContent'
<1> DEFINE n == r.name
           v == flags'[n]
<1>1. r \in Request /\ n \in Name /\ r.body \in Body /\ r.enabled \in BOOLEAN
  BY DEF TypeOK, Request
<1>2. flags \in [Name -> FlagOrNone] /\ nextId \in Nat /\ committed \subseteq Flag
  BY DEF TypeOK, StoreTypeOK
<1>3. committed' = committed \cup ({v} \ {NoFlag})
  BY DEF Commit, Observe
<1>4. \A f \in committed : NameOf(f) \in Name /\ f.id \in Nat /\ f.version \in Nat /\ f # NoFlag
  BY <1>2, NameOfFlag, FlagsAssumption DEF Flag
<1>5. CASE /\ flags[n] = NoFlag
           /\ flags' = [flags EXCEPT ![n] =
                [id |-> nextId, env |-> n[1], key |-> n[2],
                 body |-> r.body, enabled |-> r.enabled, version |-> 1]]
           /\ nextId' = nextId + 1
  <2>1. v.id = nextId /\ NameOf(v) = n /\ v # NoFlag /\ v.version = 1
    <3>1. v = [id |-> nextId, env |-> n[1], key |-> n[2],
               body |-> r.body, enabled |-> r.enabled, version |-> 1]
      BY <1>1, <1>2, <1>5
    <3>2. v \in Flag
      BY <1>1, <3>1, NamePair DEF Flag, TypeOK, StoreTypeOK
    <3>3. QED
      BY <1>1, <3>1, <3>2, NamePair, FlagsAssumption DEF NameOf
  <2>2. committed' = committed \cup {v} /\ \A f \in committed : f.id < v.id
    BY <1>3, <2>1 DEF TableNewest
  <2>3. \A m \in Name : m # n => flags'[m] = flags[m]
    BY <1>2, <1>5
  <2>4. QED
    BY <1>1, <1>2, <1>4, <1>5, <2>1, <2>2, <2>3
    DEF TableNewest, VersionIdentifiesContent, Later
<1>6. CASE /\ flags[n] \in Flag
           /\ \E b \in Body, e \in BOOLEAN :
                flags' = [flags EXCEPT ![n] = Revised(flags[n], b, e)]
           /\ nextId' = nextId
  <2> DEFINE old == flags[n]
  <2>1. PICK b \in Body, e \in BOOLEAN : v = Revised(old, b, e)
    BY <1>1, <1>2, <1>6
  <2>2. old \in committed /\ NameOf(old) = n
    BY <1>1, <1>6, FlagsAssumption DEF TableNewest
  <2>3. v \in Flag /\ v # NoFlag
    BY <1>6, <2>1, RevisedType, FlagsAssumption
  <2>4. v.id = old.id /\ v.version = old.version + 1 /\ NameOf(v) = n
    BY <2>1, <2>2 DEF Revised, NameOf
  <2>5. committed' = committed \cup {v}
    BY <1>3, <2>3
  <2>6. \A m \in Name : m # n => flags'[m] = flags[m]
    BY <1>2, <1>6
  <2>7. \A f \in committed : NameOf(f) = n => Later(v, f)
    BY <1>4, <2>2, <2>4 DEF TableNewest, Later
  <2>8. \A f \in committed : f.id = v.id => NameOf(f) = n
    BY <2>2, <2>4 DEF TableNewest
  <2>9. TableNewest'
    BY <1>1, <1>4, <1>6, <2>2, <2>3, <2>4, <2>5, <2>6, <2>7, <2>8
    DEF TableNewest
  <2>10. VersionIdentifiesContent'
    BY <1>4, <2>4, <2>5, <2>7, <2>8 DEF VersionIdentifiesContent, Later
  <2>11. QED
    BY <2>9, <2>10
<1>7. CASE /\ flags[n] \in Flag
           /\ flags' = [flags EXCEPT ![n] = NoFlag]
           /\ nextId' = nextId
  <2>1. v = NoFlag /\ \A m \in Name : m # n => flags'[m] = flags[m]
    BY <1>1, <1>2, <1>7
  <2>2. committed' = committed
    BY <1>3, <2>1
  <2>3. QED
    BY <1>4, <1>7, <2>1, <2>2 DEF TableNewest, VersionIdentifiesContent
<1>8. QED
  BY <1>1, <1>5, <1>6, <1>7, ApplyCases DEF Commit

LEMMA TableInvInit == Init => TableInv
<1> SUFFICES ASSUME Init PROVE TableNewest /\ VersionIdentifiesContent
  BY TypeInvInit DEF TableInv
<1>1. /\ committed = Seed /\ nextId = Cardinality(Seed) + 1
      /\ flags = [n \in Name |-> IF \E f \in Seed : NameOf(f) = n
                                 THEN CHOOSE f \in Seed : NameOf(f) = n ELSE NoFlag]
  BY DEF Init, StoreInit
<1>2. /\ \A f \in Seed : /\ f \in Flag /\ f.id \in Nat /\ NameOf(f) \in Name
                         /\ f.id <= Cardinality(Seed)
      /\ \A f, g \in Seed : f.id = g.id \/ NameOf(f) = NameOf(g) => f = g
  BY StoreAssumption, NameOfFlag DEF Flag
<1>3. \A n \in Name : flags[n] # NoFlag => flags[n] \in Seed /\ NameOf(flags[n]) = n
  BY <1>1
<1>4. \A f \in Seed : flags[NameOf(f)] = f
  BY <1>1, <1>2
<1>5. QED
  BY <1>1, <1>2, <1>3, <1>4, SeedSize DEF TableNewest, VersionIdentifiesContent

LEMMA TableInvNext == TableInv /\ [Next]_vars => TableInv'
<1> SUFFICES ASSUME TableInv, [Next]_vars PROVE TableInv'
    OBVIOUS
<1>1. TypeInv'
  BY TypeInvNext DEF TableInv
<1>2. CASE \E r \in Request : Commit(r)
  BY <1>1, <1>2, CommitTable DEF TableInv, TypeInv
<1>3. CASE UNCHANGED <<flags, nextId, committed>>
  BY <1>1, <1>3 DEF TableInv, TableNewest, VersionIdentifiesContent
<1>4. QED
  BY <1>2, <1>3, OnlyCommits DEF TableInv

THEOREM TableInvariant == Spec => []TableInv
BY TableInvInit, TableInvNext, PTL DEF Spec

(* An id and a version name one content of a flag, for good: the ETag of   *)
(* one and the same row never validates a different content, whatever      *)
(* mutations race and whatever fails.                                      *)
THEOREM VersionsIdentify == Spec => []VersionIdentifiesContent
BY TableInvariant, PTL DEF TableInv
-----------------------------------------------------------------------------
(* What handlers, cache and late commands hold *)

HeldInv == TableInv /\ HoldsCommitted

LEMMA CommittedGrows ==
  ASSUME TypeInv, [Next]_vars
  PROVE  committed \subseteq committed'
BY OnlyCommits DEF Commit, Observe

(* The two locals of a handler are taken over, empty, or read from the     *)
(* table under the name of the request.                                    *)
Taken(t, f) ==
  \/ f = NoFlag
  \/ /\ req'[t] = req[t]
     /\ \/ f \in {local[t].existing, local[t].result}
        \/ f = flags'[req[t].name]

LEMMA HandlerTakes ==
  ASSUME TypeInv, NEW t \in Threads, Begin(t) \/ Step(t) \/ FaultyStep(t)
  PROVE  Taken(t, local'[t].existing) /\ Taken(t, local'[t].result)
<1>1. TypeOK /\ HandlerOK(t)
  BY DEF TypeInv, HandlersOK
<1>2. local[t] \in Local /\ local \in [Threads -> Local]
  BY <1>1, ThreadFacts DEF TypeOK
<1>3. CASE Begin(t)
  <2>1. local[t] = Fresh
    BY <1>1, <1>3 DEF Begin, HandlerOK
  <2>2. PICK r : Start(t, r)
    BY <1>3 DEF Begin
  <2>3. local'[t] = [local[t] EXCEPT !.todo = r.names]
    BY <1>2, <2>2 DEF Start
  <2>4. QED
    BY <1>2, <2>1, <2>3 DEF Fresh, Taken
<1>4. ASSUME NEW status, NEW rows, Respond(t, status, rows)
      PROVE  Taken(t, local'[t].existing) /\ Taken(t, local'[t].result)
  BY <1>2, <1>4 DEF Respond, Fresh, Taken
<1>5. ASSUME req'[t] = req[t], local'[t] = local[t]
      PROVE  Taken(t, local'[t].existing) /\ Taken(t, local'[t].result)
  BY <1>5 DEF Taken
<1>6. ASSUME NEW p, Goto(t, p) PROVE req'[t] = req[t]
  BY <1>6 DEF Goto
<1>7. CASE FindRow(t)
  <2>1. \/ local'[t] = [local[t] EXCEPT !.result = flags[req[t].name]]
        \/ local'[t] = [local[t] EXCEPT !.existing = flags[req[t].name]]
    BY <1>2, <1>7 DEF FindRow, FindByKey
  <2>2. req'[t] = req[t] /\ flags' = flags
    BY <1>6, <1>7 DEF FindRow, storeVars
  <2>3. QED
    BY <1>2, <2>1, <2>2 DEF Taken, Local
<1>8. CASE EvaluateOne(t)
  <2>1. CASE \E rows : Respond(t, "ok", rows)
    BY <1>4, <2>1
  <2>2. CASE /\ \E n, rows : local' = [local EXCEPT ![t].todo = @ \ {n}, ![t].rows = rows]
             /\ Goto(t, "find")
    <3>1. local'[t].existing = local[t].existing /\ local'[t].result = local[t].result
      BY <1>2, <2>2 DEF Local
    <3>2. QED
      BY <1>6, <2>2, <3>1 DEF Taken
  <2>3. QED
    BY <1>8, <2>1, <2>2 DEF EvaluateOne
<1>9. CASE WriteCommits(t)
  <2>1. local'[t] = [local[t] EXCEPT !.result = flags'[req[t].name]]
    BY <1>2, <1>9 DEF WriteCommits
  <2>2. req'[t] = req[t]
    BY <1>6, <1>9 DEF WriteCommits
  <2>3. QED
    BY <1>2, <2>1, <2>2 DEF Taken, Local
<1>10. ASSUME AfterAudit(t)
       PROVE  Taken(t, local'[t].existing) /\ Taken(t, local'[t].result)
  BY <1>4, <1>5, <1>6, <1>10 DEF AfterAudit
<1>11. CASE Step(t) /\ ~FindRow(t) /\ ~EvaluateOne(t) /\ ~WriteCommits(t)
  BY <1>4, <1>5, <1>6, <1>10, <1>11
  DEF Step, LookupHit, LookupMiss, FindNothing, ListAll, Fill, AnswerFill, WriteRefused,
      Audit, InvalidateEntry, AnswerMutation
<1>12. CASE FaultyStep(t)
  BY <1>4, <1>5, <1>6, <1>10, <1>12
  DEF FaultyStep, LookupFails, CallFails, FillFails, AnswerFill, WriteInDoubt,
      AuditFails, InvalidateFails, AnswerMutation
<1>13. QED
  BY <1>3, <1>7, <1>8, <1>9, <1>11, <1>12

(* What can be in the cache, or on its way there, after a step: what was,  *)
(* or the row that a fill has read.                                        *)
Filled(f) == \E t \in Threads : /\ pc[t] = "fill" /\ f = local[t].result

LEMMA CacheTakes ==
  ASSUME TypeInv, [Next]_vars
  PROVE  /\ late' \subseteq late \cup {f \in Flag : Filled(f)}
         /\ \A k \in RedisKey :
              \/ cache'[k] \in {NoFlag, cache[k]}
              \/ \E f \in Flag : /\ cache'[k] = ToJson(f) /\ k = CacheKey(NameOf(f))
                                 /\ f \in late \/ Filled(f)
<1> USE DEF cacheVars
<1>1. TypeOK /\ cache \in [RedisKey -> FlagJson \cup {NoFlag}] /\ late \subseteq Flag
  BY DEF TypeInv, TypeOK, CacheTypeOK
<1>2. ASSUME NEW f \in Flag, SetFlag(f)
      PROVE  \A k \in RedisKey : \/ cache'[k] = cache[k]
                                 \/ k = CacheKey(NameOf(f)) /\ cache'[k] = ToJson(f)
  BY <1>1, <1>2 DEF SetFlag
<1>3. ASSUME NEW t \in Threads, pc[t] = "fill" PROVE local[t].result \in Flag
  BY <1>1, <1>3, ThreadFacts DEF TypeInv, HandlersOK, HandlerOK, FlagOrNone
<1>4. ASSUME NEW t \in Threads, Step(t)
      PROVE  cache' = cache \/ Fill(t) \/ InvalidateEntry(t)
  BY <1>4
  DEF Step, LookupHit, LookupMiss, FindNothing, FindRow, EvaluateOne, ListAll,
      WriteCommits, WriteRefused, Audit, AfterAudit
<1>5. ASSUME NEW t \in Threads, Step(t) PROVE late' = late
  BY <1>5
  DEF Step, LookupHit, LookupMiss, FindNothing, FindRow, EvaluateOne, ListAll, Fill,
      WriteCommits, WriteRefused, Audit, AfterAudit, InvalidateEntry, AnswerMutation
<1>6. ASSUME NEW t \in Threads, FaultyStep(t)
      PROVE  cache' = cache /\ (late' = late \/ FillFails(t))
  BY <1>6
  DEF FaultyStep, LookupFails, CallFails, FillFails, WriteInDoubt, AuditFails,
      AfterAudit, InvalidateFails, AnswerMutation
<1>7. ASSUME NEW t \in Threads, Fill(t)
      PROVE  \A k \in RedisKey :
               \/ cache'[k] = cache[k]
               \/ \E f \in Flag : /\ cache'[k] = ToJson(f) /\ k = CacheKey(NameOf(f))
                                  /\ Filled(f)
  BY <1>2, <1>3, <1>7 DEF Fill, Filled
<1>8. ASSUME NEW t \in Threads, InvalidateEntry(t)
      PROVE  \A k \in RedisKey : cache'[k] \in {NoFlag, cache[k]}
  BY <1>1, <1>8 DEF InvalidateEntry, Invalidate
<1>9. ASSUME NEW t \in Threads, FillFails(t)
      PROVE  late' \subseteq late \cup {f \in Flag : Filled(f)}
  BY <1>3, <1>9 DEF FillFails, Filled
<1>10. ASSUME NEW f \in late, LateSet(f)
       PROVE  /\ late' \subseteq late
              /\ \A k \in RedisKey :
                   \/ cache'[k] = cache[k]
                   \/ /\ cache'[k] = ToJson(f) /\ k = CacheKey(NameOf(f))
                      /\ f \in Flag /\ f \in late
  BY <1>1, <1>2, <1>10 DEF LateSet
<1>11. ASSUME NEW k \in RedisKey, ExpireEntry(k)
       PROVE  late' = late /\ \A q \in RedisKey : cache'[q] \in {NoFlag, cache[q]}
  BY <1>1, <1>11 DEF ExpireEntry, Expire
<1>12. ASSUME \/ \E t \in Threads : Begin(t)
              \/ \E n \in Name : WriteSettles(n)
              \/ \E i \in Instances : Crash(i)
              \/ UNCHANGED vars
       PROVE  cache' = cache /\ late' = late
  BY <1>12 DEF Begin, WriteSettles, Crash, vars
<1>13. QED
  BY <1>4, <1>5, <1>6, <1>7, <1>8, <1>9, <1>10, <1>11, <1>12 DEF Next

LEMMA HeldInvInit == Init => HeldInv
BY TableInvInit, SomeName DEF HeldInv, HoldsCommitted, Init, CacheInit, Fresh

LEMMA HeldInvNext == HeldInv /\ [Next]_vars => HeldInv'
<1> SUFFICES ASSUME HeldInv, [Next]_vars PROVE HeldInv'
    OBVIOUS
<1>1. TableInv /\ TableInv' /\ TypeInv /\ TypeOK /\ TypeOK' /\ HoldsCommitted
  BY TableInvNext DEF HeldInv, TableInv, TypeInv
<1>2. committed \subseteq committed'
  BY <1>1, CommittedGrows
<1>3. \A n \in Name : flags'[n] # NoFlag => flags'[n] \in committed' /\ NameOf(flags'[n]) = n
  BY <1>1 DEF TableInv, TableNewest
<1> DEFINE Good(t) == \A f \in {local[t].existing, local[t].result} \ {NoFlag} :
                        f \in committed /\ NameOf(f) = req[t].name
<1>4. \A t \in Threads : Good(t)
  BY <1>1 DEF HoldsCommitted
<1>5. ASSUME NEW t \in Threads PROVE Good(t)'
  <2>1. CASE Begin(t) \/ Step(t) \/ FaultyStep(t)
    <3>1. Taken(t, local'[t].existing) /\ Taken(t, local'[t].result)
      BY <1>1, <2>1, HandlerTakes
    <3>2. QED
      BY <1>1, <1>2, <1>3, <1>4, <3>1, ThreadFacts DEF Taken
  <2>2. CASE \E u \in Threads \ {t} : Begin(u) \/ Step(u) \/ FaultyStep(u)
    BY <1>1, <1>2, <1>4, <2>2, OthersUntouched
  <2>3. CASE \/ \E k \in RedisKey : ExpireEntry(k)
             \/ \E f \in late : LateSet(f)
             \/ \E n \in Name : WriteSettles(n)
             \/ UNCHANGED vars
    BY <1>2, <1>4, <2>3 DEF ExpireEntry, LateSet, WriteSettles, threadVars, vars
  <2>4. ASSUME NEW i \in Instances, Crash(i) PROVE Good(t)'
    <3>1. CASE t \in i
      BY <2>4, <3>1 DEF Crash, Fresh
    <3>2. CASE t \notin i
      BY <1>2, <1>4, <2>4, <3>2 DEF Crash
    <3>3. QED
      BY <3>1, <3>2
  <2>5. QED
    BY <2>1, <2>2, <2>3, <2>4 DEF Next
<1>6. \A f : Filled(f) => f = NoFlag \/ f \in committed
  BY <1>4 DEF Filled
<1>7. late' \subseteq committed'
  BY <1>1, <1>2, <1>6, CacheTakes, FlagsAssumption DEF HoldsCommitted
<1>8. ASSUME NEW k \in RedisKey, cache'[k] # NoFlag
      PROVE  /\ FromJson(cache'[k]) \in committed'
             /\ CacheKey(NameOf(FromJson(cache'[k]))) = k
  <2>1. CASE cache'[k] \in {NoFlag, cache[k]}
    BY <1>1, <1>2, <1>8, <2>1 DEF HoldsCommitted
  <2>2. CASE \E f \in Flag : /\ cache'[k] = ToJson(f) /\ k = CacheKey(NameOf(f))
                             /\ f \in late \/ Filled(f)
    <3>1. PICK f \in Flag : /\ cache'[k] = ToJson(f) /\ k = CacheKey(NameOf(f))
                            /\ f \in late \/ Filled(f)
      BY <2>2
    <3>2. f \in committed'
      BY <1>1, <1>2, <1>6, <3>1, FlagsAssumption DEF HoldsCommitted
    <3>3. cache'[k] = ToJson(f) /\ CacheKey(NameOf(f)) = k
      BY <3>1
    <3>4. FromJson(cache'[k]) = f
      BY <3>3, RoundTrip
    <3>5. QED
      BY <3>2, <3>3, <3>4
  <2>3. QED
    BY <1>1, <2>1, <2>2, CacheTakes
<1>9. QED
  BY <1>1, <1>5, <1>7, <1>8 DEF HeldInv, HoldsCommitted

THEOREM HeldInvariant == Spec => []HeldInv
BY HeldInvInit, HeldInvNext, PTL DEF Spec
-----------------------------------------------------------------------------
(* What a get answers with *)

GoodRows(rows) ==
  \A r \in rows : r[2] # NoFlag => r[2] \in committed /\ NameOf(r[2]) = r[1]

GoodCache == \A n \in Name : CacheGet(n) # NoFlag =>
               CacheGet(n) \in committed /\ NameOf(CacheGet(n)) = n

GoodGet == response.req.op = "get" => GoodRows(response.rows)

LEMMA ConcatSplit ==
  ASSUME NEW S, NEW a \in Seq(S), NEW b \in Seq(S), NEW c \in Seq(S), NEW d \in Seq(S),
         Len(a) = Len(c), a \o b = c \o d
  PROVE  a = c /\ b = d
<1>1. /\ Len(a \o b) = Len(a) + Len(b) /\ Len(c \o d) = Len(c) + Len(d)
      /\ \A i \in 1..(Len(a) + Len(b)) :
           (a \o b)[i] = IF i <= Len(a) THEN a[i] ELSE b[i - Len(a)]
      /\ \A i \in 1..(Len(c) + Len(d)) :
           (c \o d)[i] = IF i <= Len(c) THEN c[i] ELSE d[i - Len(c)]
  BY ConcatProperties
<1>2. /\ Len(a) \in Nat /\ Len(b) \in Nat /\ Len(c) \in Nat /\ Len(d) \in Nat
      /\ Len(b) = Len(d)
  BY <1>1, LenProperties
<1>3. ASSUME NEW i \in 1..Len(a) PROVE a[i] = c[i]
  <2>1. i \in 1..(Len(a) + Len(b)) /\ i <= Len(a)
    BY <1>2
  <2>2. QED
    BY <1>1, <1>2, <2>1
<1>4. ASSUME NEW i \in 1..Len(b) PROVE b[i] = d[i]
  <2>1. Len(a) + i \in 1..(Len(a) + Len(b)) /\ ~(Len(a) + i <= Len(a))
        /\ (Len(a) + i) - Len(a) = i
    BY <1>2
  <2>2. QED
    BY <1>1, <1>2, <2>1
<1>5. a = c
  BY <1>3, SeqEqual
<1>6. b = d
  BY <1>2, <1>4, SeqEqual
<1>7. QED
  BY <1>5, <1>6

(* The separator is harmless where no environment has one: then, or when   *)
(* all have as many, the Redis key tells all flags apart.                  *)
THEOREM PlainEnvironmentsKeepApart ==
  ASSUME NEW len \in Nat, \A e \in Env : Len(e) = len
  PROVE  CacheKeysDistinct
<1> SUFFICES ASSUME NEW m \in Name, NEW n \in Name, CacheKey(m) = CacheKey(n)
             PROVE  m = n
  BY DEF CacheKeysDistinct
<1>1. /\ m[1] \in Env /\ m[2] \in Key /\ n[1] \in Env /\ n[2] \in Key
      /\ m = <<m[1], m[2]>> /\ n = <<n[1], n[2]>>
  BY NamePair
<1>2. /\ m[1] \in Seq(STRING) /\ m[2] \in Seq(STRING)
      /\ n[1] \in Seq(STRING) /\ n[2] \in Seq(STRING)
  BY <1>1, FlagsAssumption
<1>3. Len(m[1]) = Len(n[1])
  BY <1>1
<1>4. ASSUME NEW a \in Seq(STRING), NEW b \in Seq(STRING),
             NEW c \in Seq(STRING), NEW d \in Seq(STRING),
             Len(a) = Len(c), CacheKey(<<a, b>>) = CacheKey(<<c, d>>)
      PROVE  a = c /\ b = d
  <2>1. a \o b = c \o d
    BY <1>4 DEF CacheKey
  <2>2. QED
    BY <1>4, <2>1, ConcatSplit
<1>5. m[1] = n[1] /\ m[2] = n[2]
  BY <1>1, <1>2, <1>3, <1>4
<1>6. QED
  BY <1>1, <1>5

LEMMA DistinctKeysGoodCache ==
  ASSUME CacheKeysDistinct, TypeOK, HoldsCommitted
  PROVE  GoodCache
<1> SUFFICES ASSUME NEW n \in Name, CacheGet(n) # NoFlag
             PROVE  CacheGet(n) \in committed /\ NameOf(CacheGet(n)) = n
  BY DEF GoodCache
<1>1. CacheGet(n) \in committed /\ CacheKey(NameOf(CacheGet(n))) = CacheKey(n)
  BY KeyOfName DEF HoldsCommitted, CacheGet
<1>2. NameOf(CacheGet(n)) \in Name
  BY <1>1, NameOfFlag DEF TypeOK
<1>3. QED
  BY <1>1, <1>2 DEF CacheKeysDistinct

LEMMA GetAnswer ==
  ASSUME TypeInv, HoldsCommitted, GoodCache,
         NEW t \in Threads, Step(t) \/ FaultyStep(t), req[t].op = "get"
  PROVE  GoodRows(response'.rows)
<1>1. ASSUME NEW status, NEW rows, Respond(t, status, rows), GoodRows(rows)
      PROVE  GoodRows(response'.rows)
  BY <1>1 DEF Respond
<1>2. ASSUME NEW p, Goto(t, p) PROVE GoodRows(response'.rows)
  BY <1>2 DEF Goto, NoResponse, GoodRows
<1>3. ASSUME NEW f, f = NoFlag \/ (f \in committed /\ NameOf(f) = req[t].name)
      PROVE  GoodRows({<<req[t].name, f>>})
  BY <1>3 DEF GoodRows
<1>4. /\ CacheGet(req[t].name) # NoFlag =>
           /\ CacheGet(req[t].name) \in committed
           /\ NameOf(CacheGet(req[t].name)) = req[t].name
      /\ local[t].result # NoFlag =>
           local[t].result \in committed /\ NameOf(local[t].result) = req[t].name
  BY ThreadFacts DEF GoodCache, HoldsCommitted, TypeInv
<1>5. /\ pc[t] \notin {"write", "audit", "invalidate"}
      /\ req[t].op \notin Evaluators
  BY DEF TypeInv, HandlersOK, HandlerOK, Mutators, Evaluators
<1>6. \A n : GoodRows({<<n, NoFlag>>})
  BY DEF GoodRows
<1>7. GoodRows({})
  BY DEF GoodRows
<1>8. ASSUME AnswerFill(t) PROVE GoodRows(response'.rows)
  BY <1>1, <1>3, <1>4, <1>8 DEF AnswerFill
<1>9. CASE LookupHit(t)
  BY <1>1, <1>3, <1>4, <1>9 DEF LookupHit
<1>10. CASE FindNothing(t)
  BY <1>1, <1>6, <1>10 DEF FindNothing
<1>11. CASE Step(t) /\ ~LookupHit(t) /\ ~FindNothing(t)
  BY <1>2, <1>5, <1>8, <1>11
  DEF Step, LookupMiss, FindRow, EvaluateOne, ListAll, Fill, WriteCommits,
      WriteRefused, Audit, AfterAudit, InvalidateEntry
<1>12. CASE FaultyStep(t)
  BY <1>1, <1>2, <1>5, <1>7, <1>8, <1>12
  DEF FaultyStep, LookupFails, CallFails, FillFails, WriteInDoubt, AuditFails,
      AfterAudit, InvalidateFails
<1>13. QED
  BY <1>9, <1>10, <1>11, <1>12

LEMMA GoodGetNext ==
  ASSUME HeldInv, GoodCache, GoodGet, [Next]_vars
  PROVE  GoodGet'
<1>1. TypeInv /\ TypeOK /\ HoldsCommitted /\ committed \subseteq committed'
  BY CommittedGrows DEF HeldInv, TableInv, TypeInv
<1>2. ASSUME NEW rows, GoodRows(rows) PROVE GoodRows(rows)'
  BY <1>1, <1>2 DEF GoodRows
<1>3. CASE response' = NoResponse
  BY <1>3 DEF GoodGet, GoodRows, NoResponse
<1>4. CASE response' = response
  BY <1>1, <1>4 DEF GoodGet, GoodRows
<1>5. ASSUME NEW t \in Threads, Step(t) \/ FaultyStep(t)
      PROVE  GoodGet'
  <2>1. response' = NoResponse \/ response'.req = req[t]
    <3>1. \/ \E p : Goto(t, p)
          \/ \E status, rows : Respond(t, status, rows)
      BY <1>5
      DEF Step, FaultyStep, LookupHit, LookupMiss, FindNothing, FindRow,
          EvaluateOne, ListAll, Fill, AnswerFill, WriteCommits, WriteRefused,
          Audit, AfterAudit, InvalidateEntry, AnswerMutation, LookupFails, CallFails,
          FillFails, WriteInDoubt, AuditFails, InvalidateFails
    <3>2. QED
      BY <3>1 DEF Goto, Respond
  <2>2. CASE response'.req = req[t] /\ req[t].op = "get"
    BY <1>1, <1>2, <1>5, <2>2, GetAnswer DEF GoodGet, GoodRows
  <2>3. QED
    BY <1>3, <2>1, <2>2 DEF GoodGet
<1>6. CASE \/ \E t \in Threads : Begin(t)
           \/ \E k \in RedisKey : ExpireEntry(k)
           \/ \E f \in late : LateSet(f)
           \/ \E n \in Name : WriteSettles(n)
           \/ \E i \in Instances : Crash(i)
  <2>1. ASSUME NEW t \in Threads, Begin(t) PROVE response' = NoResponse
    <3>1. PICK r : Start(t, r)
      BY <2>1 DEF Begin
    <3>2. QED
      BY <3>1 DEF Start
  <2>2. QED
    BY <1>3, <1>6, <2>1 DEF ExpireEntry, LateSet, WriteSettles, Crash
<1>7. CASE UNCHANGED vars
  BY <1>4, <1>7 DEF vars, clientVars
<1>8. QED
  BY <1>5, <1>6, <1>7 DEF Next

(* Where no two flags share a Redis key, a get is answered with a state    *)
(* that the flag asked for really had, whatever races and whatever fails.  *)
THEOREM GetsServeCommitted ==
  CacheKeysDistinct => (Spec => []GetServesCommitted)
<1> SUFFICES ASSUME CacheKeysDistinct PROVE Spec => []GetServesCommitted
    OBVIOUS
<1>1. HeldInv => GoodCache
  BY DistinctKeysGoodCache DEF HeldInv, TableInv, TypeInv
<1>2. Init => GoodGet
  BY DEF Init, NoResponse, GoodGet, GoodRows
<1>3. HeldInv /\ GoodGet /\ [Next]_vars => GoodGet'
  BY <1>1, GoodGetNext
<1>4. HeldInv /\ GoodGet => GetServesCommitted
  BY <1>1 DEF GoodCache, GoodGet, GoodRows, GetServesCommitted
<1>5. QED
  BY <1>2, <1>3, <1>4, HeldInvariant, PTL DEF Spec
-----------------------------------------------------------------------------
(* The copies that clients keep and revalidate *)

CopyInv == HeldInv /\ CopiesCommitted

LEMMA Answers ==
  ASSUME NEW t \in Threads, Step(t) \/ FaultyStep(t)
  PROVE  \/ \E p : Goto(t, p)
         \/ \E status \in Status \ {"not_modified"} : \E rows : Respond(t, status, rows)
         \/ LookupHit(t)
BY DEF Step, FaultyStep, LookupMiss, FindNothing, FindRow, EvaluateOne, ListAll, Fill,
       AnswerFill, WriteCommits, WriteRefused, Audit, AfterAudit, InvalidateEntry,
       AnswerMutation, LookupFails, CallFails, FillFails, WriteInDoubt, AuditFails,
       InvalidateFails, Status

(* What a get finds in the cache was committed, if only for a flag with the *)
(* same Redis key.                                                          *)
LEMMA HitCommitted ==
  ASSUME HeldInv, NEW t \in Threads, CacheGet(req[t].name) # NoFlag
  PROVE  CacheGet(req[t].name) \in committed
BY ThreadFacts, KeyOfName DEF HeldInv, TableInv, TypeInv, HoldsCommitted, CacheGet

LEMMA CopyServed ==
  ASSUME HeldInv, NEW t \in Threads, Begin(t) \/ Step(t) \/ FaultyStep(t), NEW n \in Name
  PROVE  copy'[n] \in {copy[n], NoFlag} \cup committed
<1>1. TypeOK /\ copy \in [Name -> FlagOrNone]
  BY DEF HeldInv, TableInv, TypeInv, TypeOK
<1>2. ASSUME NEW m, NEW f \in {NoFlag} \cup committed, Served(m, f)
      PROVE  copy'[n] \in {copy[n], NoFlag} \cup committed
  BY <1>1, <1>2 DEF Served
<1>3. CASE LookupHit(t)
  BY <1>2, <1>3, HitCommitted DEF LookupHit
<1>4. CASE AnswerFill(t)
  <2>1. local[t].result \in {NoFlag} \cup committed
    BY DEF HeldInv, HoldsCommitted
  <2>2. QED
    BY <1>2, <1>4, <2>1 DEF AnswerFill
<1>5. CASE ~LookupHit(t) /\ ~AnswerFill(t)
  <2>1. copy' = copy
    BY <1>5
    DEF Begin, Step, FaultyStep, LookupMiss, FindNothing, FindRow, EvaluateOne, ListAll,
        Fill, WriteCommits, WriteRefused, Audit, AfterAudit, InvalidateEntry,
        AnswerMutation, LookupFails, CallFails, FillFails, WriteInDoubt, AuditFails,
        InvalidateFails
  <2>2. QED
    BY <2>1
<1>6. QED
  BY <1>3, <1>4, <1>5

LEMMA CopyAsked ==
  ASSUME TypeOK, NEW t \in Threads, Begin(t) \/ Step(t) \/ FaultyStep(t)
  PROVE  req'[t].inm \in {NoFlag, req[t].inm} \cup {copy[n] : n \in Name}
<1>1. CASE Begin(t)
  <2>1. PICK r : Start(t, r) /\ r.inm \in {NoFlag} \cup {copy[n] : n \in Name}
    <3>1. PICK op \in Operation, n \in Name :
            \/ Start(t, Blank(op, n))
            \/ \E f \in {NoFlag, copy[n]} : Start(t, [Blank(op, n) EXCEPT !.inm = f])
            \/ \E b \in Body, e \in BOOLEAN :
                 Start(t, [Blank(op, n) EXCEPT !.body = b, !.enabled = e])
            \/ \E ns : Start(t, [Blank(op, n) EXCEPT !.names = ns])
      BY <1>1 DEF Begin
    <3>2. PICK q : /\ Start(t, q)
                   /\ \/ q = Blank(op, n)
                      \/ \E f \in {NoFlag, copy[n]} : q = [Blank(op, n) EXCEPT !.inm = f]
                      \/ \E b, e : q = [Blank(op, n) EXCEPT !.body = b, !.enabled = e]
                      \/ \E ns : q = [Blank(op, n) EXCEPT !.names = ns]
      BY <3>1
    <3>3. q.inm = NoFlag \/ q.inm = copy[n]
      <4>1. CASE \E f \in {NoFlag, copy[n]} : q = [Blank(op, n) EXCEPT !.inm = f]
        BY <4>1 DEF Blank
      <4>2. CASE q = Blank(op, n)
        BY <4>2 DEF Blank
      <4>3. CASE \E b, e : q = [Blank(op, n) EXCEPT !.body = b, !.enabled = e]
        BY <4>3 DEF Blank
      <4>4. CASE \E ns : q = [Blank(op, n) EXCEPT !.names = ns]
        BY <4>4 DEF Blank
      <4>5. QED
        BY <3>2, <4>1, <4>2, <4>3, <4>4
    <3>4. QED
      BY <3>2, <3>3
  <2>2. req'[t] = r
    BY <2>1 DEF Start, TypeOK
  <2>3. QED
    BY <2>1, <2>2
<1>2. CASE \E p : Goto(t, p)
  BY <1>2 DEF Goto
<1>3. CASE \E status, rows : Respond(t, status, rows)
  <2>1. req'[t] = NoRequest
    BY <1>3 DEF Respond, TypeOK
  <2>2. QED
    BY <2>1 DEF NoRequest, Blank
<1>4. QED
  BY <1>1, <1>2, <1>3, Answers DEF LookupHit

LEMMA CopiesNext == CopyInv /\ [Next]_vars => CopyInv'
<1> SUFFICES ASSUME CopyInv, [Next]_vars PROVE CopyInv'
  OBVIOUS
<1>1. HeldInv /\ HeldInv' /\ TypeInv /\ TypeOK
  BY HeldInvNext DEF CopyInv, HeldInv, TableInv, TypeInv
<1>2. committed \subseteq committed'
  BY <1>1, CommittedGrows
<1>3. \A n \in Name : copy[n] \in {NoFlag} \cup committed
  BY DEF CopyInv, CopiesCommitted
<1>4. \A t \in Threads : req[t].inm \in {NoFlag} \cup committed
  BY DEF CopyInv, CopiesCommitted
<1>5. ASSUME NEW t \in Threads, Begin(t) \/ Step(t) \/ FaultyStep(t)
      PROVE  CopiesCommitted'
  <2>1. \A n \in Name : copy'[n] \in {NoFlag} \cup committed
    BY <1>1, <1>3, <1>5, CopyServed
  <2>2. req'[t].inm \in {NoFlag} \cup committed
    BY <1>1, <1>3, <1>4, <1>5, CopyAsked
  <2>3. \A u \in Threads \ {t} : req'[u].inm \in {NoFlag} \cup committed
    BY <1>1, <1>4, <1>5, OthersUntouched
  <2>4. QED
    BY <1>2, <2>1, <2>2, <2>3 DEF CopiesCommitted
<1>6. CASE \/ \E n \in Name : WriteSettles(n)
           \/ \E k \in RedisKey : ExpireEntry(k)
           \/ \E f \in late : LateSet(f)
           \/ UNCHANGED vars
  <2>1. copy' = copy /\ req' = req
    BY <1>6 DEF WriteSettles, ExpireEntry, LateSet, threadVars, clientVars, vars
  <2>2. (\A n \in Name : copy'[n] \in {NoFlag} \cup committed) /\
        (\A t \in Threads : req'[t].inm \in {NoFlag} \cup committed)
    BY <1>3, <1>4, <2>1
  <2>3. QED
    BY <1>1, <1>2, <2>2 DEF CopyInv, CopiesCommitted
<1>7. ASSUME NEW i \in Instances, Crash(i)
      PROVE  CopiesCommitted'
  <2>1. NoRequest.inm = NoFlag
    BY DEF NoRequest, Blank
  <2>2. copy' = copy /\ \A t \in Threads : req'[t] \in {req[t], NoRequest}
    BY <1>7 DEF Crash
  <2>3. \A t \in Threads : req'[t].inm \in {NoFlag} \cup committed
    BY <1>4, <2>1, <2>2
  <2>4. QED
    BY <1>2, <1>3, <2>2, <2>3 DEF CopiesCommitted
<1>8. QED
  BY <1>1, <1>5, <1>6, <1>7 DEF Next, CopyInv

THEOREM CopiesInvariant == Spec => []CopyInv
<1>1. Init => CopyInv
  <2>1. NoRequest.inm = NoFlag
    BY DEF NoRequest, Blank
  <2>2. QED
    BY <2>1, HeldInvInit DEF Init, CopyInv, CopiesCommitted
<1>2. QED
  BY <1>1, CopiesNext, PTL DEF Spec

LEMMA SameRowNext ==
  ASSUME CopyInv, NotModifiedSameRow, [Next]_vars
  PROVE  NotModifiedSameRow'
<1>1. CASE response' = NoResponse
  BY <1>1 DEF NotModifiedSameRow, NoResponse
<1>2. ASSUME NEW t \in Threads, NEW status \in Status \ {"not_modified"}, NEW rows,
             Respond(t, status, rows)
      PROVE  NotModifiedSameRow'
  BY <1>2 DEF Respond, NotModifiedSameRow
<1>3. ASSUME NEW t \in Threads, LookupHit(t)
      PROVE  NotModifiedSameRow'
  <2>1. PICK c : c = CacheGet(req[t].name)
    OBVIOUS
  <2>2. c \in committed
    BY <1>3, <2>1, HitCommitted DEF CopyInv, LookupHit
  <2>3. CASE req[t].inm # NoFlag /\ req[t].inm.version = c.version
    <3>1. response'.req = req[t] /\ response'.rows = {<<req[t].name, c>>}
      BY <1>3, <2>1, <2>3 DEF LookupHit, Respond
    <3>2. req[t].inm \in committed
      BY <2>3 DEF CopyInv, CopiesCommitted
    <3>3. c.id = req[t].inm.id => c = req[t].inm
      BY <2>2, <2>3, <3>2 DEF CopyInv, HeldInv, TableInv, VersionIdentifiesContent
    <3>4. QED
      BY <3>1, <3>3 DEF NotModifiedSameRow
  <2>4. CASE ~(req[t].inm # NoFlag /\ req[t].inm.version = c.version)
    BY <1>2, <1>3, <2>1, <2>4 DEF LookupHit, Status
  <2>5. QED
    BY <2>3, <2>4
<1>4. ASSUME NEW t \in Threads, Step(t) \/ FaultyStep(t)
      PROVE  NotModifiedSameRow'
  BY <1>1, <1>2, <1>3, <1>4, Answers DEF Goto
<1>5. CASE \/ \E t \in Threads : Begin(t)
           \/ \E k \in RedisKey : ExpireEntry(k)
           \/ \E f \in late : LateSet(f)
           \/ \E n \in Name : WriteSettles(n)
           \/ \E i \in Instances : Crash(i)
  <2>1. ASSUME NEW t \in Threads, Begin(t) PROVE response' = NoResponse
    <3>1. PICK r : Start(t, r)
      BY <2>1 DEF Begin
    <3>2. QED
      BY <3>1 DEF Start
  <2>2. QED
    BY <1>1, <1>5, <2>1 DEF ExpireEntry, LateSet, WriteSettles, Crash
<1>6. CASE UNCHANGED vars
  BY <1>6 DEF vars, clientVars, NotModifiedSameRow
<1>7. QED
  BY <1>4, <1>5, <1>6 DEF Next

(* A 304 for a row that was not replaced in between is right about every   *)
(* field, although only versions are compared: with any number of clients' *)
(* copies, writers, failures and environments that share Redis keys.       *)
THEOREM RevalidationIsSound == Spec => []NotModifiedSameRow
<1>1. Init => NotModifiedSameRow
  BY DEF Init, NoResponse, NotModifiedSameRow
<1>2. QED
  BY <1>1, SameRowNext, CopiesInvariant, PTL DEF Spec
=============================================================================
