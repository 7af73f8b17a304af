----------------------------- MODULE FlagServer -----------------------------
(***************************************************************************)
(* The request handlers of FlagController with the FlagService methods     *)
(* they call, run by the worker threads of one or more server instances    *)
(* over one PostgreSQL (FlagStore) and one Redis (CacheService).           *)
(*                                                                         *)
(* A handler runs to its end on the thread that received the request.  It  *)
(* is cut where another thread can act: at each repository or cache call.  *)
(* pc[t] names the next call:                                              *)
(*                                                                         *)
(*   get            lookup -> find -> fill                                 *)
(*   evaluate       lookup -> find                                         *)
(*   evaluate_bulk  find, once per key                                     *)
(*   list           find, once for all keys                                *)
(*   create         write -> audit                                         *)
(*   update, toggle, delete   find -> write -> audit -> invalidate         *)
(*                                                                         *)
(* Any PostgreSQL call can fail, before its commit or after it; any Redis  *)
(* command can fail; an instance can crash.  MaxFaults bounds these.       *)
(***************************************************************************)
EXTENDS FlagStore, CacheService

CONSTANTS
  Threads,     \* the worker threads of all instances
  Instances,   \* the server processes, each the set of its threads
  Asked,       \* <<op, n>>: clients ask for operation op on flag n
  Kept,        \* the names of the flags whose answers a client keeps
  MaxFlags,    \* bound: rows ever created
  MaxFaults    \* bound: failed calls and crashes

Mutators == {"update", "toggle", "delete"}
Evaluators == {"evaluate", "evaluate_bulk"}
Operation == {"get", "list", "create"} \cup Mutators \cup Evaluators

ASSUME ServerAssumption ==
  /\ UNION Instances = Threads
  /\ Asked \subseteq Operation \X Name
  /\ Kept \subseteq Name
  /\ MaxFlags \in Nat /\ MaxFaults \in Nat

VARIABLES
  pc,          \* pc[t]: the next call of t's handler, or "idle"
  req,         \* req[t]: the request t serves
  local,       \* local[t]: the handler's local variables
  response,    \* the response sent by the last step, if it sent one
  copy,        \* copy[n]: the flag one client keeps, received with an ETag
  faults,      \* number of faults so far
  committed,   \* history: every row any transaction ever committed
  seen,        \* history: the rows req[t].names had while t served req[t]
  raced        \* history: Redis keys whose entry was outdated when written

threadVars == <<pc, req, local>>
clientVars == <<response, copy>>
historyVars == <<committed, seen, raced>>
vars == <<storeVars, cacheVars, threadVars, clientVars, faults, historyVars>>

Request == [op      : Operation,
            name    : Name,             \* the flag addressed
            names   : SUBSET Name,      \* all of them, for list and evaluate_bulk
            body    : Body,             \* JSON body of create and update
            enabled : BOOLEAN,
            inm     : FlagOrNone]       \* the copy If-None-Match speaks of

(* existing and result are FlagService's locals, rows what a response will *)
(* say about each name, todo the names still to be evaluated.              *)
Local == [existing : FlagOrNone, result : FlagOrNone,
          todo : SUBSET Name, rows : SUBSET (Name \X FlagOrNone)]

Fresh == [existing |-> NoFlag, result |-> NoFlag, todo |-> {}, rows |-> {}]

Blank(op, n) ==
  [op |-> op, name |-> n, names |-> {n}, inm |-> NoFlag,
   body |-> CHOOSE b \in Body : TRUE, enabled |-> TRUE]

(* req[t] while t serves no request. *)
NoRequest == Blank("get", CHOOSE n \in Name : TRUE)

Status == {"none", "ok", "not_modified", "not_found", "conflict", "error"}

Response == [req : Request, status : Status, rows : SUBSET (Name \X FlagOrNone)]

NoResponse == [req |-> NoRequest, status |-> "none", rows |-> {}]

Call == {"idle", "lookup", "find", "fill", "write", "audit", "invalidate"}

TypeOK ==
  /\ StoreTypeOK
  /\ doubt \in [Name -> Request]
  /\ CacheTypeOK
  /\ pc \in [Threads -> Call]
  /\ req \in [Threads -> Request]
  /\ local \in [Threads -> Local]
  /\ response \in Response
  /\ copy \in [Name -> FlagOrNone]
  /\ faults \in Nat
  /\ committed \subseteq Flag
  /\ seen \in [Threads -> SUBSET (Name \X FlagOrNone)]
  /\ raced \subseteq RedisKey

Init ==
  /\ StoreInit
  /\ doubt = [n \in Name |-> NoRequest]
  /\ CacheInit
  /\ pc = [t \in Threads |-> "idle"]
  /\ req = [t \in Threads |-> NoRequest]
  /\ local = [t \in Threads |-> Fresh]
  /\ response = NoResponse
  /\ copy = [n \in Name |-> NoFlag]
  /\ faults = 0
  /\ committed = Seed
  /\ seen = [t \in Threads |-> {}]
  /\ raced = {}
-----------------------------------------------------------------------------
(* Thread t goes on to the call named p, or it is done with its request.   *)
Goto(t, p) == pc' = [pc EXCEPT ![t] = p] /\ response' = NoResponse /\ UNCHANGED req

Respond(t, status, rows) ==
  /\ pc' = [pc EXCEPT ![t] = "idle"]
  /\ req' = [req EXCEPT ![t] = NoRequest]
  /\ local' = [local EXCEPT ![t] = Fresh]
  /\ response' = [req |-> req[t], status |-> status, rows |-> rows]

(* A get was answered with flag f, to the client that keeps its answers or  *)
(* to another one.                                                         *)
Served(n, f) == \/ UNCHANGED copy
                \/ n \in Kept /\ copy' = [copy EXCEPT ![n] = f]

Fault == faults < MaxFaults /\ faults' = faults + 1

(* What the histories record of a step that commits row v under name n, and *)
(* of one that commits nothing.                                            *)
Observe(n, v) ==
  /\ committed' = committed \cup ({v} \ {NoFlag})
  /\ seen' = [t \in Threads |->
                IF pc'[t] = "idle" THEN {}
                ELSE IF n \in req[t].names THEN seen[t] \cup {<<n, v>>}
                ELSE seen[t]]

NoCommit ==
  /\ seen' = [t \in Threads |-> IF pc'[t] = "idle" THEN {} ELSE seen[t]]
  /\ UNCHANGED committed
-----------------------------------------------------------------------------
(* Requests *)
FirstCall(op) ==
  CASE op \in {"get", "evaluate"} -> "lookup"
    [] op = "create"              -> "write"
    [] OTHER                      -> "find"

Start(t, r) ==
  /\ pc' = [pc EXCEPT ![t] = FirstCall(r.op)]
  /\ req' = [req EXCEPT ![t] = r]
  /\ local' = [local EXCEPT ![t].todo = r.names]
  /\ response' = NoResponse
  /\ seen' = [seen EXCEPT ![t] = {<<n, flags[n]>> : n \in r.names}]

(* Creations under way, which are to stay within MaxFlags. *)
Creating == {t \in Threads : pc[t] # "idle" /\ req[t].op = "create"}
            \cup {n \in Name : doubt[n].op = "create"}

(* A list is of the environment of n, or of all when none is given; the     *)
(* keys of an evaluate_bulk are of one environment.                        *)
Begin(t) ==
  /\ pc[t] = "idle"
  /\ \E op \in Operation, n \in Name :
       /\ <<op, n>> \in Asked
       /\ \/ op \in {"toggle", "delete", "evaluate"} /\ Start(t, Blank(op, n))
          \/ op = "get" /\ \E f \in {NoFlag, copy[n]} :
               Start(t, [Blank(op, n) EXCEPT !.inm = f])
          \/ op = "update" /\ \E b \in Body, e \in BOOLEAN :
               Start(t, [Blank(op, n) EXCEPT !.body = b, !.enabled = e])
          \/ /\ op = "create" /\ nextId + Cardinality(Creating) <= MaxFlags
             /\ \E b \in Body, e \in BOOLEAN :
                  Start(t, [Blank(op, n) EXCEPT !.body = b, !.enabled = e])
          \/ op = "evaluate_bulk" /\ \E ns \in SUBSET ({n[1]} \X Key) :
               n \in ns /\ Start(t, [Blank(op, n) EXCEPT !.names = ns])
          \/ op = "list" /\ \E ns \in {{n[1]} \X Key, Name} :
               Start(t, [Blank(op, n) EXCEPT !.names = ns])
  /\ UNCHANGED <<storeVars, cacheVars, copy, faults, committed, raced>>
-----------------------------------------------------------------------------
(* cache.get_flag: a hit answers a get, with 304 when the client's copy    *)
(* has the version of the cached flag; evaluate drops what it gets.        *)
LookupHit(t) ==
  LET n == req[t].name
      c == CacheGet(n) IN
  /\ pc[t] = "lookup" /\ req[t].op = "get" /\ c # NoFlag
  /\ IF req[t].inm # NoFlag /\ req[t].inm.version = c.version
     THEN Respond(t, "not_modified", {<<n, c>>}) /\ UNCHANGED copy
     ELSE Respond(t, "ok", {<<n, c>>}) /\ Served(n, c)
  /\ NoCommit
  /\ UNCHANGED <<storeVars, cacheVars, faults, raced>>

LookupMiss(t) ==
  /\ pc[t] = "lookup"
  /\ req[t].op = "evaluate" \/ CacheGet(req[t].name) = NoFlag
  /\ Goto(t, "find")
  /\ UNCHANGED <<storeVars, cacheVars, local, copy, faults, historyVars>>

LookupFails(t) ==
  /\ pc[t] = "lookup" /\ Fault
  /\ Goto(t, "find")
  /\ UNCHANGED <<storeVars, cacheVars, local, copy, historyVars>>
-----------------------------------------------------------------------------
(* flag_repo_.find_by_key *)
FindNothing(t) ==
  /\ pc[t] = "find" /\ req[t].op # "list"
  /\ \E n \in local[t].todo :
       /\ FindByKey(n) = NoFlag
       /\ Respond(t, "not_found", {<<n, NoFlag>>})
  /\ NoCommit
  /\ UNCHANGED <<storeVars, cacheVars, copy, faults, raced>>

(* FlagController::get_flag and the three mutators go on with the row.     *)
FindRow(t) ==
  LET row == FindByKey(req[t].name) IN
  /\ pc[t] = "find" /\ req[t].op \in {"get"} \cup Mutators /\ row # NoFlag
  /\ IF req[t].op = "get"
     THEN local' = [local EXCEPT ![t].result = row] /\ Goto(t, "fill")
     ELSE local' = [local EXCEPT ![t].existing = row] /\ Goto(t, "write")
  /\ UNCHANGED <<storeVars, cacheVars, copy, faults, historyVars>>

(* Wrong on purpose: evaluating the cached flag where there is one. *)
EvaluateCached(t) ==
  /\ pc[t] = "find" /\ req[t].op \in Evaluators
  /\ \E n \in local[t].todo :
       LET row  == IF CacheGet(n) # NoFlag THEN CacheGet(n) ELSE FindByKey(n)
           rows == local[t].rows \cup {<<n, row>>} IN
       /\ row # NoFlag
       /\ IF local[t].todo = {n}
          THEN Respond(t, "ok", rows)
          ELSE /\ local' = [local EXCEPT ![t].todo = @ \ {n}, ![t].rows = rows]
               /\ Goto(t, "find")
  /\ NoCommit
  /\ UNCHANGED <<storeVars, cacheVars, copy, faults, raced>>

(* FlagService::evaluate, in the loop of evaluate_bulk or on its own: a    *)
(* result per name, from the row as it is when its turn comes.             *)
EvaluateOne(t) ==
  /\ pc[t] = "find" /\ req[t].op \in Evaluators
  /\ \E n \in local[t].todo :
       LET rows == local[t].rows \cup {<<n, FindByKey(n)>>} IN
       /\ FindByKey(n) # NoFlag
       /\ IF local[t].todo = {n}
          THEN Respond(t, "ok", rows)
          ELSE /\ local' = [local EXCEPT ![t].todo = @ \ {n}, ![t].rows = rows]
               /\ Goto(t, "find")
  /\ NoCommit
  /\ UNCHANGED <<storeVars, cacheVars, copy, faults, raced>>

(* flag_repo_.list, one statement for all names. *)
ListAll(t) ==
  /\ pc[t] = "find" /\ req[t].op = "list"
  /\ Respond(t, "ok", ListRows(req[t].names))
  /\ NoCommit
  /\ UNCHANGED <<storeVars, cacheVars, copy, faults, raced>>

(* A call that fails before its commit, and the handler with it.           *)
CallFails(t) ==
  /\ pc[t] \in {"find", "write"} /\ Fault
  /\ Respond(t, "error", {})
  /\ NoCommit
  /\ UNCHANGED <<storeVars, cacheVars, copy, raced>>

(* What the history makes of an entry written with flag f. *)
RacedBy(f) == IF flags[NameOf(f)] = f THEN raced \ {CacheKey(NameOf(f))}
                                      ELSE raced \cup {CacheKey(NameOf(f))}

(* cache.set_flag, then the response with the flag that was read.          *)
AnswerFill(t) ==
  /\ Respond(t, "ok", {<<req[t].name, local[t].result>>})
  /\ Served(req[t].name, local[t].result)
  /\ NoCommit
  /\ UNCHANGED storeVars

Fill(t) ==
  /\ pc[t] = "fill"
  /\ SetFlag(local[t].result)
  /\ raced' = RacedBy(local[t].result)
  /\ AnswerFill(t)
  /\ UNCHANGED <<late, faults>>

FillFails(t) ==
  /\ pc[t] = "fill" /\ Fault
  /\ late' \in {late, late \cup {local[t].result}}
  /\ AnswerFill(t)
  /\ UNCHANGED <<cache, raced>>
-----------------------------------------------------------------------------
(* flag_repo_.create, update, toggle or remove. *)
Apply(r) ==
  \/ r.op = "create" /\ Create(r.name, r.body, r.enabled)
  \/ r.op = "update" /\ Update(r.name, r.body, r.enabled)
  \/ r.op = "toggle" /\ Toggle(r.name)
  \/ r.op = "delete" /\ Remove(r.name)

(* Wrong on purpose: a toggle writes the opposite of what it had found. *)
WriteFound(t) ==
  LET n == req[t].name
      found == local[t].existing IN
  /\ pc[t] = "write"
  /\ IF req[t].op = "toggle" THEN Update(n, found.body, ~found.enabled) ELSE Apply(req[t])
  /\ doubt' = [doubt EXCEPT ![n] = NoRequest]
  /\ local' = [local EXCEPT ![t].result = flags'[n]]
  /\ Goto(t, "audit")
  /\ Observe(n, flags'[n])
  /\ UNCHANGED <<cacheVars, copy, faults, raced>>

(* A write in doubt on the same row has its lock: by now it is settled.     *)
WriteCommits(t) ==
  LET n == req[t].name IN
  /\ pc[t] = "write" /\ Apply(req[t])
  /\ doubt' = [doubt EXCEPT ![n] = NoRequest]
  /\ local' = [local EXCEPT ![t].result = flags'[n]]
  /\ Goto(t, "audit")
  /\ Observe(n, flags'[n])
  /\ UNCHANGED <<cacheVars, copy, faults, raced>>

(* Wrong on purpose: after a commit in doubt the statement is run again. *)
WriteRetried(t) ==
  /\ pc[t] = "write" /\ Fault /\ Apply(req[t])
  /\ Goto(t, "write")
  /\ Observe(req[t].name, flags'[req[t].name])
  /\ UNCHANGED <<doubt, cacheVars, copy, raced, local>>

(* flags allows the statement of request r. *)
Accepts(r) ==
  \/ r.op = "create" /\ flags[r.name] = NoFlag
  \/ r.op \in {"update", "toggle"} /\ CanBump(r.name)
  \/ r.op = "delete" /\ flags[r.name] # NoFlag

(* The connection breaks while the commit is under way: the handler reports *)
(* an error, and PostgreSQL commits some time later, or never.              *)
WriteInDoubt(t) ==
  /\ pc[t] = "write" /\ Fault /\ Accepts(req[t])
  /\ doubt' = [doubt EXCEPT ![req[t].name] = req[t]]
  /\ Respond(t, "error", {})
  /\ NoCommit
  /\ UNCHANGED <<flags, audit_log, nextId, cacheVars, copy, raced>>

WriteSettles(n) ==
  /\ Apply(doubt[n])
  /\ doubt' = [doubt EXCEPT ![n] = NoRequest]
  /\ response' = NoResponse
  /\ UNCHANGED <<cacheVars, threadVars, copy, faults, raced>>
  /\ Observe(n, flags'[n])

(* The statement fails (name taken, version out of range) or finds no row. *)
WriteRefused(t) ==
  LET n == req[t].name IN
  /\ pc[t] = "write"
  /\ \/ /\ req[t].op = "create" /\ flags[n] # NoFlag
        /\ Respond(t, "conflict", {<<n, flags[n]>>})
     \/ /\ req[t].op # "create" /\ flags[n] = NoFlag
        /\ Respond(t, "not_found", {<<n, NoFlag>>})
     \/ /\ req[t].op \in {"update", "toggle"} /\ flags[n] # NoFlag /\ ~CanBump(n)
        /\ Respond(t, "error", {})
  /\ NoCommit
  /\ UNCHANGED <<storeVars, cacheVars, copy, faults, raced>>
-----------------------------------------------------------------------------
(* Wrong on purpose: prev_value taken after the write. *)
EntryAfterWrite(t) ==
  [flag_id    |-> IF req[t].op = "delete" THEN local[t].existing.id
                                          ELSE local[t].result.id,
   action     |-> req[t].op,
   prev_value |-> local[t].result,
   new_value  |-> local[t].result]

(* The entry FlagService composes: the row it wrote, or, for a delete, the *)
(* row it had found, is the one the entry belongs to.                      *)
Entry(t) ==
  [flag_id    |-> IF req[t].op = "delete" THEN local[t].existing.id
                                          ELSE local[t].result.id,
   action     |-> req[t].op,
   prev_value |-> local[t].existing,
   new_value  |-> local[t].result]

(* Wrong on purpose: toggle_flag responds without invalidating. *)
AfterAuditToggleDone(t) ==
  /\ pc[t] = "audit"
  /\ IF req[t].op \in {"create", "toggle"}
     THEN Respond(t, "ok", {<<req[t].name, local[t].result>>})
     ELSE Goto(t, "invalidate") /\ UNCHANGED local
  /\ NoCommit
  /\ UNCHANGED <<cacheVars, copy, raced>>

(* create_flag has no cache entry to invalidate and responds.              *)
AfterAudit(t) ==
  /\ pc[t] = "audit"
  /\ IF req[t].op = "create"
     THEN Respond(t, "ok", {<<req[t].name, local[t].result>>})
     ELSE Goto(t, "invalidate") /\ UNCHANGED local
  /\ NoCommit
  /\ UNCHANGED <<cacheVars, copy, raced>>

(* Wrong on purpose: toggles are not logged. *)
AuditButToggles(t) ==
  /\ AfterAudit(t)
  /\ IF req[t].op = "toggle" THEN UNCHANGED storeVars ELSE LogAction(Entry(t))
  /\ UNCHANGED faults

(* audit_repo_.log_action, whose result nobody looks at. *)
Audit(t) == AfterAudit(t) /\ LogAction(Entry(t)) /\ UNCHANGED faults

AuditFails(t) == AfterAudit(t) /\ Fault /\ UNCHANGED storeVars

(* cache_service().invalidate, then the response. *)
AnswerMutation(t) ==
  /\ Respond(t, "ok", {<<req[t].name, local[t].result>>})
  /\ NoCommit
  /\ UNCHANGED <<storeVars, late, copy>>

InvalidateEntry(t) ==
  /\ pc[t] = "invalidate"
  /\ Invalidate(req[t].name)
  /\ raced' = raced \ {CacheKey(req[t].name)}
  /\ AnswerMutation(t)
  /\ UNCHANGED faults

(* A DEL that is late is this step and then ExpireEntry. *)
InvalidateFails(t) ==
  /\ pc[t] = "invalidate" /\ Fault
  /\ AnswerMutation(t)
  /\ UNCHANGED <<cache, raced>>
-----------------------------------------------------------------------------
(* Redis: entries expire, and a SETEX given up by its client still runs.   *)
ExpireEntry(k) ==
  /\ Expire(k)
  /\ raced' = raced \ {k}
  /\ response' = NoResponse
  /\ UNCHANGED <<storeVars, threadVars, copy, faults, committed, seen>>

LateSet(f) ==
  /\ SetFlag(f)
  /\ late' = late \ {f}
  /\ raced' = RacedBy(f)
  /\ response' = NoResponse
  /\ UNCHANGED <<storeVars, threadVars, copy, faults, committed, seen>>

(* An instance dies; what it was doing is lost, both stores remain.        *)
Crash(i) ==
  /\ \E t \in i : pc[t] # "idle"
  /\ Fault
  /\ pc' = [t \in Threads |-> IF t \in i THEN "idle" ELSE pc[t]]
  /\ req' = [t \in Threads |-> IF t \in i THEN NoRequest ELSE req[t]]
  /\ local' = [t \in Threads |-> IF t \in i THEN Fresh ELSE local[t]]
  /\ response' = NoResponse
  /\ NoCommit
  /\ UNCHANGED <<storeVars, cacheVars, copy, raced>>
-----------------------------------------------------------------------------
(* The handler's own steps, which it takes without waiting for anyone.     *)
Step(t) ==
  \/ LookupHit(t) \/ LookupMiss(t)
  \/ FindNothing(t) \/ FindRow(t) \/ EvaluateOne(t) \/ ListAll(t)
  \/ Fill(t)
  \/ WriteCommits(t) \/ WriteRefused(t)
  \/ Audit(t) \/ InvalidateEntry(t)

FaultyStep(t) ==
  \/ LookupFails(t) \/ CallFails(t) \/ FillFails(t)
  \/ WriteInDoubt(t) \/ AuditFails(t) \/ InvalidateFails(t)

Next ==
  \/ \E t \in Threads : Begin(t) \/ Step(t) \/ FaultyStep(t)
  \/ \E n \in Name : WriteSettles(n)
  \/ \E k \in RedisKey : ExpireEntry(k)
  \/ \E f \in late : LateSet(f)
  \/ \E i \in Instances : Crash(i)

Spec == Init /\ [][Next]_vars

(* Redis expires keys.  The handlers need not come to an end.              *)
FairSpec == Spec /\ \A k \in RedisKey : WF_vars(ExpireEntry(k))
-----------------------------------------------------------------------------
(***************************************************************************)
(* Safety                                                                  *)
(***************************************************************************)

(* The pair of a row's id and its version, all a client can compare, names *)
(* one content: no two committed states of a row share a version, whatever *)
(* updates, toggles and failures interleave.                               *)
VersionIdentifiesContent ==
  \A f, g \in committed : f.id = g.id /\ f.version = g.version => f = g

(* What get_flag serves, from the cache or not, is a state the flag asked  *)
(* for really had: nothing is made up, mixed or filed under another name.  *)
GetServesCommitted ==
  /\ \A n \in Name : CacheGet(n) # NoFlag =>
       CacheGet(n) \in committed /\ NameOf(CacheGet(n)) = n
  /\ response.req.op = "get" =>
       \A r \in response.rows :
         r[2] # NoFlag => r[2] \in committed /\ NameOf(r[2]) = r[1]

(* Of a row that was not replaced, a 304 says that the client's copy is     *)
(* exactly what would have been sent: updates and toggles through any       *)
(* interleaving and failure leave no two contents under one version.        *)
NotModifiedSameRow ==
  response.status = "not_modified" =>
    \A r \in response.rows : r[2].id = response.req.inm.id => r[2] = response.req.inm

(* Every other answer is true of the database at some moment between the   *)
(* request and the response: an evaluation uses a row current within it,   *)
(* an acknowledged mutation is committed, a flag reported missing (or      *)
(* already there) was, however outdated the cache may be.                  *)
AnswersFresh ==
  [][\A t \in Threads :
       pc[t] # "idle" /\ pc'[t] = "idle" /\ req[t].op # "get" =>
         response'.rows \subseteq seen[t]]_vars

(* The requests under way as FlagBoard sees them: one is done once its row  *)
(* is committed, and then its answer is that row.                          *)
Underway(t) ==
  IF pc[t] \in {"audit", "invalidate"}
  THEN [req |-> req[t], done |-> TRUE, rows |-> {<<req[t].name, local[t].result>>}]
  ELSE [req |-> req[t], done |-> FALSE, rows |-> local[t].rows]

requests == [t \in {u \in Threads : pc[u] # "idle"} |-> Underway(t)]

writesInDoubt == {doubt[n] : n \in Name} \ {NoRequest}

Board == INSTANCE FlagBoard
         WITH board <- flags, past <- committed, served <- requests, said <- response,
              unsettled <- writesInDoubt

(* The handlers, with all their calls, caches, failures and crashes, serve  *)
(* a board whose changes take effect at one moment: no toggle or update is *)
(* lost under another one, none happens twice or after its answer, none is *)
(* acknowledged that did not happen, and an evaluation misses no flag.     *)
ServesTheBoard == Board!BoardSpec

(* f is a later state of the same name than g. *)
Later(f, g) == f.id > g.id \/ (f.id = g.id /\ f.version > g.version)

(* An audit entry shows two states the flag really had, in order: new_value *)
(* is a state of the row the entry belongs to, prev_value an earlier state  *)
(* of the same name, though the two are read by separate transactions.      *)
AuditFaithful ==
  \A e \in audit_log :
    /\ e.new_value \in committed /\ e.new_value.id = e.flag_id
    /\ e.prev_value # NoFlag => /\ e.prev_value \in committed
                                /\ NameOf(e.prev_value) = NameOf(e.new_value)
                                /\ Later(e.new_value, e.prev_value)

(* t has committed version v of row i and not written its audit entry yet. *)
AuditPending(t, i, v) ==
  /\ pc[t] = "audit" /\ local[t].result # NoFlag
  /\ local[t].result.id = i /\ local[t].result.version = v

(* As long as nothing fails, each version of a flag that still exists is   *)
(* in the audit log under the id of its row, or a handler is about to      *)
(* log it; the seeded version is the exception.                            *)
AuditComplete ==
  faults = 0 =>
    \A n \in Name : flags[n] # NoFlag =>
      \A v \in 1..flags[n].version :
        \/ v = 1 /\ \E f \in Seed : f.id = flags[n].id
        \/ \E t \in Threads : AuditPending(t, flags[n].id, v)
        \/ \E e \in audit_log : e.flag_id = flags[n].id /\ e.new_value.version = v

Outdated(n) == CacheGet(n) \notin {NoFlag, flags[n]}

(* t has changed n in the database and not removed it from the cache yet.  *)
InvalidationPending(t, n) ==
  /\ pc[t] \in {"audit", "invalidate"}
  /\ req[t].op \in Mutators /\ req[t].name = n

(* As long as nothing fails, there are two reasons for an outdated cache   *)
(* entry and no third: the handler that changed the flag has not got to    *)
(* its invalidation, or a reader filled the cache with a row that had      *)
(* changed since it read it.                                               *)
OutdatedExplained ==
  faults = 0 =>
    \A n \in Name : Outdated(n) =>
      CacheKey(n) \in raced \/ \E t \in Threads : InvalidationPending(t, n)

(* Nothing outdated about flag n is cached, or on its way to the cache.     *)
Coherent(n) ==
  /\ ~Outdated(n)
  /\ \A t \in Threads : pc[t] = "fill" /\ req[t].name = n => local[t].result = flags[n]
  /\ \A f \in late : NameOf(f) = n => f = flags[n]

(* Outdated entries have no source but changes of the flag: once its cache  *)
(* is coherent, no answer, expiry, late command, failure or crash spoils it *)
(* before the next commit.  CacheHeals rests on it.                         *)
OnlyChangesOutdate ==
  [][\A n \in Name : Coherent(n) /\ flags'[n] = flags[n] => Coherent(n)']_vars

(***************************************************************************)
(* Liveness: flags are changed finitely often (MaxVersion, MaxFlags), and  *)
(* from some time after the last change on the cache agrees with the       *)
(* database for good, whatever failed, crashed or was filled too late.     *)
(***************************************************************************)
CacheHeals == <>[](\A n \in Name : ~Outdated(n))

(***************************************************************************)
(* Why the safety properties hold: an inductive invariant (see             *)
(* FlagServer_proofs).                                                     *)
(***************************************************************************)

(* What a handler holds when it gets to a call. *)
HandlerOK(t) ==
  LET op == req[t].op
      existing == local[t].existing
      result == local[t].result IN
  /\ pc[t] = "idle" => local[t] = Fresh
  /\ pc[t] = "fill" => op = "get" /\ result # NoFlag
  /\ pc[t] \in {"lookup", "find"} => op # "create"
  /\ pc[t] = "write" => op \in Mutators \cup {"create"}
  /\ pc[t] \in {"audit", "invalidate"} =>
       op \in Mutators \cup {"create"} /\ (result = NoFlag <=> op = "delete")
  /\ pc[t] \in {"write", "audit"} => (existing = NoFlag <=> op = "create")

HandlersOK == \A t \in Threads : HandlerOK(t)

(* The table holds, under each name, the newest row ever committed there;  *)
(* an id belongs to one name and is never used again.                      *)
TableNewest ==
  /\ \A n \in Name : flags[n] # NoFlag => flags[n] \in committed /\ NameOf(flags[n]) = n
  /\ \A f \in committed : f.id < nextId
  /\ \A f, g \in committed : f.id = g.id => NameOf(f) = NameOf(g)
  /\ \A f \in committed : LET row == flags[NameOf(f)] IN
                          row \notin {NoFlag, f} => Later(row, f)

(* Handlers, cache and late commands hold committed rows of the right name. *)
HoldsCommitted ==
  /\ \A t \in Threads : \A f \in {local[t].existing, local[t].result} \ {NoFlag} :
       f \in committed /\ NameOf(f) = req[t].name
  /\ \A k \in RedisKey : cache[k] # NoFlag =>
       /\ FromJson(cache[k]) \in committed
       /\ CacheKey(NameOf(FromJson(cache[k]))) = k
  /\ late \subseteq committed

(* The entry about to be logged is in order, or its flag is gone for good. *)
EntryInOrder ==
  \A t \in Threads : pc[t] = "audit" =>
    LET existing == local[t].existing
        result == local[t].result IN
    CASE req[t].op = "create" -> TRUE
      [] req[t].op = "delete" -> ~IsLive(existing.id)
      [] OTHER                -> Later(result, existing)

Firsts(rows) == {row[1] : row \in rows}

(* seen[t] has the current row of each name t was asked about, and all that *)
(* t will answer with; an evaluation has a row of each name not to do.     *)
WindowOK ==
  \A t \in Threads : pc[t] # "idle" =>
    /\ req[t].name \in req[t].names
    /\ local[t].todo \subseteq req[t].names
    /\ \A n \in req[t].names : <<n, flags[n]>> \in seen[t]
    /\ local[t].rows \subseteq seen[t]
    /\ req[t].op \in Evaluators => local[t].todo = req[t].names \ Firsts(local[t].rows)
    /\ pc[t] \in {"audit", "invalidate"} => <<req[t].name, local[t].result>> \in seen[t]

(* A write in doubt is one of the row it is remembered for. *)
DoubtOK == \A n \in Name : doubt[n] # NoRequest => doubt[n].name = n /\ faults > 0

(* A copy was served once, and If-None-Match speaks of a copy.              *)
CopiesCommitted ==
  /\ \A n \in Name : copy[n] # NoFlag => copy[n] \in committed
  /\ \A t \in Threads : req[t].inm # NoFlag => req[t].inm \in committed

Inv ==
  /\ TypeOK /\ HandlersOK /\ DoubtOK
  /\ TableNewest /\ VersionIdentifiesContent
  /\ HoldsCommitted /\ EntryInOrder /\ AuditFaithful
  /\ WindowOK /\ CopiesCommitted

(***************************************************************************)
(* What the documentation says and the code does not do.                   *)
(***************************************************************************)

(* README.md, "Full mutation history for compliance and debugging": a      *)
(* mutation that was acknowledged has an entry in the audit log.           *)
FullMutationHistory ==
  response.status = "ok" /\ response.req.op \in Mutators \cup {"create"} =>
    \E e \in audit_log :
      /\ e.action = response.req.op
      /\ {e.prev_value, e.new_value} \ {NoFlag} # {}
      /\ \A f \in {e.prev_value, e.new_value} \ {NoFlag} : NameOf(f) = response.req.name

(* README.md, "Every mutation increments the version for staleness         *)
(* detection" and "Conditional requests": a 304 tells the client that its  *)
(* copy has the content the server would have sent.                        *)
NotModifiedSound ==
  response.status = "not_modified" =>
    \A r \in response.rows : /\ r[2].body = response.req.inm.body
                             /\ r[2].enabled = response.req.inm.enabled

(* README.md, "instant Pub/Sub invalidation": while nothing fails, once    *)
(* all handlers are done the cache holds nothing outdated.                 *)
CoherentAtRest ==
  faults = 0 /\ (\A t \in Threads : pc[t] = "idle") =>
    \A n \in Name : ~Outdated(n)
=============================================================================
