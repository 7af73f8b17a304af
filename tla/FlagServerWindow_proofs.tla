----------------------- MODULE FlagServerWindow_proofs -----------------------
(***************************************************************************)
(* Every answer but a get's is true of the database at some moment between *)
(* the request and the response; why cache entries are outdated; and that  *)
(* the server implements FlagBoard.                                        *)
(***************************************************************************)
EXTENDS FlagServerAudit_proofs

WindowInv == TypeInv /\ WindowOK

Window(t) ==
  /\ req[t].name \in req[t].names
  /\ local[t].todo \subseteq req[t].names
  /\ \A n \in req[t].names : <<n, flags[n]>> \in seen[t]
  /\ local[t].rows \subseteq seen[t]
  /\ req[t].op \in Evaluators => local[t].todo = req[t].names \ Firsts(local[t].rows)
  /\ pc[t] \in {"audit", "invalidate"} => <<req[t].name, local[t].result>> \in seen[t]
-----------------------------------------------------------------------------
(* While a handler is busy, seen[t] misses no commit and forgets none.     *)
LEMMA SeenKeepsUp ==
  ASSUME TypeInv, [Next]_vars, NEW t \in Threads, pc[t] # "idle", pc'[t] # "idle",
         \A n \in req[t].names : <<n, flags[n]>> \in seen[t]
  PROVE  /\ seen[t] \subseteq seen'[t]
         /\ \A n \in req[t].names : <<n, flags'[n]>> \in seen'[t]
<1>1. TypeOK /\ req[t].names \subseteq Name /\ flags \in [Name -> FlagOrNone]
  BY ThreadFacts DEF TypeInv, TypeOK, StoreTypeOK
<1>2. ASSUME NEW r \in Request, Commit(r)
      PROVE  /\ seen[t] \subseteq seen'[t]
             /\ \A n \in req[t].names : <<n, flags'[n]>> \in seen'[t]
  <2>1. r.name \in Name /\ Apply(r)
    BY <1>2 DEF Commit, Request
  <2>2. \A n \in Name : n # r.name => flags'[n] = flags[n]
    BY <1>1, <2>1, ApplyCases
  <2>3. seen'[t] = IF r.name \in req[t].names
                   THEN seen[t] \cup {<<r.name, flags'[r.name]>>} ELSE seen[t]
    BY <1>2 DEF Commit, Observe
  <2>4. QED
    BY <1>1, <2>2, <2>3
<1>3. CASE NoCommit /\ UNCHANGED flags
  BY <1>3 DEF NoCommit
<1>4. CASE UNCHANGED <<seen, flags>>
  BY <1>4
<1>5. ASSUME NEW u \in Threads, Begin(u) PROVE UNCHANGED flags /\ seen'[t] = seen[t]
  <2>1. u # t
    BY <1>5 DEF Begin
  <2>2. PICK r : Start(u, r)
    BY <1>5 DEF Begin
  <2>3. seen'[t] = seen[t]
    BY <1>1, <2>1, <2>2 DEF Start, TypeOK
  <2>4. QED
    BY <1>5, <2>3 DEF Begin, storeVars
<1>6. ASSUME NEW u \in Threads, Step(u) \/ FaultyStep(u)
      PROVE  Commit(req[u]) \/ (NoCommit /\ UNCHANGED flags) \/ UNCHANGED <<seen, flags>>
  <2> USE DEF storeVars, historyVars
  <2>1. CASE Step(u)
    BY <2>1
    DEF Step, LookupHit, LookupMiss, FindNothing, FindRow, EvaluateOne, ListAll, Fill,
        AnswerFill, WriteCommits, WriteRefused, Audit, AfterAudit, LogAction,
        InvalidateEntry, AnswerMutation, Commit
  <2>2. CASE FaultyStep(u)
    BY <2>2
    DEF FaultyStep, LookupFails, CallFails, FillFails, WriteInDoubt, AuditFails,
        InvalidateFails, AnswerFill, AfterAudit, AnswerMutation, Commit
  <2>3. QED
    BY <1>6, <2>1, <2>2
<1>7. CASE \/ \E k \in RedisKey : ExpireEntry(k)
           \/ \E f \in late : LateSet(f)
           \/ \E i \in Instances : Crash(i)
           \/ UNCHANGED vars
  BY <1>3, <1>4, <1>7 DEF ExpireEntry, LateSet, Crash, vars, storeVars, historyVars
<1>8. ASSUME NEW n \in Name, WriteSettles(n) PROVE doubt[n] \in Request /\ Commit(doubt[n])
  BY <1>8, DoubtedWrite DEF WriteSettles, Commit, TypeInv
<1>9. \A u \in Threads : req[u] \in Request
  BY <1>1 DEF TypeOK
<1>10. QED
  BY <1>2, <1>3, <1>4, <1>5, <1>6, <1>7, <1>8, <1>9 DEF Next

LEMMA FirstsGrow ==
  ASSUME NEW R, NEW n, NEW f
  PROVE  Firsts(R \cup {<<n, f>>}) = Firsts(R) \cup {n}
<1> DEFINE Grown == R \cup {<<n, f>>}
<1>1. <<n, f>>[1] = n /\ <<n, f>> \in Grown
  OBVIOUS
<1>2. \A x : x \in {row[1] : row \in Grown} <=> \E row \in Grown : x = row[1]
  OBVIOUS
<1>3. \A x : x \in {row[1] : row \in R} <=> \E row \in R : x = row[1]
  OBVIOUS
<1>4. \A row : row \in Grown <=> row \in R \/ row = <<n, f>>
  OBVIOUS
<1> HIDE DEF Grown
<1>5. {row[1] : row \in Grown} = {row[1] : row \in R} \cup {n}
  BY <1>1, <1>2, <1>3, <1>4
<1>6. QED
  BY <1>5 DEF Grown, Firsts

LEMMA FirstsOfNone == Firsts({}) = {}
BY DEF Firsts

LEMMA BeginWindow ==
  ASSUME TypeOK, NEW t \in Threads, HandlerOK(t), Begin(t)
  PROVE  Window(t)'
<1>1. PICK r : Start(t, r) /\ r.name \in r.names
  <2> DEFINE Own(r) == r.name \in r.names
  <2>1. ASSUME NEW op, NEW n PROVE Own(Blank(op, n))
    BY DEF Blank
  <2>2. ASSUME NEW op, NEW n, NEW f PROVE Own([Blank(op, n) EXCEPT !.inm = f])
    BY DEF Blank
  <2>3. ASSUME NEW op, NEW n, NEW b, NEW e
        PROVE  Own([Blank(op, n) EXCEPT !.body = b, !.enabled = e])
    BY DEF Blank
  <2>4. ASSUME NEW op, NEW n, NEW ns, n \in ns
        PROVE  Own([Blank(op, n) EXCEPT !.names = ns])
    BY <2>4 DEF Blank
  <2>5. \A n \in Name : n \in {n[1]} \X Key
    BY NamePair
  <2> HIDE DEF Own
  <2>6. \E r : Start(t, r) /\ Own(r)
    BY <2>1, <2>2, <2>3, <2>4, <2>5 DEF Begin
  <2>7. QED
    BY <2>6 DEF Own
<1>2. pc'[t] = FirstCall(r.op) /\ req'[t] = r /\ local'[t] = [local[t] EXCEPT !.todo = r.names]
  BY <1>1 DEF Start, TypeOK
<1>3. seen'[t] = {<<n, flags[n]>> : n \in r.names} /\ flags' = flags
  BY <1>1 DEF Start, TypeOK, Begin, storeVars
<1>4. local'[t].todo = r.names /\ local'[t].rows = {}
  <2>1. local[t] = Fresh
    BY DEF Begin, HandlerOK
  <2>2. QED
    BY <1>2, <2>1 DEF Fresh
<1>5. pc'[t] \notin {"audit", "invalidate"}
  BY <1>2 DEF FirstCall
<1>6. QED
  BY <1>1, <1>2, <1>3, <1>4, <1>5, FirstsOfNone DEF Window

LEMMA StepWindow ==
  ASSUME TypeInv, [Next]_vars, NEW t \in Threads, Step(t) \/ FaultyStep(t),
         pc[t] # "idle", pc'[t] # "idle", Window(t)
  PROVE  Window(t)'
<1>1. TypeOK /\ local[t] \in Local /\ local \in [Threads -> Local]
  BY ThreadFacts DEF TypeInv, TypeOK
<1>2. /\ seen[t] \subseteq seen'[t]
      /\ \A n \in req[t].names : <<n, flags'[n]>> \in seen'[t]
  BY SeenKeepsUp DEF Window
<1>3. ASSUME NEW status, NEW rows, Respond(t, status, rows) PROVE FALSE
  BY <1>1, <1>3 DEF Respond, TypeOK
<1>4. ASSUME NEW p, Goto(t, p) PROVE pc'[t] = p /\ req'[t] = req[t]
  BY <1>1, <1>4, GotoEffect
<1>5. CASE LookupMiss(t) \/ LookupFails(t)
  BY <1>2, <1>4, <1>5 DEF LookupMiss, LookupFails, Window
<1>6. CASE FindRow(t)
  <2>1. local'[t].todo = local[t].todo /\ local'[t].rows = local[t].rows
    BY <1>1, <1>6 DEF FindRow, Local
  <2>2. pc'[t] \in {"fill", "write"} /\ req'[t] = req[t]
    BY <1>4, <1>6 DEF FindRow
  <2>3. QED
    BY <1>2, <2>1, <2>2 DEF Window
<1>7. CASE EvaluateOne(t)
  <2>1. PICK n \in local[t].todo :
          /\ local' = [local EXCEPT ![t].todo = @ \ {n},
                                    ![t].rows = local[t].rows \cup {<<n, flags[n]>>}]
          /\ Goto(t, "find")
    BY <1>3, <1>7 DEF EvaluateOne, FindByKey
  <2>2. /\ local'[t].todo = local[t].todo \ {n}
        /\ local'[t].rows = local[t].rows \cup {<<n, flags[n]>>}
    BY <1>1, <2>1 DEF Local
  <2>3. pc'[t] = "find" /\ req'[t] = req[t]
    BY <1>4, <2>1
  <2>4. Firsts(local'[t].rows) = Firsts(local[t].rows) \cup {n}
    <3>1. Firsts(local[t].rows \cup {<<n, flags[n]>>}) = Firsts(local[t].rows) \cup {n}
      BY FirstsGrow
    <3>2. QED
      BY <2>2, <3>1
  <2>5. QED
    BY <1>2, <2>2, <2>3, <2>4 DEF Window
<1>8. CASE WriteCommits(t)
  <2>1. pc'[t] = "audit" /\ req'[t] = req[t]
    BY <1>4, <1>8 DEF WriteCommits
  <2>2. local'[t] = [local[t] EXCEPT !.result = flags'[req[t].name]]
    BY <1>1, <1>8 DEF WriteCommits
  <2>3. /\ local'[t].todo = local[t].todo /\ local'[t].rows = local[t].rows
        /\ local'[t].result = flags'[req[t].name]
    BY <1>1, <2>2 DEF Local
  <2>4. QED
    BY <1>2, <2>1, <2>3 DEF Window
<1>9. CASE AfterAudit(t)
  <2>1. /\ pc[t] = "audit" /\ pc'[t] = "invalidate" /\ req'[t] = req[t]
        /\ local'[t] = local[t]
    BY <1>3, <1>4, <1>9 DEF AfterAudit
  <2>2. QED
    BY <1>2, <2>1 DEF Window
<1>10. QED
  BY <1>3, <1>5, <1>6, <1>7, <1>8, <1>9
  DEF Step, FaultyStep, LookupHit, FindNothing, ListAll, Fill, AnswerFill, WriteRefused,
      Audit, InvalidateEntry, AnswerMutation, CallFails, FillFails, WriteInDoubt,
      AuditFails, InvalidateFails

LEMMA WindowInvNext == WindowInv /\ [Next]_vars => WindowInv'
<1> SUFFICES ASSUME WindowInv, [Next]_vars PROVE WindowInv'
    OBVIOUS
<1>1. TypeInv /\ TypeInv' /\ TypeOK /\ \A t \in Threads : HandlerOK(t)
  BY TypeInvNext DEF WindowInv, TypeInv, HandlersOK
<1>2. \A t \in Threads : pc[t] # "idle" => Window(t)
  BY DEF WindowInv, WindowOK, Window
<1>3. ASSUME NEW t \in Threads, pc'[t] # "idle" PROVE Window(t)'
  <2>1. CASE Begin(t)
    BY <1>1, <2>1, BeginWindow
  <2>2. CASE Step(t) \/ FaultyStep(t)
    <3>1. pc[t] # "idle"
      BY <2>2
      DEF Step, FaultyStep, LookupHit, LookupMiss, FindNothing, FindRow,
          EvaluateOne, ListAll, Fill, WriteCommits, WriteRefused, Audit, AfterAudit,
          InvalidateEntry, LookupFails, CallFails, FillFails, WriteInDoubt,
          AuditFails, InvalidateFails
    <3>2. QED
      BY <1>1, <1>2, <1>3, <2>2, <3>1, StepWindow
  <2>3. ASSUME pc'[t] = pc[t], req'[t] = req[t], local'[t] = local[t]
        PROVE  Window(t)'
    BY <1>1, <1>2, <1>3, <2>3, SeenKeepsUp DEF Window
  <2>4. CASE \E u \in Threads \ {t} : Begin(u) \/ Step(u) \/ FaultyStep(u)
    BY <1>1, <2>3, <2>4, OthersUntouched
  <2>5. CASE \E i \in Instances : Crash(i)
    BY <1>3, <2>3, <2>5 DEF Crash
  <2>6. CASE \/ \E k \in RedisKey : ExpireEntry(k)
             \/ \E f \in late : LateSet(f)
             \/ \E n \in Name : WriteSettles(n)
             \/ UNCHANGED vars
    BY <2>3, <2>6 DEF ExpireEntry, LateSet, WriteSettles, threadVars, vars
  <2>7. QED
    BY <2>1, <2>2, <2>4, <2>5, <2>6 DEF Next
<1>4. QED
  BY <1>1, <1>3 DEF WindowInv, WindowOK, Window

THEOREM WindowInvariant == Spec => []WindowInv
<1>1. Init => WindowInv
  BY TypeInvInit DEF WindowInv, WindowOK, Init
<1>2. QED
  BY <1>1, WindowInvNext, PTL DEF Spec
-----------------------------------------------------------------------------
LEMMA StepFresh ==
  ASSUME WindowInv, [Next]_vars, NEW t \in Threads,
         pc[t] # "idle", pc'[t] = "idle", req[t].op # "get"
  PROVE  response'.rows \subseteq seen[t]
<1>1. TypeOK /\ HandlerOK(t) /\ Window(t)
  BY DEF WindowInv, TypeInv, HandlersOK, WindowOK, Window
<1>2. ASSUME NEW status, NEW rows, Respond(t, status, rows), rows \subseteq seen[t]
      PROVE  response'.rows \subseteq seen[t]
  BY <1>2 DEF Respond
<1>3. ASSUME NEW p, p # "idle", Goto(t, p) PROVE FALSE
  BY <1>1, <1>3, GotoEffect
<1>4. \A n \in req[t].names : {<<n, flags[n]>>} \subseteq seen[t]
  BY <1>1 DEF Window
<1>5. req[t].name \in req[t].names /\ local[t].todo \subseteq req[t].names
  BY <1>1 DEF Window
<1>6. CASE FindNothing(t)
  BY <1>2, <1>4, <1>5, <1>6 DEF FindNothing, FindByKey
<1>7. CASE EvaluateOne(t)
  <2>1. PICK n \in local[t].todo :
          Respond(t, "ok", local[t].rows \cup {<<n, FindByKey(n)>>})
    BY <1>3, <1>7 DEF EvaluateOne
  <2>2. local[t].rows \cup {<<n, FindByKey(n)>>} \subseteq seen[t]
    BY <1>1, <1>4, <1>5 DEF Window, FindByKey
  <2>3. QED
    BY <1>2, <2>1, <2>2
<1>8. CASE WriteRefused(t)
  BY <1>2, <1>4, <1>5, <1>8 DEF WriteRefused
<1>18. CASE ListAll(t)
  BY <1>1, <1>2, <1>18 DEF ListAll, ListRows, Window
<1>9. ASSUME pc[t] \in {"audit", "invalidate"}
      PROVE  {<<req[t].name, local[t].result>>} \subseteq seen[t]
  BY <1>1, <1>9 DEF Window
<1>10. CASE CallFails(t) \/ WriteInDoubt(t)
  BY <1>2, <1>10 DEF CallFails, WriteInDoubt
<1>11. pc[t] # "fill"
  BY <1>1 DEF HandlerOK
<1>12. CASE Step(t) \/ FaultyStep(t)
  <2>1. ~LookupHit(t) /\ ~Fill(t) /\ ~FillFails(t)
    BY <1>11 DEF LookupHit, Fill, FillFails, AnswerFill
  <2>2. ~LookupMiss(t) /\ ~LookupFails(t) /\ ~FindRow(t) /\ ~WriteCommits(t)
    BY <1>3 DEF LookupMiss, LookupFails, FindRow, WriteCommits
  <2>3. CASE Audit(t) \/ AuditFails(t) \/ InvalidateEntry(t) \/ InvalidateFails(t)
    <3>1. CASE Audit(t) \/ AuditFails(t)
      BY <1>2, <1>3, <1>9, <3>1 DEF Audit, AuditFails, AfterAudit
    <3>2. CASE InvalidateEntry(t) \/ InvalidateFails(t)
      BY <1>2, <1>9, <3>2 DEF InvalidateEntry, InvalidateFails, AnswerMutation
    <3>3. QED
      BY <2>3, <3>1, <3>2
  <2>4. QED
    BY <1>6, <1>7, <1>8, <1>10, <1>12, <1>18, <2>1, <2>2, <2>3 DEF Step, FaultyStep
<1>13. CASE Begin(t)
  BY <1>13 DEF Begin
<1>14. CASE \E u \in Threads \ {t} : Begin(u) \/ Step(u) \/ FaultyStep(u)
  BY <1>1, <1>14, OthersUntouched
<1>15. CASE \E i \in Instances : Crash(i)
  BY <1>15 DEF Crash, NoResponse
<1>16. CASE \/ \E k \in RedisKey : ExpireEntry(k)
            \/ \E f \in late : LateSet(f)
            \/ \E n \in Name : WriteSettles(n)
            \/ UNCHANGED vars
  BY <1>16 DEF ExpireEntry, LateSet, WriteSettles, threadVars, vars
<1>17. QED
  BY <1>12, <1>13, <1>14, <1>15, <1>16 DEF Next

(* An evaluation, a mutation or a refusal answers with rows that were in   *)
(* the database at some moment while the request was served, whatever is   *)
(* cached, whatever races and whatever fails.                              *)
THEOREM AnswersAreFresh == Spec => AnswersFresh
<1> DEFINE FreshStep ==
      \A t \in Threads :
        pc[t] # "idle" /\ pc'[t] = "idle" /\ req[t].op # "get" =>
          response'.rows \subseteq seen[t]
<1>1. WindowInv /\ [Next]_vars => [FreshStep]_vars
  BY StepFresh
<1>2. Spec => [][FreshStep]_vars
  BY <1>1, WindowInvariant, PTL DEF Spec
<1>3. QED
  BY <1>2 DEF AnswersFresh
-----------------------------------------------------------------------------
(* Why cache entries are outdated *)

Explained(n) ==
  Outdated(n) => CacheKey(n) \in raced \/ \E t \in Threads : InvalidationPending(t, n)

(* A handler that still has to invalidate n keeps it in mind. *)
LEMMA PendingStays ==
  ASSUME TypeInv, [Next]_vars, faults' = 0, NEW n \in Name,
         NEW t \in Threads, InvalidationPending(t, n), ~InvalidateEntry(t)
  PROVE  InvalidationPending(t, n)'
<1>1. /\ pc[t] \in {"audit", "invalidate"}
      /\ req[t].op \in Mutators /\ req[t].name = n
  BY DEF InvalidationPending
<1>2. CASE Audit(t)
  <2>1. req[t].op # "create"
    BY <1>1 DEF Mutators
  <2>2. Goto(t, "invalidate")
    BY <1>2, <2>1 DEF Audit, AfterAudit
  <2>3. pc'[t] = "invalidate" /\ req'[t] = req[t]
    BY <2>2, GotoEffect DEF TypeInv
  <2>4. QED
    BY <1>1, <2>3 DEF InvalidationPending
<1>3. CASE pc'[t] = pc[t] /\ req'[t] = req[t]
  BY <1>1, <1>3 DEF InvalidationPending
<1>4. QED
  BY <1>1, <1>2, <1>3, AfterCommit

(* Writing flag f to the cache explains itself. *)
LEMMA SetExplained ==
  ASSUME CacheKeysDistinct, TypeOK, NEW f \in Flag, SetFlag(f), raced' = RacedBy(f),
         UNCHANGED flags, NEW n \in Name
  PROVE  \/ CacheGet(n)' = CacheGet(n) /\ (CacheKey(n) \in raced' <=> CacheKey(n) \in raced)
         \/ Explained(n)'
<1>1. NameOf(f) \in Name /\ CacheKey(n) \in RedisKey /\ CacheKey(NameOf(f)) \in RedisKey
  BY NameOfFlag, KeyOfName
<1>2. cache \in [RedisKey -> FlagJson \cup {NoFlag}]
  BY DEF TypeOK, CacheTypeOK
<1>3. CASE n = NameOf(f)
  <2>1. cache'[CacheKey(n)] = ToJson(f)
    BY <1>1, <1>2, <1>3 DEF SetFlag
  <2>2. CacheGet(n)' \in {NoFlag, f}
    BY <2>1, RoundTrip DEF CacheGet
  <2>3. CASE flags[n] = f
    BY <2>2, <2>3 DEF Explained, Outdated
  <2>4. CASE flags[n] # f
    <3>1. CacheKey(n) \in raced'
      BY <1>3, <2>4 DEF RacedBy
    <3>2. QED
      BY <3>1 DEF Explained
  <2>5. QED
    BY <2>3, <2>4
<1>4. CASE n # NameOf(f)
  <2>1. CacheKey(n) # CacheKey(NameOf(f))
    BY <1>1, <1>4 DEF CacheKeysDistinct
  <2>2. CacheGet(n)' = CacheGet(n)
    BY <1>1, <1>2, <2>1 DEF SetFlag, CacheGet
  <2>3. QED
    BY <2>1, <2>2 DEF RacedBy
<1>5. QED
  BY <1>3, <1>4

(* Removing the entry k leaves the others as they are. *)
LEMMA RemoveExplained ==
  ASSUME CacheKeysDistinct, TypeOK, NEW m \in Name, NEW n \in Name, UNCHANGED flags,
         cache' = [cache EXCEPT ![CacheKey(m)] = NoFlag], raced' = raced \ {CacheKey(m)}
  PROVE  \/ CacheGet(n)' = CacheGet(n) /\ (CacheKey(n) \in raced' <=> CacheKey(n) \in raced) /\ m # n
         \/ Explained(n)'
<1>1. /\ CacheKey(n) \in RedisKey /\ CacheKey(m) \in RedisKey
      /\ cache \in [RedisKey -> FlagJson \cup {NoFlag}]
  BY KeyOfName DEF TypeOK, CacheTypeOK
<1>2. CASE n = m
  <2>1. CacheGet(n)' = NoFlag
    BY <1>1, <1>2 DEF CacheGet
  <2>2. QED
    BY <2>1 DEF Explained, Outdated
<1>3. CASE n # m
  <2>1. CacheKey(n) # CacheKey(m)
    BY <1>3 DEF CacheKeysDistinct
  <2>2. CacheGet(n)' = CacheGet(n)
    BY <1>1, <2>1 DEF CacheGet
  <2>3. QED
    BY <1>3, <2>1, <2>2
<1>4. QED
  BY <1>2, <1>3

LEMMA ExplainedNext ==
  ASSUME CacheKeysDistinct, HeldInv, [Next]_vars, faults' = 0, NEW n \in Name, Explained(n)
  PROVE  Explained(n)'
<1>1. TypeOK /\ TypeOK' /\ TypeInv /\ HoldsCommitted /\ committed \subseteq Flag
      /\ \A t \in Threads : HandlerOK(t)
  BY TypeInvNext DEF HeldInv, TableInv, TypeInv, TypeOK, HandlersOK
<1>2. ASSUME UNCHANGED flags, CacheGet(n)' = CacheGet(n),
             CacheKey(n) \in raced' <=> CacheKey(n) \in raced,
             \A t \in Threads : InvalidateEntry(t) => req[t].name # n
      PROVE  Explained(n)'
  <2>1. \A t \in Threads : InvalidationPending(t, n) => InvalidationPending(t, n)'
    BY <1>1, <1>2, PendingStays DEF InvalidationPending
  <2>2. Outdated(n)' => Outdated(n)
    BY <1>2 DEF Outdated
  <2>3. QED
    BY <1>2, <2>1, <2>2 DEF Explained
<1>3. ASSUME NEW t \in Threads, NEW u \in Threads, Fill(t) \/ WriteCommits(t), InvalidateEntry(u)
      PROVE  FALSE
  BY <1>1, <1>3, ThreadFacts
  DEF Fill, WriteCommits, InvalidateEntry, AnswerFill, AnswerMutation, Respond, Goto, TypeOK
<1>4. ASSUME NEW t \in Threads, Fill(t) PROVE Explained(n)'
  <2>1. local[t].result \in Flag
    BY <1>1, <1>4, ThreadFacts DEF Fill, HandlerOK, FlagOrNone
  <2>2. UNCHANGED flags
    BY <1>4 DEF Fill, AnswerFill, storeVars
  <2>3. \/ CacheGet(n)' = CacheGet(n) /\ (CacheKey(n) \in raced' <=> CacheKey(n) \in raced)
        \/ Explained(n)'
    BY <1>1, <1>4, <2>1, <2>2, SetExplained DEF Fill
  <2>4. QED
    BY <1>2, <1>3, <1>4, <2>2, <2>3
<1>5. ASSUME NEW f \in late, LateSet(f) PROVE Explained(n)'
  <2>1. f \in Flag /\ UNCHANGED flags
    BY <1>1, <1>5 DEF LateSet, storeVars, HoldsCommitted
  <2>2. \/ CacheGet(n)' = CacheGet(n) /\ (CacheKey(n) \in raced' <=> CacheKey(n) \in raced)
        \/ Explained(n)'
    BY <1>1, <1>5, <2>1, SetExplained DEF LateSet
  <2>3. \A t \in Threads : ~InvalidateEntry(t)
    BY <1>1, <1>5 DEF LateSet, InvalidateEntry, AnswerMutation, Respond, threadVars, TypeOK
  <2>4. QED
    BY <1>2, <2>1, <2>2, <2>3
<1>6. ASSUME NEW t \in Threads, InvalidateEntry(t) PROVE Explained(n)'
  <2>1. req[t].name \in Name /\ UNCHANGED flags
    BY <1>1, <1>6, ThreadFacts DEF InvalidateEntry, AnswerMutation, storeVars
  <2>2. \/ CacheGet(n)' = CacheGet(n) /\ (CacheKey(n) \in raced' <=> CacheKey(n) \in raced)
           /\ req[t].name # n
        \/ Explained(n)'
    BY <1>1, <1>6, <2>1, RemoveExplained DEF InvalidateEntry, Invalidate
  <2>3. \A u \in Threads : InvalidateEntry(u) => u = t
    BY <1>1, <1>6 DEF InvalidateEntry, AnswerMutation, Respond, TypeOK
  <2>4. QED
    BY <1>2, <2>1, <2>2, <2>3
<1>7. ASSUME NEW k \in RedisKey, ExpireEntry(k) PROVE Explained(n)'
  <2>1. PICK m \in Name : k = CacheKey(m)
    BY DEF RedisKey
  <2>2. UNCHANGED flags /\ \A t \in Threads : ~InvalidateEntry(t)
    BY <1>1, <1>7
    DEF ExpireEntry, storeVars, threadVars, InvalidateEntry, AnswerMutation, Respond, TypeOK
  <2>3. \/ CacheGet(n)' = CacheGet(n) /\ (CacheKey(n) \in raced' <=> CacheKey(n) \in raced)
        \/ Explained(n)'
    BY <1>1, <1>7, <2>1, <2>2, RemoveExplained DEF ExpireEntry, Expire
  <2>4. QED
    BY <1>2, <2>2, <2>3
<1>8. ASSUME NEW t \in Threads, WriteCommits(t) PROVE Explained(n)'
  <2> DEFINE r == req[t]
  <2>1. r \in Request /\ Apply(r) /\ r.name \in Name /\ flags \in [Name -> FlagOrNone]
    BY <1>1, <1>8, ThreadFacts DEF WriteCommits, TypeOK, StoreTypeOK
  <2>2. CacheGet(n)' = CacheGet(n) /\ raced' = raced
    BY <1>8 DEF WriteCommits, cacheVars, CacheGet
  <2>3. \A u \in Threads : InvalidationPending(u, n) => InvalidationPending(u, n)'
    BY <1>1, <1>3, <1>8, PendingStays
  <2>4. CASE r.name = n /\ r.op # "create"
    <3>1. pc'[t] = "audit" /\ req'[t] = r
      BY <1>1, <1>8, GotoEffect DEF WriteCommits
    <3>2. r.op \in Mutators
      BY <1>1, <1>8, <2>4 DEF WriteCommits, HandlerOK
    <3>3. QED
      BY <2>4, <3>1, <3>2 DEF Explained, InvalidationPending
  <2>5. CASE r.name = n /\ r.op = "create"
    <3>1. flags[n] = NoFlag
      BY <2>1, <2>5 DEF Apply, Create
    <3>2. Outdated(n)' => Outdated(n)
      BY <2>2, <3>1 DEF Outdated
    <3>3. QED
      BY <2>2, <2>3, <3>2 DEF Explained
  <2>6. CASE r.name # n
    <3>1. flags'[n] = flags[n]
      BY <1>1, <2>1, <2>6, ApplyCases
    <3>2. Outdated(n)' => Outdated(n)
      BY <2>2, <3>1 DEF Outdated
    <3>3. QED
      BY <2>2, <2>3, <3>2 DEF Explained
  <2>7. QED
    BY <2>4, <2>5, <2>6
<1>9. ASSUME NEW t \in Threads, Begin(t) \/ Step(t),
             ~Fill(t), ~InvalidateEntry(t), ~WriteCommits(t)
      PROVE  UNCHANGED <<flags, cache, raced>>
  BY <1>9
  DEF Begin, Step, LookupHit, LookupMiss, FindNothing, FindRow, EvaluateOne, ListAll,
      WriteRefused, Audit, AfterAudit, LogAction, storeVars, cacheVars, historyVars
<1>10. CASE UNCHANGED <<flags, cache, raced>> /\ \A t \in Threads : ~InvalidateEntry(t)
  BY <1>2, <1>10 DEF CacheGet
<1>11. UNCHANGED vars => UNCHANGED <<flags, cache, raced>>
  BY DEF vars, storeVars, cacheVars, historyVars
<1>12. QED
  BY <1>1, <1>4, <1>5, <1>6, <1>7, <1>8, <1>9, <1>10, <1>11, NoFaultYet

(* While nothing has failed, an entry of the cache is outdated only if its  *)
(* writer is on its way to the invalidation or if it was outdated when a   *)
(* reader wrote it; this needs names whose Redis keys differ.              *)
THEOREM OutdatedIsExplained == CacheKeysDistinct => (Spec => []OutdatedExplained)
<1> DEFINE EInv == HeldInv /\ OutdatedExplained
<1> SUFFICES ASSUME CacheKeysDistinct PROVE Spec => []OutdatedExplained
  OBVIOUS
<1>1. Init => EInv
  <2> SUFFICES ASSUME Init PROVE OutdatedExplained
    BY HeldInvInit
  <2>1. \A n \in Name : CacheGet(n) = NoFlag
    BY KeyOfName DEF Init, CacheInit, CacheGet
  <2>2. QED
    BY <2>1 DEF OutdatedExplained, Outdated
<1>2. EInv /\ [Next]_vars => EInv'
  <2> SUFFICES ASSUME EInv, [Next]_vars PROVE EInv'
    OBVIOUS
  <2>1. HeldInv'
    BY HeldInvNext
  <2>2. ASSUME faults' = 0, NEW n \in Name PROVE Explained(n)'
    <3>1. faults = 0
      BY <2>2, NoFaultYet DEF HeldInv, TableInv, TypeInv
    <3>2. Explained(n)
      BY <3>1 DEF OutdatedExplained, Explained
    <3>3. QED
      BY <2>2, <3>2, ExplainedNext
  <2>3. OutdatedExplained'
    BY <2>2 DEF OutdatedExplained, Explained
  <2>4. QED
    BY <2>1, <2>3
<1>3. EInv => OutdatedExplained
  OBVIOUS
<1>4. QED
  BY <1>1, <1>2, <1>3, PTL DEF Spec

(* What spoils a coherent cache *)

(* A get comes to its fill with the row it has just read. *)
LEMMA FillStarts ==
  ASSUME TypeInv, [Next]_vars, NEW t \in Threads, pc'[t] = "fill"
  PROVE  /\ req'[t] = req[t]
         /\ \/ pc[t] = "fill" /\ local'[t] = local[t]
            \/ local'[t].result = flags'[req[t].name]
<1>1. TypeOK /\ local[t] \in Local
  BY ThreadFacts DEF TypeInv
<1>2. CASE Begin(t)
  <2>1. PICK r : Start(t, r)
    BY <1>2 DEF Begin
  <2>2. QED
    BY <1>1, <2>1 DEF Start, FirstCall, TypeOK
<1>3. CASE FindRow(t)
  <2>1. req'[t] = req[t] /\ flags' = flags
    BY <1>1, <1>3, GotoEffect DEF FindRow, storeVars
  <2>2. req[t].op = "get"
    BY <1>1, <1>3, GotoEffect DEF FindRow
  <2>3. local'[t] = [local[t] EXCEPT !.result = flags[req[t].name]]
    BY <1>1, <1>3, <2>2 DEF FindRow, FindByKey, TypeOK
  <2>4. QED
    BY <1>1, <2>1, <2>3 DEF Local
<1>4. CASE (Step(t) \/ FaultyStep(t)) /\ ~FindRow(t)
  <2>1. \/ \E p \in Call \ {"fill"} : Goto(t, p)
        \/ \E status, rows : Respond(t, status, rows)
    BY <1>4
    DEF Step, FaultyStep, LookupHit, LookupMiss, FindNothing, EvaluateOne, ListAll, Fill,
        AnswerFill, WriteCommits, WriteRefused, Audit, AfterAudit, InvalidateEntry,
        AnswerMutation, LookupFails, CallFails, FillFails, WriteInDoubt, AuditFails,
        InvalidateFails, Call
  <2>2. QED
    BY <1>1, <2>1, GotoEffect DEF Respond, TypeOK
<1>5. CASE \E u \in Threads \ {t} : Begin(u) \/ Step(u) \/ FaultyStep(u)
  BY <1>1, <1>5, OthersUntouched
<1>6. CASE \/ \E k \in RedisKey : ExpireEntry(k)
           \/ \E f \in late : LateSet(f)
           \/ \E n \in Name : WriteSettles(n)
           \/ \E i \in Instances : Crash(i)
           \/ UNCHANGED vars
  BY <1>6 DEF ExpireEntry, LateSet, WriteSettles, Crash, threadVars, vars
<1>7. QED
  BY <1>2, <1>3, <1>4, <1>5, <1>6 DEF Next

LEMMA CoherentKept ==
  ASSUME CacheKeysDistinct, HeldInv, [Next]_vars, NEW n \in Name,
         Coherent(n), flags'[n] = flags[n]
  PROVE  Coherent(n)'
<1>1. TypeInv /\ TypeOK /\ HoldsCommitted
  BY DEF HeldInv, TableInv, TypeInv
<1>2. \A f : Filled(f) /\ f # NoFlag /\ NameOf(f) = n => f = flags[n]
  BY <1>1 DEF Filled, HoldsCommitted, Coherent
<1>3. ASSUME NEW f \in Flag, f \in late \/ Filled(f), NameOf(f) = n
      PROVE  f = flags[n]
  BY <1>2, <1>3, FlagsAssumption DEF Coherent
<1>4. ~Outdated(n)'
  <2>1. CacheKey(n) \in RedisKey
    BY KeyOfName
  <2>2. CASE cache'[CacheKey(n)] \in {NoFlag, cache[CacheKey(n)]}
    BY <2>2 DEF Coherent, Outdated, CacheGet
  <2>3. ASSUME NEW f \in Flag, cache'[CacheKey(n)] = ToJson(f),
               CacheKey(n) = CacheKey(NameOf(f)), f \in late \/ Filled(f)
        PROVE  ~Outdated(n)'
    <3>1. NameOf(f) = n
      BY <2>3, NameOfFlag DEF CacheKeysDistinct
    <3>2. CacheGet(n)' \in {NoFlag, f}
      BY <2>3, RoundTrip DEF CacheGet
    <3>3. QED
      BY <1>3, <2>3, <3>1, <3>2 DEF Outdated
  <2>4. QED
    BY <1>1, <2>1, <2>2, <2>3, CacheTakes
<1>5. ASSUME NEW t \in Threads, pc'[t] = "fill", req'[t].name = n
      PROVE  local'[t].result = flags'[n]
  BY <1>1, <1>5, FillStarts DEF Coherent
<1>6. ASSUME NEW f \in late', NameOf(f) = n
      PROVE  f = flags'[n]
  <2>1. f \in Flag /\ (f \in late \/ Filled(f))
    BY <1>1, CacheTakes DEF TypeOK, CacheTypeOK
  <2>2. QED
    BY <1>3, <1>6, <2>1
<1>7. QED
  BY <1>4, <1>5, <1>6 DEF Coherent

(* Where Redis keys differ, a coherent cache stays coherent until the flag  *)
(* changes: for any number of processes and threads and every failure.     *)
THEOREM OnlyChangesSpoil == CacheKeysDistinct => (Spec => OnlyChangesOutdate)
<1> DEFINE StaysCoherent == \A n \in Name : Coherent(n) /\ flags'[n] = flags[n] => Coherent(n)'
<1> SUFFICES ASSUME CacheKeysDistinct PROVE Spec => OnlyChangesOutdate
  OBVIOUS
<1>1. HeldInv /\ [Next]_vars => [StaysCoherent]_vars
  BY CoherentKept
<1>2. Spec => [][StaysCoherent]_vars
  BY <1>1, HeldInvariant, PTL DEF Spec
<1>3. QED
  BY <1>2 DEF OnlyChangesOutdate
-----------------------------------------------------------------------------
(* All parts of the invariant that the run "faults" checks, through every   *)
(* failure and crash.                                                      *)
THEOREM ServerInvariant == Spec => []Inv
<1>1. Init => AuditInv
  BY HeldInvInit DEF AuditInv, EntryInOrder, AuditFaithful, Init, StoreInit
<1>2. AuditInv /\ WindowInv /\ CopyInv => Inv
  BY DEF Inv, AuditInv, WindowInv, CopyInv, HeldInv, TableInv, TypeInv
<1>3. QED
  BY <1>1, <1>2, AuditInvNext, WindowInvariant, CopiesInvariant, PTL DEF Spec
-----------------------------------------------------------------------------
(* The server implements FlagBoard *)

BoardInv == HeldInv /\ WindowInv

LEMMA SameBoard ==
  /\ Board!Name = Name /\ Board!FlagOrNone = FlagOrNone
  /\ \A f : Board!NameOf(f) = NameOf(f)
BY DEF Board!Name, Name, Board!FlagOrNone, FlagOrNone, Board!Flag, Flag, Board!NameOf, NameOf

LEMMA BoardStarts == Init => Board!BoardInit
<1> SUFFICES ASSUME Init PROVE Board!BoardInit
  OBVIOUS
<1>1. TableInv /\ flags \in [Name -> FlagOrNone] /\ committed = Seed
  BY TableInvInit DEF TableInv, TypeInv, TypeOK, StoreTypeOK, Init
<1>2. \A f \in Seed : NameOf(f) \in Name /\ flags[NameOf(f)] = f /\ f # NoFlag
  <2>1. \A f \in Seed : f \in Flag /\ f # NoFlag /\ NameOf(f) \in Name
    BY StoreAssumption, FlagsAssumption, NameOfFlag
  <2>2. \A f, g \in Seed : NameOf(f) = NameOf(g) => f = g
    BY StoreAssumption
  <2>3. flags = [n \in Name |-> IF \E f \in Seed : NameOf(f) = n
                                THEN CHOOSE f \in Seed : NameOf(f) = n ELSE NoFlag]
    BY DEF Init, StoreInit
  <2>4. QED
    BY <2>1, <2>2, <2>3
<1>3. \A n \in Name : flags[n] \in Seed \cup {NoFlag}
  BY <1>1 DEF TableInv, TableNewest
<1>4. committed = {flags[n] : n \in Name} \ {NoFlag}
  BY <1>1, <1>2, <1>3
<1>5. DOMAIN requests = {} /\ writesInDoubt = {}
  BY DEF Init, requests, writesInDoubt
<1>6. QED
  BY <1>1, <1>4, <1>5, SameBoard DEF Board!BoardInit, Init, NoResponse

LEMMA RequestUnderWay ==
  ASSUME NEW t \in Threads, pc[t] # "idle"
  PROVE  /\ t \in DOMAIN requests /\ requests[t] = Underway(t)
         /\ requests[t].req = req[t]
         /\ pc[t] \in {"audit", "invalidate"} =>
              requests[t].done /\ requests[t].rows = {<<req[t].name, local[t].result>>}
         /\ pc[t] \notin {"audit", "invalidate"} =>
              ~requests[t].done /\ requests[t].rows = local[t].rows
BY DEF requests, Underway

LEMMA RespondAnswers ==
  ASSUME TypeOK, NEW t \in Threads, pc[t] # "idle",
         NEW status, NEW rows, Respond(t, status, rows)
  PROVE  Board!Answer(t, status, rows)
<1>1. /\ pc' = [pc EXCEPT ![t] = "idle"]
      /\ \A u \in Threads \ {t} : pc'[u] = pc[u] /\ req'[u] = req[u] /\ local'[u] = local[u]
      /\ pc'[t] = "idle"
  BY DEF Respond, TypeOK
<1>2. {u \in Threads : pc'[u] # "idle"} = {u \in Threads : pc[u] # "idle"} \ {t}
  BY <1>1
<1>3. DOMAIN requests \ {t} = {u \in Threads : pc[u] # "idle"} \ {t}
  BY DEF requests
<1>4. \A u \in DOMAIN requests \ {t} : requests[u] = Underway(u)'
  BY <1>1, <1>3 DEF requests, Underway
<1>5. requests' = [u \in DOMAIN requests \ {t} |-> requests[u]]
  BY <1>2, <1>3, <1>4 DEF requests
<1>6. QED
  BY <1>5, RequestUnderWay DEF Board!Answer, Respond

(* Two states that show FlagBoard the same. *)
LEMMA HiddenStep ==
  ASSUME requests' = requests, UNCHANGED <<flags, committed, writesInDoubt>>, response'.status = "none"
  PROVE  Board!Vanish
<1>1. requests = [u \in DOMAIN requests \ {} |-> requests[u]]
  BY DEF requests
<1>2. QED
  BY <1>1 DEF Board!Vanish, Board!Silent

(* A step of t that does not answer changes the entry of t alone.          *)
LEMMA EntryChanges ==
  ASSUME NEW t \in Threads, pc[t] # "idle", pc'[t] # "idle",
         \A u \in Threads \ {t} : pc'[u] = pc[u] /\ req'[u] = req[u] /\ local'[u] = local[u]
  PROVE  requests' = [requests EXCEPT ![t] = requests'[t]]
<1>1. {u \in Threads : pc'[u] # "idle"} = {u \in Threads : pc[u] # "idle"}
  OBVIOUS
<1>2. DOMAIN requests = {u \in Threads : pc[u] # "idle"} /\ DOMAIN requests' = DOMAIN requests
  BY <1>1 DEF requests
<1>3. \A u \in DOMAIN requests : u # t => requests'[u] = requests[u]
  BY <1>2 DEF requests, Underway
<1>4. requests' = [u \in DOMAIN requests |-> requests'[u]]
  BY <1>2 DEF requests
<1>5. requests = [u \in DOMAIN requests |-> requests[u]]
  BY DEF requests
<1>6. QED
  BY <1>3, <1>4, <1>5

LEMMA ApplyRewrites ==
  ASSUME TableInv, NEW r \in Request, Apply(r), Observe(r.name, flags'[r.name])
  PROVE  Board!Rewrite(r)
<1> DEFINE n == r.name
           old == flags[n]
<1>1. /\ TypeOK /\ n \in Name /\ flags \in [Name -> FlagOrNone] /\ nextId \in Nat \ {0}
      /\ r.body \in Body /\ r.enabled \in BOOLEAN
  BY DEF TableInv, TypeInv, TypeOK, StoreTypeOK, Request
<1>2. \A f \in committed : f.id < nextId /\ f.id \in Nat
  BY <1>1 DEF TableInv, TableNewest, TypeOK, Flag
<1>3. CASE r.op = "create" /\ Create(n, r.body, r.enabled)
  <2> DEFINE new == [id |-> nextId, env |-> n[1], key |-> n[2],
                     body |-> r.body, enabled |-> r.enabled, version |-> 1]
  <2>1. old = NoFlag /\ flags' = [flags EXCEPT ![n] = new]
    BY <1>3 DEF Create
  <2>2. new \in Flag
    BY <1>1, NamePair DEF Flag
  <2>3. flags'[n] = new /\ new.id = nextId /\ new # NoFlag
    BY <1>1, <2>1, <2>2, FlagsAssumption
  <2>4. \A f \in committed : f.id # new.id
    BY <1>1, <1>2, <2>3
  <2>5. new = Board!Edition(new.id, n, r.body, r.enabled, 1)
    BY <2>3 DEF Board!Edition
  <2>6. Board!Follows(r, old, flags'[n])
    BY <1>3, <2>1, <2>3, <2>4, <2>5 DEF Board!Follows
  <2>7. QED
    BY <2>1, <2>3, <2>6 DEF Board!Rewrite, Observe
<1>4. ASSUME CanBump(n), NEW b, NEW e, flags' = [flags EXCEPT ![n] = Revised(@, b, e)]
      PROVE  /\ old # NoFlag /\ flags' = [flags EXCEPT ![n] = flags'[n]]
             /\ flags'[n] = Board!Edition(old.id, n, b, e, old.version + 1)
  <2>1. old # NoFlag /\ NameOf(old) = n
    BY <1>1, <1>4 DEF CanBump, TableInv, TableNewest
  <2>2. old.env = n[1] /\ old.key = n[2]
    BY <2>1 DEF NameOf
  <2>3. Revised(old, b, e) = Board!Edition(old.id, n, b, e, old.version + 1)
    BY <2>2 DEF Revised, Board!Edition
  <2>4. QED
    BY <1>1, <1>4, <2>1, <2>3
<1>5. CASE r.op = "update" /\ Update(n, r.body, r.enabled)
  BY <1>1, <1>4, <1>5 DEF Update, Board!Rewrite, Board!Follows, Observe
<1>6. CASE r.op = "toggle" /\ Toggle(n)
  <2> DEFINE e == ~old.enabled
  <2>1. CanBump(n) /\ flags' = [flags EXCEPT ![n] = Revised(old, old.body, e)]
    BY <1>1, <1>6 DEF Toggle
  <2> HIDE DEF e
  <2>2. /\ old # NoFlag /\ flags' = [flags EXCEPT ![n] = flags'[n]]
        /\ flags'[n] = Board!Edition(old.id, n, old.body, e, old.version + 1)
    BY <1>4, <2>1
  <2>3. Board!Follows(r, old, flags'[n])
    BY <1>6, <2>2, Zenon DEF Board!Follows, e
  <2>4. QED
    BY <2>2, <2>3 DEF Board!Rewrite, Observe
<1>7. CASE r.op = "delete" /\ Remove(n)
  BY <1>1, <1>7 DEF Remove, Board!Rewrite, Board!Follows, Observe
<1>8. QED
  BY <1>3, <1>5, <1>6, <1>7 DEF Apply

LEMMA BeginAsks ==
  ASSUME TypeInv, NEW t \in Threads, Begin(t)
  PROVE  Board!Ask(t)
<1>1. PICK r : Start(t, r)
  BY DEF Begin
<1>2. TypeOK /\ TypeOK' /\ local[t] = Fresh /\ pc[t] = "idle"
  BY BeginType DEF TypeInv, HandlersOK, HandlerOK, Begin
<1>3. /\ pc'[t] \notin {"idle", "audit", "invalidate"}
      /\ local'[t] = [local[t] EXCEPT !.todo = r.names]
      /\ response' = NoResponse
      /\ \A u \in Threads \ {t} : pc'[u] = pc[u] /\ req'[u] = req[u] /\ local'[u] = local[u]
  BY <1>1, <1>2 DEF Start, TypeOK, FirstCall
<1>4. local'[t].rows = {}
  BY <1>2, <1>3 DEF Fresh
<1>5. {u \in Threads : pc'[u] # "idle"} = {u \in Threads : pc[u] # "idle"} \cup {t}
  BY <1>3
<1>6. /\ t \in DOMAIN requests' \ DOMAIN requests
      /\ DOMAIN requests' = DOMAIN requests \cup {t}
      /\ requests' = [u \in DOMAIN requests' |-> requests'[u]]
  BY <1>2, <1>3, <1>5 DEF requests
<1>7. /\ requests'[t].req = req'[t]
      /\ requests'[t] = [req |-> requests'[t].req, done |-> FALSE, rows |-> {}]
  <2>1. Underway(t)' = [req |-> req'[t], done |-> FALSE, rows |-> {}]
    BY <1>3, <1>4 DEF Underway
  <2>2. requests'[t] = Underway(t)'
    BY <1>3 DEF requests
  <2>3. QED
    BY <2>1, <2>2
<1>8. \A u \in DOMAIN requests : requests'[u] = requests[u] /\ u # t
  BY <1>2, <1>3, <1>5 DEF requests, Underway
<1>9. requests' = [u \in DOMAIN requests \cup {t} |->
                    IF u = t THEN Board!Serving(requests'[t].req, FALSE, {}) ELSE requests[u]]
  BY <1>6, <1>7, <1>8 DEF Board!Serving
<1>10. req'[t] \in Request
  BY <1>2 DEF TypeOK
<1>11. UNCHANGED <<flags, committed, writesInDoubt>>
  BY DEF Begin, storeVars, writesInDoubt
<1>12. QED
  BY <1>1, <1>3, <1>6, <1>7, <1>9, <1>10, <1>11 DEF Board!Ask, Board!Silent, NoResponse

(* What FlagBoard allows t. *)
Allowed(t) ==
  \/ Board!Change(t) \/ Board!AnswerChange(t)
  \/ Board!Look(t) \/ Board!AnswerEvaluation(t) \/ Board!AnswerList(t) \/ Board!AnswerGet(t)
  \/ Board!Refuse(t) \/ Board!Fail(t)
  \/ Board!Vanish

LEMMA GetServed ==
  ASSUME BoardInv, GoodCache, NEW t \in Threads,
         LookupHit(t) \/ Fill(t) \/ FillFails(t)
  PROVE  Board!AnswerGet(t)
<1>1. TypeOK /\ HandlerOK(t) /\ HoldsCommitted
  BY DEF BoardInv, HeldInv, TableInv, TypeInv, HandlersOK
<1>2. pc[t] # "idle" /\ req[t].op = "get" /\ requests[t].req = req[t]
  BY <1>1, RequestUnderWay DEF LookupHit, Fill, FillFails, HandlerOK
<1>3. UNCHANGED <<flags, committed, writesInDoubt>>
  BY DEF LookupHit, Fill, FillFails, AnswerFill, NoCommit, storeVars, writesInDoubt
<1>4. ASSUME NEW status, NEW f \in committed, NameOf(f) = req[t].name,
             Respond(t, status, {<<req[t].name, f>>}),
             \/ status = "ok"
             \/ status = "not_modified" /\ req[t].inm # NoFlag /\ req[t].inm.version = f.version
      PROVE  Board!AnswerGet(t)
  <2>1. Board!Answer(t, status, {<<req[t].name, f>>})
    BY <1>1, <1>2, <1>4, RespondAnswers
  <2>2. QED
    BY <1>2, <1>3, <1>4, <2>1, SameBoard DEF Board!AnswerGet
<1>5. CASE LookupHit(t)
  <2> DEFINE c == CacheGet(req[t].name)
  <2>1. c \in committed /\ NameOf(c) = req[t].name
    BY <1>1, <1>5, ThreadFacts DEF GoodCache, LookupHit
  <2>2. QED
    BY <1>4, <1>5, <2>1 DEF LookupHit
<1>6. CASE Fill(t) \/ FillFails(t)
  <2>1. local[t].result \in committed /\ NameOf(local[t].result) = req[t].name
    BY <1>1, <1>6 DEF Fill, FillFails, HandlerOK, HoldsCommitted
  <2>2. QED
    BY <1>4, <1>6, <2>1 DEF Fill, FillFails, AnswerFill
<1>7. QED
  BY <1>5, <1>6

LEMMA EvaluationServed ==
  ASSUME BoardInv, [Next]_vars, NEW t \in Threads, EvaluateOne(t)
  PROVE  Board!Look(t) \/ Board!AnswerEvaluation(t)
<1>1. TypeOK /\ TypeOK' /\ Window(t) /\ local[t].todo \subseteq Name
  BY ThreadFacts, TypeInvNext
  DEF BoardInv, HeldInv, TableInv, TypeInv, WindowInv, WindowOK, Window, EvaluateOne
<1>2. /\ pc[t] = "find" /\ req[t].op \in {"evaluate", "evaluate_bulk"}
      /\ UNCHANGED <<flags, committed, writesInDoubt>>
  BY DEF EvaluateOne, Evaluators, NoCommit, storeVars, writesInDoubt
<1>3. requests[t].req = req[t] /\ requests[t].rows = local[t].rows
  BY <1>2, RequestUnderWay
<1>4. Board!Unread(t) = local[t].todo
  BY <1>1, <1>2, <1>3 DEF Board!Unread, Window, Evaluators, Firsts
<1>5. PICK n \in local[t].todo :
        /\ flags[n] # NoFlag
        /\ LET rows == local[t].rows \cup {<<n, flags[n]>>} IN
           IF local[t].todo = {n}
           THEN Respond(t, "ok", rows)
           ELSE /\ local' = [local EXCEPT ![t].todo = @ \ {n}, ![t].rows = rows]
                /\ Goto(t, "find")
  BY DEF EvaluateOne, FindByKey
<1>6. CASE local[t].todo = {n}
  <2>1. Board!Answer(t, "ok", requests[t].rows \cup {<<n, flags[n]>>})
    BY <1>1, <1>2, <1>3, <1>5, <1>6, RespondAnswers
  <2>2. QED
    BY <1>1, <1>2, <1>3, <1>4, <1>5, <1>6, <2>1, SameBoard DEF Board!AnswerEvaluation
<1>7. CASE local[t].todo # {n}
  <2>1. /\ local'[t].rows = local[t].rows \cup {<<n, flags[n]>>}
        /\ pc'[t] = "find" /\ req'[t] = req[t] /\ response' = NoResponse
    BY <1>1, <1>5, <1>7, GotoEffect DEF TypeOK, Local, Goto
  <2>2. \A u \in Threads \ {t} : pc'[u] = pc[u] /\ req'[u] = req[u] /\ local'[u] = local[u]
    BY <1>1, OthersUntouched DEF Step
  <2>3. requests' = [requests EXCEPT ![t] = requests'[t]]
    BY <1>2, <2>1, <2>2, EntryChanges
  <2>4. requests'[t] = Board!Serving(req[t], FALSE, local[t].rows \cup {<<n, flags[n]>>})
    <3>1. requests'[t] = Underway(t)'
      BY <1>2, <2>1 DEF requests
    <3>2. Underway(t)' = [req |-> req[t], done |-> FALSE,
                          rows |-> local[t].rows \cup {<<n, flags[n]>>}]
      BY <2>1 DEF Underway
    <3>3. QED
      BY <3>1, <3>2 DEF Board!Serving
  <2>5. requests' = [requests EXCEPT ![t] =
             Board!Serving(requests[t].req, FALSE, requests[t].rows \cup {<<n, flags[n]>>})]
    BY <1>3, <2>3, <2>4
  <2>6. response'.status = "none"
    BY <2>1 DEF NoResponse
  <2>7. QED
    BY <1>2, <1>3, <1>4, <1>5, <2>5, <2>6 DEF Board!Look, Board!Silent
<1>8. QED
  BY <1>6, <1>7

(* A refusal or an error before the commit, a list: nothing changes.       *)
LEMMA QuietAnswerServed ==
  ASSUME BoardInv, NEW t \in Threads,
         FindNothing(t) \/ ListAll(t) \/ CallFails(t) \/ WriteRefused(t)
  PROVE  Board!Refuse(t) \/ Board!AnswerList(t) \/ Board!Fail(t)
<1>1. TypeOK /\ HandlerOK(t)
  BY DEF BoardInv, HeldInv, TableInv, TypeInv, HandlersOK
<1>2. pc[t] \in {"find", "write"} /\ UNCHANGED <<flags, committed, writesInDoubt>>
  BY DEF FindNothing, ListAll, CallFails, WriteRefused, NoCommit, storeVars, writesInDoubt
<1>3. requests[t].req = req[t] /\ ~requests[t].done
  BY <1>2, RequestUnderWay
<1>4. ASSUME NEW status, NEW rows, Respond(t, status, rows)
      PROVE  Board!Answer(t, status, rows)
  BY <1>1, <1>2, <1>4, RespondAnswers
<1>5. Window(t)
  BY <1>2 DEF BoardInv, WindowInv, WindowOK, Window
<1>6. CASE FindNothing(t)
  <2>1. PICK n \in local[t].todo :
          flags[n] = NoFlag /\ Respond(t, "not_found", {<<n, NoFlag>>})
    BY <1>6 DEF FindNothing, FindByKey
  <2>2. n \in req[t].names /\ req[t].op \notin {"create", "list"}
    BY <1>1, <1>5, <1>6 DEF Window, HandlerOK, FindNothing
  <2>3. Board!Answer(t, "not_found", {<<n, NoFlag>>})
    BY <1>4, <2>1
  <2>4. QED
    BY <1>2, <1>3, <2>1, <2>2, <2>3 DEF Board!Refuse
<1>7. CASE ListAll(t)
  BY <1>2, <1>3, <1>4, <1>7 DEF ListAll, ListRows, Board!AnswerList
<1>8. ASSUME Respond(t, "error", {}) PROVE Board!Fail(t)
  BY <1>2, <1>3, <1>4, <1>8 DEF Board!Fail
<1>9. CASE WriteRefused(t)
  <2> DEFINE n == req[t].name
  <2>1. CASE req[t].op = "create" /\ flags[n] # NoFlag
             /\ Respond(t, "conflict", {<<n, flags[n]>>})
    BY <1>2, <1>3, <1>4, <2>1 DEF Board!Refuse
  <2>2. CASE req[t].op # "create" /\ flags[n] = NoFlag
             /\ Respond(t, "not_found", {<<n, NoFlag>>})
    <3>1. req[t].op # "list" /\ n \in req[t].names
      BY <1>1, <1>5, <1>9 DEF HandlerOK, Mutators, WriteRefused, Window
    <3>2. QED
      BY <1>2, <1>3, <1>4, <2>2, <3>1 DEF Board!Refuse
  <2>3. QED
    BY <1>8, <1>9, <2>1, <2>2 DEF WriteRefused
<1>10. CASE CallFails(t)
  BY <1>8, <1>10 DEF CallFails
<1>11. QED
  BY <1>6, <1>7, <1>9, <1>10

LEMMA WriteServed ==
  ASSUME BoardInv, NEW t \in Threads, WriteCommits(t) \/ WriteInDoubt(t)
  PROVE  Board!Change(t) \/ Board!Fail(t)
<1> DEFINE r == req[t]
<1> USE DEF writesInDoubt
<1>1. TypeOK /\ TableInv /\ r \in Request /\ local \in [Threads -> Local] /\ local[t] \in Local
  BY ThreadFacts DEF BoardInv, HeldInv, TableInv, TypeInv, TypeOK
<1>2. pc[t] = "write" /\ doubt \in [Name -> Request] /\ r.name \in Name
  BY <1>1 DEF WriteCommits, WriteInDoubt, TypeOK, Request
<1>3. requests[t].req = r /\ ~requests[t].done
  BY <1>2, RequestUnderWay
<1>4. CASE WriteInDoubt(t)
  <2>1. Board!Answer(t, "error", {})
    BY <1>1, <1>2, <1>4, RespondAnswers DEF WriteInDoubt
  <2>2. \A n \in Name : doubt'[n] \in {doubt[n], r}
    BY <1>2, <1>4 DEF WriteInDoubt
  <2>3. writesInDoubt' \subseteq writesInDoubt \cup {r}
    BY <2>2
  <2>4. UNCHANGED <<flags, committed>>
    BY <1>4 DEF WriteInDoubt, NoCommit
  <2> HIDE DEF writesInDoubt
  <2>5. QED
    BY <1>3, <2>1, <2>3, <2>4 DEF Board!Fail
<1>5. CASE WriteCommits(t)
  <2>0. Board!Rewrite(r)
    BY <1>1, <1>5, ApplyRewrites DEF WriteCommits
  <2>1. /\ pc'[t] = "audit" /\ req'[t] = r /\ response' = NoResponse
        /\ local'[t].result = flags'[r.name]
    BY <1>1, <1>5, GotoEffect DEF WriteCommits, Goto, Local
  <2>2. \A u \in Threads \ {t} : pc'[u] = pc[u] /\ req'[u] = req[u] /\ local'[u] = local[u]
    BY <1>1, <1>5, OthersUntouched DEF Step
  <2>3. requests' = [requests EXCEPT ![t] = requests'[t]]
    BY <1>2, <2>1, <2>2, EntryChanges
  <2>4. requests'[t] = Board!Serving(r, TRUE, {<<r.name, flags'[r.name]>>})
    <3>1. requests'[t] = Underway(t)'
      BY <2>1 DEF requests
    <3>2. Underway(t)' = [req |-> r, done |-> TRUE, rows |-> {<<r.name, flags'[r.name]>>}]
      BY <2>1 DEF Underway
    <3>3. QED
      BY <3>1, <3>2 DEF Board!Serving
  <2>5. response'.status = "none"
    BY <2>1 DEF NoResponse
  <2>6. \A n \in Name : doubt'[n] \in {doubt[n], NoRequest}
    BY <1>2, <1>5 DEF WriteCommits
  <2>7. writesInDoubt' \subseteq writesInDoubt
    BY <2>6
  <2> HIDE DEF writesInDoubt
  <2>8. QED
    BY <1>3, <2>0, <2>3, <2>4, <2>5, <2>7 DEF Board!Change, Board!Silent
<1>6. QED
  BY <1>4, <1>5

(* A write in doubt takes effect, and can do so only once.                 *)
LEMMA SettlingServed ==
  ASSUME BoardInv, NEW n \in Name, WriteSettles(n)
  PROVE  \E r \in writesInDoubt : Board!Settle(r)
<1> DEFINE r == doubt[n]
<1>1. TypeOK /\ DoubtOK /\ TableInv /\ doubt \in [Name -> Request]
  BY DEF BoardInv, HeldInv, TableInv, TypeInv, TypeOK
<1>2. r \in Request /\ r.name = n /\ Apply(r) /\ Observe(n, flags'[n])
  BY <1>1, DoubtedWrite DEF WriteSettles
<1>3. r # NoRequest
  BY <1>2 DEF Apply, NoRequest, Blank
<1>4. Board!Rewrite(r)
  BY <1>1, <1>2, ApplyRewrites
<1>5. \A m \in Name : m # n => doubt[m] # r /\ doubt'[m] = doubt[m]
  BY <1>1, <1>2, <1>3 DEF WriteSettles, DoubtOK
<1>6. doubt'[n] = NoRequest
  BY <1>1 DEF WriteSettles
<1>7. r \in writesInDoubt /\ writesInDoubt' = writesInDoubt \ {r}
  BY <1>3, <1>5, <1>6 DEF writesInDoubt
<1>8. requests' = requests /\ response' = NoResponse
  BY DEF WriteSettles, threadVars, requests, Underway
<1> HIDE DEF r
<1>9. QED
  BY <1>4, <1>7, <1>8 DEF Board!Settle, Board!Silent, NoResponse

LEMMA ChangeAnswered ==
  ASSUME BoardInv, NEW t \in Threads, pc[t] \in {"audit", "invalidate"},
         UNCHANGED <<flags, committed, writesInDoubt>>,
         Respond(t, "ok", {<<req[t].name, local[t].result>>})
  PROVE  Board!AnswerChange(t)
<1>1. requests[t].done /\ requests[t].rows = {<<req[t].name, local[t].result>>}
  BY RequestUnderWay
<1>2. Board!Answer(t, "ok", requests[t].rows)
  BY <1>1, RespondAnswers DEF BoardInv, HeldInv, TableInv, TypeInv
<1>3. QED
  BY <1>1, <1>2 DEF Board!AnswerChange

(* Steps of a handler that clients do not see. *)
LEMMA HandlerHides ==
  ASSUME TypeOK, NEW t \in Threads, NEW p, Goto(t, p), p # "idle", pc[t] # "idle",
         p \in {"audit", "invalidate"} <=> pc[t] \in {"audit", "invalidate"},
         local'[t].rows = local[t].rows,
         pc[t] \in {"audit", "invalidate"} => local'[t].result = local[t].result,
         \A u \in Threads \ {t} : local'[u] = local[u],
         UNCHANGED <<flags, committed, writesInDoubt>>
  PROVE  Board!Vanish
<1>1. /\ pc'[t] = p /\ req'[t] = req[t] /\ response' = NoResponse
      /\ \A u \in Threads \ {t} : pc'[u] = pc[u] /\ req'[u] = req[u]
  BY DEF Goto, TypeOK
<1>2. {u \in Threads : pc'[u] # "idle"} = {u \in Threads : pc[u] # "idle"}
  BY <1>1
<1>3. Underway(t)' = Underway(t)
  BY <1>1 DEF Underway
<1>4. \A u \in Threads \ {t} : Underway(u)' = Underway(u)
  BY <1>1 DEF Underway
<1>5. requests' = requests
  BY <1>2, <1>3, <1>4 DEF requests
<1>6. QED
  BY <1>1, <1>5, HiddenStep DEF NoResponse

LEMMA HandlerServes ==
  ASSUME BoardInv, GoodCache, [Next]_vars, NEW t \in Threads, Step(t) \/ FaultyStep(t)
  PROVE  Allowed(t)
<1>1. TypeOK /\ local[t] \in Local /\ local \in [Threads -> Local]
  BY ThreadFacts DEF BoardInv, HeldInv, TableInv, TypeInv, TypeOK
<1>2. CASE LookupHit(t) \/ Fill(t) \/ FillFails(t)
  BY <1>2, GetServed DEF Allowed
<1>3. CASE LookupMiss(t) \/ LookupFails(t)
  <2>1. Goto(t, "find") /\ pc[t] = "lookup" /\ UNCHANGED <<flags, committed, writesInDoubt, local>>
    BY <1>3 DEF LookupMiss, LookupFails, storeVars, writesInDoubt, historyVars
  <2>2. QED
    BY <1>1, <2>1, HandlerHides DEF Allowed
<1>4. CASE FindRow(t)
  <2>1. /\ pc[t] = "find" /\ UNCHANGED <<flags, committed, writesInDoubt>>
        /\ Goto(t, "fill") \/ Goto(t, "write")
    BY <1>4 DEF FindRow, storeVars, writesInDoubt, historyVars
  <2>2. local'[t].rows = local[t].rows /\ \A u \in Threads \ {t} : local'[u] = local[u]
    BY <1>1, <1>4 DEF FindRow, Local
  <2>3. QED
    BY <1>1, <2>1, <2>2, HandlerHides DEF Allowed
<1>5. CASE EvaluateOne(t)
  BY <1>5, EvaluationServed DEF Allowed
<1>6. CASE FindNothing(t) \/ ListAll(t) \/ CallFails(t) \/ WriteRefused(t)
  BY <1>6, QuietAnswerServed DEF Allowed
<1>7. CASE WriteCommits(t) \/ WriteInDoubt(t)
  BY <1>7, WriteServed DEF Allowed
<1>8. CASE Audit(t) \/ AuditFails(t)
  <2>1. AfterAudit(t) /\ pc[t] = "audit" /\ UNCHANGED <<flags, committed, writesInDoubt>>
    BY <1>8 DEF Audit, AuditFails, AfterAudit, LogAction, storeVars, writesInDoubt, NoCommit
  <2>2. CASE req[t].op = "create"
    BY <2>1, <2>2, ChangeAnswered DEF AfterAudit, Allowed
  <2>3. CASE req[t].op # "create"
    <3>1. Goto(t, "invalidate") /\ UNCHANGED local
      BY <2>1, <2>3 DEF AfterAudit
    <3>2. QED
      BY <1>1, <2>1, <3>1, HandlerHides DEF Allowed
  <2>4. QED
    BY <2>2, <2>3
<1>9. CASE InvalidateEntry(t) \/ InvalidateFails(t)
  <2>1. /\ pc[t] = "invalidate" /\ UNCHANGED <<flags, committed, writesInDoubt>>
        /\ Respond(t, "ok", {<<req[t].name, local[t].result>>})
    BY <1>9 DEF InvalidateEntry, InvalidateFails, AnswerMutation, storeVars, writesInDoubt, NoCommit
  <2>2. QED
    BY <2>1, ChangeAnswered DEF Allowed
<1>10. QED
  BY <1>2, <1>3, <1>4, <1>5, <1>6, <1>7, <1>8, <1>9 DEF Step, FaultyStep

LEMMA CrashLoses ==
  ASSUME NEW i \in Instances, Crash(i)
  PROVE  Board!Vanish
<1>1. /\ pc' = [t \in Threads |-> IF t \in i THEN "idle" ELSE pc[t]]
      /\ \A t \in Threads \ i : pc'[t] = pc[t] /\ req'[t] = req[t] /\ local'[t] = local[t]
      /\ response' = NoResponse /\ UNCHANGED <<flags, committed, writesInDoubt>>
  BY DEF Crash, NoCommit, storeVars, writesInDoubt
<1> DEFINE gone == DOMAIN requests \cap i
<1>2. {t \in Threads : pc'[t] # "idle"} = DOMAIN requests \ gone
  BY <1>1 DEF requests
<1>3. \A t \in DOMAIN requests \ gone : requests[t] = Underway(t)'
  BY <1>1 DEF requests, Underway
<1>4. requests' = [t \in DOMAIN requests \ gone |-> requests[t]]
  BY <1>2, <1>3 DEF requests
<1>5. gone \in SUBSET DOMAIN requests
  OBVIOUS
<1>6. QED
  BY <1>1, <1>4, <1>5 DEF Board!Vanish, Board!Silent, NoResponse

LEMMA BoardStep ==
  ASSUME BoardInv, GoodCache, [Next]_vars
  PROVE  [Board!BoardNext]_(Board!boardVars)
<1>1. CASE \E t \in Threads : Begin(t)
  BY <1>1, BeginAsks DEF BoardInv, HeldInv, TableInv, Board!BoardNext
<1>2. ASSUME NEW t \in Threads, Step(t) \/ FaultyStep(t)
      PROVE  Board!BoardNext
  <2>1. pc[t] # "idle"
    BY <1>2
    DEF Step, FaultyStep, LookupHit, LookupMiss, FindNothing, FindRow,
        EvaluateOne, ListAll, Fill, WriteCommits, WriteRefused, Audit, AfterAudit,
        InvalidateEntry, LookupFails, CallFails, FillFails, WriteInDoubt,
        AuditFails, InvalidateFails
  <2>2. t \in DOMAIN requests /\ Allowed(t)
    BY <1>2, <2>1, RequestUnderWay, HandlerServes
  <2>3. QED
    BY <2>2 DEF Allowed, Board!BoardNext
<1>3. ASSUME UNCHANGED <<flags, committed, writesInDoubt, threadVars>>
      PROVE  requests' = requests
  BY <1>3 DEF threadVars, requests, Underway
<1>4. CASE (\E k \in RedisKey : ExpireEntry(k)) \/ (\E f \in late : LateSet(f))
  <2>1. UNCHANGED <<flags, committed, writesInDoubt, threadVars>> /\ response' = NoResponse
    BY <1>4 DEF ExpireEntry, LateSet, storeVars, writesInDoubt
  <2>2. Board!Vanish
    BY <1>3, <2>1, HiddenStep DEF NoResponse
  <2>3. QED
    BY <2>2 DEF Board!BoardNext
<1>5. CASE \E i \in Instances : Crash(i)
  BY <1>5, CrashLoses DEF Board!BoardNext
<1>6. CASE \E n \in Name : WriteSettles(n)
  BY <1>6, SettlingServed DEF Board!BoardNext
<1>7. CASE UNCHANGED vars
  BY <1>3, <1>7 DEF vars, storeVars, writesInDoubt, clientVars, historyVars, Board!boardVars
<1>8. QED
  BY <1>1, <1>2, <1>4, <1>5, <1>6, <1>7 DEF Next

(* The server, with its cache, its separate transactions, its failures and *)
(* crashes, implements FlagBoard: every change takes effect at one moment  *)
(* or not at all and is answered with what it wrote, an evaluation has a   *)
(* row of each of its names; this needs names whose Redis keys differ.     *)
THEOREM ServerImplementsBoard == CacheKeysDistinct => (Spec => ServesTheBoard)
<1> SUFFICES ASSUME CacheKeysDistinct PROVE Spec => ServesTheBoard
  OBVIOUS
<1>1. HeldInv => GoodCache
  BY DistinctKeysGoodCache DEF HeldInv, TableInv, TypeInv
<1>2. HeldInv /\ WindowInv /\ [Next]_vars => [Board!BoardNext]_(Board!boardVars)
  BY <1>1, BoardStep DEF BoardInv
<1>3. Spec => Board!BoardSpec
  BY <1>2, BoardStarts, HeldInvariant, WindowInvariant, PTL DEF Spec, Board!BoardSpec
<1>4. QED
  BY <1>3 DEF ServesTheBoard
=============================================================================
