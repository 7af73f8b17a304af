----------------------- MODULE FlagServerAudit_proofs -----------------------
(***************************************************************************)
(* The audit log never shows two states of a flag in the wrong order, and  *)
(* never an entry for a delete.                                            *)
(***************************************************************************)
EXTENDS FlagServer_proofs

AuditInv == HeldInv /\ EntryInOrder /\ AuditFaithful

-----------------------------------------------------------------------------
(* An id that is not in the table and has been given out is gone for good. *)
LEMMA GoneForGood ==
  ASSUME TableInv, [Next]_vars, NEW i \in Nat, i < nextId, ~IsLive(i)
  PROVE  ~IsLive(i)'
<1>1. TypeOK /\ flags \in [Name -> FlagOrNone] /\ nextId \in Nat
  BY DEF TableInv, TypeInv, TypeOK, StoreTypeOK
<1>2. ASSUME NEW r \in Request, Commit(r) PROVE ~IsLive(i)'
  <2>1. r \in Request /\ r.name \in Name /\ Apply(r)
    BY <1>2 DEF Commit, Request
  <2>2. \A m \in Name : m # r.name => flags'[m] = flags[m]
    BY <1>1, <2>1, ApplyCases
  <2>3. \/ flags'[r.name] = NoFlag
        \/ flags'[r.name].id = nextId
        \/ flags[r.name] # NoFlag /\ flags'[r.name].id = flags[r.name].id
    <3>1. CASE flags' = [flags EXCEPT ![r.name] =
                 [id |-> nextId, env |-> r.name[1], key |-> r.name[2],
                  body |-> r.body, enabled |-> r.enabled, version |-> 1]]
      BY <1>1, <2>1, <3>1
    <3>2. CASE /\ flags[r.name] \in Flag
               /\ \E b \in Body, e \in BOOLEAN :
                    flags' = [flags EXCEPT ![r.name] = Revised(flags[r.name], b, e)]
      BY <1>1, <2>1, <3>2, FlagsAssumption DEF Revised
    <3>3. CASE flags' = [flags EXCEPT ![r.name] = NoFlag]
      BY <1>1, <2>1, <3>3
    <3>4. QED
      BY <1>1, <2>1, <3>1, <3>2, <3>3, ApplyCases
  <2>4. \A m \in Name : m # r.name => (flags'[m] # NoFlag => flags'[m].id # i)
    BY <2>2 DEF IsLive
  <2>5. flags'[r.name] # NoFlag => flags'[r.name].id # i
    BY <2>1, <2>3 DEF IsLive
  <2>6. QED
    BY <2>4, <2>5 DEF IsLive
<1>3. CASE UNCHANGED <<flags, nextId, committed>>
  BY <1>3 DEF IsLive
<1>4. QED
  BY <1>2, <1>3, OnlyCommits DEF TableInv

(* A handler gets to its audit entry by its commit. *)
LEMMA AtAudit ==
  ASSUME TypeInv, [Next]_vars, NEW t \in Threads, pc'[t] = "audit"
  PROVE  \/ WriteCommits(t)
         \/ pc[t] = "audit" /\ req'[t] = req[t] /\ local'[t] = local[t]
<1>1. TypeOK
  BY DEF TypeInv
<1>2. ASSUME NEW p, p # "audit", Goto(t, p) PROVE FALSE
  BY <1>1, <1>2, GotoEffect
<1>3. ASSUME NEW status, NEW rows, Respond(t, status, rows) PROVE FALSE
  BY <1>1, <1>3 DEF TypeOK, Respond
<1>4. CASE Begin(t)
  <2>1. PICK r : Start(t, r)
    BY <1>4 DEF Begin
  <2>2. pc'[t] = FirstCall(r.op)
    BY <1>1, <2>1 DEF Start, TypeOK
  <2>3. QED
    BY <2>2 DEF FirstCall
<1>5. CASE Step(t)
  BY <1>2, <1>3, <1>5
  DEF Step, LookupHit, LookupMiss, FindNothing, FindRow, EvaluateOne, ListAll, Fill,
      AnswerFill, WriteRefused, Audit, AfterAudit, InvalidateEntry, AnswerMutation
<1>6. CASE FaultyStep(t)
  BY <1>2, <1>3, <1>6
  DEF FaultyStep, LookupFails, CallFails, FillFails, WriteInDoubt, AuditFails,
      InvalidateFails, AnswerFill, AfterAudit, AnswerMutation
<1>7. CASE \E u \in Threads \ {t} : Begin(u) \/ Step(u) \/ FaultyStep(u)
  BY <1>1, <1>7, OthersUntouched
<1>8. CASE \E i \in Instances : Crash(i)
  BY <1>8 DEF Crash
<1>9. CASE \/ \E k \in RedisKey : ExpireEntry(k)
           \/ \E f \in late : LateSet(f)
           \/ \E n \in Name : WriteSettles(n)
           \/ UNCHANGED vars
  BY <1>9 DEF ExpireEntry, LateSet, WriteSettles, threadVars, vars
<1>10. QED
  BY <1>4, <1>5, <1>6, <1>7, <1>8, <1>9 DEF Next

InOrder(t) ==
  CASE req[t].op = "create" -> TRUE
    [] req[t].op = "delete" -> ~IsLive(local[t].existing.id)
    [] OTHER                -> Later(local[t].result, local[t].existing)

(* What a handler knows of the two rows of its entry once it has committed. *)
LEMMA CommitInOrder ==
  ASSUME HeldInv, [Next]_vars, NEW t \in Threads, WriteCommits(t)
  PROVE  InOrder(t)'
<1> DEFINE n == req[t].name
           existing == local[t].existing
<1>1. /\ TypeOK /\ HandlerOK(t) /\ TableInv /\ TableNewest /\ TableNewest' /\ TypeOK'
  BY TableInvNext DEF HeldInv, TableInv, TypeInv, HandlersOK
<1>2. /\ req[t] \in Request /\ n \in Name /\ flags \in [Name -> FlagOrNone]
      /\ committed \subseteq Flag
  BY <1>1, ThreadFacts DEF TypeOK, StoreTypeOK
<1>3. req'[t] = req[t] /\ local'[t] = [local[t] EXCEPT !.result = flags'[n]]
  BY <1>1, GotoEffect DEF WriteCommits, TypeOK
<1>4. local'[t].existing = existing /\ local'[t].result = flags'[n]
  BY <1>1, <1>3, ThreadFacts DEF Local
<1>5. CASE req[t].op = "create"
  BY <1>3, <1>5 DEF InOrder
<1>6. CASE req[t].op # "create"
  <2>1. existing \in committed /\ NameOf(existing) = n /\ existing \in Flag
    BY <1>1, <1>2, <1>6 DEF WriteCommits, HandlerOK, HeldInv, HoldsCommitted
  <2>2. existing \in committed'
    BY <2>1, CommittedGrows DEF HeldInv, TableInv
  <2>3. CASE req[t].op = "delete"
    <3>1. flags'[n] = NoFlag
      BY <1>1, <1>2, <2>3, ApplyResult DEF WriteCommits
    <3>2. ASSUME NEW m \in Name, flags'[m] # NoFlag, flags'[m].id = existing.id
          PROVE  FALSE
      <4>1. flags'[m] \in committed' /\ NameOf(flags'[m]) = m
        BY <1>1, <3>2 DEF TableNewest
      <4>2. m = n
        BY <1>1, <2>1, <2>2, <3>2, <4>1 DEF TableNewest
      <4>3. QED
        BY <3>1, <3>2, <4>2
    <3>3. QED
      BY <1>3, <1>4, <2>3, <3>2 DEF InOrder, IsLive
  <2>4. CASE req[t].op # "delete"
    <3>1. /\ flags[n] \in Flag
          /\ \E b \in Body, e \in BOOLEAN : flags'[n] = Revised(flags[n], b, e)
      <4>1. Update(n, req[t].body, req[t].enabled) \/ Toggle(n)
        BY <1>6, <2>4 DEF WriteCommits, Apply
      <4>2. flags[n] # NoFlag
        BY <4>1 DEF Update, Toggle, CanBump
      <4>3. flags'[n] # NoFlag
        BY <1>1, <1>2, <2>4, ApplyResult DEF WriteCommits
      <4>4. QED
        BY <1>1, <1>2, <4>2, <4>3, ApplyCases DEF WriteCommits
    <3>2. flags[n] = existing \/ Later(flags[n], existing)
      BY <1>1, <2>1, <3>1, FlagsAssumption DEF TableNewest
    <3>3. Later(flags'[n], existing)
      BY <2>1, <3>1, <3>2 DEF Later, Revised, Flag
    <3>4. QED
      BY <1>3, <1>4, <1>6, <2>4, <3>3 DEF InOrder
  <2>5. QED
    BY <2>3, <2>4
<1>7. QED
  BY <1>5, <1>6

LEMMA EntryInOrderNext ==
  ASSUME HeldInv, EntryInOrder, [Next]_vars
  PROVE  EntryInOrder'
<1>1. \A t \in Threads : pc[t] = "audit" => InOrder(t)
  BY DEF EntryInOrder, InOrder
<1>2. ASSUME NEW t \in Threads, pc'[t] = "audit" PROVE InOrder(t)'
  <2>1. CASE WriteCommits(t)
    BY <2>1, CommitInOrder
  <2>2. CASE pc[t] = "audit" /\ req'[t] = req[t] /\ local'[t] = local[t]
    <3>1. CASE req[t].op # "delete"
      BY <1>1, <2>2, <3>1 DEF InOrder
    <3>2. CASE req[t].op = "delete"
      <4>1. HandlerOK(t) /\ TableInv /\ TypeOK /\ HoldsCommitted
        BY DEF HeldInv, TableInv, TypeInv, HandlersOK
      <4>2. local[t].existing \in committed
        BY <2>2, <3>2, <4>1 DEF HandlerOK, HoldsCommitted
      <4>3. local[t].existing.id \in Nat /\ local[t].existing.id < nextId
        BY <4>1, <4>2 DEF TableInv, TableNewest, TypeOK, Flag
      <4>4. ~IsLive(local[t].existing.id)
        BY <1>1, <2>2, <3>2 DEF InOrder
      <4>5. ~IsLive(local[t].existing.id)'
        <5>1. \A i \in Nat : i < nextId /\ ~IsLive(i) => ~IsLive(i)'
          BY <4>1, GoneForGood
        <5>2. QED
          BY <2>2, <4>3, <4>4, <5>1 DEF IsLive
      <4>6. QED
        BY <2>2, <3>2, <4>5 DEF InOrder
    <3>3. QED
      BY <3>1, <3>2
  <2>3. QED
    BY <1>2, <2>1, <2>2, AtAudit DEF HeldInv, TableInv
<1>3. QED
  BY <1>2 DEF EntryInOrder, InOrder
-----------------------------------------------------------------------------
EntryFaithful(e) ==
  /\ e.new_value \in committed /\ e.new_value.id = e.flag_id
  /\ e.prev_value # NoFlag => /\ e.prev_value \in committed
                              /\ NameOf(e.prev_value) = NameOf(e.new_value)
                              /\ Later(e.new_value, e.prev_value)

(* The log loses entries, with their flag, or gains one of a flag that     *)
(* still exists.                                                           *)
LEMMA LogChanges ==
  ASSUME [Next]_vars
  PROVE  \/ audit_log' \subseteq audit_log
         \/ \E t \in Threads : /\ pc[t] = "audit"
                               /\ IsLive(Entry(t).flag_id)
                               /\ audit_log' = audit_log \cup {Entry(t)}
<1> USE DEF storeVars
<1>1. ASSUME NEW r, Apply(r) PROVE audit_log' \subseteq audit_log
  BY <1>1 DEF Apply, Create, Update, Toggle, Remove
<1>2. ASSUME NEW t \in Threads, Audit(t)
      PROVE  \/ audit_log' \subseteq audit_log
             \/ /\ pc[t] = "audit" /\ IsLive(Entry(t).flag_id)
                /\ audit_log' = audit_log \cup {Entry(t)}
  BY <1>2 DEF Audit, AfterAudit, LogAction
<1>3. ASSUME NEW t \in Threads, Step(t), ~Audit(t)
      PROVE  audit_log' \subseteq audit_log
  BY <1>1, <1>3
  DEF Step, LookupHit, LookupMiss, FindNothing, FindRow, EvaluateOne, ListAll, Fill,
      AnswerFill, WriteCommits, WriteRefused, InvalidateEntry, AnswerMutation
<1>4. ASSUME NEW t \in Threads, FaultyStep(t) PROVE audit_log' \subseteq audit_log
  BY <1>1, <1>4
  DEF FaultyStep, LookupFails, CallFails, FillFails, WriteInDoubt, AuditFails,
      InvalidateFails, AnswerFill, AnswerMutation
<1>5. CASE \/ \E t \in Threads : Begin(t)
           \/ \E k \in RedisKey : ExpireEntry(k)
           \/ \E f \in late : LateSet(f)
           \/ \E i \in Instances : Crash(i)
           \/ UNCHANGED vars
  BY <1>5 DEF Begin, ExpireEntry, LateSet, Crash, vars
<1>6. CASE \E n \in Name : WriteSettles(n)
  BY <1>1, <1>6 DEF WriteSettles
<1>7. QED
  BY <1>2, <1>3, <1>4, <1>5, <1>6 DEF Next

LEMMA EntryGood ==
  ASSUME HeldInv, EntryInOrder, NEW t \in Threads, pc[t] = "audit",
         IsLive(Entry(t).flag_id)
  PROVE  EntryFaithful(Entry(t))
<1> DEFINE existing == local[t].existing
           result == local[t].result
<1>1. HandlerOK(t) /\ HoldsCommitted
  BY DEF HeldInv, TableInv, TypeInv, HandlersOK
<1>2. InOrder(t)
  BY DEF EntryInOrder, InOrder
<1>3. req[t].op # "delete"
  BY <1>2 DEF InOrder, Entry
<1>4. result \in committed /\ NameOf(result) = req[t].name
  BY <1>1, <1>3 DEF HandlerOK, HoldsCommitted
<1>5. /\ Entry(t).flag_id = result.id /\ Entry(t).prev_value = existing
      /\ Entry(t).new_value = result
  BY <1>3 DEF Entry
<1>6. existing # NoFlag => /\ existing \in committed /\ NameOf(existing) = req[t].name
                           /\ Later(result, existing)
  BY <1>1, <1>2, <1>3 DEF HandlerOK, HoldsCommitted, InOrder
<1>7. QED
  BY <1>4, <1>5, <1>6 DEF EntryFaithful

LEMMA AuditInvNext == AuditInv /\ [Next]_vars => AuditInv'
<1> SUFFICES ASSUME AuditInv, [Next]_vars PROVE AuditInv'
    OBVIOUS
<1>1. HeldInv /\ HeldInv' /\ EntryInOrder /\ EntryInOrder'
  BY HeldInvNext, EntryInOrderNext DEF AuditInv
<1>2. \A e \in audit_log : EntryFaithful(e)
  BY DEF AuditInv, AuditFaithful, EntryFaithful
<1>3. ASSUME NEW e, EntryFaithful(e) PROVE EntryFaithful(e)'
  BY <1>1, <1>3, CommittedGrows DEF HeldInv, TableInv, EntryFaithful, Later
<1>4. \A e \in audit_log' : EntryFaithful(e)
  BY <1>1, <1>2, LogChanges, EntryGood
<1>5. \A e \in audit_log' : EntryFaithful(e)'
  BY <1>3, <1>4
<1>6. QED
  BY <1>1, <1>5 DEF AuditInv, AuditFaithful, EntryFaithful

(* Every entry of the audit log shows two committed states of one flag, the *)
(* older one first, though they are read in separate transactions and other *)
(* mutations, deletions, re-creations, failures and crashes come between.   *)
(* A delete's entry shows no new state: there never is one in the log.      *)
THEOREM AuditIsFaithful == Spec => []AuditFaithful
<1>1. Init => AuditInv
  BY HeldInvInit DEF AuditInv, EntryInOrder, AuditFaithful, Init, StoreInit
<1>2. AuditInv => AuditFaithful
  BY DEF AuditInv
<1>3. QED
  BY <1>1, <1>2, AuditInvNext, PTL DEF Spec
-----------------------------------------------------------------------------
(* Steps without a fault *)

(* Before any fault there is neither a faulty step nor a crash. *)
LEMMA NoFaultYet ==
  ASSUME TypeInv, [Next]_vars, faults' = 0
  PROVE  /\ faults = 0
         /\ \/ \E t \in Threads : Begin(t) \/ Step(t)
            \/ \E k \in RedisKey : ExpireEntry(k)
            \/ \E f \in late : LateSet(f)
            \/ UNCHANGED vars
<1>1. faults \in Nat
  BY DEF TypeInv, TypeOK
<1>2. ~Fault
  BY <1>1 DEF Fault
<1>3. ASSUME NEW t \in Threads, FaultyStep(t) PROVE FALSE
  BY <1>2, <1>3
  DEF FaultyStep, LookupFails, CallFails, FillFails, WriteInDoubt, AuditFails, InvalidateFails
<1>4. ASSUME NEW i \in Instances, Crash(i) PROVE FALSE
  BY <1>2, <1>4 DEF Crash
<1>5. ASSUME NEW n \in Name, WriteSettles(n) PROVE FALSE
  BY <1>1, <1>5, DoubtedWrite DEF WriteSettles, TypeInv
<1>6. \/ \E t \in Threads : Begin(t) \/ Step(t)
      \/ \E k \in RedisKey : ExpireEntry(k)
      \/ \E f \in late : LateSet(f)
      \/ UNCHANGED vars
  BY <1>3, <1>4, <1>5 DEF Next
<1>7. ASSUME NEW t \in Threads, Begin(t) \/ Step(t) PROVE faults' = faults
  BY <1>7
  DEF Begin, Step, LookupHit, LookupMiss, FindNothing, FindRow, EvaluateOne, ListAll, Fill,
      WriteCommits, WriteRefused, Audit, InvalidateEntry
<1>8. faults' = faults
  BY <1>6, <1>7 DEF ExpireEntry, LateSet, vars
<1>9. QED
  BY <1>6, <1>8

(* A handler that has committed goes on by its audit entry, then by its     *)
(* invalidation.                                                           *)
LEMMA AfterCommit ==
  ASSUME TypeInv, [Next]_vars, faults' = 0,
         NEW t \in Threads, pc[t] \in {"audit", "invalidate"}
  PROVE  \/ pc[t] = "audit" /\ Audit(t)
         \/ pc[t] = "invalidate" /\ InvalidateEntry(t)
         \/ pc'[t] = pc[t] /\ req'[t] = req[t] /\ local'[t] = local[t]
<1> USE DEF TypeInv
<1>1. CASE Begin(t) \/ Step(t)
  BY <1>1
  DEF Begin, Step, LookupHit, LookupMiss, FindNothing, FindRow, EvaluateOne, ListAll, Fill,
      WriteCommits, WriteRefused, Audit, AfterAudit, InvalidateEntry
<1>2. CASE \E u \in Threads \ {t} : Begin(u) \/ Step(u)
  BY <1>2, OthersUntouched
<1>3. CASE \/ \E k \in RedisKey : ExpireEntry(k)
           \/ \E f \in late : LateSet(f)
           \/ UNCHANGED vars
  BY <1>3 DEF ExpireEntry, LateSet, threadVars, vars
<1>4. QED
  BY <1>1, <1>2, <1>3, NoFaultYet
-----------------------------------------------------------------------------
(* No version is missing from the log *)

Logged(n, v) ==
  \/ v = 1 /\ \E f \in Seed : f.id = flags[n].id
  \/ \E t \in Threads : AuditPending(t, flags[n].id, v)
  \/ \E e \in audit_log : e.flag_id = flags[n].id /\ e.new_value.version = v

Complete == \A n \in Name : flags[n] # NoFlag => \A v \in 1..flags[n].version : Logged(n, v)

(* What the step of another thread, or of this one to its audit entry,      *)
(* leaves of a version logged, when its row keeps its id.                  *)
LEMMA LoggedStays ==
  ASSUME HeldInv, [Next]_vars, faults' = 0, NEW n \in Name, NEW v, Logged(n, v),
         flags[n] # NoFlag, flags'[n] # NoFlag, flags'[n].id = flags[n].id
  PROVE  Logged(n, v)'
<1> DEFINE i == flags[n].id
<1>1. TypeOK /\ TypeInv /\ TableNewest /\ \A t \in Threads : HandlerOK(t)
  BY DEF HeldInv, TableInv, TypeInv, HandlersOK
<1>2. CASE v = 1 /\ \E f \in Seed : f.id = i
  BY <1>2 DEF Logged
<1>3. ASSUME NEW t \in Threads, AuditPending(t, i, v) PROVE Logged(n, v)'
  <2>1. pc[t] = "audit" /\ local[t].result # NoFlag /\ local[t].result.id = i
        /\ local[t].result.version = v
    BY <1>3 DEF AuditPending
  <2>2. CASE Audit(t)
    <3>1. req[t].op # "delete"
      BY <1>1, <2>1 DEF HandlerOK
    <3>2. Entry(t).flag_id = i /\ Entry(t).new_value.version = v
      BY <2>1, <3>1 DEF Entry
    <3>3. UNCHANGED flags /\ IsLive(i)
      BY <2>2 DEF Audit, LogAction, IsLive
    <3>4. audit_log' = audit_log \cup {Entry(t)}
      BY <2>2, <3>2, <3>3 DEF Audit, LogAction
    <3>5. QED
      BY <3>2, <3>3, <3>4 DEF Logged
  <2>3. CASE pc'[t] = pc[t] /\ req'[t] = req[t] /\ local'[t] = local[t]
    BY <2>1, <2>3 DEF Logged, AuditPending
  <2>4. QED
    BY <1>1, <2>1, <2>2, <2>3, AfterCommit
<1>4. ASSUME NEW e \in audit_log, e.flag_id = i, e.new_value.version = v
      PROVE  Logged(n, v)'
  <2>1. e \in audit_log'
    <3>1. CASE \E t \in Threads : WriteCommits(t) /\ Remove(req[t].name)
      <4>1. PICK t \in Threads : WriteCommits(t) /\ Remove(req[t].name)
        BY <3>1
      <4>2. req[t].name \in Name /\ flags \in [Name -> FlagOrNone]
        BY <1>1, ThreadFacts DEF TypeOK, StoreTypeOK
      <4>3. flags[req[t].name] # NoFlag /\ flags'[req[t].name] = NoFlag
        BY <4>1, <4>2 DEF Remove
      <4>4. flags[req[t].name].id # i
        BY <1>1, <4>2, <4>3 DEF TableNewest
      <4>5. QED
        BY <1>4, <4>1, <4>4 DEF Remove
    <3>2. CASE ~\E t \in Threads : WriteCommits(t) /\ Remove(req[t].name)
      <4> USE DEF storeVars
      <4>1. ASSUME NEW t \in Threads, Step(t) PROVE audit_log \subseteq audit_log'
        BY <3>2, <4>1
        DEF Step, LookupHit, LookupMiss, FindNothing, FindRow, EvaluateOne, ListAll, Fill,
            AnswerFill, WriteCommits, Apply, Create, Update, Toggle, WriteRefused, Audit,
            LogAction, InvalidateEntry, AnswerMutation
      <4>2. audit_log \subseteq audit_log'
        BY <1>1, <4>1, NoFaultYet DEF Begin, ExpireEntry, LateSet, vars
      <4>3. QED
        BY <4>2
    <3>3. QED
      BY <3>1, <3>2
  <2>2. QED
    BY <1>4, <2>1 DEF Logged
<1>5. QED
  BY <1>2, <1>3, <1>4 DEF Logged

LEMMA CompleteNext ==
  ASSUME HeldInv, [Next]_vars, faults' = 0, Complete
  PROVE  Complete'
<1>1. TypeOK /\ TypeOK' /\ TypeInv /\ flags \in [Name -> FlagOrNone] /\ faults = 0
  BY TypeInvNext, NoFaultYet DEF HeldInv, TableInv, TypeInv, TypeOK, StoreTypeOK
<1> SUFFICES ASSUME NEW n \in Name, flags'[n] # NoFlag, NEW v \in 1..flags'[n].version
             PROVE  Logged(n, v)'
  BY DEF Complete
<1>2. CASE flags'[n] = flags[n]
  <2>1. Logged(n, v)
    BY <1>2 DEF Complete
  <2>2. QED
    BY <1>2, <2>1, LoggedStays
<1>3. CASE flags'[n] # flags[n]
  <2>1. PICK t \in Threads : WriteCommits(t)
    <3> USE DEF storeVars
    <3>1. ASSUME NEW t \in Threads, Begin(t) \/ Step(t)
          PROVE  WriteCommits(t) \/ UNCHANGED flags
      BY <3>1
      DEF Begin, Step, LookupHit, LookupMiss, FindNothing, FindRow, EvaluateOne, ListAll,
          Fill, AnswerFill, WriteRefused, Audit, LogAction, InvalidateEntry, AnswerMutation
    <3>2. QED
      BY <1>1, <1>3, <3>1, NoFaultYet DEF ExpireEntry, LateSet, vars
  <2> DEFINE r == req[t]
  <2>2. r \in Request /\ Apply(r) /\ r.name \in Name
    BY <1>1, <2>1, ThreadFacts DEF WriteCommits
  <2>3. r.name = n
    BY <1>1, <1>3, <2>2, ApplyCases
  <2>4. pc'[t] = "audit" /\ local'[t].result = flags'[n]
    <3>1. pc'[t] = "audit" /\ local'[t] = [local[t] EXCEPT !.result = flags'[n]]
      BY <1>1, <2>1, <2>3, GotoEffect DEF WriteCommits, TypeOK
    <3>2. QED
      BY <1>1, <3>1, ThreadFacts DEF Local
  <2>5. CASE flags'[n].version = v
    BY <2>4, <2>5 DEF Logged, AuditPending
  <2>6. CASE flags'[n].version # v
    <3>1. \/ flags'[n].version = 1
          \/ flags[n] \in Flag /\ flags'[n].id = flags[n].id
             /\ flags'[n].version = flags[n].version + 1
      <4>1. CASE flags' = [flags EXCEPT ![n] =
                   [id |-> nextId, env |-> n[1], key |-> n[2],
                    body |-> r.body, enabled |-> r.enabled, version |-> 1]]
        BY <1>1, <4>1
      <4>2. CASE /\ flags[n] \in Flag
                 /\ \E b \in Body, e \in BOOLEAN :
                      flags' = [flags EXCEPT ![n] = Revised(flags[n], b, e)]
        BY <1>1, <4>2 DEF Revised
      <4>3. CASE flags' = [flags EXCEPT ![n] = NoFlag]
        BY <1>1, <4>3
      <4>4. QED
        BY <1>1, <2>2, <2>3, <4>1, <4>2, <4>3, ApplyCases
    <3>2. /\ flags[n] # NoFlag /\ flags'[n].id = flags[n].id
          /\ v \in 1..flags[n].version
      BY <2>6, <3>1, FlagsAssumption DEF Flag
    <3>3. Logged(n, v)
      BY <3>2 DEF Complete
    <3>4. QED
      BY <3>2, <3>3, LoggedStays
  <2>7. QED
    BY <2>5, <2>6
<1>4. QED
  BY <1>2, <1>3

(* While nothing has failed, every version of every flag that exists is in  *)
(* the audit log under the id of its row, or its handler is at the step    *)
(* that logs it, or it is a seeded row: separate transactions for the change and for *)
(* its entry, deletions and cascades lose no entry of a flag that lives.   *)
THEOREM AuditIsComplete == Spec => []AuditComplete
<1> DEFINE CInv == HeldInv /\ (faults = 0 => Complete)
<1>1. Init => CInv
  <2> SUFFICES ASSUME Init PROVE Complete
    BY HeldInvInit
  <2>1. \A n \in Name : flags[n] # NoFlag => flags[n] \in Seed
    BY DEF Init, StoreInit
  <2>2. \A f \in Seed : f.version = 1
    BY StoreAssumption
  <2>3. QED
    BY <2>1, <2>2 DEF Complete, Logged
<1>2. CInv /\ [Next]_vars => CInv'
  <2> SUFFICES ASSUME CInv, [Next]_vars PROVE CInv'
    OBVIOUS
  <2>1. HeldInv'
    BY HeldInvNext
  <2>2. ASSUME faults' = 0 PROVE Complete'
    <3>1. faults = 0
      BY <2>2, NoFaultYet DEF HeldInv, TableInv
    <3>2. QED
      BY <2>2, <3>1, CompleteNext
  <2>3. QED
    BY <2>1, <2>2
<1>3. CInv => AuditComplete
  BY DEF AuditComplete, Complete, Logged
<1>4. QED
  BY <1>1, <1>2, <1>3, PTL DEF Spec
=============================================================================
