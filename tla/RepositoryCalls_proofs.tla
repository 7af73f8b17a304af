------------------------ MODULE RepositoryCalls_proofs ------------------------
(***************************************************************************)
(* Proofs about RepositoryCalls, for any number of threads, connections    *)
(* and rows, and however many connections break: the pool stays free of    *)
(* transactions, failures are confined to broken connections, and the      *)
(* methods implement the atomic calls of AtomicCalls.                      *)
(***************************************************************************)
EXTENDS RepositoryCalls, TLAPS

(* Where a thread is, what it has.  The holder of a connection is unique.   *)
Stations ==
  /\ \A t \in Threads : pc[t] = "idle" <=> req[t] = NoCall
  /\ \A t \in Threads : t \in wants <=> pc[t] = "acquire"
  /\ \A t \in Threads : held[t] = None <=> pc[t] \in {"idle", "acquire"}
  /\ \A t \in Threads : held[t] \notin free
  /\ \A s, t \in Threads : held[s] = held[t] /\ held[t] # None => s = t

(* The transaction objects are those of the threads inside a method.        *)
InTransaction == {"execute", "commit", "await", "rollback"}

Opened ==
  /\ \A t \in Threads : pc[t] \in InTransaction => held[t] \in open
  /\ \A c \in open : \E t \in Threads : held[t] = c /\ pc[t] \in InTransaction

(* What a thread knows of its call. *)
Progress ==
  \A t \in Threads :
    /\ pc[t] \in {"acquire", "begin", "execute"} => local[t] = Fresh
    /\ pc[t] \in {"commit", "await"} =>
         /\ ~local[t].failed
         /\ local[t].done \/ held[t] \in broken \/ LockedBy(held[t]) # {}
    /\ pc[t] \in {"rollback", "release"} => local[t].failed \/ local[t].done
    /\ local[t].done => local[t].result # Error

(* A locked row is as the statement found it, and the lock's owner, unless  *)
(* it is gone, is a thread that has yet to hear of its commit.              *)
Owns(t, r) ==
  /\ held[t] = lock[r].by
  /\ req[t] = [op |-> lock[r].op, row |-> r]
  /\ pc[t] \in {"commit", "await", "rollback", "release"}
  /\ ~local[t].done
  /\ local[t].result = Result(lock[r].op, table[r])

Locks ==
  \A r \in Rows : lock[r] # NoLock =>
    /\ lock[r].value = After(lock[r].op, table[r])
    /\ lock[r].by # Gone => \E t \in Threads : Owns(t, r)

CallInv == TypeOK /\ Stations /\ Opened /\ BlamesConnection /\ Progress /\ Locks

-----------------------------------------------------------------------------
(* The statements *)

LEMMA StatementType ==
  ASSUME NEW op \in Op, NEW v \in 0..MaxVersion
  PROVE  /\ After(op, v) \in 0..MaxVersion
         /\ Result(op, v) \in Answer /\ Result(op, v) # Error
         /\ Refuses(op, v) => ~Changes(op, v)
         /\ ~Changes(op, v) => After(op, v) = v
<1>1. MaxVersion \in Nat \ {0} /\ v \in Nat /\ v <= MaxVersion
  BY CallsAssumption
<1>2. After(op, v) \in 0..MaxVersion
  BY <1>1 DEF After, Changes, Op
<1>3. Result(op, v) \in Answer /\ Result(op, v) # Error
  BY <1>2 DEF Result, Answer, Error
<1>4. Refuses(op, v) => ~Changes(op, v)
  BY <1>1 DEF Refuses, Changes
<1>5. ~Changes(op, v) => After(op, v) = v
  BY DEF After
<1>6. QED
  BY <1>2, <1>3, <1>4, <1>5

LEMMA NoLocks == NoLock \notin Lock /\ Gone \notin Connections /\ None \notin Connections
BY CallsAssumption

LEMMA Locals ==
  /\ Fresh \in Local /\ Fresh.result = Error /\ ~Fresh.failed /\ ~Fresh.done
  /\ \A l \in Local : l.result \in Answer /\ l.failed \in BOOLEAN /\ l.done \in BOOLEAN
BY DEF Fresh, Local, Answer, Error
-----------------------------------------------------------------------------
(* The inductive invariant *)

LEMMA CallInvInit == Init => CallInv
<1> SUFFICES ASSUME Init PROVE CallInv
  OBVIOUS
<1>1. TypeOK
  BY Locals DEF Init, ContractInit, TypeOK
<1>2. Stations
  BY CallsAssumption DEF Init, ContractInit, Stations
<1>3. Opened /\ BlamesConnection /\ Progress /\ Locks
  BY Locals DEF Init, Opened, InTransaction, BlamesConnection, Progress, Locks, Owns
<1>4. QED
  BY <1>1, <1>2, <1>3 DEF CallInv

LEMMA CallInvNext == CallInv /\ [Next]_vars => CallInv'
<1> SUFFICES ASSUME CallInv, [Next]_vars PROVE CallInv'
  OBVIOUS
<1> USE DEF CallInv
<1>0. /\ None \notin Connections /\ Gone \notin Connections /\ NoLock \notin Lock
  BY CallsAssumption
<1>1. CASE UNCHANGED vars
  BY <1>1 DEF vars, contractVars, TypeOK, Stations, Opened, BlamesConnection, Progress, Locks,
              Owns, LockedBy
<1>2. ASSUME NEW t \in Threads, Call(t) PROVE CallInv'
  <2>1. PICK s \in Statement : req' = [req EXCEPT ![t] = s]
    BY <1>2 DEF Call
  <2>2. /\ pc[t] = "idle" /\ pc' = [pc EXCEPT ![t] = "acquire"]
        /\ wants' = wants \cup {t} /\ local' = [local EXCEPT ![t] = Fresh]
        /\ UNCHANGED <<free, held, table, open, broken, lock, faults>>
    BY <1>2 DEF Call, Move, Request
  <2>3. s # NoCall
    BY DEF Statement, NoCall, Op
  <2>4. TypeOK'
    BY <2>1, <2>2, Locals DEF TypeOK
  <2>5. Stations'
    BY <2>1, <2>2, <2>3 DEF TypeOK, Stations
  <2>6. Opened' /\ BlamesConnection' /\ Progress'
    BY <2>2, Locals DEF TypeOK, Opened, InTransaction, BlamesConnection, Progress, LockedBy
  <2>7. Locks'
    BY <2>1, <2>2 DEF TypeOK, Locks, Owns
  <2>8. QED
    BY <2>4, <2>5, <2>6, <2>7
<1>3. ASSUME NEW t \in Threads, Acquire(t) PROVE CallInv'
  <2>1. PICK c \in free : held' = [held EXCEPT ![t] = c] /\ free' = free \ {c}
    BY <1>3 DEF Acquire, Grant
  <2>2. /\ pc[t] = "acquire" /\ pc' = [pc EXCEPT ![t] = "begin"]
        /\ wants' = wants \ {t} /\ held[t] = None
        /\ UNCHANGED <<table, req, local, open, broken, lock, faults>>
    BY <1>3 DEF Acquire, Move, Grant
  <2>3. c \in Connections /\ c # None /\ c \notin open
    BY <1>0 DEF TypeOK, Stations, Opened
  <2>4. TypeOK'
    BY <2>1, <2>2, <2>3 DEF TypeOK
  <2>5. Stations'
    BY <2>1, <2>2, <2>3 DEF TypeOK, Stations
  <2>6. Opened' /\ BlamesConnection'
    BY <2>1, <2>2, <2>3 DEF TypeOK, Opened, InTransaction, BlamesConnection
  <2>7. Progress' /\ Locks'
    BY <2>1, <2>2, <2>3 DEF TypeOK, Progress, Locks, Owns, LockedBy
  <2>8. QED
    BY <2>4, <2>5, <2>6, <2>7
<1>4. ASSUME NEW t \in Threads, Begin(t) PROVE CallInv'
  <2>1. pc[t] = "begin" /\ held[t] \in Connections /\ held[t] \notin open
    BY <1>0, <1>4 DEF Begin, TypeOK, Stations, Opened, InTransaction
  <2>2. UNCHANGED <<free, held, wants, table, req, broken, lock, faults>>
    BY <1>4 DEF Begin, contractVars
  <2>3. CASE held[t] \in broken
    <3>1. /\ pc' = [pc EXCEPT ![t] = "release"] /\ open' = open
          /\ local' = [local EXCEPT ![t] = [local[t] EXCEPT !.failed = TRUE]]
      BY <1>4, <2>3 DEF Begin, Throw
    <3>2. [local[t] EXCEPT !.failed = TRUE] = [Fresh EXCEPT !.failed = TRUE]
      BY <2>1 DEF Progress
    <3>3. TypeOK'
      BY <2>2, <3>1, <3>2, Locals DEF TypeOK, Local, Fresh
    <3>4. Stations' /\ Opened' /\ BlamesConnection'
      BY <2>1, <2>2, <2>3, <3>1 DEF TypeOK, Stations, Opened, InTransaction, BlamesConnection
    <3>5. Progress' /\ Locks'
      BY <2>1, <2>2, <3>1, <3>2 DEF TypeOK, Progress, Locks, Owns, LockedBy, Fresh
    <3>6. QED
      BY <3>3, <3>4, <3>5
  <2>4. CASE held[t] \notin broken
    <3>1. /\ pc' = [pc EXCEPT ![t] = "execute"] /\ open' = open \cup {held[t]}
          /\ local' = local
      BY <1>4, <2>1, <2>4 DEF Begin
    <3>2. TypeOK'
      BY <2>1, <2>2, <3>1 DEF TypeOK
    <3>3. Stations' /\ Opened' /\ BlamesConnection'
      BY <2>1, <2>2, <3>1 DEF TypeOK, Stations, Opened, InTransaction, BlamesConnection
    <3>4. Progress' /\ Locks'
      BY <2>1, <2>2, <3>1 DEF TypeOK, Progress, Locks, Owns, LockedBy
    <3>5. QED
      BY <3>2, <3>3, <3>4
  <2>5. QED
    BY <2>3, <2>4
<1>5. ASSUME NEW t \in Threads, Execute(t) PROVE CallInv'
  <2> DEFINE s == req[t]
             v == table[s.row]
             res == Result(s.op, v)
             new == [by |-> held[t], op |-> s.op, value |-> After(s.op, v), committing |-> FALSE]
             l == [result |-> res, failed |-> FALSE, done |-> ~Changes(s.op, v)]
  <2>1. /\ pc[t] = "execute" /\ held[t] \notin broken
        /\ UNCHANGED <<free, held, wants, table, req, open, broken, faults>>
    BY <1>5 DEF Execute, AfterExecute, contractVars
  <2>2. held[t] \in Connections /\ local[t] = Fresh
    BY <2>1 DEF TypeOK, Stations, Progress
  <2>3. s \in Statement /\ s.op \in Op /\ s.row \in Rows
    BY <2>1 DEF TypeOK, Stations, Statement
  <2>4. v \in 0..MaxVersion
    BY <2>3 DEF TypeOK
  <2>5. /\ After(s.op, v) \in 0..MaxVersion /\ res \in Answer /\ res # Error
        /\ Refuses(s.op, v) => ~Changes(s.op, v)
    BY <2>3, <2>4, StatementType
  <2>6. pc' = [pc EXCEPT ![t] = IF Refuses(s.op, v) THEN "rollback" ELSE "commit"]
    BY <1>5 DEF Execute, AfterExecute
  <2>7. local' = [local EXCEPT ![t] = l]
    BY <1>5 DEF Execute, AfterExecute
  <2>8. lock' = IF Changes(s.op, v) THEN [lock EXCEPT ![s.row] = new] ELSE lock
    BY <1>5 DEF Execute, AfterExecute
  <2>9. Changes(s.op, v) => lock[s.row] = NoLock
    BY <1>5, <2>3, <2>4 DEF Execute, AfterExecute, Waits, Changes, Op
  <2>10. new \in Lock /\ new # NoLock
    <3>1. new \in Lock
      BY <2>2, <2>3, <2>5 DEF Lock
    <3>2. QED
      BY <1>0, <3>1
  <2>11. l \in Local
    BY <2>5 DEF Local
  <2>12. s = [op |-> s.op, row |-> s.row]
    BY <2>3 DEF Statement
  <2>13. new.by = held[t] /\ new.op = s.op /\ new.value = After(s.op, v)
         /\ l.result = res /\ ~l.failed /\ (l.done <=> ~Changes(s.op, v))
    OBVIOUS
  <2> HIDE DEF new, l, res, v
  <2>14. TypeOK'
    BY <2>1, <2>3, <2>6, <2>7, <2>8, <2>10, <2>11 DEF TypeOK
  <2>15. Stations' /\ Opened' /\ BlamesConnection'
    BY <2>1, <2>6, <2>7, <2>13 DEF TypeOK, Stations, Opened, InTransaction, BlamesConnection
  <2>16. Progress'
    <3>1. LockedBy(held[t])' # {} \/ ~Changes(s.op, v)
      BY <2>1, <2>3, <2>8, <2>10, <2>13 DEF LockedBy, TypeOK
    <3>2. \A c \in Connections : LockedBy(c) # {} => LockedBy(c)' # {}
      BY <2>8, <2>9 DEF LockedBy, TypeOK
    <3>3. QED
      <4>1. \A u \in Threads : u # t => pc'[u] = pc[u] /\ local'[u] = local[u]
        BY <2>6, <2>7 DEF TypeOK
      <4>2. \A u \in Threads : pc[u] \in {"commit", "await"} => held[u] \in Connections
        BY DEF TypeOK, Stations
      <4>3. /\ pc'[t] \in {"rollback", "commit"} /\ local'[t] = l
            /\ pc'[t] = "rollback" => l.done
        BY <2>5, <2>6, <2>7, <2>13 DEF TypeOK
      <4>4. pc'[t] = "commit" => l.done \/ LockedBy(held[t])' # {}
        BY <2>13, <3>1
      <4>5. QED
        BY <2>1, <2>5, <2>13, <3>2, <4>1, <4>2, <4>3, <4>4 DEF Progress
  <2>17. Locks'
    <3>1. ASSUME NEW r \in Rows, lock'[r] # NoLock, r # s.row \/ ~Changes(s.op, v)
          PROVE  /\ lock'[r].value = After(lock'[r].op, table'[r])
                 /\ lock'[r].by # Gone => \E u \in Threads : Owns(u, r)'
      <4>1. lock'[r] = lock[r] /\ table'[r] = table[r]
        BY <2>1, <2>8, <3>1 DEF TypeOK
      <4>2. ASSUME NEW u \in Threads, Owns(u, r) PROVE Owns(u, r)'
        BY <2>1, <2>6, <2>7, <4>1, <4>2 DEF Owns, TypeOK
      <4>3. QED
        BY <3>1, <4>1, <4>2 DEF Locks
    <3>2. ASSUME Changes(s.op, v)
          PROVE  /\ lock'[s.row].value = After(lock'[s.row].op, table'[s.row])
                 /\ Owns(t, s.row)'
      <4>1. lock'[s.row] = new /\ table'[s.row] = v /\ pc'[t] = "commit" /\ local'[t] = l
            /\ req'[t] = s
        BY <2>1, <2>3, <2>5, <2>6, <2>7, <2>8, <3>2 DEF TypeOK, v
      <4>2. QED
        BY <2>1, <2>12, <2>13, <3>2, <4>1 DEF Owns, res
    <3>3. ASSUME NEW r \in Rows, lock'[r] # NoLock
          PROVE  /\ lock'[r].value = After(lock'[r].op, table'[r])
                 /\ lock'[r].by # Gone => \E u \in Threads : Owns(u, r)'
      <4>1. CASE r = s.row /\ Changes(s.op, v)
        <5>1. /\ lock'[r].value = After(lock'[r].op, table'[r])
              /\ Owns(t, r)'
          BY <2>1, <3>2, <4>1 DEF Owns
        <5>2. QED
          BY <5>1
      <4>2. CASE r # s.row \/ ~Changes(s.op, v)
        BY <3>1, <3>3, <4>2
      <4>3. QED
        BY <4>1, <4>2
    <3>4. QED
      BY <3>3 DEF Locks
  <2>18. QED
    BY <2>14, <2>15, <2>16, <2>17
<1>6. ASSUME NEW t \in Threads, Commit(t) PROVE CallInv'
  <2>1. /\ pc[t] = "commit" /\ pc' = [pc EXCEPT ![t] = "await"]
        /\ UNCHANGED <<free, held, wants, table, req, local, open, broken, faults>>
    BY <1>6 DEF Commit, Move, contractVars
  <2>2. ASSUME NEW r \in Rows
        PROVE  /\ lock[r] = NoLock <=> lock'[r] = NoLock
               /\ lock'[r] # NoLock =>
                    /\ lock'[r].by = lock[r].by /\ lock'[r].op = lock[r].op
                    /\ lock'[r].value = lock[r].value
               /\ lock'[r] \in Lock \cup {NoLock}
    <3>1. CASE r \in LockedBy(held[t])
      <4>1. lock[r] # NoLock /\ lock[r] \in Lock
        BY <3>1 DEF LockedBy, TypeOK
      <4>2. lock'[r] = [lock[r] EXCEPT !.committing = TRUE]
        BY <1>6, <3>1 DEF Commit
      <4>3. QED
        BY <1>0, <4>1, <4>2 DEF Lock
    <3>2. CASE r \notin LockedBy(held[t])
      BY <1>6, <3>2 DEF Commit, TypeOK
    <3>3. QED
      BY <3>1, <3>2
  <2>3. lock' \in [Rows -> Lock \cup {NoLock}]
    <3>1. lock' = [r \in Rows |-> lock'[r]]
      BY <1>6 DEF Commit
    <3>2. QED
      BY <2>2, <3>1
  <2>4. TypeOK'
    BY <2>1, <2>3 DEF TypeOK
  <2>5. Stations' /\ Opened' /\ BlamesConnection'
    BY <2>1 DEF TypeOK, Stations, Opened, InTransaction, BlamesConnection
  <2>6. Progress'
    <3>1. \A c : LockedBy(c) # {} => LockedBy(c)' # {}
      BY <2>2 DEF LockedBy
    <3>2. QED
      BY <2>1, <3>1 DEF TypeOK, Progress
  <2>7. Locks'
    <3>1. ASSUME NEW r \in Rows, lock'[r] # NoLock, NEW u \in Threads, Owns(u, r)
          PROVE  Owns(u, r)'
      BY <2>1, <2>2, <3>1 DEF Owns, TypeOK
    <3>2. QED
      BY <2>1, <2>2, <3>1 DEF Locks
  <2>8. QED
    BY <2>4, <2>5, <2>6, <2>7
<1>7. ASSUME NEW t \in Threads, AwaitCommit(t) PROVE CallInv'
  <2>1. /\ pc[t] = "await" /\ pc' = [pc EXCEPT ![t] = "release"]
        /\ open' = open \ {held[t]}
        /\ UNCHANGED <<free, held, wants, table, req, local, broken, lock, faults>>
    BY <1>7 DEF AwaitCommit, Move, contractVars
  <2>2. ~local[t].failed /\ local[t].done
    BY <1>7, <2>1 DEF AwaitCommit, Progress
  <2>3. TypeOK'
    BY <2>1 DEF TypeOK
  <2>4. Stations'
    BY <2>1 DEF TypeOK, Stations
  <2>5. Opened' /\ BlamesConnection'
    BY <2>1, <2>2 DEF TypeOK, Stations, Opened, InTransaction, BlamesConnection
  <2>6. Progress'
    BY <2>1, <2>2 DEF TypeOK, Progress, LockedBy
  <2>7. Locks'
    BY <2>1 DEF TypeOK, Locks, Owns
  <2>8. QED
    BY <2>3, <2>4, <2>5, <2>6, <2>7
<1>8. ASSUME NEW t \in Threads, NoticeLoss(t) PROVE CallInv'
  <2> DEFINE l == [local[t] EXCEPT !.failed = TRUE]
  <2>1. /\ pc[t] \in {"execute", "commit", "await"} /\ held[t] \in broken
        /\ pc' = [pc EXCEPT ![t] = "rollback"] /\ local' = [local EXCEPT ![t] = l]
        /\ UNCHANGED <<free, held, wants, table, req, open, broken, lock, faults>>
    BY <1>8 DEF NoticeLoss, Throw, contractVars
  <2>2. l \in Local /\ l.failed /\ l.done = local[t].done /\ l.result = local[t].result
    BY DEF TypeOK, Local
  <2> HIDE DEF l
  <2>3. TypeOK'
    BY <2>1, <2>2 DEF TypeOK
  <2>4. Stations' /\ Opened' /\ BlamesConnection'
    BY <2>1, <2>2 DEF TypeOK, Stations, Opened, InTransaction, BlamesConnection
  <2>5. Progress'
    BY <2>1, <2>2 DEF TypeOK, Progress, LockedBy
  <2>6. Locks'
    BY <2>1, <2>2 DEF TypeOK, Locks, Owns
  <2>7. QED
    BY <2>3, <2>4, <2>5, <2>6
<1>9. ASSUME NEW t \in Threads, Rollback(t) PROVE CallInv'
  <2>1. /\ pc[t] = "rollback" /\ pc' = [pc EXCEPT ![t] = "release"]
        /\ open' = open \ {held[t]}
        /\ UNCHANGED <<free, held, wants, table, req, local, broken, faults>>
    BY <1>9 DEF Rollback, Move, contractVars
  <2>2. \A r \in Rows : /\ lock'[r] \in {lock[r], NoLock}
                        /\ r \notin LockedBy(held[t]) => lock'[r] = lock[r]
    BY <1>9 DEF Rollback
  <2>3. lock' \in [Rows -> Lock \cup {NoLock}]
    BY <1>9 DEF Rollback, TypeOK
  <2>4. TypeOK'
    BY <2>1, <2>3 DEF TypeOK
  <2>5. Stations'
    BY <2>1 DEF TypeOK, Stations
  <2>6. Opened' /\ BlamesConnection'
    BY <2>1 DEF TypeOK, Stations, Opened, InTransaction, BlamesConnection
  <2>7. Progress'
    <3>1. ASSUME NEW u \in Threads, pc[u] \in {"commit", "await"}
          PROVE  LockedBy(held[u]) # {} => LockedBy(held[u])' # {}
      <4>1. held[u] # held[t]
        BY <2>1, <3>1 DEF Stations
      <4>2. QED
        BY <2>1, <2>2, <4>1 DEF LockedBy
    <3>2. QED
      BY <2>1, <3>1 DEF TypeOK, Progress
  <2>8. Locks'
    BY <2>1, <2>2 DEF TypeOK, Locks, Owns
  <2>9. QED
    BY <2>4, <2>5, <2>6, <2>7, <2>8
<1>10. ASSUME NEW t \in Threads, Release(t) PROVE CallInv'
  <2> DEFINE l == [Fresh EXCEPT !.result = IF local[t].failed THEN Error ELSE local[t].result]
  <2>1. /\ pc[t] = "release" /\ pc' = [pc EXCEPT ![t] = "idle"]
        /\ held[t] # None /\ held' = [held EXCEPT ![t] = None] /\ free' = free \cup {held[t]}
        /\ local' = [local EXCEPT ![t] = l] /\ req' = [req EXCEPT ![t] = NoCall]
        /\ UNCHANGED <<wants, table, open, broken, faults>>
    BY <1>10 DEF Release, Move, GiveBack
  <2>2. l \in Local /\ ~l.done /\ ~l.failed
    <3>1. local[t].result \in Answer /\ Error \in Answer
      BY Locals DEF TypeOK, Answer
    <3>2. QED
      BY <3>1 DEF Fresh, Local
  <2> HIDE DEF l
  <2>3. held[t] \in Connections
    BY <2>1 DEF TypeOK
  <2>4. ASSUME NEW r \in Rows
        PROVE  /\ lock[r] = NoLock <=> lock'[r] = NoLock
               /\ lock'[r] # NoLock =>
                    /\ lock'[r].op = lock[r].op /\ lock'[r].value = lock[r].value
                    /\ lock'[r].by = IF lock[r].by = held[t] THEN Gone ELSE lock[r].by
               /\ lock'[r] \in Lock \cup {NoLock}
    <3>1. CASE r \in LockedBy(held[t])
      <4>1. lock[r] # NoLock /\ lock[r] \in Lock /\ lock[r].by = held[t]
        BY <3>1 DEF LockedBy, TypeOK
      <4>2. lock'[r] = [lock[r] EXCEPT !.by = Gone]
        BY <1>10, <3>1 DEF Release
      <4>3. QED
        BY <1>0, <4>1, <4>2 DEF Lock
    <3>2. CASE r \notin LockedBy(held[t])
      BY <1>10, <3>2 DEF Release, TypeOK, LockedBy
    <3>3. QED
      BY <3>1, <3>2
  <2>5. lock' \in [Rows -> Lock \cup {NoLock}]
    <3>1. lock' = [r \in Rows |-> lock'[r]]
      BY <1>10 DEF Release
    <3>2. QED
      BY <2>4, <3>1
  <2>6. TypeOK'
    BY <2>1, <2>2, <2>3, <2>5 DEF TypeOK
  <2>7. Stations'
    BY <2>1, <2>3, <1>0 DEF TypeOK, Stations
  <2>8. Opened'
    BY <2>1 DEF TypeOK, Stations, Opened, InTransaction
  <2>9. BlamesConnection'
    BY <2>1 DEF TypeOK, BlamesConnection
  <2>10. Progress'
    <3>1. ASSUME NEW u \in Threads, pc[u] \in {"commit", "await"}
          PROVE  /\ LockedBy(held[u]) # {} => LockedBy(held[u])' # {}
                 /\ held'[u] = held[u] /\ u # t
      <4>1. held[u] # held[t] /\ u # t /\ held'[u] = held[u]
        BY <2>1, <3>1 DEF Stations, TypeOK
      <4>2. \A r \in LockedBy(held[u]) : r \in LockedBy(held[u])'
        BY <2>4, <4>1 DEF LockedBy
      <4>3. QED
        BY <4>1, <4>2
    <3>2. QED
      BY <2>1, <2>2, <3>1 DEF TypeOK, Progress
  <2>11. Locks'
    <3>1. ASSUME NEW r \in Rows, lock'[r] # NoLock, lock'[r].by # Gone,
                 NEW u \in Threads, Owns(u, r)
          PROVE  Owns(u, r)'
      <4>1. u # t
        BY <2>4, <3>1 DEF Owns
      <4>2. QED
        BY <2>1, <2>4, <3>1, <4>1 DEF Owns, TypeOK
    <3>2. QED
      BY <2>1, <2>4, <3>1 DEF Locks
  <2>12. QED
    BY <2>6, <2>7, <2>8, <2>9, <2>10, <2>11
<1>11. ASSUME NEW r \in Rows, ServerCommits(r) PROVE CallInv'
  <2>1. /\ lock[r] # NoLock /\ lock[r] \in Lock
        /\ table' = [table EXCEPT ![r] = lock[r].value]
        /\ lock' = [lock EXCEPT ![r] = NoLock]
        /\ UNCHANGED <<free, held, wants, pc, req, open, broken, faults>>
    BY <1>11 DEF ServerCommits, contractVars, TypeOK
  <2>2. ASSUME NEW u \in Threads
        PROVE  /\ local'[u].result = local[u].result /\ local'[u].failed = local[u].failed
               /\ held[u] # None /\ held[u] = lock[r].by => local'[u].done
               /\ ~(held[u] # None /\ held[u] = lock[r].by) => local'[u] = local[u]
               /\ local'[u] \in Local
    <3>1. local[u] \in Local
      BY DEF TypeOK
    <3>2. CASE held[u] # None /\ held[u] = lock[r].by
      <4>1. local'[u] = [local[u] EXCEPT !.done = TRUE]
        BY <1>11, <3>2 DEF ServerCommits
      <4>2. QED
        BY <3>1, <3>2, <4>1 DEF Local
    <3>3. CASE ~(held[u] # None /\ held[u] = lock[r].by)
      <4>1. local'[u] = local[u]
        BY <1>11, <3>3 DEF ServerCommits
      <4>2. QED
        BY <3>1, <3>3, <4>1 DEF Local
    <3>4. QED
      BY <3>2, <3>3
  <2>3. local' \in [Threads -> Local]
    <3>1. local' = [u \in Threads |-> local'[u]]
      BY <1>11 DEF ServerCommits
    <3>2. QED
      BY <2>2, <3>1
  <2>4. TypeOK'
    BY <2>1, <2>3 DEF TypeOK, Lock
  <2>5. Stations' /\ Opened'
    BY <2>1 DEF Stations, Opened, InTransaction
  <2>6. BlamesConnection'
    BY <2>1, <2>2 DEF BlamesConnection
  <2>7. ASSUME NEW u \in Threads, held[u] # None, held[u] = lock[r].by
        PROVE  /\ pc[u] \in {"commit", "await", "rollback", "release"}
               /\ req[u].row = r /\ local[u].result # Error
    <3>1. lock[r].by # Gone
      BY <1>0, <2>7 DEF TypeOK
    <3>2. Owns(u, r)
      BY <2>1, <2>7, <3>1 DEF Locks, Stations, Owns
    <3>3. lock[r].op \in Op /\ table[r] \in 0..MaxVersion
      BY <2>1 DEF TypeOK, Lock
    <3>4. Result(lock[r].op, table[r]) # Error
      BY <3>3, StatementType
    <3>5. QED
      BY <3>2, <3>4 DEF Owns
  <2>8. Progress'
    <3>1. \A c \in Connections : c # lock[r].by => LockedBy(c)' = LockedBy(c)
      BY <2>1 DEF LockedBy, TypeOK
    <3>2. \A u \in Threads : pc[u] \in {"commit", "await"} => held[u] \in Connections
      BY DEF TypeOK, Stations
    <3>3. \A u \in Threads : local'[u].done => local'[u].result # Error
      BY <2>2, <2>7 DEF Progress
    <3>4. \A u \in Threads : pc[u] \in {"acquire", "begin", "execute"} => local'[u] = local[u]
      BY <2>2, <2>7
    <3>5. \A u \in Threads : pc[u] \in {"commit", "await"} =>
            local'[u].done \/ held[u] \in broken \/ LockedBy(held[u])' # {}
      BY <1>0, <2>1, <2>2, <3>1, <3>2 DEF Progress
    <3>6. QED
      BY <2>1, <2>2, <3>3, <3>4, <3>5 DEF Progress
  <2>9. Locks'
    <3>1. ASSUME NEW q \in Rows, lock'[q] # NoLock
          PROVE  q # r /\ lock'[q] = lock[q] /\ table'[q] = table[q]
      BY <2>1, <3>1 DEF TypeOK
    <3>2. ASSUME NEW q \in Rows, q # r, NEW u \in Threads, Owns(u, q), lock'[q] = lock[q],
                 table'[q] = table[q]
          PROVE  Owns(u, q)'
      <4>1. ~(held[u] # None /\ held[u] = lock[r].by)
        BY <2>7, <3>2 DEF Owns
      <4>2. QED
        BY <2>1, <2>2, <3>2, <4>1 DEF Owns
    <3>3. QED
      BY <3>1, <3>2 DEF Locks
  <2>10. QED
    BY <2>4, <2>5, <2>6, <2>8, <2>9
<1>12. ASSUME NEW r \in Rows, ServerAborts(r) PROVE CallInv'
  <2>1. /\ lock[r] # NoLock /\ lock[r].by \in broken \cup {Gone}
        /\ lock' = [lock EXCEPT ![r] = NoLock]
        /\ UNCHANGED <<free, held, wants, table, pc, req, local, open, broken, faults>>
    BY <1>12 DEF ServerAborts, contractVars
  <2>2. TypeOK' /\ Stations' /\ Opened' /\ BlamesConnection'
    BY <2>1 DEF TypeOK, Stations, Opened, InTransaction, BlamesConnection
  <2>3. Progress'
    <3>1. \A c \in Connections : c \in broken \/ LockedBy(c)' = LockedBy(c)
      BY <1>0, <2>1 DEF LockedBy, TypeOK
    <3>2. \A u \in Threads : pc[u] \in {"commit", "await"} => held[u] \in Connections
      BY DEF TypeOK, Stations
    <3>3. QED
      BY <2>1, <3>1, <3>2 DEF Progress
  <2>4. Locks'
    BY <2>1 DEF TypeOK, Locks, Owns
  <2>5. QED
    BY <2>2, <2>3, <2>4
<1>13. ASSUME NEW c \in Connections, ConnectionBreaks(c) PROVE CallInv'
  <2>1. /\ broken' = broken \cup {c} /\ faults' = faults + 1
        /\ UNCHANGED <<free, held, wants, table, pc, req, local, open, lock>>
    BY <1>13 DEF ConnectionBreaks, contractVars
  <2>2. TypeOK' /\ Stations' /\ Opened' /\ BlamesConnection'
    BY <2>1 DEF TypeOK, Stations, Opened, InTransaction, BlamesConnection
  <2>3. Progress' /\ Locks'
    BY <2>1 DEF Progress, LockedBy, Locks, Owns
  <2>4. QED
    BY <2>2, <2>3
<1>14. QED
  BY <1>1, <1>2, <1>3, <1>4, <1>5, <1>6, <1>7, <1>8, <1>9, <1>10, <1>11, <1>12, <1>13
     DEF Next, HolderStep, ServerStep

THEOREM CallInvariant == Spec => []CallInv
BY CallInvInit, CallInvNext, PTL DEF Spec

(* The variables keep their types; a version never leaves its column's range. *)
THEOREM CallsTypeCorrect == Spec => []TypeOK
<1>1. CallInv => TypeOK
  BY DEF CallInv
<1>2. QED
  BY <1>1, CallInvariant, PTL

(* No connection in the pool has a transaction object on it. *)
THEOREM PoolStaysClean == Spec => []PooledAreClean
<1>1. CallInv => PooledAreClean
  BY DEF CallInv, Stations, Opened, PooledAreClean
<1>2. QED
  BY <1>1, CallInvariant, PTL

(* Only methods that got a lost connection fail other than by their statement. *)
THEOREM FailuresAreConfined == Spec => []BlamesConnection
<1>1. CallInv => BlamesConnection
  BY DEF CallInv
<1>2. QED
  BY <1>1, CallInvariant, PTL
-----------------------------------------------------------------------------
(* Waiting for locks *)

(* Whoever awaits the end of its COMMIT has sent it for all its locks. *)
CommitSent ==
  \A t \in Threads : pc[t] = "await" => \A r \in LockedBy(held[t]) : lock[r].committing

WaitInv == CallInv /\ CommitSent

LEMMA CommitSentNext == CallInv /\ CommitSent /\ [Next]_vars => CommitSent'
<1> SUFFICES ASSUME CallInv, CommitSent, [Next]_vars,
                    NEW t \in Threads, pc'[t] = "await", NEW r \in Rows,
                    lock'[r] # NoLock, lock'[r].by = held'[t]
             PROVE  lock'[r].committing
  BY DEF CommitSent, LockedBy
<1> USE DEF LockedBy, contractVars
<1>1. TypeOK /\ Stations
  BY DEF CallInv
<1>2. ASSUME pc[t] = "await", held'[t] = held[t], lock'[r] = lock[r]
      PROVE  lock'[r].committing
  BY <1>2 DEF CommitSent
<1>3. ASSUME NEW u \in Threads, u # t, pc'[t] = pc[t] PROVE held[u] # held[t]
  BY <1>1, <1>3 DEF Stations
<1>4. ASSUME NEW u \in Threads, Call(u) \/ Acquire(u)
      PROVE  lock'[r].committing
  <2>1. lock'[r] = lock[r] /\ pc[t] = "await"
    BY <1>1, <1>4 DEF Call, Acquire, Move, TypeOK
  <2>2. held'[t] = held[t]
    BY <1>1, <1>4, <2>1 DEF Call, Acquire, Move, Request, Grant, TypeOK
  <2>3. QED
    BY <1>2, <2>1, <2>2
<1>5. ASSUME NEW u \in Threads, Begin(u) \/ AwaitCommit(u) \/ NoticeLoss(u)
      PROVE  lock'[r].committing
  <2>1. lock'[r] = lock[r] /\ held'[t] = held[t] /\ pc[t] = "await"
    BY <1>1, <1>5 DEF Begin, AwaitCommit, NoticeLoss, Throw, Move, TypeOK
  <2>2. QED
    BY <1>2, <2>1
<1>6. ASSUME NEW u \in Threads, Execute(u)
      PROVE  lock'[r].committing
  <2>1. u # t /\ pc[t] = "await" /\ held' = held
    BY <1>1, <1>6 DEF Execute, AfterExecute, TypeOK
  <2>2. held[u] # held[t]
    BY <1>1, <1>6, <2>1 DEF Stations
  <2>3. lock'[r] = lock[r] \/ lock'[r].by = held[u]
    BY <1>1, <1>6 DEF Execute, TypeOK
  <2>4. QED
    BY <1>2, <2>1, <2>2, <2>3
<1>7. ASSUME NEW u \in Threads, Commit(u)
      PROVE  lock'[r].committing
  <2>1. held' = held /\ pc' = [pc EXCEPT ![u] = "await"]
    BY <1>7 DEF Commit, Move
  <2>2. lock'[r] = IF lock[r] # NoLock /\ lock[r].by = held[u]
                   THEN [lock[r] EXCEPT !.committing = TRUE] ELSE lock[r]
    BY <1>7 DEF Commit
  <2>3. CASE lock[r] # NoLock /\ lock[r].by = held[u]
    <3>1. lock[r] \in Lock
      BY <1>1, <2>3 DEF TypeOK
    <3>2. QED
      BY <2>2, <2>3, <3>1 DEF Lock
  <2>4. CASE ~(lock[r] # NoLock /\ lock[r].by = held[u])
    <3>1. u # t /\ pc[t] = "await"
      BY <1>1, <2>1, <2>2, <2>4 DEF TypeOK
    <3>2. QED
      BY <1>2, <2>1, <2>2, <2>4, <3>1
  <2>5. QED
    BY <2>3, <2>4
<1>8. ASSUME NEW u \in Threads, Rollback(u) \/ Release(u)
      PROVE  lock'[r].committing
  <2>1. pc[t] = "await" /\ u # t /\ held'[t] = held[t]
    BY <1>1, <1>8 DEF Rollback, Release, Move, GiveBack, TypeOK
  <2>2. held[t] \in Connections
    BY <1>1, <2>1 DEF TypeOK, Stations
  <2>3. lock'[r] \in {lock[r], NoLock} \/ lock'[r].by = Gone
    <3>1. CASE Rollback(u)
      BY <3>1 DEF Rollback
    <3>2. CASE Release(u)
      <4>1. lock'[r] = IF lock[r] # NoLock /\ lock[r].by = held[u]
                       THEN [lock[r] EXCEPT !.by = Gone] ELSE lock[r]
        BY <3>2 DEF Release
      <4>2. lock[r] # NoLock => lock[r] \in Lock
        BY <1>1 DEF TypeOK
      <4>3. QED
        BY <4>1, <4>2 DEF Lock
    <3>3. QED
      BY <1>8, <3>1, <3>2
  <2>4. QED
    BY <1>2, <2>1, <2>2, <2>3, NoLocks
<1>9. ASSUME NEW q \in Rows, ServerCommits(q) \/ ServerAborts(q)
      PROVE  lock'[r].committing
  BY <1>1, <1>2, <1>9 DEF ServerCommits, ServerAborts, TypeOK
<1>10. CASE \/ \E c \in Connections : ConnectionBreaks(c)
            \/ UNCHANGED vars
  BY <1>2, <1>10 DEF ConnectionBreaks, vars
<1>11. QED
  BY <1>4, <1>5, <1>6, <1>7, <1>8, <1>9, <1>10 DEF Next, HolderStep, ServerStep

LEMMA LocksEnd == WaitInv => WaitsEnd
<1> SUFFICES ASSUME WaitInv, NEW t \in Threads, Blocked(t),
                    NEW l, l = lock[req[t].row]
             PROVE  \/ l.committing \/ l.by \in broken \cup {Gone}
                    \/ \E u \in Threads : held[u] = l.by /\ pc[u] = "commit"
  BY DEF WaitsEnd
<1>1. CallInv /\ TypeOK /\ Stations
  BY DEF WaitInv, CallInv
<1>2. PICK r : r = req[t].row
  OBVIOUS
<1>3. r \in Rows /\ lock[r] # NoLock /\ l = lock[r]
  <2>1. pc[t] = "execute" /\ Waits(req[t])
    BY DEF Blocked
  <2>2. req[t] \in Statement
    BY <1>1, <2>1 DEF TypeOK, Stations
  <2>3. QED
    BY <1>2, <2>1, <2>2 DEF Statement, Waits
<1>4. CASE l.by # Gone
  <2>1. PICK u \in Threads : Owns(u, r)
    BY <1>1, <1>3, <1>4 DEF CallInv, Locks
  <2>2. held[u] = l.by /\ ~local[u].done /\ pc[u] \in {"commit", "await", "rollback", "release"}
    BY <1>3, <2>1 DEF Owns
  <2>3. CASE pc[u] = "await"
    BY <1>3, <2>2, <2>3 DEF WaitInv, CommitSent, LockedBy
  <2>4. CASE pc[u] \in {"rollback", "release"}
    BY <1>1, <2>2, <2>4 DEF CallInv, Progress, BlamesConnection
  <2>5. QED
    BY <2>2, <2>3, <2>4
<1>5. QED
  BY <1>4

(* Nobody waits for a row lock longer than another transaction takes to     *)
(* end, and nobody's transaction waits for anything: no deadlock, with any *)
(* number of threads, rows and connections.                                *)
THEOREM NoWaitingInCircles == Spec => []WaitsEnd
<1>1. Init => CommitSent
  BY DEF Init, CommitSent
<1>2. QED
  BY <1>1, CommitSentNext, LocksEnd, CallInvariant, PTL DEF Spec, WaitInv
-----------------------------------------------------------------------------
(* The methods implement AtomicCalls *)

LEMMA SameStatements ==
  /\ Calls!Error = Error /\ Calls!NoCall = NoCall /\ Calls!Op = Op
  /\ \A op, v : Calls!After(op, v) = After(op, v) /\ Calls!Result(op, v) = Result(op, v)
BY DEF Calls!Error, Error, Calls!NoCall, NoCall, Calls!Op, Op, Calls!After, After,
       Calls!Result, Result, Calls!Changes, Changes, Calls!Refuses, Refuses

LEMMA SameChanges ==
  ASSUME NEW op, NEW v
  PROVE  Calls!Changes(op, v) <=> Changes(op, v)
BY DEF Calls!Changes, Changes

LEMMA AtomicStart == Init => Calls!AtomicInit
BY SameStatements DEF Init, Calls!AtomicInit, answers, calls, doubts, Fresh

(* Steps that no caller can see. *)
LEMMA Unseen ==
  ASSUME table' = table, req' = req,
         \A t \in Threads :
           /\ pc'[t] = "idle" <=> pc[t] = "idle"
           /\ local'[t].done <=> local[t].done
           /\ pc[t] = "idle" \/ local[t].done => local'[t].result = local[t].result,
         \A r \in Rows :
           /\ lock'[r] # NoLock /\ lock'[r].by = Gone <=> lock[r] # NoLock /\ lock[r].by = Gone
           /\ lock'[r] # NoLock /\ lock'[r].by = Gone => lock'[r].op = lock[r].op
  PROVE  UNCHANGED Calls!atomicVars
<1>1. answers' = answers
  BY DEF answers
<1>2. calls' = calls
  BY DEF calls
<1>3. doubts' = doubts
  BY DEF doubts
<1>4. QED
  BY <1>1, <1>2, <1>3 DEF Calls!atomicVars

LEMMA AtomicStep == CallInv /\ [Next]_vars => [Calls!AtomicNext]_(Calls!atomicVars)
<1> SUFFICES ASSUME CallInv, [Next]_vars
             PROVE  Calls!AtomicNext \/ UNCHANGED Calls!atomicVars
  OBVIOUS
<1> USE DEF CallInv
<1>0. /\ None \notin Connections /\ Gone \notin Connections /\ NoLock \notin Lock
  BY CallsAssumption
<1>1. CASE UNCHANGED vars
  BY <1>1 DEF vars, Calls!atomicVars, answers, calls, doubts
<1>2. ASSUME NEW t \in Threads, Call(t) PROVE Calls!Ask(t)
  <2>1. PICK s \in Statement : req' = [req EXCEPT ![t] = s]
    BY <1>2 DEF Call
  <2>2. /\ pc[t] = "idle" /\ pc' = [pc EXCEPT ![t] = "acquire"]
        /\ local' = [local EXCEPT ![t] = Fresh] /\ table' = table /\ lock' = lock
    BY <1>2 DEF Call, Move
  <2>3. s.op \in Op /\ s.row \in Rows
    BY DEF Statement
  <2>4. calls[t] = NoCall
    BY <2>2 DEF calls
  <2>5. calls' = [calls EXCEPT ![t] = [op |-> s.op, row |-> s.row, result |-> Error]]
    BY <2>1, <2>2 DEF calls, TypeOK, Fresh
  <2>6. answers' = [answers EXCEPT ![t] = Error] /\ doubts' = doubts
    BY <2>2 DEF answers, doubts, TypeOK
  <2>7. QED
    BY <2>2, <2>3, <2>4, <2>5, <2>6, SameStatements DEF Calls!Ask
<1>3. ASSUME NEW t \in Threads, Acquire(t) PROVE UNCHANGED Calls!atomicVars
  BY <1>3, Unseen DEF Acquire, Move, TypeOK
<1>4. ASSUME NEW t \in Threads, Begin(t) PROVE UNCHANGED Calls!atomicVars
  BY <1>4, Unseen DEF Begin, Throw, TypeOK, Local
<1>5. ASSUME NEW t \in Threads, Commit(t) PROVE UNCHANGED Calls!atomicVars
  <2>1. ASSUME NEW r \in Rows
        PROVE  /\ lock'[r] # NoLock /\ lock'[r].by = Gone <=> lock[r] # NoLock /\ lock[r].by = Gone
               /\ lock'[r] # NoLock /\ lock'[r].by = Gone => lock'[r].op = lock[r].op
    <3>1. CASE r \in LockedBy(held[t])
      <4>1. lock[r] \in Lock /\ lock[r] # NoLock /\ lock[r].by = held[t]
        BY <3>1 DEF LockedBy, TypeOK
      <4>2. lock'[r] = [lock[r] EXCEPT !.committing = TRUE]
        BY <1>5, <3>1 DEF Commit
      <4>3. lock'[r] \in Lock /\ lock'[r].by = lock[r].by /\ lock'[r].op = lock[r].op
        BY <4>1, <4>2 DEF Lock
      <4>4. QED
        BY <1>0, <4>1, <4>3
    <3>2. CASE r \notin LockedBy(held[t])
      BY <1>5, <3>2 DEF Commit
    <3>3. QED
      BY <3>1, <3>2
  <2>2. QED
    BY <1>5, <2>1, Unseen DEF Commit, Move, TypeOK
<1>6. ASSUME NEW t \in Threads, AwaitCommit(t) PROVE UNCHANGED Calls!atomicVars
  BY <1>6, Unseen DEF AwaitCommit, Move, TypeOK
<1>7. ASSUME NEW t \in Threads, NoticeLoss(t) PROVE UNCHANGED Calls!atomicVars
  BY <1>7, Unseen DEF NoticeLoss, Throw, TypeOK, Local
<1>8. ASSUME NEW t \in Threads, Rollback(t) PROVE UNCHANGED Calls!atomicVars
  <2>1. held[t] # Gone
    BY <1>0, <1>8 DEF Rollback, Move, TypeOK, Stations
  <2>2. \A r \in Rows : \/ lock'[r] = lock[r]
                        \/ lock'[r] = NoLock /\ lock[r] # NoLock /\ lock[r].by = held[t]
    BY <1>8 DEF Rollback, LockedBy
  <2>3. QED
    BY <1>8, <2>1, <2>2, Unseen DEF Rollback, Move, TypeOK
<1>9. ASSUME NEW c \in Connections, ConnectionBreaks(c) PROVE UNCHANGED Calls!atomicVars
  BY <1>9, Unseen DEF ConnectionBreaks
<1>10. ASSUME NEW t \in Threads, NEW r \in Rows, NEW op \in Op,
              pc[t] # "idle", ~local[t].done, req[t] = [op |-> op, row |-> r],
              pc'[t] # "idle", req' = req, doubts' = doubts,
              local'[t].done, local'[t].result = Result(op, table[r]),
              table' = [table EXCEPT ![r] = After(op, table[r])],
              Changes(op, table[r]) => doubts[r] = "none",
              \A u \in Threads \ {t} : /\ pc'[u] = pc[u]
                                       /\ local'[u].done <=> local[u].done
                                       /\ local'[u].result = local[u].result
       PROVE  Calls!Perform(t)
  <2> DEFINE w == Result(op, table[r])
  <2>1. calls[t] = [op |-> op, row |-> r, result |-> Error]
    BY <1>10 DEF calls
  <2>2. calls[t] # NoCall
    BY <2>1 DEF NoCall
  <2>3. calls' = [calls EXCEPT ![t] = [op |-> op, row |-> r, result |-> w]]
    <3>1. calls'[t] = [op |-> op, row |-> r, result |-> w]
      BY <1>10 DEF calls
    <3>2. \A u \in Threads \ {t} : calls'[u] = calls[u]
      BY <1>10 DEF calls
    <3>3. calls = [u \in Threads |-> calls[u]] /\ calls' = [u \in Threads |-> calls'[u]]
      BY DEF calls
    <3> HIDE DEF w
    <3>4. QED
      BY <3>1, <3>2, <3>3
  <2>4. answers' = answers
    BY <1>10 DEF answers
  <2> HIDE DEF w
  <2>5. [calls EXCEPT ![t].result = w] = [calls EXCEPT ![t] = [op |-> op, row |-> r, result |-> w]]
    <3>1. [[op |-> op, row |-> r, result |-> Error] EXCEPT !.result = w]
            = [op |-> op, row |-> r, result |-> w]
      OBVIOUS
    <3>2. QED
      BY <2>1, <3>1
  <2>6. calls[t].op = op /\ calls[t].row = r /\ calls[t].result = Error
    BY <2>1
  <2>7. table' = [table EXCEPT ![calls[t].row] = Calls!After(calls[t].op, table[calls[t].row])]
    BY <1>10, <2>6, SameStatements
  <2>8. calls' = [calls EXCEPT ![t].result = Calls!Result(calls[t].op, table[calls[t].row])]
    BY <2>3, <2>5, <2>6, SameStatements DEF w
  <2>9. Calls!Changes(calls[t].op, table[calls[t].row]) => doubts[calls[t].row] = "none"
    BY <1>10, <2>6, SameChanges
  <2>10. QED
    BY <1>10, <2>2, <2>4, <2>6, <2>7, <2>8, <2>9, SameStatements DEF Calls!Perform
<1>11. ASSUME NEW t \in Threads, Execute(t)
       PROVE  Calls!Perform(t) \/ UNCHANGED Calls!atomicVars
  <2> DEFINE s == req[t]
             v == table[s.row]
             l == [result |-> Result(s.op, v), failed |-> FALSE, done |-> ~Changes(s.op, v)]
  <2>1. /\ pc[t] = "execute" /\ table' = table /\ req' = req /\ held' = held
        /\ local[t] = Fresh
        /\ pc' = [pc EXCEPT ![t] = IF Refuses(s.op, v) THEN "rollback" ELSE "commit"]
        /\ local' = [local EXCEPT ![t] = l]
    BY <1>11 DEF Execute, AfterExecute, contractVars, Progress
  <2>2. l.result = Result(s.op, v) /\ (l.done <=> ~Changes(s.op, v))
    OBVIOUS
  <2> HIDE DEF l
  <2>3. /\ local'[t] = l /\ pc'[t] # "idle" /\ ~local[t].done
         /\ \A u \in Threads \ {t} : pc'[u] = pc[u] /\ local'[u] = local[u]
    BY <2>1 DEF TypeOK, Fresh
  <2>4. s.op \in Op /\ s.row \in Rows /\ s = [op |-> s.op, row |-> s.row]
    BY <2>1 DEF TypeOK, Stations, Statement
  <2>5. v \in 0..MaxVersion /\ held[t] # Gone
    BY <1>0, <2>1, <2>4 DEF TypeOK, Stations
  <2>6. CASE Changes(s.op, v)
    <3>1. lock[s.row] = NoLock
      BY <1>11, <2>4, <2>5, <2>6 DEF Execute, AfterExecute, Waits, Changes, Op
    <3>2. \A r \in Rows : \/ lock'[r] = lock[r]
                          \/ lock[r] = NoLock /\ lock'[r].by # Gone
      BY <1>11, <2>4, <2>5, <2>6, <3>1 DEF Execute, AfterExecute, TypeOK
    <3>3. QED
      BY <2>1, <2>2, <2>3, <2>6, <3>2, Unseen
  <2>7. CASE ~Changes(s.op, v)
    <3>1. table' = [table EXCEPT ![s.row] = After(s.op, v)] /\ lock' = lock
      BY <1>11, <2>1, <2>4, <2>5, <2>7, StatementType DEF Execute, AfterExecute, TypeOK
    <3>2. doubts' = doubts
      BY <3>1 DEF doubts
    <3>3. pc'[t] # "idle" /\ local'[t].done /\ local'[t].result = Result(s.op, v)
          /\ ~local[t].done
      BY <2>2, <2>3, <2>7
    <3>4. QED
      BY <1>10, <2>1, <2>4, <2>3, <2>7, <3>1, <3>2, <3>3
  <2>8. QED
    BY <2>6, <2>7
<1>12. ASSUME NEW t \in Threads, Release(t) PROVE Calls!Return(t) \/ Calls!Break(t)
  <2> DEFINE a == IF local[t].failed THEN Error ELSE local[t].result
  <2>1. /\ pc[t] = "release" /\ pc' = [pc EXCEPT ![t] = "idle"] /\ table' = table
        /\ local' = [local EXCEPT ![t] = [Fresh EXCEPT !.result = a]]
        /\ req' = [req EXCEPT ![t] = NoCall]
        /\ held[t] \in Connections
    BY <1>12 DEF Release, Move, GiveBack, TypeOK
  <2>2. calls' = [calls EXCEPT ![t] = NoCall]
    BY <2>1 DEF calls, TypeOK
  <2>3. answers' = [answers EXCEPT ![t] = a]
    BY <2>1 DEF answers, TypeOK, Fresh
  <2>4. req[t] \in Statement
    BY <2>1 DEF TypeOK, Stations
  <2>5. calls[t] = [op |-> req[t].op, row |-> req[t].row,
                    result |-> IF local[t].done THEN local[t].result ELSE Error]
    BY <2>1 DEF calls
  <2>6. calls[t] # NoCall
    BY <2>5 DEF NoCall
  <2>7. \A r \in LockedBy(held[t]) : ~local[t].done /\ req[t].op = lock[r].op /\ req[t].row = r
    <3> SUFFICES ASSUME NEW r \in LockedBy(held[t])
                 PROVE  ~local[t].done /\ req[t].op = lock[r].op /\ req[t].row = r
      OBVIOUS
    <3>1. PICK u \in Threads : Owns(u, r)
      BY <1>0, <2>1 DEF LockedBy, Locks
    <3>2. u = t
      BY <1>0, <2>1, <3>1 DEF LockedBy, Owns, Stations
    <3>3. QED
      BY <3>1, <3>2 DEF Owns
  <2>8. \A r \in Rows \ LockedBy(held[t]) : lock'[r] = lock[r]
    BY <1>12 DEF Release
  <2>9. ASSUME NEW r \in LockedBy(held[t])
        PROVE  doubts[r] = "none" /\ doubts'[r] = req[t].op
    <3>1. r \in Rows /\ lock[r] \in Lock /\ lock[r] # NoLock /\ lock[r].by = held[t]
      BY <2>9 DEF LockedBy, TypeOK
    <3>2. lock'[r] = [lock[r] EXCEPT !.by = Gone]
      BY <1>12, <2>9, <3>1 DEF Release
    <3>3. lock'[r] \in Lock /\ lock'[r].by = Gone /\ lock'[r].op = lock[r].op
      BY <3>1, <3>2 DEF Lock
    <3>4. QED
      BY <1>0, <2>1, <2>7, <3>1, <3>3 DEF doubts
  <2>10. \A r \in Rows \ LockedBy(held[t]) : doubts'[r] = doubts[r]
    BY <2>8 DEF doubts
  <2>11. doubts = [r \in Rows |-> doubts[r]] /\ doubts' = [r \in Rows |-> doubts'[r]]
    BY DEF doubts
  <2>12. CASE local[t].failed
    <3>1. CASE LockedBy(held[t]) = {}
      <4>1. doubts' = doubts
        BY <2>10, <2>11, <3>1
      <4>2. QED
        BY <2>1, <2>2, <2>3, <2>6, <2>12, <4>1, SameStatements DEF Calls!Break
    <3>2. CASE LockedBy(held[t]) # {}
      <4>1. PICK r \in Rows : r \in LockedBy(held[t])
        BY <3>2 DEF LockedBy
      <4>2. req[t].row = r /\ ~local[t].done
        BY <2>7, <4>1
      <4>3. \A q \in LockedBy(held[t]) : q = r
        BY <2>7, <4>2
      <4>4. doubts' = [doubts EXCEPT ![r] = req[t].op]
        BY <2>9, <2>10, <2>11, <4>1, <4>3
      <4>5. calls[t].result = Error /\ calls[t].row = r /\ calls[t].op = req[t].op
        BY <2>5, <4>2
      <4>6. doubts[r] = "none"
        BY <2>9, <4>1
      <4>7. QED
        BY <2>1, <2>2, <2>3, <2>6, <2>12, <4>4, <4>5, <4>6, SameStatements DEF Calls!Break
    <3>3. QED
      BY <3>1, <3>2
  <2>13. CASE ~local[t].failed
    <3>1. local[t].done /\ local[t].result # Error
      BY <2>1, <2>13 DEF Progress
    <3>2. doubts' = doubts
      <4>1. LockedBy(held[t]) = {}
        BY <2>7, <3>1
      <4>2. QED
        BY <2>10, <2>11, <4>1
    <3>3. calls[t].result = local[t].result /\ a = local[t].result
      BY <2>5, <2>13, <3>1
    <3>4. QED
      BY <2>1, <2>2, <2>3, <2>6, <3>1, <3>2, <3>3, SameStatements DEF Calls!Return
  <2>14. QED
    BY <2>12, <2>13
<1>13. ASSUME NEW r \in Rows, ServerCommits(r)
       PROVE  Calls!Settle(r) \/ \E t \in Threads : Calls!Perform(t)
  <2>1. /\ lock[r] # NoLock /\ lock[r] \in Lock /\ lock[r].op \in Op
        /\ table' = [table EXCEPT ![r] = After(lock[r].op, table[r])]
        /\ lock' = [lock EXCEPT ![r] = NoLock]
        /\ pc' = pc /\ req' = req /\ held' = held
    BY <1>13 DEF ServerCommits, contractVars, TypeOK, Locks, Lock
  <2>2. local' = [u \in Threads |-> IF held[u] # None /\ held[u] = lock[r].by
                                    THEN [local[u] EXCEPT !.done = TRUE] ELSE local[u]]
    BY <1>13 DEF ServerCommits
  <2>3. CASE lock[r].by = Gone
    <3>1. local' = local
      BY <1>0, <2>2, <2>3 DEF TypeOK
    <3>2. doubts[r] = lock[r].op /\ lock[r].op # "none"
      BY <2>1, <2>3 DEF doubts, Op
    <3>3. doubts' = [doubts EXCEPT ![r] = "none"]
      BY <2>1, <2>3 DEF doubts, TypeOK
    <3>4. calls' = calls /\ answers' = answers
      BY <2>1, <3>1 DEF calls, answers
    <3>5. QED
      BY <2>1, <3>2, <3>3, <3>4, SameStatements DEF Calls!Settle
  <2>4. CASE lock[r].by # Gone
    <3>1. PICK t \in Threads : Owns(t, r)
      BY <2>1, <2>4 DEF Locks
    <3>2. /\ held[t] # None /\ held[t] = lock[r].by /\ req[t] = [op |-> lock[r].op, row |-> r]
          /\ pc[t] # "idle" /\ ~local[t].done
          /\ local[t].result = Result(lock[r].op, table[r])
      BY <3>1 DEF Owns, Stations
    <3>3. local'[t].done /\ local'[t].result = local[t].result
      <4>1. local'[t] = [local[t] EXCEPT !.done = TRUE] /\ local[t] \in Local
        BY <2>2, <3>2 DEF TypeOK
      <4>2. QED
        BY <4>1 DEF Local
    <3>4. \A u \in Threads \ {t} : local'[u] = local[u]
      BY <2>2, <3>2 DEF Stations
    <3>5. doubts' = doubts /\ doubts[r] = "none"
      BY <2>1, <2>4 DEF doubts, TypeOK
    <3>6. Calls!Perform(t)
      BY <1>10, <2>1, <3>2, <3>3, <3>4, <3>5
    <3>7. QED
      BY <3>6
  <2>5. QED
    BY <2>3, <2>4
<1>14. ASSUME NEW r \in Rows, ServerAborts(r)
       PROVE  Calls!Settle(r) \/ UNCHANGED Calls!atomicVars
  <2>1. /\ lock[r] # NoLock /\ lock[r] \in Lock /\ lock[r].op \in Op
        /\ lock' = [lock EXCEPT ![r] = NoLock]
        /\ table' = table /\ pc' = pc /\ req' = req /\ local' = local
    BY <1>14 DEF ServerAborts, TypeOK, Lock
  <2>2. CASE lock[r].by = Gone
    <3>1. doubts[r] = lock[r].op /\ lock[r].op # "none"
      BY <2>1, <2>2 DEF doubts, Op
    <3>2. doubts' = [doubts EXCEPT ![r] = "none"]
      BY <2>1, <2>2 DEF doubts, TypeOK
    <3>3. calls' = calls /\ answers' = answers
      BY <2>1 DEF calls, answers
    <3>4. QED
      BY <2>1, <3>1, <3>2, <3>3 DEF Calls!Settle
  <2>3. CASE lock[r].by # Gone
    <3>1. \A q \in Rows : lock'[q] = IF q = r THEN NoLock ELSE lock[q]
      BY <2>1 DEF TypeOK
    <3>2. QED
      BY <2>1, <2>3, <3>1, Unseen
  <2>4. QED
    BY <2>2, <2>3
<1>15. QED
  BY <1>1, <1>2, <1>3, <1>4, <1>5, <1>6, <1>7, <1>8, <1>9, <1>11, <1>12, <1>13, <1>14
     DEF Next, HolderStep, ServerStep, Calls!AtomicNext

(* Every method acts like one step on its row, whatever else goes on.       *)
THEOREM MethodsAreAtomic == Spec => CallsAreAtomic
<1>1. Spec => Calls!Atomic
  BY AtomicStart, AtomicStep, CallInvariant, PTL DEF Spec, Calls!Atomic
<1>2. QED
  BY <1>1 DEF CallsAreAtomic
=============================================================================
