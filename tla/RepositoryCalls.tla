--------------------------- MODULE RepositoryCalls ---------------------------
(***************************************************************************)
(* The body all methods of FlagRepo, AuditRepo and AuthService share:      *)
(*                                                                         *)
(*   auto conn = pool_.acquire();          PoolContract's Request, Grant   *)
(*   pqxx::work txn(conn);                  Begin                           *)
(*   result = txn.exec_params(...);        Execute                         *)
(*   txn.commit();                         Commit, AwaitCommit             *)
(*   catch (...) { return unexpected }     Rollback, for the txn           *)
(*                                         Release, for the guard          *)
(*                                                                         *)
(* run by several threads against one PostgreSQL, whose row locks are held *)
(* from the statement to the end of the transaction.  A connection can     *)
(* break at any time.  Its thread notices at its next use; the server      *)
(* notices in its own time, and may have received the COMMIT before.       *)
(* Nothing replaces the connection: it goes back into the pool.            *)
(***************************************************************************)
EXTENDS PoolContract, Statements

CONSTANTS
  Rows,        \* the primary keys called for
  NoLock,      \* no transaction has the row locked
  Gone,        \* holder of the locks of a transaction whose client is gone
  MaxFaults    \* bound: connections that break

(* A statement of a method, and a row lock: the transaction that has it,    *)
(* what it did to the row, and whether its COMMIT is under way.             *)
Statement == [op : Op, row : Rows]

Lock == [by : Connections \cup {Gone}, op : Op, value : 0..MaxVersion, committing : BOOLEAN]

ASSUME CallsAssumption ==
  /\ None \notin Connections /\ Gone \notin Connections /\ NoLock \notin Lock
  /\ MaxVersion \in Nat \ {0} /\ MaxFaults \in Nat

VARIABLES
  table,       \* table[r]: the committed version of row r
  pc,          \* pc[t]: the next step of t's method
  req,         \* req[t]: the statement of the method and its row
  local,       \* local[t]: the statement's result, kept until the next call;
               \* whether an exception was thrown; history: whether the call
               \* took effect
  open,        \* connections with a pqxx::work on them
  broken,      \* connections that are lost
  lock,        \* lock[r]: the transaction that changed r and has not ended
  faults       \* number of connections broken so far

vars == <<contractVars, table, pc, req, local, open, broken, lock, faults>>

Local == [result : Answer, failed : BOOLEAN, done : BOOLEAN]

Fresh == [result |-> Error, failed |-> FALSE, done |-> FALSE]

TypeOK ==
  /\ free \subseteq Connections
  /\ held \in [Threads -> Connections \cup {None}]
  /\ wants \subseteq Threads
  /\ table \in [Rows -> 0..MaxVersion]
  /\ pc \in [Threads -> {"idle", "acquire", "begin", "execute", "commit", "await",
                         "rollback", "release"}]
  /\ req \in [Threads -> Statement \cup {NoCall}]
  /\ local \in [Threads -> Local]
  /\ open \subseteq Connections /\ broken \subseteq Connections
  /\ lock \in [Rows -> Lock \cup {NoLock}]
  /\ faults \in Nat

Init ==
  /\ ContractInit
  /\ table \in [Rows -> 0..MaxVersion]
  /\ pc = [t \in Threads |-> "idle"]
  /\ req = [t \in Threads |-> NoCall]
  /\ local = [t \in Threads |-> Fresh]
  /\ open = {} /\ broken = {}
  /\ lock = [r \in Rows |-> NoLock]
  /\ faults = 0

Move(t, from, to) == pc[t] = from /\ pc' = [pc EXCEPT ![t] = to]

(* An exception: t goes on with the destructors, then the catch block.     *)
Throw(t, to) ==
  /\ pc' = [pc EXCEPT ![t] = to]
  /\ local' = [local EXCEPT ![t].failed = TRUE]
-----------------------------------------------------------------------------
(* The threads *)
Call(t) ==
  /\ Move(t, "idle", "acquire")
  /\ Request(t)
  /\ \E s \in Statement : req' = [req EXCEPT ![t] = s]
  /\ local' = [local EXCEPT ![t] = Fresh]
  /\ UNCHANGED <<table, open, broken, lock, faults>>

Acquire(t) ==
  /\ Move(t, "acquire", "begin")
  /\ Grant(t)
  /\ UNCHANGED <<table, req, local, open, broken, lock, faults>>

(* Wrong on purpose: trying the same connection again until it works. *)
BeginRetrying(t) ==
  /\ pc[t] = "begin"
  /\ IF held[t] \in broken \cup open
     THEN UNCHANGED <<pc, local, open>>
     ELSE pc' = [pc EXCEPT ![t] = "execute"] /\ open' = open \cup {held[t]} /\ UNCHANGED local
  /\ UNCHANGED <<contractVars, table, req, broken, lock, faults>>

(* The constructor of pqxx::work sends BEGIN; it throws on a connection     *)
(* that is lost or has a transaction object already.                       *)
Begin(t) ==
  /\ pc[t] = "begin"
  /\ IF held[t] \in broken \cup open
     THEN Throw(t, "release") /\ UNCHANGED open
     ELSE pc' = [pc EXCEPT ![t] = "execute"] /\ open' = open \cup {held[t]} /\ UNCHANGED local
  /\ UNCHANGED <<contractVars, table, req, broken, lock, faults>>

(* Wrong on purpose: computing the new version from a row read earlier,     *)
(* without waiting for its lock.                                           *)
WaitsNever(s) == FALSE

(* The statement has to wait for a transaction that changed its row.  A     *)
(* SELECT never waits, and UPDATE and DELETE do not see a row that another *)
(* transaction is inserting.                                               *)
Waits(s) ==
  /\ lock[s.row] # NoLock
  /\ ~(s.op = "find" \/ (s.op # "create" /\ table[s.row] = 0))

(* Wrong on purpose: a method called in the middle of another one, after    *)
(* its statement, as when the audit entry is to be in the transaction.      *)
AfterExecuteNested(s, v) ==
  IF Refuses(s.op, v) THEN "rollback" ELSE IF Changes(s.op, v) THEN "acquire" ELSE "commit"

AfterExecute(s, v) == IF Refuses(s.op, v) THEN "rollback" ELSE "commit"

(* exec_params: one statement, which evaluates its WHERE and its SET on the *)
(* row as it is when the lock is granted, and keeps the lock.              *)
Execute(t) ==
  LET s == req[t]
      v == table[s.row] IN
  /\ pc[t] = "execute" /\ held[t] \notin broken /\ ~Waits(s)
  /\ local' = [local EXCEPT ![t] = [result |-> Result(s.op, v), failed |-> FALSE,
                                    done |-> ~Changes(s.op, v)]]
  /\ pc' = [pc EXCEPT ![t] = AfterExecute(s, v)]
  /\ lock' = IF Changes(s.op, v)
             THEN [lock EXCEPT ![s.row] = [by |-> held[t], op |-> s.op,
                                           value |-> After(s.op, v), committing |-> FALSE]]
             ELSE lock
  /\ UNCHANGED <<contractVars, table, req, open, broken, faults>>

LockedBy(c) == {r \in Rows : lock[r] # NoLock /\ lock[r].by = c}

(* txn.commit() sends COMMIT. *)
Commit(t) ==
  /\ Move(t, "commit", "await") /\ held[t] \notin broken
  /\ lock' = [r \in Rows |-> IF r \in LockedBy(held[t])
                             THEN [lock[r] EXCEPT !.committing = TRUE] ELSE lock[r]]
  /\ UNCHANGED <<contractVars, table, req, local, open, broken, faults>>

(* commit() returns, and ~work has nothing left to do. *)
AwaitCommit(t) ==
  /\ Move(t, "await", "release")
  /\ held[t] \notin broken /\ LockedBy(held[t]) = {}
  /\ open' = open \ {held[t]}
  /\ UNCHANGED <<contractVars, table, req, local, broken, lock, faults>>

(* Any use of a lost connection throws. *)
NoticeLoss(t) ==
  /\ pc[t] \in {"execute", "commit", "await"} /\ held[t] \in broken
  /\ Throw(t, "rollback")
  /\ UNCHANGED <<contractVars, table, req, open, broken, lock, faults>>

(* Wrong on purpose: the guard declared after the transaction, so that the  *)
(* connection goes back before the transaction ends.                       *)
RollbackTooLate(t) ==
  /\ Move(t, "rollback", "release")
  /\ UNCHANGED <<contractVars, table, req, local, open, broken, lock, faults>>

(* ~work: ROLLBACK, if anybody is there to receive it. *)
Rollback(t) ==
  /\ Move(t, "rollback", "release")
  /\ open' = open \ {held[t]}
  /\ lock' = [r \in Rows |-> IF r \in LockedBy(held[t]) /\ held[t] \notin broken
                             THEN NoLock ELSE lock[r]]
  /\ UNCHANGED <<contractVars, table, req, local, broken, faults>>

(* ~ConnectionGuard, and the method returns.  A transaction the server has  *)
(* not ended yet is from now on nobody's.                                  *)
Release(t) ==
  /\ Move(t, "release", "idle")
  /\ GiveBack(t)
  /\ local' = [local EXCEPT ![t] = [Fresh EXCEPT !.result =
                                              IF local[t].failed THEN Error ELSE local[t].result]]
  /\ req' = [req EXCEPT ![t] = NoCall]
  /\ lock' = [r \in Rows |-> IF r \in LockedBy(held[t])
                             THEN [lock[r] EXCEPT !.by = Gone] ELSE lock[r]]
  /\ UNCHANGED <<table, open, broken, faults>>
-----------------------------------------------------------------------------
(* The server *)
ServerCommits(r) ==
  /\ lock[r] # NoLock /\ lock[r].committing
  /\ table' = [table EXCEPT ![r] = lock[r].value]
  /\ lock' = [lock EXCEPT ![r] = NoLock]
  /\ local' = [t \in Threads |-> IF held[t] # None /\ held[t] = lock[r].by
                                 THEN [local[t] EXCEPT !.done = TRUE] ELSE local[t]]
  /\ UNCHANGED <<contractVars, pc, req, open, broken, faults>>

(* The server notices that the client is gone and aborts its transaction;  *)
(* a COMMIT under way may have been lost with the connection.              *)
ServerAborts(r) ==
  /\ lock[r] # NoLock /\ lock[r].by \in broken \cup {Gone}
  /\ lock' = [lock EXCEPT ![r] = NoLock]
  /\ UNCHANGED <<contractVars, table, pc, req, local, open, broken, faults>>

ConnectionBreaks(c) ==
  /\ c \notin broken /\ faults < MaxFaults
  /\ faults' = faults + 1
  /\ broken' = broken \cup {c}
  /\ UNCHANGED <<contractVars, table, pc, req, local, open, lock>>
-----------------------------------------------------------------------------
HolderStep(t) ==
  Begin(t) \/ Commit(t) \/ AwaitCommit(t) \/ NoticeLoss(t) \/ Rollback(t) \/ Release(t)

ServerStep(r) == ServerCommits(r) \/ ServerAborts(r)

Next ==
  \/ \E t \in Threads : Call(t) \/ Acquire(t) \/ Execute(t) \/ HolderStep(t)
  \/ \E r \in Rows : ServerStep(r)
  \/ \E c \in Connections : ConnectionBreaks(c)

Spec == Init /\ [][Next]_vars

(* Threads run; the server answers, and notices clients that are gone.      *)
(* Waiting statements are granted a lock in their order, so none is passed *)
(* over for ever.                                                          *)
FairSpec ==
  /\ Spec
  /\ \A t \in Threads : WF_vars(HolderStep(t)) /\ SF_vars(Execute(t))
  /\ \A r \in Rows : WF_vars(ServerStep(r))
-----------------------------------------------------------------------------
(* A connection in the pool has no transaction object on it, whatever path  *)
(* its last user took: the transaction is declared after the guard and so  *)
(* destroyed before it.  Otherwise the next user's method would throw.     *)
PooledAreClean == free \cap open = {}

(* A lost connection in the pool harms those only that get it: a method     *)
(* that fails other than by its statement had a lost connection itself.    *)
BlamesConnection ==
  \A t \in Threads :
    pc[t] \in {"rollback", "release"} /\ local[t].failed => held[t] \in broken

(* Waiting for a row lock goes one deep: whoever has it is about to commit, *)
(* or it is for the server to end the transaction.  So no threads wait for  *)
(* each other in a circle, over row locks and the pool together.            *)
Blocked(t) == pc[t] = "execute" /\ held[t] \notin broken /\ Waits(req[t])

WaitsEnd ==
  \A t \in Threads : Blocked(t) =>
    LET l == lock[req[t].row] IN
    \/ l.committing \/ l.by \in broken \cup {Gone}
    \/ \E u \in Threads : held[u] = l.by /\ pc[u] = "commit"

(* What the callers see: the answer to the last call, the call under way,   *)
(* which has its result once it took effect, and the calls in doubt.        *)
answers == [t \in Threads |-> IF pc[t] = "idle" THEN local[t].result ELSE Error]

calls ==
  [t \in Threads |->
     IF pc[t] = "idle" THEN NoCall
     ELSE [op |-> req[t].op, row |-> req[t].row,
           result |-> IF local[t].done THEN local[t].result ELSE Error]]

doubts ==
  [r \in Rows |-> IF lock[r] # NoLock /\ lock[r].by = Gone THEN lock[r].op ELSE "none"]

Calls == INSTANCE AtomicCalls WITH answer <- answers, call <- calls, doubt <- doubts

(* A method acts like one step on its row: what the statement read and what *)
(* the commit makes visible are not separated by another transaction, and  *)
(* the answer is that of this step, through every loss of a connection.    *)
CallsAreAtomic == Calls!Atomic

(* Whoever got a connection gives it back: row locks, lost connections and  *)
(* locks of lost clients keep nobody for ever.                             *)
HoldersReturn == \A t \in Threads : held[t] # None ~> held[t] = None
=============================================================================
