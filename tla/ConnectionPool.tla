--------------------------- MODULE ConnectionPool ---------------------------
(***************************************************************************)
(* repositories/connection_pool: a monitor of one mutex, one condition     *)
(* variable and the vector of idle connections, used as a stack.  Every    *)
(* repository call acquires a connection and lets its guard give it back.  *)
(*                                                                         *)
(* pc[t] is where thread t is:                                             *)
(*                                                                         *)
(*   acquire()  locking -> testing -> taking -> using                      *)
(*                   ^        |                                            *)
(*                   +-- waiting, notified                                 *)
(*   release()  returning -> pushing -> notifying                          *)
(*                                                                         *)
(* testing, taking and pushing are inside the mutex.  wait() gives the     *)
(* mutex up and blocks in one step, as the condition variable guarantees;  *)
(* it may also return without having been notified.                        *)
(***************************************************************************)
EXTENDS Naturals, Sequences, FiniteSets, Functions

CONSTANTS
  Threads,       \* the worker threads of the server
  Connections,   \* the connections the constructor opens, pool_size of them
  None           \* no thread, no connection

ASSUME PoolAssumption ==
  /\ IsFiniteSet(Threads) /\ IsFiniteSet(Connections)
  /\ None \notin Threads \cup Connections

VARIABLES
  available,   \* available_
  mutex,       \* the thread that has mutex_ locked, or None
  guard,       \* guard[t]: the connection in t's ConnectionGuard, or None
  pc

vars == <<available, mutex, guard, pc>>

Asking == {"locking", "testing", "taking", "waiting", "notified"}
Inside == {"testing", "taking", "pushing"}
Place  == Asking \cup {"idle", "using", "returning", "pushing", "notifying"}

At(places) == {t \in Threads : pc[t] \in places}

TypeOK ==
  /\ available \in Seq(Connections)
  /\ mutex \in Threads \cup {None}
  /\ guard \in [Threads -> Connections \cup {None}]
  /\ pc \in [Threads -> Place]

(* ConnectionPool::ConnectionPool, in whatever order it opens them. *)
Init ==
  /\ available \in [1..Cardinality(Connections) -> Connections]
  /\ Range(available) = Connections
  /\ mutex = None
  /\ guard = [t \in Threads |-> None]
  /\ pc = [t \in Threads |-> "idle"]
-----------------------------------------------------------------------------
Move(t, from, to) == pc[t] = from /\ pc' = [pc EXCEPT ![t] = to]

(* A repository method calls acquire(). *)
Acquire(t) == Move(t, "idle", "locking") /\ UNCHANGED <<available, mutex, guard>>

(* Wrong on purpose: "if" in place of the loop of wait(). *)
LockWithoutRetest(t) ==
  /\ mutex = None /\ mutex' = t
  /\ \/ Move(t, "locking", "testing")
     \/ Move(t, "notified", "taking")
  /\ UNCHANGED <<available, guard>>

(* std::unique_lock lock(mutex_), and wait() locking it again. *)
Lock(t) ==
  /\ mutex = None /\ mutex' = t
  /\ \/ Move(t, "locking", "testing")
     \/ Move(t, "notified", "testing")
  /\ UNCHANGED <<available, guard>>

(* The predicate of cv_.wait: go on with a connection there, else block.   *)
Test(t) ==
  /\ \/ available # <<>> /\ Move(t, "testing", "taking") /\ UNCHANGED mutex
     \/ available = <<>> /\ Move(t, "testing", "waiting") /\ mutex' = None
  /\ UNCHANGED <<available, guard>>

(* Wrong on purpose: back() without pop_back(). *)
TakeWithoutPop(t) ==
  /\ Move(t, "taking", "using")
  /\ guard' = [guard EXCEPT ![t] = available[Len(available)]]
  /\ mutex' = None
  /\ UNCHANGED available

(* back(), pop_back(), and the mutex released on return. *)
Take(t) ==
  /\ Move(t, "taking", "using")
  /\ guard' = [guard EXCEPT ![t] = available[Len(available)]]
  /\ available' = SubSeq(available, 1, Len(available) - 1)
  /\ mutex' = None

(* The repository method is done, or an exception unwinds it: ~ConnectionGuard *)
Finish(t) == Move(t, "using", "returning") /\ UNCHANGED <<available, mutex, guard>>

LockToReturn(t) ==
  /\ mutex = None /\ mutex' = t
  /\ Move(t, "returning", "pushing")
  /\ UNCHANGED <<available, guard>>

(* Wrong on purpose: pushing conn_ after it was moved from. *)
PushMoved(t) ==
  /\ Move(t, "pushing", "notifying")
  /\ guard' = [guard EXCEPT ![t] = None]
  /\ available' = Append(available, guard'[t])
  /\ mutex' = None

(* Wrong on purpose: notifying only when the pool was exhausted. *)
PushQuietly(t) ==
  /\ IF available = <<>> THEN Move(t, "pushing", "notifying") ELSE Move(t, "pushing", "idle")
  /\ available' = Append(available, guard[t])
  /\ guard' = [guard EXCEPT ![t] = None]
  /\ mutex' = None

(* push_back(std::move(conn)), and the mutex released. *)
Push(t) ==
  /\ Move(t, "pushing", "notifying")
  /\ available' = Append(available, guard[t])
  /\ guard' = [guard EXCEPT ![t] = None]
  /\ mutex' = None

(* Wrong on purpose: release() without notify_one. *)
NotifyNobody(t) == Move(t, "notifying", "idle") /\ UNCHANGED <<available, mutex, guard>>

(* cv_.notify_one: one of the blocked threads, if there is any. *)
Notify(t) ==
  /\ pc[t] = "notifying"
  /\ IF At({"waiting"}) = {}
     THEN pc' = [pc EXCEPT ![t] = "idle"]
     ELSE \E w \in At({"waiting"}) :
            pc' = [pc EXCEPT ![t] = "idle", ![w] = "notified"]
  /\ UNCHANGED <<available, mutex, guard>>

SpuriousWakeup(t) ==
  Move(t, "waiting", "notified") /\ UNCHANGED <<available, mutex, guard>>
-----------------------------------------------------------------------------
(* What a thread goes on doing by itself once it has called a repository.  *)
Proceed(t) ==
  Lock(t) \/ Test(t) \/ Take(t) \/ LockToReturn(t) \/ Push(t) \/ Notify(t)

Next ==
  \E t \in Threads : Acquire(t) \/ Proceed(t) \/ Finish(t) \/ SpuriousWakeup(t)

Spec == Init /\ [][Next]_vars

(* The scheduler lets a thread run that can run.  A mutex contended for    *)
(* ever may starve a thread, a query may take for ever.                    *)
FairSpec == Spec /\ \A t \in Threads : WF_vars(Proceed(t))
-----------------------------------------------------------------------------
(* pop_back() on an empty vector is undefined: a thread about to take a     *)
(* connection still finds one, although others came and went, were          *)
(* notified or woke up for no reason since it first looked.                 *)
PopsSomething == \A t \in Threads : pc[t] = "taking" => available # <<>>

(* A connection is in one place: once among the available ones, or in the   *)
(* guard of one thread.  None is used by two threads, and none is ever      *)
(* lost, so the pool keeps its size.                                        *)
OnePlace ==
  \A c \in Connections :
    Cardinality({i \in DOMAIN available : available[i] = c})
      + Cardinality({t \in Threads : guard[t] = c}) = 1

(* release() notifies after unlocking, so a connection can be available     *)
(* while threads wait.  Then there is, for each such connection, a thread   *)
(* that is going to wake a waiter up or to take the connection itself.      *)
NoLostWakeup ==
  At({"waiting"}) # {} =>
    Len(available) <= Cardinality(At({"notifying", "notified", "testing", "taking"}))

(* The mutex is locked by the one thread inside, if there is one. *)
MutexOK == \A t \in Threads : pc[t] \in Inside <=> mutex = t

(* The pool as its callers see it, see PoolContract. *)
Pool == INSTANCE PoolContract WITH
  free  <- Range(available),
  held  <- guard,
  wants <- At(Asking)

(* The pool keeps the contract: every step of the monitor is a request, a   *)
(* grant or a return of the contract, or invisible in it.                   *)
KeepsContract == Pool!Contract

(* While a connection is available and a thread asks for one, some thread   *)
(* gets one, whatever the order of locks, notifications and wake-ups.       *)
GrantsEventually == Pool!FairGranting
=============================================================================
