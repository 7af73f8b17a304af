----------------------- MODULE ConnectionPool_proofs -----------------------
(***************************************************************************)
(* Proofs about ConnectionPool, for any number of threads and connections: *)
(* mutual exclusion, no pop from an empty pool, every connection in one    *)
(* place, no lost wake-up, and the refinement of PoolContract.             *)
(***************************************************************************)
EXTENDS ConnectionPool, FiniteSetTheorems, SequenceTheorems, TLAPS

(* Where the connections are, without counting them. *)
Placed ==
  /\ \A t \in Threads : guard[t] # None <=> pc[t] \in {"using", "returning", "pushing"}
  /\ \A i, j \in 1..Len(available) : available[i] = available[j] => i = j
  /\ \A t \in Threads : \A i \in 1..Len(available) : guard[t] # available[i]
  /\ \A s, t \in Threads : guard[s] = guard[t] /\ guard[s] # None => s = t
  /\ \A c \in Connections : \/ \E i \in 1..Len(available) : available[i] = c
                            \/ \E t \in Threads : guard[t] = c

PoolInv == TypeOK /\ MutexOK /\ PopsSomething /\ Placed
-----------------------------------------------------------------------------
(* The stack of available connections *)

(* What Take leaves is all but the connection it takes. *)
LEMMA Popped ==
  ASSUME NEW S, NEW s \in Seq(S), s # <<>>
  PROVE  LET u == SubSeq(s, 1, Len(s) - 1) IN
         /\ Len(s) \in Nat \ {0} /\ s[Len(s)] \in S
         /\ u \in Seq(S) /\ Len(u) = Len(s) - 1
         /\ \A i \in 1..(Len(s) - 1) : u[i] = s[i]
<1>1. Len(s) \in Nat \ {0}
  BY EmptySeq, LenProperties
<1>2. \A i \in 1..Len(s) : s[i] \in S
  BY ElementOfSeq
<1>3. PICK n \in Nat : Len(s) = n + 1
  BY <1>1
<1>4. Len(s) - 1 = n /\ \A i \in 1..n : s[i] \in S
  BY <1>2, <1>3
<1>5. /\ SubSeq(s, 1, n) \in Seq(S)
      /\ Len(SubSeq(s, 1, n)) = IF 1 <= n THEN n - 1 + 1 ELSE 0
      /\ \A i \in 1..(n - 1 + 1) : SubSeq(s, 1, n)[i] = s[1 + i - 1]
  BY <1>4, SubSeqProperties
<1>6. Len(SubSeq(s, 1, n)) = n
  BY <1>3, <1>5
<1>7. ASSUME NEW i \in 1..n PROVE SubSeq(s, 1, n)[i] = s[i]
  <2>1. i \in 1..(n - 1 + 1) /\ 1 + i - 1 = i
    BY <1>3
  <2>2. QED
    BY <1>5, <2>1
<1>8. s[Len(s)] \in S
  BY <1>1, <1>2
<1>9. QED
  BY <1>1, <1>4, <1>5, <1>6, <1>7, <1>8

LEMMA Pushed ==
  ASSUME NEW S, NEW s \in Seq(S), NEW e \in S
  PROVE  /\ Len(s) \in Nat
         /\ Append(s, e) \in Seq(S) /\ Len(Append(s, e)) = Len(s) + 1
         /\ \A i \in 1..Len(s) : Append(s, e)[i] = s[i]
         /\ Append(s, e)[Len(s) + 1] = e
BY AppendProperties, LenProperties

LEMMA RangeIs ==
  ASSUME NEW S, NEW s \in Seq(S)
  PROVE  \A e : e \in Range(s) <=> \E i \in 1..Len(s) : s[i] = e
<1>1. DOMAIN s = 1..Len(s)
  BY LenProperties
<1>2. QED
  BY <1>1 DEF Range
-----------------------------------------------------------------------------
(* The inductive invariant *)

LEMMA PoolInvInit == Init => PoolInv
<1> SUFFICES ASSUME Init PROVE PoolInv
  OBVIOUS
<1> DEFINE n == Cardinality(Connections)
<1>1. n \in Nat
  BY PoolAssumption, FS_CardinalityType
<1>2. available \in [1..n -> Connections]
  BY DEF Init
<1>3. available \in Seq(Connections) /\ Len(available) = n
  BY <1>1, <1>2, IsASeq, LenProperties
<1>4. available \in Surjection(1..n, Connections)
  BY <1>2 DEF Init, Range, Surjection
<1>5. IsFiniteSet(1..n) /\ Cardinality(1..n) = Cardinality(Connections)
  <2>1. n \in Int /\ 1 \in Int /\ (IF 1 > n THEN 0 ELSE n - 1 + 1) = n
    BY <1>1
  <2>2. IsFiniteSet(1..n) /\ Cardinality(1..n) = IF 1 > n THEN 0 ELSE n - 1 + 1
    BY <2>1, FS_Interval
  <2>3. QED
    BY <2>1, <2>2
<1>6. available \in Injection(1..n, Connections)
  <2> HIDE DEF n
  <2>1. QED
    BY <1>4, <1>5, FS_SurjSameCardinalityImpliesInj
<1>7. \A i, j \in 1..n : available[i] = available[j] => i = j
  BY <1>6 DEF Injection, IsInjective
<1>8. \A c \in Connections : \E i \in 1..n : available[i] = c
  BY <1>4 DEF Surjection
<1>9. \A i \in 1..n : available[i] # None
  BY <1>2, PoolAssumption
<1>10. TypeOK
  BY <1>3 DEF Init, TypeOK, Place
<1>11. MutexOK /\ PopsSomething
  BY PoolAssumption DEF Init, MutexOK, PopsSomething, Inside
<1>12. Placed
  BY <1>3, <1>7, <1>8, <1>9 DEF Init, Placed
<1>13. QED
  BY <1>10, <1>11, <1>12 DEF PoolInv

LEMMA PoolInvNext == PoolInv /\ [Next]_vars => PoolInv'
<1> SUFFICES ASSUME PoolInv, [Next]_vars PROVE PoolInv'
  OBVIOUS
<1> USE DEF PoolInv
<1>0. None \notin Threads /\ None \notin Connections
  BY PoolAssumption
<1>1. ASSUME NEW t \in Threads, NEW from \in Place, NEW to \in Place, Move(t, from, to)
      PROVE  /\ pc[t] = from
             /\ pc' \in [Threads -> Place]
             /\ pc'[t] = to
             /\ \A s \in Threads : s # t => pc'[s] = pc[s]
  BY <1>1 DEF Move, TypeOK
<1>2. CASE UNCHANGED vars
  BY <1>2 DEF vars, TypeOK, MutexOK, PopsSomething, Placed
<1>3. ASSUME NEW t \in Threads, Acquire(t) PROVE PoolInv'
  <2>1. /\ pc[t] = "idle" /\ pc' \in [Threads -> Place] /\ pc'[t] = "locking"
        /\ \A s \in Threads : s # t => pc'[s] = pc[s]
    BY <1>1, <1>3 DEF Acquire, Place, Asking
  <2>2. QED
    BY <1>3, <2>1 DEF Acquire, TypeOK, MutexOK, PopsSomething, Placed, Inside
<1>4. ASSUME NEW t \in Threads, Lock(t) PROVE PoolInv'
  <2>1. /\ pc[t] \in {"locking", "notified"} /\ pc' \in [Threads -> Place]
        /\ pc'[t] = "testing" /\ \A s \in Threads : s # t => pc'[s] = pc[s]
    BY <1>1, <1>4 DEF Lock, Place, Asking
  <2>2. QED
    BY <1>0, <1>4, <2>1 DEF Lock, TypeOK, MutexOK, PopsSomething, Placed, Inside
<1>5. ASSUME NEW t \in Threads, Test(t) PROVE PoolInv'
  <2>1. /\ pc[t] = "testing" /\ pc' \in [Threads -> Place]
        /\ \A s \in Threads : s # t => pc'[s] = pc[s]
        /\ \/ available # <<>> /\ pc'[t] = "taking" /\ mutex' = mutex
           \/ pc'[t] = "waiting" /\ mutex' = None
        /\ UNCHANGED <<available, guard>>
    BY <1>1, <1>5 DEF Test, Place, Asking
  <2>2. QED
    BY <1>0, <2>1 DEF TypeOK, MutexOK, PopsSomething, Placed, Inside
<1>6. ASSUME NEW t \in Threads, Take(t) PROVE PoolInv'
  <2>1. /\ pc[t] = "taking" /\ pc' \in [Threads -> Place] /\ pc'[t] = "using"
        /\ \A s \in Threads : s # t => pc'[s] = pc[s]
    BY <1>1, <1>6 DEF Take, Place, Asking
  <2> DEFINE n == Len(available)
  <2>2. available # <<>> /\ mutex = t
    BY <2>1 DEF PopsSomething, MutexOK, Inside
  <2>3. /\ n \in Nat \ {0} /\ available[n] \in Connections
        /\ available' \in Seq(Connections) /\ Len(available') = n - 1
        /\ \A i \in 1..(n - 1) : available'[i] = available[i]
    BY <1>6, <2>2, Popped DEF TypeOK, Take
  <2>4. /\ guard' \in [Threads -> Connections \cup {None}]
        /\ guard'[t] = available[n]
        /\ \A s \in Threads : s # t => guard'[s] = guard[s]
    BY <1>6, <2>3 DEF Take, TypeOK
  <2>5. TypeOK' /\ MutexOK' /\ PopsSomething'
    BY <1>0, <1>6, <2>1, <2>2, <2>3, <2>4 DEF Take, TypeOK, MutexOK, PopsSomething, Inside
  <2>6. \A i \in 1..Len(available') : i \in 1..n /\ i # n /\ available'[i] = available[i]
    BY <2>3
  <2>7. n \in 1..n /\ \A i \in 1..n : i # n => i \in 1..Len(available')
    BY <2>3
  <2>8. Placed'
    <3>1. \A s \in Threads : guard'[s] # None <=> pc'[s] \in {"using", "returning", "pushing"}
      BY <1>0, <2>1, <2>3, <2>4 DEF Placed
    <3>2. \A i, j \in 1..Len(available') : available'[i] = available'[j] => i = j
      BY <2>6 DEF Placed
    <3>3. \A s \in Threads : \A i \in 1..Len(available') : guard'[s] # available'[i]
      BY <2>4, <2>6, <2>7 DEF Placed
    <3>4. \A r, s \in Threads : guard'[r] = guard'[s] /\ guard'[r] # None => r = s
      BY <2>4, <2>7 DEF Placed
    <3>5. \A c \in Connections : \/ \E i \in 1..Len(available') : available'[i] = c
                                 \/ \E s \in Threads : guard'[s] = c
      <4> SUFFICES ASSUME NEW c \in Connections
                   PROVE  \/ \E i \in 1..Len(available') : available'[i] = c
                          \/ \E s \in Threads : guard'[s] = c
        OBVIOUS
      <4>1. CASE \E s \in Threads : guard[s] = c
        BY <1>0, <2>1, <2>4, <4>1 DEF Placed
      <4>2. CASE \E i \in 1..n : available[i] = c
        BY <2>4, <2>6, <2>7, <4>2
      <4>3. QED
        BY <4>1, <4>2 DEF Placed
    <3>6. QED
      BY <3>1, <3>2, <3>3, <3>4, <3>5 DEF Placed
  <2>9. QED
    BY <2>5, <2>8
<1>7. ASSUME NEW t \in Threads, Finish(t) PROVE PoolInv'
  <2>1. /\ pc[t] = "using" /\ pc' \in [Threads -> Place] /\ pc'[t] = "returning"
        /\ \A s \in Threads : s # t => pc'[s] = pc[s]
    BY <1>1, <1>7 DEF Finish, Place, Asking
  <2>2. QED
    BY <1>7, <2>1 DEF Finish, TypeOK, MutexOK, PopsSomething, Placed, Inside
<1>8. ASSUME NEW t \in Threads, LockToReturn(t) PROVE PoolInv'
  <2>1. /\ pc[t] = "returning" /\ pc' \in [Threads -> Place] /\ pc'[t] = "pushing"
        /\ \A s \in Threads : s # t => pc'[s] = pc[s]
    BY <1>1, <1>8 DEF LockToReturn, Place, Asking
  <2>2. QED
    BY <1>0, <1>8, <2>1 DEF LockToReturn, TypeOK, MutexOK, PopsSomething, Placed, Inside
<1>9. ASSUME NEW t \in Threads, Push(t) PROVE PoolInv'
  <2>1. /\ pc[t] = "pushing" /\ pc' \in [Threads -> Place] /\ pc'[t] = "notifying"
        /\ \A s \in Threads : s # t => pc'[s] = pc[s]
    BY <1>1, <1>9 DEF Push, Place, Asking
  <2> DEFINE n == Len(available)
  <2>2. mutex = t /\ guard[t] \in Connections
    BY <1>0, <2>1 DEF TypeOK, Placed, MutexOK, Inside
  <2>3. /\ n \in Nat
        /\ available' \in Seq(Connections) /\ Len(available') = n + 1
        /\ \A i \in 1..n : available'[i] = available[i]
        /\ available'[n + 1] = guard[t]
    BY <1>9, <2>2, Pushed DEF TypeOK, Push
  <2>4. /\ guard' \in [Threads -> Connections \cup {None}]
        /\ guard'[t] = None
        /\ \A s \in Threads : s # t => guard'[s] = guard[s]
    BY <1>9 DEF Push, TypeOK
  <2>5. TypeOK' /\ MutexOK' /\ PopsSomething'
    BY <1>0, <1>9, <2>1, <2>2, <2>3, <2>4 DEF Push, TypeOK, MutexOK, PopsSomething, Inside
  <2>6. /\ \A i \in 1..Len(available') :
              \/ i \in 1..n /\ i # n + 1 /\ available'[i] = available[i]
              \/ i = n + 1 /\ available'[i] = guard[t]
        /\ n + 1 \in 1..Len(available')
        /\ \A i \in 1..n : i \in 1..Len(available')
    BY <2>3
  <2>7. Placed'
    <3>1. \A s \in Threads : guard'[s] # None <=> pc'[s] \in {"using", "returning", "pushing"}
      BY <2>1, <2>4 DEF Placed
    <3>2. \A i, j \in 1..Len(available') : available'[i] = available'[j] => i = j
      BY <2>6 DEF Placed
    <3>3. \A s \in Threads : \A i \in 1..Len(available') : guard'[s] # available'[i]
      <4> SUFFICES ASSUME NEW s \in Threads, NEW i \in 1..Len(available')
                   PROVE  guard'[s] # available'[i]
        OBVIOUS
      <4>1. available'[i] \in Connections
        BY <2>3, ElementOfSeq
      <4>2. CASE s = t
        BY <1>0, <2>4, <4>1, <4>2
      <4>3. CASE s # t
        BY <1>0, <2>2, <2>4, <2>6, <4>1, <4>3 DEF Placed
      <4>4. QED
        BY <4>2, <4>3
    <3>4. \A r, s \in Threads : guard'[r] = guard'[s] /\ guard'[r] # None => r = s
      BY <2>4 DEF Placed
    <3>5. \A c \in Connections : \/ \E i \in 1..Len(available') : available'[i] = c
                                 \/ \E s \in Threads : guard'[s] = c
      <4> SUFFICES ASSUME NEW c \in Connections
                   PROVE  \/ \E i \in 1..Len(available') : available'[i] = c
                          \/ \E s \in Threads : guard'[s] = c
        OBVIOUS
      <4>1. CASE \E s \in Threads : guard[s] = c
        BY <2>3, <2>4, <2>6, <4>1
      <4>2. CASE \E i \in 1..n : available[i] = c
        BY <2>3, <2>6, <4>2
      <4>3. QED
        BY <4>1, <4>2 DEF Placed
    <3>6. QED
      BY <3>1, <3>2, <3>3, <3>4, <3>5 DEF Placed
  <2>8. QED
    BY <2>5, <2>7
<1>10. ASSUME NEW t \in Threads, Notify(t) PROVE PoolInv'
  <2>1. /\ pc[t] = "notifying" /\ pc' \in [Threads -> Place] /\ pc'[t] = "idle"
        /\ \A s \in Threads : s # t =>
             pc'[s] = pc[s] \/ (pc[s] = "waiting" /\ pc'[s] = "notified")
    BY <1>10 DEF Notify, TypeOK, Place, Asking, At
  <2>2. QED
    BY <1>10, <2>1 DEF Notify, TypeOK, MutexOK, PopsSomething, Placed, Inside
<1>11. ASSUME NEW t \in Threads, SpuriousWakeup(t) PROVE PoolInv'
  <2>1. /\ pc[t] = "waiting" /\ pc' \in [Threads -> Place] /\ pc'[t] = "notified"
        /\ \A s \in Threads : s # t => pc'[s] = pc[s]
    BY <1>1, <1>11 DEF SpuriousWakeup, Place, Asking
  <2>2. QED
    BY <1>11, <2>1 DEF SpuriousWakeup, TypeOK, MutexOK, PopsSomething, Placed, Inside
<1>12. QED
  BY <1>2, <1>3, <1>4, <1>5, <1>6, <1>7, <1>8, <1>9, <1>10, <1>11 DEF Next, Proceed

THEOREM PoolInvariant == Spec => []PoolInv
BY PoolInvInit, PoolInvNext, PTL DEF Spec

(* The monitor's variables keep their types. *)
THEOREM PoolTypeCorrect == Spec => []TypeOK
<1>1. PoolInv => TypeOK
  BY DEF PoolInv
<1>2. QED
  BY <1>1, PoolInvariant, PTL

(* Mutual exclusion, and no pop_back() on an empty vector. *)
THEOREM PopsAreSafe == Spec => [](TypeOK /\ MutexOK /\ PopsSomething)
<1>1. PoolInv => TypeOK /\ MutexOK /\ PopsSomething
  BY DEF PoolInv
<1>2. QED
  BY <1>1, PoolInvariant, PTL
-----------------------------------------------------------------------------
(* Every connection is in one place *)

LEMMA Counted == PoolInv => OnePlace
<1> SUFFICES ASSUME PoolInv, NEW c \in Connections
             PROVE  Cardinality({i \in DOMAIN available : available[i] = c})
                      + Cardinality({t \in Threads : guard[t] = c}) = 1
  BY DEF OnePlace
<1> DEFINE idle == {i \in DOMAIN available : available[i] = c}
           users == {t \in Threads : guard[t] = c}
<1>1. Placed /\ DOMAIN available = 1..Len(available)
  BY LenProperties DEF PoolInv, TypeOK
<1>2. c # None
  BY PoolAssumption
<1>3. \A x : Cardinality({x}) = 1
  BY FS_Singleton
<1>4. Cardinality({}) = 0
  BY FS_EmptySet
<1>5. CASE \E i \in 1..Len(available) : available[i] = c
  <2>1. PICK i \in 1..Len(available) : available[i] = c
    BY <1>5
  <2>2. idle = {i}
    BY <1>1, <2>1 DEF Placed
  <2>3. users = {}
    BY <1>1, <2>1 DEF Placed
  <2>4. Cardinality(idle) = 1 /\ Cardinality(users) = 0
    BY <1>3, <1>4, <2>2, <2>3
  <2>5. QED
    BY <2>4
<1>6. CASE \E t \in Threads : guard[t] = c
  <2>1. PICK t \in Threads : guard[t] = c
    BY <1>6
  <2>2. users = {t}
    BY <1>1, <1>2, <2>1 DEF Placed
  <2>3. idle = {}
    BY <1>1, <2>1 DEF Placed
  <2>4. Cardinality(idle) = 0 /\ Cardinality(users) = 1
    BY <1>3, <1>4, <2>2, <2>3
  <2>5. QED
    BY <2>4
<1>7. QED
  BY <1>1, <1>5, <1>6 DEF Placed

(* No connection is shared or lost, whatever the pool's size. *)
THEOREM ConnectionsStayInOnePlace == Spec => []OnePlace
BY Counted, PoolInvariant, PTL
-----------------------------------------------------------------------------
(* No wake-up is lost *)

Awake == At({"notifying", "notified", "testing", "taking"})

LEMMA WakeupInit == Init => NoLostWakeup
BY DEF Init, NoLostWakeup, At

LEMMA WakeupNext == PoolInv /\ NoLostWakeup /\ [Next]_vars => NoLostWakeup'
<1> SUFFICES ASSUME PoolInv, NoLostWakeup, [Next]_vars,
                    At({"waiting"})' # {}
             PROVE  Len(available)' <= Cardinality(Awake)'
  BY DEF NoLostWakeup, Awake
<1> USE DEF PoolInv
<1>1. /\ IsFiniteSet(Threads) /\ Awake \subseteq Threads /\ Awake' \subseteq Threads
  BY PoolAssumption DEF Awake, At
<1>2. /\ IsFiniteSet(Awake) /\ Cardinality(Awake) \in Nat
      /\ IsFiniteSet(Awake') /\ Cardinality(Awake') \in Nat
  BY <1>1, FS_Subset, FS_CardinalityType
<1>3. Len(available) \in Nat
  BY LenProperties DEF TypeOK
<1>4. At({"waiting"}) # {} => Len(available) <= Cardinality(Awake)
  BY DEF NoLostWakeup, Awake
<1>5. ASSUME Awake \subseteq Awake', Len(available') = Len(available), At({"waiting"}) # {}
      PROVE  Len(available)' <= Cardinality(Awake)'
  <2>1. Cardinality(Awake) <= Cardinality(Awake')
    BY <1>2, <1>5, FS_Subset
  <2>2. QED
    BY <1>2, <1>3, <1>4, <1>5, <2>1
<1>6. ASSUME NEW t \in Threads, NEW from \in Place, NEW to \in Place, Move(t, from, to)
      PROVE  /\ pc[t] = from /\ pc'[t] = to
             /\ \A s \in Threads : s # t => pc'[s] = pc[s]
  BY <1>6 DEF Move, TypeOK
<1>7. CASE UNCHANGED vars
  BY <1>5, <1>7 DEF vars, Awake, At
<1>8. ASSUME NEW t \in Threads,
             Acquire(t) \/ Lock(t) \/ Finish(t) \/ LockToReturn(t) \/ SpuriousWakeup(t)
      PROVE  Len(available)' <= Cardinality(Awake)'
  <2>1. /\ pc[t] \notin {"notifying", "testing", "taking"}
        /\ pc[t] = "notified" => pc'[t] = "testing"
        /\ pc'[t] # "waiting"
        /\ \A s \in Threads : s # t => pc'[s] = pc[s]
        /\ available' = available
    BY <1>6, <1>8 DEF Acquire, Lock, Finish, LockToReturn, SpuriousWakeup, Place, Asking
  <2>2. Awake \subseteq Awake' /\ At({"waiting"}) # {}
    BY <2>1 DEF Awake, At
  <2>3. QED
    BY <1>5, <2>1, <2>2
<1>9. ASSUME NEW t \in Threads, Test(t)
      PROVE  Len(available)' <= Cardinality(Awake)'
  <2>1. CASE available = <<>>
    <3>1. Len(available') = 0
      BY <1>9, <2>1, EmptySeq DEF Test
    <3>2. QED
      BY <1>2, <3>1
  <2>2. CASE available # <<>>
    <3>1. /\ pc[t] = "testing" /\ pc'[t] = "taking" /\ available' = available
          /\ \A s \in Threads : s # t => pc'[s] = pc[s]
      BY <1>6, <1>9, <2>2 DEF Test, Place, Asking
    <3>2. Awake \subseteq Awake' /\ At({"waiting"}) # {}
      BY <3>1 DEF Awake, At
    <3>3. QED
      BY <1>5, <3>1, <3>2
  <2>3. QED
    BY <2>1, <2>2
<1>10. ASSUME NEW t \in Threads, Take(t)
       PROVE  Len(available)' <= Cardinality(Awake)'
  <2>1. /\ pc[t] = "taking" /\ pc'[t] = "using"
        /\ \A s \in Threads : s # t => pc'[s] = pc[s]
    BY <1>6, <1>10 DEF Take, Place, Asking
  <2>2. t \in Awake /\ Awake' = Awake \ {t} /\ At({"waiting"}) # {}
    BY <2>1 DEF Awake, At
  <2>3. Cardinality(Awake') = Cardinality(Awake) - 1
    BY <1>2, <2>2, FS_RemoveElement
  <2>4. Len(available') = Len(available) - 1
    BY <1>10, <2>1, Popped DEF Take, TypeOK, PopsSomething
  <2>5. QED
    BY <1>2, <1>3, <1>4, <2>2, <2>3, <2>4
<1>11. ASSUME NEW t \in Threads, Push(t)
       PROVE  Len(available)' <= Cardinality(Awake)'
  <2>1. /\ pc[t] = "pushing" /\ pc'[t] = "notifying"
        /\ \A s \in Threads : s # t => pc'[s] = pc[s]
    BY <1>6, <1>11 DEF Push, Place, Asking
  <2>2. t \notin Awake /\ Awake' = Awake \cup {t} /\ At({"waiting"}) # {}
    BY <2>1 DEF Awake, At
  <2>3. Cardinality(Awake') = Cardinality(Awake) + 1
    BY <1>2, <2>2, FS_AddElement
  <2>4. guard[t] \in Connections
    BY <2>1, PoolAssumption DEF Placed, TypeOK
  <2>5. Len(available') = Len(available) + 1
    BY <1>11, <2>4, Pushed DEF Push, TypeOK
  <2>6. QED
    BY <1>2, <1>3, <1>4, <2>2, <2>3, <2>5
<1>12. ASSUME NEW t \in Threads, Notify(t)
       PROVE  Len(available)' <= Cardinality(Awake)'
  <2>1. CASE At({"waiting"}) = {}
    <3>1. At({"waiting"})' = {}
      BY <1>12, <2>1 DEF Notify, At, TypeOK
    <3>2. QED
      BY <3>1
  <2>2. CASE At({"waiting"}) # {}
    <3>1. PICK w \in Threads : /\ pc[w] = "waiting"
                               /\ pc' = [pc EXCEPT ![t] = "idle", ![w] = "notified"]
      BY <1>12, <2>2 DEF Notify, At
    <3>2. /\ pc[t] = "notifying" /\ available' = available
          /\ pc'[t] = "idle" /\ pc'[w] = "notified" /\ w # t
          /\ \A s \in Threads : s # t /\ s # w => pc'[s] = pc[s]
      BY <1>12, <3>1 DEF Notify, TypeOK
    <3>3. t \in Awake /\ w \notin Awake \ {t} /\ Awake' = (Awake \ {t}) \cup {w}
      BY <3>1, <3>2 DEF Awake, At
    <3>4. /\ IsFiniteSet(Awake \ {t})
          /\ Cardinality(Awake \ {t}) = Cardinality(Awake) - 1
      BY <1>2, <3>3, FS_RemoveElement
    <3>5. Cardinality(Awake') = Cardinality(Awake \ {t}) + 1
      BY <3>3, <3>4, FS_AddElement
    <3>6. QED
      BY <1>2, <1>3, <1>4, <2>2, <3>2, <3>4, <3>5
  <2>3. QED
    BY <2>1, <2>2
<1>13. QED
  BY <1>7, <1>8, <1>9, <1>10, <1>11, <1>12 DEF Next, Proceed

(* As many threads are awake for it as there are connections. *)
THEOREM WakeupsAreNotLost == Spec => []NoLostWakeup
BY WakeupInit, WakeupNext, PoolInvariant, PTL DEF Spec
-----------------------------------------------------------------------------
(* The pool keeps its contract *)

LEMMA ContractStart == Init => Pool!ContractInit
BY DEF Init, Pool!ContractInit, At, Asking

LEMMA ContractStep == PoolInv /\ [Next]_vars => [Pool!ContractNext]_(Pool!contractVars)
<1> SUFFICES ASSUME PoolInv, [Next]_vars
             PROVE  Pool!ContractNext \/ UNCHANGED Pool!contractVars
  OBVIOUS
<1> USE DEF PoolInv
<1>1. ASSUME NEW t \in Threads, NEW from \in Place, NEW to \in Place, Move(t, from, to)
      PROVE  /\ pc[t] = from /\ pc'[t] = to
             /\ \A s \in Threads : s # t => pc'[s] = pc[s]
  BY <1>1 DEF Move, TypeOK
<1>2. CASE UNCHANGED vars
  BY <1>2 DEF vars, Pool!contractVars, At
<1>3. ASSUME NEW t \in Threads, Acquire(t) PROVE Pool!Request(t)
  <2>1. /\ pc[t] = "idle" /\ pc'[t] = "locking"
        /\ \A s \in Threads : s # t => pc'[s] = pc[s]
    BY <1>1, <1>3 DEF Acquire, Place, Asking
  <2>2. t \notin At(Asking) /\ At(Asking)' = At(Asking) \cup {t}
    BY <2>1 DEF At, Asking
  <2>3. guard[t] = None
    BY <2>1 DEF Placed
  <2>4. QED
    BY <1>3, <2>2, <2>3 DEF Acquire, Pool!Request
<1>4. ASSUME NEW t \in Threads,
             Lock(t) \/ Test(t) \/ Finish(t) \/ LockToReturn(t) \/ SpuriousWakeup(t)
      PROVE  UNCHANGED Pool!contractVars
  <2>1. /\ pc[t] \in Asking <=> pc'[t] \in Asking
        /\ \A s \in Threads : s # t => pc'[s] = pc[s]
        /\ UNCHANGED <<available, guard>>
    BY <1>1, <1>4 DEF Lock, Test, Finish, LockToReturn, SpuriousWakeup, Place, Asking
  <2>2. At(Asking)' = At(Asking)
    BY <2>1 DEF At
  <2>3. QED
    BY <2>1, <2>2 DEF Pool!contractVars
<1>5. ASSUME NEW t \in Threads, Notify(t) PROVE UNCHANGED Pool!contractVars
  <2>1. \A s \in Threads : pc[s] \in Asking <=> pc'[s] \in Asking
    BY <1>5 DEF Notify, At, Asking, TypeOK, Place
  <2>2. At(Asking)' = At(Asking)
    BY <2>1 DEF At
  <2>3. QED
    BY <1>5, <2>2 DEF Notify, Pool!contractVars
<1>6. ASSUME NEW t \in Threads, Take(t) PROVE Pool!Grant(t)
  <2>1. /\ pc[t] = "taking" /\ pc'[t] = "using"
        /\ \A s \in Threads : s # t => pc'[s] = pc[s]
    BY <1>1, <1>6 DEF Take, Place, Asking
  <2> DEFINE n == Len(available)
  <2>2. /\ n \in Nat \ {0} /\ available[n] \in Connections
        /\ available' \in Seq(Connections) /\ Len(available') = n - 1
        /\ \A i \in 1..(n - 1) : available'[i] = available[i]
    BY <1>6, <2>1, Popped DEF TypeOK, Take, PopsSomething
  <2>3. /\ \A e : e \in Range(available) <=> \E i \in 1..n : available[i] = e
        /\ \A e : e \in Range(available') <=> \E i \in 1..Len(available') : available'[i] = e
    BY <2>2, RangeIs DEF TypeOK
  <2>4. /\ n \in 1..n /\ 1..Len(available') = 1..n \ {n}
        /\ \A i \in 1..n \ {n} : available'[i] = available[i]
    BY <2>2
  <2>5. Range(available') = Range(available) \ {available[n]}
    <3>1. ASSUME NEW e, e \in Range(available') PROVE e \in Range(available) \ {available[n]}
      BY <2>3, <2>4, <3>1 DEF Placed
    <3>2. ASSUME NEW e \in Range(available) \ {available[n]} PROVE e \in Range(available')
      BY <2>3, <2>4, <3>2
    <3>3. QED
      BY <3>1, <3>2
  <2>6. available[n] \in Range(available)
    BY <2>3, <2>4
  <2>7. t \in At(Asking) /\ At(Asking)' = At(Asking) \ {t} /\ guard[t] = None
    BY <2>1 DEF At, Asking, Placed
  <2>8. guard' = [guard EXCEPT ![t] = available[n]]
    BY <1>6 DEF Take
  <2> HIDE DEF n
  <2>9. QED
    BY <2>5, <2>6, <2>7, <2>8 DEF Pool!Grant
<1>7. ASSUME NEW t \in Threads, Push(t) PROVE Pool!GiveBack(t)
  <2>1. /\ pc[t] = "pushing" /\ pc'[t] = "notifying"
        /\ \A s \in Threads : s # t => pc'[s] = pc[s]
    BY <1>1, <1>7 DEF Push, Place, Asking
  <2>2. guard[t] # None /\ guard[t] \in Connections
    BY <2>1, PoolAssumption DEF Placed, TypeOK
  <2> DEFINE n == Len(available)
  <2>3. /\ n \in Nat
        /\ available' \in Seq(Connections) /\ Len(available') = n + 1
        /\ \A i \in 1..n : available'[i] = available[i]
        /\ available'[n + 1] = guard[t]
    BY <1>7, <2>2, Pushed DEF TypeOK, Push
  <2>4. /\ \A e : e \in Range(available) <=> \E i \in 1..n : available[i] = e
        /\ \A e : e \in Range(available') <=> \E i \in 1..Len(available') : available'[i] = e
    BY <2>3, RangeIs DEF TypeOK
  <2>5. 1..Len(available') = 1..n \cup {n + 1}
    BY <2>3
  <2>6. Range(available') = Range(available) \cup {guard[t]}
    <3>1. ASSUME NEW e, e \in Range(available') PROVE e \in Range(available) \cup {guard[t]}
      BY <2>3, <2>4, <2>5, <3>1
    <3>2. ASSUME NEW e \in Range(available) \cup {guard[t]} PROVE e \in Range(available')
      BY <2>3, <2>4, <2>5, <3>2
    <3>3. QED
      BY <3>1, <3>2
  <2>7. At(Asking)' = At(Asking)
    BY <2>1 DEF At, Asking
  <2>8. QED
    BY <1>7, <2>2, <2>6, <2>7 DEF Push, Pool!GiveBack
<1>8. QED
  BY <1>2, <1>3, <1>4, <1>5, <1>6, <1>7 DEF Next, Proceed, Pool!ContractNext

(* The monitor implements the contract of PoolContract. *)
THEOREM PoolKeepsContract == Spec => KeepsContract
<1>1. Spec => Pool!Contract
  BY ContractStart, ContractStep, PoolInvariant, PTL DEF Spec, Pool!Contract
<1>2. QED
  BY <1>1 DEF KeepsContract
=============================================================================
