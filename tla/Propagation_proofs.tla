-------------------------- MODULE Propagation_proofs --------------------------
(***************************************************************************)
(* Proofs about Propagation, for any number of service instances, names    *)
(* and messages, and with connections that break at any time: what a       *)
(* thread invalidates, and that none is left once stop() has returned.     *)
(***************************************************************************)
EXTENDS Propagation, SequenceTheorems, TLAPS

(* The thread invalidated every message it took, except one it is handling. *)
Counted ==
  \A i \in Instances :
    /\ taken[i] <= Len(sent[i])
    /\ taken[i] = IF pc[i] = "handling" THEN Len(heard[i]) + 1 ELSE Len(heard[i])

PropInv == TypeOK /\ QuietOnceStopped /\ HearsInOrder /\ Counted

LEMMA PropInvInit == Init => PropInv
<1> SUFFICES ASSUME Init PROVE PropInv
  OBVIOUS
<1>1. <<>> \in Seq(Message) /\ <<>> \in Seq(Env \X Key) /\ Len(<<>>) = 0
  OBVIOUS
<1>2. TypeOK
  BY <1>1 DEF Init, TypeOK
<1>3. QuietOnceStopped /\ HearsInOrder /\ Counted
  BY <1>1 DEF Init, QuietOnceStopped, HearsInOrder, Counted
<1>4. QED
  BY <1>2, <1>3 DEF PropInv

(* A step of i's thread that neither takes a message nor handles one.      *)
Elsewhere(i) ==
  /\ pc[i] \in Inside \ {"handling"}
  /\ \E to \in (Inside \cup {"ended"}) \ {"handling"} : pc' = [pc EXCEPT ![i] = to]
  /\ \E l \in {"closed", "up", "broken"} : link' \in {link, [link EXCEPT ![i] = l]}
  /\ faults' \in {faults, faults + 1}
  /\ UNCHANGED <<sent, taken, heard, owner, running, clients, published, starts>>

LEMMA Elsewheres ==
  ASSUME NEW i \in Instances,
         \/ Connect(i) \/ Subscribe(i) \/ Abandon(i) \/ ConnectFails(i) \/ Test(i)
         \/ Timeout(i) \/ ConsumeFails(i) \/ Wake(i) \/ Unsubscribe(i)
  PROVE  Elsewhere(i)
BY DEF Connect, Subscribe, Abandon, ConnectFails, Test, Timeout, ConsumeFails, Wake,
       Unsubscribe, Move, Fault, Inside, Elsewhere

LEMMA PropInvNext == PropInv /\ [Next]_vars => PropInv'
<1> SUFFICES ASSUME PropInv, [Next]_vars PROVE PropInv'
  OBVIOUS
<1> USE DEF PropInv
<1>0. \A j \in Instances : /\ sent[j] \in Seq(Message) /\ Len(sent[j]) \in Nat
                           /\ heard[j] \in Seq(Env \X Key) /\ Len(heard[j]) \in Nat
                           /\ taken[j] \in Nat
  BY DEF TypeOK
<1>1. CASE UNCHANGED vars
  BY <1>1 DEF vars, threadVars, TypeOK, QuietOnceStopped, HearsInOrder, Counted
<1>2. ASSUME NEW i \in Instances, NEW m \in Message, PublishChange(i, m) PROVE PropInv'
  <2>1. \A j \in Instances :
          /\ sent'[j] \in Seq(Message) /\ Len(sent'[j]) \in Nat
          /\ Len(sent[j]) <= Len(sent'[j])
          /\ \A k \in 1..Len(sent[j]) : sent'[j][k] = sent[j][k]
    <3>1. \A j \in Instances : sent'[j] = sent[j] \/ sent'[j] = Append(sent[j], m)
      BY <1>2 DEF PublishChange
    <3>2. ASSUME NEW s \in Seq(Message)
          PROVE  /\ Append(s, m) \in Seq(Message) /\ Len(s) \in Nat
                 /\ Len(Append(s, m)) = Len(s) + 1
                 /\ \A k \in 1..Len(s) : Append(s, m)[k] = s[k]
      BY AppendProperties, LenProperties
    <3> SUFFICES ASSUME NEW j \in Instances
                 PROVE  /\ sent'[j] \in Seq(Message) /\ Len(sent'[j]) \in Nat
                        /\ Len(sent[j]) <= Len(sent'[j])
                        /\ \A k \in 1..Len(sent[j]) : sent'[j][k] = sent[j][k]
      OBVIOUS
    <3>3. CASE sent'[j] = sent[j]
      BY <1>0, <3>3
    <3>4. CASE sent'[j] = Append(sent[j], m)
      BY <1>0, <3>2, <3>4
    <3>5. QED
      BY <3>1, <3>3, <3>4
  <2>2. UNCHANGED <<pc, link, taken, heard, owner, running, clients, starts, faults>>
        /\ published' \in Nat /\ DOMAIN sent' = Instances
    BY <1>2 DEF PublishChange, TypeOK
  <2>3. sent' \in [Instances -> Seq(Message)]
    BY <1>2, <2>1 DEF PublishChange
  <2>4. TypeOK'
    BY <2>2, <2>3 DEF TypeOK
  <2>5. \A j \in Instances : \A k \in 1..Len(heard[j]) : k \in 1..Len(sent[j])
    BY <1>0 DEF HearsInOrder
  <2>6. \A j \in Instances : Len(heard[j]) <= Len(sent'[j]) /\ taken[j] <= Len(sent'[j])
    BY <1>0, <2>1 DEF HearsInOrder, Counted
  <2>7. \A j \in Instances : \A k \in 1..Len(heard[j]) : sent'[j][k] = sent[j][k]
    BY <2>1, <2>5
  <2>8. HearsInOrder'
    BY <2>2, <2>6, <2>7 DEF HearsInOrder
  <2>9. Counted' /\ QuietOnceStopped'
    BY <2>2, <2>6 DEF Counted, QuietOnceStopped
  <2>10. QED
    BY <2>4, <2>8, <2>9
<1>3. ASSUME NEW i \in Instances, StartSubscriber(i) PROVE PropInv'
  <2>1. <<>> \in Seq(Message) /\ <<>> \in Seq(Env \X Key) /\ Len(<<>>) = 0
    OBVIOUS
  <2>2. TypeOK'
    BY <1>3, <2>1 DEF StartSubscriber, TypeOK, Inside
  <2>3. HearsInOrder' /\ Counted' /\ QuietOnceStopped'
    BY <1>0, <1>3, <2>1 DEF StartSubscriber, TypeOK, HearsInOrder, Counted, QuietOnceStopped
  <2>4. QED
    BY <2>2, <2>3
<1>4. ASSUME NEW i \in Instances, Stop(i) PROVE PropInv'
  BY <1>4 DEF Stop, threadVars, TypeOK, HearsInOrder, Counted, QuietOnceStopped
<1>5. ASSUME NEW i \in Instances, Join(i) PROVE PropInv'
  BY <1>5 DEF Join, TypeOK, HearsInOrder, Counted, QuietOnceStopped
<1>6. ASSUME NEW i \in Instances, Elsewhere(i) PROVE PropInv'
  <2>1. PICK to \in (Inside \cup {"ended"}) \ {"handling"} : pc' = [pc EXCEPT ![i] = to]
    BY <1>6 DEF Elsewhere
  <2>2. /\ pc[i] \in Inside \ {"handling"} /\ pc[i] # "none"
        /\ UNCHANGED <<sent, taken, heard, owner, running, clients, published, starts>>
    BY <1>6 DEF Elsewhere, Inside
  <2>3. link' \in [Instances -> {"closed", "up", "broken"}] /\ faults' \in Nat
    <3>1. PICK l \in {"closed", "up", "broken"} : link' \in {link, [link EXCEPT ![i] = l]}
      BY <1>6 DEF Elsewhere
    <3>2. link' \in [Instances -> {"closed", "up", "broken"}]
      BY <3>1 DEF TypeOK
    <3>3. faults' \in Nat
      BY <1>6 DEF Elsewhere, TypeOK
    <3>4. QED
      BY <3>2, <3>3
  <2>4. TypeOK'
    <3>1. to \in Inside \cup {"none", "ended"}
      BY <2>1
    <3>2. pc' \in [Instances -> Inside \cup {"none", "ended"}]
      BY <2>1, <3>1 DEF TypeOK
    <3>3. QED
      BY <2>2, <2>3, <3>2 DEF TypeOK
  <2>5. HearsInOrder' /\ QuietOnceStopped'
    BY <2>1, <2>2 DEF TypeOK, HearsInOrder, QuietOnceStopped
  <2>6. Counted'
    BY <2>1, <2>2 DEF TypeOK, Counted
  <2>7. QED
    BY <2>4, <2>5, <2>6
<1>7. ASSUME NEW i \in Instances, Consume(i) PROVE PropInv'
  <2>1. pc[i] = "consuming" /\ pc' = [pc EXCEPT ![i] = "handling"]
        /\ taken[i] < Len(sent[i])
        /\ taken' = [taken EXCEPT ![i] = taken[i] + 1]
        /\ UNCHANGED <<link, sent, heard, owner, running, clients, published, starts, faults>>
    BY <1>7 DEF Consume, Move
  <2>2. TypeOK'
    BY <1>0, <2>1 DEF TypeOK, Inside
  <2>3. HearsInOrder' /\ QuietOnceStopped'
    BY <2>1 DEF TypeOK, HearsInOrder, QuietOnceStopped
  <2>4. Counted'
    BY <1>0, <2>1 DEF TypeOK, Counted
  <2>5. QED
    BY <2>2, <2>3, <2>4
<1>8. ASSUME NEW i \in Instances, Handle(i) PROVE PropInv'
  <2> DEFINE m == sent[i][taken[i]]
             h == Append(heard[i], <<m.env, m.key>>)
             n == Len(heard[i])
  <2>1. /\ pc[i] = "handling" /\ pc' = [pc EXCEPT ![i] = "testing"]
        /\ heard' = [heard EXCEPT ![i] = h]
        /\ UNCHANGED <<link, sent, taken, owner, running, clients, published, starts, faults>>
    BY <1>8 DEF Handle, Move
  <2>2. taken[i] = n + 1 /\ n + 1 \in 1..Len(sent[i])
    BY <1>0, <2>1 DEF Counted
  <2>3. m \in Message
    BY <1>0, <2>2, ElementOfSeq
  <2>4. <<m.env, m.key>> \in Env \X Key
    BY <2>3 DEF Message
  <2>5. /\ h \in Seq(Env \X Key) /\ Len(h) = n + 1
        /\ \A k \in 1..n : h[k] = heard[i][k]
        /\ h[n + 1] = <<m.env, m.key>>
    BY <1>0, <2>4, AppendProperties
  <2>6. \A k \in 1..(n + 1) : h[k] = <<sent[i][k].env, sent[i][k].key>>
    <3>1. \A k \in 1..(n + 1) : k \in 1..n \/ k = n + 1
      BY <1>0
    <3>2. QED
      BY <2>2, <2>5, <3>1 DEF HearsInOrder
  <2> HIDE DEF m, h
  <2>7. TypeOK'
    BY <2>1, <2>5 DEF TypeOK, Inside
  <2>8. HearsInOrder'
    BY <1>0, <2>1, <2>2, <2>5, <2>6 DEF TypeOK, HearsInOrder
  <2>9. Counted' /\ QuietOnceStopped'
    BY <1>0, <2>1, <2>2, <2>5 DEF TypeOK, Counted, QuietOnceStopped
  <2>10. QED
    BY <2>7, <2>8, <2>9
<1>9. ASSUME NEW i \in Instances, LinkBreaks(i) PROVE PropInv'
  <2>1. PICK n \in taken[i]..Len(sent[i]) : sent' = [sent EXCEPT ![i] = SubSeq(sent[i], 1, n)]
    BY <1>9 DEF LinkBreaks
  <2>2. n \in Nat /\ n <= Len(sent[i]) /\ taken[i] <= n
    BY <1>0, <2>1
  <2>3. \A k \in 1..n : sent[i][k] \in Message
    BY <1>0, <2>2, ElementOfSeq
  <2>4. /\ SubSeq(sent[i], 1, n) \in Seq(Message)
        /\ Len(SubSeq(sent[i], 1, n)) = n
        /\ \A k \in 1..n : SubSeq(sent[i], 1, n)[k] = sent[i][k]
    BY <1>0, <2>2, <2>3
  <2>5. TypeOK'
    BY <1>9, <2>1, <2>4 DEF LinkBreaks, Fault, TypeOK
  <2>6. Len(heard[i]) <= n
    BY <1>0, <2>2 DEF Counted
  <2>7. HearsInOrder'
    <3>1. /\ heard' = heard /\ sent'[i] = SubSeq(sent[i], 1, n)
          /\ \A j \in Instances : j # i => sent'[j] = sent[j]
      BY <1>9, <2>1 DEF LinkBreaks, TypeOK
    <3>2. \A k \in 1..Len(heard[i]) : k \in 1..n
      BY <1>0, <2>2, <2>6
    <3>3. /\ Len(heard[i]) <= Len(sent'[i])
          /\ \A k \in 1..Len(heard[i]) : sent'[i][k] = sent[i][k]
      BY <2>4, <2>6, <3>1, <3>2
    <3>4. \A j \in Instances :
            /\ Len(heard[j]) <= Len(sent'[j])
            /\ \A k \in 1..Len(heard[j]) : sent'[j][k] = sent[j][k]
      BY <3>1, <3>3 DEF HearsInOrder
    <3>5. QED
      BY <3>1, <3>4 DEF HearsInOrder
  <2>8. Counted' /\ QuietOnceStopped'
    BY <1>0, <1>9, <2>1, <2>2, <2>4 DEF LinkBreaks, TypeOK, Counted, QuietOnceStopped
  <2>9. QED
    BY <2>5, <2>7, <2>8
<1>10. QED
  BY <1>1, <1>2, <1>3, <1>4, <1>5, <1>6, <1>7, <1>8, <1>9, Elsewheres DEF Next, ThreadStep

THEOREM PropInvariant == Spec => []PropInv
BY PropInvInit, PropInvNext, PTL DEF Spec

(* The service's variables keep their types. *)
THEOREM PropagationTypeCorrect == Spec => []TypeOK
<1>1. PropInv => TypeOK
  BY DEF PropInv
<1>2. QED
  BY <1>1, PropInvariant, PTL

(* Once stop() has returned no thread uses the cache, wherever the thread   *)
(* was and whatever happened to its connection.                             *)
THEOREM NoThreadOutlivesStop == Spec => []QuietOnceStopped
<1>1. PropInv => QuietOnceStopped
  BY DEF PropInv
<1>2. QED
  BY <1>1, PropInvariant, PTL

(* A thread invalidates what Redis sent it, in that order and without gaps. *)
THEOREM MessagesAreHeardInOrder == Spec => []HearsInOrder
<1>1. PropInv => HearsInOrder
  BY DEF PropInv
<1>2. QED
  BY <1>1, PropInvariant, PTL

(* While stop() waits, the thread is told to end: nothing sets running_ again. *)
Halted == \A i \in Instances : owner[i] = "joining" => ~running[i]

LEMMA HaltedNext == PropInv /\ Halted /\ [Next]_vars => Halted'
<1> SUFFICES ASSUME PropInv, Halted, [Next]_vars PROVE Halted'
  OBVIOUS
<1>1. /\ owner \in [Instances -> {"ready", "joining"}]
      /\ running \in [Instances -> BOOLEAN]
  BY DEF PropInv, TypeOK
<1>2. CASE UNCHANGED <<owner, running>>
  BY <1>2 DEF Halted
<1>3. ASSUME NEW i \in Instances, StartSubscriber(i) PROVE Halted'
  BY <1>1, <1>3 DEF StartSubscriber, Halted
<1>4. ASSUME NEW i \in Instances, Stop(i) PROVE Halted'
  BY <1>1, <1>4 DEF Stop, Halted
<1>5. ASSUME NEW i \in Instances, Join(i) PROVE Halted'
  BY <1>1, <1>5 DEF Join, Halted
<1>6. ASSUME NEW i \in Instances, ThreadStep(i) \/ ConnectFails(i) PROVE UNCHANGED <<owner, running>>
  BY <1>6, Elsewheres DEF ThreadStep, Elsewhere, Consume, Handle
<1>7. QED
  BY <1>2, <1>3, <1>4, <1>5, <1>6 DEF Next, PublishChange, LinkBreaks, vars

(* The ranks, as facts the provers can compute with.                       *)
LEMMA Distances ==
  /\ Distance["connecting"] = 4 /\ Distance["consuming"] = 4
  /\ Distance["subscribing"] = 3 /\ Distance["handling"] = 3 /\ Distance["sleeping"] = 3
  /\ Distance["testing"] = 2 /\ Distance["unsubscribing"] = 1 /\ Distance["ended"] = 0
BY DEF Distance

(* A step of a thread that is told to end brings it nearer to its end.     *)
LEMMA ThreadComesNearer ==
  ASSUME NEW i \in Instances, pc \in [Instances -> Inside \cup {"none", "ended"}],
         ~running[i], ThreadStep(i) \/ ConnectFails(i)
  PROVE  Distance[pc'[i]] < Distance[pc[i]]
<1>1. CASE Connect(i)
  BY <1>1, Distances DEF Connect, Move
<1>2. CASE Subscribe(i)
  BY <1>2, Distances DEF Subscribe, Move
<1>3. CASE Abandon(i)
  BY <1>3, Distances DEF Abandon
<1>4. CASE Test(i)
  BY <1>4, Distances DEF Test
<1>5. CASE Consume(i)
  BY <1>5, Distances DEF Consume, Move
<1>6. CASE Timeout(i)
  BY <1>6, Distances DEF Timeout, Move
<1>7. CASE ConsumeFails(i)
  BY <1>7, Distances DEF ConsumeFails
<1>8. CASE Wake(i)
  BY <1>8, Distances DEF Wake, Move
<1>9. CASE Handle(i)
  BY <1>9, Distances DEF Handle, Move
<1>10. CASE Unsubscribe(i)
  BY <1>10, Distances DEF Unsubscribe, Move
<1>11. CASE ConnectFails(i)
  BY <1>11, Distances DEF ConnectFails, Move
<1>12. QED
  BY <1>1, <1>2, <1>3, <1>4, <1>5, <1>6, <1>7, <1>8, <1>9, <1>10, <1>11 DEF ThreadStep

(* Once stop() has cleared running_, every step of the thread brings it     *)
(* nearer to its end and no other step moves it: stop() waits for four      *)
(* steps at most, of which one may be a time-out or a pause.  What is left  *)
(* to TLC (StopReturns) is that a thread that can take a step does.         *)
THEOREM StoppingComesNearer == Spec => StopIsNear
<1> DEFINE Nearer == \A i \in Instances : owner[i] = "joining" /\ pc'[i] # pc[i] =>
                       Distance[pc'[i]] < Distance[pc[i]] \/ owner'[i] = "ready"
<1>1. Init => Halted
  BY DEF Init, Halted
<1>2. ASSUME PropInv, Halted, [Next]_vars PROVE [Nearer]_vars
  <2> SUFFICES ASSUME NEW i \in Instances, owner[i] = "joining", pc'[i] # pc[i]
               PROVE  Distance[pc'[i]] < Distance[pc[i]] \/ owner'[i] = "ready"
    OBVIOUS
  <2>1. ~running[i]
    BY <1>2 DEF Halted
  <2>2. /\ pc \in [Instances -> Inside \cup {"none", "ended"}]
        /\ owner \in [Instances -> {"ready", "joining"}]
    BY <1>2 DEF PropInv, TypeOK
  <2>3. PICK j \in Instances : \/ StartSubscriber(j) \/ Stop(j) \/ Join(j)
                              \/ ThreadStep(j) \/ ConnectFails(j)
    BY <1>2 DEF Next, PublishChange, LinkBreaks, vars, threadVars
  <2>4. CASE StartSubscriber(j)
    BY <2>2, <2>4 DEF StartSubscriber
  <2>5. CASE Stop(j)
    BY <2>5 DEF Stop, threadVars
  <2>6. CASE Join(j)
    BY <2>2, <2>6 DEF Join
  <2>7. CASE ThreadStep(j) \/ ConnectFails(j)
    <3>1. \A k \in Instances : k # j => pc'[k] = pc[k]
      BY <2>2, <2>7, Elsewheres DEF ThreadStep, Elsewhere, Consume, Handle, Move
    <3>2. QED
      BY <2>1, <2>2, <2>7, <3>1, ThreadComesNearer
  <2>8. QED
    BY <2>3, <2>4, <2>5, <2>6, <2>7
<1>3. QED
  BY <1>1, <1>2, HaltedNext, PropInvariant, PTL DEF Spec, StopIsNear
=============================================================================
