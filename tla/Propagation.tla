----------------------------- MODULE Propagation -----------------------------
(***************************************************************************)
(* PropagationService, one object per server instance: publish_change      *)
(* sends a message to the channel "ffx:flag_updates", and a thread that    *)
(* start_subscriber creates and stop joins invalidates the cache for every *)
(* message it receives.                                                    *)
(*                                                                         *)
(* pc[i] is where i's subscriber thread is:                                *)
(*                                                                         *)
(*   connecting -> subscribing -> testing <-> consuming                    *)
(*                                   |   ^     |      |                    *)
(*                                   |   +- handling, sleeping             *)
(*                                   +-> unsubscribing -> ended            *)
(*                                                                         *)
(* The owner of the object starts the thread and stops it, maybe several   *)
(* times; the publishers are worker threads of any instance.  A connection *)
(* that failed stays unusable, and what Redis had sent on it is lost.      *)
(***************************************************************************)
EXTENDS Naturals, Sequences

CONSTANTS
  Instances,     \* the server processes, with one service each
  Env, Key,      \* environments and flag keys
  MaxPublished,  \* bound: messages published
  MaxStarts,     \* bound: calls of start_subscriber
  MaxFaults      \* bound: failed commands and lost connections

ASSUME PropagationAssumption ==
  MaxPublished \in Nat /\ MaxStarts \in Nat /\ MaxFaults \in Nat

VARIABLES
  pc,         \* pc[i]: the subscriber thread, "none" while it is not joinable
  owner,      \* owner[i]: "ready", or "joining" inside stop
  running,    \* running_
  link,       \* link[i]: the subscriber's connection, "closed", "up" or "broken"
  clients,    \* the clients the constructor could create
  sent,       \* sent[i]: what Redis sent on the thread's connection so far
  taken,      \* taken[i]: how many of these messages consume() returned
  heard,      \* history: heard[i], the names the thread invalidated
  published,  \* number of messages published so far
  starts,     \* number of calls of start_subscriber
  faults      \* number of faults so far

threadVars == <<pc, link, sent, taken, heard>>
vars == <<threadVars, owner, running, clients, published, starts, faults>>

(* A message names the flag that changed; event and version are not read.  *)
Message == [env : Env, key : Key]

Inside == {"connecting", "subscribing", "testing", "consuming", "handling",
           "sleeping", "unsubscribing"}

TypeOK ==
  /\ pc \in [Instances -> Inside \cup {"none", "ended"}]
  /\ owner \in [Instances -> {"ready", "joining"}]
  /\ running \in [Instances -> BOOLEAN]
  /\ link \in [Instances -> {"closed", "up", "broken"}]
  /\ clients \in [Instances -> SUBSET {"publisher_", "subscriber_redis_"}]
  /\ sent \in [Instances -> Seq(Message)]
  /\ taken \in [Instances -> Nat]
  /\ heard \in [Instances -> Seq(Env \X Key)]
  /\ published \in Nat /\ starts \in Nat /\ faults \in Nat

(* The constructor creates the clients in this order and stops at the first *)
(* that throws.                                                            *)
Init ==
  /\ pc = [i \in Instances |-> "none"]
  /\ owner = [i \in Instances |-> "ready"]
  /\ running = [i \in Instances |-> FALSE]
  /\ link = [i \in Instances |-> "closed"]
  /\ clients \in [Instances -> {{}, {"publisher_"}, {"publisher_", "subscriber_redis_"}}]
  /\ sent = [i \in Instances |-> <<>>]
  /\ taken = [i \in Instances |-> 0]
  /\ heard = [i \in Instances |-> <<>>]
  /\ published = 0 /\ starts = 0 /\ faults = 0

Move(i, from, to) == pc[i] = from /\ pc' = [pc EXCEPT ![i] = to]

Fault == faults < MaxFaults /\ faults' = faults + 1
-----------------------------------------------------------------------------
(* Publishers: Redis sends the message to whoever is subscribed just then. *)
Subscribed(i) == link[i] = "up" /\ pc[i] \notin {"connecting", "subscribing"}

PublishChange(i, m) ==
  /\ "publisher_" \in clients[i] /\ published < MaxPublished
  /\ published' = published + 1
  /\ sent' = [j \in Instances |-> IF Subscribed(j) THEN Append(sent[j], m) ELSE sent[j]]
  /\ UNCHANGED <<pc, link, taken, heard, owner, running, clients, starts, faults>>
-----------------------------------------------------------------------------
(* The owner *)

(* start_subscriber, which needs its client; a second call without a stop   *)
(* between would overwrite a joinable thread and is the caller's mistake.  *)
(* The histories begin again with the thread.                              *)
StartSubscriber(i) ==
  /\ owner[i] = "ready" /\ pc[i] = "none" /\ starts < MaxStarts
  /\ "subscriber_redis_" \in clients[i]
  /\ starts' = starts + 1
  /\ running' = [running EXCEPT ![i] = TRUE]
  /\ pc' = [pc EXCEPT ![i] = "connecting"]
  /\ sent' = [sent EXCEPT ![i] = <<>>]
  /\ taken' = [taken EXCEPT ![i] = 0]
  /\ heard' = [heard EXCEPT ![i] = <<>>]
  /\ UNCHANGED <<owner, link, clients, published, faults>>

(* stop, also called by the destructor: first the flag, then the join; of   *)
(* no effect when there is no thread.                                      *)
Stop(i) ==
  /\ owner[i] = "ready" /\ pc[i] # "none"
  /\ running' = [running EXCEPT ![i] = FALSE]
  /\ owner' = [owner EXCEPT ![i] = "joining"]
  /\ UNCHANGED <<threadVars, clients, published, starts, faults>>

(* Wrong on purpose: the thread is detached, not joined. *)
Detach(i) ==
  /\ owner[i] = "joining"
  /\ owner' = [owner EXCEPT ![i] = "ready"]
  /\ UNCHANGED <<threadVars, running, clients, published, starts, faults>>

Join(i) ==
  /\ owner[i] = "joining" /\ pc[i] \in {"ended", "none"}
  /\ pc' = [pc EXCEPT ![i] = "none"]
  /\ owner' = [owner EXCEPT ![i] = "ready"]
  /\ UNCHANGED <<link, sent, taken, heard, running, clients, published, starts, faults>>
-----------------------------------------------------------------------------
(* The subscriber thread *)

(* Wrong on purpose: the thread sets running_ when it gets to run. *)
ConnectAndMark(i) ==
  /\ Move(i, "connecting", "subscribing")
  /\ link' = [link EXCEPT ![i] = "up"]
  /\ running' = [running EXCEPT ![i] = TRUE]
  /\ UNCHANGED <<sent, taken, heard, owner, clients, published, starts, faults>>

(* subscriber_redis_->subscriber() makes a connection of its own.          *)
Connect(i) ==
  /\ Move(i, "connecting", "subscribing")
  /\ link' = [link EXCEPT ![i] = "up"]
  /\ UNCHANGED <<sent, taken, heard, owner, running, clients, published, starts, faults>>

Subscribe(i) ==
  /\ link[i] = "up"
  /\ Move(i, "subscribing", "testing")
  /\ UNCHANGED <<link, sent, taken, heard, owner, running, clients, published, starts, faults>>

(* An exception outside the loop ends the thread; running_ stays as it is.  *)
Abandon(i) ==
  /\ pc[i] = "subscribing" /\ link[i] = "broken"
  /\ pc' = [pc EXCEPT ![i] = "ended"]
  /\ link' = [link EXCEPT ![i] = "closed"]
  /\ UNCHANGED <<sent, taken, heard, owner, running, clients, published, starts, faults>>

ConnectFails(i) ==
  /\ Move(i, "connecting", "ended") /\ Fault
  /\ UNCHANGED <<link, sent, taken, heard, owner, running, clients, published, starts>>

(* while (running_) *)
Test(i) ==
  /\ pc[i] = "testing"
  /\ pc' = [pc EXCEPT ![i] = IF running[i] THEN "consuming" ELSE "unsubscribing"]
  /\ UNCHANGED <<link, sent, taken, heard, owner, running, clients, published, starts, faults>>

(* consume() returns the next message to the callback, a message that came *)
(* before the connection broke included.                                   *)
Consume(i) ==
  /\ taken[i] < Len(sent[i])
  /\ Move(i, "consuming", "handling")
  /\ taken' = [taken EXCEPT ![i] = @ + 1]
  /\ UNCHANGED <<link, sent, heard, owner, running, clients, published, starts, faults>>

(* Wrong on purpose: TimeoutError is not caught inside the loop. *)
TimeoutEnds(i) ==
  /\ link[i] = "up" /\ taken[i] = Len(sent[i])
  /\ Move(i, "consuming", "unsubscribing")
  /\ UNCHANGED <<link, sent, taken, heard, owner, running, clients, published, starts, faults>>

(* Nothing came for 500 ms: TimeoutError. *)
Timeout(i) ==
  /\ link[i] = "up" /\ taken[i] = Len(sent[i])
  /\ Move(i, "consuming", "testing")
  /\ UNCHANGED <<link, sent, taken, heard, owner, running, clients, published, starts, faults>>

(* Any other error of consume(): log, pause, go on with the same object.   *)
ConsumeFails(i) ==
  /\ pc[i] = "consuming" /\ link[i] = "broken" /\ taken[i] = Len(sent[i])
  /\ pc' = [pc EXCEPT ![i] = IF running[i] THEN "sleeping" ELSE "testing"]
  /\ UNCHANGED <<link, sent, taken, heard, owner, running, clients, published, starts, faults>>

Wake(i) ==
  /\ Move(i, "sleeping", "testing")
  /\ UNCHANGED <<link, sent, taken, heard, owner, running, clients, published, starts, faults>>

(* Wrong on purpose: key and environment in FlagService's order. *)
HandleSwapped(i) ==
  LET m == sent[i][taken[i]] IN
  /\ Move(i, "handling", "testing")
  /\ heard' = [heard EXCEPT ![i] = Append(@, <<m.key, m.env>>)]
  /\ UNCHANGED <<link, sent, taken, owner, running, clients, published, starts, faults>>

(* The callback of on_message: cache.invalidate(env, key), whose errors it  *)
(* never sees.                                                             *)
Handle(i) ==
  LET m == sent[i][taken[i]] IN
  /\ Move(i, "handling", "testing")
  /\ heard' = [heard EXCEPT ![i] = Append(@, <<m.env, m.key>>)]
  /\ UNCHANGED <<link, sent, taken, owner, running, clients, published, starts, faults>>

(* Done, or failed on a broken connection: the thread ends either way.     *)
Unsubscribe(i) ==
  /\ Move(i, "unsubscribing", "ended")
  /\ link' = [link EXCEPT ![i] = "closed"]
  /\ UNCHANGED <<sent, taken, heard, owner, running, clients, published, starts, faults>>

(* The connection is lost, with it some of what was under way on it.       *)
LinkBreaks(i) ==
  /\ link[i] = "up" /\ Fault
  /\ link' = [link EXCEPT ![i] = "broken"]
  /\ \E n \in taken[i]..Len(sent[i]) : sent' = [sent EXCEPT ![i] = SubSeq(@, 1, n)]
  /\ UNCHANGED <<pc, taken, heard, owner, running, clients, published, starts>>
-----------------------------------------------------------------------------
ThreadStep(i) ==
  \/ Connect(i) \/ Subscribe(i) \/ Abandon(i) \/ Test(i)
  \/ Consume(i) \/ Timeout(i) \/ ConsumeFails(i) \/ Wake(i)
  \/ Handle(i) \/ Unsubscribe(i)

Next ==
  \E i \in Instances :
    \/ \E m \in Message : PublishChange(i, m)
    \/ StartSubscriber(i) \/ Stop(i) \/ Join(i)
    \/ ThreadStep(i) \/ ConnectFails(i) \/ LinkBreaks(i)

Spec == Init /\ [][Next]_vars

(* Threads run, consume() returns within the socket time-out of 500 ms, the *)
(* pause ends after a second, and join() returns once the thread has ended. *)
(* Nobody is obliged to publish, to start or to stop.                      *)
FairSpec ==
  /\ Spec
  /\ \A i \in Instances : WF_vars(ThreadStep(i)) /\ WF_vars(Join(i))
-----------------------------------------------------------------------------
(* The thread holds a reference to the cache: once stop() has returned the  *)
(* owner may destroy both, so there must be no thread any more.            *)
QuietOnceStopped ==
  \A i \in Instances : owner[i] = "ready" /\ ~running[i] => pc[i] = "none"

(* What a thread invalidates is what was sent to it, in the order of the    *)
(* channel, with no gap and nothing twice, also while connections break and *)
(* the thread is stopped and started again.                                *)
HearsInOrder ==
  \A i \in Instances :
    /\ Len(heard[i]) <= Len(sent[i])
    /\ \A k \in 1..Len(heard[i]) : heard[i][k] = <<sent[i][k].env, sent[i][k].key>>

(* A message sent on a connection that lasts is heard, unless the service   *)
(* is stopped first; time-outs between messages do no harm.                *)
HearsWhatIsSent ==
  \A i \in Instances : \A k \in 1..MaxPublished :
    Len(sent[i]) >= k ~> Len(heard[i]) >= k \/ ~running[i] \/ link[i] = "broken"

(* stop() returns, wherever the thread is when running_ is cleared: before  *)
(* its first step, inside consume(), in its pause or after it has died.    *)
StopReturns ==
  \A i \in Instances : owner[i] = "joining" ~> owner[i] = "ready"

(* How many steps a thread at p is from its end at most, once running_ is   *)
(* cleared.                                                                *)
Distance ==
  [connecting |-> 4, subscribing |-> 3, consuming |-> 4, handling |-> 3, sleeping |-> 3,
   testing |-> 2, unsubscribing |-> 1, ended |-> 0, none |-> 0]

(* While stop() waits, every step brings the thread nearer to its end, and  *)
(* nothing moves it away, whatever arrives, breaks or times out meanwhile:  *)
(* stop() takes one time-out or pause at most.                              *)
StopIsNear ==
  [][\A i \in Instances : owner[i] = "joining" /\ pc'[i] # pc[i] =>
       Distance[pc'[i]] < Distance[pc[i]] \/ owner'[i] = "ready"]_vars

(* README.md, "Redis Pub/Sub propagates flag changes across all service     *)
(* instances": a service whose thread goes on after the loss of its        *)
(* connection, and is not stopped, is subscribed again some time, so that  *)
(* later changes reach it.                                                 *)
SubscribedAgain ==
  \A i \in Instances :
    (running[i] /\ link[i] = "broken"
       /\ pc[i] \in {"testing", "consuming", "handling", "sleeping"})
      ~> Subscribed(i) \/ ~running[i]
=============================================================================
