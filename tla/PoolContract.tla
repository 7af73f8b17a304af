---------------------------- MODULE PoolContract ----------------------------
(***************************************************************************)
(* What ConnectionPool promises its callers: "RAII connection pool for     *)
(* thread-safe PostgreSQL access", an acquire() that "blocks if none       *)
(* available".  A caller that wants a connection is granted a free one,    *)
(* which is its own until the guard gives it back.  Which caller is served *)
(* first is left open, as notify_one and the mutex leave it open.          *)
(***************************************************************************)
CONSTANTS Threads, Connections, None

VARIABLES
  free,    \* connections nobody uses
  held,    \* held[t]: the connection t uses, or None
  wants    \* threads that have called acquire() and not got a connection

contractVars == <<free, held, wants>>

ContractInit ==
  /\ free = Connections
  /\ held = [t \in Threads |-> None]
  /\ wants = {}

Request(t) ==
  /\ t \notin wants /\ held[t] = None
  /\ wants' = wants \cup {t}
  /\ UNCHANGED <<free, held>>

Grant(t) ==
  /\ t \in wants /\ held[t] = None
  /\ \E c \in free : held' = [held EXCEPT ![t] = c] /\ free' = free \ {c}
  /\ wants' = wants \ {t}

GiveBack(t) ==
  /\ held[t] # None
  /\ held' = [held EXCEPT ![t] = None]
  /\ free' = free \cup {held[t]}
  /\ UNCHANGED wants

ContractNext == \E t \in Threads : Request(t) \/ Grant(t) \/ GiveBack(t)

Contract == ContractInit /\ [][ContractNext]_contractVars

(* While a connection is free and somebody wants one, somebody gets one:   *)
(* weak fairness of the grants, with what enables them written out.        *)
Granting == \E t \in Threads : Grant(t)

FairGranting == \/ []<>(free = {} \/ wants = {})
                \/ []<><<Granting>>_contractVars
=============================================================================
