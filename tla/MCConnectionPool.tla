-------------------------- MODULE MCConnectionPool --------------------------
(* ConnectionPool on a small instance.  Threads and connections are model   *)
(* values; they are not declared symmetric, as a run checks liveness.       *)
EXTENDS ConnectionPool
=============================================================================
