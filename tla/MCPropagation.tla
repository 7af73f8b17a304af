---------------------------- MODULE MCPropagation ----------------------------
(* Propagation on small instances. *)
EXTENDS Propagation
=============================================================================
