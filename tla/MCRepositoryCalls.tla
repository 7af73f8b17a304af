-------------------------- MODULE MCRepositoryCalls --------------------------
(* RepositoryCalls on small instances. *)
EXTENDS RepositoryCalls
=============================================================================
