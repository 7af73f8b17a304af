------------------------------- MODULE MCAuth -------------------------------
(* Auth on small instances. *)
EXTENDS Auth, TLC

CONSTANTS admin, guest, p1, p2

(* An administrator with a password, as an operator has to insert one. *)
Administrator ==
  {[id |-> 1, email |-> admin, role |-> "admin", digest |-> HashPassword(1, p1)]}

(* The administrator of scripts/seed.sql: hashed_password is the SHA-256 of *)
(* the empty string.  Its password is said to be p1, "admin123".            *)
Shipped ==
  {[id |-> 1, email |-> admin, role |-> "admin", digest |-> <<>>]}

(* README.md logs in with "default admin from seed", and seed.sql says of    *)
(* that administrator "Password: admin123": no such login is refused.       *)
DocumentedLoginWorks == LoginWorks(<<admin, p1>>)

SomeRoutes == {"create", "register"}

ThreadSymmetry == Permutations(Threads)
=============================================================================
