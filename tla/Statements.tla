----------------------------- MODULE Statements -----------------------------
(***************************************************************************)
(* The statements of FlagRepo reduced to what concurrent transactions see  *)
(* of them: a row is its version, 0 for a row that is not there.  FlagStore *)
(* has the same statements with all the columns.                           *)
(***************************************************************************)
EXTENDS Naturals

CONSTANT MaxVersion   \* largest value of the column version

Op == {"find", "create", "update", "remove"}

(* The statement op on a row of version v: is it refused, does it change    *)
(* the row, and to what version?                                           *)
Refuses(op, v) == \/ op = "create" /\ v # 0
                  \/ op = "update" /\ v = MaxVersion

(* Wrong on purpose: a version that goes on beyond the column's width. *)
ChangesUnbounded(op, v) == \/ op = "create" /\ v = 0
                           \/ op \in {"update", "remove"} /\ v # 0

Changes(op, v) == \/ op = "create" /\ v = 0
                  \/ op = "update" /\ v \in 1..(MaxVersion - 1)
                  \/ op = "remove" /\ v # 0

After(op, v) == IF Changes(op, v) THEN (IF op = "remove" THEN 0 ELSE v + 1) ELSE v

(* What a method returns: the row, std::unexpected with the statement's     *)
(* error, or for a call that broke off one with another error.             *)
Answer == [status : {"ok", "refused"}, row : 0..MaxVersion] \cup {[status |-> "error"]}

Error == [status |-> "error"]

Result(op, v) ==
  [status |-> IF Refuses(op, v) THEN "refused" ELSE "ok", row |-> After(op, v)]

NoCall == [op |-> "none"]
=============================================================================
