-------------------------- MODULE MCFlagEvaluation --------------------------
(* FlagEvaluation on small tables.  The hashes put the users at the edges   *)
(* of roll-outs of 0, 25 and 100 percent.                                   *)
EXTENDS FlagEvaluation

MCValue == {"u_1", "u_2", "u_3", "u_4", "pro", "20", "100", "0"}

MCHash == [v \in MCValue |-> CASE v = "u_1" -> 700  [] v = "u_2" -> 24
                                [] v = "u_3" -> 125 [] v = "u_4" -> 99 [] OTHER -> 50]

MCNumber == [v \in MCValue |-> CASE v = "20" -> 20 [] v = "100" -> 100 [] OTHER -> NotANumber]

MCContains == {<<v, v>> : v \in MCValue} \cup {<<"20", "0">>, <<"100", "0">>}

UserIds == {"u_1", "u_2", "u_3", "u_4"}
Plans == {"pro", "20", "100"}

(* Users with and without an id and a plan. *)
MCContexts ==
  {<<>>} \cup [{"user_id"} -> UserIds] \cup [{"plan"} -> Plans]
  \cup {[user_id |-> u, plan |-> p] : u \in UserIds, p \in Plans}

Rule(attribute, op, values, rollout, value) ==
  [attribute |-> attribute, op |-> op, values |-> values,
   rollout_percentage |-> rollout, value |-> value]

MCRules ==
  {Rule("user_id", "percentage", <<>>, p, "on") : p \in {0, 25, 100}}
  \cup {Rule("user_id", "in", <<"u_1", "u_4">>, 100, "beta")}
  \cup {Rule("plan", op, <<"20">>, 100, op) : op \in {"not_in", "eq", "neq", "gt", "lt"}}
  \cup {Rule("plan", "contains", <<"0">>, 100, "contains")}
  \cup {Rule("plan", "neq", <<>>, 100, "neq")}
=============================================================================
