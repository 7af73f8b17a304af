---------------------------- MODULE MCFlagServer ----------------------------
(* FlagServer on small instances. *)
EXTENDS FlagServer, TLC

CONSTANTS t1, t2, b1, b2

OneProcess == {Threads}
TwoProcesses == {{t} : t \in Threads}

Production == {<<"production">>}
OneKey == {<<"dark_mode">>}
TwoKeys == {<<"dark_mode">>, <<"rate_limit">>}

SeedFlag(i, k) == [id |-> i, env |-> <<"production">>, key |-> <<k>>,
                   body |-> b1, enabled |-> TRUE, version |-> 1]

NoCopies == {}
AllCopies == Name

DarkMode == <<<<"production">>, <<"dark_mode">>>>
RateLimit == <<<<"production">>, <<"rate_limit">>>>

Everything == Operation \X Name

(* With one flag an evaluate_bulk is the second call of an evaluate; what   *)
(* becomes of an update becomes of a toggle.                               *)
MostOnOne == (Operation \ {"evaluate_bulk", "update"}) \X Name

(* One flag is read, toggled and replaced; another one comes, is updated and *)
(* evaluated with it.                                                      *)
OneOfTwo == ({"get", "create", "toggle", "delete"} \X {DarkMode})
            \cup ({"create", "update", "evaluate_bulk"} \X {RateLimit})

SeedOne == {SeedFlag(1, "dark_mode")}

ThreadSymmetry == Permutations(Threads)
=============================================================================
