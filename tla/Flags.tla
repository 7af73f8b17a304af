-------------------------------- MODULE Flags --------------------------------
(***************************************************************************)
(* The data every component exchanges: the Flag entity (models/flag.h).    *)
(*                                                                         *)
(* An environment and a flag key are arbitrary strings.  The only thing    *)
(* the system does with their text is to join them with ':' into a Redis   *)
(* key, so a string is represented by the sequence of its ':'-separated    *)
(* segments: "staging" is <<"staging">>, "eu:beta" is <<"eu", "beta">>.    *)
(* Type, default value, rules and description always travel together and   *)
(* nothing here looks into them: they are one value of Body.               *)
(***************************************************************************)
EXTENDS Naturals, Sequences

CONSTANTS
  Env,       \* environments, as sequences of segments
  Key,       \* flag keys, as sequences of segments
  Body,      \* contents of a flag
  NoFlag     \* std::nullopt, JSON null: the absence of a flag

(* A flag is addressed by environment and key. *)
Name == Env \X Key

Flag == [id      : Nat \ {0},       \* uuid of the row, in order of creation
         env     : Env,
         key     : Key,
         body    : Body,
         enabled : BOOLEAN,
         version : Nat \ {0}]

FlagOrNone == Flag \cup {NoFlag}

NameOf(f) == <<f.env, f.key>>

DefaultEnv == <<"production">>

FlagJson == [id : Nat \ {0}, key : Key, environment : Env, body : Body,
             enabled : BOOLEAN, version : Nat \ {0}]

(* Wrong on purpose: the version is left out. *)
ToJsonUnversioned(f) ==
  [id |-> f.id, key |-> f.key, environment |-> f.env, body |-> f.body, enabled |-> f.enabled]

(* to_json: a JSON object with a member for every field. *)
ToJson(f) ==
  [id |-> f.id, key |-> f.key, environment |-> f.env, body |-> f.body,
   enabled |-> f.enabled, version |-> f.version]

(* from_json: a member that is missing leaves the field as the declaration  *)
(* of Flag initialises it.  key is required; objects without id or body do *)
(* not occur here.                                                         *)
FromJson(j) ==
  [id      |-> j.id,
   key     |-> j.key,
   env     |-> IF "environment" \in DOMAIN j THEN j.environment ELSE DefaultEnv,
   body    |-> j.body,
   enabled |-> IF "enabled" \in DOMAIN j THEN j.enabled ELSE TRUE,
   version |-> IF "version" \in DOMAIN j THEN j.version ELSE 1]

ASSUME FlagsAssumption ==
  /\ Env # {} /\ Key # {} /\ Body # {}
  /\ Env \subseteq Seq(STRING) /\ Key \subseteq Seq(STRING)
  /\ NoFlag \notin Flag
=============================================================================
