------------------------------ MODULE FlagStore ------------------------------
(***************************************************************************)
(* The PostgreSQL tables behind FlagRepo and AuditRepo.  Each repository   *)
(* call runs one SQL statement in a transaction of its own, and row locks  *)
(* serialize the statements that change a row, so a call is one atomic     *)
(* step, or one in doubt: that is what AtomicCalls promises.  How a call   *)
(* can fail, and what its caller does then, is FlagServer's part.          *)
(***************************************************************************)
EXTENDS Flags, FiniteSets

CONSTANTS
  Seed,        \* rows inserted by scripts/seed.sql, which logs nothing
  MaxVersion   \* largest value of the INTEGER column flags.version

ASSUME StoreAssumption ==
  /\ MaxVersion \in Nat \ {0}
  /\ IsFiniteSet(Seed)
  /\ \A f \in Seed : f \in Flag /\ f.version = 1 /\ f.id <= Cardinality(Seed)
  /\ \A f, g \in Seed : f.id = g.id \/ NameOf(f) = NameOf(g) => f = g

VARIABLES
  flags,       \* table flags; idx_flags_key_env makes it a function of the name
  audit_log,   \* table audit_log, as a set of entries
  nextId,      \* the next uuid to be generated
  doubt        \* doubt[n]: a write on n whose client was told of an error while
               \* its COMMIT was under way

storeVars == <<flags, audit_log, nextId, doubt>>

AuditEntry == [flag_id    : Nat \ {0},
               action     : {"create", "update", "delete", "toggle"},
               prev_value : FlagOrNone,
               new_value  : FlagOrNone]

StoreTypeOK ==
  /\ flags \in [Name -> FlagOrNone]
  /\ audit_log \subseteq AuditEntry
  /\ nextId \in Nat \ {0}

StoreInit ==
  /\ flags = [n \in Name |-> IF \E f \in Seed : NameOf(f) = n
                             THEN CHOOSE f \in Seed : NameOf(f) = n
                             ELSE NoFlag]
  /\ audit_log = {}
  /\ nextId = Cardinality(Seed) + 1
-----------------------------------------------------------------------------
(* FlagRepo::find_by_key *)
FindByKey(n) == flags[n]

(* FlagRepo::list: the rows there are under names ns, in one statement. *)
ListRows(ns) == {<<n, flags[n]>> : n \in {m \in ns : flags[m] # NoFlag}}

(* The id of a row that is in the table: what audit_log.flag_id references. *)
IsLive(i) == \E n \in Name : flags[n] # NoFlag /\ flags[n].id = i

(* Wrong on purpose: the column version without its DEFAULT 1. *)
CreateUnversioned(n, body, enabled) ==
  /\ flags[n] = NoFlag
  /\ flags' = [flags EXCEPT ![n] =
                 [id |-> nextId, env |-> n[1], key |-> n[2],
                  body |-> body, enabled |-> enabled, version |-> 0]]
  /\ nextId' = nextId + 1
  /\ UNCHANGED audit_log

(* FlagRepo::create: INSERT, which the unique index refuses for a taken name. *)
Create(n, body, enabled) ==
  /\ flags[n] = NoFlag
  /\ flags' = [flags EXCEPT ![n] =
                 [id |-> nextId, env |-> n[1], key |-> n[2],
                  body |-> body, enabled |-> enabled, version |-> 1]]
  /\ nextId' = nextId + 1
  /\ UNCHANGED audit_log

(* The row exists and version + 1 still fits its column. *)
CanBump(n) == flags[n] # NoFlag /\ flags[n].version < MaxVersion

(* SET ..., version = version + 1 *)
Revised(f, body, enabled) ==
  [id |-> f.id, env |-> f.env, key |-> f.key,
   body |-> body, enabled |-> enabled, version |-> f.version + 1]

(* FlagRepo::update: UPDATE ... SET ..., version = version + 1 *)
Update(n, body, enabled) ==
  /\ CanBump(n)
  /\ flags' = [flags EXCEPT ![n] = Revised(@, body, enabled)]
  /\ UNCHANGED <<audit_log, nextId>>

(* Wrong on purpose: a toggle that does not count as a new version. *)
ToggleUnversioned(n) ==
  /\ CanBump(n)
  /\ flags' = [flags EXCEPT ![n].enabled = ~@]
  /\ UNCHANGED <<audit_log, nextId>>

(* FlagRepo::toggle: UPDATE ... SET enabled = NOT enabled, version = version + 1 *)
Toggle(n) ==
  /\ CanBump(n)
  /\ flags' = [flags EXCEPT ![n] = Revised(@, @.body, ~@.enabled)]
  /\ UNCHANGED <<audit_log, nextId>>

(* FlagRepo::remove: DELETE, and with the row go its audit entries, since   *)
(* audit_log.flag_id is declared ON DELETE CASCADE.                         *)
Remove(n) ==
  /\ flags[n] # NoFlag
  /\ flags' = [flags EXCEPT ![n] = NoFlag]
  /\ audit_log' = {e \in audit_log : e.flag_id # flags[n].id}
  /\ UNCHANGED nextId

(* AuditRepo::log_action: INSERT, which the foreign key refuses when the    *)
(* flag is gone; the caller never looks at the error.                       *)
LogAction(entry) ==
  /\ audit_log' = IF IsLive(entry.flag_id) THEN audit_log \cup {entry}
                                           ELSE audit_log
  /\ UNCHANGED <<flags, nextId, doubt>>
=============================================================================
