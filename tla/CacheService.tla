---------------------------- MODULE CacheService ----------------------------
(***************************************************************************)
(* CacheService: the JSON of a flag under ffx:flag:<env>:<key> in Redis,   *)
(* written with SETEX so that it expires, removed with DEL.  One Redis     *)
(* serves every instance of the server.                                    *)
(***************************************************************************)
EXTENDS Flags

VARIABLES
  cache,   \* cache[k]: the JSON object stored under Redis key k, or NoFlag
  late     \* SETEX commands whose client timed out before Redis ran them

cacheVars == <<cache, late>>

(* CacheService::cache_key.  Formatting "{}:{}" joins the two strings with  *)
(* the separator of their own segments, which concatenates the sequences.   *)
CacheKey(n) == n[1] \o n[2]

RedisKey == {CacheKey(n) : n \in Name}

CacheTypeOK ==
  /\ cache \in [RedisKey -> FlagJson \cup {NoFlag}]
  /\ late \subseteq Flag

CacheInit ==
  /\ cache = [k \in RedisKey |-> NoFlag]
  /\ late = {}

(* No two names share a Redis key.  It holds when no environment contains   *)
(* a ':', which nothing in the system enforces.                             *)
CacheKeysDistinct == \A m, n \in Name : CacheKey(m) = CacheKey(n) => m = n
-----------------------------------------------------------------------------
(* CacheService::get_flag: the flag the entry describes, NoFlag for a miss.  *)
CacheGet(n) == LET j == cache[CacheKey(n)] IN IF j = NoFlag THEN NoFlag ELSE FromJson(j)

(* Redis runs the SETEX of CacheService::set_flag. *)
SetFlag(f) == cache' = [cache EXCEPT ![CacheKey(NameOf(f))] = ToJson(f)]

(* Redis runs the DEL of CacheService::invalidate. *)
Invalidate(n) == cache' = [cache EXCEPT ![CacheKey(n)] = NoFlag]

(* Wrong on purpose: SET in place of SETEX, which never expires. *)
ExpireNever(k) == cache[k] # NoFlag /\ UNCHANGED cacheVars

(* An entry's time to live (ttl_seconds_) runs out. *)
Expire(k) ==
  /\ cache[k] # NoFlag
  /\ cache' = [cache EXCEPT ![k] = NoFlag]
  /\ UNCHANGED late
=============================================================================
