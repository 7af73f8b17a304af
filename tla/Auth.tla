-------------------------------- MODULE Auth --------------------------------
(***************************************************************************)
(* AuthService, AuthController and the filters before the other routes:    *)
(* who gets to which handler.                                              *)
(*                                                                         *)
(*   login     find -> issue     a JWT, from the user's row                *)
(*   register  insert            behind JwtFilter and AdminFilter          *)
(*   evaluate  key -> handle     behind ApiKeyFilter, which reads the row  *)
(*   others    handle            behind JwtFilter and a filter on the role *)
(*                                                                         *)
(* pc[t] is the next step of thread t; the filters on a token look at      *)
(* nothing but the token and the clock and are one step with the arrival   *)
(* of the request.  "handle" is where a handler of FlagController or       *)
(* AdminController takes over.                                             *)
(*                                                                         *)
(* A row's uuid, salt and API key are drawn at random when it is inserted  *)
(* and never meet again: the row's number stands for all three.            *)
(***************************************************************************)
EXTENDS Naturals, FiniteSets

CONSTANTS
  Threads,
  Email,
  Password,
  NoUser,
  SeedUsers,    \* the users scripts/seed.sql inserts
  Routes,       \* the routes with a token that clients use
  Expiry,       \* jwt_expiry_seconds_
  MaxTime,      \* bound: of the clock
  MaxFaults     \* bound: failed database calls

Role == {"viewer", "editor", "admin"}

(* UserRole *)
Rank == [viewer |-> 0, editor |-> 1, admin |-> 2]

(* Wrong on purpose: the roles compared the other way round. *)
PermissionReversed(actual, required) == Rank[actual] <= Rank[required]

RoleHasPermission(actual, required) == Rank[actual] >= Rank[required]

(* The role each route's filters ask for; JwtFilter alone lets anyone in.  *)
RouteRole ==
  [list |-> "viewer", get |-> "viewer", create |-> "editor", update |-> "editor",
   toggle |-> "editor", delete |-> "admin", audit |-> "admin", register |-> "admin"]

(* SHA-256 of salt and password in sequence, told apart by what was hashed; *)
(* <<>> is the hash of the empty string.                                    *)
HashPassword(salt, password) == <<salt, password>>
Digest == {<<>>} \cup (Nat \X Password)

User == [id : Nat \ {0}, email : Email, role : Role, digest : Digest]

(* The claims of a JWT that anything depends on. *)
Token == [sub : Nat, role : Role, exp : Nat]

ASSUME AuthAssumption ==
  /\ NoUser \notin User
  /\ SeedUsers \subseteq User /\ IsFiniteSet(SeedUsers)
  /\ \A u \in SeedUsers : u.id <= Cardinality(SeedUsers)
  /\ \A u, v \in SeedUsers : u.id = v.id \/ u.email = v.email => u = v
  /\ Routes \subseteq DOMAIN RouteRole
  /\ Email # {} /\ Password # {}
  /\ {Expiry, MaxTime, MaxFaults} \subseteq Nat

VARIABLES
  users,     \* table users; UNIQUE makes it a function of the email
  nextId,    \* the number of the next row
  doubt,     \* doubt[e]: a row for email e whose client was told of an error
             \* while its COMMIT was under way
  now,       \* the clock, in seconds
  tokens,    \* the tokens clients have received
  pc,
  req,       \* req[t]: the request t serves
  actor,     \* actor[t]: user_id and user_role among the request's attributes
  response,  \* the response sent by the last step, if it sent one
  faults,
  known,     \* history: emails and passwords of acknowledged registrations
  logins     \* history: users and times of the logins that were granted

dbVars == <<users, nextId, doubt>>
threadVars == <<pc, req, actor>>
historyVars == <<known, logins>>
vars == <<dbVars, now, tokens, threadVars, response, faults, historyVars>>

Account == Email \X Password

Request == [route    : DOMAIN RouteRole \cup {"login", "evaluate"},
            account  : Account,           \* JSON body of login and register
            role     : Role,              \* and of register
            key      : Nat,               \* header X-API-Key
            known    : SUBSET Account]    \* history: known as a login came

Actor == [id : Nat, role : Role, at : Nat]   \* at: history, when a token let it in

Blank(route) ==
  [route |-> route, account |-> CHOOSE a \in Account : TRUE, role |-> "viewer",
   key |-> 0, known |-> {}]

NoRequest == Blank("list")
Nobody == [id |-> 0, role |-> "viewer", at |-> 0]

Response == [req : Request,
             status : {"none", "ok", "unauthorized", "forbidden", "conflict", "error"}]
NoResponse == [req |-> NoRequest, status |-> "none"]

TypeOK ==
  /\ users \in [Email -> User \cup {NoUser}]
  /\ nextId \in Nat \ {0}
  /\ doubt \in [Email -> User \cup {NoUser}]
  /\ now \in Nat
  /\ tokens \subseteq Token
  /\ pc \in [Threads -> {"idle", "find", "issue", "insert", "key", "handle"}]
  /\ req \in [Threads -> Request]
  /\ actor \in [Threads -> Actor]
  /\ response \in Response
  /\ faults \in Nat
  /\ known \subseteq Account
  /\ logins \subseteq (Nat \X Nat)

Init ==
  /\ users = [e \in Email |-> IF \E u \in SeedUsers : u.email = e
                              THEN CHOOSE u \in SeedUsers : u.email = e
                              ELSE NoUser]
  /\ nextId = Cardinality(SeedUsers) + 1
  /\ doubt = [e \in Email |-> NoUser]
  /\ now = 0
  /\ tokens = {}
  /\ pc = [t \in Threads |-> "idle"]
  /\ known = {}
  /\ req = [t \in Threads |-> NoRequest]
  /\ actor = [t \in Threads |-> Nobody]
  /\ response = NoResponse
  /\ faults = 0
  /\ logins = {}
-----------------------------------------------------------------------------
Goto(t, p) == pc' = [pc EXCEPT ![t] = p] /\ response' = NoResponse

Start(t, r, p) ==
  /\ pc[t] = "idle" /\ Goto(t, p)
  /\ req' = [req EXCEPT ![t] = r]
  /\ UNCHANGED <<dbVars, now, tokens, faults, historyVars>>

Respond(t, status) ==
  /\ pc' = [pc EXCEPT ![t] = "idle"]
  /\ req' = [req EXCEPT ![t] = NoRequest]
  /\ actor' = [actor EXCEPT ![t] = Nobody]
  /\ response' = [req |-> req[t], status |-> status]

Fault == faults < MaxFaults /\ faults' = faults + 1
-----------------------------------------------------------------------------
(* Arrivals *)
BeginLogin(t) ==
  /\ \E a \in Account :
       Start(t, [Blank("login") EXCEPT !.account = a, !.known = known], "find")
  /\ UNCHANGED actor

BeginEvaluate(t) ==
  /\ \E i \in 1..nextId : Start(t, [Blank("evaluate") EXCEPT !.key = i], "key")
  /\ UNCHANGED actor

(* Wrong on purpose: the token decoded but its dates not verified. *)
ValidateDecoded(k) == TRUE

(* AuthService::validate_token: a token the server signed, not expired. *)
ValidateToken(k) == now <= k.exp

(* JwtFilter, then EditorFilter or AdminFilter where the route has it. *)
Admit(t, k, r) ==
  /\ ValidateToken(k) /\ RoleHasPermission(k.role, RouteRole[r.route])
  /\ actor' = [actor EXCEPT ![t] = [id |-> k.sub, role |-> k.role, at |-> now]]
  /\ Start(t, r, IF r.route = "register" THEN "insert" ELSE "handle")

(* A filter's answer, which comes before anyone looks at the body. *)
Refusal(r, status) == [req |-> Blank(r.route), status |-> status]

Refuse(t, k, r) ==
  /\ pc[t] = "idle"
  /\ \/ ~ValidateToken(k) /\ response' = Refusal(r, "unauthorized")
     \/ /\ ValidateToken(k) /\ ~RoleHasPermission(k.role, RouteRole[r.route])
        /\ response' = Refusal(r, "forbidden")
  /\ UNCHANGED <<dbVars, now, tokens, threadVars, faults, historyVars>>

Arrive(t, r) == \E k \in tokens : Admit(t, k, r) \/ Refuse(t, k, r)

BeginWithToken(t) ==
  \/ \E route \in Routes \ {"register"} : Arrive(t, Blank(route))
  \/ /\ "register" \in Routes
     /\ \E a \in Account, role \in Role :
          Arrive(t, [Blank("register") EXCEPT !.account = a, !.role = role])
-----------------------------------------------------------------------------
(* AuthService::login.  Unknown email and wrong password get one answer,   *)
(* the message "Invalid credentials"; "error" is the message "Database     *)
(* error", although AuthController sends both with status 401.             *)
MayLogin(account) ==
  LET u == users[account[1]] IN
  u # NoUser /\ u.digest = HashPassword(u.id, account[2])

(* Attributes of a request, or claims to be, taken from a row. *)
ActorOf(u) == [id |-> u.id, role |-> u.role, at |-> 0]

FindByEmail(t) ==
  /\ pc[t] = "find"
  /\ IF MayLogin(req[t].account)
     THEN /\ actor' = [actor EXCEPT ![t] = ActorOf(users[req[t].account[1]])]
          /\ Goto(t, "issue") /\ UNCHANGED req
     ELSE Respond(t, "unauthorized")
  /\ UNCHANGED <<dbVars, now, tokens, faults, historyVars>>

Issue(t) ==
  /\ pc[t] = "issue"
  /\ tokens' = tokens \cup
       {[sub |-> actor[t].id, role |-> actor[t].role, exp |-> now + Expiry]}
  /\ logins' = logins \cup {<<actor[t].id, now>>}
  /\ Respond(t, "ok")
  /\ UNCHANGED <<dbVars, now, faults, known>>

(* AuthService::register_user *)

(* Wrong on purpose: the password stored as it came. *)
NewUserUnhashed(r) == [id |-> nextId, email |-> r.account[1], role |-> r.role,
                       digest |-> r.account[2]]

NewUser(r) == [id |-> nextId, email |-> r.account[1], role |-> r.role,
               digest |-> HashPassword(nextId, r.account[2])]

(* Wrong on purpose: INSERT ... ON CONFLICT (email) DO UPDATE. *)
InsertOrReplace(t) ==
  /\ pc[t] = "insert"
  /\ users' = [users EXCEPT ![req[t].account[1]] = NewUser(req[t])]
  /\ nextId' = nextId + 1
  /\ known' = known \cup {req[t].account}
  /\ Respond(t, "ok")
  /\ UNCHANGED <<doubt, now, tokens, faults, logins>>

(* Wrong on purpose: no unique index, so an INSERT passes one in doubt.     *)
InsertBesideDoubt(t) ==
  /\ pc[t] = "insert" /\ users[req[t].account[1]] = NoUser
  /\ users' = [users EXCEPT ![req[t].account[1]] = NewUser(req[t])]
  /\ nextId' = nextId + 1
  /\ known' = known \cup {req[t].account}
  /\ Respond(t, "ok")
  /\ UNCHANGED <<doubt, now, tokens, faults, logins>>

(* The unique index makes an INSERT wait for one in doubt of the same email. *)
Insert(t) ==
  LET e == req[t].account[1] IN
  /\ pc[t] = "insert" /\ users[e] = NoUser
  /\ users' = [users EXCEPT ![e] = NewUser(req[t])]
  /\ doubt' = [doubt EXCEPT ![e] = NoUser]
  /\ nextId' = nextId + 1
  /\ known' = known \cup {req[t].account}
  /\ Respond(t, "ok")
  /\ UNCHANGED <<now, tokens, faults, logins>>

(* The unique constraint on email. *)
InsertRefused(t) ==
  /\ pc[t] = "insert" /\ users[req[t].account[1]] # NoUser
  /\ Respond(t, "conflict")
  /\ UNCHANGED <<dbVars, now, tokens, faults, historyVars>>

(* The connection breaks while the commit is under way, which succeeds some *)
(* time later, or never.                                                   *)
InsertInDoubt(t) ==
  LET e == req[t].account[1] IN
  /\ pc[t] = "insert" /\ Fault /\ users[e] = NoUser
  /\ doubt' = [doubt EXCEPT ![e] = NewUser(req[t])]
  /\ nextId' = nextId + 1
  /\ Respond(t, "error")
  /\ UNCHANGED <<users, now, tokens, historyVars>>

InsertSettles(e) ==
  /\ doubt[e] # NoUser
  /\ users' = [users EXCEPT ![e] = doubt[e]]
  /\ doubt' = [doubt EXCEPT ![e] = NoUser]
  /\ response' = NoResponse
  /\ UNCHANGED <<nextId, now, tokens, threadVars, faults, historyVars>>

(* AuthService::validate_api_key in ApiKeyFilter *)
ValidateApiKey(t) ==
  LET owners == {e \in Email : users[e] # NoUser /\ users[e].id = req[t].key} IN
  /\ pc[t] = "key"
  /\ \/ /\ \E e \in owners : actor' = [actor EXCEPT ![t] = ActorOf(users[e])]
        /\ Goto(t, "handle") /\ UNCHANGED req
     \/ owners = {} /\ Respond(t, "unauthorized")
  /\ UNCHANGED <<dbVars, now, tokens, faults, historyVars>>

(* The handler, which FlagServer specifies. *)
Handle(t) ==
  /\ pc[t] = "handle" /\ Respond(t, "ok")
  /\ UNCHANGED <<dbVars, now, tokens, faults, historyVars>>

(* A database call that fails before its commit. *)
CallFails(t) ==
  /\ pc[t] \in {"find", "insert", "key"} /\ Fault
  /\ Respond(t, "error")
  /\ UNCHANGED <<dbVars, now, tokens, historyVars>>

Tick ==
  /\ now < MaxTime /\ now' = now + 1
  /\ response' = NoResponse
  /\ UNCHANGED <<dbVars, tokens, threadVars, faults, historyVars>>

Step(t) ==
  \/ BeginLogin(t) \/ BeginEvaluate(t) \/ BeginWithToken(t)
  \/ FindByEmail(t) \/ Issue(t)
  \/ Insert(t) \/ InsertRefused(t) \/ InsertInDoubt(t)
  \/ ValidateApiKey(t) \/ Handle(t) \/ CallFails(t)

Next ==
  \/ Tick
  \/ \E t \in Threads : Step(t)
  \/ \E e \in Email : InsertSettles(e)

Spec == Init /\ [][Next]_vars
-----------------------------------------------------------------------------
(* Threads past the filters, and those that a token let pass. *)
Admitted == {t \in Threads : pc[t] \in {"insert", "handle"}}
ByToken  == {t \in Admitted : req[t].route # "evaluate"}

(* The table "API Reference" of README.md. *)
PermittedRoles(route) ==
  CASE route \in {"delete", "audit", "register"}  -> {"admin"}
    [] route \in {"create", "update", "toggle"}   -> {"editor", "admin"}
    [] OTHER                                      -> Role

Registered(i, role) ==
  \E e \in Email : users[e] # NoUser /\ users[e].id = i /\ users[e].role = role

(* README.md, "Three-tier permission model": whoever is in a handler is a   *)
(* user of the table, and has there, now, a role that the route permits,    *)
(* although a token was issued earlier and the table was not looked at.     *)
ActorsHaveTheRole ==
  \A t \in Admitted : \E role \in PermittedRoles(req[t].route) :
    Registered(actor[t].id, role) /\ actor[t].role = role

(* Nobody is admitted by a token later than Expiry after a login as that    *)
(* user, however long clients keep their tokens.                            *)
SessionsEnd ==
  \A t \in ByToken :
    \E l \in logins : l[1] = actor[t].id /\ actor[t].at \in l[2]..(l[2] + Expiry)

(* Registrations race for an email and calls fail in between: an account    *)
(* that was acknowledged before a login was sent is not refused by it.      *)
KnownAccountsWork ==
  response.status = "unauthorized" /\ response.req.route = "login" =>
    response.req.account \notin response.req.known

(* A login with account a is never refused. *)
LoginWorks(a) ==
  ~(response.status = "unauthorized" /\ response.req.route = "login"
    /\ response.req.account = a)

(* Nobody holds a token or is about to register, as is the case for good in *)
(* a database whose users have no password that hashes to their digest.     *)
NobodyGetsIn == tokens = {} /\ \A t \in Threads : pc[t] # "insert"

(***************************************************************************)
(* Why they hold: an inductive invariant (see Auth_proofs).                *)
(***************************************************************************)

(* A row is never changed, and its number belongs to no other row; nor is  *)
(* one in doubt about to take the place or the number of another one.      *)
RowsInPlace ==
  \A e \in Email : \A u \in {users[e], doubt[e]} \ {NoUser} :
    /\ u.id < nextId
    /\ \A f \in Email : \A v \in {users[f], doubt[f]} \ {NoUser} : v.id = u.id => e = f
    /\ NoUser \in {users[e], doubt[e]}

(* A token names a user and role of the table and dates from a login. *)
TokensGood ==
  \A k \in tokens :
    /\ Registered(k.sub, k.role)
    /\ \E l \in logins : l[1] = k.sub /\ l[2] <= now /\ k.exp = l[2] + Expiry

HandlerOK(t) ==
  /\ pc[t] = "find" => req[t].route = "login"
  /\ pc[t] = "key" => req[t].route = "evaluate"
  /\ pc[t] = "insert" => req[t].route = "register"
  /\ pc[t] = "issue" => Registered(actor[t].id, actor[t].role)

KnownGood ==
  /\ \A a \in known : MayLogin(a)
  /\ \A t \in Threads : req[t].known \subseteq known

Inv ==
  /\ TypeOK /\ RowsInPlace /\ TokensGood /\ KnownGood
  /\ \A t \in Threads : HandlerOK(t)
  /\ ActorsHaveTheRole /\ SessionsEnd
=============================================================================
