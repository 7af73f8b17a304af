----------------------------- MODULE Auth_proofs -----------------------------
(***************************************************************************)
(* Proofs about Auth, for any threads, emails, passwords, seeded users,    *)
(* life of tokens and bounds.                                              *)
(***************************************************************************)
EXTENDS Auth, FiniteSetTheorems, TLAPS

LEMMA RouteTable == RouteRole \in [DOMAIN RouteRole -> Role]
BY DEF RouteRole, Role

LEMMA BlankType ==
  ASSUME NEW route \in DOMAIN RouteRole \cup {"login", "evaluate"}
  PROVE  Blank(route) \in Request
<1>1. (CHOOSE a \in Account : TRUE) \in Account
  <2>1. PICK e \in Email, p \in Password : TRUE
    BY AuthAssumption
  <2>2. <<e, p>> \in Account
    BY DEF Account
  <2>3. QED
    BY <2>2
<1>2. "viewer" \in Role
  BY DEF Role
<1> QED
  BY <1>1, <1>2 DEF Blank, Request

LEMMA NothingType == NoRequest \in Request /\ NoResponse \in Response /\ Nobody \in Actor
<1>1. NoRequest \in Request
  BY BlankType DEF NoRequest, RouteRole
<1>2. QED
  BY <1>1 DEF NoResponse, Response, Nobody, Actor, Role

(* What a client sends with a token. *)
LEMMA ArrivalType ==
  ASSUME NEW t \in Threads, BeginWithToken(t)
  PROVE  \E r \in Request : r.route \in Routes /\ r.known = {} /\ Arrive(t, r)
<1>1. \A route \in Routes : /\ Blank(route) \in Request
                            /\ Blank(route).route = route /\ Blank(route).known = {}
  BY BlankType, AuthAssumption DEF Blank
<1>2. CASE \E route \in Routes \ {"register"} : Arrive(t, Blank(route))
  BY <1>1, <1>2
<1>3. ASSUME "register" \in Routes, NEW a \in Account, NEW role \in Role,
             Arrive(t, [Blank("register") EXCEPT !.account = a, !.role = role])
      PROVE  \E r \in Request : r.route \in Routes /\ r.known = {} /\ Arrive(t, r)
  <2> DEFINE r == [Blank("register") EXCEPT !.account = a, !.role = role]
  <2>1. Blank("register") \in Request
    BY <1>1, <1>3
  <2>2. r \in Request
    BY <2>1 DEF Request, Blank
  <2>3. r.route = "register" /\ r.known = {}
    BY DEF Blank
  <2>4. Arrive(t, r)
    BY <1>3
  <2> HIDE DEF r
  <2>5. QED
    BY <1>3, <2>2, <2>3, <2>4
<1>4. QED
  BY <1>2, <1>3 DEF BeginWithToken

LEMMA RespondType ==
  ASSUME TypeOK, NEW t \in Threads, NEW status, Respond(t, status),
         status \in {"ok", "unauthorized", "conflict", "error"}
  PROVE  /\ pc' \in [Threads -> {"idle", "find", "issue", "insert", "key", "handle"}]
         /\ req' \in [Threads -> Request]
         /\ actor' \in [Threads -> Actor]
         /\ response' \in Response
BY NothingType DEF TypeOK, Respond, Response

LEMMA TypeInit == Init => TypeOK
<1> SUFFICES ASSUME Init PROVE TypeOK
  OBVIOUS
<1>1. users \in [Email -> User \cup {NoUser}]
  BY AuthAssumption DEF Init
<1>2. nextId \in Nat \ {0}
  BY AuthAssumption, FS_CardinalityType DEF Init
<1>3. QED
  BY <1>1, <1>2, NothingType DEF Init, TypeOK

LEMMA StartType ==
  ASSUME TypeOK, NEW t \in Threads, NEW r \in Request,
         NEW p \in {"find", "insert", "key", "handle"}, Start(t, r, p),
         actor' \in [Threads -> Actor]
  PROVE  TypeOK'
BY NothingType DEF TypeOK, Start, Goto, dbVars, historyVars

LEMMA ActorType ==
  ASSUME NEW u \in User
  PROVE  ActorOf(u) \in Actor
BY DEF ActorOf, Actor, User

LEMMA NewUserType ==
  ASSUME TypeOK, NEW t \in Threads
  PROVE  /\ req[t].account \in Account /\ req[t].account[1] \in Email
         /\ NewUser(req[t]) \in User /\ NewUser(req[t]) # NoUser
<1>1. req[t] \in Request /\ nextId \in Nat \ {0}
  BY DEF TypeOK
<1>2. req[t].account \in Account
  BY <1>1 DEF Request
<1>3. req[t].account[1] \in Email /\ req[t].account[2] \in Password /\ req[t].role \in Role
  BY <1>1 DEF Request, Account
<1>4. NewUser(req[t]) \in User
  BY <1>1, <1>3 DEF NewUser, User, Digest, HashPassword
<1>5. QED
  BY <1>2, <1>3, <1>4, AuthAssumption

LEMMA TypeNext == TypeOK /\ [Next]_vars => TypeOK'
<1> SUFFICES ASSUME TypeOK, [Next]_vars PROVE TypeOK'
  OBVIOUS
<1>1. CASE UNCHANGED vars
  BY <1>1 DEF TypeOK, vars, dbVars, threadVars, historyVars
<1>2. CASE Tick
  BY <1>2, NothingType DEF TypeOK, Tick, dbVars, threadVars, historyVars
<1>3. ASSUME NEW t \in Threads, Step(t)
      PROVE  TypeOK'
  <2>1. CASE BeginLogin(t)
    <3>1. PICK a \in Account :
            Start(t, [Blank("login") EXCEPT !.account = a, !.known = known], "find")
      BY <2>1 DEF BeginLogin
    <3>2. Blank("login") \in Request /\ known \subseteq Account
      BY BlankType DEF TypeOK
    <3>3. [Blank("login") EXCEPT !.account = a, !.known = known] \in Request
      BY <3>2 DEF Request
    <3>4. actor' \in [Threads -> Actor]
      BY <2>1 DEF BeginLogin, TypeOK
    <3>5. QED
      BY <3>1, <3>3, <3>4, StartType
  <2>2. CASE BeginEvaluate(t)
    <3>1. PICK i \in 1..nextId : Start(t, [Blank("evaluate") EXCEPT !.key = i], "key")
      BY <2>2 DEF BeginEvaluate
    <3>2. Blank("evaluate") \in Request /\ i \in Nat
      BY BlankType DEF TypeOK
    <3>3. [Blank("evaluate") EXCEPT !.key = i] \in Request
      BY <3>2 DEF Request
    <3>4. actor' \in [Threads -> Actor]
      BY <2>2 DEF BeginEvaluate, TypeOK
    <3>5. QED
      BY <3>1, <3>3, <3>4, StartType
  <2>3. CASE BeginWithToken(t)
    <3>1. PICK r \in Request : Arrive(t, r)
      BY <2>3, ArrivalType
    <3>2. PICK k \in tokens : Admit(t, k, r) \/ Refuse(t, k, r)
      BY <3>1 DEF Arrive
    <3>3. k \in Token /\ now \in Nat
      BY DEF TypeOK
    <3>4. CASE Admit(t, k, r)
      <4>1. [id |-> k.sub, role |-> k.role, at |-> now] \in Actor
        BY <3>3 DEF Token, Actor
      <4>2. actor' \in [Threads -> Actor]
        BY <3>4, <4>1 DEF Admit, TypeOK
      <4>3. QED
        BY <3>3, <3>4, <4>2, StartType DEF Admit
    <3>5. CASE Refuse(t, k, r)
      BY <3>3, <3>5, BlankType
         DEF Refuse, Refusal, Request, TypeOK, Response, dbVars, threadVars, historyVars
    <3>6. QED
      BY <3>2, <3>4, <3>5
  <2>4. CASE FindByEmail(t)
    <3>1. CASE MayLogin(req[t].account)
      <4>1. users[req[t].account[1]] \in User
        BY <3>1 DEF MayLogin, TypeOK, Request, Account
      <4>2. ActorOf(users[req[t].account[1]]) \in Actor
        BY <4>1, ActorType
      <4>3. QED
        BY <2>4, <3>1, <4>2, NothingType
           DEF FindByEmail, Goto, TypeOK, dbVars, historyVars
    <3>2. CASE ~MayLogin(req[t].account)
      BY <2>4, <3>2, RespondType DEF FindByEmail, TypeOK, dbVars, historyVars
    <3>3. QED
      BY <3>1, <3>2
  <2>5. CASE Issue(t)
    <3>1. pc[t] = "issue" /\ actor[t] \in Actor
      BY <2>5 DEF Issue, TypeOK
    <3>2. [sub |-> actor[t].id, role |-> actor[t].role, exp |-> now + Expiry] \in Token
      BY <3>1, AuthAssumption DEF TypeOK, Token, Actor
    <3>3. tokens' \subseteq Token
      BY <2>5, <3>2 DEF Issue, TypeOK
    <3>4. <<actor[t].id, now>> \in Nat \X Nat
      BY <3>1 DEF TypeOK, Actor
    <3>5. logins' \subseteq (Nat \X Nat)
      BY <2>5, <3>4 DEF Issue, TypeOK
    <3>6. Respond(t, "ok") /\ UNCHANGED <<dbVars, now, faults, known>>
      BY <2>5 DEF Issue
    <3>7. QED
      BY <3>3, <3>5, <3>6, RespondType DEF TypeOK, dbVars
  <2>6. CASE Insert(t)
    <3>1. /\ users' \in [Email -> User \cup {NoUser}] /\ doubt' \in [Email -> User \cup {NoUser}]
          /\ nextId' \in Nat \ {0} /\ known' \subseteq Account
      BY <2>6, NewUserType DEF Insert, TypeOK
    <3>2. QED
      BY <2>6, <3>1, RespondType DEF Insert, TypeOK
  <2>7. CASE InsertRefused(t)
    BY <2>7, RespondType DEF InsertRefused, TypeOK, dbVars, historyVars
  <2>8. CASE InsertInDoubt(t)
    <3>1. doubt' \in [Email -> User \cup {NoUser}] /\ nextId' \in Nat \ {0}
      BY <2>8, NewUserType DEF InsertInDoubt, TypeOK
    <3>2. QED
      BY <2>8, <3>1, RespondType DEF InsertInDoubt, Fault, TypeOK, historyVars
  <2>9. CASE ValidateApiKey(t)
    <3>1. CASE Respond(t, "unauthorized")
      BY <2>9, <3>1, RespondType DEF ValidateApiKey, TypeOK, dbVars, historyVars
    <3>2. CASE ~Respond(t, "unauthorized")
      <4>1. PICK e \in Email : /\ users[e] # NoUser
                               /\ actor' = [actor EXCEPT ![t] = ActorOf(users[e])]
        BY <2>9, <3>2 DEF ValidateApiKey
      <4>2. ActorOf(users[e]) \in Actor
        BY <4>1, ActorType DEF TypeOK
      <4>3. QED
        BY <2>9, <3>2, <4>1, <4>2, NothingType
           DEF ValidateApiKey, Goto, TypeOK, dbVars, historyVars
    <3>3. QED
      BY <3>1, <3>2
  <2>10. CASE Handle(t)
    BY <2>10, RespondType DEF Handle, TypeOK, dbVars, historyVars
  <2>11. CASE CallFails(t)
    BY <2>11, RespondType DEF CallFails, Fault, TypeOK, dbVars, historyVars
  <2>12. QED
    BY <1>3, <2>1, <2>2, <2>3, <2>4, <2>5, <2>6, <2>7, <2>8, <2>9, <2>10, <2>11 DEF Step
<1>4. ASSUME NEW e \in Email, InsertSettles(e)
      PROVE  TypeOK'
  BY <1>4, NothingType DEF InsertSettles, TypeOK, threadVars, historyVars
<1>5. QED
  BY <1>1, <1>2, <1>3, <1>4 DEF Next
-----------------------------------------------------------------------------
(* What a step can change: table, tokens and histories in three actions.   *)
Quiet == UNCHANGED <<dbVars, now, tokens, historyVars>>

LEMMA StepEffect ==
  ASSUME NEW t \in Threads, Step(t)
  PROVE  Quiet \/ Issue(t) \/ Insert(t) \/ InsertInDoubt(t)
<1>1. CASE BeginLogin(t) \/ BeginEvaluate(t)
  BY <1>1 DEF BeginLogin, BeginEvaluate, Start, Quiet
<1>2. CASE BeginWithToken(t)
  <2>1. PICK r \in Request : Arrive(t, r)
    BY <1>2, ArrivalType
  <2>2. PICK k \in tokens : Admit(t, k, r) \/ Refuse(t, k, r)
    BY <2>1 DEF Arrive
  <2>3. QED
    BY <2>2 DEF Admit, Refuse, Start, Quiet
<1>3. CASE FindByEmail(t) \/ InsertRefused(t) \/ ValidateApiKey(t) \/ Handle(t)
  BY <1>3 DEF FindByEmail, InsertRefused, ValidateApiKey, Handle, Quiet
<1>4. CASE CallFails(t)
  BY <1>4 DEF CallFails, Quiet
<1>5. QED
  BY <1>1, <1>2, <1>3, <1>4 DEF Step

LEMMA NextEffect ==
  ASSUME [Next]_vars
  PROVE  \/ Quiet \/ Tick
         \/ \E t \in Threads : Issue(t) \/ Insert(t) \/ InsertInDoubt(t)
         \/ \E e \in Email : InsertSettles(e)
<1>1. CASE UNCHANGED vars
  BY <1>1 DEF vars, Quiet
<1>2. CASE Next
  BY <1>2, StepEffect DEF Next
<1>3. QED
  BY <1>1, <1>2

LEMMA TableChange ==
  ASSUME [Next]_vars
  PROVE  \/ UNCHANGED dbVars
         \/ \E t \in Threads : Insert(t) \/ InsertInDoubt(t)
         \/ \E e \in Email : InsertSettles(e)
BY NextEffect DEF Quiet, Tick, Issue

LEMMA LoginChange ==
  ASSUME [Next]_vars
  PROVE  UNCHANGED <<tokens, logins>> \/ \E t \in Threads : Issue(t)
BY NextEffect DEF Quiet, Tick, Insert, InsertInDoubt, InsertSettles, historyVars

LEMMA KnownChange ==
  ASSUME [Next]_vars
  PROVE  UNCHANGED known \/ \E t \in Threads : Insert(t)
BY NextEffect DEF Quiet, Tick, Issue, InsertInDoubt, InsertSettles, historyVars

LEMMA TimeChange ==
  ASSUME TypeOK, [Next]_vars
  PROVE  now' \in Nat /\ now <= now'
BY NextEffect DEF Quiet, Tick, Issue, Insert, InsertInDoubt, InsertSettles, TypeOK

LEMMA OthersUntouched ==
  ASSUME TypeOK, NEW t \in Threads, Step(t), NEW u \in Threads, u # t
  PROVE  pc'[u] = pc[u] /\ req'[u] = req[u] /\ actor'[u] = actor[u]
BY DEF Step, BeginLogin, BeginEvaluate, BeginWithToken, Arrive, Admit, Refuse,
       Start, FindByEmail, Issue, Insert, InsertRefused, InsertInDoubt, ValidateApiKey,
       Handle, CallFails, TypeOK, Goto, Respond, threadVars

Same(t) == pc'[t] = pc[t] /\ req'[t] = req[t] /\ actor'[t] = actor[t]

LEMMA OneMoves ==
  ASSUME TypeOK, [Next]_vars, NEW t \in Threads
  PROVE  Same(t) \/ Step(t)
<1>1. CASE UNCHANGED vars \/ Tick
  BY <1>1 DEF vars, threadVars, Tick, Same
<1>2. ASSUME NEW u \in Threads, Step(u)
      PROVE  Same(t) \/ Step(t)
  BY <1>2, OthersUntouched DEF Same
<1>3. ASSUME NEW e \in Email, InsertSettles(e)
      PROVE  Same(t)
  BY <1>3 DEF InsertSettles, threadVars, Same
<1>4. QED
  BY <1>1, <1>2, <1>3 DEF Next

(* How a thread gets to where it is. *)
Answered(t) == pc'[t] = "idle" /\ req'[t].known = {}

LEMMA RespondEffect ==
  ASSUME TypeOK, NEW t \in Threads, NEW status, Respond(t, status)
  PROVE  Answered(t)
BY DEF TypeOK, Respond, Answered, NoRequest, Blank

LEMMA StartEffect ==
  ASSUME TypeOK, NEW t \in Threads, NEW r, NEW p, Start(t, r, p)
  PROVE  pc'[t] = p /\ req'[t] = r
BY DEF TypeOK, Start, Goto

CredentialsArrive(t) ==
  \/ pc'[t] = "find" /\ req'[t].route = "login" /\ req'[t].known = known
  \/ pc'[t] = "key" /\ req'[t].route = "evaluate" /\ req'[t].known = {}

TokenArrives(t) ==
  /\ req'[t].route \in Routes /\ req'[t].known = {}
  /\ pc'[t] = IF req'[t].route = "register" THEN "insert" ELSE "handle"
  /\ \E k \in tokens :
       /\ now <= k.exp
       /\ RoleHasPermission(k.role, RouteRole[req'[t].route])
       /\ actor'[t] = [id |-> k.sub, role |-> k.role, at |-> now]

RowFound(t) ==
  /\ \/ pc[t] = "find" /\ pc'[t] = "issue" /\ MayLogin(req[t].account)
     \/ pc[t] = "key" /\ pc'[t] = "handle"
  /\ req'[t] = req[t]
  /\ \E e \in Email : users[e] # NoUser /\ actor'[t] = ActorOf(users[e])

LEMMA ThreadChange ==
  ASSUME TypeOK, NEW t \in Threads, Step(t)
  PROVE  Answered(t) \/ CredentialsArrive(t) \/ TokenArrives(t) \/ RowFound(t) \/ Same(t)
<1>1. CASE BeginLogin(t)
  <2>1. PICK a \in Account :
          Start(t, [Blank("login") EXCEPT !.account = a, !.known = known], "find")
    BY <1>1 DEF BeginLogin
  <2>2. pc'[t] = "find" /\ req'[t] = [Blank("login") EXCEPT !.account = a, !.known = known]
    BY <2>1, StartEffect
  <2>3. req'[t].route = "login" /\ req'[t].known = known
    BY <2>2 DEF Blank
  <2>4. QED
    BY <2>2, <2>3 DEF CredentialsArrive
<1>2. CASE BeginEvaluate(t)
  <2>1. PICK i \in 1..nextId : Start(t, [Blank("evaluate") EXCEPT !.key = i], "key")
    BY <1>2 DEF BeginEvaluate
  <2>2. pc'[t] = "key" /\ req'[t] = [Blank("evaluate") EXCEPT !.key = i]
    BY <2>1, StartEffect
  <2>3. req'[t].route = "evaluate" /\ req'[t].known = {}
    BY <2>2 DEF Blank
  <2>4. QED
    BY <2>2, <2>3 DEF CredentialsArrive
<1>3. CASE BeginWithToken(t)
  <2>1. PICK r \in Request : r.route \in Routes /\ r.known = {} /\ Arrive(t, r)
    BY <1>3, ArrivalType
  <2>2. PICK k \in tokens : Admit(t, k, r) \/ Refuse(t, k, r)
    BY <2>1 DEF Arrive
  <2>3. CASE Refuse(t, k, r)
    BY <2>3 DEF Refuse, threadVars, Same
  <2>4. CASE Admit(t, k, r)
    <3>1. /\ req'[t] = r
          /\ pc'[t] = IF r.route = "register" THEN "insert" ELSE "handle"
      BY <2>4, StartEffect DEF Admit
    <3>2. actor'[t] = [id |-> k.sub, role |-> k.role, at |-> now]
      BY <2>4 DEF Admit, TypeOK
    <3>3. now <= k.exp /\ RoleHasPermission(k.role, RouteRole[r.route])
      BY <2>4 DEF Admit, ValidateToken
    <3>4. QED
      BY <2>1, <3>1, <3>2, <3>3 DEF TokenArrives
  <2>5. QED
    BY <2>2, <2>3, <2>4
<1>4. CASE FindByEmail(t)
  <2>1. CASE MayLogin(req[t].account)
    <3>1. req[t].account[1] \in Email /\ users[req[t].account[1]] # NoUser
      BY <2>1 DEF MayLogin, TypeOK, Request, Account
    <3>2. actor'[t] = ActorOf(users[req[t].account[1]])
      BY <1>4, <2>1 DEF FindByEmail, TypeOK
    <3>3. pc[t] = "find" /\ pc'[t] = "issue" /\ req'[t] = req[t]
      BY <1>4, <2>1 DEF FindByEmail, Goto, TypeOK
    <3>4. QED
      BY <2>1, <3>1, <3>2, <3>3 DEF RowFound
  <2>2. CASE ~MayLogin(req[t].account)
    BY <1>4, <2>2, RespondEffect DEF FindByEmail
  <2>3. QED
    BY <2>1, <2>2
<1>5. CASE ValidateApiKey(t)
  <2>1. CASE Respond(t, "unauthorized")
    BY <2>1, RespondEffect
  <2>2. CASE ~Respond(t, "unauthorized")
    <3>1. PICK e \in Email : /\ users[e] # NoUser
                             /\ actor' = [actor EXCEPT ![t] = ActorOf(users[e])]
      BY <1>5, <2>2 DEF ValidateApiKey
    <3>2. pc[t] = "key" /\ pc'[t] = "handle" /\ req'[t] = req[t]
      BY <1>5, <2>2 DEF ValidateApiKey, Goto, TypeOK
    <3>3. actor'[t] = ActorOf(users[e])
      BY <3>1 DEF TypeOK
    <3>4. QED
      BY <3>1, <3>2, <3>3 DEF RowFound
  <2>3. QED
    BY <2>1, <2>2
<1>6. CASE Issue(t) \/ Insert(t) \/ InsertRefused(t) \/ InsertInDoubt(t) \/ Handle(t) \/ CallFails(t)
  BY <1>6, RespondEffect
     DEF Issue, Insert, InsertRefused, InsertInDoubt, Handle, CallFails
<1>7. QED
  BY <1>1, <1>2, <1>3, <1>4, <1>5, <1>6 DEF Step
-----------------------------------------------------------------------------
(* Rows stay as they are, so that what was true of a row remains true: one  *)
(* in doubt takes effect only where there is none.                          *)
LEMMA RowsKept ==
  ASSUME TypeOK, RowsInPlace, [Next]_vars
  PROVE  \A e \in Email : users[e] # NoUser => users'[e] = users[e]
<1>1. CASE UNCHANGED dbVars
  BY <1>1 DEF dbVars
<1>2. ASSUME NEW t \in Threads, Insert(t) \/ InsertInDoubt(t)
      PROVE  \A e \in Email : users[e] # NoUser => users'[e] = users[e]
  BY <1>2 DEF Insert, InsertInDoubt, TypeOK
<1>3. ASSUME NEW f \in Email, InsertSettles(f)
      PROVE  \A e \in Email : users[e] # NoUser => users'[e] = users[e]
  <2>1. users[f] = NoUser
    BY <1>3 DEF InsertSettles, RowsInPlace
  <2>2. QED
    BY <1>3, <2>1 DEF InsertSettles, TypeOK
<1>4. QED
  BY <1>1, <1>2, <1>3, TableChange

LEMMA RegisteredKept ==
  ASSUME TypeOK, RowsInPlace, [Next]_vars, NEW i, NEW role, Registered(i, role)
  PROVE  Registered(i, role)'
BY RowsKept DEF Registered

(* The row of an email, in the table or in doubt. *)
Rows(e) == {users[e], doubt[e]} \ {NoUser}

LEMMA NewRow ==
  ASSUME TypeOK, NEW t \in Threads, Insert(t) \/ InsertInDoubt(t),
         NEW x, x = req[t].account[1], NEW new, new = NewUser(req[t])
  PROVE  /\ {users'[x], doubt'[x]} = {new, NoUser}
         /\ \A e \in Email \ {x} : users'[e] = users[e] /\ doubt'[e] = doubt[e]
<1>1. x \in Email /\ new \in User
  BY NewUserType
<1>2. CASE Insert(t)
  <2>1. users' = [users EXCEPT ![x] = new] /\ doubt' = [doubt EXCEPT ![x] = NoUser]
    BY <1>2 DEF Insert
  <2>2. users'[x] = new /\ doubt'[x] = NoUser
    BY <1>1, <2>1 DEF TypeOK
  <2>3. QED
    BY <1>1, <2>1, <2>2 DEF TypeOK
<1>3. CASE InsertInDoubt(t)
  <2>1. users[x] = NoUser /\ users' = users /\ doubt' = [doubt EXCEPT ![x] = new]
    BY <1>3 DEF InsertInDoubt
  <2>2. users'[x] = NoUser /\ doubt'[x] = new
    BY <1>1, <2>1 DEF TypeOK
  <2>3. QED
    BY <1>1, <2>1, <2>2 DEF TypeOK
<1>4. QED
  BY <1>2, <1>3

LEMMA RowsNext == TypeOK /\ RowsInPlace /\ [Next]_vars => RowsInPlace'
<1> SUFFICES ASSUME TypeOK, RowsInPlace, [Next]_vars PROVE RowsInPlace'
  OBVIOUS
<1>1. CASE UNCHANGED dbVars
  BY <1>1 DEF dbVars, RowsInPlace
<1>2. ASSUME NEW t \in Threads, Insert(t) \/ InsertInDoubt(t)
      PROVE  RowsInPlace'
  <2>1. PICK x, new : x = req[t].account[1] /\ new = NewUser(req[t])
    OBVIOUS
  <2>2. x \in Email /\ new # NoUser /\ new.id = nextId
    BY <2>1, NewUserType DEF NewUser
  <2>3. nextId' = nextId + 1 /\ nextId \in Nat
    BY <1>2 DEF Insert, InsertInDoubt, TypeOK
  <2>4. \A e \in Email : \A u \in Rows(e) : u.id \in Nat /\ u.id < nextId
    BY DEF RowsInPlace, Rows, TypeOK, User
  <2>5. /\ {users'[x], doubt'[x]} = {new, NoUser}
        /\ \A e \in Email \ {x} : users'[e] = users[e] /\ doubt'[e] = doubt[e]
    BY <1>2, <2>1, NewRow
  <2>6. Rows(x)' = {new} /\ \A e \in Email \ {x} : Rows(e)' = Rows(e)
    BY <2>2, <2>5 DEF Rows
  <2>7. \A e \in Email : \A u \in Rows(e)' : u.id < nextId'
    BY <2>2, <2>3, <2>4, <2>6
  <2>8. ASSUME NEW e \in Email, NEW f \in Email, NEW u \in Rows(e)', NEW v \in Rows(f)',
               v.id = u.id
        PROVE  e = f
    <3>1. CASE e = x /\ f # x
      BY <2>2, <2>3, <2>4, <2>6, <2>8, <3>1
    <3>2. CASE e # x /\ f = x
      BY <2>2, <2>3, <2>4, <2>6, <2>8, <3>2
    <3>3. CASE e # x /\ f # x
      BY <2>6, <2>8, <3>3 DEF RowsInPlace, Rows
    <3>4. QED
      BY <3>1, <3>2, <3>3
  <2>9. \A e \in Email : Rows(e)' # {} => NoUser \in {users'[e], doubt'[e]}
    <3>1. \A e \in Email \ {x} : Rows(e) # {} => NoUser \in {users[e], doubt[e]}
      BY DEF RowsInPlace, Rows
    <3>2. QED
      BY <2>5, <2>6, <3>1
  <2>10. QED
    BY <2>7, <2>8, <2>9 DEF RowsInPlace, Rows
<1>3. ASSUME NEW x \in Email, InsertSettles(x)
      PROVE  RowsInPlace'
  <2>1. users[x] = NoUser /\ nextId' = nextId
    BY <1>3 DEF InsertSettles, RowsInPlace
  <2>2. users'[x] = doubt[x] /\ doubt'[x] = NoUser
    BY <1>3 DEF InsertSettles, TypeOK
  <2>3. \A e \in Email : e # x => users'[e] = users[e] /\ doubt'[e] = doubt[e]
    BY <1>3 DEF InsertSettles, TypeOK
  <2>4. \A e \in Email : {users'[e], doubt'[e]} = {users[e], doubt[e]}
    BY <2>1, <2>2, <2>3
  <2>5. QED
    BY <2>1, <2>4 DEF RowsInPlace
<1>4. QED
  BY <1>1, <1>2, <1>3, TableChange

LEMMA ActorRegistered ==
  ASSUME TypeOK, NEW e \in Email, users[e] # NoUser
  PROVE  /\ Registered(ActorOf(users[e]).id, ActorOf(users[e]).role)
         /\ ActorOf(users[e]).role \in Role
BY DEF Registered, ActorOf, TypeOK, User

LEMMA TokensNext == Inv /\ [Next]_vars => TokensGood'
<1> SUFFICES ASSUME Inv, [Next]_vars PROVE TokensGood'
  OBVIOUS
<1>1. TypeOK /\ RowsInPlace /\ TokensGood /\ \A t \in Threads : HandlerOK(t)
  BY DEF Inv
<1>2. now \in Nat /\ now' \in Nat /\ now <= now' /\ logins \subseteq (Nat \X Nat)
  BY <1>1, TimeChange DEF TypeOK
<1>3. ASSUME NEW k \in tokens, logins \subseteq logins'
      PROVE  /\ Registered(k.sub, k.role)'
             /\ \E l \in logins' : l[1] = k.sub /\ l[2] <= now' /\ k.exp = l[2] + Expiry
  <2>1. Registered(k.sub, k.role)'
    BY <1>1, RegisteredKept DEF TokensGood
  <2>2. PICK l \in logins : l[1] = k.sub /\ l[2] <= now /\ k.exp = l[2] + Expiry
    BY <1>1 DEF TokensGood
  <2>3. l[2] \in Nat
    BY <1>2, <2>2
  <2>4. l[2] <= now'
    BY <1>2, <2>2, <2>3
  <2>5. QED
    BY <1>3, <2>1, <2>2, <2>4
<1>4. CASE UNCHANGED <<tokens, logins>>
  BY <1>3, <1>4 DEF TokensGood
<1>5. ASSUME NEW t \in Threads, Issue(t)
      PROVE  TokensGood'
  <2>1. PICK i, role : i = actor[t].id /\ role = actor[t].role
    OBVIOUS
  <2>2. /\ tokens' = tokens \cup {[sub |-> i, role |-> role, exp |-> now + Expiry]}
        /\ logins' = logins \cup {<<i, now>>}
    BY <1>5, <2>1 DEF Issue
  <2>3. Registered(i, role)
    BY <1>1, <1>5, <2>1 DEF HandlerOK, Issue, Registered
  <2>4. Registered(i, role)'
    BY <1>1, <2>3, RegisteredKept
  <2>5. <<i, now>> \in logins' /\ now <= now'
    BY <1>2, <2>2
  <2>6. ASSUME NEW k \in tokens', k \notin tokens
        PROVE  /\ Registered(k.sub, k.role)'
               /\ \E l \in logins' : l[1] = k.sub /\ l[2] <= now' /\ k.exp = l[2] + Expiry
    <3>1. k = [sub |-> i, role |-> role, exp |-> now + Expiry]
      BY <2>2, <2>6
    <3>2. k.sub = i /\ k.role = role /\ k.exp = now + Expiry
      BY <3>1
    <3>3. Registered(k.sub, k.role)'
      BY <2>4, <3>2 DEF Registered
    <3>4. <<i, now>>[1] = k.sub /\ <<i, now>>[2] <= now' /\ k.exp = <<i, now>>[2] + Expiry
      BY <2>5, <3>2
    <3>5. QED
      BY <2>5, <3>3, <3>4
  <2>7. QED
    BY <1>3, <2>2, <2>6 DEF TokensGood
<1>6. QED
  BY <1>4, <1>5, LoginChange

LEMMA KnownNext == Inv /\ [Next]_vars => KnownGood'
<1> SUFFICES ASSUME Inv, [Next]_vars PROVE KnownGood'
  OBVIOUS
<1>1. TypeOK /\ RowsInPlace /\ KnownGood
  BY DEF Inv
<1>2. \A a \in known : MayLogin(a)'
  <2> SUFFICES ASSUME NEW a \in known PROVE MayLogin(a)'
    OBVIOUS
  <2>1. a[1] \in Email /\ MayLogin(a)
    BY <1>1 DEF KnownGood, TypeOK, Account
  <2>2. users'[a[1]] = users[a[1]]
    BY <1>1, <2>1, RowsKept DEF MayLogin
  <2>3. QED
    BY <2>1, <2>2 DEF MayLogin
<1>3. \A a \in known' : MayLogin(a)'
  <2>1. CASE UNCHANGED known
    BY <1>2, <2>1
  <2>2. ASSUME NEW t \in Threads, Insert(t)
        PROVE  \A a \in known' : MayLogin(a)'
    <3>1. /\ known' = known \cup {req[t].account}
          /\ users' = [users EXCEPT ![req[t].account[1]] = NewUser(req[t])]
      BY <2>2 DEF Insert
    <3>2. req[t].account[1] \in Email /\ NewUser(req[t]) # NoUser
      BY <1>1, NewUserType
    <3>3. users'[req[t].account[1]] = NewUser(req[t])
      BY <1>1, <3>1, <3>2 DEF TypeOK
    <3>5. NewUser(req[t]).digest = HashPassword(NewUser(req[t]).id, req[t].account[2])
      BY DEF NewUser
    <3>6. PICK a : a = req[t].account
      OBVIOUS
    <3>7. MayLogin(a)'
      BY <3>2, <3>3, <3>5, <3>6 DEF MayLogin, HashPassword
    <3>8. \A b \in known' : b \in known \/ b = a
      BY <3>1, <3>6
    <3>9. QED
      BY <1>2, <3>7, <3>8
  <2>3. QED
    BY <2>1, <2>2, KnownChange
<1>4. known \subseteq known'
  BY KnownChange DEF Insert
<1>5. \A t \in Threads : req'[t].known \subseteq known'
  <2> SUFFICES ASSUME NEW t \in Threads PROVE req'[t].known \subseteq known'
    OBVIOUS
  <2>1. req'[t].known = {} \/ req'[t].known = known \/ req'[t] = req[t]
    BY <1>1, OneMoves, ThreadChange
       DEF Answered, CredentialsArrive, TokenArrives, RowFound, Same
  <2>2. QED
    BY <1>1, <1>4, <2>1 DEF KnownGood
<1>6. QED
  BY <1>3, <1>5 DEF KnownGood
-----------------------------------------------------------------------------
(* Threads: what the attributes of their requests say. *)
LEMMA HandlersNext == Inv /\ [Next]_vars => \A t \in Threads : HandlerOK(t)'
<1> SUFFICES ASSUME Inv, [Next]_vars, NEW t \in Threads PROVE HandlerOK(t)'
  OBVIOUS
<1>1. TypeOK /\ RowsInPlace /\ HandlerOK(t)
  BY DEF Inv
<1>2. CASE Same(t)
  <2>1. PICK i, role : i = actor[t].id /\ role = actor[t].role
    OBVIOUS
  <2>2. ASSUME pc[t] = "issue"
        PROVE  Registered(i, role)'
    BY <1>1, <2>1, <2>2, RegisteredKept DEF HandlerOK, Registered
  <2>3. actor'[t].id = i /\ actor'[t].role = role
    BY <1>2, <2>1 DEF Same
  <2>4. pc[t] = "issue" => Registered(actor[t].id, actor[t].role)'
    BY <2>2, <2>3 DEF Registered
  <2>5. QED
    BY <1>1, <1>2, <2>4 DEF HandlerOK, Same
<1>3. CASE RowFound(t)
  <2>1. PICK e \in Email : users[e] # NoUser /\ actor'[t] = ActorOf(users[e])
    BY <1>3 DEF RowFound
  <2>2. users'[e] = users[e]
    BY <1>1, <2>1, RowsKept
  <2>3. Registered(actor[t].id, actor[t].role)'
    BY <2>1, <2>2 DEF Registered, ActorOf
  <2>4. QED
    BY <1>1, <1>3, <2>3 DEF RowFound, HandlerOK
<1>4. CASE Answered(t) \/ CredentialsArrive(t) \/ TokenArrives(t)
  BY <1>4 DEF Answered, CredentialsArrive, TokenArrives, HandlerOK
<1>5. QED
  BY <1>1, <1>2, <1>3, <1>4, OneMoves, ThreadChange

LEMMA RolesCompared ==
  ASSUME NEW route \in DOMAIN RouteRole, NEW role \in Role,
         RoleHasPermission(role, RouteRole[route])
  PROVE  role \in PermittedRoles(route)
<1>1. role \in {"viewer", "editor", "admin"}
  BY DEF Role
<1>2. CASE route \in {"delete", "audit", "register"}
  BY <1>1, <1>2 DEF RoleHasPermission, RouteRole, Rank, PermittedRoles
<1>3. CASE route \in {"create", "update", "toggle"}
  BY <1>1, <1>3 DEF RoleHasPermission, RouteRole, Rank, PermittedRoles
<1>4. CASE route \in {"list", "get"}
  BY <1>4 DEF PermittedRoles
<1>5. QED
  BY <1>2, <1>3, <1>4 DEF RouteRole

LEMMA RolesNext == Inv /\ [Next]_vars => ActorsHaveTheRole'
<1> SUFFICES ASSUME Inv, [Next]_vars, NEW t \in Threads, (t \in Admitted)'
             PROVE  (\E role \in PermittedRoles(req[t].route) :
                       Registered(actor[t].id, role) /\ actor[t].role = role)'
  BY DEF ActorsHaveTheRole, Admitted
<1>1. TypeOK /\ RowsInPlace /\ ActorsHaveTheRole /\ TokensGood /\ HandlerOK(t)
  BY DEF Inv
<1>2. pc'[t] \in {"insert", "handle"}
  BY DEF Admitted
<1>3. CASE Same(t)
  <2>1. t \in Admitted
    BY <1>2, <1>3 DEF Admitted, Same
  <2>2. PICK role \in PermittedRoles(req[t].route) :
               Registered(actor[t].id, role) /\ actor[t].role = role
    BY <1>1, <2>1 DEF ActorsHaveTheRole
  <2>3. PICK i : i = actor[t].id
    OBVIOUS
  <2>4. Registered(i, role)'
    BY <1>1, <2>2, <2>3, RegisteredKept DEF Registered
  <2>5. Registered(actor[t].id, role)'
    BY <1>3, <2>3, <2>4 DEF Registered, Same
  <2>6. QED
    BY <1>3, <2>2, <2>5 DEF Same
<1>4. CASE RowFound(t)
  <2>1. PICK e \in Email : users[e] # NoUser /\ actor'[t] = ActorOf(users[e])
    BY <1>4 DEF RowFound
  <2>2. users'[e] = users[e] /\ users[e].role \in Role
    BY <1>1, <2>1, RowsKept DEF TypeOK, User
  <2>3. Registered(actor[t].id, actor[t].role)' /\ actor'[t].role \in Role
    BY <2>1, <2>2 DEF Registered, ActorOf
  <2>4. req'[t].route = "evaluate"
    BY <1>1, <1>2, <1>4 DEF RowFound, HandlerOK
  <2>5. QED
    BY <2>3, <2>4 DEF PermittedRoles
<1>5. CASE TokenArrives(t)
  <2>1. PICK k \in tokens :
          /\ RoleHasPermission(k.role, RouteRole[req'[t].route])
          /\ actor'[t] = [id |-> k.sub, role |-> k.role, at |-> now]
    BY <1>5 DEF TokenArrives
  <2>2. k.role \in Role /\ req'[t].route \in DOMAIN RouteRole
    BY <1>1, <1>5, AuthAssumption DEF TypeOK, Token, TokenArrives
  <2>3. k.role \in PermittedRoles(req'[t].route)
    BY <2>1, <2>2, RolesCompared
  <2>4. Registered(k.sub, k.role)'
    BY <1>1, RegisteredKept DEF TokensGood
  <2>5. Registered(actor[t].id, k.role)' /\ actor'[t].role = k.role
    BY <2>1, <2>4 DEF Registered
  <2>6. QED
    BY <2>3, <2>5
<1>6. CASE Answered(t) \/ CredentialsArrive(t)
  BY <1>2, <1>6 DEF Answered, CredentialsArrive
<1>7. QED
  BY <1>1, <1>3, <1>4, <1>5, <1>6, OneMoves, ThreadChange

LEMMA SessionsNext == Inv /\ [Next]_vars => SessionsEnd'
<1> SUFFICES ASSUME Inv, [Next]_vars, NEW t \in Threads, (t \in ByToken)'
             PROVE  \E l \in logins' :
                      l[1] = actor'[t].id /\ actor'[t].at \in l[2]..(l[2] + Expiry)
  BY DEF SessionsEnd, ByToken, Admitted
<1>1. TypeOK /\ SessionsEnd /\ TokensGood /\ HandlerOK(t)
  BY DEF Inv
<1>2. pc'[t] \in {"insert", "handle"} /\ req'[t].route # "evaluate"
  BY DEF ByToken, Admitted
<1>3. logins \subseteq logins'
  BY LoginChange DEF Issue
<1>4. CASE Same(t)
  <2>1. t \in ByToken
    BY <1>2, <1>4 DEF ByToken, Admitted, Same
  <2>2. QED
    BY <1>1, <1>3, <1>4, <2>1 DEF SessionsEnd, Same
<1>5. CASE TokenArrives(t)
  <2>1. PICK k \in tokens :
          now <= k.exp /\ actor'[t] = [id |-> k.sub, role |-> k.role, at |-> now]
    BY <1>5 DEF TokenArrives
  <2>2. PICK l \in logins : l[1] = k.sub /\ l[2] <= now /\ k.exp = l[2] + Expiry
    BY <1>1 DEF TokensGood
  <2>3. l[2] \in Nat /\ now \in Nat /\ Expiry \in Nat
    BY <1>1, <2>2, AuthAssumption DEF TypeOK
  <2>4. actor'[t].id = k.sub /\ actor'[t].at = now
    BY <2>1
  <2>5. now \in l[2]..(l[2] + Expiry)
    BY <2>1, <2>2, <2>3
  <2>6. QED
    BY <1>3, <2>2, <2>4, <2>5
<1>6. CASE RowFound(t)
  BY <1>1, <1>2, <1>6 DEF RowFound, HandlerOK
<1>7. CASE Answered(t) \/ CredentialsArrive(t)
  BY <1>2, <1>7 DEF Answered, CredentialsArrive
<1>8. QED
  BY <1>1, <1>4, <1>5, <1>6, <1>7, OneMoves, ThreadChange
-----------------------------------------------------------------------------
LEMMA InvInit == Init => Inv
<1> SUFFICES ASSUME Init PROVE Inv
  OBVIOUS
<1>1. TypeOK
  BY TypeInit
<1>2. \A e \in Email : \A u \in {users[e], doubt[e]} \ {NoUser} :
        u \in SeedUsers /\ u.email = e
  BY DEF Init
<1>3. RowsInPlace
  <2>1. \A u \in SeedUsers : u.id \in Nat /\ u.id <= Cardinality(SeedUsers)
    BY AuthAssumption DEF User
  <2>2. Cardinality(SeedUsers) \in Nat /\ nextId = Cardinality(SeedUsers) + 1
    BY AuthAssumption, FS_CardinalityType DEF Init
  <2>3. \A u \in SeedUsers : u.id < nextId
    BY <2>1, <2>2
  <2>4. \A u, v \in SeedUsers : u.id = v.id => u = v
    BY AuthAssumption
  <2>5. \A e \in Email : doubt[e] = NoUser
    BY DEF Init
  <2>6. QED
    BY <1>2, <2>3, <2>4, <2>5 DEF RowsInPlace
<1>4. \A t \in Threads : pc[t] = "idle" /\ req[t] = NoRequest
  BY DEF Init
<1>5. NoRequest.known = {}
  BY DEF NoRequest, Blank
<1>6. KnownGood
  BY <1>4, <1>5 DEF KnownGood, Init
<1>7. \A t \in Threads : HandlerOK(t)
  BY <1>4 DEF HandlerOK
<1>8. ActorsHaveTheRole /\ SessionsEnd
  BY <1>4 DEF ActorsHaveTheRole, SessionsEnd, ByToken, Admitted
<1>9. TokensGood
  BY DEF TokensGood, Init
<1>10. QED
  BY <1>1, <1>3, <1>6, <1>7, <1>8, <1>9 DEF Inv

(* Table, tokens and the threads' requests stay consistent. *)
THEOREM AuthInvariant == Spec => []Inv
<1>1. Inv /\ [Next]_vars => Inv'
  <2> SUFFICES ASSUME Inv, [Next]_vars PROVE Inv'
    OBVIOUS
  <2>1. TypeOK' /\ RowsInPlace'
    BY TypeNext, RowsNext DEF Inv
  <2>2. TokensGood' /\ KnownGood'
    BY TokensNext, KnownNext
  <2>3. \A t \in Threads : HandlerOK(t)'
    BY HandlersNext
  <2>4. ActorsHaveTheRole' /\ SessionsEnd'
    BY RolesNext, SessionsNext
  <2>5. QED
    BY <2>1, <2>2, <2>3, <2>4 DEF Inv
<1>2. QED
  BY InvInit, <1>1, PTL DEF Spec

(* Every variable keeps its type. *)
THEOREM AuthTypeCorrect == Spec => []TypeOK
<1>1. Inv => TypeOK
  BY DEF Inv
<1>2. QED
  BY AuthInvariant, <1>1, PTL

(* Whoever is in a handler is a user whose row has a role the route permits. *)
THEOREM RolesHold == Spec => []ActorsHaveTheRole
<1>1. Inv => ActorsHaveTheRole
  BY DEF Inv
<1>2. QED
  BY AuthInvariant, <1>1, PTL

(* No token lets anyone in later than Expiry after a login. *)
THEOREM SessionsAreBounded == Spec => []SessionsEnd
<1>1. Inv => SessionsEnd
  BY DEF Inv
<1>2. QED
  BY AuthInvariant, <1>1, PTL
-----------------------------------------------------------------------------
(* A login is refused only by FindByEmail, and only if the table says so. *)
LEMMA RefusalIsMeant ==
  ASSUME Inv, NEW t \in Threads, Step(t)
  PROVE  KnownAccountsWork'
<1>1. TypeOK /\ KnownGood /\ HandlerOK(t)
  BY DEF Inv
<1>2. CASE BeginLogin(t) \/ BeginEvaluate(t)
  <2>1. response' = NoResponse
    BY <1>2 DEF BeginLogin, BeginEvaluate, Start, Goto
  <2>2. QED
    BY <2>1 DEF NoResponse, KnownAccountsWork
<1>3. CASE BeginWithToken(t)
  <2>1. PICK r \in Request : r.route \in Routes /\ Arrive(t, r)
    BY <1>3, ArrivalType
  <2>2. r.route # "login"
    BY <2>1, AuthAssumption DEF RouteRole
  <2>3. response' = NoResponse \/ response'.req.route = r.route
    BY <2>1 DEF Arrive, Admit, Refuse, Refusal, Blank, Start, Goto
  <2>4. QED
    BY <2>2, <2>3 DEF KnownAccountsWork, NoResponse
<1>4. CASE FindByEmail(t)
  <2>1. CASE MayLogin(req[t].account)
    BY <1>4, <2>1 DEF FindByEmail, Goto, NoResponse, KnownAccountsWork
  <2>2. CASE ~MayLogin(req[t].account)
    <3>1. response' = [req |-> req[t], status |-> "unauthorized"]
      BY <1>4, <2>2 DEF FindByEmail, Respond
    <3>2. req[t].account \notin req[t].known
      BY <1>1, <2>2 DEF KnownGood
    <3>3. QED
      BY <3>1, <3>2 DEF KnownAccountsWork
  <2>3. QED
    BY <2>1, <2>2
<1>5. CASE ValidateApiKey(t)
  <2>1. CASE Respond(t, "unauthorized")
    <3>1. pc[t] = "key" /\ response' = [req |-> req[t], status |-> "unauthorized"]
      BY <1>5, <2>1 DEF ValidateApiKey, Respond
    <3>2. response'.req.route = "evaluate"
      BY <1>1, <3>1 DEF HandlerOK
    <3>3. QED
      BY <3>2 DEF KnownAccountsWork
  <2>2. CASE ~Respond(t, "unauthorized")
    BY <1>5, <2>2 DEF ValidateApiKey, Goto, NoResponse, KnownAccountsWork
  <2>3. QED
    BY <2>1, <2>2
<1>6. CASE Issue(t) \/ Insert(t) \/ InsertRefused(t) \/ InsertInDoubt(t) \/ Handle(t) \/ CallFails(t)
  <2>1. response'.status \in {"ok", "conflict", "error"}
    BY <1>6 DEF Issue, Insert, InsertRefused, InsertInDoubt, Handle, CallFails, Respond
  <2>2. QED
    BY <2>1 DEF KnownAccountsWork
<1>7. QED
  BY <1>2, <1>3, <1>4, <1>5, <1>6 DEF Step

(* An account acknowledged before a login was sent is not refused by it. *)
THEOREM AccountsWork == Spec => []KnownAccountsWork
<1>1. Init => KnownAccountsWork
  BY DEF Init, NoResponse, KnownAccountsWork
<1>2. Inv /\ KnownAccountsWork /\ [Next]_vars => KnownAccountsWork'
  <2> SUFFICES ASSUME Inv, KnownAccountsWork, [Next]_vars PROVE KnownAccountsWork'
    OBVIOUS
  <2>1. CASE UNCHANGED vars
    BY <2>1 DEF vars, KnownAccountsWork
  <2>2. CASE Tick
    BY <2>2 DEF Tick, NoResponse, KnownAccountsWork
  <2>3. ASSUME NEW e \in Email, InsertSettles(e)
        PROVE  KnownAccountsWork'
    BY <2>3 DEF InsertSettles, NoResponse, KnownAccountsWork
  <2>4. QED
    BY <2>1, <2>2, <2>3, RefusalIsMeant DEF Next
<1>3. QED
  BY <1>1, <1>2, AuthInvariant, PTL DEF Spec
-----------------------------------------------------------------------------
(* scripts/seed.sql: a table nobody in it can log in to stays that way. *)
LockedOut ==
  /\ NobodyGetsIn
  /\ \A t \in Threads : pc[t] # "issue"
  /\ \A e \in Email : doubt[e] = NoUser
  /\ \A a \in Account : ~MayLogin(a)

NoPasswordFits == \A u \in SeedUsers, p \in Password : u.digest # HashPassword(u.id, p)

(* Without a password that fits a seeded digest, no token is ever issued    *)
(* and no registration ever let through.                                    *)
THEOREM SeedLocksOut == NoPasswordFits /\ Spec => []NobodyGetsIn
<1>1. NoPasswordFits /\ Init => LockedOut
  <2> SUFFICES ASSUME NoPasswordFits, Init PROVE LockedOut
    OBVIOUS
  <2>1. \A e \in Email : users[e] # NoUser => users[e] \in SeedUsers
    BY DEF Init
  <2>2. \A a \in Account : ~MayLogin(a)
    BY <2>1 DEF MayLogin, Account, NoPasswordFits
  <2>3. QED
    BY <2>2 DEF LockedOut, NobodyGetsIn, Init
<1>2. TypeOK /\ LockedOut /\ [Next]_vars => LockedOut'
  <2> SUFFICES ASSUME TypeOK, LockedOut, [Next]_vars PROVE LockedOut'
    OBVIOUS
  <2>1. UNCHANGED <<users, doubt, tokens>>
    BY TableChange, LoginChange
       DEF LockedOut, NobodyGetsIn, Issue, Insert, InsertInDoubt, InsertSettles, dbVars
  <2>2. \A a \in Account : ~MayLogin(a)'
    <3> SUFFICES ASSUME NEW a \in Account PROVE ~MayLogin(a)'
      OBVIOUS
    <3>1. ~MayLogin(a)
      BY DEF LockedOut
    <3>2. QED
      BY <2>1, <3>1 DEF MayLogin, HashPassword
  <2>3. ASSUME NEW t \in Threads
        PROVE  pc'[t] \notin {"issue", "insert"}
    <3>1. CASE RowFound(t)
      <4>1. pc[t] # "find" \/ ~MayLogin(req[t].account)
        BY DEF LockedOut, TypeOK, Request
      <4>2. QED
        BY <3>1, <4>1 DEF RowFound
    <3>2. CASE TokenArrives(t)
      BY <3>2 DEF TokenArrives, LockedOut, NobodyGetsIn
    <3>3. CASE Answered(t) \/ CredentialsArrive(t) \/ Same(t)
      BY <3>3 DEF Answered, CredentialsArrive, Same, LockedOut, NobodyGetsIn
    <3>4. QED
      BY <3>1, <3>2, <3>3, OneMoves, ThreadChange
  <2>4. QED
    BY <2>1, <2>2, <2>3 DEF LockedOut, NobodyGetsIn
<1>3. LockedOut => NobodyGetsIn
  BY DEF LockedOut
<1>4. QED
  BY <1>1, <1>2, <1>3, AuthTypeCorrect, PTL DEF Spec
=============================================================================
