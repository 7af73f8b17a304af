# FeatureFlagX in TLA+

Specifications of FeatureFlagX, the feature-flag server in this repository, the
TLC configurations that check them on small instances, and proofs, checked by
TLAPS, of what matters most for instances of every size. Paths below are
relative to the repository; the C++ code is under `src/`.

## 1. The system

A Drogon HTTP server. A fixed set of worker threads (`FFX_SERVER_THREADS`)
serves requests; a handler runs from its first line to its response on the
thread that received the request, and all its database and Redis calls block.
Several server processes may share one PostgreSQL and one Redis.

    HTTP -> filters (JWT / API key, role) -> FlagController -> CacheService -> Redis
                                                  |
                                             FlagService -> FlagRepo, AuditRepo
                                                                |
                                                         ConnectionPool -> PostgreSQL

### Components

| component | state | operations | hard behaviour | what makes it correct |
|---|---|---|---|---|
| **FlagRepo**, table `flags` (`repositories/flag_repo.cpp`, `models/flag.cpp`, `sql/migrations/001_init.sql`) | one row per (environment, key): id, content, switch, version | `find_by_key`, `list`, `create`, `update`, `toggle`, `remove`; one statement in one transaction on a pooled connection each | a read and the write it prepares are two transactions; a commit may be in doubt; version is an `INTEGER`; nothing replaces a lost connection | the version identifies the content of a row; a call is atomic on its row |
| **AuditRepo**, table `audit_log` (`repositories/audit_repo.cpp`, `002_audit_log.sql`) | entries with the flag before and after | `log_action`, `find_by_flag_key` | a transaction after the write's; its error is ignored; the foreign key refuses entries of deleted flags and cascades | an entry shows two states the flag had, in order; without failures no version of a live flag is missing |
| **CacheService** over Redis (`services/cache_service.cpp`) | JSON per `ffx:flag:<env>:<key>`, 60 s to live | `get_flag`, `set_flag`, `invalidate`; all errors become a miss or nothing | filled by readers without regard to writers; late `SETEX`; one cache for all processes; `:` in names; flags travel as JSON | serves committed states of the flag asked for; outdated entries go away |
| **FlagController + FlagService** (`controllers/flag_controller.cpp`, `services/flag_service.cpp`) | locals of each handler | get, list, create, update, delete, toggle, evaluate, evaluate_bulk | interleaving at every call, failed calls, crashes | a change happens at one moment of its request and is answered with what it did; other answers, but those of get, were true at a moment of theirs |
| **Rule evaluation** (`FlagService::evaluate_flag`) | none | `rule_matches`, `percentage_hash` | boundaries of percentages, absent attributes, order of rules | growing roll-outs keep their users |
| **ConnectionPool** (`repositories/connection_pool.cpp`) | `available_`, `mutex_`, `cv_`, guards | `acquire`, `~ConnectionGuard` (`release`) | notify after unlock, spurious wake-ups, overtaking | one place per connection, no lost wake-up, no pop from an empty vector |
| **AuthService, filters, AuthController** (`services/auth_service.cpp`, `middleware/`) | table `users`; tokens held by clients | `login`, `register_user`, `validate_token`, `validate_api_key`, role checks per route | registrations race; commits in doubt; the role comes from the token, not from the table; a token outlives the login | only a user with a permitted role reaches a handler, for a bounded time after a login; acknowledged accounts work |
| **PropagationService** (`services/propagation_service.cpp`) | a publisher, a subscriber thread, `running_` | `publish_change`, `start_subscriber`, `stop` | time-outs, lost messages and connections, stop at any step of the thread | stop returns and leaves no thread behind; what is sent on a connection that lasts is applied once, in order. *Not constructed by the server* |
| **AdminController** | none | audit query | – | reads only |
| **main, ServiceRegistry, AppConfig** | the services | start-up | – | everything exists before the first request |

Components interact by calls on the handler's thread; the two stores are the
only shared state apart from the pool. Threads and messages occur in
`PropagationService` only: a subscriber thread of its own and Redis' Pub/Sub
channel between instances. Nothing constructs that class, so the server as it
is has neither, and the handlers' models are complete without it.

### Behaviours a test hardly reaches

`PROJECT.json` lists them under `hazards`, each at its line with the properties
that cover it. The main ones: a reader fills the cache with a row that was
changed meanwhile (`flag_controller.cpp:62`); the previous value in an audit
entry is read by another transaction than the one that writes the new value
(`flag_service.cpp:35`); a failed call or a crash between commit, audit entry
and invalidation; a Redis command that runs after its client gave up; delete
and re-create between two calls of another handler; threads that overtake a
notified one in the pool; a connection that breaks at any line of a repository
method and goes back into the pool; `stop` meeting the subscriber thread before
its first step, inside `consume()` or after it has died.

## 2. Modules

| module | models | uses |
|---|---|---|
| `Flags` | the `Flag` entity, its name and its JSON | |
| `FlagStore` | tables `flags` and `audit_log`, each repository call on them one operator, but the audit query | `Flags` |
| `CacheService` | Redis entries, `cache_key`, `SETEX`, `DEL`, expiry, late commands | `Flags` |
| `FlagServer` | the handlers on their threads, over both stores: the composed system | `FlagStore`, `CacheService`, implements `FlagBoard` |
| `FlagBoard` | what the handlers promise the clients | `Flags` |
| `ConnectionPool` | the pool's monitor | implements `PoolContract` |
| `PoolContract` | what the pool promises its callers | |
| `RepositoryCalls` | the body all repository methods share: connection, transaction, statement, commit, clean-up, against a server with row locks | `PoolContract`, `Statements`, implements `AtomicCalls` |
| `AtomicCalls` | what a repository method promises its caller | `Statements` |
| `Statements` | the statements of `FlagRepo` on a row reduced to its version | |
| `Propagation` | publisher, subscriber thread and owner of `PropagationService` | |
| `FlagEvaluation` | the value of a flag for one user while its rules are edited | |
| `Auth` | table `users`, login, registration, tokens, API keys, the filters of every route | |
| `MC*` | constants and symmetry of the TLC runs | |
| `*_proofs` | theorems | |

The layers fit together by their abstractions. `RepositoryCalls` uses the pool by
`PoolContract`, which `ConnectionPool` implements. It implements `AtomicCalls`:
each repository call is one step, or none, or stays in doubt. `FlagServer` takes
its repository calls as such steps, `WriteInDoubt` among them, and implements
`FlagBoard`, where a whole request is one step.

### FlagServer

`pc[t]` names the repository or cache call thread `t` makes next; each action
is that call together with the handler's code up to the next one. The order of
calls is the code's:

    get            lookup (cache.get_flag) -> find -> fill (cache.set_flag)
    evaluate       lookup -> find            the cached flag is not used
    evaluate_bulk  find for each key         every key in its own transaction
    list           find, once for all keys of the environment
    create         write -> audit
    update, toggle, delete   find -> write -> audit -> invalidate

`local[t].existing`, `local[t].result` are FlagService's variables of these
names. `FindNothing`, `WriteRefused` are the early returns. A handler that
meets a database error before its commit (`CallFails`), or one that breaks
while the commit or the reading of its result is under way (`WriteInDoubt`),
answers with an error and does neither log nor invalidate, as the code's
`catch` blocks do. PostgreSQL may work off such a commit later, after the client
has heard of the error and acted on it (`WriteSettles`), or never: `doubt[n]` is the
write in question. As its transaction has the row's lock, another write to the
row commits only once it is settled (`WriteCommits`). Audit and Redis errors are
ignored by the code, so `AuditFails`, `LookupFails`, `FillFails`, `InvalidateFails` go
on. After 500 ms the Redis client gives up while Redis may still run the command:
`LateSet`. A late `DEL` has the effect of `InvalidateFails` followed by `ExpireEntry`, so it
needs no action of its own. `Crash` ends a process: its handlers vanish, the
stores stay.

What data is abstracted: content, type, rules and description of a flag are one
value `body`, since the handlers move them as one; `enabled` and `version` are
kept because statements compute with them. Uuids are numbers in order of
creation. Environments and keys are sequences of their `:`-separated segments,
the only structure `cache_key` depends on. What the cache holds is `ToJson` of a
flag, and what a reader gets is `FromJson` of that, with the code's defaults for
members that are missing. `Asked` is the set of operations and names clients
ask for, all of them unless an instance restricts it.
Answers are `ok`, `not_modified`, `not_found`, `conflict`, `error` rather than
HTTP codes; the code uses 400 or 404 for several of them. `evaluate_bulk` has a
set of keys, evaluated in any order, which includes the order of the request;
a key listed twice and an empty list are left out. Of a request that is
refused before its first call (bad JSON, missing header), nothing is modelled:
it changes nothing.

Variables that are not in the code: `committed`, `seen` and `raced` are
histories for the properties, `copy` is a client's own cache of answers,
`response` the last answer sent.

### FlagBoard

A board of flags, the flags that ever stood on it, the requests under way, the
last answer, and the changes answered with an error that are `unsettled`. A
mutation is `Ask`, one `Change`, `AnswerChange`, or `Ask` and `Refuse`; after an error
(`Fail`) it may take effect still, once and entirely (`Settle`), or the board
forgets it. Evaluations read each flag once (`Look`) and a list all at once, between
request and answer; a get may answer with anything from the past of its flag.
`FlagServer` maps `flags` to the board, `committed` to its past and `Underway(t)` to
the requests: one is done when its write has committed. `unsettled` is `writesInDoubt`.

### ConnectionPool

One action per locking step of `acquire` and `release`. `wait` unlocks and
blocks in one step, may return spuriously, and locks again before it tests the
predicate again. `release` pushes under the mutex and notifies after unlocking.
The constructor is `Init`.

### RepositoryCalls

    Call -> Acquire -> Begin -> Execute -> Commit -> AwaitCommit -> Release
                                  \ refused, or NoticeLoss \-> Rollback -> Release

`local[t].failed` is an exception in flight: the destructors of `work` and of the
guard run, then the `catch` block's error is the answer. `lock[r]` is PostgreSQL's
row lock with the uncommitted version, `committing` the `COMMIT` under way. A
statement evaluates its `WHERE` and `SET` when it gets the lock (`Execute`), as READ
COMMITTED does. `ConnectionBreaks` may happen at any moment; the thread notices at
its next use, the server commits what it had received or aborts (`ServerCommits`,
`ServerAborts`), maybe after the thread has gone: then the lock is `Gone`'s. The
connection goes back into the pool all the same and fails whoever gets it.
`AtomicCalls` keeps a call that ended in an error in `doubt` until it takes effect
or is given up, and a change of the row waits for that; `FlagServer`'s `doubt` is
the same thing at its level.

### Propagation

`pc[i]` is the line the thread of instance i has got to, `owner[i]` whether its
owner is inside `stop`. The constructor is `Init`, with the clients it managed to
create. `PublishChange` sends to all connections subscribed at that moment: Redis
keeps nothing for others. `Consume`, `Timeout` and `ConsumeFails` are the outcomes
of `consume()`, `LinkBreaks` the loss of a connection with some of what was under
way on it. `sent`, `taken` and `heard` follow one thread from its start. Clients of
the class call `start_subscriber` and `stop` in turn; without callers in `src/`
this is taken from the destructor calling `stop` and from `stop` testing `joinable`.

### FlagEvaluation

`RuleMatches` has every operator of `rule_matches`. The functions of the
standard library are parameters: `Number` for `std::stod` (with a value for
the exception), `Contains` for `find`, `Hash` for `std::hash`. The theorems hold
for all of them. An unknown operator, a missing attribute, an empty `values`
list all mean no match. Rules and switch change by whole-flag updates and
toggles, as the handlers do it.

### Auth

`login` is `find` (the row by email, and the comparison of the hashes) and
`issue`; `register_user` is `insert`, which takes effect (`Insert`), is refused, or ends
in an error with the commit in doubt (`InsertInDoubt`), to succeed later
(`InsertSettles`) or never; another insert of the email waits for that at the
unique index. A request with an API key is `key` before
its handler. A token is checked without a call, so the filters on it are one
step with the arrival of the request (`Admit`, `Refuse`): JwtFilter, then
EditorFilter or AdminFilter according to `RouteRole`, which is the
`METHOD_LIST` of the three controllers. `handle` stands for the handlers of
`FlagController` and `AdminController`.

SHA-256 is told apart by what was hashed, `<<salt, password>>`; `<<>>` is the
hash of the empty string, which `scripts/seed.sql` contains. A row's uuid, salt
and API key are random and each other's equals in being fresh: the number of the
row stands for them. A token is its subject, role and expiry; tokens that were
not issued here do not verify. `tokens` holds every token ever received, as
clients may keep them. Nothing in the code changes or deletes a row of `users`.
`now` is the clock all processes share, and does not run backwards. `known` and
`logins`, and the fields `known` of a request and `at` of an actor, are
histories.

## 3. What TLC checks

| run | instance | what it shows |
|---|---|---|
| `safety` | 2 threads of one process; get, create, toggle, delete of one flag, create, update, evaluate_bulk with another one; versions to 2, 2 rows; no failure | all safety properties of the handlers, and that they implement `FlagBoard` (539,852 states) |
| `faults` | 2 processes, an empty table and 1 row to create, all operations but update and evaluate_bulk, 2 faults; fair | the inductive invariant `Inv`, `FlagBoard` under failures, late commits and crashes, `OnlyChangesOutdate` and `CacheHeals` (323,077 states) |
| `pool` | 5 threads, 3 connections, fair | safety of the pool, that it implements `PoolContract`, and `GrantsEventually` |
| `calls` | 2 threads, 2 connections that may both break, 1 row, versions to 2, fair | repository methods implement `AtomicCalls`, leave clean connections, blame the right one, never wait in a circle, and all return (132,886 states) |
| `services` | 2 instances, 2 keys, 2 messages, 2 starts, 1 fault, fair | stop and messages of the subscribers (42,204 states) |
| `accounts` | 2 threads, an administrator and a second email, 2 passwords, clock to 1, 1 fault | who gets into a handler and for how long; accounts under racing and failing registrations and late commits; the invariant `Inv` of `Auth` (523,503 states) |
| `evaluation` | 20 users, up to 2 rules, 11 kinds of rule | roll-outs and contexts |

Five runs expect a violation; they are section 5.

### The properties

* `VersionIdentifiesContent`: two committed states of a row with the same
  version are the same. The ETag and every later comparison rest on it. It
  would fail if two overlapping updates could both write version n + 1.
* `GetServesCommitted`: a get answers with a state the flag asked for had.
* `NotModifiedSameRow`: as long as the row was not replaced, a 304 is right: the
  client's copy has all the content the response would have had. The finding
  `etag` is about the other case.
* `AnswersFresh`: every other answer is true of the database at a moment
  between request and response: evaluations are never outdated, although
  gets may be, and a mutation answers with what *it* committed.
* `ServesTheBoard`: the handlers implement `FlagBoard`. Two toggles that overlap
  both count, an update builds on the row it finds when it is applied and not
  on the one it looked up, nothing happens twice or after its answer, a bulk
  evaluation misses no flag, and a change that ended in an error takes effect
  entirely or not at all, and once, however late its commit comes.
* `AuditFaithful`: although `prev_value` and `new_value` come from separate
  transactions and the flag may be deleted and created between them, an entry
  shows two states of the same name in the order they were committed, under
  the id of the new one. `prev_value` need not be the state directly before.
* `AuditComplete`: without faults, every version of a flag that exists is
  in the audit log or about to be. What `GET /api/v1/audit` returns of the log is
  another matter: the latest entries, 50 of them unless the client sets a limit.
* `OutdatedExplained`: without faults, a cache entry is outdated only while its
  writer has not invalidated yet, or because a reader wrote an outdated row.
* `CacheHeals`: whatever failed, the cache agrees with the database for good
  some time after the last change. `OnlyChangesOutdate` is its safety part: once
  nothing outdated about a flag is cached or on its way into the cache, in a
  handler or in a late command, only another commit can change that.
* `CallsAreAtomic`: repository methods implement `AtomicCalls`: the statement's
  read and what the commit publishes are not separated by another transaction,
  and an answer other than an error is that of this one step.
* `PooledAreClean`: no connection is pooled with a transaction object on it,
  whichever path its user took. `BlamesConnection`: a method that fails otherwise
  than by its statement had a lost connection itself, so that a lost connection
  in the pool harms only those that get it. `HoldersReturn`: no row lock, lost
  connection or lost client keeps a connection in use for ever. `WaitsEnd` is its
  safety part: whoever holds a row lock that others wait for is about to commit,
  or its connection is lost and the server ends the transaction. Nobody waits
  for a row and a connection at once, so no circle can form over locks and pool
  together; it would, if a method called another one before its commit.
* `QuietOnceStopped`: once `stop` has returned there is no thread that refers to
  the cache. `StopReturns`: it returns wherever it meets the thread. `StopIsNear` is
  its safety part: from then on each step brings the thread nearer to its end,
  which is at most four of its steps away, and no message or failure sets it back.
* `HearsInOrder`, `HearsWhatIsSent`: what a subscriber invalidates is what was sent
  to it, in order and without gaps, and on a connection that lasts it invalidates
  all of it, time-outs between messages or not.
* `PopsSomething`, `OnePlace`, `NoLostWakeup`, `KeepsContract`,
  `GrantsEventually`: see their comments in `ConnectionPool.tla`.
* `StaysIn`: a user who was given a rule's value keeps it, or that of an
  earlier rule, while percentages only grow and rules are only appended,
  whatever the switch does in between. `RolloutBounds`: 0 % and 100 % mean
  nobody and everybody. `MoreContextKeepsMatch`: more attributes never lose a
  match.
* `ActorsHaveTheRole`: a handler works for a user whose row has *now* a role the
  API table of the README permits, although only the token was looked at.
  It would fail if rows could change, or roles were compared wrongly.
* `SessionsEnd`: whoever a token lets in had logged in at most `Expiry` before.
* `KnownAccountsWork`: a login with an account whose registration had been
  acknowledged is not answered "Invalid credentials", although others try to
  register the same email, and calls fail, at the same time.

### Bounds

`MaxVersion` is the largest value of the version column; reaching it is itself
one of the checked cases, as the update then fails. Two versions, two rows in
succession under one name and two threads suffice for every overlap of two
handlers, including delete and re-create inside another handler; a third
handler can act between any two steps of one because a thread serves many
requests in turn while the other is stopped. `MaxFlags` bounds the rows ever
created, `MaxFaults` faults and crashes together: with two, a handler can fail
and the one repairing its effect as well. One body is enough where `enabled`
already makes two contents. Threads are symmetric; the runs of liveness use no
symmetry. In `safety` the operations are divided between two names, which keeps the
instance small: delete and re-create happen under one, and the bulk evaluation
sees one flag replaced and the other come and change. In `faults` with one name
an evaluate_bulk would be the second call of an evaluate, and an update takes the
path of a toggle, call by call; the table starts empty, so that a create can fail
too. In `calls` two
connections suffice for two threads to meet on the row, or for one thread to
meet the lost transaction of the other, or its own former one, with no sound
connection left or with one. In `services` two starts let a second thread follow
one that ended or died, and two messages let one be lost and the next not. In
`evaluation` the hashes 0, 24, 25 and 99 lie at the edges of the percentages 0, 25
and 100; two rules are enough for one to shadow another.
In `Auth`, `MaxTime` lets a token expire between two uses (`Expiry` + 1, with `Expiry` = 0);
`SomeRoutes` has one route of each way into a handler, since the model treats the others
alike and the proofs cover all routes. Two emails allow one registration
to race with another or with an existing user.

### Fairness

`CacheHeals` assumes that Redis expires entries, since each is written with
`SETEX`, and nothing else. It does not assume that handlers come to an end, that
requests come, that faults stop by themselves (they are bounded), or that late
commands and commits happen. It needs that flags change finitely often.
`GrantsEventually` assumes that the scheduler runs a thread that can run
(`Proceed`); it does not assume that queries end or that the mutex is fair, so
it promises progress of the pool and not of every thread: the code lets a
thread be overtaken for ever. `HoldersReturn` assumes that threads run and that
the server answers and finally notices lost clients. `Execute` is strongly fair:
PostgreSQL grants a row lock to those waiting in their order. `HearsWhatIsSent` and
`StopReturns` assume that the subscriber thread runs, that `consume()` returns
within its socket time-out of 500 ms, that the pause ends, and that `join` returns
when the thread has ended; not that anybody publishes, starts or stops.

## 4. What is proved

For every number of threads, processes, names, versions, rules, faults and any
hash function. The assumptions are the named `ASSUME`s of the modules.

`FlagServer_proofs`, by one chain of inductive invariants, each using the one
before:

1. `TypeInv` = `TypeOK` and `HandlersOK` (what a handler holds when it gets to
   a call, e.g. that a handler at `fill` has a row). Theorem `TypeCorrect`.
2. `TableInv` adds `TableNewest`: the row in the table is the newest ever
   committed under its name, and ids are not reused. That is what makes
   `VersionIdentifiesContent` inductive: a new version is one more than that of
   the newest row. Theorem `VersionsIdentify`.
3. `HeldInv` adds `HoldsCommitted`: whatever handlers, cache and late commands
   hold was committed, under the right name or key. Theorem
   `GetsServeCommitted`, under the assumption `CacheKeysDistinct`; theorem
   `PlainEnvironmentsKeepApart` shows that this holds if no environment has a
   `:` (more generally if all have equally many). It does not hold otherwise,
   see section 5.
4. `CopyInv` adds `CopiesCommitted`: what clients keep, and send as `If-None-Match`,
   was committed. With `VersionsIdentify` that gives theorem `RevalidationIsSound`:
   equal versions of one row are equal rows, so a 304 tells the truth about it.

`DoubtOK` goes with the first of them: a write in doubt belongs to its name, and
there is one only after a fault. A late commit is then a step like the handler's
own, on the row as it is when it happens.

`FlagServerAudit_proofs` adds `EntryInOrder`: a handler at `audit` holds a pair
in order, or the id of a row that is gone and whose entry will be refused.
Theorem `AuditIsFaithful`. Theorem `AuditIsComplete` is by another invariant over
`HeldInv`: while nothing has failed, each version of a row that exists, but the
seeded one, is logged or held by a handler at `audit`. `FlagServerWindow_proofs`
adds `WindowOK`: `seen[t]` has the current row of every name of the request and
everything the response will say, and an evaluation has a row of each name it is
through with. Theorems `AnswersAreFresh` and, with `HeldInv`, `OutdatedIsExplained`. Theorem
`OnlyChangesSpoil` states `OnlyChangesOutdate`: a handler goes to `fill` with the row it
reads at that moment (lemma `FillStarts`), a failed fill becomes a late command with
the same row, and an entry read back from the cache's JSON is the row that was
written.
Theorem `ServerInvariant` is the conjunction of all parts, `Inv`, which the run
`faults` checks.

Theorem `ServerImplementsBoard`, the refinement: under `HeldInv` and `WindowOK` (and
`CacheKeysDistinct`) every action is a step of `FlagBoard` or changes nothing there.
`TableNewest` gives that the row a statement meets carries the version `Follows`
wants to go on from and that a new id is new; `HoldsCommitted` that a get answers
from the past; `WindowOK` that an evaluation's last call leaves no name unread.

`ConnectionPool_proofs`: the invariant is type correctness, mutual exclusion,
`PopsSomething` and that each connection has one place (stated by positions;
lemma `Counted` derives `OnePlace`, which counts). `NoLostWakeup` is
inductive on top of it: a push adds one connection and one notifying thread, a
notification turns that thread into a notified one or finds nobody waiting,
and a thread goes to wait only from the mutex with the pool empty. Theorems
`PoolTypeCorrect`, `PopsAreSafe`, `ConnectionsStayInOnePlace`, `WakeupsAreNotLost`
and `PoolKeepsContract` (the refinement).

`RepositoryCalls_proofs`: `CallInv` says who has which connection (`Stations`), that
the transaction objects are those of the threads inside a method (`Opened`,
hence `PooledAreClean`), `BlamesConnection`, what a thread knows of its call
(`Progress`), and that a locked row still is as the statement found it, its owner
being the lock's thread or gone (`Locks`). The last one is what makes the commit
the one moment of the call. `WaitInv` adds `CommitSent`, that a thread waiting for
its commit has sent it; `NoWaitingInCircles` (`WaitsEnd`) follows. Theorems
`CallsTypeCorrect`, `PoolStaysClean`, `FailuresAreConfined`, `MethodsAreAtomic` (the
refinement).

`Propagation_proofs`: `PropInv` adds to the two invariants that a thread has taken
as many messages as it has heard, one more while it handles one (`Counted`), and
none that was not sent. `Halted` says that `running_` stays cleared while `stop`
waits; with it, `Distance` is a rank that every step of the thread lowers. Theorems
`PropagationTypeCorrect`, `NoThreadOutlivesStop`, `MessagesAreHeardInOrder`,
`StoppingComesNearer`.

`FlagEvaluation_proofs`: `EvalInv` says that the rule that answered last still
matches, unless a change did more than extend the roll-out. Theorems
`EvaluationTypeCorrect`, `UsersStayIn`, `RolloutsAreBounded`, `MoreContextIsSafe`.

`Auth_proofs`: `Inv` says that rows stay and have a number of their own, that a
token names user and role of a row and stems from a login, and that every known
account may log in. `RowsInPlace` covers the rows in doubt too: none is about to
take the place or the number of another. Lemma `RowsKept` is the core: what held
of a row when a token was issued holds when the token is used. Theorems `AuthTypeCorrect`, `RolesHold`,
`SessionsAreBounded`, `AccountsWork`, `AuthInvariant`; `SeedLocksOut` assumes that no password
fits a seeded digest.

Only model-checked: `CacheHeals`, `GrantsEventually`, `HoldersReturn`,
`HearsWhatIsSent` and `StopReturns`, because TLAPS proves no liveness under fairness
here. Of three of them the safety part is proved: `OnlyChangesSpoil`,
`NoWaitingInCircles` and `StoppingComesNearer` say that nothing undoes what was
reached, or that somebody can always go on; TLC adds that fairness then gets
there. Every safety property of the runs is a theorem.

## 5. Where documents and code disagree

* `history` / `FullMutationHistory`. README.md:47 says "Full mutation history
  for compliance and debugging". `delete_flag` removes the row and then logs
  the delete, which the foreign key refuses; the entries before it went with
  the row (`ON DELETE CASCADE`). The trace is one create or seed and one delete.
* `etag` / `NotModifiedSound`. README.md:48–49 offers `If-None-Match` and
  versions "for staleness detection". After delete and re-create versions start
  at 1 again, and a client's copy of the deleted flag is confirmed with 304.
* `coherence` / `CoherentAtRest`. README.md:42 says "instant" invalidation. A
  reader that read before a mutation fills the cache after its invalidation.
* `sync` / `SubscribedAgain`. README.md:43 says "Redis Pub/Sub propagates flag
  changes across all service instances". When its connection is lost the
  subscriber logs, pauses and calls `consume()` on the same `Subscriber` again
  (`propagation_service.cpp:77`), which fails for ever: it never subscribes anew. A thread that cannot connect at
  its start ends instead (line 86), which this property does not count.
* `seed` / `DocumentedLoginWorks`. README.md:62 logs in with the "default admin
  from seed", and `scripts/seed.sql:2` says "Password: admin123 (SHA-256 with
  salt, demo only)". The digest there is that of the empty string, while
  `hash_password` hashes salt and password, so this login is refused. Since
  registration needs an administrator's token, nobody gets one in a database as
  shipped (theorem `SeedLocksOut`, that is `NobodyGetsIn`); only the seeded API key works.

A sixth one needs no run: `tests/test_cache_service.cpp:78` says "Verify different
environments produce different cache entries", but two names with `:` in
environment and key can share an entry (`cache_key` of `a:b` and `c` is that of `a`
and `b:c`). The theorems about answers from the cache therefore assume
`CacheKeysDistinct`, which `PlainEnvironmentsKeepApart` derives for environments
with equally many `:`.

## 6. Not modelled

* Start-up (`main`, `ServiceRegistry`, `AppConfig`): sequential, before the first
  request; its result is the `Init` of the modules. A pool size of 0 is accepted
  by `AppConfig` and makes the first request wait for ever: the models of the
  pool assume a connection.
* JSON envelopes, error texts, time stamps and configuration values: wording and
  formats.
* Headers, JSON and claims of a token that are missing or malformed: refused
  without effect.
* `is_healthy`: a ping without effect.
* The audit query (`AdminController::get_audit_log`, `AuditRepo::find_by_flag_key`):
  one `SELECT` with an order and a limit, which changes nothing. The properties of
  the audit log speak of the table.
* `AuthService`'s and `AuditRepo`'s methods have the body `RepositoryCalls` models,
  over other statements; their own modules have them as single steps.

## 7. Plan

Done, in this order: `Flags`, `FlagStore`, `CacheService`, `FlagServer`;
`ConnectionPool` with `PoolContract`; `FlagEvaluation`; `Auth`; `Propagation`;
`RepositoryCalls` with `AtomicCalls`; `FlagBoard`; each with its runs and proofs.

A composition of `Auth` with `FlagServer` was considered and left out: the filters
run to their end before the handler on the same thread, and nothing changes a row
of `users`, so `ActorsHaveTheRole` at the start of a handler holds until its end.

Next for the proofs: the abstract specifications by themselves, so that a reader
can rely on `FlagBoard`, `AtomicCalls` and `PoolContract` without the detailed modules,
and what carries over to the implementations through the refinements.

Possible next steps for the model: if the server comes to construct `PropagationService`, its
composition with `CacheService`, and whether messages shorten the time `CacheHeals`
speaks of; if it comes to replace lost connections, a pool that shrinks and
grows in `PoolContract`.
