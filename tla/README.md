# Task manager: specifications and proofs

TLA+ models of the task manager in `src/`: a Go server that offers one set of
services over REST (gin) and gRPC, keeps its data in MySQL, caches it in Redis,
signs JWTs, and asks an external HTTP API about users. The modules follow the
code statement by statement where statements of several requests interleave,
and abstract the data to what the properties tell apart.

    tlc -config RepoAudit.cfg MCTaskRepo      # a run; the table below has them all
    tlapm TaskRepoProofs.tla                  # the proofs of a module

## 1. Inventory

| component | source (`src/`) | state | operations |
|---|---|---|---|
| task repository | `internal/repository/task_repo.go`, `migrations/001_schema.sql` | tables `tasks`, `task_history`, `task_assignments`; open transactions | Create, GetByID, List, Update, Delete, Assign, Unassign, Assignees, History |
| task service | `internal/service/task_service.go` | none of its own; Redis entries `task:<id>` | Create, Get, List, Update, Delete, Assign, Unassign, History |
| user repository | `internal/repository/user_repo.go` | tables `users`, `roles` | Create, GetByID, GetByUsername, List, UpdateRole, Deactivate, GetRoleByName |
| user service | `internal/service/user_service.go` | Redis entries `user:<id>`, `ext:user:<n>` | GetByID, List, UpdateRole, Deactivate, Enrich |
| authentication | `internal/service/auth_service.go`, `internal/auth/jwt.go`, `internal/middleware` | tokens in clients' hands | Register, Login, Issue, Parse, RequireAuth, RequireRole |
| front ends | `internal/handlers`, `internal/grpcserver` | none | decode, call a service, map its error to a reply |
| process | `cmd/server/main.go`, `internal/database` | listeners, goroutines, WaitGroup, contexts, open stores | start, bootstrapAdmin, serve, shut down |
| cache | `internal/cache/redis.go` | Redis | Get, Set, Del (and Incr, which nothing calls) |
| external client | `internal/external/userclient.go` | none | GetUser |
| messages, codec, gRPC client, configuration, logging, deployment | `proto`, `cmd/grpcclient`, `internal/config`, `internal/logger`, compose file | none | - |

How they interact. Each request has a goroutine of its own, which runs a handler,
the middleware in front of it and a service method; the method issues statements
to MySQL and Redis one after the other, each of which waits. Goroutines share
nothing but the two stores, and nothing spans a statement except the transaction
in `TaskRepo.Update`. So the hard behaviours are

- interleavings of statements of different requests: what one read is stale when
  it acts on it (authorization, cache fills, the two statements of GetByID);
- cache-aside without a lock or a version: a fill may overtake an invalidation,
  and the errors of Set and Del are dropped;
- a statement whose effect is committed but whose answer is lost, a process that
  dies between two statements, Redis surviving it;
- tokens that outlive the role and the account they were signed for;
- startup, failure and shutdown of two servers that share a process;
- paging with OFFSET, by a timestamp that ties, through tables that change;
- two doors with different notions of a field that was not given, and error codes
  from which a client has to conclude whether its change was made.

What makes each part correct, in one line: the audit log of a task is the exact
serial history of its changes (repository); the cache disagrees with the database
only for a known reason and never for ever, only those act who may, and callers
see each change made once or not at all (services); a page is missing or repeated
only for a known reason (listings); an answer shows what was sent and its code does
not lie (front ends);
names and emails are unique, admins come from admins, revocation lands
(authentication); servers die together, after their handlers and before the stores,
and repeated signals do not cut handlers off (process).

`PROJECT.json` lists the hazards with the line each bites at and the properties
that cover it.

## 2. Modules

| module | models | extends |
|---|---|---|
| `TaskRows` | a row of `tasks`, an edit, what Update writes and logs for it | - |
| `AuditedTasks` | **abstract**: an edit and its audit rows are one step | `TaskRows` |
| `TaskRepo` | Create, Delete, and Update's transaction, one statement per action; refines `AuditedTasks` | `TaskRows` |
| `TaskBoard` | **abstract**: what callers of the task service are promised | - |
| `TaskService` | the service's methods over rows, assignments and cache; refines `TaskBoard` | - |
| `Listing` | List of tasks and of users, walked through page by page | - |
| `FrontEnds` | Create and Update through REST and gRPC, from the wire to the answer | `TaskRows` |
| `UserRows` | a row of `users` with its role, the statements on the table | - |
| `UserBoard` | **abstract**: what callers of the user service are promised | `UserRows` |
| `UserService` | the service's methods over the table and both caches; refines `UserBoard` | `UserRows` |
| `AuthService` | register, login, tokens, admin changes, bootstrap, restarts | `UserRows` |
| `ServerLifecycle` | main and the two server goroutines | - |
| `MCTaskRepo`, `MCTaskService`, `MCListing`, `MCFrontEnds` | symmetry sets, filters and requests for TLC | the model |
| `...Proofs` | theorems | the model, `TLAPS` |

`UserRowsProofs` holds the lemmas on the table that the proofs of `UserService`
and `AuthService` share. The other models need no MC module: their `.cfg` gives
every constant.

### TaskRows, TaskRepo, AuditedTasks

`tasks`, `history` and `nextId` are the committed tables and the AUTO_INCREMENT,
which a rollback does not give back. `tx[c]` is the open transaction of pooled
connection `c`: `cur`, `todo` and `rows` are Update's local variables and its
uncommitted audit rows. `Begin`, `LockRow` or `NoRow`, `AddHist`, `WriteRow`,
`Commit` are Update's statements in their order; `Abort` is the deferred rollback
after any of them failed, also when the server died. The row lock is InnoDB's:
`SELECT ... FOR UPDATE` and DELETE wait for it. `born` is a history variable
(uuids are not reused). `Conn` is the pool (`SetMaxOpenConns`, mysql.go:18): a
transaction keeps its connection, and a statement outside one needs a free one
(`FreeConn`). Instants are counted in half-seconds, because RFC 3339
in the log cuts fractions off where DATETIME in the row rounds them: an audit
row and the row may disagree by a second, and `Continues` says how.

### TaskService

`job[r]` is the request that goroutine `r` serves: its arguments, the statement it
is at, and what it has read. Update's transaction is one step here, which
`TaskRepo` justifies. A row is its owner and a version. Every statement may fail
(`Fail`), commit and lose its answer (`acked`), or be the last before the server
dies (`Crash`). Cache statements have their own failures, which the code drops
(`CacheMiss`, `CacheSetLost`, `CacheDelLost`). `last`, `excused`, `raced`, `since`
and `mine` are history variables; no guard reads them.

REST and gRPC call the same methods with the same arguments, so a request here is
either's. A reply is its kind; which code stands for it is in `FrontEnds`.

### TaskBoard

What remains of the service when nobody sees a cache, a statement or a
transaction: a request is asked, granted at an instant when its caller is entitled
to the change, takes effect at one later instant or never, looks at the task when
it is to answer with it, and is answered. An error leaves open whether the change
was made (`Take` may go to "error" directly); every other answer does not
(`Excuses`). A cached read is `Recall`: a version the task has or had. What it was
when it is gone is kept in `last`, the row each task has or had last; its owner never
changes and its versions count up from 0, so a past version is one that is no
higher, of the same owner. The mapping in `TaskService` (`Board`) keeps row, assignments
and ids, hides cache and history variables, and reads a request's stage off the
statement it is at: the caller is granted at the read that found him owner or
assignee, which for an owner is one statement before the check.

### Listing

A client walks through GET /tasks, ListTasks or GET /users until a page is empty,
asking for the rows after those it has received. `made` is created_at in whole
seconds; the query's order is any order by `made` descending, chosen anew for each
page, because the code names no tie-break. Tasks and users are created, change
status, are deleted, assigned and unassigned meanwhile, so rows enter and leave a
filtered listing. A row's timestamp is taken when its INSERT begins and it appears
when that ends, hence `Stamp`. `stayed`, `left` and `entered` are history
variables. Selected rows carry no columns here: a page is a set of ids.

### FrontEnds

A wire is what a client wrote: each text field has a value, is empty, or (JSON
only) is absent; the due date is an instant, absent or garbled; clear_due_date is
set or not. `Given`, `EditOf`, `Sent` and `NewRow` are what the two handlers and
the service's defaults make of it, `Acceptable` the validation, `Refusal` the two
tables of error codes. A request is decoded, applied (or refused, or applied with
its answer lost), reads the row again and answers. Authorization is
`TaskService`'s subject, so any update may be forbidden; `TaskRows` says what the
repository writes.

### UserService and AuthService

Both are over the `users` table of `UserRows`, and cut it for different questions.
`UserService` is about its two caches and replies; callers are already authorized.
UPDATE's answer is RowsAffected, which MySQL counts in rows that changed: `Apply`
answers not_found when the table stays as it is. `AuthService` has no caches,
since neither login nor authorization reads one, and no replies. Its tokens are
the pairs of user and role that were signed and have not expired; `Allowed`
looks at the token only, as the middleware does. `admins` is a history variable: the
users whom a login found to be active admins when it read their row, which is where
a token's role comes from. A user may have been demoted between that read and the
signing, or since.
Names and emails are one value per class of strings that the collation holds
equal.

### UserBoard

What is left of the user service without caches, statements and the external API.
A change of a role or a deactivation is made at one step of its request (`Take`),
which may end in an error because the answer was lost, or not at all. A read shows
the user as he is at one instant of the request (`Look`) or, from the cache, as he
once was (`Recall`); `was` keeps each user's present row and all that he had before,
in both modules, and no guard of `UserService` reads it. "Not found" is what `Excuses` says it is: no such user
or, for a change, nothing that it would change. The mapping in `UserService`
(`Board`) keeps the table, hides both caches, and reads a request's stage off the
statement it is at: it is "shown" from the read of the row on, "taken" from the
UPDATE on, and a request for an unknown role never gets that far.

### ServerLifecycle

`main` walks through its statements; `restGo` and `grpcGo` are the goroutines,
`rest` and `grpc` the listeners they serve, `ctx` the signal context. A signal ends
it, and further ones are caught and do nothing; `cancel()`, which a failed server
calls, ends it too and is besides `signal.NotifyContext`'s stop: from then on a signal
has its default action, and `Signal` kills the process with whatever is running and
no deferred close. `failed` is a history variable. `busy` holds the connections and calls with a running
handler, `idle` the kept-alive REST connections, on which a request may still
arrive after the listener was closed. net/http and grpc are modelled from how
main relies on them: Shutdown waits for busy connections until its context
expires, GracefulStop has no limit, and Serve after GracefulStop fails at once (and
so calls `cancel()`, when there is nothing left to wait for).

## 3. Runs

| run | cfg | question | result |
|---|---|---|---|
| `repo` | `RepoAudit.cfg` | do concurrent Updates, Deletes and failures leave a serial audit log; is Update atomic; does every transaction end, also with the pool exhausted | holds |
| `service_cache` | `ServiceCache.cfg` | which disagreements of cache and database can happen, and do they end; does Update answer with its own change; do callers see `TaskBoard` | only the explained ones, yes; yes; yes |
| `service_authority` | `ServiceAuthority.cfg` | does authorization read before the mutation still mean something when it runs; do several callers see `TaskBoard` | holds |
| `service_assigned` | `ServiceAssigned.cfg` | does "assigned" mean assigned | **violated** |
| `service_not_found` | `ServiceNotFound.cfg` | does "task not found" mean there is no task | **violated** |
| `listing` | `Listing.cfg` | which rows can a client that pages miss or see twice | only the explained ones |
| `front_ends` | `FrontEnds.cfg` | is what REST and gRPC store and answer what was sent; what does a status code tell | holds |
| `lifecycle` | `Lifecycle.cfg` | do the servers die together, after their handlers, before the stores; can signals cut handlers off; does a shutdown end | holds; only after a failure; unless a gRPC call never ends |
| `users` | `Users.cfg` | the cache questions, for users; do callers see `UserBoard` | as for tasks; yes |
| `user_not_found` | `UserNotFound.cfg` | does "user not found" mean there is no user | **violated** |
| `auth` | `Auth.cfg` | unique users, where admins come from, whether revocation lands | holds |
| `bootstrap` | `Bootstrap.cfg` | does a successful bootstrapAdmin mean there is an admin | **violated** |

The violated ones are disagreements between the code and what it says:

- **AssignStores** - `INSERT IGNORE` (`task_repo.go:220`) turns the foreign-key
  error of a task deleted meanwhile into a warning; the reply is "assigned".
- **NotFoundMeansNoTask** - one ErrNotFound stands for a missing task, a missing
  assignee and a missing assignment (`task_handler.go:184`).
- **NotFoundMeansNoUser** - RowsAffected is 0 for a change that changes nothing
  (`user_repo.go:90`): deactivating an inactive user is 404.
- **BootstrapMakesAdmin** - `main.go:135` looks for the name, not for an admin
  (`main.go:125`: "creates a default admin if none exists").

### Bounds, and why they suffice

- `RepoAudit`: one task, a pool of two connections, one text field with two values,
  and the due date with two instants, of which one has a fraction to round. No
  transaction begins once two audit ids are used (`MaxHist` 2), but those under way
  go on to log up to two fields each, which makes chains of several edits. Two
  transactions on one row meet a Delete and an Abort at every statement, and a
  statement that finds no free connection. Tasks share nothing but the pool and the
  audit ids, and all text fields go through the same code, so one of each stands
  for several; the proofs are about any number.
- `ServiceCache`: one task, one user, two requests, `MaxVer` 1, all operations but
  unassign, which the cache cannot tell from assign. A cache entry concerns one
  task, and a stale one takes a filler and a mutator; a task changes once in place,
  and by its creation, deletion and assignments.
- `ServiceAuthority`: an admin and a user who may be the owner, assignee or
  neither, and all four mutations of a task; versions are of no interest here, and
  an update leaves the row as it is (`MaxVer` 0).
- `Listing`: two tasks, two users, one of them an admin, two seconds. Both tables,
  no filter, the owner filter a user without the admin role gets then, and assignee
  and status together; pages of one row, where every row
  is at a boundary, and of two. `Default` and `Most` stand for 50 and 200: limits
  of 0 and, for users, above `Most` become `Default`.
- `FrontEnds`: one task, two clients, a title and a priority (one field without and
  one with an ENUM behind it), a due date with a fraction and one without, and nine
  requests: nothing set, each thing set, emptied or wrong, and the pairs in which
  one field decides about another. A second task would add nothing, since requests
  meet only at a row.
- `Lifecycle`: two REST connections, so that one may idle while the other is busy,
  and two calls.
- `Users`: one user with an external id, two requests, the two roles and an
  unknown one. Entries of different users do not meet.
- `Auth`: two users, so that one can act on the other, two names and two emails of
  which one each is the bootstrap's, two requests.

`CHECK_DEADLOCK FALSE` stands where a system may stop: the process exits, a bound
of the model is reached, or an empty database is asked for nothing.

### Fairness

Fairness is assumed only by the runs that check liveness.

- Weak fairness of each request's steps (`TaskRepo`, `TaskService`, `UserService`,
  `AuthService`): Go schedules every runnable goroutine, and every statement is
  answered or fails. The second half is an assumption about MySQL, Redis and the
  network, which the code does not enforce: the DSN (`config.go:34`) sets no timeout,
  the server gives requests no deadline, and only their client's leaving cancels
  them. A connection that breaks is an error; a store that neither answers nor breaks
  would hold its requests for ever.
- Strong fairness of a transaction's wait for its row lock in `TaskRepo`: InnoDB
  queues waiters, and ends a wait that is too long with an error.
- Weak fairness of Expire: every Set has a TTL, every token an expiry.
- In `ServerLifecycle`, weak fairness of main, of both server goroutines and of the
  timer; that covers net/http and grpc doing their part in a shutdown. Nothing is
  assumed of handlers. A REST handler that never ends is what shutdownCtx is for. A
  gRPC call may last for ever too (its client opens it and never sends the message;
  `main.go:82` sets no keepalive and no deadline), and GracefulStop then waits for
  ever: so `ShutdownEnds` says that the process ends unless some call never does. That
  exception is a property of the code, not of the model.

No request, signal, failure or crash is ever assumed to happen or to cease; both
`Converges` and `AccessEnds` say so in their premises.

## 4. Proofs

Every invariant and action property that a passing run checks, and all three
refinements, are proved for every value of the constants, from the named
assumptions in the modules (model values are no members of the sets they stand
beside; the admin's name is a name; and the like).

| module | a run checks it on an instance | only proved |
|---|---|---|
| `TaskRepoProofs` | `TypeCorrect`, `AuditIsChained`, `AuditIsComplete`, `NoOrphanHistory`, `UpdateIsAtomic` (`Spec => Abs!Spec`) | `WaitsAreShort`, `UpdatesAdvance` |
| `TaskServiceProofs` | `TypeCorrect`, `StalenessExplained`, `MutationsAuthorized`, `EchoHasUpdate`, `Refinement` (`Spec => Board!Spec`) | `CacheStaysCurrent`, `AssignedOrDeleted` |
| `ListingProofs` | `TypeCorrect`, `MissesExplained`, `RepeatsExplained` | |
| `FrontEndsProofs` | `TypeCorrect`, `AnswersShowRequests`, `BlanksAreAsked`, `CodesAreTrue` | |
| `UserServiceProofs` | `TypeCorrect`, `StalenessExplained`, `Refinement` (`Spec => Board!Spec`) | `CacheStaysCurrent`, `FormerSelves` |
| `AuthServiceProofs` | `TypeCorrect`, `UsersAreUnique`, `AdminsAreAppointed` | `AccessStaysEnded`, `DeactivationIsFinal`, `BootstrapTakesName` |
| `ServerLifecycleProofs` | `TypeCorrect`, `ServersDieTogether`, `HandlersBeforeStores`, `SignalsKillNoHandler` | `WaitsAreMet`, `ShutdownAdvances` |

Each module defines `IInv`, shows that Init implies it and that every action
preserves it, and draws the theorems from it; the refinements of the boards add to
it in `BInv`.

- `TaskRepo`. None of the audit invariants is inductive: what keeps a chain whole
  when a transaction commits is that its audit rows were computed from the row as
  it still is. So `IInv` says that the holder of a row lock is alone, that `cur` is
  the committed row, that its pending rows have distinct fields, ids above all
  committed ones of the task, and old values taken from `cur`. The refinement maps
  Commit to EditTask, and every other statement of Update to a stutter.
- `TaskService`. A cache entry is fresh because the fill that wrote it was: `IInv`
  says of each request between the reads of a fill that what it holds is the present row
  unless `raced`. For Authority it says that a caller past the check was the owner,
  which no statement changes, or is in `since`. For the echo, that versions only grow.
- `TaskBoard`. `IInv` is not enough for a simulation: `BInv` adds that what is
  cached, or held by a request that fills the cache, is what the task is or was (same
  owner as in `last`, version no higher), so that a cached read is a `Recall`;
  and which statements each operation passes through, so that a stage determines
  what may follow. Then one lemma per action shows which step of the board it is:
  `Applied` is `Take`, the reading of the row of Get and of the re-read is `Look`,
  the reading of assignees and the cache statements mostly nothing.
- `Listing`. What a walk is owed is a matter of counting: the rank of a row is the
  number of listed rows newer than it. `Ahead` says that the rank of a lasting row
  not shown yet is at least what the client has received, unless a newer one left
  or its second is tied; `Behind` that the rank of a shown row is less, unless a
  newer one came. A page takes the rows from that rank on, so it can neither jump
  over the one nor return to the other.
- `FrontEnds`. `IInv` says of each request, from its record and the tables: it is
  stored once, and only after it was read and validated; what it stores is
  `Written`, the row its operators compute from the row it found; the row is still
  that, or gone, or the request is `raced`; a successful answer shows `Written`, an
  unsuccessful one tells no more than is known. The rest is about operators: that
  `Written` has, field by field, the values the client sent (`Expected`), through
  `Given`, `EditOf` and `NewRow` for any wire; that rounding moves a due date by
  less than a second; that only a JSON "" empties a title.
- `UserService`. The same argument as `TaskService`'s with one read instead of two.
- `UserBoard`. `BInv` adds to `IInv` that what is cached, or about to be, is in `was`
  (`Past`), and which statements each operation passes through (`Routes`), so that a
  stage determines what may follow. Then one
  lemma per action, as for `TaskBoard`: `Apply` is `Take` or, when no row changed,
  `Refuse`; the cache hit and the read are `Recall` and `Look`. What an old row can
  differ in from the present one is `FormerSelves`: in the role, and in an access that
  was taken away, because no statement changes a name, gives access back or deletes.
- `AuthService`. `IInv` follows the admin role from the row a login reads into `admins`
  and the token, and from there into the requests it admits; registrations carry the
  role "user".
  Uniqueness is that of the table's keys, which every write keeps.
- `ServerLifecycle`. `IInv` ties the WaitGroup counter to the goroutines not done,
  the main statement to the listeners already stopped, and a stopped listener to
  the ended context; for `SignalsWait`, a context that `cancel()` ended to a failure or
  to a GracefulStop that has nothing left to wait for (`Waited`).

### The safety half of the liveness properties

The prover does not reach liveness under fairness, so `EveryTxEnds`, both
`Converges`, `AccessEnds` and `ShutdownEnds` stay with TLC. What their arguments
need besides fairness is proved, for instances of any size:

- `EveryTxEnds`: `WaitsAreShort` (a transaction that cannot go on waits for one that
  can: no deadlock, and no wait for a second connection) and `UpdatesAdvance` (a
  step brings an open transaction nearer to its end or ends it).
- `Converges`: `CacheStaysCurrent`. Once the entry of a task or user and the fills on
  their way agree with the database, nothing but another change ends that. What
  fairness adds is that such a moment comes, by the TTL and the end of the fills.
- `AccessEnds`: `AccessStaysEnded`. Once no token, login or admitted request of a
  user carries a role, none does again before he is given it. `DeactivationIsFinal`
  is the case in which he never can be: no statement reactivates a user.
- `ShutdownEnds`: `WaitsAreMet` (whatever main waits for can come about, the end of
  gRPC calls included) and `ShutdownAdvances` (nothing it has achieved is undone, and its lines only come to
  an end).

### What remains of the violated claims

- `AssignStores`: `AssignedOrDeleted`. When Assign answers "assigned", its user was an
  assignee during the request or the task is gone, and gone for good. So deletion is
  the only way to lose an assignment. It needs `BInv` and that ids are not used twice.
- `BootstrapMakesAdmin`: `BootstrapTakesName`. A successful bootstrap means that
  somebody has the admin's name, from then on.
- `NotFoundMeansNoTask`, `NotFoundMeansNoUser`: what "not found" does mean is the
  `Excuses` of the two boards, which the refinement theorems establish.

## 5. Not modelled

- History's order: `ORDER BY changed_at DESC` with a granularity of a second leaves
  the rows of one Update in any order, and the code promises none. `Listing` shows
  what such ties do where they matter, to pages.
- What the external API says of a user is opaque, and cached for thirty minutes
  whatever happens there; no statement of this program changes it.
- Passwords (a login's is taken to be right), malformed JSON and query strings, the
  codec, the codes of the gRPC Login, the request logger and Recovery.
- The command-line client beyond the messages it sends: it sends one and prints the
  answer.
- Configuration, logging and deployment: environment variables read once, output,
  containers. They keep no state that a property could be about.

What could be proved next: the wait of a request at a full pool in `TaskRepo`,
outside transactions; and for `Listing`, how many rows a walk can repeat or miss.
