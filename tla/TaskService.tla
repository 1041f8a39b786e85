------------------------------ MODULE TaskService ------------------------------
(***************************************************************************)
(* internal/service/task_service.go: requests running concurrently against *)
(* MySQL through TaskRepo and against the Redis cache-aside copy of each   *)
(* task.  One action per database or cache statement; every statement may  *)
(* fail, or take effect and still answer with an error, and the server may *)
(* die between any two.  The cache outlives the server.                    *)
(*                                                                         *)
(* TaskRepo shows that Update is atomic, so here it is one step, and only  *)
(* a version number is left of the row's columns.  An operator named       *)
(* Mut... is no part of the model: it is the operator that follows it with *)
(* a plausible bug, for testing the properties.                            *)
(***************************************************************************)
EXTENDS Integers

CONSTANTS
  Task,      \* task ids (uuids)
  User,      \* rows of users: they are never deleted
  Admin,     \* the users with the admin role
  Nobody,    \* an id that is no user's
  Req,       \* handler goroutines, each serving one request at a time
  Ops,       \* the operations requested
  MaxVer,    \* bound: a row is changed at most this often
  NoRow, Miss, Idle, NoId  \* no such task, no cache entry, no request, no id yet

ASSUME OpsAssumption ==
  Ops \subseteq {"get", "create", "update", "delete", "assign", "unassign"}
ASSUME MaxVerAssumption == MaxVer \in Nat
ASSUME UserAssumption == Admin \subseteq User /\ Nobody \notin User
ASSUME NoIdAssumption == NoId \notin Task

VARIABLES
  row,    \* each task's row: owner and version
  last,   \* for the properties only: the row, or the last one of a task that is gone
  asg,    \* each task's assignees
  used,   \* the ids ever given to a task
  cache,  \* the Redis entry of each task
  job     \* what each handler goroutine is doing

vars == <<row, last, asg, used, cache, job>>

Row == [owner : User, ver : 0..MaxVer]

\* excused records, for the properties only, that the entry was filled across
\* a commit or that an invalidation of it was lost.
Cached == [row : Row, asg : SUBSET User, excused : BOOLEAN]

Place == {"cache", "fill_row", "fill_asg", "set",      \* Get
          "auth_row", "auth_asg", "user", "apply", "del",
          "echo_row", "echo_asg", "done"}
Reply == {"none", "ok", "not_found", "forbidden", "invalid", "error"}

\* One request and its local variables.  For the properties only: raced, that
\* its task changed since its fill read the row; since, who was assigned to
\* its task at some moment since it began; mine, the version it committed.
Job == [op : Ops, task : Task \cup {NoId}, caller : User \cup {Nobody},
        who : User \cup {Nobody}, at : Place,
        seen : Row \cup {NoRow}, asg : SUBSET User, reply : Reply,
        raced : BOOLEAN, since : SUBSET User, mine : 0..MaxVer]

ASSUME NullAssumption == NoRow \notin Row /\ Miss \notin Cached /\ Idle \notin Job

TypeOK ==
  /\ row \in [Task -> Row \cup {NoRow}]
  /\ last \in [Task -> Row \cup {NoRow}]
  /\ asg \in [Task -> SUBSET User]
  /\ used \subseteq Task
  /\ cache \in [Task -> Cached \cup {Miss}]
  /\ job \in [Req -> Job \cup {Idle}]

\* The server starts over any database, with a cold cache.
Init ==
  /\ row \in [Task -> [owner : User, ver : {0}] \cup {NoRow}]
  /\ last = row
  /\ asg \in [Task -> SUBSET User]
  /\ \A t \in Task : row[t] = NoRow => asg[t] = {}
  /\ used = {t \in Task : row[t] # NoRow}
  /\ cache = [t \in Task |-> Miss]
  /\ job = [r \in Req |-> Idle]

-----------------------------------------------------------------------------
At(r, place) == job[r] # Idle /\ job[r].at = place

\* Request j is answered; what it read for the cache no longer matters.
Done(j, reply) ==
  [j EXCEPT !.at = "done", !.reply = reply, !.asg = {}, !.raced = FALSE]

\* Goroutine r goes on at another place, or answers.
Move(r, place) == job' = [job EXCEPT ![r].at = place]
Finish(r, reply) == job' = [job EXCEPT ![r] = Done(@, reply)]

\* The goroutines after task t changed and has these assignees.
Observe(t, members) ==
  [q \in Req |->
     IF job[q] # Idle /\ job[q].task = t
     THEN [job[q] EXCEPT !.since = @ \cup members,
                         !.raced = job[q].at \in {"fill_asg", "set"}]
     ELSE job[q]]

\* An invalidation of the entries of ts did not happen.
Excuse(ts) ==
  [t \in Task |-> IF t \in ts /\ cache[t] # Miss
                  THEN [cache[t] EXCEPT !.excused = TRUE] ELSE cache[t]]

\* Where a request begins: admins are not looked up.
Entry(op, caller) ==
  CASE op = "get" -> "cache"
    [] op = "create" -> "apply"
    [] op = "assign" /\ caller \in Admin -> "user"
    [] op \in {"update", "delete", "unassign"} /\ caller \in Admin -> "apply"
    [] OTHER -> "auth_row"

\* A request arrives for an id some task has or had (one never issued would be
\* answered like a deleted one).  Get makes no use of its caller.
Start(r, op, t, caller, who) ==
  /\ job[r] = Idle
  /\ IF op = "create" THEN t = NoId ELSE t \in used
  /\ op = "get" <=> caller = Nobody
  /\ op \notin {"assign", "unassign"} => who = Nobody
  /\ job' = [job EXCEPT ![r] =
       [op |-> op, task |-> t, caller |-> caller, who |-> who,
        at |-> Entry(op, caller), seen |-> NoRow, asg |-> {}, reply |-> "none",
        raced |-> FALSE, since |-> IF t = NoId THEN {} ELSE asg[t], mine |-> 0]]
  /\ UNCHANGED <<row, last, asg, used, cache>>

\* The answer has been written; the goroutine is free again.
Return(r) ==
  /\ At(r, "done")
  /\ job' = [job EXCEPT ![r] = Idle]
  /\ UNCHANGED <<row, last, asg, used, cache>>

-----------------------------------------------------------------------------
(* Get.                                                                    *)

CacheHit(r) ==
  /\ At(r, "cache")
  /\ cache[job[r].task] # Miss
  /\ job' = [job EXCEPT ![r] =
               Done([@ EXCEPT !.seen = cache[job[r].task].row], "ok")]
  /\ UNCHANGED <<row, last, asg, used, cache>>

\* Redis has no entry, or does not answer.
CacheMiss(r) ==
  /\ At(r, "cache")
  /\ Move(r, "fill_row")
  /\ UNCHANGED <<row, last, asg, used, cache>>

CacheSet(r) ==
  /\ At(r, "set")
  /\ cache' = [cache EXCEPT ![job[r].task] =
       [row |-> job[r].seen, asg |-> job[r].asg, excused |-> job[r].raced]]
  /\ Finish(r, "ok")
  /\ UNCHANGED <<row, last, asg, used>>

\* The error of Set is dropped.
CacheSetLost(r) ==
  /\ At(r, "set")
  /\ Finish(r, "ok")
  /\ UNCHANGED <<row, last, asg, used, cache>>

MutExpire(t) == FALSE \* ttl 0: Redis keeps the entry for ever
\* The entry's TTL of two minutes runs out.
Expire(t) ==
  /\ cache[t] # Miss
  /\ cache' = [cache EXCEPT ![t] = Miss]
  /\ UNCHANGED <<row, last, asg, used, job>>

-----------------------------------------------------------------------------
(* GetByID, as Get, the authorization and the final re-read call it: two   *)
(* statements with no transaction around them.                             *)

Reading(r) == \E place \in {"fill_row", "auth_row", "echo_row"} : At(r, place)
Reader(place) == CASE place = "fill_row" -> "fill_asg"
                   [] place = "auth_row" -> "auth_asg"
                   [] place = "echo_row" -> "echo_asg"

MutReadRow(r) == \* Get does not look at the error, and caches null
  /\ Reading(r)
  /\ LET t == job[r].task
     IN  \/ /\ row[t] = NoRow
            /\ ~At(r, "fill_row")
            /\ Finish(r, "not_found")
         \/ /\ row[t] # NoRow \/ At(r, "fill_row")
            /\ job' = [job EXCEPT ![r].seen = row[t], ![r].at = Reader(@)]
  /\ UNCHANGED <<row, last, asg, used, cache>>
ReadRow(r) ==
  /\ Reading(r)
  /\ LET t == job[r].task
     IN  \/ /\ row[t] = NoRow
            /\ Finish(r, "not_found")
         \/ /\ row[t] # NoRow
            /\ job' = [job EXCEPT ![r].seen = row[t], ![r].at = Reader(@)]
  /\ UNCHANGED <<row, last, asg, used, cache>>

\* Owners may do anything with their tasks; assignees anything but delete.
MutAllowed(j, members) == \* authorizeTaskMutation for Delete too
  j.seen.owner = j.caller \/ j.caller \in members
Allowed(j, members) ==
  j.seen.owner = j.caller \/ (j.op # "delete" /\ j.caller \in members)

Authorize(r) ==
  /\ At(r, "auth_asg")
  /\ \/ /\ Allowed(job[r], asg[job[r].task])
        /\ Move(r, IF job[r].op = "assign" THEN "user" ELSE "apply")
     \/ /\ ~Allowed(job[r], asg[job[r].task])
        /\ Finish(r, "forbidden")
  /\ UNCHANGED <<row, last, asg, used, cache>>

\* The rest of GetByID: the assignees of the row read before.
ReadAssignees(r) ==
  /\ LET t == job[r].task
     IN  \/ /\ At(r, "fill_asg")
            /\ job' = [job EXCEPT ![r].asg = asg[t], ![r].at = "set"]
         \/ /\ At(r, "echo_asg")
            /\ Finish(r, "ok")
  /\ UNCHANGED <<row, last, asg, used, cache>>

\* A statement fails before it has any effect: a reply with an error.  Cache
\* statements have their own failures, which are no errors of the request.
Fail(r) ==
  /\ \E place \in Place \ {"cache", "set", "del", "done"} : At(r, place)
  /\ Finish(r, "error")
  /\ UNCHANGED <<row, last, asg, used, cache>>

-----------------------------------------------------------------------------
(* The mutations.  Each ends with Applied: the statement committed, and    *)
(* its answer arrived (acked) or the connection broke first, which the     *)
(* service cannot tell from a statement that failed.                       *)

Remember == last' = [t \in Task |-> IF row'[t] = NoRow THEN last[t] ELSE row'[t]]

MutApplied(r, t, mine, next, acked) == \* the statement is retried
  LET j == [Observe(t, asg'[t])[r] EXCEPT !.task = t, !.mine = mine]
  IN  /\ job' = [Observe(t, asg'[t]) EXCEPT ![r] =
                   IF acked THEN [j EXCEPT !.at = next] ELSE j]
      /\ Remember
      /\ UNCHANGED cache
Applied(r, t, mine, next, acked) ==
  LET j == [Observe(t, asg'[t])[r] EXCEPT !.task = t, !.mine = mine]
  IN  /\ Remember
      /\ \/ /\ acked
            /\ job' = [Observe(t, asg'[t]) EXCEPT ![r] = [j EXCEPT !.at = next]]
            /\ UNCHANGED cache
         \/ /\ ~acked
            /\ job' = [Observe(t, asg'[t]) EXCEPT ![r] = Done(j, "error")]
            /\ cache' = Excuse({t})

\* The statement found no row to change.
NotApplied(r) ==
  /\ Finish(r, "not_found")
  /\ UNCHANGED <<row, last, asg, used, cache>>

\* Unknown status or priority, or no title.
Reject(r) ==
  /\ At(r, "apply")
  /\ job[r].op \in {"create", "update"}
  /\ Finish(r, "invalid")
  /\ UNCHANGED <<row, last, asg, used, cache>>

\* Assign's check that the assignee exists.
LookupAssignee(r) ==
  /\ At(r, "user")
  /\ \/ /\ job[r].who \in User
        /\ Move(r, "apply")
     \/ /\ job[r].who \notin User
        /\ Finish(r, "not_found")
  /\ UNCHANGED <<row, last, asg, used, cache>>

Create(r, t, acked) ==
  /\ At(r, "apply")
  /\ job[r].op = "create"
  /\ t \notin used
  /\ row' = [row EXCEPT ![t] = [owner |-> job[r].caller, ver |-> 0]]
  /\ used' = used \cup {t}
  /\ UNCHANGED asg
  /\ Applied(r, t, 0, "echo_row", acked)

\* A change, or the no-op that only commits.
Update(r, acked) ==
  /\ At(r, "apply")
  /\ job[r].op = "update"
  /\ LET t == job[r].task
     IN  \/ row[t] = NoRow /\ NotApplied(r)
         \/ /\ row[t] # NoRow
            /\ \/ row' = row
               \/ row[t].ver < MaxVer /\ row' = [row EXCEPT ![t].ver = @ + 1]
            /\ UNCHANGED <<asg, used>>
            /\ Applied(r, t, row'[t].ver, "del", acked)

\* ON DELETE CASCADE takes the assignments along.
Delete(r, acked) ==
  /\ At(r, "apply")
  /\ job[r].op = "delete"
  /\ LET t == job[r].task
     IN  \/ row[t] = NoRow /\ NotApplied(r)
         \/ /\ row[t] # NoRow
            /\ row' = [row EXCEPT ![t] = NoRow]
            /\ asg' = [asg EXCEPT ![t] = {}]
            /\ UNCHANGED used
            /\ Applied(r, t, 0, "del", acked)

\* INSERT IGNORE: no row for a pair that is there, nor for a missing task,
\* whose foreign-key error it turns into a warning.
Assign(r, acked) ==
  /\ At(r, "apply")
  /\ job[r].op = "assign"
  /\ LET t == job[r].task
     IN  /\ asg' = IF row[t] = NoRow THEN asg
                   ELSE [asg EXCEPT ![t] = @ \cup {job[r].who}]
         /\ UNCHANGED <<row, used>>
         /\ Applied(r, t, 0, "del", acked)

Unassign(r, acked) ==
  /\ At(r, "apply")
  /\ job[r].op = "unassign"
  /\ LET t == job[r].task
     IN  \/ job[r].who \notin asg[t] /\ NotApplied(r)
         \/ /\ job[r].who \in asg[t]
            /\ asg' = [asg EXCEPT ![t] = @ \ {job[r].who}]
            /\ UNCHANGED <<row, used>>
            /\ Applied(r, t, 0, "del", acked)

\* Update answers with a re-read of the database, the others with their status.
MutAfterDel(j) == \* return s.Get(ctx, taskID)
  IF j.op = "update" THEN [j EXCEPT !.at = "cache"] ELSE Done(j, "ok")
AfterDel(j) ==
  IF j.op = "update" THEN [j EXCEPT !.at = "echo_row"] ELSE Done(j, "ok")

MutCacheDel(r) == \* Del of the bare id, without the "task:" of the key
  /\ At(r, "del")
  /\ job' = [job EXCEPT ![r] = AfterDel(@)]
  /\ UNCHANGED <<row, last, asg, used, cache>>
CacheDel(r) ==
  /\ At(r, "del")
  /\ cache' = [cache EXCEPT ![job[r].task] = Miss]
  /\ job' = [job EXCEPT ![r] = AfterDel(@)]
  /\ UNCHANGED <<row, last, asg, used>>

\* Redis does not answer or the client is gone; the error of Del is dropped.
CacheDelLost(r) ==
  /\ At(r, "del")
  /\ cache' = Excuse({job[r].task})
  /\ job' = [job EXCEPT ![r] = AfterDel(@)]
  /\ UNCHANGED <<row, last, asg, used>>

\* The server dies with every request it was serving.
Crash ==
  /\ \E r \in Req : job[r] # Idle
  /\ cache' = Excuse({job[r].task : r \in {q \in Req : At(q, "del")}})
  /\ job' = [r \in Req |-> Idle]
  /\ UNCHANGED <<row, last, asg, used>>

-----------------------------------------------------------------------------
Mutation(r) ==
  \E acked \in BOOLEAN :
    \/ \E t \in Task : Create(r, t, acked)
    \/ Update(r, acked)
    \/ Delete(r, acked)
    \/ Assign(r, acked)
    \/ Unassign(r, acked)

Step(r) ==
  \/ CacheHit(r) \/ CacheMiss(r) \/ CacheSet(r) \/ CacheSetLost(r)
  \/ ReadRow(r) \/ Authorize(r) \/ ReadAssignees(r) \/ Fail(r)
  \/ Reject(r) \/ LookupAssignee(r) \/ Mutation(r)
  \/ CacheDel(r) \/ CacheDelLost(r) \/ Return(r)

Arrive(r) ==
  \E op \in Ops, t \in Task \cup {NoId},
     caller \in User \cup {Nobody}, who \in User \cup {Nobody} :
       Start(r, op, t, caller, who)

Next ==
  \/ \E r \in Req : Arrive(r) \/ Step(r)
  \/ \E t \in Task : Expire(t)
  \/ Crash

Spec == Init /\ [][Next]_vars

\* Redis expires every entry in the end; goroutines are scheduled.
Fairness ==
  /\ \A t \in Task : WF_vars(Expire(t))
  /\ \A r \in Req : WF_vars(Step(r))
FairSpec == Spec /\ Fairness

-----------------------------------------------------------------------------
Stale(t) == cache[t] # Miss /\ (cache[t].row # row[t] \/ cache[t].asg # asg[t])

\* The only ways the cache can disagree with the database (task_service.go
\* 62-73, 122-126): the entry was filled by a Get whose reads straddled a
\* commit, or an invalidation of it was lost, or one is still to come.  In
\* particular neither an unraced fill nor a fill after the commit is stale,
\* whatever else runs, fails or restarts.
StaleExplained ==
  \A t \in Task : Stale(t) =>
    \/ cache[t].excused
    \/ \E r \in Req : At(r, "del") /\ job[r].task = t

\* Authorization is read before the mutation and not repeated under its lock
\* (task_service.go 89-105, 122).  Still only the present owner deletes, and
\* only the owner, or someone assigned at some moment since the request began,
\* changes a task.
Authority ==
  \A r \in Req :
    (\E place \in {"user", "apply"} : At(r, place))
      /\ job[r].op # "create" /\ job[r].caller \notin Admin =>
    LET t == job[r].task
    IN  \/ row[t] = NoRow
        \/ row[t].owner = job[r].caller
        \/ job[r].op # "delete" /\ job[r].caller \in job[r].since

\* The task that Update answers with contains the update, whoever else changes
\* or reads it in between (task_service.go 122-126).
EchoNotOlder ==
  \A r \in Req :
    At(r, "done") /\ job[r].op = "update" /\ job[r].reply = "ok"
      => job[r].seen.ver >= job[r].mine

\* The cache converges: once the database is left alone, stale entries expire,
\* the fills still under way end, and the cache never disagrees with it again
\* (task_service.go:71).
Converges ==
  <>[][UNCHANGED <<row, asg>>]_vars => <>[](\A t \in Task : ~Stale(t))

\* What the reply says.  "assigned" (task_handler.go:159): the user has been
\* an assignee of the task at some moment of the request.
AssignStores ==
  \A r \in Req :
    At(r, "done") /\ job[r].op = "assign" /\ job[r].reply = "ok"
      => job[r].who \in job[r].since

\* "task not found" (task_handler.go:184): there is no such task.
NotFoundMeansNoTask ==
  \A r \in Req :
    At(r, "done") /\ job[r].reply = "not_found" => row[job[r].task] = NoRow

-----------------------------------------------------------------------------
(* The refinement of TaskBoard.                                            *)

\* How far request j has come, as far as its caller is concerned.
Granted(j) ==
  \/ j.op = "create" \/ j.at \in {"user", "apply"}
  \/ j.op # "get" /\ j.caller \in Admin
  \/ j.at = "auth_asg" /\ j.seen.owner = j.caller
Stage(j) ==
  CASE j.at = "done" -> j.reply
    [] j.at \in {"fill_asg", "set", "echo_asg"} -> "shown"
    [] j.at \in {"del", "echo_row"} -> "taken"
    [] OTHER -> IF Granted(j) THEN "granted" ELSE "asked"
Shows(j) ==
  \/ Stage(j) = "shown"
  \/ Stage(j) = "ok" /\ j.op \in {"get", "create", "update"}

Call(j) ==
  IF j = Idle THEN Idle
  ELSE [op |-> j.op, task |-> j.task, caller |-> j.caller, who |-> j.who,
        stage |-> Stage(j), shown |-> IF Shows(j) THEN j.seen ELSE NoRow]

Board == INSTANCE TaskBoard WITH call <- [r \in Req |-> Call(job[r])]
ASSUME CallAssumption == Idle \notin Board!Call

\* Whatever the statements of concurrent requests, the cache, failures and
\* crashes do, callers see TaskBoard (task_service.go:37-170): a change is made
\* once, after its caller was entitled to it, "ok" is said only of a change
\* that was made and with a version no older than it, a refusal only of one
\* that was not or whose task is gone since, and a cached read shows a version
\* that the database has or had, also of a task that is gone.
Linearizes == Board!Spec
=============================================================================
