--------------------------- MODULE TaskServiceProofs ---------------------------
(***************************************************************************)
(* Where the cache's staleness can come from, who may change a task, what  *)
(* an update answers, and that TaskService implements TaskBoard, for any   *)
(* number of tasks, users, requests and versions.                          *)
(***************************************************************************)
EXTENDS TaskService, TLAPS

USE OpsAssumption, MaxVerAssumption

-----------------------------------------------------------------------------
(* The inductive invariant.  What holds of one request is stated of its    *)
(* record j and of the tables, so that a step is examined request by       *)
(* request.                                                                *)

\* Only a request that is still to create its task has no id; the places each
\* kind of request passes through.
Located(j, ids) ==
  /\ j.task = NoId => j.op = "create" /\ j.at \in {"apply", "done"}
  /\ j.task # NoId => j.task \in ids
  /\ j.op # "get" => j.caller \in User
  /\ j.op = "assign" /\ j.at = "apply" => j.who \in User
  /\ j.at \in {"cache", "fill_row", "fill_asg", "set"} => j.op = "get"
  /\ j.at \in {"fill_asg", "set", "auth_asg", "echo_asg"} => j.seen # NoRow
  /\ j.at \in {"auth_row", "auth_asg", "user", "del"} => j.op # "create"

\* What a fill that no commit has crossed has read is the present state.
FillFresh(j, rows, members) ==
  j.at \in {"fill_asg", "set"} /\ ~j.raced =>
    /\ j.seen = rows[j.task]
    /\ j.at = "set" => j.asg = members[j.task]

\* The ghost of Authority does record the present assignees; a task's owner
\* never changes, so the one that was read is the present one.
Authorized(j, rows, members) ==
  /\ j.op # "create" => members[j.task] \subseteq j.since
  /\ j.at = "auth_asg" =>
       rows[j.task] = NoRow \/ rows[j.task].owner = j.seen.owner
  /\ j.at \in {"user", "apply"} /\ j.op # "create" /\ j.caller \notin Admin =>
       \/ rows[j.task] = NoRow
       \/ rows[j.task].owner = j.caller
       \/ j.op # "delete" /\ j.caller \in j.since

\* Versions only grow: the row still has the update, and so has its re-read.
UpdateKept(j, rows) ==
  j.op = "update" =>
    /\ j.at \in {"del", "echo_row"} =>
         rows[j.task] = NoRow \/ j.mine <= rows[j.task].ver
    /\ j.at = "echo_asg" => j.mine <= j.seen.ver
    /\ j.at = "done" /\ j.reply = "ok" => j.mine <= j.seen.ver

JobOK(j, rows, members, ids) ==
  /\ j \in Job
  /\ Located(j, ids)
  /\ FillFresh(j, rows, members)
  /\ Authorized(j, rows, members)
  /\ UpdateKept(j, rows)

Tables ==
  /\ row \in [Task -> Row \cup {NoRow}] /\ last \in [Task -> Row \cup {NoRow}]
  /\ asg \in [Task -> SUBSET User]
  /\ used \subseteq Task
  /\ cache \in [Task -> Cached \cup {Miss}]
  /\ \A t \in Task : row[t] # NoRow \/ cache[t] # Miss => t \in used
  /\ \A t \in Task : row[t] # NoRow => last[t] = row[t]
  /\ \A t \in used : last[t] # NoRow

Jobs ==
  /\ job \in [Req -> Job \cup {Idle}]
  /\ \A r \in Req : job[r] # Idle => JobOK(job[r], row, asg, used)

IInv == Tables /\ Jobs /\ StaleExplained

-----------------------------------------------------------------------------
(* Requests that move on by themselves.                                    *)

\* A request's record at another place.
LEMMA MoveFields ==
  ASSUME NEW j \in Job, NEW place \in Place
  PROVE  LET k == [j EXCEPT !.at = place]
         IN  /\ k \in Job /\ k.at = place
             /\ k.op = j.op /\ k.task = j.task /\ k.caller = j.caller
             /\ k.who = j.who /\ k.seen = j.seen /\ k.asg = j.asg
             /\ k.reply = j.reply /\ k.raced = j.raced
             /\ k.since = j.since /\ k.mine = j.mine
  BY DEF Job

\* The record of an answered request.
LEMMA DoneFields ==
  ASSUME NEW j \in Job, NEW reply \in Reply
  PROVE  LET k == Done(j, reply)
         IN  /\ k \in Job /\ k.at = "done" /\ k.reply = reply
             /\ k.op = j.op /\ k.task = j.task /\ k.caller = j.caller
             /\ k.who = j.who /\ k.seen = j.seen
             /\ k.since = j.since /\ k.mine = j.mine
  BY DEF Job, Done, Place

\* An answered request has little left to satisfy.
LEMMA DoneOK ==
  ASSUME NEW j \in Job, NEW reply \in Reply, NEW rows, NEW members, NEW ids,
         Located(j, ids),
         j.op # "create" => members[j.task] \subseteq j.since,
         reply = "ok" /\ j.op = "update" => j.mine <= j.seen.ver
  PROVE  JobOK(Done(j, reply), rows, members, ids)
<1>1. /\ Done(j, reply) \in Job /\ Done(j, reply).at = "done"
      /\ Done(j, reply).reply = reply /\ Done(j, reply).op = j.op
      /\ Done(j, reply).task = j.task /\ Done(j, reply).caller = j.caller
      /\ Done(j, reply).seen = j.seen /\ Done(j, reply).mine = j.mine
      /\ Done(j, reply).since = j.since
  BY DoneFields
<1> QED
  BY <1>1 DEF JobOK, Located, FillFresh, Authorized, UpdateKept

\* A step of one request that changes no table but the cache.
LEMMA LocalStep ==
  ASSUME IInv, NEW r \in Req, NEW j \in Job \cup {Idle},
         j # Idle => JobOK(j, row, asg, used),
         job' = [job EXCEPT ![r] = j],
         UNCHANGED <<row, last, asg, used>>,
         cache' \in [Task -> Cached \cup {Miss}],
         \A t \in Task : cache'[t] # Miss => t \in used,
         StaleExplained'
  PROVE  IInv'
<1>1. Tables'
  BY DEF IInv, Tables
<1>2. Jobs'
  BY DEF IInv, Jobs
<1> QED
  BY <1>1, <1>2 DEF IInv

\* A step of one request that owes no invalidation and leaves the cache alone.
LEMMA QuietStep ==
  ASSUME IInv, NEW r \in Req, NEW j \in Job \cup {Idle}, ~At(r, "del"),
         j # Idle => JobOK(j, row, asg, used),
         job' = [job EXCEPT ![r] = j],
         UNCHANGED <<row, last, asg, used, cache>>
  PROVE  IInv'
<1>1. \A q \in Req : q # r => job'[q] = job[q]
  BY DEF IInv, Jobs
<1>2. StaleExplained'
  <2> SUFFICES ASSUME NEW t \in Task, Stale(t), ~cache[t].excused
               PROVE  \E q \in Req : At(q, "del")' /\ job'[q].task = t
    BY DEF StaleExplained, Stale
  <2>1. PICK q \in Req : At(q, "del") /\ job[q].task = t
    BY DEF IInv, StaleExplained
  <2> QED
    BY <2>1, <1>1 DEF At
<1> QED
  BY <1>2, LocalStep DEF IInv, Tables

\* What is known of a request at some place.
LEMMA JobAt ==
  ASSUME IInv, NEW r \in Req, NEW place, At(r, place)
  PROVE  /\ job[r] \in Job /\ job[r] # Idle /\ job[r].at = place
         /\ JobOK(job[r], row, asg, used)
         /\ job[r].task # NoId => job[r].task \in used /\ job[r].task \in Task
  BY DEF IInv, Jobs, Tables, At, JobOK, Located

\* A request is answered at any place but before its Del.
LEMMA FinishInv ==
  ASSUME IInv, NEW r \in Req, NEW place, At(r, place), place # "del",
         NEW reply \in Reply, Finish(r, reply),
         reply = "ok" /\ job[r].op = "update" => job[r].mine <= job[r].seen.ver,
         UNCHANGED <<row, last, asg, used, cache>>
  PROVE  IInv'
<1>1. /\ job[r] \in Job /\ JobOK(job[r], row, asg, used)
  BY JobAt
<1>2. JobOK(Done(job[r], reply), row, asg, used)
  BY <1>1, DoneOK DEF JobOK, Authorized
<1>3. Done(job[r], reply) \in Job
  BY <1>1, DoneFields
<1>4. ~At(r, "del")
  BY DEF At
<1> QED
  BY <1>2, <1>3, <1>4, QuietStep DEF Finish

\* A new request has read nothing yet.
LEMMA StartInv ==
  ASSUME IInv, NEW r \in Req, NEW op \in Ops, NEW t \in Task \cup {NoId},
         NEW caller \in User \cup {Nobody}, NEW who \in User \cup {Nobody},
         Start(r, op, t, caller, who)
  PROVE  IInv'
<1> DEFINE since == IF t = NoId THEN {} ELSE asg[t]
           j == [op |-> op, task |-> t, caller |-> caller, who |-> who,
                 at |-> Entry(op, caller), seen |-> NoRow, asg |-> {}, reply |-> "none",
                 raced |-> FALSE, since |-> since, mine |-> 0]
<1>1. /\ op = "create" => t = NoId
      /\ op # "create" => t \in used /\ t \in Task /\ t # NoId
      /\ op # "get" => caller \in User
  BY NoIdAssumption DEF Start, IInv, Tables
<1>2. since \in SUBSET User
  BY <1>1 DEF IInv, Tables
<1>3. /\ Entry(op, caller) \in {"cache", "apply", "user", "auth_row"}
      /\ Entry(op, caller) = "cache" => op = "get"
      /\ Entry(op, caller) \in {"user", "auth_row"} => op # "create"
      /\ Entry(op, caller) = "apply" => op = "create" \/ caller \in Admin
      /\ Entry(op, caller) = "apply" => op # "assign"
      /\ Entry(op, caller) = "user" => caller \in Admin
  BY DEF Entry
<1>4. j \in Job
  BY <1>2, <1>3 DEF Job, Place, Reply
<1>5. JobOK(j, row, asg, used)
  <2>1. Located(j, used)
    BY <1>1, <1>3 DEF Located
  <2>2. FillFresh(j, row, asg) /\ UpdateKept(j, row)
    BY <1>3 DEF FillFresh, UpdateKept
  <2>3. Authorized(j, row, asg)
    BY <1>1, <1>3 DEF Authorized
  <2> QED
    BY <1>4, <2>1, <2>2, <2>3 DEF JobOK
<1>6. ~At(r, "del")
  BY DEF Start, At
<1>7. job' = [job EXCEPT ![r] = j] /\ UNCHANGED <<row, last, asg, used, cache>>
  BY DEF Start
<1> HIDE DEF j
<1> QED
  BY <1>4, <1>5, <1>6, <1>7, QuietStep

\* A goroutine goes on with what it has read, at a place its request may be at.
LEMMA MoveInv ==
  ASSUME IInv, NEW r \in Req, NEW place \in Place, Move(r, place),
         job[r] # Idle, job[r].at # "del",
         LET j == [job[r] EXCEPT !.at = place]
         IN  /\ Located(j, used) /\ FillFresh(j, row, asg)
             /\ Authorized(j, row, asg) /\ UpdateKept(j, row),
         UNCHANGED <<row, last, asg, used, cache>>
  PROVE  IInv'
<1>1. job[r] \in Job
  BY DEF IInv, Jobs
<1>2. [job[r] EXCEPT !.at = place] \in Job
  BY <1>1, MoveFields
<1> QED
  BY <1>2, QuietStep DEF Move, JobOK, At

\* The end of a request, answered or not begun, frees its goroutine.
LEMMA ReturnInv ==
  ASSUME IInv, NEW r \in Req, Return(r)
  PROVE  IInv'
<1>1. ~At(r, "del")
  BY DEF Return, At
<1> QED
  BY <1>1, QuietStep DEF Return

\* A hit answers with the entry and reads nothing else.
LEMMA CacheHitInv ==
  ASSUME IInv, NEW r \in Req, CacheHit(r)
  PROVE  IInv'
<1> DEFINE entry == cache[job[r].task]
           j == [job[r] EXCEPT !.seen = entry.row]
<1>1. /\ job[r] \in Job /\ job[r] # Idle /\ job[r].at = "cache"
      /\ JobOK(job[r], row, asg, used)
  BY JobAt DEF CacheHit
<1>2. job[r].op = "get" /\ job[r].task \in Task
  BY <1>1 DEF JobOK, Located, IInv, Tables
<1>3. entry.row \in Row
  BY <1>2 DEF CacheHit, IInv, Tables, Cached
<1>4. /\ j \in Job /\ j.op = "get" /\ j.task = job[r].task /\ j.at = "cache"
      /\ j.since = job[r].since
  BY <1>1, <1>2, <1>3 DEF Job
<1>5. job' = [job EXCEPT ![r] = Done(j, "ok")] /\ UNCHANGED <<row, last, asg, used, cache>>
  BY DEF CacheHit
<1> HIDE DEF j
<1>6. Located(j, used) /\ asg[j.task] \subseteq j.since
  BY <1>1, <1>2, <1>4 DEF JobOK, Located, Authorized
<1>7. JobOK(Done(j, "ok"), row, asg, used) /\ Done(j, "ok") \in Job
  BY <1>4, <1>6, DoneOK, DoneFields DEF Reply
<1>8. ~At(r, "del")
  BY <1>1 DEF At
<1> QED
  BY <1>5, <1>7, <1>8, QuietStep

\* After a miss, Get goes to the database.
LEMMA CacheMissInv ==
  ASSUME IInv, NEW r \in Req, CacheMiss(r)
  PROVE  IInv'
<1>1. /\ job[r] \in Job /\ job[r] # Idle /\ job[r].at = "cache"
      /\ JobOK(job[r], row, asg, used)
  BY JobAt DEF CacheMiss
<1> DEFINE j == [job[r] EXCEPT !.at = "fill_row"]
<1>2. /\ j.at = "fill_row" /\ j.op = job[r].op /\ j.task = job[r].task
      /\ j.since = job[r].since
  BY <1>1, MoveFields DEF Place
<1> HIDE DEF j
<1>3. /\ Located(j, used) /\ FillFresh(j, row, asg)
      /\ Authorized(j, row, asg) /\ UpdateKept(j, row)
  BY <1>1, <1>2 DEF JobOK, Located, FillFresh, Authorized, UpdateKept
<1> QED
  BY <1>1, <1>3, MoveInv DEF CacheMiss, Place, j

\* A fill that no commit crossed stores the present state; any other is excused.
LEMMA CacheSetInv ==
  ASSUME IInv, NEW r \in Req, CacheSet(r)
  PROVE  IInv'
<1> DEFINE t == job[r].task
           entry == [row |-> job[r].seen, asg |-> job[r].asg, excused |-> job[r].raced]
<1>1. /\ job[r] \in Job /\ job[r] # Idle /\ job[r].at = "set"
      /\ JobOK(job[r], row, asg, used)
  BY JobAt DEF CacheSet
<1>2. /\ job[r].op = "get" /\ t \in used /\ t \in Task /\ job[r].seen \in Row
  BY <1>1 DEF JobOK, Located, IInv, Tables, Job
<1>3. /\ entry \in Cached
      /\ ~entry.excused => entry.row = row[t] /\ entry.asg = asg[t]
  BY <1>1, <1>2 DEF Cached, Job, JobOK, FillFresh
<1>4. /\ cache' = [cache EXCEPT ![t] = entry]
      /\ job' = [job EXCEPT ![r] = Done(job[r], "ok")]
      /\ UNCHANGED <<row, last, asg, used>>
  BY DEF CacheSet, Finish
<1> HIDE DEF t, entry
<1>5. /\ cache' \in [Task -> Cached \cup {Miss}]
      /\ \A s \in Task : cache'[s] # Miss => s \in used
  BY <1>2, <1>3, <1>4 DEF IInv, Tables
<1>6. JobOK(Done(job[r], "ok"), row, asg, used) /\ Done(job[r], "ok") \in Job
  BY <1>1, <1>2, DoneOK, DoneFields DEF JobOK, Authorized, Reply
<1>7. StaleExplained'
  <2> SUFFICES ASSUME NEW s \in Task, Stale(s)', ~cache'[s].excused
               PROVE  \E q \in Req : At(q, "del")' /\ job'[q].task = s
    BY DEF StaleExplained
  <2>1. s # t
    BY <1>2, <1>3, <1>4 DEF Stale, IInv, Tables
  <2>2. Stale(s) /\ ~cache[s].excused
    BY <2>1, <1>4 DEF Stale
  <2>3. PICK q \in Req : At(q, "del") /\ job[q].task = s
    BY <2>2 DEF IInv, StaleExplained
  <2>4. q # r
    BY <2>3, <1>1 DEF At
  <2> QED
    BY <2>3, <2>4, <1>4 DEF At
<1> QED
  BY <1>4, <1>5, <1>6, <1>7, LocalStep

\* A lost Set answers all the same.
LEMMA CacheSetLostInv ==
  ASSUME IInv, NEW r \in Req, CacheSetLost(r)
  PROVE  IInv'
<1>1. job[r].op = "get" /\ At(r, "set")
  BY JobAt DEF CacheSetLost, JobOK, Located
<1> QED
  BY <1>1, FinishInv DEF CacheSetLost, Reply

\* An entry that is gone is not stale.
LEMMA ExpireInv ==
  ASSUME IInv, NEW t \in Task, Expire(t)
  PROVE  IInv'
<1>1. cache' = [cache EXCEPT ![t] = Miss] /\ UNCHANGED <<row, last, asg, used, job>>
  BY DEF Expire
<1>2. Tables'
  BY <1>1 DEF IInv, Tables
<1>3. Jobs'
  BY <1>1 DEF IInv, Jobs
<1>4. StaleExplained'
  BY <1>1 DEF IInv, Tables, StaleExplained, Stale, At
<1> QED
  BY <1>2, <1>3, <1>4 DEF IInv

\* The row that is read is the present one; a fill is not yet crossed.
LEMMA ReadRowInv ==
  ASSUME IInv, NEW r \in Req, ReadRow(r)
  PROVE  IInv'
<1> DEFINE t == job[r].task
<1>1. PICK place \in {"fill_row", "auth_row", "echo_row"} : At(r, place)
  BY DEF ReadRow, Reading
<1>2. /\ job[r] \in Job /\ job[r] # Idle /\ job[r].at = place
      /\ JobOK(job[r], row, asg, used)
  BY <1>1, JobAt
<1>3. CASE row[t] = NoRow
  BY <1>1, <1>3, FinishInv DEF ReadRow, Reply
<1>4. CASE row[t] # NoRow
  <2> DEFINE j == [job[r] EXCEPT !.seen = row[t], !.at = Reader(place)]
  <2>1. t \in Task /\ row[t] \in Row
    BY <1>1, <1>2, <1>4, NoIdAssumption DEF JobOK, Located, IInv, Tables
  <2>2. /\ Reader(place) \in Place
        /\ place = "fill_row" => Reader(place) = "fill_asg"
        /\ place = "auth_row" => Reader(place) = "auth_asg"
        /\ place = "echo_row" => Reader(place) = "echo_asg"
    BY <1>1 DEF Reader, Place
  <2>3. /\ j \in Job /\ j.at = Reader(place) /\ j.seen = row[t]
        /\ j.op = job[r].op /\ j.task = t /\ j.since = job[r].since
        /\ j.raced = job[r].raced /\ j.mine = job[r].mine
        /\ j.caller = job[r].caller
    BY <1>2, <2>1, <2>2 DEF Job
  <2>4. job' = [job EXCEPT ![r] = j] /\ UNCHANGED <<row, last, asg, used, cache>>
    BY <1>2, <1>4 DEF ReadRow, IInv, Jobs
  <2> HIDE DEF j
  <2>5. Located(j, used) /\ FillFresh(j, row, asg)
    BY <1>1, <1>2, <1>4, <2>2, <2>3 DEF JobOK, Located, FillFresh
  <2>6. Authorized(j, row, asg) /\ UpdateKept(j, row)
    BY <1>1, <1>2, <1>4, <2>2, <2>3 DEF JobOK, Authorized, UpdateKept
  <2> QED
    BY <1>1, <1>2, <2>3, <2>4, <2>5, <2>6, QuietStep DEF JobOK, At
<1> QED
  BY <1>3, <1>4

\* The owner and the assignees that are read are those the ghosts record.
LEMMA AuthorizeInv ==
  ASSUME IInv, NEW r \in Req, Authorize(r)
  PROVE  IInv'
<1>1. /\ job[r] \in Job /\ job[r] # Idle /\ job[r].at = "auth_asg"
      /\ JobOK(job[r], row, asg, used) /\ At(r, "auth_asg")
  BY JobAt DEF Authorize
<1>2. CASE ~Allowed(job[r], asg[job[r].task])
  BY <1>1, <1>2, FinishInv DEF Authorize, Reply
<1>3. CASE Allowed(job[r], asg[job[r].task])
  <2> DEFINE place == IF job[r].op = "assign" THEN "user" ELSE "apply"
             j == [job[r] EXCEPT !.at = place]
  <2>1. /\ place \in {"user", "apply"} /\ place \in Place
        /\ job[r].op = "assign" => place = "user"
    BY DEF Place
  <2>2. Move(r, place) /\ UNCHANGED <<row, last, asg, used, cache>>
    BY <1>3 DEF Authorize
  <2> HIDE DEF place
  <2>3. /\ j.at = place /\ j.op = job[r].op /\ j.task = job[r].task
        /\ j.since = job[r].since /\ j.caller = job[r].caller
    BY <1>1, <2>1, MoveFields
  <2> HIDE DEF j
  <2>4. Located(j, used) /\ FillFresh(j, row, asg) /\ UpdateKept(j, row)
    BY <1>1, <2>1, <2>3 DEF JobOK, Located, FillFresh, UpdateKept
  <2>5. Authorized(j, row, asg)
    BY <1>1, <1>3, <2>1, <2>3 DEF JobOK, Authorized, Allowed
  <2> QED
    BY <1>1, <2>1, <2>2, <2>4, <2>5, MoveInv DEF j
<1> QED
  BY <1>2, <1>3

\* The second half of a fill, or of the re-read after an update.
LEMMA ReadAssigneesInv ==
  ASSUME IInv, NEW r \in Req, ReadAssignees(r)
  PROVE  IInv'
<1> DEFINE t == job[r].task
<1>1. CASE At(r, "echo_asg") /\ Finish(r, "ok")
  <2>1. JobOK(job[r], row, asg, used) /\ job[r].at = "echo_asg"
    BY <1>1, JobAt
  <2>2. job[r].op = "update" => job[r].mine <= job[r].seen.ver
    BY <2>1 DEF JobOK, UpdateKept
  <2> QED
    BY <1>1, <2>2, FinishInv DEF ReadAssignees, Reply
<1>2. CASE /\ At(r, "fill_asg")
           /\ job' = [job EXCEPT ![r].asg = asg[t], ![r].at = "set"]
  <2> DEFINE j == [job[r] EXCEPT !.asg = asg[t], !.at = "set"]
  <2>1. /\ job[r] \in Job /\ job[r] # Idle /\ job[r].at = "fill_asg"
        /\ JobOK(job[r], row, asg, used)
    BY <1>2, JobAt
  <2>2. job[r].op = "get" /\ t \in Task
    BY <2>1 DEF JobOK, Located, IInv, Tables
  <2>3. /\ j \in Job /\ j.at = "set" /\ j.asg = asg[t] /\ j.seen = job[r].seen
        /\ j.op = job[r].op /\ j.task = t /\ j.since = job[r].since
        /\ j.raced = job[r].raced
    BY <2>1, <2>2 DEF Job, Place, IInv, Tables
  <2>4. job' = [job EXCEPT ![r] = j] /\ UNCHANGED <<row, last, asg, used, cache>>
    BY <1>2 DEF ReadAssignees, IInv, Jobs
  <2> HIDE DEF j
  <2>5. JobOK(j, row, asg, used)
    BY <2>1, <2>2, <2>3 DEF JobOK, Located, FillFresh, Authorized, UpdateKept
  <2> QED
    BY <2>1, <2>3, <2>4, <2>5, QuietStep DEF At
<1> QED
  BY <1>1, <1>2 DEF ReadAssignees

\* Errors, rejected input and statements that found nothing.
LEMMA FailInv ==
  ASSUME IInv, NEW r \in Req,
         Fail(r) \/ Reject(r) \/ (At(r, "apply") /\ NotApplied(r))
  PROVE  IInv'
  BY FinishInv DEF Fail, Reject, NotApplied, Reply

\* Only the existence of the assignee is looked up.
LEMMA LookupAssigneeInv ==
  ASSUME IInv, NEW r \in Req, LookupAssignee(r)
  PROVE  IInv'
<1>1. /\ job[r] \in Job /\ job[r] # Idle /\ job[r].at = "user"
      /\ JobOK(job[r], row, asg, used) /\ At(r, "user")
  BY JobAt DEF LookupAssignee
<1>2. CASE job[r].who \notin User
  BY <1>1, <1>2, FinishInv DEF LookupAssignee, Reply
<1>3. CASE job[r].who \in User
  <2> DEFINE j == [job[r] EXCEPT !.at = "apply"]
  <2>1. /\ j.at = "apply" /\ j.op = job[r].op /\ j.task = job[r].task
        /\ j.since = job[r].since /\ j.caller = job[r].caller
        /\ j.who \in User
    BY <1>1, <1>3, MoveFields DEF Place
  <2> HIDE DEF j
  <2>2. Located(j, used) /\ FillFresh(j, row, asg) /\ UpdateKept(j, row)
    BY <1>1, <2>1 DEF JobOK, Located, FillFresh, UpdateKept
  <2>3. Authorized(j, row, asg)
    BY <1>1, <2>1 DEF JobOK, Authorized
  <2> QED
    BY <1>1, <1>3, <2>2, <2>3, MoveInv DEF LookupAssignee, Place, j
<1> QED
  BY <1>2, <1>3

-----------------------------------------------------------------------------
(* The invalidations.                                                      *)

\* A record after Del.
LEMMA AfterDelOK ==
  ASSUME IInv, NEW r \in Req, At(r, "del")
  PROVE  /\ job[r].task \in used /\ job[r].task \in Task
         /\ AfterDel(job[r]) \in Job
         /\ JobOK(AfterDel(job[r]), row, asg, used)
<1>1. /\ job[r] \in Job /\ job[r] # Idle /\ job[r].at = "del"
      /\ JobOK(job[r], row, asg, used)
  BY JobAt
<1>2. job[r].task \in used /\ job[r].task \in Task
  BY <1>1 DEF JobOK, Located, IInv, Tables
<1>3. CASE job[r].op # "update"
  BY <1>1, <1>2, <1>3, DoneOK, DoneFields DEF AfterDel, JobOK, Authorized, Reply
<1>4. CASE job[r].op = "update"
  <2> DEFINE j == [job[r] EXCEPT !.at = "echo_row"]
  <2>1. /\ j \in Job /\ j.at = "echo_row" /\ j.op = "update" /\ j.task = job[r].task
        /\ j.since = job[r].since /\ j.mine = job[r].mine
        /\ j.caller = job[r].caller
    BY <1>1, <1>4, MoveFields DEF Place
  <2>2. AfterDel(job[r]) = j
    BY <1>4 DEF AfterDel
  <2> HIDE DEF j
  <2>3. JobOK(j, row, asg, used)
    BY <1>1, <1>4, <2>1 DEF JobOK, Located, FillFresh, Authorized, UpdateKept
  <2> QED
    BY <1>2, <2>1, <2>2, <2>3
<1> QED
  BY <1>2, <1>3, <1>4

\* Excusing entries keeps them entries.
LEMMA ExcuseFields ==
  ASSUME IInv, NEW ts
  PROVE  /\ Excuse(ts) \in [Task -> Cached \cup {Miss}]
         /\ \A t \in Task :
              /\ Excuse(ts)[t] = Miss <=> cache[t] = Miss
              /\ cache[t] # Miss =>
                   /\ Excuse(ts)[t].row = cache[t].row
                   /\ Excuse(ts)[t].asg = cache[t].asg
                   /\ Excuse(ts)[t].excused <=> (cache[t].excused \/ t \in ts)
<1>1. \A t \in Task : cache[t] \in Cached \cup {Miss}
  BY DEF IInv, Tables
<1>2. ASSUME NEW c \in Cached
      PROVE  LET e == [c EXCEPT !.excused = TRUE]
             IN  e \in Cached /\ e.row = c.row /\ e.asg = c.asg /\ e.excused
  BY DEF Cached
<1>3. ASSUME NEW t \in Task
      PROVE  /\ Excuse(ts)[t] \in Cached \cup {Miss}
             /\ Excuse(ts)[t] = Miss <=> cache[t] = Miss
             /\ cache[t] # Miss =>
                   /\ Excuse(ts)[t].row = cache[t].row
                   /\ Excuse(ts)[t].asg = cache[t].asg
                   /\ Excuse(ts)[t].excused <=> (cache[t].excused \/ t \in ts)
  <2>1. CASE t \in ts /\ cache[t] # Miss
    BY <1>1, <1>2, <2>1, NullAssumption DEF Excuse
  <2>2. CASE ~(t \in ts /\ cache[t] # Miss)
    BY <1>1, <2>2 DEF Excuse
  <2> QED
    BY <2>1, <2>2
<1> QED
  BY <1>3 DEF Excuse

\* Del removes the entry; a lost Del excuses it.
LEMMA DelInv ==
  ASSUME IInv, NEW r \in Req, CacheDel(r) \/ CacheDelLost(r)
  PROVE  IInv'
<1> DEFINE t == job[r].task
<1>1. /\ At(r, "del") /\ job' = [job EXCEPT ![r] = AfterDel(job[r])]
      /\ UNCHANGED <<row, last, asg, used>>
      /\ cache' = [cache EXCEPT ![t] = Miss] \/ cache' = Excuse({t})
  BY DEF CacheDel, CacheDelLost
<1>2. /\ t \in used /\ t \in Task /\ AfterDel(job[r]) \in Job
      /\ JobOK(AfterDel(job[r]), row, asg, used)
  BY <1>1, AfterDelOK
<1> HIDE DEF t
<1>3. /\ cache' \in [Task -> Cached \cup {Miss}]
      /\ \A s \in Task : cache'[s] # Miss =>
           /\ cache[s] # Miss
           /\ cache'[s].row = cache[s].row /\ cache'[s].asg = cache[s].asg
           /\ cache'[s].excused <=> (cache[s].excused \/ s = t)
  <2>1. CASE cache' = [cache EXCEPT ![t] = Miss]
    BY <1>2, <2>1 DEF IInv, Tables
  <2>2. CASE cache' = Excuse({t})
    BY <2>2, ExcuseFields
  <2> QED
    BY <1>1, <2>1, <2>2
<1>4. \A s \in Task : cache'[s] # Miss => s \in used
  BY <1>3 DEF IInv, Tables
<1>5. StaleExplained'
  <2> SUFFICES ASSUME NEW s \in Task, Stale(s)', ~cache'[s].excused
               PROVE  \E q \in Req : At(q, "del")' /\ job'[q].task = s
    BY DEF StaleExplained
  <2>1. s # t /\ Stale(s) /\ ~cache[s].excused
    BY <1>1, <1>3 DEF Stale
  <2>2. PICK q \in Req : At(q, "del") /\ job[q].task = s
    BY <2>1 DEF IInv, StaleExplained
  <2>3. q # r
    BY <2>1, <2>2 DEF t
  <2> QED
    BY <2>2, <2>3, <1>1 DEF At
<1> QED
  BY <1>1, <1>2, <1>3, <1>4, <1>5, LocalStep

\* The dead server's pending invalidations are lost.
LEMMA CrashInv ==
  ASSUME IInv, Crash
  PROVE  IInv'
<1> DEFINE ts == {job[r].task : r \in {q \in Req : At(q, "del")}}
<1>1. /\ cache' = Excuse(ts) /\ job' = [r \in Req |-> Idle]
      /\ UNCHANGED <<row, last, asg, used>>
  BY DEF Crash
<1>2. \A q \in Req : At(q, "del") => job[q].task \in ts
  OBVIOUS
<1> HIDE DEF ts
<1>3. Tables'
  BY <1>1, ExcuseFields DEF IInv, Tables
<1>4. Jobs'
  BY <1>1 DEF Jobs
<1>5. StaleExplained'
  <2> SUFFICES ASSUME NEW s \in Task, Stale(s)'
               PROVE  cache'[s].excused
    BY DEF StaleExplained
  <2>1. Stale(s) /\ (cache'[s].excused <=> (cache[s].excused \/ s \in ts))
    BY <1>1, ExcuseFields DEF Stale
  <2> QED
    BY <2>1, <1>2 DEF IInv, StaleExplained
<1> QED
  BY <1>3, <1>4, <1>5 DEF IInv

-----------------------------------------------------------------------------
(* The mutations.                                                          *)

\* The other requests for a task that changes are at the same place.
LEMMA ObserveFields ==
  ASSUME IInv, NEW t \in Task, NEW members \in SUBSET User, NEW q \in Req,
         job[q] # Idle
  PROVE  LET j == Observe(t, members)[q]
         IN  /\ j \in Job /\ j.op = job[q].op /\ j.task = job[q].task
             /\ j.caller = job[q].caller /\ j.who = job[q].who
             /\ j.at = job[q].at /\ j.seen = job[q].seen /\ j.asg = job[q].asg
             /\ j.reply = job[q].reply /\ j.mine = job[q].mine
             /\ job[q].since \subseteq j.since
             /\ j.task = t => /\ members \subseteq j.since
                              /\ j.raced <=> j.at \in {"fill_asg", "set"}
             /\ j.task # t => j = job[q]
<1>1. job[q] \in Job
  BY DEF IInv, Jobs
<1>2. CASE job[q].task = t
  <2> DEFINE j == [job[q] EXCEPT !.since = job[q].since \cup members,
                                 !.raced = job[q].at \in {"fill_asg", "set"}]
  <2>1. Observe(t, members)[q] = j
    BY <1>2 DEF Observe
  <2>2. (job[q].at \in {"fill_asg", "set"}) \in BOOLEAN
    OBVIOUS
  <2>3. j \in Job
    BY <1>1, <2>2 DEF Job
  <2>4. /\ j.op = job[q].op /\ j.task = job[q].task
        /\ j.caller = job[q].caller /\ j.who = job[q].who
        /\ j.at = job[q].at /\ j.seen = job[q].seen /\ j.asg = job[q].asg
        /\ j.reply = job[q].reply /\ j.mine = job[q].mine
        /\ j.since = job[q].since \cup members
    BY <1>1 DEF Job
  <2>5. j.raced = (job[q].at \in {"fill_asg", "set"})
    BY <1>1 DEF Job
  <2> HIDE DEF j
  <2> QED
    BY <1>2, <2>1, <2>3, <2>4, <2>5
<1>3. CASE job[q].task # t
  BY <1>1, <1>3 DEF Observe
<1> QED
  BY <1>2, <1>3

\* What every mutation does to the tables: it changes one task, which keeps
\* its owner and its versions if it had any, or is new.
Changed(t) ==
  /\ row' \in [Task -> Row \cup {NoRow}]
  /\ asg' \in [Task -> SUBSET User]
  /\ used' = used \cup {t}
  /\ \A s \in Task \ {t} : row'[s] = row[s] /\ asg'[s] = asg[s]
  /\ t \in used \/ row'[t] # NoRow
  /\ t \in used /\ row'[t] # NoRow =>
       /\ row[t] # NoRow /\ row'[t].owner = row[t].owner
       /\ row[t].ver <= row'[t].ver

\* What is remembered of the tasks is never less than before.
LEMMA Remembered ==
  ASSUME IInv, NEW t \in Task, Changed(t), Remember
  PROVE  /\ last' \in [Task -> Row \cup {NoRow}]
         /\ \A s \in Task : row'[s] # NoRow => last'[s] = row'[s]
         /\ \A s \in used' : last'[s] # NoRow
         /\ \A s \in used : last'[s].owner = last[s].owner /\ last[s].ver <= last'[s].ver
<1>1. \A s \in Task : last'[s] = IF row'[s] = NoRow THEN last[s] ELSE row'[s]
  BY DEF Remember
<1>2. last' \in [Task -> Row \cup {NoRow}]
  BY DEF Remember, Changed, IInv, Tables
<1>3. \A s \in Task : row'[s] # NoRow => last'[s] = row'[s]
  BY <1>1
<1>4. \A s \in used' : last'[s] # NoRow
  BY <1>1 DEF Changed, IInv, Tables
<1>5. ASSUME NEW s \in used
      PROVE  last'[s].owner = last[s].owner /\ last[s].ver <= last'[s].ver
  <2>1. s \in Task /\ last[s] \in Row /\ last[s].ver \in Int /\ last[s].ver <= last[s].ver
    <3>1. s \in Task /\ last[s] \in Row
      BY <1>5 DEF IInv, Tables
    <3> QED
      BY <3>1 DEF Row
  <2>2. CASE s # t \/ row'[t] = NoRow
    BY <1>1, <2>1, <2>2 DEF Changed, IInv, Tables
  <2>3. CASE s = t /\ row'[t] # NoRow
    BY <1>1, <1>5, <2>1, <2>3 DEF Changed, IInv, Tables
  <2> QED
    BY <2>2, <2>3
<1> QED
  BY <1>2, <1>3, <1>4, <1>5

\* Another request is as good after the change as before.
LEMMA OthersOK ==
  ASSUME IInv, NEW t \in Task, Changed(t), NEW q \in Req, job[q] # Idle
  PROVE  JobOK(Observe(t, asg'[t])[q], row', asg', used')
<1> DEFINE j == Observe(t, asg'[t])[q]
<1>1. JobOK(job[q], row, asg, used) /\ job[q] \in Job
  BY DEF IInv, Jobs
<1>2. asg'[t] \in SUBSET User
  BY DEF Changed
<1>3. /\ j \in Job /\ j.op = job[q].op /\ j.task = job[q].task
      /\ j.caller = job[q].caller /\ j.who = job[q].who
      /\ j.at = job[q].at /\ j.seen = job[q].seen /\ j.asg = job[q].asg
      /\ j.reply = job[q].reply /\ j.mine = job[q].mine
      /\ job[q].since \subseteq j.since
      /\ j.task = t => /\ asg'[t] \subseteq j.since
                       /\ j.raced <=> j.at \in {"fill_asg", "set"}
      /\ j.task # t => j = job[q]
  BY <1>2, ObserveFields
<1> HIDE DEF j
<1>4. Located(j, used')
  BY <1>1, <1>3 DEF JobOK, Located, Changed
<1>5. ASSUME j.task = t PROVE JobOK(j, row', asg', used')
  <2>1. t \in used
    BY <1>1, <1>3, <1>5, NoIdAssumption DEF JobOK, Located
  <2>2. row'[t] # NoRow => /\ row[t] # NoRow /\ row'[t].owner = row[t].owner
                           /\ row[t].ver <= row'[t].ver
    BY <2>1 DEF Changed
  <2>3. FillFresh(j, row', asg')
    BY <1>3, <1>5 DEF FillFresh
  <2>4. Authorized(j, row', asg')
    BY <1>1, <1>3, <1>5, <2>2 DEF JobOK, Authorized
  <2>5. UpdateKept(j, row')
    <3>1. row'[t] # NoRow => row[t].ver \in Int /\ row'[t].ver \in Int
      BY <2>2 DEF Changed, IInv, Tables, Row
    <3>2. job[q].mine \in Int
      BY <1>1 DEF Job
    <3> QED
      BY <1>1, <1>3, <1>5, <2>2, <3>1, <3>2 DEF JobOK, UpdateKept
  <2> QED
    BY <1>3, <1>4, <2>3, <2>4, <2>5 DEF JobOK
<1>6. ASSUME j.task # t PROVE JobOK(j, row', asg', used')
  <2>1. j = job[q]
    BY <1>3, <1>6
  <2>2. CASE j.task = NoId
    BY <1>1, <1>4, <2>1, <2>2 DEF JobOK, Located, FillFresh, Authorized, UpdateKept
  <2>3. CASE j.task # NoId
    <3>1. j.task \in Task \ {t}
      BY <1>1, <1>6, <2>1, <2>3 DEF Job
    <3>2. row'[j.task] = row[j.task] /\ asg'[j.task] = asg[j.task]
      BY <3>1 DEF Changed
    <3> QED
      BY <1>1, <1>4, <2>1, <3>2 DEF JobOK, FillFresh, Authorized, UpdateKept
  <2> QED
    BY <2>2, <2>3
<1>7. JobOK(j, row', asg', used')
  BY <1>5, <1>6
<1> QED
  BY <1>7 DEF j

\* A committed mutation: its own request owes an invalidation, unless the task
\* is new, or its entry is excused.
LEMMA AppliedInv ==
  ASSUME IInv, NEW r \in Req, At(r, "apply"), NEW t \in Task, NEW mine \in 0..MaxVer,
         NEW next \in Place, NEW acked \in BOOLEAN,
         Changed(t), Applied(r, t, mine, next, acked),
         \/ t \notin used /\ job[r].op = "create" /\ next = "echo_row"
         \/ t \in used /\ job[r].op # "create" /\ job[r].task = t /\ next = "del",
         job[r].op = "update" => row'[t] # NoRow /\ mine = row'[t].ver
  PROVE  IInv'
<1> DEFINE jobs == Observe(t, asg'[t])
           j == [jobs[r] EXCEPT !.task = t, !.mine = mine]
<1>1. /\ job[r] \in Job /\ job[r] # Idle /\ job[r].at = "apply"
      /\ JobOK(job[r], row, asg, used)
  BY JobAt
<1>2. asg'[t] \in SUBSET User
  BY DEF Changed
<1>3. /\ jobs[r] \in Job /\ jobs[r].op = job[r].op /\ jobs[r].at = "apply"
      /\ jobs[r].task = t => asg'[t] \subseteq jobs[r].since
      /\ jobs[r].task = job[r].task /\ jobs[r].caller = job[r].caller
      /\ jobs[r].who = job[r].who
  BY <1>1, <1>2, ObserveFields
<1>4. /\ j \in Job /\ j.op = job[r].op /\ j.at = "apply" /\ j.task = t
      /\ j.mine = mine /\ j.since = jobs[r].since /\ j.caller = job[r].caller
      /\ job[r].op = "assign" => j.who \in User
      /\ job[r].op # "get" => job[r].caller \in User
  BY <1>1, <1>3 DEF Job, JobOK, Located
<1>5. \/ /\ job' = [jobs EXCEPT ![r] = [j EXCEPT !.at = next]] /\ cache' = cache
      \/ /\ job' = [jobs EXCEPT ![r] = Done(j, "error")] /\ cache' = Excuse({t})
  BY DEF Applied
<1>6. /\ \A q \in Req : job[q] = Idle => jobs[q] = Idle
      /\ DOMAIN jobs = Req
  BY DEF Observe
<1>7. \A q \in Req : job[q] # Idle =>
        /\ jobs[q] \in Job /\ jobs[q].at = job[q].at /\ jobs[q].task = job[q].task
        /\ JobOK(jobs[q], row', asg', used')
  BY <1>2, ObserveFields, OthersOK
<1> HIDE DEF jobs
<1>8. Located(j, used') /\ (j.op # "create" => asg'[t] \subseteq j.since)
  BY <1>3, <1>4, NoIdAssumption DEF Located, Changed
<1>9. JobOK([j EXCEPT !.at = next], row', asg', used')
  <2> DEFINE k == [j EXCEPT !.at = next]
  <2>1. /\ k \in Job /\ k.at = next /\ k.op = j.op /\ k.task = t
        /\ k.since = j.since /\ k.mine = mine /\ k.caller = j.caller
    <3>1. j \in Job /\ j.task = t /\ j.mine = mine
      BY <1>4
    <3> HIDE DEF j
    <3>2. QED
      BY <3>1, MoveFields
  <2> HIDE DEF k, j
  <2>2. next \in {"del", "echo_row"} /\ (next = "del" => j.op # "create")
    BY <1>4
  <2>3. Located(k, used') /\ FillFresh(k, row', asg')
    BY <1>8, <2>1, <2>2, NoIdAssumption DEF Located, FillFresh, Changed
  <2>4. Authorized(k, row', asg')
    BY <1>8, <2>1, <2>2 DEF Authorized
  <2>5. UpdateKept(k, row')
    BY <1>4, <2>1, <2>2 DEF UpdateKept, Changed, Row
  <2> QED
    BY <2>1, <2>3, <2>4, <2>5 DEF JobOK, k
<1>10. JobOK(Done(j, "error"), row', asg', used')
  BY <1>4, <1>8, DoneOK DEF Reply
<1>11. [j EXCEPT !.at = next] \in Job /\ Done(j, "error") \in Job
  BY <1>4, MoveFields, DoneFields DEF Reply
<1> HIDE DEF j
<1>12. Jobs'
  <2>1. \A q \in Req : jobs[q] \in Job \cup {Idle}
    BY <1>6, <1>7
  <2>2. jobs \in [Req -> Job \cup {Idle}]
    BY <2>1, <1>6 DEF Observe, jobs
  <2>3. \A q \in Req : q # r /\ jobs[q] # Idle => JobOK(jobs[q], row', asg', used')
    BY <1>6, <1>7
  <2> QED
    BY <1>5, <1>9, <1>10, <1>11, <2>2, <2>3 DEF Jobs
<1>13. Tables'
  <2>1. Remember
    BY DEF Applied
  <2> QED
    BY <1>5, <2>1, ExcuseFields, Remembered DEF IInv, Tables, Changed
<1>14. StaleExplained'
  <2> SUFFICES ASSUME NEW s \in Task, Stale(s)', ~cache'[s].excused
               PROVE  \E q \in Req : At(q, "del")' /\ job'[q].task = s
    BY DEF StaleExplained
  <2>1. CASE s # t
    <3>1. Stale(s) /\ ~cache[s].excused
      BY <2>1, <1>5, ExcuseFields DEF Stale, Changed
    <3>2. PICK q \in Req : At(q, "del") /\ job[q].task = s
      BY <3>1 DEF IInv, StaleExplained
    <3>3. q # r /\ job[q] # Idle
      BY <3>2, <1>1 DEF At
    <3>4. job'[q] = jobs[q] /\ jobs[q].at = "del" /\ jobs[q].task = s
      BY <3>2, <3>3, <1>5, <1>6, <1>7 DEF At
    <3>5. jobs[q] # Idle
      BY <3>3, <1>7, NullAssumption
    <3> QED
      BY <3>4, <3>5 DEF At
  <2>2. CASE s = t
    <3>1. cache[t] # Miss /\ t \in used
      BY <2>2, <1>5, ExcuseFields DEF Stale, IInv, Tables
    <3>2. next = "del"
      BY <3>1
    <3>3. job' = [jobs EXCEPT ![r] = [j EXCEPT !.at = next]]
      BY <2>2, <3>1, <1>5, ExcuseFields
    <3>4. job'[r] \in Job /\ job'[r].at = "del" /\ job'[r].task = t
      BY <3>2, <3>3, <1>4, <1>6, <1>11, MoveFields
    <3> QED
      BY <2>2, <3>4, NullAssumption DEF At
  <2> QED
    BY <2>1, <2>2
<1> QED
  BY <1>12, <1>13, <1>14 DEF IInv

\* The task of a request about to mutate one.
LEMMA TaskOf ==
  ASSUME IInv, NEW r \in Req, At(r, "apply"), job[r].op # "create"
  PROVE  job[r].task \in used /\ job[r].task \in Task
  BY JobAt DEF JobOK, Located, IInv, Tables

\* A new task was in nobody's hands and has no cache entry.
LEMMA CreateInv ==
  ASSUME IInv, NEW r \in Req, NEW t \in Task, NEW acked \in BOOLEAN,
         Create(r, t, acked)
  PROVE  IInv'
<1>1. At(r, "apply") /\ t \notin used /\ job[r].op = "create"
  BY DEF Create
<1>2. [owner |-> job[r].caller, ver |-> 0] \in Row
  BY <1>1, JobAt DEF Row, JobOK, Located
<1>3. Changed(t)
  BY <1>1, <1>2, NullAssumption DEF Create, Changed, IInv, Tables
<1>4. 0 \in 0..MaxVer /\ "echo_row" \in Place
  BY DEF Place
<1>5. Applied(r, t, 0, "echo_row", acked)
  BY DEF Create
<1> QED
  BY <1>1, <1>3, <1>4, <1>5, AppliedInv

\* An update keeps the owner and never lowers the version.
LEMMA UpdateInv ==
  ASSUME IInv, NEW r \in Req, NEW acked \in BOOLEAN, Update(r, acked)
  PROVE  IInv'
<1> DEFINE t == job[r].task
<1>1. At(r, "apply") /\ job[r].op = "update" /\ t \in used /\ t \in Task
  BY TaskOf DEF Update
<1>2. CASE row[t] = NoRow
  BY <1>1, <1>2, FailInv DEF Update
<1>3. CASE row[t] # NoRow
  <2>1. row[t] \in Row
    BY <1>1, <1>3 DEF IInv, Tables
  <2>2. /\ row' = row \/ (row[t].ver < MaxVer /\ row' = [row EXCEPT ![t].ver = @ + 1])
        /\ UNCHANGED <<asg, used>> /\ Applied(r, t, row'[t].ver, "del", acked)
    BY <1>3 DEF Update
  <2>3. ASSUME row[t].ver < MaxVer
        PROVE  LET k == [row[t] EXCEPT !.ver = row[t].ver + 1]
               IN  k \in Row /\ k.owner = row[t].owner /\ k.ver = row[t].ver + 1
    BY <2>1, <2>3 DEF Row
  <2>4. /\ row' \in [Task -> Row \cup {NoRow}] /\ row'[t] \in Row
        /\ row'[t].owner = row[t].owner /\ row[t].ver <= row'[t].ver
        /\ \A s \in Task \ {t} : row'[s] = row[s]
    <3>1. CASE row' = row
      BY <1>1, <2>1, <3>1 DEF IInv, Tables, Row
    <3>2. CASE row[t].ver < MaxVer /\ row' = [row EXCEPT ![t].ver = @ + 1]
      BY <1>1, <2>1, <2>3, <3>2 DEF IInv, Tables, Row
    <3> QED
      BY <2>2, <3>1, <3>2
  <2>5. Changed(t)
    BY <1>1, <1>3, <2>2, <2>4 DEF Changed, IInv, Tables
  <2>6. row'[t].ver \in 0..MaxVer /\ row'[t] # NoRow /\ "del" \in Place
    BY <2>4, NullAssumption DEF Row, Place
  <2> QED
    BY <1>1, <2>2, <2>5, <2>6, AppliedInv
<1> QED
  BY <1>2, <1>3

\* A deleted task leaves no assignments.
LEMMA DeleteInv ==
  ASSUME IInv, NEW r \in Req, NEW acked \in BOOLEAN, Delete(r, acked)
  PROVE  IInv'
<1> DEFINE t == job[r].task
<1>1. At(r, "apply") /\ job[r].op = "delete" /\ t \in used /\ t \in Task
  BY TaskOf DEF Delete
<1>2. CASE row[t] = NoRow
  BY <1>1, <1>2, FailInv DEF Delete
<1>3. CASE row[t] # NoRow
  <2>1. /\ row' = [row EXCEPT ![t] = NoRow] /\ asg' = [asg EXCEPT ![t] = {}]
        /\ used' = used /\ Applied(r, t, 0, "del", acked)
    BY <1>3 DEF Delete
  <2>2. Changed(t)
    BY <1>1, <2>1 DEF Changed, IInv, Tables
  <2>3. 0 \in 0..MaxVer /\ "del" \in Place
    BY DEF Place
  <2> QED
    BY <1>1, <2>1, <2>2, <2>3, AppliedInv
<1> QED
  BY <1>2, <1>3

\* Assigning and unassigning leave the row alone.
LEMMA AssignInv ==
  ASSUME IInv, NEW r \in Req, NEW acked \in BOOLEAN,
         Assign(r, acked) \/ Unassign(r, acked)
  PROVE  IInv'
<1> DEFINE t == job[r].task
<1>1. /\ At(r, "apply") /\ job[r].op \in {"assign", "unassign"}
      /\ t \in used /\ t \in Task
  BY TaskOf DEF Assign, Unassign
<1>2. CASE NotApplied(r)
  BY <1>1, <1>2, FailInv
<1>3. CASE ~NotApplied(r)
  <2>1. /\ \/ asg' = asg
           \/ asg' = [asg EXCEPT ![t] = asg[t] \cup {job[r].who}] /\ job[r].who \in User
           \/ asg' = [asg EXCEPT ![t] = asg[t] \ {job[r].who}]
        /\ row' = row /\ used' = used /\ Applied(r, t, 0, "del", acked)
    <3>1. Assign(r, acked) => job[r].who \in User
      BY JobAt DEF Assign, JobOK, Located
    <3> QED
      BY <1>3, <3>1 DEF Assign, Unassign
  <2>2. asg' \in [Task -> SUBSET User] /\ \A s \in Task \ {t} : asg'[s] = asg[s]
    BY <1>1, <2>1 DEF IInv, Tables
  <2>3. Changed(t)
    BY <1>1, <2>1, <2>2 DEF Changed, IInv, Tables, Row
  <2>4. 0 \in 0..MaxVer /\ "del" \in Place
    BY DEF Place
  <2> QED
    BY <1>1, <2>1, <2>3, <2>4, AppliedInv
<1> QED
  BY <1>2, <1>3

-----------------------------------------------------------------------------
(* The theorems.                                                           *)

\* A cold cache over any database satisfies the invariant.
LEMMA InitInv == Init => IInv
<1> SUFFICES ASSUME Init PROVE IInv
  OBVIOUS
<1>2. [owner : User, ver : {0}] \subseteq Row
  BY DEF Row
<1>3. Tables
  BY <1>2 DEF Init, Tables
<1>4. Jobs /\ StaleExplained
  BY DEF Init, Jobs, StaleExplained, Stale
<1> QED
  BY <1>3, <1>4 DEF IInv

\* Every step of every request, of Redis and of the server preserves it.
LEMMA StepInv == IInv /\ [Next]_vars => IInv'
<1> SUFFICES ASSUME IInv, [Next]_vars PROVE IInv'
  OBVIOUS
<1>1. CASE UNCHANGED vars
  BY <1>1 DEF vars, IInv, Tables, Jobs, StaleExplained, Stale, At
<1>2. ASSUME NEW r \in Req, Arrive(r) PROVE IInv'
  BY <1>2, StartInv DEF Arrive
<1>3. ASSUME NEW r \in Req, Mutation(r) PROVE IInv'
  BY <1>3, CreateInv, UpdateInv, DeleteInv, AssignInv DEF Mutation
<1>4. ASSUME NEW r \in Req, Step(r), ~Mutation(r) PROVE IInv'
  BY <1>4, CacheHitInv, CacheMissInv, CacheSetInv, CacheSetLostInv, ReadRowInv,
     AuthorizeInv, ReadAssigneesInv, FailInv, LookupAssigneeInv, DelInv, ReturnInv
  DEF Step
<1>5. ASSUME NEW t \in Task, Expire(t) PROVE IInv'
  BY <1>5, ExpireInv
<1>6. CASE Crash
  BY <1>6, CrashInv
<1> QED
  BY <1>1, <1>2, <1>3, <1>4, <1>5, <1>6 DEF Next

\* The invariant holds in every reachable state.
THEOREM Invariance == Spec => []IInv
  BY InitInv, StepInv, PTL DEF Spec

\* Every variable of the service keeps its type.
THEOREM TypeCorrect == Spec => []TypeOK
<1>1. IInv => TypeOK
  BY DEF IInv, Tables, Jobs, TypeOK
<1> QED
  BY <1>1, Invariance, PTL

\* The cache of a task is stale only after a raced fill or a lost
\* invalidation, or while an invalidation is on its way.
THEOREM StalenessExplained == Spec => []StaleExplained
<1>1. IInv => StaleExplained
  BY DEF IInv
<1> QED
  BY <1>1, Invariance, PTL

\* Nobody deletes a task but its owner or an admin, and nobody changes one who
\* was not its owner, an admin, or an assignee during the request.
THEOREM MutationsAuthorized == Spec => []Authority
<1>1. IInv => Authority
  BY DEF IInv, Jobs, JobOK, Authorized, Authority, At
<1> QED
  BY <1>1, Invariance, PTL

\* An update's answer contains the update.
THEOREM EchoHasUpdate == Spec => []EchoNotOlder
<1>1. IInv => EchoNotOlder
  <2> SUFFICES ASSUME IInv, NEW r \in Req, At(r, "done"), job[r].op = "update",
                      job[r].reply = "ok"
               PROVE  job[r].seen.ver >= job[r].mine
    BY DEF EchoNotOlder
  <2>1. job[r].mine <= job[r].seen.ver
    BY JobAt DEF JobOK, UpdateKept
  <2> QED
    BY <2>1
<1> QED
  BY <1>1, Invariance, PTL

-----------------------------------------------------------------------------
(* What Converges promises without a word on fairness.                     *)

\* What request j has read for the cache is the present state of task t.
Feeds(j, t, now, members) ==
  j # Idle /\ j.task = t =>
    /\ j.at = "fill_asg" => j.seen = now
    /\ j.at = "set" => j.seen = now /\ j.asg = members

\* Neither the entry of task t nor a fill on its way disagrees with the
\* database.
Current(t) ==
  /\ ~Stale(t)
  /\ \A r \in Req : Feeds(job[r], t, row[t], asg[t])

\* A step that leaves t's row and assignees alone keeps it current if each
\* entry and each request is as good as it was.
LEMMA KeepsCurrent ==
  ASSUME NEW t \in Task, Current(t), row'[t] = row[t], asg'[t] = asg[t],
         \/ cache'[t] = Miss
         \/ cache[t] # Miss /\ cache'[t].row = cache[t].row /\ cache'[t].asg = cache[t].asg
         \/ cache'[t].row = row[t] /\ cache'[t].asg = asg[t],
         \A q \in Req : Feeds(job'[q], t, row[t], asg[t])
  PROVE  Current(t)'
  BY DEF Current, Stale

\* A request at any place but the two between a fill's read and its Set has
\* nothing for the cache.
LEMMA FeedsNothing ==
  ASSUME NEW j, j = Idle \/ j.at \notin {"fill_asg", "set"},
         NEW t, NEW now, NEW members
  PROVE  Feeds(j, t, now, members)
  BY DEF Feeds

\* Steps of one request that leave the tables alone.
LEMMA LocalCurrent ==
  ASSUME IInv, NEW r \in Req, NEW j, job' = [job EXCEPT ![r] = j],
         NEW t \in Task, Current(t), row'[t] = row[t], asg'[t] = asg[t],
         \/ cache'[t] = Miss
         \/ cache[t] # Miss /\ cache'[t].row = cache[t].row /\ cache'[t].asg = cache[t].asg
         \/ cache'[t].row = row[t] /\ cache'[t].asg = asg[t],
         Feeds(j, t, row[t], asg[t])
  PROVE  Current(t)'
<1>1. \A q \in Req : Feeds(job'[q], t, row[t], asg[t])
  BY DEF IInv, Jobs, Current
<1> QED
  BY <1>1, KeepsCurrent

\* A change to another task, or one that changes nothing.
LEMMA MutationCurrent ==
  ASSUME IInv, NEW r \in Req, Mutation(r),
         NEW t \in Task, Current(t), row'[t] = row[t], asg'[t] = asg[t]
  PROVE  Current(t)'
<1>1. At(r, "apply") /\ job[r] \in Job /\ job[r] # Idle
  <2>1. At(r, "apply")
    BY DEF Mutation, Create, Update, Delete, Assign, Unassign
  <2> QED
    BY <2>1, JobAt
<1>2. CASE NotApplied(r)
  <2>1. Done(job[r], "not_found").at = "done"
    BY <1>1, DoneFields DEF Reply
  <2>2. Feeds(Done(job[r], "not_found"), t, row[t], asg[t])
    BY <2>1, FeedsNothing
  <2> QED
    BY <1>2, <2>2, LocalCurrent DEF NotApplied, Finish, Stale, Current
<1>3. CASE ~NotApplied(r)
  <2>1. PICK s \in Task, mine \in 0..MaxVer, next \in {"del", "echo_row"}, acked \in BOOLEAN :
          Applied(r, s, mine, next, acked) /\ asg'[s] \in SUBSET User
    <3>1. PICK acked \in BOOLEAN :
            \/ \E s \in Task : Create(r, s, acked)
            \/ Update(r, acked) \/ Delete(r, acked)
            \/ Assign(r, acked) \/ Unassign(r, acked)
      BY DEF Mutation
    <3>2. IInv'
      BY <3>1, CreateInv, UpdateInv, DeleteInv, AssignInv
    <3>3. \A s \in Task : asg'[s] \in SUBSET User
      BY <3>2 DEF IInv, Tables
    <3>4. ASSUME NEW s \in Task, Create(r, s, acked) PROVE Applied(r, s, 0, "echo_row", acked)
      BY <3>4 DEF Create
    <3>5. ASSUME Update(r, acked)
          PROVE  /\ job[r].task \in Task /\ row'[job[r].task].ver \in 0..MaxVer
                 /\ Applied(r, job[r].task, row'[job[r].task].ver, "del", acked)
      <4> DEFINE s == job[r].task
      <4>1. s \in Task
        BY <3>5, TaskOf DEF Update
      <4>2. row[s] # NoRow /\ Applied(r, s, row'[s].ver, "del", acked)
        BY <3>5, <1>3 DEF Update
      <4>3. row'[s] # NoRow
        BY <3>5, <4>1, <4>2, <1>3, NullAssumption DEF Update, IInv, Tables, Row
      <4>4. row'[s] \in Row
        BY <3>2, <4>1, <4>3 DEF IInv, Tables
      <4> QED
        BY <4>1, <4>2, <4>4 DEF Row
    <3>6. ASSUME Delete(r, acked) \/ Assign(r, acked) \/ Unassign(r, acked)
          PROVE  job[r].task \in Task /\ Applied(r, job[r].task, 0, "del", acked)
      <4>1. job[r].task \in Task
        BY <3>6, TaskOf DEF Delete, Assign, Unassign
      <4> QED
        BY <3>6, <4>1, <1>3 DEF Delete, Assign, Unassign
    <3>7. 0 \in 0..MaxVer
      OBVIOUS
    <3> QED
      BY <3>1, <3>3, <3>4, <3>5, <3>6, <3>7
  <2> DEFINE jobs == Observe(s, asg'[s])
             j == [jobs[r] EXCEPT !.task = s, !.mine = mine]
  <2>2. \A q \in Req : job[q] # Idle =>
          /\ jobs[q] \in Job /\ jobs[q].at = job[q].at /\ jobs[q].task = job[q].task
          /\ jobs[q].seen = job[q].seen /\ jobs[q].asg = job[q].asg
    BY <2>1, ObserveFields
  <2>3. \A q \in Req : job[q] = Idle => jobs[q] = Idle
    BY DEF Observe
  <2>4. \A q \in Req : Feeds(jobs[q], t, row[t], asg[t])
    BY <2>2, <2>3 DEF Feeds, Current
  <2>5. j \in Job
    <3>1. jobs[r] \in Job
      BY <1>1, <2>2
    <3> HIDE DEF jobs
    <3> QED
      BY <2>1, <3>1 DEF Job
  <2>6. \/ job' = [jobs EXCEPT ![r] = [j EXCEPT !.at = next]] /\ cache' = cache
        \/ job' = [jobs EXCEPT ![r] = Done(j, "error")] /\ cache' = Excuse({s})
    BY <2>1 DEF Applied
  <2>7. DOMAIN jobs = Req
    BY DEF Observe
  <2> HIDE DEF jobs, j
  <2>8. [j EXCEPT !.at = next].at = next /\ Done(j, "error").at = "done"
    BY <2>1, <2>5, MoveFields, DoneFields DEF Place, Reply
  <2>9. \A q \in Req : Feeds(job'[q], t, row[t], asg[t])
    <3>1. job'[r].at \notin {"fill_asg", "set"} /\ \A q \in Req \ {r} : job'[q] = jobs[q]
      BY <2>1, <2>6, <2>7, <2>8
    <3> QED
      BY <2>4, <3>1, FeedsNothing
  <2>10. \/ cache'[t] = Miss
         \/ cache[t] # Miss /\ cache'[t].row = cache[t].row /\ cache'[t].asg = cache[t].asg
    BY <2>6, ExcuseFields
  <2> QED
    BY <2>9, <2>10, KeepsCurrent
<1> QED
  BY <1>2, <1>3

\* Every other step of a request, which leaves the tables alone.
LEMMA StepCurrent ==
  ASSUME IInv, NEW r \in Req, Step(r), ~Mutation(r),
         NEW t \in Task, Current(t), row'[t] = row[t], asg'[t] = asg[t]
  PROVE  Current(t)'
<1>1. job[r] # Idle => job[r] \in Job /\ \A reply \in Reply : Done(job[r], reply).at = "done"
  BY DoneFields DEF IInv, Jobs
<1>2. \/ cache[t] = Miss
      \/ cache[t].row = row[t] /\ cache[t].asg = asg[t]
  BY DEF Current, Stale
<1>3. CASE \E reply \in Reply : Finish(r, reply) /\ cache' = cache /\ job[r] # Idle
  <2>1. PICK reply \in Reply : Finish(r, reply) /\ cache' = cache /\ job[r] # Idle
    BY <1>3
  <2>2. Feeds(Done(job[r], reply), t, row[t], asg[t])
    BY <1>1, <2>1, FeedsNothing
  <2> QED
    BY <1>2, <2>1, <2>2, LocalCurrent DEF Finish
<1>4. CASE \E place \in Place \ {"fill_asg", "set"} :
             Move(r, place) /\ cache' = cache /\ job[r] # Idle
  <2>1. PICK place \in Place \ {"fill_asg", "set"} :
          Move(r, place) /\ cache' = cache /\ job[r] # Idle
    BY <1>4
  <2>2. [job[r] EXCEPT !.at = place].at = place
    BY <1>1, <2>1, MoveFields
  <2>3. Feeds([job[r] EXCEPT !.at = place], t, row[t], asg[t])
    BY <2>1, <2>2, FeedsNothing
  <2> QED
    BY <1>2, <2>1, <2>3, LocalCurrent DEF Move
<1>5. CASE CacheHit(r)
  <2> DEFINE j == [job[r] EXCEPT !.seen = cache[job[r].task].row]
  <2>1. /\ job[r] \in Job /\ job[r].task \in Task /\ cache[job[r].task] # Miss
    BY <1>5, JobAt DEF CacheHit, JobOK, Located, IInv, Tables
  <2>2. j \in Job
    BY <2>1 DEF IInv, Tables, Cached, Job
  <2>3. Feeds(Done(j, "ok"), t, row[t], asg[t])
    BY <2>2, DoneFields, FeedsNothing DEF Reply
  <2> QED
    BY <1>2, <1>5, <2>3, LocalCurrent DEF CacheHit
<1>6. CASE CacheSet(r)
  <2>1. job[r] \in Job /\ job[r] # Idle /\ job[r].at = "set"
    BY <1>6, JobAt DEF CacheSet
  <2>2. Feeds(Done(job[r], "ok"), t, row[t], asg[t])
    BY <1>1, <2>1, FeedsNothing DEF Reply
  <2>3. job[r].task = t => job[r].seen = row[t] /\ job[r].asg = asg[t]
    BY <2>1 DEF Current, Feeds
  <2>4. \/ cache'[t] = cache[t]
        \/ cache'[t].row = row[t] /\ cache'[t].asg = asg[t]
    BY <1>6, <2>3 DEF CacheSet, IInv, Tables
  <2> QED
    BY <1>2, <1>6, <2>2, <2>4, LocalCurrent DEF CacheSet, Finish
<1>7. CASE ReadRow(r) /\ row[job[r].task] # NoRow
  <2> DEFINE j == [job[r] EXCEPT !.seen = row[job[r].task], !.at = Reader(job[r].at)]
  <2>1. PICK place \in {"fill_row", "auth_row", "echo_row"} : At(r, place)
    BY <1>7 DEF ReadRow, Reading
  <2>2. job[r] \in Job /\ job[r].at = place /\ Reader(place) \notin {"set"}
    BY <2>1, JobAt DEF Reader
  <2>3. j.seen = row[job[r].task] /\ j.at = Reader(place) /\ j.task = job[r].task
    BY <2>2 DEF Job
  <2>4. job' = [job EXCEPT ![r] = j] /\ cache' = cache
    BY <1>7 DEF ReadRow, IInv, Jobs
  <2> HIDE DEF j
  <2>5. Feeds(j, t, row[t], asg[t])
    BY <2>2, <2>3 DEF Feeds
  <2> QED
    BY <1>2, <2>4, <2>5, LocalCurrent
<1>8. CASE ReadAssignees(r) /\ At(r, "fill_asg")
  <2> DEFINE j == [job[r] EXCEPT !.asg = asg[job[r].task], !.at = "set"]
  <2>1. job[r] \in Job /\ job[r] # Idle /\ job[r].at = "fill_asg"
    BY <1>8, JobAt
  <2>2. /\ j.seen = job[r].seen /\ j.task = job[r].task /\ j.at = "set"
        /\ j.asg = asg[job[r].task]
    BY <2>1 DEF Job
  <2>3. job' = [job EXCEPT ![r] = j] /\ cache' = cache
    BY <1>8, <2>1 DEF ReadAssignees, At, IInv, Jobs
  <2> HIDE DEF j
  <2>4. Feeds(j, t, row[t], asg[t])
    BY <2>1, <2>2 DEF Feeds, Current
  <2> QED
    BY <1>2, <2>3, <2>4, LocalCurrent
<1>9. CASE CacheDel(r) \/ CacheDelLost(r)
  <2>1. job[r] \in Job /\ job[r] # Idle /\ job[r].at = "del"
    BY <1>9, JobAt DEF CacheDel, CacheDelLost
  <2>2. AfterDel(job[r]).at \in {"done", "echo_row"}
    BY <1>1, <2>1, MoveFields DEF AfterDel, Place, Reply
  <2>3. Feeds(AfterDel(job[r]), t, row[t], asg[t])
    BY <2>2, FeedsNothing
  <2>4. \/ cache'[t] = Miss
        \/ cache[t] # Miss /\ cache'[t].row = cache[t].row /\ cache'[t].asg = cache[t].asg
    <3>1. CASE CacheDel(r)
      BY <3>1, <1>2 DEF CacheDel, IInv, Tables
    <3>2. CASE CacheDelLost(r)
      BY <3>2, ExcuseFields DEF CacheDelLost
    <3> QED
      BY <1>9, <3>1, <3>2
  <2> QED
    BY <1>9, <2>3, <2>4, LocalCurrent DEF CacheDel, CacheDelLost
<1>10. CASE Return(r)
  <2>1. Feeds(Idle, t, row[t], asg[t])
    BY DEF Feeds
  <2> QED
    BY <1>2, <1>10, <2>1, LocalCurrent DEF Return
<1>11. CASE CacheMiss(r)
  BY <1>4, <1>11 DEF CacheMiss, At, Place
<1>12. CASE Authorize(r) \/ LookupAssignee(r)
  BY <1>3, <1>4, <1>12 DEF Authorize, LookupAssignee, At, Place, Reply
<1>13. CASE CacheSetLost(r) \/ Fail(r) \/ Reject(r)
  BY <1>3, <1>13 DEF CacheSetLost, Fail, Reject, At, Reply
<1>14. CASE ReadRow(r) /\ row[job[r].task] = NoRow
  BY <1>3, <1>14 DEF ReadRow, Reading, At, Reply
<1>15. CASE ReadAssignees(r) /\ ~At(r, "fill_asg")
  BY <1>3, <1>15 DEF ReadAssignees, At, Reply
<1> QED
  BY <1>5, <1>6, <1>7, <1>8, <1>9, <1>10, <1>11, <1>12, <1>13, <1>14, <1>15 DEF Step

\* Once the cache's entry of a task and the fills on their way agree with the
\* database, they do until the task is changed, whatever expires, fails, is
\* lost or restarts: the safety half of Converges (task_service.go:62-73).
THEOREM CacheStaysCurrent ==
  Spec => [][\A t \in Task :
               Current(t) /\ row'[t] = row[t] /\ asg'[t] = asg[t] => Current(t)']_vars
<1>1. ASSUME IInv, Next, NEW t \in Task, Current(t), row'[t] = row[t], asg'[t] = asg[t]
      PROVE  Current(t)'
  <2>1. \/ cache[t] = Miss
        \/ cache[t].row = row[t] /\ cache[t].asg = asg[t]
    BY <1>1 DEF Current, Stale
  <2>2. ASSUME NEW r \in Req, Arrive(r) PROVE Current(t)'
    <3>1. PICK op \in Ops, s \in Task \cup {NoId}, caller \in User \cup {Nobody},
               who \in User \cup {Nobody} : Start(r, op, s, caller, who)
      BY <2>2 DEF Arrive
    <3> DEFINE j == [op |-> op, task |-> s, caller |-> caller, who |-> who,
                     at |-> Entry(op, caller), seen |-> NoRow, asg |-> {},
                     reply |-> "none", raced |-> FALSE,
                     since |-> IF s = NoId THEN {} ELSE asg[s], mine |-> 0]
    <3>2. j.at \in {"cache", "apply", "user", "auth_row"}
      BY DEF Entry
    <3>3. job' = [job EXCEPT ![r] = j] /\ cache' = cache
      BY <3>1 DEF Start
    <3> HIDE DEF j
    <3>4. Feeds(j, t, row[t], asg[t])
      BY <3>2, FeedsNothing
    <3> QED
      BY <1>1, <2>1, <3>3, <3>4, LocalCurrent
  <2>3. ASSUME NEW r \in Req, Step(r) PROVE Current(t)'
    BY <1>1, <2>3, StepCurrent, MutationCurrent
  <2>4. ASSUME NEW s \in Task, Expire(s) PROVE Current(t)'
    <3>1. cache'[t] = Miss \/ cache'[t] = cache[t]
      BY <1>1, <2>4 DEF Expire, IInv, Tables
    <3>2. \A q \in Req : Feeds(job'[q], t, row[t], asg[t])
      BY <1>1, <2>4 DEF Expire, Current
    <3> QED
      BY <1>1, <2>1, <3>1, <3>2, KeepsCurrent
  <2>5. CASE Crash
    <3>1. \/ cache'[t] = Miss
          \/ cache[t] # Miss /\ cache'[t].row = cache[t].row /\ cache'[t].asg = cache[t].asg
      BY <1>1, <2>5, ExcuseFields DEF Crash
    <3>2. \A q \in Req : Feeds(job'[q], t, row[t], asg[t])
      BY <2>5, FeedsNothing DEF Crash
    <3> QED
      BY <1>1, <3>1, <3>2, KeepsCurrent
  <2> QED
    BY <1>1, <2>2, <2>3, <2>4, <2>5 DEF Next
<1>2. IInv /\ [Next]_vars =>
        [\A t \in Task :
           Current(t) /\ row'[t] = row[t] /\ asg'[t] = asg[t] => Current(t)']_vars
  BY <1>1
<1> QED
  BY <1>2, Invariance, PTL DEF Spec

-----------------------------------------------------------------------------
(* The refinement: every step of a request, of Redis and of the server is  *)
(* one step of the board, or none.                                         *)

Calls == [r \in Req |-> Call(job[r])]

\* The records of requests as their callers know them, and how steps change one.
Rec(op, task, caller, who, stage, shown) ==
  [op |-> op, task |-> task, caller |-> caller, who |-> who,
   stage |-> stage, shown |-> shown]
Staged(c, stage) == [c EXCEPT !.stage = stage]
Answered(c, stage, shown) == [c EXCEPT !.stage = stage, !.shown = shown]
Taken(c, task, stage) == [c EXCEPT !.task = task, !.stage = stage]

LEMMA Records ==
  ASSUME NEW op, NEW task, NEW caller, NEW who, NEW stage, NEW shown,
         NEW t, NEW s, NEW v, NEW c,
         c = Rec(op, task, caller, who, stage, shown)
  PROVE  /\ Staged(c, s) = Rec(op, task, caller, who, s, shown)
         /\ Answered(c, s, v) = Rec(op, task, caller, who, s, v)
         /\ Taken(c, t, s) = Rec(op, t, caller, who, s, shown)
<1> DEFINE Showing(x) == [x EXCEPT !.shown = v]
           Of(x) == [x EXCEPT !.task = t]
<1>1. ASSUME NEW a, NEW b, NEW d, d = Rec(op, a, caller, who, b, shown)
      PROVE  /\ Staged(d, s) = Rec(op, a, caller, who, s, shown)
             /\ Showing(d) = Rec(op, a, caller, who, b, v)
             /\ Of(d) = Rec(op, t, caller, who, b, shown)
  BY <1>1 DEF Rec, Staged
<1>2. Answered(c, s, v) = Showing(Staged(c, s)) /\ Taken(c, t, s) = Staged(Of(c), s)
  BY DEF Answered, Taken, Staged
<1> HIDE DEF Showing, Of
<1> QED
  BY <1>1, <1>2

-----------------------------------------------------------------------------
(* The steps of the board, one request's record k for its record c.        *)

LEMMA BoardIdle ==
  ASSUME UNCHANGED <<row, last, asg, used>>, Calls' = Calls
  PROVE  [Board!Next]_(Board!vars)
  BY DEF Calls, Board!vars

LEMMA BoardGrant ==
  ASSUME NEW r \in Req, NEW c, Calls[r] = c, c # Idle,
         Calls' = [Calls EXCEPT ![r] = Staged(c, "granted")],
         UNCHANGED <<row, last, asg, used>>,
         c.stage = "asked", c.op # "get", Board!Owns(c) \/ Board!Helps(c)
  PROVE  Board!Next
<1>1. Board!Grant(r, c)
  BY DEF Calls, Staged, Board!Grant, Board!Becomes
<1> QED
  BY <1>1 DEF Calls, Board!Next, Board!Proceed

LEMMA BoardRefuse ==
  ASSUME NEW r \in Req, NEW c, Calls[r] = c, c # Idle, NEW answer \in Board!Answer,
         Calls' = [Calls EXCEPT ![r] = Answered(c, answer, NoRow)],
         UNCHANGED <<row, last, asg, used>>,
         c.stage \notin Board!Answer, Board!Excuses(c, answer)
  PROVE  Board!Next
<1>1. Board!Refuse(r, c, answer)
  BY DEF Calls, Answered, Board!Refuse
<1> QED
  BY <1>1 DEF Calls, Board!Next, Board!Proceed

LEMMA BoardTake ==
  ASSUME NEW r \in Req, NEW c, Calls[r] = c, c # Idle,
         NEW t \in Task, NEW next \in {"taken", "error"},
         Calls' = [Calls EXCEPT ![r] = Taken(c, t, next)],
         c.stage = "granted", Board!Change(c, t), Remember
  PROVE  Board!Next
<1>1. Board!Take(r, c, t, next)
  BY DEF Calls, Taken, Board!Take, Remember, Board!Remember
<1> QED
  BY <1>1 DEF Calls, Board!Next, Board!Proceed

LEMMA BoardLook ==
  ASSUME NEW r \in Req, NEW c, Calls[r] = c, c # Idle,
         Calls' = [Calls EXCEPT ![r] = Answered(c, "shown", row[c.task])],
         UNCHANGED <<row, last, asg, used>>, row[c.task] # NoRow,
         \/ c.stage = "asked" /\ c.op = "get"
         \/ c.stage = "taken" /\ c.op \in {"create", "update"}
  PROVE  Board!Next
<1>1. Board!Look(r, c)
  BY DEF Calls, Answered, Board!Look
<1> QED
  BY <1>1 DEF Calls, Board!Next, Board!Proceed

LEMMA BoardRecall ==
  ASSUME NEW r \in Req, NEW c, Calls[r] = c, c # Idle, NEW v \in Row,
         Calls' = [Calls EXCEPT ![r] = Answered(c, "ok", v)],
         UNCHANGED <<row, last, asg, used>>, c.stage = "asked", c.op = "get",
         v.owner = last[c.task].owner, v.ver <= last[c.task].ver
  PROVE  Board!Next
<1>1. Board!Recall(r, c, v)
  BY DEF Calls, Answered, Board!Recall
<1>2. v \in Board!Row
  BY DEF Row, Board!Row
<1> QED
  BY <1>1, <1>2 DEF Calls, Board!Next, Board!Proceed

LEMMA BoardSucceed ==
  ASSUME NEW r \in Req, NEW c, Calls[r] = c, c # Idle,
         Calls' = [Calls EXCEPT ![r] = Staged(c, "ok")],
         UNCHANGED <<row, last, asg, used>>,
         \/ c.stage = "shown"
         \/ c.stage = "taken" /\ c.op \in {"delete", "assign", "unassign"}
  PROVE  Board!Next
<1>1. Board!Succeed(r, c)
  BY DEF Calls, Staged, Board!Succeed, Board!Becomes
<1> QED
  BY <1>1 DEF Calls, Board!Next, Board!Proceed

-----------------------------------------------------------------------------
(* What the mapping needs to know besides IInv.                            *)

\* The places that each kind of request passes through; only requests that do
\* not come from an admin are authorized by a look-up.
Routed(j) ==
  /\ j.op = "get" => j.at \in {"cache", "fill_row", "fill_asg", "set", "done"}
  /\ j.at \in {"cache", "fill_row"} => j.op = "get"
  /\ j.at = "user" => j.op = "assign"
  /\ j.at \in {"echo_row", "echo_asg"} => j.op \in {"create", "update"}
  /\ j.at \in {"auth_row", "auth_asg"} => j.caller \notin Admin
  /\ j.at = "done" => j.reply # "none"

\* What was read of a task before is what it is or was.
Older(v, now) == v.owner = now.owner /\ v.ver <= now.ver

Past ==
  /\ \A t \in Task : cache[t] # Miss => Older(cache[t].row, last[t])
  /\ \A r \in Req : job[r] # Idle /\ job[r].at \in {"fill_asg", "set"}
       => Older(job[r].seen, last[job[r].task])

Routes == \A r \in Req : job[r] # Idle => Routed(job[r])

BInv == IInv /\ Past /\ Routes

-----------------------------------------------------------------------------
(* The mapping of one request.                                             *)

Shown(j) == IF Shows(j) THEN j.seen ELSE NoRow

\* A request and its image.
LEMMA CallOf ==
  ASSUME NEW j \in Job, Routed(j)
  PROVE  /\ Call(j) # Idle /\ j # Idle
         /\ Call(j).op = j.op /\ Call(j).task = j.task
         /\ Call(j).caller = j.caller /\ Call(j).who = j.who
         /\ Call(j).stage = Stage(j) /\ Call(j).shown = Shown(j)
<1>1. j # Idle
  BY NullAssumption
<1>2. Stage(j) \in {"asked", "granted", "taken", "shown"} \cup Board!Answer
  BY DEF Job, Reply, Place, Routed, Stage, Board!Answer
<1>3. Shown(j) \in Row \cup {NoRow}
  BY DEF Job, Shown
<1>4. /\ j.op \in Ops /\ j.task \in Task \cup {NoId}
      /\ j.caller \in User \cup {Nobody} /\ j.who \in User \cup {Nobody}
  BY DEF Job
<1>5. Call(j) = [op |-> j.op, task |-> j.task, caller |-> j.caller, who |-> j.who,
                 stage |-> Stage(j), shown |-> Shown(j)]
  BY <1>1 DEF Call, Shown
<1>6. Call(j) \in Board!Call
  BY <1>2, <1>3, <1>4, <1>5 DEF Board!Call, Row, Board!Row
<1>7. Call(j) # Idle
  BY <1>6, CallAssumption
<1>8. /\ Call(j).op = j.op /\ Call(j).task = j.task
      /\ Call(j).caller = j.caller /\ Call(j).who = j.who
      /\ Call(j).stage = Stage(j) /\ Call(j).shown = Shown(j)
  BY <1>5
<1> QED
  BY <1>1, <1>7, <1>8

\* The image of a request that went on.
LEMMA Onward ==
  ASSUME NEW i \in Job, NEW j \in Job,
         j.op = i.op, j.caller = i.caller, j.who = i.who
  PROVE  /\ j.task = i.task => Call(j) = Answered(Call(i), Stage(j), Shown(j))
         /\ Shown(j) = Shown(i) => Call(j) = Taken(Call(i), j.task, Stage(j))
         /\ j.task = i.task /\ Shown(j) = Shown(i) => Call(j) = Staged(Call(i), Stage(j))
         /\ j.task = i.task /\ Shown(j) = Shown(i) /\ Stage(j) = Stage(i)
              => Call(j) = Call(i)
<1>1. i # Idle /\ j # Idle
  BY NullAssumption
<1>2. /\ Call(i) = Rec(i.op, i.task, i.caller, i.who, Stage(i), Shown(i))
      /\ Call(j) = Rec(j.op, j.task, j.caller, j.who, Stage(j), Shown(j))
  BY <1>1 DEF Call, Shown, Rec
<1> QED
  BY <1>2, Records

\* The stage at each place.
LEMMA Stages ==
  ASSUME NEW j \in Job, Routed(j)
  PROVE  /\ j.at = "done" => Stage(j) = j.reply
         /\ j.at \in {"fill_asg", "set", "echo_asg"}
              => Stage(j) = "shown" /\ Shown(j) = j.seen
         /\ j.at \in {"del", "echo_row"} => Stage(j) = "taken" /\ Shown(j) = NoRow
         /\ j.at \in {"cache", "fill_row"} => Stage(j) = "asked" /\ Shown(j) = NoRow
         /\ j.at \in {"user", "apply"} => Stage(j) = "granted" /\ Shown(j) = NoRow
         /\ j.at = "done" /\ j.reply # "ok" => Shown(j) = NoRow
         /\ j.at = "done" /\ j.reply = "ok" =>
              Shown(j) = IF j.op \in {"get", "create", "update"} THEN j.seen ELSE NoRow
         /\ j.at \in {"auth_row", "auth_asg"} /\ j.op # "create" =>
              /\ Shown(j) = NoRow
              /\ Stage(j) = IF j.at = "auth_asg" /\ j.seen.owner = j.caller
                            THEN "granted" ELSE "asked"
<1>1. j.at = "done" => Stage(j) = j.reply
  BY DEF Stage
<1>2. j.at \in {"fill_asg", "set", "echo_asg"} => Stage(j) = "shown" /\ Shown(j) = j.seen
  BY DEF Stage, Shown, Shows
<1>3. j.at \in {"del", "echo_row"} => Stage(j) = "taken" /\ Shown(j) = NoRow
  BY DEF Stage, Shown, Shows
<1>4. j.at \in {"cache", "fill_row", "user", "apply", "auth_row", "auth_asg"} =>
        Stage(j) = (IF Granted(j) THEN "granted" ELSE "asked") /\ Shown(j) = NoRow
  BY DEF Stage, Shown, Shows
<1>5. j.at \in {"cache", "fill_row"} => ~Granted(j)
  BY DEF Granted, Routed
<1>6. j.at \in {"user", "apply"} => Granted(j)
  BY DEF Granted
<1>7. j.at \in {"auth_row", "auth_asg"} /\ j.op # "create" =>
        (Granted(j) <=> j.at = "auth_asg" /\ j.seen.owner = j.caller)
  BY DEF Granted, Routed
<1>8. j.at = "done" => Shown(j) = IF j.reply = "ok" /\ j.op \in {"get", "create", "update"}
                                  THEN j.seen ELSE NoRow
  BY DEF Stage, Shown, Shows, Job, Reply
<1> QED
  BY <1>1, <1>2, <1>3, <1>4, <1>5, <1>6, <1>7, <1>8

-----------------------------------------------------------------------------
(* Steps of one request that change no table but the cache.                *)

Simulated == [Board!Next]_(Board!vars) /\ Past' /\ Routes'

\* Request r goes on as j, and the cache keeps to what the rows were.
Goes(r, j) ==
  /\ job[r] # Idle
  /\ j \in Job /\ Routed(j)
  /\ j.op = job[r].op /\ j.caller = job[r].caller /\ j.who = job[r].who
  /\ j.task = job[r].task
  /\ j.at \in {"fill_asg", "set"} => Older(j.seen, last[j.task])
  /\ job' = [job EXCEPT ![r] = j]
  /\ UNCHANGED <<row, last, asg, used>>
  /\ \A t \in Task : cache'[t] # Miss => Older(cache'[t].row, last[t])

LEMMA GoesKeeps ==
  ASSUME BInv, NEW r \in Req, NEW j, Goes(r, j)
  PROVE  Past' /\ Routes'
<1>1. DOMAIN job = Req /\ job'[r] = j /\ \A q \in Req \ {r} : job'[q] = job[q]
  BY DEF BInv, IInv, Jobs, Goes
<1>2. Past'
  BY <1>1 DEF BInv, Past, Goes
<1>3. Routes'
  BY <1>1 DEF BInv, Routes, Goes
<1> QED
  BY <1>2, <1>3

\* The image of such a step.
LEMMA GoesMaps ==
  ASSUME BInv, NEW r \in Req, NEW j, Goes(r, j), NEW c, c = Call(job[r])
  PROVE  /\ Calls[r] = c /\ c # Idle
         /\ c.op = job[r].op /\ c.task = job[r].task
         /\ c.caller = job[r].caller /\ c.who = job[r].who
         /\ c.stage = Stage(job[r]) /\ c.shown = Shown(job[r])
         /\ Calls' = [Calls EXCEPT ![r] = Answered(c, Stage(j), Shown(j))]
         /\ Shown(j) = Shown(job[r])
              => Calls' = [Calls EXCEPT ![r] = Staged(c, Stage(j))]
         /\ Shown(j) = Shown(job[r]) /\ Stage(j) = Stage(job[r]) => Calls' = Calls
<1>1. /\ job[r] \in Job /\ Routed(job[r]) /\ DOMAIN job = Req
  BY DEF BInv, IInv, Jobs, Routes, Goes
<1>2. Calls' = [Calls EXCEPT ![r] = Call(j)]
  BY <1>1 DEF Goes, Calls
<1>3. /\ c # Idle /\ c.op = job[r].op /\ c.task = job[r].task
      /\ c.caller = job[r].caller /\ c.who = job[r].who
      /\ c.stage = Stage(job[r]) /\ c.shown = Shown(job[r])
  BY <1>1, CallOf
<1>4. /\ Call(j) = Answered(c, Stage(j), Shown(j))
      /\ Shown(j) = Shown(job[r]) => Call(j) = Staged(c, Stage(j))
      /\ Shown(j) = Shown(job[r]) /\ Stage(j) = Stage(job[r]) => Call(j) = c
  BY <1>1, Onward DEF Goes
<1>5. Calls[r] = c /\ Calls = [q \in Req |-> Calls[q]]
  BY DEF Calls
<1> QED
  BY <1>2, <1>3, <1>4, <1>5

\* A request is answered with a refusal that the board allows.
LEMMA Refused ==
  ASSUME BInv, NEW r \in Req, job[r] # Idle, job[r].at # "done",
         NEW reply \in {"not_found", "forbidden", "invalid", "error"},
         Finish(r, reply), UNCHANGED <<row, last, asg, used, cache>>,
         Board!Excuses(Call(job[r]), reply)
  PROVE  Simulated
<1> DEFINE j == Done(job[r], reply)
<1>0. PICK c : c = Call(job[r])
  OBVIOUS
<1>1. job[r] \in Job /\ Routed(job[r])
  BY DEF BInv, IInv, Jobs, Routes
<1>2. /\ j \in Job /\ j.at = "done" /\ j.reply = reply
      /\ j.op = job[r].op /\ j.task = job[r].task /\ j.caller = job[r].caller
      /\ j.who = job[r].who
  BY <1>1, DoneFields DEF Reply
<1>3. job' = [job EXCEPT ![r] = j]
  BY DEF Finish
<1> HIDE DEF j
<1>4. Routed(j)
  BY <1>1, <1>2 DEF Routed
<1>5. Goes(r, j)
  BY <1>1, <1>2, <1>3, <1>4 DEF Goes, BInv, Past
<1>6. Stage(j) = reply /\ Shown(j) = NoRow
  BY <1>2, <1>4, Stages
<1>7. Stage(job[r]) \notin Board!Answer
  BY DEF Stage, Board!Answer
<1>8. /\ Calls[r] = c /\ c # Idle /\ c.stage = Stage(job[r])
      /\ Calls' = [Calls EXCEPT ![r] = Answered(c, reply, NoRow)]
  BY <1>0, <1>5, <1>6, GoesMaps
<1>9. reply \in Board!Answer
  BY DEF Board!Answer
<1>10. Board!Next
  BY <1>0, <1>7, <1>8, <1>9, BoardRefuse
<1> QED
  BY <1>5, <1>10, GoesKeeps DEF Simulated

\* A statement fails: no promise is broken by saying so.
LEMMA FailSim ==
  ASSUME BInv, NEW r \in Req, Fail(r)
  PROVE  Simulated
  BY Refused DEF Fail, At, Place, Board!Excuses

\* What is known of a request that is on its way.
LEMMA OnItsWay ==
  ASSUME BInv, NEW r \in Req, NEW place, At(r, place)
  PROVE  /\ job[r] # Idle /\ job[r] \in Job /\ job[r].at = place
         /\ Routed(job[r]) /\ JobOK(job[r], row, asg, used)
         /\ job[r].task # NoId => job[r].task \in Task
         /\ \A t \in Task : cache[t] # Miss => Older(cache[t].row, last[t])
         /\ \A t \in Task : row[t] \in Row \cup {NoRow} /\ asg[t] \in SUBSET User
  BY JobAt DEF BInv, Routes, Past, IInv, Tables, At

\* The statement that applies a request finds nothing to change, or the service
\* rejects its input, or the assignee does not exist.
LEMMA RefusalSim ==
  ASSUME BInv, NEW r \in Req, At(r, "apply") \/ At(r, "user"),
         NEW reply \in {"not_found", "invalid"},
         Finish(r, reply), UNCHANGED <<row, last, asg, used, cache>>,
         reply = "invalid" => job[r].op \in {"create", "update"},
         reply = "not_found" =>
           \/ job[r].task # NoId /\ row[job[r].task] = NoRow
           \/ job[r].op = "assign" /\ job[r].who \notin User
           \/ job[r].op = "unassign" /\ job[r].who \notin asg[job[r].task]
  PROVE  Simulated
<1>1. PICK place \in {"apply", "user"} : At(r, place)
  OBVIOUS
<1>2. /\ job[r] # Idle /\ job[r] \in Job /\ job[r].at = place /\ Routed(job[r])
  BY <1>1, OnItsWay
<1>3. Stage(job[r]) = "granted"
  BY <1>2, Stages
<1>4. PICK c : c = Call(job[r])
  OBVIOUS
<1>5. c.op = job[r].op /\ c.task = job[r].task /\ c.who = job[r].who /\ c.stage = "granted"
  BY <1>2, <1>3, <1>4, CallOf
<1>6. Board!Excuses(c, reply)
  BY <1>5 DEF Board!Excuses, Board!Gone
<1> QED
  BY <1>2, <1>4, <1>6, Refused

\* Get: a hit recalls what the task was, a miss is nobody's business.
LEMMA CacheHitSim ==
  ASSUME BInv, NEW r \in Req, CacheHit(r)
  PROVE  Simulated
<1> DEFINE v == cache[job[r].task].row
           i == [job[r] EXCEPT !.seen = v]
           j == Done(i, "ok")
<1>1. /\ job[r] # Idle /\ job[r] \in Job /\ job[r].at = "cache"
      /\ Routed(job[r]) /\ JobOK(job[r], row, asg, used)
      /\ job[r].op = "get" /\ job[r].task \in Task
      /\ \A t \in Task : cache[t] # Miss => Older(cache[t].row, last[t])
  BY OnItsWay DEF CacheHit, Routed, JobOK, Located
<1>2. v \in Row /\ Older(v, last[job[r].task])
  BY <1>1 DEF CacheHit, BInv, IInv, Tables, Cached
<1>3. /\ i \in Job /\ i.op = "get" /\ i.task = job[r].task /\ i.seen = v
      /\ i.caller = job[r].caller /\ i.who = job[r].who
  BY <1>1, <1>2 DEF Job
<1>4. job' = [job EXCEPT ![r] = j] /\ UNCHANGED <<row, last, asg, used, cache>>
  BY DEF CacheHit
<1> HIDE DEF i
<1>5. /\ j \in Job /\ j.at = "done" /\ j.reply = "ok" /\ j.op = "get"
      /\ j.task = job[r].task /\ j.seen = v
      /\ j.caller = job[r].caller /\ j.who = job[r].who
  BY <1>3, DoneFields DEF Reply
<1> HIDE DEF j, v
<1>6. Routed(j)
  BY <1>1, <1>5 DEF Routed
<1>7. Goes(r, j)
  BY <1>1, <1>4, <1>5, <1>6 DEF Goes
<1>8. Stage(j) = "ok" /\ Shown(j) = v /\ Stage(job[r]) = "asked"
  BY <1>1, <1>5, <1>6, Stages
<1>9. PICK c : c = Call(job[r])
  OBVIOUS
<1>10. /\ Calls[r] = c /\ c # Idle /\ c.op = "get" /\ c.task = job[r].task
       /\ c.stage = "asked" /\ Calls' = [Calls EXCEPT ![r] = Answered(c, "ok", v)]
  BY <1>1, <1>7, <1>8, <1>9, GoesMaps
<1>11. Board!Next
  BY <1>2, <1>4, <1>10, BoardRecall DEF Older
<1> QED
  BY <1>7, <1>11, GoesKeeps DEF Simulated

LEMMA CacheMissSim ==
  ASSUME BInv, NEW r \in Req, CacheMiss(r)
  PROVE  Simulated
<1> DEFINE j == [job[r] EXCEPT !.at = "fill_row"]
<1>1. /\ job[r] # Idle /\ job[r] \in Job /\ job[r].at = "cache"
      /\ Routed(job[r]) /\ job[r].op = "get"
      /\ \A t \in Task : cache[t] # Miss => Older(cache[t].row, last[t])
  BY OnItsWay DEF CacheMiss, Routed
<1>2. /\ j \in Job /\ j.at = "fill_row" /\ j.op = job[r].op /\ j.task = job[r].task
      /\ j.caller = job[r].caller /\ j.who = job[r].who
  <2>1. job[r] \in Job /\ "fill_row" \in Place
    BY <1>1 DEF Place
  <2> QED
    BY <2>1, MoveFields
<1>3. job' = [job EXCEPT ![r] = j] /\ UNCHANGED <<row, last, asg, used, cache>>
  BY DEF CacheMiss, Move, BInv, IInv, Jobs
<1> HIDE DEF j
<1>4. Routed(j)
  BY <1>1, <1>2 DEF Routed
<1>5. Goes(r, j)
  BY <1>1, <1>2, <1>3, <1>4 DEF Goes
<1>6. Stage(j) = Stage(job[r]) /\ Shown(j) = Shown(job[r])
  BY <1>1, <1>2, <1>4, Stages
<1>7. Calls' = Calls
  BY <1>5, <1>6, GoesMaps
<1> QED
  BY <1>3, <1>5, <1>7, GoesKeeps, BoardIdle DEF Simulated

\* The answer of a request that has shown or made what it was asked for.
LEMMA Succeeded ==
  ASSUME BInv, NEW r \in Req, NEW j, Goes(r, j), j.at = "done", j.reply = "ok",
         \/ /\ job[r].at \in {"set", "echo_asg"}
            /\ j.seen = job[r].seen
         \/ job[r].at = "del" /\ job[r].op \in {"delete", "assign", "unassign"}
  PROVE  Simulated
<1>1. /\ job[r] # Idle /\ job[r] \in Job /\ Routed(job[r])
      /\ j \in Job /\ Routed(j) /\ j.op = job[r].op
  BY DEF BInv, IInv, Jobs, Routes, Goes
<1>2. job[r].at \in {"set", "echo_asg"} => job[r].op \in {"get", "create", "update"}
  BY <1>1, OnItsWay DEF At, JobOK, Located, Routed
<1>3. Shown(j) = Shown(job[r]) /\ Stage(j) = "ok"
  BY <1>1, <1>2, Stages
<1>4. \/ Stage(job[r]) = "shown"
      \/ Stage(job[r]) = "taken" /\ job[r].op \in {"delete", "assign", "unassign"}
  BY <1>1, Stages
<1>5. PICK c : c = Call(job[r])
  OBVIOUS
<1>6. /\ Calls[r] = c /\ c # Idle /\ c.op = job[r].op /\ c.stage = Stage(job[r])
      /\ Calls' = [Calls EXCEPT ![r] = Staged(c, "ok")]
  BY <1>3, <1>5, GoesMaps
<1>7. Board!Next
  BY <1>4, <1>6, BoardSucceed DEF Goes
<1> QED
  BY <1>7, GoesKeeps DEF Simulated

\* The fill ends, whether or not the cache took the entry.
LEMMA CacheSetSim ==
  ASSUME BInv, NEW r \in Req, CacheSet(r) \/ CacheSetLost(r)
  PROVE  Simulated
<1> DEFINE j == Done(job[r], "ok")
           t == job[r].task
           entry == [row |-> job[r].seen, asg |-> job[r].asg, excused |-> job[r].raced]
<1>1. /\ job[r] # Idle /\ job[r] \in Job /\ job[r].at = "set"
      /\ Routed(job[r]) /\ JobOK(job[r], row, asg, used)
      /\ \A s \in Task : cache[s] # Miss => Older(cache[s].row, last[s])
  BY OnItsWay DEF CacheSet, CacheSetLost
<1>2. job[r].op = "get" /\ t \in Task /\ Older(job[r].seen, last[t])
  BY <1>1, OnItsWay DEF JobOK, Located, BInv, Past, Job
<1>3. /\ j \in Job /\ j.at = "done" /\ j.reply = "ok" /\ j.op = job[r].op
      /\ j.task = job[r].task /\ j.seen = job[r].seen
      /\ j.caller = job[r].caller /\ j.who = job[r].who
  BY <1>1, DoneFields DEF Reply
<1>4. /\ job' = [job EXCEPT ![r] = j] /\ UNCHANGED <<row, last, asg, used>>
      /\ cache' = cache \/ cache' = [cache EXCEPT ![t] = entry]
  BY DEF CacheSet, CacheSetLost, Finish
<1> HIDE DEF j
<1>5. Routed(j)
  BY <1>1, <1>3 DEF Routed
<1>6. entry.row = job[r].seen
  OBVIOUS
<1> HIDE DEF entry
<1>7. \A s \in Task : cache'[s] # Miss => Older(cache'[s].row, last[s])
  BY <1>1, <1>2, <1>4, <1>6 DEF BInv, IInv, Tables
<1>8. Goes(r, j)
  BY <1>1, <1>3, <1>4, <1>5, <1>7 DEF Goes
<1> QED
  BY <1>1, <1>3, <1>8, Succeeded

\* GetByID: a fill and a re-read look at the task, an authorization learns
\* whether the caller owns it, and any of them that the task is gone.
LEMMA ReadRowGone ==
  ASSUME BInv, NEW r \in Req, ReadRow(r), row[job[r].task] = NoRow
  PROVE  Simulated
<1>1. PICK place \in {"fill_row", "auth_row", "echo_row"} : At(r, place)
  BY DEF ReadRow, Reading
<1>2. /\ job[r] # Idle /\ job[r] \in Job /\ job[r].at = place
      /\ Routed(job[r]) /\ JobOK(job[r], row, asg, used)
  BY <1>1, OnItsWay
<1>3. job[r].task # NoId
  BY <1>1, <1>2 DEF JobOK, Located
<1>4. PICK c : c = Call(job[r])
  OBVIOUS
<1>5. c.task = job[r].task
  BY <1>2, <1>4, CallOf
<1>6. Board!Excuses(c, "not_found")
  BY <1>3, <1>5 DEF Board!Excuses, Board!Gone
<1>7. Finish(r, "not_found") /\ UNCHANGED <<row, last, asg, used, cache>>
  BY DEF ReadRow
<1> QED
  BY <1>1, <1>2, <1>4, <1>6, <1>7, Refused

\* The request goes on at the reading's second half.
LEMMA ReadRowGoes ==
  ASSUME BInv, NEW r \in Req, ReadRow(r), row[job[r].task] # NoRow
  PROVE  \E j \in Job :
           /\ Goes(r, j) /\ j.seen = row[job[r].task] /\ j.op = job[r].op
           /\ j.caller = job[r].caller
           /\ \/ job[r].at = "fill_row" /\ j.at = "fill_asg"
              \/ job[r].at = "auth_row" /\ j.at = "auth_asg"
              \/ job[r].at = "echo_row" /\ j.at = "echo_asg"
           /\ job[r].task \in Task
<1> DEFINE t == job[r].task
<1>1. PICK place \in {"fill_row", "auth_row", "echo_row"} : At(r, place)
  BY DEF ReadRow, Reading
<1> DEFINE j == [job[r] EXCEPT !.seen = row[t], !.at = Reader(place)]
<1>2. /\ job[r] # Idle /\ job[r] \in Job /\ job[r].at = place
      /\ Routed(job[r]) /\ JobOK(job[r], row, asg, used)
      /\ \A s \in Task : cache[s] # Miss => Older(cache[s].row, last[s])
      /\ t # NoId => t \in Task
      /\ \A s \in Task : row[s] \in Row \cup {NoRow}
  BY <1>1, OnItsWay
<1>3. t \in Task /\ row[t] \in Row
  BY <1>1, <1>2 DEF JobOK, Located
<1>4. /\ Reader(place) \in Place
      /\ place = "fill_row" => Reader(place) = "fill_asg"
      /\ place = "auth_row" => Reader(place) = "auth_asg"
      /\ place = "echo_row" => Reader(place) = "echo_asg"
  BY <1>1 DEF Reader, Place
<1>5. /\ j \in Job /\ j.at = Reader(place) /\ j.seen = row[t]
      /\ j.op = job[r].op /\ j.task = t /\ j.caller = job[r].caller
      /\ j.who = job[r].who
  BY <1>2, <1>3, <1>4 DEF Job
<1>6. job' = [job EXCEPT ![r] = j] /\ UNCHANGED <<row, last, asg, used, cache>>
  BY <1>2 DEF ReadRow, BInv, IInv, Jobs
<1> HIDE DEF j
<1>7. Routed(j)
  BY <1>1, <1>2, <1>4, <1>5 DEF Routed
<1>8. Older(j.seen, last[j.task])
  <2>1. last[t] = row[t]
    BY <1>3 DEF BInv, IInv, Tables
  <2> QED
    BY <1>3, <1>5, <2>1 DEF Older, Row
<1>9. Goes(r, j)
  BY <1>2, <1>5, <1>6, <1>7, <1>8 DEF Goes
<1> QED
  BY <1>1, <1>2, <1>3, <1>4, <1>5, <1>9

LEMMA ReadRowSim ==
  ASSUME BInv, NEW r \in Req, ReadRow(r)
  PROVE  Simulated
<1>1. CASE row[job[r].task] = NoRow
  BY <1>1, ReadRowGone
<1>2. CASE row[job[r].task] # NoRow
  <2>1. PICK j \in Job :
          /\ Goes(r, j) /\ j.seen = row[job[r].task] /\ j.op = job[r].op
          /\ j.caller = job[r].caller
          /\ \/ job[r].at = "fill_row" /\ j.at = "fill_asg"
             \/ job[r].at = "auth_row" /\ j.at = "auth_asg"
             \/ job[r].at = "echo_row" /\ j.at = "echo_asg"
          /\ job[r].task \in Task
    BY <1>2, ReadRowGoes
  <2>2. /\ job[r] # Idle /\ job[r] \in Job /\ Routed(job[r]) /\ Routed(j)
        /\ UNCHANGED <<row, last, asg, used>>
    BY <2>1 DEF Goes, BInv, IInv, Jobs, Routes
  <2>3. PICK c : c = Call(job[r])
    OBVIOUS
  <2>4. /\ Calls[r] = c /\ c # Idle /\ c.op = job[r].op /\ c.task = job[r].task
        /\ c.caller = job[r].caller /\ c.stage = Stage(job[r])
        /\ Calls' = [Calls EXCEPT ![r] = Answered(c, Stage(j), Shown(j))]
        /\ Shown(j) = Shown(job[r]) => Calls' = [Calls EXCEPT ![r] = Staged(c, Stage(j))]
        /\ Shown(j) = Shown(job[r]) /\ Stage(j) = Stage(job[r]) => Calls' = Calls
    BY <2>1, <2>3, GoesMaps
  <2>5. CASE job[r].at \in {"fill_row", "echo_row"}
    <3>1. Stage(j) = "shown" /\ Shown(j) = row[job[r].task]
      BY <2>1, <2>2, <2>5, Stages
    <3>2. \/ c.stage = "asked" /\ c.op = "get"
          \/ c.stage = "taken" /\ c.op \in {"create", "update"}
      BY <2>2, <2>4, <2>5, Stages DEF Routed
    <3>3. /\ Calls' = [Calls EXCEPT ![r] = Answered(c, "shown", row[c.task])]
          /\ row[c.task] # NoRow
      BY <1>2, <2>4, <3>1
    <3>4. Board!Next
      BY <2>2, <2>4, <3>2, <3>3, BoardLook
    <3> QED
      BY <2>1, <3>4, GoesKeeps DEF Simulated
  <2>6. CASE job[r].at = "auth_row"
    <3>1. job[r].op \notin {"create", "get"}
      BY <2>2, <2>6, OnItsWay DEF At, JobOK, Located, Routed
    <3>2. /\ Shown(j) = NoRow /\ Shown(job[r]) = NoRow /\ Stage(job[r]) = "asked"
          /\ Stage(j) = IF j.seen.owner = j.caller THEN "granted" ELSE "asked"
      BY <2>1, <2>2, <2>6, <3>1, Stages
    <3>3. CASE j.seen.owner = j.caller
      <4>1. Board!Owns(c)
        BY <1>2, <2>1, <2>4, <3>3 DEF Board!Owns
      <4>2. Calls' = [Calls EXCEPT ![r] = Staged(c, "granted")]
        BY <2>4, <3>2, <3>3
      <4>3. Board!Next
        BY <2>2, <2>4, <3>1, <3>2, <4>1, <4>2, BoardGrant
      <4> QED
        BY <2>1, <4>3, GoesKeeps DEF Simulated
    <3>4. CASE j.seen.owner # j.caller
      <4>1. Calls' = Calls
        BY <2>4, <3>2, <3>4
      <4> QED
        BY <2>1, <2>2, <4>1, GoesKeeps, BoardIdle DEF Simulated
    <3> QED
      BY <3>3, <3>4
  <2> QED
    BY <2>1, <2>5, <2>6
<1> QED
  BY <1>1, <1>2

\* A re-read is answered; a fill still has to be stored.
LEMMA ReadAssigneesSim ==
  ASSUME BInv, NEW r \in Req, ReadAssignees(r)
  PROVE  Simulated
<1> DEFINE t == job[r].task
<1>1. CASE At(r, "echo_asg") /\ Finish(r, "ok")
  <2> DEFINE j == Done(job[r], "ok")
  <2>1. /\ job[r] # Idle /\ job[r] \in Job /\ job[r].at = "echo_asg"
        /\ Routed(job[r])
        /\ \A s \in Task : cache[s] # Miss => Older(cache[s].row, last[s])
    BY <1>1, OnItsWay
  <2>2. /\ j \in Job /\ j.at = "done" /\ j.reply = "ok" /\ j.op = job[r].op
        /\ j.task = job[r].task /\ j.seen = job[r].seen
        /\ j.caller = job[r].caller /\ j.who = job[r].who
    BY <2>1, DoneFields DEF Reply
  <2>3. job' = [job EXCEPT ![r] = j] /\ UNCHANGED <<row, last, asg, used, cache>>
    BY <1>1 DEF Finish, ReadAssignees
  <2> HIDE DEF j
  <2>4. Routed(j)
    BY <2>1, <2>2 DEF Routed
  <2>5. Goes(r, j)
    BY <2>1, <2>2, <2>3, <2>4 DEF Goes
  <2> QED
    BY <2>1, <2>2, <2>5, Succeeded
<1>2. CASE /\ At(r, "fill_asg")
           /\ job' = [job EXCEPT ![r].asg = asg[t], ![r].at = "set"]
  <2> DEFINE j == [job[r] EXCEPT !.asg = asg[t], !.at = "set"]
  <2>1. /\ job[r] # Idle /\ job[r] \in Job /\ job[r].at = "fill_asg"
        /\ Routed(job[r]) /\ JobOK(job[r], row, asg, used)
        /\ \A s \in Task : cache[s] # Miss => Older(cache[s].row, last[s])
        /\ t # NoId => t \in Task
        /\ \A s \in Task : asg[s] \in SUBSET User
    BY <1>2, OnItsWay
  <2>2. t \in Task /\ job[r].op = "get" /\ Older(job[r].seen, last[t])
    BY <2>1 DEF JobOK, Located, BInv, Past
  <2>3. /\ j \in Job /\ j.at = "set" /\ j.seen = job[r].seen
        /\ j.op = job[r].op /\ j.task = t /\ j.caller = job[r].caller
        /\ j.who = job[r].who
    BY <2>1, <2>2 DEF Job, Place
  <2>4. job' = [job EXCEPT ![r] = j] /\ UNCHANGED <<row, last, asg, used, cache>>
    BY <1>2 DEF ReadAssignees, BInv, IInv, Jobs
  <2> HIDE DEF j
  <2>5. Routed(j)
    BY <2>1, <2>2, <2>3 DEF Routed
  <2>6. Goes(r, j)
    BY <2>1, <2>2, <2>3, <2>4, <2>5 DEF Goes
  <2>7. Stage(j) = Stage(job[r]) /\ Shown(j) = Shown(job[r])
    BY <2>1, <2>3, <2>5, Stages
  <2>8. Calls' = Calls
    BY <2>6, <2>7, GoesMaps
  <2> QED
    BY <2>4, <2>6, <2>8, GoesKeeps, BoardIdle DEF Simulated
<1> QED
  BY <1>1, <1>2 DEF ReadAssignees

\* A request goes on to its statement, or to the look-up of the assignee.
LEMMA Proceeds ==
  ASSUME BInv, NEW r \in Req, NEW place \in {"user", "apply"}, Move(r, place),
         At(r, "auth_asg") \/ At(r, "user"),
         place = "user" => job[r].op = "assign",
         UNCHANGED <<row, last, asg, used, cache>>
  PROVE  \E j \in Job : /\ Goes(r, j) /\ Routed(j) /\ j.op = job[r].op
                        /\ j.at = place /\ j.caller = job[r].caller
<1> DEFINE j == [job[r] EXCEPT !.at = place]
<1>1. PICK here \in {"auth_asg", "user"} : At(r, here)
  OBVIOUS
<1>2. /\ job[r] # Idle /\ job[r] \in Job /\ job[r].at = here
      /\ Routed(job[r])
      /\ \A t \in Task : cache[t] # Miss => Older(cache[t].row, last[t])
  BY <1>1, OnItsWay
<1>3. /\ j \in Job /\ j.at = place /\ j.op = job[r].op /\ j.task = job[r].task
      /\ j.caller = job[r].caller /\ j.who = job[r].who
  <2>1. job[r] \in Job /\ place \in Place
    BY <1>2 DEF Place
  <2> QED
    BY <2>1, MoveFields
<1>4. job' = [job EXCEPT ![r] = j]
  BY DEF Move, BInv, IInv, Jobs
<1> HIDE DEF j
<1>5. Routed(j)
  BY <1>1, <1>2, <1>3 DEF Routed
<1>6. Goes(r, j)
  BY <1>2, <1>3, <1>4, <1>5 DEF Goes
<1> QED
  BY <1>3, <1>5, <1>6

\* The owner is authorized since the row was read, which names the same owner
\* as ever; an assignee is now, and nobody else.
LEMMA AuthorizeSim ==
  ASSUME BInv, NEW r \in Req, Authorize(r)
  PROVE  Simulated
<1> DEFINE t == job[r].task
<1>1. /\ job[r] # Idle /\ job[r] \in Job /\ job[r].at = "auth_asg"
      /\ At(r, "auth_asg")
      /\ Routed(job[r]) /\ JobOK(job[r], row, asg, used)
      /\ UNCHANGED <<row, last, asg, used, cache>>
  BY OnItsWay DEF Authorize
<1>2. /\ job[r].op \notin {"create", "get"}
      /\ row[t] = NoRow \/ row[t].owner = job[r].seen.owner
  BY <1>1 DEF JobOK, Located, Authorized, Routed
<1>3. /\ Shown(job[r]) = NoRow
      /\ Stage(job[r]) = IF job[r].seen.owner = job[r].caller THEN "granted" ELSE "asked"
  BY <1>1, <1>2, Stages
<1>4. PICK c : c = Call(job[r])
  OBVIOUS
<1>5. /\ c.op = job[r].op /\ c.task = t /\ c.caller = job[r].caller
      /\ c.stage = Stage(job[r])
  BY <1>1, <1>4, CallOf
<1>6. CASE ~Allowed(job[r], asg[t])
  <2>1. ~Board!Owns(c) /\ ~Board!Helps(c) /\ c.stage = "asked"
    BY <1>2, <1>3, <1>5, <1>6 DEF Allowed, Board!Owns, Board!Helps
  <2>2. Board!Excuses(c, "forbidden")
    BY <1>2, <1>5, <2>1 DEF Board!Excuses
  <2>3. Finish(r, "forbidden")
    BY <1>6 DEF Authorize
  <2> QED
    BY <1>1, <1>4, <2>2, <2>3, Refused
<1>7. CASE Allowed(job[r], asg[t])
  <2> DEFINE place == IF job[r].op = "assign" THEN "user" ELSE "apply"
  <2>1. Move(r, place)
    BY <1>7 DEF Authorize
  <2>2. place \in {"user", "apply"} /\ (place = "user" => job[r].op = "assign")
    OBVIOUS
  <2> HIDE DEF place
  <2>3. PICK j \in Job : /\ Goes(r, j) /\ Routed(j) /\ j.op = job[r].op
                         /\ j.at = place /\ j.caller = job[r].caller
    BY <1>1, <2>1, <2>2, Proceeds
  <2>4. Stage(j) = "granted" /\ Shown(j) = NoRow
    BY <2>2, <2>3, Stages
  <2>5. /\ Calls[r] = c /\ c # Idle
        /\ Calls' = [Calls EXCEPT ![r] = Staged(c, "granted")]
        /\ Stage(job[r]) = "granted" => Calls' = Calls
    BY <1>3, <1>4, <2>3, <2>4, GoesMaps
  <2>6. CASE Stage(job[r]) = "granted"
    BY <1>1, <2>3, <2>5, <2>6, GoesKeeps, BoardIdle DEF Simulated
  <2>7. CASE Stage(job[r]) # "granted"
    <3>1. c.stage = "asked" /\ Board!Helps(c)
      BY <1>3, <1>5, <1>7, <2>7 DEF Allowed, Board!Helps
    <3>2. Board!Next
      BY <1>1, <1>2, <1>5, <2>5, <3>1, BoardGrant
    <3> QED
      BY <2>3, <3>2, GoesKeeps DEF Simulated
  <2> QED
    BY <2>6, <2>7
<1> QED
  BY <1>6, <1>7

LEMMA LookupAssigneeSim ==
  ASSUME BInv, NEW r \in Req, LookupAssignee(r)
  PROVE  Simulated
<1>1. /\ At(r, "user") /\ job[r] # Idle /\ job[r] \in Job /\ job[r].at = "user"
      /\ Routed(job[r]) /\ job[r].op = "assign"
      /\ UNCHANGED <<row, last, asg, used, cache>>
  BY OnItsWay DEF LookupAssignee, Routed
<1>2. CASE job[r].who \notin User
  BY <1>1, <1>2, RefusalSim DEF LookupAssignee
<1>3. CASE job[r].who \in User
  <2>1. PICK j \in Job : /\ Goes(r, j) /\ Routed(j) /\ j.op = job[r].op
                         /\ j.at = "apply" /\ j.caller = job[r].caller
    BY <1>1, <1>3, Proceeds DEF LookupAssignee
  <2>2. Stage(j) = Stage(job[r]) /\ Shown(j) = Shown(job[r])
    BY <1>1, <2>1, Stages
  <2>3. Calls' = Calls
    BY <2>1, <2>2, GoesMaps
  <2> QED
    BY <1>1, <2>1, <2>3, GoesKeeps, BoardIdle DEF Simulated
<1> QED
  BY <1>2, <1>3

\* Del, done or lost: an update goes on to its re-read, the others succeed.
LEMMA DelSim ==
  ASSUME BInv, NEW r \in Req, CacheDel(r) \/ CacheDelLost(r)
  PROVE  Simulated
<1> DEFINE t == job[r].task
           j == AfterDel(job[r])
<1>1. /\ At(r, "del") /\ job' = [job EXCEPT ![r] = j]
      /\ UNCHANGED <<row, last, asg, used>>
      /\ cache' = [cache EXCEPT ![t] = Miss] \/ cache' = Excuse({t})
  BY DEF CacheDel, CacheDelLost, BInv, IInv, Jobs
<1>2. /\ job[r] # Idle /\ job[r] \in Job /\ job[r].at = "del"
      /\ Routed(job[r]) /\ JobOK(job[r], row, asg, used)
      /\ \A s \in Task : cache[s] # Miss => Older(cache[s].row, last[s])
  BY <1>1, OnItsWay
<1>3. t \in Task /\ job[r].op \notin {"create", "get"}
  BY <1>1, <1>2, AfterDelOK DEF BInv, JobOK, Located, Routed
<1>4. \A s \in Task : cache'[s] # Miss => Older(cache'[s].row, last[s])
  <2>1. CASE cache' = [cache EXCEPT ![t] = Miss]
    BY <1>2, <2>1 DEF BInv, IInv, Tables
  <2>2. CASE cache' = Excuse({t})
    BY <1>2, <2>2, ExcuseFields DEF BInv
  <2> QED
    BY <1>1, <2>1, <2>2
<1>5. CASE job[r].op # "update"
  <2>1. /\ j \in Job /\ j.at = "done" /\ j.reply = "ok" /\ j.op = job[r].op
        /\ j.task = job[r].task /\ j.caller = job[r].caller /\ j.who = job[r].who
    BY <1>2, <1>5, DoneFields DEF AfterDel, Reply
  <2> HIDE DEF j
  <2>2. Routed(j)
    BY <1>2, <1>3, <2>1 DEF Routed
  <2>3. Goes(r, j)
    BY <1>1, <1>2, <1>4, <2>1, <2>2 DEF Goes
  <2>4. job[r].op \in {"delete", "assign", "unassign"}
    BY <1>2, <1>3, <1>5, OpsAssumption DEF Job
  <2> QED
    BY <1>2, <2>1, <2>3, <2>4, Succeeded
<1>6. CASE job[r].op = "update"
  <2>1. /\ j \in Job /\ j.at = "echo_row" /\ j.op = job[r].op
        /\ j.task = job[r].task /\ j.caller = job[r].caller /\ j.who = job[r].who
    <3>1. j = [job[r] EXCEPT !.at = "echo_row"] /\ "echo_row" \in Place
      BY <1>6 DEF AfterDel, Place
    <3> HIDE DEF j
    <3> QED
      BY <1>2, <3>1, MoveFields
  <2> HIDE DEF j
  <2>2. Routed(j)
    BY <1>2, <1>6, <2>1 DEF Routed
  <2>3. Goes(r, j)
    BY <1>1, <1>2, <1>4, <2>1, <2>2 DEF Goes
  <2>4. Stage(j) = Stage(job[r]) /\ Shown(j) = Shown(job[r])
    BY <1>2, <2>1, <2>2, Stages
  <2>5. Calls' = Calls
    BY <2>3, <2>4, GoesMaps
  <2> QED
    BY <1>1, <2>3, <2>5, GoesKeeps, BoardIdle DEF Simulated
<1> QED
  BY <1>5, <1>6

\* Redis is not on the board.
LEMMA ExpireSim ==
  ASSUME BInv, NEW t \in Task, Expire(t)
  PROVE  Simulated
<1>1. cache' = [cache EXCEPT ![t] = Miss] /\ UNCHANGED <<row, last, asg, used, job>>
  BY DEF Expire
<1>2. Past'
  BY <1>1 DEF BInv, IInv, Tables, Past
<1>3. Routes' /\ Calls' = Calls
  BY <1>1 DEF BInv, Routes, Calls
<1> QED
  BY <1>1, <1>2, <1>3, BoardIdle DEF Simulated

\* A request that is over, or that died with the server, is forgotten.
LEMMA ReturnSim ==
  ASSUME BInv, NEW r \in Req, Return(r)
  PROVE  Simulated
<1>1. /\ job[r] # Idle /\ job[r] \in Job /\ job[r].at = "done"
      /\ Routed(job[r]) /\ DOMAIN job = Req
  BY OnItsWay DEF Return, BInv, IInv, Jobs
<1>2. job' = [job EXCEPT ![r] = Idle] /\ UNCHANGED <<row, last, asg, used, cache>>
  BY DEF Return
<1>3. Past' /\ Routes'
  BY <1>1, <1>2 DEF BInv, IInv, Jobs, Past, Routes
<1>4. PICK c : c = Call(job[r])
  OBVIOUS
<1>5. c # Idle /\ c.stage \in Board!Answer
  BY <1>1, <1>4, CallOf, Stages DEF Routed, Job, Reply, Board!Answer
<1>6. Board!Forget({r})
  BY <1>1, <1>2 DEF Board!Forget, Call
<1>7. Board!Proceed(r, c)
  BY <1>5, <1>6 DEF Board!Proceed
<1>8. Board!Next
  BY <1>4, <1>5, <1>7 DEF Board!Next
<1> QED
  BY <1>3, <1>8 DEF Simulated

LEMMA CrashSim ==
  ASSUME BInv, Crash
  PROVE  Simulated
<1> DEFINE ts == {job[r].task : r \in {q \in Req : At(q, "del")}}
<1>1. /\ cache' = Excuse(ts) /\ job' = [r \in Req |-> Idle]
      /\ UNCHANGED <<row, last, asg, used>>
  BY DEF Crash
<1> HIDE DEF ts
<1>2. Past' /\ Routes'
  BY <1>1, ExcuseFields DEF BInv, Past, Routes
<1>3. Board!Forget(Req)
  BY <1>1 DEF Board!Forget, Call
<1> QED
  BY <1>2, <1>3 DEF Simulated, Board!Next

\* A request begins entitled if it creates a task or an admin makes it.
LEMMA StartSim ==
  ASSUME BInv, NEW r \in Req, NEW op \in Ops, NEW t \in Task \cup {NoId},
         NEW caller \in User \cup {Nobody}, NEW who \in User \cup {Nobody},
         Start(r, op, t, caller, who)
  PROVE  Simulated
<1> DEFINE since == IF t = NoId THEN {} ELSE asg[t]
           j == [op |-> op, task |-> t, caller |-> caller, who |-> who,
                 at |-> Entry(op, caller), seen |-> NoRow, asg |-> {}, reply |-> "none",
                 raced |-> FALSE, since |-> since, mine |-> 0]
           stage == IF op = "create" \/ caller \in Admin THEN "granted" ELSE "asked"
<1>1. /\ job[r] = Idle
      /\ IF op = "create" THEN t = NoId ELSE t \in used
      /\ op = "get" <=> caller = Nobody
      /\ job' = [job EXCEPT ![r] = j] /\ UNCHANGED <<row, last, asg, used, cache>>
  BY DEF Start
<1>2. j \in Job /\ DOMAIN job = Req
  <2>1. since \in SUBSET User
    BY DEF BInv, IInv, Tables
  <2>2. Entry(op, caller) \in Place
    BY DEF Entry, Place
  <2> QED
    BY <2>1, <2>2, MaxVerAssumption DEF Job, Reply, BInv, IInv, Jobs
<1>3. /\ j.op = op /\ j.task = t /\ j.caller = caller /\ j.who = who
      /\ j.at = Entry(op, caller)
  OBVIOUS
<1> HIDE DEF j
<1>4. /\ op = "get" => Entry(op, caller) = "cache"
      /\ op = "create" => Entry(op, caller) = "apply"
      /\ op \notin {"get", "create"} /\ caller \in Admin =>
           Entry(op, caller) = IF op = "assign" THEN "user" ELSE "apply"
      /\ op \notin {"get", "create"} /\ caller \notin Admin =>
           Entry(op, caller) = "auth_row"
  BY OpsAssumption DEF Entry
<1>5. Routed(j)
  BY <1>3, <1>4 DEF Routed
<1>6. Stage(j) = stage /\ Shown(j) = NoRow
  <2>1. op = "get" => caller \notin Admin
    BY <1>1, UserAssumption
  <2> QED
    BY <1>2, <1>3, <1>4, <1>5, <2>1, Stages
<1>7. Past' /\ Routes'
  BY <1>1, <1>2, <1>3, <1>4, <1>5 DEF BInv, IInv, Jobs, Past, Routes
<1>8. Call(j) = [op |-> op, task |-> t, caller |-> caller, who |-> who,
                 shown |-> NoRow, stage |-> stage]
  BY <1>2, <1>3, <1>6, NullAssumption DEF Call, Shown
<1>9. Calls' = [Calls EXCEPT ![r] = Call(j)]
  BY <1>1, <1>2 DEF Calls
<1>10. Board!Ask(r, op, t, caller, who)
  BY <1>1, <1>8, <1>9 DEF Board!Ask, Calls
<1>11. Board!Begin(r)
  BY <1>10 DEF Board!Begin
<1>12. Board!Next
  BY <1>1, <1>11 DEF Board!Next, Call
<1> QED
  BY <1>7, <1>12 DEF Simulated

-----------------------------------------------------------------------------
(* The one step at which a request changes a task.                         *)

\* Requests that differ only in what the board does not show look the same.
LEMMA SameCall ==
  ASSUME NEW i \in Job, NEW j \in Job, i.op = j.op, i.task = j.task,
         i.caller = j.caller, i.who = j.who, i.at = j.at, i.seen = j.seen,
         i.reply = j.reply
  PROVE  Call(i) = Call(j)
<1>1. Stage(i) = Stage(j)
  BY DEF Stage, Granted
<1>2. Shown(i) = Shown(j)
  BY <1>1 DEF Shown, Shows
<1> QED
  BY <1>1, <1>2, Onward

\* What is or was a version of the task stays so.
LEMMA OlderStill ==
  ASSUME BInv, NEW t \in Task, Changed(t), Remember, NEW s \in used, NEW v \in Row,
         Older(v, last[s])
  PROVE  Older(v, last'[s])
<1>1. last'[s].owner = last[s].owner /\ last[s].ver <= last'[s].ver
  BY Remembered DEF BInv
<1>2. last[s] \in Row /\ last'[s] \in Row
  BY Remembered DEF BInv, IInv, Tables, Changed
<1>3. v.ver \in Int /\ last[s].ver \in Int /\ last'[s].ver \in Int
  BY <1>2 DEF Row
<1> QED
  BY <1>1, <1>3 DEF Older

\* The request that made it goes on to its Del or its re-read, or its answer is
\* lost; the others and the cache only know what was.
LEMMA AppliedSim ==
  ASSUME BInv, NEW r \in Req, At(r, "apply"), NEW t \in Task, NEW mine \in 0..MaxVer,
         NEW next \in Place, NEW acked \in BOOLEAN,
         Changed(t), Applied(r, t, mine, next, acked),
         \/ t \notin used /\ job[r].op = "create" /\ next = "echo_row"
         \/ t \in used /\ job[r].op \notin {"create", "get"} /\ job[r].task = t /\ next = "del",
         Board!Change(Call(job[r]), t)
  PROVE  Simulated
<1> DEFINE jobs == Observe(t, asg'[t])
           j == [jobs[r] EXCEPT !.task = t, !.mine = mine]
           moved == [j EXCEPT !.at = next]
           failed == Done(j, "error")
<1>1. /\ job[r] \in Job /\ job[r] # Idle /\ job[r].at = "apply" /\ Routed(job[r])
      /\ asg'[t] \in SUBSET User /\ IInv
  BY OnItsWay DEF Changed, BInv
<1>2. \A q \in Req : job[q] # Idle =>
        /\ jobs[q] \in Job /\ jobs[q].op = job[q].op /\ jobs[q].task = job[q].task
        /\ jobs[q].caller = job[q].caller /\ jobs[q].who = job[q].who
        /\ jobs[q].at = job[q].at /\ jobs[q].seen = job[q].seen
        /\ jobs[q].reply = job[q].reply
  BY <1>1, ObserveFields
<1>3. DOMAIN jobs = Req /\ \A q \in Req : job[q] = Idle => jobs[q] = Idle
  BY DEF Observe
<1>4. \/ job' = [jobs EXCEPT ![r] = moved] /\ cache' = cache
      \/ job' = [jobs EXCEPT ![r] = failed] /\ cache' = Excuse({t})
  BY DEF Applied
<1> HIDE DEF jobs
<1>5. /\ j \in Job /\ j.op = job[r].op /\ j.task = t /\ j.caller = job[r].caller
      /\ j.who = job[r].who
  BY <1>1, <1>2 DEF Job
<1> HIDE DEF j
<1>6. PICK k \in {moved, failed} : job' = [jobs EXCEPT ![r] = k]
  BY <1>4
<1>7. /\ k \in Job /\ k.op = job[r].op /\ k.task = t /\ k.caller = job[r].caller
      /\ k.who = job[r].who
      /\ \/ k.at = next
         \/ k.at = "done" /\ k.reply = "error"
  <2>1. CASE k = moved
    BY <1>5, <2>1, MoveFields
  <2>2. CASE k = failed
    BY <1>5, <2>2, DoneFields DEF Reply
  <2> QED
    BY <2>1, <2>2
<1> HIDE DEF moved, failed
<1>8. Routed(k)
  BY <1>1, <1>7 DEF Routed
<1>9. Stage(k) \in {"taken", "error"} /\ Shown(k) = NoRow
  BY <1>7, <1>8, Stages
<1>10. Stage(job[r]) = "granted" /\ Shown(job[r]) = NoRow
  BY <1>1, Stages
<1>11. job'[r] = k /\ \A q \in Req \ {r} : job'[q] = jobs[q]
  BY <1>3, <1>6
<1>12. \A q \in Req \ {r} : Call(job'[q]) = Call(job[q])
  BY <1>2, <1>3, <1>11, SameCall DEF BInv, IInv, Jobs
<1>13. PICK c : c = Call(job[r])
  OBVIOUS
<1>14. c # Idle /\ c.stage = "granted" /\ Calls[r] = c
  BY <1>1, <1>10, <1>13, CallOf DEF Calls
<1>15. Call(k) = Taken(c, t, Stage(k))
  BY <1>1, <1>7, <1>9, <1>10, <1>13, Onward
<1>16. Calls' = [Calls EXCEPT ![r] = Taken(c, t, Stage(k))]
  BY <1>11, <1>12, <1>15 DEF Calls
<1>17. Remember /\ Board!Next
  <2>1. Remember
    BY DEF Applied
  <2> QED
    BY <1>9, <1>13, <1>14, <1>16, <2>1, BoardTake
<1>18. Routes'
  <2> SUFFICES ASSUME NEW q \in Req, job'[q] # Idle PROVE Routed(job'[q])
    BY DEF Routes
  <2>1. CASE q = r
    BY <1>8, <1>11, <2>1
  <2>2. CASE q # r
    BY <1>2, <1>3, <1>11, <2>2 DEF BInv, Routes, Routed
  <2> QED
    BY <2>1, <2>2
<1>19. Past'
  <2>1. ASSUME NEW s \in Task, cache'[s] # Miss PROVE Older(cache'[s].row, last'[s])
    <3>1. cache[s] # Miss /\ cache'[s].row = cache[s].row
      BY <1>1, <1>4, <2>1, ExcuseFields
    <3>2. s \in used /\ cache[s].row \in Row /\ Older(cache[s].row, last[s])
      BY <3>1 DEF BInv, IInv, Tables, Cached, Past
    <3> QED
      BY <1>17, <3>1, <3>2, OlderStill
  <2>2. ASSUME NEW q \in Req, job'[q] # Idle, job'[q].at \in {"fill_asg", "set"}
        PROVE  Older(job'[q].seen, last'[job'[q].task])
    <3>1. q # r
      BY <1>7, <1>11, <2>2
    <3>2. /\ job[q] # Idle /\ job'[q].at = job[q].at /\ job'[q].seen = job[q].seen
          /\ job'[q].task = job[q].task
      BY <1>2, <1>3, <1>11, <2>2, <3>1
    <3>3. /\ job[q].seen \in Row /\ job[q].task \in used /\ job[q].task \in Task
          /\ Older(job[q].seen, last[job[q].task])
      BY <2>2, <3>2 DEF BInv, IInv, Tables, Jobs, JobOK, Located, Job, Past
    <3> QED
      BY <1>17, <3>2, <3>3, OlderStill
  <2> QED
    BY <2>1, <2>2 DEF Past
<1> QED
  BY <1>17, <1>18, <1>19 DEF Simulated

LEMMA CreateSim ==
  ASSUME BInv, NEW r \in Req, NEW t \in Task, NEW acked \in BOOLEAN,
         Create(r, t, acked)
  PROVE  Simulated
<1>1. /\ At(r, "apply") /\ t \notin used /\ job[r].op = "create"
      /\ row' = [row EXCEPT ![t] = [owner |-> job[r].caller, ver |-> 0]]
      /\ used' = used \cup {t} /\ UNCHANGED asg
      /\ Applied(r, t, 0, "echo_row", acked)
  BY DEF Create
<1>2. /\ job[r] \in Job /\ Routed(job[r]) /\ job[r].caller \in User
  BY <1>1, OnItsWay DEF JobOK, Located
<1>3. Changed(t)
  <2>1. [owner |-> job[r].caller, ver |-> 0] \in Row
    BY <1>2, MaxVerAssumption DEF Row
  <2> QED
    BY <1>1, <2>1, NullAssumption DEF Changed, BInv, IInv, Tables
<1>4. PICK c : c = Call(job[r])
  OBVIOUS
<1>5. c.op = "create" /\ c.caller = job[r].caller
  BY <1>1, <1>2, <1>4, CallOf
<1>6. Board!Change(c, t)
  BY <1>1, <1>5 DEF Board!Change
<1>7. 0 \in 0..MaxVer /\ "echo_row" \in Place
  BY MaxVerAssumption DEF Place
<1> QED
  BY <1>1, <1>3, <1>4, <1>6, <1>7, AppliedSim

\* A request whose statement finds nothing is told so.
LEMMA NotAppliedSim ==
  ASSUME BInv, NEW r \in Req, At(r, "apply"), NotApplied(r),
         \/ job[r].task # NoId /\ row[job[r].task] = NoRow
         \/ job[r].op = "unassign" /\ job[r].who \notin asg[job[r].task]
  PROVE  Simulated
  BY RefusalSim DEF NotApplied

\* The task a request is to change, and its image.
LEMMA ToChange ==
  ASSUME BInv, NEW r \in Req, At(r, "apply"), job[r].op # "create"
  PROVE  /\ job[r].task \in used /\ job[r].task \in Task /\ job[r].task # NoId
         /\ row[job[r].task] \in Row \cup {NoRow} /\ asg[job[r].task] \in SUBSET User
         /\ job[r].op = "assign" => job[r].who \in User
         /\ \E c : /\ c = Call(job[r]) /\ c.op = job[r].op
                   /\ c.task = job[r].task /\ c.who = job[r].who
<1>1. job[r].task \in used /\ job[r].task \in Task
  BY TaskOf DEF BInv
<1>2. /\ job[r] \in Job /\ Routed(job[r]) /\ JobOK(job[r], row, asg, used)
      /\ job[r].at = "apply"
  BY OnItsWay
<1>3. row[job[r].task] \in Row \cup {NoRow} /\ asg[job[r].task] \in SUBSET User
  BY <1>1 DEF BInv, IInv, Tables
<1>4. /\ Call(job[r]).op = job[r].op /\ Call(job[r]).task = job[r].task
      /\ Call(job[r]).who = job[r].who
  BY <1>2, CallOf
<1> QED
  BY <1>1, <1>2, <1>3, <1>4, NoIdAssumption DEF JobOK, Located

LEMMA UpdateSim ==
  ASSUME BInv, NEW r \in Req, NEW acked \in BOOLEAN, Update(r, acked)
  PROVE  Simulated
<1> DEFINE t == job[r].task
<1>1. /\ At(r, "apply") /\ job[r].op = "update"
  BY DEF Update
<1>2. /\ t \in used /\ t \in Task /\ t # NoId /\ row[t] \in Row \cup {NoRow}
  BY <1>1, ToChange
<1>3. CASE row[t] = NoRow
  BY <1>1, <1>2, <1>3, NotAppliedSim DEF Update
<1>4. CASE row[t] # NoRow
  <2>1. /\ row' = row \/ (row[t].ver < MaxVer /\ row' = [row EXCEPT ![t].ver = @ + 1])
        /\ UNCHANGED <<asg, used>> /\ Applied(r, t, row'[t].ver, "del", acked)
    BY <1>4 DEF Update
  <2>2. PICK c : c = Call(job[r]) /\ c.op = "update" /\ c.task = t
    BY <1>1, ToChange
  <2>3. Board!Change(c, t)
    BY <1>4, <2>1, <2>2 DEF Board!Change
  <2>4. /\ row' \in [Task -> Row \cup {NoRow}] /\ row'[t] \in Row
        /\ row'[t].owner = row[t].owner /\ row[t].ver <= row'[t].ver
        /\ \A s \in Task \ {t} : row'[s] = row[s]
    <3>1. CASE row' = row
      BY <1>2, <1>4, <3>1 DEF BInv, IInv, Tables, Row
    <3>2. CASE row[t].ver < MaxVer /\ row' = [row EXCEPT ![t].ver = @ + 1]
      <4>1. LET k == [row[t] EXCEPT !.ver = row[t].ver + 1]
            IN  k \in Row /\ k.owner = row[t].owner /\ k.ver = row[t].ver + 1
        BY <1>2, <1>4, <3>2, MaxVerAssumption DEF Row
      <4> QED
        BY <1>2, <1>4, <3>2, <4>1 DEF BInv, IInv, Tables, Row
    <3> QED
      BY <2>1, <3>1, <3>2
  <2>5. Changed(t)
    BY <1>2, <1>4, <2>1, <2>4 DEF Changed, BInv, IInv, Tables
  <2>6. row'[t].ver \in 0..MaxVer /\ "del" \in Place
    BY <2>4 DEF Row, Place
  <2> QED
    BY <1>1, <1>2, <2>1, <2>2, <2>3, <2>5, <2>6, AppliedSim
<1> QED
  BY <1>3, <1>4

LEMMA DeleteSim ==
  ASSUME BInv, NEW r \in Req, NEW acked \in BOOLEAN, Delete(r, acked)
  PROVE  Simulated
<1> DEFINE t == job[r].task
<1>1. /\ At(r, "apply") /\ job[r].op = "delete"
  BY DEF Delete
<1>2. /\ t \in used /\ t \in Task /\ t # NoId
  BY <1>1, ToChange
<1>3. CASE row[t] = NoRow
  BY <1>1, <1>2, <1>3, NotAppliedSim DEF Delete
<1>4. CASE row[t] # NoRow
  <2>1. /\ row' = [row EXCEPT ![t] = NoRow] /\ asg' = [asg EXCEPT ![t] = {}]
        /\ used' = used /\ Applied(r, t, 0, "del", acked)
    BY <1>4 DEF Delete
  <2>2. PICK c : c = Call(job[r]) /\ c.op = "delete" /\ c.task = t
    BY <1>1, ToChange
  <2>3. Board!Change(c, t)
    BY <1>4, <2>1, <2>2 DEF Board!Change
  <2>4. Changed(t)
    BY <1>2, <2>1 DEF Changed, BInv, IInv, Tables
  <2>5. 0 \in 0..MaxVer /\ "del" \in Place
    BY MaxVerAssumption DEF Place
  <2> QED
    BY <1>1, <1>2, <2>1, <2>2, <2>3, <2>4, <2>5, AppliedSim
<1> QED
  BY <1>3, <1>4

LEMMA AssignSim ==
  ASSUME BInv, NEW r \in Req, NEW acked \in BOOLEAN,
         Assign(r, acked) \/ Unassign(r, acked)
  PROVE  Simulated
<1> DEFINE t == job[r].task
<1>1. /\ At(r, "apply") /\ job[r].op \in {"assign", "unassign"}
  BY DEF Assign, Unassign
<1>2. /\ t \in used /\ t \in Task /\ t # NoId /\ asg[t] \in SUBSET User
      /\ job[r].op = "assign" => job[r].who \in User
  BY <1>1, ToChange
<1>3. CASE NotApplied(r) /\ job[r].op = "unassign" /\ job[r].who \notin asg[t]
  BY <1>1, <1>2, <1>3, NotAppliedSim
<1>4. CASE ~(NotApplied(r) /\ job[r].op = "unassign" /\ job[r].who \notin asg[t])
  <2>1. PICK c : /\ c = Call(job[r]) /\ c.op = job[r].op /\ c.task = t
                 /\ c.who = job[r].who
    BY <1>1, ToChange
  <2>2. /\ row' = row /\ used' = used /\ Applied(r, t, 0, "del", acked)
        /\ \/ /\ job[r].op = "assign"
              /\ asg' = IF row[t] = NoRow THEN asg
                        ELSE [asg EXCEPT ![t] = @ \cup {job[r].who}]
           \/ /\ job[r].op = "unassign" /\ job[r].who \in asg[t]
              /\ asg' = [asg EXCEPT ![t] = @ \ {job[r].who}]
    BY <1>4 DEF Assign, Unassign
  <2>3. Board!Change(c, t)
    BY <1>2, <2>1, <2>2 DEF Board!Change
  <2>4. asg' \in [Task -> SUBSET User] /\ \A s \in Task \ {t} : asg'[s] = asg[s]
    BY <1>2, <2>2 DEF BInv, IInv, Tables
  <2>5. row \in [Task -> Row \cup {NoRow}] /\ used' = used \cup {t}
    BY <1>2, <2>2 DEF BInv, IInv, Tables
  <2>6. row'[t] # NoRow => row[t].ver <= row'[t].ver
    BY <1>2, <2>2, <2>5 DEF Row
  <2>7. Changed(t)
    BY <1>2, <2>2, <2>4, <2>5, <2>6 DEF Changed
  <2>8. 0 \in 0..MaxVer /\ "del" \in Place
    BY MaxVerAssumption DEF Place
  <2> QED
    BY <1>1, <1>2, <2>1, <2>2, <2>3, <2>7, <2>8, AppliedSim
<1> QED
  BY <1>3, <1>4

-----------------------------------------------------------------------------
(* The theorem.                                                            *)

\* The service begins as the board does.
LEMMA InitBoard == Init => BInv /\ Board!Init
<1> SUFFICES ASSUME Init PROVE BInv /\ Board!Init
  OBVIOUS
<1>1. IInv
  BY InitInv
<1>2. Past /\ Routes
  BY DEF Init, Past, Routes
<1>3. Calls = [r \in Req |-> Idle]
  BY DEF Init, Calls, Call
<1>4. Board!Init
  BY <1>3 DEF Init, Board!Init, Calls
<1> QED
  BY <1>1, <1>2, <1>4 DEF BInv

\* Every step is one of the board's, or none.
LEMMA StepBoard == BInv /\ [Next]_vars => BInv' /\ [Board!Next]_(Board!vars)
<1> SUFFICES ASSUME BInv, [Next]_vars PROVE IInv' /\ Simulated
  BY DEF BInv, Simulated
<1>1. IInv'
  BY StepInv DEF BInv
<1>2. CASE UNCHANGED vars
  <2>1. Past' /\ Routes' /\ Calls' = Calls /\ UNCHANGED <<row, last, asg, used>>
    BY <1>2 DEF vars, BInv, Past, Routes, Calls
  <2> QED
    BY <1>1, <2>1, BoardIdle DEF Simulated
<1>3. ASSUME NEW r \in Req, Arrive(r) PROVE Simulated
  BY <1>3, StartSim DEF Arrive
<1>4. ASSUME NEW r \in Req, Mutation(r) PROVE Simulated
  BY <1>4, CreateSim, UpdateSim, DeleteSim, AssignSim DEF Mutation
<1>5. ASSUME NEW r \in Req, Reject(r) PROVE Simulated
  BY <1>5, RefusalSim DEF Reject
<1>6. ASSUME NEW r \in Req, Step(r), ~Mutation(r), ~Reject(r) PROVE Simulated
  BY <1>6, CacheHitSim, CacheMissSim, CacheSetSim, ReadRowSim, AuthorizeSim,
     ReadAssigneesSim, FailSim, LookupAssigneeSim, DelSim, ReturnSim
  DEF Step
<1>7. ASSUME NEW t \in Task, Expire(t) PROVE Simulated
  BY <1>7, ExpireSim
<1>8. CASE Crash
  BY <1>1, <1>8, CrashSim
<1> QED
  BY <1>1, <1>2, <1>3, <1>4, <1>5, <1>6, <1>7, <1>8 DEF Next

\* Callers of the service see the board.
THEOREM Refinement == Spec => Linearizes
  BY InitBoard, StepBoard, PTL DEF Spec, Linearizes, Board!Spec

-----------------------------------------------------------------------------
(* What can be said of a successful Assign.                                *)

\* A task that is deleted stays deleted: ids are not used twice.
GoneForGood == \A t \in used : row[t] = NoRow => row'[t] = NoRow

LEMMA StepGone == IInv /\ [Next]_vars => GoneForGood
<1> SUFFICES ASSUME IInv, [Next]_vars, NEW t \in used, row[t] = NoRow
             PROVE  row'[t] = NoRow
  BY DEF GoneForGood
<1>1. t \in Task /\ row \in [Task -> Row \cup {NoRow}]
  BY DEF IInv, Tables
<1>2. CASE row' = row
  BY <1>2
<1>3. ASSUME NEW r \in Req, Mutation(r) PROVE row'[t] = NoRow
  <2>1. PICK acked \in BOOLEAN :
          \/ \E s \in Task : Create(r, s, acked)
          \/ Update(r, acked) \/ Delete(r, acked)
          \/ Assign(r, acked) \/ Unassign(r, acked)
    BY <1>3 DEF Mutation
  <2>2. ASSUME NEW s \in Task, Create(r, s, acked) PROVE row'[t] = NoRow
    BY <1>1, <2>2 DEF Create
  <2>3. CASE Update(r, acked)
    BY <1>1, <2>3 DEF Update, NotApplied
  <2>4. CASE Delete(r, acked)
    BY <1>1, <2>4 DEF Delete, NotApplied
  <2>5. CASE Assign(r, acked) \/ Unassign(r, acked)
    BY <2>5 DEF Assign, Unassign, NotApplied
  <2> QED
    BY <2>1, <2>2, <2>3, <2>4, <2>5
<1>4. ASSUME NEW r \in Req, Arrive(r) \/ (Step(r) /\ ~Mutation(r)) PROVE row' = row
  BY <1>4 DEF Arrive, Start, Step, CacheHit, CacheMiss, CacheSet, CacheSetLost,
     ReadRow, Authorize, ReadAssignees, Fail, Reject, LookupAssignee, CacheDel,
     CacheDelLost, Return
<1>5. CASE Crash \/ \E s \in Task : Expire(s)
  BY <1>5 DEF Crash, Expire
<1> QED
  BY <1>2, <1>3, <1>4, <1>5 DEF Next, vars

\* Request j, if it assigned somebody, did, or its task is gone.
Stored(j, rows) ==
  /\ j # Idle /\ j.op = "assign"
  /\ j.at = "del" \/ (j.at = "done" /\ j.reply = "ok")
  => j.who \in j.since \/ rows[j.task] = NoRow

StoredAll == \A r \in Req : Stored(job[r], row)

\* A record that says nothing of an assignment.
LEMMA StoredNothing ==
  ASSUME NEW j, NEW rows,
         \/ j = Idle \/ j.op # "assign" \/ j.at \notin {"del", "done"}
         \/ j.at = "done" /\ j.reply # "ok"
  PROVE  Stored(j, rows)
  BY DEF Stored

\* Steps that leave the rows alone, all requests but r and the tables as they were.
LEMMA StoredLocal ==
  ASSUME IInv, StoredAll, NEW r \in Req, NEW j, job' = [job EXCEPT ![r] = j],
         row' = row, Stored(j, row)
  PROVE  StoredAll'
  BY DEF IInv, Jobs, StoredAll

LEMMA StoredStep ==
  ASSUME BInv, StoredAll, NEW r \in Req, Step(r), ~Mutation(r)
  PROVE  StoredAll'
<1>1. /\ IInv
      /\ job[r] # Idle => job[r] \in Job /\ Routed(job[r]) /\ Stored(job[r], row)
  BY DEF BInv, IInv, Jobs, Routes, StoredAll
<1>2. row' = row
  BY DEF Step, CacheHit, CacheMiss, CacheSet, CacheSetLost,
     ReadRow, Authorize, ReadAssignees, Fail, Reject, LookupAssignee, CacheDel,
     CacheDelLost, Return
<1>3. ASSUME NEW reply \in Reply, Finish(r, reply), job[r] # Idle,
             reply # "ok" \/ job[r].op # "assign"
      PROVE  StoredAll'
  <2>1. /\ Done(job[r], reply).at = "done" /\ Done(job[r], reply).reply = reply
        /\ Done(job[r], reply).op = job[r].op
    BY <1>1, <1>3, DoneFields
  <2>2. Stored(Done(job[r], reply), row)
    BY <1>3, <2>1, StoredNothing
  <2> QED
    BY <1>1, <1>2, <1>3, <2>2, StoredLocal DEF Finish
<1>4. ASSUME NEW place \in Place \ {"del", "done"}, Move(r, place), job[r] # Idle
      PROVE  StoredAll'
  <2>1. [job[r] EXCEPT !.at = place].at = place
    BY <1>1, <1>4, MoveFields
  <2>2. Stored([job[r] EXCEPT !.at = place], row)
    BY <1>4, <2>1, StoredNothing
  <2> QED
    BY <1>1, <1>2, <1>4, <2>2, StoredLocal DEF Move
<1>5. CASE CacheHit(r)
  <2> DEFINE j == [job[r] EXCEPT !.seen = cache[job[r].task].row]
  <2>1. /\ job[r] \in Job /\ job[r].op = "get"
        /\ job[r].task \in Task /\ cache[job[r].task] # Miss
    BY <1>1, <1>5, JobAt DEF CacheHit, JobOK, Located, IInv, Tables
  <2>2. j \in Job /\ j.op = "get"
    BY <1>1, <2>1 DEF IInv, Tables, Cached, Job
  <2>3. Stored(Done(j, "ok"), row)
    <3> HIDE DEF j
    <3>1. Done(j, "ok").op = "get"
      BY <2>2, DoneFields DEF Reply
    <3> QED
      BY <3>1, StoredNothing
  <2> QED
    BY <1>1, <1>2, <1>5, <2>3, StoredLocal DEF CacheHit
<1>6. CASE CacheSet(r) \/ CacheSetLost(r)
  <2>1. job[r] # Idle /\ job[r].op = "get" /\ Finish(r, "ok")
    BY <1>1, <1>6, JobAt DEF CacheSet, CacheSetLost, JobOK, Located
  <2> QED
    BY <1>3, <2>1 DEF Reply
<1>7. CASE ReadRow(r) /\ row[job[r].task] # NoRow
  <2> DEFINE j == [job[r] EXCEPT !.seen = row[job[r].task], !.at = Reader(job[r].at)]
  <2>1. PICK place \in {"fill_row", "auth_row", "echo_row"} : At(r, place)
    BY <1>7 DEF ReadRow, Reading
  <2>2. job[r] \in Job /\ job[r].at = place /\ Reader(place) \notin {"del", "done"}
    BY <1>1, <2>1, JobAt DEF Reader
  <2>3. j.at = Reader(place)
    BY <2>2 DEF Job
  <2>4. job' = [job EXCEPT ![r] = j]
    BY <1>1, <1>7 DEF ReadRow, IInv, Jobs
  <2> HIDE DEF j
  <2>5. Stored(j, row)
    BY <2>2, <2>3, StoredNothing
  <2> QED
    BY <1>1, <1>2, <2>4, <2>5, StoredLocal
<1>8. CASE ReadAssignees(r) /\ At(r, "fill_asg")
  <2> DEFINE j == [job[r] EXCEPT !.asg = asg[job[r].task], !.at = "set"]
  <2>1. job[r] \in Job /\ job[r] # Idle /\ job[r].at = "fill_asg"
    BY <1>1, <1>8, JobAt
  <2>2. j.at = "set"
    BY <2>1 DEF Job
  <2>3. job' = [job EXCEPT ![r] = j]
    BY <1>1, <1>8, <2>1 DEF ReadAssignees, At, IInv, Jobs
  <2> HIDE DEF j
  <2>4. Stored(j, row)
    BY <2>2, StoredNothing
  <2> QED
    BY <1>1, <1>2, <2>3, <2>4, StoredLocal
<1>9. CASE ReadAssignees(r) /\ ~At(r, "fill_asg")
  <2>1. job[r] # Idle /\ job[r].op # "assign" /\ Finish(r, "ok")
    BY <1>1, <1>9 DEF ReadAssignees, At, Routed
  <2> QED
    BY <1>3, <2>1 DEF Reply
<1>10. CASE CacheDel(r) \/ CacheDelLost(r)
  <2>1. /\ job[r] \in Job /\ job[r] # Idle /\ job[r].at = "del"
        /\ job' = [job EXCEPT ![r] = AfterDel(job[r])]
    BY <1>1, <1>10, JobAt DEF CacheDel, CacheDelLost
  <2>2. CASE job[r].op = "update"
    <3>1. AfterDel(job[r]).at = "echo_row"
      BY <2>1, <2>2, MoveFields DEF AfterDel, Place
    <3>2. Stored(AfterDel(job[r]), row)
      BY <3>1, StoredNothing
    <3> QED
      BY <1>1, <1>2, <2>1, <3>2, StoredLocal
  <2>3. CASE job[r].op # "update"
    <3> DEFINE j == Done(job[r], "ok")
    <3>1. /\ AfterDel(job[r]) = j /\ j.op = job[r].op /\ j.who = job[r].who
          /\ j.since = job[r].since /\ j.task = job[r].task
      BY <2>1, <2>3, DoneFields DEF AfterDel, Reply
    <3> HIDE DEF j
    <3>2. Stored(j, row)
      BY <1>1, <2>1, <3>1 DEF Stored
    <3> QED
      BY <1>1, <1>2, <2>1, <3>1, <3>2, StoredLocal
  <2> QED
    BY <2>2, <2>3
<1>11. CASE Return(r)
  <2>1. Stored(Idle, row)
    BY DEF Stored
  <2> QED
    BY <1>1, <1>2, <1>11, <2>1, StoredLocal DEF Return
<1>12. CASE CacheMiss(r)
  BY <1>4, <1>12 DEF CacheMiss, At, Place
<1>13. CASE Authorize(r) \/ LookupAssignee(r)
  BY <1>3, <1>4, <1>13 DEF Authorize, LookupAssignee, At, Place, Reply
<1>14. CASE Fail(r) \/ Reject(r) \/ (ReadRow(r) /\ row[job[r].task] = NoRow)
  BY <1>3, <1>14 DEF Fail, Reject, ReadRow, Reading, At, Reply
<1> QED
  BY <1>5, <1>6, <1>7, <1>8, <1>9, <1>10, <1>11, <1>12, <1>13, <1>14 DEF Step

LEMMA StoredMutation ==
  ASSUME BInv, StoredAll, NEW r \in Req, Mutation(r)
  PROVE  StoredAll'
<1>1. /\ IInv /\ IInv' /\ GoneForGood /\ At(r, "apply")
      /\ job[r] \in Job /\ job[r] # Idle
  <2>1. At(r, "apply")
    BY DEF Mutation, Create, Update, Delete, Assign, Unassign
  <2>2. Next
    BY DEF Next, Step
  <2> QED
    BY <2>1, <2>2, JobAt, StepInv, StepGone DEF BInv
<1>2. CASE NotApplied(r)
  <2>1. /\ Done(job[r], "not_found").at = "done"
        /\ Done(job[r], "not_found").reply = "not_found"
    BY <1>1, DoneFields DEF Reply
  <2>2. Stored(Done(job[r], "not_found"), row)
    BY <2>1, StoredNothing
  <2> QED
    BY <1>1, <1>2, <2>2, StoredLocal DEF NotApplied, Finish
<1>3. ASSUME NEW t \in Task, NEW mine, NEW next \in Place, NEW acked,
             mine \in 0..MaxVer, Applied(r, t, mine, next, acked),
             \/ job[r].op # "assign"
             \/ /\ job[r].task = t /\ next = "del"
                /\ job[r].who \in asg'[t] \/ row'[t] = NoRow
      PROVE  StoredAll'
  <2> DEFINE jobs == Observe(t, asg'[t])
             j == [jobs[r] EXCEPT !.task = t, !.mine = mine]
  <2>1. asg'[t] \in SUBSET User
    BY <1>1 DEF IInv, Tables
  <2>2. \A q \in Req : job[q] # Idle =>
          /\ jobs[q] \in Job /\ jobs[q].op = job[q].op /\ jobs[q].task = job[q].task
          /\ jobs[q].who = job[q].who /\ jobs[q].at = job[q].at
          /\ jobs[q].reply = job[q].reply /\ job[q].since \subseteq jobs[q].since
          /\ jobs[q].task = t => asg'[t] \subseteq jobs[q].since
    BY <1>1, <2>1, ObserveFields
  <2>3. DOMAIN jobs = Req /\ \A q \in Req : job[q] = Idle => jobs[q] = Idle
    BY DEF Observe
  <2>4. \/ job' = [jobs EXCEPT ![r] = [j EXCEPT !.at = next]]
        \/ job' = [jobs EXCEPT ![r] = Done(j, "error")]
    BY <1>3 DEF Applied
  <2> HIDE DEF jobs
  <2>5. /\ j \in Job /\ j.op = job[r].op /\ j.task = t /\ j.who = job[r].who
        /\ j.since = jobs[r].since
    <3>1. jobs[r] \in Job /\ jobs[r].op = job[r].op /\ jobs[r].who = job[r].who
      BY <1>1, <2>2
    <3> QED
      BY <1>3, <3>1 DEF Job
  <2> HIDE DEF j
  <2>6. ASSUME NEW q \in Req \ {r} PROVE Stored(job'[q], row')
    <3>1. job'[q] = jobs[q]
      BY <2>3, <2>4
    <3>2. CASE job[q] = Idle
      BY <2>3, <3>1, <3>2, StoredNothing
    <3>3. CASE job[q] # Idle
      <4>1. job[q].op = "assign" => job[q].task \in used
        BY <1>1, <3>3 DEF IInv, Jobs, JobOK, Located
      <4>2. job[q].op = "assign" /\ row[job[q].task] = NoRow => row'[job[q].task] = NoRow
        BY <1>1, <4>1 DEF GoneForGood
      <4> QED
        BY <2>2, <3>1, <3>3, <4>2 DEF StoredAll, Stored
    <3> QED
      BY <3>2, <3>3
  <2>7. Stored(job'[r], row')
    <3>1. CASE job'[r] = Done(j, "error")
      <4>1. Done(j, "error").at = "done" /\ Done(j, "error").reply = "error"
        BY <2>5, DoneFields DEF Reply
      <4> QED
        BY <3>1, <4>1, StoredNothing
    <3>2. CASE job'[r] = [j EXCEPT !.at = next]
      <4> DEFINE k == [j EXCEPT !.at = next]
      <4>1. /\ k.op = job[r].op /\ k.task = t /\ k.who = job[r].who
            /\ k.since = jobs[r].since
        BY <2>5, MoveFields, <1>3
      <4> HIDE DEF k
      <4>2. job[r].op = "assign" => asg'[t] \subseteq k.since
        BY <1>1, <1>3, <2>2, <4>1
      <4> QED
        BY <1>3, <3>2, <4>1, <4>2 DEF Stored, k
    <3> QED
      BY <2>3, <2>4, <3>1, <3>2
  <2> QED
    BY <2>6, <2>7 DEF StoredAll
<1>4. CASE ~NotApplied(r)
  <2>1. PICK acked \in BOOLEAN :
          \/ \E s \in Task : Create(r, s, acked)
          \/ Update(r, acked) \/ Delete(r, acked)
          \/ Assign(r, acked) \/ Unassign(r, acked)
    BY DEF Mutation
  <2>2. 0 \in 0..MaxVer /\ "del" \in Place /\ "echo_row" \in Place
    BY MaxVerAssumption DEF Place
  <2>3. ASSUME NEW s \in Task, Create(r, s, acked) PROVE StoredAll'
    BY <1>3, <2>2, <2>3 DEF Create
  <2>4. job[r].op # "create" => job[r].task \in Task /\ job[r].task \in used
    BY <1>1, TaskOf
  <2>5. CASE Update(r, acked)
    <3> DEFINE t == job[r].task
    <3>1. t \in Task /\ row[t] # NoRow /\ Applied(r, t, row'[t].ver, "del", acked)
      BY <1>4, <2>4, <2>5 DEF Update
    <3>2. row'[t] # NoRow
      BY <1>1, <1>4, <2>5, <3>1, NullAssumption DEF Update, IInv, Tables, Row
    <3>3. row'[t].ver \in 0..MaxVer
      BY <1>1, <3>1, <3>2 DEF IInv, Tables, Row
    <3>4. job[r].op # "assign"
      BY <2>5 DEF Update
    <3> QED
      BY <1>3, <2>2, <3>1, <3>3, <3>4
  <2>6. CASE Delete(r, acked) \/ Unassign(r, acked)
    <3>1. /\ job[r].op # "assign" /\ job[r].task \in Task
          /\ Applied(r, job[r].task, 0, "del", acked)
      BY <1>4, <2>4, <2>6 DEF Delete, Unassign
    <3> QED
      BY <1>3, <2>2, <3>1
  <2>7. CASE Assign(r, acked)
    <3> DEFINE t == job[r].task
    <3>1. /\ t \in Task /\ Applied(r, t, 0, "del", acked) /\ row' = row
          /\ asg' = IF row[t] = NoRow THEN asg
                    ELSE [asg EXCEPT ![t] = @ \cup {job[r].who}]
      BY <2>4, <2>7 DEF Assign
    <3>2. job[r].who \in asg'[t] \/ row'[t] = NoRow
      BY <1>1, <3>1 DEF IInv, Tables
    <3> QED
      BY <1>3, <2>2, <3>1, <3>2
  <2> QED
    BY <2>1, <2>3, <2>5, <2>6, <2>7
<1> QED
  BY <1>2, <1>4

\* When Assign answers "assigned", the user was an assignee of the task at some
\* moment of the request, or the task is gone: what remains of AssignStores, which
\* task_handler.go:159 promises without the exception and a run refutes.  Deletion
\* is the only way for the assignment not to be stored.
AssignedOrGone ==
  \A r \in Req :
    At(r, "done") /\ job[r].op = "assign" /\ job[r].reply = "ok"
      => job[r].who \in job[r].since \/ row[job[r].task] = NoRow

\* It is so in every reachable state, and a task that is gone stays gone.
THEOREM AssignedOrDeleted ==
  Spec => []AssignedOrGone /\ [][GoneForGood]_vars
<1>1. Init => BInv /\ StoredAll
  BY InitBoard DEF Init, StoredAll, Stored
<1>2. BInv /\ StoredAll /\ [Next]_vars => BInv' /\ StoredAll' /\ [GoneForGood]_vars
  <2> SUFFICES ASSUME BInv, StoredAll, [Next]_vars PROVE StoredAll'
    BY StepBoard, StepGone DEF BInv
  <2>1. CASE UNCHANGED vars
    BY <2>1 DEF vars, StoredAll
  <2>2. ASSUME NEW r \in Req, Arrive(r) PROVE StoredAll'
    <3>1. PICK op \in Ops, t \in Task \cup {NoId}, caller \in User \cup {Nobody},
               who \in User \cup {Nobody} : Start(r, op, t, caller, who)
      BY <2>2 DEF Arrive
    <3> DEFINE j == [op |-> op, task |-> t, caller |-> caller, who |-> who,
                     at |-> Entry(op, caller), seen |-> NoRow, asg |-> {},
                     reply |-> "none", raced |-> FALSE,
                     since |-> IF t = NoId THEN {} ELSE asg[t], mine |-> 0]
    <3>2. j.at \in {"cache", "apply", "user", "auth_row"}
      BY DEF Entry
    <3>3. job' = [job EXCEPT ![r] = j] /\ row' = row
      BY <3>1 DEF Start
    <3> HIDE DEF j
    <3>4. Stored(j, row)
      BY <3>2, StoredNothing
    <3> QED
      BY <3>3, <3>4, StoredLocal DEF BInv
  <2>3. ASSUME NEW r \in Req, Step(r) PROVE StoredAll'
    BY <2>3, StoredStep, StoredMutation
  <2>4. ASSUME NEW t \in Task, Expire(t) PROVE StoredAll'
    BY <2>4 DEF Expire, StoredAll
  <2>5. CASE Crash
    BY <2>5 DEF Crash, StoredAll, Stored
  <2> QED
    BY <2>1, <2>2, <2>3, <2>4, <2>5 DEF Next
<1>3. BInv /\ StoredAll => AssignedOrGone
  BY DEF StoredAll, Stored, AssignedOrGone, At
<1> QED
  BY <1>1, <1>2, <1>3, PTL DEF Spec
=============================================================================
