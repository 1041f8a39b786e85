------------------------------ MODULE UserService ------------------------------
(***************************************************************************)
(* internal/service/user_service.go: concurrent requests against the users *)
(* table, the Redis copy of each user, and the copy of what the external   *)
(* API says of a user linked to it.  One action per statement or call; any *)
(* may fail, or take effect and still answer with an error, and the server *)
(* may die between any two.                                                *)
(*                                                                         *)
(* An operator named Mut... is no part of the model: it is the operator    *)
(* that follows it with a plausible bug, for testing the properties.       *)
(***************************************************************************)
EXTENDS UserRows

CONSTANTS
  Linked,           \* users with an external_id, each another one
  Req,              \* handler goroutines
  Asked,            \* role names that requests ask for, perhaps unknown ones
  Miss, Idle        \* no cache entry, no request

ASSUME LinkedAssumption == Linked \subseteq User
ASSUME AskedAssumption == Role \subseteq Asked

VARIABLES
  user,      \* the users table
  was,       \* for the properties only: each user as he is, and was before
  cache,     \* Redis: the entry "user:<id>" of each user
  external,  \* Redis: the linked users with an entry "ext:user:<external id>"
  job        \* what each handler goroutine is doing

vars == <<user, was, cache, external, job>>

\* excused records, for the property only, that the entry was filled across a
\* commit or that an invalidation of it was lost.
Cached == [row : Row, excused : BOOLEAN]

Place == {"cache", "fill", "set", "ext_cache", "ext_call", "ext_set",
          "role", "apply", "del", "done"}
Reply == {"none", "ok", "not_found", "error"}

\* raced, for the property only: the user changed since its fill read it.
Job == [op : {"get", "me", "role", "deactivate"}, id : User, role : Asked,
        at : Place, seen : Row \cup {NoUser}, enriched : BOOLEAN,
        raced : BOOLEAN, reply : Reply]

ASSUME NullAssumption == Miss \notin Cached /\ Idle \notin Job

TypeOK ==
  /\ user \in Table
  /\ was \in [User -> SUBSET Row]
  /\ cache \in [User -> Cached \cup {Miss}]
  /\ external \subseteq Linked
  /\ job \in [Req -> Job \cup {Idle}]

Init ==
  /\ user \in Table
  /\ was = [u \in User |-> {user[u]} \ {NoUser}]
  /\ cache = [u \in User |-> Miss]
  /\ external = {}
  /\ job = [r \in Req |-> Idle]

-----------------------------------------------------------------------------
At(r, place) == job[r] # Idle /\ job[r].at = place
Done(j, reply) == [j EXCEPT !.at = "done", !.reply = reply, !.raced = FALSE]
Move(r, place) == job' = [job EXCEPT ![r].at = place]
Finish(r, reply) == job' = [job EXCEPT ![r] = Done(@, reply)]

\* The goroutines after user u changed.
Observe(u) ==
  [q \in Req |-> IF job[q] # Idle /\ job[q].id = u
                 THEN [job[q] EXCEPT !.raced = @ \/ job[q].at = "set"] ELSE job[q]]

\* An invalidation of the entries of us did not happen.
Excuse(us) ==
  [u \in User |-> IF u \in us /\ cache[u] # Miss
                  THEN [cache[u] EXCEPT !.excused = TRUE] ELSE cache[u]]

Entry(op) == CASE op \in {"get", "me"} -> "cache"
               [] op = "role" -> "role"
               [] op = "deactivate" -> "apply"

\* The id may be one that no user has, but not the caller's own of /me.  Only
\* UpdateRole is given a role.
Start(r, op, u, role) ==
  /\ job[r] = Idle
  /\ op = "me" => user[u] # NoUser
  /\ op # "role" => role = "user"
  /\ job' = [job EXCEPT ![r] =
       [op |-> op, id |-> u, role |-> role, at |-> Entry(op), seen |-> NoUser,
        enriched |-> FALSE, raced |-> FALSE, reply |-> "none"]]
  /\ UNCHANGED <<user, was, cache, external>>

Return(r) ==
  /\ At(r, "done")
  /\ job' = [job EXCEPT ![r] = Idle]
  /\ UNCHANGED <<user, was, cache, external>>

-----------------------------------------------------------------------------
(* GetByID, and Enrich, which begins with it.                              *)

\* What follows once the user is known.
Known(j) == IF j.op = "me" /\ j.id \in Linked
            THEN [j EXCEPT !.at = "ext_cache", !.raced = FALSE] ELSE Done(j, "ok")

CacheHit(r) ==
  /\ At(r, "cache")
  /\ cache[job[r].id] # Miss
  /\ job' = [job EXCEPT ![r] = Known([@ EXCEPT !.seen = cache[job[r].id].row])]
  /\ UNCHANGED <<user, was, cache, external>>

\* Redis has no entry, or does not answer.
CacheMiss(r) ==
  /\ At(r, "cache")
  /\ Move(r, "fill")
  /\ UNCHANGED <<user, was, cache, external>>

MutReadUser(r) == \* sql.ErrNoRows is not looked at
  /\ At(r, "fill")
  /\ job' = [job EXCEPT ![r].seen = user[job[r].id], ![r].at = "set"]
  /\ UNCHANGED <<user, was, cache, external>>
ReadUser(r) ==
  /\ At(r, "fill")
  /\ \/ /\ user[job[r].id] = NoUser
        /\ Finish(r, "not_found")
     \/ /\ user[job[r].id] # NoUser
        /\ job' = [job EXCEPT ![r].seen = user[job[r].id], ![r].at = "set"]
  /\ UNCHANGED <<user, was, cache, external>>

\* The error of Set is dropped.
CacheSet(r) ==
  /\ At(r, "set")
  /\ \/ cache' = [cache EXCEPT ![job[r].id] =
                    [row |-> job[r].seen, excused |-> job[r].raced]]
     \/ UNCHANGED cache
  /\ job' = [job EXCEPT ![r] = Known(@)]
  /\ UNCHANGED <<user, was, external>>

MutExpire(u) == FALSE \* ttl 0: Redis keeps the entry for ever
\* The entry's TTL of five minutes runs out.
Expire(u) ==
  /\ cache[u] # Miss
  /\ cache' = [cache EXCEPT ![u] = Miss]
  /\ UNCHANGED <<user, was, external, job>>

ExternalHit(r) ==
  /\ At(r, "ext_cache")
  /\ job[r].id \in external
  /\ job' = [job EXCEPT ![r] = Done([@ EXCEPT !.enriched = TRUE], "ok")]
  /\ UNCHANGED <<user, was, cache, external>>

ExternalMiss(r) ==
  /\ At(r, "ext_cache")
  /\ Move(r, "ext_call")
  /\ UNCHANGED <<user, was, cache, external>>

\* The API may be down, slow or not know the user: no error of the request.
GetUser(r) ==
  /\ At(r, "ext_call")
  /\ \/ job' = [job EXCEPT ![r].at = "ext_set", ![r].enriched = TRUE]
     \/ Finish(r, "ok")
  /\ UNCHANGED <<user, was, cache, external>>

ExternalSet(r) ==
  /\ At(r, "ext_set")
  /\ external' \in {external, external \cup {job[r].id}}
  /\ Finish(r, "ok")
  /\ UNCHANGED <<user, was, cache>>

\* After thirty minutes.
ExternalExpire(u) ==
  /\ u \in external
  /\ external' = external \ {u}
  /\ UNCHANGED <<user, was, cache, job>>

-----------------------------------------------------------------------------
(* UpdateRole and Deactivate.                                              *)

\* GetRoleByName; its ErrNotFound is the one of a missing user.
LookupRole(r) ==
  /\ At(r, "role")
  /\ \/ job[r].role \in Role /\ Move(r, "apply")
     \/ job[r].role \notin Role /\ Finish(r, "not_found")
  /\ UNCHANGED <<user, was, cache, external>>

Remember == was' = [u \in User |-> was[u] \cup ({user'[u]} \ {NoUser})]

MutApply(r, table) == \* the repository does not look at RowsAffected
  /\ user' = table
  /\ Remember
  /\ job' = [Observe(job[r].id) EXCEPT ![r].at = "del"]
  /\ UNCHANGED <<cache, external>>
\* RowsAffected counts the rows that changed: an UPDATE that leaves the row as
\* it is answers ErrNotFound.  The answer may be lost with the connection.
Apply(r, table) ==
  \/ /\ table = user
     /\ Finish(r, "not_found")
     /\ UNCHANGED <<user, was, cache, external>>
  \/ /\ table # user
     /\ user' = table
     /\ Remember
     /\ UNCHANGED external
     /\ \/ /\ job' = [Observe(job[r].id) EXCEPT ![r].at = "del"]
           /\ UNCHANGED cache
        \/ /\ job' = [Observe(job[r].id) EXCEPT ![r] = Done(@, "error")]
           /\ cache' = Excuse({job[r].id})

UpdateRole(r) ==
  /\ At(r, "apply")
  /\ job[r].op = "role"
  /\ Apply(r, WithRole(user, job[r].id, job[r].role))

Deactivate(r) ==
  /\ At(r, "apply")
  /\ job[r].op = "deactivate"
  /\ Apply(r, WithoutAccess(user, job[r].id))

MutCacheDel(r) == \* Del("task:" + id)
  /\ At(r, "del")
  /\ Finish(r, "ok")
  /\ UNCHANGED <<user, was, cache, external>>
CacheDel(r) ==
  /\ At(r, "del")
  /\ cache' = [cache EXCEPT ![job[r].id] = Miss]
  /\ Finish(r, "ok")
  /\ UNCHANGED <<user, was, external>>

\* The error of Del is dropped.
CacheDelLost(r) ==
  /\ At(r, "del")
  /\ cache' = Excuse({job[r].id})
  /\ Finish(r, "ok")
  /\ UNCHANGED <<user, was, external>>

\* A statement on MySQL fails without effect.
Fail(r) ==
  /\ \E place \in {"fill", "role", "apply"} : At(r, place)
  /\ Finish(r, "error")
  /\ UNCHANGED <<user, was, cache, external>>

\* The server dies with every request it was serving.
Crash ==
  /\ \E r \in Req : job[r] # Idle
  /\ cache' = Excuse({job[r].id : r \in {q \in Req : At(q, "del")}})
  /\ job' = [r \in Req |-> Idle]
  /\ UNCHANGED <<user, was, external>>

Step(r) ==
  \/ CacheHit(r) \/ CacheMiss(r) \/ ReadUser(r) \/ CacheSet(r)
  \/ ExternalHit(r) \/ ExternalMiss(r) \/ GetUser(r) \/ ExternalSet(r)
  \/ LookupRole(r) \/ UpdateRole(r) \/ Deactivate(r)
  \/ CacheDel(r) \/ CacheDelLost(r) \/ Fail(r) \/ Return(r)

Next ==
  \/ \E r \in Req :
       \/ \E op \in {"get", "me", "role", "deactivate"}, u \in User, role \in Asked :
            Start(r, op, u, role)
       \/ Step(r)
  \/ \E u \in User : Expire(u) \/ ExternalExpire(u)
  \/ Crash

Spec == Init /\ [][Next]_vars

\* Redis expires every entry in the end; goroutines are scheduled.
Fairness ==
  /\ \A u \in User : WF_vars(Expire(u))
  /\ \A r \in Req : WF_vars(Step(r))
FairSpec == Spec /\ Fairness

-----------------------------------------------------------------------------
Stale(u) == cache[u] # Miss /\ cache[u].row # user[u]

\* The cached user disagrees with the database only in these ways
\* (user_service.go 32-36, 52-55): the entry was filled across a commit, or an
\* invalidation of it was lost, or one is still to come.  That a repeated change
\* answers ErrNotFound and skips Del is no further way.
StaleExplained ==
  \A u \in User : Stale(u) =>
    cache[u].excused \/ \E r \in Req : At(r, "del") /\ job[r].id = u

\* The cache converges: if users stop changing, their stale entries expire, the
\* fills under way end, and no cached user disagrees with the database again.
Converges == <>[][UNCHANGED user]_vars => <>[](\A u \in User : ~Stale(u))

\* "user not found" (user_handler.go:64, 76): there is no such user.
NotFoundMeansNoUser ==
  \A r \in Req :
    At(r, "done") /\ job[r].reply = "not_found" => user[job[r].id] = NoUser

-----------------------------------------------------------------------------
(* The refinement of UserBoard.                                            *)

\* How far request j has come, as far as its caller is concerned.
Stage(j) ==
  CASE j.at = "done" -> j.reply
    [] j.at \in {"set", "ext_cache", "ext_call", "ext_set"} -> "shown"
    [] j.at = "del" -> "taken"
    [] OTHER -> "asked"

Call(j) ==
  IF j = Idle THEN Idle
  ELSE [op |-> j.op, id |-> j.id, role |-> j.role, stage |-> Stage(j),
        shown |-> j.seen]

Board == INSTANCE UserBoard WITH call <- [r \in Req |-> Call(job[r])]
ASSUME CallAssumption == Idle \notin Board!Call

\* Whatever the statements of concurrent requests, both caches, the external
\* API, failures and crashes do, callers see UserBoard (user_service.go:28-96):
\* a change is made once and reported only once it was, "not found" answers
\* only a request that could change nothing, and /me never; and a read shows
\* nobody in a state that he is not in and never was in.
Linearizes == Board!Spec
=============================================================================
