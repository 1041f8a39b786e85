--------------------------- MODULE UserServiceProofs ---------------------------
(***************************************************************************)
(* UserService's cache, and what its callers see of it, for any number of  *)
(* users and requests.  StaleExplained is inductive only together with     *)
(* what a fill under way knows: the user it is about to store is the       *)
(* present one, unless a commit overtook it.  That UserService implements  *)
(* UserBoard takes in addition what was read of a user before: it is what  *)
(* he once was.                                                            *)
(***************************************************************************)
EXTENDS UserService, UserRowsProofs

\* A request under way.
JobOK(j) ==
  /\ j.at = "set" => j.seen \in Row /\ (j.raced \/ j.seen = user[j.id])
  /\ j.at \in {"ext_cache", "ext_call", "ext_set"} => j.id \in Linked
  /\ j.at = "apply" => j.role \in Role

Jobs == \A r \in Req : job[r] # Idle => JobOK(job[r])

IInv == TypeOK /\ Jobs /\ StaleExplained

-----------------------------------------------------------------------------
LEMMA InitInv == Init => IInv
<1> SUFFICES ASSUME Init PROVE IInv
  OBVIOUS
<1>1. TypeOK
  <2>1. \A u \in User : {user[u]} \ {NoUser} \in SUBSET Row
    BY DEF Init, Table
  <2>2. was \in [User -> SUBSET Row]
    BY <2>1 DEF Init
  <2> QED
    BY <2>2 DEF Init, TypeOK
<1>2. Jobs /\ StaleExplained
  BY DEF Init, Jobs, StaleExplained, Stale
<1>3. QED
  BY <1>1, <1>2 DEF IInv

\* A record of type Job whose place, reply and flags are overwritten.
LEMMA DoneJob ==
  ASSUME NEW j \in Job, NEW reply \in Reply
  PROVE  Done(j, reply) \in Job /\ JobOK(Done(j, reply)) /\ Done(j, reply) # Idle
<1>1. Done(j, reply) \in Job
  BY DEF Done, Job, Place
<1>2. Done(j, reply).at = "done"
  BY DEF Done, Job
<1>3. QED
  BY <1>1, <1>2, NullAssumption DEF JobOK

LEMMA KnownJob ==
  ASSUME NEW j \in Job
  PROVE  Known(j) \in Job /\ JobOK(Known(j))
<1>1. CASE j.op = "me" /\ j.id \in Linked
  BY <1>1 DEF Known, Job, Place, JobOK
<1>2. CASE ~(j.op = "me" /\ j.id \in Linked)
  BY <1>2, DoneJob DEF Known, Reply
<1>3. QED
  BY <1>1, <1>2

\* A step of one goroutine that touches neither the table nor a user's entry, and
\* owes no invalidation.
LEMMA JobStep ==
  ASSUME IInv, NEW r \in Req, NEW j \in Job \cup {Idle}, j # Idle => JobOK(j),
         ~At(r, "del"), job' = [job EXCEPT ![r] = j],
         UNCHANGED <<user, was, cache>>, external' \subseteq Linked
  PROVE  IInv'
<1>1. TypeOK'
  BY DEF IInv, TypeOK
<1>2. Jobs'
  BY DEF IInv, TypeOK, Jobs, JobOK
<1>3. \A q \in Req : At(q, "del") => At(q, "del")' /\ job'[q].id = job[q].id
  BY DEF IInv, TypeOK, At
<1>4. StaleExplained'
  BY <1>3 DEF IInv, StaleExplained, Stale
<1>5. QED
  BY <1>1, <1>2, <1>4 DEF IInv

\* An invalidation that did not happen leaves every entry in place, excused.
LEMMA ExcusedCache ==
  ASSUME TypeOK, NEW us
  PROVE  /\ Excuse(us) \in [User -> Cached \cup {Miss}]
         /\ \A u \in User : Excuse(us)[u] # Miss =>
              /\ cache[u] # Miss
              /\ Excuse(us)[u].row = cache[u].row
              /\ (cache[u].excused \/ u \in us => Excuse(us)[u].excused)
<1> SUFFICES ASSUME NEW u \in User
             PROVE  /\ Excuse(us)[u] \in Cached \cup {Miss}
                    /\ Excuse(us)[u] # Miss =>
                         /\ cache[u] # Miss
                         /\ Excuse(us)[u].row = cache[u].row
                         /\ (cache[u].excused \/ u \in us => Excuse(us)[u].excused)
  BY DEF Excuse
<1>1. cache[u] \in Cached \cup {Miss}
  BY DEF TypeOK
<1>2. CASE u \in us /\ cache[u] # Miss
  <2>1. Excuse(us)[u] = [cache[u] EXCEPT !.excused = TRUE]
    BY <1>2 DEF Excuse
  <2>2. cache[u] \in Cached
    BY <1>1, <1>2
  <2>3. QED
    BY <1>2, <2>1, <2>2 DEF Cached
<1>3. CASE ~(u \in us /\ cache[u] # Miss)
  <2>1. Excuse(us)[u] = cache[u]
    BY <1>3 DEF Excuse
  <2>2. QED
    BY <1>1, <1>3, <2>1
<1>4. QED
  BY <1>2, <1>3

-----------------------------------------------------------------------------
LEMMA StartInv ==
  ASSUME IInv, NEW r \in Req, NEW op \in {"get", "me", "role", "deactivate"},
         NEW u \in User, NEW role \in Asked, Start(r, op, u, role)
  PROVE  IInv'
<1> DEFINE j == [op |-> op, id |-> u, role |-> role, at |-> Entry(op), seen |-> NoUser,
                 enriched |-> FALSE, raced |-> FALSE, reply |-> "none"]
<1>1. Entry(op) \in {"cache", "role", "apply"}
  BY DEF Entry
<1>2. Entry(op) = "apply" => role \in Role
  BY DEF Entry, Start, Role
<1>3. j \in Job /\ JobOK(j)
  BY <1>1, <1>2 DEF Job, Place, Reply, JobOK
<1>4. /\ job' = [job EXCEPT ![r] = j] /\ ~At(r, "del")
      /\ UNCHANGED <<user, was, cache, external>>
  BY DEF Start, At
<1>5. QED
  BY <1>3, <1>4, JobStep DEF IInv, TypeOK

\* The reading statements and calls, and the ends of requests.
LEMMA ReadingInv ==
  ASSUME IInv, NEW r \in Req,
         \/ CacheHit(r) \/ CacheMiss(r) \/ ReadUser(r) \/ ExternalHit(r)
         \/ ExternalMiss(r) \/ GetUser(r) \/ ExternalSet(r) \/ LookupRole(r)
         \/ Fail(r) \/ Return(r)
  PROVE  IInv'
<1>1. CASE CacheHit(r)
  <2> DEFINE j == [job[r] EXCEPT !.seen = cache[job[r].id].row]
  <2>1. job[r] \in Job
    BY <1>1 DEF CacheHit, At, IInv, TypeOK
  <2>2. cache[job[r].id].row \in Row
    BY <1>1, <2>1 DEF CacheHit, IInv, TypeOK, Job, Cached
  <2>3. j \in Job
    BY <2>1, <2>2 DEF Job
  <2>4. job' = [job EXCEPT ![r] = Known(j)]
    BY <1>1 DEF CacheHit, IInv, TypeOK
  <2>5. ~At(r, "del") /\ UNCHANGED <<user, was, cache, external>>
    BY <1>1 DEF CacheHit, At
  <2>6. QED
    BY <2>3, <2>4, <2>5, KnownJob, JobStep DEF IInv, TypeOK
<1>2. CASE CacheMiss(r) \/ ExternalMiss(r)
  <2>1. job[r] \in Job /\ ~At(r, "del") /\ UNCHANGED <<user, was, cache, external>>
    BY <1>2 DEF CacheMiss, ExternalMiss, At, IInv, TypeOK
  <2>2. PICK place \in {"fill", "ext_call"} :
          Move(r, place) /\ (place = "ext_call" => job[r].at = "ext_cache")
    BY <1>2 DEF CacheMiss, ExternalMiss, At
  <2> DEFINE j == [job[r] EXCEPT !.at = place]
  <2>3. job[r].at = "ext_cache" => job[r].id \in Linked
    BY <2>1, NullAssumption DEF IInv, Jobs, JobOK
  <2>4. j \in Job /\ JobOK(j)
    BY <2>1, <2>2, <2>3 DEF Job, Place, JobOK
  <2>5. QED
    BY <2>1, <2>2, <2>4, JobStep DEF Move, IInv, TypeOK
<1>3. CASE ReadUser(r)
  <2>1. job[r] \in Job /\ ~At(r, "del") /\ UNCHANGED <<user, was, cache, external>>
    BY <1>3 DEF ReadUser, At, IInv, TypeOK
  <2>2. CASE Finish(r, "not_found")
    BY <2>1, <2>2, DoneJob, JobStep DEF Finish, Reply, IInv, TypeOK
  <2>3. CASE /\ user[job[r].id] # NoUser
             /\ job' = [job EXCEPT ![r].seen = user[job[r].id], ![r].at = "set"]
    <3> DEFINE j == [job[r] EXCEPT !.seen = user[job[r].id], !.at = "set"]
    <3>1. user[job[r].id] \in Row
      BY <2>1, <2>3 DEF IInv, TypeOK, Table, Job
    <3>2. j \in Job /\ JobOK(j)
      BY <2>1, <3>1 DEF Job, Place, JobOK
    <3>3. job' = [job EXCEPT ![r] = j]
      BY <2>3 DEF IInv, TypeOK
    <3>4. QED
      BY <2>1, <3>2, <3>3, JobStep DEF IInv, TypeOK
  <2>4. QED
    BY <1>3, <2>2, <2>3 DEF ReadUser
<1>4. CASE ExternalHit(r)
  <2> DEFINE j == [job[r] EXCEPT !.enriched = TRUE]
  <2>1. job[r] \in Job /\ ~At(r, "del") /\ UNCHANGED <<user, was, cache, external>>
    BY <1>4 DEF ExternalHit, At, IInv, TypeOK
  <2>2. j \in Job
    BY <2>1 DEF Job
  <2>3. job' = [job EXCEPT ![r] = Done(j, "ok")]
    BY <1>4 DEF ExternalHit, IInv, TypeOK
  <2>4. QED
    BY <2>1, <2>2, <2>3, DoneJob, JobStep DEF Reply, IInv, TypeOK
<1>5. CASE GetUser(r)
  <2>1. job[r] \in Job /\ ~At(r, "del") /\ UNCHANGED <<user, was, cache, external>>
    BY <1>5 DEF GetUser, At, IInv, TypeOK
  <2>2. CASE Finish(r, "ok")
    BY <2>1, <2>2, DoneJob, JobStep DEF Finish, Reply, IInv, TypeOK
  <2>3. CASE job' = [job EXCEPT ![r].at = "ext_set", ![r].enriched = TRUE]
    <3> DEFINE j == [job[r] EXCEPT !.at = "ext_set", !.enriched = TRUE]
    <3>1. job[r].id \in Linked
      BY <1>5 DEF GetUser, At, IInv, Jobs, JobOK
    <3>2. j \in Job /\ JobOK(j)
      BY <2>1, <3>1 DEF Job, Place, JobOK
    <3>3. job' = [job EXCEPT ![r] = j]
      BY <2>3 DEF IInv, TypeOK
    <3>4. QED
      BY <2>1, <3>2, <3>3, JobStep DEF IInv, TypeOK
  <2>4. QED
    BY <1>5, <2>2, <2>3 DEF GetUser
<1>6. CASE ExternalSet(r)
  <2>1. /\ job[r] \in Job /\ ~At(r, "del") /\ Finish(r, "ok")
        /\ UNCHANGED <<user, was, cache>>
    BY <1>6 DEF ExternalSet, At, IInv, TypeOK
  <2>2. job[r].id \in Linked
    BY <1>6 DEF ExternalSet, At, IInv, Jobs, JobOK
  <2>3. external' \subseteq Linked
    BY <1>6, <2>2 DEF ExternalSet, IInv, TypeOK
  <2>4. QED
    BY <2>1, <2>3, DoneJob, JobStep DEF Finish, Reply
<1>7. CASE LookupRole(r)
  <2>1. job[r] \in Job /\ ~At(r, "del") /\ UNCHANGED <<user, was, cache, external>>
    BY <1>7 DEF LookupRole, At, IInv, TypeOK
  <2>2. CASE Finish(r, "not_found")
    BY <2>1, <2>2, DoneJob, JobStep DEF Finish, Reply, IInv, TypeOK
  <2>3. CASE job[r].role \in Role /\ Move(r, "apply")
    <3> DEFINE j == [job[r] EXCEPT !.at = "apply"]
    <3>1. j \in Job /\ JobOK(j)
      BY <2>1, <2>3 DEF Job, Place, JobOK
    <3>2. QED
      BY <2>1, <2>3, <3>1, JobStep DEF Move, IInv, TypeOK
  <2>4. QED
    BY <1>7, <2>2, <2>3 DEF LookupRole
<1>8. CASE Fail(r)
  <2>1. job[r] \in Job /\ ~At(r, "del") /\ UNCHANGED <<user, was, cache, external>>
    BY <1>8 DEF Fail, At, IInv, TypeOK
  <2>2. QED
    BY <1>8, <2>1, DoneJob, JobStep DEF Fail, Finish, Reply, IInv, TypeOK
<1>9. CASE Return(r)
  BY <1>9, JobStep DEF Return, At, IInv, TypeOK
<1>10. QED
  BY <1>1, <1>2, <1>3, <1>4, <1>5, <1>6, <1>7, <1>8, <1>9

-----------------------------------------------------------------------------
(* The statements that write a user's entry or the table.                  *)

LEMMA CacheSetInv == ASSUME IInv, NEW r \in Req, CacheSet(r) PROVE IInv'
<1>1. job[r] \in Job /\ JobOK(job[r]) /\ job[r].at = "set" /\ ~At(r, "del")
  BY DEF CacheSet, At, IInv, TypeOK, Jobs
<1>2. Known(job[r]) \in Job /\ JobOK(Known(job[r])) /\ Known(job[r]) # Idle
  BY <1>1, KnownJob, NullAssumption
<1>3. job' = [job EXCEPT ![r] = Known(job[r])] /\ UNCHANGED <<user, was, external>>
  BY DEF CacheSet, IInv, TypeOK
<1>4. CASE UNCHANGED cache
  BY <1>1, <1>2, <1>3, <1>4, JobStep DEF IInv, TypeOK
<1>5. CASE cache' = [cache EXCEPT ![job[r].id] =
                       [row |-> job[r].seen, excused |-> job[r].raced]]
  <2> DEFINE entry == [row |-> job[r].seen, excused |-> job[r].raced]
  <2>1. entry \in Cached /\ job[r].id \in User
    BY <1>1 DEF JobOK, Job, Cached
  <2>2. TypeOK' /\ Jobs'
    BY <1>2, <1>3, <1>5, <2>1 DEF IInv, TypeOK, Jobs, JobOK
  <2>3. \A q \in Req : At(q, "del") => At(q, "del")' /\ job'[q].id = job[q].id
    BY <1>1, <1>3 DEF IInv, TypeOK, At
  <2>4. ASSUME NEW u \in User, Stale(u)'
        PROVE  cache'[u].excused \/ \E q \in Req : At(q, "del")' /\ job'[q].id = u
    <3>1. CASE u = job[r].id
      <4>1. cache'[u] = entry
        BY <1>5, <3>1 DEF IInv, TypeOK
      <4>2. QED
        BY <1>1, <1>3, <2>4, <3>1, <4>1 DEF JobOK, Stale
    <3>2. CASE u # job[r].id
      <4>1. cache'[u] = cache[u] /\ Stale(u)
        BY <1>3, <1>5, <2>4, <3>2 DEF IInv, TypeOK, Stale
      <4>2. QED
        BY <2>3, <4>1 DEF IInv, StaleExplained
    <3>3. QED
      BY <3>1, <3>2
  <2>5. StaleExplained'
    BY <2>4 DEF StaleExplained
  <2>6. QED
    BY <2>2, <2>5 DEF IInv
<1>6. QED
  BY <1>4, <1>5 DEF CacheSet

\* Entries that vanish, or stay and are excused, with nobody's invalidation undone
\* but for users whose entry is gone or excused.
LEMMA EntriesStep ==
  ASSUME IInv, UNCHANGED <<user, was>>, TypeOK', Jobs', NEW us,
         \A u \in User : cache'[u] # Miss =>
           /\ cache[u] # Miss /\ cache'[u].row = cache[u].row
           /\ cache[u].excused \/ u \in us => cache'[u].excused,
         \A q \in Req : At(q, "del") /\ job[q].id \notin us =>
           At(q, "del")' /\ job'[q].id = job[q].id
  PROVE  IInv'
<1>1. ASSUME NEW u \in User, Stale(u)'
      PROVE  cache'[u].excused \/ \E q \in Req : At(q, "del")' /\ job'[q].id = u
  <2>1. Stale(u)
    BY <1>1 DEF Stale
  <2>2. cache[u].excused \/ \E q \in Req : At(q, "del") /\ job[q].id = u
    BY <2>1 DEF IInv, StaleExplained
  <2>3. QED
    BY <1>1, <2>2 DEF Stale
<1>2. StaleExplained'
  BY <1>1 DEF StaleExplained
<1>3. QED
  BY <1>2 DEF IInv

LEMMA DelInv ==
  ASSUME IInv, NEW r \in Req, CacheDel(r) \/ CacheDelLost(r)
  PROVE  IInv'
<1>1. job[r] \in Job /\ job[r].id \in User
  BY DEF CacheDel, CacheDelLost, At, IInv, TypeOK, Job
<1>2. job' = [job EXCEPT ![r] = Done(job[r], "ok")] /\ UNCHANGED <<user, was, external>>
  BY DEF CacheDel, CacheDelLost, Finish, IInv, TypeOK
<1>3. Done(job[r], "ok") \in Job /\ JobOK(Done(job[r], "ok"))
  BY <1>1, DoneJob DEF Reply
<1>4. /\ cache' \in [User -> Cached \cup {Miss}]
      /\ \A u \in User : cache'[u] # Miss =>
           /\ cache[u] # Miss /\ cache'[u].row = cache[u].row
           /\ cache[u].excused \/ u \in {job[r].id} => cache'[u].excused
  <2>1. CASE CacheDel(r)
    BY <1>1, <2>1 DEF CacheDel, IInv, TypeOK
  <2>2. CASE CacheDelLost(r)
    BY <2>2, ExcusedCache DEF CacheDelLost, IInv
  <2>3. QED
    BY <2>1, <2>2
<1>5. TypeOK' /\ Jobs'
  BY <1>2, <1>3, <1>4 DEF IInv, TypeOK, Jobs, JobOK
<1>6. \A q \in Req : At(q, "del") /\ job[q].id \notin {job[r].id} =>
        At(q, "del")' /\ job'[q].id = job[q].id
  BY <1>2 DEF IInv, TypeOK, At
<1>7. QED
  BY <1>2, <1>4, <1>5, <1>6, EntriesStep

LEMMA CrashInv == ASSUME IInv, Crash PROVE IInv'
<1> DEFINE us == {job[r].id : r \in {q \in Req : At(q, "del")}}
<1>1. /\ cache' = Excuse(us) /\ job' = [r \in Req |-> Idle]
      /\ UNCHANGED <<user, was, external>>
  BY DEF Crash
<1>2. /\ cache' \in [User -> Cached \cup {Miss}]
      /\ \A u \in User : cache'[u] # Miss =>
           /\ cache[u] # Miss /\ cache'[u].row = cache[u].row
           /\ cache[u].excused \/ u \in us => cache'[u].excused
  BY <1>1, ExcusedCache DEF IInv
<1>3. TypeOK' /\ Jobs'
  BY <1>1, <1>2 DEF IInv, TypeOK, Jobs
<1>4. \A q \in Req : At(q, "del") => job[q].id \in us
  OBVIOUS
<1>5. QED
  BY <1>1, <1>2, <1>3, <1>4, EntriesStep

LEMMA ExpireInv ==
  ASSUME IInv, NEW u \in User, Expire(u) \/ ExternalExpire(u) PROVE IInv'
<1>1. TypeOK' /\ Jobs' /\ UNCHANGED <<user, was, job>>
  BY DEF Expire, ExternalExpire, IInv, TypeOK, Jobs, JobOK
<1>2. \A v \in User : cache'[v] # Miss => cache'[v] = cache[v]
  BY DEF Expire, ExternalExpire, IInv, TypeOK
<1>3. StaleExplained'
  BY <1>1, <1>2 DEF IInv, StaleExplained, Stale, At
<1>4. QED
  BY <1>1, <1>3 DEF IInv

\* A change of the row of one user, or of none.
LEMMA ApplyInv ==
  ASSUME IInv, NEW r \in Req, At(r, "apply"), NEW table \in Table,
         \A v \in User : v # job[r].id => table[v] = user[v],
         Apply(r, table)
  PROVE  IInv'
<1>1. job[r] \in Job /\ job[r].at = "apply" /\ ~At(r, "del")
  BY DEF At, IInv, TypeOK
<1> DEFINE u == job[r].id
<1>2. u \in User
  BY <1>1 DEF Job
<1>3. CASE Finish(r, "not_found") /\ UNCHANGED <<user, was, cache, external>>
  BY <1>1, <1>3, DoneJob, JobStep DEF Finish, Reply, IInv, TypeOK
<1>4. ASSUME user' = table, Remember, UNCHANGED external,
             NEW j \in Job, j.at \in {"del", "done"}, j.id = u,
             job' = [Observe(u) EXCEPT ![r] = j],
             \/ UNCHANGED cache /\ j.at = "del"
             \/ cache' = Excuse({u})
      PROVE  IInv'
  <2>1. \A q \in Req : job'[q] \in Job \cup {Idle}
    BY <1>4, NullAssumption DEF Observe, IInv, TypeOK, Job
  <2>2. \A q \in Req : q # r => job'[q] = Observe(u)[q]
    BY <1>4 DEF Observe
  <2>3. job'[r] = j /\ j # Idle
    BY <1>4, NullAssumption DEF Observe
  <2>4. cache' \in [User -> Cached \cup {Miss}]
    BY <1>4, ExcusedCache DEF IInv, TypeOK
  <2>5. TypeOK'
    <3>1. job' \in [Req -> Job \cup {Idle}]
      BY <1>4, <2>1 DEF Observe
    <3>2. was' \in [User -> SUBSET Row]
      BY <1>4 DEF Remember, IInv, TypeOK, Table
    <3>3. QED
      BY <1>4, <2>4, <3>1, <3>2 DEF IInv, TypeOK
  <2>6. ASSUME NEW q \in Req, job'[q] # Idle PROVE JobOK(job[q])'
    <3>1. CASE q = r
      BY <1>4, <2>3, <3>1 DEF JobOK
    <3>2. CASE q # r
      <4>1. job[q] # Idle /\ job[q] \in Job /\ JobOK(job[q])
        BY <2>2, <2>6, <3>2 DEF Observe, IInv, TypeOK, Jobs
      <4>2. CASE job[q].id = u
        <5>1. job'[q] = [job[q] EXCEPT !.raced = job[q].raced \/ job[q].at = "set"]
          BY <2>2, <3>2, <4>1, <4>2 DEF Observe
        <5>2. QED
          BY <4>1, <5>1 DEF Job, JobOK
      <4>3. CASE job[q].id # u
        <5>1. job'[q] = job[q] /\ job[q].id \in User
          BY <2>2, <3>2, <4>1, <4>3 DEF Observe, Job
        <5>2. QED
          BY <1>4, <4>1, <4>3, <5>1 DEF JobOK
      <4>4. QED
        BY <4>2, <4>3
    <3>3. QED
      BY <3>1, <3>2
  <2>7. \A q \in Req : At(q, "del") => At(q, "del")' /\ job'[q].id = job[q].id
    <3>1. SUFFICES ASSUME NEW q \in Req, At(q, "del")
                   PROVE  At(q, "del")' /\ job'[q].id = job[q].id
      OBVIOUS
    <3>2. q # r /\ job[q] \in Job
      BY <1>1, <3>1 DEF At, IInv, TypeOK
    <3>3. job'[q] \in {job[q], [job[q] EXCEPT !.raced = job[q].raced \/ job[q].at = "set"]}
      BY <2>2, <3>2 DEF Observe
    <3>4. job'[q].at = "del" /\ job'[q].id = job[q].id
      BY <3>1, <3>2, <3>3 DEF At, Job
    <3>5. job'[q] \in Job
      BY <3>2, <3>3 DEF Job
    <3>6. QED
      BY <3>4, <3>5, NullAssumption DEF At
  <2>8. ASSUME NEW v \in User, Stale(v)'
        PROVE  cache'[v].excused \/ \E q \in Req : At(q, "del")' /\ job'[q].id = v
    <3>1. CASE v = u
      <4>1. CASE j.at = "del"
        BY <1>4, <2>3, <3>1, <4>1 DEF At
      <4>2. CASE cache' = Excuse({u})
        BY <2>8, <3>1, <4>2, ExcusedCache DEF IInv, Stale
      <4>3. QED
        BY <1>4, <4>1, <4>2
    <3>2. CASE v # u
      <4>1. cache[v] # Miss /\ cache'[v].row = cache[v].row /\ user'[v] = user[v]
            /\ (cache[v].excused => cache'[v].excused)
        BY <1>4, <2>8, <3>2, ExcusedCache DEF IInv, Stale
      <4>2. Stale(v)
        BY <2>8, <4>1 DEF Stale
      <4>3. QED
        BY <2>7, <4>1, <4>2 DEF IInv, StaleExplained
    <3>3. QED
      BY <3>1, <3>2
  <2>9. Jobs' /\ StaleExplained'
    BY <2>6, <2>8 DEF Jobs, StaleExplained
  <2>10. QED
    BY <2>5, <2>9 DEF IInv
<1>5. CASE /\ user' = table /\ Remember /\ UNCHANGED external
           /\ job' = [Observe(u) EXCEPT ![r].at = "del"]
           /\ UNCHANGED cache
  <2> DEFINE j == [Observe(u)[r] EXCEPT !.at = "del"]
  <2>1. Observe(u)[r] = [job[r] EXCEPT !.raced = job[r].raced \/ job[r].at = "set"]
    BY <1>1, NullAssumption DEF Observe
  <2>2. j \in Job /\ j.at = "del" /\ j.id = u
    BY <1>1, <2>1 DEF Job, Place
  <2>3. job' = [Observe(u) EXCEPT ![r] = j]
    BY <1>5 DEF Observe
  <2>4. QED
    BY <1>4, <1>5, <2>2, <2>3
<1>6. CASE /\ user' = table /\ Remember /\ UNCHANGED external
           /\ job' = [Observe(u) EXCEPT ![r] = Done(@, "error")]
           /\ cache' = Excuse({u})
  <2> DEFINE j == Done(Observe(u)[r], "error")
  <2>1. Observe(u)[r] = [job[r] EXCEPT !.raced = job[r].raced \/ job[r].at = "set"]
    BY <1>1, NullAssumption DEF Observe
  <2>2. Observe(u)[r] \in Job /\ Observe(u)[r].id = u
    BY <1>1, <2>1 DEF Job
  <2>3. j \in Job /\ j.at = "done" /\ j.id = u
    BY <2>2, DoneJob DEF Done, Job, Reply
  <2>4. job' = [Observe(u) EXCEPT ![r] = j]
    BY <1>6 DEF Observe
  <2>5. QED
    BY <1>4, <1>6, <2>3, <2>4
<1>7. QED
  BY <1>3, <1>5, <1>6 DEF Apply

LEMMA ChangeInv ==
  ASSUME IInv, NEW r \in Req, UpdateRole(r) \/ Deactivate(r) PROVE IInv'
<1>1. job[r] \in Job /\ At(r, "apply") /\ user \in Table /\ job[r].role \in Role
  BY DEF UpdateRole, Deactivate, At, IInv, TypeOK, Jobs, JobOK
<1>2. CASE UpdateRole(r)
  <2> DEFINE table == WithRole(user, job[r].id, job[r].role)
  <2>1. table \in Table /\ \A v \in User : v # job[r].id => table[v] = user[v]
    BY <1>1, WithRoleTable DEF Job
  <2>2. QED
    BY <1>1, <1>2, <2>1, ApplyInv DEF UpdateRole
<1>3. CASE Deactivate(r)
  <2> DEFINE table == WithoutAccess(user, job[r].id)
  <2>1. table \in Table /\ \A v \in User : v # job[r].id => table[v] = user[v]
    BY <1>1, WithoutAccessTable DEF Job
  <2>2. QED
    BY <1>1, <1>3, <2>1, ApplyInv DEF Deactivate
<1>4. QED
  BY <1>2, <1>3

LEMMA StepInv == IInv /\ [Next]_vars => IInv'
<1> SUFFICES ASSUME IInv, [Next]_vars PROVE IInv'
  OBVIOUS
<1>1. CASE UNCHANGED vars
  BY <1>1 DEF vars, IInv, TypeOK, Jobs, JobOK, StaleExplained, Stale, At
<1>2. CASE Next
  <2>1. CASE \E r \in Req, op \in {"get", "me", "role", "deactivate"}, u \in User,
              role \in Asked : Start(r, op, u, role)
    BY <2>1, StartInv
  <2>2. CASE \E r \in Req : Step(r)
    BY <2>2, ReadingInv, CacheSetInv, DelInv, ChangeInv DEF Step
  <2>3. CASE \E u \in User : Expire(u) \/ ExternalExpire(u)
    BY <2>3, ExpireInv
  <2>4. QED
    BY <1>2, <2>1, <2>2, <2>3, CrashInv DEF Next
<1>3. QED
  BY <1>1, <1>2

-----------------------------------------------------------------------------
\* The inductive invariant holds of every behaviour.
THEOREM Invariance == Spec => []IInv
  BY InitInv, StepInv, PTL DEF Spec

\* Every variable keeps its type; no user that does not exist is ever cached.
THEOREM TypeCorrect == Spec => []TypeOK
<1>1. IInv => TypeOK
  BY DEF IInv
<1>2. QED
  BY <1>1, Invariance, PTL

\* However many requests race, a stale user has one of the three causes.
THEOREM StalenessExplained == Spec => []StaleExplained
<1>1. IInv => StaleExplained
  BY DEF IInv
<1>2. QED
  BY <1>1, Invariance, PTL
-----------------------------------------------------------------------------
(* What Converges promises without a word on fairness.                     *)

\* Neither the entry of user u nor a fill on its way disagrees with the table.
Current(u) ==
  /\ ~Stale(u)
  /\ \A r \in Req : At(r, "set") /\ job[r].id = u => job[r].seen = user[u]

\* A step that leaves u's row alone keeps him current if it stores nothing but
\* what was read, and reads nothing but the row.
LEMMA KeepsCurrent ==
  ASSUME NEW u \in User, Current(u), user'[u] = user[u],
         \/ cache'[u] = Miss
         \/ cache[u] # Miss /\ cache'[u].row = cache[u].row
         \/ cache'[u].row = user[u],
         \A q \in Req : At(q, "set")' /\ job'[q].id = u => job'[q].seen = user[u]
  PROVE  Current(u)'
  BY DEF Current, Stale

\* Requests about to store nothing are of no interest, nor are those that were
\* about to store it before.
LEMMA OneJob ==
  ASSUME TypeOK, NEW u \in User, Current(u), NEW r \in Req, NEW j,
         job' = [job EXCEPT ![r] = j],
         \/ j = Idle \/ j.at # "set" \/ j.id # u \/ j.seen = user[u]
  PROVE  \A q \in Req : At(q, "set")' /\ job'[q].id = u => job'[q].seen = user[u]
  BY DEF TypeOK, Current, At

\* Neither the places nor what was read change with the ghosts.
LEMMA ObservedJob ==
  ASSUME TypeOK, NEW u, NEW q \in Req, job[q] # Idle
  PROVE  /\ Observe(u)[q] \in Job
         /\ Observe(u)[q].at = job[q].at /\ Observe(u)[q].seen = job[q].seen
         /\ Observe(u)[q].op = job[q].op /\ Observe(u)[q].id = job[q].id
         /\ Observe(u)[q].role = job[q].role /\ Observe(u)[q].reply = job[q].reply
<1>1. job[q] \in Job
  BY DEF TypeOK
<1>2. CASE job[q].id = u
  <2>1. Observe(u)[q] = [job[q] EXCEPT !.raced = job[q].raced \/ job[q].at = "set"]
    BY <1>2 DEF Observe
  <2>2. (job[q].raced \/ job[q].at = "set") \in BOOLEAN
    OBVIOUS
  <2> QED
    BY <1>1, <2>1, <2>2 DEF Job
<1>3. CASE job[q].id # u
  BY <1>1, <1>3 DEF Observe
<1> QED
  BY <1>2, <1>3

\* The fields of a record that moved on, was answered, or knows its user.
LEMMA MoveFields ==
  ASSUME NEW j \in Job, NEW place \in Place
  PROVE  LET k == [j EXCEPT !.at = place]
         IN  /\ k \in Job /\ k.at = place /\ k.op = j.op /\ k.id = j.id
             /\ k.role = j.role /\ k.seen = j.seen /\ k.reply = j.reply
  BY DEF Job

LEMMA DoneFields ==
  ASSUME NEW j \in Job, NEW reply \in Reply
  PROVE  LET k == Done(j, reply)
         IN  /\ k \in Job /\ k.at = "done" /\ k.op = j.op /\ k.id = j.id
             /\ k.role = j.role /\ k.seen = j.seen /\ k.reply = reply
  BY DEF Job, Done, Place

LEMMA KnownFields ==
  ASSUME NEW j \in Job
  PROVE  LET k == Known(j)
         IN  /\ k \in Job /\ k.op = j.op /\ k.id = j.id
             /\ k.role = j.role /\ k.seen = j.seen
             /\ \/ k.at = "ext_cache" /\ j.op = "me"
                \/ k.at = "done" /\ k.reply = "ok"
<1>1. CASE j.op = "me" /\ j.id \in Linked
  BY <1>1 DEF Known, Job, Place
<1>2. CASE ~(j.op = "me" /\ j.id \in Linked)
  BY <1>2, DoneFields DEF Known, Reply
<1> QED
  BY <1>1, <1>2

\* A request at work, and where it goes.
LEMMA AtJob ==
  ASSUME IInv, NEW r \in Req, NEW place, At(r, place)
  PROVE  /\ job[r] \in Job /\ job[r] # Idle /\ job[r].at = place /\ JobOK(job[r])
         /\ job[r].id \in User
  BY DEF IInv, TypeOK, Jobs, At, Job

\* A change of one user, or of none: what the answer, the request and the cache become.
LEMMA Applies ==
  ASSUME IInv, NEW r \in Req, At(r, "apply"), NEW table, table # user, Apply(r, table)
  PROVE  \E j \in Job :
           /\ j.op = job[r].op /\ j.id = job[r].id /\ j.role = job[r].role
           /\ j.seen = job[r].seen
           /\ j.at = "del" \/ (j.at = "done" /\ j.reply = "error")
           /\ job' = [Observe(job[r].id) EXCEPT ![r] = j]
           /\ user' = table
           /\ \A u \in User : cache'[u] # Miss =>
                cache[u] # Miss /\ cache'[u].row = cache[u].row
<1> DEFINE k == Observe(job[r].id)[r]
<1>1. /\ k \in Job /\ k.op = job[r].op /\ k.id = job[r].id /\ k.role = job[r].role
      /\ k.seen = job[r].seen
  BY AtJob, ObservedJob DEF IInv
<1>2. /\ user' = table
      /\ \/ job' = [Observe(job[r].id) EXCEPT ![r] = [k EXCEPT !.at = "del"]]
            /\ cache' = cache
         \/ job' = [Observe(job[r].id) EXCEPT ![r] = Done(k, "error")]
            /\ cache' = Excuse({job[r].id})
  BY DEF Apply
<1> HIDE DEF k
<1>3. "del" \in Place /\ "error" \in Reply
  BY DEF Place, Reply
<1>4. \A u \in User : cache'[u] # Miss =>
        cache[u] # Miss /\ cache'[u].row = cache[u].row
  BY <1>2, ExcusedCache DEF IInv
<1>5. ASSUME NEW j \in Job, j.op = k.op, j.id = k.id, j.role = k.role, j.seen = k.seen,
             j.at = "del" \/ (j.at = "done" /\ j.reply = "error"),
             job' = [Observe(job[r].id) EXCEPT ![r] = j]
      PROVE  \E i \in Job :
               /\ i.op = job[r].op /\ i.id = job[r].id /\ i.role = job[r].role
               /\ i.seen = job[r].seen
               /\ i.at = "del" \/ (i.at = "done" /\ i.reply = "error")
               /\ job' = [Observe(job[r].id) EXCEPT ![r] = i]
  BY <1>1, <1>5
<1>6. \E i \in Job :
        /\ i.op = job[r].op /\ i.id = job[r].id /\ i.role = job[r].role
        /\ i.seen = job[r].seen
        /\ i.at = "del" \/ (i.at = "done" /\ i.reply = "error")
        /\ job' = [Observe(job[r].id) EXCEPT ![r] = i]
  <2>1. CASE job' = [Observe(job[r].id) EXCEPT ![r] = [k EXCEPT !.at = "del"]]
    BY <1>1, <1>3, <1>5, <2>1, MoveFields
  <2>2. CASE job' = [Observe(job[r].id) EXCEPT ![r] = Done(k, "error")]
    BY <1>1, <1>3, <1>5, <2>2, DoneFields
  <2> QED
    BY <1>2, <2>1, <2>2
<1> QED
  BY <1>2, <1>4, <1>6

\* The two changes are such changes of the row of their user.
LEMMA ChangeApplies ==
  ASSUME IInv, NEW r \in Req, UpdateRole(r) \/ Deactivate(r)
  PROVE  \E table \in Table :
           /\ Apply(r, table)
           /\ \/ job[r].op = "role" /\ table = WithRole(user, job[r].id, job[r].role)
              \/ job[r].op = "deactivate" /\ table = WithoutAccess(user, job[r].id)
<1>1. /\ job[r].id \in User /\ user \in Table /\ job[r].role \in Role
  BY AtJob DEF UpdateRole, Deactivate, IInv, TypeOK, JobOK
<1> QED
  BY <1>1, WithRoleTable, WithoutAccessTable DEF UpdateRole, Deactivate

LEMMA StepCurrent ==
  ASSUME IInv, NEW r \in Req, Step(r), NEW u \in User, Current(u), user'[u] = user[u]
  PROVE  Current(u)'
<1>1. /\ TypeOK
      /\ cache[u] = Miss \/ cache[u].row = user[u]
  BY DEF IInv, Current, Stale
<1>2. ASSUME NEW j, job' = [job EXCEPT ![r] = j],
             \/ j = Idle \/ j.at # "set" \/ j.id # u \/ j.seen = user[u],
             \/ cache'[u] = Miss
             \/ cache[u] # Miss /\ cache'[u].row = cache[u].row
             \/ cache'[u].row = user[u]
      PROVE  Current(u)'
  BY <1>1, <1>2, OneJob, KeepsCurrent
<1>3. ASSUME NEW reply \in Reply, Finish(r, reply), job[r] # Idle,
             \/ cache'[u] = Miss
             \/ cache[u] # Miss /\ cache'[u].row = cache[u].row
             \/ cache'[u].row = user[u]
      PROVE  Current(u)'
  <2>1. Done(job[r], reply).at = "done"
    BY <1>1, <1>3, DoneFields DEF TypeOK
  <2> QED
    BY <1>2, <1>3, <2>1 DEF Finish
<1>4. ASSUME NEW place \in Place \ {"set"}, Move(r, place), cache' = cache, job[r] # Idle
      PROVE  Current(u)'
  <2>1. [job[r] EXCEPT !.at = place].at = place
    BY <1>1, <1>4 DEF TypeOK, Job
  <2> QED
    BY <1>1, <1>2, <1>4, <2>1 DEF Move
<1>5. CASE CacheHit(r)
  <2> DEFINE j == [job[r] EXCEPT !.seen = cache[job[r].id].row]
  <2>1. job[r] \in Job /\ cache[job[r].id].row \in Row
    BY <1>1, <1>5, AtJob DEF CacheHit, TypeOK, Cached
  <2>2. j \in Job
    BY <2>1 DEF Job
  <2>3. job' = [job EXCEPT ![r] = Known(j)] /\ cache' = cache
    BY <1>5 DEF CacheHit
  <2> HIDE DEF j
  <2>4. Known(j).at # "set"
    BY <2>2, KnownFields
  <2> QED
    BY <1>1, <1>2, <2>3, <2>4
<1>6. CASE ReadUser(r) /\ user[job[r].id] # NoUser
  <2> DEFINE j == [job[r] EXCEPT !.seen = user[job[r].id], !.at = "set"]
  <2>1. job[r] \in Job
    BY <1>6, AtJob DEF ReadUser
  <2>2. j.id = job[r].id /\ j.seen = user[job[r].id]
    BY <2>1 DEF Job
  <2>3. job' = [job EXCEPT ![r] = j] /\ cache' = cache
    BY <1>1, <1>6 DEF ReadUser, TypeOK
  <2> HIDE DEF j
  <2> QED
    BY <1>1, <1>2, <2>2, <2>3
<1>7. CASE CacheSet(r)
  <2>1. job[r] \in Job /\ job[r] # Idle /\ job[r].at = "set" /\ job[r].id \in User
    BY <1>7, AtJob DEF CacheSet
  <2>2. Known(job[r]).at # "set"
    BY <2>1, KnownFields
  <2>3. job[r].id = u => job[r].seen = user[u]
    BY <2>1 DEF Current, At
  <2>4. cache'[u] = cache[u] \/ cache'[u].row = user[u]
    BY <1>1, <1>7, <2>1, <2>3 DEF CacheSet, TypeOK
  <2> QED
    BY <1>1, <1>2, <1>7, <2>2, <2>4 DEF CacheSet
<1>8. CASE ExternalHit(r)
  <2> DEFINE j == [job[r] EXCEPT !.enriched = TRUE]
  <2>1. j \in Job
    <3>1. job[r] \in Job
      BY <1>8, AtJob DEF ExternalHit
    <3> QED
      BY <3>1 DEF Job
  <2>2. job' = [job EXCEPT ![r] = Done(j, "ok")] /\ cache' = cache
    BY <1>8 DEF ExternalHit
  <2> HIDE DEF j
  <2>3. Done(j, "ok").at = "done"
    BY <2>1, DoneFields DEF Reply
  <2> QED
    BY <1>1, <1>2, <2>2, <2>3
<1>9. CASE GetUser(r) /\ ~Finish(r, "ok")
  <2> DEFINE j == [job[r] EXCEPT !.at = "ext_set", !.enriched = TRUE]
  <2>1. j.at = "ext_set"
    BY <1>9, AtJob DEF GetUser, Job
  <2>2. job' = [job EXCEPT ![r] = j] /\ cache' = cache
    BY <1>1, <1>9 DEF GetUser, TypeOK
  <2> HIDE DEF j
  <2> QED
    BY <1>1, <1>2, <2>1, <2>2
<1>10. CASE GetUser(r) /\ Finish(r, "ok")
  BY <1>1, <1>3, <1>10 DEF GetUser, At, Reply
<1>11. CASE ExternalSet(r) \/ Fail(r) \/ (ReadUser(r) /\ user[job[r].id] = NoUser)
  BY <1>1, <1>3, <1>11 DEF ExternalSet, Fail, ReadUser, At, Reply
<1>12. CASE CacheMiss(r) \/ ExternalMiss(r)
  BY <1>4, <1>12 DEF CacheMiss, ExternalMiss, At, Place
<1>13. CASE LookupRole(r)
  BY <1>1, <1>3, <1>4, <1>13 DEF LookupRole, At, Place, Reply
<1>14. CASE CacheDel(r)
  <2>1. cache'[u] = Miss \/ cache'[u] = cache[u]
    BY <1>1, <1>14 DEF CacheDel, TypeOK
  <2> QED
    BY <1>1, <1>3, <1>14, <2>1 DEF CacheDel, At, Reply
<1>15. CASE CacheDelLost(r)
  <2>1. cache'[u] = Miss \/ (cache[u] # Miss /\ cache'[u].row = cache[u].row)
    BY <1>1, <1>15, ExcusedCache DEF CacheDelLost
  <2> QED
    BY <1>3, <1>15, <2>1 DEF CacheDelLost, At, Reply
<1>16. CASE Return(r)
  BY <1>1, <1>2, <1>16 DEF Return
<1>17. CASE UpdateRole(r) \/ Deactivate(r)
  <2>1. PICK table : Apply(r, table) /\ At(r, "apply")
    BY <1>17 DEF UpdateRole, Deactivate
  <2>2. CASE table = user /\ Finish(r, "not_found") /\ cache' = cache
    BY <1>1, <1>3, <2>1, <2>2 DEF At, Reply
  <2>3. CASE table # user
    <3>1. PICK j \in Job :
            /\ j.at = "del" \/ (j.at = "done" /\ j.reply = "error")
            /\ job' = [Observe(job[r].id) EXCEPT ![r] = j]
            /\ \A v \in User : cache'[v] # Miss =>
                 cache[v] # Miss /\ cache'[v].row = cache[v].row
      BY <2>1, <2>3, Applies
    <3>2. ASSUME NEW q \in Req, At(q, "set")', job'[q].id = u
          PROVE  job'[q].seen = user[u]
      <4>1. q # r /\ job'[q] = Observe(job[r].id)[q]
        BY <3>1, <3>2 DEF Observe, At
      <4>2. job[q] # Idle
        BY <3>2, <4>1 DEF Observe, At
      <4>3. job'[q].at = job[q].at /\ job'[q].id = job[q].id /\ job'[q].seen = job[q].seen
        BY <1>1, <4>1, <4>2, ObservedJob
      <4> QED
        BY <3>2, <4>2, <4>3 DEF Current, At
    <3> QED
      BY <3>1, <3>2, KeepsCurrent
  <2> QED
    BY <2>1, <2>2, <2>3 DEF Apply
<1> QED
  BY <1>5, <1>6, <1>7, <1>8, <1>9, <1>10, <1>11, <1>12, <1>13, <1>14, <1>15, <1>16,
     <1>17 DEF Step

\* Once the entry of a user and the fills on their way agree with the table, they
\* do until he is changed, whatever expires, fails, is lost or restarts: the
\* safety half of Converges (user_service.go:28-37, 47-65).
THEOREM CacheStaysCurrent ==
  Spec => [][\A u \in User : Current(u) /\ user'[u] = user[u] => Current(u)']_vars
<1>1. ASSUME IInv, Next, NEW u \in User, Current(u), user'[u] = user[u]
      PROVE  Current(u)'
  <2>1. TypeOK /\ (cache[u] = Miss \/ cache[u].row = user[u])
    BY <1>1 DEF IInv, Current, Stale
  <2>2. ASSUME NEW r \in Req, NEW op \in {"get", "me", "role", "deactivate"},
               NEW v \in User, NEW role \in Asked, Start(r, op, v, role)
        PROVE  Current(u)'
    <3> DEFINE j == [op |-> op, id |-> v, role |-> role, at |-> Entry(op),
                     seen |-> NoUser, enriched |-> FALSE, raced |-> FALSE,
                     reply |-> "none"]
    <3>1. j.at # "set"
      BY DEF Entry
    <3>2. job' = [job EXCEPT ![r] = j] /\ cache' = cache
      BY <2>2 DEF Start
    <3> HIDE DEF j
    <3> QED
      BY <1>1, <2>1, <3>1, <3>2, OneJob, KeepsCurrent
  <2>3. ASSUME NEW r \in Req, Step(r) PROVE Current(u)'
    BY <1>1, <2>3, StepCurrent
  <2>4. ASSUME NEW v \in User, Expire(v) \/ ExternalExpire(v) PROVE Current(u)'
    <3>1. (cache'[u] = Miss \/ cache'[u] = cache[u]) /\ job' = job
      BY <2>1, <2>4 DEF Expire, ExternalExpire, TypeOK
    <3>2. \A q \in Req : At(q, "set")' /\ job'[q].id = u => job'[q].seen = user[u]
      BY <1>1, <3>1 DEF Current, At
    <3> QED
      BY <1>1, <2>1, <3>1, <3>2, KeepsCurrent
  <2>5. CASE Crash
    <3>1. cache'[u] = Miss \/ (cache[u] # Miss /\ cache'[u].row = cache[u].row)
      BY <2>1, <2>5, ExcusedCache DEF Crash
    <3>2. \A q \in Req : ~At(q, "set")'
      BY <2>5 DEF Crash, At
    <3> QED
      BY <1>1, <3>1, <3>2, KeepsCurrent
  <2> QED
    BY <1>1, <2>2, <2>3, <2>4, <2>5 DEF Next
<1>2. IInv /\ [Next]_vars =>
        [\A u \in User : Current(u) /\ user'[u] = user[u] => Current(u)']_vars
  BY <1>1
<1> QED
  BY <1>2, Invariance, PTL DEF Spec

-----------------------------------------------------------------------------
(* The refinement: every step of a request, of Redis and of the server is  *)
(* one step of UserBoard, or none.                                         *)

Calls == [r \in Req |-> Call(job[r])]

\* The records of requests as their callers know them, and how steps change one.
Rec(op, id, role, stage, shown) ==
  [op |-> op, id |-> id, role |-> role, stage |-> stage, shown |-> shown]
Staged(c, stage) == [c EXCEPT !.stage = stage]
Answered(c, stage, shown) == [c EXCEPT !.stage = stage, !.shown = shown]

LEMMA Records ==
  ASSUME NEW op, NEW id, NEW role, NEW stage, NEW shown, NEW s, NEW v, NEW c,
         c = Rec(op, id, role, stage, shown)
  PROVE  /\ Staged(c, s) = Rec(op, id, role, s, shown)
         /\ Answered(c, s, v) = Rec(op, id, role, s, v)
<1> DEFINE Showing(x) == [x EXCEPT !.shown = v]
<1>1. ASSUME NEW b, NEW d, d = Rec(op, id, role, b, shown)
      PROVE  /\ Staged(d, s) = Rec(op, id, role, s, shown)
             /\ Showing(d) = Rec(op, id, role, b, v)
  BY <1>1 DEF Rec, Staged
<1>2. Answered(c, s, v) = Showing(Staged(c, s))
  BY DEF Answered, Staged
<1> HIDE DEF Showing
<1> QED
  BY <1>1, <1>2

-----------------------------------------------------------------------------
(* The steps of the board, one request's record k for its record c.        *)

LEMMA BoardIdle ==
  ASSUME UNCHANGED <<user, was>>, Calls' = Calls
  PROVE  [Board!Next]_(Board!vars)
  BY DEF Calls, Board!vars

LEMMA BoardLook ==
  ASSUME NEW r \in Req, NEW c, Calls[r] = c, c # Idle, UNCHANGED <<user, was>>,
         Calls' = [Calls EXCEPT ![r] = Answered(c, "shown", user[c.id])],
         c.stage = "asked", c.op \in {"get", "me"}, user[c.id] # NoUser
  PROVE  Board!Next
<1>1. Board!Look(r, c)
  BY DEF Calls, Answered, Board!Look, Board!Show, Board!Read
<1> QED
  BY <1>1 DEF Calls, Board!Next, Board!Proceed

LEMMA BoardRecall ==
  ASSUME NEW r \in Req, NEW c, Calls[r] = c, c # Idle, UNCHANGED <<user, was>>,
         NEW v \in Row, NEW next \in {"shown", "ok"},
         Calls' = [Calls EXCEPT ![r] = Answered(c, next, v)],
         c.stage = "asked", c.op \in {"get", "me"}, v \in was[c.id]
  PROVE  Board!Next
<1>1. Board!Recall(r, c, v, next)
  BY DEF Calls, Answered, Board!Recall, Board!Show, Board!Read
<1>2. v \in Board!Row
  BY DEF Row, Role, Board!Row, Board!Role
<1> QED
  BY <1>1, <1>2 DEF Calls, Board!Next, Board!Proceed

LEMMA BoardTake ==
  ASSUME NEW r \in Req, NEW c, Calls[r] = c, c # Idle, NEW next \in {"taken", "error"},
         Calls' = [Calls EXCEPT ![r] = Staged(c, next)],
         c.stage = "asked", user' # user, user' = Board!After(c), Remember
  PROVE  Board!Next
<1>1. Board!Take(r, c, next)
  BY DEF Calls, Staged, Remember, Board!Take, Board!Becomes, Board!Remember
<1> QED
  BY <1>1 DEF Calls, Board!Next, Board!Proceed

LEMMA BoardSucceed ==
  ASSUME NEW r \in Req, NEW c, Calls[r] = c, c # Idle, UNCHANGED <<user, was>>,
         Calls' = [Calls EXCEPT ![r] = Staged(c, "ok")],
         c.stage \in {"shown", "taken"}
  PROVE  Board!Next
<1>1. Board!Succeed(r, c)
  BY DEF Calls, Staged, Board!Succeed, Board!Becomes
<1> QED
  BY <1>1 DEF Calls, Board!Next, Board!Proceed

LEMMA BoardRefuse ==
  ASSUME NEW r \in Req, NEW c, Calls[r] = c, c # Idle, UNCHANGED <<user, was>>,
         NEW answer \in {"not_found", "error"},
         Calls' = [Calls EXCEPT ![r] = Staged(c, answer)],
         c.stage = "asked", Board!Excuses(c, answer)
  PROVE  Board!Next
<1>1. Board!Refuse(r, c, answer)
  BY DEF Calls, Staged, Board!Refuse, Board!Becomes
<1> QED
  BY <1>1 DEF Calls, Board!Next, Board!Proceed

-----------------------------------------------------------------------------
(* What the mapping needs to know besides IInv.                            *)

\* The places that each kind of request passes through; a user, once there, does
\* not go away, so that whoever asks for himself finds himself.
Routed(j) ==
  /\ j.at \in {"cache", "fill", "set"} => j.op \in {"get", "me"}
  /\ j.at \in {"ext_cache", "ext_call", "ext_set"} => j.op = "me"
  /\ j.at = "role" => j.op = "role"
  /\ j.at = "done" => j.reply # "none"
  /\ j.op = "me" => user[j.id] # NoUser

Routes == \A r \in Req : job[r] # Idle => Routed(job[r])

\* What was read of a user before is what he was.
Past ==
  /\ \A u \in User : user[u] # NoUser => user[u] \in was[u]
  /\ \A u \in User : cache[u] # Miss => cache[u].row \in was[u]
  /\ \A r \in Req : At(r, "set") => job[r].seen \in was[job[r].id]

BInv == IInv /\ Past /\ Routes

\* A request and its image.
LEMMA CallOf ==
  ASSUME NEW j \in Job, j.at = "done" => j.reply # "none"
  PROVE  /\ j # Idle /\ Call(j) # Idle
         /\ Call(j) = Rec(j.op, j.id, j.role, Stage(j), j.seen)
         /\ Call(j).op = j.op /\ Call(j).id = j.id /\ Call(j).role = j.role
         /\ Call(j).stage = Stage(j) /\ Call(j).shown = j.seen
<1>1. j # Idle
  BY NullAssumption
<1>2. Stage(j) \in {"asked", "shown", "taken"} \cup Board!Answer
  BY DEF Job, Reply, Stage, Board!Answer
<1>3. Call(j) = [op |-> j.op, id |-> j.id, role |-> j.role, stage |-> Stage(j),
                 shown |-> j.seen]
  BY <1>1 DEF Call
<1>4. /\ j.op \in Board!Read \cup {"role", "deactivate"} /\ j.id \in User
      /\ j.role \in Asked /\ j.seen \in Board!Row \cup {NoUser}
  BY DEF Job, Row, Role, Board!Row, Board!Role, Board!Read
<1>5. Call(j) \in Board!Call
  BY <1>2, <1>3, <1>4 DEF Board!Call
<1>6. Call(j) # Idle
  BY <1>5, CallAssumption
<1> QED
  BY <1>1, <1>3, <1>6 DEF Rec

\* The image of a request that went on.
LEMMA Onward ==
  ASSUME NEW i \in Job, NEW j \in Job, j.op = i.op, j.id = i.id, j.role = i.role
  PROVE  /\ Call(j) = Answered(Call(i), Stage(j), j.seen)
         /\ j.seen = i.seen => Call(j) = Staged(Call(i), Stage(j))
         /\ j.seen = i.seen /\ Stage(j) = Stage(i) => Call(j) = Call(i)
<1>1. i # Idle /\ j # Idle
  BY NullAssumption
<1>2. /\ Call(i) = Rec(i.op, i.id, i.role, Stage(i), i.seen)
      /\ Call(j) = Rec(j.op, j.id, j.role, Stage(j), j.seen)
  BY <1>1 DEF Call, Rec
<1> QED
  BY <1>2, Records

-----------------------------------------------------------------------------
(* Steps of one request that leave the table alone.                        *)

Simulated == [Board!Next]_(Board!vars) /\ Past' /\ Routes'

\* Request r goes on as j, and the cache keeps to what the users were.
Goes(r, j) ==
  /\ job[r] # Idle
  /\ j \in Job /\ Routed(j)
  /\ j.op = job[r].op /\ j.id = job[r].id /\ j.role = job[r].role
  /\ j.at = "set" => j.seen \in was[j.id]
  /\ job' = [job EXCEPT ![r] = j]
  /\ UNCHANGED <<user, was>>
  /\ \A u \in User : cache'[u] # Miss => cache'[u].row \in was[u]

LEMMA GoesKeeps ==
  ASSUME BInv, NEW r \in Req, NEW j, Goes(r, j)
  PROVE  Past' /\ Routes'
<1>1. DOMAIN job = Req /\ job'[r] = j /\ \A q \in Req \ {r} : job'[q] = job[q]
  BY DEF BInv, IInv, TypeOK, Goes
<1>2. Past'
  <2>1. \A u \in User : cache'[u] # Miss => cache'[u].row \in was'[u]
    BY DEF Goes
  <2>2. ASSUME NEW q \in Req, At(q, "set")'
        PROVE  job'[q].seen \in was'[job'[q].id]
    BY <1>1, <2>2 DEF BInv, Past, Goes, At
  <2> QED
    BY <2>1, <2>2 DEF BInv, Past, Goes
<1>3. Routes'
  BY <1>1 DEF BInv, Routes, Routed, Goes
<1> QED
  BY <1>2, <1>3

\* The image of such a step.
LEMMA GoesMaps ==
  ASSUME BInv, NEW r \in Req, NEW j, Goes(r, j), NEW c, c = Call(job[r])
  PROVE  /\ Calls[r] = c /\ c # Idle
         /\ c.op = job[r].op /\ c.id = job[r].id /\ c.role = job[r].role
         /\ c.stage = Stage(job[r]) /\ c.shown = job[r].seen
         /\ Calls' = [Calls EXCEPT ![r] = Answered(c, Stage(j), j.seen)]
         /\ j.seen = job[r].seen
              => Calls' = [Calls EXCEPT ![r] = Staged(c, Stage(j))]
         /\ j.seen = job[r].seen /\ Stage(j) = Stage(job[r]) => Calls' = Calls
<1>1. job[r] \in Job /\ Routed(job[r]) /\ DOMAIN job = Req
  BY NullAssumption DEF BInv, IInv, TypeOK, Routes, Goes
<1>2. /\ Call(j) = Answered(c, Stage(j), j.seen)
      /\ j.seen = job[r].seen => Call(j) = Staged(c, Stage(j))
      /\ j.seen = job[r].seen /\ Stage(j) = Stage(job[r]) => Call(j) = c
  BY <1>1, Onward DEF Goes
<1>3. Calls' = [Calls EXCEPT ![r] = Call(j)]
  <2>1. job'[r] = j /\ \A q \in Req \ {r} : job'[q] = job[q]
    BY <1>1 DEF Goes
  <2> QED
    BY <2>1 DEF Calls
<1>4. Calls[r] = c
  BY DEF Calls
<1>5. Call(j) = c => Calls' = Calls
  BY <1>3, <1>4 DEF Calls
<1>6. /\ c # Idle /\ c.op = job[r].op /\ c.id = job[r].id /\ c.role = job[r].role
      /\ c.stage = Stage(job[r]) /\ c.shown = job[r].seen
  BY <1>1, CallOf DEF Routed
<1> QED
  BY <1>2, <1>3, <1>4, <1>5, <1>6

\* A request at work.
LEMMA OnItsWay ==
  ASSUME BInv, NEW r \in Req, NEW place, At(r, place)
  PROVE  /\ job[r] \in Job /\ job[r] # Idle /\ job[r].at = place /\ job[r].id \in User
         /\ JobOK(job[r]) /\ Routed(job[r])
         /\ \A u \in User : cache[u] # Miss => cache[u].row \in was[u]
  BY AtJob DEF BInv, Routes, Past

\* Steps nobody sees: the request is as far as it was.
LEMMA HiddenSim ==
  ASSUME BInv, NEW r \in Req, NEW j, Goes(r, j),
         j.seen = job[r].seen, Stage(j) = Stage(job[r])
  PROVE  Simulated
<1>1. Calls' = Calls
  BY GoesMaps
<1> QED
  BY <1>1, GoesKeeps, BoardIdle DEF Goes, Simulated

\* Steps that answer "ok" to a request that has been served.
LEMMA SuccessSim ==
  ASSUME BInv, NEW r \in Req, NEW j, Goes(r, j), j.seen = job[r].seen,
         Stage(j) = "ok", Stage(job[r]) \in {"shown", "taken"}
  PROVE  Simulated
<1>1. PICK c : c = Call(job[r])
  OBVIOUS
<1>2. /\ Calls[r] = c /\ c # Idle /\ c.stage \in {"shown", "taken"}
      /\ Calls' = [Calls EXCEPT ![r] = Staged(c, "ok")]
  BY <1>1, GoesMaps
<1> QED
  BY <1>2, GoesKeeps, BoardSucceed DEF Goes, Simulated

\* Refusals.
LEMMA RefusalSim ==
  ASSUME BInv, NEW r \in Req, NEW place \in {"fill", "role", "apply"}, At(r, place),
         NEW answer \in {"not_found", "error"}, Finish(r, answer),
         UNCHANGED <<user, was, cache>>,
         \/ answer = "error"
         \/ job[r].op = "get" /\ user[job[r].id] = NoUser
         \/ /\ job[r].op = "role" /\ job[r].role \in Role
            /\ WithRole(user, job[r].id, job[r].role) = user
         \/ job[r].op = "role" /\ job[r].role \notin Role
         \/ job[r].op = "deactivate" /\ WithoutAccess(user, job[r].id) = user
  PROVE  Simulated
<1> DEFINE j == Done(job[r], answer)
<1>1. /\ job[r] \in Job /\ job[r] # Idle /\ job[r].at = place /\ Routed(job[r])
      /\ \A u \in User : cache[u] # Miss => cache[u].row \in was[u]
  BY OnItsWay
<1>2. /\ j \in Job /\ j.at = "done" /\ j.op = job[r].op /\ j.id = job[r].id
      /\ j.role = job[r].role /\ j.seen = job[r].seen /\ j.reply = answer
  BY <1>1, DoneFields DEF Reply
<1>3. job' = [job EXCEPT ![r] = j]
  BY DEF Finish
<1> HIDE DEF j
<1>4. Goes(r, j)
  BY <1>1, <1>2, <1>3 DEF Goes, Routed
<1>5. Stage(j) = answer /\ Stage(job[r]) = "asked"
  BY <1>1, <1>2 DEF Stage
<1>6. PICK c : c = Call(job[r])
  OBVIOUS
<1>7. /\ Calls[r] = c /\ c # Idle /\ c.stage = "asked"
      /\ c.op = job[r].op /\ c.id = job[r].id /\ c.role = job[r].role
      /\ Calls' = [Calls EXCEPT ![r] = Staged(c, answer)]
  BY <1>2, <1>4, <1>5, <1>6, GoesMaps
<1>8. Board!Excuses(c, answer)
  BY <1>7 DEF Board!Excuses, Board!After, Board!Read, Board!Role, Role,
     Board!WithRole, WithRole, Board!WithoutAccess, WithoutAccess
<1> QED
  BY <1>4, <1>7, <1>8, GoesKeeps, BoardRefuse DEF Simulated

-----------------------------------------------------------------------------
(* The steps of reads.                                                     *)

LEMMA CacheHitSim ==
  ASSUME BInv, NEW r \in Req, CacheHit(r)
  PROVE  Simulated
<1> DEFINE v == cache[job[r].id].row
           i == [job[r] EXCEPT !.seen = v]
           j == Known(i)
<1>1. /\ job[r] \in Job /\ job[r] # Idle /\ job[r].at = "cache" /\ job[r].id \in User
      /\ Routed(job[r]) /\ cache[job[r].id] # Miss
      /\ \A u \in User : cache[u] # Miss => cache[u].row \in was[u]
  BY OnItsWay DEF CacheHit
<1>2. v \in Row
  BY <1>1 DEF BInv, IInv, TypeOK, Cached
<1>3. /\ i \in Job /\ i.op = job[r].op /\ i.id = job[r].id /\ i.role = job[r].role
      /\ i.seen = v
  BY <1>1, <1>2 DEF Job
<1>4. job' = [job EXCEPT ![r] = j] /\ UNCHANGED <<user, was, cache>>
  BY DEF CacheHit
<1> HIDE DEF i, v
<1>5. /\ j \in Job /\ j.op = job[r].op /\ j.id = job[r].id /\ j.role = job[r].role
      /\ j.seen = v
      /\ \/ j.at = "ext_cache" /\ j.op = "me"
         \/ j.at = "done" /\ j.reply = "ok"
  BY <1>3, KnownFields
<1> HIDE DEF j
<1>6. Goes(r, j)
  BY <1>1, <1>4, <1>5 DEF Goes, Routed
<1>7. Stage(j) \in {"shown", "ok"} /\ Stage(job[r]) = "asked"
  BY <1>1, <1>5 DEF Stage
<1>8. PICK c : c = Call(job[r])
  OBVIOUS
<1>9. /\ Calls[r] = c /\ c # Idle /\ c.stage = "asked"
      /\ c.op = job[r].op /\ c.id = job[r].id
      /\ Calls' = [Calls EXCEPT ![r] = Answered(c, Stage(j), v)]
  BY <1>5, <1>6, <1>7, <1>8, GoesMaps
<1>10. v \in was[c.id] /\ c.op \in {"get", "me"}
  BY <1>1, <1>9 DEF v, Routed
<1>11. Board!Next
  BY <1>2, <1>4, <1>7, <1>9, <1>10, BoardRecall
<1> QED
  BY <1>6, <1>11, GoesKeeps DEF Simulated

LEMMA ReadUserSim ==
  ASSUME BInv, NEW r \in Req, ReadUser(r)
  PROVE  Simulated
<1>1. /\ job[r] \in Job /\ job[r] # Idle /\ job[r].at = "fill" /\ job[r].id \in User
      /\ Routed(job[r]) /\ At(r, "fill") /\ UNCHANGED <<user, was, cache>>
      /\ \A u \in User : cache[u] # Miss => cache[u].row \in was[u]
  BY OnItsWay DEF ReadUser
<1>2. CASE user[job[r].id] = NoUser
  <2>1. job[r].op = "get" /\ Finish(r, "not_found")
    BY <1>1, <1>2 DEF ReadUser, Routed
  <2> QED
    BY <1>1, <1>2, <2>1, RefusalSim
<1>3. CASE user[job[r].id] # NoUser
  <2> DEFINE v == user[job[r].id]
             j == [job[r] EXCEPT !.seen = v, !.at = "set"]
  <2>1. v \in Row /\ v \in was[job[r].id]
    BY <1>1, <1>3 DEF BInv, Past, IInv, TypeOK, Table
  <2>2. /\ j \in Job /\ j.op = job[r].op /\ j.id = job[r].id /\ j.role = job[r].role
        /\ j.seen = v /\ j.at = "set"
    BY <1>1, <2>1 DEF Job, Place
  <2>3. job' = [job EXCEPT ![r] = j]
    BY <1>1, <1>3 DEF ReadUser, BInv, IInv, TypeOK
  <2> HIDE DEF j
  <2>4. Goes(r, j)
    BY <1>1, <2>1, <2>2, <2>3 DEF Goes, Routed
  <2>5. Stage(j) = "shown" /\ Stage(job[r]) = "asked"
    BY <1>1, <2>2 DEF Stage
  <2>6. PICK c : c = Call(job[r])
    OBVIOUS
  <2>7. /\ Calls[r] = c /\ c # Idle /\ c.stage = "asked"
        /\ c.op = job[r].op /\ c.id = job[r].id
        /\ Calls' = [Calls EXCEPT ![r] = Answered(c, "shown", v)]
    BY <2>2, <2>4, <2>5, <2>6, GoesMaps
  <2>8. c.op \in {"get", "me"}
    BY <1>1, <2>7 DEF Routed
  <2>9. Board!Next
    BY <1>1, <1>3, <2>7, <2>8, BoardLook
  <2> QED
    BY <2>4, <2>9, GoesKeeps DEF Simulated
<1> QED
  BY <1>2, <1>3

LEMMA CacheSetSim ==
  ASSUME BInv, NEW r \in Req, CacheSet(r)
  PROVE  Simulated
<1> DEFINE j == Known(job[r])
<1>1. /\ job[r] \in Job /\ job[r] # Idle /\ job[r].at = "set" /\ job[r].id \in User
      /\ Routed(job[r])
      /\ \A u \in User : cache[u] # Miss => cache[u].row \in was[u]
  BY OnItsWay DEF CacheSet
<1>2. /\ j \in Job /\ j.op = job[r].op /\ j.id = job[r].id /\ j.role = job[r].role
      /\ j.seen = job[r].seen
      /\ \/ j.at = "ext_cache" /\ j.op = "me"
         \/ j.at = "done" /\ j.reply = "ok"
  BY <1>1, KnownFields
<1>3. job' = [job EXCEPT ![r] = j] /\ UNCHANGED <<user, was>>
  BY DEF CacheSet
<1>4. job[r].seen \in was[job[r].id]
  BY DEF BInv, Past, CacheSet
<1>5. \A u \in User : cache'[u] # Miss => cache'[u].row \in was[u]
  BY <1>1, <1>4 DEF CacheSet, BInv, IInv, TypeOK
<1> HIDE DEF j
<1>6. Goes(r, j)
  BY <1>1, <1>2, <1>3, <1>5 DEF Goes, Routed
<1>7. Stage(job[r]) = "shown" /\ Stage(j) \in {"shown", "ok"}
  BY <1>1, <1>2 DEF Stage
<1> QED
  BY <1>2, <1>6, <1>7, HiddenSim, SuccessSim

\* From a stage to the same one, or to its success, without a word to the cache.
LEMMA MoveSim ==
  ASSUME BInv, NEW r \in Req, NEW from, At(r, from), NEW to \in Place, Move(r, to),
         UNCHANGED <<user, was, cache>>,
         \/ from = "cache" /\ to = "fill"
         \/ from = "ext_cache" /\ to = "ext_call"
         \/ from = "role" /\ to = "apply"
  PROVE  Simulated
<1> DEFINE j == [job[r] EXCEPT !.at = to]
<1>1. /\ job[r] \in Job /\ job[r] # Idle /\ job[r].at = from /\ Routed(job[r])
      /\ \A u \in User : cache[u] # Miss => cache[u].row \in was[u]
  BY OnItsWay
<1>2. /\ j \in Job /\ j.at = to /\ j.op = job[r].op /\ j.id = job[r].id
      /\ j.role = job[r].role /\ j.seen = job[r].seen
  BY <1>1, MoveFields
<1>3. job' = [job EXCEPT ![r] = j]
  BY DEF Move
<1> HIDE DEF j
<1>4. Goes(r, j)
  BY <1>1, <1>2, <1>3 DEF Goes, Routed
<1>5. Stage(j) = Stage(job[r])
  BY <1>1, <1>2 DEF Stage
<1> QED
  BY <1>2, <1>4, <1>5, HiddenSim

\* The answer "ok" to a request that has been served.
LEMMA FinishSim ==
  ASSUME BInv, NEW r \in Req, NEW i \in Job, i.op = job[r].op, i.id = job[r].id,
         i.role = job[r].role, i.seen = job[r].seen,
         job' = [job EXCEPT ![r] = Done(i, "ok")],
         NEW from \in {"ext_cache", "ext_call", "ext_set", "del"}, At(r, from),
         UNCHANGED <<user, was>>,
         \A u \in User : cache'[u] # Miss =>
           cache[u] # Miss /\ cache'[u].row = cache[u].row
  PROVE  Simulated
<1> DEFINE j == Done(i, "ok")
<1>1. /\ job[r] \in Job /\ job[r] # Idle /\ job[r].at = from /\ Routed(job[r])
      /\ \A u \in User : cache[u] # Miss => cache[u].row \in was[u]
  BY OnItsWay
<1>2. /\ j \in Job /\ j.at = "done" /\ j.reply = "ok" /\ j.op = job[r].op
      /\ j.id = job[r].id /\ j.role = job[r].role /\ j.seen = job[r].seen
  BY DoneFields DEF Reply
<1> HIDE DEF j
<1>3. Goes(r, j)
  BY <1>1, <1>2 DEF Goes, Routed, j
<1>4. Stage(j) = "ok" /\ Stage(job[r]) \in {"shown", "taken"}
  BY <1>1, <1>2 DEF Stage
<1> QED
  BY <1>2, <1>3, <1>4, SuccessSim

LEMMA ExternalSim ==
  ASSUME BInv, NEW r \in Req, ExternalHit(r) \/ GetUser(r) \/ ExternalSet(r)
  PROVE  Simulated
<1>1. job[r] \in Job /\ job[r] # Idle /\ UNCHANGED <<user, was, cache>> /\ Routed(job[r])
      /\ \A u \in User : cache[u] # Miss => cache[u].row \in was[u]
  BY OnItsWay DEF ExternalHit, GetUser, ExternalSet
<1>2. CASE ExternalHit(r)
  <2> DEFINE i == [job[r] EXCEPT !.enriched = TRUE]
  <2>1. /\ i \in Job /\ i.op = job[r].op /\ i.id = job[r].id /\ i.role = job[r].role
        /\ i.seen = job[r].seen
    BY <1>1 DEF Job
  <2>2. job' = [job EXCEPT ![r] = Done(i, "ok")] /\ At(r, "ext_cache")
    BY <1>2 DEF ExternalHit
  <2> HIDE DEF i
  <2> QED
    BY <1>1, <2>1, <2>2, FinishSim
<1>3. CASE Finish(r, "ok") /\ \E from \in {"ext_call", "ext_set"} : At(r, from)
  BY <1>1, <1>3, FinishSim DEF Finish
<1>4. CASE GetUser(r) /\ ~Finish(r, "ok")
  <2> DEFINE j == [job[r] EXCEPT !.at = "ext_set", !.enriched = TRUE]
  <2>1. /\ j \in Job /\ j.op = job[r].op /\ j.id = job[r].id /\ j.role = job[r].role
        /\ j.seen = job[r].seen /\ j.at = "ext_set"
    BY <1>1 DEF Job, Place
  <2>2. job' = [job EXCEPT ![r] = j]
    BY <1>4 DEF GetUser, BInv, IInv, TypeOK
  <2>3. job[r].at = "ext_call"
    BY <1>4 DEF GetUser, At
  <2> HIDE DEF j
  <2>4. Goes(r, j)
    BY <1>1, <2>1, <2>2, <2>3 DEF Goes, Routed
  <2>5. Stage(j) = Stage(job[r])
    BY <2>1, <2>3 DEF Stage
  <2> QED
    BY <2>1, <2>4, <2>5, HiddenSim
<1> QED
  BY <1>2, <1>3, <1>4 DEF GetUser, ExternalSet

-----------------------------------------------------------------------------
(* The steps of changes.                                                   *)

LEMMA LookupRoleSim ==
  ASSUME BInv, NEW r \in Req, LookupRole(r)
  PROVE  Simulated
<1>1. At(r, "role") /\ UNCHANGED <<user, was, cache>> /\ job[r].op = "role"
  BY OnItsWay DEF LookupRole, Routed
<1>2. CASE Move(r, "apply")
  BY <1>1, <1>2, MoveSim DEF Place
<1>3. CASE job[r].role \notin Role /\ Finish(r, "not_found")
  BY <1>1, <1>3, RefusalSim
<1> QED
  BY <1>2, <1>3 DEF LookupRole

\* A change removes nobody, and what users once were they stay to have been.
LEMMA ChangeKeeps ==
  ASSUME IInv, NEW r \in Req, NEW table \in Table, table # user, Apply(r, table),
         NEW u \in User,
         \/ \E role \in Role : table = WithRole(user, u, role)
         \/ table = WithoutAccess(user, u)
  PROVE  /\ \A w \in User : user[w] # NoUser <=> table[w] # NoUser
         /\ \A w \in User : user[w] # NoUser =>
              /\ table[w].name = user[w].name /\ table[w].email = user[w].email
              /\ table[w].active => user[w].active
         /\ \A w \in User : was'[w] = was[w] \cup ({table[w]} \ {NoUser})
<1>1. user \in Table
  BY DEF IInv, TypeOK
<1>2. /\ Users(table) = Users(user)
      /\ \A x \in Users(user) : /\ table[x].name = user[x].name
                                /\ table[x].email = user[x].email
                                /\ table[x].active => user[x].active
  <2>1. CASE table = WithoutAccess(user, u)
    BY <1>1, <2>1, WithoutAccessTable
  <2>2. CASE \E role \in Role : table = WithRole(user, u, role)
    BY <1>1, <2>2, WithRoleTable
  <2> QED
    BY <2>1, <2>2
<1>3. user' = table /\ Remember
  BY DEF Apply
<1> QED
  BY <1>2, <1>3 DEF Users, Remember

LEMMA ChangeSim ==
  ASSUME BInv, NEW r \in Req, UpdateRole(r) \/ Deactivate(r)
  PROVE  Simulated
<1>1. /\ job[r] \in Job /\ job[r] # Idle /\ job[r].at = "apply" /\ job[r].id \in User
      /\ Routed(job[r]) /\ job[r].role \in Role /\ At(r, "apply") /\ IInv
  BY OnItsWay DEF UpdateRole, Deactivate, JobOK, BInv
<1>2. PICK table \in Table :
        /\ Apply(r, table)
        /\ \/ job[r].op = "role" /\ table = WithRole(user, job[r].id, job[r].role)
           \/ job[r].op = "deactivate" /\ table = WithoutAccess(user, job[r].id)
  BY <1>1, ChangeApplies
<1>3. CASE table = user
  <2>1. Finish(r, "not_found") /\ UNCHANGED <<user, was, cache>>
    BY <1>2, <1>3 DEF Apply
  <2> QED
    BY <1>1, <1>2, <1>3, <2>1, RefusalSim
<1>4. CASE table # user
  <2>1. PICK j \in Job :
          /\ j.op = job[r].op /\ j.id = job[r].id /\ j.role = job[r].role
          /\ j.seen = job[r].seen
          /\ j.at = "del" \/ (j.at = "done" /\ j.reply = "error")
          /\ job' = [Observe(job[r].id) EXCEPT ![r] = j]
          /\ user' = table
          /\ \A u \in User : cache'[u] # Miss =>
               cache[u] # Miss /\ cache'[u].row = cache[u].row
    BY <1>1, <1>2, <1>4, Applies
  <2> DEFINE jobs == Observe(job[r].id)
  <2>2. \A q \in Req : job[q] # Idle =>
          /\ job[q] \in Job /\ jobs[q] \in Job /\ jobs[q].at = job[q].at
          /\ jobs[q].seen = job[q].seen /\ jobs[q].op = job[q].op
          /\ jobs[q].id = job[q].id /\ jobs[q].role = job[q].role
          /\ jobs[q].reply = job[q].reply
    BY <1>1, ObservedJob DEF IInv, TypeOK
  <2>3. DOMAIN jobs = Req /\ \A q \in Req : job[q] = Idle => jobs[q] = Idle
    BY DEF Observe
  <2>4. job'[r] = j /\ \A q \in Req \ {r} : job'[q] = jobs[q]
    BY <2>1, <2>3
  <2> HIDE DEF jobs
  <2>5. \A u \in User : /\ user[u] # NoUser => user'[u] # NoUser
                        /\ was[u] \subseteq was'[u]
                        /\ user'[u] # NoUser => user'[u] \in was'[u]
    BY <1>1, <1>2, <1>4, <2>1, ChangeKeeps
  <2>6. Past'
    <3>1. ASSUME NEW u \in User, cache'[u] # Miss
          PROVE  cache'[u].row \in was'[u]
      BY <2>1, <2>5, <3>1 DEF BInv, Past
    <3>2. ASSUME NEW q \in Req, At(q, "set")'
          PROVE  job'[q].seen \in was'[job'[q].id]
      <4>1. q # r /\ job[q] # Idle
        BY <2>1, <2>3, <2>4, <3>2 DEF At
      <4>2. /\ At(q, "set") /\ job'[q].seen = job[q].seen /\ job'[q].id = job[q].id
        BY <2>2, <2>4, <3>2, <4>1 DEF At
      <4>3. job[q].id \in User /\ job[q].seen \in was[job[q].id]
        BY <4>2, OnItsWay DEF BInv, Past
      <4> QED
        BY <2>5, <4>2, <4>3
    <3> QED
      BY <2>5, <3>1, <3>2 DEF Past
  <2>7. Routes'
    <3> SUFFICES ASSUME NEW q \in Req, job'[q] # Idle PROVE Routed(job[q])'
      BY DEF Routes
    <3>1. CASE q = r
      BY <1>1, <2>1, <2>4, <2>5, <3>1 DEF Routed
    <3>2. CASE q # r
      <4>1. job[q] # Idle /\ job'[q] = jobs[q]
        BY <2>3, <2>4, <3>2
      <4>2. Routed(job[q]) /\ job[q].id \in User
        BY <2>2, <4>1 DEF BInv, Routes, Job
      <4> QED
        BY <2>2, <2>5, <4>1, <4>2 DEF Routed
    <3> QED
      BY <3>1, <3>2
  <2>8. Stage(j) \in {"taken", "error"} /\ Stage(job[r]) = "asked"
    BY <1>1, <2>1 DEF Stage
  <2>9. PICK c : c = Call(job[r])
    OBVIOUS
  <2>10. /\ c # Idle /\ c.stage = "asked" /\ c.op = job[r].op /\ c.id = job[r].id
         /\ c.role = job[r].role /\ Calls[r] = c
    BY <1>1, <2>8, <2>9, CallOf DEF Routed, Calls
  <2>11. Call(j) = Staged(c, Stage(j))
    BY <1>1, <2>1, <2>9, Onward
  <2>12. \A q \in Req \ {r} : Call(job'[q]) = Call(job[q])
    <3> SUFFICES ASSUME NEW q \in Req \ {r} PROVE Call(jobs[q]) = Call(job[q])
      BY <2>4
    <3>1. CASE job[q] = Idle
      BY <2>3, <3>1
    <3>2. CASE job[q] # Idle
      <4>1. Stage(jobs[q]) = Stage(job[q])
        BY <2>2, <3>2 DEF Stage
      <4> QED
        BY <2>2, <3>2, <4>1, Onward
    <3> QED
      BY <3>1, <3>2
  <2>13. Calls' = [Calls EXCEPT ![r] = Staged(c, Stage(j))]
    BY <2>4, <2>11, <2>12 DEF Calls
  <2>14. user' = Board!After(c)
    BY <1>1, <1>2, <2>1, <2>10 DEF Board!After, Board!Role, Role,
       Board!WithRole, WithRole, Board!WithoutAccess, WithoutAccess
  <2>15. Remember
    BY <1>2, <1>4 DEF Apply
  <2>16. Board!Next
    BY <1>4, <2>1, <2>8, <2>10, <2>13, <2>14, <2>15, BoardTake
  <2> QED
    BY <2>6, <2>7, <2>16 DEF Simulated
<1> QED
  BY <1>3, <1>4

LEMMA DelSim ==
  ASSUME BInv, NEW r \in Req, CacheDel(r) \/ CacheDelLost(r)
  PROVE  Simulated
<1>1. /\ At(r, "del") /\ UNCHANGED <<user, was>> /\ job[r] \in Job
      /\ job' = [job EXCEPT ![r] = Done(job[r], "ok")]
  BY OnItsWay DEF CacheDel, CacheDelLost, Finish
<1>2. \A u \in User : cache'[u] # Miss => cache[u] # Miss /\ cache'[u].row = cache[u].row
  <2>1. CASE CacheDel(r)
    BY <2>1 DEF CacheDel, BInv, IInv, TypeOK
  <2>2. CASE CacheDelLost(r)
    BY <2>2, ExcusedCache DEF CacheDelLost, BInv, IInv
  <2> QED
    BY <2>1, <2>2
<1> QED
  BY <1>1, <1>2, FinishSim

-----------------------------------------------------------------------------
(* The ends and beginnings.                                                *)

LEMMA ReturnSim ==
  ASSUME BInv, NEW r \in Req, Return(r)
  PROVE  Simulated
<1>1. /\ job[r] \in Job /\ job[r] # Idle /\ job[r].at = "done" /\ Routed(job[r])
      /\ job' = [job EXCEPT ![r] = Idle] /\ UNCHANGED <<user, was, cache>>
  BY OnItsWay DEF Return
<1>2. job'[r] = Idle /\ \A q \in Req \ {r} : job'[q] = job[q]
  BY <1>1 DEF BInv, IInv, TypeOK
<1>3. Past' /\ Routes'
  BY <1>1, <1>2 DEF BInv, Past, Routes, Routed, At
<1>4. PICK c : c = Call(job[r])
  OBVIOUS
<1>5. c # Idle /\ c.stage \in Board!Answer /\ Calls[r] = c
  BY <1>1, <1>4, CallOf DEF Routed, Stage, Job, Reply, Board!Answer, Calls
<1>6. Calls' = [q \in Req |-> IF q \in {r} THEN Idle ELSE Calls[q]]
  BY <1>2 DEF Calls, Call
<1>7. Board!Forget({r})
  BY <1>1, <1>6 DEF Board!Forget, Calls
<1>8. Board!Next
  BY <1>5, <1>7 DEF Board!Next, Board!Proceed, Calls
<1> QED
  BY <1>3, <1>8 DEF Simulated

LEMMA CrashSim ==
  ASSUME BInv, Crash
  PROVE  Simulated
<1>1. \A q \in Req : job'[q] = Idle
  BY DEF Crash
<1>2. \A u \in User : cache'[u] # Miss => cache[u] # Miss /\ cache'[u].row = cache[u].row
  BY ExcusedCache DEF Crash, BInv, IInv
<1>3. Past' /\ Routes'
  BY <1>1, <1>2 DEF BInv, Past, Routes, At, Crash
<1>4. Calls' = [q \in Req |-> IF q \in Req THEN Idle ELSE Calls[q]]
  BY <1>1 DEF Calls, Call
<1>5. Board!Forget(Req)
  BY <1>4 DEF Board!Forget, Calls, Crash
<1> QED
  BY <1>3, <1>5 DEF Simulated, Board!Next

LEMMA StartSim ==
  ASSUME BInv, NEW r \in Req, NEW op \in {"get", "me", "role", "deactivate"},
         NEW u \in User, NEW role \in Asked, Start(r, op, u, role)
  PROVE  Simulated
<1> DEFINE j == [op |-> op, id |-> u, role |-> role, at |-> Entry(op), seen |-> NoUser,
                 enriched |-> FALSE, raced |-> FALSE, reply |-> "none"]
<1>1. /\ Entry(op) \in {"cache", "role", "apply"}
      /\ Entry(op) = "cache" => op \in {"get", "me"}
      /\ Entry(op) = "role" => op = "role"
  BY DEF Entry
<1>2. /\ job[r] = Idle /\ job' = [job EXCEPT ![r] = j] /\ UNCHANGED <<user, was, cache>>
      /\ op = "me" => user[u] # NoUser
      /\ op # "role" => role = "user"
  BY DEF Start
<1>3. Stage(j) = "asked" /\ Routed(j) /\ j \in Job
  BY <1>1, <1>2 DEF Stage, Routed, Job, Place, Reply
<1>4. Call(j) = Rec(op, u, role, "asked", NoUser)
  BY <1>3, CallOf DEF Routed
<1>5. j.at # "set"
  BY <1>1
<1> HIDE DEF j
<1>6. job'[r] = j /\ \A q \in Req \ {r} : job'[q] = job[q]
  BY <1>2 DEF BInv, IInv, TypeOK
<1>7. Past' /\ Routes'
  BY <1>2, <1>3, <1>5, <1>6 DEF BInv, Past, Routes, Routed, At
<1>8. Calls' = [Calls EXCEPT ![r] = Rec(op, u, role, "asked", NoUser)] /\ Calls[r] = Idle
  BY <1>2, <1>4, <1>6 DEF Calls, Call
<1>9. Board!Ask(r, op, u, role)
  BY <1>2, <1>8 DEF Board!Ask, Calls, Rec
<1>10. Board!Next
  BY <1>8, <1>9 DEF Board!Next, Board!Begin, Board!Read, Calls
<1> QED
  BY <1>7, <1>10 DEF Simulated

LEMMA ExpireSim ==
  ASSUME BInv, NEW u \in User, Expire(u) \/ ExternalExpire(u)
  PROVE  Simulated
<1>1. /\ UNCHANGED <<user, was, job>>
      /\ \A w \in User : cache'[w] # Miss => cache'[w] = cache[w]
  BY DEF Expire, ExternalExpire, BInv, IInv, TypeOK
<1>2. Past' /\ Routes' /\ Calls' = Calls
  BY <1>1 DEF BInv, Past, Routes, Routed, At, Calls
<1> QED
  BY <1>1, <1>2, BoardIdle DEF Simulated

-----------------------------------------------------------------------------
(* The theorem.                                                            *)

\* The service begins as the board does.
LEMMA InitBoard == Init => BInv /\ Board!Init
<1> SUFFICES ASSUME Init PROVE BInv /\ Board!Init
  OBVIOUS
<1>1. IInv /\ Past /\ Routes
  BY InitInv DEF Init, Past, Routes, At
<1>2. Calls = [r \in Req |-> Idle]
  BY DEF Init, Calls, Call
<1>3. user \in Board!Table
  BY DEF Init, Table, Row, Role, Board!Table, Board!Row, Board!Role
<1>4. Board!Init
  BY <1>2, <1>3 DEF Init, Board!Init, Calls
<1> QED
  BY <1>1, <1>4 DEF BInv

\* Every step is one of the board's, or none.
LEMMA StepBoard == BInv /\ [Next]_vars => BInv' /\ [Board!Next]_(Board!vars)
<1> SUFFICES ASSUME BInv, [Next]_vars PROVE IInv' /\ Simulated
  BY DEF BInv, Simulated
<1>1. IInv'
  BY StepInv DEF BInv
<1>2. CASE UNCHANGED vars
  <2>1. Past' /\ Routes' /\ Calls' = Calls /\ UNCHANGED <<user, was>>
    BY <1>2 DEF vars, BInv, Past, Routes, Routed, At, Calls
  <2> QED
    BY <1>1, <2>1, BoardIdle DEF Simulated
<1>3. ASSUME NEW r \in Req, NEW op \in {"get", "me", "role", "deactivate"},
             NEW u \in User, NEW role \in Asked, Start(r, op, u, role)
      PROVE  Simulated
  BY <1>3, StartSim
<1>4. ASSUME NEW r \in Req, Step(r) PROVE Simulated
  <2>1. CASE CacheMiss(r) \/ ExternalMiss(r)
    BY <2>1, MoveSim DEF CacheMiss, ExternalMiss, Place
  <2>2. CASE Fail(r)
    BY <2>2, RefusalSim DEF Fail
  <2> QED
    BY <1>4, <2>1, <2>2, CacheHitSim, ReadUserSim, CacheSetSim, ExternalSim,
       LookupRoleSim, ChangeSim, DelSim, ReturnSim DEF Step
<1>5. ASSUME NEW u \in User, Expire(u) \/ ExternalExpire(u) PROVE Simulated
  BY <1>5, ExpireSim
<1>6. CASE Crash
  BY <1>1, <1>6, CrashSim
<1> QED
  BY <1>1, <1>2, <1>3, <1>4, <1>5, <1>6 DEF Next

\* UserService implements UserBoard: callers see each change made once and
\* reported truthfully, and no user in a state he is not in and never was in.
THEOREM Refinement == Spec => Linearizes
  BY InitBoard, StepBoard, PTL DEF Spec, Linearizes, Board!Spec

\* What the users once were differs from what they are in these ways only.
Selves ==
  \A u \in User : \A v \in was[u] :
    /\ user[u] # NoUser
    /\ v.name = user[u].name /\ v.email = user[u].email
    /\ user[u].active => v.active

\* Whatever a stale cache shows of a user (user_service.go:28-37), it is a user
\* that exists, his name and his email, and it never denies him an access that he
\* still has: only his role, and an access taken away, may be shown as they were.
THEOREM FormerSelves == Spec => []Selves
<1>1. ASSUME Init PROVE IInv /\ Selves
  <2>1. \A u \in User : \A v \in was[u] : v = user[u] /\ user[u] # NoUser
    BY <1>1 DEF Init
  <2> QED
    BY <1>1, <2>1, InitInv DEF Selves
<1>2. ASSUME IInv, Selves, [Next]_vars PROVE IInv' /\ Selves'
  <2>1. UNCHANGED <<user, was>> => Selves'
    BY <1>2 DEF Selves
  <2>2. ASSUME NEW r \in Req, UpdateRole(r) \/ Deactivate(r) PROVE Selves'
    <3>1. PICK table \in Table :
            /\ Apply(r, table)
            /\ \/ table = WithRole(user, job[r].id, job[r].role)
               \/ table = WithoutAccess(user, job[r].id)
      BY <1>2, <2>2, ChangeApplies
    <3>2. job[r].id \in User /\ job[r].role \in Role
      BY <1>2, <2>2, AtJob DEF UpdateRole, Deactivate, JobOK
    <3>3. CASE table = user
      BY <1>2, <3>1, <3>3 DEF Apply, Selves
    <3>4. CASE table # user
      <4>1. user' = table
        BY <3>1, <3>4 DEF Apply
      <4>2. SUFFICES ASSUME NEW u \in User, NEW v \in was'[u]
                     PROVE  /\ table[u] # NoUser
                            /\ v.name = table[u].name /\ v.email = table[u].email
                            /\ table[u].active => v.active
        BY <4>1 DEF Selves
      <4>3. v \in was[u] \/ (v = table[u] /\ table[u] # NoUser)
        BY <1>2, <3>1, <3>2, <3>4, <4>2, ChangeKeeps
      <4>4. v \in was[u] => /\ user[u] # NoUser
                            /\ v.name = user[u].name /\ v.email = user[u].email
                            /\ user[u].active => v.active
        BY <1>2 DEF Selves
      <4> QED
        BY <1>2, <3>1, <3>2, <3>4, <4>3, <4>4, ChangeKeeps
    <3> QED
      BY <3>3, <3>4
  <2>3. CASE \A r \in Req : ~UpdateRole(r) /\ ~Deactivate(r)
    <3>1. UNCHANGED <<user, was>>
      BY <1>2, <2>3 DEF Next, vars, Step, Start, CacheHit, CacheMiss, ReadUser, CacheSet,
         ExternalHit, ExternalMiss, GetUser, ExternalSet, LookupRole, CacheDel,
         CacheDelLost, Fail, Return, Expire, ExternalExpire, Crash
    <3> QED
      BY <1>2, <2>1, <3>1, StepInv
  <2> QED
    BY <1>2, <2>2, <2>3, StepInv
<1> QED
  BY <1>1, <1>2, PTL DEF Spec
=============================================================================
