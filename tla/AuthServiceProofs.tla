--------------------------- MODULE AuthServiceProofs ---------------------------
(***************************************************************************)
(* The safety properties of AuthService for any number of users, names and *)
(* requests.  The invariant follows the admin role from the table into the *)
(* tokens, and from the tokens into the requests they admit.               *)
(***************************************************************************)
EXTENDS AuthService, UserRowsProofs

\* A request under way.
JobOK(j) ==
  /\ j.at \in {"lookup", "insert"} => j.op = "register" /\ j.role = "user"
  /\ j.at = "issue" => j.id \in User /\ (j.role = "admin" => j.id \in admins)
  /\ j.at = "apply" => /\ j.id \in User
                       /\ j.caller \in Token /\ j.caller.role = "admin"
                       /\ j.caller.id \in admins

Jobs == \A r \in Req : job[r] # Idle => JobOK(job[r])

\* Who has an admin's token was found to be one.
Recorded == \A token \in tokens : token.role = "admin" => token.id \in admins

IInv == TypeOK /\ Jobs /\ Recorded /\ UniqueUsers

-----------------------------------------------------------------------------
(* INSERT INTO users.                                                      *)

\* The UNIQUE keys keep names and emails apart.
LEMMA InsertUnique ==
  ASSUME TypeOK, UniqueUsers, NEW u \in User \ Users(user),
         NEW name \in Name, NEW email \in Email, NEW role \in Role,
         ~Duplicate(user, name, email),
         user' = Inserted(user, u, name, email, role)
  PROVE  user' \in Table /\ UniqueUsers'
<1>1. /\ user' \in Table
      /\ Users(user)' = Users(user) \cup {u}
      /\ \A v \in User : v # u => user'[v] = user[v]
      /\ user'[u].name = name /\ user'[u].email = email
  <2>1. user \in Table
    BY DEF TypeOK
  <2>2. /\ user' \in Table
        /\ Users(user') = Users(user) \cup {u}
        /\ \A v \in User : v # u => user'[v] = user[v]
        /\ user'[u] = [name |-> name, email |-> email, role |-> role, active |-> TRUE]
    BY <2>1, InsertedTable
  <2>3. QED
    BY <2>2 DEF Users
<1>2. \A v \in Users(user) : user[v].name # name /\ user[v].email # email
  BY DEF Duplicate
<1>3. \A v \in Users(user) : v \in User /\ v # u
  BY DEF Users
<1>4. QED
  BY <1>1, <1>2, <1>3 DEF UniqueUsers

-----------------------------------------------------------------------------
LEMMA InitInv == Init => IInv
<1> SUFFICES ASSUME Init PROVE IInv
  OBVIOUS
<1>1. TypeOK
  BY DEF Init, TypeOK, Table
<1>2. Users(user) = {}
  BY DEF Init, Users
<1>3. Jobs /\ Recorded /\ UniqueUsers
  BY <1>2 DEF Init, Jobs, Recorded, UniqueUsers, Admins
<1>4. QED
  BY <1>1, <1>3 DEF IInv

LEMMA MakeAdminInv ==
  ASSUME IInv, UNCHANGED user \/ MakeAdmin
  PROVE  user' \in Table /\ UniqueUsers'
<1>1. CASE UNCHANGED user
  BY <1>1 DEF IInv, TypeOK, UniqueUsers, Users
<1>2. CASE MakeAdmin
  <2>1. PICK u \in User \ Users(user) :
          user' = Inserted(user, u, AdminName, AdminEmail, "admin")
    BY <1>2 DEF MakeAdmin
  <2>2. "admin" \in Role
    BY DEF Role
  <2>3. Inserted(user, u, AdminName, AdminEmail, "admin") \in Table
    BY <2>2, InsertedTable, AdminAssumption DEF IInv, TypeOK
  <2>4. UniqueUsers'
    BY <1>2, <2>1, <2>2, InsertUnique, AdminAssumption DEF IInv, MakeAdmin
  <2>5. QED
    BY <2>1, <2>3, <2>4
<1>3. QED
  BY <1>1, <1>2

\* Startup, shutdown and the end of a token.
LEMMA ServerInv ==
  ASSUME IInv,
         \/ BootstrapAdmin \/ BootstrapFails \/ Listen \/ Restart
         \/ \E token \in Token : Expire(token)
  PROVE  IInv'
<1>1. CASE BootstrapAdmin \/ BootstrapFails
  <2>1. (UNCHANGED user \/ MakeAdmin) /\ UNCHANGED <<admins, tokens, job>>
        /\ server' \in {"admin", "no_admin"}
    BY <1>1 DEF BootstrapAdmin, BootstrapFails
  <2>2. user' \in Table /\ UniqueUsers'
    BY <2>1, MakeAdminInv
  <2>3. Jobs' /\ Recorded'
    BY <2>1 DEF IInv, Jobs, JobOK, Recorded
  <2>4. QED
    BY <2>1, <2>2, <2>3 DEF IInv, TypeOK
<1>2. CASE Listen
  BY <1>2 DEF Listen, IInv, TypeOK, Jobs, JobOK, Recorded, UniqueUsers, Users
<1>3. CASE Restart
  BY <1>3 DEF Restart, IInv, TypeOK, Jobs, JobOK, Recorded, UniqueUsers, Users
<1>4. CASE \E token \in Token : Expire(token)
  BY <1>4 DEF Expire, IInv, TypeOK, Jobs, JobOK, Recorded, UniqueUsers, Users
<1>5. QED
  BY <1>1, <1>2, <1>3, <1>4

\* A step of one goroutine that leaves the table and the tokens alone.
LEMMA JobStep ==
  ASSUME IInv, NEW r \in Req, NEW j \in Job \cup {Idle},
         j # Idle => JobOK(j),
         job' = [job EXCEPT ![r] = j], UNCHANGED <<user, admins, tokens, server>>
  PROVE  IInv'
<1>1. TypeOK'
  BY DEF IInv, TypeOK
<1>2. Jobs'
  BY DEF IInv, TypeOK, Jobs, JobOK
<1>3. Recorded' /\ UniqueUsers'
  BY DEF IInv, Recorded, UniqueUsers, Users
<1>4. QED
  BY <1>1, <1>2, <1>3 DEF IInv

LEMMA ArriveInv ==
  ASSUME IInv, NEW r \in Req,
         \/ \E name \in Name, email \in Email, role \in Role : Register(r, name, email, role)
         \/ \E name \in Name : Login(r, name)
         \/ \E op \in {"role", "deactivate"}, token \in tokens, u \in User, role \in Role :
              Change(r, op, token, u, role)
  PROVE  IInv'
<1>1. CASE \E name \in Name, email \in Email, role \in Role : Register(r, name, email, role)
  <2>1. PICK name \in Name, email \in Email : Register(r, name, email, "user")
    BY <1>1 DEF Register
  <2> DEFINE j == [op |-> "register", name |-> name, email |-> email, id |-> Nobody,
                   role |-> "user", caller |-> Nobody, at |-> "lookup"]
  <2>2. j \in Job /\ JobOK(j)
    BY DEF Job, Role, Place, JobOK
  <2>3. job' = [job EXCEPT ![r] = j] /\ UNCHANGED <<user, admins, tokens, server>>
    BY <2>1 DEF Register, Arrive
  <2>4. QED
    BY <2>2, <2>3, JobStep
<1>2. CASE \E name \in Name : Login(r, name)
  <2>1. PICK name \in Name : Login(r, name)
    BY <1>2
  <2> DEFINE j == [op |-> "login", name |-> name, email |-> AdminEmail, id |-> Nobody,
                   role |-> "user", caller |-> Nobody, at |-> "read"]
  <2>2. j \in Job /\ JobOK(j)
    BY AdminAssumption DEF Job, Role, Place, JobOK
  <2>3. job' = [job EXCEPT ![r] = j] /\ UNCHANGED <<user, admins, tokens, server>>
    BY <2>1 DEF Login, Arrive
  <2>4. QED
    BY <2>2, <2>3, JobStep
<1>3. CASE \E op \in {"role", "deactivate"}, token \in tokens, u \in User, role \in Role :
             Change(r, op, token, u, role)
  <2>1. PICK op \in {"role", "deactivate"}, token \in tokens, u \in User, role \in Role :
          Change(r, op, token, u, role)
    BY <1>3
  <2> DEFINE j == [op |-> op, name |-> AdminName, email |-> AdminEmail, id |-> u,
                   role |-> role, caller |-> token, at |-> "apply"]
  <2>2. token \in Token /\ token.role = "admin" /\ token.id \in admins
    BY <2>1 DEF IInv, TypeOK, Recorded, Change, Allowed
  <2>3. j \in Job /\ JobOK(j)
    BY <2>2, AdminAssumption DEF Job, Place, JobOK
  <2>4. job' = [job EXCEPT ![r] = j] /\ UNCHANGED <<user, admins, tokens, server>>
    BY <2>1 DEF Change, Arrive
  <2>5. QED
    BY <2>3, <2>4, JobStep
<1>4. QED
  BY <1>1, <1>2, <1>3

\* The end of a request that wrote the table.
LEMMA WriteEnds ==
  ASSUME IInv, NEW r \in Req, NEW table \in Table, user' = table, End(r),
         UNCHANGED <<admins, tokens, server>>, UniqueUsers'
  PROVE  IInv'
<1>1. TypeOK'
  BY DEF IInv, TypeOK, End
<1>2. Jobs' /\ Recorded'
  BY DEF IInv, TypeOK, Jobs, JobOK, Recorded, End
<1>3. QED
  BY <1>1, <1>2 DEF IInv

LEMMA StepOfRequest == ASSUME IInv, NEW r \in Req, Step(r) PROVE IInv'
<1>1. CASE LookupName(r)
  <2>1. job[r] \in Job /\ JobOK(job[r]) /\ job[r].at = "lookup"
    BY <1>1 DEF LookupName, At, IInv, TypeOK, Jobs
  <2>2. CASE End(r)
    BY <1>1, <2>2, JobStep DEF LookupName, End
  <2>3. CASE Move(r, "insert")
    <3> DEFINE j == [job[r] EXCEPT !.at = "insert"]
    <3>1. j \in Job /\ JobOK(j)
      BY <2>1 DEF Job, Place, JobOK
    <3>2. job' = [job EXCEPT ![r] = j]
      BY <2>3 DEF Move
    <3>3. QED
      BY <1>1, <3>1, <3>2, JobStep DEF LookupName
  <2>4. QED
    BY <1>1, <2>2, <2>3 DEF LookupName
<1>2. CASE Insert(r)
  <2>1. job[r] \in Job
    BY <1>2 DEF Insert, At, IInv, TypeOK
  <2>2. PICK u \in User \ Users(user) :
          user' = Inserted(user, u, job[r].name, job[r].email, job[r].role)
    BY <1>2 DEF Insert
  <2>3. job[r].name \in Name /\ job[r].email \in Email /\ job[r].role \in Role
    BY <2>1 DEF Job
  <2>4. Inserted(user, u, job[r].name, job[r].email, job[r].role) \in Table
    BY <2>3, InsertedTable DEF IInv, TypeOK
  <2>5. UniqueUsers'
    BY <1>2, <2>2, <2>3, InsertUnique DEF IInv, Insert
  <2>6. QED
    BY <1>2, <2>2, <2>4, <2>5, WriteEnds DEF Insert
<1>3. CASE ReadUser(r)
  <2>1. job[r] \in Job
    BY <1>3 DEF ReadUser, At, IInv, TypeOK
  <2>2. PICK u \in Named(user, job[r].name) :
          /\ MayLogIn(user[u])
          /\ job' = [job EXCEPT ![r].id = u, ![r].role = user[u].role, ![r].at = "issue"]
          /\ admins' = admins \cup ({u} \cap {v \in Admins(user) : user[v].active})
    BY <1>3 DEF ReadUser
  <2>3. /\ u \in User /\ user[u] \in Row
        /\ user[u].role = "admin" => u \in admins'
        /\ admins \subseteq admins' /\ admins' \subseteq User
    BY <2>2 DEF IInv, TypeOK, Table, Admins, Users, Named, MayLogIn
  <2> DEFINE j == [job[r] EXCEPT !.id = u, !.role = user[u].role, !.at = "issue"]
  <2>4. j \in Job /\ j.at = "issue" /\ j.id = u /\ j.role = user[u].role
    BY <2>1, <2>3 DEF Job, Row, Place
  <2>5. job' = [job EXCEPT ![r] = j]
    BY <2>2 DEF IInv, TypeOK
  <2> HIDE DEF j
  <2>6. \A q \in Req : job'[q] = IF q = r THEN j ELSE job[q]
    BY <2>5 DEF IInv, TypeOK
  <2>7. Jobs'
    <3>1. ASSUME NEW q \in Req, job'[q] # Idle
          PROVE  JobOK(job[q])'
      <4>1. CASE q = r
        BY <2>3, <2>4, <2>6, <4>1 DEF JobOK
      <4>2. CASE q # r
        BY <2>3, <2>6, <3>1, <4>2 DEF IInv, Jobs, JobOK
      <4> QED
        BY <4>1, <4>2
    <3> QED
      BY <3>1 DEF Jobs
  <2>8. TypeOK'
    <3>1. job' \in [Req -> Job \cup {Idle}]
      BY <2>4, <2>5 DEF IInv, TypeOK
    <3> QED
      BY <1>3, <2>3, <3>1 DEF IInv, TypeOK, ReadUser
  <2>9. Recorded' /\ UniqueUsers'
    BY <1>3, <2>3 DEF IInv, Recorded, UniqueUsers, Users, ReadUser
  <2>10. QED
    BY <2>7, <2>8, <2>9 DEF IInv
<1>4. CASE Issue(r)
  <2>1. job[r] \in Job /\ JobOK(job[r]) /\ job[r].at = "issue"
    BY <1>4 DEF Issue, At, IInv, TypeOK, Jobs
  <2> DEFINE token == [id |-> job[r].id, role |-> job[r].role]
  <2>2. token \in Token /\ (token.role = "admin" => token.id \in admins)
    BY <2>1 DEF Job, JobOK, Token
  <2>3. tokens' = tokens \cup {token} /\ UNCHANGED <<user, admins, server>>
        /\ job' = [job EXCEPT ![r] = Idle]
    BY <1>4 DEF Issue, End
  <2>4. TypeOK' /\ Jobs'
    BY <2>2, <2>3 DEF IInv, TypeOK, Jobs, JobOK
  <2>5. Recorded' /\ UniqueUsers'
    BY <2>2, <2>3 DEF IInv, Recorded, UniqueUsers, Users
  <2>6. QED
    BY <2>4, <2>5 DEF IInv
<1>5. CASE UpdateRole(r)
  <2>1. job[r] \in Job /\ JobOK(job[r]) /\ job[r].at = "apply"
    BY <1>5 DEF UpdateRole, At, IInv, TypeOK, Jobs
  <2> DEFINE table == WithRole(user, job[r].id, job[r].role)
  <2>2. /\ table \in Table /\ Users(table) = Users(user)
        /\ \A v \in Users(user) : /\ table[v].name = user[v].name
                                  /\ table[v].email = user[v].email
    BY <2>1, WithRoleTable DEF IInv, TypeOK, Job, JobOK
  <2>3. user' = table /\ End(r) /\ UNCHANGED <<admins, tokens, server>>
    BY <1>5 DEF UpdateRole, Apply
  <2>4. UniqueUsers'
    BY <2>2, <2>3 DEF IInv, UniqueUsers
  <2>5. QED
    BY <2>2, <2>3, <2>4, WriteEnds
<1>6. CASE Deactivate(r)
  <2>1. job[r] \in Job /\ JobOK(job[r]) /\ job[r].at = "apply"
    BY <1>6 DEF Deactivate, At, IInv, TypeOK, Jobs
  <2> DEFINE table == WithoutAccess(user, job[r].id)
  <2>2. /\ table \in Table /\ Users(table) = Users(user)
        /\ \A v \in Users(user) : /\ table[v].name = user[v].name
                                  /\ table[v].email = user[v].email
    BY <2>1, WithoutAccessTable DEF IInv, TypeOK, JobOK
  <2>3. user' = table /\ End(r) /\ UNCHANGED <<admins, tokens, server>>
    BY <1>6 DEF Deactivate, Apply
  <2>4. UniqueUsers'
    BY <2>2, <2>3 DEF IInv, UniqueUsers
  <2>5. QED
    BY <2>2, <2>3, <2>4, WriteEnds
<1>7. CASE Fail(r)
  BY <1>7, JobStep DEF Fail, End
<1>8. QED
  BY <1>1, <1>2, <1>3, <1>4, <1>5, <1>6, <1>7 DEF Step

LEMMA StepInv == IInv /\ [Next]_vars => IInv'
<1> SUFFICES ASSUME IInv, [Next]_vars PROVE IInv'
  OBVIOUS
<1>1. CASE UNCHANGED vars
  BY <1>1 DEF vars, IInv, TypeOK, Jobs, JobOK, Recorded, UniqueUsers, Users
<1>2. CASE Next
  BY <1>2, ServerInv, ArriveInv, StepOfRequest DEF Next
<1>3. QED
  BY <1>1, <1>2

-----------------------------------------------------------------------------
\* The inductive invariant holds of every behaviour.
THEOREM Invariance == Spec => []IInv
  BY InitInv, StepInv, PTL DEF Spec

\* Every variable keeps its type; no token is signed for nobody.
THEOREM TypeCorrect == Spec => []TypeOK
<1>1. IInv => TypeOK
  BY DEF IInv
<1>2. QED
  BY <1>1, Invariance, PTL

\* One user per name and per email, however many register at once.
THEOREM UsersAreUnique == Spec => []UniqueUsers
<1>1. IInv => UniqueUsers
  BY DEF IInv
<1>2. QED
  BY <1>1, Invariance, PTL

\* Whom a step of the server makes an admin, for the action property below.
AdminMade(u) ==
  \/ server = "boot" /\ u \in Named(user, AdminName)'
  \/ \E r \in Req : /\ At(r, "apply")
                    /\ job[r].id = u
                    /\ job[r].caller.role = "admin"
                    /\ job[r].caller.id \in admins

LEMMA StepMakesAdmin ==
  ASSUME IInv, Next, NEW u \in Admins(user)' \ Admins(user)
  PROVE  AdminMade(u)
<1>1. user' # user
  BY DEF Admins, Users
<1>2. CASE BootstrapAdmin \/ BootstrapFails
  <2>1. PICK v \in User \ Users(user) :
          user' = Inserted(user, v, AdminName, AdminEmail, "admin")
    BY <1>1, <1>2 DEF BootstrapAdmin, BootstrapFails, MakeAdmin
  <2>2. /\ Users(user') = Users(user) \cup {v}
        /\ \A w \in User : w # v => user'[w] = user[w]
        /\ user'[v] = [name |-> AdminName, email |-> AdminEmail,
                       role |-> "admin", active |-> TRUE]
    <3>1. user \in Table /\ "admin" \in Role
      BY DEF IInv, TypeOK, Role
    <3> QED
      BY <2>1, <3>1, InsertedTable, AdminAssumption
  <2>3. u = v
    BY <2>2 DEF Admins, Users
  <2> QED
    BY <1>2, <2>2, <2>3 DEF AdminMade, Named, BootstrapAdmin, BootstrapFails
<1>3. CASE \E r \in Req : Insert(r)
  <2>1. PICK r \in Req : Insert(r)
    BY <1>3
  <2>2. job[r] \in Job /\ job[r].role = "user"
    BY <2>1 DEF Insert, At, IInv, TypeOK, Jobs, JobOK
  <2>3. PICK v \in User \ Users(user) :
          user' = Inserted(user, v, job[r].name, job[r].email, job[r].role)
    BY <2>1 DEF Insert
  <2>4. /\ Users(user') = Users(user) \cup {v}
        /\ \A w \in User : w # v => user'[w] = user[w]
        /\ user'[v].role = "user"
    <3>1. user \in Table /\ job[r].name \in Name /\ job[r].email \in Email
      BY <2>2 DEF IInv, TypeOK, Job
    <3>2. job[r].role \in Role
      BY <2>2 DEF Role
    <3>3. /\ Users(user') = Users(user) \cup {v}
          /\ \A w \in User : w # v => user'[w] = user[w]
          /\ user'[v] = [name |-> job[r].name, email |-> job[r].email,
                         role |-> job[r].role, active |-> TRUE]
      BY <2>3, <3>1, <3>2, InsertedTable
    <3>4. QED
      BY <2>2, <3>3
  <2>5. QED
    BY <2>4 DEF Admins, Users
<1>4. CASE \E r \in Req : UpdateRole(r)
  <2>1. PICK r \in Req : UpdateRole(r)
    BY <1>4
  <2>2. job[r] \in Job /\ JobOK(job[r]) /\ At(r, "apply")
    BY <2>1 DEF UpdateRole, At, IInv, TypeOK, Jobs
  <2>3. job[r].at = "apply"
    BY <2>2 DEF At
  <2>4. user' = WithRole(user, job[r].id, job[r].role)
    BY <2>1 DEF UpdateRole, Apply
  <2>5. u = job[r].id
    BY <2>2, <2>3, <2>4, WithRoleTable DEF IInv, TypeOK, Job, JobOK, Admins, Users
  <2>6. QED
    BY <2>2, <2>3, <2>5 DEF AdminMade, JobOK
<1>5. CASE \E r \in Req : Deactivate(r)
  <2>1. PICK r \in Req : Deactivate(r)
    BY <1>5
  <2>2. job[r] \in Job /\ JobOK(job[r]) /\ job[r].at = "apply"
    BY <2>1 DEF Deactivate, At, IInv, TypeOK, Jobs
  <2>3. user' = WithoutAccess(user, job[r].id)
    BY <2>1 DEF Deactivate, Apply
  <2>4. Users(user)' = Users(user) /\ \A v \in Users(user) : user'[v].role = user[v].role
    BY <2>2, <2>3, WithoutAccessTable DEF IInv, TypeOK, JobOK, Users
  <2>5. QED
    BY <2>4 DEF Admins
<1>6. QED
  BY <1>1, <1>2, <1>3, <1>4, <1>5
     DEF Next, Step, Listen, Restart, Register, Login, Change, Arrive, LookupName,
         ReadUser, Issue, Fail, Expire

\* Admins come from the bootstrap, under its name, or from requests admitted by the
\* admin's token of somebody a login had found to be an active admin.
THEOREM AdminsAreAppointed == Spec => AdminsMakeAdmins
<1>1. IInv /\ [Next]_vars =>
        [\A u \in Admins(user)' \ Admins(user) :
           \/ server = "boot" /\ u \in Named(user, AdminName)'
           \/ \E r \in Req : /\ At(r, "apply")
                             /\ job[r].id = u
                             /\ job[r].caller.role = "admin"
                             /\ job[r].caller.id \in admins]_vars
  BY StepMakesAdmin DEF AdminMade
<1>2. QED
  BY <1>1, Invariance, PTL DEF Spec, AdminsMakeAdmins

-----------------------------------------------------------------------------
(* What makes revocation land (AccessEnds needs fairness besides).         *)

\* User u may come to act in this role without holding it any more: a token is
\* out, a login that read the row is about to sign one, or one was admitted.
Reaches(u, role) ==
  \/ [id |-> u, role |-> role] \in tokens
  \/ \E r \in Req : /\ job[r] # Idle
                    /\ \/ job[r].at = "issue" /\ job[r].id = u /\ job[r].role = role
                       \/ job[r].at = "apply" /\ job[r].caller = [id |-> u, role |-> role]

LEMMA ActsReaches ==
  ASSUME NEW u, NEW role, Acts(u, role)
  PROVE  Reaches(u, role)
  BY DEF Acts, Reaches, At

\* How a request moves: to where nobody comes to act, or to the signing of a
\* token for an active user with his role of that moment, or admitted by a token.
LEMMA JobMoves ==
  ASSUME IInv, Next, NEW r \in Req, job'[r] # Idle, job'[r] # job[r]
  PROVE  \/ job'[r].at \in {"lookup", "read", "insert"}
         \/ /\ job'[r].at = "issue"
            /\ Holds(job'[r].id, job'[r].role)
         \/ job'[r].at = "apply" /\ job'[r].caller \in tokens
<1> DEFINE Goal == \/ job'[r].at \in {"lookup", "read", "insert"}
                   \/ /\ job'[r].at = "issue"
                      /\ Holds(job'[r].id, job'[r].role)
                   \/ job'[r].at = "apply" /\ job'[r].caller \in tokens
<1>1. job \in [Req -> Job \cup {Idle}]
  BY DEF IInv, TypeOK
<1>2. CASE UNCHANGED job
  BY <1>2
<1>3. CASE Restart
  BY <1>3 DEF Restart
<1>4. ASSUME NEW q \in Req, NEW name \in Name, NEW email \in Email, NEW role \in Role,
             Register(q, name, email, role)
      PROVE  Goal
  BY <1>1, <1>4 DEF Register, Arrive
<1>5. ASSUME NEW q \in Req, NEW name \in Name, Login(q, name)
      PROVE  Goal
  BY <1>1, <1>5 DEF Login, Arrive
<1>6. ASSUME NEW q \in Req, NEW op, NEW token \in tokens, NEW u, NEW role,
             Change(q, op, token, u, role)
      PROVE  Goal
  BY <1>1, <1>6 DEF Change, Arrive
<1>7. ASSUME NEW q \in Req, LookupName(q)
      PROVE  Goal
  BY <1>1, <1>7 DEF LookupName, At, Move, End, Job
<1>8. ASSUME NEW q \in Req, ReadUser(q)
      PROVE  Goal
  <2>1. PICK u \in Named(user, job[q].name) :
          /\ MayLogIn(user[u])
          /\ job' = [job EXCEPT ![q].id = u, ![q].role = user[u].role, ![q].at = "issue"]
    BY <1>8 DEF ReadUser
  <2>2. job[q] \in Job
    BY <1>1, <1>8 DEF ReadUser, At
  <2>3. r = q
    BY <1>1, <2>1
  <2>4. job'[r].id = u /\ job'[r].role = user[u].role /\ job'[r].at = "issue"
    BY <1>1, <2>1, <2>2, <2>3 DEF Job
  <2> QED
    BY <2>1, <2>4 DEF Holds, MayLogIn, Named, Users
<1>9. ASSUME NEW q \in Req,
             \/ Insert(q) \/ Issue(q) \/ UpdateRole(q) \/ Deactivate(q) \/ Fail(q)
      PROVE  Goal
  BY <1>1, <1>9 DEF Insert, Issue, UpdateRole, Deactivate, Fail, Apply, End
<1> QED
  BY <1>2, <1>3, <1>4, <1>5, <1>6, <1>7, <1>8, <1>9
  DEF Next, Step, BootstrapAdmin, BootstrapFails, Listen, Expire

\* A token is signed for the login that was about to.
LEMMA TokensSigned ==
  ASSUME IInv, Next, NEW token \in tokens' \ tokens
  PROVE  Reaches(token.id, token.role)
<1>1. PICK r \in Req : Issue(r)
  BY DEF Next, Step, BootstrapAdmin, BootstrapFails, Listen, Restart, Register, Login,
         Change, Arrive, LookupName, Insert, ReadUser, UpdateRole, Deactivate, Apply,
         Fail, Expire
<1>2. token = [id |-> job[r].id, role |-> job[r].role]
  BY <1>1 DEF Issue
<1> QED
  BY <1>1, <1>2 DEF Issue, At, Reaches

LEMMA EndedStep ==
  ASSUME IInv, [Next]_vars, NEW u \in User, NEW role \in Role,
         ~Holds(u, role), ~Reaches(u, role)
  PROVE  ~Reaches(u, role)'
<1>1. CASE UNCHANGED vars
  BY <1>1 DEF vars, Reaches
<1>2. CASE Next
  <2> DEFINE token == [id |-> u, role |-> role]
  <2>1. token \notin tokens'
    BY <1>2, TokensSigned DEF Reaches
  <2>2. ASSUME NEW r \in Req, job'[r] # Idle
        PROVE  /\ ~(job'[r].at = "issue" /\ job'[r].id = u /\ job'[r].role = role)
               /\ ~(job'[r].at = "apply" /\ job'[r].caller = token)
    <3>1. CASE job'[r] = job[r]
      BY <2>2, <3>1 DEF Reaches
    <3>2. CASE job'[r] # job[r]
      BY <1>2, <2>2, <3>2, JobMoves DEF Reaches
    <3> QED
      BY <3>1, <3>2
  <2> QED
    BY <2>1, <2>2 DEF Reaches
<1> QED
  BY <1>1, <1>2

\* Access that has ended is not revived: a user who neither holds a role, nor
\* has a token of it, a login about to get one, or a request admitted by one
\* (middleware.go:52, auth_service.go:99) gets none, whatever else happens,
\* before he is given the role again.
THEOREM AccessStaysEnded ==
  Spec => [][\A u \in User, role \in Role :
               ~Holds(u, role) /\ ~Reaches(u, role) => ~Reaches(u, role)']_vars
<1>1. IInv /\ [Next]_vars =>
        \A u \in User, role \in Role :
          ~Holds(u, role) /\ ~Reaches(u, role) => ~Reaches(u, role)'
  BY EndedStep
<1> QED
  BY <1>1, Invariance, PTL DEF Spec

\* No step loses a user, renames one, or makes one active that was not.
LEMMA UsersLast ==
  ASSUME IInv, [Next]_vars, NEW u \in Users(user)
  PROVE  /\ u \in Users(user') /\ user'[u].name = user[u].name
         /\ user'[u].active => user[u].active
<1> DEFINE Goal == /\ u \in Users(user') /\ user'[u].name = user[u].name
                   /\ user'[u].active => user[u].active
<1>1. user \in Table /\ u \in User /\ job \in [Req -> Job \cup {Idle}]
  BY DEF IInv, TypeOK, Users
<1>2. CASE user' = user
  BY <1>2
<1>3. ASSUME NEW v \in User \ Users(user), NEW name \in Name, NEW email \in Email,
             NEW role \in Role, user' = Inserted(user, v, name, email, role)
      PROVE  Goal
  <2>1. user \in Table
    BY <1>1
  <2>2. /\ Users(user') = Users(user) \cup {v}
        /\ \A w \in User : w # v => user'[w] = user[w]
        /\ user'[v] = [name |-> name, email |-> email, role |-> role, active |-> TRUE]
    BY <1>3, <2>1, InsertedTable
  <2> QED
    BY <1>1, <2>2
<1>4. CASE MakeAdmin
  BY <1>3, <1>4, AdminAssumption DEF MakeAdmin, Role
<1>5. ASSUME NEW r \in Req, Insert(r)
      PROVE  Goal
  <2>1. /\ job[r].name \in Name /\ job[r].email \in Email
        /\ job[r].role \in Role
    BY <1>1, <1>5 DEF Insert, At, Job
  <2> QED
    BY <1>3, <1>5, <2>1 DEF Insert
<1>6. ASSUME NEW r \in Req, UpdateRole(r) \/ Deactivate(r)
      PROVE  Goal
  <2>1. job[r] \in Job /\ job[r].id \in User /\ job[r].role \in Role
    <3>1. job[r] # Idle /\ job[r].at = "apply"
      BY <1>6 DEF UpdateRole, Deactivate, At
    <3>2. job[r] \in Job /\ JobOK(job[r])
      BY <1>1, <3>1 DEF IInv, Jobs
    <3> QED
      BY <3>1, <3>2 DEF JobOK, Job
  <2>2. \/ user' = WithRole(user, job[r].id, job[r].role)
        \/ user' = WithoutAccess(user, job[r].id)
    BY <1>6 DEF UpdateRole, Deactivate, Apply
  <2> QED
    BY <1>1, <2>1, <2>2, WithRoleTable, WithoutAccessTable
<1> QED
  BY <1>2, <1>4, <1>5, <1>6
  DEF Next, Step, vars, BootstrapAdmin, BootstrapFails, Listen, Restart, Expire, Register,
      Login, Change, Arrive, LookupName, ReadUser, Issue, Fail

\* Deactivation is final: a user who is inactive, and whose tokens, logins and
\* requests have run out, never acts again, whatever others do to his role and
\* however often the server restarts.
Out(u) ==
  u \in Users(user) /\ ~user[u].active /\ \A role \in Role : ~Reaches(u, role)

\* The deactivation of a user who is out is never undone, by any step.
THEOREM DeactivationIsFinal == Spec => [][\A u \in User : Out(u) => Out(u)']_vars
<1>1. ASSUME IInv, [Next]_vars, NEW u \in User, Out(u)
      PROVE  Out(u)'
  <2>1. u \in Users(user') /\ ~user'[u].active
    BY <1>1, UsersLast DEF Out
  <2>2. ASSUME NEW role \in Role PROVE ~Reaches(u, role)'
    <3>1. ~Holds(u, role) /\ ~Reaches(u, role)
      BY <1>1 DEF Out, Holds
    <3> QED
      BY <1>1, <3>1, EndedStep
  <2> QED
    BY <2>1, <2>2 DEF Out, Users
<1>2. IInv /\ [Next]_vars => \A u \in User : Out(u) => Out(u)'
  BY <1>1
<1> QED
  BY <1>2, Invariance, PTL DEF Spec

\* What remains of main.go:125 (BootstrapMakesAdmin is violated): once
\* bootstrapAdmin has succeeded, somebody has the admin's name, and no change,
\* failure or restart takes it from him.
NameTaken == Named(user, AdminName) # {}

\* A successful bootstrap means that the admin's name is taken, from then on.
THEOREM BootstrapTakesName ==
  Spec => [](server = "admin" => NameTaken) /\ [][NameTaken => NameTaken']_vars
<1>1. Init => (server = "admin" => NameTaken)
  BY DEF Init
<1>2. ASSUME IInv, [Next]_vars
      PROVE  NameTaken => NameTaken'
  BY <1>2, UsersLast DEF NameTaken, Named
<1>3. ASSUME IInv, [Next]_vars, server = "admin" => NameTaken, server' = "admin"
      PROVE  NameTaken'
  <2>1. CASE server = "admin"
    BY <1>2, <1>3, <2>1
  <2>2. CASE server # "admin"
    <3>1. BootstrapAdmin
      BY <1>3, <2>2
      DEF Next, Step, vars, BootstrapFails, Listen, Restart, Expire, Register, Login,
          Change, Arrive, LookupName, Insert, ReadUser, Issue, UpdateRole, Deactivate,
          Apply, Fail
    <3>2. CASE NameTaken
      BY <1>2, <1>3, <3>2
    <3>3. CASE MakeAdmin
      <4>1. PICK u \in User \ Users(user) :
              user' = Inserted(user, u, AdminName, AdminEmail, "admin")
        BY <3>3 DEF MakeAdmin
      <4>2. u \in Users(user') /\ user'[u].name = AdminName
        <5>1. user \in Table /\ "admin" \in Role
          BY <1>3 DEF IInv, TypeOK, Role
        <5>2. /\ Users(user') = Users(user) \cup {u}
              /\ user'[u] = [name |-> AdminName, email |-> AdminEmail,
                             role |-> "admin", active |-> TRUE]
          BY <4>1, <5>1, InsertedTable, AdminAssumption
        <5> QED
          BY <5>2
      <4> QED
        BY <4>2 DEF NameTaken, Named
    <3> QED
      BY <3>1, <3>2, <3>3 DEF BootstrapAdmin, NameTaken
  <2> QED
    BY <2>1, <2>2
<1>4. IInv /\ [Next]_vars =>
        /\ (server = "admin" => NameTaken) => (server = "admin" => NameTaken)'
        /\ NameTaken => NameTaken'
  BY <1>2, <1>3
<1> QED
  BY <1>1, <1>4, Invariance, PTL DEF Spec
=============================================================================
