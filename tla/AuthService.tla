------------------------------ MODULE AuthService ------------------------------
(***************************************************************************)
(* Who may act as what: internal/service/auth_service.go with the handlers *)
(* and the middleware in front of it, main's bootstrapAdmin, and the two   *)
(* admin-only changes of a user.  Requests run concurrently, one statement *)
(* per action; the server may die and start again, and the tokens it has   *)
(* signed stay valid until they expire, whatever becomes of their users.   *)
(* What a request is answered is left out: one that changes nothing and is *)
(* refused at once leaves no trace here.                                   *)
(*                                                                         *)
(* An operator named Mut... is no part of the model: it is the operator    *)
(* that follows it with a plausible bug, for testing the properties.       *)
(***************************************************************************)
EXTENDS UserRows

CONSTANTS
  AdminName, AdminEmail,  \* of bootstrapAdmin
  Req,                    \* handler goroutines
  Idle,                   \* no request
  Nobody                  \* no user id yet

ASSUME AdminAssumption == AdminName \in Name /\ AdminEmail \in Email
ASSUME NobodyAssumption == Nobody \notin User

VARIABLES
  user,    \* the users table
  admins,  \* for the properties only: whom a login found to be an active admin
  tokens,  \* signed and not expired: the user and the role each was issued for
  server,  \* "boot"; "admin" or "no_admin", what bootstrapAdmin returned; "up"
  job      \* what each handler goroutine is doing

vars == <<user, admins, tokens, server, job>>

Token == [id : User, role : Role]

Place == {"lookup", "insert",  \* Register
          "read", "issue",     \* Login
          "apply"}             \* UpdateRole, Deactivate

\* caller is the token of an authenticated request; id and role, whom the request
\* is about and his role.  A field an operation does not use has a fixed value.
Job == [op : {"register", "login", "role", "deactivate"}, name : Name, email : Email,
        id : User \cup {Nobody}, role : Role, caller : Token \cup {Nobody},
        at : Place]

ASSUME NullAssumption == Idle \notin Job /\ Nobody \notin Token

TypeOK ==
  /\ user \in Table
  /\ admins \subseteq User
  /\ tokens \subseteq Token
  /\ server \in {"boot", "admin", "no_admin", "up"}
  /\ job \in [Req -> Job \cup {Idle}]

\* A new database.
Init ==
  /\ user = [u \in User |-> NoUser]
  /\ admins = {}
  /\ tokens = {}
  /\ server = "boot"
  /\ job = [r \in Req |-> Idle]

-----------------------------------------------------------------------------
(* Startup.  The server accepts nothing before, so bootstrapAdmin is alone. *)

MakeAdmin ==
  /\ ~Duplicate(user, AdminName, AdminEmail)
  /\ \E u \in User \ Users(user) :
       user' = Inserted(user, u, AdminName, AdminEmail, "admin")

\* bootstrapAdmin returns nil: there was a user of that name, or it has made one.
BootstrapAdmin ==
  /\ server = "boot"
  /\ \/ Named(user, AdminName) # {} /\ UNCHANGED user
     \/ Named(user, AdminName) = {} /\ MakeAdmin
  /\ server' = "admin"
  /\ UNCHANGED <<admins, tokens, job>>

\* It fails, with the email taken or without; the INSERT may have been executed.
BootstrapFails ==
  /\ server = "boot"
  /\ UNCHANGED user \/ MakeAdmin
  /\ server' = "no_admin"
  /\ UNCHANGED <<admins, tokens, job>>

\* An error of bootstrapAdmin is only a warning.
Listen ==
  /\ server \in {"admin", "no_admin"}
  /\ server' = "up"
  /\ UNCHANGED <<user, admins, tokens, job>>

\* The server dies with its requests, and starts again.
Restart ==
  /\ server' = "boot"
  /\ job' = [r \in Req |-> Idle]
  /\ UNCHANGED <<user, admins, tokens>>

-----------------------------------------------------------------------------
At(r, place) == server = "up" /\ job[r] # Idle /\ job[r].at = place
Move(r, place) == job' = [job EXCEPT ![r].at = place]
End(r) == job' = [job EXCEPT ![r] = Idle]

Arrive(r, op, name, email, id, role, caller, at) ==
  /\ server = "up"
  /\ job[r] = Idle
  /\ job' = [job EXCEPT ![r] = [op |-> op, name |-> name, email |-> email, id |-> id,
                                role |-> role, caller |-> caller, at |-> at]]
  /\ UNCHANGED <<user, admins, tokens, server>>

-----------------------------------------------------------------------------
(* Register.                                                               *)

\* Self-registration is for the role "user" only.
Register(r, name, email, role) ==
  /\ role = "user"
  /\ Arrive(r, "register", name, email, Nobody, role, Nobody, "lookup")

\* GetByUsername; the email is not looked up.
LookupName(r) ==
  /\ At(r, "lookup")
  /\ \/ Named(user, job[r].name) # {} /\ End(r)
     \/ Named(user, job[r].name) = {} /\ Move(r, "insert")
  /\ UNCHANGED <<user, admins, tokens, server>>

\* INSERT, under a fresh uuid, unless it breaks a UNIQUE key.
Insert(r) ==
  /\ At(r, "insert")
  /\ ~Duplicate(user, job[r].name, job[r].email)
  /\ \E u \in User \ Users(user) :
       user' = Inserted(user, u, job[r].name, job[r].email, job[r].role)
  /\ End(r)
  /\ UNCHANGED <<admins, tokens, server>>

-----------------------------------------------------------------------------
(* Login, and the tokens.                                                  *)

Login(r, name) ==
  Arrive(r, "login", name, AdminEmail, Nobody, "user", Nobody, "read")

MutMayLogIn(row) == TRUE \* is_active is not looked at
\* The password is taken to be right: a wrong one ends the request.
MayLogIn(row) == row.active

MutReadUser(r) == \* ErrNotFound is not looked at
  /\ At(r, "read")
  /\ Move(r, "issue")
  /\ UNCHANGED <<user, admins, tokens, server>>
ReadUser(r) ==
  /\ At(r, "read")
  /\ \E u \in Named(user, job[r].name) :
       /\ MayLogIn(user[u])
       /\ job' = [job EXCEPT ![r].id = u, ![r].role = user[u].role, ![r].at = "issue"]
       /\ admins' = admins \cup ({u} \cap {v \in Admins(user) : user[v].active})
  /\ UNCHANGED <<user, tokens, server>>

Issue(r) ==
  /\ At(r, "issue")
  /\ tokens' = tokens \cup {[id |-> job[r].id, role |-> job[r].role]}
  /\ End(r)
  /\ UNCHANGED <<user, admins, server>>

Expire(token) ==
  /\ token \in tokens
  /\ tokens' = tokens \ {token}
  /\ UNCHANGED <<user, admins, server, job>>

-----------------------------------------------------------------------------
(* The changes of a user that the router gives to admins only.             *)

MutAllowed(token) == TRUE \* authed instead of admin
\* RequireAuth and RequireRole("admin"): what the token says, not the table.
Allowed(token) == token.role = "admin"

Change(r, op, token, u, role) ==
  /\ token \in tokens
  /\ Allowed(token)
  /\ op = "deactivate" => role = "user"
  /\ Arrive(r, op, AdminName, AdminEmail, u, role, token, "apply")

Apply(r, table) ==
  /\ user' = table
  /\ End(r)
  /\ UNCHANGED <<admins, tokens, server>>

UpdateRole(r) ==
  /\ At(r, "apply")
  /\ job[r].op = "role"
  /\ Apply(r, WithRole(user, job[r].id, job[r].role))

Deactivate(r) ==
  /\ At(r, "apply")
  /\ job[r].op = "deactivate"
  /\ Apply(r, WithoutAccess(user, job[r].id))

\* A statement fails or would break a UNIQUE key, a login is refused.
Fail(r) ==
  /\ \E place \in Place : At(r, place)
  /\ End(r)
  /\ UNCHANGED <<user, admins, tokens, server>>

-----------------------------------------------------------------------------
Step(r) ==
  \/ LookupName(r) \/ Insert(r) \/ ReadUser(r) \/ Issue(r)
  \/ UpdateRole(r) \/ Deactivate(r) \/ Fail(r)

Next ==
  \/ BootstrapAdmin \/ BootstrapFails \/ Listen \/ Restart
  \/ \E r \in Req :
       \/ \E name \in Name, email \in Email, role \in Role : Register(r, name, email, role)
       \/ \E name \in Name : Login(r, name)
       \/ \E op \in {"role", "deactivate"}, token \in tokens, u \in User, role \in Role :
            Change(r, op, token, u, role)
       \/ Step(r)
  \/ \E token \in Token : Expire(token)

Spec == Init /\ [][Next]_vars

\* Time passes, and goroutines are scheduled.
Fairness ==
  /\ \A token \in Token : WF_vars(Expire(token))
  /\ \A r \in Req : WF_vars(Step(r))
FairSpec == Spec /\ Fairness

-----------------------------------------------------------------------------
Holds(u, role) == user[u] # NoUser /\ user[u].active /\ user[u].role = role

\* Someone may act, or is acting, as user u in this role.
Acts(u, role) ==
  \/ [id |-> u, role |-> role] \in tokens
  \/ \E r \in Req : At(r, "apply") /\ job[r].caller = [id |-> u, role |-> role]

\* One user per name and per email, although Register's look-up and INSERT are
\* apart (auth_service.go 44, 73) and the email is never looked up.
UniqueUsers ==
  \A u, v \in Users(user) :
    user[u].name = user[v].name \/ user[u].email = user[v].email => u = v

\* Admins come from admins (main.go 66, 125-150, auth_handler.go 32, router.go 42,
\* middleware.go 52, auth_service.go 99): whoever becomes one was made so by the
\* bootstrap, under its name, or by a request that came with an admin's token, of
\* somebody whom a login had found to be an active admin, demoted since or not.
AdminsMakeAdmins ==
  [][\A u \in Admins(user)' \ Admins(user) :
       \/ server = "boot" /\ u \in Named(user, AdminName)'
       \/ \E r \in Req : /\ At(r, "apply")
                         /\ job[r].id = u
                         /\ job[r].caller.role = "admin"
                         /\ job[r].caller.id \in admins]_vars

\* Revocation lands: once a user has lost a role or was deactivated for good, the
\* tokens issued before, or by a login under way, run out, the requests they
\* admitted end, and nobody acts as that user in that role again.
AccessEnds ==
  \A u \in User, role \in Role : <>[]~Holds(u, role) => <>[]~Acts(u, role)

\* "creates a default admin if none exists" (main.go:125): after bootstrapAdmin
\* succeeded there is an admin.
BootstrapMakesAdmin ==
  server = "admin" => Admins(user) # {}
=============================================================================
