------------------------------- MODULE UserBoard -------------------------------
(***************************************************************************)
(* What the user service promises to its callers.  A change of a user is   *)
(* made at one instant of its request, or not at all, never twice, and is  *)
(* not reported before it was made; "not found" is said only when there is *)
(* no such user or, of a change, nothing to change.  A read shows the user *)
(* as he is at one instant of the request, or, from memory, as he was at   *)
(* one before it.  Nobody sees caches, statements or the external API.     *)
(***************************************************************************)
EXTENDS UserRows

CONSTANTS Req, Asked, Idle

VARIABLES
  user,  \* the users
  was,   \* each user as he is, and as he was after each change before
  call   \* the requests, as their callers know them

vars == <<user, was, call>>

Read == {"get", "me"}
Answer == {"ok", "not_found", "error"}

\* shown is the user that a read answers with.
Call == [op : Read \cup {"role", "deactivate"}, id : User, role : Asked,
         stage : {"asked", "shown", "taken"} \cup Answer,
         shown : Row \cup {NoUser}]

Init ==
  /\ user \in Table
  /\ was = [u \in User |-> {user[u]} \ {NoUser}]
  /\ call = [r \in Req |-> Idle]

Becomes(r, stage) == call' = [call EXCEPT ![r].stage = stage]

-----------------------------------------------------------------------------
(* The steps of request r, whose record in call is c.                      *)

\* Who asks for himself exists.
Ask(r, op, u, role) ==
  /\ op = "me" => user[u] # NoUser
  /\ op # "role" => role = "user"
  /\ call' = [call EXCEPT ![r] =
       [op |-> op, id |-> u, role |-> role, stage |-> "asked", shown |-> NoUser]]
  /\ UNCHANGED <<user, was>>

Show(r, v, stage) == call' = [call EXCEPT ![r].stage = stage, ![r].shown = v]

Look(r, c) ==
  /\ c.op \in Read /\ c.stage = "asked"
  /\ user[c.id] # NoUser
  /\ Show(r, user[c.id], "shown")
  /\ UNCHANGED <<user, was>>

\* A user as he once was.
Recall(r, c, v, next) ==
  /\ c.op \in Read /\ c.stage = "asked"
  /\ v \in was[c.id]
  /\ Show(r, v, next)
  /\ UNCHANGED <<user, was>>

\* The users after the change that is asked for; an unknown role changes nothing.
After(c) ==
  CASE c.op = "role" /\ c.role \in Role -> WithRole(user, c.id, c.role)
    [] c.op = "deactivate" -> WithoutAccess(user, c.id)
    [] OTHER -> user

Remember == was' = [u \in User |-> was[u] \cup ({user'[u]} \ {NoUser})]

\* Its caller may never learn that it was made.
Take(r, c, next) ==
  /\ c.stage = "asked"
  /\ After(c) # user
  /\ user' = After(c)
  /\ Remember
  /\ Becomes(r, next)

\* Once it has been made, or the user been read, nothing but success is answered.
Succeed(r, c) ==
  /\ c.stage \in {"shown", "taken"}
  /\ Becomes(r, "ok")
  /\ UNCHANGED <<user, was>>

\* What an answer other than "ok" may be given for.
Excuses(c, answer) ==
  \/ answer = "error"
  \/ answer = "not_found" /\ c.op = "get" /\ user[c.id] = NoUser
  \/ answer = "not_found" /\ c.op \notin Read /\ After(c) = user

Refuse(r, c, answer) ==
  /\ c.stage = "asked"
  /\ Excuses(c, answer)
  /\ Becomes(r, answer)
  /\ UNCHANGED <<user, was>>

\* Requests end, and with the server all of them do.
Forget(rs) ==
  /\ call' = [r \in Req |-> IF r \in rs THEN Idle ELSE call[r]]
  /\ UNCHANGED <<user, was>>

Begin(r) ==
  \E op \in Read \cup {"role", "deactivate"}, u \in User, role \in Asked :
    Ask(r, op, u, role)

Proceed(r, c) ==
  \/ Look(r, c)
  \/ \E v \in Row, next \in {"shown", "ok"} : Recall(r, c, v, next)
  \/ \E next \in {"taken", "error"} : Take(r, c, next)
  \/ Succeed(r, c)
  \/ \E answer \in {"not_found", "error"} : Refuse(r, c, answer)
  \/ c.stage \in Answer /\ Forget({r})

Next ==
  \/ \E r \in Req :
       LET c == call[r]
       IN  IF c = Idle THEN Begin(r) ELSE Proceed(r, c)
  \/ Forget(Req)

Spec == Init /\ [][Next]_vars
=============================================================================
