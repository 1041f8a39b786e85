------------------------------- MODULE TaskBoard -------------------------------
(***************************************************************************)
(* What the task service promises to its callers.  A request for a change  *)
(* is granted at a moment when its caller may make it, takes effect at one *)
(* later instant, or at none, and never twice, and is then answered.  A    *)
(* read shows the task as it is at one instant of the request, or, from    *)
(* memory, as it was.  The answer does not say more than what happened; an *)
(* error leaves open whether the change did.  Nobody sees a cache, a       *)
(* statement or a transaction.                                             *)
(***************************************************************************)
EXTENDS Integers

CONSTANTS Task, User, Admin, Nobody, Req, Ops, MaxVer, NoRow, Idle, NoId

VARIABLES
  row,   \* each task: its owner and how often it was changed
  last,  \* each task as it is or, once it is gone, as it was last
  asg,   \* the assignees of each task
  used,  \* the ids ever given to a task
  call   \* the requests, as their callers know them

vars == <<row, last, asg, used, call>>

Row == [owner : User, ver : 0..MaxVer]
Answer == {"ok", "not_found", "forbidden", "invalid", "error"}

\* shown is what a read of the task answers with.
Call == [op : Ops, task : Task \cup {NoId}, caller : User \cup {Nobody},
         who : User \cup {Nobody},
         stage : {"asked", "granted", "taken", "shown"} \cup Answer,
         shown : Row \cup {NoRow}]

Init ==
  /\ row \in [Task -> [owner : User, ver : {0}] \cup {NoRow}]
  /\ last = row
  /\ asg \in [Task -> SUBSET User]
  /\ \A t \in Task : row[t] = NoRow => asg[t] = {}
  /\ used = {t \in Task : row[t] # NoRow}
  /\ call = [r \in Req |-> Idle]

Becomes(r, stage) == call' = [call EXCEPT ![r].stage = stage]

-----------------------------------------------------------------------------
(* The steps of request r, whose record in call is c.                      *)

\* Whoever creates a task, or is an admin, needs nobody's leave.
Ask(r, op, t, caller, who) ==
  /\ IF op = "create" THEN t = NoId ELSE t \in used
  /\ op = "get" <=> caller = Nobody
  /\ call' = [call EXCEPT ![r] =
       [op |-> op, task |-> t, caller |-> caller, who |-> who, shown |-> NoRow,
        stage |-> IF op = "create" \/ caller \in Admin
                  THEN "granted" ELSE "asked"]]
  /\ UNCHANGED <<row, last, asg, used>>

\* The owner of a task may change it, and its assignees may but not delete it.
Owns(c) == row[c.task] # NoRow /\ row[c.task].owner = c.caller
Helps(c) == c.op # "delete" /\ c.caller \in asg[c.task]

Grant(r, c) ==
  /\ c.stage = "asked" /\ c.op # "get"
  /\ Owns(c) \/ Helps(c)
  /\ Becomes(r, "granted")
  /\ UNCHANGED <<row, last, asg, used>>

\* The one change that the request makes, to task t.
Change(c, t) ==
  \/ /\ c.op = "create"
     /\ t \notin used
     /\ row' = [row EXCEPT ![t] = [owner |-> c.caller, ver |-> 0]]
     /\ used' = used \cup {t}
     /\ UNCHANGED asg
  \/ /\ c.op = "update" /\ t = c.task
     /\ row[t] # NoRow
     /\ \/ row' = row
        \/ row[t].ver < MaxVer /\ row' = [row EXCEPT ![t].ver = @ + 1]
     /\ UNCHANGED <<asg, used>>
  \/ /\ c.op = "delete" /\ t = c.task
     /\ row[t] # NoRow
     /\ row' = [row EXCEPT ![t] = NoRow]
     /\ asg' = [asg EXCEPT ![t] = {}]
     /\ UNCHANGED used
  \/ /\ c.op = "assign" /\ t = c.task  \* of a task that is gone: nothing
     /\ c.who \in User
     /\ asg' = IF row[t] = NoRow THEN asg ELSE [asg EXCEPT ![t] = @ \cup {c.who}]
     /\ UNCHANGED <<row, used>>
  \/ /\ c.op = "unassign" /\ t = c.task
     /\ c.who \in asg[t]
     /\ asg' = [asg EXCEPT ![t] = @ \ {c.who}]
     /\ UNCHANGED <<row, used>>

Remember == last' = [t \in Task |-> IF row'[t] = NoRow THEN last[t] ELSE row'[t]]

\* Its caller may never learn that it was made.
Take(r, c, t, next) ==
  /\ c.stage = "granted"
  /\ Change(c, t)
  /\ Remember
  /\ call' = [call EXCEPT ![r].task = t, ![r].stage = next]

\* A request that is to answer with the task looks at it, after its change.
Look(r, c) ==
  /\ \/ c.stage = "asked" /\ c.op = "get"
     \/ c.stage = "taken" /\ c.op \in {"create", "update"}
  /\ row[c.task] # NoRow
  /\ call' = [call EXCEPT ![r].stage = "shown", ![r].shown = row[c.task]]
  /\ UNCHANGED <<row, last, asg, used>>

\* A version the task has or had: every change of it counts one up, from 0.
Recall(r, c, v) ==
  /\ c.stage = "asked" /\ c.op = "get"
  /\ v.owner = last[c.task].owner /\ v.ver <= last[c.task].ver
  /\ call' = [call EXCEPT ![r].stage = "ok", ![r].shown = v]
  /\ UNCHANGED <<row, last, asg, used>>

Succeed(r, c) ==
  /\ \/ c.stage = "shown"
     \/ c.stage = "taken" /\ c.op \in {"delete", "assign", "unassign"}
  /\ Becomes(r, "ok")
  /\ UNCHANGED <<row, last, asg, used>>

\* What an answer other than "ok" may be given for.
Gone(c) == c.task # NoId /\ row[c.task] = NoRow
Excuses(c, answer) ==
  \/ answer = "error"
  \/ answer = "not_found"
     /\ \/ Gone(c)
        \/ c.stage = "granted" /\ c.op = "assign" /\ c.who \notin User
        \/ c.stage = "granted" /\ c.op = "unassign" /\ c.who \notin asg[c.task]
  \/ answer = "forbidden" /\ c.stage = "asked" /\ c.op # "get"
     /\ ~Owns(c) /\ ~Helps(c)
  \/ answer = "invalid" /\ c.stage = "granted" /\ c.op \in {"create", "update"}

Refuse(r, c, answer) ==
  /\ c.stage \notin Answer
  /\ Excuses(c, answer)
  /\ call' = [call EXCEPT ![r].stage = answer, ![r].shown = NoRow]
  /\ UNCHANGED <<row, last, asg, used>>

\* Requests end, and with the server all of them do.
Forget(rs) ==
  /\ call' = [r \in Req |-> IF r \in rs THEN Idle ELSE call[r]]
  /\ UNCHANGED <<row, last, asg, used>>

Begin(r) ==
  \E op \in Ops, t \in Task \cup {NoId},
     caller \in User \cup {Nobody}, who \in User \cup {Nobody} :
       Ask(r, op, t, caller, who)

Proceed(r, c) ==
  \/ Grant(r, c)
  \/ \E t \in Task, next \in {"taken", "error"} : Take(r, c, t, next)
  \/ Look(r, c)
  \/ \E v \in Row : Recall(r, c, v)
  \/ Succeed(r, c)
  \/ \E answer \in Answer : Refuse(r, c, answer)
  \/ c.stage \in Answer /\ Forget({r})

Next ==
  \/ \E r \in Req :
       LET c == call[r]
       IN  IF c = Idle THEN Begin(r) ELSE Proceed(r, c)
  \/ Forget(Req)

Spec == Init /\ [][Next]_vars
=============================================================================
