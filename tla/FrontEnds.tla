------------------------------- MODULE FrontEnds -------------------------------
(***************************************************************************)
(* The two doors to the task service: the JSON handlers of                 *)
(* internal/handlers and the gRPC methods of internal/grpcserver.  What a  *)
(* client writes into a Create or an Update is decoded, validated, stored  *)
(* and read back into the answer, while other clients write the same task  *)
(* through either door.  Who may write is TaskService's subject: here a    *)
(* request may just be forbidden.                                          *)
(***************************************************************************)
EXTENDS TaskRows

CONSTANTS
  Client,              \* callers of either door, one request at a time
  Wires,               \* the requests they send
  Statuses, Priorities,  \* the values of the two ENUM columns
  Pending, Medium,     \* what Create puts there
  Empty,               \* the empty string
  Garbled,             \* a due date that is not RFC3339
  Idle                 \* no request

Valid(f) == CASE f = "status" -> Statuses
              [] f = "priority" -> Priorities
              [] OTHER -> Text

ASSUME TitleAssumption == "title" \in TextField
ASSUME ValueAssumption ==
  /\ {Empty, Pending, Medium} \subseteq Text
  /\ Statuses \subseteq Text \ {Empty} /\ Pending \in Statuses
  /\ Priorities \subseteq Text \ {Empty} /\ Medium \in Priorities
ASSUME GarbledAssumption == Garbled \notin Nat /\ Garbled # NoDue

VARIABLES
  row,     \* the task rows
  used,    \* the ids ever given to a task
  call,    \* each client's request
  blanked  \* for the properties only: the tasks a PATCH asked to give title ""

vars == <<row, used, call, blanked>>

\* A request on the wire.  JSON leaves a field out (Keep); in a gRPC message
\* every field is there, and empty when it was not set.
Wire(door) ==
  [text : [TextField -> Text \cup (IF door = "rest" THEN {Keep} ELSE {})],
   due : Instant \cup {NoDue, Garbled}, clear : BOOLEAN]
ASSUME WireAssumption == Wires \subseteq Wire("rest")

Code == {"none", "200", "201", "400", "401", "403", "404",
         "OK", "InvalidArgument", "Unauthenticated", "PermissionDenied",
         "NotFound", "Internal"}

\* One request.  For the properties only: before, the row it found; applied,
\* that it was stored; raced, that its row changed again before the re-read.
Call == [door : {"rest", "grpc"}, op : {"create", "update"}, task : Task \cup {NoTask},
         wire : Wire("rest"), at : {"decode", "apply", "echo", "done"}, code : Code,
         shown : Row \cup {NoTask}, before : Row \cup {NoTask},
         applied : BOOLEAN, raced : BOOLEAN]

ValidRow == {x \in Row : \A f \in TextField : x.text[f] \in Valid(f)}

TypeOK ==
  /\ row \in [Task -> ValidRow \cup {NoTask}]
  /\ used \subseteq Task /\ blanked \subseteq Task
  /\ call \in [Client -> Call \cup {Idle}]

Init ==
  /\ row = [t \in Task |-> NoTask]
  /\ used = {} /\ blanked = {}
  /\ call = [c \in Client |-> Idle]

-----------------------------------------------------------------------------
(* Decoding.                                                               *)

\* parseDue reads the date of every PATCH; UpdateTask only one it will use.
Readable(k) ==
  k.wire.due # Garbled \/ (k.door = "grpc" /\ k.op = "update" /\ k.wire.clear)

\* UpdateTaskInput: nil for what is not to change.
MutGiven(k, f) == \* in.Title = &req.Title, set or not
  IF k.door = "grpc" /\ f # "title" /\ k.wire.text[f] = Empty
  THEN Keep ELSE k.wire.text[f]
Given(k, f) ==
  IF k.door = "grpc" /\ k.wire.text[f] = Empty THEN Keep ELSE k.wire.text[f]
MutEditOf(k) == \* clear_due_date is not looked at
  [text |-> [f \in TextField |-> Given(k, f)], clear |-> FALSE,
   due |-> IF k.wire.clear /\ k.door = "grpc" THEN NoDue ELSE k.wire.due]
EditOf(k) ==
  [text |-> [f \in TextField |-> Given(k, f)],
   due |-> IF k.wire.clear /\ k.door = "grpc" THEN NoDue ELSE k.wire.due,
   clear |-> k.wire.clear]

\* CreateTaskInput: "" for what is not given; then TaskService.Create's defaults.
Sent(k, f) == IF k.wire.text[f] = Keep THEN Empty ELSE k.wire.text[f]
NewRow(k) ==
  [text |-> [f \in TextField |->
               CASE f = "status" -> Pending
                 [] f = "priority" /\ Sent(k, f) = Empty -> Medium
                 [] OTHER -> Sent(k, f)],
   due |-> Stored(k.wire.due)]

\* What TaskService validates.
MutAcceptable(k) == k.op = "create" => Sent(k, "title") # Empty
Acceptable(k) ==
  IF k.op = "create"
  THEN Sent(k, "title") # Empty /\ \A f \in TextField : NewRow(k).text[f] \in Valid(f)
  ELSE \A f \in TextField : Given(k, f) \in Valid(f) \cup {Keep}

\* mapTaskErr, mapErr, and the handlers' own replies: how a reason is put.
MutRefusal(k, why) == \* mapTaskErr as mapErr, with 403 for the default
  CASE why = "unauthenticated" -> "401"
    [] k.op = "update" /\ why = "not_found" -> "404"
    [] k.op = "update" -> "403"
    [] OTHER -> "400"
Refusal(k, why) ==
  IF k.door = "rest"
  THEN CASE why = "unauthenticated" -> "401"
         [] k.op = "update" /\ why = "not_found" -> "404"
         [] k.op = "update" /\ why = "forbidden" -> "403"
         [] OTHER -> "400"
  ELSE CASE why = "unauthenticated" -> "Unauthenticated"
         [] why = "unreadable" \/ k.op = "create" -> "InvalidArgument"
         [] why = "not_found" -> "NotFound"
         [] why = "forbidden" -> "PermissionDenied"
         [] OTHER -> "Internal"

-----------------------------------------------------------------------------
(* One request.                                                            *)

At(c, place) == call[c] # Idle /\ call[c].at = place

Send(c, door, op, t, w) ==
  /\ call[c] = Idle
  /\ IF op = "create" THEN t = NoTask ELSE t \in used
  /\ w \in Wire(door)
  /\ call' = [call EXCEPT ![c] =
       [door |-> door, op |-> op, task |-> t, wire |-> w, at |-> "decode",
        code |-> "none", shown |-> NoTask, before |-> NoTask,
        applied |-> FALSE, raced |-> FALSE]]
  /\ blanked' = IF door = "rest" /\ op = "update" /\ w.text["title"] = Empty
                THEN blanked \cup {t} ELSE blanked
  /\ UNCHANGED <<row, used>>

\* Answered with an error.
Refuse(c, why) ==
  /\ call' = [call EXCEPT ![c].at = "done", ![c].code = Refusal(call[c], why)]
  /\ UNCHANGED <<row, used, blanked>>

\* The token is looked at before the message.
Reject(c) ==
  /\ At(c, "decode")
  /\ \/ Refuse(c, "unauthenticated")
     \/ ~Readable(call[c]) /\ Refuse(c, "unreadable")

Decode(c) ==
  /\ At(c, "decode")
  /\ Readable(call[c])
  /\ call' = [call EXCEPT ![c].at = "apply"]
  /\ UNCHANGED <<row, used, blanked>>

\* TaskService returns an error before anything is stored.
Deny(c) ==
  /\ At(c, "apply")
  /\ LET k == call[c]
     IN  \/ k.op = "update" /\ Refuse(c, "forbidden")
         \/ k.op = "update" /\ row[k.task] = NoTask /\ Refuse(c, "not_found")
         \/ ~Acceptable(k) /\ Refuse(c, "invalid")
         \/ Refuse(c, "failed")

\* Task t is written; its answer may be lost, which is one more failure.
Stores(c, t, after) ==
  /\ row' = [row EXCEPT ![t] = after]
  /\ \E acked \in BOOLEAN :
       LET k == [call[c] EXCEPT !.task = t, !.before = row[t], !.applied = TRUE]
       IN  call' = [d \in Client |->
             IF d = c
             THEN IF acked THEN [k EXCEPT !.at = "echo"]
                  ELSE [k EXCEPT !.at = "done", !.code = Refusal(k, "failed")]
             ELSE IF At(d, "echo") /\ call[d].task = t
                  THEN [call[d] EXCEPT !.raced = TRUE] ELSE call[d]]
  /\ UNCHANGED blanked

Create(c, t) ==
  /\ At(c, "apply") /\ call[c].op = "create"
  /\ Acceptable(call[c])
  /\ t \notin used /\ used' = used \cup {t}
  /\ Stores(c, t, NewRow(call[c]))

Update(c) ==
  /\ At(c, "apply") /\ call[c].op = "update"
  /\ Acceptable(call[c])
  /\ LET t == call[c].task
         u == EditOf(call[c])
     IN  /\ row[t] # NoTask
         /\ Stores(c, t, WriteSets(row[t], u, Changes(row[t], u)))
  /\ UNCHANGED used

\* The answer is the row as it is read again.
Echo(c) ==
  /\ At(c, "echo")
  /\ LET k == call[c]
         now == row[k.task]
     IN  \/ now = NoTask /\ Refuse(c, "not_found")
         \/ Refuse(c, "failed")
         \/ /\ now # NoTask
            /\ call' = [call EXCEPT ![c] = [k EXCEPT !.at = "done", !.shown = now,
                           !.code = IF k.door = "grpc" THEN "OK"
                                    ELSE IF k.op = "create" THEN "201" ELSE "200"]]
            /\ UNCHANGED <<row, used, blanked>>

Return(c) ==
  /\ At(c, "done")
  /\ call' = [call EXCEPT ![c] = Idle]
  /\ UNCHANGED <<row, used, blanked>>

\* Somebody deletes the task.
Delete(t) ==
  /\ row[t] # NoTask
  /\ row' = [row EXCEPT ![t] = NoTask]
  /\ UNCHANGED <<used, call, blanked>>

Next ==
  \/ \E c \in Client :
       \/ \E door \in {"rest", "grpc"}, op \in {"create", "update"},
             t \in Task \cup {NoTask}, w \in Wires : Send(c, door, op, t, w)
       \/ Reject(c) \/ Decode(c) \/ Deny(c)
       \/ \E t \in Task : Create(c, t)
       \/ Update(c) \/ Echo(c) \/ Return(c)
  \/ \E t \in Task : Delete(t)

Spec == Init /\ [][Next]_vars

-----------------------------------------------------------------------------
Success == {"200", "201", "OK"}

\* What a field of the answer should be: what was sent, else what was there.
Expected(k, f) ==
  LET unset == {Keep} \cup (IF k.door = "grpc" \/ k.op = "create" THEN {Empty} ELSE {})
  IN  IF k.op = "create" /\ f = "status" THEN Pending
      ELSE IF k.wire.text[f] \notin unset THEN k.wire.text[f]
      ELSE IF k.before # NoTask THEN k.before.text[f]
      ELSE IF f = "priority" THEN Medium ELSE Empty

\* A successful answer shows every field as this client sent it and all others
\* as they were, through either door, unless somebody changed the task again
\* before it was read for the answer: nothing set is dropped, nothing left out
\* is touched, and a due date comes back to the second, or not at all when it
\* was to be cleared.
AnswerShowsRequest ==
  \A c \in Client :
    LET k == call[c]
    IN  At(c, "done") /\ k.code \in Success /\ ~k.raced =>
          /\ \A f \in TextField : k.shown.text[f] = Expected(k, f)
          /\ IF k.op = "update" /\ k.wire.clear THEN k.shown.due = NoDue
             ELSE IF k.wire.due # NoDue
             THEN k.shown.due # NoDue /\ k.wire.due \in {2 * k.shown.due - 1, 2 * k.shown.due}
             ELSE k.shown.due = IF k.before = NoTask THEN NoDue ELSE k.before.due

\* Only a PATCH with "title": "" empties a title (task_handler.go:100, which
\* Create refuses); no message through the other door, and no update of other
\* fields, ever does.
BlankTitlesAsked ==
  \A t \in Task :
    row[t] # NoTask /\ row[t].text["title"] = Empty => t \in blanked

\* What a client may conclude from the status.  Success: stored.  Forbidden or
\* not authenticated: not stored.  Not found: not stored, or deleted since.
\* InvalidArgument of an UpdateTask: not stored.  400, Internal, and
\* InvalidArgument of a CreateTask leave it open: they also stand for an answer
\* of the database that was lost after the commit (task_handler.go:56, 188).
CodesTellTheTruth ==
  \A c \in Client :
    LET k == call[c]
    IN  At(c, "done") =>
          /\ k.code \in Success => k.applied
          /\ k.code \in {"401", "403", "Unauthenticated", "PermissionDenied"} => ~k.applied
          /\ k.code \in {"404", "NotFound"} => ~k.applied \/ row[k.task] = NoTask
          /\ k.code = "InvalidArgument" /\ k.op = "update" => ~k.applied
=============================================================================
