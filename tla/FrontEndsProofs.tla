---------------------------- MODULE FrontEndsProofs ----------------------------
(***************************************************************************)
(* What the two doors store, answer and report, for any number of tasks    *)
(* and clients and for every request they can send.                        *)
(***************************************************************************)
EXTENDS FrontEnds, TLAPS

USE FieldAssumption, TitleAssumption, ValueAssumption, KeepAssumption,
    InstantAssumption, NoDueAssumption, GarbledAssumption, WireAssumption

-----------------------------------------------------------------------------
(* The inductive invariant.  What holds of one request is stated of its    *)
(* record k and of the tables, so that a step is examined request by       *)
(* request.                                                                *)

\* The row that a stored request leaves.
Written(k) ==
  IF k.op = "create" THEN NewRow(k)
  ELSE WriteSets(k.before, EditOf(k), Changes(k.before, EditOf(k)))

\* A request is stored once it was read and validated, and not earlier than
\* the step that writes; what it found is a row for an update only.
StoredOnce(k) ==
  /\ k.at \in {"decode", "apply"} => ~k.applied
  /\ k.at = "echo" => k.applied
  /\ k.at = "apply" \/ k.applied => Readable(k)
  /\ k.applied => Acceptable(k) /\ (k.before = NoTask <=> k.op = "create")

\* Its task exists or did, and a title it empties through JSON is in blanked.
Addressed(k, ids, bs) ==
  /\ k.op = "update" \/ k.applied => k.task \in ids
  /\ k.door = "rest" /\ k.op = "update" /\ k.wire.text["title"] = Empty =>
       k.task \in bs

\* Nobody wrote the row since, or the request knows it.
Unraced(k, rs) ==
  k.at = "echo" /\ ~k.raced => rs[k.task] \in {NoTask, Written(k)}

\* A successful answer shows what was written.
Shows(k) ==
  k.at = "done" /\ k.code \in Success =>
    k.applied /\ (~k.raced => k.shown = Written(k))

\* An unsuccessful one says no more than is known.
Tells(k, rs) ==
  k.at = "done" =>
    /\ k.code \in {"401", "403", "Unauthenticated", "PermissionDenied"} => ~k.applied
    /\ k.code \in {"404", "NotFound"} => ~k.applied \/ rs[k.task] = NoTask
    /\ k.code = "InvalidArgument" /\ k.op = "update" => ~k.applied

RequestOK(k, rs, ids, bs) ==
  /\ StoredOnce(k) /\ Addressed(k, ids, bs)
  /\ Unraced(k, rs) /\ Shows(k) /\ Tells(k, rs)

IInv ==
  /\ TypeOK
  /\ \A t \in Task \ used : row[t] = NoTask
  /\ BlankTitlesAsked
  /\ \A c \in Client : call[c] # Idle => RequestOK(call[c], row, used, blanked)

-----------------------------------------------------------------------------
(* What the operators return.                                              *)

\* DATETIME's rounding moves a due date by less than one second.
LEMMA Rounding ==
  ASSUME NEW d \in Nat
  PROVE  /\ Stored(d) \in Nat /\ Stored(d) # NoDue
         /\ d \in {2 * Stored(d) - 1, 2 * Stored(d)}
<1>1. d # NoDue
  OBVIOUS
<1>2. Stored(d) = (d + 1) \div 2
  BY <1>1 DEF Stored
<1>3. /\ (d + 1) \div 2 \in Nat
      /\ d = 2 * ((d + 1) \div 2) - 1 \/ d = 2 * ((d + 1) \div 2)
  OBVIOUS
<1> QED
  BY <1>2, <1>3

\* What a request asks for depends on what was sent, not on how far it is.
SameRequest(k, l) == k.door = l.door /\ k.op = l.op /\ k.wire = l.wire

LEMMA SameMeaning ==
  ASSUME NEW k, NEW l, SameRequest(k, l)
  PROVE  /\ Readable(k) <=> Readable(l)
         /\ Acceptable(k) <=> Acceptable(l)
         /\ NewRow(k) = NewRow(l) /\ EditOf(k) = EditOf(l)
         /\ k.before = l.before => Written(k) = Written(l)
<1>1. \A f : Sent(k, f) = Sent(l, f) /\ Given(k, f) = Given(l, f)
  BY DEF SameRequest, Sent, Given
<1>2. NewRow(k) = NewRow(l)
  BY <1>1 DEF SameRequest, NewRow
<1>3. EditOf(k) = EditOf(l)
  BY <1>1 DEF SameRequest, EditOf
<1>4. Readable(k) <=> Readable(l)
  BY DEF SameRequest, Readable
<1>5. Acceptable(k) <=> Acceptable(l)
  BY <1>1, <1>2 DEF SameRequest, Acceptable
<1> QED
  BY <1>2, <1>3, <1>4, <1>5 DEF Written, SameRequest

\* A request that was read carries no garbled date into the service.
LEMMA EditTyped ==
  ASSUME NEW k \in Call, k.op = "update", Readable(k)
  PROVE  EditOf(k) \in Edit
<1>1. k.wire.text \in [TextField -> Text \cup {Keep}] /\ k.wire.clear \in BOOLEAN
  BY DEF Call, Wire
<1>2. \A f \in TextField : Given(k, f) \in Text \cup {Keep}
  BY <1>1 DEF Given
<1>3. (IF k.wire.clear /\ k.door = "grpc" THEN NoDue ELSE k.wire.due)
        \in Instant \cup {NoDue}
  BY DEF Readable, Call, Wire
<1> QED
  BY <1>1, <1>2, <1>3 DEF EditOf, Edit

\* Create's row has a value in every column that the column admits.
LEMMA NewRowValid ==
  ASSUME NEW k \in Call, k.op = "create", Readable(k), Acceptable(k)
  PROVE  NewRow(k) \in ValidRow
<1>1. k.wire.text \in [TextField -> Text \cup {Keep}]
  BY DEF Call, Wire
<1>2. \A f \in TextField : Sent(k, f) \in Text
  BY <1>1 DEF Sent
<1>3. NewRow(k).text \in [TextField -> Text]
  BY <1>2 DEF NewRow
<1>4. k.wire.due \in Nat \cup {NoDue}
  BY DEF Readable, Call, Wire
<1>5. Stored(k.wire.due) \in Nat \cup {NoDue}
  BY <1>4, Rounding DEF Stored
<1>6. NewRow(k) \in Row
  BY <1>3, <1>5 DEF NewRow, Row
<1> QED
  BY <1>6 DEF ValidRow, Acceptable

\* An UPDATE writes the fields that are given, and no other.
LEMMA WrittenText ==
  ASSUME NEW r \in Row, NEW u \in Edit, NEW f \in TextField
  PROVE  WriteSets(r, u, Changes(r, u)).text[f] =
           IF u.text[f] = Keep THEN r.text[f] ELSE u.text[f]
<1>1. f # "due_date"
  OBVIOUS
<1>2. f \in Changes(r, u) <=> u.text[f] # Keep /\ u.text[f] # r.text[f]
  BY <1>1 DEF Changes, TextChanges, DueChanges
<1>3. WriteSets(r, u, Changes(r, u)).text[f] =
        IF f \in Changes(r, u) THEN u.text[f] ELSE r.text[f]
  BY DEF WriteSets
<1> QED
  BY <1>2, <1>3

LEMMA WrittenDue ==
  ASSUME NEW r \in Row, NEW u \in Edit
  PROVE  WriteSets(r, u, Changes(r, u)).due =
           IF u.clear THEN NoDue ELSE IF u.due = NoDue THEN r.due ELSE Stored(u.due)
<1>1. "due_date" \in Changes(r, u) <=> u.clear \/ u.due # NoDue
  BY DEF Changes, TextChanges, DueChanges
<1> QED
  BY <1>1 DEF WriteSets

\* And leaves a row with valid values.
LEMMA WrittenValid ==
  ASSUME NEW r \in ValidRow, NEW k \in Call, k.op = "update",
         Readable(k), Acceptable(k)
  PROVE  WriteSets(r, EditOf(k), Changes(r, EditOf(k))) \in ValidRow
<1> DEFINE u == EditOf(k)
           w == WriteSets(r, u, Changes(r, u))
<1>1. u \in Edit
  BY EditTyped
<1>2. r \in Row /\ \A f \in TextField : r.text[f] \in Valid(f)
  BY DEF ValidRow
<1>3. \A f \in TextField : u.text[f] = Given(k, f)
  BY DEF EditOf
<1>4. \A f \in TextField : u.text[f] \in Valid(f) \cup {Keep}
  BY <1>3 DEF Acceptable
<1> HIDE DEF u
<1>5. \A f \in TextField : w.text[f] = IF u.text[f] = Keep THEN r.text[f] ELSE u.text[f]
  BY <1>1, <1>2, WrittenText
<1>6. \A f \in TextField : w.text[f] \in Valid(f)
  BY <1>2, <1>4, <1>5
<1>7. \A f \in TextField : u.text[f] \in Text \cup {Keep} /\ r.text[f] \in Text
  BY <1>1, <1>2 DEF Edit, Row
<1>8. w.text \in [TextField -> Text]
  BY <1>5, <1>7 DEF WriteSets
<1>9. w.due \in Nat \cup {NoDue}
  <2>1. u.due \in Nat \cup {NoDue} /\ r.due \in Nat \cup {NoDue}
    BY <1>1, <1>2 DEF Edit, Row
  <2> QED
    BY <1>1, <1>2, <2>1, WrittenDue, Rounding
<1>10. w = [text |-> w.text, due |-> w.due]
  BY DEF WriteSets
<1>11. w \in Row
  BY <1>8, <1>9, <1>10 DEF Row
<1> QED
  BY <1>6, <1>11 DEF ValidRow, u

\* How a refusal is put: never as a success, and what it rules out.
LEMMA Refusals ==
  ASSUME NEW k \in Call,
         NEW why \in {"unauthenticated", "unreadable", "forbidden", "not_found",
                      "invalid", "failed"}
  PROVE  /\ Refusal(k, why) \in Code \ Success
         /\ Refusal(k, why) \in {"401", "403", "Unauthenticated", "PermissionDenied"}
              => why \in {"unauthenticated", "forbidden"}
         /\ Refusal(k, why) \in {"404", "NotFound"} => why = "not_found"
         /\ Refusal(k, why) = "InvalidArgument" /\ k.op = "update" => why = "unreadable"
  BY DEF Refusal, Code, Success

-----------------------------------------------------------------------------
(* What a stored request leaves is what was asked for.                     *)

\* A due date is stored to the second.
DueShown(k, shown) ==
  IF k.op = "update" /\ k.wire.clear THEN shown.due = NoDue
  ELSE IF k.wire.due # NoDue
  THEN shown.due # NoDue /\ k.wire.due \in {2 * shown.due - 1, 2 * shown.due}
  ELSE shown.due = IF k.before = NoTask THEN NoDue ELSE k.before.due

LEMMA CreatedAsAsked ==
  ASSUME NEW k \in Call, k.op = "create", k.before = NoTask, Readable(k)
  PROVE  /\ \A f \in TextField : NewRow(k).text[f] = Expected(k, f)
         /\ DueShown(k, NewRow(k))
<1>1. ASSUME NEW f \in TextField PROVE NewRow(k).text[f] = Expected(k, f)
  BY DEF NewRow, Expected, Sent
<1>2. DueShown(k, NewRow(k))
  <2>1. k.wire.due \in Nat \/ k.wire.due = NoDue
    BY DEF Readable, Call, Wire
  <2>2. NewRow(k).due = Stored(k.wire.due)
    BY DEF NewRow
  <2>3. CASE k.wire.due = NoDue
    BY <2>2, <2>3 DEF DueShown, Stored
  <2>4. CASE k.wire.due \in Nat
    BY <2>2, <2>4, Rounding DEF DueShown
  <2> QED
    BY <2>1, <2>3, <2>4
<1> QED
  BY <1>1, <1>2

LEMMA UpdatedAsAsked ==
  ASSUME NEW k \in Call, k.op = "update", k.before \in Row, Readable(k)
  PROVE  /\ \A f \in TextField : Written(k).text[f] = Expected(k, f)
         /\ DueShown(k, Written(k))
<1> DEFINE u == EditOf(k)
<1>1. u \in Edit
  BY EditTyped
<1>2. k.before # NoTask
  BY NoTaskAssumption
<1>3. ASSUME NEW f \in TextField PROVE Written(k).text[f] = Expected(k, f)
  <2>1. u.text[f] = Given(k, f)
    BY DEF EditOf
  <2>2. Written(k).text[f] =
          IF Given(k, f) = Keep THEN k.before.text[f] ELSE Given(k, f)
    BY <1>1, <2>1, WrittenText DEF Written
  <2>3. Expected(k, f) =
          IF Given(k, f) = Keep THEN k.before.text[f] ELSE Given(k, f)
    BY <1>2 DEF Expected, Given, Call
  <2> QED
    BY <2>2, <2>3
<1>4. DueShown(k, Written(k))
  <2>1. Written(k).due = IF u.clear THEN NoDue
                         ELSE IF u.due = NoDue THEN k.before.due ELSE Stored(u.due)
    BY <1>1, WrittenDue DEF Written
  <2>2. CASE k.wire.clear
    BY <2>1, <2>2 DEF EditOf, DueShown
  <2>3. CASE ~k.wire.clear
    <3>1. u.due = k.wire.due /\ ~u.clear
      BY <2>3 DEF EditOf
    <3>2. u.due \in Nat \/ u.due = NoDue
      BY <1>1 DEF Edit
    <3>3. CASE u.due = NoDue
      BY <1>2, <2>1, <2>3, <3>1, <3>3 DEF DueShown
    <3>4. CASE u.due \in Nat
      BY <2>1, <2>3, <3>1, <3>4, Rounding DEF DueShown
    <3> QED
      BY <3>2, <3>3, <3>4
  <2> QED
    BY <2>2, <2>3
<1> QED
  BY <1>3, <1>4

\* Create refuses an empty title; an update writes one only when it is asked
\* to through JSON, or leaves the one that was there.
LEMMA CreatedTitle ==
  ASSUME NEW k \in Call, k.op = "create", Acceptable(k)
  PROVE  NewRow(k).text["title"] # Empty
  BY DEF NewRow, Acceptable

LEMMA UpdatedTitle ==
  ASSUME NEW k \in Call, k.op = "update", Readable(k), NEW r \in Row,
         WriteSets(r, EditOf(k), Changes(r, EditOf(k))).text["title"] = Empty
  PROVE  \/ r.text["title"] = Empty
         \/ k.door = "rest" /\ k.wire.text["title"] = Empty
<1>1. EditOf(k) \in Edit
  BY EditTyped
<1>2. EditOf(k).text["title"] = Given(k, "title")
  BY DEF EditOf
<1>3. Given(k, "title") = Keep \/ Given(k, "title") = k.wire.text["title"]
  BY DEF Given
<1>4. k.door = "grpc" => Given(k, "title") # Empty
  BY DEF Given
<1> QED
  BY <1>1, <1>2, <1>3, <1>4, WrittenText DEF Call

-----------------------------------------------------------------------------
(* The steps.                                                              *)

\* A request that does not move stays right when ids and blanked grow and its
\* row stays as it is, unless it is told of the change.
LEMMA Undisturbed ==
  ASSUME NEW k, NEW rs, NEW ids, NEW bs, NEW rs2, NEW ids2, NEW bs2,
         RequestOK(k, rs, ids, bs), ids \subseteq ids2, bs \subseteq bs2,
         k.at = "echo" /\ ~k.raced => rs2[k.task] \in {rs[k.task], NoTask},
         k.applied /\ rs[k.task] = NoTask => rs2[k.task] = NoTask
  PROVE  RequestOK(k, rs2, ids2, bs2)
  BY DEF RequestOK, StoredOnce, Addressed, Unraced, Shows, Tells

LEMMA InitOK == Init => IInv
  BY DEF Init, IInv, TypeOK, BlankTitlesAsked

\* A step of one request that writes nothing.
LEMMA OneRequest ==
  ASSUME IInv, NEW c \in Client, NEW k \in Call \cup {Idle},
         UNCHANGED <<row, used>>, blanked' \subseteq Task, blanked \subseteq blanked',
         call' = [call EXCEPT ![c] = k],
         k # Idle => RequestOK(k, row, used, blanked')
  PROVE  IInv'
<1>1. TypeOK'
  BY DEF IInv, TypeOK
<1>2. BlankTitlesAsked'
  BY DEF IInv, BlankTitlesAsked
<1>3. ASSUME NEW d \in Client, call'[d] # Idle
      PROVE  RequestOK(call'[d], row, used, blanked')
  <2>1. CASE d = c
    BY <1>3, <2>1 DEF IInv, TypeOK
  <2>2. CASE d # c
    <3>1. call'[d] = call[d] /\ RequestOK(call[d], row, used, blanked)
      BY <1>3, <2>2 DEF IInv, TypeOK
    <3> QED
      BY <3>1, Undisturbed
  <2> QED
    BY <2>1, <2>2
<1> QED
  BY <1>1, <1>2, <1>3 DEF IInv

LEMMA RequestAt ==
  ASSUME IInv, NEW c \in Client, NEW place, At(c, place)
  PROVE  /\ call[c] \in Call /\ call[c].at = place
         /\ RequestOK(call[c], row, used, blanked)
  BY DEF IInv, TypeOK, At

LEMMA SendOK ==
  ASSUME IInv, NEW c \in Client, NEW door \in {"rest", "grpc"},
         NEW op \in {"create", "update"}, NEW t \in Task \cup {NoTask},
         NEW w \in Wires, Send(c, door, op, t, w)
  PROVE  IInv'
<1> DEFINE k == [door |-> door, op |-> op, task |-> t, wire |-> w, at |-> "decode",
                 code |-> "none", shown |-> NoTask, before |-> NoTask,
                 applied |-> FALSE, raced |-> FALSE]
<1>1. k \in Call
  BY DEF Call, Code
<1>2. op = "update" => t \in used
  BY DEF Send
<1>3. /\ blanked \subseteq blanked'
      /\ door = "rest" /\ op = "update" /\ w.text["title"] = Empty => t \in blanked'
  BY DEF Send
<1>4. blanked' \subseteq Task
  BY <1>2 DEF Send, IInv, TypeOK
<1>5. RequestOK(k, row, used, blanked')
  BY <1>2, <1>3 DEF RequestOK, StoredOnce, Addressed, Unraced, Shows, Tells
<1>6. UNCHANGED <<row, used>> /\ call' = [call EXCEPT ![c] = k]
  BY DEF Send
<1> HIDE DEF k
<1> QED
  BY <1>1, <1>3, <1>4, <1>5, <1>6, OneRequest

\* A refusal is right when its reason is.
LEMMA RefuseOK ==
  ASSUME IInv, NEW c \in Client, call[c] # Idle,
         NEW why \in {"unauthenticated", "unreadable", "forbidden", "not_found",
                      "invalid", "failed"},
         why \in {"unauthenticated", "unreadable", "forbidden"} => ~call[c].applied,
         why = "not_found" => ~call[c].applied \/ row[call[c].task] = NoTask,
         Refuse(c, why)
  PROVE  IInv'
<1> DEFINE k == call[c]
           l == [k EXCEPT !.at = "done", !.code = Refusal(k, why)]
<1>1. k \in Call /\ RequestOK(k, row, used, blanked)
  BY DEF IInv, TypeOK
<1>2. /\ Refusal(k, why) \in Code \ Success
      /\ Refusal(k, why) \in {"401", "403", "Unauthenticated", "PermissionDenied"}
           => why \in {"unauthenticated", "forbidden"}
      /\ Refusal(k, why) \in {"404", "NotFound"} => why = "not_found"
      /\ Refusal(k, why) = "InvalidArgument" /\ k.op = "update" => why = "unreadable"
  BY <1>1, Refusals
<1>3. call' = [call EXCEPT ![c] = l] /\ UNCHANGED <<row, used, blanked>>
  BY DEF Refuse
<1> HIDE DEF k
<1>4. l \in Call
  BY <1>1, <1>2 DEF Call
<1>5. /\ l.at = "done" /\ l.code = Refusal(k, why) /\ SameRequest(l, k)
      /\ l.task = k.task /\ l.applied = k.applied /\ l.before = k.before
  BY <1>1 DEF Call, SameRequest
<1>6. Readable(l) <=> Readable(k)
  BY <1>5, SameMeaning
<1>7. Acceptable(l) <=> Acceptable(k)
  BY <1>5, SameMeaning
<1> HIDE DEF l
<1>8. StoredOnce(l) /\ Addressed(l, used, blanked)
  BY <1>1, <1>5, <1>6, <1>7 DEF RequestOK, StoredOnce, Addressed, SameRequest
<1>9. Unraced(l, row) /\ Shows(l)
  BY <1>2, <1>5 DEF Unraced, Shows
<1>10. Tells(l, row)
  BY <1>2, <1>5 DEF Tells, SameRequest, k
<1>11. RequestOK(l, row, used, blanked)
  BY <1>8, <1>9, <1>10 DEF RequestOK
<1>12. blanked' \subseteq Task /\ blanked' = blanked
  BY <1>3 DEF IInv, TypeOK
<1> QED
  BY <1>3, <1>4, <1>11, <1>12, OneRequest

LEMMA RejectOK ==
  ASSUME IInv, NEW c \in Client, Reject(c)
  PROVE  IInv'
<1>1. At(c, "decode")
  BY DEF Reject
<1>2. call[c] # Idle /\ ~call[c].applied
  BY <1>1, RequestAt DEF At, RequestOK, StoredOnce
<1>3. Refuse(c, "unauthenticated") \/ Refuse(c, "unreadable")
  BY DEF Reject
<1> QED
  BY <1>2, <1>3, RefuseOK

LEMMA DecodeOK ==
  ASSUME IInv, NEW c \in Client, Decode(c)
  PROVE  IInv'
<1> DEFINE k == call[c]
           l == [k EXCEPT !.at = "apply"]
<1>1. At(c, "decode") /\ Readable(k)
  BY DEF Decode
<1>2. k \in Call /\ k.at = "decode" /\ RequestOK(k, row, used, blanked)
  BY <1>1, RequestAt
<1>3. call' = [call EXCEPT ![c] = l] /\ UNCHANGED <<row, used, blanked>>
  BY DEF Decode
<1> HIDE DEF k
<1>4. l \in Call
  BY <1>2 DEF Call
<1>5. /\ l.at = "apply" /\ SameRequest(l, k) /\ l.task = k.task
      /\ l.applied = k.applied
  BY <1>2 DEF Call, SameRequest
<1>6. Readable(l)
  BY <1>1, <1>5, SameMeaning
<1> HIDE DEF l
<1>7. RequestOK(l, row, used, blanked)
  BY <1>2, <1>5, <1>6
  DEF RequestOK, StoredOnce, Addressed, Unraced, Shows, Tells, SameRequest
<1>8. blanked' \subseteq Task /\ blanked' = blanked
  BY <1>3 DEF IInv, TypeOK
<1> QED
  BY <1>3, <1>4, <1>7, <1>8, OneRequest

LEMMA DenyOK ==
  ASSUME IInv, NEW c \in Client, Deny(c)
  PROVE  IInv'
<1>1. At(c, "apply")
  BY DEF Deny
<1>2. call[c] # Idle /\ ~call[c].applied
  BY <1>1, RequestAt DEF At, RequestOK, StoredOnce
<1>3. \/ Refuse(c, "forbidden") \/ Refuse(c, "not_found")
      \/ Refuse(c, "invalid") \/ Refuse(c, "failed")
  BY DEF Deny
<1> QED
  BY <1>2, <1>3, RefuseOK

\* Writing task t: the request that writes knows what it found, and those that
\* are to read the row again know that it changed.
LEMMA StoresOK ==
  ASSUME IInv, NEW c \in Client, NEW t \in Task, NEW after \in ValidRow,
         At(c, "apply"), Acceptable(call[c]), Stores(c, t, after),
         row[t] = NoTask <=> call[c].op = "create",
         row[t] = NoTask => t \notin used,
         call[c].op = "update" => t = call[c].task,
         used' = used \cup {t},
         after = IF call[c].op = "create" THEN NewRow(call[c])
                 ELSE WriteSets(row[t], EditOf(call[c]), Changes(row[t], EditOf(call[c]))),
         after.text["title"] = Empty => t \in blanked
  PROVE  IInv'
<1> DEFINE k == [call[c] EXCEPT !.task = t, !.before = row[t], !.applied = TRUE]
           echo == [k EXCEPT !.at = "echo"]
           lost == [k EXCEPT !.at = "done", !.code = Refusal(k, "failed")]
           told(d) == IF At(d, "echo") /\ call[d].task = t
                      THEN [call[d] EXCEPT !.raced = TRUE] ELSE call[d]
<1>1. /\ call[c] \in Call /\ call[c].at = "apply"
      /\ RequestOK(call[c], row, used, blanked)
  BY RequestAt
<1>2. PICK mine \in {echo, lost} :
        call' = [d \in Client |-> IF d = c THEN mine ELSE told(d)]
  BY DEF Stores
<1>3. row' = [row EXCEPT ![t] = after] /\ blanked' = blanked
  BY DEF Stores
<1>4. k \in Call
  BY <1>1 DEF IInv, TypeOK, Call, ValidRow
<1>5. /\ SameRequest(k, call[c]) /\ k.task = t /\ k.before = row[t] /\ k.applied
  BY <1>1 DEF Call, SameRequest
<1> HIDE DEF k
<1>6. Refusal(k, "failed") \in Code \ Success
  BY <1>4, Refusals
<1>7. /\ Refusal(k, "failed") \notin {"401", "403", "Unauthenticated", "PermissionDenied"}
      /\ Refusal(k, "failed") \notin {"404", "NotFound"}
      /\ ~(Refusal(k, "failed") = "InvalidArgument" /\ k.op = "update")
  BY <1>4, Refusals
<1>8. mine \in Call
  <2>1. echo \in Call
    BY <1>4 DEF Call
  <2>2. lost \in Call
    BY <1>4, <1>6 DEF Call
  <2> QED
    BY <2>1, <2>2
<1>9. /\ SameRequest(mine, k) /\ mine.task = k.task /\ mine.before = k.before
      /\ mine.applied = k.applied
      /\ \/ mine.at = "echo"
         \/ mine.at = "done" /\ mine.code = Refusal(k, "failed")
  BY <1>4 DEF Call, SameRequest
<1> HIDE DEF echo, lost, told
<1>10. SameRequest(mine, call[c])
  BY <1>5, <1>9 DEF SameRequest
<1>11. Readable(mine) /\ Acceptable(mine)
  BY <1>1, <1>10, SameMeaning DEF RequestOK, StoredOnce
<1>12. NewRow(mine) = NewRow(call[c]) /\ EditOf(mine) = EditOf(call[c])
  BY <1>10, SameMeaning
<1>13. after = Written(mine)
  BY <1>5, <1>9, <1>10, <1>12 DEF Written, SameRequest
<1>14. row'[t] = after /\ t \in used'
  BY <1>3 DEF IInv, TypeOK
<1>15. StoredOnce(mine) /\ Addressed(mine, used', blanked')
  BY <1>1, <1>3, <1>5, <1>9, <1>10, <1>11, <1>14
  DEF StoredOnce, Addressed, RequestOK, SameRequest
<1>16. Unraced(mine, row') /\ Shows(mine) /\ Tells(mine, row')
  BY <1>5, <1>6, <1>7, <1>9, <1>13, <1>14 DEF Unraced, Shows, Tells, SameRequest
<1>17. RequestOK(mine, row', used', blanked')
  BY <1>15, <1>16 DEF RequestOK
<1>18. ASSUME NEW d \in Client, d # c, call[d] # Idle
       PROVE  told(d) \in Call /\ RequestOK(told(d), row', used', blanked')
  <2> DEFINE j == call[d]
  <2>1. j \in Call /\ RequestOK(j, row, used, blanked)
    BY <1>18 DEF IInv, TypeOK
  <2>2. j.applied => j.task \in used
    BY <2>1 DEF RequestOK, Addressed
  <2>3. j.applied /\ row[j.task] = NoTask => row'[j.task] = NoTask
    BY <1>3, <2>2 DEF IInv, TypeOK
  <2>4. CASE j.at = "echo" /\ j.task = t
    <3> DEFINE l == [j EXCEPT !.raced = TRUE]
    <3>1. told(d) = l
      BY <1>18, <2>4 DEF told, At
    <3> HIDE DEF j
    <3>2. l \in Call
      BY <2>1 DEF Call
    <3>3. /\ l.raced /\ l.at = j.at /\ SameRequest(l, j) /\ l.task = j.task
          /\ l.before = j.before /\ l.applied = j.applied
      BY <2>1 DEF Call, SameRequest
    <3>4. (Readable(l) <=> Readable(j)) /\ (Acceptable(l) <=> Acceptable(j))
      BY <3>3, SameMeaning
    <3> HIDE DEF l
    <3>5. StoredOnce(l) /\ Addressed(l, used, blanked)
      BY <2>1, <3>3, <3>4 DEF RequestOK, StoredOnce, Addressed, SameRequest
    <3>6. Unraced(l, row') /\ Shows(l) /\ Tells(l, row')
      BY <2>4, <3>3 DEF Unraced, Shows, Tells
    <3>7. RequestOK(l, row', used', blanked')
      BY <1>3, <3>5, <3>6 DEF RequestOK, Addressed
    <3> QED
      BY <3>1, <3>2, <3>7
  <2>5. CASE ~(j.at = "echo" /\ j.task = t)
    <3>1. told(d) = j
      BY <2>5 DEF told, At
    <3>2. j.at = "echo" => row'[j.task] = row[j.task]
      BY <1>3, <2>5 DEF IInv, TypeOK
    <3> HIDE DEF j
    <3>3. /\ j.at = "echo" /\ ~j.raced => row'[j.task] \in {row[j.task], NoTask}
          /\ used \subseteq used' /\ blanked \subseteq blanked'
      BY <1>3, <3>2
    <3>4. RequestOK(j, row', used', blanked')
      BY <2>1, <2>3, <3>3, Undisturbed
    <3> QED
      BY <2>1, <3>1, <3>4
  <2> QED
    BY <2>4, <2>5
<1>19. ASSUME NEW d \in Client
       PROVE  /\ call'[d] \in Call \cup {Idle}
              /\ call'[d] # Idle => RequestOK(call'[d], row', used', blanked')
  <2>1. CASE d = c
    BY <1>2, <1>8, <1>17, <2>1
  <2>2. CASE d # c /\ call[d] # Idle
    BY <1>2, <1>18, <2>2
  <2>3. CASE d # c /\ call[d] = Idle
    BY <1>2, <2>3 DEF told, At
  <2> QED
    BY <2>1, <2>2, <2>3
<1>20. TypeOK'
  BY <1>2, <1>3, <1>19 DEF IInv, TypeOK
<1>21. \A s \in Task \ used' : row'[s] = NoTask
  BY <1>3 DEF IInv, TypeOK
<1>22. BlankTitlesAsked'
  BY <1>3 DEF IInv, TypeOK, BlankTitlesAsked
<1> QED
  BY <1>19, <1>20, <1>21, <1>22 DEF IInv

LEMMA CreateOK ==
  ASSUME IInv, NEW c \in Client, NEW t \in Task, Create(c, t)
  PROVE  IInv'
<1> DEFINE k == call[c]
<1>1. At(c, "apply") /\ k.op = "create" /\ Acceptable(k) /\ Stores(c, t, NewRow(k))
  BY DEF Create
<1>2. k \in Call /\ Readable(k)
  BY <1>1, RequestAt DEF RequestOK, StoredOnce
<1>3. NewRow(k) \in ValidRow /\ NewRow(k).text["title"] # Empty
  BY <1>1, <1>2, NewRowValid, CreatedTitle
<1>4. t \notin used /\ used' = used \cup {t}
  BY DEF Create
<1>5. row[t] = NoTask
  BY <1>4 DEF IInv
<1> QED
  BY <1>1, <1>3, <1>4, <1>5, StoresOK

LEMMA UpdateOK ==
  ASSUME IInv, NEW c \in Client, Update(c)
  PROVE  IInv'
<1> DEFINE k == call[c]
           t == k.task
           after == WriteSets(row[t], EditOf(k), Changes(row[t], EditOf(k)))
<1>1. /\ At(c, "apply") /\ k.op = "update" /\ Acceptable(k)
      /\ row[t] # NoTask /\ Stores(c, t, after) /\ used' = used
  BY DEF Update
<1>2. k \in Call /\ RequestOK(k, row, used, blanked) /\ Readable(k) /\ t \in used
  BY <1>1, RequestAt DEF RequestOK, StoredOnce, Addressed
<1>3. t \in Task /\ row[t] \in ValidRow /\ row[t] \in Row
  BY <1>1, <1>2 DEF IInv, TypeOK, ValidRow
<1>4. after \in ValidRow
  BY <1>1, <1>2, <1>3, WrittenValid
<1>5. after.text["title"] = Empty => t \in blanked
  <2>1. row[t].text["title"] = Empty => t \in blanked
    BY <1>1, <1>3 DEF IInv, BlankTitlesAsked
  <2>2. k.door = "rest" /\ k.wire.text["title"] = Empty => t \in blanked
    BY <1>1, <1>2 DEF RequestOK, Addressed
  <2> QED
    BY <1>1, <1>2, <1>3, <2>1, <2>2, UpdatedTitle
<1>6. used' = used \cup {t}
  BY <1>1, <1>2
<1> HIDE DEF after, t
<1>7. row[t] = NoTask <=> k.op = "create"
  BY <1>1
<1> QED
  BY <1>1, <1>3, <1>4, <1>5, <1>6, <1>7, StoresOK DEF after, t

LEMMA EchoOK ==
  ASSUME IInv, NEW c \in Client, Echo(c)
  PROVE  IInv'
<1> DEFINE k == call[c]
           now == row[k.task]
           l == [k EXCEPT !.at = "done", !.shown = now,
                          !.code = IF k.door = "grpc" THEN "OK"
                                   ELSE IF k.op = "create" THEN "201" ELSE "200"]
<1>1. At(c, "echo")
  BY DEF Echo
<1>2. k \in Call /\ k.at = "echo" /\ RequestOK(k, row, used, blanked)
  BY <1>1, RequestAt
<1>3. CASE now = NoTask /\ Refuse(c, "not_found")
  BY <1>1, <1>3, RefuseOK DEF At
<1>4. CASE Refuse(c, "failed")
  BY <1>1, <1>4, RefuseOK DEF At
<1>5. CASE /\ now # NoTask /\ call' = [call EXCEPT ![c] = l]
           /\ UNCHANGED <<row, used, blanked>>
  <2>1. k.applied /\ k.task \in used
    BY <1>2 DEF RequestOK, StoredOnce, Addressed
  <2>2. now \in Row
    BY <1>5, <2>1 DEF IInv, TypeOK, ValidRow
  <2>3. ~k.raced => now = Written(k)
    BY <1>2, <1>5 DEF RequestOK, Unraced
  <2> HIDE DEF now
  <2>4. l \in Call
    BY <1>2, <2>2 DEF Call, Code
  <2>5. /\ l.at = "done" /\ l.code \in Success /\ l.shown = now
        /\ SameRequest(l, k) /\ l.task = k.task /\ l.before = k.before
        /\ l.applied = k.applied /\ l.raced = k.raced
    BY <1>2 DEF Call, SameRequest, Success
  <2> HIDE DEF k, l
  <2>6. /\ Readable(l) <=> Readable(k)
        /\ Acceptable(l) <=> Acceptable(k)
        /\ Written(l) = Written(k)
    BY <2>5, SameMeaning
  <2>7. StoredOnce(l) /\ Addressed(l, used, blanked)
    BY <1>2, <2>5, <2>6 DEF RequestOK, StoredOnce, Addressed, SameRequest
  <2>8. Unraced(l, row) /\ Shows(l) /\ Tells(l, row)
    BY <2>1, <2>3, <2>5, <2>6 DEF Unraced, Shows, Tells, Success
  <2>9. RequestOK(l, row, used, blanked)
    BY <2>7, <2>8 DEF RequestOK
  <2>10. blanked' \subseteq Task /\ blanked' = blanked
    BY <1>5 DEF IInv, TypeOK
  <2> QED
    BY <1>5, <2>4, <2>9, <2>10, OneRequest
<1> QED
  BY <1>3, <1>4, <1>5 DEF Echo

LEMMA ReturnOK ==
  ASSUME IInv, NEW c \in Client, Return(c)
  PROVE  IInv'
<1>1. call' = [call EXCEPT ![c] = Idle] /\ UNCHANGED <<row, used, blanked>>
  BY DEF Return
<1>2. blanked' \subseteq Task /\ blanked' = blanked
  BY <1>1 DEF IInv, TypeOK
<1> QED
  BY <1>1, <1>2, OneRequest

\* A deletion is no race that spoils an answer: the re-read finds no row.
LEMMA DeleteOK ==
  ASSUME IInv, NEW t \in Task, Delete(t)
  PROVE  IInv'
<1>1. row' = [row EXCEPT ![t] = NoTask] /\ UNCHANGED <<used, call, blanked>>
  BY DEF Delete
<1>2. TypeOK' /\ BlankTitlesAsked' /\ \A s \in Task \ used' : row'[s] = NoTask
  BY <1>1 DEF IInv, TypeOK, BlankTitlesAsked
<1>3. ASSUME NEW c \in Client, call[c] # Idle
      PROVE  RequestOK(call[c], row', used, blanked)
  <2> DEFINE k == call[c]
  <2>1. k \in Call /\ RequestOK(k, row, used, blanked)
    BY <1>3 DEF IInv, TypeOK
  <2>2. k.applied => row'[k.task] \in {row[k.task], NoTask}
    BY <1>1, <2>1 DEF IInv, TypeOK, RequestOK, Addressed
  <2>3. k.at = "echo" => k.applied
    BY <2>1 DEF RequestOK, StoredOnce
  <2> HIDE DEF k
  <2>4. RequestOK(k, row', used, blanked)
    BY <2>1, <2>2, <2>3, Undisturbed
  <2> QED
    BY <2>4 DEF k
<1> QED
  BY <1>1, <1>2, <1>3 DEF IInv

LEMMA NextOK == IInv /\ [Next]_vars => IInv'
<1> SUFFICES ASSUME IInv, [Next]_vars PROVE IInv'
  OBVIOUS
<1>1. CASE UNCHANGED vars
  BY <1>1 DEF vars, IInv, TypeOK, BlankTitlesAsked
<1>2. ASSUME NEW c \in Client, NEW door \in {"rest", "grpc"},
             NEW op \in {"create", "update"}, NEW t \in Task \cup {NoTask},
             NEW w \in Wires, Send(c, door, op, t, w)
      PROVE  IInv'
  BY <1>2, SendOK
<1>3. ASSUME NEW c \in Client, Reject(c) \/ Decode(c) \/ Deny(c) PROVE IInv'
  BY <1>3, RejectOK, DecodeOK, DenyOK
<1>4. ASSUME NEW c \in Client, NEW t \in Task, Create(c, t) PROVE IInv'
  BY <1>4, CreateOK
<1>5. ASSUME NEW c \in Client, Update(c) \/ Echo(c) \/ Return(c) PROVE IInv'
  BY <1>5, UpdateOK, EchoOK, ReturnOK
<1>6. ASSUME NEW t \in Task, Delete(t) PROVE IInv'
  BY <1>6, DeleteOK
<1> QED
  BY <1>1, <1>2, <1>3, <1>4, <1>5, <1>6 DEF Next

LEMMA Invariance == Spec => []IInv
  BY InitOK, NextOK, PTL DEF Spec

-----------------------------------------------------------------------------

\* Every variable keeps its type: no row ever has a status or a priority that
\* its ENUM column does not admit, whatever the doors let through.
THEOREM TypeCorrect == Spec => []TypeOK
<1>1. IInv => TypeOK
  BY DEF IInv
<1> QED
  BY <1>1, Invariance, PTL

\* A successful answer shows every field as it was sent and all others as they
\* were, through either door, for any fields, values and due dates.
THEOREM AnswersShowRequests == Spec => []AnswerShowsRequest
<1>1. IInv => AnswerShowsRequest
  <2> SUFFICES ASSUME IInv, NEW c \in Client, At(c, "done"),
                      call[c].code \in Success, ~call[c].raced
               PROVE  /\ \A f \in TextField : call[c].shown.text[f] = Expected(call[c], f)
                      /\ DueShown(call[c], call[c].shown)
    BY DEF AnswerShowsRequest, DueShown
  <2> DEFINE k == call[c]
  <2>1. k \in Call /\ RequestOK(k, row, used, blanked)
    BY RequestAt
  <2>2. k.applied /\ k.shown = Written(k)
    BY <2>1, RequestAt DEF RequestOK, Shows
  <2>3. Readable(k) /\ (k.before = NoTask <=> k.op = "create")
    BY <2>1, <2>2 DEF RequestOK, StoredOnce
  <2> HIDE DEF k
  <2>4. CASE k.op = "create"
    BY <2>1, <2>2, <2>3, <2>4, CreatedAsAsked DEF Written, k
  <2>5. CASE k.op = "update"
    <3>1. k.before \in Row
      BY <2>1, <2>3, <2>5 DEF Call
    <3> QED
      BY <2>1, <2>2, <2>3, <2>5, <3>1, UpdatedAsAsked DEF k
  <2> QED
    BY <2>1, <2>4, <2>5 DEF Call
<1> QED
  BY <1>1, Invariance, PTL

\* A title is empty only when a PATCH asked for that.
THEOREM BlanksAreAsked == Spec => []BlankTitlesAsked
<1>1. IInv => BlankTitlesAsked
  BY DEF IInv
<1> QED
  BY <1>1, Invariance, PTL

\* No status code says of a request what is not so.
THEOREM CodesAreTrue == Spec => []CodesTellTheTruth
<1>1. IInv => CodesTellTheTruth
  <2> SUFFICES ASSUME IInv, NEW c \in Client, At(c, "done")
               PROVE  (call[c].code \in Success => call[c].applied) /\ Tells(call[c], row)
    BY RequestAt DEF CodesTellTheTruth, Tells
  <2> QED
    BY RequestAt DEF RequestOK, Shows
<1> QED
  BY <1>1, Invariance, PTL
=============================================================================
