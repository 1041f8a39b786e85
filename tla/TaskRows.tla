------------------------------- MODULE TaskRows -------------------------------
(***************************************************************************)
(* The task row of MySQL's `tasks` table, the partial update a client may  *)
(* ask for, and the row of `task_history` that records one changed field.  *)
(* Time is counted in half-seconds on the client's side and in whole       *)
(* seconds once stored, because DATETIME keeps no fraction of a second.    *)
(* An operator named Mut... is the one after it with a plausible bug, for  *)
(* testing the properties; no model uses it.                               *)
(***************************************************************************)
EXTENDS Integers

CONSTANTS
  Task,       \* task ids
  TextField,  \* the columns Update copies verbatim
  Text,       \* values of those columns
  Instant,    \* due dates a client may send, in half-seconds
  NoTask,     \* no such row
  Keep,       \* a nil *string of TaskUpdate: leave the column alone
  NoDue       \* a nil *time.Time, a NULL due_date, and "" in the history

ASSUME FieldAssumption ==
  TextField \subseteq {"title", "description", "status", "priority"}
ASSUME InstantAssumption == Instant \subseteq Nat
ASSUME KeepAssumption == Keep \notin Text
ASSUME NoDueAssumption == NoDue \notin Nat

Field == TextField \cup {"due_date"}

\* Rows are read and written with due_date in whole seconds.
Row == [text : [TextField -> Text], due : Nat \cup {NoDue}]

\* TaskUpdate: one optional value per column; clear is ClearDueDate.
Edit == [text : [TextField -> Text \cup {Keep}],
         clear : BOOLEAN, due : Instant \cup {NoDue}]

ASSUME NoTaskAssumption == NoTask \notin Row

Logged == Text \cup Nat \cup {NoDue}

Entry == [id : Nat, task : Task, field : Field, old : Logged, new : Logged]

-----------------------------------------------------------------------------
\* DATETIME rounds the half-second up; time.RFC3339 drops it.
Stored(due) == IF due = NoDue THEN NoDue ELSE (due + 1) \div 2
FormatRFC3339(due) == IF due = NoDue THEN NoDue ELSE due \div 2

Value(row, f) == IF f = "due_date" THEN row.due ELSE row.text[f]

\* The fields an update writes: a text column when it is given and differs,
\* the due date whenever it is given or cleared, equal or not.
MutTextChanges(row, u) == {f \in TextField : u.text[f] # row.text[f]}
TextChanges(row, u) ==
  {f \in TextField : u.text[f] # Keep /\ u.text[f] # row.text[f]}
DueChanges(u) == IF u.clear \/ u.due # NoDue THEN {"due_date"} ELSE {}
Changes(row, u) == TextChanges(row, u) \cup DueChanges(u)

\* What addHist is given as newV for a changed field; clearing wins over a date.
MutNewValue(u, f) ==
  IF f # "due_date" THEN u.text[f] ELSE FormatRFC3339(u.due)
NewValue(u, f) ==
  IF f # "due_date" THEN u.text[f]
  ELSE IF u.clear THEN NoDue ELSE FormatRFC3339(u.due)

\* The row after UPDATE tasks SET ... of exactly the fields in sets.
WriteSets(row, u, sets) ==
  [text |-> [f \in TextField |-> IF f \in sets THEN u.text[f] ELSE row.text[f]],
   due  |-> IF "due_date" \notin sets THEN row.due
            ELSE IF u.clear THEN NoDue ELSE Stored(u.due)]

\* A value read later continues a logged one: equal, or a due date that the
\* column rounded up to the next second after it was logged.
Continues(f, logged, actual) ==
  \/ actual = logged
  \/ f = "due_date" /\ logged # NoDue /\ actual = logged + 1
=============================================================================
