----------------------------- MODULE AuditedTasks -----------------------------
(***************************************************************************)
(* What the task table promises: every edit of a task takes effect at one  *)
(* instant together with its audit rows, exactly one per field it wrote,   *)
(* each carrying the value the field had at that instant; deleting a task  *)
(* deletes its audit rows, and nothing else touches either table.          *)
(***************************************************************************)
EXTENDS TaskRows

VARIABLES
  tasks,    \* the row of each task, or NoTask
  born,     \* the row each task was created with, NoTask for an unused id
  history   \* the audit rows

vars == <<tasks, born, history>>

Init ==
  /\ tasks = [t \in Task |-> NoTask]
  /\ born = [t \in Task |-> NoTask]
  /\ history = {}

Create(t, text, due) ==
  /\ born[t] = NoTask
  /\ LET row == [text |-> text, due |-> Stored(due)]
     IN  /\ tasks' = [tasks EXCEPT ![t] = row]
         /\ born' = [born EXCEPT ![t] = row]
  /\ UNCHANGED history

Delete(t) ==
  /\ tasks[t] # NoTask
  /\ tasks' = [tasks EXCEPT ![t] = NoTask]
  /\ history' = {e \in history : e.task # t}
  /\ UNCHANGED born

\* The audit rows new record edit u of task t in its present state.
Records(new, t, u) ==
  /\ \A e \in new : /\ e.task = t
                    /\ e.field \in Changes(tasks[t], u)
                    /\ e.old = Value(tasks[t], e.field)
                    /\ e.new = NewValue(u, e.field)
                    /\ \A h \in history : h.task = t => h.id < e.id
  /\ \A f \in Changes(tasks[t], u) : \E e \in new : e.field = f
  /\ \A e, d \in new : e.field = d.field => e = d

EditTask(t, u) ==
  /\ tasks[t] # NoTask
  /\ tasks' = [tasks EXCEPT ![t] = WriteSets(@, u, Changes(@, u))]
  /\ history \subseteq history'
  /\ Records(history' \ history, t, u)
  /\ UNCHANGED born

Next ==
  \E t \in Task :
    \/ \E text \in [TextField -> Text], due \in Instant \cup {NoDue} :
         Create(t, text, due)
    \/ Delete(t)
    \/ \E u \in Edit : EditTask(t, u)

Spec == Init /\ [][Next]_vars
=============================================================================
