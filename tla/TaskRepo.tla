------------------------------- MODULE TaskRepo -------------------------------
(***************************************************************************)
(* internal/repository/task_repo.go over MySQL, one statement per action.  *)
(* Several connections run Update's transaction concurrently: BEGIN, then  *)
(* SELECT ... FOR UPDATE, one INSERT INTO task_history per written field,  *)
(* UPDATE tasks, COMMIT.  Any of them may fail and roll back, and Create   *)
(* and Delete, each a single statement, run between them.                  *)
(*                                                                         *)
(* An operator named Mut... is no part of the model: it is the operator    *)
(* that follows it with a plausible bug, for testing the properties.       *)
(***************************************************************************)
EXTENDS TaskRows

CONSTANTS
  Conn,     \* pooled connections that may each run one Update
  NoTx,     \* a connection with no transaction
  MaxHist   \* bound: no Update begins once this many audit ids are used

ASSUME MaxHistAssumption == MaxHist \in Nat

VARIABLES
  tasks,    \* committed rows of tasks, NoTask where there is none
  born,     \* the row each id was created with: uuids are never used twice
  history,  \* committed rows of task_history
  nextId,   \* AUTO_INCREMENT of task_history; not rolled back
  tx        \* each connection's open transaction

vars == <<tasks, born, history, nextId, tx>>

Tx == [step : {"begun", "locked", "written"}, task : Task, edit : Edit,
       cur : Row \cup {NoTask}, todo : SUBSET Field, rows : SUBSET Entry]

ASSUME NoTxAssumption == NoTx \notin Tx

TypeOK ==
  /\ tasks \in [Task -> Row \cup {NoTask}]
  /\ born \in [Task -> Row \cup {NoTask}]
  /\ history \subseteq Entry
  /\ nextId \in Nat
  /\ tx \in [Conn -> Tx \cup {NoTx}]

Init ==
  /\ tasks = [t \in Task |-> NoTask]
  /\ born = [t \in Task |-> NoTask]
  /\ history = {}
  /\ nextId = 0
  /\ tx = [c \in Conn |-> NoTx]

-----------------------------------------------------------------------------
\* A transaction holds its row's exclusive lock from SELECT ... FOR UPDATE on.
Holds(c, t) == tx[c] # NoTx /\ tx[c].step # "begun" /\ tx[c].task = t
RowFree(t) == \A c \in Conn : ~Holds(c, t)

\* The order in which Update looks at the fields.
FieldOrder == <<"title", "description", "status", "priority", "due_date">>
Position(f) == CHOOSE i \in 1..5 : FieldOrder[i] = f

\* A statement outside a transaction waits for a free connection of the pool.
FreeConn == \E c \in Conn : tx[c] = NoTx

\* INSERT INTO tasks, under a fresh uuid.
Create(t, text, due) ==
  /\ FreeConn
  /\ born[t] = NoTask
  /\ LET row == [text |-> text, due |-> Stored(due)]
     IN  /\ tasks' = [tasks EXCEPT ![t] = row]
         /\ born' = [born EXCEPT ![t] = row]
  /\ UNCHANGED <<history, nextId, tx>>

MutDelete(t) == \* no ON DELETE CASCADE
  /\ tasks[t] # NoTask
  /\ RowFree(t)
  /\ tasks' = [tasks EXCEPT ![t] = NoTask]
  /\ UNCHANGED <<born, history, nextId, tx>>
\* DELETE FROM tasks waits for the row lock; ON DELETE CASCADE takes the audit
\* rows with it.  On an id with no row it answers ErrNotFound, changing nothing.
Delete(t) ==
  /\ FreeConn
  /\ tasks[t] # NoTask
  /\ RowFree(t)
  /\ tasks' = [tasks EXCEPT ![t] = NoTask]
  /\ history' = {e \in history : e.task # t}
  /\ UNCHANGED <<born, nextId, tx>>

\* BeginTx.  The caller may name any id, one that was deleted too.
Begin(c, t, u) ==
  /\ tx[c] = NoTx
  /\ nextId < MaxHist
  /\ tx' = [tx EXCEPT ![c] = [step |-> "begun", task |-> t, edit |-> u,
                              cur |-> NoTask, todo |-> {}, rows |-> {}]]
  /\ UNCHANGED <<tasks, born, history, nextId>>

\* SELECT ... FOR UPDATE answers once no other transaction holds the row, with
\* its latest committed version.
MutGranted(c) == tx[c] # NoTx /\ tx[c].step = "begun"
Granted(c) ==
  /\ tx[c] # NoTx
  /\ tx[c].step = "begun"
  /\ RowFree(tx[c].task)

\* There is no such row: ErrNotFound, and the deferred Rollback.
NoRow(c) ==
  /\ Granted(c)
  /\ tasks[tx[c].task] = NoTask
  /\ tx' = [tx EXCEPT ![c] = NoTx]
  /\ UNCHANGED <<tasks, born, history, nextId>>

\* The row is locked, and the differences from it are what is to be written.
LockRow(c) ==
  /\ Granted(c)
  /\ LET row == tasks[tx[c].task]
     IN  /\ row # NoTask
         /\ tx' = [tx EXCEPT ![c].step = "locked", ![c].cur = row,
                             ![c].todo = Changes(row, tx[c].edit)]
  /\ UNCHANGED <<tasks, born, history, nextId>>

MutAddHist(c, f) == \* r.db.ExecContext: a second connection, outside tx
  /\ FreeConn
  /\ tx[c] # NoTx
  /\ tx[c].step = "locked"
  /\ f \in tx[c].todo
  /\ \A g \in tx[c].todo : Position(f) <= Position(g)
  /\ LET e == [id |-> nextId, task |-> tx[c].task, field |-> f,
               old |-> Value(tx[c].cur, f), new |-> NewValue(tx[c].edit, f)]
     IN  tx' = [tx EXCEPT ![c].todo = @ \ {f}, ![c].rows = @ \cup {e}]
  /\ nextId' = nextId + 1
  /\ UNCHANGED <<tasks, born, history>>
\* addHist for the next field to write; the row stays private until COMMIT.
AddHist(c, f) ==
  /\ tx[c] # NoTx
  /\ tx[c].step = "locked"
  /\ f \in tx[c].todo
  /\ \A g \in tx[c].todo : Position(f) <= Position(g)
  /\ LET e == [id |-> nextId, task |-> tx[c].task, field |-> f,
               old |-> Value(tx[c].cur, f), new |-> NewValue(tx[c].edit, f)]
     IN  tx' = [tx EXCEPT ![c].todo = @ \ {f}, ![c].rows = @ \cup {e}]
  /\ nextId' = nextId + 1
  /\ UNCHANGED <<tasks, born, history>>

\* UPDATE tasks SET ..., skipped when there is nothing to set.
WriteRow(c) ==
  /\ tx[c] # NoTx
  /\ tx[c].step = "locked"
  /\ tx[c].todo = {}
  /\ tx[c].rows # {}
  /\ tx' = [tx EXCEPT ![c].step = "written"]
  /\ UNCHANGED <<tasks, born, history, nextId>>

\* COMMIT of the written row, or of the no-op.
Commit(c) ==
  /\ tx[c] # NoTx
  /\ \/ tx[c].step = "written"
     \/ tx[c].step = "locked" /\ tx[c].todo = {} /\ tx[c].rows = {}
  /\ LET t == tx[c].task
         sets == {e.field : e \in tx[c].rows}
     IN  tasks' = [tasks EXCEPT ![t] = WriteSets(@, tx[c].edit, sets)]
  /\ history' = history \cup tx[c].rows
  /\ tx' = [tx EXCEPT ![c] = NoTx]
  /\ UNCHANGED <<born, nextId>>

MutAbort(c) ==
  /\ tx[c] # NoTx
  /\ tx' = [tx EXCEPT ![c] = NoTx]
  /\ history' = history \cup tx[c].rows
  /\ UNCHANGED <<tasks, born, nextId>>
\* A statement fails, the context is cancelled, the lock wait times out, the
\* server dies: the deferred Rollback, or MySQL itself, undoes everything.
Abort(c) ==
  /\ tx[c] # NoTx
  /\ tx' = [tx EXCEPT ![c] = NoTx]
  /\ UNCHANGED <<tasks, born, history, nextId>>

Work(c) ==
  \/ NoRow(c)
  \/ LockRow(c)
  \/ \E f \in Field : AddHist(c, f)
  \/ WriteRow(c)
  \/ Commit(c)

Next ==
  \/ \E t \in Task :
       \/ \E text \in [TextField -> Text], due \in Instant \cup {NoDue} :
            Create(t, text, due)
       \/ Delete(t)
  \/ \E c \in Conn :
       \/ \E t \in Task, u \in Edit : Begin(c, t, u)
       \/ Work(c)
       \/ Abort(c)

Spec == Init /\ [][Next]_vars

\* Update runs straight through once it has a connection, and InnoDB queues
\* the waiters of a row lock, so a waiter that is passed over is served later.
Fairness ==
  \A c \in Conn : WF_vars(Work(c)) /\ SF_vars(NoRow(c) \/ LockRow(c))
FairSpec == Spec /\ Fairness

-----------------------------------------------------------------------------
OfField(t, f) == {e \in history : e.task = t /\ e.field = f}
Adjacent(d, e) ==
  /\ d.id < e.id
  /\ \A g \in OfField(e.task, e.field) : ~(d.id < g.id /\ g.id < e.id)

\* Serialised audit (Update, task_repo.go:123-204): of two consecutive audit
\* rows of one field, the later one's old value is what the earlier one wrote,
\* and the first one's is what the task was created with, however the
\* transactions of different connections interleave, fail or wait.
AuditChains ==
  \A e \in history :
    /\ \A d \in OfField(e.task, e.field) :
         Adjacent(d, e) => Continues(e.field, d.new, e.old)
    /\ (\A d \in OfField(e.task, e.field) : e.id <= d.id)
         => e.old = Value(born[e.task], e.field)

\* No lost or unlogged change: a live task's present value of every field is
\* the last one logged for it, or the one it was created with.
AuditMatchesRow ==
  \A t \in Task : tasks[t] # NoTask =>
    \A f \in Field :
      /\ \A e \in OfField(t, f) :
           (\A d \in OfField(t, f) : d.id <= e.id)
             => Continues(f, e.new, Value(tasks[t], f))
      /\ OfField(t, f) = {} => Value(tasks[t], f) = Value(born[t], f)

\* The log shows whole transactions only, and none for a task that is gone:
\* ON DELETE CASCADE (001_schema.sql:62) against a concurrent Update.
HistoryOfLiveTasks == \A e \in history : tasks[e.task] # NoTask

\* Every transaction ends and gives its connection back, also when it waited
\* for a row lock, or found no row, or all of the pool is in transactions: none
\* needs a second connection (task_repo.go:123-204, mysql.go:18).
EveryTxEnds == \A c \in Conn : (tx[c] # NoTx) ~> (tx[c] = NoTx)

Abs == INSTANCE AuditedTasks
\* Update is atomic: each behaviour of the statement-level repository is one
\* of AuditedTasks, every edit taking effect at its COMMIT.
Atomic == Abs!Spec
=============================================================================
