---------------------------- MODULE TaskRepoProofs ----------------------------
(***************************************************************************)
(* The repository's audit invariants and its atomicity, for every set of   *)
(* tasks, values, connections and due dates and every bound MaxHist.       *)
(***************************************************************************)
EXTENDS TaskRepo, TLAPS

USE FieldAssumption, InstantAssumption, KeepAssumption, NoDueAssumption

-----------------------------------------------------------------------------
(* What the operators of TaskRows return.                                  *)

\* DATETIME's rounding moves a due date by less than one second.
LEMMA Rounding ==
  ASSUME NEW d \in Nat
  PROVE  /\ Stored(d) \in Nat /\ FormatRFC3339(d) \in Nat
         /\ Stored(d) = FormatRFC3339(d) \/ Stored(d) = FormatRFC3339(d) + 1
  BY DEF Stored, FormatRFC3339

\* Every column of a row has a value that the history can hold.
LEMMA ValueLogged ==
  ASSUME NEW row \in Row, NEW f \in Field
  PROVE  Value(row, f) \in Logged
  BY DEF Value, Row, Field, Logged

\* Update writes known fields only.
LEMMA ChangesAreFields ==
  ASSUME NEW row, NEW u
  PROVE  Changes(row, u) \subseteq Field
  BY DEF Changes, TextChanges, DueChanges, Field

\* A written due date is either cleared or one of the client's instants.
LEMMA DueGiven ==
  ASSUME NEW row, NEW u \in Edit, "due_date" \in Changes(row, u), ~u.clear
  PROVE  u.due \in Nat
  BY DEF Changes, TextChanges, DueChanges, Edit

\* A text field is written when it is given.
LEMMA TextGiven ==
  ASSUME NEW row, NEW u \in Edit, NEW f \in Changes(row, u), f # "due_date"
  PROVE  f \in TextField /\ u.text[f] \in Text
  BY DEF Changes, TextChanges, DueChanges, Edit

\* addHist is given a value the history can hold.
LEMMA NewValueLogged ==
  ASSUME NEW row, NEW u \in Edit, NEW f \in Changes(row, u)
  PROVE  NewValue(u, f) \in Logged
<1>1. CASE f # "due_date"
  BY <1>1, TextGiven DEF NewValue, Logged
<1>2. CASE f = "due_date" /\ u.clear
  BY <1>2 DEF NewValue, Logged
<1>3. CASE f = "due_date" /\ ~u.clear
  <2>1. u.due \in Nat
    BY <1>3, DueGiven
  <2>2. FormatRFC3339(u.due) \in Nat
    BY <2>1, Rounding
  <2> QED
    BY <1>3, <2>2 DEF NewValue, Logged
<1> QED
  BY <1>1, <1>2, <1>3

\* UPDATE of any of the changed fields leaves a well-formed row.
LEMMA WriteSetsRow ==
  ASSUME NEW row \in Row, NEW u \in Edit, NEW sets \in SUBSET Changes(row, u)
  PROVE  WriteSets(row, u, sets) \in Row
<1> DEFINE text == [f \in TextField |-> IF f \in sets THEN u.text[f] ELSE row.text[f]]
           due  == IF "due_date" \notin sets THEN row.due
                   ELSE IF u.clear THEN NoDue ELSE Stored(u.due)
<1>1. text \in [TextField -> Text]
  BY TextGiven DEF Row
<1>2. due \in Nat \cup {NoDue}
  <2>1. CASE "due_date" \in sets /\ ~u.clear
    <3>1. u.due \in Nat
      BY <2>1, DueGiven
    <3> QED
      BY <2>1, <3>1, Rounding
  <2>2. CASE ~("due_date" \in sets /\ ~u.clear)
    BY <2>2 DEF Row
  <2> QED
    BY <2>1, <2>2
<1> QED
  BY <1>1, <1>2 DEF WriteSets, Row

\* The value UPDATE stores in a written field continues the one it logged.
LEMMA WriteContinues ==
  ASSUME NEW row \in Row, NEW u \in Edit, NEW sets \in SUBSET Changes(row, u),
         NEW f \in sets
  PROVE  Continues(f, NewValue(u, f), Value(WriteSets(row, u, sets), f))
<1>1. CASE f # "due_date"
  BY <1>1, TextGiven DEF Continues, NewValue, Value, WriteSets
<1>2. CASE f = "due_date" /\ u.clear
  BY <1>2 DEF Continues, NewValue, Value, WriteSets
<1>3. CASE f = "due_date" /\ ~u.clear
  <2>1. u.due \in Nat
    BY <1>3, DueGiven
  <2>2. /\ NewValue(u, f) = FormatRFC3339(u.due)
        /\ Value(WriteSets(row, u, sets), f) = Stored(u.due)
    BY <1>3 DEF NewValue, Value, WriteSets
  <2> QED
    BY <1>3, <2>1, <2>2, Rounding DEF Continues
<1> QED
  BY <1>1, <1>2, <1>3

\* UPDATE leaves every other field as it was.
LEMMA WriteKeeps ==
  ASSUME NEW row \in Row, NEW u \in Edit, NEW sets \in SUBSET Changes(row, u),
         NEW f \in Field \ sets
  PROVE  Value(WriteSets(row, u, sets), f) = Value(row, f)
  BY DEF Value, WriteSets, Field

-----------------------------------------------------------------------------
(* The inductive invariant.                                                *)

\* At most one transaction holds a row.
LockExclusive ==
  \A c, d \in Conn, t \in Task : Holds(c, t) /\ Holds(d, t) => c = d

\* The row a transaction read is still the committed one.
ReadIsCurrent ==
  \A c \in Conn, t \in Task : Holds(c, t) =>
    tasks[t] # NoTask /\ tx[c].cur = tasks[t]

\* The private audit rows of a transaction: one for each field already
\* handled, under ids below n and above every one of the task in the log.
PendingRows(x, log, n) ==
  /\ x.todo \subseteq Changes(x.cur, x.edit)
  /\ \A e \in x.rows :
       /\ e.task = x.task
       /\ e.field \in Changes(x.cur, x.edit) \ x.todo
       /\ e.old = Value(x.cur, e.field)
       /\ e.new = NewValue(x.edit, e.field)
       /\ e.id < n
       /\ \A h \in log : h.task = e.task => h.id < e.id
  /\ \A f \in Changes(x.cur, x.edit) \ x.todo : \E e \in x.rows : e.field = f
  /\ \A d, e \in x.rows : d.field = e.field => d = e
  /\ x.step = "written" => x.todo = {}
Pending == \A c \in Conn, t \in Task : Holds(c, t) => PendingRows(tx[c], history, nextId)

\* Nothing is written before the row is read.
Fresh ==
  \A c \in Conn : tx[c] # NoTx /\ tx[c].step = "begun" => tx[c].rows = {}

IdsUsed == \A h \in history : h.id < nextId

LiveWereBorn == \A t \in Task : tasks[t] # NoTask => born[t] # NoTask

IInv ==
  /\ TypeOK
  /\ LockExclusive
  /\ ReadIsCurrent
  /\ Pending
  /\ Fresh
  /\ IdsUsed
  /\ LiveWereBorn
  /\ HistoryOfLiveTasks
  /\ AuditChains
  /\ AuditMatchesRow

-----------------------------------------------------------------------------
(* The invariant holds initially, and each action preserves it.            *)

\* Empty tables and no transactions satisfy the invariant.
LEMMA InitInv == Init => IInv
<1> SUFFICES ASSUME Init PROVE IInv
  OBVIOUS
<1>1. TypeOK
  BY DEF Init, TypeOK
<1>2. LockExclusive /\ ReadIsCurrent /\ Pending /\ Fresh
  BY DEF Init, Fresh, LockExclusive, ReadIsCurrent, Pending, Holds
<1>3. IdsUsed /\ LiveWereBorn /\ HistoryOfLiveTasks
  BY DEF Init, IdsUsed, LiveWereBorn, HistoryOfLiveTasks
<1>4. AuditChains /\ AuditMatchesRow
  BY DEF Init, AuditChains, AuditMatchesRow
<1> QED
  BY <1>1, <1>2, <1>3, <1>4 DEF IInv

\* A new task has no audit rows and no transaction holds its row.
LEMMA CreateInv ==
  ASSUME IInv, NEW t \in Task, NEW text \in [TextField -> Text],
         NEW due \in Instant \cup {NoDue}, Create(t, text, due)
  PROVE  IInv'
<1> DEFINE row == [text |-> text, due |-> Stored(due)]
<1>1. /\ tasks[t] = NoTask
      /\ \A h \in history : h.task # t
      /\ \A c \in Conn : ~Holds(c, t)
  BY DEF IInv, LiveWereBorn, HistoryOfLiveTasks, ReadIsCurrent, Create
<1>2. row \in Row
  <2>1. Stored(due) \in Nat \cup {NoDue}
    BY Rounding DEF Stored
  <2> QED
    BY <2>1 DEF Row
<1> HIDE DEF row
<1>3. /\ tasks' = [tasks EXCEPT ![t] = row] /\ born' = [born EXCEPT ![t] = row]
      /\ UNCHANGED <<history, nextId, tx>>
  BY DEF Create, row
<1>4. TypeOK'
  BY <1>2, <1>3 DEF IInv, TypeOK
<1>5. \A c \in Conn, s \in Task : Holds(c, s)' <=> Holds(c, s)
  BY <1>3 DEF Holds
<1>6. LockExclusive' /\ ReadIsCurrent' /\ Pending' /\ Fresh'
  BY <1>1, <1>3, <1>5 DEF IInv, TypeOK, LockExclusive, ReadIsCurrent, Pending, PendingRows, Fresh
<1>7. IdsUsed' /\ LiveWereBorn' /\ HistoryOfLiveTasks'
  BY <1>1, <1>2, <1>3, NoTaskAssumption
  DEF IInv, TypeOK, IdsUsed, LiveWereBorn, HistoryOfLiveTasks, Entry
<1>8. AuditChains'
  BY <1>1, <1>3 DEF IInv, TypeOK, Entry, AuditChains, OfField, Adjacent
<1>9. AuditMatchesRow'
  BY <1>1, <1>3 DEF IInv, TypeOK, Entry, AuditMatchesRow, OfField
<1> QED
  BY <1>4, <1>6, <1>7, <1>8, <1>9 DEF IInv

\* The cascade removes all audit rows of the task and no others.
LEMMA DeleteInv ==
  ASSUME IInv, NEW t \in Task, Delete(t)
  PROVE  IInv'
<1>1. TypeOK'
  BY DEF IInv, TypeOK, Delete
<1>2. \A c \in Conn, s \in Task : Holds(c, s)' <=> Holds(c, s) /\ s # t
  BY DEF Holds, RowFree, Delete
<1>3. LockExclusive' /\ ReadIsCurrent' /\ Pending' /\ Fresh'
  BY <1>2 DEF IInv, TypeOK, Delete, LockExclusive, ReadIsCurrent, Pending, PendingRows, Fresh
<1>4. IdsUsed' /\ LiveWereBorn' /\ HistoryOfLiveTasks'
  BY DEF IInv, TypeOK, Entry, Delete, IdsUsed, LiveWereBorn, HistoryOfLiveTasks
<1>5. \A s \in Task, f \in Field : s # t => OfField(s, f)' = OfField(s, f)
  BY DEF OfField, Delete
<1>6. AuditChains'
  BY <1>5 DEF IInv, TypeOK, Entry, Delete, AuditChains, Adjacent
<1>7. AuditMatchesRow'
  BY <1>5 DEF IInv, TypeOK, Delete, AuditMatchesRow
<1> QED
  BY <1>1, <1>3, <1>4, <1>6, <1>7 DEF IInv

\* Before COMMIT the tables do not change, so what is said of them holds on.
LEMMA TablesUnchanged ==
  ASSUME IInv, UNCHANGED <<tasks, born, history>>, nextId' \in {nextId, nextId + 1}
  PROVE  /\ IdsUsed' /\ LiveWereBorn' /\ HistoryOfLiveTasks'
         /\ AuditChains' /\ AuditMatchesRow'
<1>1. IdsUsed'
  BY DEF IInv, TypeOK, Entry, IdsUsed
<1>2. LiveWereBorn' /\ HistoryOfLiveTasks'
  BY DEF IInv, LiveWereBorn, HistoryOfLiveTasks
<1>3. AuditChains' /\ AuditMatchesRow'
  BY DEF IInv, AuditChains, AuditMatchesRow, OfField, Adjacent
<1> QED
  BY <1>1, <1>2, <1>3

\* A transaction that has only begun, or has just ended, holds nothing.
LEMMA ReleaseInv ==
  ASSUME IInv, NEW c \in Conn, NEW x \in Tx \cup {NoTx},
         x = NoTx \/ (x.step = "begun" /\ x.rows = {}),
         tx' = [tx EXCEPT ![c] = x],
         UNCHANGED <<tasks, born, history, nextId>>
  PROVE  IInv'
<1>1. TypeOK'
  BY DEF IInv, TypeOK
<1>2. \A d \in Conn, s \in Task : Holds(d, s)' <=> Holds(d, s) /\ d # c
  BY DEF Holds, IInv, TypeOK
<1>3. LockExclusive' /\ ReadIsCurrent'
  BY <1>2 DEF IInv, TypeOK, LockExclusive, ReadIsCurrent
<1>4. Pending' /\ Fresh'
  BY <1>2 DEF IInv, TypeOK, Pending, PendingRows, Fresh
<1> QED
  BY <1>1, <1>3, <1>4, TablesUnchanged DEF IInv

\* BEGIN takes no lock.
LEMMA BeginInv ==
  ASSUME IInv, NEW c \in Conn, NEW t \in Task, NEW u \in Edit, Begin(c, t, u)
  PROVE  IInv'
<1> DEFINE x == [step |-> "begun", task |-> t, edit |-> u,
                 cur |-> NoTask, todo |-> {}, rows |-> {}]
<1>1. x \in Tx /\ x.step = "begun" /\ x.rows = {}
  BY DEF Tx
<1>2. tx' = [tx EXCEPT ![c] = x] /\ UNCHANGED <<tasks, born, history, nextId>>
  BY DEF Begin
<1> QED
  BY <1>1, <1>2, ReleaseInv

\* A transaction that ends without COMMIT leaves the tables alone.
LEMMA EndInv ==
  ASSUME IInv, NEW c \in Conn, NoRow(c) \/ Abort(c)
  PROVE  IInv'
  BY ReleaseInv DEF NoRow, Abort

\* A step of the transaction of c between the grant of its lock and COMMIT:
\* what is left to show is what c itself read and wrote.
LEMMA HolderInv ==
  ASSUME IInv, NEW c \in Conn, NEW x \in Tx, NEW t \in Task,
         tx[c] # NoTx, tx[c].task = t, x.task = t, x.step # "begun",
         \A d \in Conn \ {c} : ~Holds(d, t),
         tasks[t] # NoTask, x.cur = tasks[t],
         tx' = [tx EXCEPT ![c] = x],
         nextId' \in {nextId, nextId + 1},
         UNCHANGED <<tasks, born, history>>,
         PendingRows(x, history', nextId')
  PROVE  IInv'
<1>1. TypeOK'
  BY DEF IInv, TypeOK
<1>2. \A d \in Conn \ {c} : tx'[d] = tx[d]
  BY DEF IInv, TypeOK
<1>3. tx'[c] = x /\ x # NoTx
  BY NoTxAssumption DEF IInv, TypeOK
<1>4. \A d \in Conn, s \in Task :
        Holds(d, s)' <=> IF d = c THEN s = t ELSE Holds(d, s)
  BY <1>2, <1>3 DEF Holds
<1>5. LockExclusive'
  BY <1>4 DEF IInv, LockExclusive
<1>6. ReadIsCurrent'
  BY <1>2, <1>3, <1>4 DEF IInv, ReadIsCurrent
<1>7. Pending'
  <2>1. ASSUME NEW d \in Conn \ {c}, NEW s \in Task, Holds(d, s)
        PROVE  PendingRows(tx[d], history', nextId')
    <3>1. PendingRows(tx[d], history, nextId) /\ tx[d] \in Tx
      BY <2>1, NoTxAssumption DEF IInv, Pending, TypeOK, Holds
    <3> QED
      BY <3>1 DEF PendingRows, Tx, Entry, IInv, TypeOK
  <2> QED
    BY <2>1, <1>2, <1>3, <1>4 DEF Pending
<1>8. Fresh'
  BY <1>2, <1>3 DEF IInv, Fresh
<1> QED
  BY <1>1, <1>5, <1>6, <1>7, <1>8, TablesUnchanged DEF IInv

\* The lock was free, so the reader is now the row's only holder.
LEMMA LockRowInv ==
  ASSUME IInv, NEW c \in Conn, LockRow(c)
  PROVE  IInv'
<1> DEFINE t == tx[c].task
           todo == Changes(tasks[t], tx[c].edit)
           x == [tx[c] EXCEPT !.step = "locked", !.cur = tasks[t], !.todo = todo]
<1>1. /\ tx[c] \in Tx /\ tx[c] # NoTx /\ t \in Task
      /\ tasks[t] \in Row /\ tasks[t] # NoTask
      /\ \A d \in Conn : ~Holds(d, t)
      /\ tx[c].rows = {}
  BY DEF IInv, TypeOK, Fresh, LockRow, Granted, RowFree, Tx
<1>2. tx' = [tx EXCEPT ![c] = x] /\ UNCHANGED <<tasks, born, history, nextId>>
  BY <1>1 DEF LockRow, Tx, IInv, TypeOK
<1>3. todo \in SUBSET Field
  BY ChangesAreFields
<1>4. /\ x \in Tx /\ x.task = t /\ x.step = "locked" /\ x.cur = tasks[t]
      /\ x.edit = tx[c].edit /\ x.todo = todo /\ x.rows = {}
  BY <1>1, <1>3 DEF Tx
<1>5. PendingRows(x, history', nextId')
  BY <1>4 DEF PendingRows
<1> HIDE DEF x, todo
<1> QED
  BY <1>1, <1>2, <1>4, <1>5, HolderInv

\* The audit row gets the next id, and logs what the row was and becomes.
LEMMA AddHistInv ==
  ASSUME IInv, NEW c \in Conn, NEW f \in Field, AddHist(c, f)
  PROVE  IInv'
<1> DEFINE t == tx[c].task
           e == [id |-> nextId, task |-> t, field |-> f,
                 old |-> Value(tx[c].cur, f), new |-> NewValue(tx[c].edit, f)]
           x == [tx[c] EXCEPT !.todo = tx[c].todo \ {f}, !.rows = tx[c].rows \cup {e}]
<1>1. /\ tx[c] \in Tx /\ tx[c] # NoTx /\ t \in Task
      /\ tx[c].step = "locked" /\ f \in tx[c].todo
      /\ nextId' = nextId + 1 /\ UNCHANGED <<tasks, born, history>>
  BY DEF IInv, TypeOK, AddHist, Tx
<1>2. Holds(c, t)
  BY <1>1 DEF Holds
<1>3. /\ tasks[t] # NoTask /\ tx[c].cur = tasks[t] /\ tasks[t] \in Row
      /\ \A d \in Conn \ {c} : ~Holds(d, t)
      /\ PendingRows(tx[c], history, nextId)
  BY <1>1, <1>2 DEF IInv, TypeOK, ReadIsCurrent, LockExclusive, Pending
<1>4. f \in Changes(tx[c].cur, tx[c].edit)
  BY <1>1, <1>3 DEF PendingRows
<1>5. e \in Entry
  BY <1>1, <1>3, <1>4, ValueLogged, NewValueLogged DEF Entry, IInv, TypeOK, Tx
<1>6. /\ e.id = nextId /\ e.task = t /\ e.field = f
      /\ e.old = Value(tx[c].cur, f) /\ e.new = NewValue(tx[c].edit, f)
  OBVIOUS
<1>7. \A h \in history : h.id < nextId
  BY DEF IInv, IdsUsed
<1> HIDE DEF e
<1>8. tx' = [tx EXCEPT ![c] = x]
  BY <1>1 DEF AddHist, Tx, IInv, TypeOK, e
<1>9. /\ x \in Tx /\ x.task = t /\ x.step = "locked" /\ x.cur = tasks[t]
      /\ x.edit = tx[c].edit /\ x.todo = tx[c].todo \ {f}
      /\ x.rows = tx[c].rows \cup {e}
  BY <1>1, <1>3, <1>5 DEF Tx
<1> HIDE DEF x
<1>10. nextId \in Nat /\ \A h \in history : h.id \in Nat
  BY DEF IInv, TypeOK, Entry
<1>11. \A d \in tx[c].rows : d.id \in Nat
  BY <1>1 DEF Tx, Entry
<1>12. PendingRows(x, history', nextId')
  BY <1>1, <1>3, <1>4, <1>6, <1>7, <1>9, <1>10, <1>11 DEF PendingRows
<1> QED
  BY <1>1, <1>3, <1>8, <1>9, <1>12, HolderInv

\* UPDATE runs when every changed field has its audit row.
LEMMA WriteRowInv ==
  ASSUME IInv, NEW c \in Conn, WriteRow(c)
  PROVE  IInv'
<1> DEFINE t == tx[c].task
           x == [tx[c] EXCEPT !.step = "written"]
<1>1. /\ tx[c] \in Tx /\ tx[c] # NoTx /\ t \in Task
      /\ tx[c].step = "locked" /\ tx[c].todo = {}
      /\ UNCHANGED <<tasks, born, history, nextId>>
  BY DEF IInv, TypeOK, WriteRow, Tx
<1>2. Holds(c, t)
  BY <1>1 DEF Holds
<1>3. /\ tasks[t] # NoTask /\ tx[c].cur = tasks[t]
      /\ \A d \in Conn \ {c} : ~Holds(d, t)
      /\ PendingRows(tx[c], history, nextId)
  BY <1>1, <1>2 DEF IInv, ReadIsCurrent, LockExclusive, Pending
<1>4. tx' = [tx EXCEPT ![c] = x]
  BY DEF WriteRow
<1>5. /\ x \in Tx /\ x.task = t /\ x.step = "written" /\ x.cur = tx[c].cur
      /\ x.edit = tx[c].edit /\ x.todo = {} /\ x.rows = tx[c].rows
  BY <1>1 DEF Tx
<1> HIDE DEF x
<1>6. PendingRows(x, history', nextId')
  BY <1>1, <1>3, <1>5 DEF PendingRows
<1> QED
  BY <1>1, <1>3, <1>4, <1>5, <1>6, HolderInv

\* What a transaction that commits has read and logged.
LEMMA CommitFacts ==
  ASSUME IInv, NEW c \in Conn, Commit(c)
  PROVE  LET x == tx[c]
             row == tasks[x.task]
         IN  /\ x \in Tx /\ x.task \in Task /\ x.edit \in Edit
             /\ row \in Row /\ row # NoTask
             /\ Holds(c, x.task)
             /\ {e.field : e \in x.rows} = Changes(row, x.edit)
             /\ \A e \in x.rows :
                  /\ e \in Entry /\ e.task = x.task
                  /\ e.field \in Changes(row, x.edit)
                  /\ e.old = Value(row, e.field)
                  /\ e.new = NewValue(x.edit, e.field)
                  /\ e.id < nextId
                  /\ \A h \in history : h.task = e.task => h.id < e.id
             /\ \A d, e \in x.rows : d.field = e.field => d = e
<1> DEFINE x == tx[c]
<1>1. /\ x \in Tx /\ x # NoTx /\ x.task \in Task /\ x.edit \in Edit
      /\ x.rows \subseteq Entry /\ x.step # "begun"
      /\ x.step # "written" => x.todo = {}
  BY DEF IInv, TypeOK, Commit, Tx
<1>2. Holds(c, x.task)
  BY <1>1 DEF Holds
<1>3. /\ tasks[x.task] \in Row /\ tasks[x.task] # NoTask
      /\ x.cur = tasks[x.task]
      /\ PendingRows(x, history, nextId)
  BY <1>1, <1>2 DEF IInv, TypeOK, ReadIsCurrent, Pending
<1>4. x.todo = {}
  BY <1>1, <1>3 DEF PendingRows
<1> QED
  BY <1>1, <1>2, <1>3, <1>4 DEF PendingRows

\* COMMIT installs the row and its audit rows together, on top of the row that
\* the audit rows say they replace.
LEMMA CommitInv ==
  ASSUME IInv, NEW c \in Conn, Commit(c)
  PROVE  IInv'
<1> DEFINE t == tx[c].task
           u == tx[c].edit
           new == tx[c].rows
           row == tasks[t]
           sets == Changes(row, u)
           row2 == WriteSets(row, u, sets)
<1>1. /\ t \in Task /\ u \in Edit /\ row \in Row /\ row # NoTask
      /\ Holds(c, t) /\ new \subseteq Entry /\ sets \subseteq Field
  BY CommitFacts, ChangesAreFields
<1>2. /\ \A e \in new : /\ e.task = t /\ e.field \in sets
                        /\ e.old = Value(row, e.field)
                        /\ e.new = NewValue(u, e.field)
                        /\ e.id < nextId
                        /\ \A h \in history : h.task = t => h.id < e.id
      /\ \A f \in sets : \E e \in new : e.field = f
      /\ \A d, e \in new : d.field = e.field => d = e
  BY CommitFacts
<1>3. /\ tasks' = [tasks EXCEPT ![t] = row2] /\ history' = history \cup new
      /\ tx' = [tx EXCEPT ![c] = NoTx] /\ UNCHANGED <<born, nextId>>
  BY CommitFacts DEF Commit
<1>4. row2 \in Row
  BY <1>1, WriteSetsRow
<1>5. \A f \in sets : Continues(f, NewValue(u, f), Value(row2, f))
  BY <1>1, WriteContinues
<1>6. \A f \in Field \ sets : Value(row2, f) = Value(row, f)
  BY <1>1, WriteKeeps
<1> HIDE DEF t, u, new, row, sets, row2
<1>7. TypeOK'
  BY <1>1, <1>3, <1>4 DEF IInv, TypeOK
<1>8. tasks'[t] = row2 /\ row2 # NoTask /\ \A s \in Task \ {t} : tasks'[s] = tasks[s]
  BY <1>1, <1>3, <1>4, NoTaskAssumption DEF IInv, TypeOK
<1>9. history \subseteq Entry /\ nextId \in Nat
  BY DEF IInv, TypeOK
<1>10. \A d \in Conn, s \in Task : Holds(d, s)' <=> Holds(d, s) /\ d # c
  BY <1>3 DEF Holds, IInv, TypeOK
<1>11. \A d \in Conn : d # c => tx'[d] = tx[d] /\ ~Holds(d, t)
  BY <1>1, <1>3 DEF IInv, TypeOK, LockExclusive
<1>12. LockExclusive' /\ ReadIsCurrent'
  BY <1>8, <1>10, <1>11 DEF IInv, LockExclusive, ReadIsCurrent
<1>13. Pending'
  <2> SUFFICES ASSUME NEW d \in Conn, NEW s \in Task, Holds(d, s), d # c
               PROVE  PendingRows(tx[d], history', nextId')
    BY <1>10, <1>11 DEF Pending
  <2>1. PendingRows(tx[d], history, nextId) /\ tx[d].task = s /\ s # t
    BY <1>11 DEF IInv, Pending, Holds
  <2> QED
    BY <2>1, <1>2, <1>3 DEF PendingRows
<1>14. Fresh'
  BY <1>3 DEF IInv, TypeOK, Fresh
<1>15. IdsUsed' /\ LiveWereBorn' /\ HistoryOfLiveTasks'
  <2>1. IdsUsed'
    BY <1>2, <1>3 DEF IInv, IdsUsed
  <2>2. LiveWereBorn'
    BY <1>1, <1>3, <1>8 DEF IInv, LiveWereBorn, row
  <2>3. HistoryOfLiveTasks'
    BY <1>2, <1>3, <1>8, <1>9 DEF IInv, HistoryOfLiveTasks, Entry
  <2> QED
    BY <2>1, <2>2, <2>3
<1>16. \A s \in Task, f \in Field :
         s # t \/ f \notin sets => OfField(s, f)' = OfField(s, f)
  BY <1>2, <1>3 DEF OfField
<1>17. AuditChains'
  <2> SUFFICES ASSUME NEW e \in history'
               PROVE  /\ \A d \in OfField(e.task, e.field)' :
                           Adjacent(d, e)' => Continues(e.field, d.new, e.old)
                      /\ (\A d \in OfField(e.task, e.field)' : e.id <= d.id)
                           => e.old = Value(born[e.task], e.field)
    BY <1>3 DEF AuditChains
  <2>1. CASE e \in history
    <3>1. \A d \in OfField(e.task, e.field)' :
            d.id < e.id => d \in OfField(e.task, e.field)
      BY <2>1, <1>1, <1>2, <1>3, <1>9 DEF OfField, Entry
    <3>2. OfField(e.task, e.field) \subseteq OfField(e.task, e.field)'
      BY <1>3 DEF OfField
    <3> QED
      BY <2>1, <3>1, <3>2, <1>3 DEF IInv, AuditChains, Adjacent
  <2>2. CASE e \in new
    <3>1. e.task = t /\ e.field \in Field /\ e.old = Value(row, e.field)
      BY <2>2, <1>1, <1>2
    <3>2. /\ OfField(e.task, e.field) \subseteq OfField(e.task, e.field)'
          /\ \A d \in OfField(e.task, e.field) : d.id < e.id /\ d.id \in Nat /\ e.id \in Nat
      BY <2>2, <1>1, <1>2, <1>3, <1>9 DEF OfField, Entry
    <3>3. \A d \in OfField(e.task, e.field)' : d # e => d \in OfField(e.task, e.field)
      BY <2>2, <1>2, <1>3 DEF OfField
    <3>4. ASSUME NEW d \in OfField(e.task, e.field)', Adjacent(d, e)'
          PROVE  Continues(e.field, d.new, e.old)
      <4>1. d.id < e.id /\ \A g \in OfField(e.task, e.field)' : ~(d.id < g.id /\ g.id < e.id)
        BY <3>1, <3>4 DEF Adjacent
      <4>2. d \in OfField(e.task, e.field)
        BY <4>1, <3>3, <1>1, <2>2 DEF Entry
      <4>3. \A g \in OfField(e.task, e.field) : g.id <= d.id
        BY <4>1, <4>2, <3>2
      <4> QED
        BY <4>2, <4>3, <3>1, <1>1 DEF IInv, AuditMatchesRow, row
    <3>5. ASSUME \A d \in OfField(e.task, e.field)' : e.id <= d.id
          PROVE  e.old = Value(born[e.task], e.field)
      <4>1. OfField(e.task, e.field) = {}
        BY <3>2, <3>5
      <4> QED
        BY <4>1, <3>1, <1>1 DEF IInv, AuditMatchesRow, row
    <3> QED
      BY <3>1, <3>4, <3>5
  <2> QED
    BY <2>1, <2>2, <1>3
<1>18. AuditMatchesRow'
  <2> SUFFICES ASSUME NEW s \in Task, tasks'[s] # NoTask, NEW f \in Field
               PROVE  /\ \A e \in OfField(s, f)' :
                           (\A d \in OfField(s, f)' : d.id <= e.id)
                             => Continues(f, e.new, Value(tasks'[s], f))
                      /\ OfField(s, f)' = {} => Value(tasks'[s], f) = Value(born[s], f)
    BY <1>3 DEF AuditMatchesRow
  <2>1. CASE s # t
    BY <2>1, <1>8, <1>16 DEF IInv, AuditMatchesRow
  <2>2. CASE s = t /\ f \notin sets
    <3>1. OfField(s, f)' = OfField(s, f) /\ Value(tasks'[s], f) = Value(row, f)
      BY <2>2, <1>6, <1>8, <1>16
    <3> QED
      BY <2>2, <3>1, <1>1 DEF IInv, AuditMatchesRow, row
  <2>3. CASE s = t /\ f \in sets
    <3>1. PICK e0 \in new : e0.field = f
      BY <2>3, <1>2
    <3>2. e0 \in OfField(s, f)'
      BY <2>3, <3>1, <1>2, <1>3 DEF OfField
    <3>3. ASSUME NEW e \in OfField(s, f)', \A d \in OfField(s, f)' : d.id <= e.id
          PROVE  e.new = NewValue(u, f)
      <4>1. e0.id <= e.id
        BY <3>2, <3>3
      <4>2. e \in new
        BY <4>1, <3>1, <2>3, <1>1, <1>2, <1>3, <1>9 DEF OfField, Entry
      <4> QED
        BY <4>2, <2>3, <1>2, <1>3 DEF OfField
    <3> QED
      BY <2>3, <3>2, <3>3, <1>5, <1>8
  <2> QED
    BY <2>1, <2>2, <2>3
<1> QED
  BY <1>7, <1>12, <1>13, <1>14, <1>15, <1>17, <1>18 DEF IInv

-----------------------------------------------------------------------------
(* The theorems.                                                           *)

\* Every step of the repository preserves the invariant.
LEMMA StepInv == IInv /\ [Next]_vars => IInv'
<1> SUFFICES ASSUME IInv, [Next]_vars PROVE IInv'
  OBVIOUS
<1>1. CASE UNCHANGED vars
  BY <1>1 DEF vars, IInv, TypeOK, LockExclusive, ReadIsCurrent, Pending, PendingRows, Holds,
              Fresh, IdsUsed, LiveWereBorn, HistoryOfLiveTasks, AuditChains,
              AuditMatchesRow, OfField, Adjacent
<1>2. ASSUME NEW t \in Task, NEW text \in [TextField -> Text],
             NEW due \in Instant \cup {NoDue}, Create(t, text, due)
      PROVE  IInv'
  BY <1>2, CreateInv
<1>3. ASSUME NEW t \in Task, Delete(t) PROVE IInv'
  BY <1>3, DeleteInv
<1>4. ASSUME NEW c \in Conn, NEW t \in Task, NEW u \in Edit, Begin(c, t, u)
      PROVE  IInv'
  BY <1>4, BeginInv
<1>5. ASSUME NEW c \in Conn, Work(c) \/ Abort(c) PROVE IInv'
  BY <1>5, EndInv, LockRowInv, AddHistInv, WriteRowInv, CommitInv DEF Work
<1> QED
  BY <1>1, <1>2, <1>3, <1>4, <1>5 DEF Next

\* The invariant holds in every reachable state.
THEOREM Invariance == Spec => []IInv
  BY InitInv, StepInv, PTL DEF Spec

\* Every variable of the repository keeps its type.
THEOREM TypeCorrect == Spec => []TypeOK
<1>1. IInv => TypeOK
  BY DEF IInv
<1> QED
  BY <1>1, Invariance, PTL

\* Serialised audit: consecutive audit rows of one field chain from the value
\* the task was created with, for any interleaving of any number of updates.
THEOREM AuditIsChained == Spec => []AuditChains
<1>1. IInv => AuditChains
  BY DEF IInv
<1> QED
  BY <1>1, Invariance, PTL

\* No change of a task is lost or left out of its history.
THEOREM AuditIsComplete == Spec => []AuditMatchesRow
<1>1. IInv => AuditMatchesRow
  BY DEF IInv
<1> QED
  BY <1>1, Invariance, PTL

\* A deleted task leaves no audit rows, and a late update adds none.
THEOREM NoOrphanHistory == Spec => []HistoryOfLiveTasks
<1>1. IInv => HistoryOfLiveTasks
  BY DEF IInv
<1> QED
  BY <1>1, Invariance, PTL

\* The operators of the two modules are the same.
LEMMA SameOperators ==
  /\ \A due : Abs!Stored(due) = Stored(due)
  /\ \A row, u : Abs!Changes(row, u) = Changes(row, u)
  /\ \A row, u, sets : Abs!WriteSets(row, u, sets) = WriteSets(row, u, sets)
  /\ \A row, f : Abs!Value(row, f) = Value(row, f)
  /\ \A u, f : Abs!NewValue(u, f) = NewValue(u, f)
  /\ Abs!Edit = Edit
  BY DEF Abs!Stored, Stored, Abs!Changes, Changes, Abs!TextChanges, TextChanges,
         Abs!DueChanges, DueChanges, Abs!WriteSets, WriteSets, Abs!Value, Value,
         Abs!NewValue, NewValue, Abs!FormatRFC3339, FormatRFC3339, Abs!Edit, Edit

\* COMMIT is the instant at which an update takes effect.
LEMMA CommitEdits ==
  ASSUME IInv, NEW c \in Conn, Commit(c)
  PROVE  \E t \in Task, u \in Edit : Abs!EditTask(t, u)
<1> DEFINE t == tx[c].task
           u == tx[c].edit
           new == tx[c].rows
<1>1. /\ t \in Task /\ u \in Edit /\ tasks[t] # NoTask
      /\ \A e \in new :
           /\ e \in Entry /\ e.task = t
           /\ e.field \in Changes(tasks[t], u)
           /\ e.old = Value(tasks[t], e.field)
           /\ e.new = NewValue(u, e.field)
           /\ \A h \in history : h.task = e.task => h.id < e.id
      /\ {e.field : e \in new} = Changes(tasks[t], u)
      /\ \A d, e \in new : d.field = e.field => d = e
  BY CommitFacts
<1>2. /\ tasks' = [tasks EXCEPT ![t] = WriteSets(tasks[t], u, Changes(tasks[t], u))]
      /\ history' = history \cup new /\ UNCHANGED born
  BY <1>1 DEF Commit
<1> HIDE DEF t, u, new
<1>3. history' \ history = new
  <2>1. \A e \in new : e \notin history
    BY <1>1 DEF Entry
  <2> QED
    BY <2>1, <1>2
<1>4. Abs!Records(new, t, u)
  BY <1>1, SameOperators DEF Abs!Records
<1> QED
  BY <1>1, <1>2, <1>3, <1>4, SameOperators DEF Abs!EditTask

\* Every step of the repository is a step of AuditedTasks or changes neither table.
LEMMA StepRefines == IInv /\ [Next]_vars => [Abs!Next]_(Abs!vars)
<1> SUFFICES ASSUME IInv, [Next]_vars PROVE [Abs!Next]_(Abs!vars)
  OBVIOUS
<1>1. ASSUME NEW t \in Task, NEW text \in [TextField -> Text],
             NEW due \in Instant \cup {NoDue}, Create(t, text, due)
      PROVE  Abs!Create(t, text, due)
  BY <1>1, SameOperators DEF Create, Abs!Create
<1>2. ASSUME NEW t \in Task, Delete(t) PROVE Abs!Delete(t)
  BY <1>2 DEF Delete, Abs!Delete
<1>3. ASSUME NEW c \in Conn, Commit(c)
      PROVE  \E t \in Task, u \in Edit : Abs!EditTask(t, u)
  BY <1>3, CommitEdits
<1>4. ASSUME NEW c \in Conn, NEW t \in Task, NEW u \in Edit, Begin(c, t, u)
      PROVE  UNCHANGED Abs!vars
  BY <1>4 DEF Begin, Abs!vars
<1>5. ASSUME NEW c \in Conn,
             \/ NoRow(c) \/ LockRow(c) \/ WriteRow(c) \/ Abort(c)
             \/ \E f \in Field : AddHist(c, f)
      PROVE  UNCHANGED Abs!vars
  BY <1>5 DEF NoRow, LockRow, WriteRow, Abort, AddHist, Abs!vars
<1>6. CASE UNCHANGED vars
  BY <1>6 DEF vars, Abs!vars
<1> QED
  BY <1>1, <1>2, <1>3, <1>4, <1>5, <1>6, SameOperators DEF Next, Work, Abs!Next

\* The statement-level repository implements the atomic, audited task table.
THEOREM UpdateIsAtomic == Spec => Atomic
<1>1. Init => Abs!Init
  BY DEF Init, Abs!Init
<1> QED
  BY <1>1, StepRefines, Invariance, PTL DEF Spec, Atomic, Abs!Spec

-----------------------------------------------------------------------------
(* What makes every transaction end (EveryTxEnds needs fairness besides).  *)

\* The next statement of c waits for nobody: its guard in LockRow, NoRow,
\* AddHist, WriteRow or Commit holds.
Unblocked(c) ==
  \/ Granted(c)
  \/ tx[c].step = "locked" /\ tx[c].todo = {}
  \/ tx[c].step = "locked" /\ \E f \in tx[c].todo :
                                \A g \in tx[c].todo : Position(f) <= Position(g)
  \/ tx[c].step = "written"

\* Waits are one deep: who waits for a row lock waits for a transaction that
\* waits for nobody, neither a lock nor a connection of the pool.
NoLockChains ==
  \A c \in Conn : tx[c] # NoTx =>
    \/ Unblocked(c)
    \/ \E d \in Conn \ {c} : Holds(d, tx[c].task) /\ Unblocked(d)

\* Transaction y is nearer to its end than x: a later statement of the same
\* update, or fewer fields to log.
Nearer(x, y) ==
  /\ y.task = x.task /\ y.edit = x.edit
  /\ \/ x.step = "begun" /\ y.step = "locked"
     \/ x.step = "locked" /\ y.step = "locked"
        /\ y.todo \subseteq x.todo /\ y.todo # x.todo
     \/ x.step = "locked" /\ y.step = "written"

\* The five fields have an order, so there is a next one to log.
LEMMA NextField ==
  ASSUME NEW todo \in SUBSET Field, todo # {}
  PROVE  \E f \in todo : \A g \in todo : Position(f) <= Position(g)
<1>1. /\ FieldOrder[1] = "title" /\ FieldOrder[2] = "description"
      /\ FieldOrder[3] = "status" /\ FieldOrder[4] = "priority"
      /\ FieldOrder[5] = "due_date"
  BY DEF FieldOrder
<1>2. \A i \in 1..5 : i = 1 \/ i = 2 \/ i = 3 \/ i = 4 \/ i = 5
  OBVIOUS
<1>3. Position("title") = 1
  BY <1>1, <1>2 DEF Position
<1>4. Position("description") = 2
  BY <1>1, <1>2 DEF Position
<1>5. Position("status") = 3
  BY <1>1, <1>2 DEF Position
<1>6. Position("priority") = 4
  BY <1>1, <1>2 DEF Position
<1>7. Position("due_date") = 5
  BY <1>1, <1>2 DEF Position
<1>8. todo \subseteq {"title", "description", "status", "priority", "due_date"}
  BY DEF Field
<1>9. CASE "title" \in todo
  BY <1>3, <1>4, <1>5, <1>6, <1>7, <1>8, <1>9
<1>10. CASE "title" \notin todo /\ "description" \in todo
  BY <1>3, <1>4, <1>5, <1>6, <1>7, <1>8, <1>10
<1>11. CASE {"title", "description"} \cap todo = {} /\ "status" \in todo
  BY <1>3, <1>4, <1>5, <1>6, <1>7, <1>8, <1>11
<1>12. CASE {"title", "description", "status"} \cap todo = {} /\ "priority" \in todo
  BY <1>3, <1>4, <1>5, <1>6, <1>7, <1>8, <1>12
<1>13. CASE {"title", "description", "status", "priority"} \cap todo = {}
  <2>1. \A g \in todo : g = "due_date"
    BY <1>8, <1>13
  <2>2. "due_date" \in todo
    BY <2>1
  <2> QED
    BY <1>7, <2>1, <2>2
<1> QED
  BY <1>9, <1>10, <1>11, <1>12, <1>13

\* Whatever transactions are open, one that is waited for can go on.
THEOREM WaitsAreShort == Spec => []NoLockChains
<1>1. ASSUME IInv, NEW c \in Conn, tx[c] # NoTx, tx[c].step # "begun"
      PROVE  Unblocked(c)
  <2>1. tx[c] \in Tx
    BY <1>1 DEF IInv, TypeOK
  <2>2. tx[c].todo \in SUBSET Field /\ tx[c].step \in {"locked", "written"}
    BY <1>1, <2>1 DEF Tx
  <2> QED
    BY <2>2, NextField DEF Unblocked
<1>2. ASSUME IInv, NEW c \in Conn, tx[c] # NoTx, tx[c].step = "begun", ~Unblocked(c)
      PROVE  \E d \in Conn \ {c} : Holds(d, tx[c].task) /\ Unblocked(d)
  <2>1. PICK d \in Conn : Holds(d, tx[c].task)
    BY <1>2 DEF Unblocked, Granted, RowFree
  <2>2. d # c /\ Unblocked(d)
    BY <1>1, <1>2, <2>1 DEF Holds
  <2> QED
    BY <2>1, <2>2
<1>3. IInv => NoLockChains
  BY <1>1, <1>2 DEF NoLockChains
<1> QED
  BY <1>3, Invariance, PTL

\* An open transaction is only ever brought nearer to its end or ended, by its
\* own statements, of which there are at most eight after BEGIN.
THEOREM UpdatesAdvance ==
  Spec => [][\A c \in Conn :
               tx[c] # NoTx => tx'[c] \in {tx[c], NoTx} \/ Nearer(tx[c], tx'[c])]_vars
<1> DEFINE Advance == \A c \in Conn :
             tx[c] # NoTx => tx'[c] \in {tx[c], NoTx} \/ Nearer(tx[c], tx'[c])
<1>1. IInv /\ [Next]_vars => Advance
  <2> SUFFICES ASSUME IInv, [Next]_vars, NEW c \in Conn, tx[c] # NoTx
               PROVE  tx'[c] \in {tx[c], NoTx} \/ Nearer(tx[c], tx'[c])
    OBVIOUS
  <2> DEFINE Goal == tx'[c] \in {tx[c], NoTx} \/ Nearer(tx[c], tx'[c])
  <2>1. tx \in [Conn -> Tx \cup {NoTx}] /\ tx[c] \in Tx
    BY DEF IInv, TypeOK
  <2>2. CASE UNCHANGED tx
    BY <2>2
  <2>3. ASSUME NEW d \in Conn, NEW t \in Task, NEW u \in Edit, Begin(d, t, u)
        PROVE  Goal
    BY <2>1, <2>3 DEF Begin
  <2>4. ASSUME NEW d \in Conn, NoRow(d) \/ Commit(d) \/ Abort(d)
        PROVE  Goal
    BY <2>1, <2>4 DEF NoRow, Commit, Abort
  <2>5. ASSUME NEW d \in Conn, LockRow(d) \/ WriteRow(d)
        PROVE  Goal
    BY <2>1, <2>5 DEF LockRow, Granted, WriteRow, Nearer, Tx
  <2>6. ASSUME NEW d \in Conn, NEW f \in Field, AddHist(d, f)
        PROVE  Goal
    BY <2>1, <2>6 DEF AddHist, Nearer, Tx
  <2> QED
    BY <2>2, <2>3, <2>4, <2>5, <2>6 DEF Next, Work, Create, Delete, vars
<1> QED
  BY <1>1, Invariance, PTL DEF Spec
=============================================================================
