SPECIFICATION FairSpec
CONSTANTS
  Task = {t1}
  TextField = {"title"}
  Text = {x, y}
  Instant = {3,4}
  NoTask = NoTask
  Keep = Keep
  NoDue = NoDue
  Conn = {c1, c2}
  NoTx = NoTx
  MaxHist = 2
INVARIANTS
  TypeOK
  AuditChains
  AuditMatchesRow
  HistoryOfLiveTasks
PROPERTIES
  Atomic
  EveryTxEnds
\* MaxHist, a bound of the model, may stop it.
CHECK_DEADLOCK FALSE
