CONSTANTS
  Task = {t1}
  TextField = {"title", "priority"}
  Text = {"", "write", "read", "pending", "medium", "low", "lowest"}
  Instant = {1, 2}
  NoTask = NoTask
  Keep = Keep
  NoDue = NoDue
  Client = {c1, c2}
  Wires <- MCWires
  Statuses = {"pending"}
  Priorities = {"medium", "low"}
  Pending = "pending"
  Medium = "medium"
  Empty = ""
  Garbled = Garbled
  Idle = Idle
SPECIFICATION Spec
SYMMETRY Symmetry
INVARIANTS TypeOK AnswerShowsRequest BlankTitlesAsked CodesTellTheTruth
