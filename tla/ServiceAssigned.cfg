SPECIFICATION Spec
CONSTANTS
  Task = {t1}
  User = {u1, u2}
  Admin = {u2}
  Nobody = Nobody
  Req = {r1, r2}
  Ops = {"assign", "delete"}
  MaxVer = 1
  NoRow = NoRow
  Miss = Miss
  Idle = Idle
  NoId = NoId
INVARIANT
  AssignStores
\* Without "create" nothing can be asked of an empty database.
CHECK_DEADLOCK FALSE
