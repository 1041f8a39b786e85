SPECIFICATION FairSpec
CONSTANTS
  Task = {t1}
  User = {u1}
  Admin = {}
  Nobody = Nobody
  Req = {r1, r2}
  Ops = {"get", "create", "update", "delete", "assign"}
  MaxVer = 1
  NoRow = NoRow
  Miss = Miss
  Idle = Idle
  NoId = NoId
INVARIANTS
  TypeOK
  StaleExplained
  EchoNotOlder
PROPERTIES
  Converges
  Linearizes
