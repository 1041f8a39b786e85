SPECIFICATION Spec
CONSTANTS
  User = {u1}
  Name = {n1}
  Email = {e1}
  NoUser = NoUser
  Linked = {u1}
  Req = {r1, r2}
  Asked = {"user", "admin"}
  Miss = Miss
  Idle = Idle
INVARIANT
  NotFoundMeansNoUser
