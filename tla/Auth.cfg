SPECIFICATION FairSpec
CONSTANTS
  User = {u1, u2}
  Name = {admin, n1}
  Email = {admin_local, e1}
  NoUser = NoUser
  AdminName = admin
  AdminEmail = admin_local
  Req = {r1, r2}
  Idle = Idle
  Nobody = Nobody
INVARIANTS
  TypeOK
  UniqueUsers
PROPERTIES
  AdminsMakeAdmins
  AccessEnds
