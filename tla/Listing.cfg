CONSTANTS
  Task = {t1, t2}
  u1 = u1
  u2 = u2
  User = {u1, u2}
  Admin = {u1}
  Status = {pending, completed}
  Pending = pending
  Filters <- MCFilters
  Limits = {0, 2}
  Default = 1
  Most = 1
  MaxClock = 1
  NoRow = NoRow
  Unset = Unset
  Idle = Idle
SPECIFICATION Spec
SYMMETRY Symmetry
INVARIANTS TypeOK MissedExplained RepeatExplained
