------------------------------- MODULE UserRows -------------------------------
(***************************************************************************)
(* MySQL's `users` table joined with `roles`, and the statements of        *)
(* internal/repository/user_repo.go on it.  Names and emails stand for     *)
(* what the collation tells apart.  No statement ever deletes a user.      *)
(***************************************************************************)
CONSTANTS
  User,    \* ids (uuids)
  Name, Email,
  NoUser   \* no such row

Role == {"user", "admin"}
Row == [name : Name, email : Email, role : Role, active : BOOLEAN]

ASSUME NoUserAssumption == NoUser \notin Row

Table == [User -> Row \cup {NoUser}]

Users(table) == {u \in User : table[u] # NoUser}
Admins(table) == {u \in Users(table) : table[u].role = "admin"}
Named(table, name) == {u \in Users(table) : table[u].name = name}

\* The UNIQUE keys of username and email.
MutDuplicate(table, name, email) == Named(table, name) # {} \* none on email
Duplicate(table, name, email) ==
  \E u \in Users(table) : table[u].name = name \/ table[u].email = email

Inserted(table, u, name, email, role) ==
  [table EXCEPT ![u] = [name |-> name, email |-> email, role |-> role, active |-> TRUE]]

\* UPDATE users SET role_id = ?, or is_active = 0, WHERE id = ?.
WithRole(table, u, role) ==
  IF table[u] = NoUser THEN table ELSE [table EXCEPT ![u].role = role]
WithoutAccess(table, u) ==
  IF table[u] = NoUser THEN table ELSE [table EXCEPT ![u].active = FALSE]
=============================================================================
