---------------------------- MODULE UserRowsProofs ----------------------------
(***************************************************************************)
(* What the statements on the users table return, keep and change: lemmas  *)
(* shared by the proofs about UserService and AuthService.                 *)
(***************************************************************************)
EXTENDS UserRows, TLAPS

\* The row of a new user; nobody else's changes.
LEMMA InsertedTable ==
  ASSUME NEW table \in Table, NEW u \in User \ Users(table),
         NEW name \in Name, NEW email \in Email, NEW role \in Role
  PROVE  /\ Inserted(table, u, name, email, role) \in Table
         /\ Users(Inserted(table, u, name, email, role)) = Users(table) \cup {u}
         /\ \A v \in User : v # u => Inserted(table, u, name, email, role)[v] = table[v]
         /\ Inserted(table, u, name, email, role)[u]
              = [name |-> name, email |-> email, role |-> role, active |-> TRUE]
<1> DEFINE new == Inserted(table, u, name, email, role)
           row == [name |-> name, email |-> email, role |-> role, active |-> TRUE]
<1>1. row \in Row
  BY DEF Row
<1>2. new = [table EXCEPT ![u] = row]
  BY DEF Inserted
<1>3. /\ new \in Table /\ new[u] = row
      /\ \A v \in User : v # u => new[v] = table[v]
  BY <1>1, <1>2 DEF Table
<1>4. Users(new) = Users(table) \cup {u}
  BY <1>1, <1>3, NoUserAssumption DEF Users
<1>5. QED
  BY <1>3, <1>4

\* A change of role keeps names, emails, who is active, and everybody else.
LEMMA WithRoleTable ==
  ASSUME NEW table \in Table, NEW u \in User, NEW role \in Role
  PROVE  LET new == WithRole(table, u, role)
         IN  /\ new \in Table
             /\ Users(new) = Users(table)
             /\ \A v \in Users(table) : /\ new[v].name = table[v].name
                                        /\ new[v].email = table[v].email
                                        /\ new[v].active = table[v].active
             /\ \A v \in User : v # u => new[v] = table[v]
<1> DEFINE new == WithRole(table, u, role)
<1>1. CASE table[u] = NoUser
  BY <1>1 DEF WithRole
<1>2. CASE table[u] # NoUser
  <2>1. table[u] \in Row
    BY <1>2 DEF Table
  <2>2. /\ new = [table EXCEPT ![u] = [table[u] EXCEPT !.role = role]]
        /\ [table[u] EXCEPT !.role = role] \in Row
    BY <1>2, <2>1 DEF WithRole, Row
  <2>3. /\ new \in Table
        /\ \A v \in User : v # u => new[v] = table[v]
        /\ new[u] = [table[u] EXCEPT !.role = role] /\ new[u] # NoUser
    BY <2>2, NoUserAssumption DEF Table
  <2>4. /\ new[u].name = table[u].name /\ new[u].email = table[u].email
        /\ new[u].active = table[u].active
    BY <2>1, <2>3 DEF Row
  <2>5. QED
    BY <1>2, <2>3, <2>4 DEF Users
<1>3. QED
  BY <1>1, <1>2

\* So does a deactivation; it keeps the roles, and makes nobody active.
LEMMA WithoutAccessTable ==
  ASSUME NEW table \in Table, NEW u \in User
  PROVE  LET new == WithoutAccess(table, u)
         IN  /\ new \in Table
             /\ Users(new) = Users(table)
             /\ \A v \in Users(table) : /\ new[v].name = table[v].name
                                        /\ new[v].email = table[v].email
                                        /\ new[v].role = table[v].role
                                        /\ new[v].active => table[v].active
             /\ \A v \in User : v # u => new[v] = table[v]
<1> DEFINE new == WithoutAccess(table, u)
<1>1. CASE table[u] = NoUser
  BY <1>1 DEF WithoutAccess
<1>2. CASE table[u] # NoUser
  <2>1. table[u] \in Row
    BY <1>2 DEF Table
  <2>2. /\ new = [table EXCEPT ![u] = [table[u] EXCEPT !.active = FALSE]]
        /\ [table[u] EXCEPT !.active = FALSE] \in Row
    BY <1>2, <2>1 DEF WithoutAccess, Row
  <2>3. /\ new \in Table
        /\ \A v \in User : v # u => new[v] = table[v]
        /\ new[u] = [table[u] EXCEPT !.active = FALSE] /\ new[u] # NoUser
    BY <2>2, NoUserAssumption DEF Table
  <2>4. /\ new[u].name = table[u].name /\ new[u].email = table[u].email
        /\ new[u].role = table[u].role /\ new[u].active = FALSE
    BY <2>1, <2>3 DEF Row
  <2>5. QED
    BY <1>2, <2>3, <2>4 DEF Users
<1>3. QED
  BY <1>1, <1>2
==============================================================================
