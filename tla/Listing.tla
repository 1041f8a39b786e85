-------------------------------- MODULE Listing --------------------------------
(***************************************************************************)
(* GET /tasks, ListTasks and GET /users: a client walks through a listing, *)
(* newest first, page by page with LIMIT and OFFSET, while other requests  *)
(* change the tables under it.  created_at has whole seconds and is the    *)
(* only sort key, so rows of one second come back in any order, another    *)
(* one on each page.                                                       *)
(***************************************************************************)
EXTENDS Integers, FiniteSets

CONSTANTS
  Task, User,   \* ids
  Admin,        \* the users with the admin role
  Status, Pending,  \* values of tasks.status, and the one a task is created with
  Filters,      \* the filters clients give
  Limits,       \* the limits clients ask for
  Default,      \* the page size when none is asked for: 50
  Most,         \* the largest page of users: 200
  MaxClock,     \* bound: seconds that pass
  NoRow, Unset, Idle  \* no such row, a filter not given, nobody is walking

Item == Task \cup User

ASSUME ItemAssumption == IsFiniteSet(Item) /\ Task \cap User = {}
ASSUME UserAssumption == Admin \subseteq User /\ Unset \notin User
ASSUME StatusAssumption == Pending \in Status
ASSUME LimitAssumption ==
  Limits \subseteq Int /\ Default \in Nat \ {0} /\ Most \in Nat
ASSUME ClockAssumption == MaxClock \in Nat /\ NoRow \notin Int

VARIABLES
  row,    \* the tasks there are, with owner and status
  asg,    \* each task's assignees
  made,   \* created_at of each task and user that ever was
  clock,  \* the present second
  walk,   \* the client's listing
  \* What happened to the listing since the walk began, for the properties.
  stayed, \* rows listed at every moment
  left,   \* rows that were listed and ceased to be
  entered \* rows that were not listed and came to be

tables == <<row, asg, made>>
seen == <<stayed, left, entered>>
vars == <<tables, clock, walk, seen>>

Row == [owner : User, status : Status]
Filter == [owner : User \cup {Unset}, assignee : User \cup {Unset},
           status : Status \cup {Unset}]
NoFilter == [owner |-> Unset, assignee |-> Unset, status |-> Unset]
ASSUME FilterAssumption == Filters \subseteq Filter

\* offset is how many rows the client has received.
Walk == [table : {"tasks", "users"}, filter : Filter, limit : Limits,
         offset : 0..Cardinality(Item), done : BOOLEAN,
         shown : SUBSET Item, twice : SUBSET Item]

ASSUME NullAssumption == NoRow \notin Row /\ Idle \notin Walk

TypeOK ==
  /\ row \in [Task -> Row \cup {NoRow}]
  /\ asg \in [Task -> SUBSET User]
  /\ made \in [Item -> 0..MaxClock \cup {NoRow}]
  /\ clock \in 0..MaxClock
  /\ walk \in Walk \cup {Idle}
  /\ stayed \subseteq Item /\ left \subseteq Item /\ entered \subseteq Item

Init ==
  /\ row = [t \in Task |-> NoRow]
  /\ asg = [t \in Task |-> {}]
  /\ made = [x \in Item |-> NoRow]
  /\ clock = 0
  /\ walk = Idle
  /\ stayed = {} /\ left = {} /\ entered = {}

-----------------------------------------------------------------------------
(* The listing.                                                            *)

\* WHERE, and the JOIN with task_assignments; users are not filtered.
Matches(t, f) ==
  /\ f.owner \in {Unset, row[t].owner}
  /\ f.assignee = Unset \/ f.assignee \in asg[t]
  /\ f.status \in {Unset, row[t].status}
Selected(table, f) ==
  IF table = "users" THEN {u \in User : made[u] # NoRow}
  ELSE {t \in Task : row[t] # NoRow /\ Matches(t, f)}
Listed == IF walk = Idle THEN {} ELSE Selected(walk.table, walk.filter)

\* ORDER BY created_at DESC: no row of S comes after one of T.
MutNotAfter(S, T) == \A x \in S, y \in T : made[x] <= made[y] \* no DESC
NotAfter(S, T) == \A x \in S, y \in T : made[x] >= made[y]

\* S is the first n rows of T, or all of T when it has fewer.
First(n, S, T) ==
  /\ S \subseteq T /\ NotAfter(S, T \ S)
  /\ Cardinality(S) = n \/ (S = T /\ Cardinality(T) < n)

\* LIMIT limit OFFSET offset: page follows the rows that are skipped.
MutSlice(limit, offset, skipped, page) == \* the arguments are swapped
  First(limit, skipped, Listed) /\ First(offset, page, Listed \ skipped)
MutSliceFromStart(limit, offset, skipped, page) == \* no OFFSET
  skipped = {} /\ First(limit, page, Listed)
Slice(limit, offset, skipped, page) ==
  First(offset, skipped, Listed) /\ First(limit, page, Listed \ skipped)

\* What List makes of the limit it is given.
PageSize(table, limit) ==
  IF limit <= 0 \/ (table = "users" /\ limit > Most) THEN Default ELSE limit

\* Without a filter, those who are not admins see their own tasks.
Scoped(caller, f) ==
  IF caller \notin Admin /\ f.owner = Unset /\ f.assignee = Unset
  THEN [f EXCEPT !.owner = caller] ELSE f

\* Everybody lists all users.
Asked(caller, table, f) == IF table = "users" THEN NoFilter ELSE Scoped(caller, f)

-----------------------------------------------------------------------------
(* The client, who asks for page after page until one is empty.            *)

Begin(caller, table, f, limit) ==
  /\ walk = Idle
  /\ made[caller] # NoRow
  /\ LET filter == Asked(caller, table, f)
     IN  /\ walk' = [table |-> table, limit |-> limit, offset |-> 0, done |-> FALSE,
                     filter |-> filter, shown |-> {}, twice |-> {}]
         /\ stayed' = Selected(table, filter) /\ left' = {} /\ entered' = {}
  /\ UNCHANGED <<tables, clock>>

NextPage ==
  /\ walk # Idle /\ ~walk.done
  /\ \E skipped \in SUBSET Listed, page \in SUBSET Listed :
       /\ Slice(PageSize(walk.table, walk.limit), walk.offset, skipped, page)
       /\ walk' = [walk EXCEPT !.offset = @ + Cardinality(page), !.done = page = {},
                               !.shown = @ \cup page,
                               !.twice = @ \cup (walk.shown \cap page)]
  /\ UNCHANGED <<tables, clock, seen>>

End ==
  /\ walk # Idle /\ walk.done
  /\ walk' = Idle
  /\ stayed' = {} /\ left' = {} /\ entered' = {}
  /\ UNCHANGED <<tables, clock>>

-----------------------------------------------------------------------------
(* Everybody else.                                                         *)

Tick ==
  /\ clock < MaxClock
  /\ clock' = clock + 1
  /\ UNCHANGED <<tables, walk, seen>>

\* What the walk makes of a change of the tables.
Notice ==
  /\ UNCHANGED <<clock, walk>>
  /\ stayed' = stayed \cap Listed'
  /\ left' = left \cup (Listed \ Listed')
  /\ entered' = entered \cup (Listed' \ Listed)

\* DEFAULT CURRENT_TIMESTAMP is when the INSERT began; a row of the second
\* before may appear after one of this second.
Stamp == {clock - 1, clock} \cap Nat

Register(u) ==
  /\ made[u] = NoRow
  /\ \E s \in Stamp : made' = [made EXCEPT ![u] = s]
  /\ UNCHANGED <<row, asg>>
  /\ Notice

Create(u, t) ==
  /\ made[u] # NoRow /\ made[t] = NoRow
  /\ \E s \in Stamp :
       /\ row' = [row EXCEPT ![t] = [owner |-> u, status |-> Pending]]
       /\ made' = [made EXCEPT ![t] = s]
  /\ UNCHANGED asg
  /\ Notice

SetStatus(t, status) ==
  /\ row[t] # NoRow
  /\ row' = [row EXCEPT ![t].status = status]
  /\ UNCHANGED <<asg, made>>
  /\ Notice

Delete(t) ==
  /\ row[t] # NoRow
  /\ row' = [row EXCEPT ![t] = NoRow]
  /\ asg' = [asg EXCEPT ![t] = {}]
  /\ UNCHANGED made
  /\ Notice

Assign(t, u) ==
  /\ row[t] # NoRow /\ made[u] # NoRow
  /\ asg' = [asg EXCEPT ![t] = @ \cup {u}]
  /\ UNCHANGED <<row, made>>
  /\ Notice

Unassign(t, u) ==
  /\ u \in asg[t]
  /\ asg' = [asg EXCEPT ![t] = @ \ {u}]
  /\ UNCHANGED <<row, made>>
  /\ Notice

Next ==
  \/ \E caller \in User, table \in {"tasks", "users"}, f \in Filters, limit \in Limits :
       Begin(caller, table, f, limit)
  \/ NextPage
  \/ End
  \/ Tick
  \/ \E u \in User : Register(u) \/ (\E t \in Task : Create(u, t))
  \/ \E t \in Task :
       \/ \E status \in Status : SetStatus(t, status)
       \/ Delete(t)
       \/ \E u \in User : Assign(t, u) \/ Unassign(t, u)

Spec == Init /\ [][Next]_vars

-----------------------------------------------------------------------------
(* A row's place among the others is in doubt when one of them that was    *)
(* listed during the walk has its created_at.                              *)
Tied(x) == \E y \in (stayed \cup left \cup entered) \ {x} : made[y] = made[x]

\* A complete walk misses a row that was there all the time only when a row at
\* least as new left the listing meanwhile, so that the others moved up across
\* the page boundary, or when the row's second has several (task_repo.go:95).
MissedExplained ==
  walk # Idle /\ walk.done =>
    \A x \in stayed \ walk.shown :
      Tied(x) \/ (\E y \in left : made[y] >= made[x])

\* A row is shown twice only when a row at least as new, perhaps itself, came
\* into the listing during the walk, or when its second has several.
RepeatExplained ==
  walk # Idle =>
    \A x \in walk.twice :
      Tied(x) \/ (\E y \in entered : made[y] >= made[x])
=============================================================================
