----------------------------- MODULE ListingProofs -----------------------------
(***************************************************************************)
(* What a walk through a listing misses or repeats, for any numbers of     *)
(* tasks, users, pages and changes.  The argument counts the rows newer    *)
(* than a given one: as long as none leaves, a row that was not shown      *)
(* keeps as many before it as the client has received; as long as none     *)
(* comes, a row that was shown has fewer.                                  *)
(***************************************************************************)
EXTENDS Listing, FiniteSetTheorems, TLAPS

USE ItemAssumption, ClockAssumption, NullAssumption

Known == stayed \cup left \cup entered
Newer(x) == {y \in Listed : made[y] > made[x]}
Rank(x) == Cardinality(Newer(x))

\* Every row of a table has its created_at.
Made == \A t \in Task : row[t] # NoRow => made[t] # NoRow

\* What the ghosts say of the rows.
Seen ==
  walk # Idle =>
    /\ stayed \subseteq Listed /\ Listed \subseteq stayed \cup entered
    /\ \A x \in Known : made[x] # NoRow
    /\ walk.shown \subseteq Known /\ walk.twice \subseteq walk.shown

\* A row that was not shown is still ahead of the client.
Ahead ==
  walk # Idle =>
    \A x \in stayed \ walk.shown :
      \/ Tied(x)
      \/ \E y \in left : made[y] >= made[x]
      \/ ~walk.done /\ walk.offset <= Rank(x)

\* A row that was shown is behind him.
Behind ==
  walk # Idle =>
    \A x \in walk.shown :
      \/ Tied(x)
      \/ \E y \in entered : made[y] >= made[x]
      \/ Rank(x) < walk.offset

IInv == TypeOK /\ Made /\ Seen /\ Ahead /\ Behind /\ RepeatExplained

-----------------------------------------------------------------------------
\* What is listed can be counted and has created_at's to compare.
LEMMA ListedFacts ==
  ASSUME TypeOK, Made
  PROVE  /\ Listed \subseteq Item /\ IsFiniteSet(Listed)
         /\ \A x \in Listed : made[x] \in Int
         /\ \A x : IsFiniteSet(Newer(x)) /\ Rank(x) \in Nat
<1>1. Listed \subseteq Item /\ \A x \in Listed : made[x] # NoRow
  BY DEF Listed, Selected, Item, Made
<1>2. \A x \in Listed : made[x] \in Int
  BY <1>1 DEF TypeOK
<1>3. IsFiniteSet(Listed)
  BY <1>1, FS_Subset
<1>4. ASSUME NEW x PROVE IsFiniteSet(Newer(x)) /\ Rank(x) \in Nat
  <2>1. Newer(x) \subseteq Listed
    BY DEF Newer
  <2>2. IsFiniteSet(Newer(x))
    BY <1>3, <2>1, FS_Subset
  <2> QED
    BY <2>2, FS_CardinalityType DEF Rank
<1> QED
  BY <1>1, <1>2, <1>3, <1>4

\* Counting: a larger set, and one with another element.
LEMMA Larger ==
  ASSUME NEW S, NEW T, IsFiniteSet(T), S \subseteq T
  PROVE  /\ IsFiniteSet(S) /\ Cardinality(S) \in Nat /\ Cardinality(T) \in Nat
         /\ Cardinality(S) <= Cardinality(T)
         /\ S # T => Cardinality(S) < Cardinality(T)
<1>1. /\ IsFiniteSet(S) /\ Cardinality(S) <= Cardinality(T)
      /\ Cardinality(T) = Cardinality(S) => T = S
  BY FS_Subset
<1>2. Cardinality(S) \in Nat /\ Cardinality(T) \in Nat
  BY <1>1, FS_CardinalityType
<1> QED
  BY <1>1, <1>2

LEMMA Apart ==
  ASSUME NEW S, NEW T, IsFiniteSet(S), IsFiniteSet(T), S \cap T = {}
  PROVE  Cardinality(S \cup T) = Cardinality(S) + Cardinality(T)
<1>1. Cardinality(S \cup T) = Cardinality(S) + Cardinality(T) - Cardinality({})
  BY FS_Union
<1>2. Cardinality(S) \in Nat /\ Cardinality(T) \in Nat /\ Cardinality({}) = 0
  BY FS_CardinalityType, FS_EmptySet
<1> QED
  BY <1>1, <1>2

-----------------------------------------------------------------------------
(* A change of the tables.                                                 *)

\* Created_at's do not change, and a new row has one.
Grows ==
  /\ row' \in [Task -> Row \cup {NoRow}]
  /\ asg' \in [Task -> SUBSET User]
  /\ made' \in [Item -> 0..MaxClock \cup {NoRow}]
  /\ \A x \in Item : made[x] # NoRow => made'[x] = made[x]
  /\ Made'

LEMMA NoticeInv ==
  ASSUME IInv, Notice, Grows
  PROVE  IInv'
<1>1. TypeOK' /\ Made'
  <2>1. walk' = walk /\ clock' = clock
    BY DEF Notice
  <2>2. Listed' \subseteq Item /\ Listed \subseteq Item
    BY DEF Listed, Selected, Item
  <2> QED
    BY <2>1, <2>2 DEF IInv, TypeOK, Notice, Grows
<1>2. CASE walk = Idle
  BY <1>1, <1>2 DEF IInv, Notice, Seen, Ahead, Behind, RepeatExplained
<1>3. CASE walk # Idle
  <2>1. /\ walk' = walk
        /\ stayed' = stayed \cap Listed'
        /\ left' = left \cup (Listed \ Listed')
        /\ entered' = entered \cup (Listed' \ Listed)
    BY DEF Notice
  <2>2. /\ Listed \subseteq Item /\ IsFiniteSet(Listed)
        /\ \A x \in Listed : made[x] \in Int
        /\ \A x : IsFiniteSet(Newer(x)) /\ Rank(x) \in Nat
    BY ListedFacts DEF IInv
  <2>3. /\ Listed' \subseteq Item /\ IsFiniteSet(Listed')
        /\ \A x \in Listed' : made'[x] \in Int
        /\ \A x : IsFiniteSet(Newer(x)') /\ Rank(x)' \in Nat
    <3>1. /\ (Listed \subseteq Item)' /\ IsFiniteSet(Listed)'
          /\ (\A x \in Listed : made[x] \in Int)'
          /\ (\A x : IsFiniteSet(Newer(x)) /\ Rank(x) \in Nat)'
      BY <1>1, ListedFacts, PTL
    <3> QED
      BY <3>1
  <2>4. /\ Known \subseteq Known' /\ Known \subseteq Item
        /\ \A x \in Known : made'[x] = made[x] /\ made[x] \in Int
        /\ walk.shown \subseteq Known /\ walk.twice \subseteq walk.shown
        /\ stayed \subseteq Listed
    BY <1>3, <2>1 DEF IInv, TypeOK, Seen, Known, Grows
  <2>5. Seen'
    <3>1. Known' \subseteq Known \cup Listed'
      BY <1>3, <2>1, <2>4 DEF Known, IInv, Seen
    <3>2. \A x \in Known' : made'[x] # NoRow
      BY <2>3, <2>4, <3>1
    <3>3. stayed' \subseteq Listed' /\ Listed' \subseteq stayed' \cup entered'
      BY <1>3, <2>1 DEF IInv, Seen
    <3> QED
      BY <2>1, <2>4, <3>2, <3>3 DEF Seen
  <2>6. ASSUME NEW x \in Known
        PROVE  /\ Tied(x) => Tied(x)'
               /\ (\E y \in left : made[y] >= made[x])
                    => \E y \in left' : made'[y] >= made'[x]
               /\ (\E y \in entered : made[y] >= made[x])
                    => \E y \in entered' : made'[y] >= made'[x]
    BY <2>1, <2>4 DEF Tied, Known
  <2>7. Ahead'
    <3> SUFFICES ASSUME NEW x \in stayed' \ walk.shown,
                        walk.offset <= Rank(x), ~walk.done,
                        ~\E y \in left' : made'[y] >= made'[x]
                 PROVE  walk.offset <= Rank(x)'
      BY <1>3, <2>1, <2>6 DEF IInv, Ahead, Known
    <3>1. x \in Known
      BY <2>1 DEF Known
    <3>2. Newer(x) \subseteq Listed'
      BY <2>1, <2>2, <2>4, <3>1, <1>3 DEF Newer, Grows, IInv, Seen, Known
    <3>3. Newer(x) \subseteq Newer(x)'
      BY <2>2, <2>4, <3>1, <3>2, <1>3 DEF Newer, IInv, Seen, Known
    <3>4. Rank(x) <= Rank(x)'
      BY <2>3, <3>3, Larger DEF Rank
    <3> QED
      BY <2>2, <2>3, <3>4, <1>3 DEF IInv, TypeOK, Walk
  <2>8. Behind'
    <3> SUFFICES ASSUME NEW x \in walk.shown, Rank(x) < walk.offset,
                        ~\E y \in entered' : made'[y] >= made'[x]
                 PROVE  Rank(x)' < walk.offset
      BY <1>3, <2>1, <2>4, <2>6 DEF IInv, Behind
    <3>1. Newer(x)' \subseteq Listed
      BY <2>1, <2>3, <2>4 DEF Newer
    <3>2. Newer(x)' \subseteq Newer(x)
      BY <2>4, <3>1, <1>3 DEF Newer, IInv, Seen, Known
    <3>3. Rank(x)' <= Rank(x)
      BY <2>2, <3>2, Larger DEF Rank
    <3> QED
      BY <2>2, <2>3, <3>3, <1>3 DEF IInv, TypeOK, Walk
  <2>9. RepeatExplained'
    BY <1>3, <2>1, <2>4, <2>6 DEF IInv, RepeatExplained
  <2> QED
    BY <1>1, <2>5, <2>7, <2>8, <2>9 DEF IInv
<1> QED
  BY <1>2, <1>3

-----------------------------------------------------------------------------
(* A page.                                                                 *)

LEMMA NextPageInv ==
  ASSUME IInv, NextPage
  PROVE  IInv'
<1> DEFINE limit == PageSize(walk.table, walk.limit)
           off == walk.offset
<1>1. /\ walk # Idle /\ ~walk.done /\ walk \in Walk
      /\ limit \in Nat \ {0} /\ off \in Nat
  BY LimitAssumption DEF NextPage, IInv, TypeOK, PageSize, Walk
<1>2. PICK S \in SUBSET Listed, P \in SUBSET Listed :
        /\ Slice(limit, off, S, P)
        /\ walk' = [walk EXCEPT !.offset = @ + Cardinality(P), !.done = P = {},
                                !.shown = @ \cup P,
                                !.twice = @ \cup (walk.shown \cap P)]
        /\ UNCHANGED <<tables, clock, seen>>
  BY DEF NextPage
<1> HIDE DEF limit
<1>3. /\ Listed \subseteq Item /\ IsFiniteSet(Listed)
      /\ \A x \in Listed : made[x] \in Int
      /\ \A x : IsFiniteSet(Newer(x)) /\ Rank(x) \in Nat
  BY ListedFacts DEF IInv
<1>4. /\ P \subseteq Listed \ S
      /\ \A x \in S, y \in Listed \ S : made[x] >= made[y]
      /\ \A x \in P, y \in Listed \ (S \cup P) : made[x] >= made[y]
      /\ Cardinality(S) = off \/ (S = Listed /\ Cardinality(Listed) < off)
      /\ Cardinality(P) = limit \/ P = Listed \ S
  BY <1>2 DEF Slice, First, NotAfter
<1>5. /\ IsFiniteSet(S) /\ Cardinality(S) \in Nat
      /\ IsFiniteSet(P) /\ Cardinality(P) \in Nat
      /\ IsFiniteSet(S \cup P)
      /\ Cardinality(S \cup P) = Cardinality(S) + Cardinality(P)
  BY <1>3, <1>4, Larger, Apart
<1>6. /\ walk' \in Walk /\ walk' # Idle /\ walk'.offset = off + Cardinality(P)
      /\ walk'.done = (P = {}) /\ walk'.shown = walk.shown \cup P
      /\ walk'.twice = walk.twice \cup (walk.shown \cap P)
      /\ walk'.table = walk.table /\ walk'.filter = walk.filter
  <2>1. off + Cardinality(P) \in 0..Cardinality(Item)
    <3>1. Cardinality(S \cup P) <= Cardinality(Item) /\ Cardinality(Item) \in Nat
      BY <1>3, Larger
    <3>2. CASE P = {}
      BY <1>1, <3>2, FS_EmptySet DEF Walk
    <3>3. CASE P # {}
      BY <1>1, <1>4, <1>5, <3>1, <3>3
    <3> QED
      BY <3>2, <3>3
  <2>2. (P = {}) \in BOOLEAN /\ P \subseteq Item
    BY <1>3
  <2>3. walk' \in Walk
    BY <1>1, <1>2, <2>1, <2>2 DEF Walk
  <2> QED
    BY <1>1, <1>2, <2>3 DEF Walk
<1>7. /\ row' = row /\ asg' = asg /\ made' = made /\ clock' = clock
      /\ stayed' = stayed /\ left' = left /\ entered' = entered
  BY <1>2 DEF tables, seen
<1>8. Listed' = Listed
  BY <1>1, <1>6, <1>7 DEF Listed, Selected, Matches
<1>9. \A x : Tied(x)' = Tied(x) /\ Rank(x)' = Rank(x)
  BY <1>7, <1>8 DEF Tied, Rank, Newer
<1>10. Listed \subseteq Known /\ \A x \in Known : made[x] \in Int
  BY <1>1 DEF IInv, TypeOK, Seen, Known
\* Rows of one page and the skipped ones before it, next to a row not tied.
<1>11. ASSUME NEW x \in Known, ~Tied(x), NEW y \in Listed, y # x
       PROVE  made[y] # made[x]
  BY <1>10, <1>11 DEF Tied, Known
<1>12. TypeOK' /\ Made'
  BY <1>6, <1>7 DEF IInv, TypeOK, Made
<1>13. Seen'
  BY <1>1, <1>6, <1>7, <1>8, <1>10 DEF IInv, Seen, Known
<1>14. Ahead'
  <2> SUFFICES ASSUME NEW x \in stayed \ (walk.shown \cup P), ~Tied(x),
                      off <= Rank(x)
               PROVE  P # {} /\ off + Cardinality(P) <= Rank(x)
    BY <1>1, <1>6, <1>7, <1>9 DEF IInv, Ahead
  <2>1. x \in Known /\ x \in Listed
    BY <1>1 DEF Known, IInv, Seen
  <2>2. x \notin S
    <3> SUFFICES ASSUME x \in S PROVE FALSE
      OBVIOUS
    <3>1. Newer(x) \subseteq S \ {x}
      BY <1>3, <1>4, <2>1 DEF Newer
    <3>2. Rank(x) < Cardinality(S)
      <4>1. Newer(x) \subseteq S /\ Newer(x) # S
        BY <3>1
      <4> QED
        BY <4>1, <1>5, Larger DEF Rank
    <3> QED
      BY <1>1, <1>3, <1>4, <1>5, <3>2
  <2>3. Cardinality(S) = off /\ Cardinality(P) = limit
    BY <1>4, <2>1, <2>2
  <2>4. S \cup P \subseteq Newer(x)
    <3>1. \A y \in S \cup P : y \in Listed /\ y # x /\ made[y] >= made[x]
      BY <1>4, <2>1, <2>2
    <3> QED
      BY <3>1, <1>3, <1>11, <2>1 DEF Newer
  <2>5. Cardinality(S \cup P) <= Rank(x)
    BY <1>3, <2>4, Larger DEF Rank
  <2> QED
    BY <1>1, <1>5, <2>3, <2>5, FS_EmptySet
<1>15. ASSUME NEW x \in P PROVE Cardinality(S) = off /\ x \in Listed /\ x \notin S
  BY <1>4
<1>16. Behind'
  <2> SUFFICES ASSUME NEW x \in walk.shown \cup P,
                      x \in walk.shown => Rank(x) < off
               PROVE  Rank(x) < off + Cardinality(P)
    BY <1>1, <1>6, <1>7, <1>9 DEF IInv, Behind
  <2>1. CASE x \in walk.shown
    BY <1>1, <1>3, <1>5, <2>1
  <2>2. CASE x \in P
    <3>1. Newer(x) \subseteq (S \cup P) \ {x}
      BY <1>3, <1>4, <2>2 DEF Newer
    <3>2. Newer(x) \subseteq S \cup P /\ Newer(x) # S \cup P
      BY <3>1, <2>2
    <3>3. Rank(x) < Cardinality(S \cup P)
      BY <3>2, <1>5, Larger DEF Rank
    <3> QED
      BY <3>3, <1>5, <1>15, <2>2
  <2> QED
    BY <2>1, <2>2
<1>17. RepeatExplained'
  <2> SUFFICES ASSUME NEW x \in walk.shown \cap P, ~Tied(x), Rank(x) < off
               PROVE  FALSE
    BY <1>1, <1>6, <1>7, <1>9 DEF IInv, Behind, RepeatExplained
  <2>1. \A y \in S : y # x /\ y \in Listed /\ made[y] >= made[x]
    BY <1>4, <1>15
  <2>2. S \subseteq Newer(x)
    BY <2>1, <1>3, <1>10, <1>11, <1>15 DEF Newer
  <2>3. Cardinality(S) <= Rank(x)
    BY <1>3, <2>2, Larger DEF Rank
  <2> QED
    BY <1>1, <1>3, <1>15, <2>3
<1> QED
  BY <1>12, <1>13, <1>14, <1>16, <1>17 DEF IInv

-----------------------------------------------------------------------------
(* The other steps, and the theorems.                                      *)

\* The first page is still to come.
LEMMA BeginInv ==
  ASSUME IInv, NEW caller \in User, NEW table \in {"tasks", "users"},
         NEW f \in Filters, NEW limit \in Limits, Begin(caller, table, f, limit)
  PROVE  IInv'
<1>1. Asked(caller, table, f) \in Filter
  BY FilterAssumption DEF Asked, Scoped, Filter, NoFilter
<1>2. /\ walk' \in Walk /\ walk' # Idle /\ walk'.offset = 0 /\ walk'.done = FALSE
      /\ walk'.shown = {} /\ walk'.twice = {} /\ walk'.table = table
      /\ walk'.filter = Asked(caller, table, f)
      /\ row' = row /\ asg' = asg /\ made' = made /\ clock' = clock
      /\ left' = {} /\ entered' = {}
  <2>1. 0 \in 0..Cardinality(Item)
    BY FS_CardinalityType
  <2>2. walk' \in Walk
    BY <1>1, <2>1 DEF Begin, Walk
  <2> QED
    BY <2>2 DEF Begin, tables
<1>3. stayed' = Listed'
  BY <1>2 DEF Begin, Listed, Selected, Matches
<1>4. Made'
  BY <1>2 DEF IInv, Made
<1>5. stayed' \subseteq Item
  BY <1>3 DEF Listed, Selected, Item
<1>6. TypeOK'
  BY <1>2, <1>5 DEF IInv, TypeOK
<1>7. /\ (\A x \in Listed : made[x] \in Int)'
      /\ (\A x : IsFiniteSet(Newer(x)) /\ Rank(x) \in Nat)'
  BY <1>4, <1>6, ListedFacts, PTL
<1>8. Seen'
  BY <1>2, <1>3, <1>7 DEF Seen, Known
<1>9. Ahead' /\ Behind' /\ RepeatExplained'
  BY <1>2, <1>7 DEF Ahead, Behind, RepeatExplained
<1> QED
  BY <1>4, <1>6, <1>8, <1>9 DEF IInv

\* Everybody else's requests: what they do to the tables.
LEMMA Typed ==
  ASSUME IInv
  PROVE  /\ row \in [Task -> Row \cup {NoRow}] /\ asg \in [Task -> SUBSET User]
         /\ made \in [Item -> 0..MaxClock \cup {NoRow}] /\ clock \in 0..MaxClock
         /\ Task \subseteq Item /\ User \subseteq Item /\ Task \cap User = {}
         /\ Stamp \subseteq 0..MaxClock
  BY DEF IInv, TypeOK, Item, Stamp

LEMMA RegisterInv ==
  ASSUME IInv, NEW u \in User, Register(u)
  PROVE  IInv'
<1>1. PICK s \in Stamp : made' = [made EXCEPT ![u] = s]
  BY DEF Register
<1>2. made[u] = NoRow /\ row' = row /\ asg' = asg /\ Notice
  BY DEF Register
<1>3. Grows
  BY <1>1, <1>2, Typed DEF Grows, IInv, Made
<1> QED
  BY <1>2, <1>3, NoticeInv

LEMMA CreateInv ==
  ASSUME IInv, NEW u \in User, NEW t \in Task, Create(u, t)
  PROVE  IInv'
<1> DEFINE new == [owner |-> u, status |-> Pending]
<1>1. new \in Row
  BY StatusAssumption DEF Row
<1>2. PICK s \in Stamp : made' = [made EXCEPT ![t] = s] /\ row' = [row EXCEPT ![t] = new]
  BY DEF Create
<1> HIDE DEF new
<1>3. made[t] = NoRow /\ asg' = asg /\ Notice
  BY DEF Create
<1>4. /\ row' \in [Task -> Row \cup {NoRow}]
      /\ made' \in [Item -> 0..MaxClock \cup {NoRow}]
  BY <1>1, <1>2, Typed
<1>5. Made'
  BY <1>2, Typed DEF IInv, Made
<1>6. Grows
  BY <1>2, <1>3, <1>4, <1>5, Typed DEF Grows
<1> QED
  BY <1>3, <1>6, NoticeInv

LEMMA SetStatusInv ==
  ASSUME IInv, NEW t \in Task, NEW status \in Status, SetStatus(t, status)
  PROVE  IInv'
<1> DEFINE new == [row[t] EXCEPT !.status = status]
<1>1. /\ row' = [row EXCEPT ![t] = new]
      /\ row[t] # NoRow /\ asg' = asg /\ made' = made /\ Notice
  BY DEF SetStatus
<1>2. new \in Row
  BY <1>1, Typed DEF Row
<1> HIDE DEF new
<1>3. Grows
  BY <1>1, <1>2, Typed DEF Grows, IInv, Made
<1> QED
  BY <1>1, <1>3, NoticeInv

LEMMA DeleteInv ==
  ASSUME IInv, NEW t \in Task, Delete(t)
  PROVE  IInv'
<1>1. Grows /\ Notice
  BY Typed DEF Delete, Grows, IInv, Made
<1> QED
  BY <1>1, NoticeInv

LEMMA AssignInv ==
  ASSUME IInv, NEW t \in Task, NEW u \in User, Assign(t, u) \/ Unassign(t, u)
  PROVE  IInv'
<1>1. Grows /\ Notice
  BY Typed DEF Assign, Unassign, Grows, IInv, Made
<1> QED
  BY <1>1, NoticeInv

\* Steps that change nothing the invariant looks at but the clock.
LEMMA IdleInv ==
  ASSUME IInv, Tick \/ End \/ UNCHANGED vars
  PROVE  IInv'
<1>1. row' = row /\ asg' = asg /\ made' = made
  BY DEF Tick, End, vars, tables
<1>2. clock' \in 0..MaxClock
  BY DEF Tick, End, vars, IInv, TypeOK
<1>3. CASE walk' = walk /\ UNCHANGED seen
  <2>1. Listed' = Listed
    BY <1>1, <1>3 DEF Listed, Selected, Matches
  <2>2. \A x : Tied(x)' = Tied(x) /\ Rank(x)' = Rank(x)
    BY <1>1, <1>3, <2>1 DEF Tied, Rank, Newer, seen
  <2> QED
    BY <1>1, <1>2, <1>3, <2>1, <2>2
    DEF IInv, TypeOK, Made, Seen, Ahead, Behind, RepeatExplained, Known, seen
<1>4. CASE End
  BY <1>1, <1>2, <1>4
  DEF End, IInv, TypeOK, Made, Seen, Ahead, Behind, RepeatExplained
<1> QED
  BY <1>3, <1>4 DEF Tick, vars

\* The invariant holds in every reachable state.
THEOREM Invariance == Spec => []IInv
<1>1. Init => IInv
  BY DEF Init, IInv, TypeOK, Made, Seen, Ahead, Behind, RepeatExplained
<1>2. IInv /\ [Next]_vars => IInv'
  <2> SUFFICES ASSUME IInv, [Next]_vars PROVE IInv'
    OBVIOUS
  <2>2. CASE NextPage
    BY <2>2, NextPageInv
  <2>3. CASE Tick \/ End \/ UNCHANGED vars
    BY <2>3, IdleInv
  <2>4. ASSUME NEW caller \in User, NEW table \in {"tasks", "users"},
               NEW f \in Filters, NEW limit \in Limits, Begin(caller, table, f, limit)
        PROVE  IInv'
    BY <2>4, BeginInv
  <2>5. ASSUME NEW u \in User, Register(u) \/ \E t \in Task : Create(u, t)
        PROVE  IInv'
    BY <2>5, RegisterInv, CreateInv
  <2>6. ASSUME NEW t \in Task,
               \/ \E status \in Status : SetStatus(t, status)
               \/ Delete(t)
               \/ \E u \in User : Assign(t, u) \/ Unassign(t, u)
        PROVE  IInv'
    BY <2>6, SetStatusInv, DeleteInv, AssignInv
  <2> QED
    BY <2>2, <2>3, <2>4, <2>5, <2>6 DEF Next
<1> QED
  BY <1>1, <1>2, PTL DEF Spec

\* Every variable keeps its type; the client never receives more rows than
\* there are.
THEOREM TypeCorrect == Spec => []TypeOK
<1>1. IInv => TypeOK
  BY DEF IInv
<1> QED
  BY <1>1, Invariance, PTL

\* A row is missed only if a row at least as new left, or its second is shared.
THEOREM MissesExplained == Spec => []MissedExplained
<1>1. IInv => MissedExplained
  BY DEF IInv, Ahead, MissedExplained
<1> QED
  BY <1>1, Invariance, PTL

\* A row is repeated only if a row at least as new came, or its second is shared.
THEOREM RepeatsExplained == Spec => []RepeatExplained
<1>1. IInv => RepeatExplained
  BY DEF IInv
<1> QED
  BY <1>1, Invariance, PTL
=============================================================================
