---------------------------- MODULE Timetabling ----------------------------
(***************************************************************************)
(* What the scheduling engine works on (internal/scheduler/problem and     *)
(* constraints): problems, assignments, the solution with its index, and   *)
(* the hard constraints.  No state: the modules of the phases extend this  *)
(* one.                                                                    *)
(*                                                                         *)
(* Abstractions: a session requirement carries its offering's faculty,     *)
(* group and features; a room has its seats, its features and the slots in *)
(* which it is open; a time slot is its <<day, period>>; a compiled rule says which    *)
(* requirements it covers (those of its subject or of its offering).  Of   *)
(* the index, requirementCount and byID are left out: no constraint reads  *)
(* them.  References between catalogue rows are resolved.  A compiled      *)
(* instance of a built-in template asks again what the built-in asks.      *)
(***************************************************************************)
EXTENDS Integers, Sequences, FiniteSets

CONSTANTS
  NumRooms,   \* rooms 1..NumRooms, in the order of their ids
  Slots,      \* the weekly grid, <<day, period>>
  Faculty,
  Groups,     \* student groups
  Whole,      \* the whole-class group of each group's class
  Features,   \* room features
  Problems,   \* the problems handed to the engine
  None        \* an empty cell of the index

Rooms      == 1 .. NumRooms
Candidates == Rooms \X Slots
Modes      == {"BASIC", "HEURISTIC", "HEURISTIC_LCV"}

\* A group overlaps itself, its class's whole group and, if it is one, its subgroups.
GroupsOverlap(g, h) == g = h \/ g = Whole[h] \/ h = Whole[g]

\* Mutant: only the group itself is looked up in the index.
SameGroup(g) == {g}

Overlapping(g) == {h \in Groups : GroupsOverlap(g, h)}

Requirement == [faculty : Faculty, group : Groups, features : SUBSET Features,
                duration : Nat \ {0}, perWeek : Nat \ {0}]
Room        == [equipment : SUBSET Features, capacity : Nat, open : SUBSET Slots]

\* Ids are "requirement#instance"; <<0, n>> is an id of another form.
AssignmentIDs    == Nat \X Nat
Assignment(p)    == [id : AssignmentIDs, req : DOMAIN p.reqs, room : Rooms, slot : Slots]
Rule(p)          == [covers : SUBSET DOMAIN p.reqs, max : Nat \ {0}]

\* The catalogue of a problem is in order (rooms without seats and groups without students
\* are allowed), and the sessions of its requirements are in
\* the order decisionLess puts them in: the longest first, then by id.
WellFormed(p) ==
  /\ p.reqs \in Seq(Requirement)
  /\ \A r, q \in DOMAIN p.reqs : r < q => p.reqs[r].duration >= p.reqs[q].duration
  /\ p.rooms \in [Rooms -> Room]
  /\ p.sizes \in [Groups -> Nat]
  /\ p.free \in [Faculty -> SUBSET Slots]
  /\ p.locked \in Seq(Assignment(p))
  /\ IsFiniteSet(p.rules) /\ p.rules \subseteq Rule(p)
  /\ p.mode \in Modes
  /\ p.maxNodes \in Nat \ {0}

ASSUME GridAssumption ==
  /\ NumRooms \in Nat
  /\ IsFiniteSet(Slots) /\ Slots \subseteq Nat \X Nat
  /\ IsFiniteSet(Groups)
  /\ Whole \in [Groups -> Groups]
  /\ None \notin AssignmentIDs
ASSUME ProblemsAssumption == \A p \in Problems : WellFormed(p)

-----------------------------------------------------------------------------
(* Sessions in the grid. *)

Span(slot, duration) == {<<slot[1], slot[2] + i>> : i \in 0 .. duration - 1}

Fits(slot, duration) == Span(slot, duration) \subseteq Slots

FacultyOf(p, a) == p.reqs[a.req].faculty
GroupOf(p, a)   == p.reqs[a.req].group
Occupied(p, a)  == Span(a.slot, p.reqs[a.req].duration)

Available(p, a) ==
  Occupied(p, a) \subseteq Slots \cap p.free[FacultyOf(p, a)] \cap p.rooms[a.room].open

RoomCapacity(p, a) == p.sizes[GroupOf(p, a)] <= p.rooms[a.room].capacity

RoomHasFeatures(p, a) == p.reqs[a.req].features \subseteq p.rooms[a.room].equipment

\* What an assignment must satisfy by itself.
Suits(p, a) == Available(p, a) /\ RoomCapacity(p, a) /\ RoomHasFeatures(p, a)

\* Two sessions want a common slot of a common room, teacher or student.
Clash(p, a, b) ==
  /\ Occupied(p, a) \cap Occupied(p, b) # {}
  /\ \/ FacultyOf(p, a) = FacultyOf(p, b)
     \/ a.room = b.room
     \/ GroupsOverlap(GroupOf(p, a), GroupOf(p, b))

-----------------------------------------------------------------------------
(* The solution: the assignments in the order they were made, and for each *)
(* kind of resource the id that holds each of its slots.                   *)

Table(Resources) == [Resources \X Slots -> AssignmentIDs \cup {None}]

Solution(p) == [list    : Seq(Assignment(p)),
                faculty : Table(Faculty), room : Table(Rooms), group : Table(Groups)]

EmptySolution ==
  [list |-> << >>, faculty |-> [k \in Faculty \X Slots |-> None],
   room |-> [k \in Rooms \X Slots |-> None], group |-> [k \in Groups \X Slots |-> None]]

\* The cells an assignment takes.
FacultyCells(p, a) == {FacultyOf(p, a)} \X Occupied(p, a)
RoomCells(p, a)    == {a.room} \X Occupied(p, a)
GroupCells(p, a)   == {GroupOf(p, a)} \X Occupied(p, a)

Mark(table, cells, id) == [x \in DOMAIN table |-> IF x \in cells THEN id ELSE table[x]]

\* Mutant: only the cell of the first slot is emptied.
UnmarkStart(table, cells, id) ==
  [x \in DOMAIN table |->
     IF x \in cells /\ (\A y \in cells : x[2][2] <= y[2][2]) THEN None ELSE table[x]]

\* Remove empties the cells that bear the id, and only where the assignment lies.
Unmark(table, cells, id) ==
  [x \in DOMAIN table |-> IF x \in cells /\ table[x] = id THEN None ELSE table[x]]

\* What SolutionIndex.Add accepts: every cell it asks for is empty.
Addable(p, s, a) ==
  /\ Occupied(p, a) \subseteq Slots
  /\ \A x \in FacultyCells(p, a) : s.faculty[x] = None
  /\ \A x \in RoomCells(p, a) : s.room[x] = None
  /\ \A x \in Overlapping(GroupOf(p, a)) \X Occupied(p, a) : s.group[x] = None

Add(p, s, a) ==
  [list    |-> Append(s.list, a),
   faculty |-> Mark(s.faculty, FacultyCells(p, a), a.id),
   room    |-> Mark(s.room, RoomCells(p, a), a.id),
   group   |-> Mark(s.group, GroupCells(p, a), a.id)]

\* Mutant: the assignment leaves the index and stays in the list.
Unindex(p, s) ==
  LET a == s.list[Len(s.list)]
  IN [s EXCEPT !.faculty = Unmark(@, FacultyCells(p, a), a.id),
               !.room    = Unmark(@, RoomCells(p, a), a.id),
               !.group   = Unmark(@, GroupCells(p, a), a.id)]

RemoveLast(p, s) ==
  LET a == s.list[Len(s.list)]
  IN [list    |-> SubSeq(s.list, 1, Len(s.list) - 1),
      faculty |-> Unmark(s.faculty, FacultyCells(p, a), a.id),
      room    |-> Unmark(s.room, RoomCells(p, a), a.id),
      group   |-> Unmark(s.group, GroupCells(p, a), a.id)]

-----------------------------------------------------------------------------
(* The hard constraints, as the search asks them of a candidate. *)

\* Mutant: only the slot the session starts in is looked up.
TakenAtStart(table, resource, cells, id) ==
  \E c \in cells : /\ table[<<resource, c>>] \notin {id, None}
                   /\ \A e \in cells : c[2] <= e[2]

\* Only the first slot that is taken is looked at, and an assignment is never in
\* conflict with its own id.
Taken(table, resource, cells, id) ==
  \E c \in cells : /\ table[<<resource, c>>] \notin {id, None}
                   /\ \A e \in cells : e[2] < c[2] => table[<<resource, e>>] = None

FacultyConflict(p, s, a) == Taken(s.faculty, FacultyOf(p, a), Occupied(p, a), a.id)

RoomConflict(p, s, a) == Taken(s.room, a.room, Occupied(p, a), a.id)

StudentGroupConflict(p, s, a) ==
  \E g \in Overlapping(GroupOf(p, a)) : Taken(s.group, g, Occupied(p, a), a.id)

Conflicts(p, s, a) ==
  FacultyConflict(p, s, a) \/ RoomConflict(p, s, a) \/ StudentGroupConflict(p, s, a)

\* SubjectMaxPerDay on a partial solution: the sessions of all overlapping groups.
OnDay(p, s, rule, a) ==
  {k \in DOMAIN s.list : /\ s.list[k].id # a.id
                         /\ s.list[k].req \in rule.covers
                         /\ GroupsOverlap(GroupOf(p, s.list[k]), GroupOf(p, a))
                         /\ s.list[k].slot[1] = a.slot[1]}

RuleAllows(p, s, rule, a) ==
  a.req \in rule.covers => Cardinality(OnDay(p, s, rule, a)) + 1 <= rule.max

Consistent(p, s, a) ==
  /\ Suits(p, a)
  /\ ~Conflicts(p, s, a)
  /\ \A rule \in p.rules : RuleAllows(p, s, rule, a)

\* SubjectMaxPerDay on a complete solution: the sessions of exactly the same group.
Crowd(p, s, rule, a) ==
  {k \in DOMAIN s.list : /\ s.list[k].req \in rule.covers
                         /\ GroupOf(p, s.list[k]) = GroupOf(p, a)
                         /\ s.list[k].slot[1] = a.slot[1]}

RuleHolds(p, s, rule) ==
  \A k \in DOMAIN s.list :
    s.list[k].req \in rule.covers => Cardinality(Crowd(p, s, rule, s.list[k])) <= rule.max

\* With compiled rules only those are evaluated, otherwise the built-in constraints.
PassesFinalCheck(p, s) ==
  IF p.rules # {}
  THEN \A rule \in p.rules : RuleHolds(p, s, rule)
  ELSE \A k \in DOMAIN s.list : Suits(p, s.list[k]) /\ ~Conflicts(p, s, s.list[k])

-----------------------------------------------------------------------------
(* Locked sessions and the sessions left to place. *)

LockedCount(p, r) == Cardinality({k \in DOMAIN p.locked : p.locked[k].req = r})

\* Validate, on the locked assignments.
LockedValid(p) ==
  /\ \A k \in DOMAIN p.locked : Suits(p, p.locked[k])
  /\ \A k, j \in DOMAIN p.locked :
       k < j => p.locked[k].id # p.locked[j].id /\ ~Clash(p, p.locked[k], p.locked[j])
  /\ \A r \in DOMAIN p.reqs : LockedCount(p, r) <= p.reqs[r].perWeek

\* The instances that are left are counted from the number of locked sessions on.
Decisions(p) ==
  UNION {{r} \X (LockedCount(p, r) .. p.reqs[r].perWeek - 1) : r \in DOMAIN p.reqs}

Assign(d, value) == [id |-> d, req |-> d[1], room |-> value[1], slot |-> value[2]]

-----------------------------------------------------------------------------
(* What a feasible timetable is, without a search or an index: f gives     *)
(* every session that is not locked a candidate.                           *)

Works(p, f) ==
  LET at(d) == Assign(d, f[d])
      lockedOn(rule, g, day) ==
        {k \in DOMAIN p.locked : /\ p.locked[k].req \in rule.covers
                                 /\ GroupOf(p, p.locked[k]) = g
                                 /\ p.locked[k].slot[1] = day}
      placedOn(rule, g, day) ==
        {d \in Decisions(p) : /\ d[1] \in rule.covers
                              /\ GroupOf(p, at(d)) = g
                              /\ f[d][2][1] = day}
  IN /\ \A d \in Decisions(p) : Suits(p, at(d))
     /\ \A d, e \in Decisions(p) : d # e => ~Clash(p, at(d), at(e))
     /\ \A d \in Decisions(p), k \in DOMAIN p.locked : ~Clash(p, at(d), p.locked[k])
     /\ \A rule \in p.rules, g \in Groups, slot \in Slots :
          Cardinality(lockedOn(rule, g, slot[1])) + Cardinality(placedOn(rule, g, slot[1]))
            <= rule.max

Solvable(p) == \E f \in [Decisions(p) -> Candidates] : Works(p, f)

\* No locked session bears the id of a session that is to be placed.
DistinctIds(p) == \A k \in DOMAIN p.locked : p.locked[k].id \notin Decisions(p)

\* No rule covers two different groups with students in common.
RulesByGroup(p) ==
  \A rule \in p.rules : \A r, q \in rule.covers :
    GroupsOverlap(p.reqs[r].group, p.reqs[q].group) => p.reqs[r].group = p.reqs[q].group
=============================================================================
