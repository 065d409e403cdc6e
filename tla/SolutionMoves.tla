--------------------------- MODULE SolutionMoves ---------------------------
(***************************************************************************)
(* Moves and swaps of a solution, applied and undone in place with its     *)
(* index (internal/scheduler/problem/move.go, localsearch/candidate.go),   *)
(* and the index rebuilt from assignments alone (solution.go).             *)
(*                                                                         *)
(* A move is a sequence of one change (a single move) or two (a swap); a   *)
(* change takes an assignment from a placement to another.  Of the index,  *)
(* requirementCount and byID are left out as in Timetabling: they only     *)
(* repeat the list.                                                        *)
(***************************************************************************)
EXTENDS Timetabling

Placement(a) == <<a.room, a.slot>>

PlacedAt(a, where) == [a EXCEPT !.room = where[1], !.slot = where[2]]

Change(p) == [id : AssignmentIDs, req : DOMAIN p.reqs, from : Candidates, to : Candidates]

\* The change that takes an assignment to another placement.
ChangeOf(a, to) == [id |-> a.id, req |-> a.req, from |-> Placement(a), to |-> to]

IsLocked(p, id) == \E k \in DOMAIN p.locked : p.locked[k].id = id

\* Where an assignment stands in the list; only a locked session's id can occur twice.
Position(list, id) ==
  CHOOSE k \in DOMAIN list : list[k].id = id /\ \A j \in 1 .. k - 1 : list[j].id # id

Present(list, id) == \E k \in DOMAIN list : list[k].id = id

\* The slots a session takes in the index: none if it does not fit in the grid.
Held(p, a) == IF Occupied(p, a) \subseteq Slots THEN Occupied(p, a) ELSE {}

-----------------------------------------------------------------------------
(* One assignment leaves the index or enters it. *)

\* Only the cells that bear the assignment's id are emptied.
UnindexAssignment(p, s, a) ==
  [s EXCEPT !.faculty = Unmark(@, {FacultyOf(p, a)} \X Held(p, a), a.id),
            !.room    = Unmark(@, {a.room} \X Held(p, a), a.id),
            !.group   = Unmark(@, {GroupOf(p, a)} \X Held(p, a), a.id)]

MarkFree(table, cells, id) ==
  [x \in DOMAIN table |-> IF x \in cells /\ table[x] = None THEN id ELSE table[x]]

\* A cell that has an owner keeps it.
IndexAssignment(p, s, a) ==
  [s EXCEPT !.faculty = MarkFree(@, {FacultyOf(p, a)} \X Held(p, a), a.id),
            !.room    = MarkFree(@, {a.room} \X Held(p, a), a.id),
            !.group   = MarkFree(@, {GroupOf(p, a)} \X Held(p, a), a.id)]

-----------------------------------------------------------------------------
(* Moves: every assignment concerned leaves the index before one enters.   *)

\* The solution with the assignments of the changes where the function says.
Relocate(p, s, move, where) ==
  LET pos(i)   == Position(s.list, move[i].id)
      before   == [i \in DOMAIN move |-> s.list[pos(i)]]
      after    == [i \in DOMAIN move |-> PlacedAt(before[i], where[i])]
      cleared  == IF Len(move) = 1 THEN UnindexAssignment(p, s, before[1])
                  ELSE UnindexAssignment(p, UnindexAssignment(p, s, before[1]), before[2])
      moved    == [cleared EXCEPT !.list =
                     [k \in DOMAIN s.list |->
                        IF \E i \in DOMAIN move : pos(i) = k
                        THEN after[CHOOSE i \in DOMAIN move : pos(i) = k] ELSE s.list[k]]]
  IN IF Len(move) = 1 THEN IndexAssignment(p, moved, after[1])
     ELSE IndexAssignment(p, IndexAssignment(p, moved, after[1]), after[2])

\* What ApplyMove and ApplySwap check before they change anything.
Appliable(p, s, move) ==
  /\ \A i, j \in DOMAIN move : i # j => move[i].id # move[j].id
  /\ \A i \in DOMAIN move :
       /\ ~IsLocked(p, move[i].id)
       /\ Present(s.list, move[i].id)
       /\ Placement(s.list[Position(s.list, move[i].id)]) = move[i].from

Apply(p, s, move) == Relocate(p, s, move, [i \in DOMAIN move |-> move[i].to])

\* Mutant: the assignments go back and the index keeps them where they were tried.
UndoList(p, s, move) ==
  [s EXCEPT !.list = Relocate(p, s, move, [i \in DOMAIN move |-> move[i].from]).list]

Undo(p, s, move) == Relocate(p, s, move, [i \in DOMAIN move |-> move[i].from])

-----------------------------------------------------------------------------
(* The index as a function of the assignments. *)

\* BuildIndexFromAssignments: the last assignment on a cell owns it.
Owner(list, holds) ==
  IF holds = {} THEN None ELSE list[CHOOSE k \in holds : \A j \in holds : j <= k].id

BuildIndex(p, list) ==
  [list    |-> list,
   faculty |-> [x \in Faculty \X Slots |->
                  Owner(list, {k \in DOMAIN list : x \in {FacultyOf(p, list[k])} \X Held(p, list[k])})],
   room    |-> [x \in Rooms \X Slots |->
                  Owner(list, {k \in DOMAIN list : x \in {list[k].room} \X Held(p, list[k])})],
   group   |-> [x \in Groups \X Slots |->
                  Owner(list, {k \in DOMAIN list : x \in {GroupOf(p, list[k])} \X Held(p, list[k])})]]

\* No two sessions of a list want one slot of a common resource.
KeptApart(p, list) == \A k, j \in DOMAIN list : k < j => ~Clash(p, list[k], list[j])
=============================================================================
