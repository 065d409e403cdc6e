------------------------- MODULE BacktrackingProofs -------------------------
(***************************************************************************)
(* Proofs about Backtracking, for any problems over any finite grid.       *)
(*                                                                         *)
(* The state of the search is type correct only because the stack and the  *)
(* list of assignments move together (Top exists while a call runs, its    *)
(* selected session is one that is left), and they move together whatever  *)
(* the constraints say, so TypeOK and OneSessionPerCall are proved as one. *)
(* The index joins them: a placement writes cells AddAssignment has seen   *)
(* empty, hence each cell has one taker, hence emptying the cells of the   *)
(* last assignment takes nothing from another.  From the three follows     *)
(* that the id of a session that is being placed is nowhere in the index,  *)
(* where the constraints would be blind to it.                             *)
(***************************************************************************)
EXTENDS Backtracking, TLAPS, FiniteSetTheorems, SequenceTheorems, WellFoundedInduction

-----------------------------------------------------------------------------
(* Types of the operators. *)

\* Locked sessions can be counted.
LEMMA LockedCountType ==
  ASSUME NEW p \in Problems, NEW r
  PROVE  LockedCount(p, r) \in Nat
<1>1. IsFiniteSet(DOMAIN p.locked)
  <2>1. p.locked \in Seq(Assignment(p))
    BY ProblemsAssumption DEF WellFormed
  <2> QED
    BY <2>1, FS_Interval, LenProperties
<1>2. {k \in DOMAIN p.locked : p.locked[k].req = r} \in SUBSET DOMAIN p.locked
  OBVIOUS
<1> QED
  BY <1>1, <1>2, FS_Subset, FS_CardinalityType DEF LockedCount

\* The rows of a problem have their types.
LEMMA ReqsType ==
  ASSUME NEW p \in Problems
  PROVE  /\ \A r \in DOMAIN p.reqs : r \in Nat /\ p.reqs[r] \in Requirement
         /\ p.locked \in Seq(Assignment(p))
         /\ p.maxNodes \in Nat \ {0}
<1>1. p.reqs \in Seq(Requirement) /\ p.locked \in Seq(Assignment(p)) /\ p.maxNodes \in Nat \ {0}
  BY ProblemsAssumption DEF WellFormed
<1> QED
  BY <1>1, ElementOfSeq, LenProperties

\* A session to place is an id and names a requirement.
LEMMA DecisionsType ==
  ASSUME NEW p \in Problems, NEW d \in Decisions(p)
  PROVE  d \in AssignmentIDs /\ d[1] \in DOMAIN p.reqs
<1>1. PICK r \in DOMAIN p.reqs : d \in {r} \X (LockedCount(p, r) .. p.reqs[r].perWeek - 1)
  BY DEF Decisions
<1>2. r \in Nat /\ p.reqs[r].perWeek \in Nat /\ LockedCount(p, r) \in Nat
  BY ReqsType, LockedCountType DEF Requirement
<1> QED
  BY <1>1, <1>2 DEF AssignmentIDs

\* A session placed at a candidate is an assignment.
LEMMA AssignType ==
  ASSUME NEW p \in Problems, NEW d \in Decisions(p), NEW v \in Candidates
  PROVE  Assign(d, v) \in Assignment(p)
BY DecisionsType DEF Assign, Assignment, Candidates

\* Marking and unmarking cells keep the type of a table.
LEMMA MarkType ==
  ASSUME NEW R, NEW table \in Table(R), NEW cells, NEW id \in AssignmentIDs
  PROVE  Mark(table, cells, id) \in Table(R) /\ Unmark(table, cells, id) \in Table(R)
BY DEF Table, Mark, Unmark

\* AddAssignment keeps the type of a solution and appends to its list.
LEMMA AddType ==
  ASSUME NEW p, NEW s \in Solution(p), NEW a \in Assignment(p)
  PROVE  /\ Add(p, s, a) \in Solution(p)
         /\ Add(p, s, a).list = Append(s.list, a)
<1>1. a.id \in AssignmentIDs
  BY DEF Assignment
<1>2. /\ Mark(s.faculty, FacultyCells(p, a), a.id) \in Table(Faculty)
      /\ Mark(s.room, RoomCells(p, a), a.id) \in Table(Rooms)
      /\ Mark(s.group, GroupCells(p, a), a.id) \in Table(Groups)
  BY <1>1, MarkType DEF Solution
<1>3. Append(s.list, a) \in Seq(Assignment(p))
  BY AppendProperties DEF Solution
<1> QED
  BY <1>2, <1>3 DEF Add, Solution

\* RemoveLastAssignment keeps the type and drops the last of the list.
LEMMA RemoveType ==
  ASSUME NEW p, NEW s \in Solution(p), s.list # << >>
  PROVE  /\ RemoveLast(p, s) \in Solution(p)
         /\ RemoveLast(p, s).list = SubSeq(s.list, 1, Len(s.list) - 1)
<1> DEFINE a == s.list[Len(s.list)]
<1>1. s.list \in Seq(Assignment(p)) /\ Len(s.list) \in Nat \ {0}
  BY EmptySeq DEF Solution
<1>2. a \in Assignment(p) /\ SubSeq(s.list, 1, Len(s.list) - 1) \in Seq(Assignment(p))
  BY <1>1, ElementOfSeq, SubSeqProperties
<1>3. a.id \in AssignmentIDs
  BY <1>2 DEF Assignment
<1>4. /\ Unmark(s.faculty, FacultyCells(p, a), a.id) \in Table(Faculty)
      /\ Unmark(s.room, RoomCells(p, a), a.id) \in Table(Rooms)
      /\ Unmark(s.group, GroupCells(p, a), a.id) \in Table(Groups)
  BY <1>3, MarkType DEF Solution
<1> QED
  BY <1>2, <1>4 DEF RemoveLast, Solution

\* The empty solution is one.
LEMMA EmptyType ==
  ASSUME NEW p
  PROVE  EmptySolution \in Solution(p) /\ EmptySolution.list = << >>
<1>1. << >> \in Seq(Assignment(p))
  BY EmptySeq
<1> QED
  BY <1>1 DEF EmptySolution, Solution, Table

\* Domains stay sets of candidates.
LEMMA DomainsType ==
  ASSUME NEW p \in Problems, NEW s, NEW left,
         NEW domains \in [Decisions(p) -> SUBSET Candidates]
  PROVE  /\ Prune(p, s, left, domains) \in [Decisions(p) -> SUBSET Candidates]
         /\ InitialDomains(p, s) \in [Decisions(p) -> SUBSET Candidates]
<1>1. \A l, f : f \in [Decisions(p) -> SUBSET Candidates] =>
              Prune(p, s, l, f) \in [Decisions(p) -> SUBSET Candidates]
  BY DEF Prune
<1>2. [d \in Decisions(p) |-> Fitting(p, d)] \in [Decisions(p) -> SUBSET Candidates]
  BY DEF Fitting
<1> QED
  BY <1>1, <1>2 DEF InitialDomains

-----------------------------------------------------------------------------
(* The index: one table, then the three of them. *)

\* Marking free cells for a new assignment keeps a table in agreement with the list.
LEMMA MarkReflects ==
  ASSUME NEW p, NEW table, NEW list \in Seq(Assignment(p)), NEW a \in Assignment(p),
         NEW old, NEW new,
         \A k \in DOMAIN list : new[k] = old[k],
         \A x \in DOMAIN table : x \in new[Len(list) + 1] => table[x] = None,
         Reflects(table, list, old)
  PROVE  Reflects(Mark(table, new[Len(list) + 1], a.id), Append(list, a), new)
<1> DEFINE n == Len(list) + 1
           longer == Append(list, a)
           marked == Mark(table, new[n], a.id)
<1>1. /\ Len(list) \in Nat /\ DOMAIN list = 1 .. Len(list) /\ DOMAIN longer = 1 .. n
      /\ \A k \in DOMAIN list : longer[k] = list[k] /\ list[k].id # None
      /\ longer[n] = a
  <2>1. /\ Len(list) \in Nat /\ DOMAIN list = 1 .. Len(list) /\ DOMAIN longer = 1 .. n
        /\ \A k \in DOMAIN list : longer[k] = list[k] /\ list[k] \in Assignment(p)
        /\ longer[n] = a
    BY AppendProperties, LenProperties, ElementOfSeq
  <2> QED
    BY <2>1, GridAssumption DEF Assignment
<1>2. DOMAIN marked = DOMAIN table
  BY DEF Mark
<1> SUFFICES ASSUME NEW x \in DOMAIN table
             PROVE  \/ marked[x] = None /\ \A k \in DOMAIN longer : x \notin new[k]
                    \/ \E k \in DOMAIN longer :
                         /\ x \in new[k] /\ marked[x] = longer[k].id
                         /\ \A j \in DOMAIN longer : x \in new[j] => j = k
  BY <1>2 DEF Reflects
<1>3. CASE x \in new[n]
  <2>1. \A k \in DOMAIN list : x \notin new[k]
    BY <1>1, <1>3 DEF Reflects
  <2>2. marked[x] = a.id
    BY <1>3 DEF Mark
  <2> QED
    BY <1>1, <1>3, <2>1, <2>2
<1>4. CASE x \notin new[n]
  <2>1. marked[x] = table[x]
    BY <1>4 DEF Mark
  <2>2. \A k \in DOMAIN longer : k \in DOMAIN list \/ k = n
    BY <1>1
  <2>3. CASE table[x] = None /\ \A k \in DOMAIN list : x \notin old[k]
    BY <1>4, <2>1, <2>2, <2>3
  <2>4. CASE \E k \in DOMAIN list : /\ x \in old[k] /\ table[x] = list[k].id
                                    /\ \A j \in DOMAIN list : x \in old[j] => j = k
    BY <1>1, <1>4, <2>1, <2>2, <2>4
  <2> QED
    BY <2>3, <2>4 DEF Reflects
<1> QED
  BY <1>3, <1>4

\* Emptying the cells of the last assignment keeps a table in agreement with the list.
LEMMA UnmarkReflects ==
  ASSUME NEW p, NEW table, NEW list \in Seq(Assignment(p)), list # << >>,
         NEW old, NEW new,
         \A k \in 1 .. Len(list) - 1 : new[k] = old[k],
         Reflects(table, list, old)
  PROVE  Reflects(Unmark(table, old[Len(list)], list[Len(list)].id),
                  SubSeq(list, 1, Len(list) - 1), new)
<1> DEFINE n == Len(list)
           shorter == SubSeq(list, 1, n - 1)
           emptied == Unmark(table, old[n], list[n].id)
<1>1. /\ n \in Nat \ {0} /\ DOMAIN list = 1 .. n /\ DOMAIN shorter = 1 .. n - 1
      /\ \A k \in 1 .. n - 1 : shorter[k] = list[k]
  <2>1. n \in Nat \ {0} /\ DOMAIN list = 1 .. n
    BY EmptySeq, LenProperties
  <2>2. \A k \in 1 .. n - 1 : list[k] \in Assignment(p)
    BY <2>1, ElementOfSeq
  <2> QED
    BY <2>1, <2>2, SubSeqProperties, LenProperties
<1>2. DOMAIN emptied = DOMAIN table
  BY DEF Unmark
<1> SUFFICES ASSUME NEW x \in DOMAIN table
             PROVE  \/ emptied[x] = None /\ \A k \in DOMAIN shorter : x \notin new[k]
                    \/ \E k \in DOMAIN shorter :
                         /\ x \in new[k] /\ emptied[x] = shorter[k].id
                         /\ \A j \in DOMAIN shorter : x \in new[j] => j = k
  BY <1>2 DEF Reflects
<1>3. CASE x \in old[n]
  <2>1. table[x] = list[n].id /\ \A j \in DOMAIN list : x \in old[j] => j = n
    BY <1>1, <1>3 DEF Reflects
  <2>2. emptied[x] = None
    BY <1>3, <2>1 DEF Unmark
  <2> QED
    BY <1>1, <2>1, <2>2
<1>4. CASE x \notin old[n]
  <2>1. emptied[x] = table[x]
    BY <1>4 DEF Unmark
  <2>2. CASE table[x] = None /\ \A k \in DOMAIN list : x \notin old[k]
    BY <1>1, <2>1, <2>2
  <2>3. CASE \E k \in DOMAIN list : /\ x \in old[k] /\ table[x] = list[k].id
                                    /\ \A j \in DOMAIN list : x \in old[j] => j = k
    <3>1. PICK k \in DOMAIN list : /\ x \in old[k] /\ table[x] = list[k].id
                                   /\ \A j \in DOMAIN list : x \in old[j] => j = k
      BY <2>3
    <3>2. k \in 1 .. n - 1
      BY <1>1, <1>4, <3>1
    <3> QED
      BY <1>1, <2>1, <3>1, <3>2
  <2> QED
    BY <2>2, <2>3 DEF Reflects
<1> QED
  BY <1>3, <1>4

\* AddAssignment keeps the index in agreement with the list.
LEMMA AddAgrees ==
  ASSUME NEW p \in Problems, NEW s \in Solution(p), NEW a \in Assignment(p),
         Agrees(p, s), Addable(p, s, a)
  PROVE  Agrees(p, Add(p, s, a))
<1> DEFINE t == Add(p, s, a)
           n == Len(s.list) + 1
           faculty == [k \in DOMAIN t.list |-> FacultyCells(p, t.list[k])]
           room    == [k \in DOMAIN t.list |-> RoomCells(p, t.list[k])]
           group   == [k \in DOMAIN t.list |-> GroupCells(p, t.list[k])]
<1>1. /\ s.list \in Seq(Assignment(p)) /\ t.list = Append(s.list, a)
      /\ s.faculty \in Table(Faculty) /\ s.room \in Table(Rooms) /\ s.group \in Table(Groups)
      /\ \A b \in Assignment(p) : b.id \in AssignmentIDs
  BY AddType DEF Solution, Assignment
<1>2. /\ Len(s.list) \in Nat /\ DOMAIN s.list = 1 .. Len(s.list) /\ DOMAIN t.list = 1 .. n
      /\ \A k \in DOMAIN s.list : t.list[k] = s.list[k]
      /\ t.list[n] = a
  BY <1>1, AppendProperties, LenProperties
<1>3. /\ faculty[n] = FacultyCells(p, a) /\ room[n] = RoomCells(p, a)
      /\ group[n] = GroupCells(p, a)
  BY <1>2
<1>4. /\ \A x \in FacultyCells(p, a) : s.faculty[x] = None
      /\ \A x \in RoomCells(p, a) : s.room[x] = None
  BY DEF Addable, FacultyCells, RoomCells
<1>5. \A x \in DOMAIN s.group : x \in GroupCells(p, a) => s.group[x] = None
  <2>1. \A x \in DOMAIN s.group :
           x \in GroupCells(p, a) => x[1] = GroupOf(p, a) /\ x[1] \in Groups /\ x[2] \in Occupied(p, a)
                                     /\ x = <<x[1], x[2]>>
    BY <1>1 DEF GroupCells, Table
  <2> QED
    BY <2>1 DEF Addable, Overlapping, GroupsOverlap
<1>6. Reflects(t.faculty, t.list, faculty)
  <2> DEFINE was == [k \in DOMAIN s.list |-> FacultyCells(p, s.list[k])]
  <2>1. Reflects(s.faculty, s.list, was)
    BY DEF Agrees
  <2>2. \A k \in DOMAIN s.list : faculty[k] = was[k]
    BY <1>2
  <2>3. t.faculty = Mark(s.faculty, faculty[Len(s.list) + 1], a.id)
    BY <1>3 DEF Add
  <2>4. \A x \in DOMAIN s.faculty : x \in faculty[Len(s.list) + 1] => s.faculty[x] = None
    BY <1>3, <1>4
  <2> HIDE DEF faculty, was
  <2>5. Reflects(Mark(s.faculty, faculty[Len(s.list) + 1], a.id), Append(s.list, a), faculty)
    BY <1>1, <2>1, <2>2, <2>4, MarkReflects
  <2> QED
    BY <1>1, <2>3, <2>5
<1>7. Reflects(t.room, t.list, room)
  <2> DEFINE was == [k \in DOMAIN s.list |-> RoomCells(p, s.list[k])]
  <2>1. Reflects(s.room, s.list, was)
    BY DEF Agrees
  <2>2. \A k \in DOMAIN s.list : room[k] = was[k]
    BY <1>2
  <2>3. t.room = Mark(s.room, room[Len(s.list) + 1], a.id)
    BY <1>3 DEF Add
  <2>4. \A x \in DOMAIN s.room : x \in room[Len(s.list) + 1] => s.room[x] = None
    BY <1>3, <1>4
  <2> HIDE DEF room, was
  <2>5. Reflects(Mark(s.room, room[Len(s.list) + 1], a.id), Append(s.list, a), room)
    BY <1>1, <2>1, <2>2, <2>4, MarkReflects
  <2> QED
    BY <1>1, <2>3, <2>5
<1>8. Reflects(t.group, t.list, group)
  <2> DEFINE was == [k \in DOMAIN s.list |-> GroupCells(p, s.list[k])]
  <2>1. Reflects(s.group, s.list, was)
    BY DEF Agrees
  <2>2. \A k \in DOMAIN s.list : group[k] = was[k]
    BY <1>2
  <2>3. t.group = Mark(s.group, group[Len(s.list) + 1], a.id)
    BY <1>3 DEF Add
  <2>4. \A x \in DOMAIN s.group : x \in group[Len(s.list) + 1] => s.group[x] = None
    BY <1>3, <1>5
  <2> HIDE DEF group, was
  <2>5. Reflects(Mark(s.group, group[Len(s.list) + 1], a.id), Append(s.list, a), group)
    BY <1>1, <2>1, <2>2, <2>4, MarkReflects
  <2> QED
    BY <1>1, <2>3, <2>5
<1> QED
  BY <1>6, <1>7, <1>8 DEF Agrees

\* RemoveLastAssignment keeps the index in agreement with the list.
LEMMA RemoveAgrees ==
  ASSUME NEW p \in Problems, NEW s \in Solution(p), s.list # << >>, Agrees(p, s)
  PROVE  Agrees(p, RemoveLast(p, s))
<1> DEFINE t == RemoveLast(p, s)
           n == Len(s.list)
<1>1. /\ s.list \in Seq(Assignment(p)) /\ t.list = SubSeq(s.list, 1, n - 1)
      /\ s.faculty \in Table(Faculty) /\ s.room \in Table(Rooms) /\ s.group \in Table(Groups)
  BY RemoveType DEF Solution
<1>2. /\ n \in Nat \ {0} /\ DOMAIN s.list = 1 .. n /\ DOMAIN t.list = 1 .. n - 1
      /\ \A k \in 1 .. n - 1 : t.list[k] = s.list[k]
  <2>1. n \in Nat \ {0} /\ DOMAIN s.list = 1 .. n
    BY <1>1, EmptySeq, LenProperties
  <2>2. \A k \in 1 .. n - 1 : s.list[k] \in Assignment(p)
    BY <1>1, <2>1, ElementOfSeq
  <2> QED
    BY <1>1, <2>1, <2>2, SubSeqProperties, LenProperties
<1>3. Reflects(t.faculty, t.list, [k \in DOMAIN t.list |-> FacultyCells(p, t.list[k])])
  <2> DEFINE was == [k \in DOMAIN s.list |-> FacultyCells(p, s.list[k])]
             now == [k \in DOMAIN t.list |-> FacultyCells(p, t.list[k])]
  <2>1. Reflects(s.faculty, s.list, was)
    BY DEF Agrees
  <2>2. \A k \in 1 .. n - 1 : now[k] = was[k]
    BY <1>2
  <2>3. t.faculty = Unmark(s.faculty, was[n], s.list[n].id)
    BY <1>2 DEF RemoveLast
  <2> HIDE DEF was, now
  <2>4. Reflects(Unmark(s.faculty, was[n], s.list[n].id), SubSeq(s.list, 1, n - 1), now)
    BY <1>1, <2>1, <2>2, UnmarkReflects
  <2> QED
    BY <1>1, <2>3, <2>4 DEF now
<1>4. Reflects(t.room, t.list, [k \in DOMAIN t.list |-> RoomCells(p, t.list[k])])
  <2> DEFINE was == [k \in DOMAIN s.list |-> RoomCells(p, s.list[k])]
             now == [k \in DOMAIN t.list |-> RoomCells(p, t.list[k])]
  <2>1. Reflects(s.room, s.list, was)
    BY DEF Agrees
  <2>2. \A k \in 1 .. n - 1 : now[k] = was[k]
    BY <1>2
  <2>3. t.room = Unmark(s.room, was[n], s.list[n].id)
    BY <1>2 DEF RemoveLast
  <2> HIDE DEF was, now
  <2>4. Reflects(Unmark(s.room, was[n], s.list[n].id), SubSeq(s.list, 1, n - 1), now)
    BY <1>1, <2>1, <2>2, UnmarkReflects
  <2> QED
    BY <1>1, <2>3, <2>4 DEF now
<1>5. Reflects(t.group, t.list, [k \in DOMAIN t.list |-> GroupCells(p, t.list[k])])
  <2> DEFINE was == [k \in DOMAIN s.list |-> GroupCells(p, s.list[k])]
             now == [k \in DOMAIN t.list |-> GroupCells(p, t.list[k])]
  <2>1. Reflects(s.group, s.list, was)
    BY DEF Agrees
  <2>2. \A k \in 1 .. n - 1 : now[k] = was[k]
    BY <1>2
  <2>3. t.group = Unmark(s.group, was[n], s.list[n].id)
    BY <1>2 DEF RemoveLast
  <2> HIDE DEF was, now
  <2>4. Reflects(Unmark(s.group, was[n], s.list[n].id), SubSeq(s.list, 1, n - 1), now)
    BY <1>1, <2>1, <2>2, UnmarkReflects
  <2> QED
    BY <1>1, <2>3, <2>4 DEF now
<1> QED
  BY <1>3, <1>4, <1>5 DEF Agrees

-----------------------------------------------------------------------------
(* The invariant.  The stack and the list of assignments go up and down    *)
(* together, and so the index is emptied of what was last put into it.     *)

Inv == TypeOK /\ OneSessionPerCall /\ IndexAgrees

\* The invariant holds before validation.
LEMMA InitInv == Init => Inv
<1> SUFFICES ASSUME Init PROVE Inv
  OBVIOUS
<1>1. solution \in Solution(problem) /\ solution.list = << >> /\ stack \in Seq(Frame(problem))
  BY EmptyType, EmptySeq DEF Init
<1>2. TypeOK
  <2>1. problem \in Problems /\ nodes \in 0 .. problem.maxNodes
    <3>1. problem \in Problems /\ nodes = 0
      BY DEF Init
    <3>2. problem.maxNodes \in Nat
      BY <3>1, ReqsType
    <3> QED
      BY <3>1, <3>2
  <2> QED
    BY <1>1, <2>1 DEF Init, TypeOK, Steps, Statuses
<1>3. Len(problem.locked) \in Nat
  BY ReqsType, LenProperties DEF Init
<1>4. DOMAIN solution.list = {} /\ Len(solution.list) = 0
  BY <1>1
<1>5. OneSessionPerCall
  <2>1. step = "validate" /\ stack = << >>
    BY DEF Init
  <2> QED
    BY <1>3, <1>4, <2>1 DEF OneSessionPerCall
<1>6. IndexAgrees
  <2>1. \A R, cells : Reflects([x \in R |-> None], solution.list, cells)
    BY <1>4 DEF Reflects
  <2> QED
    BY <2>1 DEF Init, IndexAgrees, Agrees, EmptySolution
<1> QED
  BY <1>2, <1>5, <1>6 DEF Inv

\* What the invariant says while calls are in progress.
LEMMA InCall ==
  ASSUME Inv, step \in {"enter", "loop"}
  PROVE  /\ problem \in Problems /\ solution \in Solution(problem)
         /\ stack \in Seq(Frame(problem)) /\ Len(stack) \in Nat \ {0} /\ DOMAIN stack = 1 .. Len(stack)
         /\ Top \in Frame(problem)
         /\ solution.list \in Seq(Assignment(problem)) /\ DOMAIN solution.list = 1 .. Len(solution.list)
         /\ Len(problem.locked) \in Nat
         /\ Len(solution.list) = Len(problem.locked) + Len(stack) - 1
<1>1. /\ problem \in Problems /\ solution \in Solution(problem) /\ stack \in Seq(Frame(problem))
      /\ stack # << >> /\ Len(solution.list) = Len(problem.locked) + Len(stack) - 1
  BY DEF Inv, TypeOK, OneSessionPerCall
<1>2. Len(stack) \in Nat \ {0} /\ DOMAIN stack = 1 .. Len(stack) /\ Top \in Frame(problem)
  BY <1>1, EmptySeq, ElementOfSeq, LenProperties DEF Top
<1>3. solution.list \in Seq(Assignment(problem))
  BY <1>1 DEF Solution
<1> QED
  BY <1>1, <1>2, <1>3, ReqsType, LenProperties

\* A step that ends the search.
LEMMA FinishInv ==
  ASSUME Inv, UNCHANGED <<problem, solution, stack, nodes>>, step' = "done", status' \in Statuses
  PROVE  Inv'
<1>1. TypeOK'
  BY DEF Inv, TypeOK, Steps
<1>2. OneSessionPerCall'
  BY DEF Inv, OneSessionPerCall
<1>3. IndexAgrees'
  BY DEF Inv, IndexAgrees
<1> QED
  BY <1>1, <1>2, <1>3 DEF Inv

\* Validation changes neither solution nor stack.
LEMMA AcceptInv == Inv /\ Accept => Inv'
<1> SUFFICES ASSUME Inv, Accept PROVE Inv'
  OBVIOUS
<1> QED
  BY DEF Accept, Inv, TypeOK, Steps, OneSessionPerCall, IndexAgrees

\* A locked session is added before any call.
LEMMA SeedInv == Inv /\ Seed => Inv'
<1> SUFFICES ASSUME Inv, Seed PROVE Inv'
  OBVIOUS
<1> DEFINE n == Len(solution.list)
           a == problem.locked[n + 1]
<1>1. CASE ~Addable(problem, solution, a)
  BY <1>1, FinishInv DEF Seed, Finish, Statuses
<1>2. CASE Addable(problem, solution, a)
  <2>1. /\ problem \in Problems /\ solution \in Solution(problem)
        /\ solution.list \in Seq(Assignment(problem))
        /\ problem.locked \in Seq(Assignment(problem))
    BY ReqsType DEF Inv, TypeOK, Solution
  <2>2. n \in Nat /\ Len(problem.locked) \in Nat /\ n < Len(problem.locked)
    BY <2>1, LenProperties DEF Seed, Seeding
  <2>3. a \in Assignment(problem)
    BY <2>1, <2>2, ElementOfSeq
  <2>4. /\ solution' = Add(problem, solution, a) /\ solution' \in Solution(problem)
        /\ solution'.list = Append(solution.list, a)
        /\ UNCHANGED <<problem, nodes, step, status, stack>>
    <3>1. solution' = Add(problem, solution, a) /\ UNCHANGED <<problem, nodes, step, status, stack>>
      BY <1>2 DEF Seed
    <3> QED
      BY <2>1, <2>3, <3>1, AddType
  <2>5. /\ Len(solution'.list) = n + 1 /\ DOMAIN solution'.list = 1 .. n + 1
        /\ \A k \in 1 .. n : solution'.list[k] = solution.list[k]
        /\ solution'.list[n + 1] = a
        /\ DOMAIN solution.list = 1 .. n
    BY <2>1, <2>3, <2>4, AppendProperties, LenProperties
  <2>6. TypeOK'
    BY <2>4 DEF Inv, TypeOK
  <2>7. OneSessionPerCall'
    BY <2>2, <2>4, <2>5 DEF Inv, OneSessionPerCall, Seed
  <2>8. IndexAgrees'
    BY <1>2, <2>1, <2>3, <2>4, AddAgrees DEF Inv, IndexAgrees
  <2> QED
    BY <2>6, <2>7, <2>8 DEF Inv
<1> QED
  BY <1>1, <1>2

\* The outermost call knows all sessions that are not locked.
LEMMA BeginInv == Inv /\ Begin => Inv'
<1> SUFFICES ASSUME Inv, Begin PROVE Inv'
  OBVIOUS
<1> DEFINE f == Call(Decisions(problem), InitialDomains(problem, solution))
<1>1. problem \in Problems /\ solution \in Solution(problem) /\ stack \in Seq(Frame(problem))
  BY DEF Inv, TypeOK
<1>2. InitialDomains(problem, solution) \in [Decisions(problem) -> SUBSET Candidates]
  <2>1. [d \in Decisions(problem) |-> {}] \in [Decisions(problem) -> SUBSET Candidates]
    OBVIOUS
  <2> QED
    BY <1>1, <2>1, DomainsType
<1>3. f \in Frame(problem) /\ f.left = Decisions(problem)
  BY <1>2 DEF Call, Frame
<1>4. stack' \in Seq(Frame(problem)) /\ Len(stack') = 1 /\ stack'[1] = f /\ stack' # << >>
  BY <1>3 DEF Begin
<1>5. TypeOK'
  BY <1>4 DEF Begin, Inv, TypeOK, Steps
<1>6. Len(solution.list) \in Nat /\ Len(problem.locked) \in Nat
  BY <1>1, ReqsType, LenProperties DEF Solution
<1>7. Len(solution.list) = Len(problem.locked)
  BY <1>6 DEF Begin, Seeding, Inv, OneSessionPerCall
<1>8. OneSessionPerCall'
  BY <1>3, <1>4, <1>6, <1>7 DEF Begin, Inv, OneSessionPerCall
<1>9. IndexAgrees'
  BY DEF Begin, Inv, IndexAgrees
<1> QED
  BY <1>5, <1>8, <1>9 DEF Inv

\* A step that changes the innermost call alone.
LEMMA TopInv ==
  ASSUME Inv, step \in {"enter", "loop"}, step' = "loop",
         UNCHANGED <<problem, solution, status>>, nodes' \in 0 .. problem.maxNodes,
         NEW f \in Frame(problem), f.left = Top.left, f.selected \in f.left,
         stack' = [stack EXCEPT ![Len(stack)] = f]
  PROVE  Inv'
<1>1. /\ stack' \in Seq(Frame(problem)) /\ Len(stack') = Len(stack) /\ stack' # << >>
      /\ \A i \in 1 .. Len(stack) - 1 : stack'[i] = stack[i]
      /\ stack'[Len(stack)] = f
  <2>1. Len(stack) \in 1 .. Len(stack) /\ stack # << >>
    BY InCall, EmptySeq
  <2> QED
    BY <2>1, InCall, ExceptSeq, EmptySeq
<1>2. TypeOK'
  BY <1>1 DEF Inv, TypeOK, Steps
<1>3. \A i \in 1 .. Len(stack) : stack'[i].left = stack[i].left
  BY <1>1, InCall DEF Top
<1>4. ASSUME NEW i \in 1 .. Len(stack)
      PROVE  {stack'[j].selected : j \in 1 .. i - 1} = {stack[j].selected : j \in 1 .. i - 1}
  <2>1. Len(stack) \in Nat
    BY InCall
  <2>2. \A j \in 1 .. i - 1 : j \in 1 .. Len(stack) - 1
    BY <2>1
  <2>3. \A j \in 1 .. i - 1 : stack'[j].selected = stack[j].selected
    BY <1>1, <2>2
  <2> QED
    BY <2>3
<1>5. OneSessionPerCall'
  <2>1. /\ \A i \in 1 .. Len(stack) :
             stack'[i].left = Decisions(problem) \ {stack'[j].selected : j \in 1 .. i - 1}
        /\ \A i \in 1 .. Len(stack) - 1 :
             /\ stack'[i].selected \in stack'[i].left
             /\ solution.list[Len(problem.locked) + i].id = stack'[i].selected
    <3>1. \A i \in 1 .. Len(stack) - 1 : i \in 1 .. Len(stack)
      BY InCall
    <3> QED
      BY <1>1, <1>3, <1>4, <3>1 DEF Inv, OneSessionPerCall
  <2>2. Top'.selected \in Top'.left
    BY <1>1 DEF Top
  <2> QED
    BY <1>1, <2>1, <2>2 DEF Inv, OneSessionPerCall
<1>6. IndexAgrees'
  BY DEF Inv, IndexAgrees
<1> QED
  BY <1>2, <1>5, <1>6 DEF Inv

\* Selecting a session changes the innermost call.
LEMMA SelectInv == Inv /\ Select => Inv'
<1> SUFFICES ASSUME Inv, Select PROVE Inv'
  OBVIOUS
<1>1. PICK d \in Selectable(problem, Top.left, Top.domains) :
        /\ stack' = [stack EXCEPT ![Len(stack)].selected = d,
                                  ![Len(stack)].untried = Top.domains[d]]
        /\ nodes' = IF Basic \/ Top.domains[d] # {} THEN nodes + 1 ELSE nodes
  BY DEF Select
<1>2. step = "enter" /\ step' = "loop" /\ UNCHANGED <<problem, solution, status>>
  BY DEF Select
<1> DEFINE f == [Top EXCEPT !.selected = d, !.untried = Top.domains[d]]
<1>3. d \in Top.left /\ Top \in Frame(problem)
  BY <1>2, InCall DEF Selectable
<1>4. f \in Frame(problem) /\ f.left = Top.left /\ f.selected = d
  BY <1>3 DEF Frame
<1>5. stack' = [stack EXCEPT ![Len(stack)] = f]
  BY <1>1, <1>2, InCall DEF Top
<1>6. nodes' \in 0 .. problem.maxNodes
  <2>1. problem.maxNodes \in Nat /\ nodes \in 0 .. problem.maxNodes
    BY ReqsType DEF Inv, TypeOK
  <2> QED
    BY <1>1, <2>1 DEF Select, LimitReached
<1> HIDE DEF f
<1> QED
  BY <1>2, <1>3, <1>4, <1>5, <1>6, TopInv

\* The stack with the turn of a candidate over.
LEMMA TriedType ==
  ASSUME Inv, NEW v, Turn(v)
  PROVE  /\ step = "loop" /\ Top.selected \in Top.left /\ v \in Candidates
         /\ \E f \in Frame(problem) : /\ f.left = Top.left /\ f.selected = Top.selected
                                      /\ Tried(v) = [stack EXCEPT ![Len(stack)] = f]
<1> DEFINE f == [Top EXCEPT !.untried = @ \ {v}]
<1>1. step = "loop" /\ v \in Top.untried /\ Top \in Frame(problem)
  BY InCall DEF Turn
<1>2. Top.selected \in Top.left
  BY <1>1 DEF Inv, OneSessionPerCall
<1>3. f \in Frame(problem) /\ f.left = Top.left /\ f.selected = Top.selected
  BY <1>1 DEF Frame
<1>4. Tried(v) = [stack EXCEPT ![Len(stack)] = f]
  BY <1>1, InCall DEF Tried, Top
<1>5. v \in Candidates
  BY <1>1 DEF Frame
<1> HIDE DEF f
<1> QED
  BY <1>1, <1>2, <1>3, <1>4, <1>5

\* Skipping a candidate changes the innermost call.
LEMMA SkipInv ==
  ASSUME Inv, NEW v, Skip(v)
  PROVE  Inv'
<1>1. Turn(v) /\ stack' = Tried(v) /\ UNCHANGED <<problem, solution, nodes, step, status>>
  BY DEF Skip
<1>2. nodes' \in 0 .. problem.maxNodes
  BY <1>1 DEF Inv, TypeOK
<1> QED
  BY <1>1, <1>2, TriedType, TopInv

\* Placing a session and taking it back at once.
LEMMA AddRemove ==
  ASSUME NEW p \in Problems, NEW s \in Solution(p), NEW a \in Assignment(p),
         Agrees(p, s), Addable(p, s, a)
  PROVE  /\ RemoveLast(p, Add(p, s, a)) \in Solution(p)
         /\ RemoveLast(p, Add(p, s, a)).list = s.list
         /\ Agrees(p, RemoveLast(p, Add(p, s, a)))
<1>1. s.list \in Seq(Assignment(p))
  BY DEF Solution
<1>2. /\ Add(p, s, a) \in Solution(p) /\ Add(p, s, a).list = Append(s.list, a)
      /\ Append(s.list, a) # << >> /\ Agrees(p, Add(p, s, a))
  BY <1>1, AddType, AddAgrees, AppendProperties
<1>3. SubSeq(Append(s.list, a), 1, Len(Append(s.list, a)) - 1) = s.list
  BY <1>1
<1> QED
  BY <1>2, <1>3, RemoveType, RemoveAgrees

\* A placement adds a session and a call, or neither.
LEMMA PlaceInv ==
  ASSUME Inv, NEW v, Place(v)
  PROVE  Inv'
<1> DEFINE d == Top.selected
           a == Assign(d, v)
           placed  == Add(problem, solution, a)
           left    == Top.left \ {d}
           domains == Prune(problem, placed, left, Top.domains)
           n == Len(stack)
           m == Len(problem.locked)
<1>1. /\ Turn(v) /\ Addable(problem, solution, a) /\ UNCHANGED <<problem, nodes, status>>
      /\ \/ /\ solution' = placed
            /\ stack' = Append(Tried(v), Call(left, domains))
            /\ step' = "enter"
         \/ /\ solution' = RemoveLast(problem, placed)
            /\ stack' = Tried(v)
            /\ UNCHANGED step
  BY DEF Place, Usable
<1>2. /\ step = "loop" /\ d \in Top.left /\ v \in Candidates
      /\ problem \in Problems /\ solution \in Solution(problem) /\ Agrees(problem, solution)
  BY <1>1, TriedType, InCall DEF Inv, IndexAgrees
<1>3. PICK f \in Frame(problem) : /\ f.left = Top.left /\ f.selected = d
                                  /\ Tried(v) = [stack EXCEPT ![n] = f]
  BY <1>1, TriedType
<1>4. Top \in Frame(problem) /\ d \in Decisions(problem) /\ a \in Assignment(problem)
  <2>1. Top \in Frame(problem) /\ d \in Decisions(problem)
    BY <1>2, InCall DEF Frame
  <2> QED
    BY <1>2, <2>1, AssignType
<1>5. CASE solution' = RemoveLast(problem, placed) /\ stack' = Tried(v) /\ UNCHANGED step
  <2>1. /\ solution' \in Solution(problem) /\ solution'.list = solution.list
        /\ Agrees(problem, solution')
    BY <1>1, <1>2, <1>4, <1>5, AddRemove
  <2>2. stack' \in Seq(Frame(problem)) /\ Len(stack') = n /\ stack' # << >>
        /\ (\A i \in 1 .. n - 1 : stack'[i] = stack[i]) /\ stack'[n] = f
    <3>1. n \in 1 .. n /\ stack \in Seq(Frame(problem))
      BY <1>2, InCall
    <3> QED
      BY <1>3, <1>5, <3>1, ExceptSeq, EmptySeq
  <2>3. TypeOK'
    BY <1>1, <1>5, <2>1, <2>2 DEF Inv, TypeOK
  <2>4. \A i \in 1 .. n : stack'[i].left = stack[i].left /\ stack'[i].selected = stack[i].selected
    <3>1. stack'[n].left = stack[n].left /\ stack'[n].selected = stack[n].selected
      BY <1>3, <2>2 DEF Top
    <3>2. n \in Nat /\ \A i \in 1 .. n - 1 : stack'[i] = stack[i]
      BY <1>2, <2>2, InCall
    <3> HIDE DEF n, d
    <3> QED
      BY <3>1, <3>2
  <2>5. ASSUME NEW i \in 1 .. n
        PROVE  {stack'[j].selected : j \in 1 .. i - 1} = {stack[j].selected : j \in 1 .. i - 1}
    <3>1. \A j \in 1 .. i - 1 : stack'[j].selected = stack[j].selected
      BY <1>2, <2>4, InCall
    <3> QED
      BY <3>1
  <2>6. OneSessionPerCall'
    <3>1. /\ \A i \in 1 .. n :
               stack'[i].left = Decisions(problem) \ {stack'[j].selected : j \in 1 .. i - 1}
          /\ \A i \in 1 .. n - 1 :
               stack'[i].selected \in stack'[i].left /\ solution'.list[m + i].id = stack'[i].selected
      <4>1. \A i \in 1 .. n - 1 : i \in 1 .. n
        BY <1>2, InCall
      <4> QED
        BY <1>2, <2>1, <2>4, <2>5, <4>1 DEF Inv, OneSessionPerCall
    <3>2. Top'.selected \in Top'.left
      BY <1>2, <1>3, <2>2 DEF Top
    <3>3. \A k \in DOMAIN solution'.list : k <= m => solution'.list[k] = problem.locked[k]
      BY <2>1 DEF Inv, OneSessionPerCall
    <3>4. Len(solution'.list) = m + n - 1
      BY <1>2, <2>1, InCall
    <3> HIDE DEF d, a, placed
    <3> QED
      BY <1>1, <1>2, <1>5, <2>2, <3>1, <3>2, <3>3, <3>4 DEF OneSessionPerCall
  <2>7. IndexAgrees'
    BY <1>1, <2>1 DEF IndexAgrees
  <2> QED
    BY <2>3, <2>6, <2>7 DEF Inv
<1>6. CASE solution' = placed /\ stack' = Append(Tried(v), Call(left, domains)) /\ step' = "enter"
  <2>1. /\ solution' \in Solution(problem) /\ solution'.list = Append(solution.list, a)
        /\ Agrees(problem, solution')
    BY <1>1, <1>2, <1>4, <1>6, AddType, AddAgrees
  <2>2. Call(left, domains) \in Frame(problem) /\ Call(left, domains).left = left
    <3>1. domains \in [Decisions(problem) -> SUBSET Candidates]
      BY <1>2, <1>4, DomainsType DEF Frame
    <3>2. left \in SUBSET Decisions(problem)
      BY <1>4 DEF Frame
    <3> HIDE DEF domains, left
    <3> QED
      BY <3>1, <3>2 DEF Call, Frame
  <2> HIDE DEF domains, left, placed
  <2>3. /\ stack' \in Seq(Frame(problem)) /\ Len(stack') = n + 1 /\ stack' # << >>
        /\ \A i \in 1 .. n - 1 : stack'[i] = stack[i]
        /\ stack'[n] = f
        /\ stack'[n + 1] = Call(left, domains)
    <3>1. n \in 1 .. n /\ stack \in Seq(Frame(problem)) /\ n \in Nat
      BY <1>2, InCall
    <3>2. /\ Tried(v) \in Seq(Frame(problem)) /\ Len(Tried(v)) = n
          /\ \A i \in 1 .. n - 1 : Tried(v)[i] = stack[i]
          /\ Tried(v)[n] = f
      BY <1>3, <3>1, ExceptSeq
    <3> QED
      BY <1>6, <2>2, <3>1, <3>2, AppendProperties
  <2>4. TypeOK'
    BY <1>1, <1>6, <2>1, <2>3 DEF Inv, TypeOK, Steps
  <2>5. \A i \in 1 .. n : stack'[i].left = stack[i].left /\ stack'[i].selected = stack[i].selected
    <3>1. stack'[n].left = stack[n].left /\ stack'[n].selected = stack[n].selected
      BY <1>3, <2>3 DEF Top
    <3>2. n \in Nat /\ \A i \in 1 .. n - 1 : stack'[i] = stack[i]
      BY <1>2, <2>3, InCall
    <3>3. ASSUME NEW i \in 1 .. n, i # n
          PROVE  stack'[i].left = stack[i].left /\ stack'[i].selected = stack[i].selected
      <4>1. i \in 1 .. n - 1
        BY <3>2, <3>3
      <4> QED
        BY <3>2, <4>1
    <3> HIDE DEF n, d
    <3> QED
      BY <3>1, <3>3
  <2>6. ASSUME NEW i \in 1 .. n + 1
        PROVE  {stack'[j].selected : j \in 1 .. i - 1} = {stack[j].selected : j \in 1 .. i - 1}
    <3>1. \A j \in 1 .. i - 1 : stack'[j].selected = stack[j].selected
      BY <1>2, <2>5, InCall
    <3> QED
      BY <3>1
  <2>7. stack'[n + 1].left = Decisions(problem) \ {stack[j].selected : j \in 1 .. n}
    <3>1. Top.left = Decisions(problem) \ {stack[j].selected : j \in 1 .. n - 1}
      BY <1>2, InCall DEF Inv, OneSessionPerCall, Top
    <3>2. {stack[j].selected : j \in 1 .. n} = {stack[j].selected : j \in 1 .. n - 1} \cup {d}
      BY <1>2, InCall DEF Top
    <3>3. stack'[n + 1].left = left
      BY <2>2, <2>3
    <3>4. left = Top.left \ {d}
      BY DEF left
    <3> HIDE DEF n, d
    <3> QED
      BY <3>1, <3>2, <3>3, <3>4
  <2>8. \A i \in 1 .. n + 1 :
          stack'[i].left = Decisions(problem) \ {stack'[j].selected : j \in 1 .. i - 1}
    <3>1. \A i \in 1 .. n : stack[i].left = Decisions(problem) \ {stack[j].selected : j \in 1 .. i - 1}
      BY <1>2 DEF Inv, OneSessionPerCall
    <3>2. n \in Nat /\ (n + 1) - 1 = n
      BY <1>2, InCall
    <3>3. \A i \in 1 .. n : i \in 1 .. n + 1 /\ i # n + 1
      BY <3>2
    <3>4. stack'[n + 1].left = Decisions(problem) \ {stack'[j].selected : j \in 1 .. (n + 1) - 1}
      <4>1. n + 1 \in 1 .. n + 1
        BY <3>2
      <4> QED
        BY <2>6, <2>7, <3>2, <4>1
    <3>5. \A i \in 1 .. n : stack'[i].left = Decisions(problem) \ {stack'[j].selected : j \in 1 .. i - 1}
      BY <2>5, <2>6, <3>1, <3>3
    <3>6. \A i \in 1 .. n + 1 : i \in 1 .. n \/ i = n + 1
      BY <3>2
    <3> QED
      BY <3>4, <3>5, <3>6
  <2>9. /\ Len(solution'.list) = Len(solution.list) + 1 /\ Len(solution.list) = m + n - 1
        /\ DOMAIN solution'.list = 1 .. Len(solution.list) + 1
        /\ \A k \in 1 .. Len(solution.list) : solution'.list[k] = solution.list[k]
        /\ solution'.list[m + n].id = d
    <3>1. solution.list \in Seq(Assignment(problem)) /\ Len(solution.list) = m + n - 1
          /\ m \in Nat /\ n \in Nat
      BY <1>2, InCall
    <3>2. a.id = d
      BY DEF Assign
    <3>3. /\ solution'.list \in Seq(Assignment(problem))
          /\ Len(solution'.list) = Len(solution.list) + 1
          /\ \A k \in 1 .. Len(solution.list) : solution'.list[k] = solution.list[k]
          /\ solution'.list[Len(solution.list) + 1] = a
      BY <1>4, <2>1, <3>1, AppendProperties
    <3> QED
      BY <3>1, <3>2, <3>3, LenProperties
  <2>10. \A i \in 1 .. n : stack'[i].selected \in stack'[i].left /\ solution'.list[m + i].id = stack'[i].selected
    <3>1. \A i \in 1 .. n - 1 : stack[i].selected \in stack[i].left /\ solution.list[m + i].id = stack[i].selected
      BY <1>2 DEF Inv, OneSessionPerCall
    <3>2. \A i \in 1 .. n - 1 : m + i \in 1 .. Len(solution.list)
      BY <1>2, <2>9, InCall
    <3>3. stack[n].selected = d /\ d \in stack[n].left
      BY <1>2 DEF Top
    <3>4. n \in 1 .. n /\ \A i \in 1 .. n : i \in 1 .. n - 1 \/ i = n
      <4>1. n \in Nat \ {0}
        BY <1>2, InCall
      <4> HIDE DEF n
      <4> QED
        BY <4>1
    <3> HIDE DEF n, m, d
    <3>5. \A i \in 1 .. n - 1 : solution'.list[m + i].id = stack[i].selected
      BY <2>9, <3>1, <3>2
    <3>6. stack'[n].selected = d /\ d \in stack'[n].left
      BY <2>5, <3>3, <3>4
    <3>7. ASSUME NEW i \in 1 .. n
          PROVE  stack'[i].selected \in stack'[i].left /\ solution'.list[m + i].id = stack'[i].selected
      <4>1. CASE i = n
        BY <2>9, <3>6, <4>1
      <4>2. CASE i \in 1 .. n - 1
        BY <2>5, <3>1, <3>5, <4>2
      <4> QED
        BY <3>4, <4>1, <4>2
    <3> QED
      BY <3>7
  <2>11. OneSessionPerCall'
    <3>1. \A k \in DOMAIN solution'.list : k <= m => solution'.list[k] = problem.locked[k]
      <4>1. \A k \in DOMAIN solution.list : k <= m => solution.list[k] = problem.locked[k]
        BY DEF Inv, OneSessionPerCall
      <4>2. m \in Nat /\ n \in Nat \ {0} /\ DOMAIN solution.list = 1 .. Len(solution.list)
            /\ Len(solution.list) = m + n - 1
        BY <1>2, InCall
      <4>3. \A k \in DOMAIN solution'.list : k <= m => k \in 1 .. Len(solution.list)
        BY <2>9, <4>2
      <4> QED
        BY <2>9, <4>1, <4>2, <4>3
    <3>2. Len(solution'.list) = m + (n + 1) - 1 /\ (n + 1) - 1 = n
      BY <1>2, <2>9, InCall
    <3> HIDE DEF d, a, n, m
    <3>3. step' = "enter" /\ UNCHANGED problem
      BY <1>1, <1>6
    <3> QED
      BY <2>3, <2>8, <2>10, <3>1, <3>2, <3>3 DEF OneSessionPerCall, m
  <2>12. IndexAgrees'
    BY <1>1, <2>1 DEF IndexAgrees
  <2> QED
    BY <2>4, <2>11, <2>12 DEF Inv
<1> QED
  BY <1>1, <1>5, <1>6

\* A return removes a call and the session its caller placed.
LEMMA ReturnInv == Inv /\ Return => Inv'
<1> SUFFICES ASSUME Inv, Return PROVE Inv'
  OBVIOUS
<1> DEFINE n == Len(stack)
           m == Len(problem.locked)
<1>1. step = "loop" /\ stack' = Below
  BY DEF Return
<1>2. /\ Below \in Seq(Frame(problem)) /\ Len(Below) = n - 1
      /\ \A i \in 1 .. n - 1 : Below[i] = stack[i]
  <2>1. \A i \in 1 .. n - 1 : stack[i] \in Frame(problem)
    BY <1>1, InCall, ElementOfSeq
  <2>2. n \in Nat \ {0}
    BY <1>1, InCall
  <2>3. 1 \in Int /\ n - 1 \in Int
    BY <2>2
  <2>4. /\ Below \in Seq(Frame(problem))
        /\ Len(Below) = IF 1 <= n - 1 THEN (n - 1) - 1 + 1 ELSE 0
        /\ \A i \in 1 .. (n - 1) - 1 + 1 : Below[i] = stack[1 + i - 1]
    BY <2>1, <2>3, SubSeqProperties DEF Below
  <2>5. \A i \in 1 .. n - 1 : i \in 1 .. (n - 1) - 1 + 1 /\ 1 + i - 1 = i
    BY <2>2
  <2>6. \A i \in 1 .. n - 1 : Below[i] = stack[i]
    BY <2>4, <2>5
  <2>7. Len(Below) = n - 1
    <3> HIDE DEF n
    <3> QED
      BY <2>2, <2>4
  <2> QED
    BY <2>4, <2>6, <2>7
<1>3. CASE Below = << >>
  <2>1. /\ step' = "done" /\ status' = "INFEASIBLE" /\ UNCHANGED <<problem, nodes, solution>>
    BY <1>3 DEF Return, Finish
  <2>2. TypeOK'
    BY <1>1, <1>2, <2>1 DEF Inv, TypeOK, Steps, Statuses
  <2>3. OneSessionPerCall'
    BY <2>1 DEF Inv, OneSessionPerCall
  <2>4. IndexAgrees'
    BY <2>1 DEF Inv, IndexAgrees
  <2> QED
    BY <2>2, <2>3, <2>4 DEF Inv
<1>4. CASE Below # << >>
  <2>1. solution' = RemoveLast(problem, solution) /\ UNCHANGED <<problem, nodes, step, status>>
    BY <1>4 DEF Return
  <2>2. /\ solution.list \in Seq(Assignment(problem)) /\ Len(solution.list) = m + n - 1
        /\ m \in Nat /\ n \in Nat \ {0} /\ n - 1 # 0 /\ solution.list # << >>
        /\ DOMAIN solution.list = 1 .. m + n - 1
    <3>1. n - 1 # 0
      BY <1>2, <1>4, EmptySeq
    <3> QED
      BY <1>1, <3>1, InCall, EmptySeq
  <2>3. /\ solution' \in Solution(problem) /\ Agrees(problem, solution')
        /\ solution'.list = SubSeq(solution.list, 1, Len(solution.list) - 1)
    BY <1>1, <2>1, <2>2, InCall, RemoveType, RemoveAgrees DEF Inv, IndexAgrees
  <2>4. /\ Len(solution'.list) = m + n - 2 /\ DOMAIN solution'.list = 1 .. m + n - 2
        /\ \A k \in 1 .. m + n - 2 : solution'.list[k] = solution.list[k]
    <3>1. \A k \in 1 .. m + n - 2 : solution.list[k] \in Assignment(problem)
      BY <2>2, ElementOfSeq
    <3>2. /\ Len(SubSeq(solution.list, 1, m + n - 2)) = m + n - 2
          /\ SubSeq(solution.list, 1, m + n - 2) \in Seq(Assignment(problem))
          /\ \A k \in 1 .. m + n - 2 : SubSeq(solution.list, 1, m + n - 2)[k] = solution.list[k]
      BY <2>2, <3>1, SubSeqProperties
    <3> QED
      BY <2>2, <2>3, <3>2, LenProperties
  <2>5. TypeOK'
    BY <1>1, <1>2, <2>1, <2>3 DEF Inv, TypeOK
  <2>6. ASSUME NEW i \in 1 .. n - 1
        PROVE  {stack'[j].selected : j \in 1 .. i - 1} = {stack[j].selected : j \in 1 .. i - 1}
    <3>1. \A j \in 1 .. i - 1 : stack'[j].selected = stack[j].selected
      BY <1>1, <1>2, <2>2
    <3> QED
      BY <3>1
  <2>7. /\ \A i \in 1 .. n - 1 :
             stack'[i].left = Decisions(problem) \ {stack'[j].selected : j \in 1 .. i - 1}
        /\ \A i \in 1 .. n - 1 : stack'[i].selected \in stack'[i].left
        /\ \A i \in 1 .. n - 2 : solution'.list[m + i].id = stack'[i].selected
    <3>1. /\ \A i \in 1 .. n : stack[i].left = Decisions(problem) \ {stack[j].selected : j \in 1 .. i - 1}
          /\ \A i \in 1 .. n - 1 :
               stack[i].selected \in stack[i].left /\ solution.list[m + i].id = stack[i].selected
      BY <1>1 DEF Inv, OneSessionPerCall
    <3>2. /\ \A i \in 1 .. n - 2 : m + i \in 1 .. m + n - 2 /\ i \in 1 .. n - 1
          /\ \A i \in 1 .. n - 1 : i \in 1 .. n
      BY <2>2
    <3>3. \A i \in 1 .. n - 1 : stack'[i] = stack[i]
      BY <1>1, <1>2
    <3> HIDE DEF n, m
    <3> QED
      BY <2>4, <2>6, <3>1, <3>2, <3>3
  <2>8. \A k \in DOMAIN solution'.list : k <= m => solution'.list[k] = problem.locked[k]
    <3>1. \A k \in DOMAIN solution.list : k <= m => solution.list[k] = problem.locked[k]
      BY <1>1 DEF Inv, OneSessionPerCall
    <3>2. \A k \in 1 .. m + n - 2 : k \in 1 .. m + n - 1
      BY <2>2
    <3> HIDE DEF m, n
    <3> QED
      BY <2>2, <2>4, <3>1, <3>2
  <2>9. OneSessionPerCall'
    <3>1. /\ Len(stack') = n - 1 /\ stack' # << >> /\ (n - 1) - 1 = n - 2 /\ n - 1 \in 1 .. n - 1
          /\ Len(solution'.list) = m + Len(stack') - 1
          /\ \A i \in 1 .. n - 2 : i \in 1 .. n - 1
      BY <1>1, <1>2, <1>4, <2>2, <2>4
    <3>2. Top'.selected \in Top'.left
      BY <2>7, <3>1 DEF Top
    <3>3. step' = "loop" /\ UNCHANGED problem
      BY <1>1, <2>1
    <3> HIDE DEF n, m
    <3> QED
      BY <2>7, <2>8, <3>1, <3>2, <3>3 DEF OneSessionPerCall, m
  <2>10. IndexAgrees'
    BY <2>1, <2>3 DEF IndexAgrees
  <2> QED
    BY <2>5, <2>9, <2>10 DEF Inv
<1> QED
  BY <1>3, <1>4

\* Every step preserves the invariant.
LEMMA NextInv == Inv /\ [Next]_vars => Inv'
<1> SUFFICES ASSUME Inv, [Next]_vars PROVE Inv'
  OBVIOUS
<1>1. ASSUME NEW result \in Statuses, Finish(result), UNCHANGED <<solution, stack>> PROVE Inv'
  BY <1>1, FinishInv DEF Finish
<1>2. CASE Reject
  BY <1>1, <1>2 DEF Reject, Statuses
<1>3. CASE AllLocked
  BY <1>1, <1>3 DEF AllLocked, Conclude, Statuses
<1>4. CASE Stop
  BY <1>1, <1>4 DEF Stop, Statuses
<1>5. CASE AllPlaced
  BY <1>1, <1>5 DEF AllPlaced, Conclude, Statuses
<1>6. CASE NodeLimit
  BY <1>1, <1>6 DEF NodeLimit, Statuses
<1>7. ASSUME NEW v \in Candidates, Fail(v) PROVE Inv'
  BY <1>1, <1>7 DEF Fail, Statuses
<1>8. CASE UNCHANGED vars
  BY <1>8 DEF vars, Inv, TypeOK, OneSessionPerCall, IndexAgrees, Top
<1> QED
  BY <1>2, <1>3, <1>4, <1>5, <1>6, <1>7, <1>8, AcceptInv, SeedInv, BeginInv, SelectInv,
     SkipInv, PlaceInv, ReturnInv DEF Next

\* The search and its index keep step with each other, on every problem and any grid.
THEOREM Invariance == Spec => []Inv
BY InitInv, NextInv, PTL DEF Spec

\* On every problem the state of the search keeps its types and the node count its limit.
THEOREM TypeCorrect == Spec => []TypeOK
BY Invariance, PTL DEF Inv

\* Placements and calls stay one for one, however often the search goes back.
THEOREM CallsCorrect == Spec => []OneSessionPerCall
BY Invariance, PTL DEF Inv

\* The index the conflict checks read is exactly what the assignments say.
THEOREM IndexCorrect == Spec => []IndexAgrees
BY Invariance, PTL DEF Inv

-----------------------------------------------------------------------------
(* What the constraints let through can be added.  The constraints look at *)
(* the first slot that is taken and are blind to one id, AddAssignment     *)
(* looks at every slot: they agree because that id is nowhere in the index *)
(* while its session is being placed.                                      *)

\* A set of numbers has a least one.
LEMMA LeastNat ==
  ASSUME NEW T \in SUBSET Nat, T # {}
  PROVE  \E x \in T : \A y \in T : x <= y
<1> DEFINE R == {ss \in Nat \X Nat : ss[1] < ss[2]}
<1>1. IsWellFoundedOn(R, Nat)
  BY NatLessThanWellFounded DEF OpToRel
<1>2. \A x, y \in Nat : <<y, x>> \notin R => x <= y
  OBVIOUS
<1> HIDE DEF R
<1>3. \E x \in T : \A y \in T : ~ (<<y, x>> \in R)
  BY <1>1, WFMin
<1> QED
  BY <1>2, <1>3

\* A check that looks at the first taken slot only sees all that is taken by other ids.
LEMMA FreeUnlessTaken ==
  ASSUME NEW table, NEW resource, NEW cells \in SUBSET (Nat \X Nat), NEW id,
         \A c \in cells : table[<<resource, c>>] # id,
         ~Taken(table, resource, cells, id)
  PROVE  \A c \in cells : table[<<resource, c>>] = None
<1> DEFINE held == {c \in cells : table[<<resource, c>>] # None}
           T == {c[2] : c \in held}
<1> SUFFICES ASSUME held # {} PROVE FALSE
  OBVIOUS
<1>1. PICK m \in T : \A y \in T : m <= y
  <2>1. T \in SUBSET Nat /\ T # {}
    OBVIOUS
  <2> HIDE DEF T
  <2> QED
    BY <2>1, LeastNat
<1>2. PICK c \in held : c[2] = m
  OBVIOUS
<1>3. \A e \in cells : e[2] < c[2] => table[<<resource, e>>] = None
  <2> SUFFICES ASSUME NEW e \in cells, e[2] < c[2], e \in held PROVE FALSE
    OBVIOUS
  <2>1. e[2] \in Nat /\ c[2] \in Nat /\ e[2] \in T
    OBVIOUS
  <2> HIDE DEF T, held
  <2> QED
    BY <1>1, <1>2, <2>1
<1> QED
  BY <1>2, <1>3 DEF Taken

\* While a session is being placed nobody has its id.
LEMMA IdUnused ==
  ASSUME Inv, step = "loop", DistinctIds(problem)
  PROVE  /\ Top.selected \in Decisions(problem)
         /\ \A x \in Faculty \X Slots : solution.faculty[x] # Top.selected
         /\ \A x \in Rooms \X Slots : solution.room[x] # Top.selected
         /\ \A x \in Groups \X Slots : solution.group[x] # Top.selected
<1> DEFINE d == Top.selected
           n == Len(stack)
           m == Len(problem.locked)
<1>1. /\ problem \in Problems /\ solution \in Solution(problem)
      /\ n \in Nat \ {0} /\ m \in Nat /\ DOMAIN solution.list = 1 .. m + n - 1
      /\ problem.locked \in Seq(Assignment(problem)) /\ DOMAIN problem.locked = 1 .. m
  BY InCall, ReqsType, LenProperties
<1>2. d \in stack[n].left /\ stack[n].left = Decisions(problem) \ {stack[j].selected : j \in 1 .. n - 1}
  <2>1. n \in 1 .. n
    BY <1>1
  <2> QED
    BY <2>1 DEF Inv, OneSessionPerCall, Top
<1>3. \A k \in DOMAIN solution.list : solution.list[k].id # d
  <2> SUFFICES ASSUME NEW k \in DOMAIN solution.list PROVE solution.list[k].id # d
    OBVIOUS
  <2>1. CASE k <= m
    <3>1. solution.list[k] = problem.locked[k] /\ k \in DOMAIN problem.locked
      BY <1>1, <2>1 DEF Inv, OneSessionPerCall
    <3> QED
      BY <1>2, <3>1 DEF DistinctIds
  <2>2. CASE k > m
    <3>1. k - m \in 1 .. n - 1 /\ m + (k - m) = k
      BY <1>1, <2>2
    <3>2. \A i \in 1 .. n - 1 : solution.list[m + i].id = stack[i].selected
      BY DEF Inv, OneSessionPerCall
    <3> HIDE DEF n, m, d
    <3> QED
      BY <1>2, <3>1, <3>2
  <2> QED
    BY <1>1, <2>1, <2>2
<1>4. \A table, cells : Reflects(table, solution.list, cells) => \A x \in DOMAIN table : table[x] # d
  <2>1. d # None
    BY <1>1, <1>2, DecisionsType, GridAssumption
  <2> HIDE DEF d
  <2> QED
    BY <1>3, <2>1 DEF Reflects
<1>5. /\ DOMAIN solution.faculty = Faculty \X Slots /\ DOMAIN solution.room = Rooms \X Slots
      /\ DOMAIN solution.group = Groups \X Slots
  BY <1>1 DEF Solution, Table
<1> HIDE DEF d
<1>6. d \in Decisions(problem)
  BY <1>2
<1> QED
  BY <1>4, <1>5, <1>6 DEF Inv, IndexAgrees, Agrees, d

\* AddAssignment accepts what the constraints let through.
LEMMA FailImpossible ==
  ASSUME Inv, NEW v, Fail(v), DistinctIds(problem)
  PROVE  FALSE
<1> DEFINE d == Top.selected
           a == Assign(d, v)
           O == Occupied(problem, a)
<1>1. /\ step = "loop" /\ v \in Candidates /\ problem \in Problems
      /\ Suits(problem, a) /\ ~Conflicts(problem, solution, a) /\ ~Addable(problem, solution, a)
  BY TriedType, InCall DEF Fail, Consistent
<1>2. d \in Decisions(problem) /\ a \in Assignment(problem) /\ a.id = d
  BY <1>1, IdUnused, AssignType DEF Assign
<1>3. O \subseteq Slots /\ O \in SUBSET (Nat \X Nat)
  BY <1>1, GridAssumption DEF Suits, Available
<1>4. /\ FacultyOf(problem, a) \in Faculty /\ GroupOf(problem, a) \in Groups /\ a.room \in Rooms
  <2>1. a.req \in DOMAIN problem.reqs /\ a.room \in Rooms
    BY <1>2 DEF Assignment
  <2>2. problem.reqs[a.req] \in Requirement
    BY <1>1, <2>1, ReqsType
  <2> QED
    BY <2>1, <2>2 DEF Requirement, FacultyOf, GroupOf
<1> HIDE DEF d, a, O
<1>5. \A c \in O : solution.faculty[<<FacultyOf(problem, a), c>>] = None
  <2>1. \A c \in O : solution.faculty[<<FacultyOf(problem, a), c>>] # a.id
    BY <1>1, <1>2, <1>3, <1>4, IdUnused DEF d
  <2>2. ~Taken(solution.faculty, FacultyOf(problem, a), O, a.id)
    BY <1>1 DEF Conflicts, FacultyConflict, O
  <2> QED
    BY <1>3, <2>1, <2>2, FreeUnlessTaken
<1>6. \A c \in O : solution.room[<<a.room, c>>] = None
  <2>1. \A c \in O : solution.room[<<a.room, c>>] # a.id
    BY <1>1, <1>2, <1>3, <1>4, IdUnused DEF d
  <2>2. ~Taken(solution.room, a.room, O, a.id)
    BY <1>1 DEF Conflicts, RoomConflict, O
  <2> QED
    BY <1>3, <2>1, <2>2, FreeUnlessTaken
<1>7. ASSUME NEW g \in Overlapping(GroupOf(problem, a))
      PROVE  \A c \in O : solution.group[<<g, c>>] = None
  <2>1. g \in Groups
    BY DEF Overlapping
  <2>2. \A c \in O : solution.group[<<g, c>>] # a.id
    BY <1>1, <1>2, <1>3, <2>1, IdUnused DEF d
  <2>3. ~Taken(solution.group, g, O, a.id)
    BY <1>1, <1>7 DEF Conflicts, StudentGroupConflict, O
  <2> QED
    BY <1>3, <2>2, <2>3, FreeUnlessTaken
<1>8. Addable(problem, solution, a)
  BY <1>3, <1>5, <1>6, <1>7 DEF Addable, FacultyCells, RoomCells, O
<1> QED
  BY <1>1, <1>8

\* No step ends the search without a status.
LEMMA NeverFailsNext == Inv /\ NeverFails /\ [Next]_vars => NeverFails'
<1> SUFFICES ASSUME Inv, NeverFails, [Next]_vars, step' = "done", status' = "", DistinctIds(problem')
             PROVE  FALSE
  BY DEF NeverFails
<1>1. problem' = problem
  BY DEF Next, vars, Reject, Accept, Seed, Begin, AllLocked, Conclude, Stop, AllPlaced, NodeLimit,
         Select, Skip, Fail, Place, Return, Finish
<1>2. ASSUME NEW v \in Candidates, Fail(v) PROVE FALSE
  BY <1>1, <1>2, FailImpossible
<1>3. CASE UNCHANGED vars
  BY <1>3 DEF vars, NeverFails
<1>4. CASE Reject \/ Accept \/ Seed \/ Begin \/ AllLocked
  BY <1>4 DEF Reject, Accept, Seed, Begin, AllLocked, Conclude, Finish
<1>5. CASE Stop \/ AllPlaced \/ NodeLimit \/ Select
  BY <1>5 DEF Stop, AllPlaced, NodeLimit, Select, Conclude, Finish
<1>6. ASSUME NEW v \in Candidates, Skip(v) \/ Place(v) PROVE FALSE
  BY <1>6 DEF Skip, Place, Turn
<1>7. CASE Return
  BY <1>7 DEF Return, Finish
<1> QED
  BY <1>2, <1>3, <1>4, <1>5, <1>6, <1>7 DEF Next

\* The search never ends without a status, unless a locked session bears the id of a session
\* to place: every candidate the constraints let through can be added (backtracking.go:273).
THEOREM AlwaysAddable == Spec => []NeverFails
<1>1. Init => NeverFails
  BY DEF Init, NeverFails
<1> QED
  BY <1>1, NeverFailsNext, Invariance, PTL DEF Spec

-----------------------------------------------------------------------------
(***************************************************************************)
(* What SOLVED means and what forward checking leaves, for any problems    *)
(* over any finite grid.                                                   *)
(*                                                                         *)
(* The sessions placed so far are described without the index: they lie in *)
(* the grid, suit, and do not clash (Sound).  AddAssignment accepts        *)
(* exactly what clashes with none of them (AddableApart), because the      *)
(* index agrees with the list.  A complete list that is sound and that the *)
(* final check lets pass is then a feasible timetable: the sessions a rule *)
(* counts are matched, one to one, with those of the definition            *)
(* (FinalFeasible).  The candidates of a call are what the assignments     *)
(* before it leave (Exact), a set that only shrinks from call to call.     *)
(***************************************************************************)

-----------------------------------------------------------------------------
(* Counting. *)

\* A set that is matched, one to one, with a finite set or with a part of it.
LEMMA Matched ==
  ASSUME NEW S, NEW T, IsFiniteSet(T), NEW f \in [S -> T], \A x, y \in S : f[x] = f[y] => x = y
  PROVE  /\ IsFiniteSet(S) /\ Cardinality(S) \in Nat /\ Cardinality(T) \in Nat
         /\ Cardinality(S) <= Cardinality(T)
         /\ (\A t \in T : \E x \in S : f[x] = t) => Cardinality(S) = Cardinality(T)
<1>1. f \in Injection(S, T)
  BY DEF Injection, IsInjective
<1>2. (\A t \in T : \E x \in S : f[x] = t) => f \in Surjection(S, T)
  BY DEF Surjection
<1> QED
  BY <1>1, <1>2, FS_Injection, FS_CardinalityType

\* Two parts of a finite set that do not meet.
LEMMA Parts ==
  ASSUME NEW S, NEW T, IsFiniteSet(S), IsFiniteSet(T), S \cap T = {}
  PROVE  /\ IsFiniteSet(S \cup T) /\ Cardinality(S) \in Nat /\ Cardinality(T) \in Nat
         /\ Cardinality(S \cup T) = Cardinality(S) + Cardinality(T)
<1>1. Cardinality(S \cap T) = 0
  BY FS_EmptySet
<1>2. IsFiniteSet(S \cup T) /\ Cardinality(S \cup T) = Cardinality(S) + Cardinality(T) - Cardinality(S \cap T)
  BY FS_Union
<1>3. Cardinality(S) \in Nat /\ Cardinality(T) \in Nat
  BY FS_CardinalityType
<1> QED
  BY <1>1, <1>2, <1>3

-----------------------------------------------------------------------------
(* The sessions placed so far, without an index. *)

\* Each lies in the grid, no two clash, and those after the first n were found suitable and
\* name the requirement their id begins with.
Sound(p, list, n) ==
  /\ \A k \in DOMAIN list :
       /\ Occupied(p, list[k]) \subseteq Slots
       /\ k > n => Suits(p, list[k]) /\ list[k].req = list[k].id[1]
  /\ \A k, j \in DOMAIN list : k # j => ~Clash(p, list[k], list[j])

\* The resources of an assignment.
LEMMA Resources ==
  ASSUME NEW p \in Problems, NEW a \in Assignment(p)
  PROVE  FacultyOf(p, a) \in Faculty /\ GroupOf(p, a) \in Groups /\ a.room \in Rooms
<1>1. a.req \in DOMAIN p.reqs /\ a.room \in Rooms
  BY DEF Assignment
<1>2. p.reqs[a.req] \in Requirement
  BY <1>1, ReqsType
<1> QED
  BY <1>1, <1>2 DEF Requirement, FacultyOf, GroupOf

\* A clash is one whichever session is named first.
LEMMA ClashBoth == \A p, a, b : Clash(p, a, b) <=> Clash(p, b, a)
<1> TAKE p, a, b
<1>1. Occupied(p, a) \cap Occupied(p, b) = Occupied(p, b) \cap Occupied(p, a)
  OBVIOUS
<1> QED
  BY <1>1 DEF Clash, GroupsOverlap

\* AddAssignment accepts what clashes with no session there is, and nothing else.
LEMMA AddableApart ==
  ASSUME NEW p \in Problems, NEW s \in Solution(p), Agrees(p, s), NEW a \in Assignment(p),
         \A k \in DOMAIN s.list : Occupied(p, s.list[k]) \subseteq Slots
  PROVE  Addable(p, s, a) <=> /\ Occupied(p, a) \subseteq Slots
                              /\ \A k \in DOMAIN s.list : ~Clash(p, s.list[k], a)
<1> DEFINE O == Occupied(p, a)
           l == s.list
           Free(table, cells, x) == table[x] = None <=> \A k \in DOMAIN l : x \notin cells[k]
<1>1. FacultyOf(p, a) \in Faculty /\ GroupOf(p, a) \in Groups /\ a.room \in Rooms
  BY Resources
<1>2. /\ DOMAIN s.faculty = Faculty \X Slots /\ DOMAIN s.room = Rooms \X Slots
      /\ DOMAIN s.group = Groups \X Slots /\ l \in Seq(Assignment(p))
  BY DEF Solution, Table
<1>3. \A k \in DOMAIN l : l[k].id # None
  <2>1. \A k \in DOMAIN l : l[k] \in Assignment(p)
    BY <1>2, ElementOfSeq, LenProperties
  <2>2. \A b \in Assignment(p) : b.id # None
    BY GridAssumption DEF Assignment
  <2> HIDE DEF l
  <2> QED
    BY <2>1, <2>2
<1>4. ASSUME NEW table, NEW cells, Reflects(table, l, cells), NEW x \in DOMAIN table
      PROVE  Free(table, cells, x)
  BY <1>3, <1>4 DEF Reflects
<1>5. \A c \in Slots : s.faculty[<<FacultyOf(p, a), c>>] = None <=>
        \A k \in DOMAIN l : ~(FacultyOf(p, l[k]) = FacultyOf(p, a) /\ c \in Occupied(p, l[k]))
  <2> TAKE c \in Slots
  <2>1. <<FacultyOf(p, a), c>> \in DOMAIN s.faculty
    BY <1>1, <1>2
  <2>2. Free(s.faculty, [k \in DOMAIN l |-> FacultyCells(p, l[k])], <<FacultyOf(p, a), c>>)
    BY <1>4, <2>1 DEF Agrees
  <2> QED
    BY <2>2 DEF FacultyCells
<1>6. \A c \in Slots : s.room[<<a.room, c>>] = None <=>
        \A k \in DOMAIN l : ~(l[k].room = a.room /\ c \in Occupied(p, l[k]))
  <2> TAKE c \in Slots
  <2>1. <<a.room, c>> \in DOMAIN s.room
    BY <1>1, <1>2
  <2>2. Free(s.room, [k \in DOMAIN l |-> RoomCells(p, l[k])], <<a.room, c>>)
    BY <1>4, <2>1 DEF Agrees
  <2> QED
    BY <2>2 DEF RoomCells
<1>7. \A c \in Slots, g \in Groups : s.group[<<g, c>>] = None <=>
        \A k \in DOMAIN l : ~(GroupOf(p, l[k]) = g /\ c \in Occupied(p, l[k]))
  <2> TAKE c \in Slots, g \in Groups
  <2>1. <<g, c>> \in DOMAIN s.group
    BY <1>2
  <2>2. Free(s.group, [k \in DOMAIN l |-> GroupCells(p, l[k])], <<g, c>>)
    BY <1>4, <2>1 DEF Agrees
  <2> QED
    BY <2>2 DEF GroupCells
<1>8. \A k \in DOMAIN l : l[k] \in Assignment(p) /\ GroupOf(p, l[k]) \in Groups
  BY <1>2, ElementOfSeq, LenProperties, Resources
<1>9. \A g, h : GroupsOverlap(g, h) <=> GroupsOverlap(h, g)
  BY DEF GroupsOverlap
<1>10. ASSUME Addable(p, s, a)
       PROVE  O \subseteq Slots /\ \A k \in DOMAIN l : ~Clash(p, l[k], a)
  <2>1. O \subseteq Slots
    BY <1>10 DEF Addable
  <2> SUFFICES ASSUME NEW k \in DOMAIN l, Clash(p, l[k], a) PROVE FALSE
    BY <2>1
  <2>2. PICK c \in O : c \in Occupied(p, l[k])
    BY DEF Clash
  <2>3. /\ s.faculty[<<FacultyOf(p, a), c>>] = None /\ s.room[<<a.room, c>>] = None
        /\ \A g \in Overlapping(GroupOf(p, a)) : s.group[<<g, c>>] = None
    BY <1>10 DEF Addable, FacultyCells, RoomCells
  <2>4. FacultyOf(p, l[k]) # FacultyOf(p, a) /\ l[k].room # a.room
    BY <1>5, <1>6, <2>1, <2>2, <2>3
  <2>5. ~GroupsOverlap(GroupOf(p, l[k]), GroupOf(p, a))
    BY <1>7, <1>8, <1>9, <2>1, <2>2, <2>3 DEF Overlapping
  <2> QED
    BY <2>4, <2>5 DEF Clash
<1>11. ASSUME O \subseteq Slots, \A k \in DOMAIN l : ~Clash(p, l[k], a)
       PROVE  Addable(p, s, a)
  <2>1. \A c \in O : s.faculty[<<FacultyOf(p, a), c>>] = None /\ s.room[<<a.room, c>>] = None
    BY <1>5, <1>6, <1>11 DEF Clash
  <2>2. \A c \in O, g \in Overlapping(GroupOf(p, a)) : s.group[<<g, c>>] = None
    <3> TAKE c \in O, g \in Overlapping(GroupOf(p, a))
    <3>1. g \in Groups /\ GroupsOverlap(g, GroupOf(p, a))
      BY <1>9 DEF Overlapping
    <3>2. \A k \in DOMAIN l : ~(GroupOf(p, l[k]) = g /\ c \in Occupied(p, l[k]))
      BY <1>11, <3>1 DEF Clash
    <3> QED
      BY <1>7, <1>11, <3>1, <3>2
  <2>3. \A x \in FacultyCells(p, a) : s.faculty[x] = None
    <3> TAKE x \in FacultyCells(p, a)
    <3>1. PICK c \in O : x = <<FacultyOf(p, a), c>>
      BY DEF FacultyCells
    <3> QED
      BY <2>1, <3>1
  <2>4. \A x \in RoomCells(p, a) : s.room[x] = None
    <3> TAKE x \in RoomCells(p, a)
    <3>1. PICK c \in O : x = <<a.room, c>>
      BY DEF RoomCells
    <3> QED
      BY <2>1, <3>1
  <2>5. \A x \in Overlapping(GroupOf(p, a)) \X O : s.group[x] = None
    <3> TAKE x \in Overlapping(GroupOf(p, a)) \X O
    <3>1. PICK g \in Overlapping(GroupOf(p, a)), c \in O : x = <<g, c>>
      OBVIOUS
    <3> QED
      BY <2>2, <3>1
  <2> QED
    BY <1>11, <2>3, <2>4, <2>5 DEF Addable
<1> QED
  BY <1>10, <1>11

\* One session more.
LEMMA SoundAppend ==
  ASSUME NEW p \in Problems, NEW list \in Seq(Assignment(p)), NEW n, Sound(p, list, n),
         NEW a \in Assignment(p), Occupied(p, a) \subseteq Slots,
         \A k \in DOMAIN list : ~Clash(p, list[k], a),
         Len(list) + 1 > n => Suits(p, a) /\ a.req = a.id[1]
  PROVE  Sound(p, Append(list, a), n)
<1> DEFINE new == Append(list, a)
           m == Len(list)
<1>1. /\ m \in Nat /\ DOMAIN list = 1 .. m /\ DOMAIN new = 1 .. m + 1
      /\ \A k \in 1 .. m : new[k] = list[k]
      /\ new[m + 1] = a
  BY AppendProperties, LenProperties
<1>2. \A k \in DOMAIN new : k \in 1 .. m \/ k = m + 1
  BY <1>1
<1>3. /\ \A k \in 1 .. m : /\ Occupied(p, list[k]) \subseteq Slots
                           /\ k > n => Suits(p, list[k]) /\ list[k].req = list[k].id[1]
      /\ \A k, j \in 1 .. m : k # j => ~Clash(p, list[k], list[j])
  BY <1>1 DEF Sound
<1> HIDE DEF new
<1>4. \A k \in DOMAIN new : /\ Occupied(p, new[k]) \subseteq Slots
                            /\ k > n => Suits(p, new[k]) /\ new[k].req = new[k].id[1]
  BY <1>1, <1>2, <1>3
<1>5. \A k, j \in DOMAIN new : k # j => ~Clash(p, new[k], new[j])
  BY <1>1, <1>2, <1>3, ClashBoth
<1> QED
  BY <1>4, <1>5 DEF Sound, new

\* The search takes sessions back and never changes one.
LEMMA SoundPrefix ==
  ASSUME NEW p, NEW list, NEW shorter, NEW n, Sound(p, list, n),
         DOMAIN shorter \subseteq DOMAIN list, \A k \in DOMAIN shorter : shorter[k] = list[k]
  PROVE  Sound(p, shorter, n)
BY DEF Sound

-----------------------------------------------------------------------------
(* SOLVED. *)

\* At every moment of the search; the status is set when it ends.
Placed == /\ Sound(problem, solution.list, Len(problem.locked))
          /\ step # "done" => status = ""

\* Seed adds a locked session that clashes with none before it.
LEMMA SeedPlaced == Inv /\ Placed /\ Seed => Placed'
<1> SUFFICES ASSUME Inv, Placed, Seed PROVE Placed'
  OBVIOUS
<1> DEFINE a == problem.locked[Len(solution.list) + 1]
           m == Len(problem.locked)
<1>1. /\ problem \in Problems /\ solution \in Solution(problem) /\ Agrees(problem, solution)
      /\ solution.list \in Seq(Assignment(problem)) /\ problem.locked \in Seq(Assignment(problem))
  BY ReqsType DEF Inv, TypeOK, IndexAgrees, Solution
<1>2. Len(solution.list) \in Nat /\ m \in Nat /\ Len(solution.list) < m
  BY <1>1, LenProperties DEF Seed, Seeding
<1>3. a \in Assignment(problem) /\ ~(Len(solution.list) + 1 > m)
  BY <1>1, <1>2, ElementOfSeq
<1>4. UNCHANGED <<problem, stack>> /\ Sound(problem, solution.list, m)
  BY DEF Seed, Finish, Placed
<1>5. CASE ~Addable(problem, solution, a)
  BY <1>4, <1>5 DEF Seed, Finish, Placed
<1>6. CASE Addable(problem, solution, a)
  <2>1. solution'.list = Append(solution.list, a) /\ UNCHANGED <<step, status>>
    <3>1. solution' = Add(problem, solution, a) /\ UNCHANGED <<step, status>>
      BY <1>6 DEF Seed
    <3> QED
      BY <1>1, <1>3, <3>1, AddType
  <2>2. /\ Occupied(problem, a) \subseteq Slots
        /\ \A k \in DOMAIN solution.list : ~Clash(problem, solution.list[k], a)
    <3>1. \A k \in DOMAIN solution.list : Occupied(problem, solution.list[k]) \subseteq Slots
      BY <1>4 DEF Sound
    <3> QED
      BY <1>1, <1>3, <1>6, <3>1, AddableApart
  <2>3. Sound(problem, Append(solution.list, a), m)
    <3> HIDE DEF a, m
    <3> QED
      BY <1>1, <1>3, <1>4, <2>2, SoundAppend
  <2> QED
    BY <1>4, <2>1, <2>3 DEF Placed
<1> QED
  BY <1>5, <1>6

\* Place adds a session that suits, clashes with none, and bears the id of its requirement.
LEMMA PlacePlaced ==
  ASSUME Inv, Placed, NEW v, Place(v)
  PROVE  Placed'
<1> DEFINE a == Assign(Top.selected, v)
           m == Len(problem.locked)
           l == solution.list
<1>1. /\ problem \in Problems /\ solution \in Solution(problem) /\ Agrees(problem, solution)
      /\ l \in Seq(Assignment(problem)) /\ step = "loop" /\ v \in Candidates
      /\ Top.selected \in Decisions(problem)
  <2>1. step = "loop" /\ v \in Candidates /\ Top.selected \in Top.left
    BY TriedType DEF Place
  <2> QED
    BY <2>1, InCall DEF Inv, IndexAgrees, Frame
<1>2. a \in Assignment(problem) /\ a.req = a.id[1]
  BY <1>1, AssignType DEF Assign
<1>3. Suits(problem, a) /\ Addable(problem, solution, a)
  BY DEF Place, Usable, Consistent
<1>4. UNCHANGED <<problem, status>> /\ status = "" /\ Sound(problem, l, m)
  BY <1>1 DEF Place, Placed
<1>5. \/ solution' = Add(problem, solution, a)
      \/ solution' = RemoveLast(problem, Add(problem, solution, a))
  BY DEF Place
<1> HIDE DEF a
<1>6. /\ Occupied(problem, a) \subseteq Slots
      /\ \A k \in DOMAIN l : ~Clash(problem, l[k], a)
  <2>1. \A k \in DOMAIN l : Occupied(problem, l[k]) \subseteq Slots
    BY <1>4 DEF Sound
  <2> QED
    BY <1>1, <1>2, <1>3, <2>1, AddableApart
<1>7. solution'.list = Append(l, a) \/ solution'.list = l
  <2>1. Add(problem, solution, a).list = Append(l, a)
    BY <1>1, <1>2, AddType
  <2>2. RemoveLast(problem, Add(problem, solution, a)).list = l
    BY <1>1, <1>2, <1>3, AddRemove
  <2> QED
    BY <1>5, <2>1, <2>2
<1>8. Sound(problem, Append(l, a), m)
  <2> HIDE DEF m, l
  <2> QED
    BY <1>1, <1>2, <1>3, <1>4, <1>6, SoundAppend
<1> QED
  BY <1>4, <1>7, <1>8 DEF Placed

\* Return leaves a shorter list.
LEMMA ReturnPlaced == Inv /\ Placed /\ Return => Placed'
<1> SUFFICES ASSUME Inv, Placed, Return PROVE Placed'
  OBVIOUS
<1> DEFINE l == solution.list
<1>1. step = "loop" /\ UNCHANGED problem
  BY DEF Return, Finish
<1>2. CASE Below = << >>
  BY <1>1, <1>2 DEF Return, Finish, Placed
<1>3. CASE Below # << >>
  <2>1. /\ solution \in Solution(problem) /\ l \in Seq(Assignment(problem)) /\ DOMAIN l = 1 .. Len(l)
        /\ Len(problem.locked) \in Nat /\ Len(stack) \in Nat \ {0}
        /\ Len(l) = Len(problem.locked) + Len(stack) - 1 /\ stack \in Seq(Frame(problem))
    BY <1>1, InCall
  <2>2. Len(stack) - 1 # 0
    <3> SUFFICES ASSUME Len(stack) = 1 PROVE FALSE
      BY <2>1
    <3>1. Below = << >>
      BY SubSeqProperties DEF Below
    <3> QED
      BY <1>3, <3>1
  <2>3. l # << >> /\ Len(l) \in Nat \ {0}
    <3>1. \A m, n \in Nat : n # 0 /\ n - 1 # 0 => m + n - 1 \in Nat \ {0}
      OBVIOUS
    <3>2. Len(l) \in Nat \ {0}
      BY <2>1, <2>2, <3>1
    <3> QED
      BY <3>2, EmptySeq
  <2>4. solution'.list = SubSeq(l, 1, Len(l) - 1) /\ UNCHANGED <<step, status>>
    BY <1>3, <2>1, <2>3, RemoveType DEF Return
  <2>5. /\ DOMAIN SubSeq(l, 1, Len(l) - 1) \subseteq DOMAIN l
        /\ \A k \in DOMAIN SubSeq(l, 1, Len(l) - 1) : SubSeq(l, 1, Len(l) - 1)[k] = l[k]
    <3>1. \A k \in 1 .. Len(l) - 1 : l[k] \in Assignment(problem)
      BY <2>1, ElementOfSeq
    <3>2. DEFINE t == SubSeq(l, 1, Len(l) - 1)
    <3>3. /\ t \in Seq(Assignment(problem)) /\ Len(t) = Len(l) - 1
          /\ \A k \in 1 .. Len(l) - 1 : t[k] = l[k]
      BY <2>3, <3>1, SubSeqProperties
    <3> QED
      BY <2>1, <2>3, <3>3, LenProperties
  <2>6. Sound(problem, SubSeq(l, 1, Len(l) - 1), Len(problem.locked))
    BY <2>5, SoundPrefix DEF Placed
  <2> QED
    BY <1>1, <2>4, <2>6 DEF Placed
<1> QED
  BY <1>2, <1>3

\* What was placed is sound at every moment.
LEMMA PlacedNext == Inv /\ Placed /\ [Next]_vars => Placed'
<1> SUFFICES ASSUME Inv, Placed, [Next]_vars PROVE Placed'
  OBVIOUS
<1>1. ASSUME UNCHANGED <<problem, solution>>, step' = "done" PROVE Placed'
  BY <1>1 DEF Placed
<1>2. ASSUME UNCHANGED <<problem, solution, status>>, step # "done" PROVE Placed'
  BY <1>2 DEF Placed
<1>3. CASE Reject \/ AllLocked \/ AllPlaced
  BY <1>1, <1>3 DEF Reject, AllLocked, AllPlaced, Conclude, Finish
<1>4. CASE Stop \/ NodeLimit
  BY <1>1, <1>4 DEF Stop, NodeLimit, Finish
<1>5. CASE Accept \/ Begin \/ Select
  BY <1>2, <1>5 DEF Accept, Begin, Select
<1>6. ASSUME NEW v \in Candidates, Skip(v) PROVE Placed'
  BY <1>2, <1>6 DEF Skip, Turn
<1>7. ASSUME NEW v \in Candidates, Fail(v) PROVE Placed'
  BY <1>1, <1>7 DEF Fail, Finish
<1>8. CASE UNCHANGED vars
  BY <1>8 DEF Placed, vars
<1> QED
  BY <1>3, <1>4, <1>5, <1>6, <1>7, <1>8, SeedPlaced, PlacePlaced, ReturnPlaced DEF Next

\* The list holds each session to place once, after the locked ones.
Complete(p, list) ==
  LET n == Len(p.locked)  mine == n + 1 .. Len(list)
  IN /\ SubSeq(list, 1, n) = p.locked
     /\ Len(list) = n + Cardinality(Decisions(p))
     /\ \A k \in mine : list[k].id \in Decisions(p)
     /\ \A k, j \in mine : list[k].id = list[j].id => k = j
     /\ \A d \in Decisions(p) : \E k \in mine : list[k].id = d

\* What SolvedIsFeasible says of a solution.
Feasible(p, s) ==
  LET n    == Len(p.locked)
      mine == n + 1 .. Len(s.list)
      at(d) == CHOOSE k \in mine : s.list[k].id = d
  IN /\ SubSeq(s.list, 1, n) = p.locked
     /\ Len(s.list) = n + Cardinality(Decisions(p))
     /\ {s.list[k].id : k \in mine} = Decisions(p)
     /\ Works(p, [d \in Decisions(p) |-> <<s.list[at(d)].room, s.list[at(d)].slot>>])

\* A complete and sound list that the final check passes is a feasible timetable.
LEMMA FinalFeasible ==
  ASSUME NEW p \in Problems, NEW s \in Solution(p), Sound(p, s.list, Len(p.locked)),
         Complete(p, s.list), PassesFinalCheck(p, s)
  PROVE  Feasible(p, s)
<1> DEFINE n    == Len(p.locked)
           l    == s.list
           mine == n + 1 .. Len(l)
           D    == Decisions(p)
           at(d) == CHOOSE k \in mine : l[k].id = d
           f    == [d \in D |-> <<l[at(d)].room, l[at(d)].slot>>]
<1>1. /\ l \in Seq(Assignment(p)) /\ DOMAIN l = 1 .. Len(l) /\ Len(l) \in Nat
      /\ p.locked \in Seq(Assignment(p)) /\ DOMAIN p.locked = 1 .. n /\ n \in Nat
      /\ p.rules \subseteq Rule(p)
  <2>1. l \in Seq(Assignment(p)) /\ p.locked \in Seq(Assignment(p))
    BY ReqsType DEF Solution
  <2> QED
    BY <2>1, LenProperties, ProblemsAssumption DEF WellFormed
<1>2. /\ SubSeq(l, 1, n) = p.locked
      /\ Len(l) = n + Cardinality(D)
      /\ \A k \in mine : l[k].id \in D
      /\ \A k, j \in mine : l[k].id = l[j].id => k = j
      /\ \A d \in D : \E k \in mine : l[k].id = d
  BY DEF Complete
<1>3. \A d \in D : at(d) \in mine /\ l[at(d)].id = d
  BY <1>2
<1>4. \A k \in mine : at(l[k].id) = k
  BY <1>2, <1>3
<1>5. n <= Len(l) /\ \A k \in 1 .. n : k \in DOMAIN l /\ l[k] = p.locked[k]
  <2>1. n <= Len(l)
    <3>1. CASE n = 0
      BY <1>1, <3>1
    <3>2. CASE n # 0
      <4> SUFFICES ASSUME ~(n <= Len(l)) PROVE FALSE
        OBVIOUS
      <4>1. mine = {}
        BY <1>1
      <4>2. D = {}
        BY <1>2, <4>1
      <4>3. Cardinality(D) = 0
        BY <4>2, FS_EmptySet
      <4> QED
        BY <1>1, <1>2, <4>3
    <3> QED
      BY <3>1, <3>2
  <2>2. \A k \in 1 .. n : l[k] \in Assignment(p)
    BY <1>1, <2>1, ElementOfSeq
  <2>3. \A k \in 1 .. n : SubSeq(l, 1, n)[k] = l[k]
    BY <1>1, <2>2, SubSeqProperties
  <2> QED
    BY <1>1, <1>2, <2>1, <2>3
<1>6. \A k \in mine : k \in DOMAIN l /\ k > n
  BY <1>1
<1>7. \A d \in D : Assign(d, f[d]) = l[at(d)]
  <2> TAKE d \in D
  <2> DEFINE a == l[at(d)]
  <2>1. a \in Assignment(p)
    BY <1>1, <1>3, <1>6, ElementOfSeq
  <2>2. a.id = d /\ a.req = d[1]
    BY <1>3, <1>6 DEF Sound
  <2>3. f[d] = <<a.room, a.slot>>
    OBVIOUS
  <2> HIDE DEF a, f
  <2>4. a = [id |-> a.id, req |-> a.req, room |-> a.room, slot |-> a.slot]
    BY <2>1 DEF Assignment
  <2>5. Assign(d, f[d]) = [id |-> d, req |-> d[1], room |-> a.room, slot |-> a.slot]
    BY <2>3 DEF Assign
  <2>6. Assign(d, f[d]) = a
    BY <2>2, <2>4, <2>5
  <2> QED
    BY <2>6 DEF a
<1> HIDE DEF at, f
<1>8. \A d \in D : Suits(p, Assign(d, f[d]))
  BY <1>3, <1>6, <1>7 DEF Sound
<1>9. \A d, e \in D : d # e => ~Clash(p, Assign(d, f[d]), Assign(e, f[e]))
  <2> SUFFICES ASSUME NEW d \in D, NEW e \in D, d # e
               PROVE  ~Clash(p, l[at(d)], l[at(e)])
    BY <1>7
  <2>1. at(d) # at(e) /\ at(d) \in DOMAIN l /\ at(e) \in DOMAIN l
    BY <1>3, <1>6
  <2> QED
    BY <2>1 DEF Sound
<1>10. \A d \in D, k \in DOMAIN p.locked : ~Clash(p, Assign(d, f[d]), p.locked[k])
  <2> SUFFICES ASSUME NEW d \in D, NEW k \in DOMAIN p.locked
               PROVE  ~Clash(p, l[at(d)], l[k])
    BY <1>1, <1>5, <1>7
  <2>1. at(d) # k /\ at(d) \in DOMAIN l /\ k \in DOMAIN l
    BY <1>1, <1>3, <1>5, <1>6
  <2> QED
    BY <2>1 DEF Sound
<1>11. ASSUME NEW rule \in p.rules, NEW g \in Groups, NEW slot \in Slots
       PROVE  Cardinality({k \in DOMAIN p.locked : /\ p.locked[k].req \in rule.covers
                                                   /\ GroupOf(p, p.locked[k]) = g
                                                   /\ p.locked[k].slot[1] = slot[1]})
              + Cardinality({d \in D : /\ d[1] \in rule.covers
                                       /\ GroupOf(p, Assign(d, f[d])) = g
                                       /\ f[d][2][1] = slot[1]})
              <= rule.max
  <2> DEFINE In(a) == a.req \in rule.covers /\ GroupOf(p, a) = g /\ a.slot[1] = slot[1]
             L == {k \in DOMAIN p.locked : In(p.locked[k])}
             M == {k \in mine : In(l[k])}
             P == {d \in D : In(Assign(d, f[d]))}
             h == [d \in P |-> at(d)]
  <2>1. P = {d \in D : /\ d[1] \in rule.covers /\ GroupOf(p, Assign(d, f[d])) = g
                       /\ f[d][2][1] = slot[1]}
    BY DEF Assign
  <2>2. rule.max \in Nat
    BY <1>1 DEF Rule
  <2>3. IsFiniteSet(L) /\ IsFiniteSet(M) /\ L \cap M = {}
    <3>1. IsFiniteSet(DOMAIN p.locked) /\ IsFiniteSet(mine)
      <4>1. 1 \in Int /\ n \in Int /\ n + 1 \in Int /\ Len(l) \in Int
        BY <1>1
      <4> HIDE DEF n, l
      <4> QED
        BY <1>1, <4>1, FS_Interval
    <3>2. L \in SUBSET DOMAIN p.locked /\ M \in SUBSET mine
      OBVIOUS
    <3>3. DOMAIN p.locked \cap mine = {}
      BY <1>1
    <3> HIDE DEF L, M
    <3> QED
      BY <3>1, <3>2, <3>3, FS_Subset
  <2>4. /\ Cardinality(L) \in Nat /\ Cardinality(M) \in Nat
        /\ Cardinality(L \cup M) = Cardinality(L) + Cardinality(M)
    <3> HIDE DEF L, M
    <3> QED
      BY <2>3, Parts
  <2>5. Cardinality(P) = Cardinality(M)
    <3>1. \A d \in P : at(d) \in M
      BY <1>3, <1>7
    <3>2. h \in [P -> M]
      <4> HIDE DEF P, M
      <4> QED
        BY <3>1
    <3>3. \A d, e \in P : h[d] = h[e] => d = e
      BY <1>3
    <3>4. \A k \in M : \E d \in P : h[d] = k
      <4> TAKE k \in M
      <4>1. l[k].id \in D /\ at(l[k].id) = k
        BY <1>2, <1>4 DEF at
      <4>2. l[k].id \in P
        BY <1>7, <4>1
      <4> QED
        BY <4>1, <4>2
    <3> HIDE DEF P, M, h
    <3> QED
      BY <2>3, <3>2, <3>3, <3>4, Matched
  <2>6. Cardinality(L \cup M) <= rule.max
    <3>1. L \cup M = {k \in DOMAIN l : In(l[k])}
      BY <1>1, <1>5
    <3>2. CASE L \cup M = {}
      <4>1. Cardinality(L \cup M) = 0
        BY <3>2, FS_EmptySet
      <4> QED
        BY <2>2, <4>1
    <3>3. CASE L \cup M # {}
      <4>1. PICK k \in DOMAIN l : In(l[k])
        BY <3>1, <3>3
      <4>2. RuleHolds(p, s, rule)
        BY DEF PassesFinalCheck
      <4>3. Cardinality(Crowd(p, s, rule, l[k])) <= rule.max
        BY <4>1, <4>2 DEF RuleHolds
      <4>4. Crowd(p, s, rule, l[k]) = L \cup M
        BY <3>1, <4>1 DEF Crowd
      <4> QED
        BY <4>3, <4>4
    <3> QED
      BY <3>2, <3>3
  <2> HIDE DEF L, M, P
  <2>7. Cardinality(L) + Cardinality(P) <= rule.max
    BY <2>4, <2>5, <2>6
  <2> QED
    BY <2>1, <2>7 DEF L
<1>12. Works(p, f)
  BY <1>8, <1>9, <1>10, <1>11 DEF Works
<1>13. {l[k].id : k \in mine} = D
  BY <1>2
<1> QED
  BY <1>2, <1>12, <1>13 DEF Feasible, f, at

\* When the last call has nothing left to place, the list is complete.
LEMMA AllPlacedComplete ==
  ASSUME Inv, step = "enter", Top.left = {}
  PROVE  Complete(problem, solution.list)
<1> DEFINE n == Len(problem.locked)
           l == solution.list
           N == Len(stack) - 1
           D == Decisions(problem)
           h == [i \in 1 .. N |-> stack[i].selected]
<1>1. /\ problem \in Problems /\ l \in Seq(Assignment(problem)) /\ DOMAIN l = 1 .. Len(l)
      /\ n \in Nat /\ Len(stack) \in Nat \ {0} /\ Len(l) = n + Len(stack) - 1
      /\ problem.locked \in Seq(Assignment(problem)) /\ DOMAIN problem.locked = 1 .. n
  BY InCall, ReqsType, LenProperties
<1>2. N \in Nat /\ Len(stack) = N + 1 /\ Len(l) = n + N
  BY <1>1
<1>3. /\ \A k \in 1 .. Len(l) : k <= n => l[k] = problem.locked[k]
      /\ \A i \in 1 .. N + 1 : stack[i].left = D \ {stack[j].selected : j \in 1 .. i - 1}
      /\ \A i \in 1 .. N : stack[i].selected \in stack[i].left /\ l[n + i].id = stack[i].selected
      /\ stack[N + 1].left = {}
  <2>1. DOMAIN l = 1 .. Len(l) /\ Len(stack) = N + 1
    BY <1>1
  <2> HIDE DEF N
  <2>2. Top = stack[N + 1]
    BY <2>1 DEF Top
  <2>4. Len(stack) - 1 = N
    BY DEF N
  <2>5. /\ \A k \in DOMAIN l : k <= n => l[k] = problem.locked[k]
        /\ \A i \in 1 .. Len(stack) : stack[i].left = D \ {stack[j].selected : j \in 1 .. i - 1}
        /\ \A i \in 1 .. Len(stack) - 1 :
             stack[i].selected \in stack[i].left /\ l[n + i].id = stack[i].selected
    BY DEF Inv, OneSessionPerCall
  <2> HIDE DEF n, l, D
  <2> QED
    BY <2>1, <2>2, <2>4, <2>5
<1> HIDE DEF n, l, N, D
<1>4. \A i \in 1 .. N : i \in 1 .. N + 1 /\ stack[i].selected \in D
  BY <1>2, <1>3
<1>5. \A i, j \in 1 .. N : stack[i].selected = stack[j].selected => i = j
  <2>1. \A i, j \in 1 .. N : j < i => stack[i].selected # stack[j].selected
    <3> TAKE i, j \in 1 .. N
    <3> HAVE j < i
    <3>1. j \in 1 .. i - 1
      BY <1>2
    <3> QED
      BY <1>3, <1>4, <3>1
  <2> QED
    BY <1>2, <2>1
<1>6. \A d \in D : \E i \in 1 .. N : stack[i].selected = d
  <2>1. N + 1 \in 1 .. N + 1 /\ (N + 1) - 1 = N
    BY <1>2
  <2>2. D \ {stack[j].selected : j \in 1 .. N} = {}
    BY <1>3, <2>1
  <2> QED
    BY <2>2
<1>7. Cardinality(D) = N
  <2>1. h \in [1 .. N -> D]
    BY <1>4
  <2>2. h \in Bijection(1 .. N, D)
    BY <1>5, <1>6, <2>1 DEF Bijection, Injection, Surjection, IsInjective
  <2>3. IsFiniteSet(1 .. N) /\ Cardinality(1 .. N) = N
    BY <1>2, FS_Interval
  <2> QED
    BY <2>2, <2>3, FS_Bijection DEF ExistsBijection
<1>8. \A k \in n + 1 .. Len(l) : k - n \in 1 .. N /\ n + (k - n) = k /\ l[k].id = stack[k - n].selected
  <2>1. \A k \in n + 1 .. Len(l) : k - n \in 1 .. N /\ n + (k - n) = k
    BY <1>1, <1>2
  <2> QED
    BY <1>3, <2>1
<1>9. \A i \in 1 .. N : n + i \in n + 1 .. Len(l)
  BY <1>1, <1>2
<1>10. SubSeq(l, 1, n) = problem.locked
  <2>1. \A k \in 1 .. n : k \in 1 .. Len(l) /\ l[k] = problem.locked[k] /\ l[k] \in Assignment(problem)
    <3>1. \A k \in 1 .. n : k \in 1 .. Len(l) /\ k <= n
      BY <1>1, <1>2
    <3> QED
      BY <1>1, <1>3, <3>1, ElementOfSeq
  <2>2. /\ SubSeq(l, 1, n) \in Seq(Assignment(problem)) /\ Len(SubSeq(l, 1, n)) = n
        /\ \A k \in 1 .. n : SubSeq(l, 1, n)[k] = problem.locked[k]
    BY <1>1, <2>1, SubSeqProperties
  <2> QED
    BY <1>1, <2>2, SeqEqual DEF n
<1>11. \A k, j \in n + 1 .. Len(l) : l[k].id = l[j].id => k = j
  <2> TAKE k, j \in n + 1 .. Len(l)
  <2> HAVE l[k].id = l[j].id
  <2>1. k - n = j - n
    BY <1>5, <1>8
  <2> QED
    BY <1>8, <2>1
<1>12. \A k \in n + 1 .. Len(l) : l[k].id \in D
  BY <1>4, <1>8
<1>13. \A d \in D : \E k \in n + 1 .. Len(l) : l[k].id = d
  BY <1>3, <1>6, <1>9
<1> QED
  BY <1>2, <1>7, <1>10, <1>11, <1>12, <1>13 DEF Complete, n, l, D

\* With nothing to place the locked sessions are all there is.
LEMMA AllLockedComplete ==
  ASSUME Inv, AllLocked
  PROVE  Complete(problem, solution.list)
<1> DEFINE n == Len(problem.locked)
           l == solution.list
<1>1. /\ problem \in Problems /\ l \in Seq(Assignment(problem)) /\ DOMAIN l = 1 .. Len(l)
      /\ n \in Nat /\ Len(l) \in Nat
      /\ problem.locked \in Seq(Assignment(problem)) /\ DOMAIN problem.locked = 1 .. n
  <2>1. problem \in Problems /\ l \in Seq(Assignment(problem))
    BY DEF Inv, TypeOK, Solution
  <2> QED
    BY <2>1, ReqsType, LenProperties
<1>2. Len(l) = n /\ Decisions(problem) = {} /\ Cardinality(Decisions(problem)) = 0
  BY <1>1, FS_EmptySet DEF AllLocked, Seeding, Inv, OneSessionPerCall
<1>3. \A k \in 1 .. n : l[k] = problem.locked[k] /\ l[k] \in Assignment(problem)
  BY <1>1, <1>2, ElementOfSeq DEF Inv, OneSessionPerCall
<1>4. n + 1 .. Len(l) = {}
  BY <1>1, <1>2
<1> HIDE DEF n, l
<1>5. SubSeq(l, 1, n) = problem.locked
  <2>1. /\ SubSeq(l, 1, n) \in Seq(Assignment(problem)) /\ Len(SubSeq(l, 1, n)) = n
        /\ \A k \in 1 .. n : SubSeq(l, 1, n)[k] = problem.locked[k]
    BY <1>1, <1>2, <1>3, SubSeqProperties
  <2> QED
    BY <1>1, <2>1, SeqEqual DEF n
<1> QED
  BY <1>1, <1>2, <1>4, <1>5 DEF Complete, n, l

\* The verdict is given with the final check.
LEMMA SolvedNext == Inv /\ Placed /\ SolvedIsFeasible /\ [Next]_vars => SolvedIsFeasible'
<1> SUFFICES ASSUME Inv, Placed, SolvedIsFeasible, [Next]_vars, status' = "SOLVED"
             PROVE  Feasible(problem, solution)'
  BY DEF SolvedIsFeasible, Feasible
<1>1. ASSUME Conclude, Complete(problem, solution.list) PROVE Feasible(problem, solution)'
  <2>1. problem \in Problems /\ solution \in Solution(problem)
    BY DEF Inv, TypeOK
  <2>2. PassesFinalCheck(problem, solution) /\ UNCHANGED <<problem, solution>>
    BY <1>1 DEF Conclude, Finish
  <2>3. Feasible(problem, solution)
    BY <1>1, <2>1, <2>2, FinalFeasible DEF Placed
  <2> QED
    BY <2>2, <2>3
<1>2. CASE AllLocked
  BY <1>1, <1>2, AllLockedComplete DEF AllLocked
<1>3. CASE AllPlaced
  BY <1>1, <1>3, AllPlacedComplete DEF AllPlaced
<1>4. CASE UNCHANGED vars
  BY <1>4 DEF vars, SolvedIsFeasible, Feasible
<1>5. ASSUME step # "done", UNCHANGED status PROVE FALSE
  BY <1>5 DEF Placed
<1>6. CASE Reject \/ Stop \/ NodeLimit
  BY <1>6 DEF Reject, Stop, NodeLimit, Finish
<1>7. CASE Accept \/ Begin \/ Select
  BY <1>5, <1>7 DEF Accept, Begin, Select
<1>8. CASE Seed
  BY <1>5, <1>8 DEF Seed, Finish
<1>9. CASE Return
  BY <1>5, <1>9 DEF Return, Finish
<1>10. ASSUME NEW v \in Candidates, Skip(v) PROVE FALSE
  BY <1>5, <1>10 DEF Skip, Turn
<1>11. ASSUME NEW v \in Candidates, Fail(v) PROVE FALSE
  BY <1>11 DEF Fail, Finish
<1>12. ASSUME NEW v \in Candidates, Place(v) PROVE FALSE
  BY <1>5, <1>12 DEF Place, Turn
<1> QED
  BY <1>2, <1>3, <1>4, <1>6, <1>7, <1>8, <1>9, <1>10, <1>11, <1>12 DEF Next

\* Nothing is placed at first.
LEMMA InitPlaced == Init => Placed /\ SolvedIsFeasible
<1> SUFFICES ASSUME Init PROVE Placed /\ SolvedIsFeasible
  OBVIOUS
<1>1. solution.list = << >> /\ status = ""
  BY EmptyType DEF Init
<1>2. DOMAIN << >> = {}
  OBVIOUS
<1> QED
  BY <1>1, <1>2 DEF Placed, Sound, SolvedIsFeasible

\* A solution reported as SOLVED keeps the locked sessions, places every other exactly once and
\* is feasible, although with compiled rules the final check asks for nothing but the rules
\* (verifier.go:329): the index has seen to the rest.
THEOREM SolvedCorrect == Spec => []SolvedIsFeasible
BY InitPlaced, PlacedNext, SolvedNext, Invariance, PTL DEF Spec

-----------------------------------------------------------------------------
(* Forward checking. *)

\* The candidates of d that the first m assignments leave.
Exact(p, s, m, d) ==
  {v \in Candidates :
     LET a == Assign(d, v)
     IN /\ Suits(p, a)
        /\ \A k \in 1 .. m : ~Clash(p, s.list[k], a)
        /\ \A rule \in p.rules :
             d[1] \in rule.covers => Cardinality(OnDay(p, s, rule, a) \cap 1 .. m) < rule.max}

\* While its id is nowhere in the index, the conflict checks let a session of the grid
\* through exactly when AddAssignment accepts it.
LEMMA ConflictsAddable ==
  ASSUME NEW p \in Problems, NEW s \in Solution(p), NEW a \in Assignment(p),
         Occupied(p, a) \subseteq Slots,
         \A x \in Faculty \X Slots : s.faculty[x] # a.id,
         \A x \in Rooms \X Slots : s.room[x] # a.id,
         \A x \in Groups \X Slots : s.group[x] # a.id
  PROVE  ~Conflicts(p, s, a) <=> Addable(p, s, a)
<1> DEFINE O == Occupied(p, a)
<1>1. /\ FacultyOf(p, a) \in Faculty /\ GroupOf(p, a) \in Groups /\ a.room \in Rooms
      /\ O \in SUBSET (Nat \X Nat)
  BY Resources, GridAssumption
<1>2. ASSUME NEW table, NEW resource, \A c \in O : table[<<resource, c>>] # a.id
      PROVE  ~Taken(table, resource, O, a.id) <=> \A c \in O : table[<<resource, c>>] = None
  <2> HIDE DEF O
  <2>1. ASSUME ~Taken(table, resource, O, a.id) PROVE \A c \in O : table[<<resource, c>>] = None
    BY <1>1, <1>2, <2>1, FreeUnlessTaken
  <2>2. ASSUME \A c \in O : table[<<resource, c>>] = None PROVE ~Taken(table, resource, O, a.id)
    BY <2>2 DEF Taken
  <2> QED
    BY <2>1, <2>2
<1> DEFINE FreeFaculty == \A c \in O : s.faculty[<<FacultyOf(p, a), c>>] = None
           FreeRoom    == \A c \in O : s.room[<<a.room, c>>] = None
           FreeGroup   == \A g \in Overlapping(GroupOf(p, a)) : \A c \in O : s.group[<<g, c>>] = None
<1>3. ~FacultyConflict(p, s, a) <=> FreeFaculty
  <2>1. \A c \in O : s.faculty[<<FacultyOf(p, a), c>>] # a.id
    BY <1>1
  <2> QED
    BY <1>2, <2>1 DEF FacultyConflict
<1>4. ~RoomConflict(p, s, a) <=> FreeRoom
  <2>1. \A c \in O : s.room[<<a.room, c>>] # a.id
    BY <1>1
  <2> QED
    BY <1>2, <2>1 DEF RoomConflict
<1>5. ~StudentGroupConflict(p, s, a) <=> FreeGroup
  <2>1. ASSUME NEW g \in Overlapping(GroupOf(p, a))
        PROVE  ~Taken(s.group, g, O, a.id) <=> \A c \in O : s.group[<<g, c>>] = None
    <3>1. g \in Groups
      BY DEF Overlapping
    <3>2. \A c \in O : s.group[<<g, c>>] # a.id
      BY <1>1, <3>1
    <3> QED
      BY <1>2, <3>2
  <2> QED
    BY <2>1 DEF StudentGroupConflict
<1>6. (\A x \in FacultyCells(p, a) : s.faculty[x] = None) <=> FreeFaculty
  <2>1. \A x : x \in FacultyCells(p, a) <=> \E c \in O : x = <<FacultyOf(p, a), c>>
    BY DEF FacultyCells
  <2> HIDE DEF O
  <2> QED
    BY <2>1
<1>7. (\A x \in RoomCells(p, a) : s.room[x] = None) <=> FreeRoom
  <2>1. \A x : x \in RoomCells(p, a) <=> \E c \in O : x = <<a.room, c>>
    BY DEF RoomCells
  <2> HIDE DEF O
  <2> QED
    BY <2>1
<1>8. (\A x \in Overlapping(GroupOf(p, a)) \X O : s.group[x] = None) <=> FreeGroup
  <2>1. \A x : x \in Overlapping(GroupOf(p, a)) \X O
                 <=> \E g \in Overlapping(GroupOf(p, a)), c \in O : x = <<g, c>>
    OBVIOUS
  <2> HIDE DEF O
  <2> QED
    BY <2>1
<1> HIDE DEF FreeFaculty, FreeRoom, FreeGroup
<1>9. Addable(p, s, a) <=> FreeFaculty /\ FreeRoom /\ FreeGroup
  BY <1>6, <1>7, <1>8 DEF Addable
<1> QED
  BY <1>3, <1>4, <1>5, <1>9 DEF Conflicts

\* While nobody bears its id, the constraints let a session through exactly when the
\* assignments there are leave it the candidate.
LEMMA ConsistentExact ==
  ASSUME NEW p \in Problems, NEW s \in Solution(p), Agrees(p, s),
         \A k \in DOMAIN s.list : Occupied(p, s.list[k]) \subseteq Slots,
         NEW d \in Decisions(p), \A k \in DOMAIN s.list : s.list[k].id # d,
         NEW v \in Candidates
  PROVE  Consistent(p, s, Assign(d, v)) <=> v \in Exact(p, s, Len(s.list), d)
<1> DEFINE a == Assign(d, v)
           l == s.list
<1>1. /\ a \in Assignment(p) /\ a.id = d /\ a.req = d[1]
      /\ l \in Seq(Assignment(p)) /\ DOMAIN l = 1 .. Len(l) /\ Len(l) \in Nat
  BY AssignType, LenProperties DEF Assign, Solution
<1>2. /\ \A x \in Faculty \X Slots : s.faculty[x] # a.id
      /\ \A x \in Rooms \X Slots : s.room[x] # a.id
      /\ \A x \in Groups \X Slots : s.group[x] # a.id
  <2>1. \A table, cells : Reflects(table, l, cells) => \A x \in DOMAIN table : table[x] # d
    <3>1. d # None
      BY DecisionsType, GridAssumption
    <3> QED
      BY <3>1 DEF Reflects
  <2>2. /\ DOMAIN s.faculty = Faculty \X Slots /\ DOMAIN s.room = Rooms \X Slots
        /\ DOMAIN s.group = Groups \X Slots
    BY DEF Solution, Table
  <2> HIDE DEF a, l
  <2> QED
    BY <1>1, <2>1, <2>2 DEF Agrees, l
<1>3. ASSUME NEW rule \in p.rules
      PROVE  RuleAllows(p, s, rule, a) <=>
               (d[1] \in rule.covers => Cardinality(OnDay(p, s, rule, a) \cap 1 .. Len(l)) < rule.max)
  <2>1. OnDay(p, s, rule, a) \in SUBSET (1 .. Len(l))
    BY <1>1 DEF OnDay
  <2>2. IsFiniteSet(1 .. Len(l))
    <3>1. 1 \in Int /\ Len(l) \in Int
      BY <1>1
    <3> QED
      BY <3>1, FS_Interval
  <2>3. Cardinality(OnDay(p, s, rule, a)) \in Nat
    BY <2>1, <2>2, FS_Subset, FS_CardinalityType
  <2>4. rule.max \in Nat
    BY ProblemsAssumption DEF WellFormed, Rule
  <2>5. OnDay(p, s, rule, a) \cap 1 .. Len(l) = OnDay(p, s, rule, a)
    BY <2>1
  <2> HIDE DEF a, l
  <2>6. Cardinality(OnDay(p, s, rule, a)) + 1 <= rule.max <=> Cardinality(OnDay(p, s, rule, a)) < rule.max
    BY <2>3, <2>4
  <2> QED
    BY <1>1, <2>5, <2>6 DEF RuleAllows
<1> HIDE DEF a, l
<1>4. ASSUME Suits(p, a)
      PROVE  ~Conflicts(p, s, a) <=> \A k \in 1 .. Len(l) : ~Clash(p, l[k], a)
  <2>1. Occupied(p, a) \subseteq Slots
    BY <1>4 DEF Suits, Available
  <2>2. ~Conflicts(p, s, a) <=> Addable(p, s, a)
    BY <1>1, <1>2, <2>1, ConflictsAddable
  <2>3. Addable(p, s, a) <=> \A k \in DOMAIN s.list : ~Clash(p, s.list[k], a)
    BY <1>1, <2>1, AddableApart
  <2> QED
    BY <1>1, <2>2, <2>3 DEF l
<1> QED
  BY <1>3, <1>4 DEF Consistent, Exact, a, l

\* Only the first m assignments matter.
LEMMA ExactFrame ==
  ASSUME NEW p, NEW s, NEW t, NEW m, NEW d,
         \A k \in 1 .. m : k \in DOMAIN s.list /\ k \in DOMAIN t.list /\ s.list[k] = t.list[k]
  PROVE  Exact(p, s, m, d) = Exact(p, t, m, d)
<1>1. \A rule, a : OnDay(p, s, rule, a) \cap 1 .. m = OnDay(p, t, rule, a) \cap 1 .. m
  BY DEF OnDay
<1> QED
  BY <1>1 DEF Exact

\* One more assignment leaves no candidate that was ruled out.
LEMMA ExactShrinks ==
  ASSUME NEW p \in Problems, NEW s, NEW m \in Nat, NEW n \in Nat, m <= n, NEW d
  PROVE  Exact(p, s, n, d) \subseteq Exact(p, s, m, d)
<1>1. ASSUME NEW rule \in p.rules, NEW a,
             Cardinality(OnDay(p, s, rule, a) \cap 1 .. n) < rule.max
      PROVE  Cardinality(OnDay(p, s, rule, a) \cap 1 .. m) < rule.max
  <2> DEFINE A == OnDay(p, s, rule, a) \cap 1 .. n
             B == OnDay(p, s, rule, a) \cap 1 .. m
  <2>1. IsFiniteSet(1 .. n) /\ A \in SUBSET (1 .. n) /\ B \in SUBSET A
    BY FS_Interval
  <2> HIDE DEF A, B
  <2>2. IsFiniteSet(A)
    BY <2>1, FS_Subset
  <2>3. /\ IsFiniteSet(B) /\ Cardinality(B) <= Cardinality(A)
        /\ Cardinality(A) \in Nat /\ Cardinality(B) \in Nat
    BY <2>1, <2>2, FS_Subset, FS_CardinalityType
  <2>4. rule.max \in Nat
    BY ProblemsAssumption DEF WellFormed, Rule
  <2> QED
    BY <1>1, <2>3, <2>4 DEF A, B
<1>2. 1 .. m \subseteq 1 .. n
  OBVIOUS
<1> QED
  BY <1>1, <1>2 DEF Exact

\* DomainsExact without its provisos.
DomainsOf(p, s, calls) ==
  \A i \in DOMAIN calls : \A d \in calls[i].left :
    calls[i].domains[d] = Exact(p, s, Len(p.locked) + i - 1, d)

\* DomainsExact says this of the state, under its provisos.
LEMMA DomainsExactIs ==
  DomainsExact <=> (problem.mode # "BASIC" /\ DistinctIds(problem) => DomainsOf(problem, solution, stack))
BY DEF DomainsExact, DomainsOf, Exact

\* The session left to a call is nobody's yet.
LEMMA LeftUnused ==
  ASSUME Inv, step \in {"enter", "loop"}, DistinctIds(problem),
         NEW d \in Top.left, NEW k \in DOMAIN solution.list
  PROVE  d \in Decisions(problem) /\ solution.list[k].id # d
<1> DEFINE n == Len(stack)
           m == Len(problem.locked)
           l == solution.list
<1>1. /\ n \in Nat \ {0} /\ m \in Nat /\ DOMAIN l = 1 .. m + n - 1
      /\ problem.locked \in Seq(Assignment(problem)) /\ DOMAIN problem.locked = 1 .. m
  BY InCall, ReqsType, LenProperties
<1>2. d \in Decisions(problem) \ {stack[j].selected : j \in 1 .. n - 1}
  <2>1. n \in 1 .. n
    BY <1>1
  <2> QED
    BY <2>1 DEF Inv, OneSessionPerCall, Top
<1>3. CASE k <= m
  <2>1. l[k] = problem.locked[k] /\ k \in DOMAIN problem.locked
    BY <1>1, <1>3 DEF Inv, OneSessionPerCall
  <2> QED
    BY <1>2, <2>1 DEF DistinctIds
<1>4. CASE k > m
  <2>1. k - m \in 1 .. n - 1 /\ m + (k - m) = k
    BY <1>1, <1>4
  <2>2. \A i \in 1 .. n - 1 : l[m + i].id = stack[i].selected
    BY DEF Inv, OneSessionPerCall
  <2> HIDE DEF n, m, l
  <2> QED
    BY <1>2, <2>1, <2>2 DEF l
<1> QED
  BY <1>1, <1>3, <1>4

\* A change of the innermost call that keeps its sessions and their candidates.
LEMMA TopDomains ==
  ASSUME Inv, step \in {"enter", "loop"}, DomainsOf(problem, solution, stack),
         NEW f, f.left = Top.left, f.domains = Top.domains
  PROVE  DomainsOf(problem, solution, [stack EXCEPT ![Len(stack)] = f])
<1> DEFINE n == Len(stack)
           new == [stack EXCEPT ![n] = f]
<1>1. n \in DOMAIN stack /\ DOMAIN new = DOMAIN stack
  BY InCall
<1>2. \A i \in DOMAIN stack : new[i].left = stack[i].left /\ new[i].domains = stack[i].domains
  BY <1>1 DEF Top
<1> HIDE DEF new
<1> QED
  BY <1>1, <1>2 DEF DomainsOf, new

\* The outermost call gets what the locked sessions leave.
LEMMA BeginDomains ==
  ASSUME Inv, Placed, Begin, problem.mode # "BASIC", DistinctIds(problem)
  PROVE  DomainsOf(problem, solution, stack')
<1> DEFINE m == Len(problem.locked)
           domains == InitialDomains(problem, solution)
           l == solution.list
<1>1. /\ problem \in Problems /\ solution \in Solution(problem) /\ Agrees(problem, solution)
      /\ l \in Seq(Assignment(problem)) /\ DOMAIN l = 1 .. Len(l) /\ Len(l) \in Nat
      /\ problem.locked \in Seq(Assignment(problem)) /\ DOMAIN problem.locked = 1 .. m /\ m \in Nat
  <2>1. problem \in Problems /\ solution \in Solution(problem) /\ Agrees(problem, solution)
    BY DEF Inv, TypeOK, IndexAgrees
  <2> QED
    BY <2>1, ReqsType, LenProperties DEF Solution
<1>2. Len(l) = m
  BY <1>1 DEF Begin, Seeding, Inv, OneSessionPerCall
<1>3. \A d \in Decisions(problem) : \A k \in DOMAIN l : l[k].id # d
  BY <1>1, <1>2 DEF Begin, Inv, OneSessionPerCall, DistinctIds
<1>4. \A k \in DOMAIN l : Occupied(problem, l[k]) \subseteq Slots
  BY DEF Placed, Sound
<1>5. ASSUME NEW d \in Decisions(problem)
      PROVE  domains[d] = Exact(problem, solution, m, d)
  <2>1. domains[d] = {v \in Fitting(problem, d) : Consistent(problem, solution, Assign(d, v))}
    BY DEF InitialDomains, Prune
  <2>2. ASSUME NEW v \in Candidates
        PROVE  Consistent(problem, solution, Assign(d, v)) <=> v \in Exact(problem, solution, m, d)
    <3> HIDE DEF m, l
    <3> QED
      BY <1>1, <1>2, <1>3, <1>4, ConsistentExact DEF l
  <2>3. ASSUME NEW v \in Candidates, Consistent(problem, solution, Assign(d, v))
        PROVE  v \in Fitting(problem, d)
    BY <2>3 DEF Consistent, Suits, Available, Occupied, Assign, Fitting, Fits
  <2>4. Fitting(problem, d) \subseteq Candidates /\ Exact(problem, solution, m, d) \subseteq Candidates
    BY DEF Fitting, Exact
  <2> HIDE DEF domains, m
  <2> QED
    BY <2>1, <2>2, <2>3, <2>4
<1> HIDE DEF domains, m
<1>6. stack' = <<Call(Decisions(problem), domains)>>
  BY DEF Begin, domains
<1>7. /\ DOMAIN stack' = {1} /\ stack'[1].left = Decisions(problem) /\ stack'[1].domains = domains
      /\ m + 1 - 1 = m
  BY <1>1, <1>6 DEF Call
<1> QED
  BY <1>5, <1>7 DEF DomainsOf, m

\* Forward checking takes from a new call exactly what the placement rules out.
LEMMA PlaceDomains ==
  ASSUME Inv, Placed, NEW v, Place(v), DistinctIds(problem), problem.mode # "BASIC",
         DomainsOf(problem, solution, stack)
  PROVE  DomainsOf(problem, solution', stack')
<1> DEFINE n == Len(stack)
           m == Len(problem.locked)
           sel == Top.selected
           a == Assign(sel, v)
           l == solution.list
           new == Add(problem, solution, a)
           left == Top.left \ {sel}
           domains == Prune(problem, new, left, Top.domains)
           calls == Tried(v)
<1>1. /\ step = "loop" /\ v \in Candidates /\ sel \in Top.left /\ sel \in Decisions(problem)
      /\ problem \in Problems /\ solution \in Solution(problem) /\ Agrees(problem, solution)
      /\ l \in Seq(Assignment(problem)) /\ DOMAIN l = 1 .. Len(l)
      /\ n \in Nat \ {0} /\ m \in Nat /\ Len(l) = m + n - 1
      /\ Top.domains \in [Decisions(problem) -> SUBSET Candidates]
      /\ Top.left \subseteq Decisions(problem)
      /\ DOMAIN stack = 1 .. n
  <2>1. step = "loop" /\ v \in Candidates /\ sel \in Top.left
    BY TriedType DEF Place
  <2> QED
    BY <2>1, InCall DEF Inv, IndexAgrees, Frame
<1>2. PICK f \in Frame(problem) : f.left = Top.left /\ f.domains = Top.domains
                                  /\ calls = [stack EXCEPT ![n] = f]
  <2> DEFINE g == [Top EXCEPT !.untried = @ \ {v}]
  <2>1. g \in Frame(problem) /\ g.left = Top.left /\ g.domains = Top.domains
    BY <1>1, InCall DEF Frame
  <2>2. calls = [stack EXCEPT ![n] = g]
    BY <1>1 DEF Tried, Top
  <2> QED
    BY <2>1, <2>2
<1>3. DomainsOf(problem, solution, calls)
  BY <1>1, <1>2, TopDomains
<1>4. /\ a \in Assignment(problem) /\ a.id = sel
      /\ Suits(problem, a) /\ Addable(problem, solution, a)
  BY <1>1, AssignType DEF Assign, Place, Usable, Consistent
<1>5. \/ /\ solution' = new /\ stack' = Append(calls, Call(left, domains))
      \/ /\ solution' = RemoveLast(problem, new) /\ stack' = calls
  BY DEF Place
<1> HIDE DEF a
<1>6. /\ new \in Solution(problem) /\ new.list = Append(l, a) /\ Agrees(problem, new)
      /\ RemoveLast(problem, new).list = l
  BY <1>1, <1>4, AddType, AddAgrees, AddRemove
<1> HIDE DEF new
<1>7. /\ Len(new.list) = m + n /\ DOMAIN new.list = 1 .. m + n
      /\ \A k \in 1 .. m + n - 1 : k \in DOMAIN l /\ k \in DOMAIN new.list /\ new.list[k] = l[k]
      /\ new.list[m + n] = a
  <2>1. /\ Append(l, a) \in Seq(Assignment(problem)) /\ Len(Append(l, a)) = Len(l) + 1
        /\ \A k \in 1 .. Len(l) : Append(l, a)[k] = l[k]
        /\ Append(l, a)[Len(l) + 1] = a
    BY <1>1, <1>4, AppendProperties
  <2>2. Len(l) + 1 = m + n
    BY <1>1
  <2>3. DOMAIN Append(l, a) = 1 .. m + n
    BY <2>1, <2>2, LenProperties
  <2>4. \A k \in 1 .. m + n - 1 : k \in 1 .. m + n
    BY <1>1
  <2> HIDE DEF l
  <2> QED
    BY <1>1, <1>6, <2>1, <2>2, <2>3, <2>4
<1>8. CASE solution' = RemoveLast(problem, new) /\ stack' = calls
  <2>1. solution'.list = l
    BY <1>6, <1>8
  <2>2. \A k, d : Exact(problem, solution', k, d) = Exact(problem, solution, k, d)
    <3>1. \A rule, b : OnDay(problem, solution', rule, b) = OnDay(problem, solution, rule, b)
      BY <2>1 DEF OnDay
    <3> QED
      BY <2>1, <3>1 DEF Exact
  <2> QED
    BY <1>3, <1>8, <2>2 DEF DomainsOf
<1>9. CASE solution' = new /\ stack' = Append(calls, Call(left, domains))
  <2>1. ASSUME NEW d \in left PROVE domains[d] = Exact(problem, new, m + n, d)
    <3>1. d \in Decisions(problem) /\ d \in Top.left /\ d # sel
      BY <1>1
    <3>2. \A k \in DOMAIN new.list : /\ new.list[k].id # d
                                     /\ Occupied(problem, new.list[k]) \subseteq Slots
      <4>1. \A k \in DOMAIN l : l[k].id # d
        BY <1>1, <3>1, LeftUnused
      <4>2. \A k \in DOMAIN l : Occupied(problem, l[k]) \subseteq Slots
        BY DEF Placed, Sound
      <4>3. Occupied(problem, a) \subseteq Slots
        BY <1>4 DEF Suits, Available
      <4>4. \A k \in 1 .. m + n : k \in 1 .. m + n - 1 \/ k = m + n
        BY <1>1
      <4> HIDE DEF l
      <4> QED
        BY <1>4, <1>7, <3>1, <4>1, <4>2, <4>3, <4>4
    <3>3. Top.domains[d] = Exact(problem, solution, m + n - 1, d)
      <4>1. n \in DOMAIN stack
        BY <1>1
      <4> QED
        BY <3>1, <4>1 DEF DomainsOf, Top
    <3>4. Exact(problem, new, m + n, d) \subseteq Exact(problem, solution, m + n - 1, d)
      <4>1. Exact(problem, solution, m + n - 1, d) = Exact(problem, new, m + n - 1, d)
        BY <1>7, ExactFrame
      <4>2. m + n \in Nat /\ m + n - 1 \in Nat /\ m + n - 1 <= m + n
        BY <1>1
      <4>3. Exact(problem, new, m + n, d) \subseteq Exact(problem, new, m + n - 1, d)
        BY <1>1, <4>2, ExactShrinks
      <4> QED
        BY <4>1, <4>3
    <3>5. domains[d] = {w \in Top.domains[d] : Consistent(problem, new, Assign(d, w))}
      BY <1>1, <3>1 DEF Prune
    <3>6. \A w \in Candidates : Consistent(problem, new, Assign(d, w)) <=> w \in Exact(problem, new, m + n, d)
      BY <1>1, <1>6, <1>7, <3>1, <3>2, ConsistentExact
    <3>7. Exact(problem, solution, m + n - 1, d) \subseteq Candidates
      BY DEF Exact
    <3> HIDE DEF domains, m, n
    <3> QED
      BY <3>3, <3>4, <3>5, <3>6, <3>7
  <2>2. /\ Len(calls) = n /\ calls \in Seq(Frame(problem)) /\ DOMAIN calls = 1 .. n
    BY <1>1, <1>2, InCall
  <2> HIDE DEF calls, domains, left, n, m
  <2>3. /\ DOMAIN stack' = 1 .. n + 1 /\ stack'[n + 1] = Call(left, domains)
        /\ \A i \in 1 .. n : stack'[i] = calls[i]
    BY <1>9, <2>2
  <2>4. ASSUME NEW i \in 1 .. n, NEW d \in calls[i].left
        PROVE  calls[i].domains[d] = Exact(problem, new, m + i - 1, d)
    <3>1. calls[i].domains[d] = Exact(problem, solution, m + i - 1, d)
      BY <1>3, <2>2 DEF DomainsOf, m
    <3>2. \A k \in 1 .. m + i - 1 : k \in 1 .. m + n - 1
      BY <1>1
    <3>3. Exact(problem, solution, m + i - 1, d) = Exact(problem, new, m + i - 1, d)
      BY <1>7, <3>2, ExactFrame DEF l
    <3> QED
      BY <3>1, <3>3
  <2>5. \A i \in 1 .. n + 1 : i \in 1 .. n \/ i = n + 1
    BY <1>1
  <2>6. m + (n + 1) - 1 = m + n
    BY <1>1
  <2>7. Call(left, domains).left = left /\ Call(left, domains).domains = domains
    BY DEF Call
  <2>8. ASSUME NEW i \in 1 .. n + 1, NEW d \in stack'[i].left
        PROVE  stack'[i].domains[d] = Exact(problem, new, m + i - 1, d)
    <3>1. CASE i \in 1 .. n
      BY <2>3, <2>4, <3>1
    <3>2. CASE i = n + 1
      BY <2>1, <2>3, <2>6, <2>7, <3>2
    <3> QED
      BY <2>5, <3>1, <3>2
  <2> QED
    BY <1>9, <2>3, <2>8 DEF DomainsOf, m
<1> QED
  BY <1>5, <1>8, <1>9

\* A return drops the last call and the last assignment.
LEMMA ReturnDomains ==
  ASSUME Inv, Return, DomainsOf(problem, solution, stack)
  PROVE  DomainsOf(problem, solution', stack')
<1> DEFINE n == Len(stack)
           m == Len(problem.locked)
           l == solution.list
<1>1. /\ step = "loop" /\ stack' = Below /\ problem \in Problems
      /\ solution \in Solution(problem) /\ l \in Seq(Assignment(problem)) /\ DOMAIN l = 1 .. Len(l)
      /\ n \in Nat \ {0} /\ m \in Nat /\ Len(l) = m + n - 1 /\ DOMAIN stack = 1 .. n
      /\ stack \in Seq(Frame(problem))
  <2>1. step = "loop" /\ stack' = Below
    BY DEF Return
  <2> QED
    BY <2>1, InCall
<1>2. /\ DOMAIN Below = 1 .. n - 1 /\ \A i \in 1 .. n - 1 : i \in 1 .. n /\ Below[i] = stack[i]
  <2>1. \A i \in 1 .. n - 1 : i \in 1 .. n /\ stack[i] \in Frame(problem)
    <3>1. \A i \in 1 .. n - 1 : i \in 1 .. n
      BY <1>1
    <3> QED
      BY <1>1, <3>1, ElementOfSeq
  <2>2. /\ Below \in Seq(Frame(problem)) /\ Len(Below) = n - 1
        /\ \A i \in 1 .. n - 1 : Below[i] = stack[i]
    BY <1>1, <2>1, SubSeqProperties DEF Below
  <2> QED
    BY <2>1, <2>2, LenProperties
<1>3. CASE n = 1
  <2>1. DOMAIN Below = {}
    BY <1>2, <1>3
  <2> QED
    BY <1>1, <2>1 DEF DomainsOf
<1>4. CASE n # 1
  <2>1. Below # << >> /\ Len(l) \in Nat \ {0} /\ l # << >>
    <3>1. 1 \in DOMAIN Below
      BY <1>1, <1>2, <1>4
    <3>2. Len(l) \in Nat \ {0}
      BY <1>1, <1>4
    <3> QED
      BY <3>1, <3>2, EmptySeq
  <2>2. solution'.list = SubSeq(l, 1, Len(l) - 1)
    BY <1>1, <2>1, RemoveType DEF Return
  <2>3. \A k \in 1 .. m + n - 2 : k \in DOMAIN l /\ k \in DOMAIN solution'.list /\ solution'.list[k] = l[k]
    <3>1. \A k \in 1 .. Len(l) - 1 : k \in 1 .. Len(l) /\ l[k] \in Assignment(problem)
      <4>1. \A k \in 1 .. Len(l) - 1 : k \in 1 .. Len(l)
        BY <2>1
      <4> QED
        BY <1>1, <4>1, ElementOfSeq
    <3>2. DEFINE t == SubSeq(l, 1, Len(l) - 1)
    <3>3. /\ t \in Seq(Assignment(problem)) /\ Len(t) = Len(l) - 1
          /\ \A k \in 1 .. Len(l) - 1 : t[k] = l[k]
      BY <2>1, <3>1, SubSeqProperties
    <3>4. Len(l) - 1 = m + n - 2
      BY <1>1
    <3>5. DOMAIN t = 1 .. m + n - 2
      BY <3>3, <3>4, LenProperties
    <3> HIDE DEF t
    <3>6. solution'.list = t
      BY <2>2 DEF t
    <3> HIDE DEF l
    <3> QED
      BY <1>1, <3>1, <3>3, <3>4, <3>5, <3>6
  <2>4. ASSUME NEW i \in 1 .. n - 1, NEW d \in stack[i].left
        PROVE  stack[i].domains[d] = Exact(problem, solution', m + i - 1, d)
    <3>1. stack[i].domains[d] = Exact(problem, solution, m + i - 1, d)
      BY <1>1, <1>2 DEF DomainsOf
    <3>2. \A k \in 1 .. m + i - 1 : k \in 1 .. m + n - 2
      BY <1>1
    <3>3. Exact(problem, solution, m + i - 1, d) = Exact(problem, solution', m + i - 1, d)
      BY <2>3, <3>2, ExactFrame
    <3> QED
      BY <3>1, <3>3
  <2> HIDE DEF n, m
  <2> QED
    BY <1>1, <1>2, <2>4 DEF DomainsOf, m
<1> QED
  BY <1>3, <1>4

\* Nothing but a placement, a return and the first call touches the candidates left.
LEMMA DomainsNext == Inv /\ Placed /\ DomainsExact /\ [Next]_vars => DomainsExact'
<1> SUFFICES ASSUME Inv, Placed, DomainsExact, [Next]_vars PROVE DomainsExact'
  OBVIOUS
<1> SUFFICES ASSUME problem.mode # "BASIC", DistinctIds(problem)
             PROVE  DomainsOf(problem, solution', stack')
  <2>1. problem' = problem
    BY DEF Next, vars, Reject, Accept, Seed, Begin, AllLocked, Conclude, Stop, AllPlaced, NodeLimit,
           Select, Skip, Fail, Place, Return, Finish
  <2>2. DomainsExact' <=> (problem'.mode # "BASIC" /\ DistinctIds(problem')
                             => DomainsOf(problem', solution', stack'))
    BY DEF DomainsExact, DomainsOf, Exact
  <2> QED
    BY <2>1, <2>2
<1>1. DomainsOf(problem, solution, stack)
  BY DomainsExactIs
<1>2. ASSUME UNCHANGED <<solution, stack>> PROVE DomainsOf(problem, solution', stack')
  BY <1>1, <1>2
<1>3. CASE Reject \/ Accept \/ AllLocked \/ Stop \/ AllPlaced \/ NodeLimit \/ UNCHANGED vars
  BY <1>2, <1>3 DEF Reject, Accept, AllLocked, Stop, AllPlaced, NodeLimit, Conclude, vars
<1>4. CASE Seed
  <2>1. UNCHANGED stack /\ DOMAIN stack = {}
    BY <1>4 DEF Seed, Inv, OneSessionPerCall
  <2> QED
    BY <2>1 DEF DomainsOf
<1>5. CASE Begin
  <2>1. UNCHANGED solution
    BY <1>5 DEF Begin
  <2> QED
    BY <1>5, <2>1, BeginDomains
<1>6. CASE Select
  <2>1. PICK d : stack' = [stack EXCEPT ![Len(stack)].selected = d,
                                        ![Len(stack)].untried = Top.domains[d]]
    BY <1>6 DEF Select
  <2> DEFINE f == [Top EXCEPT !.selected = d, !.untried = Top.domains[d]]
  <2>2. step = "enter" /\ UNCHANGED solution
    BY <1>6 DEF Select
  <2>3. f.left = Top.left /\ f.domains = Top.domains
    BY <2>2, InCall DEF Frame
  <2>4. stack' = [stack EXCEPT ![Len(stack)] = f]
    BY <2>1, <2>2, InCall DEF Top
  <2> HIDE DEF f
  <2> QED
    BY <1>1, <2>2, <2>3, <2>4, TopDomains
<1>7. ASSUME NEW v \in Candidates, Skip(v) PROVE DomainsOf(problem, solution', stack')
  <2>1. step = "loop" /\ UNCHANGED solution /\ stack' = Tried(v)
    BY <1>7 DEF Skip, Turn
  <2> DEFINE f == [Top EXCEPT !.untried = @ \ {v}]
  <2>2. f.left = Top.left /\ f.domains = Top.domains
    BY <2>1, InCall DEF Frame
  <2>3. stack' = [stack EXCEPT ![Len(stack)] = f]
    BY <2>1, InCall DEF Tried, Top
  <2> HIDE DEF f
  <2> QED
    BY <1>1, <2>1, <2>2, <2>3, TopDomains
<1>8. ASSUME NEW v \in Candidates, Fail(v) PROVE DomainsOf(problem, solution', stack')
  BY <1>2, <1>8 DEF Fail
<1>9. ASSUME NEW v \in Candidates, Place(v) PROVE DomainsOf(problem, solution', stack')
  BY <1>1, <1>9, PlaceDomains
<1>10. CASE Return
  BY <1>1, <1>10, ReturnDomains
<1> QED
  BY <1>3, <1>4, <1>5, <1>6, <1>7, <1>8, <1>9, <1>10 DEF Next

\* Before the outermost call there are no candidates.
LEMMA InitDomains == Init => DomainsExact
<1>1. DOMAIN << >> = {}
  OBVIOUS
<1> QED
  BY <1>1 DEF Init, DomainsExact

\* At every depth and in both heuristic modes the candidates of a session are exactly those
\* the assignments before rule out neither by themselves nor by a rule (pruneDomains,
\* backtracking.go:443).
THEOREM DomainsCorrect == Spec => []DomainsExact
BY InitDomains, InitPlaced, DomainsNext, PlacedNext, Invariance, PTL DEF Spec

-----------------------------------------------------------------------------
(***************************************************************************)
(* Why an exhausted search is a proof, for any problems over any finite    *)
(* grid.                                                                   *)
(*                                                                         *)
(* Take a timetable f that works.  At every moment some call in progress   *)
(* has yet to try the candidate f gives its session, and the calls before  *)
(* it have placed theirs where f has them (NothingMissed).  A call that    *)
(* follows f cannot lose its candidate: what the others did, f does too,   *)
(* so none of it rules the candidate out (FollowsExact), and the           *)
(* candidates of a call are exactly what is not ruled out (DomainsExact).  *)
(* Hence the outermost call is never given up.  The only other way to      *)
(* INFEASIBLE is the final check, and what it finds broken is broken by    *)
(* the locked sessions alone (FinalCheckHolds).                            *)
(***************************************************************************)

-----------------------------------------------------------------------------
(* A timetable that works, and a partial solution that follows it.         *)

\* There are finitely many sessions to place.
LEMMA DecisionsFinite ==
  ASSUME NEW p \in Problems
  PROVE  IsFiniteSet(Decisions(p))
<1> DEFINE R == DOMAIN p.reqs
           D(r) == {r} \X (LockedCount(p, r) .. p.reqs[r].perWeek - 1)
           h == [r \in R |-> D(r)]
           S == {D(r) : r \in R}
<1>1. IsFiniteSet(R)
  <2>1. p.reqs \in Seq(Requirement)
    BY ProblemsAssumption DEF WellFormed
  <2>2. R = 1 .. Len(p.reqs) /\ 1 \in Int /\ Len(p.reqs) \in Int
    BY <2>1, LenProperties
  <2> QED
    BY <2>2, FS_Interval
<1>2. \A r \in R : IsFiniteSet(D(r))
  <2> TAKE r \in R
  <2>1. LockedCount(p, r) \in Int /\ p.reqs[r].perWeek - 1 \in Int
    BY LockedCountType, ReqsType DEF Requirement
  <2>2. IsFiniteSet({r}) /\ IsFiniteSet(LockedCount(p, r) .. p.reqs[r].perWeek - 1)
    BY <2>1, FS_Interval, FS_Singleton
  <2> QED
    BY <2>2, FS_Product
<1>3. IsFiniteSet(S)
  <2>1. h \in Surjection(R, S)
    BY DEF Surjection
  <2> QED
    BY <1>1, <2>1, FS_Surjection
<1>4. IsFiniteSet(UNION S)
  <2>1. \A T \in S : IsFiniteSet(T)
    BY <1>2
  <2> HIDE DEF S
  <2> QED
    BY <1>3, <2>1, FS_UNION
<1> QED
  BY <1>4 DEF Decisions

\* The sessions that follow f: the locked ones, then h[1], h[2] and so on where f has them.
Follows(p, list, h, n, f) ==
  LET m == Len(p.locked)
  IN /\ DOMAIN list = 1 .. m + n
     /\ \A k \in 1 .. m : list[k] = p.locked[k]
     /\ \A i \in 1 .. n : list[m + i] = Assign(h[i], f[h[i]])

\* Nothing that follows a timetable that works rules out the candidate of another session.
LEMMA FollowsExact ==
  ASSUME NEW p \in Problems, RulesByGroup(p), DistinctIds(p),
         NEW f \in [Decisions(p) -> Candidates], Works(p, f),
         NEW s, s.list \in Seq(Assignment(p)), NEW n \in Nat, NEW h,
         \A i \in 1 .. n : h[i] \in Decisions(p),
         \A i, j \in 1 .. n : h[i] = h[j] => i = j,
         Follows(p, s.list, h, n, f),
         NEW d \in Decisions(p), \A i \in 1 .. n : h[i] # d
  PROVE  f[d] \in Exact(p, s, Len(p.locked) + n, d)
<1> DEFINE m == Len(p.locked)
           l == s.list
           a == Assign(d, f[d])
           g == GroupOf(p, a)
           day == f[d][2][1]
<1>1. /\ m \in Nat /\ DOMAIN p.locked = 1 .. m /\ DOMAIN l = 1 .. m + n
      /\ \A k \in 1 .. m : l[k] = p.locked[k]
      /\ \A i \in 1 .. n : l[m + i] = Assign(h[i], f[h[i]])
  BY ReqsType, LenProperties DEF Follows
<1>2. /\ a \in Assignment(p) /\ a.id = d /\ a.req = d[1] /\ a.slot = f[d][2] /\ f[d] \in Candidates
      /\ g \in Groups /\ a.slot \in Slots
  <2>1. a \in Assignment(p) /\ a.id = d /\ a.req = d[1] /\ a.slot = f[d][2] /\ f[d] \in Candidates
    BY AssignType DEF Assign
  <2> QED
    BY <2>1, Resources DEF Assignment
<1>3. \A k \in 1 .. m + n : k \in 1 .. m \/ (k - m \in 1 .. n /\ m + (k - m) = k)
  BY <1>1
<1>4. Suits(p, a)
  BY DEF Works
<1>5. \A k \in 1 .. m + n : ~Clash(p, l[k], a)
  <2>1. \A k \in 1 .. m : ~Clash(p, l[k], a)
    BY <1>1, ClashBoth DEF Works
  <2>2. \A i \in 1 .. n : ~Clash(p, l[m + i], a)
    BY <1>1 DEF Works
  <2> HIDE DEF l, a, m
  <2> QED
    BY <1>3, <2>1, <2>2
<1>6. ASSUME NEW rule \in p.rules, d[1] \in rule.covers
      PROVE  Cardinality(OnDay(p, s, rule, a) \cap 1 .. m + n) < rule.max
  <2> DEFINE L == {k \in DOMAIN p.locked : /\ p.locked[k].req \in rule.covers
                                           /\ GroupOf(p, p.locked[k]) = g
                                           /\ p.locked[k].slot[1] = day}
             P == {e \in Decisions(p) : /\ e[1] \in rule.covers
                                        /\ GroupOf(p, Assign(e, f[e])) = g
                                        /\ f[e][2][1] = day}
             O == OnDay(p, s, rule, a) \cap 1 .. m + n
             O1 == O \cap 1 .. m
             O2 == {i \in 1 .. n : m + i \in O}
             O3 == {m + i : i \in O2}
  <2>1. Cardinality(L) + Cardinality(P) <= rule.max
    BY <1>2 DEF Works
  <2>2. rule.max \in Nat
    BY ProblemsAssumption DEF WellFormed, Rule
  <2>3. \A k \in O : /\ l[k].req \in rule.covers /\ l[k].slot[1] = day
                     /\ GroupOf(p, l[k]) = g
    <3> TAKE k \in O
    <3>1. /\ l[k].req \in rule.covers /\ l[k].slot[1] = a.slot[1]
          /\ GroupsOverlap(GroupOf(p, l[k]), GroupOf(p, a))
      BY DEF OnDay
    <3>2. GroupOf(p, l[k]) = GroupOf(p, a)
      BY <1>2, <1>6, <3>1 DEF RulesByGroup, GroupOf
    <3> QED
      BY <1>2, <3>1, <3>2
  <2>4. O1 \subseteq L
    BY <1>1, <2>3
  <2>5. \A i \in O2 : h[i] \in P \ {d}
    <3> TAKE i \in O2
    <3>1. i \in 1 .. n /\ m + i \in O
      OBVIOUS
    <3>2. l[m + i] = Assign(h[i], f[h[i]])
      BY <1>1, <3>1
    <3>3. l[m + i].req = h[i][1] /\ l[m + i].slot = f[h[i]][2]
      BY <3>2 DEF Assign
    <3> QED
      BY <2>3, <3>1, <3>2, <3>3
  <2>6. d \in P
    BY <1>6
  <2>7. IsFiniteSet(P) /\ IsFiniteSet(L)
    <3>1. P \in SUBSET Decisions(p) /\ L \in SUBSET (1 .. m)
      BY <1>1
    <3>2. IsFiniteSet(1 .. m)
      BY <1>1, FS_Interval
    <3> HIDE DEF P, L
    <3> QED
      BY <3>1, <3>2, DecisionsFinite, FS_Subset
  <2>8. O = O1 \cup O3 /\ O1 \cap O3 = {}
    BY <1>1, <1>3
  <2>9. IsFiniteSet(O2) /\ Cardinality(O2) <= Cardinality(P \ {d}) /\ IsFiniteSet(P \ {d})
    <3> DEFINE t == [i \in O2 |-> h[i]]
    <3>1. t \in [O2 -> P \ {d}] /\ \A i, j \in O2 : t[i] = t[j] => i = j
      <4>1. \A i \in O2 : i \in 1 .. n
        OBVIOUS
      <4> HIDE DEF O2, P
      <4> QED
        BY <2>5, <4>1
    <3>2. IsFiniteSet(P \ {d})
      BY <2>7, FS_RemoveElement
    <3> HIDE DEF t, O2, P
    <3> QED
      BY <3>1, <3>2, Matched
  <2>10. IsFiniteSet(O3) /\ Cardinality(O3) = Cardinality(O2)
    <3> DEFINE t == [k \in O3 |-> k - m]
    <3>1. \A k \in O3 : k - m \in O2 /\ k \in Int
      BY <1>1
    <3>2. \A i \in O2 : m + i \in O3 /\ (m + i) - m = i
      <4>1. \A i \in O2 : i \in 1 .. n
        OBVIOUS
      <4>2. \A i \in 1 .. n : (m + i) - m = i
        BY <1>1
      <4> HIDE DEF O2, m
      <4> QED
        BY <4>1, <4>2
    <3>3. t \in [O3 -> O2] /\ (\A k, j \in O3 : t[k] = t[j] => k = j) /\ \A i \in O2 : \E k \in O3 : t[k] = i
      <4> HIDE DEF O3, O2, m
      <4>1. m \in Nat
        BY <1>1
      <4> QED
        BY <3>1, <3>2, <4>1
    <3> HIDE DEF t, O3, O2
    <3> QED
      BY <2>9, <3>3, Matched
  <2> HIDE DEF O, O1, O2, O3, L, P
  <2>11. /\ IsFiniteSet(O1) /\ Cardinality(O1) <= Cardinality(L)
         /\ Cardinality(O1) \in Nat /\ Cardinality(L) \in Nat
    BY <2>4, <2>7, FS_Subset, FS_CardinalityType
  <2>12. Cardinality(O) = Cardinality(O1) + Cardinality(O3) /\ Cardinality(O3) \in Nat
    BY <2>8, <2>10, <2>11, Parts
  <2>13. Cardinality(P \ {d}) = Cardinality(P) - 1 /\ Cardinality(P) \in Nat
    BY <2>6, <2>7, FS_RemoveElement, FS_CardinalityType
  <2>14. Cardinality(O) < rule.max
    BY <2>1, <2>2, <2>9, <2>10, <2>11, <2>12, <2>13
  <2> QED
    BY <2>14 DEF O
<1> QED
  BY <1>2, <1>4, <1>5, <1>6 DEF Exact

-----------------------------------------------------------------------------
(* How the steps change the list and the stack. *)

\* A candidate is tried in the innermost call.
LEMMA TriedCalls ==
  ASSUME Inv, NEW v, Turn(v)
  PROVE  /\ step = "loop" /\ v \in Candidates /\ Top.selected \in Decisions(problem)
         /\ Tried(v) \in Seq(Frame(problem)) /\ Len(Tried(v)) = Len(stack)
         /\ \A i \in 1 .. Len(stack) :
              /\ Tried(v)[i].selected = stack[i].selected
              /\ Tried(v)[i].left = stack[i].left /\ Tried(v)[i].domains = stack[i].domains
              /\ Tried(v)[i].untried = IF i = Len(stack) THEN Top.untried \ {v} ELSE stack[i].untried
<1>1. step = "loop" /\ v \in Candidates /\ Top.selected \in Top.left
  BY TriedType
<1>2. /\ stack \in Seq(Frame(problem)) /\ Top \in Frame(problem)
      /\ Len(stack) \in Nat \ {0} /\ DOMAIN stack = 1 .. Len(stack)
  BY <1>1, InCall
<1>3. Top.selected \in Decisions(problem)
  BY <1>1, <1>2 DEF Frame
<1> DEFINE g == [Top EXCEPT !.untried = @ \ {v}]
<1>4. /\ g \in Frame(problem) /\ g.left = Top.left /\ g.domains = Top.domains
      /\ g.selected = Top.selected /\ g.untried = Top.untried \ {v}
  BY <1>2 DEF Frame
<1>5. Tried(v) = [stack EXCEPT ![Len(stack)] = g]
  BY <1>2 DEF Tried, Top
<1> HIDE DEF g
<1>6. /\ Tried(v) \in Seq(Frame(problem)) /\ Len(Tried(v)) = Len(stack)
      /\ \A i \in 1 .. Len(stack) : Tried(v)[i] = IF i = Len(stack) THEN g ELSE stack[i]
  BY <1>2, <1>4, <1>5, ExceptSeq
<1> QED
  BY <1>1, <1>3, <1>4, <1>6 DEF Top

\* Place puts one session more at the end of the list, or changes nothing in it.
LEMMA PlaceList ==
  ASSUME Inv, NEW v, Place(v)
  PROVE  LET a == Assign(Top.selected, v)
             left == Top.left \ {Top.selected}
             domains == Prune(problem, Add(problem, solution, a), left, Top.domains)
             n == Len(stack)
             m == Len(solution.list)
         IN /\ a \in Assignment(problem)
            /\ Add(problem, solution, a) \in Solution(problem)
            /\ Agrees(problem, Add(problem, solution, a))
            /\ Add(problem, solution, a).list \in Seq(Assignment(problem))
            /\ DOMAIN Add(problem, solution, a).list = 1 .. m + 1
            /\ \A k \in 1 .. m : Add(problem, solution, a).list[k] = solution.list[k]
            /\ Add(problem, solution, a).list[m + 1] = a
            /\ \/ /\ Viable(problem, left, domains)
                  /\ solution' = Add(problem, solution, a) /\ step' = "enter"
                  /\ Len(stack') = n + 1 /\ DOMAIN stack' = 1 .. n + 1
                  /\ \A i \in 1 .. n : stack'[i] = Tried(v)[i]
                  /\ stack'[n + 1] = Call(left, domains)
               \/ /\ ~Viable(problem, left, domains)
                  /\ solution'.list = solution.list /\ step' = "loop"
                  /\ stack' = Tried(v)
<1> DEFINE a == Assign(Top.selected, v)
           left == Top.left \ {Top.selected}
           new == Add(problem, solution, a)
           domains == Prune(problem, new, left, Top.domains)
           n == Len(stack)
           m == Len(solution.list)
           calls == Tried(v)
<1>1. /\ step = "loop" /\ v \in Candidates /\ Top.selected \in Decisions(problem)
      /\ calls \in Seq(Frame(problem)) /\ Len(calls) = n
  BY TriedCalls DEF Place
<1>2. /\ problem \in Problems /\ solution \in Solution(problem) /\ Agrees(problem, solution)
      /\ solution.list \in Seq(Assignment(problem)) /\ n \in Nat
  BY <1>1, InCall DEF Inv, IndexAgrees
<1>3. a \in Assignment(problem)
  BY <1>1, <1>2, AssignType
<1>4. Addable(problem, solution, a)
  BY DEF Place, Usable
<1>5. IF Viable(problem, left, domains)
      THEN solution' = new /\ stack' = Append(calls, Call(left, domains)) /\ step' = "enter"
      ELSE solution' = RemoveLast(problem, new) /\ stack' = calls /\ UNCHANGED step
  BY DEF Place
<1> HIDE DEF a, calls
<1>6. /\ new \in Solution(problem) /\ new.list = Append(solution.list, a) /\ Agrees(problem, new)
      /\ RemoveLast(problem, new).list = solution.list
  BY <1>2, <1>3, <1>4, AddType, AddAgrees, AddRemove
<1>7. /\ new.list \in Seq(Assignment(problem)) /\ Len(new.list) = m + 1
      /\ \A k \in 1 .. m : new.list[k] = solution.list[k]
      /\ new.list[m + 1] = a /\ DOMAIN new.list = 1 .. m + 1
  <2>1. /\ Append(solution.list, a) \in Seq(Assignment(problem)) /\ Len(Append(solution.list, a)) = m + 1
        /\ \A k \in 1 .. m : Append(solution.list, a)[k] = solution.list[k]
        /\ Append(solution.list, a)[m + 1] = a
    BY <1>2, <1>3, AppendProperties
  <2>2. DOMAIN Append(solution.list, a) = 1 .. m + 1
    BY <2>1, LenProperties
  <2> HIDE DEF new
  <2> QED
    BY <1>6, <2>1, <2>2
<1> HIDE DEF left, new, domains, n, m
<1>8. CASE Viable(problem, left, domains)
  <2>1. /\ Len(stack') = n + 1 /\ DOMAIN stack' = 1 .. n + 1
        /\ \A i \in 1 .. n : stack'[i] = calls[i]
        /\ stack'[n + 1] = Call(left, domains)
    BY <1>1, <1>2, <1>5, <1>8
  <2> QED
    BY <1>3, <1>5, <1>6, <1>7, <1>8, <2>1 DEF left, new, domains, n, m, a, calls
<1>9. CASE ~Viable(problem, left, domains)
  <2>1. solution'.list = solution.list /\ step' = "loop" /\ stack' = calls
    BY <1>1, <1>5, <1>6, <1>9
  <2> QED
    BY <1>3, <1>6, <1>7, <1>9, <2>1 DEF left, new, domains, n, m, a, calls
<1> QED
  BY <1>8, <1>9

\* Return drops the last call and, unless it was the outermost one, the last session.
LEMMA ReturnList ==
  ASSUME Inv, Return
  PROVE  LET n == Len(stack)  m == Len(solution.list)
         IN \/ n = 1 /\ UNCHANGED <<problem, solution>> /\ stack' = << >> /\ step' = "done"
            \/ /\ n - 1 \in Nat \ {0} /\ UNCHANGED problem
               /\ DOMAIN solution'.list = 1 .. m - 1
               /\ \A k \in 1 .. m - 1 : k \in 1 .. m /\ solution'.list[k] = solution.list[k]
               /\ Len(stack') = n - 1 /\ DOMAIN stack' = 1 .. n - 1
               /\ \A i \in 1 .. n - 1 : i \in 1 .. n /\ stack'[i] = stack[i]
               /\ step' = "loop"
<1> DEFINE n == Len(stack)
           l == solution.list
           t == SubSeq(l, 1, Len(l) - 1)
<1>1. step = "loop" /\ stack' = Below
  BY DEF Return
<1>2. /\ stack \in Seq(Frame(problem)) /\ n \in Nat \ {0} /\ DOMAIN stack = 1 .. n
      /\ solution \in Solution(problem) /\ l \in Seq(Assignment(problem))
      /\ Len(problem.locked) \in Nat /\ Len(l) = Len(problem.locked) + n - 1
      /\ DOMAIN l = 1 .. Len(l)
  BY <1>1, InCall
<1>3. /\ Len(Below) = n - 1 /\ DOMAIN Below = 1 .. n - 1
      /\ \A i \in 1 .. n - 1 : i \in 1 .. n /\ Below[i] = stack[i]
  <2>1. \A i \in 1 .. n - 1 : i \in 1 .. n /\ stack[i] \in Frame(problem)
    <3>1. \A i \in 1 .. n - 1 : i \in 1 .. n
      BY <1>2
    <3> QED
      BY <1>2, <3>1, ElementOfSeq
  <2>2. /\ Below \in Seq(Frame(problem)) /\ Len(Below) = n - 1
        /\ \A i \in 1 .. n - 1 : Below[i] = stack[i]
    BY <1>2, <2>1, SubSeqProperties DEF Below
  <2> QED
    BY <2>1, <2>2, LenProperties
<1>4. CASE n = 1
  <2>1. Len(Below) = 0
    BY <1>3, <1>4
  <2>2. Below = << >>
    BY <1>2, <2>1, SubSeqProperties, EmptySeq, <1>4 DEF Below
  <2> QED
    BY <1>1, <1>4, <2>2 DEF Return, Finish
<1>5. CASE n # 1
  <2>1. n - 1 \in Nat \ {0} /\ Len(l) \in Nat \ {0}
    BY <1>2, <1>5
  <2>2. l # << >> /\ Below # << >>
    <3>1. 1 \in DOMAIN Below
      BY <1>3, <2>1
    <3> QED
      BY <2>1, <3>1, EmptySeq
  <2>3. solution'.list = t /\ UNCHANGED problem /\ step' = "loop"
    <3>1. RemoveLast(problem, solution).list = t
      BY <1>2, <2>2, RemoveType
    <3> HIDE DEF t
    <3> QED
      BY <1>1, <2>2, <3>1 DEF Return
  <2>4. /\ DOMAIN t = 1 .. Len(l) - 1
        /\ \A k \in 1 .. Len(l) - 1 : k \in 1 .. Len(l) /\ t[k] = l[k]
    <3>1. \A k \in 1 .. Len(l) - 1 : k \in 1 .. Len(l) /\ l[k] \in Assignment(problem)
      <4>1. \A k \in 1 .. Len(l) - 1 : k \in 1 .. Len(l)
        BY <2>1
      <4> QED
        BY <1>2, <4>1, ElementOfSeq
    <3>2. /\ t \in Seq(Assignment(problem)) /\ Len(t) = Len(l) - 1
          /\ \A k \in 1 .. Len(l) - 1 : t[k] = l[k]
      <4>1. /\ t \in Seq(Assignment(problem))
            /\ Len(t) = IF 1 <= Len(l) - 1 THEN Len(l) - 1 - 1 + 1 ELSE 0
            /\ \A k \in 1 .. Len(l) - 1 - 1 + 1 : t[k] = l[1 + k - 1]
        BY <2>1, <3>1, SubSeqProperties
      <4>2. \A k \in 1 .. Len(l) - 1 : k \in 1 .. Len(l) - 1 - 1 + 1 /\ 1 + k - 1 = k
        BY <2>1
      <4> HIDE DEF t, l
      <4>3. Len(t) = Len(l) - 1
        <5>1. Len(l) \in Nat \ {0}
          BY <2>1
        <5>2. Len(t) = IF 1 <= Len(l) - 1 THEN Len(l) - 1 - 1 + 1 ELSE 0
          BY <4>1
        <5> QED
          BY <5>1, <5>2
      <4>4. ASSUME NEW k \in 1 .. Len(l) - 1
            PROVE  t[k] = l[k]
        <5>1. k \in 1 .. Len(l) - 1 - 1 + 1 /\ 1 + k - 1 = k
          BY <4>2
        <5>2. t[k] = l[1 + k - 1]
          BY <4>1, <5>1
        <5> QED
          BY <5>1, <5>2
      <4> QED
        BY <4>1, <4>3, <4>4
    <3> QED
      BY <3>1, <3>2, LenProperties
  <2> HIDE DEF t
  <2>5. /\ DOMAIN solution'.list = 1 .. Len(l) - 1
        /\ \A k \in 1 .. Len(l) - 1 : k \in 1 .. Len(l) /\ solution'.list[k] = l[k]
    BY <2>3, <2>4
  <2> HIDE DEF n, l
  <2> QED
    BY <1>1, <1>3, <2>1, <2>3, <2>5 DEF n, l
<1> QED
  BY <1>4, <1>5

-----------------------------------------------------------------------------
(* What the final check and the candidates rest on. *)

\* Each session after the first n found the rules kept with it, when it was placed.
RulesKept(p, s, n) ==
  \A k \in DOMAIN s.list : k > n =>
    \A rule \in p.rules :
      s.list[k].req \in rule.covers =>
        Cardinality(OnDay(p, s, rule, s.list[k]) \cap 1 .. k - 1) < rule.max

\* The basic search rules no candidate out.
AllFitting(p, calls) ==
  \A i \in DOMAIN calls : \A d \in calls[i].left : calls[i].domains[d] = Fitting(p, d)

Grounds == /\ step \in {"seed", "enter", "loop"} => LockedValid(problem)
           /\ RulesKept(problem, solution, Len(problem.locked))
           /\ problem.mode = "BASIC" => AllFitting(problem, stack)

\* A list that is cut keeps the rules kept.
LEMMA KeptPrefix ==
  ASSUME NEW p, NEW s, NEW t, NEW n, NEW m \in Nat, NEW k \in Nat, k <= m, RulesKept(p, s, n),
         DOMAIN s.list = 1 .. m, DOMAIN t.list = 1 .. k,
         \A j \in 1 .. k : t.list[j] = s.list[j]
  PROVE  RulesKept(p, t, n)
<1>1. \A j \in 1 .. k : j \in 1 .. m
  OBVIOUS
<1>2. ASSUME NEW j \in 1 .. k
      PROVE  \A rule, a : OnDay(p, s, rule, a) \cap 1 .. j - 1 = OnDay(p, t, rule, a) \cap 1 .. j - 1
  <2>1. \A i \in 1 .. j - 1 : i \in 1 .. k
    OBVIOUS
  <2> QED
    BY <1>1, <2>1 DEF OnDay
<1> QED
  BY <1>1, <1>2 DEF RulesKept

\* A session more, that finds the rules kept or need not.
LEMMA KeptAppend ==
  ASSUME NEW p \in Problems, NEW s, NEW t, NEW n \in Nat, NEW m \in Nat, RulesKept(p, s, n), NEW a,
         DOMAIN s.list = 1 .. m, DOMAIN t.list = 1 .. m + 1,
         \A j \in 1 .. m : t.list[j] = s.list[j], t.list[m + 1] = a,
         m + 1 > n => \A rule \in p.rules : RuleAllows(p, s, rule, a)
  PROVE  RulesKept(p, t, n)
<1>1. ASSUME NEW j \in 1 .. m + 1
      PROVE  \A rule, b : OnDay(p, s, rule, b) \cap 1 .. j - 1 = OnDay(p, t, rule, b) \cap 1 .. j - 1
  <2>1. \A i \in 1 .. j - 1 : i \in 1 .. m /\ i \in 1 .. m + 1
    OBVIOUS
  <2> QED
    BY <2>1 DEF OnDay
<1>2. ASSUME NEW rule \in p.rules, m + 1 > n, a.req \in rule.covers
      PROVE  Cardinality(OnDay(p, t, rule, a) \cap 1 .. (m + 1) - 1) < rule.max
  <2>1. (m + 1) - 1 = m /\ m + 1 \in 1 .. m + 1 /\ 1 \in Int /\ m \in Int
    OBVIOUS
  <2>2. OnDay(p, t, rule, a) \cap 1 .. m = OnDay(p, s, rule, a)
    <3>1. OnDay(p, s, rule, a) \subseteq 1 .. m
      BY DEF OnDay
    <3>2. OnDay(p, t, rule, a) \cap 1 .. m = OnDay(p, s, rule, a) \cap 1 .. m
      BY <1>1, <2>1
    <3> QED
      BY <3>1, <3>2
  <2>3. Cardinality(OnDay(p, s, rule, a)) + 1 <= rule.max
    BY <1>2 DEF RuleAllows
  <2>4. OnDay(p, s, rule, a) \in SUBSET (1 .. m) /\ IsFiniteSet(1 .. m)
    BY <2>1, FS_Interval DEF OnDay
  <2>5. Cardinality(OnDay(p, s, rule, a)) \in Nat
    BY <2>4, FS_Subset, FS_CardinalityType
  <2>6. rule.max \in Nat
    BY ProblemsAssumption DEF WellFormed, Rule
  <2>7. Cardinality(OnDay(p, s, rule, a)) < rule.max
    BY <2>3, <2>5, <2>6
  <2>8. OnDay(p, t, rule, a) \cap 1 .. (m + 1) - 1 = OnDay(p, s, rule, a)
    BY <2>1, <2>2
  <2> QED
    BY <2>7, <2>8
<1>3. \A j \in 1 .. m + 1 : j \in 1 .. m \/ j = m + 1
  OBVIOUS
<1>4. ASSUME NEW j \in 1 .. m + 1, j > n, NEW rule \in p.rules, t.list[j].req \in rule.covers
      PROVE  Cardinality(OnDay(p, t, rule, t.list[j]) \cap 1 .. j - 1) < rule.max
  <2>1. CASE j = m + 1
    BY <1>2, <1>4, <2>1
  <2>2. CASE j \in 1 .. m
    BY <1>1, <1>4, <2>2 DEF RulesKept
  <2> QED
    BY <1>3, <2>1, <2>2
<1> QED
  BY <1>4 DEF RulesKept

\* The placement of a session found the rules kept.
LEMMA PlaceGrounds ==
  ASSUME Inv, Grounds, NEW v, Place(v)
  PROVE  Grounds'
<1> DEFINE a == Assign(Top.selected, v)
           n == Len(stack)
           m == Len(solution.list)
           left == Top.left \ {Top.selected}
           new == Add(problem, solution, a)
           domains == Prune(problem, new, left, Top.domains)
           calls == Tried(v)
<1>1. /\ step = "loop" /\ problem \in Problems /\ DOMAIN solution.list = 1 .. m
      /\ n \in Nat \ {0} /\ DOMAIN stack = 1 .. n
      /\ Len(problem.locked) \in Nat /\ m \in Nat /\ Top \in Frame(problem)
      /\ calls \in Seq(Frame(problem)) /\ Len(calls) = n
  <2>1. step = "loop" /\ calls \in Seq(Frame(problem)) /\ Len(calls) = n
    BY TriedCalls DEF Place
  <2> QED
    BY <2>1, InCall, LenProperties
<1>2. UNCHANGED problem /\ step' \in {"enter", "loop"}
  BY <1>1 DEF Place
<1>3. LockedValid(problem) /\ RulesKept(problem, solution, Len(problem.locked))
  BY <1>1 DEF Grounds
<1>4. \A rule \in problem.rules : RuleAllows(problem, solution, rule, a)
  BY DEF Place, Usable, Consistent
<1>5. /\ DOMAIN new.list = 1 .. m + 1 /\ new.list[m + 1] = a
      /\ \A k \in 1 .. m : new.list[k] = solution.list[k]
      /\ \/ /\ solution' = new /\ DOMAIN stack' = 1 .. n + 1
            /\ \A i \in 1 .. n : stack'[i] = calls[i]
            /\ stack'[n + 1] = Call(left, domains)
         \/ /\ solution'.list = solution.list /\ stack' = calls
  BY PlaceList
<1> HIDE DEF new, a
<1>6. RulesKept(problem, solution', Len(problem.locked))
  <2>1. RulesKept(problem, new, Len(problem.locked))
    <3> HIDE DEF m
    <3> QED
      BY <1>1, <1>3, <1>4, <1>5, KeptAppend
  <2>2. CASE solution'.list = solution.list
    BY <1>1, <1>3, <2>2, KeptPrefix
  <2> QED
    BY <1>5, <2>1, <2>2
<1>7. ASSUME problem.mode = "BASIC" PROVE AllFitting(problem, stack')
  <2>1. AllFitting(problem, stack)
    BY <1>7 DEF Grounds
  <2>2. /\ DOMAIN calls = 1 .. n
        /\ \A i \in 1 .. n : calls[i].left = stack[i].left /\ calls[i].domains = stack[i].domains
    BY <1>1, TriedCalls, LenProperties DEF Place
  <2>3. \A i \in 1 .. n : \A d \in calls[i].left : calls[i].domains[d] = Fitting(problem, d)
    BY <1>1, <2>1, <2>2 DEF AllFitting
  <2>4. ASSUME NEW d \in left PROVE domains[d] = Fitting(problem, d)
    <3>1. d \in Top.left /\ d \in DOMAIN Top.domains /\ n \in 1 .. n
      BY <1>1 DEF Frame
    <3>2. Top.domains[d] = Fitting(problem, d)
      BY <1>1, <2>1, <3>1 DEF AllFitting, Top
    <3> QED
      BY <1>7, <3>1, <3>2 DEF Prune
  <2>5. Call(left, domains).left = left /\ Call(left, domains).domains = domains
    BY DEF Call
  <2> HIDE DEF calls, left, domains, n
  <2>6. CASE stack' = calls
    BY <2>2, <2>3, <2>6 DEF AllFitting
  <2>7. CASE /\ DOMAIN stack' = 1 .. n + 1 /\ stack'[n + 1] = Call(left, domains)
             /\ \A i \in 1 .. n : stack'[i] = calls[i]
    <3>1. \A i \in 1 .. n + 1 : i \in 1 .. n \/ i = n + 1
      BY <1>1
    <3>2. ASSUME NEW i \in 1 .. n + 1, NEW d \in stack'[i].left
          PROVE  stack'[i].domains[d] = Fitting(problem, d)
      <4>1. CASE i \in 1 .. n
        BY <2>3, <2>7, <4>1
      <4>2. CASE i = n + 1
        BY <2>4, <2>5, <2>7, <4>2
      <4> QED
        BY <3>1, <4>1, <4>2
    <3> QED
      BY <2>7, <3>2 DEF AllFitting
  <2> QED
    BY <1>5, <2>6, <2>7
<1> QED
  BY <1>2, <1>3, <1>6, <1>7 DEF Grounds

\* A locked session need not find the rules kept.
LEMMA SeedGrounds == Inv /\ Grounds /\ Seed => Grounds'
<1> SUFFICES ASSUME Inv, Grounds, Seed PROVE Grounds'
  OBVIOUS
<1> DEFINE a == problem.locked[Len(solution.list) + 1]
           m == Len(solution.list)
           n == Len(problem.locked)
<1>1. /\ problem \in Problems /\ solution \in Solution(problem)
      /\ solution.list \in Seq(Assignment(problem)) /\ problem.locked \in Seq(Assignment(problem))
  BY ReqsType DEF Inv, TypeOK, Solution
<1>2. m \in Nat /\ n \in Nat /\ m < n /\ DOMAIN solution.list = 1 .. m
  BY <1>1, LenProperties DEF Seed, Seeding
<1>3. a \in Assignment(problem)
  BY <1>1, <1>2, ElementOfSeq
<1>4. CASE ~Addable(problem, solution, a)
  BY <1>4 DEF Seed, Finish, Grounds
<1>5. CASE Addable(problem, solution, a)
  <2>1. solution' = Add(problem, solution, a) /\ UNCHANGED <<problem, stack, step>>
    BY <1>5 DEF Seed
  <2>2. solution'.list = Append(solution.list, a)
    BY <1>1, <1>3, <2>1, AddType
  <2>3. /\ DOMAIN solution'.list = 1 .. m + 1 /\ solution'.list[m + 1] = a
        /\ \A k \in 1 .. m : solution'.list[k] = solution.list[k]
    BY <1>1, <1>3, <2>2, AppendProperties, LenProperties
  <2>4. RulesKept(problem, solution, n) /\ ~(m + 1 > n)
    BY <1>2 DEF Grounds
  <2>5. RulesKept(problem, solution', n)
    <3> HIDE DEF a, m, n
    <3> QED
      BY <1>1, <1>2, <2>3, <2>4, KeptAppend
  <2> QED
    BY <2>1, <2>5 DEF Grounds
<1> QED
  BY <1>4, <1>5

\* A return keeps a part of each.
LEMMA ReturnGrounds == Inv /\ Grounds /\ Return => Grounds'
<1> SUFFICES ASSUME Inv, Grounds, Return PROVE Grounds'
  OBVIOUS
<1> DEFINE n == Len(stack)
           m == Len(solution.list)
<1>1. /\ step = "loop" /\ n \in Nat /\ m \in Nat /\ DOMAIN solution.list = 1 .. m
      /\ DOMAIN stack = 1 .. n /\ m >= n - 1
  <2>1. step = "loop"
    BY DEF Return
  <2> QED
    BY <2>1, InCall, LenProperties
<1>2. CASE n = 1 /\ UNCHANGED <<problem, solution>> /\ stack' = << >> /\ step' = "done"
  <2>1. AllFitting(problem, << >>)
    BY DEF AllFitting
  <2> QED
    BY <1>2, <2>1 DEF Grounds
<1>3. CASE /\ n - 1 \in Nat \ {0} /\ UNCHANGED problem
           /\ DOMAIN solution'.list = 1 .. m - 1
           /\ \A k \in 1 .. m - 1 : k \in 1 .. m /\ solution'.list[k] = solution.list[k]
           /\ Len(stack') = n - 1 /\ DOMAIN stack' = 1 .. n - 1
           /\ \A i \in 1 .. n - 1 : i \in 1 .. n /\ stack'[i] = stack[i]
           /\ step' = "loop"
  <2>1. m - 1 \in Nat /\ m - 1 <= m
    BY <1>1, <1>3
  <2>2. RulesKept(problem, solution', Len(problem.locked))
    <3> HIDE DEF m
    <3> QED
      BY <1>1, <1>3, <2>1, KeptPrefix DEF Grounds
  <2>3. problem.mode = "BASIC" => AllFitting(problem, stack')
    BY <1>1, <1>3 DEF Grounds, AllFitting
  <2> QED
    BY <1>1, <1>3, <2>2, <2>3 DEF Grounds
<1> QED
  BY <1>2, <1>3, ReturnList

\* The other steps.
LEMMA GroundsNext == Inv /\ Grounds /\ [Next]_vars => Grounds'
<1> SUFFICES ASSUME Inv, Grounds, [Next]_vars PROVE Grounds'
  OBVIOUS
<1>1. ASSUME UNCHANGED <<problem, solution, stack>>, step' = "done" PROVE Grounds'
  BY <1>1 DEF Grounds
<1>2. CASE Reject \/ AllLocked \/ AllPlaced
  BY <1>1, <1>2 DEF Reject, AllLocked, AllPlaced, Conclude, Finish
<1>3. CASE Stop \/ NodeLimit
  BY <1>1, <1>3 DEF Stop, NodeLimit, Finish
<1>4. ASSUME NEW v \in Candidates, Fail(v) PROVE Grounds'
  BY <1>1, <1>4 DEF Fail, Finish
<1>5. CASE UNCHANGED vars
  BY <1>5 DEF Grounds, vars
<1>6. CASE Accept
  BY <1>6 DEF Accept, Grounds
<1>7. CASE Begin
  <2> DEFINE d0 == InitialDomains(problem, solution)
  <2>1. stack' = <<Call(Decisions(problem), d0)>>
    BY <1>7 DEF Begin
  <2>2. ASSUME problem.mode = "BASIC", NEW d \in Decisions(problem) PROVE d0[d] = Fitting(problem, d)
    BY <2>2 DEF InitialDomains, Prune
  <2> HIDE DEF d0
  <2>3. /\ DOMAIN stack' = {1} /\ stack'[1].left = Decisions(problem) /\ stack'[1].domains = d0
    BY <2>1 DEF Call
  <2> QED
    BY <1>7, <2>2, <2>3 DEF Begin, Grounds, AllFitting
<1>8. ASSUME step \in {"enter", "loop"}, step' = "loop", UNCHANGED <<problem, solution>>,
             DOMAIN stack' = DOMAIN stack,
             \A i \in DOMAIN stack : stack'[i].left = stack[i].left /\ stack'[i].domains = stack[i].domains
      PROVE  Grounds'
  BY <1>8 DEF Grounds, AllFitting
<1>9. CASE Select
  <2>1. PICK d : stack' = [stack EXCEPT ![Len(stack)].selected = d,
                                        ![Len(stack)].untried = Top.domains[d]]
    BY <1>9 DEF Select
  <2>2. step = "enter" /\ step' = "loop" /\ UNCHANGED <<problem, solution>>
    BY <1>9 DEF Select
  <2>3. /\ DOMAIN stack' = DOMAIN stack
        /\ \A i \in DOMAIN stack : stack'[i].left = stack[i].left /\ stack'[i].domains = stack[i].domains
    <3>1. Top \in Frame(problem) /\ Len(stack) \in DOMAIN stack
      BY <2>2, InCall
    <3> DEFINE g == [Top EXCEPT !.selected = d, !.untried = Top.domains[d]]
    <3>2. g.left = Top.left /\ g.domains = Top.domains
      BY <3>1 DEF Frame
    <3>3. stack' = [stack EXCEPT ![Len(stack)] = g]
      BY <2>1, <3>1 DEF Top
    <3> HIDE DEF g
    <3> QED
      BY <3>1, <3>2, <3>3 DEF Top
  <2> QED
    BY <1>8, <2>2, <2>3
<1>10. ASSUME NEW v \in Candidates, Skip(v) PROVE Grounds'
  <2>1. step = "loop" /\ step' = "loop" /\ UNCHANGED <<problem, solution>> /\ stack' = Tried(v)
    BY <1>10 DEF Skip, Turn
  <2>2. /\ DOMAIN stack' = DOMAIN stack
        /\ \A i \in DOMAIN stack : stack'[i].left = stack[i].left /\ stack'[i].domains = stack[i].domains
    <3>1. /\ Tried(v) \in Seq(Frame(problem)) /\ Len(Tried(v)) = Len(stack)
          /\ \A i \in 1 .. Len(stack) :
               Tried(v)[i].left = stack[i].left /\ Tried(v)[i].domains = stack[i].domains
      BY <1>10, TriedCalls DEF Skip
    <3>2. DOMAIN stack = 1 .. Len(stack)
      BY <2>1, InCall
    <3> QED
      BY <2>1, <3>1, <3>2, LenProperties
  <2> QED
    BY <1>8, <2>1, <2>2
<1> QED
  BY <1>2, <1>3, <1>4, <1>5, <1>6, <1>7, <1>9, <1>10, PlaceGrounds, SeedGrounds, ReturnGrounds DEF Next

\* At first there is nothing.
LEMMA InitGrounds == Init => Grounds
<1> SUFFICES ASSUME Init PROVE Grounds
  OBVIOUS
<1>1. solution.list = << >> /\ stack = << >> /\ step = "validate"
  BY EmptyType DEF Init
<1>2. DOMAIN << >> = {}
  OBVIOUS
<1> QED
  BY <1>1, <1>2 DEF Grounds, RulesKept, AllFitting

-----------------------------------------------------------------------------
(* The final check. *)

\* No session is in conflict by its own doing, nor by another's that it does not clash with.
LEMMA NoConflict ==
  ASSUME NEW p \in Problems, NEW s \in Solution(p), Agrees(p, s), NEW n, Sound(p, s.list, n),
         NEW k \in DOMAIN s.list
  PROVE  ~Conflicts(p, s, s.list[k])
<1> DEFINE l == s.list
           a == l[k]
           O == Occupied(p, a)
<1>1. /\ a \in Assignment(p) /\ O \subseteq Slots
      /\ FacultyOf(p, a) \in Faculty /\ GroupOf(p, a) \in Groups /\ a.room \in Rooms
  <2>1. l \in Seq(Assignment(p))
    BY DEF Solution
  <2>2. a \in Assignment(p)
    BY <2>1, ElementOfSeq, LenProperties
  <2> QED
    BY <2>2, Resources DEF Sound
<1>2. /\ DOMAIN s.faculty = Faculty \X Slots /\ DOMAIN s.room = Rooms \X Slots
      /\ DOMAIN s.group = Groups \X Slots
  BY DEF Solution, Table
<1>3. \A j \in DOMAIN l : j # k => ~Clash(p, l[j], a)
  BY DEF Sound
<1>4. \A table, cells, x : Reflects(table, l, cells) /\ x \in DOMAIN table /\ table[x] # None
        => \E j \in DOMAIN l : x \in cells[j] /\ table[x] = l[j].id
  BY DEF Reflects
<1>5. ~FacultyConflict(p, s, a)
  <2> SUFFICES ASSUME NEW c \in O, s.faculty[<<FacultyOf(p, a), c>>] \notin {a.id, None} PROVE FALSE
    BY DEF FacultyConflict, Taken
  <2> DEFINE x == <<FacultyOf(p, a), c>>
  <2>1. x \in DOMAIN s.faculty /\ s.faculty[x] # None /\ s.faculty[x] # a.id
    BY <1>1, <1>2
  <2>2. PICK j \in DOMAIN l : x \in FacultyCells(p, l[j]) /\ s.faculty[x] = l[j].id
    BY <1>4, <2>1 DEF Agrees
  <2>3. j # k
    BY <2>1, <2>2
  <2>4. FacultyOf(p, l[j]) = FacultyOf(p, a) /\ c \in Occupied(p, l[j])
    BY <2>2 DEF FacultyCells
  <2> QED
    BY <1>3, <2>3, <2>4 DEF Clash
<1>6. ~RoomConflict(p, s, a)
  <2> SUFFICES ASSUME NEW c \in O, s.room[<<a.room, c>>] \notin {a.id, None} PROVE FALSE
    BY DEF RoomConflict, Taken
  <2> DEFINE x == <<a.room, c>>
  <2>1. x \in DOMAIN s.room /\ s.room[x] # None /\ s.room[x] # a.id
    BY <1>1, <1>2
  <2>2. PICK j \in DOMAIN l : x \in RoomCells(p, l[j]) /\ s.room[x] = l[j].id
    BY <1>4, <2>1 DEF Agrees
  <2>3. j # k
    BY <2>1, <2>2
  <2>4. l[j].room = a.room /\ c \in Occupied(p, l[j])
    BY <2>2 DEF RoomCells
  <2> QED
    BY <1>3, <2>3, <2>4 DEF Clash
<1>7. ~StudentGroupConflict(p, s, a)
  <2> SUFFICES ASSUME NEW g \in Overlapping(GroupOf(p, a)), NEW c \in O,
                      s.group[<<g, c>>] \notin {a.id, None}
               PROVE  FALSE
    BY DEF StudentGroupConflict, Taken
  <2> DEFINE x == <<g, c>>
  <2>1. x \in DOMAIN s.group /\ s.group[x] # None /\ s.group[x] # a.id
    BY <1>1, <1>2 DEF Overlapping
  <2>2. PICK j \in DOMAIN l : x \in GroupCells(p, l[j]) /\ s.group[x] = l[j].id
    BY <1>4, <2>1 DEF Agrees
  <2>3. j # k
    BY <2>1, <2>2
  <2>4. GroupOf(p, l[j]) = g /\ c \in Occupied(p, l[j])
    BY <2>2 DEF GroupCells
  <2> QED
    BY <1>3, <2>3, <2>4, ClashBoth DEF Clash, Overlapping, GroupsOverlap
<1> QED
  BY <1>5, <1>6, <1>7 DEF Conflicts

\* If the final check fails, the locked sessions alone break a rule.
LEMMA FinalCheckHolds ==
  ASSUME NEW p \in Problems, NEW s \in Solution(p), Agrees(p, s), Sound(p, s.list, Len(p.locked)),
         RulesKept(p, s, Len(p.locked)), LockedValid(p), DistinctIds(p), Complete(p, s.list),
         \A k \in 1 .. Len(p.locked) : k \in DOMAIN s.list /\ s.list[k] = p.locked[k],
         NEW f \in [Decisions(p) -> Candidates], Works(p, f)
  PROVE  PassesFinalCheck(p, s)
<1> DEFINE n == Len(p.locked)
           l == s.list
           m == Len(l)
<1>1. /\ l \in Seq(Assignment(p)) /\ m \in Nat /\ DOMAIN l = 1 .. m
      /\ n \in Nat /\ DOMAIN p.locked = 1 .. n
      /\ \A k \in 1 .. m : l[k] \in Assignment(p)
  <2>1. l \in Seq(Assignment(p)) /\ p.locked \in Seq(Assignment(p))
    BY ReqsType DEF Solution
  <2> QED
    BY <2>1, LenProperties, ElementOfSeq
<1>2. ASSUME NEW k \in DOMAIN l PROVE Suits(p, l[k]) /\ ~Conflicts(p, s, l[k])
  <2>1. CASE k <= n
    <3>1. k \in 1 .. n
      BY <1>1, <2>1
    <3>2. l[k] = p.locked[k] /\ Suits(p, p.locked[k])
      BY <1>1, <3>1 DEF LockedValid
    <3> QED
      BY <1>2, <3>2, NoConflict
  <2>2. CASE k > n
    BY <1>2, <2>2, NoConflict DEF Sound
  <2> QED
    BY <1>1, <2>1, <2>2
<1>3. ASSUME NEW rule \in p.rules, NEW k \in DOMAIN l, l[k].req \in rule.covers
      PROVE  Cardinality(Crowd(p, s, rule, l[k])) <= rule.max
  <2> DEFINE C == Crowd(p, s, rule, l[k])
             g == GroupOf(p, l[k])
             slot == l[k].slot
             late == {j \in C : j > n}
  <2>1. C \in SUBSET (1 .. m) /\ IsFiniteSet(C) /\ Cardinality(C) \in Nat
    <3>1. C \in SUBSET (1 .. m)
      BY <1>1 DEF Crowd
    <3>2. IsFiniteSet(1 .. m)
      <4>1. 1 \in Int /\ m \in Int
        BY <1>1
      <4> QED
        BY <4>1, FS_Interval
    <3> HIDE DEF C
    <3> QED
      BY <3>1, <3>2, FS_Subset, FS_CardinalityType
  <2>2. g \in Groups /\ slot \in Slots /\ rule.max \in Nat
    <3>1. l[k] \in Assignment(p)
      BY <1>1
    <3> QED
      BY <3>1, Resources, ProblemsAssumption DEF WellFormed, Rule, Assignment
  <2>3. \A j \in C : /\ l[j].req \in rule.covers /\ GroupOf(p, l[j]) = g
                     /\ l[j].slot[1] = slot[1]
    BY DEF Crowd
  <2>4. CASE late = {}
    <3> DEFINE L == {j \in DOMAIN p.locked : /\ p.locked[j].req \in rule.covers
                                             /\ GroupOf(p, p.locked[j]) = g
                                             /\ p.locked[j].slot[1] = slot[1]}
               P == {d \in Decisions(p) : /\ d[1] \in rule.covers
                                          /\ GroupOf(p, Assign(d, f[d])) = g
                                          /\ f[d][2][1] = slot[1]}
    <3>1. Cardinality(L) + Cardinality(P) <= rule.max
      BY <2>2 DEF Works
    <3>2. C \in SUBSET L
      <4>1. \A j \in C : j \in 1 .. n
        BY <1>1, <2>1, <2>4
      <4> QED
        BY <1>1, <2>3, <4>1
    <3>3. IsFiniteSet(L) /\ Cardinality(P) \in Nat
      <4>1. P \in SUBSET Decisions(p) /\ L \in SUBSET (1 .. n) /\ 1 \in Int /\ n \in Int
        BY <1>1
      <4> HIDE DEF P, L
      <4> QED
        BY <4>1, DecisionsFinite, FS_Subset, FS_Interval, FS_CardinalityType
    <3> HIDE DEF L, P, C
    <3>4. Cardinality(C) <= Cardinality(L) /\ Cardinality(L) \in Nat
      BY <3>2, <3>3, FS_Subset, FS_CardinalityType
    <3>5. Cardinality(C) <= rule.max
      BY <2>1, <2>2, <3>1, <3>3, <3>4
    <3> QED
      BY <3>5 DEF C
  <2>5. CASE late # {}
    <3> HIDE DEF C
    <3> DEFINE T == {m - j : j \in late}
    <3>1. T \in SUBSET Nat /\ T # {}
      <4>1. late \subseteq 1 .. m /\ m \in Nat
        BY <1>1, <2>1
      <4> HIDE DEF late, m
      <4>2. \A j \in late : m - j \in Nat
        BY <4>1
      <4> QED
        BY <2>5, <4>2
    <3>2. PICK t \in T : \A u \in T : t <= u
      <4> HIDE DEF T
      <4> QED
        BY <3>1, LeastNat
    <3>3. PICK j \in late : t = m - j
      OBVIOUS
    <3>4. \A i \in late : m - j <= m - i
      BY <3>2, <3>3
    <3>5. j \in C /\ j > n /\ j \in 1 .. m /\ \A i \in C : i \in 1 .. m /\ (i > n => i <= j)
      <4>1. j \in C /\ j > n /\ j \in 1 .. m
        BY <2>1
      <4>2. \A i \in C : i \in 1 .. m /\ (i > n => m - j <= m - i)
        BY <2>1, <3>4
      <4> HIDE DEF late, m
      <4>3. m \in Nat
        BY <1>1
      <4> QED
        BY <4>1, <4>2, <4>3
    <3>6. C \ {j} \in SUBSET (OnDay(p, s, rule, l[j]) \cap 1 .. j - 1)
      <4> SUFFICES ASSUME NEW i \in C, i # j
                   PROVE  i \in OnDay(p, s, rule, l[j]) /\ i \in 1 .. j - 1
        OBVIOUS
      <4>1. i \in 1 .. m /\ i < j
        BY <1>1, <3>5
      <4>2. l[j].id \in Decisions(p)
        <5>1. j \in n + 1 .. m
          BY <1>1, <3>5
        <5>2. \A q \in n + 1 .. m : l[q].id \in Decisions(p)
          BY DEF Complete
        <5> QED
          BY <5>1, <5>2
      <4>3. l[i].id # l[j].id
        <5>1. CASE i > n
          <6>1. i \in n + 1 .. m /\ j \in n + 1 .. m /\ i # j
            BY <1>1, <3>5, <4>1, <5>1
          <6>2. \A q, r \in n + 1 .. m : l[q].id = l[r].id => q = r
            BY DEF Complete
          <6> QED
            BY <6>1, <6>2
        <5>2. CASE ~(i > n)
          <6>1. i \in 1 .. n
            BY <1>1, <4>1, <5>2
          <6>2. l[i] = p.locked[i] /\ i \in DOMAIN p.locked
            BY <1>1, <6>1
          <6> QED
            BY <4>2, <6>2 DEF DistinctIds
        <5> QED
          BY <5>1, <5>2
      <4>4. i \in OnDay(p, s, rule, l[j])
        BY <1>1, <2>3, <3>5, <4>1, <4>3 DEF OnDay, GroupsOverlap
      <4>5. i \in 1 .. j - 1
        BY <1>1, <3>5, <4>1
      <4> QED
        BY <4>4, <4>5
    <3>7. Cardinality(OnDay(p, s, rule, l[j]) \cap 1 .. j - 1) < rule.max
      BY <1>1, <2>3, <3>5 DEF RulesKept
    <3> DEFINE B == OnDay(p, s, rule, l[j]) \cap 1 .. j - 1
    <3>8. IsFiniteSet(B)
      <4>1. 1 \in Int /\ j - 1 \in Int
        BY <3>5
      <4>2. IsFiniteSet(1 .. j - 1) /\ B \in SUBSET (1 .. j - 1)
        BY <4>1, FS_Interval
      <4> QED
        BY <4>2, FS_Subset
    <3>9. C \ {j} \in SUBSET B /\ Cardinality(B) < rule.max
      BY <3>6, <3>7
    <3> HIDE DEF B, late
    <3>10. Cardinality(C \ {j}) <= Cardinality(B) /\ Cardinality(B) \in Nat
      BY <3>8, <3>9, FS_Subset, FS_CardinalityType
    <3>11. Cardinality(C \ {j}) = Cardinality(C) - 1
      BY <2>1, <3>5, FS_RemoveElement
    <3>12. Cardinality(C) <= rule.max
      BY <2>1, <2>2, <3>9, <3>10, <3>11
    <3> QED
      BY <3>12 DEF C
  <2> QED
    BY <2>4, <2>5
<1> QED
  BY <1>2, <1>3 DEF PassesFinalCheck, RuleHolds

-----------------------------------------------------------------------------
(* No timetable is missed. *)

\* The calls before the i-th have placed their sessions where f has them.
Along(p, list, calls, f, i) ==
  \A j \in 1 .. i - 1 :
    list[Len(p.locked) + j] = Assign(calls[j].selected, f[calls[j].selected])

\* One of the calls has yet to try what f says, and those before it have done what f says.
Open(p, list, calls, where, f) ==
  \E i \in 1 .. Len(calls) :
    /\ Along(p, list, calls, f, i)
    /\ \/ i = Len(calls) /\ where = "enter"
       \/ f[calls[i].selected] \in calls[i].untried

NothingMissed ==
  step \in {"enter", "loop"} /\ RulesByGroup(problem) /\ DistinctIds(problem) =>
    \A f \in [Decisions(problem) -> Candidates] :
      Works(problem, f) => Open(problem, solution.list, stack, step, f)

\* No session is selected twice, and what is left to the innermost call is selected nowhere.
LEMMA SelectedOnce ==
  ASSUME Inv, step \in {"enter", "loop"}
  PROVE  /\ \A i \in 1 .. Len(stack) - 1 : stack[i].selected \in Decisions(problem)
         /\ \A i, j \in 1 .. Len(stack) - 1 : stack[i].selected = stack[j].selected => i = j
         /\ \A d \in Top.left : /\ d \in Decisions(problem)
                                /\ \A i \in 1 .. Len(stack) - 1 : stack[i].selected # d
<1> DEFINE n == Len(stack)
           D == Decisions(problem)
<1>1. n \in Nat \ {0}
  BY InCall
<1>2. /\ \A i \in 1 .. n : stack[i].left = D \ {stack[j].selected : j \in 1 .. i - 1}
      /\ \A i \in 1 .. n - 1 : stack[i].selected \in stack[i].left
  BY DEF Inv, OneSessionPerCall
<1>3. \A i \in 1 .. n - 1 : i \in 1 .. n
  BY <1>1
<1>4. \A i, j \in 1 .. n - 1 : j < i => stack[i].selected # stack[j].selected
  <2> TAKE i, j \in 1 .. n - 1
  <2> HAVE j < i
  <2>1. j \in 1 .. i - 1
    BY <1>1
  <2> HIDE DEF n, D
  <2> QED
    BY <1>2, <1>3, <2>1
<1>5. \A i, j \in 1 .. n - 1 : i = j \/ i < j \/ j < i
  BY <1>1
<1>6. n \in 1 .. n /\ Top = stack[n]
  BY <1>1 DEF Top
<1> HIDE DEF n, D
<1>7. \A d \in Top.left : d \in D /\ \A i \in 1 .. n - 1 : stack[i].selected # d
  BY <1>2, <1>6
<1>8. \A i \in 1 .. n - 1 : stack[i].selected \in D
  BY <1>2, <1>3
<1>9. \A i, j \in 1 .. n - 1 : stack[i].selected = stack[j].selected => i = j
  BY <1>4, <1>5
<1> QED
  BY <1>7, <1>8, <1>9 DEF n, D

\* A search that has followed f so far leaves the others what f has for them.
LEMMA TopExact ==
  ASSUME Inv, step \in {"enter", "loop"}, RulesByGroup(problem), DistinctIds(problem),
         NEW f \in [Decisions(problem) -> Candidates], Works(problem, f),
         Along(problem, solution.list, stack, f, Len(stack)),
         NEW d \in Top.left
  PROVE  /\ f[d] \in Exact(problem, solution, Len(solution.list), d)
         /\ Placed => Consistent(problem, solution, Assign(d, f[d]))
<1> DEFINE n == Len(stack) - 1
           m == Len(problem.locked)
           h == [i \in 1 .. n |-> stack[i].selected]
<1>1. /\ problem \in Problems /\ solution \in Solution(problem)
      /\ solution.list \in Seq(Assignment(problem))
      /\ DOMAIN solution.list = 1 .. Len(solution.list)
      /\ n \in Nat /\ m \in Nat /\ Len(solution.list) = m + n
  BY InCall
<1>2. /\ \A i \in 1 .. n : h[i] \in Decisions(problem)
      /\ \A i, j \in 1 .. n : h[i] = h[j] => i = j
      /\ d \in Decisions(problem) /\ \A i \in 1 .. n : h[i] # d
  BY SelectedOnce
<1>3. Follows(problem, solution.list, h, n, f)
  <2>1. \A k \in 1 .. m : solution.list[k] = problem.locked[k]
    <3>1. \A k \in 1 .. m : k \in DOMAIN solution.list /\ k <= m
      BY <1>1
    <3> QED
      BY <3>1 DEF Inv, OneSessionPerCall
  <2>2. \A i \in 1 .. n : solution.list[m + i] = Assign(h[i], f[h[i]])
    BY DEF Along
  <2> HIDE DEF h, n
  <2> QED
    BY <1>1, <2>1, <2>2 DEF Follows
<1> HIDE DEF h, n
<1>4. f[d] \in Exact(problem, solution, Len(solution.list), d)
  BY <1>1, <1>2, <1>3, FollowsExact
<1>5. ASSUME Placed PROVE Consistent(problem, solution, Assign(d, f[d]))
  <2>1. \A k \in DOMAIN solution.list : /\ Occupied(problem, solution.list[k]) \subseteq Slots
                                        /\ solution.list[k].id # d
    BY <1>5, LeftUnused DEF Placed, Sound
  <2>2. Agrees(problem, solution) /\ f[d] \in Candidates
    BY <1>2 DEF Inv, IndexAgrees
  <2> QED
    BY <1>1, <1>2, <1>4, <2>1, <2>2, ConsistentExact
<1> QED
  BY <1>4, <1>5

\* The innermost call has it among its candidates.
LEMMA TopOffers ==
  ASSUME Inv, DomainsExact, Grounds,
         step \in {"enter", "loop"}, RulesByGroup(problem), DistinctIds(problem),
         NEW f \in [Decisions(problem) -> Candidates], Works(problem, f),
         Along(problem, solution.list, stack, f, Len(stack)),
         NEW d \in Top.left
  PROVE  f[d] \in Top.domains[d]
<1> DEFINE n == Len(stack)
<1>1. n \in DOMAIN stack /\ Top = stack[n] /\ Len(solution.list) = Len(problem.locked) + n - 1
  BY InCall DEF Top
<1>2. f[d] \in Exact(problem, solution, Len(solution.list), d)
  BY TopExact
<1>3. CASE problem.mode # "BASIC"
  <2>1. Top.domains[d] = Exact(problem, solution, Len(problem.locked) + n - 1, d)
    BY <1>1, <1>3, DomainsExactIs DEF DomainsOf
  <2> QED
    BY <1>1, <1>2, <2>1
<1>4. CASE problem.mode = "BASIC"
  <2>1. Top.domains[d] = Fitting(problem, d)
    BY <1>1, <1>4 DEF Grounds, AllFitting
  <2>2. f[d] \in Candidates /\ Suits(problem, Assign(d, f[d]))
    BY <1>2 DEF Exact
  <2>3. f[d] \in Fitting(problem, d)
    BY <2>2 DEF Suits, Available, Occupied, Assign, Fitting, Fits
  <2> QED
    BY <2>1, <2>3
<1> QED
  BY <1>3, <1>4

\* A call selects a session that f gives one of its candidates.
LEMMA SelectMisses ==
  ASSUME Inv, DomainsExact, Grounds, Select, RulesByGroup(problem), DistinctIds(problem),
         NEW f \in [Decisions(problem) -> Candidates], Works(problem, f),
         Open(problem, solution.list, stack, step, f)
  PROVE  Open(problem, solution'.list, stack', step', f)
<1> DEFINE n == Len(stack)
<1>1. /\ step = "enter" /\ step' = "loop" /\ UNCHANGED solution
      /\ n \in Nat \ {0} /\ DOMAIN stack = 1 .. n /\ stack \in Seq(Frame(problem))
      /\ Top = stack[n] /\ Top \in Frame(problem)
  <2>1. step = "enter"
    BY DEF Select
  <2> QED
    BY <2>1, InCall DEF Select, Top
<1>2. PICK d \in Top.left : stack' = [stack EXCEPT ![n].selected = d, ![n].untried = Top.domains[d]]
  BY DEF Select, Selectable
<1> DEFINE g == [Top EXCEPT !.selected = d, !.untried = Top.domains[d]]
<1>3. g.selected = d /\ g.untried = Top.domains[d]
  BY <1>1 DEF Frame
<1>4. stack' = [stack EXCEPT ![n] = g]
  BY <1>1, <1>2
<1> HIDE DEF g
<1>5. /\ Len(stack') = n /\ stack'[n] = g
      /\ \A i \in 1 .. n : i # n => stack'[i] = stack[i]
  BY <1>1, <1>4
<1>6. PICK i \in 1 .. n : /\ Along(problem, solution.list, stack, f, i)
                          /\ i = n \/ f[stack[i].selected] \in stack[i].untried
  BY DEF Open
<1>7. \A j \in 1 .. i - 1 : j \in 1 .. n /\ j # n
  BY <1>1
<1>8. Along(problem, solution'.list, stack', f, i)
  BY <1>1, <1>5, <1>6, <1>7 DEF Along
<1>9. CASE i = n
  <2>1. f[d] \in Top.domains[d]
    BY <1>1, <1>6, <1>9, TopOffers
  <2> QED
    BY <1>3, <1>5, <1>8, <1>9, <2>1 DEF Open
<1>10. CASE i # n
  BY <1>5, <1>6, <1>8, <1>10 DEF Open
<1> QED
  BY <1>9, <1>10

\* While the innermost call goes through its candidates only what f says matters.
LEMMA OpenInLoop ==
  ASSUME Inv, step = "loop", NEW f, Open(problem, solution.list, stack, step, f)
  PROVE  \E i \in 1 .. Len(stack) : /\ Along(problem, solution.list, stack, f, i)
                                    /\ f[stack[i].selected] \in stack[i].untried
BY DEF Open

\* A candidate that is skipped is not what f says, if f was followed so far.
LEMMA SkipMisses ==
  ASSUME Inv, Placed, NEW v, Skip(v), RulesByGroup(problem), DistinctIds(problem),
         NEW f \in [Decisions(problem) -> Candidates], Works(problem, f),
         Open(problem, solution.list, stack, step, f)
  PROVE  Open(problem, solution'.list, stack', step', f)
<1> DEFINE n == Len(stack)
<1>1. /\ step = "loop" /\ UNCHANGED <<solution, step>> /\ stack' = Tried(v) /\ Len(Tried(v)) = n
      /\ \A i \in 1 .. n :
           /\ Tried(v)[i].selected = stack[i].selected
           /\ Tried(v)[i].untried = IF i = n THEN Top.untried \ {v} ELSE stack[i].untried
  BY TriedCalls DEF Skip
<1>2. PICK i \in 1 .. n : /\ Along(problem, solution.list, stack, f, i)
                          /\ f[stack[i].selected] \in stack[i].untried
  BY <1>1, OpenInLoop
<1>3. n \in Nat \ {0} /\ Top = stack[n] /\ Top.selected \in Top.left
  BY <1>1, InCall DEF Inv, OneSessionPerCall, Top
<1>4. Along(problem, solution.list, Tried(v), f, i)
  <2>1. \A j \in 1 .. i - 1 : j \in 1 .. n
    BY <1>3
  <2> QED
    BY <1>1, <1>2, <2>1 DEF Along
<1>5. i = n => f[Top.selected] # v
  <2> SUFFICES ASSUME i = n, f[Top.selected] = v PROVE FALSE
    OBVIOUS
  <2>1. Consistent(problem, solution, Assign(Top.selected, f[Top.selected]))
    BY <1>1, <1>2, <1>3, TopExact
  <2> QED
    BY <2>1 DEF Skip
<1>6. f[Tried(v)[i].selected] \in Tried(v)[i].untried
  BY <1>1, <1>2, <1>3, <1>5
<1> HIDE DEF n
<1> QED
  BY <1>1, <1>2, <1>4, <1>6 DEF Open

\* A placement that f makes too leaves every other session what f has for it: forward
\* checking finds the search viable and the next call goes on with f.
LEMMA PlaceFollows ==
  ASSUME Inv, Placed, DomainsExact, Grounds, NEW v, Place(v),
         RulesByGroup(problem), DistinctIds(problem),
         NEW f \in [Decisions(problem) -> Candidates], Works(problem, f),
         Along(problem, solution.list, stack, f, Len(stack)), f[Top.selected] = v
  PROVE  LET left == Top.left \ {Top.selected}
         IN Viable(problem, left,
                   Prune(problem, Add(problem, solution, Assign(Top.selected, v)), left, Top.domains))
<1> DEFINE n == Len(stack)
           m == Len(problem.locked)
           a == Assign(Top.selected, v)
           left == Top.left \ {Top.selected}
           new == Add(problem, solution, a)
           l == new.list
           h == [i \in 1 .. n |-> stack[i].selected]
<1>1. /\ step = "loop" /\ problem \in Problems /\ n \in Nat \ {0} /\ m \in Nat
      /\ DOMAIN solution.list = 1 .. Len(solution.list)
      /\ Len(solution.list) = m + n - 1 /\ Top = stack[n] /\ Top.selected \in Top.left
      /\ Top.left \subseteq Decisions(problem)
      /\ Top.domains \in [Decisions(problem) -> SUBSET Candidates]
  <2>1. step = "loop"
    BY DEF Place, Turn
  <2> QED
    BY <2>1, InCall DEF Inv, OneSessionPerCall, Top, Frame
<1>2. /\ a \in Assignment(problem) /\ new \in Solution(problem) /\ Agrees(problem, new)
      /\ l \in Seq(Assignment(problem)) /\ DOMAIN l = 1 .. m + n
      /\ \A k \in 1 .. m + n - 1 : l[k] = solution.list[k]
      /\ l[m + n] = a
  <2>1. Len(solution.list) + 1 = m + n
    BY <1>1
  <2> QED
    BY <1>1, <2>1, PlaceList
<1>3. /\ \A i \in 1 .. n - 1 : stack[i].selected \in Decisions(problem)
      /\ \A i, j \in 1 .. n - 1 : stack[i].selected = stack[j].selected => i = j
      /\ \A d \in Top.left : d \in Decisions(problem) /\ \A i \in 1 .. n - 1 : stack[i].selected # d
  BY <1>1, SelectedOnce
<1>4. \A i \in 1 .. n : i \in 1 .. n - 1 \/ i = n
  BY <1>1
<1>5. /\ \A i \in 1 .. n : h[i] \in Decisions(problem)
      /\ \A i, j \in 1 .. n : h[i] = h[j] => i = j
      /\ \A d \in left : d \in Decisions(problem) /\ \A i \in 1 .. n : h[i] # d
  BY <1>1, <1>3, <1>4
<1>6. Follows(problem, l, h, n, f)
  <2>1. \A k \in 1 .. m : k \in DOMAIN solution.list /\ k \in 1 .. m + n - 1 /\ k <= m
    BY <1>1
  <2>2. \A k \in 1 .. m : l[k] = problem.locked[k]
    BY <1>2, <2>1 DEF Inv, OneSessionPerCall
  <2>3. \A i \in 1 .. n - 1 : m + i \in 1 .. m + n - 1
    BY <1>1
  <2>4. \A i \in 1 .. n - 1 : l[m + i] = Assign(stack[i].selected, f[stack[i].selected])
    BY <1>2, <2>3 DEF Along
  <2>5. l[m + n] = Assign(stack[n].selected, f[stack[n].selected])
    BY <1>1, <1>2
  <2>6. \A i \in 1 .. n : l[m + i] = Assign(h[i], f[h[i]])
    BY <1>4, <2>4, <2>5
  <2> HIDE DEF h, l, n, m
  <2> QED
    BY <1>2, <2>2, <2>6 DEF Follows, m
<1> HIDE DEF h
<1>7. ASSUME NEW d \in left
      PROVE  f[d] \in Prune(problem, new, left, Top.domains)[d]
  <2>1. f[d] \in Exact(problem, new, m + n, d)
    <3> HIDE DEF left, new, n
    <3> QED
      BY <1>1, <1>2, <1>5, <1>6, FollowsExact
  <2>2. d \in Top.left /\ d \in Decisions(problem)
    BY <1>3
  <2>3. f[d] \in Top.domains[d]
    BY <1>1, <2>2, TopOffers
  <2>4. \A k \in DOMAIN l : /\ Occupied(problem, l[k]) \subseteq Slots
                            /\ l[k].id # d
    <3>1. \A k \in DOMAIN solution.list : /\ Occupied(problem, solution.list[k]) \subseteq Slots
                                          /\ solution.list[k].id # d
      BY <1>1, <2>2, LeftUnused DEF Placed, Sound
    <3>2. a.id # d
      BY DEF Assign
    <3>3. Occupied(problem, a) \subseteq Slots
      BY DEF Place, Usable, Consistent, Suits, Available
    <3>4. \A k \in 1 .. m + n : k \in 1 .. m + n - 1 \/ k = m + n
      BY <1>1
    <3> HIDE DEF a, l
    <3> QED
      BY <1>1, <1>2, <3>1, <3>2, <3>3, <3>4
  <2>5. Len(l) = m + n
    BY <1>1, <1>2, LenProperties
  <2>6. f[d] \in Candidates
    BY <2>2
  <2>7. Consistent(problem, new, Assign(d, f[d]))
    <3> HIDE DEF new
    <3> QED
      BY <1>1, <1>2, <2>1, <2>2, <2>4, <2>5, <2>6, ConsistentExact
  <2> HIDE DEF new, left
  <2> QED
    BY <1>1, <1>7, <2>2, <2>3, <2>7 DEF Prune
<1> HIDE DEF left, new
<1>8. \A d \in left : Prune(problem, new, left, Top.domains)[d] # {}
  BY <1>7
<1>9. Viable(problem, left, Prune(problem, new, left, Top.domains))
  BY <1>8 DEF Viable
<1> QED
  BY <1>9 DEF left, new, a

\* A placement either follows f or leaves it to be tried.
LEMMA PlaceMisses ==
  ASSUME Inv, Placed, DomainsExact, Grounds, NEW v, Place(v),
         RulesByGroup(problem), DistinctIds(problem),
         NEW f \in [Decisions(problem) -> Candidates], Works(problem, f),
         Open(problem, solution.list, stack, step, f)
  PROVE  Open(problem, solution'.list, stack', step', f)
<1> DEFINE n == Len(stack)
           m == Len(problem.locked)
           a == Assign(Top.selected, v)
           left == Top.left \ {Top.selected}
           new == Add(problem, solution, a)
           domains == Prune(problem, new, left, Top.domains)
           calls == Tried(v)
<1>1. /\ step = "loop" /\ n \in Nat \ {0} /\ m \in Nat /\ Top = stack[n]
      /\ Len(solution.list) = m + n - 1 /\ Len(calls) = n
      /\ \A i \in 1 .. n :
           /\ calls[i].selected = stack[i].selected
           /\ calls[i].untried = IF i = n THEN Top.untried \ {v} ELSE stack[i].untried
  <2>1. /\ step = "loop" /\ Len(calls) = n
        /\ \A i \in 1 .. n :
             /\ calls[i].selected = stack[i].selected
             /\ calls[i].untried = IF i = n THEN Top.untried \ {v} ELSE stack[i].untried
    BY TriedCalls DEF Place
  <2> HIDE DEF calls
  <2> QED
    BY <2>1, InCall DEF Top
<1>2. PICK i \in 1 .. n : /\ Along(problem, solution.list, stack, f, i)
                          /\ f[stack[i].selected] \in stack[i].untried
  BY <1>1, OpenInLoop
<1>3. /\ \A k \in 1 .. m + n - 1 : new.list[k] = solution.list[k]
      /\ new.list[m + n] = a
      /\ \/ /\ solution' = new /\ step' = "enter" /\ Len(stack') = n + 1
            /\ \A j \in 1 .. n : stack'[j] = calls[j]
         \/ /\ ~Viable(problem, left, domains)
            /\ solution'.list = solution.list /\ step' = "loop" /\ stack' = calls
  <2>1. Len(solution.list) + 1 = m + n
    BY <1>1
  <2> QED
    BY <1>1, <2>1, PlaceList
<1>4. (i = n /\ f[Top.selected] = v) => Viable(problem, left, domains)
  BY <1>2, PlaceFollows
<1> HIDE DEF new, left, domains, calls, a
<1>5. \A j \in 1 .. i - 1 : j \in 1 .. n /\ m + j \in 1 .. m + n - 1
  BY <1>1
<1>6. (i = n /\ f[Top.selected] = v) \/ f[calls[i].selected] \in calls[i].untried
  BY <1>1, <1>2
<1>7. CASE solution'.list = solution.list /\ step' = "loop" /\ stack' = calls
           /\ ~Viable(problem, left, domains)
  <2>1. f[calls[i].selected] \in calls[i].untried
    BY <1>4, <1>6, <1>7
  <2>2. Along(problem, solution'.list, stack', f, i)
    BY <1>1, <1>2, <1>5, <1>7 DEF Along
  <2> HIDE DEF n
  <2> QED
    BY <1>1, <1>7, <2>1, <2>2 DEF Open
<1>8. CASE /\ solution' = new /\ step' = "enter" /\ Len(stack') = n + 1
           /\ \A j \in 1 .. n : stack'[j] = calls[j]
  <2>1. \A j \in 1 .. i - 1 : new.list[m + j] = Assign(stack'[j].selected, f[stack'[j].selected])
    <3> TAKE j \in 1 .. i - 1
    <3>1. stack'[j].selected = stack[j].selected
      BY <1>1, <1>5, <1>8
    <3>2. new.list[m + j] = solution.list[m + j]
      BY <1>3, <1>5
    <3> QED
      BY <1>2, <3>1, <3>2 DEF Along
  <2>2. CASE f[calls[i].selected] \in calls[i].untried
    <3>1. Along(problem, solution'.list, stack', f, i)
      BY <1>8, <2>1 DEF Along
    <3>2. i \in 1 .. n + 1 /\ stack'[i] = calls[i]
      BY <1>1, <1>8
    <3> HIDE DEF n
    <3> QED
      BY <1>8, <2>2, <3>1, <3>2 DEF Open
  <2>3. CASE i = n /\ f[Top.selected] = v
    <3>1. \A j \in 1 .. (n + 1) - 1 : j \in 1 .. i - 1 \/ j = n
      BY <1>1, <2>3
    <3>2. new.list[m + n] = Assign(stack'[n].selected, f[stack'[n].selected])
      <4>1. stack'[n].selected = Top.selected
        BY <1>1, <1>8
      <4> QED
        BY <1>3, <2>3, <4>1 DEF a
    <3>3. Along(problem, solution'.list, stack', f, n + 1)
      BY <1>8, <2>1, <3>1, <3>2 DEF Along
    <3>4. n + 1 \in 1 .. n + 1
      BY <1>1
    <3> HIDE DEF n
    <3> QED
      BY <1>8, <3>3, <3>4 DEF Open
  <2> QED
    BY <1>6, <2>2, <2>3
<1> QED
  BY <1>3, <1>7, <1>8

\* A call that is given up had nothing to try: f is open further out.
LEMMA ReturnMisses ==
  ASSUME Inv, Return, NEW f, Open(problem, solution.list, stack, step, f)
  PROVE  Len(stack) # 1 /\ Open(problem, solution'.list, stack', step', f)
<1> DEFINE n == Len(stack)
           m == Len(problem.locked)
<1>1. /\ step = "loop" /\ Top.untried = {} /\ n \in Nat \ {0} /\ Top = stack[n] /\ m \in Nat
      /\ Len(solution.list) = m + n - 1
  <2>1. step = "loop"
    BY DEF Return
  <2> QED
    BY <2>1, InCall DEF Return, Top
<1>2. PICK i \in 1 .. n : /\ Along(problem, solution.list, stack, f, i)
                          /\ f[stack[i].selected] \in stack[i].untried
  BY <1>1, OpenInLoop
<1>3. i # n /\ i \in 1 .. n - 1
  <2>1. i # n
    BY <1>1, <1>2
  <2> QED
    BY <1>1, <2>1
<1>4. n # 1
  BY <1>1, <1>3
<1>5. /\ \A k \in 1 .. m + n - 2 : solution'.list[k] = solution.list[k]
      /\ Len(stack') = n - 1 /\ \A j \in 1 .. n - 1 : stack'[j] = stack[j]
  <2>1. Len(solution.list) - 1 = m + n - 2
    BY <1>1
  <2> QED
    BY <1>1, <1>4, <2>1, ReturnList
<1>6. \A j \in 1 .. i - 1 : j \in 1 .. n - 1 /\ m + j \in 1 .. m + n - 2
  BY <1>1, <1>3
<1>7. Along(problem, solution'.list, stack', f, i)
  <2>1. UNCHANGED problem
    BY DEF Return, Finish
  <2> QED
    BY <1>2, <1>5, <1>6 DEF Along
<1> HIDE DEF n
<1> QED
  BY <1>2, <1>3, <1>4, <1>5, <1>7 DEF Open, n

\* No step changes the problem.
LEMMA ProblemStays == [Next]_vars => UNCHANGED problem
BY DEF Next, vars, Reject, Accept, Seed, Begin, AllLocked, Conclude, Stop, AllPlaced, NodeLimit,
       Select, Skip, Fail, Place, Return, Finish

\* No step misses a timetable.
LEMMA MissedNext ==
  Inv /\ Placed /\ DomainsExact /\ Grounds /\ NothingMissed /\ [Next]_vars => NothingMissed'
<1> SUFFICES ASSUME Inv, Placed, DomainsExact, Grounds, NothingMissed, [Next]_vars
             PROVE  NothingMissed'
  OBVIOUS
<1>1. UNCHANGED problem
  BY ProblemStays
<1> SUFFICES ASSUME step' \in {"enter", "loop"}, RulesByGroup(problem), DistinctIds(problem),
                    NEW f \in [Decisions(problem) -> Candidates], Works(problem, f)
             PROVE  Open(problem, solution'.list, stack', step', f)
  <2>1. NothingMissed' <=>
          (step' \in {"enter", "loop"} /\ RulesByGroup(problem') /\ DistinctIds(problem') =>
             \A f \in [Decisions(problem') -> Candidates] :
               Works(problem', f) => Open(problem', solution'.list, stack', step', f))
    BY DEF NothingMissed
  <2> QED
    BY <1>1, <2>1
<1>2. step \in {"enter", "loop"} => Open(problem, solution.list, stack, step, f)
  BY DEF NothingMissed
<1>3. CASE Begin
  <2>1. Len(stack') = 1 /\ step' = "enter"
    BY <1>3 DEF Begin
  <2>2. 1 \in 1 .. 1 /\ \A j \in 1 .. 1 - 1 : FALSE
    OBVIOUS
  <2>3. Along(problem, solution'.list, stack', f, 1)
    BY <2>2 DEF Along
  <2> QED
    BY <2>1, <2>2, <2>3 DEF Open
<1>4. CASE Select
  BY <1>2, <1>4, SelectMisses DEF Select
<1>5. ASSUME NEW v \in Candidates, Skip(v) PROVE Open(problem, solution'.list, stack', step', f)
  BY <1>2, <1>5, SkipMisses DEF Skip, Turn
<1>6. ASSUME NEW v \in Candidates, Place(v) PROVE Open(problem, solution'.list, stack', step', f)
  BY <1>2, <1>6, PlaceMisses DEF Place, Turn
<1>7. CASE Return
  BY <1>2, <1>7, ReturnMisses DEF Return
<1>8. CASE UNCHANGED vars
  BY <1>2, <1>8 DEF vars
<1>9. CASE Reject \/ AllLocked \/ AllPlaced \/ Stop \/ NodeLimit
  BY <1>9 DEF Reject, AllLocked, AllPlaced, Stop, NodeLimit, Conclude, Finish
<1>10. CASE Accept
  BY <1>10 DEF Accept
<1>11. CASE Seed
  BY <1>11 DEF Seed, Finish
<1>12. ASSUME NEW v \in Candidates, Fail(v) PROVE FALSE
  BY <1>12 DEF Fail, Finish
<1> QED
  BY <1>3, <1>4, <1>5, <1>6, <1>7, <1>8, <1>9, <1>10, <1>11, <1>12 DEF Next

\* A locked session of a valid problem is never refused.
LEMMA SeedAdds ==
  ASSUME Inv, Placed, Grounds, Seed
  PROVE  UNCHANGED step
<1> DEFINE m == Len(solution.list)
           a == problem.locked[m + 1]
<1>1. /\ problem \in Problems /\ solution \in Solution(problem) /\ Agrees(problem, solution)
      /\ solution.list \in Seq(Assignment(problem)) /\ problem.locked \in Seq(Assignment(problem))
  BY ReqsType DEF Inv, TypeOK, IndexAgrees, Solution
<1>2. /\ m \in Nat /\ Len(problem.locked) \in Nat /\ m < Len(problem.locked)
      /\ DOMAIN solution.list = 1 .. m /\ DOMAIN problem.locked = 1 .. Len(problem.locked)
  BY <1>1, LenProperties DEF Seed, Seeding
<1>3. a \in Assignment(problem) /\ m + 1 \in DOMAIN problem.locked
  BY <1>1, <1>2, ElementOfSeq
<1>4. LockedValid(problem)
  BY DEF Seed, Grounds
<1>5. Occupied(problem, a) \subseteq Slots
  BY <1>3, <1>4 DEF LockedValid, Suits, Available
<1>6. \A k \in DOMAIN solution.list : ~Clash(problem, solution.list[k], a)
  <2> TAKE k \in DOMAIN solution.list
  <2>1. k \in DOMAIN problem.locked /\ k < m + 1 /\ k <= Len(problem.locked)
    BY <1>2
  <2>2. solution.list[k] = problem.locked[k]
    BY <2>1 DEF Inv, OneSessionPerCall
  <2> QED
    BY <1>3, <1>4, <2>1, <2>2 DEF LockedValid
<1>7. \A k \in DOMAIN solution.list : Occupied(problem, solution.list[k]) \subseteq Slots
  BY DEF Placed, Sound
<1>8. Addable(problem, solution, a)
  BY <1>1, <1>3, <1>5, <1>6, <1>7, AddableApart
<1> QED
  BY <1>8 DEF Seed

\* INFEASIBLE is said when the outermost call is given up, or when the locked sessions alone
\* break a rule.
LEMMA ExhaustionNext ==
  /\ Inv /\ Placed /\ DomainsExact /\ Grounds /\ NothingMissed /\ ExhaustionIsProof /\ [Next]_vars
  => ExhaustionIsProof'
<1> SUFFICES ASSUME Inv, Placed, DomainsExact, Grounds, NothingMissed, ExhaustionIsProof, [Next]_vars
             PROVE  ExhaustionIsProof'
  OBVIOUS
<1>1. UNCHANGED problem
  BY ProblemStays
<1> SUFFICES ASSUME status' = "INFEASIBLE", RulesByGroup(problem), DistinctIds(problem),
                    NEW f \in [Decisions(problem) -> Candidates], Works(problem, f)
             PROVE  FALSE
  <2>1. ExhaustionIsProof' <=>
          (status' = "INFEASIBLE" /\ RulesByGroup(problem') /\ DistinctIds(problem') =>
             ~\E f \in [Decisions(problem') -> Candidates] : Works(problem', f))
    BY DEF ExhaustionIsProof, Solvable
  <2> QED
    BY <1>1, <2>1
<1>2. ASSUME Conclude, Complete(problem, solution.list), LockedValid(problem),
             Len(solution.list) \in Nat, Len(problem.locked) <= Len(solution.list)
      PROVE  FALSE
  <2>1. problem \in Problems /\ solution \in Solution(problem) /\ Agrees(problem, solution)
    BY DEF Inv, TypeOK, IndexAgrees
  <2>2. ~PassesFinalCheck(problem, solution)
    BY <1>2 DEF Conclude, Finish
  <2>3. solution.list \in Seq(Assignment(problem)) /\ Len(problem.locked) \in Nat
    BY <2>1, ReqsType, LenProperties DEF Solution
  <2>4. DOMAIN solution.list = 1 .. Len(solution.list)
    BY <2>3, LenProperties
  <2>5. \A k \in 1 .. Len(problem.locked) : k \in DOMAIN solution.list /\ k <= Len(problem.locked)
    BY <1>2, <2>3, <2>4
  <2>6. \A k \in 1 .. Len(problem.locked) :
          k \in DOMAIN solution.list /\ solution.list[k] = problem.locked[k]
    BY <2>5 DEF Inv, OneSessionPerCall
  <2> QED
    BY <1>2, <2>1, <2>2, <2>6, FinalCheckHolds DEF Placed, Grounds
<1>3. CASE AllLocked
  <2>1. Len(solution.list) \in Nat /\ Len(problem.locked) \in Nat
    <3>1. problem \in Problems /\ solution.list \in Seq(Assignment(problem))
      BY DEF Inv, TypeOK, Solution
    <3> QED
      BY <3>1, ReqsType, LenProperties
  <2>2. Len(problem.locked) <= Len(solution.list)
    BY <1>3, <2>1 DEF AllLocked, Seeding
  <2> QED
    BY <1>2, <1>3, <2>1, <2>2, AllLockedComplete DEF AllLocked, Grounds
<1>4. CASE AllPlaced
  <2>1. /\ Len(problem.locked) \in Nat /\ Len(stack) \in Nat \ {0}
        /\ Len(solution.list) = Len(problem.locked) + Len(stack) - 1
    BY <1>4, InCall DEF AllPlaced
  <2>2. Len(solution.list) \in Nat /\ Len(problem.locked) <= Len(solution.list)
    BY <2>1
  <2> QED
    BY <1>2, <1>4, <2>2, AllPlacedComplete DEF AllPlaced, Grounds
<1>5. CASE Return
  <2>1. step = "loop" /\ Open(problem, solution.list, stack, step, f)
    BY <1>5 DEF Return, NothingMissed
  <2>2. Len(stack) # 1
    BY <1>5, <2>1, ReturnMisses
  <2>3. step' = "loop"
    BY <1>5, <2>2, ReturnList
  <2>4. status' = ""
    <3>1. Below # << >>
      BY <1>5, <2>3 DEF Return, Finish
    <3> QED
      BY <1>5, <2>1, <3>1 DEF Return, Placed
  <2> QED
    BY <2>4
<1>6. CASE Seed
  <2>1. UNCHANGED status \/ step' = "done"
    BY <1>6 DEF Seed, Finish
  <2>2. step = "seed" /\ UNCHANGED step
    BY <1>6, SeedAdds DEF Seed
  <2> QED
    BY <2>1, <2>2 DEF Placed
<1>7. CASE UNCHANGED vars
  BY <1>7 DEF vars, ExhaustionIsProof, Solvable
<1>8. ASSUME step # "done", UNCHANGED status PROVE FALSE
  BY <1>8 DEF Placed
<1>9. CASE Reject \/ Stop \/ NodeLimit
  BY <1>9 DEF Reject, Stop, NodeLimit, Finish
<1>10. CASE Accept \/ Begin \/ Select
  BY <1>8, <1>10 DEF Accept, Begin, Select
<1>11. ASSUME NEW v \in Candidates, Skip(v) PROVE FALSE
  BY <1>8, <1>11 DEF Skip, Turn
<1>12. ASSUME NEW v \in Candidates, Fail(v) PROVE FALSE
  BY <1>12 DEF Fail, Finish
<1>13. ASSUME NEW v \in Candidates, Place(v) PROVE FALSE
  BY <1>8, <1>13 DEF Place, Turn
<1> QED
  BY <1>3, <1>4, <1>5, <1>6, <1>7, <1>9, <1>10, <1>11, <1>12, <1>13 DEF Next

\* Whatever the mode, a search that ends INFEASIBLE has missed no timetable, provided that no
\* rule spans groups that overlap and no locked session bears the id of one to place
\* (CURRA_CONTEXT.md:330): neither the forward checking, nor the withdrawals, nor what the
\* index remembers ever hides a candidate.
THEOREM ExhaustionCorrect == Spec => []ExhaustionIsProof
<1>1. Init => NothingMissed /\ ExhaustionIsProof
  BY DEF Init, NothingMissed, ExhaustionIsProof
<1> QED
  BY <1>1, InitPlaced, InitDomains, InitGrounds, PlacedNext, DomainsNext, GroundsNext, MissedNext,
     ExhaustionNext, Invariance, PTL DEF Spec
=============================================================================
