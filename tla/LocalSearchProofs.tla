------------------------- MODULE LocalSearchProofs -------------------------
(***************************************************************************)
(* Proofs about LocalSearch, for any problems, timetables and limits.      *)
(*                                                                         *)
(* A neighbour is one change of place or a swap.  Spelt out (RelocateOne,  *)
(* RelocateTwo), what it does to each of the three tables of the index is  *)
(* the same, so what is true of undoing a move and of making a legal one   *)
(* is shown for one table in which every cell bears the id of its only     *)
(* holder (Owned), and put together for the three.  TabuHolds needs only   *)
(* that a neighbour changes the list as its signature says.                *)
(***************************************************************************)
EXTENDS LocalSearch, EvaluatorProofs

\* A table gets back the cells an id gave up for others, if it held all of them.
LEMMA OneBack ==
  ASSUME NEW D, NEW T, T = [x \in D |-> T[x]], NEW A, NEW B, NEW id, id # None,
         \A x \in D : T[x] = id <=> x \in B
  PROVE  MarkFree(Unmark(MarkFree(Unmark(T, B, id), A, id), A, id), B, id) = T
<1> DEFINE T1 == Unmark(T, B, id)
           T2 == MarkFree(T1, A, id)
           T3 == Unmark(T2, A, id)
           T4 == MarkFree(T3, B, id)
<1>1. T1 = [x \in D |-> IF x \in B THEN None ELSE T[x]]
  BY DEF Unmark
<1>2. T2 = [x \in D |-> IF x \in A /\ T1[x] = None THEN id ELSE T1[x]]
  BY <1>1 DEF MarkFree
<1>3. T3 = [x \in D |-> IF x \in A /\ T2[x] = id THEN None ELSE T2[x]]
  BY <1>2 DEF Unmark
<1>4. T4 = [x \in D |-> IF x \in B /\ T3[x] = None THEN id ELSE T3[x]]
  BY <1>3 DEF MarkFree
<1> HIDE DEF T1, T2, T3, T4
<1>5. \A x \in D : T4[x] = T[x]
  BY <1>1, <1>2, <1>3, <1>4
<1>6. T4 = T
  BY <1>4, <1>5
<1> QED
  BY <1>6 DEF T1, T2, T3, T4

\* The same for two ids that give up their cells together.
LEMMA TwoBack ==
  ASSUME NEW D, NEW T, T = [x \in D |-> T[x]], NEW i, NEW j, i # None, j # None, i # j,
         NEW Ai, NEW Aj, NEW Bi, NEW Bj,
         \A x \in D : (T[x] = i <=> x \in Bi) /\ (T[x] = j <=> x \in Bj)
  PROVE  MarkFree(MarkFree(Unmark(Unmark(
             MarkFree(MarkFree(Unmark(Unmark(T, Bi, i), Bj, j), Ai, i), Aj, j),
           Ai, i), Aj, j), Bi, i), Bj, j) = T
<1> DEFINE T0 == Unmark(T, Bi, i)
           T1 == Unmark(T0, Bj, j)
           T2 == MarkFree(T1, Ai, i)
           T3 == MarkFree(T2, Aj, j)
           T4 == Unmark(T3, Ai, i)
           T5 == Unmark(T4, Aj, j)
           T6 == MarkFree(T5, Bi, i)
           T7 == MarkFree(T6, Bj, j)
<1>1. T0 = [x \in D |-> IF x \in Bi THEN None ELSE T[x]]
  BY DEF Unmark
<1>2. T1 = [x \in D |-> IF x \in Bi \cup Bj THEN None ELSE T[x]]
  BY <1>1 DEF Unmark
<1>3. T2 = [x \in D |-> IF x \in Ai /\ T1[x] = None THEN i ELSE T1[x]]
  BY <1>2 DEF MarkFree
<1>4. T3 = [x \in D |-> IF x \in Aj /\ T2[x] = None THEN j ELSE T2[x]]
  BY <1>3 DEF MarkFree
<1>5. T4 = [x \in D |-> IF x \in Ai /\ T3[x] = i THEN None ELSE T3[x]]
  BY <1>4 DEF Unmark
<1>6. T5 = [x \in D |-> IF x \in Aj /\ T4[x] = j THEN None ELSE T4[x]]
  BY <1>5 DEF Unmark
<1>7. T6 = [x \in D |-> IF x \in Bi /\ T5[x] = None THEN i ELSE T5[x]]
  BY <1>6 DEF MarkFree
<1>8. T7 = [x \in D |-> IF x \in Bj /\ T6[x] = None THEN j ELSE T6[x]]
  BY <1>7 DEF MarkFree
<1> HIDE DEF T0, T1, T2, T3, T4, T5, T6, T7
<1>9. \A x \in D : T5[x] = T1[x]
  BY <1>2, <1>3, <1>4, <1>5, <1>6
<1>10. \A x \in D : T7[x] = T[x]
  BY <1>2, <1>7, <1>8, <1>9
<1>11. T7 = T
  BY <1>8, <1>10
<1> QED
  BY <1>11 DEF T0, T1, T2, T3, T4, T5, T6, T7

-----------------------------------------------------------------------------
(* What a neighbour is, and what becomes of the list. *)

\* A neighbour of the first kind.
LEMMA Single ==
  ASSUME NEW p, NEW l, Listed(p, l), NEW move \in SingleMoves(p, l)
  PROVE  \E k \in DOMAIN l, w \in Candidates :
           /\ move = <<ChangeOf(l[k], w)>> /\ w # Placement(l[k]) /\ ~IsLocked(p, l[k].id)
BY DEF SingleMoves, Unlocked

\* A neighbour of the second kind.
LEMMA Swap ==
  ASSUME NEW p, NEW l, Listed(p, l), NEW move \in SwapMoves(p, l)
  PROVE  \E k, m \in DOMAIN l :
           /\ move = <<ChangeOf(l[k], Placement(l[m])), ChangeOf(l[m], Placement(l[k]))>>
           /\ k # m /\ Placement(l[k]) # Placement(l[m])
           /\ ~IsLocked(p, l[k].id) /\ ~IsLocked(p, l[m].id)
BY DEF SwapMoves, Unlocked

\* One change made and undone: the list is back, each table has been written four times.
LEMMA UndoneOne ==
  ASSUME NEW p, NEW l, Listed(p, l), NEW F, NEW R, NEW G, NEW k \in DOMAIN l, NEW w \in Candidates
  PROVE  LET a == l[k]
             b == PlacedAt(a, w)
             move == <<ChangeOf(a, w)>>
             s == [list |-> l, faculty |-> F, room |-> R, group |-> G]
         IN Undo(p, Apply(p, s, move), move) =
              [list    |-> l,
               faculty |-> MarkFree(Unmark(MarkFree(Unmark(F,
                             HeldFaculty(p, a), a.id), HeldFaculty(p, b), a.id),
                             HeldFaculty(p, b), a.id), HeldFaculty(p, a), a.id),
               room    |-> MarkFree(Unmark(MarkFree(Unmark(R,
                             HeldRoom(p, a), a.id), HeldRoom(p, b), a.id),
                             HeldRoom(p, b), a.id), HeldRoom(p, a), a.id),
               group   |-> MarkFree(Unmark(MarkFree(Unmark(G,
                             HeldGroup(p, a), a.id), HeldGroup(p, b), a.id),
                             HeldGroup(p, b), a.id), HeldGroup(p, a), a.id)]
<1> DEFINE a == l[k]
           b == PlacedAt(a, w)
           c == ChangeOf(a, w)
           move == <<c>>
           s == [list |-> l, faculty |-> F, room |-> R, group |-> G]
           n == [l EXCEPT ![k] = b]
           F2 == MarkFree(Unmark(F, HeldFaculty(p, a), a.id), HeldFaculty(p, b), a.id)
           R2 == MarkFree(Unmark(R, HeldRoom(p, a), a.id), HeldRoom(p, b), a.id)
           G2 == MarkFree(Unmark(G, HeldGroup(p, a), a.id), HeldGroup(p, b), a.id)
<1>1. a \in Assignment(p)
  BY DEF Listed
<1>2. b.id = a.id /\ PlacedAt(b, Placement(a)) = a
  BY <1>1, Placing
<1>3. c.id = a.id /\ c.from = Placement(a) /\ c.to = w
  BY ChangeFields
<1>4. Listed(p, n) /\ n[k] = b /\ k \in DOMAIN n /\ [n EXCEPT ![k] = a] = l
  <2>1. Listed(p, n)
    BY Relisted
  <2>2. l \in Seq(Assignment(p))
    BY DEF Listed
  <2>3. l = [j \in DOMAIN l |-> l[j]]
    BY <2>2
  <2>4. n[k] = b /\ k \in DOMAIN n
    OBVIOUS
  <2>5. [n EXCEPT ![k] = a] = l
    BY <2>3
  <2> QED
    BY <2>1, <2>4, <2>5
<1> HIDE DEF c
<1>5. Apply(p, s, move) = [list |-> n, faculty |-> F2, room |-> R2, group |-> G2]
  <2> DEFINE to == [i \in DOMAIN move |-> move[i].to]
  <2>1. to[1] = w
    BY <1>3
  <2> HIDE DEF to
  <2>2. Relocate(p, s, move, to) = [list |-> n, faculty |-> F2, room |-> R2, group |-> G2]
    BY <1>2, <1>3, <2>1, RelocateOne
  <2> QED
    BY <2>2 DEF Apply, to
<1> HIDE DEF F2, R2, G2, n, b
<1>6. Undo(p, [list |-> n, faculty |-> F2, room |-> R2, group |-> G2], move)
        = [list    |-> l,
           faculty |-> MarkFree(Unmark(F2, HeldFaculty(p, b), a.id), HeldFaculty(p, a), a.id),
           room    |-> MarkFree(Unmark(R2, HeldRoom(p, b), a.id), HeldRoom(p, a), a.id),
           group   |-> MarkFree(Unmark(G2, HeldGroup(p, b), a.id), HeldGroup(p, a), a.id)]
  <2> DEFINE from == [i \in DOMAIN move |-> move[i].from]
  <2>1. from[1] = Placement(a)
    BY <1>3
  <2> HIDE DEF from
  <2>2. c.id = n[k].id
    BY <1>2, <1>3, <1>4
  <2>3. Relocate(p, [list |-> n, faculty |-> F2, room |-> R2, group |-> G2], move, from)
          = [list    |-> [n EXCEPT ![k] = PlacedAt(n[k], Placement(a))],
             faculty |-> MarkFree(Unmark(F2, HeldFaculty(p, n[k]), n[k].id),
                           HeldFaculty(p, PlacedAt(n[k], Placement(a))), PlacedAt(n[k], Placement(a)).id),
             room    |-> MarkFree(Unmark(R2, HeldRoom(p, n[k]), n[k].id),
                           HeldRoom(p, PlacedAt(n[k], Placement(a))), PlacedAt(n[k], Placement(a)).id),
             group   |-> MarkFree(Unmark(G2, HeldGroup(p, n[k]), n[k].id),
                           HeldGroup(p, PlacedAt(n[k], Placement(a))), PlacedAt(n[k], Placement(a)).id)]
    BY <1>4, <2>1, <2>2, RelocateOne
  <2> QED
    BY <1>2, <1>4, <2>3 DEF Undo, from
<1> QED
  BY <1>5, <1>6 DEF F2, R2, G2, b, c

\* A swap made and undone.
LEMMA UndoneTwo ==
  ASSUME NEW p, NEW l, Listed(p, l), NEW F, NEW R, NEW G,
         NEW k \in DOMAIN l, NEW m \in DOMAIN l, k # m, NEW v \in Candidates, NEW w \in Candidates
  PROVE  LET a == l[k]
             e == l[m]
             b == PlacedAt(a, v)
             f == PlacedAt(e, w)
             move == <<ChangeOf(a, v), ChangeOf(e, w)>>
             s == [list |-> l, faculty |-> F, room |-> R, group |-> G]
         IN Undo(p, Apply(p, s, move), move) =
              [list    |-> l,
               faculty |-> MarkFree(MarkFree(Unmark(Unmark(MarkFree(MarkFree(Unmark(Unmark(F,
                             HeldFaculty(p, a), a.id), HeldFaculty(p, e), e.id),
                             HeldFaculty(p, b), a.id), HeldFaculty(p, f), e.id),
                             HeldFaculty(p, b), a.id), HeldFaculty(p, f), e.id),
                             HeldFaculty(p, a), a.id), HeldFaculty(p, e), e.id),
               room    |-> MarkFree(MarkFree(Unmark(Unmark(MarkFree(MarkFree(Unmark(Unmark(R,
                             HeldRoom(p, a), a.id), HeldRoom(p, e), e.id),
                             HeldRoom(p, b), a.id), HeldRoom(p, f), e.id),
                             HeldRoom(p, b), a.id), HeldRoom(p, f), e.id),
                             HeldRoom(p, a), a.id), HeldRoom(p, e), e.id),
               group   |-> MarkFree(MarkFree(Unmark(Unmark(MarkFree(MarkFree(Unmark(Unmark(G,
                             HeldGroup(p, a), a.id), HeldGroup(p, e), e.id),
                             HeldGroup(p, b), a.id), HeldGroup(p, f), e.id),
                             HeldGroup(p, b), a.id), HeldGroup(p, f), e.id),
                             HeldGroup(p, a), a.id), HeldGroup(p, e), e.id)]
<1> DEFINE a == l[k]
           e == l[m]
           b == PlacedAt(a, v)
           f == PlacedAt(e, w)
           c == ChangeOf(a, v)
           d == ChangeOf(e, w)
           move == <<c, d>>
           s == [list |-> l, faculty |-> F, room |-> R, group |-> G]
           n == [[l EXCEPT ![k] = b] EXCEPT ![m] = f]
           F2 == MarkFree(MarkFree(Unmark(Unmark(F, HeldFaculty(p, a), a.id), HeldFaculty(p, e), e.id),
                             HeldFaculty(p, b), a.id), HeldFaculty(p, f), e.id)
           R2 == MarkFree(MarkFree(Unmark(Unmark(R, HeldRoom(p, a), a.id), HeldRoom(p, e), e.id),
                             HeldRoom(p, b), a.id), HeldRoom(p, f), e.id)
           G2 == MarkFree(MarkFree(Unmark(Unmark(G, HeldGroup(p, a), a.id), HeldGroup(p, e), e.id),
                             HeldGroup(p, b), a.id), HeldGroup(p, f), e.id)
<1>1. a \in Assignment(p) /\ e \in Assignment(p)
  BY DEF Listed
<1>2. b.id = a.id /\ PlacedAt(b, Placement(a)) = a /\ f.id = e.id /\ PlacedAt(f, Placement(e)) = e
  BY <1>1, Placing
<1>3. /\ c.id = a.id /\ c.from = Placement(a) /\ c.to = v
      /\ d.id = e.id /\ d.from = Placement(e) /\ d.to = w
  BY ChangeFields
<1>4. /\ Listed(p, n) /\ n[k] = b /\ n[m] = f /\ k \in DOMAIN n /\ m \in DOMAIN n
      /\ [[n EXCEPT ![k] = a] EXCEPT ![m] = e] = l
  <2> DEFINE n1 == [l EXCEPT ![k] = b]
  <2>1. Listed(p, n1)
    BY Relisted
  <2>2. m \in DOMAIN n1 /\ n1[m] = e
    OBVIOUS
  <2>3. Listed(p, [n1 EXCEPT ![m] = PlacedAt(n1[m], w)])
    <3> HIDE DEF n1
    <3> QED
      BY <2>1, <2>2, Relisted
  <2>4. Listed(p, n)
    BY <2>2, <2>3
  <2>5. l \in Seq(Assignment(p))
    BY DEF Listed
  <2>6. l = [j \in DOMAIN l |-> l[j]]
    BY <2>5
  <2>7. n[k] = b /\ n[m] = f /\ k \in DOMAIN n /\ m \in DOMAIN n
    OBVIOUS
  <2>8. [[n EXCEPT ![k] = a] EXCEPT ![m] = e] = l
    BY <2>6
  <2> QED
    BY <2>4, <2>7, <2>8
<1> HIDE DEF c, d
<1>5. Apply(p, s, move) = [list |-> n, faculty |-> F2, room |-> R2, group |-> G2]
  <2> DEFINE to == [i \in DOMAIN move |-> move[i].to]
  <2>1. to[1] = v /\ to[2] = w
    BY <1>3
  <2> HIDE DEF to
  <2>2. Relocate(p, s, move, to) = [list |-> n, faculty |-> F2, room |-> R2, group |-> G2]
    BY <1>2, <1>3, <2>1, RelocateTwo
  <2> QED
    BY <2>2 DEF Apply, to
<1> HIDE DEF F2, R2, G2, n, b, f
<1>6. Undo(p, [list |-> n, faculty |-> F2, room |-> R2, group |-> G2], move)
        = [list    |-> l,
           faculty |-> MarkFree(MarkFree(Unmark(Unmark(F2,
                         HeldFaculty(p, b), a.id), HeldFaculty(p, f), e.id),
                         HeldFaculty(p, a), a.id), HeldFaculty(p, e), e.id),
           room    |-> MarkFree(MarkFree(Unmark(Unmark(R2,
                         HeldRoom(p, b), a.id), HeldRoom(p, f), e.id),
                         HeldRoom(p, a), a.id), HeldRoom(p, e), e.id),
           group   |-> MarkFree(MarkFree(Unmark(Unmark(G2,
                         HeldGroup(p, b), a.id), HeldGroup(p, f), e.id),
                         HeldGroup(p, a), a.id), HeldGroup(p, e), e.id)]
  <2> DEFINE from == [i \in DOMAIN move |-> move[i].from]
  <2>1. from[1] = Placement(a) /\ from[2] = Placement(e)
    BY <1>3
  <2> HIDE DEF from
  <2>2. c.id = n[k].id /\ d.id = n[m].id
    BY <1>2, <1>3, <1>4
  <2>3. Relocate(p, [list |-> n, faculty |-> F2, room |-> R2, group |-> G2], move, from)
          = [list    |-> [[n EXCEPT ![k] = PlacedAt(b, Placement(a))] EXCEPT ![m] = PlacedAt(f, Placement(e))],
             faculty |-> MarkFree(MarkFree(Unmark(Unmark(F2,
                           HeldFaculty(p, b), b.id), HeldFaculty(p, f), f.id),
                           HeldFaculty(p, PlacedAt(b, Placement(a))), PlacedAt(b, Placement(a)).id),
                           HeldFaculty(p, PlacedAt(f, Placement(e))), PlacedAt(f, Placement(e)).id),
             room    |-> MarkFree(MarkFree(Unmark(Unmark(R2,
                           HeldRoom(p, b), b.id), HeldRoom(p, f), f.id),
                           HeldRoom(p, PlacedAt(b, Placement(a))), PlacedAt(b, Placement(a)).id),
                           HeldRoom(p, PlacedAt(f, Placement(e))), PlacedAt(f, Placement(e)).id),
             group   |-> MarkFree(MarkFree(Unmark(Unmark(G2,
                           HeldGroup(p, b), b.id), HeldGroup(p, f), f.id),
                           HeldGroup(p, PlacedAt(b, Placement(a))), PlacedAt(b, Placement(a)).id),
                           HeldGroup(p, PlacedAt(f, Placement(e))), PlacedAt(f, Placement(e)).id)]
    BY <1>4, <2>1, <2>2, RelocateTwo
  <2> QED
    BY <1>2, <1>4, <2>3 DEF Undo, from
<1> QED
  BY <1>5, <1>6 DEF F2, R2, G2, b, f, c, d

-----------------------------------------------------------------------------
(* A neighbour is tried and undone. *)

\* A session stands in a place.
LEMMA Places ==
  ASSUME NEW p, NEW l, Listed(p, l), NEW k \in DOMAIN l
  PROVE  Placement(l[k]) \in Candidates
<1>1. l[k] \in Assignment(p)
  BY DEF Listed
<1> QED
  BY <1>1 DEF Assignment, Placement, Candidates

\* An owned table gets back the cells of one session.
LEMMA TraceOfOne ==
  ASSUME NEW p, NEW l, Listed(p, l), NEW D, NEW C, NEW T, Owned(p, l, T, D, C),
         NEW k \in DOMAIN l, NEW A
  PROVE  LET i == l[k].id
         IN MarkFree(Unmark(MarkFree(Unmark(T, C[k], i), A, i), A, i), C[k], i) = T
<1>1. l[k].id # None
  BY NoneIsNoId
<1>2. T = [x \in D |-> T[x]] /\ \A x \in D : T[x] = l[k].id <=> x \in C[k]
  BY DEF Owned
<1> QED
  BY <1>1, <1>2, OneBack

\* An owned table gets back the cells of two sessions.
LEMMA TraceOfTwo ==
  ASSUME NEW p, NEW l, Listed(p, l), NEW D, NEW C, NEW T, Owned(p, l, T, D, C),
         NEW k \in DOMAIN l, NEW m \in DOMAIN l, k # m, NEW A, NEW B
  PROVE  LET i == l[k].id
             j == l[m].id
         IN MarkFree(MarkFree(Unmark(Unmark(
              MarkFree(MarkFree(Unmark(Unmark(T, C[k], i), C[m], j), A, i), B, j),
            A, i), B, j), C[k], i), C[m], j) = T
<1>1. l[k].id # None /\ l[m].id # None /\ l[k].id # l[m].id
  BY NoneIsNoId DEF Listed
<1>2. T = [x \in D |-> T[x]] /\ \A x \in D : (T[x] = l[k].id <=> x \in C[k]) /\ (T[x] = l[m].id <=> x \in C[m])
  BY DEF Owned
<1> QED
  BY <1>1, <1>2, TwoBack

\* The tables of an index built from a list without clashes are owned.
LEMMA BuiltOwned ==
  ASSUME NEW p, NEW l, Listed(p, l), KeptApart(p, l)
  PROVE  LET s == BuildIndex(p, l)
         IN /\ s = [list |-> l, faculty |-> s.faculty, room |-> s.room, group |-> s.group]
            /\ Owned(p, l, s.faculty, Faculty \X Slots, FacultyHeld(p, l))
            /\ Owned(p, l, s.room, Rooms \X Slots, RoomHeld(p, l))
            /\ Owned(p, l, s.group, Groups \X Slots, GroupHeld(p, l))
<1>1. /\ Disjoint(l, FacultyHeld(p, l))
      /\ Disjoint(l, RoomHeld(p, l))
      /\ Disjoint(l, GroupHeld(p, l))
  BY Asunder
<1>2. Owned(p, l, BuildIndex(p, l).faculty, Faculty \X Slots, FacultyHeld(p, l))
  BY <1>1, Built, ColumnOwned
<1>3. Owned(p, l, BuildIndex(p, l).room, Rooms \X Slots, RoomHeld(p, l))
  BY <1>1, Built, ColumnOwned
<1>4. Owned(p, l, BuildIndex(p, l).group, Groups \X Slots, GroupHeld(p, l))
  BY <1>1, Built, ColumnOwned
<1> QED
  BY <1>2, <1>3, <1>4, Built

\* Undoing a move restores list and index, if no two sessions clash.
LEMMA UndoRestores ==
  ASSUME NEW p, NEW l, Listed(p, l), KeptApart(p, l), NEW move \in Neighbours(p, l)
  PROVE  Undo(p, Apply(p, BuildIndex(p, l), move), move) = BuildIndex(p, l)
<1> DEFINE s == BuildIndex(p, l)
<1>1. /\ s = [list |-> l, faculty |-> s.faculty, room |-> s.room, group |-> s.group]
      /\ Owned(p, l, s.faculty, Faculty \X Slots, FacultyHeld(p, l))
      /\ Owned(p, l, s.room, Rooms \X Slots, RoomHeld(p, l))
      /\ Owned(p, l, s.group, Groups \X Slots, GroupHeld(p, l))
  BY BuiltOwned
<1> HIDE DEF s
<1> DEFINE F == s.faculty
           R == s.room
           G == s.group
<1> HIDE DEF F, R, G
<1>2. \A k \in DOMAIN l : /\ FacultyHeld(p, l)[k] = HeldFaculty(p, l[k])
                          /\ RoomHeld(p, l)[k] = HeldRoom(p, l[k])
                          /\ GroupHeld(p, l)[k] = HeldGroup(p, l[k])
  BY DEF FacultyHeld, RoomHeld, GroupHeld
<1>3. CASE move \in SingleMoves(p, l)
  <2>1. PICK k \in DOMAIN l, w \in Candidates : move = <<ChangeOf(l[k], w)>>
    BY <1>3, Single
  <2> DEFINE a == l[k]
             b == PlacedAt(a, w)
  <2>2. MarkFree(Unmark(MarkFree(Unmark(F, HeldFaculty(p, a), a.id), HeldFaculty(p, b), a.id),
                 HeldFaculty(p, b), a.id), HeldFaculty(p, a), a.id) = F
    BY <1>1, <1>2, TraceOfOne DEF F
  <2>3. MarkFree(Unmark(MarkFree(Unmark(R, HeldRoom(p, a), a.id), HeldRoom(p, b), a.id),
                 HeldRoom(p, b), a.id), HeldRoom(p, a), a.id) = R
    BY <1>1, <1>2, TraceOfOne DEF R
  <2>4. MarkFree(Unmark(MarkFree(Unmark(G, HeldGroup(p, a), a.id), HeldGroup(p, b), a.id),
                 HeldGroup(p, b), a.id), HeldGroup(p, a), a.id) = G
    BY <1>1, <1>2, TraceOfOne DEF G
  <2>5. Undo(p, Apply(p, [list |-> l, faculty |-> F, room |-> R, group |-> G], <<ChangeOf(a, w)>>), <<ChangeOf(a, w)>>)
          = [list |-> l, faculty |-> F, room |-> R, group |-> G]
    BY <2>2, <2>3, <2>4, UndoneOne
  <2> QED
    BY <1>1, <2>1, <2>5 DEF F, R, G, s
<1>4. CASE move \in SwapMoves(p, l)
  <2>1. PICK k \in DOMAIN l, m \in DOMAIN l :
          /\ move = <<ChangeOf(l[k], Placement(l[m])), ChangeOf(l[m], Placement(l[k]))>>
          /\ k # m
    BY <1>4, Swap
  <2>2. Placement(l[k]) \in Candidates /\ Placement(l[m]) \in Candidates
    BY Places
  <2> DEFINE a == l[k]
             e == l[m]
             b == PlacedAt(a, Placement(e))
             f == PlacedAt(e, Placement(a))
  <2>3. MarkFree(MarkFree(Unmark(Unmark(MarkFree(MarkFree(Unmark(Unmark(F,
          HeldFaculty(p, a), a.id), HeldFaculty(p, e), e.id), HeldFaculty(p, b), a.id), HeldFaculty(p, f), e.id),
          HeldFaculty(p, b), a.id), HeldFaculty(p, f), e.id), HeldFaculty(p, a), a.id), HeldFaculty(p, e), e.id) = F
    <3> DEFINE C == FacultyHeld(p, l)
    <3>1. Owned(p, l, F, Faculty \X Slots, C)
      BY <1>1 DEF F
    <3>2. C[k] = HeldFaculty(p, a) /\ C[m] = HeldFaculty(p, e)
      BY <1>2, <2>1
    <3> HIDE DEF C, b, f
    <3>3. MarkFree(MarkFree(Unmark(Unmark(MarkFree(MarkFree(Unmark(Unmark(F,
            C[k], a.id), C[m], e.id), HeldFaculty(p, b), a.id), HeldFaculty(p, f), e.id),
            HeldFaculty(p, b), a.id), HeldFaculty(p, f), e.id), C[k], a.id), C[m], e.id) = F
      BY <2>1, <3>1, TraceOfTwo
    <3> QED
      BY <3>2, <3>3
  <2>4. MarkFree(MarkFree(Unmark(Unmark(MarkFree(MarkFree(Unmark(Unmark(R,
          HeldRoom(p, a), a.id), HeldRoom(p, e), e.id), HeldRoom(p, b), a.id), HeldRoom(p, f), e.id),
          HeldRoom(p, b), a.id), HeldRoom(p, f), e.id), HeldRoom(p, a), a.id), HeldRoom(p, e), e.id) = R
    <3> DEFINE C == RoomHeld(p, l)
    <3>1. Owned(p, l, R, Rooms \X Slots, C)
      BY <1>1 DEF R
    <3>2. C[k] = HeldRoom(p, a) /\ C[m] = HeldRoom(p, e)
      BY <1>2, <2>1
    <3> HIDE DEF C, b, f
    <3>3. MarkFree(MarkFree(Unmark(Unmark(MarkFree(MarkFree(Unmark(Unmark(R,
            C[k], a.id), C[m], e.id), HeldRoom(p, b), a.id), HeldRoom(p, f), e.id),
            HeldRoom(p, b), a.id), HeldRoom(p, f), e.id), C[k], a.id), C[m], e.id) = R
      BY <2>1, <3>1, TraceOfTwo
    <3> QED
      BY <3>2, <3>3
  <2>5. MarkFree(MarkFree(Unmark(Unmark(MarkFree(MarkFree(Unmark(Unmark(G,
          HeldGroup(p, a), a.id), HeldGroup(p, e), e.id), HeldGroup(p, b), a.id), HeldGroup(p, f), e.id),
          HeldGroup(p, b), a.id), HeldGroup(p, f), e.id), HeldGroup(p, a), a.id), HeldGroup(p, e), e.id) = G
    <3> DEFINE C == GroupHeld(p, l)
    <3>1. Owned(p, l, G, Groups \X Slots, C)
      BY <1>1 DEF G
    <3>2. C[k] = HeldGroup(p, a) /\ C[m] = HeldGroup(p, e)
      BY <1>2, <2>1
    <3> HIDE DEF C, b, f
    <3>3. MarkFree(MarkFree(Unmark(Unmark(MarkFree(MarkFree(Unmark(Unmark(G,
            C[k], a.id), C[m], e.id), HeldGroup(p, b), a.id), HeldGroup(p, f), e.id),
            HeldGroup(p, b), a.id), HeldGroup(p, f), e.id), C[k], a.id), C[m], e.id) = G
      BY <2>1, <3>1, TraceOfTwo
    <3> QED
      BY <3>2, <3>3
  <2>6. Undo(p, Apply(p, [list |-> l, faculty |-> F, room |-> R, group |-> G],
                 <<ChangeOf(a, Placement(e)), ChangeOf(e, Placement(a))>>),
                 <<ChangeOf(a, Placement(e)), ChangeOf(e, Placement(a))>>)
          = [list |-> l, faculty |-> F, room |-> R, group |-> G]
    BY <2>1, <2>2, <2>3, <2>4, <2>5, UndoneTwo
  <2> QED
    BY <1>1, <2>1, <2>6 DEF F, R, G, s
<1> QED
  BY <1>3, <1>4 DEF Neighbours

\* A solution is a record of its four parts.
FourParts(s) == \E F, R, G : s = [list |-> s.list, faculty |-> F, room |-> R, group |-> G]

\* Such a record has its list.
LEMMA FourPartsOf ==
  \A u, l, F, R, G : u = [list |-> l, faculty |-> F, room |-> R, group |-> G]
                       => u.list = l /\ FourParts(u)
<1> TAKE u, l, F, R, G
<1>1. HAVE u = [list |-> l, faculty |-> F, room |-> R, group |-> G]
<1>2. u.list = l
  BY <1>1
<1>3. u = [list |-> u.list, faculty |-> F, room |-> R, group |-> G]
  BY <1>1, <1>2
<1> QED
  BY <1>2, <1>3 DEF FourParts

\* Whatever the index, the list comes back.
LEMMA ListRestored ==
  ASSUME NEW p, NEW s, FourParts(s), Listed(p, s.list), NEW move \in Neighbours(p, s.list)
  PROVE  LET u == Undo(p, Apply(p, s, move), move) IN u.list = s.list /\ FourParts(u)
<1> DEFINE l == s.list
<1>1. PICK F, R, G : s = [list |-> l, faculty |-> F, room |-> R, group |-> G]
  BY DEF FourParts
<1> HIDE DEF l
<1>2. CASE move \in SingleMoves(p, l)
  <2>1. PICK k \in DOMAIN l, w \in Candidates : move = <<ChangeOf(l[k], w)>>
    BY <1>2, Single DEF l
  <2> DEFINE u == Undo(p, Apply(p, [list |-> l, faculty |-> F, room |-> R, group |-> G],
                                <<ChangeOf(l[k], w)>>), <<ChangeOf(l[k], w)>>)
  <2>2. Listed(p, l)
    BY DEF l
  <2>3. \E F1, R1, G1 : u = [list |-> l, faculty |-> F1, room |-> R1, group |-> G1]
    <3> DEFINE a == l[k]
               b == PlacedAt(a, w)
               Back(T, A, B) == MarkFree(Unmark(MarkFree(Unmark(T, A, a.id), B, a.id), B, a.id), A, a.id)
               F1 == Back(F, HeldFaculty(p, a), HeldFaculty(p, b))
               R1 == Back(R, HeldRoom(p, a), HeldRoom(p, b))
               G1 == Back(G, HeldGroup(p, a), HeldGroup(p, b))
    <3>1. u = [list |-> l, faculty |-> F1, room |-> R1, group |-> G1]
      BY <2>2, UndoneOne
    <3> HIDE DEF u, F1, R1, G1
    <3> QED
      BY <3>1
  <2> HIDE DEF u
  <2>4. u.list = l /\ FourParts(u)
    BY <2>3, FourPartsOf
  <2> QED
    BY <1>1, <2>1, <2>4 DEF l, u
<1>3. CASE move \in SwapMoves(p, l)
  <2>1. PICK k \in DOMAIN l, m \in DOMAIN l :
          /\ move = <<ChangeOf(l[k], Placement(l[m])), ChangeOf(l[m], Placement(l[k]))>>
          /\ k # m
    BY <1>3, Swap DEF l
  <2>2. Placement(l[k]) \in Candidates /\ Placement(l[m]) \in Candidates
    BY Places DEF l
  <2> DEFINE u == Undo(p, Apply(p, [list |-> l, faculty |-> F, room |-> R, group |-> G],
                    <<ChangeOf(l[k], Placement(l[m])), ChangeOf(l[m], Placement(l[k]))>>),
                    <<ChangeOf(l[k], Placement(l[m])), ChangeOf(l[m], Placement(l[k]))>>)
  <2>3. Listed(p, l)
    BY DEF l
  <2>4. \E F1, R1, G1 : u = [list |-> l, faculty |-> F1, room |-> R1, group |-> G1]
    <3> DEFINE a == l[k]
               e == l[m]
               b == PlacedAt(a, Placement(e))
               f == PlacedAt(e, Placement(a))
               Back(T, A, E, B, H) ==
                 MarkFree(MarkFree(Unmark(Unmark(MarkFree(MarkFree(Unmark(Unmark(T,
                   A, a.id), E, e.id), B, a.id), H, e.id), B, a.id), H, e.id), A, a.id), E, e.id)
               F1 == Back(F, HeldFaculty(p, a), HeldFaculty(p, e), HeldFaculty(p, b), HeldFaculty(p, f))
               R1 == Back(R, HeldRoom(p, a), HeldRoom(p, e), HeldRoom(p, b), HeldRoom(p, f))
               G1 == Back(G, HeldGroup(p, a), HeldGroup(p, e), HeldGroup(p, b), HeldGroup(p, f))
    <3>1. u = [list |-> l, faculty |-> F1, room |-> R1, group |-> G1]
      BY <2>1, <2>2, <2>3, UndoneTwo
    <3> HIDE DEF u, F1, R1, G1
    <3> QED
      BY <3>1
  <2> HIDE DEF u
  <2>5. u.list = l /\ FourParts(u)
    BY <2>4, FourPartsOf
  <2> QED
    BY <1>1, <2>1, <2>5 DEF l, u
<1> QED
  BY <1>2, <1>3 DEF Neighbours, l

-----------------------------------------------------------------------------
(* A neighbour is made. *)

\* The list after one change, or after two: other places, the same sessions, and the
\* difference of the lists is the signature of the move.
LEMMA MadeOne ==
  ASSUME NEW p, NEW l, Listed(p, l), NEW k \in DOMAIN l, NEW w \in Candidates, w # Placement(l[k])
  PROVE  LET n == [l EXCEPT ![k] = PlacedAt(l[k], w)]
             move == <<ChangeOf(l[k], w)>>
         IN Listed(p, n) /\ n # l /\ Made(l, n) = Signature(move)
<1> DEFINE a == l[k]
           b == PlacedAt(a, w)
           n == [l EXCEPT ![k] = b]
           c == ChangeOf(a, w)
           move == <<c>>
<1>1. a \in Assignment(p) /\ l \in Seq(Assignment(p))
  BY DEF Listed
<1>2. Placement(b) = w
  BY <1>1, Placing
<1>3. b # a
  BY <1>2
<1>4. DOMAIN n = DOMAIN l /\ n[k] = b /\ \A j \in DOMAIN l : j # k => n[j] = l[j]
  BY <1>1
<1>5. Listed(p, n)
  BY Relisted
<1>6. c.id = a.id /\ c.from = Placement(a) /\ c.to = w
  BY ChangeFields
<1> HIDE DEF b, n, c
<1>7. {j \in DOMAIN l : l[j] # n[j]} = {k}
  BY <1>3, <1>4
<1>8. Made(l, n) = {<<a.id, Placement(a), w>>}
  BY <1>2, <1>4, <1>7 DEF Made
<1>9. Signature(move) = {<<a.id, Placement(a), w>>}
  <2>1. DOMAIN move = {1} /\ move[1] = c
    OBVIOUS
  <2> QED
    BY <1>6, <2>1 DEF Signature
<1> QED
  BY <1>3, <1>4, <1>5, <1>8, <1>9 DEF b, n, c

\* The same of a swap.
LEMMA MadeTwo ==
  ASSUME NEW p, NEW l, Listed(p, l), NEW k \in DOMAIN l, NEW m \in DOMAIN l, k # m,
         NEW v \in Candidates, NEW w \in Candidates, v # Placement(l[k]), w # Placement(l[m])
  PROVE  LET n == [[l EXCEPT ![k] = PlacedAt(l[k], v)] EXCEPT ![m] = PlacedAt(l[m], w)]
             move == <<ChangeOf(l[k], v), ChangeOf(l[m], w)>>
         IN Listed(p, n) /\ n # l /\ Made(l, n) = Signature(move)
<1> DEFINE a == l[k]
           e == l[m]
           b == PlacedAt(a, v)
           f == PlacedAt(e, w)
           n1 == [l EXCEPT ![k] = b]
           n == [n1 EXCEPT ![m] = f]
           c == ChangeOf(a, v)
           d == ChangeOf(e, w)
           move == <<c, d>>
<1>1. a \in Assignment(p) /\ e \in Assignment(p) /\ l \in Seq(Assignment(p))
  BY DEF Listed
<1>2. Placement(b) = v /\ Placement(f) = w
  BY <1>1, Placing
<1>3. b # a /\ f # e
  BY <1>2
<1>4. /\ DOMAIN n = DOMAIN l /\ n[k] = b /\ n[m] = f
      /\ \A j \in DOMAIN l : j # k /\ j # m => n[j] = l[j]
  BY <1>1
<1>5. Listed(p, n)
  <2>1. Listed(p, n1) /\ m \in DOMAIN n1 /\ n1[m] = e
    BY Relisted
  <2> HIDE DEF n1
  <2>2. Listed(p, [n1 EXCEPT ![m] = PlacedAt(n1[m], w)])
    BY <2>1, Relisted
  <2> QED
    BY <2>1, <2>2
<1>6. c.id = a.id /\ c.from = Placement(a) /\ c.to = v /\ d.id = e.id /\ d.from = Placement(e) /\ d.to = w
  BY ChangeFields
<1> HIDE DEF b, f, n, c, d
<1>7. {j \in DOMAIN l : l[j] # n[j]} = {k, m}
  BY <1>3, <1>4
<1>8. Made(l, n) = {<<a.id, Placement(a), v>>, <<e.id, Placement(e), w>>}
  BY <1>2, <1>4, <1>7 DEF Made
<1>9. Signature(move) = {<<a.id, Placement(a), v>>, <<e.id, Placement(e), w>>}
  <2>1. DOMAIN move = {1, 2} /\ move[1] = c /\ move[2] = d
    OBVIOUS
  <2> QED
    BY <1>6, <2>1 DEF Signature
<1> QED
  BY <1>3, <1>4, <1>5, <1>8, <1>9 DEF b, f, n, n1, c, d

\* One change made.
LEMMA AppliedOne ==
  ASSUME NEW p, NEW l, Listed(p, l), NEW F, NEW R, NEW G, NEW k \in DOMAIN l, NEW w \in Candidates
  PROVE  LET a == l[k]
             b == PlacedAt(a, w)
         IN Apply(p, [list |-> l, faculty |-> F, room |-> R, group |-> G], <<ChangeOf(a, w)>>) =
              [list    |-> [l EXCEPT ![k] = b],
               faculty |-> MarkFree(Unmark(F, HeldFaculty(p, a), a.id), HeldFaculty(p, b), a.id),
               room    |-> MarkFree(Unmark(R, HeldRoom(p, a), a.id), HeldRoom(p, b), a.id),
               group   |-> MarkFree(Unmark(G, HeldGroup(p, a), a.id), HeldGroup(p, b), a.id)]
<1> DEFINE a == l[k]
           c == ChangeOf(a, w)
           move == <<c>>
           to == [i \in DOMAIN move |-> move[i].to]
<1>1. a \in Assignment(p)
  BY DEF Listed
<1>2. c.id = a.id /\ c.to = w
  BY ChangeFields
<1>3. to[1] = w
  BY <1>2
<1>4. PlacedAt(a, w).id = a.id
  BY <1>1, Placing
<1> HIDE DEF c, to
<1>5. Relocate(p, [list |-> l, faculty |-> F, room |-> R, group |-> G], move, to) =
        [list    |-> [l EXCEPT ![k] = PlacedAt(a, w)],
         faculty |-> MarkFree(Unmark(F, HeldFaculty(p, a), a.id), HeldFaculty(p, PlacedAt(a, w)), a.id),
         room    |-> MarkFree(Unmark(R, HeldRoom(p, a), a.id), HeldRoom(p, PlacedAt(a, w)), a.id),
         group   |-> MarkFree(Unmark(G, HeldGroup(p, a), a.id), HeldGroup(p, PlacedAt(a, w)), a.id)]
  BY <1>2, <1>3, <1>4, RelocateOne
<1> QED
  BY <1>5 DEF Apply, to, c

\* A swap made.
LEMMA AppliedTwo ==
  ASSUME NEW p, NEW l, Listed(p, l), NEW F, NEW R, NEW G,
         NEW k \in DOMAIN l, NEW m \in DOMAIN l, k # m, NEW v \in Candidates, NEW w \in Candidates
  PROVE  LET a == l[k]
             e == l[m]
             b == PlacedAt(a, v)
             f == PlacedAt(e, w)
         IN Apply(p, [list |-> l, faculty |-> F, room |-> R, group |-> G],
                  <<ChangeOf(a, v), ChangeOf(e, w)>>) =
              [list    |-> [[l EXCEPT ![k] = b] EXCEPT ![m] = f],
               faculty |-> MarkFree(MarkFree(Unmark(Unmark(F,
                             HeldFaculty(p, a), a.id), HeldFaculty(p, e), e.id),
                             HeldFaculty(p, b), a.id), HeldFaculty(p, f), e.id),
               room    |-> MarkFree(MarkFree(Unmark(Unmark(R,
                             HeldRoom(p, a), a.id), HeldRoom(p, e), e.id),
                             HeldRoom(p, b), a.id), HeldRoom(p, f), e.id),
               group   |-> MarkFree(MarkFree(Unmark(Unmark(G,
                             HeldGroup(p, a), a.id), HeldGroup(p, e), e.id),
                             HeldGroup(p, b), a.id), HeldGroup(p, f), e.id)]
<1> DEFINE a == l[k]
           e == l[m]
           c == ChangeOf(a, v)
           d == ChangeOf(e, w)
           move == <<c, d>>
           to == [i \in DOMAIN move |-> move[i].to]
<1>1. a \in Assignment(p) /\ e \in Assignment(p)
  BY DEF Listed
<1>2. c.id = a.id /\ c.to = v /\ d.id = e.id /\ d.to = w
  BY ChangeFields
<1>3. to[1] = v /\ to[2] = w
  BY <1>2
<1>4. PlacedAt(a, v).id = a.id /\ PlacedAt(e, w).id = e.id
  BY <1>1, Placing
<1> HIDE DEF c, d, to
<1>5. Relocate(p, [list |-> l, faculty |-> F, room |-> R, group |-> G], move, to) =
        [list    |-> [[l EXCEPT ![k] = PlacedAt(a, v)] EXCEPT ![m] = PlacedAt(e, w)],
         faculty |-> MarkFree(MarkFree(Unmark(Unmark(F,
                       HeldFaculty(p, a), a.id), HeldFaculty(p, e), e.id),
                       HeldFaculty(p, PlacedAt(a, v)), a.id), HeldFaculty(p, PlacedAt(e, w)), e.id),
         room    |-> MarkFree(MarkFree(Unmark(Unmark(R,
                       HeldRoom(p, a), a.id), HeldRoom(p, e), e.id),
                       HeldRoom(p, PlacedAt(a, v)), a.id), HeldRoom(p, PlacedAt(e, w)), e.id),
         group   |-> MarkFree(MarkFree(Unmark(Unmark(G,
                       HeldGroup(p, a), a.id), HeldGroup(p, e), e.id),
                       HeldGroup(p, PlacedAt(a, v)), a.id), HeldGroup(p, PlacedAt(e, w)), e.id)]
  BY <1>2, <1>3, <1>4, RelocateTwo
<1> QED
  BY <1>5 DEF Apply, to, c, d

\* A neighbour that is made is what its signature says, and leaves a solution with the
\* same sessions.
LEMMA MoveMade ==
  ASSUME NEW p, NEW s, FourParts(s), Listed(p, s.list), NEW move \in Neighbours(p, s.list)
  PROVE  LET u == Apply(p, s, move)
         IN FourParts(u) /\ Listed(p, u.list) /\ u.list # s.list /\ Made(s.list, u.list) = Signature(move)
<1> DEFINE l == s.list
<1>1. PICK F, R, G : s = [list |-> l, faculty |-> F, room |-> R, group |-> G]
  BY DEF FourParts
<1> HIDE DEF l
<1>2. Listed(p, l)
  BY DEF l
<1>3. CASE move \in SingleMoves(p, l)
  <2>1. PICK k \in DOMAIN l, w \in Candidates : move = <<ChangeOf(l[k], w)>> /\ w # Placement(l[k])
    BY <1>2, <1>3, Single
  <2> DEFINE a == l[k]
             b == PlacedAt(a, w)
             n == [l EXCEPT ![k] = b]
             u == Apply(p, [list |-> l, faculty |-> F, room |-> R, group |-> G], <<ChangeOf(a, w)>>)
             F1 == MarkFree(Unmark(F, HeldFaculty(p, a), a.id), HeldFaculty(p, b), a.id)
             R1 == MarkFree(Unmark(R, HeldRoom(p, a), a.id), HeldRoom(p, b), a.id)
             G1 == MarkFree(Unmark(G, HeldGroup(p, a), a.id), HeldGroup(p, b), a.id)
  <2>2. u = [list |-> n, faculty |-> F1, room |-> R1, group |-> G1]
    BY <1>2, AppliedOne
  <2>3. Listed(p, n) /\ n # l /\ Made(l, n) = Signature(<<ChangeOf(a, w)>>)
    BY <1>2, <2>1, MadeOne
  <2> HIDE DEF n, u, F1, R1, G1
  <2>4. u.list = n /\ FourParts(u)
    BY <2>2, FourPartsOf
  <2>5. u = Apply(p, s, move)
    BY <1>1, <2>1 DEF u
  <2>6. FourParts(u) /\ Listed(p, u.list) /\ u.list # l /\ Made(l, u.list) = Signature(move)
    BY <2>1, <2>3, <2>4
  <2> HIDE DEF l
  <2> QED
    BY <2>5, <2>6 DEF l
<1>4. CASE move \in SwapMoves(p, l)
  <2>1. PICK k \in DOMAIN l, m \in DOMAIN l :
          /\ move = <<ChangeOf(l[k], Placement(l[m])), ChangeOf(l[m], Placement(l[k]))>>
          /\ k # m /\ Placement(l[k]) # Placement(l[m])
    BY <1>2, <1>4, Swap
  <2>2. Placement(l[k]) \in Candidates /\ Placement(l[m]) \in Candidates
    BY <1>2, Places
  <2> DEFINE a == l[k]
             e == l[m]
             b == PlacedAt(a, Placement(e))
             f == PlacedAt(e, Placement(a))
             n == [[l EXCEPT ![k] = b] EXCEPT ![m] = f]
             u == Apply(p, [list |-> l, faculty |-> F, room |-> R, group |-> G],
                        <<ChangeOf(a, Placement(e)), ChangeOf(e, Placement(a))>>)
             To(T, A, E, B, H) == MarkFree(MarkFree(Unmark(Unmark(T, A, a.id), E, e.id), B, a.id), H, e.id)
             F1 == To(F, HeldFaculty(p, a), HeldFaculty(p, e), HeldFaculty(p, b), HeldFaculty(p, f))
             R1 == To(R, HeldRoom(p, a), HeldRoom(p, e), HeldRoom(p, b), HeldRoom(p, f))
             G1 == To(G, HeldGroup(p, a), HeldGroup(p, e), HeldGroup(p, b), HeldGroup(p, f))
  <2>3. u = [list |-> n, faculty |-> F1, room |-> R1, group |-> G1]
    BY <1>2, <2>1, <2>2, AppliedTwo
  <2>4. Listed(p, n) /\ n # l
        /\ Made(l, n) = Signature(<<ChangeOf(a, Placement(e)), ChangeOf(e, Placement(a))>>)
    BY <1>2, <2>1, <2>2, MadeTwo
  <2> HIDE DEF n, u, F1, R1, G1
  <2>5. u.list = n /\ FourParts(u)
    BY <2>3, FourPartsOf
  <2>6. u = Apply(p, s, move)
    BY <1>1, <2>1 DEF u
  <2>7. FourParts(u) /\ Listed(p, u.list) /\ u.list # l /\ Made(l, u.list) = Signature(move)
    BY <2>1, <2>4, <2>5
  <2> QED
    BY <2>6, <2>7 DEF l
<1> QED
  BY <1>3, <1>4 DEF Neighbours, l

-----------------------------------------------------------------------------
(* The inductive invariant of the search, for its list and its tabu list. *)

\* The list keeps its ids, and a candidate that was chosen is a neighbour.
SearchInv ==
  /\ problem \in Problems
  /\ FourParts(sol) /\ Listed(problem, sol.list)
  /\ choice # NoMove => phase = "try" /\ choice.move \in Neighbours(problem, sol.list)

\* The tabu list remembers what was reversed in the last TabuTenure iterations, and a tabu
\* candidate was only chosen because it beats the best score.
TabuInv ==
  /\ iteration \in Nat
  /\ \A sig \in DOMAIN accepted :
       /\ accepted[sig] \in Nat /\ accepted[sig] < iteration
       /\ TabuTenure > 0 /\ iteration <= accepted[sig] + TabuTenure =>
            sig \in DOMAIN tabu /\ tabu[sig] = accepted[sig] + TabuTenure
  /\ choice # NoMove =>
       (IsTabu(tabu, Signature(choice.move), iteration) => choice.cost < best.cost)

\* What is kept of a candidate.
LEMMA ChoiceFields == \A m, c : [move |-> m, cost |-> c].move = m /\ [move |-> m, cost |-> c].cost = c
OBVIOUS

\* Only an expired entry is forgotten.
LEMMA Forgetful ==
  ASSUME NEW list, NEW sig, NEW now \in Nat, NEW other
  PROVE  LET f == Forget(list, sig, now)
         IN /\ \A n \in Nat : now <= n /\ other \in DOMAIN list /\ list[other] = n
                                => other \in DOMAIN f /\ f[other] = n
            /\ IsTabu(f, other, now) => IsTabu(list, other, now)
BY DEF Forget, IsTabu

\* An entry added to a table of entries.
LEMMA Added ==
  ASSUME NEW f, NEW sig, NEW n, NEW x
  PROVE  /\ x \in DOMAIN With(f, sig, n) <=> x = sig \/ x \in DOMAIN f
         /\ x = sig => With(f, sig, n)[x] = n
         /\ x # sig /\ x \in DOMAIN f => With(f, sig, n)[x] = f[x]
BY DEF With

\* Both hold when the search is called.
LEMMA SearchInit == Init => SearchInv /\ TabuInv
<1> SUFFICES ASSUME Init PROVE SearchInv /\ TabuInv
  OBVIOUS
<1>1. PICK s \in Starts :
        /\ problem = s.problem /\ sol = BuildIndex(s.problem, s.list)
        /\ choice = NoMove /\ iteration = 0 /\ accepted = [x \in {} |-> 0]
  BY DEF Init
<1>2. s.problem \in Problems /\ Startable(s.problem, s.list)
  BY StartsAssumption
<1>3. Listed(problem, s.list)
  BY <1>1, <1>2 DEF Startable, Listed
<1>4. sol.list = s.list /\ FourParts(sol)
  BY <1>1, Built, FourPartsOf
<1>5. SearchInv
  BY <1>1, <1>2, <1>3, <1>4 DEF SearchInv
<1>6. TabuInv
  BY <1>1 DEF TabuInv
<1> QED
  BY <1>5, <1>6

\* Both are kept, action by action.
LEMMA SearchStep == SearchInv /\ TabuInv /\ [Next]_vars => SearchInv' /\ TabuInv'
<1> SUFFICES ASSUME SearchInv, TabuInv, [Next]_vars PROVE SearchInv' /\ TabuInv'
  OBVIOUS
<1> USE LimitsAssumption
<1>1. ASSUME UNCHANGED <<problem, start, search>>, phase' # phase => choice = NoMove
      PROVE  SearchInv' /\ TabuInv'
  <2>1. SearchInv'
    BY <1>1 DEF SearchInv, search
  <2>2. TabuInv'
    BY <1>1 DEF TabuInv, search
  <2> QED
    BY <2>1, <2>2
<1>2. ASSUME phase # "try" PROVE choice = NoMove
  BY <1>2 DEF SearchInv
<1>3. CASE Refuse \/ Begin \/ LimitReached \/ TimeUp \/ Interrupt \/ NextIteration
  BY <1>1, <1>2, <1>3 DEF Refuse, Begin, LimitReached, TimeUp, Interrupt, NextIteration, Finalize
<1>4. ASSUME NEW move \in Neighbours(problem, sol.list), Consider(move)
      PROVE  SearchInv' /\ TabuInv'
  <2> DEFINE tried == Apply(problem, sol, move)
             cost == Weighted(problem.objective, EvaluateCandidateMove(problem, eval, move))
             legal == Appliable(problem, sol, move) /\ Legal(problem, tried, move)
             sig == Signature(move)
  <2>1. sol' = Undo(problem, tried, move) \/ sol' = sol
    BY <1>4 DEF Consider
  <2>2. tabu' = Forget(tabu, sig, iteration) \/ tabu' = tabu
    BY <1>4 DEF Consider
  <2>3. \/ choice' = choice
        \/ /\ choice' = [move |-> move, cost |-> cost]
           /\ Admissible(tabu, sig, iteration, cost, best.cost)
    BY <1>4 DEF Consider
  <2>4. phase = "try" /\ phase' = "try"
        /\ UNCHANGED <<problem, best, iteration, accepted>>
    BY <1>4 DEF Consider
  <2> HIDE DEF cost
  <2>5. sol'.list = sol.list /\ FourParts(sol')
    BY <2>1, ListRestored DEF SearchInv
  <2>6. choice' # NoMove => choice'.move \in Neighbours(problem, sol.list)
    BY <2>3, ChoiceFields DEF SearchInv
  <2>7. SearchInv'
    BY <2>4, <2>5, <2>6 DEF SearchInv
  <2>8. iteration \in Nat
    BY DEF TabuInv
  <2>9. \A other : IsTabu(tabu', other, iteration) => IsTabu(tabu, other, iteration)
    BY <2>2, <2>8, Forgetful
  <2>10. ASSUME NEW other \in DOMAIN accepted, TabuTenure > 0, iteration <= accepted[other] + TabuTenure
         PROVE  other \in DOMAIN tabu' /\ tabu'[other] = accepted[other] + TabuTenure
    <3>1. accepted[other] + TabuTenure \in Nat
      BY DEF TabuInv
    <3>2. other \in DOMAIN tabu /\ tabu[other] = accepted[other] + TabuTenure
      BY <2>10 DEF TabuInv
    <3> QED
      BY <2>2, <2>8, <2>10, <3>1, <3>2, Forgetful
  <2>11. choice' # NoMove => (IsTabu(tabu', Signature(choice'.move), iteration) => choice'.cost < best.cost)
    <3>1. CASE choice' = choice
      BY <2>9, <3>1 DEF TabuInv
    <3>2. CASE /\ choice' = [move |-> move, cost |-> cost]
               /\ Admissible(tabu, sig, iteration, cost, best.cost)
      <4>1. choice'.move = move /\ choice'.cost = cost
        BY <3>2, ChoiceFields
      <4> QED
        BY <2>9, <3>2, <4>1 DEF Admissible
    <3> QED
      BY <2>3, <3>1, <3>2
  <2>12. TabuInv'
    BY <2>4, <2>8, <2>10, <2>11 DEF TabuInv
  <2> QED
    BY <2>7, <2>12
<1>5. CASE NothingFound
  <2>1. /\ choice' = NoMove /\ iteration' = iteration + 1
        /\ UNCHANGED <<problem, sol, tabu, accepted>>
    BY <1>5 DEF NothingFound
  <2>2. SearchInv'
    BY <2>1 DEF SearchInv
  <2>3. TabuInv'
    BY <2>1 DEF TabuInv
  <2> QED
    BY <2>2, <2>3
<1>6. CASE Move
  <2> DEFINE rev == ReverseSignature(choice.move)
  <2>1. /\ choice # NoMove /\ choice' = NoMove /\ iteration' = iteration + 1 /\ problem' = problem
        /\ sol' = Apply(problem, sol, choice.move)
        /\ tabu' = Record(tabu, rev, iteration) /\ accepted' = With(accepted, rev, iteration)
    BY <1>6 DEF Move
  <2>2. choice.move \in Neighbours(problem, sol.list)
    BY <2>1 DEF SearchInv
  <2>3. FourParts(sol') /\ Listed(problem, sol'.list)
    BY <2>1, <2>2, MoveMade DEF SearchInv
  <2>4. SearchInv'
    BY <2>1, <2>3 DEF SearchInv
  <2> HIDE DEF rev
  <2>5. ASSUME NEW sig \in DOMAIN accepted'
        PROVE  /\ accepted'[sig] \in Nat /\ accepted'[sig] < iteration'
               /\ TabuTenure > 0 /\ iteration' <= accepted'[sig] + TabuTenure =>
                    sig \in DOMAIN tabu' /\ tabu'[sig] = accepted'[sig] + TabuTenure
    <3>1. CASE sig = rev
      <4>1. accepted'[sig] = iteration
        BY <2>1, <3>1, Added
      <4>2. TabuTenure > 0 => sig \in DOMAIN tabu' /\ tabu'[sig] = iteration + TabuTenure
        BY <2>1, <3>1, Added DEF Record
      <4> QED
        BY <2>1, <4>1, <4>2 DEF TabuInv
    <3>2. CASE sig # rev
      <4>1. sig \in DOMAIN accepted /\ accepted'[sig] = accepted[sig]
        BY <2>1, <2>5, <3>2, Added
      <4>2. TabuTenure > 0 /\ sig \in DOMAIN tabu => sig \in DOMAIN tabu' /\ tabu'[sig] = tabu[sig]
        BY <2>1, <3>2, Added DEF Record
      <4> QED
        BY <2>1, <4>1, <4>2 DEF TabuInv
    <3> QED
      BY <3>1, <3>2
  <2>6. TabuInv'
    BY <2>1, <2>5 DEF TabuInv
  <2> QED
    BY <2>4, <2>6
<1>7. CASE UNCHANGED vars
  BY <1>1, <1>7 DEF vars, search
<1> QED
  BY <1>3, <1>4, <1>5, <1>6, <1>7 DEF Next

\* The list keeps its ids and the tabu list its memory, in every state of the search.
THEOREM SearchInvariance == Spec => [](SearchInv /\ TabuInv)
BY SearchInit, SearchStep, PTL DEF Spec

-----------------------------------------------------------------------------
(* The action properties. *)

\* A move that reverses a recent one beats the best score.
LEMMA TabuStep ==
  SearchInv /\ TabuInv /\ [Next]_vars =>
    [ sol'.list # sol.list =>
        LET made == Made(sol.list, sol'.list)
        IN made \in DOMAIN accepted /\ iteration <= accepted[made] + TabuTenure =>
             best'.cost < best.cost ]_vars
<1> SUFFICES ASSUME SearchInv, TabuInv, [Next]_vars, sol'.list # sol.list,
                    Made(sol.list, sol'.list) \in DOMAIN accepted,
                    iteration <= accepted[Made(sol.list, sol'.list)] + TabuTenure
             PROVE  best'.cost < best.cost
  OBVIOUS
<1> USE LimitsAssumption
<1>1. CASE Refuse \/ Begin \/ LimitReached \/ TimeUp \/ Interrupt \/ NextIteration \/ NothingFound \/ UNCHANGED vars
  BY <1>1 DEF Refuse, Begin, LimitReached, TimeUp, Interrupt, NextIteration, NothingFound, Finalize, search, vars
<1>2. ASSUME NEW move \in Neighbours(problem, sol.list), Consider(move)
      PROVE  FALSE
  <2>1. sol' = Undo(problem, Apply(problem, sol, move), move) \/ sol' = sol
    BY <1>2 DEF Consider
  <2> QED
    BY <2>1, ListRestored DEF SearchInv
<1>3. CASE Move
  <2>1. /\ choice # NoMove /\ sol' = Apply(problem, sol, choice.move)
        /\ Better(choice.cost, best.cost) => best' = [sol |-> sol', cost |-> choice.cost]
    BY <1>3 DEF Move
  <2>2. Made(sol.list, sol'.list) = Signature(choice.move)
    BY <2>1, MoveMade DEF SearchInv
  <2> DEFINE sig == Signature(choice.move)
  <2>3. sig \in DOMAIN accepted /\ iteration <= accepted[sig] + TabuTenure
    BY <2>2
  <2> HIDE DEF sig
  <2>4. TabuTenure > 0
    BY <2>3 DEF TabuInv
  <2>5. IsTabu(tabu, sig, iteration)
    BY <2>3, <2>4 DEF TabuInv, IsTabu
  <2>6. choice.cost < best.cost
    BY <2>1, <2>5 DEF TabuInv, sig
  <2>7. best'.cost = choice.cost
    BY <2>1, <2>6 DEF Better
  <2> QED
    BY <2>6, <2>7
<1> QED
  BY <1>1, <1>2, <1>3 DEF Next

\* A change that was reversed in one of the last TabuTenure iterations is not made again,
\* unless the timetable it leads to beats the best one so far.
THEOREM TabuIsHeld == Spec => TabuHolds
BY SearchInit, SearchStep, TabuStep, PTL DEF Spec, TabuHolds

\* A neighbour tried leaves the solution as it was; a move changes the list.
LEMMA TraceStep ==
  SearchInv /\ [Next]_vars =>
    [ sol'.list = sol.list /\ KeptApart(problem, sol.list) /\ sol = BuildIndex(problem, sol.list)
        => sol' = sol ]_vars
<1> SUFFICES ASSUME SearchInv, [Next]_vars, sol'.list = sol.list,
                    KeptApart(problem, sol.list), sol = BuildIndex(problem, sol.list)
             PROVE  sol' = sol
  OBVIOUS
<1>1. CASE Refuse \/ Begin \/ LimitReached \/ TimeUp \/ Interrupt \/ NextIteration \/ NothingFound \/ UNCHANGED vars
  BY <1>1 DEF Refuse, Begin, LimitReached, TimeUp, Interrupt, NextIteration, NothingFound, Finalize, search, vars
<1>2. ASSUME NEW move \in Neighbours(problem, sol.list), Consider(move)
      PROVE  sol' = sol
  <2> DEFINE l == sol.list
  <2>1. sol' = Undo(problem, Apply(problem, sol, move), move) \/ sol' = sol
    BY <1>2 DEF Consider
  <2>2. Undo(problem, Apply(problem, BuildIndex(problem, l), move), move) = BuildIndex(problem, l)
    BY UndoRestores DEF SearchInv
  <2> QED
    BY <2>1, <2>2
<1>3. CASE Move
  <2>1. choice # NoMove /\ sol' = Apply(problem, sol, choice.move)
    BY <1>3 DEF Move
  <2> QED
    BY <2>1, MoveMade DEF SearchInv
<1> QED
  BY <1>1, <1>2, <1>3 DEF Next

\* Whatever neighbour is tried, in whatever grid: once it is undone, list and index are the
\* ones there were before, as long as no two sessions are in one place.
THEOREM CandidatesLeaveNoTrace == Spec => EvaluationLeavesNoTrace
BY SearchInit, SearchStep, TraceStep, PTL DEF Spec, EvaluationLeavesNoTrace

-----------------------------------------------------------------------------
(* A legal move of sessions that take one slot. *)

\* A table stays owned if the moved sessions find their new cells free or their own.
LEMMA TableOne ==
  ASSUME NEW p, NEW l, Listed(p, l), NEW n, DOMAIN n = DOMAIN l, \A j \in DOMAIN l : n[j].id = l[j].id,
         NEW D, NEW C, NEW E, NEW T, Owned(p, l, T, D, C), NEW k \in DOMAIN l,
         \A j \in DOMAIN l : j # k => E[j] = C[j],
         NEW S, S = MarkFree(Unmark(T, C[k], l[k].id), E[k], l[k].id),
         \A x \in D \cap E[k] : S[x] \in {l[k].id, None}
  PROVE  Owned(p, n, S, D, E)
<1> DEFINE i == l[k].id
           T1 == Unmark(T, C[k], i)
<1>1. \A j \in DOMAIN l : l[j].id # None /\ (j # k => l[j].id # i)
  BY NoneIsNoId DEF Listed
<1>2. T = [x \in D |-> T[x]]
  BY DEF Owned
<1>3. T1 = [x \in D |-> IF x \in C[k] /\ T[x] = i THEN None ELSE T[x]]
  BY <1>2 DEF Unmark
<1>4. S = [x \in D |-> IF x \in E[k] /\ T1[x] = None THEN i ELSE T1[x]]
  BY <1>3 DEF MarkFree
<1>5. \A x \in D : /\ \A j \in DOMAIN l : T[x] = l[j].id <=> x \in C[j]
                   /\ T[x] = None <=> \A j \in DOMAIN l : x \notin C[j]
  BY DEF Owned
<1> HIDE DEF T1, i
<1>6. \A x \in D : T1[x] = IF x \in C[k] THEN None ELSE T[x]
  BY <1>3, <1>5 DEF i
<1>7. \A x \in D : S[x] = IF x \in E[k] /\ T1[x] = None THEN i ELSE T1[x]
  BY <1>4
<1>8. \A x \in D : S[x] = i <=> x \in E[k]
  BY <1>1, <1>5, <1>6, <1>7 DEF i
<1>9. \A x \in D, j \in DOMAIN l : j # k => (S[x] = l[j].id <=> x \in C[j])
  BY <1>1, <1>5, <1>6, <1>7 DEF i
<1>10. \A x \in D, j \in DOMAIN n : S[x] = n[j].id <=> x \in E[j]
  BY <1>8, <1>9 DEF i
<1>11. \A x \in D : S[x] = None <=> \A j \in DOMAIN n : x \notin E[j]
  <2> TAKE x \in D
  <2>1. ASSUME S[x] # None PROVE \E j \in DOMAIN n : x \in E[j]
    BY <1>5, <1>6, <1>7, <1>8, <2>1
  <2>2. ASSUME NEW j \in DOMAIN n, x \in E[j] PROVE S[x] # None
    BY <1>1, <1>10, <2>2
  <2> QED
    BY <2>1, <2>2
<1>12. S = [x \in D |-> S[x]]
  BY <1>4
<1> QED
  BY <1>10, <1>11, <1>12 DEF Owned

\* The same for a swap.
LEMMA TableTwo ==
  ASSUME NEW p, NEW l, Listed(p, l), NEW n, DOMAIN n = DOMAIN l, \A j \in DOMAIN l : n[j].id = l[j].id,
         NEW D, NEW C, NEW E, NEW T, Owned(p, l, T, D, C), NEW k \in DOMAIN l, NEW m \in DOMAIN l, k # m,
         \A j \in DOMAIN l : j # k /\ j # m => E[j] = C[j],
         NEW S, S = MarkFree(MarkFree(Unmark(Unmark(T, C[k], l[k].id), C[m], l[m].id),
                                      E[k], l[k].id), E[m], l[m].id),
         \A x \in D \cap E[k] : S[x] \in {l[k].id, None},
         \A x \in D \cap E[m] : S[x] \in {l[m].id, None}
  PROVE  Owned(p, n, S, D, E)
<1> DEFINE i == l[k].id
           h == l[m].id
           T1 == Unmark(T, C[k], i)
           T2 == Unmark(T1, C[m], h)
           T3 == MarkFree(T2, E[k], i)
<1>1. i # h /\ \A j \in DOMAIN l : l[j].id # None /\ (j # k => l[j].id # i) /\ (j # m => l[j].id # h)
  BY NoneIsNoId DEF Listed
<1>2. T = [x \in D |-> T[x]]
  BY DEF Owned
<1>3. T1 = [x \in D |-> IF x \in C[k] /\ T[x] = i THEN None ELSE T[x]]
  BY <1>2 DEF Unmark
<1>4. T2 = [x \in D |-> IF x \in C[m] /\ T1[x] = h THEN None ELSE T1[x]]
  BY <1>3 DEF Unmark
<1>5. T3 = [x \in D |-> IF x \in E[k] /\ T2[x] = None THEN i ELSE T2[x]]
  BY <1>4 DEF MarkFree
<1>6. S = [x \in D |-> IF x \in E[m] /\ T3[x] = None THEN h ELSE T3[x]]
  BY <1>5 DEF MarkFree
<1>7. \A x \in D : /\ \A j \in DOMAIN l : T[x] = l[j].id <=> x \in C[j]
                   /\ T[x] = None <=> \A j \in DOMAIN l : x \notin C[j]
  BY DEF Owned
<1> HIDE DEF T1, T2, T3, i, h
<1>8. \A x \in D : T2[x] = IF x \in C[k] \cup C[m] THEN None ELSE T[x]
  BY <1>1, <1>3, <1>4, <1>7 DEF i, h
<1>9. \A x \in D : S[x] = IF x \in E[k] /\ T2[x] = None THEN i
                          ELSE IF x \in E[m] /\ T2[x] = None THEN h ELSE T2[x]
  BY <1>1, <1>5, <1>6 DEF i
<1>10. \A x \in D : (S[x] = i <=> x \in E[k]) /\ (S[x] = h <=> x \in E[m])
  BY <1>1, <1>7, <1>8, <1>9 DEF i, h
<1>11. \A x \in D, j \in DOMAIN l : j # k /\ j # m => (S[x] = l[j].id <=> x \in C[j])
  BY <1>1, <1>7, <1>8, <1>9 DEF i, h
<1>12. \A x \in D, j \in DOMAIN n : S[x] = n[j].id <=> x \in E[j]
  BY <1>10, <1>11 DEF i, h
<1>13. \A x \in D : S[x] = None <=> \A j \in DOMAIN n : x \notin E[j]
  <2> TAKE x \in D
  <2>1. ASSUME S[x] # None PROVE \E j \in DOMAIN n : x \in E[j]
    BY <1>7, <1>8, <1>9, <1>10, <2>1
  <2>2. ASSUME NEW j \in DOMAIN n, x \in E[j] PROVE S[x] # None
    BY <1>1, <1>12, <2>2
  <2> QED
    BY <2>1, <2>2
<1>14. S = [x \in D |-> S[x]]
  BY <1>6
<1> QED
  BY <1>12, <1>13, <1>14 DEF Owned

\* Where a session of one slot is, and when it is in conflict.
LEMMA OneSlot ==
  ASSUME NEW p \in Problems, OneSlotSessions(p), NEW a \in Assignment(p)
  PROVE  /\ Occupied(p, a) = {a.slot} /\ Held(p, a) = {a.slot}
         /\ a.slot \in Slots /\ a.room \in Rooms /\ FacultyOf(p, a) \in Faculty /\ GroupOf(p, a) \in Groups
         /\ a.slot[2] \in Nat
<1>1. a.slot \in Slots /\ a.room \in Rooms /\ a.req \in DOMAIN p.reqs
  BY DEF Assignment
<1>2. PICK d \in Nat, e \in Nat : a.slot = <<d, e>>
  BY <1>1, GridAssumption
<1>3. p.reqs \in Seq(Requirement)
  BY ProblemsAssumption DEF WellFormed
<1>4. p.reqs[a.req] \in Requirement
  BY <1>1, <1>3
<1>5. FacultyOf(p, a) \in Faculty /\ GroupOf(p, a) \in Groups
  BY <1>4 DEF FacultyOf, GroupOf, Requirement
<1>6. Occupied(p, a) = {a.slot}
  <2>1. p.reqs[a.req].duration = 1
    BY <1>1 DEF OneSlotSessions
  <2>2. Span(<<d, e>>, 1) = {<<d, e>>}
    <3>1. 0 .. 1 - 1 = {0}
      OBVIOUS
    <3>2. {<<<<d, e>>[1], <<d, e>>[2] + i>> : i \in {0}} = {<<d, e + 0>>}
      OBVIOUS
    <3> QED
      BY <3>1, <3>2 DEF Span
  <2> QED
    BY <1>2, <2>1, <2>2 DEF Occupied
<1> QED
  BY <1>1, <1>2, <1>5, <1>6 DEF Held

\* Of a single cell there is no earlier one to hide it.
LEMMA OneSlotTaken ==
  ASSUME NEW table, NEW resource, NEW c, c[2] \in Nat, NEW id
  PROVE  Taken(table, resource, {c}, id) <=> table[<<resource, c>>] \notin {id, None}
<1>1. ~(c[2] < c[2])
  OBVIOUS
<1> QED
  BY <1>1 DEF Taken

\* The cells of a list of one-slot sessions.
LEMMA OneSlotCells ==
  ASSUME NEW p \in Problems, OneSlotSessions(p), NEW l, Listed(p, l), NEW k \in DOMAIN l
  PROVE  /\ FacultyHeld(p, l)[k] = {<<FacultyOf(p, l[k]), l[k].slot>>}
         /\ RoomHeld(p, l)[k] = {<<l[k].room, l[k].slot>>}
         /\ GroupHeld(p, l)[k] = {<<GroupOf(p, l[k]), l[k].slot>>}
<1>1. l[k] \in Assignment(p)
  BY DEF Listed
<1>2. Held(p, l[k]) = {l[k].slot}
  BY <1>1, OneSlot
<1> QED
  BY <1>2 DEF FacultyHeld, RoomHeld, GroupHeld, HeldFaculty, HeldRoom, HeldGroup

\* The index of a solution with the list n has the cells of its sessions, and no more.
IndexOwned(p, s) ==
  /\ s = [list |-> s.list, faculty |-> s.faculty, room |-> s.room, group |-> s.group]
  /\ Owned(p, s.list, s.faculty, Faculty \X Slots, FacultyHeld(p, s.list))
  /\ Owned(p, s.list, s.room, Rooms \X Slots, RoomHeld(p, s.list))
  /\ Owned(p, s.list, s.group, Groups \X Slots, GroupHeld(p, s.list))

\* Cells with one holder each are an index rebuilt from the list.
LEMMA OwnedIsBuilt ==
  ASSUME NEW p \in Problems, OneSlotSessions(p), NEW s, Listed(p, s.list), IndexOwned(p, s)
  PROVE  s = BuildIndex(p, s.list)
<1> DEFINE l == s.list
<1>1. ASSUME NEW D, NEW C, NEW T, Owned(p, l, T, D, C), \A k \in DOMAIN l : C[k] \subseteq D
      PROVE  T = Column(l, D, C)
  <2>1. \A k, j \in DOMAIN l : k # j => l[k].id # l[j].id
    BY DEF Listed
  <2>2. Disjoint(l, C)
    BY <1>1, <2>1 DEF Owned, Disjoint
  <2> QED
    BY <1>1, <2>2, ColumnBuilt
<1>2. \A k \in DOMAIN l : /\ l[k].slot \in Slots /\ l[k].room \in Rooms
                          /\ FacultyOf(p, l[k]) \in Faculty /\ GroupOf(p, l[k]) \in Groups
  BY OneSlot DEF Listed
<1>3. \A k \in DOMAIN l : FacultyHeld(p, l)[k] \subseteq Faculty \X Slots
  BY <1>2, OneSlotCells
<1>4. \A k \in DOMAIN l : RoomHeld(p, l)[k] \subseteq Rooms \X Slots
  BY <1>2, OneSlotCells
<1>5. \A k \in DOMAIN l : GroupHeld(p, l)[k] \subseteq Groups \X Slots
  BY <1>2, OneSlotCells
<1>6. s.faculty = Column(l, Faculty \X Slots, FacultyHeld(p, l))
  BY <1>1, <1>3 DEF IndexOwned
<1>7. s.room = Column(l, Rooms \X Slots, RoomHeld(p, l))
  BY <1>1, <1>4 DEF IndexOwned
<1>8. s.group = Column(l, Groups \X Slots, GroupHeld(p, l))
  BY <1>1, <1>5 DEF IndexOwned
<1>9. s = [list |-> l, faculty |-> BuildIndex(p, l).faculty,
           room |-> BuildIndex(p, l).room, group |-> BuildIndex(p, l).group]
  <2>1. s.faculty = BuildIndex(p, l).faculty /\ s.room = BuildIndex(p, l).room
        /\ s.group = BuildIndex(p, l).group
    <3> HIDE DEF l
    <3>1. BuildIndex(p, l).faculty = Column(l, Faculty \X Slots, FacultyHeld(p, l))
      BY Built
    <3>2. BuildIndex(p, l).room = Column(l, Rooms \X Slots, RoomHeld(p, l))
      BY Built
    <3>3. BuildIndex(p, l).group = Column(l, Groups \X Slots, GroupHeld(p, l))
      BY Built
    <3> QED
      BY <1>6, <1>7, <1>8, <3>1, <3>2, <3>3
  <2>2. s = [list |-> l, faculty |-> s.faculty, room |-> s.room, group |-> s.group]
    BY DEF IndexOwned
  <2> QED
    BY <2>1, <2>2
<1> QED
  BY <1>9, Built

\* What a session meets in an index that is owned.
LEMMA Meets ==
  ASSUME NEW p \in Problems, OneSlotSessions(p), NEW s, Listed(p, s.list), IndexOwned(p, s),
         NEW k \in DOMAIN s.list
  PROVE  LET a == s.list[k]
         IN /\ FacultyConflict(p, s, a) <=>
                 \E j \in DOMAIN s.list : j # k /\ s.list[j].slot = a.slot
                                          /\ FacultyOf(p, s.list[j]) = FacultyOf(p, a)
            /\ RoomConflict(p, s, a) <=>
                 \E j \in DOMAIN s.list : j # k /\ s.list[j].slot = a.slot /\ s.list[j].room = a.room
            /\ StudentGroupConflict(p, s, a) <=>
                 \E j \in DOMAIN s.list : j # k /\ s.list[j].slot = a.slot
                                          /\ GroupsOverlap(GroupOf(p, s.list[j]), GroupOf(p, a))
<1> DEFINE l == s.list
           a == l[k]
<1>1. \A j \in DOMAIN l : /\ Occupied(p, l[j]) = {l[j].slot} /\ l[j].slot \in Slots /\ l[j].slot[2] \in Nat
                          /\ l[j].room \in Rooms
                          /\ FacultyOf(p, l[j]) \in Faculty /\ GroupOf(p, l[j]) \in Groups
  BY OneSlot DEF Listed
<1>2. \A j \in DOMAIN l : j # k => l[j].id # a.id
  BY DEF Listed
<1>3. ASSUME NEW D, NEW C, NEW T, Owned(p, l, T, D, C), NEW x \in D
      PROVE  T[x] \notin {a.id, None} <=> \E j \in DOMAIN l : j # k /\ x \in C[j]
  BY <1>2, <1>3, NoneIsNoId DEF Owned
<1>4. FacultyConflict(p, s, a) <=> s.faculty[<<FacultyOf(p, a), a.slot>>] \notin {a.id, None}
  BY <1>1, OneSlotTaken DEF FacultyConflict
<1>5. RoomConflict(p, s, a) <=> s.room[<<a.room, a.slot>>] \notin {a.id, None}
  BY <1>1, OneSlotTaken DEF RoomConflict
<1>6. StudentGroupConflict(p, s, a) <=>
        \E g \in Groups : GroupsOverlap(GroupOf(p, a), g) /\ s.group[<<g, a.slot>>] \notin {a.id, None}
  <2>1. Occupied(p, a) = {a.slot} /\ a.slot[2] \in Nat
    BY <1>1
  <2>2. \A g : Taken(s.group, g, {a.slot}, a.id) <=> s.group[<<g, a.slot>>] \notin {a.id, None}
    BY <2>1, OneSlotTaken
  <2> QED
    BY <2>1, <2>2 DEF StudentGroupConflict, Overlapping
<1> HIDE DEF a
<1>7. FacultyConflict(p, s, a) <=>
        \E j \in DOMAIN l : j # k /\ <<FacultyOf(p, a), a.slot>> \in FacultyHeld(p, l)[j]
  BY <1>1, <1>3, <1>4 DEF IndexOwned, a
<1>8. RoomConflict(p, s, a) <=> \E j \in DOMAIN l : j # k /\ <<a.room, a.slot>> \in RoomHeld(p, l)[j]
  BY <1>1, <1>3, <1>5 DEF IndexOwned, a
<1>9. StudentGroupConflict(p, s, a) <=>
        \E g \in Groups : GroupsOverlap(GroupOf(p, a), g)
                          /\ \E j \in DOMAIN l : j # k /\ <<g, a.slot>> \in GroupHeld(p, l)[j]
  <2>1. ASSUME NEW g \in Groups
        PROVE  s.group[<<g, a.slot>>] \notin {a.id, None} <=>
                 \E j \in DOMAIN l : j # k /\ <<g, a.slot>> \in GroupHeld(p, l)[j]
    <3>1. <<g, a.slot>> \in Groups \X Slots
      BY <1>1 DEF a
    <3> QED
      BY <1>3, <3>1 DEF IndexOwned
  <2> QED
    BY <1>6, <2>1
<1>10. \A g, h : GroupsOverlap(g, h) <=> GroupsOverlap(h, g)
  BY DEF GroupsOverlap
<1>11. StudentGroupConflict(p, s, a) <=>
         \E j \in DOMAIN l : j # k /\ l[j].slot = a.slot /\ GroupsOverlap(GroupOf(p, l[j]), GroupOf(p, a))
  <2> DEFINE Near(j) == j # k /\ l[j].slot = a.slot /\ GroupsOverlap(GroupOf(p, l[j]), GroupOf(p, a))
  <2>1. ASSUME NEW g \in Groups, GroupsOverlap(GroupOf(p, a), g), NEW j \in DOMAIN l,
               j # k, <<g, a.slot>> \in GroupHeld(p, l)[j]
        PROVE  Near(j)
    <3>1. g = GroupOf(p, l[j]) /\ a.slot = l[j].slot
      BY <2>1, OneSlotCells
    <3> QED
      BY <1>10, <2>1, <3>1
  <2>2. ASSUME NEW j \in DOMAIN l, Near(j)
        PROVE  /\ GroupOf(p, l[j]) \in Groups /\ GroupsOverlap(GroupOf(p, a), GroupOf(p, l[j]))
               /\ j # k /\ <<GroupOf(p, l[j]), a.slot>> \in GroupHeld(p, l)[j]
    <3>1. <<GroupOf(p, l[j]), a.slot>> \in GroupHeld(p, l)[j]
      BY <2>2, OneSlotCells
    <3> QED
      BY <1>1, <1>10, <2>2, <3>1
  <2> QED
    BY <1>9, <2>1, <2>2
<1>12. FacultyConflict(p, s, a) <=>
         \E j \in DOMAIN l : j # k /\ l[j].slot = a.slot /\ FacultyOf(p, l[j]) = FacultyOf(p, a)
  BY <1>7, OneSlotCells
<1>13. RoomConflict(p, s, a) <=>
         \E j \in DOMAIN l : j # k /\ l[j].slot = a.slot /\ l[j].room = a.room
  BY <1>8, OneSlotCells
<1> QED
  BY <1>11, <1>12, <1>13 DEF a

\* With sessions of one slot the conflict checks find exactly the clashes, and clashes are
\* mutual.
LEMMA ConflictsAreClashes ==
  ASSUME NEW p \in Problems, OneSlotSessions(p), NEW u, Listed(p, u.list), IndexOwned(p, u)
  PROVE  LET n == u.list
         IN /\ \A i, j \in DOMAIN n : Clash(p, n[i], n[j]) <=> Clash(p, n[j], n[i])
            /\ \A k \in DOMAIN n :
                 Conflicts(p, u, n[k]) <=> \E j \in DOMAIN n : j # k /\ Clash(p, n[j], n[k])
<1> DEFINE n == u.list
<1>1. \A j \in DOMAIN n : Occupied(p, n[j]) = {n[j].slot}
  BY OneSlot DEF Listed
<1>2. \A i, j \in DOMAIN n :
        Clash(p, n[i], n[j]) <=>
          /\ n[i].slot = n[j].slot
          /\ \/ FacultyOf(p, n[i]) = FacultyOf(p, n[j]) \/ n[i].room = n[j].room
             \/ GroupsOverlap(GroupOf(p, n[i]), GroupOf(p, n[j]))
  BY <1>1 DEF Clash
<1>3. \A i, j \in DOMAIN n : Clash(p, n[i], n[j]) <=> Clash(p, n[j], n[i])
  BY <1>2 DEF GroupsOverlap
<1>4. \A k \in DOMAIN n : Conflicts(p, u, n[k]) <=> \E j \in DOMAIN n : j # k /\ Clash(p, n[j], n[k])
  <2> TAKE k \in DOMAIN n
  <2>1. /\ FacultyConflict(p, u, n[k]) <=>
             \E j \in DOMAIN n : j # k /\ n[j].slot = n[k].slot /\ FacultyOf(p, n[j]) = FacultyOf(p, n[k])
        /\ RoomConflict(p, u, n[k]) <=>
             \E j \in DOMAIN n : j # k /\ n[j].slot = n[k].slot /\ n[j].room = n[k].room
        /\ StudentGroupConflict(p, u, n[k]) <=>
             \E j \in DOMAIN n : j # k /\ n[j].slot = n[k].slot
                                 /\ GroupsOverlap(GroupOf(p, n[j]), GroupOf(p, n[k]))
    BY Meets
  <2> QED
    BY <1>2, <2>1 DEF Conflicts
<1> QED
  BY <1>3, <1>4

\* A list of which some sessions, M, have moved: each session suited and the rules held before,
\* and those that moved pass the checks of MoveValidator.  Their own day is counted with the
\* overlapping groups, so it holds no more than the rule allows the group itself.
LEMMA RulesKept ==
  ASSUME NEW p \in Problems, NEW l, Listed(p, l), KeepsRules(p, l),
         NEW u, Listed(p, u.list), DOMAIN u.list = DOMAIN l,
         NEW M, M \subseteq DOMAIN l, \A j \in DOMAIN l : j \notin M => u.list[j] = l[j],
         \A k \in M : /\ Suits(p, u.list[k])
                      /\ \A rule \in p.rules : RuleAllowsMove(p, u, rule, u.list[k])
  PROVE  KeepsRules(p, u.list)
<1> DEFINE n == u.list
           before == [list |-> l]
           after == [list |-> n]
<1>1. before.list = l /\ after.list = n
  OBVIOUS
<1>2. \A k \in DOMAIN n : Suits(p, n[k])
  BY DEF KeepsRules
<1>3. \A rule \in p.rules : RuleHolds(p, before, rule)
  BY DEF KeepsRules
<1> HIDE DEF before, after
<1>4. ASSUME NEW rule \in p.rules, NEW k \in DOMAIN n, n[k].req \in rule.covers
       PROVE  Cardinality(Crowd(p, after, rule, n[k])) <= rule.max
  <2> DEFINE crowd == Crowd(p, after, rule, n[k])
  <2>1. rule.max \in Nat
    <3>1. p.rules \subseteq Rule(p)
      BY ProblemsAssumption DEF WellFormed
    <3> QED
      BY <3>1 DEF Rule
  <2>2. IsFiniteSet(DOMAIN n)
    <3>1. DOMAIN n = 1 .. Len(n) /\ Len(n) \in Nat
      BY DEF Listed
    <3> QED
      BY <3>1, FS_Interval
  <2>3. ASSUME NEW S, crowd \subseteq S, S \subseteq DOMAIN n, Cardinality(S) <= rule.max
        PROVE  Cardinality(crowd) <= rule.max
    <3>1. IsFiniteSet(S)
      BY <2>2, <2>3, FS_Subset
    <3>2. IsFiniteSet(crowd) /\ Cardinality(crowd) <= Cardinality(S)
      BY <2>3, <3>1, FS_Subset
    <3>3. Cardinality(crowd) \in Nat /\ Cardinality(S) \in Nat
      BY <3>1, <3>2, FS_CardinalityType
    <3> QED
      BY <2>1, <2>3, <3>2, <3>3
  <2>4. CASE \E i \in M : i \in crowd
    <3>1. PICK i \in M : i \in crowd
      BY <2>4
    <3>2. /\ n[i].req \in rule.covers /\ GroupOf(p, n[i]) = GroupOf(p, n[k])
          /\ n[i].slot[1] = n[k].slot[1]
      BY <1>1, <3>1 DEF Crowd
    <3> DEFINE S == {j \in DOMAIN n : /\ n[j].req \in rule.covers
                                      /\ GroupsOverlap(GroupOf(p, n[j]), GroupOf(p, n[i]))
                                      /\ n[j].slot[1] = n[i].slot[1]}
    <3>3. Cardinality(S) <= rule.max
      BY <3>1, <3>2 DEF RuleAllowsMove
    <3>4. crowd \subseteq S
      BY <1>1, <3>2 DEF Crowd, GroupsOverlap
    <3>5. S \subseteq DOMAIN n
      OBVIOUS
    <3> HIDE DEF S
    <3> QED
      BY <2>3, <3>3, <3>4, <3>5
  <2>5. CASE \A i \in M : i \notin crowd
    <3>1. k \in crowd
      BY <1>1, <1>4 DEF Crowd
    <3>2. n[k] = l[k]
      BY <2>5, <3>1
    <3> DEFINE S == Crowd(p, before, rule, l[k])
    <3>3. RuleHolds(p, before, rule)
      BY <1>3
    <3>4. Cardinality(S) <= rule.max
      BY <1>1, <1>4, <3>2, <3>3 DEF RuleHolds
    <3>5. \A j \in crowd : j \in DOMAIN n /\ n[j] = l[j]
      BY <1>1, <2>5 DEF Crowd
    <3>6. crowd \subseteq S
      BY <1>1, <3>2, <3>5 DEF Crowd
    <3>7. S \subseteq DOMAIN n
      BY <1>1 DEF Crowd
    <3> HIDE DEF S
    <3> QED
      BY <2>3, <3>4, <3>6, <3>7
  <2> QED
    BY <2>4, <2>5
<1>5. \A rule \in p.rules : RuleHolds(p, after, rule)
  BY <1>1, <1>4 DEF RuleHolds
<1> QED
  BY <1>2, <1>5 DEF KeepsRules, after

\* What HardOK asks beyond the conflicts, it asks of the list.
LEMMA HardSplits ==
  ASSUME NEW p, NEW u
  PROVE  HardOK(p, u) <=> KeepsRules(p, u.list) /\ \A k \in DOMAIN u.list : ~Conflicts(p, u, u.list[k])
<1> DEFINE v == [list |-> u.list]
<1>1. v.list = u.list
  OBVIOUS
<1> HIDE DEF v
<1>2. \A rule : RuleHolds(p, v, rule) <=> RuleHolds(p, u, rule)
  BY <1>1 DEF RuleHolds, Crowd
<1> QED
  BY <1>2 DEF HardOK, KeepsRules, v

\* A list of which some sessions, M, have moved: it was feasible before, the index has the
\* cells of the new list, and the sessions that moved pass the checks of MoveValidator.
LEMMA StillFeasible ==
  ASSUME NEW p \in Problems, OneSlotSessions(p), NEW l, Listed(p, l), KeptApart(p, l),
         HardOK(p, BuildIndex(p, l)), NEW u, Listed(p, u.list), DOMAIN u.list = DOMAIN l, IndexOwned(p, u),
         NEW M, M \subseteq DOMAIN l, \A j \in DOMAIN l : j \notin M => u.list[j] = l[j],
         \A k \in M : /\ Suits(p, u.list[k]) /\ ~Conflicts(p, u, u.list[k])
                      /\ \A rule \in p.rules : RuleAllowsMove(p, u, rule, u.list[k])
  PROVE  KeptApart(p, u.list) /\ u = BuildIndex(p, u.list) /\ HardOK(p, u)
<1> DEFINE n == u.list
<1>3. \A i, j \in DOMAIN n : Clash(p, n[i], n[j]) <=> Clash(p, n[j], n[i])
  BY ConflictsAreClashes
<1>4. \A k \in DOMAIN n : Conflicts(p, u, n[k]) <=> \E j \in DOMAIN n : j # k /\ Clash(p, n[j], n[k])
  BY ConflictsAreClashes
<1>5. \A i, j \in DOMAIN n : i # j => ~Clash(p, n[i], n[j])
  <2> SUFFICES ASSUME NEW i \in DOMAIN n, NEW j \in DOMAIN n, i # j PROVE ~Clash(p, n[i], n[j])
    OBVIOUS
  <2>1. CASE i \in M
    BY <1>3, <1>4, <2>1
  <2>2. CASE j \in M
    BY <1>4, <2>2
  <2>3. CASE i \notin M /\ j \notin M
    BY <2>3, Asunder
  <2> QED
    BY <2>1, <2>2, <2>3
<1>6. KeptApart(p, n)
  <2>1. DOMAIN n \subseteq Nat
    BY DEF Listed
  <2>2. \A k, j \in DOMAIN n : k < j => k # j
    BY <2>1
  <2> QED
    BY <1>5, <2>2 DEF KeptApart
<1>7. \A k \in DOMAIN n : ~Conflicts(p, u, n[k])
  BY <1>4, <1>5
<1>8. BuildIndex(p, l).list = l
  BY Built, FourPartsOf
<1>9. KeepsRules(p, l)
  BY <1>8, HardSplits
<1>10. KeepsRules(p, n)
  BY <1>9, RulesKept
<1>11. HardOK(p, u)
  BY <1>7, <1>10, HardSplits
<1> QED
  BY <1>6, <1>11, OwnedIsBuilt

\* A timetable without a clash whose sessions suit and whose rules hold passes the check that
\* the search makes before and after.
LEMMA AcceptablePasses ==
  ASSUME NEW p \in Problems, OneSlotSessions(p), NEW l, Listed(p, l), Acceptable(p, l)
  PROVE  HardOK(p, BuildIndex(p, l))
<1> DEFINE u == BuildIndex(p, l)
<1>1. u.list = l
  BY Built, FourPartsOf
<1>2. KeptApart(p, l) /\ KeepsRules(p, l)
  BY DEF Acceptable
<1>3. IndexOwned(p, u)
  <2>1. /\ u = [list |-> l, faculty |-> u.faculty, room |-> u.room, group |-> u.group]
        /\ Owned(p, l, u.faculty, Faculty \X Slots, FacultyHeld(p, l))
        /\ Owned(p, l, u.room, Rooms \X Slots, RoomHeld(p, l))
        /\ Owned(p, l, u.group, Groups \X Slots, GroupHeld(p, l))
    BY <1>2, BuiltOwned
  <2> HIDE DEF u
  <2> QED
    BY <1>1, <2>1 DEF IndexOwned
<1> HIDE DEF u
<1>4. \A i, j \in DOMAIN l : Clash(p, l[i], l[j]) <=> Clash(p, l[j], l[i])
  BY <1>1, <1>3, ConflictsAreClashes
<1>5. \A k \in DOMAIN l : Conflicts(p, u, l[k]) <=> \E j \in DOMAIN l : j # k /\ Clash(p, l[j], l[k])
  BY <1>1, <1>3, ConflictsAreClashes
<1>6. \A i, j \in DOMAIN l : i # j => ~Clash(p, l[i], l[j])
  <2> SUFFICES ASSUME NEW i \in DOMAIN l, NEW j \in DOMAIN l, i # j PROVE ~Clash(p, l[i], l[j])
    OBVIOUS
  <2>1. i < j \/ j < i
    BY DEF Listed
  <2> QED
    BY <1>2, <1>4, <2>1 DEF KeptApart
<1>7. HardOK(p, u)
  BY <1>1, <1>2, <1>5, <1>6, HardSplits
<1> QED
  BY <1>7 DEF u

\* What MoveValidator says of one assignment of a move.
LEMMA LegalAt ==
  ASSUME NEW p, NEW u, Listed(p, u.list), NEW move, Legal(p, u, move), NEW i \in DOMAIN move,
         NEW k \in DOMAIN u.list, move[i].id = u.list[k].id
  PROVE  /\ Suits(p, u.list[k]) /\ ~Conflicts(p, u, u.list[k])
         /\ \A rule \in p.rules : RuleAllowsMove(p, u, rule, u.list[k])
<1>1. Position(u.list, move[i].id) = k
  BY PositionIs
<1> QED
  BY <1>1 DEF Legal

\* A session without a conflict finds its cells free or its own.
LEMMA FreeCells ==
  ASSUME NEW p \in Problems, OneSlotSessions(p), NEW u, Listed(p, u.list), NEW k \in DOMAIN u.list,
         ~Conflicts(p, u, u.list[k])
  PROVE  /\ \A x \in FacultyHeld(p, u.list)[k] : u.faculty[x] \in {u.list[k].id, None}
         /\ \A x \in RoomHeld(p, u.list)[k] : u.room[x] \in {u.list[k].id, None}
         /\ \A x \in GroupHeld(p, u.list)[k] : u.group[x] \in {u.list[k].id, None}
<1> DEFINE a == u.list[k]
<1>1. a \in Assignment(p)
  BY DEF Listed
<1>2. Occupied(p, a) = {a.slot} /\ a.slot[2] \in Nat /\ GroupOf(p, a) \in Groups
  BY <1>1, OneSlot
<1>3. \A table, r : Taken(table, r, Occupied(p, a), a.id) <=> table[<<r, a.slot>>] \notin {a.id, None}
  BY <1>2, OneSlotTaken
<1>4. GroupOf(p, a) \in Overlapping(GroupOf(p, a))
  BY <1>2 DEF Overlapping, GroupsOverlap
<1>5. u.faculty[<<FacultyOf(p, a), a.slot>>] \in {a.id, None}
  BY <1>3 DEF Conflicts, FacultyConflict
<1>6. u.room[<<a.room, a.slot>>] \in {a.id, None}
  BY <1>3 DEF Conflicts, RoomConflict
<1>7. u.group[<<GroupOf(p, a), a.slot>>] \in {a.id, None}
  BY <1>3, <1>4 DEF Conflicts, StudentGroupConflict
<1> QED
  BY <1>5, <1>6, <1>7, OneSlotCells

\* A legal neighbour of a feasible timetable is one.
LEMMA LegalStaysFeasible ==
  ASSUME NEW p \in Problems, OneSlotSessions(p), NEW l, Listed(p, l), KeptApart(p, l),
         HardOK(p, BuildIndex(p, l)), NEW move \in Neighbours(p, l),
         NEW u, u = Apply(p, BuildIndex(p, l), move), Legal(p, u, move)
  PROVE  KeptApart(p, u.list) /\ u = BuildIndex(p, u.list) /\ HardOK(p, u)
<1> DEFINE s == BuildIndex(p, l)
           F == s.faculty
           R == s.room
           G == s.group
<1>1. /\ s = [list |-> l, faculty |-> F, room |-> R, group |-> G]
      /\ Owned(p, l, F, Faculty \X Slots, FacultyHeld(p, l))
      /\ Owned(p, l, R, Rooms \X Slots, RoomHeld(p, l))
      /\ Owned(p, l, G, Groups \X Slots, GroupHeld(p, l))
  BY BuiltOwned
<1>2. s.list = l /\ FourParts(s)
  BY Built, FourPartsOf
<1>3. Listed(p, u.list)
  BY <1>2, MoveMade
<1>4. HardOK(p, s)
  OBVIOUS
<1>5. \A list, k : /\ k \in DOMAIN list => FacultyHeld(p, list)[k] = HeldFaculty(p, list[k])
                   /\ k \in DOMAIN list => RoomHeld(p, list)[k] = HeldRoom(p, list[k])
                   /\ k \in DOMAIN list => GroupHeld(p, list)[k] = HeldGroup(p, list[k])
  BY DEF FacultyHeld, RoomHeld, GroupHeld
<1>6. CASE move \in SingleMoves(p, l)
  <2>1. PICK k \in DOMAIN l, w \in Candidates : move = <<ChangeOf(l[k], w)>>
    BY <1>6, Single
  <2> DEFINE a == l[k]
             b == PlacedAt(a, w)
             n == [l EXCEPT ![k] = b]
             F1 == MarkFree(Unmark(F, HeldFaculty(p, a), a.id), HeldFaculty(p, b), a.id)
             R1 == MarkFree(Unmark(R, HeldRoom(p, a), a.id), HeldRoom(p, b), a.id)
             G1 == MarkFree(Unmark(G, HeldGroup(p, a), a.id), HeldGroup(p, b), a.id)
  <2>2. u = [list |-> n, faculty |-> F1, room |-> R1, group |-> G1]
    <3> HIDE DEF F, R, G
    <3>1. Apply(p, [list |-> l, faculty |-> F, room |-> R, group |-> G], <<ChangeOf(a, w)>>)
            = [list |-> n, faculty |-> F1, room |-> R1, group |-> G1]
      BY AppliedOne
    <3> HIDE DEF F1, R1, G1, n, a
    <3> QED
      BY <1>1, <2>1, <3>1 DEF a
  <2>3. a \in Assignment(p) /\ b.id = a.id
    BY Placing DEF Listed
  <2>4. /\ DOMAIN n = DOMAIN l /\ n[k] = b /\ \A j \in DOMAIN l : j # k => n[j] = l[j]
        /\ \A j \in DOMAIN l : n[j].id = l[j].id
    BY <2>3
  <2> HIDE DEF s, F, R, G, F1, R1, G1, n, b
  <2>5. u.list = n /\ u.faculty = F1 /\ u.room = R1 /\ u.group = G1
    BY <2>2
  <2>6. /\ Suits(p, n[k]) /\ ~Conflicts(p, u, n[k])
        /\ \A rule \in p.rules : RuleAllowsMove(p, u, rule, n[k])
    <3>1. DOMAIN move = {1} /\ move[1].id = u.list[k].id /\ k \in DOMAIN u.list
      BY <2>1, <2>4, <2>5, ChangeFields
    <3> QED
      BY <1>3, <2>5, <3>1, LegalAt
  <2>7. /\ \A x \in FacultyHeld(p, n)[k] : F1[x] \in {a.id, None}
        /\ \A x \in RoomHeld(p, n)[k] : R1[x] \in {a.id, None}
        /\ \A x \in GroupHeld(p, n)[k] : G1[x] \in {a.id, None}
    BY <1>3, <2>3, <2>4, <2>5, <2>6, FreeCells
  <2>8. Owned(p, n, F1, Faculty \X Slots, FacultyHeld(p, n))
    <3>1. F1 = MarkFree(Unmark(F, FacultyHeld(p, l)[k], l[k].id), FacultyHeld(p, n)[k], l[k].id)
      BY <1>5, <2>4 DEF F1
    <3>2. \A j \in DOMAIN l : j # k => FacultyHeld(p, n)[j] = FacultyHeld(p, l)[j]
      BY <1>5, <2>4
    <3> QED
      BY <1>1, <2>4, <2>7, <3>1, <3>2, TableOne
  <2>9. Owned(p, n, R1, Rooms \X Slots, RoomHeld(p, n))
    <3>1. R1 = MarkFree(Unmark(R, RoomHeld(p, l)[k], l[k].id), RoomHeld(p, n)[k], l[k].id)
      BY <1>5, <2>4 DEF R1
    <3>2. \A j \in DOMAIN l : j # k => RoomHeld(p, n)[j] = RoomHeld(p, l)[j]
      BY <1>5, <2>4
    <3> QED
      BY <1>1, <2>4, <2>7, <3>1, <3>2, TableOne
  <2>10. Owned(p, n, G1, Groups \X Slots, GroupHeld(p, n))
    <3>1. G1 = MarkFree(Unmark(G, GroupHeld(p, l)[k], l[k].id), GroupHeld(p, n)[k], l[k].id)
      BY <1>5, <2>4 DEF G1
    <3>2. \A j \in DOMAIN l : j # k => GroupHeld(p, n)[j] = GroupHeld(p, l)[j]
      BY <1>5, <2>4
    <3> QED
      BY <1>1, <2>4, <2>7, <3>1, <3>2, TableOne
  <2>11. IndexOwned(p, u)
    BY <2>2, <2>5, <2>8, <2>9, <2>10 DEF IndexOwned
  <2> DEFINE M == {k}
  <2>12. /\ M \subseteq DOMAIN l /\ \A j \in DOMAIN l : j \notin M => u.list[j] = l[j]
         /\ \A i \in M : /\ Suits(p, u.list[i]) /\ ~Conflicts(p, u, u.list[i])
                         /\ \A rule \in p.rules : RuleAllowsMove(p, u, rule, u.list[i])
    BY <2>4, <2>5, <2>6
  <2>13. DOMAIN u.list = DOMAIN l
    BY <2>4, <2>5
  <2> HIDE DEF M
  <2> QED
    BY <1>3, <1>4, <2>11, <2>12, <2>13, StillFeasible DEF s
<1>7. CASE move \in SwapMoves(p, l)
  <2>1. PICK k \in DOMAIN l, m \in DOMAIN l :
          /\ move = <<ChangeOf(l[k], Placement(l[m])), ChangeOf(l[m], Placement(l[k]))>>
          /\ k # m
    BY <1>7, Swap
  <2>2. Placement(l[k]) \in Candidates /\ Placement(l[m]) \in Candidates
    BY Places
  <2> DEFINE a == l[k]
             e == l[m]
             b == PlacedAt(a, Placement(e))
             f == PlacedAt(e, Placement(a))
             n == [[l EXCEPT ![k] = b] EXCEPT ![m] = f]
             To(T, A, E, B, H) == MarkFree(MarkFree(Unmark(Unmark(T, A, a.id), E, e.id), B, a.id), H, e.id)
             F1 == To(F, HeldFaculty(p, a), HeldFaculty(p, e), HeldFaculty(p, b), HeldFaculty(p, f))
             R1 == To(R, HeldRoom(p, a), HeldRoom(p, e), HeldRoom(p, b), HeldRoom(p, f))
             G1 == To(G, HeldGroup(p, a), HeldGroup(p, e), HeldGroup(p, b), HeldGroup(p, f))
  <2>3. u = [list |-> n, faculty |-> F1, room |-> R1, group |-> G1]
    <3> HIDE DEF F, R, G
    <3>1. Apply(p, [list |-> l, faculty |-> F, room |-> R, group |-> G],
                <<ChangeOf(a, Placement(e)), ChangeOf(e, Placement(a))>>)
            = [list |-> n, faculty |-> F1, room |-> R1, group |-> G1]
      BY <2>1, <2>2, AppliedTwo
    <3> HIDE DEF F1, R1, G1, n, a, e
    <3> QED
      BY <1>1, <2>1, <3>1 DEF a, e
  <2>4. a \in Assignment(p) /\ e \in Assignment(p) /\ b.id = a.id /\ f.id = e.id
    BY <2>2, Placing DEF Listed
  <2>5. /\ DOMAIN n = DOMAIN l /\ n[k] = b /\ n[m] = f
        /\ \A j \in DOMAIN l : j # k /\ j # m => n[j] = l[j]
        /\ \A j \in DOMAIN l : n[j].id = l[j].id
    BY <2>1, <2>4
  <2> HIDE DEF s, F, R, G, F1, R1, G1, n, b, f
  <2>6. u.list = n /\ u.faculty = F1 /\ u.room = R1 /\ u.group = G1
    BY <2>3
  <2>7. \A i \in {k, m} : /\ Suits(p, n[i]) /\ ~Conflicts(p, u, n[i])
                          /\ \A rule \in p.rules : RuleAllowsMove(p, u, rule, n[i])
    <3>1. /\ DOMAIN move = {1, 2} /\ move[1].id = u.list[k].id /\ move[2].id = u.list[m].id
          /\ k \in DOMAIN u.list /\ m \in DOMAIN u.list
      BY <2>1, <2>5, <2>6, ChangeFields
    <3> QED
      BY <1>3, <2>6, <3>1, LegalAt
  <2>8. /\ \A x \in FacultyHeld(p, n)[k] : F1[x] \in {a.id, None}
        /\ \A x \in RoomHeld(p, n)[k] : R1[x] \in {a.id, None}
        /\ \A x \in GroupHeld(p, n)[k] : G1[x] \in {a.id, None}
    BY <1>3, <2>4, <2>5, <2>6, <2>7, FreeCells
  <2>9. /\ \A x \in FacultyHeld(p, n)[m] : F1[x] \in {e.id, None}
        /\ \A x \in RoomHeld(p, n)[m] : R1[x] \in {e.id, None}
        /\ \A x \in GroupHeld(p, n)[m] : G1[x] \in {e.id, None}
    BY <1>3, <2>4, <2>5, <2>6, <2>7, FreeCells
  <2>10. Owned(p, n, F1, Faculty \X Slots, FacultyHeld(p, n))
    <3> DEFINE C == FacultyHeld(p, l)
               E == FacultyHeld(p, n)
    <3>1. F1 = MarkFree(MarkFree(Unmark(Unmark(F, C[k], l[k].id), C[m], l[m].id), E[k], l[k].id), E[m], l[m].id)
      BY <1>5, <2>5 DEF F1
    <3>2. \A j \in DOMAIN l : j # k /\ j # m => E[j] = C[j]
      BY <1>5, <2>5
    <3> HIDE DEF C, E
    <3>3. Owned(p, l, F, Faculty \X Slots, C)
      BY <1>1 DEF C
    <3>4. Owned(p, n, F1, Faculty \X Slots, E)
      <4>1. \A x \in E[k] : F1[x] \in {a.id, None}
        BY <2>8 DEF E
      <4>2. \A x \in E[m] : F1[x] \in {e.id, None}
        BY <2>9 DEF E
      <4> QED
        BY <2>1, <2>5, <3>1, <3>2, <3>3, <4>1, <4>2, TableTwo
    <3> QED
      BY <3>4 DEF E
  <2>11. Owned(p, n, R1, Rooms \X Slots, RoomHeld(p, n))
    <3> DEFINE C == RoomHeld(p, l)
               E == RoomHeld(p, n)
    <3>1. R1 = MarkFree(MarkFree(Unmark(Unmark(R, C[k], l[k].id), C[m], l[m].id), E[k], l[k].id), E[m], l[m].id)
      BY <1>5, <2>5 DEF R1
    <3>2. \A j \in DOMAIN l : j # k /\ j # m => E[j] = C[j]
      BY <1>5, <2>5
    <3> HIDE DEF C, E
    <3>3. Owned(p, l, R, Rooms \X Slots, C)
      BY <1>1 DEF C
    <3>4. Owned(p, n, R1, Rooms \X Slots, E)
      <4>1. \A x \in E[k] : R1[x] \in {a.id, None}
        BY <2>8 DEF E
      <4>2. \A x \in E[m] : R1[x] \in {e.id, None}
        BY <2>9 DEF E
      <4> QED
        BY <2>1, <2>5, <3>1, <3>2, <3>3, <4>1, <4>2, TableTwo
    <3> QED
      BY <3>4 DEF E
  <2>12. Owned(p, n, G1, Groups \X Slots, GroupHeld(p, n))
    <3> DEFINE C == GroupHeld(p, l)
               E == GroupHeld(p, n)
    <3>1. G1 = MarkFree(MarkFree(Unmark(Unmark(G, C[k], l[k].id), C[m], l[m].id), E[k], l[k].id), E[m], l[m].id)
      BY <1>5, <2>5 DEF G1
    <3>2. \A j \in DOMAIN l : j # k /\ j # m => E[j] = C[j]
      BY <1>5, <2>5
    <3> HIDE DEF C, E
    <3>3. Owned(p, l, G, Groups \X Slots, C)
      BY <1>1 DEF C
    <3>4. Owned(p, n, G1, Groups \X Slots, E)
      <4>1. \A x \in E[k] : G1[x] \in {a.id, None}
        BY <2>8 DEF E
      <4>2. \A x \in E[m] : G1[x] \in {e.id, None}
        BY <2>9 DEF E
      <4> QED
        BY <2>1, <2>5, <3>1, <3>2, <3>3, <4>1, <4>2, TableTwo
    <3> QED
      BY <3>4 DEF E
  <2>13. IndexOwned(p, u)
    BY <2>3, <2>6, <2>10, <2>11, <2>12 DEF IndexOwned
  <2> DEFINE M == {k, m}
  <2>14. /\ M \subseteq DOMAIN l /\ \A j \in DOMAIN l : j \notin M => u.list[j] = l[j]
         /\ \A i \in M : /\ Suits(p, u.list[i]) /\ ~Conflicts(p, u, u.list[i])
                         /\ \A rule \in p.rules : RuleAllowsMove(p, u, rule, u.list[i])
    BY <2>5, <2>6, <2>7
  <2>15. DOMAIN u.list = DOMAIN l
    BY <2>5, <2>6
  <2> HIDE DEF M
  <2> QED
    BY <1>3, <1>4, <2>13, <2>14, <2>15, StillFeasible DEF s
<1> QED
  BY <1>6, <1>7 DEF Neighbours

\* A timetable with the index built from it, no two sessions in one place.
InPlace(s) == Listed(problem, s.list) /\ KeptApart(problem, s.list) /\ s = BuildIndex(problem, s.list)

\* The current and the best timetable are such, and feasible since the check at the start; a
\* candidate that was chosen is still a legal one.
PlaceInv ==
  OneSlotSessions(problem) =>
    /\ InPlace(sol) /\ InPlace(best.sol)
    /\ phase = "check" => best.sol = sol
    /\ phase # "over" => status = "NONE"
    /\ phase \in {"loop", "try"} \/ status \notin {"NONE", "INFEASIBLE"} =>
         HardOK(problem, sol) /\ HardOK(problem, best.sol)
    /\ choice # NoMove => Legal(problem, Apply(problem, sol, choice.move), choice.move)

\* It holds when the search is called.
LEMMA PlaceInit == Init => PlaceInv
<1> SUFFICES ASSUME Init PROVE PlaceInv
  OBVIOUS
<1>1. PICK s \in Starts :
        /\ problem = s.problem /\ sol = BuildIndex(s.problem, s.list) /\ choice = NoMove
        /\ best.sol = BuildIndex(s.problem, s.list) /\ phase = "check" /\ status = "NONE"
  BY DEF Init
<1>2. Startable(s.problem, s.list)
  BY StartsAssumption
<1>3. sol.list = s.list
  BY <1>1, Built, FourPartsOf
<1>4. InPlace(sol)
  BY <1>1, <1>2, <1>3 DEF Startable, Listed, InPlace
<1> QED
  BY <1>1, <1>4 DEF PlaceInv

\* It is kept: a neighbour tried leaves no trace, and a legal one keeps the timetable feasible.
LEMMA PlaceStep == SearchInv /\ PlaceInv /\ [Next]_vars => PlaceInv'
<1> SUFFICES ASSUME SearchInv, PlaceInv, [Next]_vars, OneSlotSessions(problem)' PROVE
      /\ InPlace(sol)' /\ InPlace(best.sol)'
      /\ phase' = "check" => best'.sol = sol'
      /\ phase' # "over" => status' = "NONE"
      /\ phase' \in {"loop", "try"} \/ status' \notin {"NONE", "INFEASIBLE"} =>
           HardOK(problem, sol)' /\ HardOK(problem, best.sol)'
      /\ choice' # NoMove => Legal(problem, Apply(problem, sol, choice.move), choice.move)'
  BY DEF PlaceInv
<1> DEFINE Goal == /\ InPlace(sol)' /\ InPlace(best.sol)'
                   /\ phase' = "check" => best'.sol = sol'
                   /\ phase' # "over" => status' = "NONE"
                   /\ phase' \in {"loop", "try"} \/ status' \notin {"NONE", "INFEASIBLE"} =>
                        HardOK(problem, sol)' /\ HardOK(problem, best.sol)'
                   /\ choice' # NoMove => Legal(problem, Apply(problem, sol, choice.move), choice.move)'
<1>1. problem' = problem
  BY DEF Next, Refuse, Begin, LimitReached, TimeUp, Interrupt, NextIteration, Finalize, Consider,
         NothingFound, Move, vars
<1>2. OneSlotSessions(problem)
  BY <1>1
<1>3. /\ InPlace(sol) /\ InPlace(best.sol)
      /\ phase = "check" => best.sol = sol
      /\ phase # "over" => status = "NONE"
      /\ phase \in {"loop", "try"} \/ status \notin {"NONE", "INFEASIBLE"} =>
           HardOK(problem, sol) /\ HardOK(problem, best.sol)
      /\ choice # NoMove => Legal(problem, Apply(problem, sol, choice.move), choice.move)
  BY <1>2 DEF PlaceInv
<1>4. ASSUME UNCHANGED <<problem, search>>,
             phase' = "check" => phase = "check", phase' # "over" => status' = "NONE",
             phase' \in {"loop", "try"} \/ status' \notin {"NONE", "INFEASIBLE"} =>
               HardOK(problem, sol) /\ HardOK(problem, best.sol)
      PROVE  Goal
  <2>1. UNCHANGED <<problem, sol, best, choice>>
    BY <1>4 DEF search
  <2> QED
    BY <1>3, <1>4, <2>1 DEF InPlace
<1>5. CASE Refuse
  <2>1. phase' = "over" /\ status' = "INFEASIBLE" /\ UNCHANGED <<problem, search>>
    BY <1>5 DEF Refuse
  <2> QED
    BY <1>4, <2>1
<1>6. CASE Begin
  <2>1. phase' = "loop" /\ phase = "check" /\ status' = status /\ HardOK(problem, sol)
        /\ UNCHANGED <<problem, search>>
    BY <1>6 DEF Begin
  <2> QED
    BY <1>3, <1>4, <2>1
<1>7. CASE LimitReached \/ TimeUp \/ Interrupt
  <2>1. phase' = "over" /\ phase = "loop" /\ UNCHANGED <<problem, search>>
    BY <1>7 DEF LimitReached, TimeUp, Interrupt, Finalize
  <2> QED
    BY <1>3, <1>4, <2>1
<1>8. CASE NextIteration
  <2>1. phase' = "try" /\ phase = "loop" /\ status' = status /\ UNCHANGED <<problem, search>>
    BY <1>8 DEF NextIteration
  <2> QED
    BY <1>3, <1>4, <2>1
<1>9. ASSUME NEW move \in Neighbours(problem, sol.list), Consider(move)
      PROVE  Goal
  <2> DEFINE tried == Apply(problem, sol, move)
             cost == Weighted(problem.objective, EvaluateCandidateMove(problem, eval, move))
  <2>1. sol' = Undo(problem, tried, move) \/ sol' = sol
    BY <1>9 DEF Consider
  <2>2. choice' = choice \/ (choice' = [move |-> move, cost |-> cost] /\ Legal(problem, tried, move))
    BY <1>9 DEF Consider
  <2>3. phase = "try" /\ UNCHANGED <<problem, phase, best, status>>
    BY <1>9 DEF Consider
  <2> HIDE DEF cost
  <2>4. sol' = sol
    BY <1>3, <2>1, UndoRestores DEF InPlace
  <2>5. choice' # NoMove => Legal(problem, Apply(problem, sol, choice'.move), choice'.move)
    BY <1>3, <2>2, ChoiceFields
  <2> QED
    BY <1>3, <2>3, <2>4, <2>5 DEF InPlace
<1>10. CASE NothingFound
  <2>1. /\ phase = "try" /\ phase' = "loop" /\ choice' = choice
        /\ UNCHANGED <<problem, sol, best, status>>
    BY <1>10 DEF NothingFound
  <2> QED
    BY <1>3, <2>1 DEF InPlace
<1>11. CASE Move
  <2>1. /\ phase = "try" /\ phase' = "loop" /\ choice # NoMove /\ choice' = NoMove
        /\ sol' = Apply(problem, sol, choice.move) /\ UNCHANGED <<problem, status>>
        /\ best' = [sol |-> sol', cost |-> choice.cost] \/ best' = best
    BY <1>11 DEF Move
  <2>2. choice.move \in Neighbours(problem, sol.list)
    BY <2>1 DEF SearchInv
  <2>3. FourParts(sol) /\ Listed(problem, sol.list) /\ problem \in Problems
    BY DEF SearchInv
  <2>4. Listed(problem, sol'.list)
    BY <2>1, <2>2, <2>3, MoveMade
  <2>5. KeptApart(problem, sol'.list) /\ sol' = BuildIndex(problem, sol'.list) /\ HardOK(problem, sol')
    <3> DEFINE l == sol.list
               move == choice.move
               u == sol'
    <3>1. KeptApart(problem, l) /\ sol = BuildIndex(problem, l) /\ HardOK(problem, BuildIndex(problem, l))
      BY <1>3, <2>1 DEF InPlace
    <3>2. u = Apply(problem, BuildIndex(problem, l), move) /\ Legal(problem, u, move)
      BY <1>3, <2>1, <3>1
    <3>3. Listed(problem, l) /\ move \in Neighbours(problem, l)
      BY <2>2, <2>3
    <3> HIDE DEF l, move, u
    <3>4. KeptApart(problem, u.list) /\ u = BuildIndex(problem, u.list) /\ HardOK(problem, u)
      BY <1>2, <2>3, <3>1, <3>2, <3>3, LegalStaysFeasible
    <3> QED
      BY <3>4 DEF u
  <2>6. InPlace(sol)'
    BY <1>1, <2>4, <2>5 DEF InPlace
  <2>7. best'.sol = sol' \/ best'.sol = best.sol
    <3>1. \A x, y : [sol |-> x, cost |-> y].sol = x
      OBVIOUS
    <3> QED
      BY <2>1, <3>1
  <2>8. InPlace(best.sol)' /\ HardOK(problem, best.sol)'
    <3>1. InPlace(best.sol) /\ HardOK(problem, best.sol)
      BY <1>3, <2>1
    <3> QED
      BY <1>1, <2>5, <2>6, <2>7, <3>1 DEF InPlace
  <2> QED
    BY <1>1, <1>3, <2>1, <2>5, <2>6, <2>8
<1>12. CASE UNCHANGED vars
  <2>1. UNCHANGED <<problem, search, phase, status>>
    BY <1>12 DEF vars, search
  <2> QED
    BY <1>3, <1>4, <2>1
<1> QED
  BY <1>5, <1>6, <1>7, <1>8, <1>9, <1>10, <1>11, <1>12 DEF Next

\* It implies the property.
LEMMA PlaceImplies == PlaceInv => ShortSessionsKeepApart
BY DEF PlaceInv, InPlace, ShortSessionsKeepApart

\* With sessions of one slot, in any grid and for any number of moves: no two sessions in one
\* place, the index is the one built from the list, and a search that began ends feasible.
THEOREM ShortSessionsStayApart == Spec => []ShortSessionsKeepApart
BY SearchInit, SearchStep, PlaceInit, PlaceStep, PlaceImplies, PTL DEF Spec

-----------------------------------------------------------------------------
(* The score of every state. *)

\* What a neighbour of each kind makes of a list.
MovedOne(p, l, move, n) ==
  \E k \in DOMAIN l, w \in Candidates :
    /\ move = <<ChangeOf(l[k], w)>> /\ ~IsLocked(p, l[k].id)
    /\ n = [l EXCEPT ![k] = PlacedAt(l[k], w)]

MovedTwo(p, l, move, n) ==
  \E k \in DOMAIN l, m \in DOMAIN l, v \in Candidates, w \in Candidates :
    /\ k # m /\ ~IsLocked(p, l[k].id) /\ ~IsLocked(p, l[m].id)
    /\ move = <<ChangeOf(l[k], v), ChangeOf(l[m], w)>>
    /\ n = [[l EXCEPT ![k] = PlacedAt(l[k], v)] EXCEPT ![m] = PlacedAt(l[m], w)]

\* The list after a neighbour is one of them, whatever the index.
LEMMA ListAfter ==
  ASSUME NEW p, NEW l, Listed(p, l), NEW move \in Neighbours(p, l)
  PROVE  \E n : /\ MovedOne(p, l, move, n) \/ MovedTwo(p, l, move, n)
               /\ \A F, R, G : Apply(p, [list |-> l, faculty |-> F, room |-> R, group |-> G], move).list = n
<1>1. CASE move \in SingleMoves(p, l)
  <2>1. PICK k \in DOMAIN l, w \in Candidates :
          move = <<ChangeOf(l[k], w)>> /\ ~IsLocked(p, l[k].id)
    BY <1>1, Single
  <2> DEFINE a == l[k]
             b == PlacedAt(a, w)
             n == [l EXCEPT ![k] = b]
  <2>2. ASSUME NEW F, NEW R, NEW G
        PROVE  Apply(p, [list |-> l, faculty |-> F, room |-> R, group |-> G], <<ChangeOf(a, w)>>).list = n
    <3> DEFINE u == Apply(p, [list |-> l, faculty |-> F, room |-> R, group |-> G], <<ChangeOf(a, w)>>)
               F1 == MarkFree(Unmark(F, HeldFaculty(p, a), a.id), HeldFaculty(p, b), a.id)
               R1 == MarkFree(Unmark(R, HeldRoom(p, a), a.id), HeldRoom(p, b), a.id)
               G1 == MarkFree(Unmark(G, HeldGroup(p, a), a.id), HeldGroup(p, b), a.id)
    <3>1. u = [list |-> n, faculty |-> F1, room |-> R1, group |-> G1]
      BY AppliedOne
    <3> HIDE DEF n, u, F1, R1, G1
    <3>2. u.list = n
      BY <3>1, FourPartsOf
    <3> QED
      BY <3>2 DEF u
  <2>3. MovedOne(p, l, move, n)
    BY <2>1 DEF MovedOne
  <2> HIDE DEF n
  <2> QED
    BY <2>1, <2>2, <2>3 DEF a
<1>2. CASE move \in SwapMoves(p, l)
  <2>1. PICK k \in DOMAIN l, m \in DOMAIN l :
          /\ move = <<ChangeOf(l[k], Placement(l[m])), ChangeOf(l[m], Placement(l[k]))>>
          /\ k # m /\ ~IsLocked(p, l[k].id) /\ ~IsLocked(p, l[m].id)
    BY <1>2, Swap
  <2>2. Placement(l[k]) \in Candidates /\ Placement(l[m]) \in Candidates
    BY Places
  <2> DEFINE a == l[k]
             e == l[m]
             b == PlacedAt(a, Placement(e))
             f == PlacedAt(e, Placement(a))
             n == [[l EXCEPT ![k] = b] EXCEPT ![m] = f]
             To(T, A, E, B, H) == MarkFree(MarkFree(Unmark(Unmark(T, A, a.id), E, e.id), B, a.id), H, e.id)
  <2>3. ASSUME NEW F, NEW R, NEW G
        PROVE  Apply(p, [list |-> l, faculty |-> F, room |-> R, group |-> G],
                     <<ChangeOf(a, Placement(e)), ChangeOf(e, Placement(a))>>).list = n
    <3> DEFINE u == Apply(p, [list |-> l, faculty |-> F, room |-> R, group |-> G],
                          <<ChangeOf(a, Placement(e)), ChangeOf(e, Placement(a))>>)
               F1 == To(F, HeldFaculty(p, a), HeldFaculty(p, e), HeldFaculty(p, b), HeldFaculty(p, f))
               R1 == To(R, HeldRoom(p, a), HeldRoom(p, e), HeldRoom(p, b), HeldRoom(p, f))
               G1 == To(G, HeldGroup(p, a), HeldGroup(p, e), HeldGroup(p, b), HeldGroup(p, f))
    <3>1. u = [list |-> n, faculty |-> F1, room |-> R1, group |-> G1]
      BY <2>1, <2>2, AppliedTwo
    <3> HIDE DEF n, u, F1, R1, G1
    <3>2. u.list = n
      BY <3>1, FourPartsOf
    <3> QED
      BY <3>2 DEF u
  <2>4. MovedTwo(p, l, move, n)
    BY <2>1, <2>2 DEF MovedTwo
  <2> HIDE DEF n
  <2> QED
    BY <2>1, <2>3, <2>4 DEF a, e
<1> QED
  BY <1>1, <1>2 DEF Neighbours

\* The list after a neighbour, in a solution.
LEMMA AppliedList ==
  ASSUME NEW p, NEW s, FourParts(s), Listed(p, s.list), NEW move \in Neighbours(p, s.list)
  PROVE  \/ MovedOne(p, s.list, move, Apply(p, s, move).list)
         \/ MovedTwo(p, s.list, move, Apply(p, s, move).list)
<1>1. PICK F, R, G : s = [list |-> s.list, faculty |-> F, room |-> R, group |-> G]
  BY DEF FourParts
<1>2. PICK n : /\ MovedOne(p, s.list, move, n) \/ MovedTwo(p, s.list, move, n)
               /\ \A A, B, C : Apply(p, [list |-> s.list, faculty |-> A, room |-> B, group |-> C], move).list = n
  BY ListAfter
<1>3. Apply(p, s, move).list = n
  BY <1>1, <1>2
<1> QED
  BY <1>2, <1>3

\* Two solutions with one list have one list after a neighbour.
LEMMA AppliedAlike ==
  ASSUME NEW p, NEW s, NEW t, FourParts(s), FourParts(t), t.list = s.list, Listed(p, s.list),
         NEW move \in Neighbours(p, s.list)
  PROVE  Apply(p, t, move).list = Apply(p, s, move).list
<1>1. PICK F, R, G : s = [list |-> s.list, faculty |-> F, room |-> R, group |-> G]
  BY DEF FourParts
<1>2. PICK A, B, C : t = [list |-> s.list, faculty |-> A, room |-> B, group |-> C]
  BY DEF FourParts
<1>3. PICK n : \A X, Y, Z : Apply(p, [list |-> s.list, faculty |-> X, room |-> Y, group |-> Z], move).list = n
  BY ListAfter
<1>4. Apply(p, s, move).list = n
  BY <1>1, <1>3
<1>5. Apply(p, t, move).list = n
  BY <1>2, <1>3
<1> QED
  BY <1>4, <1>5

\* The problems the search is given are formed.
LEMMA ProblemFormed == \A p \in Problems : Formed(p)
BY ProblemsAssumption, SoftAssumption DEF Formed

\* The evaluator's score of a neighbour is the scorer's of the list it leads to, and the
\* tallies it goes on with are the ones of that list.
LEMMA DeltaOfMove ==
  ASSUME NEW p \in Problems, NEW s, FourParts(s), Listed(p, s.list),
         NEW move \in Neighbours(p, s.list)
  PROVE  LET n == Apply(p, s, move).list
         IN /\ EvaluateCandidateMove(p, Rebuild(p, s.list), move) = CalculateScore(p, n)
            /\ ApplyCandidateMove(p, Rebuild(p, s.list), move) = Rebuild(p, n)
<1> DEFINE l == s.list
           n == Apply(p, s, move).list
<1>1. Formed(p) /\ Listed(p, l)
  BY ProblemFormed
<1>2. MovedOne(p, l, move, n) \/ MovedTwo(p, l, move, n)
  BY AppliedList
<1> HIDE DEF n, l
<1>3. CASE MovedOne(p, l, move, n)
  <2>1. PICK k \in DOMAIN l, w \in Candidates :
          move = <<ChangeOf(l[k], w)>> /\ n = [l EXCEPT ![k] = PlacedAt(l[k], w)]
    BY <1>3 DEF MovedOne
  <2> QED
    BY <1>1, <2>1, DeltaOfOne DEF n, l
<1>4. CASE MovedTwo(p, l, move, n)
  <2>1. PICK k \in DOMAIN l, m \in DOMAIN l, v \in Candidates, w \in Candidates :
          /\ k # m /\ move = <<ChangeOf(l[k], v), ChangeOf(l[m], w)>>
          /\ n = [[l EXCEPT ![k] = PlacedAt(l[k], v)] EXCEPT ![m] = PlacedAt(l[m], w)]
    BY <1>4 DEF MovedTwo
  <2> QED
    BY <1>1, <2>1, DeltaOfTwo DEF n, l
<1> QED
  BY <1>2, <1>3, <1>4

\* A weight is an integer, so a penalty is one.
LEMMA PenaltyInt ==
  ASSUME NEW p \in Problems, NEW l \in Seq(Assignment(p))
  PROVE  Penalty(p, l) \in Int
<1>1. Formed(p)
  BY ProblemFormed
<1>2. CalculateScore(p, l) \in Breakdown
  BY <1>1, TalliesTyped, TotalsAreTheScore
<1>3. ASSUME NEW id PROVE Weight(p.objective, id) \in Int
  <2> DEFINE o == p.objective
             named == {k \in DOMAIN o : o[k].id = id}
  <2>1. o \in Seq([id : ObjectiveIDs, weight : Int])
    BY <1>1 DEF Formed, SoftFormed
  <2>2. DOMAIN o = 1 .. Len(o) /\ Len(o) \in Nat
    BY <2>1, LenProperties
  <2>3. IsFiniteSet(DOMAIN o) /\ DOMAIN o \subseteq Nat
    <3>1. IsFiniteSet(1 .. Len(o))
      BY <2>2, FS_Interval
    <3> QED
      BY <2>2, <3>1
  <2>4. named \in SUBSET Nat /\ IsFiniteSet(named) /\ named \subseteq DOMAIN o
    BY <2>3, FS_Subset
  <2> HIDE DEF o
  <2>5. named # {} => o[Min(named)].weight \in Int
    <3>1. SUFFICES ASSUME named # {} PROVE o[Min(named)].weight \in Int
      OBVIOUS
    <3> HIDE DEF named
    <3>2. Min(named) \in DOMAIN o
      BY <2>4, <3>1, Extremes
    <3>3. o[Min(named)] \in [id : ObjectiveIDs, weight : Int]
      <4> HIDE DEF o
      <4> QED
        BY <2>1, <3>2, ElementOfSeq, <2>2
    <3> QED
      BY <3>3
  <2>6. Weight(o, id) = (IF o = << >> THEN 1 ELSE IF named = {} THEN 0 ELSE o[Min(named)].weight)
    BY DEF Weight
  <2> HIDE DEF named
  <2>7. Weight(o, id) \in Int
    BY <2>5, <2>6
  <2> QED
    BY <2>7 DEF o
<1> DEFINE raw == CalculateScore(p, l)
<1>4. raw.gap \in Int /\ raw.preference \in Int /\ raw.room \in Int
  BY <1>2 DEF Breakdown
<1> HIDE DEF raw
<1>5. Weighted(p.objective, raw) \in Int
  BY <1>3, <1>4 DEF Weighted
<1> QED
  BY <1>5 DEF Penalty, raw

-----------------------------------------------------------------------------
(* The anytime search has its own copy of the scorer: it counts the same.  *)

\* What a session is and takes.
LEMMA SameSession ==
  \A p, a : /\ Anytime!Occupied(p, a) = Occupied(p, a) /\ Anytime!GroupOf(p, a) = GroupOf(p, a)
            /\ Anytime!FacultyOf(p, a) = FacultyOf(p, a) /\ Anytime!Sitting(p, a) = Sitting(p, a)
BY DEF Occupied, Anytime!Occupied, Span, Anytime!Span, GroupOf, Anytime!GroupOf,
       FacultyOf, Anytime!FacultyOf, Sitting, Anytime!Sitting

\* The assignments of a problem.
LEMMA SameAssignments == \A p : Anytime!Assignment(p) = Assignment(p)
BY DEF Assignment, Anytime!Assignment, AssignmentIDs, Anytime!AssignmentIDs, Rooms, Anytime!Rooms

\* The sum of a function.
LEMMA SameSum == \A f : Anytime!SumFunction(f) = SumFunction(f)
BY Zenon DEF SumFunction, Anytime!SumFunction, SumFunctionOnSet, Anytime!SumFunctionOnSet,
             FoldFunctionOnSet, Anytime!FoldFunctionOnSet, MapThenFoldSet, Anytime!MapThenFoldSet

\* The least of a set.
LEMMA SameMin == \A P : Anytime!Min(P) = Min(P)
BY DEF Min, Anytime!Min

\* The greatest of a set.
LEMMA SameMax == \A P : Anytime!Max(P) = Max(P)
BY DEF Max, Anytime!Max

\* How many there are.
LEMMA SameCount == \A S : Anytime!Cardinality(S) = Cardinality(S)
BY DEF Cardinality, Anytime!Cardinality

\* The gaps of a day.
LEMMA SameGaps == \A P : Anytime!Gaps(P) = Gaps(P)
<1> TAKE P
<1>1. Anytime!Min(P) = Min(P) /\ Anytime!Max(P) = Max(P) /\ Anytime!Cardinality(P) = Cardinality(P)
  BY SameMin, SameMax, SameCount
<1> QED
  BY <1>1 DEF Gaps, Anytime!Gaps

\* The periods of a group's day.
LEMMA SamePeriods ==
  \A p, l, g, day : Anytime!DayPeriods(p, l, g, day) = DayPeriods(p, l, g, day)
BY Zenon DEF DayPeriods, Anytime!DayPeriods, Occupied, Anytime!Occupied, Span, Anytime!Span,
             GroupOf, Anytime!GroupOf

\* The sittings of a group's day.
LEMMA SameSittings ==
  \A p, l, g, day : Anytime!Sittings(p, l, g, day) = Sittings(p, l, g, day)
BY Zenon DEF Sittings, Anytime!Sittings, Sitting, Anytime!Sitting, GroupOf, Anytime!GroupOf

\* The room changes between them.
LEMMA SameChanges == \A S : Anytime!RoomChanges(S) = RoomChanges(S)
<1> TAKE S
<1>1. Anytime!Adjacent(S) = Adjacent(S)
  BY Zenon DEF Adjacent, Anytime!Adjacent, SitsBefore, Anytime!SitsBefore, LexLess, Anytime!LexLess
<1> QED
  BY <1>1, SameCount, Zenon DEF RoomChanges, Anytime!RoomChanges

\* What an assignment costs its teacher.
LEMMA SameDispleasure == \A p, a : Anytime!Displeasure(p, a) = Displeasure(p, a)
<1> TAKE p, a
<1>1. Anytime!Occupied(p, a) = Occupied(p, a) /\ Anytime!FacultyOf(p, a) = FacultyOf(p, a)
  BY SameSession
<1>2. [slot \in Anytime!Occupied(p, a) \cap Slots |-> p.dislikes[<<Anytime!FacultyOf(p, a), slot>>]]
        = [slot \in Occupied(p, a) \cap Slots |-> p.dislikes[<<FacultyOf(p, a), slot>>]]
  BY <1>1
<1> QED
  BY <1>2, SameSum, Zenon DEF Displeasure, Anytime!Displeasure

\* The weight of an objective.
LEMMA SameWeight == \A o, id : Anytime!Weight(o, id) = Weight(o, id)
BY Zenon DEF Weight, Anytime!Weight, Min, Anytime!Min

\* The penalty of a timetable.
LEMMA SamePenalty == \A p, l : Anytime!Penalty(p, l) = Penalty(p, l)
<1>1. \A p, l : Anytime!StudentGapPenalty(p, l) = StudentGapPenalty(p, l)
  BY SMT, SameSum, SameGaps, SamePeriods DEF StudentGapPenalty, Anytime!StudentGapPenalty, Days, Anytime!Days
<1>2. \A p, l : Anytime!RoomChangePenalty(p, l) = RoomChangePenalty(p, l)
  BY SMT, SameSum, SameSittings, SameChanges DEF RoomChangePenalty, Anytime!RoomChangePenalty, Days, Anytime!Days
<1>3. \A p, l : Anytime!FacultyPreferencePenalty(p, l) = FacultyPreferencePenalty(p, l)
  BY SMT, SameSum, SameDispleasure DEF FacultyPreferencePenalty, Anytime!FacultyPreferencePenalty
<1> QED
  BY <1>1, <1>2, <1>3, SameWeight
     DEF Penalty, Anytime!Penalty, CalculateScore, Anytime!CalculateScore, Weighted, Anytime!Weighted

\* When a list is another one rearranged.
LEMMA SameRearranged == \A p, l, m : Rearranged(p, l, m) => Anytime!Rearranged(p, l, m)
<1> SUFFICES ASSUME NEW p, NEW l, NEW m, Rearranged(p, l, m) PROVE Anytime!Rearranged(p, l, m)
  OBVIOUS
<1>1. DOMAIN m = DOMAIN l
  BY DEF Rearranged
<1>2. ASSUME NEW k \in DOMAIN l
      PROVE  /\ Anytime!Placement(m[k]) \in Anytime!Candidates
             /\ m[k] = Anytime!PlacedAt(l[k], Anytime!Placement(m[k]))
             /\ Anytime!IsLocked(p, l[k].id) => m[k] = l[k]
  <2>1. Anytime!PlacedAt(l[k], Placement(m[k])) = PlacedAt(l[k], Placement(m[k]))
    BY DEF PlacedAt, Anytime!PlacedAt
  <2>2. Anytime!Placement(m[k]) = Placement(m[k])
    BY DEF Placement, Anytime!Placement
  <2>3. Anytime!IsLocked(p, l[k].id) => IsLocked(p, l[k].id)
    BY DEF IsLocked, Anytime!IsLocked
  <2>4. Anytime!Candidates = Candidates
    BY DEF Candidates, Anytime!Candidates, Rooms, Anytime!Rooms
  <2>5. /\ Placement(m[k]) \in Candidates /\ m[k] = PlacedAt(l[k], Placement(m[k]))
        /\ IsLocked(p, l[k].id) => m[k] = l[k]
    BY DEF Rearranged
  <2> QED
    BY <2>1, <2>2, <2>3, <2>4, <2>5
<1> QED
  BY <1>1, <1>2 DEF Anytime!Rearranged

-----------------------------------------------------------------------------
(* The invariant of the scores. *)

\* Two lists of the same sessions, the locked ones in their places.
SameSessions(p, l, m) ==
  /\ DOMAIN m = DOMAIN l
  /\ \A k \in DOMAIN l : /\ m[k].id = l[k].id /\ m[k].req = l[k].req
                         /\ IsLocked(p, l[k].id) => m[k] = l[k]

\* The tallies are those of the current list, the cost of the candidate is the one they give
\* it, the cost kept is the penalty of the best list and no more than that of the start or of
\* the current list, and the three lists have the same sessions.
ScoreInv ==
  /\ eval = Rebuild(problem, sol.list)
  /\ choice # NoMove =>
       choice.cost = Weighted(problem.objective, EvaluateCandidateMove(problem, eval, choice.move))
  /\ Listed(problem, start) /\ Listed(problem, best.sol.list)
  /\ SameSessions(problem, start, sol.list) /\ SameSessions(problem, start, best.sol.list)
  /\ best.cost = Penalty(problem, best.sol.list)
  /\ best.cost <= Penalty(problem, start)
  /\ best.cost <= Penalty(problem, sol.list)

\* A list has its own sessions.
LEMMA SameReflexive == \A p, l : SameSessions(p, l, l)
BY DEF SameSessions

\* Two lists with the sessions of a third have each other's.
LEMMA SameAcross ==
  ASSUME NEW p, NEW l, NEW m, NEW n, SameSessions(p, l, m), SameSessions(p, l, n)
  PROVE  SameSessions(p, m, n)
BY DEF SameSessions

\* One list after another keeps them.
LEMMA SameOnward ==
  ASSUME NEW p, NEW l, NEW m, NEW n, SameSessions(p, l, m), SameSessions(p, m, n)
  PROVE  SameSessions(p, l, n)
BY DEF SameSessions

\* A neighbour moves sessions that are not locked.
LEMMA SameMoved ==
  ASSUME NEW p, NEW s, FourParts(s), Listed(p, s.list), NEW move \in Neighbours(p, s.list)
  PROVE  SameSessions(p, s.list, Apply(p, s, move).list)
<1> DEFINE l == s.list
           n == Apply(p, s, move).list
<1>1. MovedOne(p, l, move, n) \/ MovedTwo(p, l, move, n)
  BY AppliedList
<1>2. \A k \in DOMAIN l : l[k] \in Assignment(p)
  BY DEF Listed
<1> HIDE DEF n, l
<1>3. CASE MovedOne(p, l, move, n)
  <2>1. PICK k \in DOMAIN l, w \in Candidates :
          ~IsLocked(p, l[k].id) /\ n = [l EXCEPT ![k] = PlacedAt(l[k], w)]
    BY <1>3 DEF MovedOne
  <2>2. PlacedAt(l[k], w).id = l[k].id /\ PlacedAt(l[k], w).req = l[k].req
    BY <1>2, Placing
  <2>3. SameSessions(p, l, n)
    BY <2>1, <2>2 DEF SameSessions
  <2> QED
    BY <2>3 DEF n, l
<1>4. CASE MovedTwo(p, l, move, n)
  <2>1. PICK k \in DOMAIN l, m \in DOMAIN l, v \in Candidates, w \in Candidates :
          /\ k # m /\ ~IsLocked(p, l[k].id) /\ ~IsLocked(p, l[m].id)
          /\ n = [[l EXCEPT ![k] = PlacedAt(l[k], v)] EXCEPT ![m] = PlacedAt(l[m], w)]
    BY <1>4 DEF MovedTwo
  <2>2. /\ PlacedAt(l[k], v).id = l[k].id /\ PlacedAt(l[k], v).req = l[k].req
        /\ PlacedAt(l[m], w).id = l[m].id /\ PlacedAt(l[m], w).req = l[m].req
    BY <1>2, Placing
  <2>3. SameSessions(p, l, n)
    BY <2>1, <2>2 DEF SameSessions
  <2> QED
    BY <2>3 DEF n, l
<1> QED
  BY <1>1, <1>3, <1>4

\* Lists of the same sessions are rearrangements of each other.
LEMMA SessionsRearranged ==
  ASSUME NEW p, NEW l, NEW m, Listed(p, l), Listed(p, m), SameSessions(p, l, m)
  PROVE  Rearranged(p, l, m)
<1>1. DOMAIN m = DOMAIN l
  BY DEF SameSessions
<1>2. ASSUME NEW k \in DOMAIN l
      PROVE  /\ Placement(m[k]) \in Candidates
             /\ m[k] = PlacedAt(l[k], Placement(m[k])) /\ (IsLocked(p, l[k].id) => m[k] = l[k])
  <2>1. l[k] \in Assignment(p) /\ m[k] \in Assignment(p)
    BY <1>1 DEF Listed
  <2>2. m[k].id = l[k].id /\ m[k].req = l[k].req /\ (IsLocked(p, l[k].id) => m[k] = l[k])
    BY DEF SameSessions
  <2>3. PlacedAt(l[k], Placement(m[k])) = [l[k] EXCEPT !.room = m[k].room, !.slot = m[k].slot]
    BY DEF PlacedAt, Placement
  <2>4. [l[k] EXCEPT !.room = m[k].room, !.slot = m[k].slot] = m[k]
    BY <2>1, <2>2 DEF Assignment
  <2>5. Placement(m[k]) \in Candidates
    BY <2>1 DEF Assignment, Placement, Candidates
  <2> QED
    BY <2>2, <2>3, <2>4, <2>5
<1> QED
  BY <1>1, <1>2 DEF Rearranged

\* The score of the candidate is the penalty of the list it leads to.
LEMMA ChoiceCost ==
  ASSUME SearchInv, ScoreInv, choice # NoMove
  PROVE  /\ choice.cost = Penalty(problem, Apply(problem, sol, choice.move).list)
         /\ ApplyCandidateMove(problem, eval, choice.move)
              = Rebuild(problem, Apply(problem, sol, choice.move).list)
<1> DEFINE n == Apply(problem, sol, choice.move).list
<1>1. /\ problem \in Problems /\ FourParts(sol) /\ Listed(problem, sol.list)
      /\ choice.move \in Neighbours(problem, sol.list)
  BY DEF SearchInv
<1>2. /\ eval = Rebuild(problem, sol.list)
      /\ choice.cost = Weighted(problem.objective, EvaluateCandidateMove(problem, eval, choice.move))
  BY DEF ScoreInv
<1>3. /\ EvaluateCandidateMove(problem, Rebuild(problem, sol.list), choice.move) = CalculateScore(problem, n)
      /\ ApplyCandidateMove(problem, Rebuild(problem, sol.list), choice.move) = Rebuild(problem, n)
  BY <1>1, DeltaOfMove
<1> HIDE DEF n
<1>4. choice.cost = Penalty(problem, n)
  BY <1>2, <1>3 DEF Penalty
<1> QED
  BY <1>2, <1>3, <1>4 DEF n

\* The tallies' totals are the score.
LEMMA RebuiltTotals ==
  ASSUME NEW p, NEW l, Listed(p, l)
  PROVE  Rebuild(p, l).totals = CalculateScore(p, l)
<1>1. l \in Seq(Assignment(p))
  BY DEF Listed
<1>2. TotalsOf(p, l) = CalculateScore(p, l)
  BY <1>1, TotalsAreTheScore
<1>3. \A c, g, s, t : [count |-> c, gaps |-> g, sittings |-> s, totals |-> t].totals = t
  OBVIOUS
<1>4. Rebuild(p, l).totals = TotalsOf(p, l)
  BY <1>3, Rebuilt
<1> QED
  BY <1>2, <1>4

\* It holds where the search starts.
LEMMA ScoreInit == Init => ScoreInv
<1> SUFFICES ASSUME Init PROVE ScoreInv
  OBVIOUS
<1>1. PICK s \in Starts :
        /\ problem = s.problem /\ start = s.list /\ sol = BuildIndex(s.problem, s.list)
        /\ eval = Rebuild(s.problem, s.list) /\ choice = NoMove
        /\ best = [sol |-> BuildIndex(s.problem, s.list),
                   cost |-> Weighted(s.problem.objective, Rebuild(s.problem, s.list).totals)]
  BY DEF Init
<1>2. problem \in Problems /\ Listed(problem, start) /\ start \in Seq(Assignment(problem))
  <2>1. s.problem \in Problems /\ Startable(s.problem, s.list)
    BY StartsAssumption
  <2> QED
    BY <1>1, <2>1 DEF Startable, Listed
<1>3. sol.list = start
  BY <1>1, <1>2, Built, FourPartsOf
<1>4. \A x, y : [sol |-> x, cost |-> y].sol = x /\ [sol |-> x, cost |-> y].cost = y
  OBVIOUS
<1>5. best.sol = sol /\ best.cost = Weighted(problem.objective, Rebuild(problem, start).totals)
  BY <1>1, <1>4
<1>6. best.cost = Penalty(problem, start) /\ best.cost \in Int
  BY <1>2, <1>5, RebuiltTotals, PenaltyInt DEF Penalty
<1>7. eval = Rebuild(problem, start)
  BY <1>1
<1> QED
  BY <1>1, <1>2, <1>3, <1>5, <1>6, <1>7, SameReflexive DEF ScoreInv

\* Every step keeps it.
LEMMA ScoreStep == SearchInv /\ ScoreInv /\ [Next]_vars => ScoreInv'
<1> SUFFICES ASSUME SearchInv, ScoreInv, [Next]_vars PROVE ScoreInv'
  OBVIOUS
<1>1. ASSUME UNCHANGED <<problem, start, sol.list, eval, best>>, choice' = choice
      PROVE  ScoreInv'
  BY <1>1 DEF ScoreInv
<1>2. CASE Refuse \/ Begin \/ LimitReached \/ TimeUp \/ Interrupt \/ NextIteration
  <2>1. UNCHANGED <<problem, start, sol, eval, best, choice>>
    BY <1>2 DEF Refuse, Begin, LimitReached, TimeUp, Interrupt, NextIteration, Finalize, search
  <2> QED
    BY <1>1, <2>1
<1>3. ASSUME NEW move \in Neighbours(problem, sol.list), Consider(move)
      PROVE  ScoreInv'
  <2> DEFINE tried == Apply(problem, sol, move)
             cost == Weighted(problem.objective, EvaluateCandidateMove(problem, eval, move))
  <2>1. sol' = Undo(problem, tried, move) \/ sol' = sol
    BY <1>3 DEF Consider
  <2>2. choice' = choice \/ choice' = [move |-> move, cost |-> cost]
    BY <1>3 DEF Consider
  <2>3. UNCHANGED <<problem, start, eval, best>>
    BY <1>3 DEF Consider
  <2>4. sol'.list = sol.list
    BY <2>1, ListRestored DEF SearchInv
  <2>5. CASE choice' = choice
    BY <1>1, <2>3, <2>4, <2>5
  <2>6. CASE choice' = [move |-> move, cost |-> cost]
    <3>1. choice'.move = move /\ choice'.cost = cost
      <4> HIDE DEF cost
      <4> QED
        BY <2>6, ChoiceFields
    <3> QED
      BY <2>3, <2>4, <3>1 DEF ScoreInv
  <2> QED
    BY <2>2, <2>5, <2>6
<1>4. CASE NothingFound
  <2>1. UNCHANGED <<problem, start, sol, eval, best, choice>>
    BY <1>4 DEF NothingFound
  <2> QED
    BY <1>1, <2>1
<1>5. CASE Move
  <2>1. /\ choice # NoMove /\ choice' = NoMove /\ UNCHANGED <<problem, start>>
        /\ sol' = Apply(problem, sol, choice.move)
        /\ eval' = ApplyCandidateMove(problem, eval, choice.move)
        /\ \/ choice.cost < best.cost /\ best' = [sol |-> sol', cost |-> choice.cost]
           \/ ~(choice.cost < best.cost) /\ best' = best
    BY <1>5 DEF Move, Better
  <2> DEFINE n == sol'.list
  <2>2. choice.cost = Penalty(problem, n) /\ eval' = Rebuild(problem, n)
    BY <2>1, ChoiceCost
  <2>3. /\ problem \in Problems /\ FourParts(sol) /\ Listed(problem, sol.list)
        /\ choice.move \in Neighbours(problem, sol.list)
    BY <2>1 DEF SearchInv
  <2>4. Listed(problem, n) /\ SameSessions(problem, sol.list, n)
    BY <2>1, <2>3, MoveMade, SameMoved
  <2>5. /\ Listed(problem, start) /\ Listed(problem, best.sol.list)
        /\ SameSessions(problem, start, sol.list) /\ SameSessions(problem, start, best.sol.list)
        /\ best.cost = Penalty(problem, best.sol.list)
        /\ best.cost <= Penalty(problem, start)
    BY DEF ScoreInv
  <2>6. SameSessions(problem, start, n)
    BY <2>4, <2>5, SameOnward
  <2>7. Penalty(problem, n) \in Int /\ Penalty(problem, start) \in Int /\ best.cost \in Int
    BY <2>3, <2>4, <2>5, PenaltyInt DEF Listed
  <2> HIDE DEF n
  <2>8. CASE choice.cost < best.cost /\ best' = [sol |-> sol', cost |-> choice.cost]
    <3>1. \A x, y : [sol |-> x, cost |-> y].sol = x /\ [sol |-> x, cost |-> y].cost = y
      OBVIOUS
    <3>2. best'.sol.list = n /\ best'.cost = Penalty(problem, n)
      BY <2>2, <2>8, <3>1 DEF n
    <3>3. best'.cost <= Penalty(problem, start)
      BY <2>2, <2>5, <2>7, <2>8, <3>2
    <3>4. best'.cost <= Penalty(problem, n)
      BY <2>7, <3>2
    <3> QED
      BY <2>1, <2>2, <2>4, <2>5, <2>6, <3>2, <3>3, <3>4 DEF ScoreInv, n
  <2>9. CASE ~(choice.cost < best.cost) /\ best' = best
    <3>1. best.cost <= Penalty(problem, n)
      BY <2>2, <2>7, <2>9
    <3> QED
      BY <2>1, <2>2, <2>4, <2>5, <2>6, <2>9, <3>1 DEF ScoreInv, n
  <2> QED
    BY <2>1, <2>8, <2>9
<1>6. CASE UNCHANGED vars
  <2>1. UNCHANGED <<problem, start, sol, eval, best, choice>>
    BY <1>6 DEF vars
  <2> QED
    BY <1>1, <2>1
<1> QED
  BY <1>2, <1>3, <1>4, <1>5, <1>6 DEF Next

\* The invariants together.
LEMMA ScoreInvariance == Spec => [](SearchInv /\ TabuInv /\ ScoreInv)
<1>1. Init => SearchInv /\ TabuInv /\ ScoreInv
  BY SearchInit, ScoreInit
<1>2. SearchInv /\ TabuInv /\ ScoreInv /\ [Next]_vars => SearchInv' /\ TabuInv' /\ ScoreInv'
  BY SearchStep, ScoreStep
<1> QED
  BY <1>1, <1>2, PTL DEF Spec

\* They imply what is asked of the tallies.
LEMMA TalliesImplied == SearchInv /\ ScoreInv => TalliesExact
<1> SUFFICES ASSUME SearchInv, ScoreInv PROVE TalliesExact
  OBVIOUS
<1>1. Listed(problem, sol.list) /\ eval = Rebuild(problem, sol.list)
  BY DEF SearchInv, ScoreInv
<1>2. eval.totals = CalculateScore(problem, sol.list)
  BY <1>1, RebuiltTotals
<1>3. choice # NoMove => choice.cost = Penalty(problem, Apply(problem, sol, choice.move).list)
  BY ChoiceCost
<1> QED
  BY <1>1, <1>2, <1>3 DEF TalliesExact

\* However many moves and swaps the evaluator has followed by its deltas, its tallies are the
\* ones a rebuild would count, its totals are the scorer's, and a candidate is chosen for the
\* score it will have.
THEOREM TalliesStayExact == Spec => []TalliesExact
BY ScoreInvariance, TalliesImplied, PTL

-----------------------------------------------------------------------------
(* What is given back: the rules hold of every timetable the search is in, *)
(* however long the sessions.                                              *)

\* A legal neighbour keeps them, whatever the index says.
LEMMA LegalKeepsRules ==
  ASSUME NEW p \in Problems, NEW s, FourParts(s), Listed(p, s.list), KeepsRules(p, s.list),
         NEW move \in Neighbours(p, s.list), NEW u, u = Apply(p, s, move), Legal(p, u, move)
  PROVE  KeepsRules(p, u.list)
<1> DEFINE l == s.list
           n == u.list
<1>1. Listed(p, n)
  BY MoveMade
<1>2. MovedOne(p, l, move, n) \/ MovedTwo(p, l, move, n)
  BY AppliedList
<1>3. Listed(p, l) /\ KeepsRules(p, l)
  OBVIOUS
<1>4. \A k \in DOMAIN l, w \in Candidates : PlacedAt(l[k], w).id = l[k].id
  BY <1>3, Placing DEF Listed
<1> HIDE DEF l
<1>5. CASE MovedOne(p, l, move, n)
  <2>1. PICK k \in DOMAIN l, w \in Candidates :
          move = <<ChangeOf(l[k], w)>> /\ n = [l EXCEPT ![k] = PlacedAt(l[k], w)]
    BY <1>5 DEF MovedOne
  <2>2. /\ DOMAIN n = DOMAIN l /\ n[k].id = l[k].id
        /\ \A j \in DOMAIN l : j \notin {k} => n[j] = l[j]
    BY <1>4, <2>1
  <2>3. Suits(p, n[k]) /\ \A rule \in p.rules : RuleAllowsMove(p, u, rule, n[k])
    <3>1. DOMAIN move = {1} /\ move[1].id = n[k].id /\ k \in DOMAIN n
      BY <2>1, <2>2, ChangeFields
    <3> QED
      BY <1>1, <3>1, LegalAt
  <2> DEFINE M == {k}
  <2>4. /\ M \subseteq DOMAIN l /\ \A j \in DOMAIN l : j \notin M => n[j] = l[j]
        /\ \A i \in M : Suits(p, n[i]) /\ \A rule \in p.rules : RuleAllowsMove(p, u, rule, n[i])
    BY <2>2, <2>3
  <2> HIDE DEF M
  <2> QED
    BY <1>1, <1>3, <2>2, <2>4, RulesKept
<1>6. CASE MovedTwo(p, l, move, n)
  <2>1. PICK k \in DOMAIN l, m \in DOMAIN l, v \in Candidates, w \in Candidates :
          /\ k # m /\ move = <<ChangeOf(l[k], v), ChangeOf(l[m], w)>>
          /\ n = [[l EXCEPT ![k] = PlacedAt(l[k], v)] EXCEPT ![m] = PlacedAt(l[m], w)]
    <3> HIDE DEF n
    <3> QED
      BY <1>6 DEF MovedTwo
  <2>2. /\ DOMAIN n = DOMAIN l /\ n[k].id = l[k].id /\ n[m].id = l[m].id
        /\ \A j \in DOMAIN l : j \notin {k, m} => n[j] = l[j]
    BY <1>4, <2>1
  <2>3. \A i \in {k, m} : Suits(p, n[i]) /\ \A rule \in p.rules : RuleAllowsMove(p, u, rule, n[i])
    <3>1. /\ DOMAIN move = {1, 2} /\ move[1].id = n[k].id /\ move[2].id = n[m].id
          /\ k \in DOMAIN n /\ m \in DOMAIN n
      BY <2>1, <2>2, ChangeFields
    <3> QED
      BY <1>1, <3>1, LegalAt
  <2> DEFINE M == {k, m}
  <2>4. /\ M \subseteq DOMAIN l /\ \A j \in DOMAIN l : j \notin M => n[j] = l[j]
        /\ \A i \in M : Suits(p, n[i]) /\ \A rule \in p.rules : RuleAllowsMove(p, u, rule, n[i])
    BY <2>2, <2>3
  <2> HIDE DEF M
  <2> QED
    BY <1>1, <1>3, <2>2, <2>4, RulesKept
<1> QED
  BY <1>2, <1>5, <1>6

\* Given an acceptable timetable, the rules hold of the current and the best one and of the
\* one the candidate leads to; with sessions of one slot no check turns any of them down.
ContractInv ==
  Acceptable(problem, start) =>
    /\ KeepsRules(problem, sol.list) /\ KeepsRules(problem, best.sol.list)
    /\ phase = "check" => sol = BuildIndex(problem, start)
    /\ phase # "over" => status = "NONE"
    /\ choice # NoMove => KeepsRules(problem, Apply(problem, sol, choice.move).list)
    /\ OneSlotSessions(problem) => status # "INFEASIBLE"

\* It holds when the search is called.
LEMMA ContractInit == Init => ContractInv
<1> SUFFICES ASSUME Init, Acceptable(problem, start) PROVE
      /\ KeepsRules(problem, sol.list) /\ KeepsRules(problem, best.sol.list)
      /\ sol = BuildIndex(problem, start) /\ status = "NONE" /\ choice = NoMove
  BY DEF ContractInv
<1>1. PICK s \in Starts :
        /\ problem = s.problem /\ start = s.list /\ sol = BuildIndex(s.problem, s.list)
        /\ choice = NoMove /\ status = "NONE" /\ best.sol = BuildIndex(s.problem, s.list)
  BY DEF Init
<1>2. sol.list = start /\ best.sol = sol
  BY <1>1, Built, FourPartsOf
<1>3. KeepsRules(problem, start)
  BY DEF Acceptable
<1> QED
  BY <1>1, <1>2, <1>3

\* Every step keeps it.
LEMMA ContractStep ==
  SearchInv /\ PlaceInv /\ ScoreInv /\ ContractInv /\ [Next]_vars => ContractInv'
<1> SUFFICES ASSUME SearchInv, PlaceInv, ScoreInv, ContractInv, [Next]_vars, Acceptable(problem, start)'
             PROVE  /\ KeepsRules(problem, sol.list)' /\ KeepsRules(problem, best.sol.list)'
                    /\ phase' = "check" => sol' = BuildIndex(problem', start')
                    /\ phase' # "over" => status' = "NONE"
                    /\ choice' # NoMove => KeepsRules(problem, Apply(problem, sol, choice.move).list)'
                    /\ OneSlotSessions(problem)' => status' # "INFEASIBLE"
  BY DEF ContractInv
<1> DEFINE Goal == /\ KeepsRules(problem, sol.list)' /\ KeepsRules(problem, best.sol.list)'
                   /\ phase' = "check" => sol' = BuildIndex(problem', start')
                   /\ phase' # "over" => status' = "NONE"
                   /\ choice' # NoMove => KeepsRules(problem, Apply(problem, sol, choice.move).list)'
                   /\ OneSlotSessions(problem)' => status' # "INFEASIBLE"
<1>1. UNCHANGED <<problem, start>>
  BY DEF Next, Refuse, Begin, LimitReached, TimeUp, Interrupt, NextIteration, Finalize, Consider,
         NothingFound, Move, vars
<1>2. Acceptable(problem, start)
  BY <1>1
<1>3. /\ KeepsRules(problem, sol.list) /\ KeepsRules(problem, best.sol.list)
      /\ phase = "check" => sol = BuildIndex(problem, start)
      /\ phase # "over" => status = "NONE"
      /\ choice # NoMove => KeepsRules(problem, Apply(problem, sol, choice.move).list)
      /\ OneSlotSessions(problem) => status # "INFEASIBLE"
  BY <1>2 DEF ContractInv
<1>4. problem \in Problems /\ FourParts(sol) /\ Listed(problem, sol.list)
      /\ (choice # NoMove => choice.move \in Neighbours(problem, sol.list))
  BY DEF SearchInv
<1>5. ASSUME UNCHANGED search, phase' # "check" \/ phase' = phase,
             phase' # "over" => status' = "NONE",
             OneSlotSessions(problem) => status' # "INFEASIBLE"
      PROVE  Goal
  <2>1. UNCHANGED <<sol, best, choice>>
    BY <1>5 DEF search
  <2> QED
    BY <1>1, <1>3, <1>5, <2>1
<1>6. CASE Refuse
  <2>1. /\ phase = "check" /\ ~HardOK(problem, sol) /\ phase' = "over" /\ UNCHANGED search
    BY <1>6 DEF Refuse
  <2>2. ~OneSlotSessions(problem)
    BY <1>2, <1>3, <1>4, <2>1, AcceptablePasses DEF ScoreInv
  <2> QED
    BY <1>5, <2>1, <2>2
<1>7. CASE Begin
  BY <1>3, <1>5, <1>7 DEF Begin
<1>8. CASE LimitReached \/ TimeUp
  <2>1. /\ phase = "loop" /\ phase' = "over" /\ status' = FinalStatus(problem, best.sol)
        /\ UNCHANGED search
    BY <1>8 DEF LimitReached, TimeUp, Finalize
  <2>2. OneSlotSessions(problem) => HardOK(problem, best.sol)
    BY <2>1 DEF PlaceInv
  <2> QED
    BY <1>5, <2>1, <2>2 DEF FinalStatus
<1>9. CASE Interrupt
  <2>1. phase' = "over" /\ status' \in {"CANCELLED", "DEADLINE_EXCEEDED"} /\ UNCHANGED search
    BY <1>9 DEF Interrupt, Finalize
  <2> QED
    BY <1>5, <2>1
<1>10. CASE NextIteration
  BY <1>3, <1>5, <1>10 DEF NextIteration
<1>11. ASSUME NEW move \in Neighbours(problem, sol.list), Consider(move)
       PROVE  Goal
  <2> DEFINE tried == Apply(problem, sol, move)
             cost == Weighted(problem.objective, EvaluateCandidateMove(problem, eval, move))
  <2>1. sol' = Undo(problem, tried, move) \/ sol' = sol
    BY <1>11 DEF Consider
  <2>2. choice' = choice \/ (choice' = [move |-> move, cost |-> cost] /\ Legal(problem, tried, move))
    BY <1>11 DEF Consider
  <2>3. phase = "try" /\ UNCHANGED <<phase, best, status>>
    BY <1>11 DEF Consider
  <2> HIDE DEF cost
  <2>4. sol'.list = sol.list /\ FourParts(sol')
    BY <1>4, <2>1, ListRestored
  <2>5. choice' # NoMove => /\ choice'.move \in Neighbours(problem, sol.list)
                            /\ KeepsRules(problem, Apply(problem, sol, choice'.move).list)
    <3>1. Legal(problem, tried, move) => KeepsRules(problem, Apply(problem, sol, move).list)
      BY <1>3, <1>4, LegalKeepsRules
    <3> HIDE DEF tried
    <3> QED
      BY <1>3, <1>4, <2>2, <3>1, ChoiceFields
  <2>6. choice' # NoMove => KeepsRules(problem, Apply(problem, sol', choice'.move).list)
    <3>1. SUFFICES ASSUME choice' # NoMove
                   PROVE  KeepsRules(problem, Apply(problem, sol', choice'.move).list)
      OBVIOUS
    <3>2. Apply(problem, sol', choice'.move).list = Apply(problem, sol, choice'.move).list
      BY <1>4, <2>4, <2>5, <3>1, AppliedAlike
    <3> QED
      BY <2>5, <3>1, <3>2
  <2> QED
    BY <1>1, <1>3, <2>3, <2>4, <2>6
<1>12. CASE NothingFound
  <2>1. /\ phase = "try" /\ phase' = "loop" /\ UNCHANGED <<sol, best, choice, status>>
    BY <1>12 DEF NothingFound
  <2> QED
    BY <1>1, <1>3, <2>1
<1>13. CASE Move
  <2>1. /\ phase = "try" /\ phase' = "loop" /\ choice # NoMove /\ choice' = NoMove
        /\ sol' = Apply(problem, sol, choice.move) /\ status' = status
        /\ best' = [sol |-> sol', cost |-> choice.cost] \/ best' = best
    BY <1>13 DEF Move
  <2>2. KeepsRules(problem, sol'.list)
    BY <1>3, <2>1
  <2>3. best'.sol = sol' \/ best'.sol = best.sol
    <3>1. \A x, y : [sol |-> x, cost |-> y].sol = x
      OBVIOUS
    <3> QED
      BY <2>1, <3>1
  <2> QED
    BY <1>1, <1>3, <2>1, <2>2, <2>3
<1>14. CASE UNCHANGED vars
  <2>1. UNCHANGED <<sol, best, choice, phase, status>>
    BY <1>14 DEF vars
  <2> QED
    BY <1>1, <1>3, <2>1
<1> QED
  BY <1>6, <1>7, <1>8, <1>9, <1>10, <1>11, <1>12, <1>13, <1>14 DEF Next

\* With the other invariants it says what the search gives back.
LEMMA ContractKept == SearchInv /\ PlaceInv /\ ScoreInv /\ ContractInv => BestKept
<1> SUFFICES ASSUME SearchInv, PlaceInv, ScoreInv, ContractInv PROVE BestKept
  OBVIOUS
<1>1. /\ best.cost = Penalty(problem, best.sol.list)
      /\ best.cost <= Penalty(problem, start) /\ best.cost <= Penalty(problem, sol.list)
  BY DEF ScoreInv
<1>2. ASSUME Acceptable(problem, start)
      PROVE  /\ Improves(problem, start, best.sol.list)
             /\ status = "INFEASIBLE" => ~OneSlotSessions(problem)
  <2>1. Rearranged(problem, start, best.sol.list)
    BY SessionsRearranged DEF ScoreInv
  <2>2. KeepsRules(problem, best.sol.list) /\ (OneSlotSessions(problem) => status # "INFEASIBLE")
    BY <1>2 DEF ContractInv
  <2>3. OneSlotSessions(problem) => KeptApart(problem, best.sol.list)
    BY DEF PlaceInv, InPlace
  <2> QED
    BY <1>1, <2>1, <2>2, <2>3 DEF Improves
<1> QED
  BY <1>1, <1>2 DEF BestKept

\* Whenever the search is stopped: the score returned with the best timetable is its penalty,
\* neither the timetable it was given nor the one it is in has a smaller one, and of an
\* acceptable timetable it gives back what the engine counts on, for sessions of any length.
THEOREM BestIsKept == Spec => []BestKept
<1>1. Init => SearchInv /\ TabuInv /\ PlaceInv /\ ScoreInv /\ ContractInv
  BY SearchInit, PlaceInit, ScoreInit, ContractInit
<1>2. SearchInv /\ TabuInv /\ PlaceInv /\ ScoreInv /\ ContractInv /\ [Next]_vars
        => SearchInv' /\ TabuInv' /\ PlaceInv' /\ ScoreInv' /\ ContractInv'
  BY SearchStep, PlaceStep, ScoreStep, ContractStep
<1> QED
  BY <1>1, <1>2, ContractKept, PTL DEF Spec

-----------------------------------------------------------------------------
(* The best timetable is what an anytime optimiser holds. *)

\* The search starts as one.
LEMMA AnytimeInit == Init => Anytime!AInit
<1> SUFFICES ASSUME Init PROVE Anytime!AInit
  OBVIOUS
<1>1. SearchInv /\ ScoreInv
  BY SearchInit, ScoreInit
<1>2. problem \in Problems /\ best.sol.list \in Seq(Assignment(problem))
  BY <1>1 DEF SearchInv, ScoreInv, Listed
<1>3. (phase # "over") = TRUE
  BY DEF Init
<1>4. Seq(Anytime!Assignment(problem)) = Seq(Assignment(problem))
  BY SameAssignments
<1> QED
  BY <1>2, <1>3, <1>4 DEF Anytime!AInit

\* A step of the search is one of an optimiser, or none.
LEMMA AnytimeStep == SearchInv /\ ScoreInv /\ [Next]_vars => [Anytime!ANext]_(Anytime!avars)
<1> SUFFICES ASSUME SearchInv, ScoreInv, [Next]_vars PROVE [Anytime!ANext]_(Anytime!avars)
  OBVIOUS
<1>1. ASSUME UNCHANGED <<problem, best>>, phase # "over", phase' # "over"
      PROVE  UNCHANGED Anytime!avars
  BY <1>1 DEF Anytime!avars
<1>2. ASSUME UNCHANGED <<problem, best>>, phase # "over", phase' = "over"
      PROVE  Anytime!Stop
  BY <1>2 DEF Anytime!Stop
<1>3. CASE Refuse \/ LimitReached \/ TimeUp \/ Interrupt
  <2>1. UNCHANGED <<problem, best>> /\ phase # "over" /\ phase' = "over"
    BY <1>3 DEF Refuse, LimitReached, TimeUp, Interrupt, Finalize, search
  <2> QED
    BY <1>2, <2>1 DEF Anytime!ANext
<1>4. CASE Begin \/ NextIteration \/ NothingFound
  <2>1. UNCHANGED <<problem, best>> /\ phase # "over" /\ phase' # "over"
    BY <1>4 DEF Begin, NextIteration, NothingFound, search
  <2> QED
    BY <1>1, <2>1
<1>5. ASSUME NEW move \in Neighbours(problem, sol.list), Consider(move)
      PROVE  UNCHANGED Anytime!avars
  <2>1. UNCHANGED <<problem, best, phase>>
    BY <1>5 DEF Consider
  <2> QED
    BY <2>1 DEF Anytime!avars
<1>6. CASE Move
  <2>1. /\ phase = "try" /\ phase' = "loop" /\ choice # NoMove /\ UNCHANGED <<problem, start>>
        /\ sol' = Apply(problem, sol, choice.move)
        /\ \/ choice.cost < best.cost /\ best' = [sol |-> sol', cost |-> choice.cost]
           \/ best' = best
    BY <1>6 DEF Move, Better
  <2>2. CASE best' = best
    <3>1. phase # "over" /\ phase' # "over"
      BY <2>1
    <3> QED
      BY <1>1, <2>1, <2>2, <3>1
  <2>3. CASE choice.cost < best.cost /\ best' = [sol |-> sol', cost |-> choice.cost]
    <3>1. \A x, y : [sol |-> x, cost |-> y].sol = x
      OBVIOUS
    <3>2. best'.sol.list = sol'.list
      BY <2>3, <3>1
    <3>3. Penalty(problem, best'.sol.list) < Penalty(problem, best.sol.list)
      <4>1. choice.cost = Penalty(problem, sol'.list)
        BY <2>1, ChoiceCost
      <4> QED
        BY <2>3, <3>2, <4>1 DEF ScoreInv
    <3>4. ScoreInv'
      BY ScoreStep
    <3>5. /\ Listed(problem, best.sol.list) /\ Listed(problem, best'.sol.list)
          /\ SameSessions(problem, start, best.sol.list) /\ SameSessions(problem, start, best'.sol.list)
      BY <2>1, <3>4 DEF ScoreInv
    <3>6. Anytime!Rearranged(problem, best.sol.list, best'.sol.list)
      BY <3>5, SameAcross, SessionsRearranged, SameRearranged
    <3>7. Anytime!Penalty(problem, best'.sol.list) < Anytime!Penalty(problem, best.sol.list)
      BY <3>3, SamePenalty
    <3>8. phase # "over" /\ (phase' # "over") = (phase # "over")
      BY <2>1
    <3>9. Anytime!Improve
      BY <2>1, <3>6, <3>7, <3>8 DEF Anytime!Improve
    <3> QED
      BY <3>9 DEF Anytime!ANext
  <2> QED
    BY <2>1, <2>2, <2>3
<1>7. CASE UNCHANGED vars
  <2>1. UNCHANGED <<problem, best, phase>>
    BY <1>7 DEF vars
  <2> QED
    BY <2>1 DEF Anytime!avars
<1> QED
  BY <1>3, <1>4, <1>5, <1>6, <1>7 DEF Next

\* The tabu search is an anytime optimiser: the timetable it would return is exchanged only
\* for one of the same sessions with a smaller penalty, counted by the scorer from nothing, and
\* the locked sessions stay where they are.
THEOREM IsAnytime == Spec => ImplementsAnytime
<1>1. [](SearchInv /\ TabuInv /\ ScoreInv) /\ [][Next]_vars => [][Anytime!ANext]_(Anytime!avars)
  BY AnytimeStep, PTL
<1> QED
  BY <1>1, ScoreInvariance, AnytimeInit, PTL DEF Spec, ImplementsAnytime, Anytime!ASpec

-----------------------------------------------------------------------------
(* Types. *)

\* A table that is written stays one.
LEMMA TableWritten ==
  ASSUME NEW R, NEW T \in Table(R), NEW A, NEW id \in AssignmentIDs
  PROVE  MarkFree(T, A, id) \in Table(R) /\ Unmark(T, A, id) \in Table(R)
BY DEF Table, MarkFree, Unmark

\* A solution, from its parts.
LEMMA SolutionOf ==
  ASSUME NEW p, NEW l \in Seq(Assignment(p)),
         NEW F \in Table(Faculty), NEW R \in Table(Rooms), NEW G \in Table(Groups)
  PROVE  [list |-> l, faculty |-> F, room |-> R, group |-> G] \in Solution(p)
BY DEF Solution

\* A solution, into its parts.
LEMMA PartsOfSolution ==
  ASSUME NEW p, NEW s \in Solution(p)
  PROVE  /\ s = [list |-> s.list, faculty |-> s.faculty, room |-> s.room, group |-> s.group]
         /\ s.list \in Seq(Assignment(p)) /\ s.faculty \in Table(Faculty)
         /\ s.room \in Table(Rooms) /\ s.group \in Table(Groups)
BY DEF Solution

\* An index built from a list is one.
LEMMA BuiltTyped ==
  ASSUME NEW p, NEW l, Listed(p, l)
  PROVE  BuildIndex(p, l) \in Solution(p)
<1>1. l \in Seq(Assignment(p)) /\ \A k \in DOMAIN l : l[k].id \in AssignmentIDs
  <2>1. l \in Seq(Assignment(p)) /\ \A k \in DOMAIN l : l[k] \in Assignment(p)
    BY DEF Listed
  <2> QED
    BY <2>1 DEF Assignment
<1>2. IsFiniteSet(DOMAIN l) /\ DOMAIN l \subseteq Nat
  <2>1. DOMAIN l = 1 .. Len(l) /\ Len(l) \in Nat
    BY <1>1, LenProperties
  <2> QED
    BY <2>1, FS_Interval
<1>3. ASSUME NEW H \in SUBSET DOMAIN l
      PROVE  Owner(l, H) \in AssignmentIDs \cup {None}
  <2>1. CASE H = {}
    BY <2>1 DEF Owner
  <2>2. CASE H # {}
    <3>1. IsFiniteSet(H) /\ H \in SUBSET Nat
      BY <1>2, FS_Subset
    <3>2. \E k \in H : \A j \in H : j <= k
      BY <2>2, <3>1, Extremes
    <3> DEFINE k == CHOOSE i \in H : \A j \in H : j <= i
    <3>3. k \in H
      BY <3>2
    <3>4. Owner(l, H) = l[k].id
      BY <2>2 DEF Owner
    <3> QED
      BY <1>1, <3>3, <3>4
  <2> QED
    BY <2>1, <2>2
<1> DEFINE HF(x) == {k \in DOMAIN l : x \in {FacultyOf(p, l[k])} \X Held(p, l[k])}
           HR(x) == {k \in DOMAIN l : x \in {l[k].room} \X Held(p, l[k])}
           HG(x) == {k \in DOMAIN l : x \in {GroupOf(p, l[k])} \X Held(p, l[k])}
<1>4. \A x : HF(x) \in SUBSET DOMAIN l /\ HR(x) \in SUBSET DOMAIN l /\ HG(x) \in SUBSET DOMAIN l
  OBVIOUS
<1> DEFINE F == [x \in Faculty \X Slots |-> Owner(l, HF(x))]
           R == [x \in Rooms \X Slots |-> Owner(l, HR(x))]
           G == [x \in Groups \X Slots |-> Owner(l, HG(x))]
<1>5. BuildIndex(p, l) = [list |-> l, faculty |-> F, room |-> R, group |-> G]
  BY DEF BuildIndex
<1> HIDE DEF HF, HR, HG
<1>6. F \in Table(Faculty) /\ R \in Table(Rooms) /\ G \in Table(Groups)
  BY <1>3, <1>4 DEF Table
<1> HIDE DEF F, R, G
<1> QED
  BY <1>1, <1>5, <1>6, SolutionOf

\* A neighbour is a sequence of changes; made, or made and undone, it leaves a solution.
LEMMA MovedTyped ==
  ASSUME NEW p, NEW s \in Solution(p), Listed(p, s.list), NEW move \in Neighbours(p, s.list)
  PROVE  /\ move \in Seq(Change(p))
         /\ Apply(p, s, move) \in Solution(p)
         /\ Undo(p, Apply(p, s, move), move) \in Solution(p)
<1> DEFINE l == s.list
           F == s.faculty
           R == s.room
           G == s.group
<1>1. /\ s = [list |-> l, faculty |-> F, room |-> R, group |-> G]
      /\ F \in Table(Faculty) /\ R \in Table(Rooms) /\ G \in Table(Groups)
  BY PartsOfSolution
<1> HIDE DEF l, F, R, G
<1>2. Listed(p, l) /\ l \in Seq(Assignment(p))
  BY DEF Listed, l
<1>3. \A k \in DOMAIN l : l[k] \in Assignment(p) /\ l[k].id \in AssignmentIDs
  <2>1. \A k \in DOMAIN l : l[k] \in Assignment(p)
    BY <1>2 DEF Listed
  <2> QED
    BY <2>1 DEF Assignment
<1>4. ASSUME NEW k \in DOMAIN l, NEW w \in Candidates
      PROVE  ChangeOf(l[k], w) \in Change(p)
  <2>1. l[k] \in Assignment(p) /\ Placement(l[k]) \in Candidates
    BY <1>3, <1>2, Places
  <2> QED
    BY <2>1 DEF ChangeOf, Change, Assignment
<1>5. CASE move \in SingleMoves(p, l)
  <2>1. PICK k \in DOMAIN l, w \in Candidates : move = <<ChangeOf(l[k], w)>>
    BY <1>2, <1>5, Single
  <2> DEFINE a == l[k]
             b == PlacedAt(a, w)
             n == [l EXCEPT ![k] = b]
             c == ChangeOf(a, w)
             id == a.id
             To(T, A, B) == MarkFree(Unmark(T, A, id), B, id)
             u == Apply(p, [list |-> l, faculty |-> F, room |-> R, group |-> G], <<c>>)
             v == Undo(p, u, <<c>>)
  <2>2. id \in AssignmentIDs /\ c \in Change(p)
    BY <1>3, <1>4
  <2>3. u = [list |-> n, faculty |-> To(F, HeldFaculty(p, a), HeldFaculty(p, b)),
             room |-> To(R, HeldRoom(p, a), HeldRoom(p, b)), group |-> To(G, HeldGroup(p, a), HeldGroup(p, b))]
    BY <1>2, AppliedOne
  <2>4. v = [list |-> l,
             faculty |-> To(To(F, HeldFaculty(p, a), HeldFaculty(p, b)), HeldFaculty(p, b), HeldFaculty(p, a)),
             room    |-> To(To(R, HeldRoom(p, a), HeldRoom(p, b)), HeldRoom(p, b), HeldRoom(p, a)),
             group   |-> To(To(G, HeldGroup(p, a), HeldGroup(p, b)), HeldGroup(p, b), HeldGroup(p, a))]
    BY <1>2, UndoneOne
  <2>5. n \in Seq(Assignment(p))
    BY <1>2, Relisted DEF Listed
  <2>6. u = Apply(p, s, move) /\ v = Undo(p, Apply(p, s, move), move)
    BY <1>1, <2>1
  <2>7. move \in Seq(Change(p))
    BY <2>1, <2>2
  <2> HIDE DEF id, c, n, u, v
  <2>8. \A Q : \A T \in Table(Q) : \A A, B : To(T, A, B) \in Table(Q)
    BY <2>2, TableWritten
  <2> HIDE DEF To
  <2>9. u \in Solution(p)
    BY <1>1, <2>3, <2>5, <2>8, SolutionOf
  <2>10. v \in Solution(p)
    <3>1. /\ To(To(F, HeldFaculty(p, a), HeldFaculty(p, b)), HeldFaculty(p, b), HeldFaculty(p, a)) \in Table(Faculty)
          /\ To(To(R, HeldRoom(p, a), HeldRoom(p, b)), HeldRoom(p, b), HeldRoom(p, a)) \in Table(Rooms)
          /\ To(To(G, HeldGroup(p, a), HeldGroup(p, b)), HeldGroup(p, b), HeldGroup(p, a)) \in Table(Groups)
      BY <1>1, <2>8
    <3> QED
      BY <1>2, <2>4, <3>1, SolutionOf
  <2> QED
    BY <2>6, <2>7, <2>9, <2>10
<1>6. CASE move \in SwapMoves(p, l)
  <2>1. PICK k \in DOMAIN l, m \in DOMAIN l :
          /\ move = <<ChangeOf(l[k], Placement(l[m])), ChangeOf(l[m], Placement(l[k]))>>
          /\ k # m
    BY <1>2, <1>6, Swap
  <2>2. Placement(l[k]) \in Candidates /\ Placement(l[m]) \in Candidates
    BY <1>2, Places
  <2> DEFINE a == l[k]
             e == l[m]
             b == PlacedAt(a, Placement(e))
             f == PlacedAt(e, Placement(a))
             c == ChangeOf(a, Placement(e))
             d == ChangeOf(e, Placement(a))
             n1 == [l EXCEPT ![k] = b]
             n == [n1 EXCEPT ![m] = f]
             i == a.id
             j == e.id
             To(T, A, E, B, H) == MarkFree(MarkFree(Unmark(Unmark(T, A, i), E, j), B, i), H, j)
             FA == HeldFaculty(p, a)
             FE == HeldFaculty(p, e)
             FB == HeldFaculty(p, b)
             FH == HeldFaculty(p, f)
             RA == HeldRoom(p, a)
             RE == HeldRoom(p, e)
             RB == HeldRoom(p, b)
             RH == HeldRoom(p, f)
             GA == HeldGroup(p, a)
             GE == HeldGroup(p, e)
             GB == HeldGroup(p, b)
             GH == HeldGroup(p, f)
             u == Apply(p, [list |-> l, faculty |-> F, room |-> R, group |-> G], <<c, d>>)
             v == Undo(p, u, <<c, d>>)
  <2>3. i \in AssignmentIDs /\ j \in AssignmentIDs /\ c \in Change(p) /\ d \in Change(p)
    BY <1>3, <1>4, <2>2
  <2>4. u = [list |-> n, faculty |-> To(F, FA, FE, FB, FH), room |-> To(R, RA, RE, RB, RH),
             group |-> To(G, GA, GE, GB, GH)]
    BY <1>2, <2>1, <2>2, AppliedTwo
  <2>5. v = [list |-> l, faculty |-> To(To(F, FA, FE, FB, FH), FB, FH, FA, FE),
             room |-> To(To(R, RA, RE, RB, RH), RB, RH, RA, RE),
             group |-> To(To(G, GA, GE, GB, GH), GB, GH, GA, GE)]
    BY <1>2, <2>1, <2>2, UndoneTwo
  <2>6. n \in Seq(Assignment(p))
    <3>1. Listed(p, n1) /\ DOMAIN n1 = DOMAIN l /\ n1[m] = e
      BY <1>2, <2>1, <2>2, Relisted
    <3> HIDE DEF n1
    <3>2. Listed(p, [n1 EXCEPT ![m] = PlacedAt(n1[m], Placement(a))])
      BY <2>2, <3>1, Relisted
    <3> QED
      BY <3>1, <3>2 DEF Listed
  <2>7. u = Apply(p, s, move) /\ v = Undo(p, Apply(p, s, move), move)
    BY <1>1, <2>1
  <2>8. move \in Seq(Change(p))
    BY <2>1, <2>3
  <2> HIDE DEF i, j, c, d, n1, n, u, v
  <2>9. ASSUME NEW Q, NEW T \in Table(Q), NEW A, NEW E, NEW B, NEW H
        PROVE  To(T, A, E, B, H) \in Table(Q)
    <3>1. Unmark(T, A, i) \in Table(Q)
      BY <2>3, TableWritten
    <3>2. Unmark(Unmark(T, A, i), E, j) \in Table(Q)
      BY <2>3, <3>1, TableWritten
    <3>3. MarkFree(Unmark(Unmark(T, A, i), E, j), B, i) \in Table(Q)
      BY <2>3, <3>2, TableWritten
    <3> QED
      BY <2>3, <3>3, TableWritten
  <2> HIDE DEF To, FA, FE, FB, FH, RA, RE, RB, RH, GA, GE, GB, GH
  <2>10. /\ To(F, FA, FE, FB, FH) \in Table(Faculty) /\ To(R, RA, RE, RB, RH) \in Table(Rooms)
         /\ To(G, GA, GE, GB, GH) \in Table(Groups)
    BY <1>1, <2>9
  <2>11. /\ To(To(F, FA, FE, FB, FH), FB, FH, FA, FE) \in Table(Faculty)
         /\ To(To(R, RA, RE, RB, RH), RB, RH, RA, RE) \in Table(Rooms)
         /\ To(To(G, GA, GE, GB, GH), GB, GH, GA, GE) \in Table(Groups)
    BY <2>9, <2>10
  <2>12. u \in Solution(p) /\ v \in Solution(p)
    BY <1>2, <2>4, <2>5, <2>6, <2>10, <2>11, SolutionOf
  <2> QED
    BY <2>7, <2>8, <2>12
<1> QED
  BY <1>5, <1>6 DEF Neighbours, l

\* The types of the solutions, the candidate, the counters and the tabu list; an iteration
\* is only begun when there is one left.
TypeInv ==
  /\ phase \in Phases /\ status \in Statuses
  /\ sol \in Solution(problem) /\ best \in [sol : Solution(problem), cost : Int]
  /\ choice \in Choice(problem) \cup {NoMove}
  /\ DOMAIN tabu \subseteq DOMAIN accepted
  /\ iteration \in 0 .. MaxIterations /\ stale \in 0 .. iteration
  /\ phase = "try" => iteration < MaxIterations

\* It holds where the search starts.
LEMMA TypeInit == Init => TypeInv
<1> SUFFICES ASSUME Init PROVE TypeInv
  OBVIOUS
<1>1. PICK s \in Starts :
        /\ problem = s.problem /\ sol = BuildIndex(s.problem, s.list)
        /\ best = [sol |-> BuildIndex(s.problem, s.list),
                   cost |-> Weighted(s.problem.objective, Rebuild(s.problem, s.list).totals)]
  BY DEF Init
<1>2. s.problem \in Problems /\ Listed(s.problem, s.list) /\ s.list \in Seq(Assignment(s.problem))
  <2>1. s.problem \in Problems /\ Startable(s.problem, s.list)
    BY StartsAssumption
  <2> QED
    BY <2>1 DEF Startable, Listed
<1>3. BuildIndex(problem, s.list) \in Solution(problem)
  BY <1>1, <1>2, BuiltTyped
<1>4. Weighted(s.problem.objective, Rebuild(s.problem, s.list).totals) \in Int
  BY <1>2, RebuiltTotals, PenaltyInt DEF Penalty
<1>5. sol \in Solution(problem) /\ best \in [sol : Solution(problem), cost : Int]
  BY <1>1, <1>3, <1>4
<1>6. /\ phase = "check" /\ status = "NONE" /\ choice = NoMove /\ iteration = 0 /\ stale = 0
      /\ tabu = [x \in {} |-> 0]
  BY DEF Init
<1>7. DOMAIN tabu \subseteq DOMAIN accepted
  BY <1>6
<1> QED
  BY <1>5, <1>6, <1>7, LimitsAssumption DEF TypeInv, Phases, Statuses

\* Every step keeps it.
LEMMA TypeStep == SearchInv /\ ScoreInv /\ TypeInv /\ [Next]_vars => TypeInv'
<1> SUFFICES ASSUME SearchInv, ScoreInv, TypeInv, [Next]_vars PROVE TypeInv'
  OBVIOUS
<1> USE LimitsAssumption
<1>1. ASSUME UNCHANGED <<problem, search>>, phase' \in Phases, status' \in Statuses,
             phase' = "try" => iteration < MaxIterations
      PROVE  TypeInv'
  BY <1>1 DEF TypeInv, search
<1>2. CASE Refuse \/ Begin \/ LimitReached \/ TimeUp \/ Interrupt \/ NextIteration
  <2>1. FinalStatus(problem, best.sol) \in Statuses
    BY DEF FinalStatus, Statuses
  <2>2. UNCHANGED <<problem, search>>
    BY <1>2 DEF Refuse, Begin, LimitReached, TimeUp, Interrupt, NextIteration, Finalize
  <2>3. status' \in Statuses
    BY <1>2, <2>1 DEF Refuse, Begin, LimitReached, TimeUp, Interrupt, NextIteration, Finalize, TypeInv, Statuses
  <2>4. phase' \in Phases /\ (phase' = "try" => iteration < MaxIterations)
    BY <1>2 DEF Refuse, Begin, LimitReached, TimeUp, Interrupt, NextIteration, Finalize, TypeInv, Phases
  <2> QED
    BY <1>1, <2>2, <2>3, <2>4
<1>3. ASSUME NEW move \in Neighbours(problem, sol.list), Consider(move)
      PROVE  TypeInv'
  <2> DEFINE tried == Apply(problem, sol, move)
             cost == Weighted(problem.objective, EvaluateCandidateMove(problem, eval, move))
             sig == Signature(move)
  <2>1. sol' = Undo(problem, tried, move) \/ sol' = sol
    BY <1>3 DEF Consider
  <2>2. choice' = choice \/ choice' = [move |-> move, cost |-> cost]
    BY <1>3 DEF Consider
  <2>3. tabu' = Forget(tabu, sig, iteration) \/ tabu' = tabu
    BY <1>3 DEF Consider
  <2>4. UNCHANGED <<problem, phase, eval, best, iteration, stale, status, accepted>>
    BY <1>3 DEF Consider
  <2>5. problem \in Problems /\ FourParts(sol) /\ Listed(problem, sol.list) /\ sol \in Solution(problem)
    BY DEF SearchInv, TypeInv
  <2>6. sol' \in Solution(problem)
    BY <2>1, <2>5, MovedTyped
  <2>7. cost \in Int
    <3>1. eval = Rebuild(problem, sol.list)
      BY DEF ScoreInv
    <3>2. EvaluateCandidateMove(problem, eval, move) = CalculateScore(problem, tried.list)
      BY <2>5, <3>1, DeltaOfMove
    <3>3. tried.list \in Seq(Assignment(problem))
      BY <2>5, MoveMade DEF Listed
    <3> HIDE DEF tried
    <3> QED
      BY <2>5, <3>2, <3>3, PenaltyInt DEF Penalty
  <2>8. move \in Seq(Change(problem))
    BY <2>5, MovedTyped
  <2> HIDE DEF cost, tried, sig
  <2>9. choice' \in Choice(problem) \cup {NoMove}
    BY <2>2, <2>7, <2>8 DEF TypeInv, Choice
  <2>10. DOMAIN tabu' \subseteq DOMAIN accepted
    BY <2>3 DEF TypeInv, Forget
  <2> QED
    BY <2>4, <2>6, <2>9, <2>10 DEF TypeInv
<1>4. CASE NothingFound
  <2>1. /\ phase = "try" /\ phase' = "loop" /\ iteration' = iteration + 1 /\ stale' = stale + 1
        /\ UNCHANGED <<problem, sol, best, choice, tabu, status, accepted>>
    BY <1>4 DEF NothingFound
  <2>2. iteration' \in 0 .. MaxIterations /\ stale' \in 0 .. iteration'
    BY <2>1 DEF TypeInv
  <2> QED
    BY <2>1, <2>2 DEF TypeInv, Phases
<1>5. CASE Move
  <2>1. /\ phase = "try" /\ phase' = "loop" /\ choice # NoMove /\ choice' = NoMove
        /\ iteration' = iteration + 1 /\ UNCHANGED <<problem, status>>
        /\ sol' = Apply(problem, sol, choice.move)
        /\ tabu' = Record(tabu, ReverseSignature(choice.move), iteration)
        /\ accepted' = With(accepted, ReverseSignature(choice.move), iteration)
        /\ \/ best' = [sol |-> sol', cost |-> choice.cost] /\ stale' = 0
           \/ best' = best /\ stale' = stale + 1
    BY <1>5 DEF Move
  <2>2. /\ sol \in Solution(problem) /\ Listed(problem, sol.list)
        /\ choice.move \in Neighbours(problem, sol.list)
    BY <2>1 DEF SearchInv, TypeInv
  <2>3. sol' \in Solution(problem)
    BY <2>1, <2>2, MovedTyped
  <2>4. choice.cost \in Int
    BY <2>1 DEF TypeInv, Choice
  <2>5. best' \in [sol : Solution(problem), cost : Int]
    BY <2>1, <2>3, <2>4 DEF TypeInv
  <2>6. iteration' \in 0 .. MaxIterations /\ stale' \in 0 .. iteration'
    BY <2>1 DEF TypeInv
  <2>7. DOMAIN tabu' \subseteq DOMAIN accepted'
    BY <2>1 DEF TypeInv, Record, With
  <2> QED
    BY <2>1, <2>3, <2>5, <2>6, <2>7 DEF TypeInv, Phases
<1>6. CASE UNCHANGED vars
  <2>1. UNCHANGED <<problem, search>> /\ phase' = phase /\ status' = status
    BY <1>6 DEF vars, search
  <2> QED
    BY <1>1, <2>1 DEF TypeInv
<1> QED
  BY <1>2, <1>3, <1>4, <1>5, <1>6 DEF Next

\* With the tallies of a list they give the types of all variables.
LEMMA TypeImplied == SearchInv /\ TabuInv /\ ScoreInv /\ TypeInv => TypeOK
<1> SUFFICES ASSUME SearchInv, TabuInv, ScoreInv, TypeInv PROVE TypeOK
  OBVIOUS
<1>1. problem \in Problems /\ Listed(problem, sol.list) /\ eval = Rebuild(problem, sol.list)
  BY DEF SearchInv, ScoreInv
<1>2. eval \in Tallies
  <2>1. Formed(problem) /\ sol.list \in Seq(Assignment(problem))
    BY <1>1, ProblemFormed DEF Listed
  <2>2. /\ CountOf(problem, sol.list) \in [Groups \X Slots -> Nat]
        /\ GapsOf(problem, sol.list) \in [Groups \X Days -> Nat]
        /\ SittingsOf(problem, sol.list) \in [Groups \X Days -> SUBSET SittingRecord]
        /\ TotalsOf(problem, sol.list) \in Breakdown
    BY <2>1, TalliesTyped
  <2> QED
    BY <1>1, <2>2, Rebuilt DEF Tallies
<1>3. \A sig \in DOMAIN accepted : accepted[sig] \in 0 .. iteration - 1
  BY DEF TabuInv
<1>4. start \in Seq(Assignment(problem))
  BY DEF ScoreInv, Listed
<1> QED
  BY <1>1, <1>2, <1>3, <1>4 DEF TypeInv, TypeOK

\* The index stays an index, the tallies stay tallies and the counters within their limits,
\* through every move, swap and undo.
THEOREM TypeCorrect == Spec => []TypeOK
<1>1. Init => SearchInv /\ TabuInv /\ ScoreInv /\ TypeInv
  BY SearchInit, ScoreInit, TypeInit
<1>2. SearchInv /\ TabuInv /\ ScoreInv /\ TypeInv /\ [Next]_vars
        => SearchInv' /\ TabuInv' /\ ScoreInv' /\ TypeInv'
  BY SearchStep, ScoreStep, TypeStep
<1> QED
  BY <1>1, <1>2, TypeImplied, PTL DEF Spec
=============================================================================
