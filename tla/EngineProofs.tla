--------------------------- MODULE EngineProofs ---------------------------
(***************************************************************************)
(* Proofs about Engine, for any requests.                                  *)
(***************************************************************************)
EXTENDS Engine, EvaluatorProofs

-----------------------------------------------------------------------------
(* Counting. *)

\* There are as many values as arguments if no two arguments have one value.
LEMMA Renamed ==
  ASSUME NEW S, IsFiniteSet(S), NEW f, DOMAIN f = S, \A x, y \in S : f[x] = f[y] => x = y
  PROVE  IsFiniteSet({f[x] : x \in S}) /\ Cardinality({f[x] : x \in S}) = Cardinality(S)
<1> DEFINE T == {f[x] : x \in S}
           h == [x \in S |-> f[x]]
<1>1. h \in [S -> T] /\ \A x, y \in S : h[x] = h[y] => x = y
  OBVIOUS
<1>2. \A t \in T : \E x \in S : h[x] = t
  OBVIOUS
<1> HIDE DEF T, h
<1>3. h \in Bijection(S, T)
  BY <1>1, <1>2 DEF Bijection, Injection, Surjection, IsInjective
<1>4. ExistsBijection(S, T)
  BY <1>3 DEF ExistsBijection
<1>5. IsFiniteSet(T) /\ Cardinality(T) = Cardinality(S)
  BY <1>4, FS_Bijection
<1> QED
  BY <1>5 DEF T

\* Sets without common elements: their elements are counted one set after the other.
LEMMA CountApart ==
  ASSUME NEW S, IsFiniteSet(S), NEW A, \A x \in S : IsFiniteSet(A[x]),
         \A x, y \in S : x # y => A[x] \cap A[y] = {},
         NEW f, \A x \in S : f[x] = Cardinality(A[x])
  PROVE  /\ IsFiniteSet(UNION {A[x] : x \in S})
         /\ Cardinality(UNION {A[x] : x \in S}) = SumFunctionOnSet(f, S)
<1> DEFINE All(T) == UNION {A[x] : x \in T}
           Good == {T \in SUBSET S : IsFiniteSet(All(T)) /\ Cardinality(All(T)) = SumFunctionOnSet(f, T)}
<1>1. {} \in Good
  <2>1. All({}) = {}
    OBVIOUS
  <2> HIDE DEF All
  <2> QED
    BY <2>1, FS_EmptySet, SumEmpty
<1>2. ASSUME NEW T \in SUBSET S, NEW x \in T, T \ {x} \in Good
      PROVE  T \in Good
  <2>1. All(T) = All(T \ {x}) \cup A[x]
    <3>1. T = (T \ {x}) \cup {x}
      OBVIOUS
    <3> QED
      BY <3>1
  <2>2. All(T \ {x}) \cap A[x] = {}
    BY <1>2
  <2>3. IsFiniteSet(T) /\ IsFiniteSet(A[x])
    BY FS_Subset
  <2>4. f[x] \in Nat /\ \A y \in T : f[y] \in Int
    BY FS_CardinalityType
  <2>5. SumFunctionOnSet(f, T) = f[x] + SumFunctionOnSet(f, T \ {x})
    BY <2>3, <2>4, SumTaken
  <2>6. IsFiniteSet(All(T \ {x})) /\ Cardinality(All(T \ {x})) = SumFunctionOnSet(f, T \ {x})
    BY <1>2
  <2> DEFINE B == All(T \ {x})
             C == A[x]
  <2> HIDE DEF All
  <2>7. IsFiniteSet(B) /\ IsFiniteSet(C) /\ B \cap C = {} /\ All(T) = B \cup C
    BY <2>1, <2>2, <2>3, <2>6
  <2> HIDE DEF B, C
  <2>8. IsFiniteSet(B \cup C) /\ Cardinality(B \cup C) = Cardinality(B) + Cardinality(C) - Cardinality(B \cap C)
    BY <2>7, FS_Union
  <2>9. Cardinality(B \cap C) = 0 /\ Cardinality(B) \in Nat /\ Cardinality(C) \in Nat
    BY <2>7, FS_EmptySet, FS_CardinalityType
  <2>10. IsFiniteSet(All(T)) /\ Cardinality(All(T)) = Cardinality(C) + Cardinality(B)
    BY <2>7, <2>8, <2>9
  <2> QED
    BY <2>5, <2>6, <2>10 DEF B, C
<1> HIDE DEF Good
<1>3. S \in Good
  BY <1>1, <1>2, ByTaking
<1> QED
  BY <1>3 DEF Good

-----------------------------------------------------------------------------
(* The sessions of a problem. *)

\* The fields of a problem, typed.
LEMMA Fields ==
  ASSUME NEW p, WellFormed(p)
  PROVE  /\ IsFiniteSet(DOMAIN p.reqs) /\ IsFiniteSet(DOMAIN p.locked)
         /\ DOMAIN p.locked = 1 .. Len(p.locked) /\ Len(p.locked) \in Nat
         /\ \A r \in DOMAIN p.reqs : p.reqs[r] \in Requirement /\ p.reqs[r].perWeek \in Nat \ {0}
                                     /\ p.reqs[r].duration \in Nat \ {0}
                                     /\ p.reqs[r].faculty \in Faculty /\ p.reqs[r].group \in Groups
         /\ \A k \in DOMAIN p.locked : p.locked[k] \in Assignment(p)
<1>1. p.reqs \in Seq(Requirement) /\ p.locked \in Seq(Assignment(p))
  BY DEF WellFormed
<1>2. /\ DOMAIN p.reqs = 1 .. Len(p.reqs) /\ Len(p.reqs) \in Nat
      /\ DOMAIN p.locked = 1 .. Len(p.locked) /\ Len(p.locked) \in Nat
  BY <1>1, LenProperties
<1>3. IsFiniteSet(1 .. Len(p.reqs)) /\ IsFiniteSet(1 .. Len(p.locked))
  <2>1. \A n \in Nat : IsFiniteSet(1 .. n)
    BY FS_Interval
  <2> QED
    BY <1>2, <2>1
<1>4. \A r \in DOMAIN p.reqs : p.reqs[r] \in Requirement
  BY <1>1
<1>5. \A k \in DOMAIN p.locked : p.locked[k] \in Assignment(p)
  BY <1>1
<1> QED
  BY <1>2, <1>3, <1>4, <1>5 DEF Requirement

\* Two sessions clash with each other or not at all.
LEMMA ClashBoth == \A p, a, b : Clash(p, a, b) <=> Clash(p, b, a)
<1> TAKE p, a, b
<1>1. Occupied(p, a) \cap Occupied(p, b) = Occupied(p, b) \cap Occupied(p, a)
  OBVIOUS
<1> QED
  BY <1>1 DEF Clash, GroupsOverlap

\* A session takes the slot it starts in.
LEMMA StartTaken ==
  ASSUME NEW p, WellFormed(p), NEW a \in Assignment(p)
  PROVE  a.slot \in Occupied(p, a) /\ a.slot = <<a.slot[1], a.slot[2]>> /\ a.slot[1] \in Nat /\ a.slot[2] \in Nat
<1>1. a.slot \in Slots /\ a.req \in DOMAIN p.reqs
  BY DEF Assignment
<1>2. a.slot \in Nat \X Nat
  BY <1>1, GridAssumption
<1>3. a.slot = <<a.slot[1], a.slot[2]>> /\ a.slot[1] \in Nat /\ a.slot[2] \in Nat
  BY <1>2
<1>4. p.reqs[a.req].duration \in Nat \ {0}
  BY <1>1, Fields
<1>5. 0 \in 0 .. p.reqs[a.req].duration - 1 /\ a.slot = <<a.slot[1], a.slot[2] + 0>>
  BY <1>3, <1>4
<1> QED
  BY <1>3, <1>5 DEF Occupied, Span

\* Two sessions of a teacher that start in one slot clash.
LEMMA SameStart ==
  ASSUME NEW p, WellFormed(p), NEW a \in Assignment(p), NEW b \in Assignment(p),
         a.slot = b.slot, FacultyOf(p, a) = FacultyOf(p, b)
  PROVE  Clash(p, a, b)
BY StartTaken DEF Clash

\* The decisions about a requirement, and the locked sessions of one.
DecisionsOf(p, r) == {d \in Decisions(p) : d[1] = r}
LockedOf(p, r)    == {k \in DOMAIN p.locked : p.locked[k].req = r}

\* Together they are the sessions a week is to have.
LEMMA SessionsCounted ==
  ASSUME NEW p, WellFormed(p), LockedValid(p), NEW r \in DOMAIN p.reqs
  PROVE  /\ IsFiniteSet(DecisionsOf(p, r)) /\ IsFiniteSet(LockedOf(p, r))
         /\ Cardinality(LockedOf(p, r)) = LockedCount(p, r)
         /\ LockedCount(p, r) \in Nat /\ LockedCount(p, r) <= p.reqs[r].perWeek
         /\ Cardinality(DecisionsOf(p, r)) = p.reqs[r].perWeek - LockedCount(p, r)
         /\ DecisionsOf(p, r) = {r} \X (LockedCount(p, r) .. p.reqs[r].perWeek - 1)
<1> DEFINE n == p.reqs[r].perWeek
           m == LockedCount(p, r)
<1>1. n \in Nat \ {0}
  BY Fields
<1>2. IsFiniteSet(LockedOf(p, r)) /\ Cardinality(LockedOf(p, r)) = m
  BY Fields, FS_Subset DEF LockedOf, LockedCount
<1>3. m \in Nat /\ m <= n
  BY <1>2, FS_CardinalityType DEF LockedValid
<1>4. DecisionsOf(p, r) = {r} \X (m .. n - 1)
  BY DEF DecisionsOf, Decisions
<1> HIDE DEF n, m
<1>5. IsFiniteSet(m .. n - 1) /\ Cardinality(m .. n - 1) = n - m
  <2>1. /\ IsFiniteSet(m .. n - 1)
        /\ Cardinality(m .. n - 1) = IF m > n - 1 THEN 0 ELSE (n - 1) - m + 1
    BY <1>1, <1>3, FS_Interval
  <2> QED
    BY <1>1, <1>3, <2>1
<1>6. IsFiniteSet({r}) /\ Cardinality({r}) = 1
  BY FS_Singleton
<1>7. IsFiniteSet({r} \X (m .. n - 1)) /\ Cardinality({r} \X (m .. n - 1)) = 1 * (n - m)
  <2> DEFINE T == m .. n - 1
  <2>1. IsFiniteSet(T) /\ Cardinality(T) = n - m
    BY <1>5
  <2> HIDE DEF T
  <2>2. IsFiniteSet({r} \X T) /\ Cardinality({r} \X T) = Cardinality({r}) * Cardinality(T)
    BY <1>6, <2>1, FS_Product
  <2> QED
    BY <1>6, <2>1, <2>2 DEF T
<1>8. 1 * (n - m) = n - m
  BY <1>1, <1>3
<1> QED
  BY <1>1, <1>2, <1>3, <1>4, <1>7, <1>8 DEF n, m

\* There are finitely many decisions.
LEMMA DecisionsFinite ==
  ASSUME NEW p, WellFormed(p), LockedValid(p)
  PROVE  IsFiniteSet(Decisions(p)) /\ \A d \in Decisions(p) : d[1] \in DOMAIN p.reqs /\ d \in AssignmentIDs
<1>1. \A d \in Decisions(p) : \E r \in DOMAIN p.reqs : d \in DecisionsOf(p, r)
  BY DEF Decisions, DecisionsOf
<1>2. Decisions(p) = UNION {DecisionsOf(p, r) : r \in DOMAIN p.reqs}
  BY <1>1 DEF DecisionsOf
<1> DEFINE A == [r \in DOMAIN p.reqs |-> DecisionsOf(p, r)]
           f == [r \in DOMAIN p.reqs |-> Cardinality(A[r])]
<1>3. \A r \in DOMAIN p.reqs : IsFiniteSet(A[r])
  BY SessionsCounted
<1>4. \A r, q \in DOMAIN p.reqs : r # q => A[r] \cap A[q] = {}
  BY DEF DecisionsOf
<1>5. IsFiniteSet(DOMAIN p.reqs) /\ \A r \in DOMAIN p.reqs : f[r] = Cardinality(A[r])
  BY Fields
<1>6. UNION {A[r] : r \in DOMAIN p.reqs} = Decisions(p)
  BY <1>2
<1> HIDE DEF A, f
<1>7. IsFiniteSet(Decisions(p))
  BY <1>3, <1>4, <1>5, <1>6, CountApart
<1>8. ASSUME NEW d \in Decisions(p)
      PROVE  d[1] \in DOMAIN p.reqs /\ d \in AssignmentIDs
  <2>1. PICK r \in DOMAIN p.reqs : d \in DecisionsOf(p, r)
    BY <1>1
  <2>2. d \in {r} \X (LockedCount(p, r) .. p.reqs[r].perWeek - 1)
    BY <2>1, SessionsCounted
  <2>3. LockedCount(p, r) \in Nat /\ p.reqs[r].perWeek \in Nat /\ r \in Nat
    <3>1. DOMAIN p.reqs \subseteq Nat
      BY DEF WellFormed
    <3> QED
      BY <3>1, SessionsCounted, Fields
  <2> QED
    BY <2>2, <2>3 DEF AssignmentIDs
<1> QED
  BY <1>7, <1>8

-----------------------------------------------------------------------------
(* What the analysis before the search turns down has no timetable.        *)

\* The session of a decision.
LEMMA Placed ==
  ASSUME NEW p, WellFormed(p), LockedValid(p), NEW f \in [Decisions(p) -> Candidates], NEW d \in Decisions(p)
  PROVE  /\ Assign(d, f[d]) \in Assignment(p)
         /\ Assign(d, f[d]).req = d[1] /\ Assign(d, f[d]).slot = f[d][2] /\ Assign(d, f[d]).id = d
         /\ FacultyOf(p, Assign(d, f[d])) = p.reqs[d[1]].faculty
<1>1. d[1] \in DOMAIN p.reqs /\ d \in AssignmentIDs
  BY DecisionsFinite
<1>2. f[d] \in Candidates
  OBVIOUS
<1>3. f[d][1] \in Rooms /\ f[d][2] \in Slots
  BY <1>2 DEF Candidates
<1>4. Assign(d, f[d]) = [id |-> d, req |-> d[1], room |-> f[d][1], slot |-> f[d][2]]
  BY DEF Assign
<1>5. Assign(d, f[d]) \in Assignment(p)
  BY <1>1, <1>3, <1>4 DEF Assignment
<1>6. Assign(d, f[d]).req = d[1] /\ Assign(d, f[d]).slot = f[d][2] /\ Assign(d, f[d]).id = d
  BY <1>4
<1> QED
  BY <1>5, <1>6 DEF FacultyOf

\* The starts of the sessions of a requirement.
LockedStarts(p, r)    == {p.locked[k].slot : k \in LockedOf(p, r)}
PlacedStarts(p, f, r) == {f[d][2] : d \in DecisionsOf(p, r)}
StartsOf(p, f, r)     == LockedStarts(p, r) \cup PlacedStarts(p, f, r)

\* The sessions of one teacher start at different times.
LEMMA StartsDiffer ==
  ASSUME NEW p, WellFormed(p), LockedValid(p), NEW f \in [Decisions(p) -> Candidates], Works(p, f)
  PROVE  /\ \A k, j \in DOMAIN p.locked :
              k # j /\ FacultyOf(p, p.locked[k]) = FacultyOf(p, p.locked[j]) => p.locked[k].slot # p.locked[j].slot
         /\ \A d, e \in Decisions(p) :
              d # e /\ p.reqs[d[1]].faculty = p.reqs[e[1]].faculty => f[d][2] # f[e][2]
         /\ \A d \in Decisions(p), k \in DOMAIN p.locked :
              p.reqs[d[1]].faculty = FacultyOf(p, p.locked[k]) => f[d][2] # p.locked[k].slot
<1>1. ASSUME NEW k \in DOMAIN p.locked, NEW j \in DOMAIN p.locked, k # j,
             FacultyOf(p, p.locked[k]) = FacultyOf(p, p.locked[j])
      PROVE  p.locked[k].slot # p.locked[j].slot
  <2>1. k < j \/ j < k
    BY <1>1, Fields
  <2>2. ~Clash(p, p.locked[k], p.locked[j])
    BY <2>1, ClashBoth DEF LockedValid
  <2>3. p.locked[k] \in Assignment(p) /\ p.locked[j] \in Assignment(p)
    BY Fields
  <2> QED
    BY <1>1, <2>2, <2>3, SameStart
<1>2. ASSUME NEW d \in Decisions(p), NEW e \in Decisions(p), d # e, p.reqs[d[1]].faculty = p.reqs[e[1]].faculty
      PROVE  f[d][2] # f[e][2]
  <2>1. ~Clash(p, Assign(d, f[d]), Assign(e, f[e]))
    BY <1>2 DEF Works
  <2> QED
    BY <1>2, <2>1, Placed, SameStart
<1>3. ASSUME NEW d \in Decisions(p), NEW k \in DOMAIN p.locked, p.reqs[d[1]].faculty = FacultyOf(p, p.locked[k])
      PROVE  f[d][2] # p.locked[k].slot
  <2>1. ~Clash(p, Assign(d, f[d]), p.locked[k])
    BY DEF Works
  <2>2. p.locked[k] \in Assignment(p)
    BY Fields
  <2> QED
    BY <1>3, <2>1, <2>2, Placed, SameStart
<1> QED
  BY <1>1, <1>2, <1>3

\* Every start of a requirement is that of a session which suits.
LEMMA StartOfSession ==
  ASSUME NEW p, WellFormed(p), LockedValid(p), NEW f \in [Decisions(p) -> Candidates], Works(p, f),
         NEW r \in DOMAIN p.reqs, NEW slot \in StartsOf(p, f, r)
  PROVE  \E a \in Assignment(p) : a.req = r /\ a.slot = slot /\ Suits(p, a)
<1>1. CASE slot \in LockedStarts(p, r)
  <2>1. PICK k \in DOMAIN p.locked : p.locked[k].req = r /\ slot = p.locked[k].slot
    BY <1>1 DEF LockedStarts, LockedOf
  <2>2. p.locked[k] \in Assignment(p) /\ Suits(p, p.locked[k])
    BY Fields DEF LockedValid
  <2> QED
    BY <2>1, <2>2
<1>2. CASE slot \in PlacedStarts(p, f, r)
  <2>1. PICK d \in Decisions(p) : d[1] = r /\ slot = f[d][2]
    BY <1>2 DEF PlacedStarts, DecisionsOf
  <2>2. Suits(p, Assign(d, f[d]))
    BY DEF Works
  <2> QED
    BY <2>1, <2>2, Placed
<1> QED
  BY <1>1, <1>2 DEF StartsOf

\* As many starts as sessions a week.
LEMMA StartsCounted ==
  ASSUME NEW p, WellFormed(p), LockedValid(p), NEW f \in [Decisions(p) -> Candidates], Works(p, f),
         NEW r \in DOMAIN p.reqs
  PROVE  IsFiniteSet(StartsOf(p, f, r)) /\ Cardinality(StartsOf(p, f, r)) = p.reqs[r].perWeek
<1> DEFINE K == LockedOf(p, r)
           D == DecisionsOf(p, r)
           A == LockedStarts(p, r)
           B == PlacedStarts(p, f, r)
           g == [k \in K |-> p.locked[k].slot]
           h == [d \in D |-> f[d][2]]
<1>1. IsFiniteSet(K) /\ IsFiniteSet(D) /\ Cardinality(K) = LockedCount(p, r)
      /\ Cardinality(D) = p.reqs[r].perWeek - LockedCount(p, r)
      /\ LockedCount(p, r) \in Nat /\ p.reqs[r].perWeek \in Nat
  BY SessionsCounted, Fields
<1>2. \A k, j \in K : k # j => g[k] # g[j]
  BY StartsDiffer DEF LockedOf, FacultyOf
<1>3. \A d, e \in D : d # e => h[d] # h[e]
  BY StartsDiffer DEF DecisionsOf
<1>4. A \cap B = {}
  BY StartsDiffer DEF LockedStarts, PlacedStarts, LockedOf, DecisionsOf, FacultyOf
<1>5. A = {g[k] : k \in K} /\ B = {h[d] : d \in D} /\ DOMAIN g = K /\ DOMAIN h = D
  BY DEF LockedStarts, PlacedStarts
<1> HIDE DEF K, D, A, B, g, h
<1>6. IsFiniteSet(A) /\ Cardinality(A) = Cardinality(K)
  BY <1>1, <1>2, <1>5, Renamed
<1>7. IsFiniteSet(B) /\ Cardinality(B) = Cardinality(D)
  BY <1>1, <1>3, <1>5, Renamed
<1>8. IsFiniteSet(A \cup B) /\ Cardinality(A \cup B) = Cardinality(A) + Cardinality(B) - Cardinality(A \cap B)
  BY <1>6, <1>7, FS_Union
<1>9. Cardinality(A \cap B) = 0
  BY <1>4, FS_EmptySet
<1>10. Cardinality(A \cup B) = p.reqs[r].perWeek
  BY <1>1, <1>6, <1>7, <1>8, <1>9
<1>11. StartsOf(p, f, r) = A \cup B
  BY DEF StartsOf, A, B
<1> QED
  BY <1>8, <1>10, <1>11

\* Where a session takes place there are seats, unless its group needs none.
LEMMA SeatsFound ==
  ASSUME NEW p, WellFormed(p), NEW a \in Assignment(p), Suits(p, a), FeatureBottleneck(p, a.req)
  PROVE  NeedsNoSeats(p, a.req)
<1> DEFINE R == RoomsWith(p, p.reqs[a.req].features)
           c == [room \in R |-> p.rooms[room].capacity]
<1>1. a.room \in Rooms /\ a.req \in DOMAIN p.reqs
  BY DEF Assignment
<1>2. a.room \in R
  BY <1>1 DEF Suits, RoomHasFeatures, RoomsWith
<1>3. DOMAIN c = R /\ IsFiniteSet(R) /\ \A room \in R : c[room] \in Nat
  <2>1. IsFiniteSet(Rooms)
    BY GridAssumption, FS_Interval DEF Rooms
  <2>2. R \subseteq Rooms
    BY DEF RoomsWith
  <2>3. \A room \in Rooms : p.rooms[room].capacity \in Nat
    BY DEF WellFormed, Room
  <2> QED
    BY <2>1, <2>2, <2>3, FS_Subset
<1>4. SumFunction(c) = 0
  BY DEF FeatureBottleneck
<1>5. \A room \in R : p.rooms[room].capacity = 0
  <2>1. \A room \in R : c[room] = 0
    <3> HIDE DEF c, R
    <3>1. SumFunctionOnSet(c, R) = 0
      BY <1>3, <1>4 DEF SumFunction
    <3>2. \A room \in R : c[room] <= SumFunctionOnSet(c, R)
      BY <1>3, SumNat
    <3> QED
      BY <1>3, <3>1, <3>2
  <2> QED
    BY <2>1
<1>6. p.sizes[p.reqs[a.req].group] = 0
  <2>1. p.sizes[p.reqs[a.req].group] <= p.rooms[a.room].capacity
    BY DEF Suits, RoomCapacity, GroupOf
  <2>2. p.sizes[p.reqs[a.req].group] \in Nat
    BY <1>1, Fields DEF WellFormed
  <2> QED
    BY <1>2, <1>5, <2>1, <2>2
<1> QED
  BY <1>2, <1>5, <1>6 DEF FeatureBottleneck, NeedsNoSeats

\* A start of a requirement is one the analysis counts, and its room is eligible.
LEMMA StartPossible ==
  ASSUME NEW p, WellFormed(p), NEW a \in Assignment(p), Suits(p, a)
  PROVE  /\ a.slot \in PossibleStarts(p, a.req) /\ a.slot \in p.free[FacultyOf(p, a)]
         /\ a.room \in EligibleRooms(p, a.req)
         /\ FeatureBottleneck(p, a.req) => NeedsNoSeats(p, a.req)
<1>1. a.room \in Rooms /\ a.slot \in Slots /\ a.req \in DOMAIN p.reqs
  BY DEF Assignment
<1>2. Occupied(p, a) = Span(a.slot, p.reqs[a.req].duration)
  BY DEF Occupied
<1>3. /\ Span(a.slot, p.reqs[a.req].duration) \subseteq Slots \cap p.free[p.reqs[a.req].faculty]
      /\ Span(a.slot, p.reqs[a.req].duration) \subseteq p.rooms[a.room].open
  BY <1>2 DEF Suits, Available, FacultyOf
<1>4. a.room \in EligibleRooms(p, a.req)
  BY <1>1 DEF Suits, RoomCapacity, RoomHasFeatures, GroupOf, EligibleRooms
<1>5. FeatureBottleneck(p, a.req) => NeedsNoSeats(p, a.req)
  BY SeatsFound
<1>6. a.slot \in PossibleStarts(p, a.req)
  BY <1>1, <1>3, <1>4 DEF PossibleStarts
<1>7. a.slot \in p.free[FacultyOf(p, a)]
  BY <1>2, <1>3, StartTaken DEF FacultyOf
<1> QED
  BY <1>4, <1>5, <1>6, <1>7

\* A requirement with too few starts, no room or no equipment has no timetable, unless its
\* group has no students and the rooms have no seats.
LEMMA RequirementHopeless ==
  ASSUME NEW p, WellFormed(p), LockedValid(p), NEW f \in [Decisions(p) -> Candidates], Works(p, f),
         NEW r \in DOMAIN p.reqs
  PROVE  ~ZeroDomain(p, r) /\ (FeatureBottleneck(p, r) => NeedsNoSeats(p, r))
<1> DEFINE S == StartsOf(p, f, r)
           P == PossibleStarts(p, r)
<1>1. IsFiniteSet(S) /\ Cardinality(S) = p.reqs[r].perWeek /\ p.reqs[r].perWeek \in Nat \ {0}
  BY StartsCounted, Fields
<1>2. \A slot \in S : /\ slot \in P /\ EligibleRooms(p, r) # {}
                      /\ FeatureBottleneck(p, r) => NeedsNoSeats(p, r)
  BY StartOfSession, StartPossible
<1>3. P \subseteq Slots
  BY DEF PossibleStarts
<1> HIDE DEF S, P
<1>4. S # {}
  BY <1>1, FS_EmptySet
<1>5. IsFiniteSet(P)
  BY <1>3, GridAssumption, FS_Subset
<1>6. Cardinality(S) <= Cardinality(P) /\ Cardinality(P) \in Nat
  BY <1>2, <1>5, FS_Subset, FS_CardinalityType
<1>7. ~(Cardinality(P) < p.reqs[r].perWeek)
  BY <1>1, <1>6
<1> QED
  BY <1>2, <1>4, <1>7 DEF ZeroDomain, P

\* A teacher with more sessions than free slots has no timetable.
LEMMA TeacherHopeless ==
  ASSUME NEW p, WellFormed(p), LockedValid(p), NEW f \in [Decisions(p) -> Candidates], Works(p, f),
         NEW teacher \in Faculty
  PROVE  ~FacultyOverload(p, teacher)
<1> DEFINE R == {q \in DOMAIN p.reqs : p.reqs[q].faculty = teacher}
           A == [r \in R |-> StartsOf(p, f, r)]
           w == [r \in R |-> p.reqs[r].perWeek]
           U == UNION {A[r] : r \in R}
<1>1. IsFiniteSet(R) /\ DOMAIN w = R
  BY Fields, FS_Subset
<1>2. \A r \in R : IsFiniteSet(A[r])
  BY StartsCounted
<1>10. \A r \in R : w[r] = Cardinality(A[r])
  BY StartsCounted
<1>3. ASSUME NEW r \in R, NEW q \in R, r # q
      PROVE  A[r] \cap A[q] = {}
  <2>1. p.reqs[r].faculty = p.reqs[q].faculty
    OBVIOUS
  <2>2. LockedStarts(p, r) \cap LockedStarts(p, q) = {}
    BY <1>3, <2>1, StartsDiffer DEF LockedStarts, LockedOf, FacultyOf
  <2>3. PlacedStarts(p, f, r) \cap PlacedStarts(p, f, q) = {}
    BY <1>3, <2>1, StartsDiffer DEF PlacedStarts, DecisionsOf
  <2>4. LockedStarts(p, r) \cap PlacedStarts(p, f, q) = {}
    BY <2>1, StartsDiffer DEF LockedStarts, PlacedStarts, LockedOf, DecisionsOf, FacultyOf
  <2>5. PlacedStarts(p, f, r) \cap LockedStarts(p, q) = {}
    BY <2>1, StartsDiffer DEF LockedStarts, PlacedStarts, LockedOf, DecisionsOf, FacultyOf
  <2> QED
    BY <2>2, <2>3, <2>4, <2>5 DEF StartsOf
<1>4. U \subseteq p.free[teacher]
  <2>1. ASSUME NEW r \in R, NEW slot \in StartsOf(p, f, r)
        PROVE  slot \in p.free[teacher]
    <3>1. PICK a \in Assignment(p) : a.req = r /\ a.slot = slot /\ Suits(p, a)
      BY StartOfSession
    <3> QED
      BY <3>1, StartPossible DEF FacultyOf
  <2> QED
    BY <2>1
<1>5. IsFiniteSet(p.free[teacher])
  <2>1. p.free[teacher] \subseteq Slots
    BY DEF WellFormed
  <2> QED
    BY <2>1, GridAssumption, FS_Subset
<1>6. SessionsOf(p, teacher) = SumFunctionOnSet(w, R)
  BY <1>1 DEF SessionsOf, SumFunction
<1>7. \A r, q \in R : r # q => A[r] \cap A[q] = {}
  BY <1>3
<1> HIDE DEF R, A, w
<1>8. Cardinality(UNION {A[r] : r \in R}) = SumFunctionOnSet(w, R)
  BY <1>1, <1>2, <1>7, <1>10, CountApart, ZenonT(30)
<1>11. Cardinality(U) = SumFunctionOnSet(w, R)
  BY <1>8
<1> HIDE DEF U
<1>9. Cardinality(U) <= Cardinality(p.free[teacher]) /\ Cardinality(U) \in Nat /\ Cardinality(p.free[teacher]) \in Nat
  BY <1>4, <1>5, FS_Subset, FS_CardinalityType
<1> QED
  BY <1>6, <1>11, <1>9 DEF FacultyOverload

\* What the analysis turns down has no timetable, unless it needs no seats where none are.
LEMMA RejectedHopeless ==
  ASSUME NEW p, WellFormed(p), LockedValid(p), PreSolveRejects(p)
  PROVE  ~Solvable(p) \/ \E r \in DOMAIN p.reqs : NeedsNoSeats(p, r)
<1>1. SUFFICES ASSUME NEW f \in [Decisions(p) -> Candidates], Works(p, f),
                      \A r \in DOMAIN p.reqs : ~NeedsNoSeats(p, r)
               PROVE  FALSE
  BY DEF Solvable
<1>2. \A r \in DOMAIN p.reqs : ~ZeroDomain(p, r) /\ ~FeatureBottleneck(p, r)
  BY <1>1, RequirementHopeless
<1>3. \A teacher \in Faculty : ~FacultyOverload(p, teacher)
  BY <1>1, TeacherHopeless
<1> QED
  BY <1>2, <1>3 DEF PreSolveRejects

-----------------------------------------------------------------------------
(* A timetable of the searches: the locked sessions, then one session for  *)
(* every decision.                                                         *)

Later(p, l) == DOMAIN l \ DOMAIN p.locked

Handed(p, l) ==
  /\ l \in Seq(Assignment(p))
  /\ \A k \in DOMAIN p.locked : k \in DOMAIN l /\ l[k] = p.locked[k]
  /\ \A k \in Later(p, l) : l[k].id \in Decisions(p) /\ l[k].req = l[k].id[1]
  /\ \A k, j \in Later(p, l) : l[k].id = l[j].id => k = j
  /\ \A d \in Decisions(p) : \E k \in Later(p, l) : l[k].id = d

\* A finite set put in order: every element once.
LEMMA Ordered ==
  ASSUME NEW S, IsFiniteSet(S)
  PROVE  /\ SetToSeq(S) \in [1 .. Cardinality(S) -> S]
         /\ \A i, j \in 1 .. Cardinality(S) : SetToSeq(S)[i] = SetToSeq(S)[j] => i = j
         /\ \A x \in S : \E i \in 1 .. Cardinality(S) : SetToSeq(S)[i] = x
         /\ Cardinality(S) \in Nat
<1> DEFINE n == Cardinality(S)
<1>1. n \in Nat /\ ExistsBijection(1 .. n, S)
  BY FS_CardinalityType
<1> HIDE DEF n
<1>2. PICK b : b \in Bijection(1 .. n, S)
  BY <1>1 DEF ExistsBijection
<1>3. b \in [1 .. n -> S] /\ IsInjective(b)
  BY <1>2 DEF Bijection, Injection, IsInjective
<1> DEFINE o == CHOOSE f \in [1 .. n -> S] : IsInjective(f)
<1>4. o \in [1 .. n -> S] /\ IsInjective(o)
  BY <1>3
<1>5. o = SetToSeq(S)
  BY DEF SetToSeq, n
<1> HIDE DEF o
<1>6. o \in Injection(1 .. n, S)
  BY <1>4 DEF Injection
<1>7. IsFiniteSet(1 .. n) /\ Cardinality(1 .. n) = n
  BY <1>1, FS_Interval
<1>8. o \in Surjection(1 .. n, S)
  BY <1>6, <1>7, FS_Injection DEF n
<1>9. \A x \in S : \E i \in 1 .. n : o[i] = x
  BY <1>8 DEF Surjection
<1>10. \A i, j \in 1 .. n : o[i] = o[j] => i = j
  BY <1>4 DEF IsInjective
<1> QED
  BY <1>1, <1>4, <1>5, <1>9, <1>10 DEF n

\* What the first search finds is such a timetable, and every decision is where f puts it.
LEMMA TimetableHanded ==
  ASSUME NEW p, WellFormed(p), LockedValid(p), NEW f \in [Decisions(p) -> Candidates]
  PROVE  /\ Handed(p, Timetable(p, f))
         /\ \A k \in Later(p, Timetable(p, f)) :
              Timetable(p, f)[k] = Assign(Timetable(p, f)[k].id, f[Timetable(p, f)[k].id])
<1> DEFINE D == Decisions(p)
           o == SetToSeq(D)
           n == Cardinality(D)
           m == Len(p.locked)
           s == [k \in DOMAIN o |-> Assign(o[k], f[o[k]])]
           l == p.locked \o s
<1>1. /\ o \in [1 .. n -> D] /\ n \in Nat
      /\ \A i, j \in 1 .. n : o[i] = o[j] => i = j
      /\ \A d \in D : \E i \in 1 .. n : o[i] = d
  BY DecisionsFinite, Ordered
<1>2. l = Timetable(p, f)
  BY DEF Timetable
<1>3. \A d \in D : Assign(d, f[d]) \in Assignment(p) /\ Assign(d, f[d]).id = d /\ Assign(d, f[d]).req = d[1]
  BY Placed
<1> HIDE DEF D, o, n
<1>4. DOMAIN o = 1 .. n /\ \A i \in 1 .. n : o[i] \in D
  BY <1>1
<1>5. s \in [1 .. n -> Assignment(p)]
  BY <1>3, <1>4
<1>6. s \in Seq(Assignment(p)) /\ Len(s) = n
  BY <1>1, <1>5, IsASeq, LenProperties
<1>7. p.locked \in Seq(Assignment(p)) /\ m \in Nat /\ DOMAIN p.locked = 1 .. m
  BY Fields DEF WellFormed
<1>8. \A i \in 1 .. n : s[i] = Assign(o[i], f[o[i]])
  BY <1>4
<1> HIDE DEF s, m
<1>9. /\ l \in Seq(Assignment(p)) /\ Len(l) = m + n
      /\ \A i \in 1 .. m + n : l[i] = IF i <= m THEN p.locked[i] ELSE s[i - m]
  BY <1>6, <1>7, ConcatProperties DEF m
<1> HIDE DEF l
<1>10. DOMAIN l = 1 .. m + n
  BY <1>9, LenProperties
<1>11. \A k \in DOMAIN p.locked : k \in DOMAIN l /\ l[k] = p.locked[k]
  BY <1>1, <1>7, <1>9, <1>10
<1>12. \A k \in Later(p, l) : k - m \in 1 .. n /\ k \in Nat /\ l[k] = Assign(o[k - m], f[o[k - m]])
  BY <1>1, <1>7, <1>8, <1>9, <1>10 DEF Later
<1>13. \A k \in Later(p, l) : l[k].id = o[k - m] /\ o[k - m] \in D /\ l[k].req = o[k - m][1]
  BY <1>3, <1>4, <1>12
<1>14. \A k, j \in Later(p, l) : l[k].id = l[j].id => k = j
  <2> TAKE k, j \in Later(p, l)
  <2> HAVE l[k].id = l[j].id
  <2>1. k - m = j - m
    BY <1>1, <1>12, <1>13
  <2> QED
    BY <2>1, <1>7, <1>12
<1>15. ASSUME NEW d \in D
       PROVE  \E k \in Later(p, l) : l[k].id = d
  <2>1. PICK i \in 1 .. n : o[i] = d
    BY <1>1
  <2>2. m + i \in 1 .. m + n /\ ~(m + i \in 1 .. m) /\ (m + i) - m = i
    BY <1>1, <1>7
  <2>3. m + i \in Later(p, l)
    BY <2>2, <1>7, <1>10 DEF Later
  <2> QED
    BY <2>1, <2>2, <2>3, <1>13
<1>16. Handed(p, l)
  BY <1>9, <1>11, <1>13, <1>14, <1>15 DEF Handed, D
<1>17. \A k \in Later(p, l) : l[k] = Assign(l[k].id, f[l[k].id])
  BY <1>12, <1>13
<1> QED
  BY <1>2, <1>16, <1>17

\* The second search leaves the locked sessions alone and makes no session up.
LEMMA RearrangedHanded ==
  ASSUME NEW p, WellFormed(p), NEW old, Handed(p, old),
         NEW new \in Placings(old), Rearranged(p, old, new)
  PROVE  Handed(p, new)
<1>1. PICK at \in [DOMAIN old -> Candidates] : new = [k \in DOMAIN old |-> PlacedAt(old[k], at[k])]
  BY DEF Placings
<1>2. old \in Seq(Assignment(p)) /\ \A k \in DOMAIN old : old[k] \in Assignment(p)
  BY ElementOfSeq, LenProperties DEF Handed
<1>3. \A k \in DOMAIN old : /\ new[k] \in Assignment(p) /\ new[k].id = old[k].id /\ new[k].req = old[k].req
                            /\ IsLocked(p, old[k].id) => new[k] = old[k]
  <2> TAKE k \in DOMAIN old
  <2>1. at[k] \in Candidates /\ old[k] \in Assignment(p) /\ new[k] = PlacedAt(old[k], at[k])
    BY <1>1, <1>2
  <2>2. PlacedAt(old[k], at[k]) \in Assignment(p) /\ PlacedAt(old[k], at[k]).id = old[k].id
        /\ PlacedAt(old[k], at[k]).req = old[k].req
    BY <2>1, Placing
  <2>3. IsLocked(p, old[k].id) => new[k] = old[k]
    BY DEF Rearranged
  <2> QED
    BY <2>1, <2>2, <2>3
<1>4. DOMAIN new = DOMAIN old /\ DOMAIN old = 1 .. Len(old) /\ Len(old) \in Nat
  BY <1>1, <1>2, LenProperties
<1>5. new \in [1 .. Len(old) -> Assignment(p)]
  BY <1>1, <1>3, <1>4
<1>6. new \in Seq(Assignment(p))
  BY <1>4, <1>5, IsASeq
<1>7. \A k \in DOMAIN p.locked : k \in DOMAIN new /\ new[k] = p.locked[k]
  <2> TAKE k \in DOMAIN p.locked
  <2>1. k \in DOMAIN old /\ old[k] = p.locked[k]
    BY DEF Handed
  <2>2. IsLocked(p, old[k].id)
    BY <2>1 DEF IsLocked
  <2> QED
    BY <1>3, <1>4, <2>1, <2>2
<1>8. Later(p, new) = Later(p, old) /\ Later(p, new) \subseteq DOMAIN old
  BY <1>4 DEF Later
<1>9. \A k \in Later(p, new) : new[k].id = old[k].id /\ new[k].req = old[k].req
  BY <1>3, <1>8
<1>10. /\ \A k \in Later(p, new) : new[k].id \in Decisions(p) /\ new[k].req = new[k].id[1]
       /\ \A k, j \in Later(p, new) : new[k].id = new[j].id => k = j
  BY <1>8, <1>9 DEF Handed
<1>11. \A d \in Decisions(p) : \E k \in Later(p, new) : new[k].id = d
  BY <1>8, <1>9 DEF Handed
<1> QED
  BY <1>6, <1>7, <1>10, <1>11 DEF Handed

\* The sessions of a timetable that share a requirement are as many as it has a week.
LEMMA WeekOf ==
  ASSUME NEW p, WellFormed(p), LockedValid(p), NEW l, Handed(p, l), NEW r \in DOMAIN p.reqs
  PROVE  /\ IsFiniteSet({k \in DOMAIN l : l[k].req = r})
         /\ Cardinality({k \in DOMAIN l : l[k].req = r}) = p.reqs[r].perWeek
<1> DEFINE S == {k \in DOMAIN l : l[k].req = r}
           K == LockedOf(p, r)
           L == {k \in Later(p, l) : l[k].req = r}
           D == DecisionsOf(p, r)
           g == [k \in L |-> l[k].id]
<1>1. S = K \cup L /\ K \cap L = {}
  BY DEF Handed, Later, LockedOf
<1>2. /\ IsFiniteSet(K) /\ IsFiniteSet(D) /\ Cardinality(K) = LockedCount(p, r)
      /\ Cardinality(D) = p.reqs[r].perWeek - LockedCount(p, r)
      /\ LockedCount(p, r) \in Nat /\ p.reqs[r].perWeek \in Nat
  BY SessionsCounted, Fields
<1>3. IsFiniteSet(L)
  <2>1. IsFiniteSet(DOMAIN l)
    BY PlacesFinite DEF Handed
  <2>2. L \subseteq DOMAIN l
    BY DEF Later
  <2> QED
    BY <2>1, <2>2, FS_Subset
<1>4. \A x, y \in L : g[x] = g[y] => x = y
  BY DEF Handed
<1>5. {g[k] : k \in L} = D /\ DOMAIN g = L
  <2>1. \A k \in L : g[k] \in D
    BY DEF Handed, DecisionsOf
  <2>2. ASSUME NEW d \in D
        PROVE  \E k \in L : g[k] = d
    <3>1. PICK k \in Later(p, l) : l[k].id = d
      BY DEF DecisionsOf, Handed
    <3>2. l[k].req = r
      BY <3>1 DEF Handed, DecisionsOf
    <3> QED
      BY <3>1, <3>2
  <2> QED
    BY <2>1, <2>2
<1> HIDE DEF S, K, L, D, g
<1>6. Cardinality(L) = Cardinality(D)
  BY <1>3, <1>4, <1>5, Renamed
<1>7. IsFiniteSet(K \cup L) /\ Cardinality(K \cup L) = Cardinality(K) + Cardinality(L) - Cardinality(K \cap L)
  BY <1>2, <1>3, FS_Union
<1>8. Cardinality(K \cap L) = 0
  BY <1>1, FS_EmptySet
<1>9. IsFiniteSet(S) /\ Cardinality(S) = p.reqs[r].perWeek
  BY <1>1, <1>2, <1>6, <1>7, <1>8
<1> QED
  BY <1>9 DEF S

\* All of them are as many as all requirements have a week.
LEMMA LengthOf ==
  ASSUME NEW p, WellFormed(p), LockedValid(p), NEW l, Handed(p, l)
  PROVE  Len(l) = SumFunction([r \in DOMAIN p.reqs |-> p.reqs[r].perWeek])
<1> DEFINE R == DOMAIN p.reqs
           A == [r \in R |-> {k \in DOMAIN l : l[k].req = r}]
           w == [r \in R |-> p.reqs[r].perWeek]
<1>1. l \in Seq(Assignment(p))
  BY DEF Handed
<1>2. DOMAIN l = 1 .. Len(l) /\ Len(l) \in Nat
  BY <1>1, LenProperties
<1>3. Cardinality(DOMAIN l) = Len(l)
  <2>1. Cardinality(1 .. Len(l)) = IF 1 > Len(l) THEN 0 ELSE Len(l) - 1 + 1
    BY <1>2, FS_Interval
  <2> QED
    BY <1>2, <2>1
<1>4. \A k \in DOMAIN l : l[k].req \in R
  <2>1. \A k \in DOMAIN l : l[k] \in Assignment(p)
    BY <1>1
  <2> QED
    BY <2>1 DEF Assignment
<1>12. \A r \in R : A[r] = {k \in DOMAIN l : l[k].req = r}
  OBVIOUS
<1>13. \A k \in DOMAIN l : \E r \in R : k \in A[r]
  BY <1>4, <1>12
<1>14. \A r \in R : A[r] \subseteq DOMAIN l
  BY <1>12
<1>5. UNION {A[r] : r \in R} = DOMAIN l
  <2> HIDE DEF A
  <2> QED
    BY <1>13, <1>14
<1>6. \A r \in R : IsFiniteSet(A[r])
  BY <1>12, WeekOf
<1>7. \A r \in R : w[r] = Cardinality(A[r])
  <2> TAKE r \in R
  <2>1. Cardinality({k \in DOMAIN l : l[k].req = r}) = p.reqs[r].perWeek
    BY WeekOf
  <2>2. A[r] = {k \in DOMAIN l : l[k].req = r} /\ w[r] = p.reqs[r].perWeek
    OBVIOUS
  <2> QED
    BY <2>1, <2>2
<1>8. \A r, q \in R : r # q => A[r] \cap A[q] = {}
  OBVIOUS
<1>15. IsFiniteSet(R)
  BY Fields
<1>9. DOMAIN w = R
  OBVIOUS
<1> HIDE DEF R, A, w
<1>10. Cardinality(UNION {A[r] : r \in R}) = SumFunctionOnSet(w, R)
  BY <1>6, <1>7, <1>8, <1>15, CountApart
<1>11. Len(l) = SumFunction(w)
  BY <1>3, <1>5, <1>9, <1>10 DEF SumFunction
<1> QED
  BY <1>11 DEF w, R

\* The ids are distinct if no locked session bears the id of a decision.
LEMMA HandedListed ==
  ASSUME NEW p, WellFormed(p), LockedValid(p), NEW l, Handed(p, l), DistinctIds(p)
  PROVE  Listed(p, l)
<1>1. ASSUME NEW k \in DOMAIN l, NEW j \in DOMAIN l, k # j
      PROVE  l[k].id # l[j].id
  <2>1. CASE k \in DOMAIN p.locked /\ j \in DOMAIN p.locked
    <3>1. k < j \/ j < k
      BY <1>1, <2>1, Fields
    <3> QED
      BY <2>1, <3>1 DEF LockedValid, Handed
  <2>2. CASE k \in Later(p, l) /\ j \in Later(p, l)
    BY <1>1, <2>2 DEF Handed
  <2>3. CASE k \in DOMAIN p.locked /\ j \in Later(p, l)
    BY <2>3 DEF Handed, DistinctIds
  <2>4. CASE j \in DOMAIN p.locked /\ k \in Later(p, l)
    BY <2>4 DEF Handed, DistinctIds
  <2> QED
    BY <2>1, <2>2, <2>3, <2>4 DEF Later
<1> QED
  BY <1>1 DEF Listed, Handed

\* The instance numbers of the sessions are in range if those of the locked sessions are.
NumbersInRange(p) ==
  \A k \in DOMAIN p.locked : InstanceNumber(p.locked[k]) < p.reqs[p.locked[k].req].perWeek

\* The verification misses no session of a timetable handed over.
LEMMA HandedComplete ==
  ASSUME NEW p, WellFormed(p), LockedValid(p), NEW l, Handed(p, l), DistinctIds(p), NumbersInRange(p),
         \A k \in DOMAIN l : Suits(p, l[k])
  PROVE  Complete(p, l)
<1>1. \A k, j \in DOMAIN l : l[k].id = l[j].id => k = j
  BY HandedListed DEF Listed
<1>2. ASSUME NEW k \in DOMAIN l
      PROVE  /\ Occupied(p, l[k]) \subseteq Slots
             /\ InstanceNumber(l[k]) < p.reqs[l[k].req].perWeek
  <2>1. Occupied(p, l[k]) \subseteq Slots
    BY DEF Suits, Available
  <2>2. CASE k \in DOMAIN p.locked
    BY <2>1, <2>2 DEF Handed, NumbersInRange
  <2>3. CASE k \in Later(p, l)
    <3> DEFINE d == l[k].id
               r == d[1]
    <3>1. d \in Decisions(p) /\ l[k].req = r
      BY <2>3 DEF Handed
    <3>2. r \in DOMAIN p.reqs
      BY <3>1, DecisionsFinite
    <3>6. d \in DecisionsOf(p, r)
      BY <3>1 DEF DecisionsOf
    <3>3. d \in {r} \X (LockedCount(p, r) .. p.reqs[r].perWeek - 1)
      BY <3>6, <3>2, SessionsCounted
    <3>4. LockedCount(p, r) \in Nat /\ p.reqs[r].perWeek \in Nat
      BY <3>2, SessionsCounted, Fields
    <3>5. InstanceNumber(l[k]) = d[2]
      BY <3>1 DEF InstanceNumber
    <3> QED
      BY <2>1, <3>1, <3>3, <3>4, <3>5
  <2> QED
    BY <2>2, <2>3 DEF Later
<1>3. \A r \in DOMAIN p.reqs : Cardinality({k \in DOMAIN l : l[k].req = r}) = p.reqs[r].perWeek
  BY WeekOf
<1> QED
  BY <1>1, <1>2, <1>3, LengthOf DEF Complete

\* The last session with an id is the only one.
LEMMA LastOnly ==
  ASSUME NEW p, NEW l, Listed(p, l), NEW k \in DOMAIN l
  PROVE  LastWith(l, l[k].id) = k
<1> DEFINE i == l[k].id
           Is(m) == m \in DOMAIN l /\ l[m].id = i /\ \A j \in m + 1 .. Len(l) : l[j].id # i
<1>1. l \in Seq(Assignment(p)) /\ \A m \in DOMAIN l : l[m].id = i => m = k
  BY DEF Listed
<1>2. DOMAIN l = 1 .. Len(l) /\ Len(l) \in Nat
  BY <1>1, LenProperties
<1>3. Is(k)
  BY <1>1, <1>2
<1>4. \A m : Is(m) => m = k
  BY <1>1
<1> HIDE DEF i
<1>5. (CHOOSE m \in DOMAIN l : l[m].id = i /\ \A j \in m + 1 .. Len(l) : l[j].id # i) = k
  BY <1>3, <1>4
<1> QED
  BY <1>5 DEF LastWith, i

\* The locked sessions are kept.
LEMMA HandedKept ==
  ASSUME NEW p, NEW l, Handed(p, l), Listed(p, l)
  PROVE  LockedKept(p, l)
<1> SUFFICES ASSUME NEW k \in DOMAIN p.locked
             PROVE  /\ Present(l, p.locked[k].id)
                    /\ l[LastWith(l, p.locked[k].id)] = p.locked[k]
  BY DEF LockedKept
<1>1. k \in DOMAIN l /\ l[k] = p.locked[k]
  BY DEF Handed
<1>2. LastWith(l, l[k].id) = k
  BY <1>1, LastOnly
<1> QED
  BY <1>1, <1>2 DEF Present

\* A list that passes the check of its integrity is sound.
LEMMA VerifiedSound ==
  ASSUME NEW p, NEW l, l \in Seq(Assignment(p)), Complete(p, l), LockedKept(p, l)
  PROVE  Sound(p, l) /\ Listed(p, l)
<1>1. \A k, j \in DOMAIN l : k # j => l[k].id # l[j].id
  BY DEF Complete
<1>2. Listed(p, l)
  BY <1>1 DEF Listed
<1>3. ASSUME NEW k \in DOMAIN p.locked
      PROVE  \E j \in DOMAIN l : l[j] = p.locked[k]
  <2>1. PICK j \in DOMAIN l : l[j].id = p.locked[k].id
    BY DEF LockedKept, Present
  <2>2. LastWith(l, l[j].id) = j
    BY <1>2, LastOnly
  <2> QED
    BY <2>1, <2>2 DEF LockedKept
<1> QED
  BY <1>1, <1>2, <1>3 DEF Sound, Complete

-----------------------------------------------------------------------------
(* The index the verification builds, and the constraints it asks of it.   *)

\* A cell with holders bears the id of one of them.
LEMMA OwnerOfSome ==
  ASSUME NEW p, NEW l \in Seq(Assignment(p)), NEW H \in SUBSET DOMAIN l, H # {}
  PROVE  \E m \in H : Owner(l, H) = l[m].id
<1>1. H \in SUBSET Nat /\ IsFiniteSet(H)
  BY PlacesFinite, FS_Subset
<1>2. Max(H) \in H /\ \A j \in H : j <= Max(H)
  BY <1>1, Extremes
<1> DEFINE m == CHOOSE k \in H : \A j \in H : j <= k
<1>3. m \in H
  BY <1>2
<1>4. Owner(l, H) = l[m].id
  BY DEF Owner
<1> QED
  BY <1>3, <1>4

\* The resources of a session, and what it holds if it fits.
LEMMA Holdings ==
  ASSUME NEW p, WellFormed(p), NEW a \in Assignment(p), Occupied(p, a) \subseteq Slots
  PROVE  /\ FacultyOf(p, a) \in Faculty /\ GroupOf(p, a) \in Groups /\ a.room \in Rooms
         /\ Held(p, a) = Occupied(p, a)
<1>1. a.req \in DOMAIN p.reqs /\ a.room \in Rooms
  BY DEF Assignment
<1> QED
  BY <1>1, Fields DEF FacultyOf, GroupOf, Held

\* Sessions that are kept apart are in no conflict.
LEMMA ApartNoConflict ==
  ASSUME NEW p, WellFormed(p), NEW l, Listed(p, l), KeptApart(p, l),
         NEW k \in DOMAIN l, Occupied(p, l[k]) \subseteq Slots
  PROVE  ~Conflicts(p, BuildIndex(p, l), l[k])
<1> DEFINE s == BuildIndex(p, l)
           a == l[k]
<1>1. a \in Assignment(p)
  BY DEF Listed
<1>2. FacultyOf(p, a) \in Faculty /\ GroupOf(p, a) \in Groups /\ a.room \in Rooms /\ Held(p, a) = Occupied(p, a)
  BY <1>1, Holdings
<1>3. /\ Owned(p, l, s.faculty, Faculty \X Slots, FacultyHeld(p, l))
      /\ Owned(p, l, s.room, Rooms \X Slots, RoomHeld(p, l))
      /\ Owned(p, l, s.group, Groups \X Slots, GroupHeld(p, l))
  BY Asunder, Built, ColumnOwned
<1>4. /\ FacultyHeld(p, l)[k] = {FacultyOf(p, a)} \X Occupied(p, a)
      /\ RoomHeld(p, l)[k] = {a.room} \X Occupied(p, a)
  BY <1>2 DEF FacultyHeld, RoomHeld, HeldFaculty, HeldRoom
<1> HIDE DEF s
<1>5. ASSUME NEW c \in Occupied(p, a)
      PROVE  s.faculty[<<FacultyOf(p, a), c>>] = a.id /\ s.room[<<a.room, c>>] = a.id
  <2>1. <<FacultyOf(p, a), c>> \in Faculty \X Slots /\ <<FacultyOf(p, a), c>> \in FacultyHeld(p, l)[k]
    BY <1>2, <1>4
  <2>2. <<a.room, c>> \in Rooms \X Slots /\ <<a.room, c>> \in RoomHeld(p, l)[k]
    BY <1>2, <1>4
  <2> QED
    BY <1>3, <2>1, <2>2 DEF Owned
<1>6. ASSUME NEW c \in Occupied(p, a), NEW g \in Overlapping(GroupOf(p, a)), s.group[<<g, c>>] # None
      PROVE  s.group[<<g, c>>] = a.id
  <2> DEFINE x == <<g, c>>
  <2>1. x \in Groups \X Slots
    BY DEF Overlapping
  <2>2. PICK j \in DOMAIN l : x \in GroupHeld(p, l)[j]
    BY <1>3, <1>6, <2>1 DEF Owned
  <2>3. s.group[x] = l[j].id
    BY <1>3, <2>1, <2>2 DEF Owned
  <2>4. g = GroupOf(p, l[j]) /\ c \in Occupied(p, l[j])
    BY <2>2 DEF GroupHeld, HeldGroup, Held
  <2>5. Clash(p, a, l[j])
    BY <2>4 DEF Clash, Overlapping
  <2>6. j = k
    BY <2>5, Asunder
  <2> QED
    BY <2>3, <2>6
<1>7. ~FacultyConflict(p, s, a) /\ ~RoomConflict(p, s, a)
  BY <1>5 DEF FacultyConflict, RoomConflict, Taken
<1>8. ~StudentGroupConflict(p, s, a)
  BY <1>6 DEF StudentGroupConflict, Taken
<1> QED
  BY <1>7, <1>8 DEF Conflicts, s

\* A session of one slot lies in the slot it starts in.
LEMMA OneSlot ==
  ASSUME NEW p, WellFormed(p), OneSlotSessions(p), NEW a \in Assignment(p)
  PROVE  Occupied(p, a) = {a.slot}
<1>1. a.req \in DOMAIN p.reqs
  BY DEF Assignment
<1>2. p.reqs[a.req].duration = 1
  BY <1>1 DEF OneSlotSessions
<1>3. 0 .. p.reqs[a.req].duration - 1 = {0}
  BY <1>2
<1>4. a.slot = <<a.slot[1], a.slot[2] + 0>>
  BY StartTaken
<1> QED
  BY <1>3, <1>4 DEF Occupied, Span

\* One cell: a session that holds it and does not own it is in conflict there.
LEMMA HolderTaken ==
  ASSUME NEW p, NEW l, Listed(p, l), NEW D, NEW C, NEW res, NEW c \in Slots, <<res, c>> \in D,
         NEW j \in DOMAIN l, <<res, c>> \in C[j]
  PROVE  \E m \in DOMAIN l : /\ <<res, c>> \in C[m]
                             /\ \A k \in DOMAIN l : m # k => Taken(Column(l, D, C), res, {c}, l[k].id)
<1> DEFINE x == <<res, c>>
           H == {i \in DOMAIN l : x \in C[i]}
           T == Column(l, D, C)
<1>1. j \in H /\ H \in SUBSET DOMAIN l /\ l \in Seq(Assignment(p))
  BY DEF Listed
<1>2. T[x] = Owner(l, H)
  BY DEF Column
<1> HIDE DEF H, T
<1>3. PICK m \in H : Owner(l, H) = l[m].id
  BY <1>1, OwnerOfSome
<1>4. m \in DOMAIN l /\ x \in C[m]
  BY <1>3 DEF H
<1>5. ASSUME NEW k \in DOMAIN l, m # k
      PROVE  Taken(T, res, {c}, l[k].id)
  <2>1. l[m].id # l[k].id /\ l[m].id # None
    BY <1>4, <1>5, NoneIsNoId DEF Listed
  <2>2. T[<<res, c>>] \notin {l[k].id, None}
    BY <1>2, <1>3, <2>1
  <2>3. \A e \in {c} : e[2] < c[2] => T[<<res, e>>] = None
    <3>1. c[2] \in Nat
      BY GridAssumption
    <3> QED
      BY <3>1
  <2> QED
    BY <2>2, <2>3 DEF Taken
<1> QED
  BY <1>4, <1>5 DEF T

\* Sessions of one slot that are in no conflict are kept apart.
LEMMA NoConflictApart ==
  ASSUME NEW p, WellFormed(p), OneSlotSessions(p), NEW l, Listed(p, l),
         \A k \in DOMAIN l : Occupied(p, l[k]) \subseteq Slots /\ ~Conflicts(p, BuildIndex(p, l), l[k])
  PROVE  KeptApart(p, l)
<1> DEFINE s == BuildIndex(p, l)
           F == FacultyHeld(p, l)
           R == RoomHeld(p, l)
           G == GroupHeld(p, l)
<1>1. /\ s.faculty = Column(l, Faculty \X Slots, F)
      /\ s.room = Column(l, Rooms \X Slots, R)
      /\ s.group = Column(l, Groups \X Slots, G)
  BY Built
<1>2. \A k \in DOMAIN l : l[k] \in Assignment(p)
  BY DEF Listed
<1>3. \A k \in DOMAIN l : /\ Occupied(p, l[k]) = {l[k].slot} /\ l[k].slot \in Slots
                          /\ FacultyOf(p, l[k]) \in Faculty /\ GroupOf(p, l[k]) \in Groups /\ l[k].room \in Rooms
                          /\ Held(p, l[k]) = {l[k].slot}
  BY <1>2, OneSlot, Holdings
<1>4. \A k \in DOMAIN l : /\ F[k] = {<<FacultyOf(p, l[k]), l[k].slot>>}
                          /\ R[k] = {<<l[k].room, l[k].slot>>}
                          /\ G[k] = {<<GroupOf(p, l[k]), l[k].slot>>}
  BY <1>3 DEF FacultyHeld, RoomHeld, GroupHeld, HeldFaculty, HeldRoom, HeldGroup
<1>5. \A k \in DOMAIN l : ~Conflicts(p, s, l[k])
  OBVIOUS
<1> HIDE DEF s, F, R, G
<1>6. \A k \in DOMAIN l :
        /\ ~Taken(s.faculty, FacultyOf(p, l[k]), {l[k].slot}, l[k].id)
        /\ ~Taken(s.room, l[k].room, {l[k].slot}, l[k].id)
        /\ \A g \in Overlapping(GroupOf(p, l[k])) : ~Taken(s.group, g, {l[k].slot}, l[k].id)
  BY <1>3, <1>5 DEF Conflicts, FacultyConflict, RoomConflict, StudentGroupConflict
<1> SUFFICES ASSUME NEW k \in DOMAIN l, NEW j \in DOMAIN l, k < j, Clash(p, l[k], l[j])
             PROVE  FALSE
  BY DEF KeptApart
<1>7. k # j
  <2>1. k \in Nat
    BY DEF Listed
  <2> QED
    BY <2>1
<1> DEFINE c == l[k].slot
<1>8. c \in Slots /\ l[j].slot = c
  BY <1>3 DEF Clash
<1>9. CASE FacultyOf(p, l[k]) = FacultyOf(p, l[j])
  <2> DEFINE t == FacultyOf(p, l[k])
  <2>1. <<t, c>> \in Faculty \X Slots /\ <<t, c>> \in F[j]
    BY <1>3, <1>4, <1>8, <1>9
  <2>2. /\ ~Taken(s.faculty, t, {c}, l[k].id)
        /\ ~Taken(s.faculty, t, {c}, l[j].id)
    BY <1>6, <1>8, <1>9
  <2> HIDE DEF t, c
  <2>5. c \in Slots
    BY <1>8
  <2>3. PICK m \in DOMAIN l : \A i \in DOMAIN l : m # i => Taken(Column(l, Faculty \X Slots, F), t, {c}, l[i].id)
    BY <2>1, <2>5, HolderTaken
  <2>6. /\ ~Taken(Column(l, Faculty \X Slots, F), t, {c}, l[k].id)
        /\ ~Taken(Column(l, Faculty \X Slots, F), t, {c}, l[j].id)
    BY <1>1, <2>2
  <2> QED
    BY <1>7, <2>3, <2>6
<1>10. CASE l[k].room = l[j].room
  <2> DEFINE t == l[k].room
  <2>1. <<t, c>> \in Rooms \X Slots /\ <<t, c>> \in R[j]
    BY <1>3, <1>4, <1>8, <1>10
  <2>2. /\ ~Taken(s.room, t, {c}, l[k].id)
        /\ ~Taken(s.room, t, {c}, l[j].id)
    BY <1>6, <1>8, <1>10
  <2> HIDE DEF t, c
  <2>5. c \in Slots
    BY <1>8
  <2>3. PICK m \in DOMAIN l : \A i \in DOMAIN l : m # i => Taken(Column(l, Rooms \X Slots, R), t, {c}, l[i].id)
    BY <2>1, <2>5, HolderTaken
  <2>6. /\ ~Taken(Column(l, Rooms \X Slots, R), t, {c}, l[k].id)
        /\ ~Taken(Column(l, Rooms \X Slots, R), t, {c}, l[j].id)
    BY <1>1, <2>2
  <2> QED
    BY <1>7, <2>3, <2>6
<1>11. CASE GroupsOverlap(GroupOf(p, l[k]), GroupOf(p, l[j]))
  <2> DEFINE t == GroupOf(p, l[j])
  <2>1. <<t, c>> \in Groups \X Slots /\ <<t, c>> \in G[j]
    BY <1>3, <1>4, <1>8
  <2>2. t \in Overlapping(GroupOf(p, l[k])) /\ t \in Overlapping(GroupOf(p, l[j]))
    BY <1>3, <1>11 DEF Overlapping, GroupsOverlap
  <2>3. /\ ~Taken(s.group, t, {c}, l[k].id)
        /\ ~Taken(s.group, t, {c}, l[j].id)
    BY <1>6, <1>8, <2>2
  <2> HIDE DEF t, c
  <2>5. c \in Slots
    BY <1>8
  <2>4. PICK m \in DOMAIN l : \A i \in DOMAIN l : m # i => Taken(Column(l, Groups \X Slots, G), t, {c}, l[i].id)
    BY <2>1, <2>5, HolderTaken
  <2>6. /\ ~Taken(Column(l, Groups \X Slots, G), t, {c}, l[k].id)
        /\ ~Taken(Column(l, Groups \X Slots, G), t, {c}, l[j].id)
    BY <1>1, <2>3
  <2> QED
    BY <1>7, <2>4, <2>6
<1> QED
  BY <1>9, <1>10, <1>11 DEF Clash

\* A rule looks at the sessions only.
LEMMA RuleOfList == \A p, l, rule : RuleHolds(p, BuildIndex(p, l), rule) <=> RuleHolds(p, [list |-> l], rule)
<1> TAKE p, l, rule
<1>1. BuildIndex(p, l).list = l /\ [list |-> l].list = l
  BY Built
<1> QED
  BY <1>1 DEF RuleHolds, Crowd

\* What suits, is kept apart and obeys the rules passes the final check of the constraints.
LEMMA FeasibleHolds ==
  ASSUME NEW p, WellFormed(p), NEW l, Listed(p, l), KeptApart(p, l), NEW instances,
         \A k \in DOMAIN l : Suits(p, l[k]),
         \A rule \in CompiledRules(instances) : RuleHolds(p, [list |-> l], rule)
  PROVE  HardHolds(p, instances, l)
<1> DEFINE s == BuildIndex(p, l)
<1>1. \A k \in DOMAIN l : Occupied(p, l[k]) \subseteq Slots
  BY DEF Suits, Available
<1>2. \A k \in DOMAIN l : ~Conflicts(p, s, l[k])
  BY <1>1, ApartNoConflict
<1>3. \A rule \in CompiledRules(instances) : RuleHolds(p, s, rule)
  BY RuleOfList
<1> HIDE DEF s
<1>4. ASSUME NEW k \in DOMAIN l, NEW template \in Templates
      PROVE  Satisfies(p, s, l[k], template)
  <2>1. /\ ~FacultyConflict(p, s, l[k]) /\ ~RoomConflict(p, s, l[k]) /\ ~StudentGroupConflict(p, s, l[k])
        /\ RoomCapacity(p, l[k]) /\ RoomHasFeatures(p, l[k])
        /\ Occupied(p, l[k]) \subseteq Slots \cap p.free[FacultyOf(p, l[k])]
        /\ Occupied(p, l[k]) \subseteq Slots \cap p.rooms[l[k].room].open
    BY <1>2 DEF Conflicts, Suits, Available
  <2> QED
    BY <2>1 DEF Satisfies, Templates
<1>5. Evaluated(instances) \subseteq Templates
  BY DEF Evaluated
<1> QED
  BY <1>3, <1>4, <1>5 DEF HardHolds, s

\* What passes it when the built-in constraints are evaluated suits and, of sessions of one
\* slot, is kept apart.
LEMMA HoldsFeasible ==
  ASSUME NEW p, WellFormed(p), NEW l, Listed(p, l), HardHolds(p, {}, l),
         \A k \in DOMAIN l : Occupied(p, l[k]) \subseteq Slots
  PROVE  /\ \A k \in DOMAIN l : Suits(p, l[k])
         /\ OneSlotSessions(p) => KeptApart(p, l)
<1> DEFINE s == BuildIndex(p, l)
<1>1. \A k \in DOMAIN l, template \in Templates : Satisfies(p, s, l[k], template)
  BY DEF HardHolds, Evaluated
<1> HIDE DEF s
<1>2. ASSUME NEW k \in DOMAIN l
      PROVE  ~Conflicts(p, s, l[k]) /\ Suits(p, l[k])
  <2>1. /\ Satisfies(p, s, l[k], "FacultyConflict") /\ Satisfies(p, s, l[k], "RoomConflict")
        /\ Satisfies(p, s, l[k], "StudentGroupConflict")
    BY <1>1 DEF Templates
  <2>2. /\ Satisfies(p, s, l[k], "RoomCapacity") /\ Satisfies(p, s, l[k], "RoomFeatureCompatibility")
        /\ Satisfies(p, s, l[k], "FacultyAvailability") /\ Satisfies(p, s, l[k], "RoomAvailability")
    BY <1>1 DEF Templates
  <2>3. ~Conflicts(p, s, l[k])
    BY <2>1 DEF Satisfies, Conflicts
  <2>4. RoomCapacity(p, l[k]) /\ RoomHasFeatures(p, l[k])
    BY <2>2 DEF Satisfies
  <2>5. Occupied(p, l[k]) \subseteq Slots \cap p.free[FacultyOf(p, l[k])]
    BY <2>2 DEF Satisfies
  <2>6. Occupied(p, l[k]) \subseteq Slots \cap p.rooms[l[k].room].open
    BY <2>2 DEF Satisfies
  <2> QED
    BY <2>3, <2>4, <2>5, <2>6 DEF Suits, Available
<1>3. OneSlotSessions(p) => KeptApart(p, l)
  BY <1>2, NoConflictApart DEF s
<1> QED
  BY <1>2, <1>3

-----------------------------------------------------------------------------
(* The two ways of counting room changes.                                  *)

\* Of two lists that differ in their first element or not at all, the lesser is the one
\* with the lesser first element.
LEMMA LexByFirst ==
  ASSUME NEW s \in Seq(Nat), NEW t \in Seq(Nat), Len(s) = Len(t), Len(s) >= 1, s[1] # t[1] \/ s = t
  PROVE  LexLess(s, t) <=> s[1] < t[1]
<1>1. Len(s) \in Nat /\ DOMAIN s = 1 .. Len(s) /\ \A i \in 1 .. Len(s) : s[i] \in Nat /\ t[i] \in Nat
  BY LenProperties, ElementOfSeq
<1>2. ASSUME LexLess(s, t)
      PROVE  s[1] < t[1]
  <2>1. PICK i \in DOMAIN s : s[i] < t[i] /\ \A j \in 1 .. i - 1 : s[j] = t[j]
    BY <1>2 DEF LexLess
  <2>2. s # t
    <3> SUFFICES ASSUME s = t PROVE FALSE
      OBVIOUS
    <3>1. s[i] < s[i] /\ s[i] \in Nat
      BY <1>1, <2>1
    <3> QED
      BY <3>1
  <2>3. s[1] # t[1]
    BY <2>2
  <2>4. ~(1 \in 1 .. i - 1)
    BY <2>1, <2>3
  <2>5. i = 1
    BY <1>1, <2>4
  <2> QED
    BY <2>1, <2>5
<1>3. ASSUME s[1] < t[1]
      PROVE  LexLess(s, t)
  <2>1. 1 \in DOMAIN s /\ \A j \in 1 .. 1 - 1 : s[j] = t[j]
    BY <1>1
  <2> QED
    BY <1>3, <2>1 DEF LexLess
<1> QED
  BY <1>2, <1>3

\* Pairs in order.
Before(u, v) == u[1] < v[1] \/ (u[1] = v[1] /\ u[2] < v[2])

\* The order of sequences, of pairs.
LEMMA LexOfPairs ==
  ASSUME NEW u \in Nat \X Nat, NEW v \in Nat \X Nat
  PROVE  LexLess(u, v) <=> Before(u, v)
<1>1. PICK a \in Nat, b \in Nat, c \in Nat, d \in Nat : u = <<a, b>> /\ v = <<c, d>>
  OBVIOUS
<1>2. DOMAIN u = {1, 2} /\ u[1] = a /\ u[2] = b /\ v[1] = c /\ v[2] = d
  BY <1>1
<1>3. LexLess(u, v) <=> \E i \in {1, 2} : u[i] < v[i] /\ \A j \in 1 .. i - 1 : u[j] = v[j]
  BY <1>2 DEF LexLess
<1>4. 1 .. 1 - 1 = {} /\ 1 .. 2 - 1 = {1}
  OBVIOUS
<1>5. (\E i \in {1, 2} : u[i] < v[i] /\ \A j \in 1 .. i - 1 : u[j] = v[j])
        <=> (a < c \/ (b < d /\ a = c))
  BY <1>2, <1>4
<1> QED
  BY <1>2, <1>3, <1>5 DEF Before

\* The order is total.
LEMMA Between ==
  ASSUME NEW u \in Nat \X Nat, NEW v \in Nat \X Nat, NEW w \in Nat \X Nat
  PROVE  /\ u = v \/ Before(u, v) \/ Before(v, u)
         /\ ~(Before(u, v) /\ Before(v, u)) /\ ~Before(u, u)
         /\ Before(u, v) /\ Before(v, w) => Before(u, w)
<1>1. PICK a \in Nat, b \in Nat : u = <<a, b>>
  OBVIOUS
<1>2. PICK c \in Nat, d \in Nat : v = <<c, d>>
  OBVIOUS
<1>3. PICK e \in Nat, f \in Nat : w = <<e, f>>
  OBVIOUS
<1>4. u[1] = a /\ u[2] = b /\ v[1] = c /\ v[2] = d /\ w[1] = e /\ w[2] = f
  BY <1>1, <1>2, <1>3
<1>5. u = v \/ Before(u, v) \/ Before(v, u)
  BY <1>1, <1>2, <1>4 DEF Before
<1>6. ~(Before(u, v) /\ Before(v, u)) /\ ~Before(u, u)
  BY <1>4 DEF Before
<1>7. Before(u, v) /\ Before(v, w) => Before(u, w)
  BY <1>4 DEF Before
<1> QED
  BY <1>5, <1>6, <1>7

\* A set of pairs has a first one.
LEMMA FirstPair ==
  ASSUME NEW T \in SUBSET (Nat \X Nat), T # {}
  PROVE  \E t \in T : \A z \in T : z = t \/ Before(t, z)
<1> DEFINE A == {z[1] : z \in T}
<1>1. A \in SUBSET Nat /\ A # {}
  OBVIOUS
<1> HIDE DEF A
<1>2. PICK a \in A : \A m \in A : a <= m
  BY <1>1, Least
<1> DEFINE B == {z[2] : z \in {y \in T : y[1] = a}}
<1>3. B \in SUBSET Nat /\ B # {}
  BY <1>2 DEF A
<1> HIDE DEF B
<1>4. PICK b \in B : \A m \in B : b <= m
  BY <1>3, Least
<1>5. PICK t \in T : t[1] = a /\ t[2] = b
  BY <1>4 DEF B
<1>6. ASSUME NEW z \in T
      PROVE  z = t \/ Before(t, z)
  <2>1. z[1] \in Nat /\ z[2] \in Nat /\ t[1] \in Nat /\ t[2] \in Nat /\ z = <<z[1], z[2]>> /\ t = <<t[1], t[2]>>
    OBVIOUS
  <2>2. a <= z[1] /\ (z[1] = a => b <= z[2])
    BY <1>2, <1>4 DEF A, B
  <2> QED
    BY <1>5, <2>1, <2>2 DEF Before
<1> QED
  BY <1>6

\* A finite one has a last one.
LEMMA LastPair ==
  ASSUME NEW T \in SUBSET (Nat \X Nat), IsFiniteSet(T), T # {}
  PROVE  \E t \in T : \A z \in T : z = t \/ Before(z, t)
<1> DEFINE f == [z \in T |-> z[1]]
           A == {f[z] : z \in T}
<1>1. A \in SUBSET Nat /\ A # {} /\ DOMAIN f = T
  OBVIOUS
<1>2. \A m \in A : \E z \in T : z[1] = m
  OBVIOUS
<1>3. \A z \in T : z[1] \in A
  OBVIOUS
<1> HIDE DEF f
<1>4. IsFiniteSet(A)
  BY <1>1, FiniteImage
<1> HIDE DEF A
<1>5. PICK a \in A : \A m \in A : m <= a
  BY <1>1, <1>4, Extremes
<1> DEFINE U == {z \in T : z[1] = a}
           g == [z \in U |-> z[2]]
           B == {g[z] : z \in U}
<1>6. B \in SUBSET Nat /\ B # {} /\ DOMAIN g = U
  <2>1. PICK z \in T : z[1] = a
    BY <1>2, <1>5
  <2>2. z \in U /\ z[2] \in B
    BY <2>1
  <2> QED
    BY <2>2
<1>7. IsFiniteSet(U)
  BY FS_Subset
<1>8. (\A m \in B : \E z \in T : z[1] = a /\ z[2] = m) /\ (\A z \in T : z[1] = a => z[2] \in B)
  OBVIOUS
<1> HIDE DEF g, U
<1>9. IsFiniteSet(B)
  BY <1>6, <1>7, FiniteImage
<1> HIDE DEF B
<1>10. PICK b \in B : \A m \in B : m <= b
  BY <1>6, <1>9, Extremes
<1>11. PICK t \in T : t[1] = a /\ t[2] = b
  BY <1>8
<1>12. ASSUME NEW z \in T
       PROVE  z = t \/ Before(z, t)
  <2>1. z[1] \in Nat /\ z[2] \in Nat /\ t[1] \in Nat /\ t[2] \in Nat /\ z = <<z[1], z[2]>> /\ t = <<t[1], t[2]>>
    OBVIOUS
  <2>2. z[1] <= a /\ (z[1] = a => z[2] <= b)
    BY <1>3, <1>5, <1>8, <1>10
  <2> QED
    BY <1>11, <2>1, <2>2 DEF Before
<1> QED
  BY <1>12

\* If no two neighbours are in two rooms, no two places are.
LEMMA OneRoom ==
  ASSUME NEW P \in SUBSET (Nat \X Nat), IsFiniteSet(P),
         \A a, b \in P : /\ a[2] # b[2] /\ Before(a, b)
                         => \E z \in P : Before(a, z) /\ Before(z, b),
         NEW u \in P, NEW v \in P, Before(u, v)
  PROVE  u[2] = v[2]
<1> SUFFICES ASSUME u[2] # v[2] PROVE FALSE
  OBVIOUS
<1> DEFINE B == {z \in P : z[2] # u[2] /\ Before(u, z)}
<1>1. B \in SUBSET (Nat \X Nat) /\ v \in B
  OBVIOUS
<1>2. PICK b \in B : \A z \in B : z = b \/ Before(b, z)
  <2> HIDE DEF B
  <2> QED
    BY <1>1, FirstPair
<1> DEFINE A == {z \in P : (z = u \/ Before(u, z)) /\ Before(z, b)}
<1>3. A \in SUBSET (Nat \X Nat) /\ u \in A /\ A \in SUBSET P
  OBVIOUS
<1>4. IsFiniteSet(A)
  BY FS_Subset
<1>5. PICK a \in A : \A z \in A : z = a \/ Before(z, a)
  <2> HIDE DEF A
  <2> QED
    BY <1>3, <1>4, LastPair
<1>6. a[2] = u[2]
  <2> SUFFICES ASSUME a[2] # u[2] PROVE FALSE
    OBVIOUS
  <2>1. a \in B /\ Before(a, b) /\ a \in Nat \X Nat /\ b \in Nat \X Nat
    OBVIOUS
  <2> QED
    BY <1>2, <2>1, Between
<1>7. PICK z \in P : Before(a, z) /\ Before(z, b)
  BY <1>6
<1>8. z \in A
  BY <1>7, Between
<1>9. z \in Nat \X Nat /\ a \in Nat \X Nat
  OBVIOUS
<1> QED
  BY <1>5, <1>7, <1>8, <1>9, Between

\* The places of a group's day, and the pairs of neighbours in two rooms.
PlaceOf(x)        == <<x.start, x.room>>
PlacesOf(X)       == {PlaceOf(x) : x \in X}
SwitchesOf(P)     == {ab \in P \X P : /\ ab[1][2] # ab[2][2] /\ Before(ab[1], ab[2])
                                      /\ ~ \E z \in P : Before(ab[1], z) /\ Before(z, ab[2])}
ChangesIn(X)      == {xy \in Adjacent(X) : xy[1].room # xy[2].room}

\* The sittings of a timetable, typed.
LEMMA SittingsTyped ==
  ASSUME NEW p, WellFormed(p), NEW l \in Seq(Assignment(p)), NEW g, NEW day
  PROVE  /\ Sittings(p, l, g, day) \in SUBSET SittingRecord
         /\ IsFiniteSet(Sittings(p, l, g, day))
         /\ PlacesOf(Sittings(p, l, g, day)) \in SUBSET (Nat \X Nat)
         /\ IsFiniteSet(PlacesOf(Sittings(p, l, g, day)))
<1> DEFINE X == Sittings(p, l, g, day)
           h == [x \in X |-> PlaceOf(x)]
<1>1. ASSUME NEW k \in DOMAIN l
      PROVE  Sitting(p, l[k]) \in SittingRecord
  <2>1. l[k] \in Assignment(p)
    OBVIOUS
  <2>2. l[k].id \in AssignmentIDs /\ l[k].room \in Rooms /\ l[k].req \in DOMAIN p.reqs
    BY <2>1 DEF Assignment
  <2>3. l[k].slot[2] \in Nat
    BY <2>1, StartTaken
  <2>4. p.reqs[l[k].req].duration \in Nat
    BY <2>2, Fields
  <2> QED
    BY <2>2, <2>3, <2>4 DEF Sitting, SittingRecord
<1>2. X \in SUBSET SittingRecord
  BY <1>1 DEF Sittings
<1>3. IsFiniteSet(X)
  BY SittingsFinite
<1> HIDE DEF X
<1>4. ASSUME NEW x \in X
      PROVE  PlaceOf(x) \in Nat \X Nat
  <2>1. x.start \in Nat /\ x.room \in Rooms
    BY <1>2 DEF SittingRecord
  <2>2. Rooms \subseteq Nat
    BY GridAssumption DEF Rooms
  <2> QED
    BY <2>1, <2>2 DEF PlaceOf
<1>5. PlacesOf(X) = {h[x] : x \in X} /\ DOMAIN h = X
  BY DEF PlacesOf
<1> HIDE DEF h
<1>6. IsFiniteSet(PlacesOf(X))
  BY <1>3, <1>5, FiniteImage
<1>7. PlacesOf(X) \in SUBSET (Nat \X Nat)
  BY <1>4 DEF PlacesOf
<1> QED
  BY <1>2, <1>3, <1>6, <1>7 DEF X

\* The verification counts those pairs.
LEMMA SwitchesCounted ==
  ASSUME NEW p, WellFormed(p), NEW l \in Seq(Assignment(p)), NEW g, NEW day
  PROVE  /\ RoomSwitches(p, l, g, day) = Cardinality(SwitchesOf(PlacesOf(Sittings(p, l, g, day))))
         /\ IsFiniteSet(SwitchesOf(PlacesOf(Sittings(p, l, g, day))))
         /\ RoomSwitches(p, l, g, day) \in Nat
<1> DEFINE X == Sittings(p, l, g, day)
           P == PlacesOf(X)
           S == {xy \in P \X P : /\ xy[1][2] # xy[2][2]
                                 /\ LexLess(xy[1], xy[2])
                                 /\ ~ \E z \in P : LexLess(xy[1], z) /\ LexLess(z, xy[2])}
<1>1. RoomSwitches(p, l, g, day) = Cardinality(S)
  BY DEF RoomSwitches, PlacesOf, PlaceOf
<1>2. P \in SUBSET (Nat \X Nat) /\ IsFiniteSet(P)
  BY SittingsTyped
<1> HIDE DEF P, X
<1>3. \A u, v \in P : LexLess(u, v) <=> Before(u, v)
  BY <1>2, LexOfPairs
<1>4. S = SwitchesOf(P)
  <2>1. \A xy \in P \X P : xy[1] \in P /\ xy[2] \in P
    OBVIOUS
  <2>2. \A xy \in P \X P : xy \in S <=> xy \in SwitchesOf(P)
    BY <1>3, <2>1 DEF SwitchesOf
  <2> QED
    BY <2>2 DEF SwitchesOf
<1>5. IsFiniteSet(P \X P)
  BY <1>2, FS_Product
<1>6. IsFiniteSet(SwitchesOf(P))
  BY <1>5, FS_Subset DEF SwitchesOf
<1>7. Cardinality(SwitchesOf(P)) \in Nat
  BY <1>6, FS_CardinalityType
<1> QED
  BY <1>1, <1>4, <1>6, <1>7 DEF P, X

\* Where the verification counts no change of room there is none.
LEMMA NoSwitchNoChange ==
  ASSUME NEW p, WellFormed(p), NEW l \in Seq(Assignment(p)), NEW g, NEW day,
         RoomSwitches(p, l, g, day) = 0
  PROVE  RoomChanges(Sittings(p, l, g, day)) = 0
<1> DEFINE X == Sittings(p, l, g, day)
           P == PlacesOf(X)
<1>1. P \in SUBSET (Nat \X Nat) /\ IsFiniteSet(P)
  BY SittingsTyped
<1>2. IsFiniteSet(SwitchesOf(P)) /\ Cardinality(SwitchesOf(P)) = 0
  BY SwitchesCounted
<1>3. \A x \in X : PlaceOf(x) \in P /\ PlaceOf(x)[2] = x.room
  BY DEF PlacesOf, PlaceOf
<1> HIDE DEF P, X
<1>4. SwitchesOf(P) = {}
  BY <1>2, FS_EmptySet
<1>5. ASSUME NEW a \in P, NEW b \in P, a[2] # b[2], Before(a, b)
      PROVE  \E z \in P : Before(a, z) /\ Before(z, b)
  <2>1. <<a, b>> \in P \X P /\ <<a, b>> \notin SwitchesOf(P)
    BY <1>4
  <2> QED
    BY <1>5, <2>1 DEF SwitchesOf
<1>6. \A u, v \in P : Before(u, v) => u[2] = v[2]
  BY <1>1, <1>5, OneRoom
<1>7. \A u, v \in P : u[2] = v[2]
  BY <1>1, <1>6, Between
<1>8. ChangesIn(X) = {}
  BY <1>3, <1>7 DEF ChangesIn, Adjacent
<1>9. Cardinality(ChangesIn(X)) = 0
  BY <1>8, FS_EmptySet
<1> QED
  BY <1>9 DEF ChangesIn, RoomChanges, X

\* Sessions of a group that are kept apart start at different times of a day.
LEMMA StartsOfDay ==
  ASSUME NEW p, WellFormed(p), NEW l, Listed(p, l), KeptApart(p, l), NEW g, NEW day,
         NEW x \in Sittings(p, l, g, day), NEW y \in Sittings(p, l, g, day), x.start = y.start
  PROVE  x = y
<1>1. PICK k \in DOMAIN l : GroupOf(p, l[k]) = g /\ l[k].slot[1] = day /\ x = Sitting(p, l[k])
  BY DEF Sittings
<1>2. PICK j \in DOMAIN l : GroupOf(p, l[j]) = g /\ l[j].slot[1] = day /\ y = Sitting(p, l[j])
  BY DEF Sittings
<1>3. l[k] \in Assignment(p) /\ l[j] \in Assignment(p)
  BY DEF Listed
<1>4. l[k].slot[2] = l[j].slot[2]
  BY <1>1, <1>2 DEF Sitting
<1>5. l[k].slot = l[j].slot
  BY <1>1, <1>2, <1>3, <1>4, StartTaken
<1>6. Clash(p, l[k], l[j])
  BY <1>1, <1>2, <1>3, <1>5, StartTaken DEF Clash, GroupsOverlap
<1>7. k = j
  BY <1>6, Asunder
<1> QED
  BY <1>1, <1>2, <1>7

\* Three numbers before two others.
LEMMA Prefixed ==
  ASSUME NEW a \in Seq(Nat), NEW i \in Seq(Nat), Len(a) = 3, Len(i) = 2
  PROVE  a \o i \in Seq(Nat) /\ Len(a \o i) = 5 /\ (a \o i)[1] = a[1]
<1>1. /\ a \o i \in Seq(Nat) /\ Len(a \o i) = Len(a) + Len(i)
      /\ \A k \in 1 .. Len(a) + Len(i) : (a \o i)[k] = IF k <= Len(a) THEN a[k] ELSE i[k - Len(a)]
  BY ConcatProperties
<1>2. 1 \in 1 .. Len(a) + Len(i) /\ 1 <= Len(a)
  OBVIOUS
<1> QED
  BY <1>1, <1>2

\* Of sittings that start at different times, the order is that of their starts.
LEMMA SitsByStart ==
  ASSUME NEW x \in SittingRecord, NEW y \in SittingRecord, x.start = y.start => x = y
  PROVE  /\ SitsBefore(x, y) <=> x.start < y.start
         /\ Before(PlaceOf(x), PlaceOf(y)) <=> x.start < y.start
<1> DEFINE a == <<x.start, x.length, x.room>>
           b == <<y.start, y.length, y.room>>
           s == a \o x.id
           t == b \o y.id
<1>1. /\ x.start \in Nat /\ x.length \in Nat /\ x.room \in Nat /\ x.id \in Nat \X Nat
      /\ y.start \in Nat /\ y.length \in Nat /\ y.room \in Nat /\ y.id \in Nat \X Nat
  <2>1. Rooms \subseteq Nat
    BY GridAssumption DEF Rooms
  <2> QED
    BY <2>1 DEF SittingRecord, AssignmentIDs
<1>2. a \in Seq(Nat) /\ b \in Seq(Nat) /\ Len(a) = 3 /\ Len(b) = 3 /\ a[1] = x.start /\ b[1] = y.start
  BY <1>1
<1>3. x.id \in Seq(Nat) /\ y.id \in Seq(Nat) /\ Len(x.id) = 2 /\ Len(y.id) = 2
  <2>1. PICK c \in Nat, d \in Nat : x.id = <<c, d>>
    BY <1>1
  <2>2. PICK e \in Nat, f \in Nat : y.id = <<e, f>>
    BY <1>1
  <2> QED
    BY <2>1, <2>2
<1>4. (x.start # y.start) \/ s = t
  OBVIOUS
<1>5. SitsBefore(x, y) <=> LexLess(s, t)
  BY DEF SitsBefore
<1> HIDE DEF a, b
<1>9. s \in Seq(Nat) /\ Len(s) = 5 /\ s[1] = a[1]
  BY <1>2, <1>3, Prefixed
<1>10. t \in Seq(Nat) /\ Len(t) = 5 /\ t[1] = b[1]
  BY <1>2, <1>3, Prefixed
<1> HIDE DEF s, t
<1>6. /\ s \in Seq(Nat) /\ t \in Seq(Nat) /\ Len(s) = 5 /\ Len(t) = 5
      /\ s[1] = a[1] /\ t[1] = b[1]
  BY <1>9, <1>10
<1>11. Len(s) = Len(t) /\ Len(s) >= 1 /\ (s[1] # t[1] \/ s = t)
  BY <1>2, <1>4, <1>6
<1>7. LexLess(s, t) <=> s[1] < t[1]
  BY <1>6, <1>11, LexByFirst
<1>8. Before(PlaceOf(x), PlaceOf(y)) <=> x.start < y.start
  <2>1. PlaceOf(x)[1] = x.start /\ PlaceOf(x)[2] = x.room /\ PlaceOf(y)[1] = y.start /\ PlaceOf(y)[2] = y.room
    BY DEF PlaceOf
  <2>2. x.start = y.start => ~(x.room < y.room)
    BY <1>1
  <2> QED
    BY <2>1, <2>2 DEF Before
<1> QED
  BY <1>2, <1>5, <1>6, <1>7, <1>8

\* The two counts agree on sessions that are kept apart.
LEMMA ChangesAgree ==
  ASSUME NEW p, WellFormed(p), NEW l, Listed(p, l), KeptApart(p, l), NEW g, NEW day
  PROVE  RoomSwitches(p, l, g, day) = RoomChanges(Sittings(p, l, g, day))
<1> DEFINE X == Sittings(p, l, g, day)
           P == PlacesOf(X)
           A == ChangesIn(X)
           h == [xy \in A |-> <<PlaceOf(xy[1]), PlaceOf(xy[2])>>]
<1>0. l \in Seq(Assignment(p))
  BY DEF Listed
<1>1. X \in SUBSET SittingRecord /\ IsFiniteSet(X)
  BY <1>0, SittingsTyped
<1>2. \A x, y \in X : x.start = y.start => x = y
  BY StartsOfDay
<1>3. RoomSwitches(p, l, g, day) = Cardinality(SwitchesOf(P))
  BY <1>0, SwitchesCounted
<1> HIDE DEF X
<1>4. \A x, y \in X : SitsBefore(x, y) <=> Before(PlaceOf(x), PlaceOf(y))
  BY <1>1, <1>2, SitsByStart
<1>5. \A x, y \in X : PlaceOf(x) = PlaceOf(y) => x = y
  BY <1>2 DEF PlaceOf
<1>6. \A x : PlaceOf(x)[2] = x.room
  BY DEF PlaceOf
<1>7. P = {PlaceOf(x) : x \in X}
  BY DEF PlacesOf
<1>8. A \subseteq X \X X /\ IsFiniteSet(A)
  <2>1. A \subseteq X \X X
    BY DEF ChangesIn, Adjacent
  <2>2. IsFiniteSet(X \X X)
    BY <1>1, FS_Product
  <2> QED
    BY <2>1, <2>2, FS_Subset
<1> HIDE DEF P
<1>9. \A x, y \in X : <<x, y>> \in A <=> <<PlaceOf(x), PlaceOf(y)>> \in SwitchesOf(P)
  <2> TAKE x, y \in X
  <2>1. <<x, y>> \in A <=> /\ x.room # y.room /\ SitsBefore(x, y)
                           /\ ~ \E z \in X : SitsBefore(x, z) /\ SitsBefore(z, y)
    BY DEF ChangesIn, Adjacent
  <2> DEFINE a == PlaceOf(x)
             b == PlaceOf(y)
  <2>2. a \in P /\ b \in P /\ a[2] = x.room /\ b[2] = y.room
    BY <1>6, <1>7
  <2>3. <<a, b>> \in SwitchesOf(P) <=> /\ a[2] # b[2] /\ Before(a, b)
                                       /\ ~ \E z \in P : Before(a, z) /\ Before(z, b)
    BY <2>2 DEF SwitchesOf
  <2>4. (\E z \in P : Before(a, z) /\ Before(z, b)) <=> \E z \in X : SitsBefore(x, z) /\ SitsBefore(z, y)
    BY <1>4, <1>7
  <2> QED
    BY <1>4, <2>1, <2>2, <2>3, <2>4
<1>10. \A xy, zw \in A : h[xy] = h[zw] => xy = zw
  <2> TAKE xy, zw \in A
  <2> HAVE h[xy] = h[zw]
  <2>1. xy \in X \X X /\ zw \in X \X X
    BY <1>8
  <2>2. PlaceOf(xy[1]) = PlaceOf(zw[1]) /\ PlaceOf(xy[2]) = PlaceOf(zw[2])
    OBVIOUS
  <2>3. xy[1] = zw[1] /\ xy[2] = zw[2]
    BY <1>5, <2>1, <2>2
  <2> QED
    BY <2>1, <2>3
<1>11. {h[xy] : xy \in A} = SwitchesOf(P)
  <2>1. ASSUME NEW xy \in A
        PROVE  h[xy] \in SwitchesOf(P)
    <3>1. xy = <<xy[1], xy[2]>> /\ xy[1] \in X /\ xy[2] \in X
      BY <1>8
    <3> QED
      BY <1>9, <3>1
  <2>2. ASSUME NEW ab \in SwitchesOf(P)
        PROVE  \E xy \in A : h[xy] = ab
    <3>1. ab = <<ab[1], ab[2]>> /\ ab[1] \in P /\ ab[2] \in P
      BY DEF SwitchesOf
    <3>2. PICK x \in X, y \in X : ab[1] = PlaceOf(x) /\ ab[2] = PlaceOf(y)
      BY <1>7, <3>1
    <3>3. <<x, y>> \in A
      BY <1>9, <3>1, <3>2
    <3>4. h[<<x, y>>] = ab
      BY <3>1, <3>2, <3>3
    <3> QED
      BY <3>3, <3>4
  <2> QED
    BY <2>1, <2>2
<1>12. DOMAIN h = A
  OBVIOUS
<1> HIDE DEF h, A
<1>13. Cardinality({h[xy] : xy \in A}) = Cardinality(A)
  BY <1>8, <1>10, <1>12, Renamed
<1>14. RoomChanges(X) = Cardinality(A)
  BY DEF RoomChanges, A, ChangesIn
<1> QED
  BY <1>3, <1>11, <1>13, <1>14 DEF X

-----------------------------------------------------------------------------
(* The two ways of counting gaps, and the preferences.                     *)

\* The slots of a day in which a group sits.
SlotsSat(p, l, g, day) ==
  {c \in Slots : c[1] = day /\ \E k \in DOMAIN l : GroupOf(p, l[k]) = g /\ c \in Occupied(p, l[k])}

\* Sessions that are kept apart are counted once for each period they take.
LEMMA PeriodsHeld ==
  ASSUME NEW p, NEW l, Listed(p, l), KeptApart(p, l), NEW g, NEW day
  PROVE  SumFunction([c \in {d \in Slots : d[1] = day} |->
                        Cardinality({k \in DOMAIN l : GroupOf(p, l[k]) = g /\ c \in Occupied(p, l[k])})])
           = Cardinality(DayPeriods(p, l, g, day))
<1> DEFINE S == {d \in Slots : d[1] = day}
           A(c) == {k \in DOMAIN l : GroupOf(p, l[k]) = g /\ c \in Occupied(p, l[k])}
           w == [c \in S |-> Cardinality(A(c))]
           T == SlotsSat(p, l, g, day)
           B == [c \in S |-> IF c \in T THEN {c[2]} ELSE {}]
<1>1. IsFiniteSet(S)
  BY GridAssumption, FS_Subset
<1>2. \A c \in S : A(c) # {} <=> c \in T
  BY DEF SlotsSat
<1>3. \A c \in S : \A i, j \in A(c) : i = j
  <2> TAKE c \in S
  <2> TAKE i, j \in A(c)
  <2>1. Clash(p, l[i], l[j])
    BY DEF Clash, GroupsOverlap
  <2> QED
    BY <2>1, Asunder
<1>4. ASSUME NEW c \in S
      PROVE  w[c] = Cardinality(B[c]) /\ IsFiniteSet(B[c])
  <2>1. CASE c \in T
    <3>1. PICK k : k \in A(c)
      BY <1>2, <2>1
    <3>2. A(c) = {k}
      BY <1>3, <3>1
    <3> HIDE DEF A
    <3>3. Cardinality(A(c)) = 1 /\ Cardinality({c[2]}) = 1 /\ IsFiniteSet({c[2]})
      BY <3>2, FS_Singleton
    <3> QED
      BY <2>1, <3>3
  <2>2. CASE c \notin T
    <3>1. A(c) = {}
      BY <1>2, <2>2
    <3> HIDE DEF A
    <3> QED
      BY <2>2, <3>1, FS_EmptySet
  <2> QED
    BY <2>1, <2>2
<1>5. \A c, d \in S : c[2] = d[2] => c = d
  <2>1. \A c \in S : c = <<day, c[2]>>
    BY GridAssumption
  <2> QED
    BY <2>1
<1>6. \A c, d \in S : c # d => B[c] \cap B[d] = {}
  BY <1>5
<1>7. UNION {B[c] : c \in S} = DayPeriods(p, l, g, day)
  <2>1. DayPeriods(p, l, g, day) = {c[2] : c \in T}
    BY DEF DayPeriods, SlotsSat
  <2>2. T \subseteq S
    BY DEF SlotsSat
  <2> HIDE DEF T, S
  <2>3. \A c \in S : B[c] = IF c \in T THEN {c[2]} ELSE {}
    OBVIOUS
  <2> HIDE DEF B
  <2>4. \A c \in T : c[2] \in B[c] /\ c \in S
    BY <2>2, <2>3
  <2>5. \A c \in S : \A x \in B[c] : c \in T /\ x = c[2]
    BY <2>3
  <2> QED
    BY <2>1, <2>4, <2>5
<1>8. SumFunction(w) = SumFunctionOnSet(w, S)
  <2>1. DOMAIN w = S
    OBVIOUS
  <2> HIDE DEF w
  <2> QED
    BY <2>1 DEF SumFunction
<1>9. \A c \in S : IsFiniteSet(B[c])
  BY <1>4
<1>10. \A c \in S : w[c] = Cardinality(B[c])
  BY <1>4
<1>11. SumFunction(w) = Cardinality(UNION {B[c] : c \in S})
  <2> HIDE DEF w, S, B
  <2> QED
    BY <1>1, <1>6, <1>8, <1>9, <1>10, CountApart
<1> QED
  BY <1>7, <1>11

\* The two counts of the gaps agree on them.
LEMMA GapsAgree ==
  ASSUME NEW p, NEW l, Listed(p, l), KeptApart(p, l), NEW g, NEW day
  PROVE  FreePeriods(p, l, g, day) = Gaps(DayPeriods(p, l, g, day))
<1> DEFINE P == DayPeriods(p, l, g, day)
<1>1. P \in SUBSET Nat /\ IsFiniteSet(P)
  <2>1. SlotsSat(p, l, g, day) \in SUBSET Slots /\ P = {slot[2] : slot \in SlotsSat(p, l, g, day)}
    BY DEF SlotsSat, DayPeriods
  <2> QED
    BY <2>1, PeriodsFinite
<1>2. SumFunction([c \in {d \in Slots : d[1] = day} |->
                     Cardinality({k \in DOMAIN l : GroupOf(p, l[k]) = g /\ c \in Occupied(p, l[k])})])
        = Cardinality(P)
  BY PeriodsHeld
<1> DEFINE free == Max(P) - Min(P) + 1 - Cardinality(P)
<1>3. FreePeriods(p, l, g, day) = IF Cardinality(P) < 2 \/ free < 0 THEN 0 ELSE free
  BY <1>2 DEF FreePeriods
<1>4. Gaps(P) = IF Cardinality(P) < 2 THEN 0 ELSE free
  BY DEF Gaps
<1>5. Gaps(P) \in Nat
  BY <1>1, GapsNat
<1> HIDE DEF P, free
<1>6. FreePeriods(p, l, g, day) = Gaps(P)
  BY <1>3, <1>4, <1>5
<1> QED
  BY <1>6 DEF P

\* The preferences are counted in one way for sessions that fit.
LEMMA PreferencesAgree ==
  ASSUME NEW p, NEW l, \A k \in DOMAIN l : Occupied(p, l[k]) \subseteq Slots
  PROVE  SumFunction([k \in DOMAIN l |-> SlotsDisliked(p, l[k])]) = FacultyPreferencePenalty(p, l)
<1>1. ASSUME NEW k \in DOMAIN l
      PROVE  SlotsDisliked(p, l[k]) = Displeasure(p, l[k])
  <2>1. Held(p, l[k]) = Occupied(p, l[k]) \cap Slots
    BY DEF Held
  <2> QED
    BY <2>1 DEF SlotsDisliked, Displeasure
<1>2. [k \in DOMAIN l |-> SlotsDisliked(p, l[k])] = [k \in DOMAIN l |-> Displeasure(p, l[k])]
  BY <1>1
<1> QED
  BY <1>2 DEF FacultyPreferencePenalty

-----------------------------------------------------------------------------
(* The score counted again.                                                *)

\* Of sessions that fit and are kept apart, the two scores agree.
LEMMA ScoresAgree ==
  ASSUME NEW p, WellFormed(p), NEW l, Listed(p, l), KeptApart(p, l),
         \A k \in DOMAIN l : Occupied(p, l[k]) \subseteq Slots
  PROVE  IndependentScore(p, l) = CalculateScore(p, l)
<1>1. [gd \in Groups \X Days |-> FreePeriods(p, l, gd[1], gd[2])]
        = [gd \in Groups \X Days |-> Gaps(DayPeriods(p, l, gd[1], gd[2]))]
  BY GapsAgree
<1>2. [gd \in Groups \X Days |-> RoomSwitches(p, l, gd[1], gd[2])]
        = [gd \in Groups \X Days |-> RoomChanges(Sittings(p, l, gd[1], gd[2]))]
  BY ChangesAgree
<1>3. SumFunction([k \in DOMAIN l |-> SlotsDisliked(p, l[k])]) = FacultyPreferencePenalty(p, l)
  BY PreferencesAgree
<1>4. SumFunction([gd \in Groups \X Days |-> FreePeriods(p, l, gd[1], gd[2])]) = StudentGapPenalty(p, l)
  BY <1>1 DEF StudentGapPenalty
<1>5. SumFunction([gd \in Groups \X Days |-> RoomSwitches(p, l, gd[1], gd[2])]) = RoomChangePenalty(p, l)
  BY <1>2 DEF RoomChangePenalty
<1> QED
  BY <1>3, <1>4, <1>5 DEF IndependentScore, CalculateScore

\* What the verification counts no change of room and no dislike in has none.
LEMMA NothingCounted ==
  ASSUME NEW p, WellFormed(p), NEW l \in Seq(Assignment(p)),
         \A k \in DOMAIN l : Occupied(p, l[k]) \subseteq Slots,
         IndependentScore(p, l).preference = 0, IndependentScore(p, l).room = 0
  PROVE  CalculateScore(p, l).preference = 0 /\ CalculateScore(p, l).room = 0
<1> DEFINE K == Groups \X Days
           s == [gd \in K |-> RoomSwitches(p, l, gd[1], gd[2])]
           c == [gd \in K |-> RoomChanges(Sittings(p, l, gd[1], gd[2]))]
<1>1. CalculateScore(p, l).preference = 0
  BY PreferencesAgree DEF CalculateScore, IndependentScore
<1>2. SumFunction(s) = 0
  BY DEF IndependentScore
<1>3. DOMAIN s = K /\ IsFiniteSet(K) /\ \A gd \in K : s[gd] \in Nat
  BY KeysFinite, SwitchesCounted
<1>4. \A gd \in K : s[gd] = 0
  <2> HIDE DEF s, K
  <2>1. SumFunctionOnSet(s, K) = 0
    BY <1>2, <1>3 DEF SumFunction
  <2>2. \A gd \in K : s[gd] <= SumFunctionOnSet(s, K)
    BY <1>3, SumNat
  <2> QED
    BY <1>3, <2>1, <2>2
<1>5. s = c
  BY <1>4, NoSwitchNoChange
<1>6. RoomChangePenalty(p, l) = SumFunction(c)
  BY DEF RoomChangePenalty
<1> HIDE DEF s, c
<1>7. CalculateScore(p, l).room = 0
  BY <1>2, <1>5, <1>6 DEF CalculateScore
<1> QED
  BY <1>1, <1>7

\* Without weights everything counts once.
LEMMA Unweighted ==
  /\ \A id : Weight(<< >>, id) = 1
  /\ Weight(DefaultObjective, "StudentGapPenalty") = 1
<1>1. \A id : Weight(<< >>, id) = 1
  BY DEF Weight
<1> DEFINE o == DefaultObjective
           id == "StudentGapPenalty"
           named == {k \in DOMAIN o : o[k].id = id}
<1>2. named = {1} /\ o # << >> /\ o[1].weight = 1
  BY DEF DefaultObjective
<1>3. Min({1}) = 1
  <2>1. {1} \in SUBSET Nat /\ IsFiniteSet({1}) /\ {1} # {}
    BY FS_Singleton
  <2>2. Min({1}) \in {1}
    BY <2>1, Extremes
  <2> QED
    BY <2>2
<1>4. Weight(o, id) = IF o = << >> THEN 1 ELSE IF named = {} THEN 0 ELSE o[Min(named)].weight
  BY DEF Weight
<1> HIDE DEF o, named
<1>5. Weight(o, id) = 1
  BY <1>2, <1>3, <1>4
<1> QED
  BY <1>1, <1>5 DEF o

-----------------------------------------------------------------------------
(* An edit that is accepted.                                               *)

\* One session is moved: the list stays one of sessions.
LEMMA MoveTyped ==
  ASSUME NEW p, NEW l, Listed(p, l), NEW k \in DOMAIN l, NEW to \in Candidates,
         NEW c, c.id = l[k].id, c.to = to
  PROVE  Apply(p, BuildIndex(p, l), <<c>>).list \in Seq(Assignment(p))
<1> DEFINE n == [l EXCEPT ![k] = PlacedAt(l[k], to)]
           F == BuildIndex(p, l).faculty
           R == BuildIndex(p, l).room
           G == BuildIndex(p, l).group
           where == [i \in DOMAIN <<c>> |-> <<c>>[i].to]
<1>1. where[1] = to
  OBVIOUS
<1>2. BuildIndex(p, l) = [list |-> l, faculty |-> F, room |-> R, group |-> G]
  BY Built
<1>3. Apply(p, BuildIndex(p, l), <<c>>) = Relocate(p, BuildIndex(p, l), <<c>>, where)
  BY DEF Apply
<1> HIDE DEF F, R, G, where
<1>4. Relocate(p, [list |-> l, faculty |-> F, room |-> R, group |-> G], <<c>>, where).list = n
  <2> DEFINE a == l[k]
             b == PlacedAt(l[k], to)
             F2 == MarkFree(Unmark(F, HeldFaculty(p, a), a.id), HeldFaculty(p, b), b.id)
             R2 == MarkFree(Unmark(R, HeldRoom(p, a), a.id), HeldRoom(p, b), b.id)
             G2 == MarkFree(Unmark(G, HeldGroup(p, a), a.id), HeldGroup(p, b), b.id)
  <2>1. Relocate(p, [list |-> l, faculty |-> F, room |-> R, group |-> G], <<c>>, where)
          = [list |-> n, faculty |-> F2, room |-> R2, group |-> G2]
    BY <1>1, RelocateOne
  <2> HIDE DEF F2, R2, G2, n
  <2> QED
    BY <2>1
<1>5. Listed(p, n)
  BY Relisted
<1>6. Apply(p, BuildIndex(p, l), <<c>>).list = n
  BY <1>2, <1>3, <1>4
<1> QED
  BY <1>5, <1>6 DEF Listed

\* Two sessions change places: it does as well.
LEMMA SwapTyped ==
  ASSUME NEW p, NEW l, Listed(p, l), NEW k \in DOMAIN l, NEW m \in DOMAIN l, k # m,
         NEW c, c.id = l[k].id, c.to \in Candidates, NEW d, d.id = l[m].id, d.to \in Candidates
  PROVE  Apply(p, BuildIndex(p, l), <<c, d>>).list \in Seq(Assignment(p))
<1> DEFINE v == c.to
           w == d.to
           n1 == [l EXCEPT ![k] = PlacedAt(l[k], v)]
           n == [n1 EXCEPT ![m] = PlacedAt(l[m], w)]
           F == BuildIndex(p, l).faculty
           R == BuildIndex(p, l).room
           G == BuildIndex(p, l).group
           where == [i \in DOMAIN <<c, d>> |-> <<c, d>>[i].to]
<1>1. where[1] = v /\ where[2] = w
  OBVIOUS
<1>2. BuildIndex(p, l) = [list |-> l, faculty |-> F, room |-> R, group |-> G]
  BY Built
<1>3. Apply(p, BuildIndex(p, l), <<c, d>>) = Relocate(p, BuildIndex(p, l), <<c, d>>, where)
  BY DEF Apply
<1> HIDE DEF F, R, G, where
<1>4. Relocate(p, [list |-> l, faculty |-> F, room |-> R, group |-> G], <<c, d>>, where).list = n
  <2> DEFINE a == l[k]
             e == l[m]
             b == PlacedAt(l[k], v)
             f == PlacedAt(l[m], w)
             F2 == MarkFree(MarkFree(Unmark(Unmark(F,
                     HeldFaculty(p, a), a.id), HeldFaculty(p, e), e.id),
                     HeldFaculty(p, b), b.id), HeldFaculty(p, f), f.id)
             R2 == MarkFree(MarkFree(Unmark(Unmark(R,
                     HeldRoom(p, a), a.id), HeldRoom(p, e), e.id),
                     HeldRoom(p, b), b.id), HeldRoom(p, f), f.id)
             G2 == MarkFree(MarkFree(Unmark(Unmark(G,
                     HeldGroup(p, a), a.id), HeldGroup(p, e), e.id),
                     HeldGroup(p, b), b.id), HeldGroup(p, f), f.id)
  <2>1. Relocate(p, [list |-> l, faculty |-> F, room |-> R, group |-> G], <<c, d>>, where)
          = [list |-> n, faculty |-> F2, room |-> R2, group |-> G2]
    BY <1>1, RelocateTwo
  <2> HIDE DEF F2, R2, G2, n
  <2> QED
    BY <2>1
<1>5. Listed(p, n1) /\ n1[m] = l[m] /\ m \in DOMAIN n1
  BY Relisted
<1>6. Listed(p, n)
  BY <1>5, Relisted
<1>7. Apply(p, BuildIndex(p, l), <<c, d>>).list = n
  BY <1>2, <1>3, <1>4
<1> QED
  BY <1>6, <1>7 DEF Listed

-----------------------------------------------------------------------------
(* What the searches hand over is feasible.                                *)

LockedOn(p, rule, g, day) ==
  {k \in DOMAIN p.locked : /\ p.locked[k].req \in rule.covers
                           /\ GroupOf(p, p.locked[k]) = g
                           /\ p.locked[k].slot[1] = day}

PlacedOn(p, f, rule, g, day) ==
  {d \in Decisions(p) : /\ d[1] \in rule.covers
                        /\ GroupOf(p, Assign(d, f[d])) = g
                        /\ f[d][2][1] = day}

\* What it means that a placing works.
LEMMA WorksMeans ==
  ASSUME NEW p, NEW f, Works(p, f)
  PROVE  /\ \A d \in Decisions(p) : Suits(p, Assign(d, f[d]))
         /\ \A d, e \in Decisions(p) : d # e => ~Clash(p, Assign(d, f[d]), Assign(e, f[e]))
         /\ \A d \in Decisions(p), k \in DOMAIN p.locked : ~Clash(p, Assign(d, f[d]), p.locked[k])
         /\ \A rule \in p.rules, g \in Groups, slot \in Slots :
              Cardinality(LockedOn(p, rule, g, slot[1])) + Cardinality(PlacedOn(p, f, rule, g, slot[1]))
                <= rule.max
BY DEF Works, LockedOn, PlacedOn

\* The sessions of a timetable that a rule counts together.
LEMMA CrowdOfTimetable ==
  ASSUME NEW p, WellFormed(p), LockedValid(p), NEW f \in [Decisions(p) -> Candidates], Works(p, f),
         NEW rule \in p.rules, NEW k \in DOMAIN Timetable(p, f)
  PROVE  Cardinality(Crowd(p, [list |-> Timetable(p, f)], rule, Timetable(p, f)[k])) <= rule.max
<1> DEFINE l == Timetable(p, f)
           g == GroupOf(p, l[k])
           slot == l[k].slot
           L == LockedOn(p, rule, g, slot[1])
           P == PlacedOn(p, f, rule, g, slot[1])
           M == {i \in Later(p, l) : l[i].req \in rule.covers /\ GroupOf(p, l[i]) = g /\ l[i].slot[1] = slot[1]}
           C == Crowd(p, [list |-> l], rule, l[k])
           h == [i \in M |-> l[i].id]
<1>1. Handed(p, l) /\ \A i \in Later(p, l) : l[i] = Assign(l[i].id, f[l[i].id])
  BY TimetableHanded
<1> HIDE DEF l
<1>2. l \in Seq(Assignment(p)) /\ k \in DOMAIN l
  BY <1>1 DEF Handed, l
<1>3. C = L \cup M /\ L \cap M = {}
  <2>1. C = {i \in DOMAIN l : l[i].req \in rule.covers /\ GroupOf(p, l[i]) = g /\ l[i].slot[1] = slot[1]}
    BY DEF Crowd
  <2> HIDE DEF g, slot
  <2>2. \A i \in DOMAIN p.locked : i \in DOMAIN l /\ l[i] = p.locked[i]
    BY <1>1 DEF Handed
  <2> QED
    BY <2>1, <2>2 DEF LockedOn, Later
<1>4. l[k] \in Assignment(p)
  BY <1>2
<1>5. slot \in Slots /\ g \in Groups
  <2>1. l[k].req \in DOMAIN p.reqs /\ l[k].slot \in Slots
    BY <1>4 DEF Assignment
  <2> QED
    BY <2>1, Fields DEF GroupOf
<1>6. {h[i] : i \in M} = P
  <2> HIDE DEF g, slot
  <2>1. \A i \in Later(p, l) : /\ l[i].id \in Decisions(p) /\ l[i].req = l[i].id[1]
                               /\ l[i] = Assign(l[i].id, f[l[i].id]) /\ l[i].slot = f[l[i].id][2]
    BY <1>1, Placed DEF Handed
  <2>2. \A i \in M : h[i] \in P
    BY <2>1 DEF PlacedOn
  <2>3. ASSUME NEW d \in P
        PROVE  \E i \in M : h[i] = d
    <3>1. PICK i \in Later(p, l) : l[i].id = d
      BY <1>1 DEF PlacedOn, Handed
    <3>2. i \in M
      BY <2>1, <3>1 DEF PlacedOn
    <3> QED
      BY <3>1, <3>2
  <2> QED
    BY <2>2, <2>3
<1>7. IsFiniteSet(L) /\ IsFiniteSet(M)
  <2>1. IsFiniteSet(DOMAIN p.locked) /\ L \subseteq DOMAIN p.locked
    BY Fields DEF LockedOn
  <2>2. IsFiniteSet(DOMAIN l) /\ M \subseteq DOMAIN l
    BY <1>2, PlacesFinite DEF Later
  <2> QED
    BY <2>1, <2>2, FS_Subset
<1>8. (\A x, y \in M : h[x] = h[y] => x = y) /\ DOMAIN h = M
  BY <1>1 DEF Handed
<1>9. Cardinality(L) + Cardinality(P) <= rule.max
  BY <1>5, WorksMeans
<1> HIDE DEF L, P, M, C, h
<1>10. Cardinality(M) = Cardinality(P)
  BY <1>6, <1>7, <1>8, Renamed
<1>11. Cardinality(L \cup M) = Cardinality(L) + Cardinality(M) - Cardinality(L \cap M)
  BY <1>7, FS_Union
<1>12. Cardinality(L \cap M) = 0 /\ Cardinality(L) \in Nat /\ Cardinality(M) \in Nat
  BY <1>3, <1>7, FS_EmptySet, FS_CardinalityType
<1>13. Cardinality(C) = Cardinality(L) + Cardinality(P)
  BY <1>3, <1>10, <1>11, <1>12
<1> QED
  BY <1>9, <1>13 DEF C, l

\* What the first search finds is feasible.
LEMMA FoundFeasible ==
  ASSUME NEW p, WellFormed(p), LockedValid(p), NEW f \in [Decisions(p) -> Candidates], Works(p, f)
  PROVE  Feasible(p, Timetable(p, f))
<1> DEFINE l == Timetable(p, f)
<1>1. Handed(p, l) /\ \A i \in Later(p, l) : l[i] = Assign(l[i].id, f[l[i].id])
  BY TimetableHanded
<1>2. \A rule \in p.rules : RuleHolds(p, [list |-> l], rule)
  BY CrowdOfTimetable DEF RuleHolds
<1> HIDE DEF l
<1>3. \A k \in DOMAIN l : k \in DOMAIN p.locked \/ k \in Later(p, l)
  BY DEF Later
<1>4. \A k \in DOMAIN p.locked : l[k] = p.locked[k]
  BY <1>1 DEF Handed
<1>5. \A k \in Later(p, l) : l[k].id \in Decisions(p)
  BY <1>1 DEF Handed
<1>6. \A k \in DOMAIN l : Suits(p, l[k])
  BY <1>1, <1>3, <1>4, <1>5, WorksMeans DEF LockedValid
<1>7. ASSUME NEW k \in DOMAIN l, NEW j \in DOMAIN l, k < j
      PROVE  ~Clash(p, l[k], l[j])
  <2>1. CASE k \in DOMAIN p.locked /\ j \in DOMAIN p.locked
    BY <1>4, <1>7, <2>1 DEF LockedValid
  <2>2. CASE k \in DOMAIN p.locked /\ j \in Later(p, l)
    BY <1>1, <1>4, <1>5, <2>2, WorksMeans, ClashBoth
  <2>3. CASE k \in Later(p, l) /\ j \in DOMAIN p.locked
    BY <1>1, <1>4, <1>5, <2>3, WorksMeans
  <2>4. CASE k \in Later(p, l) /\ j \in Later(p, l)
    <3>1. l[k].id # l[j].id
      <4>1. k \in Nat
        BY <1>1, LenProperties DEF Handed
      <4>2. k # j
        BY <1>7, <4>1
      <4> QED
        BY <1>1, <2>4, <4>2 DEF Handed
    <3> QED
      BY <1>1, <1>5, <2>4, <3>1, WorksMeans
  <2> QED
    BY <1>3, <2>1, <2>2, <2>3, <2>4
<1>8. KeptApart(p, l)
  BY <1>7 DEF KeptApart
<1> QED
  BY <1>2, <1>6, <1>8 DEF Feasible, l

\* What the second search makes of a timetable is one of the same sessions, and feasible.
LEMMA ImprovedFeasible ==
  ASSUME NEW p, WellFormed(p), NEW old, Handed(p, old),
         NEW new \in Placings(old), Improves(p, old, new)
  PROVE  Handed(p, new) /\ Feasible(p, new)
<1>1. Rearranged(p, old, new)
  BY DEF Improves
<1> QED
  BY <1>1, RearrangedHanded DEF Improves, KeepsRules, Feasible

-----------------------------------------------------------------------------
(* The verdict about it.                                                   *)

\* What the verification accepts has passed its three checks.
LEMMA Accepted ==
  ASSUME NEW p, NEW instances, NEW l, NEW sc, Verdict(p, instances, l, sc) = "SOLVED"
  PROVE  Complete(p, l) /\ LockedKept(p, l) /\ HardHolds(p, instances, l) /\ ScoreAgrees(p, l, sc)
BY DEF Verdict

\* It says one thing or the other.
LEMMA TwoVerdicts == \A p, instances, l, sc : Verdict(p, instances, l, sc) \in {"SOLVED", "INVALID_RESULT"}
BY DEF Verdict

\* A timetable of the searches is accepted if none of the four reasons is there.
LEMMA HandedAccepted ==
  ASSUME NEW p, WellFormed(p), LockedValid(p), NEW l, Handed(p, l), Feasible(p, l), KeptApart(p, l),
         DistinctIds(p), NumbersInRange(p), NEW instances, p.rules = CompiledRules(instances),
         NEW objective, Weighted(objective, CalculateScore(p, l)) = Penalty(p, l)
  PROVE  Verdict(p, instances, l, Scored(objective, CalculateScore(p, l))) = "SOLVED"
<1> DEFINE raw == CalculateScore(p, l)
           sc == Scored(objective, raw)
<1>1. \A k \in DOMAIN l : Suits(p, l[k])
  BY DEF Feasible
<1>2. \A k \in DOMAIN l : Occupied(p, l[k]) \subseteq Slots
  BY <1>1 DEF Suits, Available
<1>3. Listed(p, l)
  BY HandedListed
<1>4. Complete(p, l) /\ LockedKept(p, l)
  BY <1>1, <1>3, HandedComplete, HandedKept
<1>5. HardHolds(p, instances, l)
  BY <1>1, <1>3, FeasibleHolds DEF Feasible
<1>6. IndependentScore(p, l) = raw
  BY <1>2, <1>3, ScoresAgree
<1>7. sc.breakdown = raw /\ sc.soft = Penalty(p, l) /\ sc.total = sc.soft
  BY DEF Scored
<1> HIDE DEF sc
<1>8. ScoreAgrees(p, l, sc)
  BY <1>6, <1>7 DEF ScoreAgrees, Penalty
<1>9. Verdict(p, instances, l, sc) = "SOLVED"
  BY <1>4, <1>5, <1>8 DEF Verdict
<1> QED
  BY <1>9 DEF sc

-----------------------------------------------------------------------------
(* The invariant of the phases.                                            *)

\* The timetable of the second half of the pipeline, and the score it goes with.
Produced ==
  /\ Handed(problem, list) /\ Feasible(problem, list)
  /\ score = Scored(IF phase = "verify" /\ request.optimize THEN problem.objective ELSE DefaultObjective,
                    CalculateScore(problem, list))

\* The rules of the problem, once they are compiled.
RulesCompiled == problem.rules = CompiledRules(request.instances)

EngineInv ==
  /\ request \in Requests /\ Formed(problem) /\ problem.objective = request.problem.objective
  /\ phase \in {"validate", "presolve", "compile"} => problem = request.problem
  /\ phase \in Phases \ {"validate", "over", "stored"} => LockedValid(problem)
  /\ phase \in {"objective", "search", "improve", "verify"} => RulesCompiled
  /\ phase \notin {"over", "stored"} => status = "NONE"
  /\ phase \in {"improve", "verify"} => Produced
  /\ status = "SOLVED" => RulesCompiled /\ list \in Seq(Assignment(problem))
  /\ phase = "stored" => status = "SOLVED" /\ problem.objective = << >> /\ score = Stored(score.soft)
  /\ SolvedIsSound
  /\ PreSolveIsProof
  /\ RejectionsExplained

\* A problem of the requests is in order.
LEMMA RequestFormed ==
  ASSUME NEW q \in Requests
  PROVE  Formed(q.problem) /\ IsFiniteSet(q.instances) /\ q.instances \subseteq InstanceOf(q.problem)
         /\ ProblemFields \subseteq DOMAIN q.problem
BY RequestsAssumption, ProblemsAssumption, SoftAssumption DEF Formed

\* It stays so when its rules are compiled, and its locked sessions stay valid.
LEMMA CompiledFormed ==
  ASSUME NEW q \in Requests, \A c \in q.instances : Compiles(c), NEW n,
         n = [q.problem EXCEPT !.rules = CompiledRules(q.instances)]
  PROVE  /\ Formed(n) /\ n.rules = CompiledRules(q.instances) /\ n.objective = q.problem.objective
         /\ LockedValid(q.problem) => LockedValid(n)
<1> DEFINE p == q.problem
           I == q.instances
           R == CompiledRules(I)
           S == {d \in I : d.template = "SubjectMaxPerDay"}
           h == [c \in S |-> [covers |-> c.covers, max |-> c.max]]
<1>1. Formed(p) /\ IsFiniteSet(I) /\ I \subseteq InstanceOf(p) /\ ProblemFields \subseteq DOMAIN p
  BY RequestFormed
<1>2. R = {h[c] : c \in S} /\ DOMAIN h = S
  BY DEF CompiledRules
<1>3. IsFiniteSet(S)
  BY <1>1, FS_Subset
<1>4. IsFiniteSet(R)
  <2> HIDE DEF h, S, R
  <2> QED
    BY <1>2, <1>3, FiniteImage
<1>5. R \subseteq Rule(p)
  <2>1. ASSUME NEW c \in S
        PROVE  h[c] \in Rule(p)
    <3>1. c \in InstanceOf(p) /\ Compiles(c) /\ c.template = "SubjectMaxPerDay"
      BY <1>1
    <3>2. c.covers \in SUBSET DOMAIN p.reqs /\ c.max \in Int /\ c.max >= 1
      BY <3>1 DEF InstanceOf, Compiles
    <3>3. c.max \in Nat \ {0}
      BY <3>2
    <3> QED
      BY <3>2, <3>3 DEF Rule
  <2> QED
    BY <1>2, <2>1
<1> HIDE DEF p, I, R, S, h
<1>6. n = [p EXCEPT !.rules = R]
  BY DEF p, I, R
<1>7. /\ n.reqs = p.reqs /\ n.rooms = p.rooms /\ n.sizes = p.sizes /\ n.free = p.free /\ n.locked = p.locked /\ n.rules = R
      /\ n.mode = p.mode /\ n.maxNodes = p.maxNodes /\ n.dislikes = p.dislikes /\ n.objective = p.objective
  BY <1>1, <1>6 DEF ProblemFields
<1>8. Rule(n) = Rule(p) /\ Assignment(n) = Assignment(p)
  BY <1>7 DEF Rule, Assignment
<1>9. WellFormed(n)
  BY <1>1, <1>4, <1>5, <1>7, <1>8 DEF Formed, WellFormed
<1>10. SoftFormed(n)
  BY <1>1, <1>7 DEF Formed, SoftFormed
<1>11. ASSUME LockedValid(p) PROVE LockedValid(n)
  <2>1. \A a : Occupied(n, a) = Occupied(p, a) /\ FacultyOf(n, a) = FacultyOf(p, a) /\ GroupOf(n, a) = GroupOf(p, a)
    BY <1>7 DEF Occupied, FacultyOf, GroupOf
  <2>2. \A a : Suits(n, a) <=> Suits(p, a)
    BY <1>7, <2>1 DEF Suits, Available, RoomCapacity, RoomHasFeatures
  <2>3. \A a, b : Clash(n, a, b) <=> Clash(p, a, b)
    BY <2>1 DEF Clash
  <2>4. \A r : LockedCount(n, r) = LockedCount(p, r)
    BY <1>7 DEF LockedCount
  <2> QED
    BY <1>7, <1>11, <2>2, <2>3, <2>4 DEF LockedValid
<1> QED
  BY <1>7, <1>9, <1>10, <1>11 DEF Formed, p, I, R

\* The invariant holds at the start.
LEMMA EngineInit == Init => EngineInv
<1> SUFFICES ASSUME Init PROVE EngineInv
  OBVIOUS
<1>1. Formed(problem)
  BY RequestFormed DEF Init
<1> QED
  BY <1>1 DEF Init, EngineInv, Phases, SolvedIsSound, PreSolveIsProof, RejectionsExplained

\* A response without a timetable keeps it.
LEMMA Ends ==
  ASSUME EngineInv, phase \notin {"over", "stored"}, phase' = "over",
         status' \notin {"NONE", "SOLVED", "INVALID_RESULT"},
         status' = "INFEASIBLE" /\ ended' = "presolve" =>
           ~Solvable(problem) \/ \E r \in DOMAIN problem.reqs : NeedsNoSeats(problem, r),
         UNCHANGED <<request, problem>>
  PROVE  EngineInv'
BY DEF EngineInv, Phases, SolvedIsSound, PreSolveIsProof, RejectionsExplained

\* A step to the next phase keeps it, if what the phase needs is there.
LEMMA GoesOn ==
  ASSUME EngineInv, phase \notin {"over", "stored"}, phase' \in Phases \ {"validate", "over", "stored"},
         status' = status, request' = request,
         Formed(problem'), problem'.objective = problem.objective,
         phase' \in {"presolve", "compile"} => problem' = request.problem,
         LockedValid(problem'),
         phase' \in {"objective", "search", "improve", "verify"} => RulesCompiled',
         phase' \in {"improve", "verify"} => Produced'
  PROVE  EngineInv'
<1>1. status' = "NONE"
  BY DEF EngineInv
<1> QED
  BY <1>1 DEF EngineInv, Phases, SolvedIsSound, PreSolveIsProof, RejectionsExplained

\* The steps that end the solving without a timetable.
LEMMA EndingSteps ==
  ASSUME EngineInv,
         Invalid \/ Hopeless \/ CompileError \/ InvalidObjective \/ NotFound \/ GaveUp \/ Failed
           \/ Interrupted \/ Spoiled
  PROVE  EngineInv'
<1>1. CASE Invalid
  BY <1>1, Ends DEF Invalid, End
<1>2. CASE Hopeless
  <2>1. LockedValid(problem) /\ WellFormed(problem)
    BY <1>2 DEF Hopeless, EngineInv, Phases, Formed
  <2>2. ~Solvable(problem) \/ \E r \in DOMAIN problem.reqs : NeedsNoSeats(problem, r)
    BY <1>2, <2>1, RejectedHopeless DEF Hopeless
  <2> QED
    BY <1>2, <2>2, Ends DEF Hopeless, End
<1>3. CASE CompileError
  BY <1>3, Ends DEF CompileError, End
<1>4. CASE InvalidObjective
  BY <1>4, Ends DEF InvalidObjective, End
<1>5. CASE NotFound
  BY <1>5, Ends DEF NotFound, End
<1>6. CASE GaveUp
  BY <1>6, Ends DEF GaveUp, End
<1>7. CASE Failed
  BY <1>7, Ends DEF Failed, End
<1>8. CASE Interrupted
  BY <1>8, Ends DEF Interrupted, End
<1>9. CASE Spoiled
  BY <1>9, Ends DEF Spoiled, End
<1> QED
  BY <1>1, <1>2, <1>3, <1>4, <1>5, <1>6, <1>7, <1>8, <1>9

\* The steps to a next phase.
LEMMA PhaseSteps ==
  ASSUME EngineInv, Validate \/ PreSolve \/ Compile \/ ValidateObjective \/ Found \/ Skip \/ Improve
  PROVE  EngineInv'
<1>1. Formed(problem) /\ WellFormed(problem) /\ request \in Requests
  BY DEF EngineInv, Formed
<1>2. CASE Validate
  BY <1>1, <1>2, GoesOn DEF Validate, GoOn, EngineInv, Phases
<1>3. CASE PreSolve
  BY <1>1, <1>3, GoesOn DEF PreSolve, GoOn, EngineInv, Phases
<1>4. CASE Compile
  <2>1. phase = "compile" /\ problem = request.problem /\ LockedValid(problem)
    BY <1>4 DEF Compile, EngineInv, Phases
  <2>2. /\ problem' = [request.problem EXCEPT !.rules = CompiledRules(request.instances)]
        /\ \A c \in request.instances : Compiles(c)
    BY <1>4, <2>1 DEF Compile
  <2>3. /\ Formed(problem') /\ problem'.rules = CompiledRules(request.instances)
        /\ problem'.objective = problem.objective /\ LockedValid(problem')
    BY <1>1, <2>1, <2>2, CompiledFormed
  <2>4. phase' = "objective" /\ request' = request /\ status' = status
    BY <1>4 DEF Compile, GoOn
  <2> QED
    BY <2>1, <2>3, <2>4, GoesOn DEF RulesCompiled, Phases
<1>5. CASE ValidateObjective
  <2>1. RulesCompiled'
    BY <1>5 DEF ValidateObjective, GoOn, EngineInv, RulesCompiled
  <2> QED
    BY <1>1, <1>5, <2>1, GoesOn DEF ValidateObjective, GoOn, EngineInv, Phases
<1>6. CASE Found
  <2>1. LockedValid(problem) /\ RulesCompiled /\ phase = "search"
    BY <1>6 DEF Found, EngineInv, Phases
  <2>2. PICK f \in [Decisions(problem) -> Candidates] : Works(problem, f) /\ list' = Timetable(problem, f)
    BY <1>6 DEF Found
  <2>3. Handed(problem, list') /\ Feasible(problem, list')
    BY <1>1, <2>1, <2>2, TimetableHanded, FoundFeasible
  <2>4. /\ problem' = problem /\ phase' = "improve" /\ request' = request /\ status' = status
        /\ score' = Scored(DefaultObjective, CalculateScore(problem, list'))
    BY <1>6 DEF Found, GoOn
  <2>5. Produced'
    BY <2>3, <2>4 DEF Produced
  <2>6. RulesCompiled'
    BY <2>1, <2>4 DEF RulesCompiled
  <2> QED
    BY <1>1, <2>1, <2>4, <2>5, <2>6, GoesOn DEF Phases
<1>7. CASE Skip
  <2>1. LockedValid(problem) /\ RulesCompiled /\ Produced /\ phase = "improve" /\ ~request.optimize
    BY <1>7 DEF Skip, EngineInv, Phases
  <2>2. /\ problem' = problem /\ phase' = "verify" /\ request' = request /\ status' = status
        /\ list' = list /\ score' = score
    BY <1>7 DEF Skip, GoOn
  <2>3. Produced' /\ RulesCompiled'
    BY <2>1, <2>2 DEF Produced, RulesCompiled
  <2> QED
    BY <1>1, <2>1, <2>2, <2>3, GoesOn DEF Phases
<1>8. CASE Improve
  <2>1. LockedValid(problem) /\ RulesCompiled /\ Produced /\ phase = "improve" /\ request.optimize
    BY <1>8 DEF Improve, EngineInv, Phases
  <2>2. /\ problem' = problem /\ phase' = "verify" /\ request' = request /\ status' = status
        /\ list' \in Placings(list) /\ Improves(problem, list, list')
        /\ score' = Scored(problem.objective, CalculateScore(problem, list'))
    BY <1>8 DEF Improve, GoOn, Rearrange
  <2>3. Handed(problem, list') /\ Feasible(problem, list')
    BY <1>1, <2>1, <2>2, ImprovedFeasible DEF Produced
  <2>4. Produced'
    BY <2>1, <2>2, <2>3 DEF Produced
  <2>5. RulesCompiled'
    BY <2>1, <2>2 DEF RulesCompiled
  <2> QED
    BY <1>1, <2>1, <2>2, <2>4, <2>5, GoesOn DEF Phases
<1> QED
  BY <1>2, <1>3, <1>4, <1>5, <1>6, <1>7, <1>8

\* The verification's answer.
LEMMA VerifyStep ==
  ASSUME EngineInv, Verify
  PROVE  EngineInv'
<1> DEFINE v == Verdict(problem, request.instances, list, score)
           raw == CalculateScore(problem, list)
           o == IF request.optimize THEN problem.objective ELSE DefaultObjective
<1>1. /\ Formed(problem) /\ WellFormed(problem) /\ LockedValid(problem) /\ RulesCompiled
      /\ phase = "verify" /\ request \in Requests /\ problem.objective = request.problem.objective
  BY DEF Verify, EngineInv, Formed, Phases
<1>2. Handed(problem, list) /\ Feasible(problem, list) /\ score = Scored(o, raw)
  BY <1>1 DEF EngineInv, Produced
<1>3. UNCHANGED <<request, problem, list, score>> /\ phase' = "over" /\ status' = v /\ ended' = "verify"
  BY <1>1 DEF Verify, End
<1>4. v \in {"SOLVED", "INVALID_RESULT"}
  BY TwoVerdicts
<1>5. list \in Seq(Assignment(problem))
  BY <1>2 DEF Handed
<1>6. ASSUME v = "SOLVED"
      PROVE  Sound(problem, list) /\ score.soft = Penalty(problem, list)
  <2>1. Complete(problem, list) /\ LockedKept(problem, list) /\ ScoreAgrees(problem, list, score)
    BY <1>6, Accepted
  <2>2. Sound(problem, list)
    BY <1>5, <2>1, VerifiedSound
  <2>3. score.breakdown = raw
    BY <1>2 DEF Scored
  <2>4. score.soft = Weighted(problem.objective, raw)
    BY <2>1, <2>3 DEF ScoreAgrees
  <2> QED
    BY <2>2, <2>4 DEF Penalty
<1>7. ASSUME v = "INVALID_RESULT", KeptApart(problem, list), DistinctIds(problem),
             ~ \E k \in DOMAIN problem.locked :
                 InstanceNumber(problem.locked[k]) >= problem.reqs[problem.locked[k].req].perWeek,
             ~(~request.optimize /\ Penalty(problem, list) # Weighted(DefaultObjective, raw))
      PROVE  FALSE
  <2>1. Weighted(o, raw) = Penalty(problem, list)
    BY <1>7 DEF Penalty
  <2>2. NumbersInRange(problem)
    <3>1. ASSUME NEW k \in DOMAIN problem.locked
          PROVE  InstanceNumber(problem.locked[k]) < problem.reqs[problem.locked[k].req].perWeek
      <4>1. problem.locked[k] \in Assignment(problem)
        BY <1>1, Fields
      <4>2. problem.locked[k].id \in AssignmentIDs /\ problem.locked[k].req \in DOMAIN problem.reqs
        BY <4>1 DEF Assignment
      <4>3. InstanceNumber(problem.locked[k]) \in Nat
        BY <4>2 DEF InstanceNumber, AssignmentIDs
      <4>4. problem.reqs[problem.locked[k].req].perWeek \in Nat
        BY <1>1, <4>2, Fields
      <4> QED
        BY <1>7, <4>3, <4>4
    <3> QED
      BY <3>1 DEF NumbersInRange
  <2>3. problem.rules = CompiledRules(request.instances)
    BY <1>1 DEF RulesCompiled
  <2> HIDE DEF o
  <2>4. v = "SOLVED"
    BY <1>1, <1>2, <1>7, <2>1, <2>2, <2>3, HandedAccepted
  <2> QED
    BY <1>7, <2>4
<1> HIDE DEF v
<1>8. SolvedIsSound'
  BY <1>2, <1>3, <1>6 DEF SolvedIsSound
<1>9. RejectionsExplained'
  BY <1>3, <1>7 DEF RejectionsExplained
<1>10. PreSolveIsProof'
  BY <1>3 DEF PreSolveIsProof
<1>11. RulesCompiled'
  BY <1>1, <1>3 DEF RulesCompiled
<1>12. /\ Formed(problem') /\ problem'.objective = request'.problem.objective /\ request' \in Requests
       /\ list' \in Seq(Assignment(problem'))
  BY <1>1, <1>3, <1>5
<1> QED
  BY <1>3, <1>4, <1>8, <1>9, <1>10, <1>11, <1>12 DEF EngineInv, Phases

\* The draft is stored with its penalty alone.
LEMMA StoreStep ==
  ASSUME EngineInv, Store
  PROVE  EngineInv'
<1>1. /\ phase = "over" /\ status = "SOLVED" /\ request.problem.objective = << >> /\ phase' = "stored"
      /\ score' = Stored(score.soft) /\ UNCHANGED <<request, problem, list, status, ended, answer>>
  BY DEF Store
<1>2. score'.soft = score.soft
  BY <1>1 DEF Stored, Unscored
<1>3. SolvedIsSound'
  BY <1>1, <1>2 DEF EngineInv, SolvedIsSound
<1>4. PreSolveIsProof' /\ RejectionsExplained' /\ RulesCompiled'
  BY <1>1 DEF EngineInv, PreSolveIsProof, RejectionsExplained, RulesCompiled
<1>5. /\ Formed(problem') /\ problem'.objective = request'.problem.objective /\ request' \in Requests
      /\ list' \in Seq(Assignment(problem')) /\ problem'.objective = << >>
  BY <1>1 DEF EngineInv
<1> QED
  BY <1>1, <1>2, <1>3, <1>4, <1>5 DEF EngineInv, Phases

\* A question about the draft changes nothing but the answer.
LEMMA Asked ==
  ASSUME EngineInv, UNCHANGED <<request, phase, problem, list, score, status, ended>>
  PROVE  EngineInv'
BY DEF EngineInv, Produced, RulesCompiled, SolvedIsSound, PreSolveIsProof, RejectionsExplained

\* The penalty of a timetable in whose room changes and dislikes nothing is counted.
LEMMA GapsAlone ==
  ASSUME NEW p, Formed(p), p.objective = << >>, NEW l \in Seq(Assignment(p)), NEW instances, NEW soft,
         Verdict(p, instances, l, Stored(soft)) = "SOLVED"
  PROVE  Weight(DefaultObjective, "StudentGapPenalty") * StudentGapPenalty(p, l) = Penalty(p, l)
<1> DEFINE raw == CalculateScore(p, l)
<1>1. Complete(p, l) /\ ScoreAgrees(p, l, Stored(soft))
  BY Accepted
<1>2. \A k \in DOMAIN l : Occupied(p, l[k]) \subseteq Slots
  BY <1>1 DEF Complete
<1>3. Stored(soft).breakdown = [gap |-> 0, preference |-> 0, room |-> 0]
  BY DEF Stored, Unscored
<1>4. IndependentScore(p, l) = [gap |-> 0, preference |-> 0, room |-> 0]
  BY <1>1, <1>3 DEF ScoreAgrees
<1>5. raw.preference = 0 /\ raw.room = 0
  BY <1>2, <1>4, NothingCounted DEF Formed
<1>6. raw.gap = StudentGapPenalty(p, l)
  BY DEF CalculateScore
<1>7. raw \in Breakdown
  BY TalliesTyped, TotalsAreTheScore
<1>8. raw.gap \in Nat
  BY <1>7 DEF Breakdown
<1> HIDE DEF raw
<1>9. Weighted(p.objective, raw) = raw.gap * 1 + 0 * 1 + 0 * 1
  BY <1>5, Unweighted DEF Weighted
<1>10. Weighted(p.objective, raw) = raw.gap
  BY <1>8, <1>9
<1>11. Weight(DefaultObjective, "StudentGapPenalty") = 1
  BY Unweighted
<1>12. 1 * raw.gap = raw.gap
  BY <1>8
<1> QED
  BY <1>6, <1>10, <1>11, <1>12 DEF Penalty, raw

\* An accepted edit leaves the draft sound, and feasible if the built-in constraints are evaluated.
LEMMA EditAccepted ==
  ASSUME EngineInv, phase = "stored", NEW moved \in Seq(Assignment(problem)),
         Verdict(problem, request.instances, moved, score) = "SOLVED",
         list' = moved,
         score' = Stored(Weight(DefaultObjective, "StudentGapPenalty") * StudentGapPenalty(problem, moved)),
         UNCHANGED <<request, phase, problem, status, ended>>
  PROVE  EngineInv'
<1>1. /\ Formed(problem) /\ WellFormed(problem) /\ status = "SOLVED" /\ problem.objective = << >>
      /\ score = Stored(score.soft) /\ RulesCompiled /\ request \in Requests
      /\ problem.objective = request.problem.objective
  BY DEF EngineInv, Formed
<1>2. score'.soft = Penalty(problem, moved) /\ score' = Stored(score'.soft)
  <2>1. Weight(DefaultObjective, "StudentGapPenalty") * StudentGapPenalty(problem, moved) = Penalty(problem, moved)
    BY <1>1, GapsAlone
  <2> QED
    BY <2>1 DEF Stored, Unscored
<1>3. /\ Complete(problem, moved) /\ LockedKept(problem, moved) /\ HardHolds(problem, request.instances, moved)
  BY Accepted
<1>4. Sound(problem, moved) /\ Listed(problem, moved)
  BY <1>3, VerifiedSound
<1>5. ASSUME request.instances = {}
      PROVE  Feasible(problem, moved)
  <2>1. \A k \in DOMAIN moved : Occupied(problem, moved[k]) \subseteq Slots
    BY <1>3 DEF Complete
  <2>2. /\ \A k \in DOMAIN moved : Suits(problem, moved[k])
        /\ OneSlotSessions(problem) => KeptApart(problem, moved)
    BY <1>1, <1>3, <1>4, <1>5, <2>1, HoldsFeasible
  <2>3. problem.rules = {}
    BY <1>1, <1>5 DEF RulesCompiled, CompiledRules
  <2> QED
    BY <2>2, <2>3 DEF Feasible
<1>6. SolvedIsSound'
  BY <1>1, <1>2, <1>4, <1>5 DEF SolvedIsSound
<1>7. PreSolveIsProof' /\ RejectionsExplained' /\ RulesCompiled'
  BY <1>1 DEF PreSolveIsProof, RejectionsExplained, RulesCompiled
<1>8. /\ Formed(problem') /\ problem'.objective = request'.problem.objective /\ request' \in Requests
      /\ list' \in Seq(Assignment(problem')) /\ problem'.objective = << >>
  BY <1>1
<1> QED
  BY <1>1, <1>2, <1>6, <1>7, <1>8 DEF EngineInv, Phases

\* An edit.
LEMMA EditStep ==
  ASSUME EngineInv, NEW move, Edit(move),
         Appliable(problem, BuildIndex(problem, list), move) =>
           Apply(problem, BuildIndex(problem, list), move).list \in Seq(Assignment(problem))
  PROVE  EngineInv'
<1> DEFINE moved == Apply(problem, BuildIndex(problem, list), move).list
           able  == Appliable(problem, BuildIndex(problem, list), move)
           verdict == IF able THEN Verdict(problem, request.instances, moved, score) ELSE "INVALID_RESULT"
           gaps  == Weight(DefaultObjective, "StudentGapPenalty") * StudentGapPenalty(problem, moved)
<1>1. /\ phase = "stored" /\ UNCHANGED <<request, phase, problem, status, ended>>
      /\ (verdict = "SOLVED" /\ list' = moved /\ score' = Stored(gaps)) \/ UNCHANGED <<list, score>>
  BY DEF Edit
<1>2. CASE UNCHANGED <<list, score>>
  BY <1>1, <1>2, Asked
<1>3. CASE verdict = "SOLVED" /\ list' = moved /\ score' = Stored(gaps)
  <2>1. able /\ Verdict(problem, request.instances, moved, score) = "SOLVED"
    BY <1>3
  <2>2. moved \in Seq(Assignment(problem))
    BY <2>1
  <2> HIDE DEF moved, able
  <2> QED
    BY <1>1, <1>3, <2>1, <2>2, EditAccepted
<1> QED
  BY <1>1, <1>2, <1>3

\* The sessions of a draft have distinct ids.
LEMMA DraftListed ==
  ASSUME EngineInv, phase = "stored"
  PROVE  Listed(problem, list)
<1>1. status = "SOLVED" /\ list \in Seq(Assignment(problem)) /\ Sound(problem, list)
  BY DEF EngineInv, SolvedIsSound
<1> QED
  BY <1>1 DEF Sound, Listed

\* The steps of the draft.
LEMMA DraftSteps ==
  ASSUME EngineInv, Store \/ VerifyStored \/ EditMove \/ EditSwap
  PROVE  EngineInv'
<1>1. CASE Store
  BY <1>1, StoreStep
<1>2. CASE VerifyStored
  BY <1>2, Asked DEF VerifyStored
<1>3. CASE EditMove
  <2>1. PICK k \in DOMAIN list, from \in Candidates, to \in Candidates :
          Edit(<<[id |-> list[k].id, req |-> list[k].req, from |-> from, to |-> to]>>)
    BY <1>3 DEF EditMove
  <2> DEFINE c == [id |-> list[k].id, req |-> list[k].req, from |-> from, to |-> to]
  <2>2. c.id = list[k].id /\ c.to = to /\ Edit(<<c>>)
    BY <2>1
  <2> HIDE DEF c
  <2>3. Listed(problem, list)
    BY <2>2, DraftListed DEF Edit
  <2>4. Apply(problem, BuildIndex(problem, list), <<c>>).list \in Seq(Assignment(problem))
    BY <2>2, <2>3, MoveTyped
  <2> QED
    BY <2>2, <2>4, EditStep
<1>4. CASE EditSwap
  <2>1. PICK k, j \in DOMAIN list :
          Edit(<<ChangeOf(list[k], Placement(list[j])), ChangeOf(list[j], Placement(list[k]))>>)
    BY <1>4 DEF EditSwap
  <2> DEFINE c == ChangeOf(list[k], Placement(list[j]))
             d == ChangeOf(list[j], Placement(list[k]))
  <2>2. /\ c.id = list[k].id /\ c.to = Placement(list[j])
        /\ d.id = list[j].id /\ d.to = Placement(list[k])
    BY ChangeFields
  <2>3. Edit(<<c, d>>)
    BY <2>1
  <2> HIDE DEF c, d
  <2>4. Listed(problem, list)
    BY <2>3, DraftListed DEF Edit
  <2>5. c.to \in Candidates /\ d.to \in Candidates
    <3>1. list[k] \in Assignment(problem) /\ list[j] \in Assignment(problem)
      BY <2>4 DEF Listed
    <3>2. \A a \in Assignment(problem) : Placement(a) \in Candidates
      BY DEF Placement, Assignment, Candidates
    <3> QED
      BY <2>2, <3>1, <3>2
  <2>6. ASSUME Appliable(problem, BuildIndex(problem, list), <<c, d>>)
        PROVE  Apply(problem, BuildIndex(problem, list), <<c, d>>).list \in Seq(Assignment(problem))
    <3>1. c.id # d.id
      <4>1. 1 \in DOMAIN <<c, d>> /\ 2 \in DOMAIN <<c, d>> /\ <<c, d>>[1] = c /\ <<c, d>>[2] = d /\ 1 # 2
        OBVIOUS
      <4> QED
        BY <2>6, <4>1 DEF Appliable
    <3>2. k # j
      BY <2>2, <3>1
    <3> QED
      BY <2>2, <2>4, <2>5, <3>2, SwapTyped
  <2> QED
    BY <2>3, <2>6, EditStep
<1> QED
  BY <1>1, <1>2, <1>3, <1>4

\* Every step keeps the invariant.
LEMMA EngineStep == EngineInv /\ [Next]_vars => EngineInv'
<1> SUFFICES ASSUME EngineInv, [Next]_vars PROVE EngineInv'
  OBVIOUS
<1>1. CASE Next
  BY <1>1, EndingSteps, PhaseSteps, VerifyStep, DraftSteps DEF Next
<1>2. CASE UNCHANGED vars
  BY <1>2, Asked DEF vars
<1> QED
  BY <1>1, <1>2

\* Whatever is requested.
LEMMA EngineInvariance == Spec => []EngineInv
BY EngineInit, EngineStep, PTL DEF Spec

-----------------------------------------------------------------------------
(* Theorems. *)

\* Whatever is requested: what is answered as solved is complete, keeps the locked sessions, is
\* feasible and has the penalty that is reported, and so has every draft it is edited into
\* (engine.go, execute.go and adapter.go).
THEOREM AnswersAreSound == Spec => []SolvedIsSound
<1>1. EngineInv => SolvedIsSound
  BY DEF EngineInv
<1> QED
  BY <1>1, EngineInvariance, PTL

\* Whatever is requested: what the analysis before the search turns down has no timetable, but
\* for the groups without students that need the features of rooms without seats: those the
\* third test turns down unproved (presolver.go).
THEOREM PreSolveProves == Spec => []PreSolveIsProof
<1>1. EngineInv => PreSolveIsProof
  BY DEF EngineInv
<1> QED
  BY <1>1, EngineInvariance, PTL

\* Whatever is requested: the verification turns a timetable of the searches down for one of the
\* four reasons only, so its own index and its own count of the score agree with those of the
\* searches (verifier.go).
THEOREM VerifierAgrees == Spec => []RejectionsExplained
<1>1. EngineInv => RejectionsExplained
  BY DEF EngineInv
<1> QED
  BY <1>1, EngineInvariance, PTL
=============================================================================
