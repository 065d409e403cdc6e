------------------------------ MODULE Verifier ------------------------------
(***************************************************************************)
(* What decides about a timetable outside the search: the rule compiler    *)
(* (constraints/framework.go), the pre-solve analysis                      *)
(* (problem/presolver.go) and the final verification (verifier.go), which  *)
(* rebuilds the index and counts the score in its own way.                 *)
(*                                                                         *)
(* Abstractions: a rule instance names the requirements it covers; the     *)
(* empty set stands for a subject or offering that the problem does not    *)
(* have.  Of the violations only whether there are any is kept: every      *)
(* timetable that gets here reports none, so one that is found is also a   *)
(* disagreement about their number, and the verdict is INVALID_RESULT.     *)
(***************************************************************************)
EXTENDS Objectives, SolutionMoves

Templates == {"FacultyConflict", "RoomConflict", "StudentGroupConflict", "RoomCapacity",
              "RoomFeatureCompatibility", "FacultyAvailability", "RoomAvailability"}

-----------------------------------------------------------------------------
(* The compiler. *)

InstanceOf(p) == [template : STRING, kind : STRING, covers : SUBSET DOMAIN p.reqs, max : Int]

\* Soft rules are not supported; only SubjectMaxPerDay has parameters.
Compiles(c) ==
  /\ c.kind \in {"HARD", ""}
  /\ c.template \in Templates \cup {"SubjectMaxPerDay"}
  /\ c.template = "SubjectMaxPerDay" => c.covers # {} /\ c.max >= 1

CompiledRules(instances) ==
  {[covers |-> c.covers, max |-> c.max] :
     c \in {d \in instances : d.template = "SubjectMaxPerDay"}}

-----------------------------------------------------------------------------
(* The pre-solve analysis: what is impossible without any search. *)

EligibleRooms(p, r) ==
  {room \in Rooms : /\ p.sizes[p.reqs[r].group] <= p.rooms[room].capacity
                    /\ p.reqs[r].features \subseteq p.rooms[room].equipment}

\* The slots at which a session could start, in some room.
PossibleStarts(p, r) ==
  {slot \in Slots :
     LET span == Span(slot, p.reqs[r].duration)
     IN /\ span \subseteq Slots \cap p.free[p.reqs[r].faculty]
        /\ \E room \in EligibleRooms(p, r) : span \subseteq p.rooms[room].open}

\* Mutant: as many starts as sessions are too few.
TightDomain(p, r) ==
  EligibleRooms(p, r) = {} \/ Cardinality(PossibleStarts(p, r)) <= p.reqs[r].perWeek

ZeroDomain(p, r) ==
  EligibleRooms(p, r) = {} \/ Cardinality(PossibleStarts(p, r)) < p.reqs[r].perWeek

SessionsOf(p, teacher) ==
  SumFunction([r \in {q \in DOMAIN p.reqs : p.reqs[q].faculty = teacher} |-> p.reqs[r].perWeek])

FacultyOverload(p, teacher) == Cardinality(p.free[teacher]) < SessionsOf(p, teacher)

RoomsWith(p, features) == {room \in Rooms : features \subseteq p.rooms[room].equipment}

\* The rooms with the features have no seats between them: there is none, or all are of
\* capacity 0.
FeatureBottleneck(p, r) ==
  /\ p.reqs[r].features # {}
  /\ SumFunction([room \in RoomsWith(p, p.reqs[r].features) |-> p.rooms[room].capacity]) = 0

\* An empty catalogue is left to the search.
PreSolveRejects(p) ==
  /\ p.reqs # << >> /\ Rooms # {} /\ Slots # {}
  /\ \/ \E r \in DOMAIN p.reqs : ZeroDomain(p, r) \/ FeatureBottleneck(p, r)
     \/ \E teacher \in Faculty : FacultyOverload(p, teacher)

-----------------------------------------------------------------------------
(* The integrity of a result. *)

\* The instance number of a session; with an id of another form it is the first.
InstanceNumber(a) == IF a.id[1] = a.req THEN a.id[2] ELSE 0

\* Ids are unique, every session fits and is one of the sessions of its requirement, and
\* every requirement has all its sessions and no more.
Complete(p, list) ==
  /\ \A k, j \in DOMAIN list : list[k].id = list[j].id => k = j
  /\ \A k \in DOMAIN list : /\ Occupied(p, list[k]) \subseteq Slots
                            /\ InstanceNumber(list[k]) < p.reqs[list[k].req].perWeek
  /\ \A r \in DOMAIN p.reqs : Cardinality({k \in DOMAIN list : list[k].req = r}) = p.reqs[r].perWeek
  /\ Len(list) = SumFunction([r \in DOMAIN p.reqs |-> p.reqs[r].perWeek])

\* The last assignment with an id is the one that is compared.
LastWith(list, id) ==
  CHOOSE k \in DOMAIN list : list[k].id = id /\ \A j \in k + 1 .. Len(list) : list[j].id # id

LockedKept(p, list) ==
  \A k \in DOMAIN p.locked : /\ Present(list, p.locked[k].id)
                             /\ list[LastWith(list, p.locked[k].id)] = p.locked[k]

-----------------------------------------------------------------------------
(* The hard constraints on a whole timetable. *)

\* The conflict templates say nothing of a session that does not fit.
Satisfies(p, s, a, template) ==
  LET fits == Occupied(p, a) \subseteq Slots
  IN CASE template = "FacultyConflict"          -> fits => ~FacultyConflict(p, s, a)
       [] template = "RoomConflict"             -> fits => ~RoomConflict(p, s, a)
       [] template = "StudentGroupConflict"     -> fits => ~StudentGroupConflict(p, s, a)
       [] template = "RoomCapacity"             -> RoomCapacity(p, a)
       [] template = "RoomFeatureCompatibility" -> RoomHasFeatures(p, a)
       [] template = "FacultyAvailability"      ->
            Occupied(p, a) \subseteq Slots \cap p.free[FacultyOf(p, a)]
       [] template = "RoomAvailability"         ->
            Occupied(p, a) \subseteq Slots \cap p.rooms[a.room].open

\* The built-in constraints are evaluated only when no rule is compiled.
Evaluated(instances) ==
  IF instances = {} THEN Templates ELSE {c.template : c \in instances} \cap Templates

HardHolds(p, instances, list) ==
  LET s == BuildIndex(p, list)
  IN /\ \A k \in DOMAIN list, template \in Evaluated(instances) : Satisfies(p, s, list[k], template)
     /\ \A rule \in CompiledRules(instances) : RuleHolds(p, s, rule)

-----------------------------------------------------------------------------
(* The score, counted again. *)

\* Sessions are counted, not periods: two in one period cancel a gap.
FreePeriods(p, list, g, day) ==
  LET periods == DayPeriods(p, list, g, day)
      held    == SumFunction([c \in {d \in Slots : d[1] = day} |->
                   Cardinality({k \in DOMAIN list : /\ GroupOf(p, list[k]) = g
                                                    /\ c \in Occupied(p, list[k])})])
      free    == Max(periods) - Min(periods) + 1 - held
  IN IF Cardinality(periods) < 2 \/ free < 0 THEN 0 ELSE free

\* Sessions in the order of start and room.
RoomSwitches(p, list, g, day) ==
  LET places == {<<x.start, x.room>> : x \in Sittings(p, list, g, day)}
  IN Cardinality({xy \in places \X places :
                    /\ xy[1][2] # xy[2][2]
                    /\ LexLess(xy[1], xy[2])
                    /\ ~ \E z \in places : LexLess(xy[1], z) /\ LexLess(z, xy[2])})

\* Mutant: a session that takes two slots is disliked for its first only.
StartDisliked(p, a) == IF Held(p, a) = {} THEN 0 ELSE p.dislikes[<<FacultyOf(p, a), a.slot>>]

SlotsDisliked(p, a) ==
  SumFunction([slot \in Held(p, a) |-> p.dislikes[<<FacultyOf(p, a), slot>>]])

IndependentScore(p, list) ==
  [gap        |-> SumFunction([gd \in Groups \X Days |-> FreePeriods(p, list, gd[1], gd[2])]),
   preference |-> SumFunction([k \in DOMAIN list |-> SlotsDisliked(p, list[k])]),
   room       |-> SumFunction([gd \in Groups \X Days |-> RoomSwitches(p, list, gd[1], gd[2])])]

\* A score as it is reported: the penalty, and the breakdown with its own total.
Score == [soft : Int, breakdown : Breakdown, total : Int]

ScoreAgrees(p, list, score) ==
  LET counted == IndependentScore(p, list)
  IN /\ score.breakdown = counted
     /\ score.soft = Weighted(p.objective, counted)
     /\ score.total = score.soft

\* Mutant: the hard constraints are not evaluated again.
VerdictUnchecked(p, instances, list, score) ==
  IF Complete(p, list) /\ LockedKept(p, list) /\ ScoreAgrees(p, list, score)
  THEN "SOLVED" ELSE "INVALID_RESULT"

Verdict(p, instances, list, score) ==
  IF /\ Complete(p, list) /\ LockedKept(p, list)
     /\ HardHolds(p, instances, list) /\ ScoreAgrees(p, list, score)
  THEN "SOLVED" ELSE "INVALID_RESULT"
=============================================================================
