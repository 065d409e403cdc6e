---------------------------- MODULE Objectives ----------------------------
(***************************************************************************)
(* The soft objectives (internal/scheduler/scorer and problem.go): gaps in *)
(* the day of a student group, periods a teacher dislikes, and changes of  *)
(* room between two sessions of a group, each counted over the whole       *)
(* timetable and weighted by the objective of the problem.                 *)
(*                                                                         *)
(* Abstractions: the preferences of a teacher are summed per slot          *)
(* (dislikes); the breakdown by group and day, which only explains the     *)
(* gap count, is left out.                                                 *)
(***************************************************************************)
EXTENDS Timetabling, FiniteSetsExt

Days == {slot[1] : slot \in Slots}

ObjectiveIDs == {"StudentGapPenalty", "FacultyPreference", "RoomChange"}

\* What a problem says of its soft objectives.  The objective is a list: an id may occur
\* twice, or not at all.
SoftFormed(p) ==
  /\ p.dislikes \in [Faculty \X Slots -> Nat]
  /\ p.objective \in Seq([id : ObjectiveIDs, weight : Int])

ASSUME SoftAssumption == \A p \in Problems : SoftFormed(p)

DefaultObjective ==
  << [id |-> "StudentGapPenalty", weight |-> 1],
     [id |-> "FacultyPreference", weight |-> 1], [id |-> "RoomChange", weight |-> 1] >>

\* The first component with the id counts; an empty list is the default one.
Weight(objective, id) ==
  LET named == {k \in DOMAIN objective : objective[k].id = id}
  IN CASE objective = << >> -> 1
       [] objective # << >> /\ named = {} -> 0
       [] OTHER -> objective[Min(named)].weight

-----------------------------------------------------------------------------
(* Gaps: the free periods between the first and the last of a day. *)

Gaps(periods) ==
  IF Cardinality(periods) < 2 THEN 0
  ELSE Max(periods) - Min(periods) + 1 - Cardinality(periods)

\* The periods of a day in which a group has at least one session.
DayPeriods(p, list, g, day) ==
  {slot[2] : slot \in {c \in Slots : /\ c[1] = day
                                     /\ \E k \in DOMAIN list : /\ GroupOf(p, list[k]) = g
                                                               /\ c \in Occupied(p, list[k])}}

StudentGapPenalty(p, list) ==
  SumFunction([gd \in Groups \X Days |-> Gaps(DayPeriods(p, list, gd[1], gd[2]))])

-----------------------------------------------------------------------------
(* Preferences: what every occupied slot costs the teacher who sits in it. *)

Displeasure(p, a) ==
  SumFunction([slot \in Occupied(p, a) \cap Slots |-> p.dislikes[<<FacultyOf(p, a), slot>>]])

FacultyPreferencePenalty(p, list) ==
  SumFunction([k \in DOMAIN list |-> Displeasure(p, list[k])])

-----------------------------------------------------------------------------
(* Room changes: neighbours in the order of a group's day, in two rooms.   *)

Sitting(p, a) == [id     |-> a.id, room |-> a.room, start |-> a.slot[2],
                  length |-> p.reqs[a.req].duration]

Sittings(p, list, g, day) ==
  {Sitting(p, list[k]) : k \in {j \in DOMAIN list : /\ GroupOf(p, list[j]) = g
                                                    /\ list[j].slot[1] = day}}

LexLess(s, t) == \E i \in DOMAIN s : s[i] < t[i] /\ \A j \in 1 .. i - 1 : s[j] = t[j]

\* By start, then length, then room, then id.
SitsBefore(x, y) ==
  LexLess(<<x.start, x.length, x.room>> \o x.id, <<y.start, y.length, y.room>> \o y.id)

\* Pairs that follow each other in the order.
Adjacent(sittings) ==
  {xy \in sittings \X sittings :
     /\ SitsBefore(xy[1], xy[2])
     /\ ~ \E z \in sittings : SitsBefore(xy[1], z) /\ SitsBefore(z, xy[2])}

RoomChanges(sittings) == Cardinality({xy \in Adjacent(sittings) : xy[1].room # xy[2].room})

RoomChangePenalty(p, list) ==
  SumFunction([gd \in Groups \X Days |-> RoomChanges(Sittings(p, list, gd[1], gd[2]))])

-----------------------------------------------------------------------------
(* The breakdown of a timetable and its weighted sum. *)

Breakdown == [gap : Nat, preference : Nat, room : Nat]

CalculateScore(p, list) ==
  [gap        |-> StudentGapPenalty(p, list),
   preference |-> FacultyPreferencePenalty(p, list),
   room       |-> RoomChangePenalty(p, list)]

Weighted(objective, raw) ==
  raw.gap * Weight(objective, "StudentGapPenalty")
    + raw.preference * Weight(objective, "FacultyPreference")
    + raw.room * Weight(objective, "RoomChange")

Penalty(p, list) == Weighted(p.objective, CalculateScore(p, list))
=============================================================================
