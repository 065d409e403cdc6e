----------------------------- MODULE Evaluator -----------------------------
(***************************************************************************)
(* The incremental score evaluator (localsearch/incremental_evaluator.go): *)
(* tallies per group and day, and totals changed by deltas, so that a move *)
(* is scored without counting the whole timetable again.                   *)
(*                                                                         *)
(* Abstractions: only legal moves are scored, so the tallies are kept over *)
(* the slots of the grid.  The meta cache is the change's own requirement. *)
(* A sitting that is missing where a change starts from is a panic in the  *)
(* code; TalliesExact of LocalSearch implies that there is none.           *)
(***************************************************************************)
EXTENDS Objectives, SolutionMoves

SittingRecord == [id : AssignmentIDs, room : Rooms, start : Nat, length : Nat]

Tallies == [count    : [Groups \X Slots -> Nat],
            gaps     : [Groups \X Days -> Nat],
            sittings : [Groups \X Days -> SUBSET SittingRecord],
            totals   : Breakdown]

\* CalculateDayGaps, on the occupancy counts of a group's day.
CountedGaps(count, g, day) ==
  Gaps({slot[2] : slot \in {c \in Slots : c[1] = day /\ count[<<g, c>>] > 0}})

\* The tallies counted from nothing.
Rebuild(p, list) ==
  LET count    == [gs \in Groups \X Slots |->
                     Cardinality({k \in DOMAIN list : /\ GroupOf(p, list[k]) = gs[1]
                                                      /\ gs[2] \in Occupied(p, list[k])})]
      gaps     == [gd \in Groups \X Days |-> CountedGaps(count, gd[1], gd[2])]
      sittings == [gd \in Groups \X Days |-> Sittings(p, list, gd[1], gd[2])]
  IN [count |-> count, gaps |-> gaps, sittings |-> sittings,
      totals |->
        [gap        |-> SumFunction(gaps),
         preference |-> FacultyPreferencePenalty(p, list),
         room       |-> SumFunction([gd \in Groups \X Days |-> RoomChanges(sittings[gd])])]]

-----------------------------------------------------------------------------
(* What a move changes. *)

GroupOfChange(p, c) == p.reqs[c.req].group

SlotsAt(p, c, where) == Span(where[2], p.reqs[c.req].duration)

\* Mutant: of a swap only the first assignment is looked at.
KeysOfFirst(p, move) ==
  {<<GroupOfChange(p, move[1]), move[1].from[2][1]>>,
   <<GroupOfChange(p, move[1]), move[1].to[2][1]>>}

\* The groups and days whose tallies a move touches.
AffectedKeys(p, move) ==
  UNION {{<<GroupOfChange(p, move[i]), move[i].from[2][1]>>,
          <<GroupOfChange(p, move[i]), move[i].to[2][1]>>} : i \in DOMAIN move}

\* A count is never brought below zero.
Shift(p, count, c) ==
  [gs \in DOMAIN count |->
     LET left == IF /\ gs[1] = GroupOfChange(p, c) /\ gs[2] \in SlotsAt(p, c, c.from)
                    /\ count[gs] > 0
                 THEN count[gs] - 1 ELSE count[gs]
     IN IF gs[1] = GroupOfChange(p, c) /\ gs[2] \in SlotsAt(p, c, c.to) THEN left + 1 ELSE left]

CountAfter(p, e, move) ==
  IF Len(move) = 1 THEN Shift(p, e.count, move[1])
  ELSE Shift(p, Shift(p, e.count, move[1]), move[2])

\* The sittings of a group's day: those of the moved assignments leave, and come back if
\* the move takes them to this day.
SittingsAfter(p, e, move, gd) ==
  {x \in e.sittings[gd] : \A i \in DOMAIN move : x.id # move[i].id}
    \cup {[id |-> c.id, room |-> c.to[1], start |-> c.to[2][2], length |-> p.reqs[c.req].duration] :
            c \in {move[i] : i \in {j \in DOMAIN move : /\ GroupOfChange(p, move[j]) = gd[1]
                                                        /\ move[j].to[2][1] = gd[2]}}}

PreferenceAt(p, c, where) ==
  SumFunction([slot \in SlotsAt(p, c, where) \cap Slots |->
                 p.dislikes[<<p.reqs[c.req].faculty, slot>>]])

\* The totals after a move: the old ones plus the differences it makes.
EvaluateCandidateMove(p, e, move) ==
  LET after == CountAfter(p, e, move)
      keys  == AffectedKeys(p, move)
  IN [gap |-> e.totals.gap
        + SumFunction([gd \in keys |-> CountedGaps(after, gd[1], gd[2]) - e.gaps[gd]]),
      preference |-> e.totals.preference
        + SumFunction([i \in DOMAIN move |-> PreferenceAt(p, move[i], move[i].to)
                                               - PreferenceAt(p, move[i], move[i].from)]),
      room |-> e.totals.room
        + SumFunction([gd \in keys |-> RoomChanges(SittingsAfter(p, e, move, gd))
                                         - RoomChanges(e.sittings[gd])])]

\* The move is accepted: counts, gaps and sittings of the affected days are replaced.
ApplyCandidateMove(p, e, move) ==
  LET after == CountAfter(p, e, move)
      keys  == AffectedKeys(p, move)
  IN [count    |-> after,
      gaps     |-> [gd \in DOMAIN e.gaps |->
                      IF gd \in keys THEN CountedGaps(after, gd[1], gd[2]) ELSE e.gaps[gd]],
      sittings |-> [gd \in DOMAIN e.sittings |->
                      IF gd \in keys THEN SittingsAfter(p, e, move, gd) ELSE e.sittings[gd]],
      totals   |-> EvaluateCandidateMove(p, e, move)]
=============================================================================
