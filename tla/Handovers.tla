----------------------------- MODULE Handovers -----------------------------
(***************************************************************************)
(* What one phase of a request may count on from the one before it: the    *)
(* tabu search (localsearch/tabu_search.go) is given a timetable it does   *)
(* not have to repair, and gives back one of the same sessions that is no  *)
(* worse.  LocalSearch promises this of its best timetable, Engine knows   *)
(* no more than this of the search.                                        *)
(***************************************************************************)
EXTENDS Objectives, SolutionMoves

OneSlotSessions(p) == \A r \in DOMAIN p.reqs : p.reqs[r].duration = 1

\* What is asked of each session by itself, and of the sessions of a rule together.
KeepsRules(p, list) ==
  /\ \A k \in DOMAIN list : Suits(p, list[k])
  /\ \A rule \in p.rules : RuleHolds(p, [list |-> list], rule)

Acceptable(p, list) == KeptApart(p, list) /\ KeepsRules(p, list)

\* The same sessions, in other places; the locked ones in their own.
Rearranged(p, list, other) ==
  /\ DOMAIN other = DOMAIN list
  /\ \A k \in DOMAIN list : /\ Placement(other[k]) \in Candidates
                            /\ other[k] = PlacedAt(list[k], Placement(other[k]))
                            /\ IsLocked(p, list[k].id) => other[k] = list[k]

\* Sessions of several slots may end up in one place (ImprovedKeepsApart of LocalSearch).
Improves(p, list, other) ==
  /\ Rearranged(p, list, other)
  /\ KeepsRules(p, other)
  /\ OneSlotSessions(p) => KeptApart(p, other)
  /\ Penalty(p, other) <= Penalty(p, list)
=============================================================================
