---------------------------- MODULE LocalSearch ----------------------------
(***************************************************************************)
(* The tabu search (localsearch/tabu_search.go) over the solution's index  *)
(* and the incremental evaluator: from the timetable of the feasibility    *)
(* search it tries neighbours in place (apply, validate, score, undo),     *)
(* moves to the best one that is legal and not tabu, remembers the reverse *)
(* move, and keeps the best timetable it has been in.                      *)
(*                                                                         *)
(* One iteration is NextIteration, some Consider steps (the candidates of  *)
(* the random generator, any number and order of them; one that comes      *)
(* twice changes nothing) and Move or NothingFound.  The clock and the     *)
(* context are read at the head of an iteration only: TimeUp and Interrupt *)
(* may come at every one.  Diagnostic counters are left out.               *)
(***************************************************************************)
EXTENDS Evaluator, Handovers

CONSTANTS
  Starts,              \* [problem, list]: what the feasibility search hands over
  MaxIterations,
  NoImprovementLimit,
  TabuTenure,
  NoMove               \* no candidate found yet

VARIABLES
  problem,
  phase,      \* "check", "loop", "try", "over"
  sol,        \* the current solution: list and index, changed in place
  eval,       \* the incremental evaluator's tallies
  best,       \* [sol, cost]: a copy of the best solution so far, and its score
  choice,     \* the best admissible candidate of this iteration: [move, cost]
  tabu,       \* signature -> last iteration in which it is tabu
  iteration,
  stale,      \* iterations since the last improvement
  status,     \* "NONE" while it runs
  start,      \* the timetable handed over
  accepted    \* history: signature -> iteration in which its reverse was made

vars == <<problem, phase, sol, eval, best, choice, tabu, iteration, stale, status,
          start, accepted>>

search == <<sol, eval, best, choice, tabu, iteration, stale, accepted>>

Phases   == {"check", "loop", "try", "over"}
Statuses == {"NONE", "SOLVED", "INFEASIBLE", "CANCELLED", "DEADLINE_EXCEEDED"}

\* A timetable handed over: distinct ids, in the grid, no two sessions in one place.
Startable(p, list) ==
  /\ list \in Seq(Assignment(p))
  /\ \A k \in DOMAIN list : Occupied(p, list[k]) \subseteq Slots
  /\ \A k, j \in DOMAIN list : k # j => list[k].id # list[j].id
  /\ KeptApart(p, list)

ASSUME LimitsAssumption ==
  MaxIterations \in Nat /\ NoImprovementLimit \in Nat /\ TabuTenure \in Nat
ASSUME StartsAssumption ==
  \A s \in Starts : s.problem \in Problems /\ Startable(s.problem, s.list)

-----------------------------------------------------------------------------
(* Candidates. *)

Unlocked(p, list) == {k \in DOMAIN list : ~IsLocked(p, list[k].id)}

SingleMoves(p, list) ==
  UNION {{<<ChangeOf(list[k], to)>> : to \in Candidates \ {Placement(list[k])}} :
           k \in Unlocked(p, list)}

SwapMoves(p, list) ==
  {<<ChangeOf(list[kj[1]], Placement(list[kj[2]])), ChangeOf(list[kj[2]], Placement(list[kj[1]]))>> :
     kj \in {ij \in Unlocked(p, list) \X Unlocked(p, list) :
               ij[1] # ij[2] /\ Placement(list[ij[1]]) # Placement(list[ij[2]])}}

Neighbours(p, list) == SingleMoves(p, list) \cup SwapMoves(p, list)

Signature(move) == {<<move[i].id, move[i].from, move[i].to>> : i \in DOMAIN move}

ReverseSignature(move) == {<<move[i].id, move[i].to, move[i].from>> : i \in DOMAIN move}

\* SubjectMaxPerDay on a moved assignment: all sessions of overlapping groups, itself included.
RuleAllowsMove(p, s, rule, a) ==
  a.req \in rule.covers =>
    Cardinality({k \in DOMAIN s.list : /\ s.list[k].req \in rule.covers
                                       /\ GroupsOverlap(GroupOf(p, s.list[k]), GroupOf(p, a))
                                       /\ s.list[k].slot[1] = a.slot[1]}) <= rule.max

\* Mutant: of a swap only the first assignment is validated.
LegalFirst(p, s, move) ==
  LET a == s.list[Position(s.list, move[1].id)]
  IN Suits(p, a) /\ ~Conflicts(p, s, a) /\ \A rule \in p.rules : RuleAllowsMove(p, s, rule, a)

\* MoveValidator: the moved assignments only, in the solution with the move applied.
Legal(p, s, move) ==
  \A i \in DOMAIN move :
    LET a == s.list[Position(s.list, move[i].id)]
    IN Suits(p, a) /\ ~Conflicts(p, s, a) /\ \A rule \in p.rules : RuleAllowsMove(p, s, rule, a)

-----------------------------------------------------------------------------
(* The tabu list. *)

\* Mutant: the tenure is exclusive.
TabuBefore(list, sig, now) == TabuTenure > 0 /\ sig \in DOMAIN list /\ now < list[sig]

IsTabu(list, sig, now) == TabuTenure > 0 /\ sig \in DOMAIN list /\ now <= list[sig]

\* Looking an expired signature up removes it.
Forget(list, sig, now) ==
  IF sig \in DOMAIN list /\ now > list[sig]
  THEN [x \in DOMAIN list \ {sig} |-> list[x]] ELSE list

With(f, sig, n) == [x \in DOMAIN f \cup {sig} |-> IF x = sig THEN n ELSE f[x]]

Record(list, sig, now) == IF TabuTenure > 0 THEN With(list, sig, now + TabuTenure) ELSE list

\* Aspiration: a tabu move is admitted if it beats the best score so far.
Admissible(list, sig, now, cost, bestCost) == ~IsTabu(list, sig, now) \/ cost < bestCost

-----------------------------------------------------------------------------
(* The check before and after. *)

\* The built-in constraints on every assignment, and every compiled rule.
HardOK(p, s) ==
  /\ \A k \in DOMAIN s.list : Suits(p, s.list[k]) /\ ~Conflicts(p, s, s.list[k])
  /\ \A rule \in p.rules : RuleHolds(p, s, rule)

FinalStatus(p, s) == IF HardOK(p, s) THEN "SOLVED" ELSE "INFEASIBLE"

-----------------------------------------------------------------------------
Init ==
  \E s \in Starts :
    /\ problem = s.problem
    /\ start = s.list
    /\ phase = "check"
    /\ sol = BuildIndex(s.problem, s.list)
    /\ eval = Rebuild(s.problem, s.list)
    /\ best = [sol |-> BuildIndex(s.problem, s.list),
               cost |-> Weighted(s.problem.objective, Rebuild(s.problem, s.list).totals)]
    /\ choice = NoMove
    /\ tabu = [x \in {} |-> 0]
    /\ iteration = 0
    /\ stale = 0
    /\ status = "NONE"
    /\ accepted = [x \in {} |-> 0]

\* ErrInitialSolutionInfeasible: returned as it came.
Refuse ==
  /\ phase = "check"
  /\ ~HardOK(problem, sol)
  /\ phase' = "over"
  /\ status' = "INFEASIBLE"
  /\ UNCHANGED <<problem, start, search>>

Begin ==
  /\ phase = "check"
  /\ HardOK(problem, sol)
  /\ phase' = "loop"
  /\ UNCHANGED <<problem, start, search, status>>

\* finalizeSolution: the best solution is checked once more and returned.
Finalize(final) ==
  /\ phase' = "over"
  /\ status' = final
  /\ UNCHANGED <<problem, start, search>>

\* Iterations used up, or too many without improvement.
LimitReached ==
  /\ phase = "loop"
  /\ iteration >= MaxIterations \/ stale >= NoImprovementLimit
  /\ Finalize(FinalStatus(problem, best.sol))

\* MaxDuration is over.
TimeUp ==
  /\ phase = "loop"
  /\ iteration < MaxIterations
  /\ Finalize(FinalStatus(problem, best.sol))

\* The context has ended: its status replaces the one of the final check.
Interrupt ==
  /\ phase = "loop"
  /\ iteration < MaxIterations
  /\ \E end \in {"CANCELLED", "DEADLINE_EXCEEDED"} : Finalize(end)

\* Mutant: only the count of idle iterations ends the loop.
NextUnbounded ==
  /\ phase = "loop"
  /\ stale < NoImprovementLimit
  /\ phase' = "try"
  /\ UNCHANGED <<problem, start, search, status>>

NextIteration ==
  /\ phase = "loop"
  /\ iteration < MaxIterations
  /\ stale < NoImprovementLimit
  /\ phase' = "try"
  /\ UNCHANGED <<problem, start, search, status>>

\* One candidate: applied, validated, scored and undone.
Consider(move) ==
  LET tried == Apply(problem, sol, move)
      cost  == Weighted(problem.objective, EvaluateCandidateMove(problem, eval, move))
      sig   == Signature(move)
      legal == Appliable(problem, sol, move) /\ Legal(problem, tried, move)
  IN /\ phase = "try"
     /\ sol' = IF Appliable(problem, sol, move) THEN Undo(problem, tried, move) ELSE sol
     /\ tabu' = IF legal THEN Forget(tabu, sig, iteration) ELSE tabu
     /\ choice' = IF /\ legal
                     /\ Admissible(tabu, sig, iteration, cost, best.cost)
                     /\ choice = NoMove \/ cost < choice.cost
                  THEN [move |-> move, cost |-> cost] ELSE choice
     /\ UNCHANGED <<problem, start, phase, eval, best, iteration, stale, status, accepted>>

\* Mutant: an iteration that finds nothing is not counted.
NothingCounted ==
  /\ phase = "try"
  /\ choice = NoMove
  /\ phase' = "loop"
  /\ UNCHANGED <<problem, start, search, status>>

NothingFound ==
  /\ phase = "try"
  /\ choice = NoMove
  /\ phase' = "loop"
  /\ iteration' = iteration + 1
  /\ stale' = stale + 1
  /\ UNCHANGED <<problem, start, sol, eval, best, choice, tabu, status, accepted>>

\* Mutant: a score as good as the best replaces it.
BetterOrEqual(cost, bestCost) == cost <= bestCost

\* Mutant: the timetable of the last move is taken for the best.
AlwaysBetter(cost, bestCost) == TRUE

Better(cost, bestCost) == cost < bestCost

Move ==
  /\ phase = "try"
  /\ choice # NoMove
  /\ sol' = Apply(problem, sol, choice.move)
  /\ eval' = ApplyCandidateMove(problem, eval, choice.move)
  /\ tabu' = Record(tabu, ReverseSignature(choice.move), iteration)
  /\ accepted' = With(accepted, ReverseSignature(choice.move), iteration)
  /\ IF Better(choice.cost, best.cost)
     THEN best' = [sol |-> sol', cost |-> choice.cost] /\ stale' = 0
     ELSE best' = best /\ stale' = stale + 1
  /\ choice' = NoMove
  /\ phase' = "loop"
  /\ iteration' = iteration + 1
  /\ UNCHANGED <<problem, start, status>>

Next ==
  \/ Refuse \/ Begin \/ LimitReached \/ TimeUp \/ Interrupt \/ NextIteration
  \/ \E move \in Neighbours(problem, sol.list) : Consider(move)
  \/ NothingFound \/ Move

Spec == Init /\ [][Next]_vars

\* One goroutine, and the candidates of an iteration are a finite slice: it comes to an end
\* of every iteration and of the loop.
Progress == Refuse \/ Begin \/ LimitReached \/ NextIteration \/ NothingFound \/ Move

FairSpec == Spec /\ WF_vars(Progress)

-----------------------------------------------------------------------------
(* Properties. *)

Choice(p) == [move : Seq(Change(p)), cost : Int]

TypeOK ==
  /\ problem \in Problems
  /\ phase \in Phases
  /\ sol \in Solution(problem)
  /\ eval \in Tallies
  /\ best \in [sol : Solution(problem), cost : Int]
  /\ choice \in Choice(problem) \cup {NoMove}
  /\ DOMAIN tabu \subseteq DOMAIN accepted
  /\ \A sig \in DOMAIN accepted : accepted[sig] \in 0 .. iteration - 1
  /\ iteration \in 0 .. MaxIterations
  /\ stale \in 0 .. iteration
  /\ status \in Statuses
  /\ start \in Seq(Assignment(problem))

\* After any number of moves and swaps changed by deltas, and of candidates scored in
\* between, the tallies are the ones counted from nothing, their totals are the scorer's, and
\* the score a candidate was chosen for is the one it has once it is made.
TalliesExact ==
  /\ eval = Rebuild(problem, sol.list)
  /\ eval.totals = CalculateScore(problem, sol.list)
  /\ phase = "try" /\ choice # NoMove =>
       choice.cost = Penalty(problem, Apply(problem, sol, choice.move).list)

\* The score kept with the best timetable is the penalty of that timetable, and neither the
\* start nor the current timetable beats it.  Whenever the search is stopped, what it has to
\* give back for an acceptable timetable is what the engine counts on, however long the
\* sessions, and it calls it INFEASIBLE only if some session takes several slots.
BestKept ==
  /\ best.cost = Penalty(problem, best.sol.list)
  /\ best.cost <= Penalty(problem, start)
  /\ best.cost <= Penalty(problem, sol.list)
  /\ Acceptable(problem, start) =>
       /\ Improves(problem, start, best.sol.list)
       /\ status = "INFEASIBLE" => ~OneSlotSessions(problem)

\* If every session takes one slot, the conflict checks and the index keep each other right
\* through all moves: the current and the best timetable are feasible, the index is the one
\* built from the list, and no search that began ends INFEASIBLE.
ShortSessionsKeepApart ==
  OneSlotSessions(problem) =>
    \A s \in {sol, best.sol} :
      /\ KeptApart(problem, s.list)
      /\ s = BuildIndex(problem, s.list)
      /\ phase \in {"loop", "try"} \/ status \notin {"NONE", "INFEASIBLE"} =>
           HardOK(problem, s)

\* A candidate is tried in place: undoing it leaves the solution and its index as they were
\* (unless an accepted move has put two sessions in one place and has cost one its cells,
\* see ImprovedKeepsApart).
EvaluationLeavesNoTrace ==
  [][ sol'.list = sol.list /\ KeptApart(problem, sol.list) /\ sol = BuildIndex(problem, sol.list)
        => sol' = sol ]_vars

\* The moves a step makes, read off the two lists.
Made(list, other) ==
  {<<list[k].id, Placement(list[k]), Placement(other[k])>> :
     k \in {j \in DOMAIN list : list[j] # other[j]}}

\* A move that was reversed in one of the last TabuTenure iterations is not made again,
\* unless it leads to a better timetable than any before.
TabuHolds ==
  [][ sol'.list # sol.list =>
        LET made == Made(sol.list, sol'.list)
        IN made \in DOMAIN accepted /\ iteration <= accepted[made] + TabuTenure =>
             best'.cost < best.cost ]_vars

\* The best timetable is what an anytime optimiser holds.
Anytime == INSTANCE AnytimeSearch WITH
  given <- problem, held <- best.sol.list, running <- phase # "over"

ImplementsAnytime == Anytime!ASpec

\* The search ends.
SearchEnds == <>(phase = "over")

\* "...to improve overall quality without ever breaking a hard constraint" (README.md:85).
ImprovedKeepsApart == status = "SOLVED" => KeptApart(problem, best.sol.list)
=============================================================================
