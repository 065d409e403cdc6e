---------------------------- MODULE Backtracking ----------------------------
(***************************************************************************)
(* The feasibility search of the engine (solver/backtracking): a depth-    *)
(* first search over the sessions that are not locked, in three modes.     *)
(* BASIC takes the sessions in order and tries every candidate; HEURISTIC  *)
(* takes the session with the fewest candidates left and checks forward;   *)
(* HEURISTIC_LCV also tries first the candidate that rules out the fewest  *)
(* others.  The recursion is a stack of frames, one per call in progress.  *)
(*                                                                         *)
(* Abstractions: violations, messages and the counters other than          *)
(* NodesExplored are left out; where LCV breaks ties by the slot's id the  *)
(* model takes any of the tied slots.                                      *)
(***************************************************************************)
EXTENDS Timetabling

VARIABLES
  problem,    \* the problem of this call, never changed
  solution,   \* the partial solution all calls share
  stack,      \* the calls of searchBasic / searchHeuristic in progress
  nodes,      \* diag.NodesExplored
  step,       \* where the innermost call is
  status      \* diag.Status; "" while it is not set

vars == <<problem, solution, stack, nodes, step, status>>

Steps    == {"validate", "seed", "enter", "loop", "done"}
Statuses == {"", "SOLVED", "INFEASIBLE", "NODE_LIMIT", "CANCELLED", "DEADLINE_EXCEEDED",
             "INVALID_PROBLEM"}

Top     == stack[Len(stack)]
Below   == SubSeq(stack, 1, Len(stack) - 1)
Basic   == problem.mode = "BASIC"
Seeding == Len(solution.list) < Len(problem.locked)

\* A call is given the sessions that are left to place and the candidates of each; it
\* selects one of them and goes through its candidates.
Call(left, domains) == [left |-> left, domains |-> domains, selected |-> None, untried |-> {}]

Frame(p) == [left     : SUBSET Decisions(p),
             domains  : [Decisions(p) -> SUBSET Candidates],
             selected : Decisions(p) \cup {None},
             untried  : SUBSET Candidates]

TypeOK ==
  /\ problem \in Problems
  /\ solution \in Solution(problem)
  /\ stack \in Seq(Frame(problem))
  /\ nodes \in 0 .. problem.maxNodes
  /\ step \in Steps
  /\ status \in Statuses

-----------------------------------------------------------------------------
(* Candidates and the order of the search. *)

Fitting(p, d) == {v \in Candidates : Fits(v[2], p.reqs[d[1]].duration)}

\* Mutant: forward checking keeps every candidate.
KeepAll(p, s, left, domains) ==
  [d \in DOMAIN domains |-> {v \in domains[d] : d \in left}]

\* pruneDomains; the basic search has no domains and tries all that fits.
Prune(p, s, left, domains) ==
  [d \in DOMAIN domains |->
     {v \in domains[d] : d \in left /\ (p.mode = "BASIC" \/ Consistent(p, s, Assign(d, v)))}]

InitialDomains(p, s) == Prune(p, s, Decisions(p), [d \in Decisions(p) |-> Fitting(p, d)])

\* Mutant: a session with a single candidate left counts as stuck.
Comfortable(p, left, domains) ==
  p.mode = "BASIC" \/ \A d \in left : Cardinality(domains[d]) > 1

Viable(p, left, domains) == p.mode = "BASIC" \/ \A d \in left : domains[d] # {}

Precedes(d, e) == d[1] < e[1] \/ (d[1] = e[1] /\ d[2] < e[2])

SharesFeatures(p, d, e) ==
  LET left == p.reqs[d[1]].features  right == p.reqs[e[1]].features
  IN left \cap right # {} \/ left \cup right = {}

Degree(p, left, d) ==
  Cardinality({e \in left \ {d} :
                 \/ p.reqs[d[1]].faculty = p.reqs[e[1]].faculty
                 \/ GroupsOverlap(p.reqs[d[1]].group, p.reqs[e[1]].group)
                 \/ SharesFeatures(p, d, e)})

\* selectMRVDegree: fewest candidates, then most neighbours, then first in order.
Preferred(p, left, domains, d, e) ==
  LET size(x)   == Cardinality(domains[x])
      degree(x) == Degree(p, left, x)
  IN \/ size(d) < size(e)
     \/ size(d) = size(e) /\ degree(d) > degree(e)
     \/ size(d) = size(e) /\ degree(d) = degree(e) /\ Precedes(d, e)

Selectable(p, left, domains) ==
  {d \in left :
     \A e \in left \ {d} :
       IF p.mode = "BASIC" THEN Precedes(d, e) ELSE Preferred(p, left, domains, d, e)}

\* countEliminations: what placing d at v takes from the other sessions.
Eliminations(p, s, frame, v) ==
  LET d == frame.selected
      placed == Add(p, s, Assign(d, v))
      lost(e) == {w \in frame.domains[e] : ~Consistent(p, placed, Assign(e, w))}
  IN Cardinality(UNION {{e} \X lost(e) : e \in frame.left \ {d}})

\* A candidate that cannot be placed comes last.
Usable(p, s, d, v) == Consistent(p, s, Assign(d, v)) /\ Addable(p, s, Assign(d, v))

Sooner(p, s, frame, v, w) ==
  LET cost(x) == Eliminations(p, s, frame, x)
      usable(x) == Usable(p, s, frame.selected, x)
      inOrder == v[1] < w[1] \/ (v[1] = w[1] /\ Precedes(v[2], w[2]))
  IN IF p.mode # "HEURISTIC_LCV" THEN inOrder
     ELSE \/ usable(v) /\ ~usable(w)
          \/ usable(v) /\ usable(w) /\ cost(v) < cost(w)
          \/ usable(v) = usable(w) /\ (usable(v) => cost(v) = cost(w)) /\ v[1] < w[1]

-----------------------------------------------------------------------------

Init ==
  /\ problem \in Problems
  /\ solution = EmptySolution
  /\ stack = << >>
  /\ nodes = 0
  /\ step = "validate"
  /\ status = ""

Finish(result) ==
  /\ step' = "done"
  /\ status' = result
  /\ UNCHANGED <<problem, nodes>>

Reject ==
  /\ step = "validate"
  /\ ~LockedValid(problem)
  /\ Finish("INVALID_PROBLEM")
  /\ UNCHANGED <<solution, stack>>

Accept ==
  /\ step = "validate"
  /\ LockedValid(problem)
  /\ step' = "seed"
  /\ UNCHANGED <<problem, solution, stack, nodes, status>>

\* Place the next locked session.
Seed ==
  /\ step = "seed" /\ Seeding
  /\ LET a == problem.locked[Len(solution.list) + 1]
     IN IF Addable(problem, solution, a)
        THEN /\ solution' = Add(problem, solution, a)
             /\ UNCHANGED <<problem, nodes, step, status>>
        ELSE Finish("INFEASIBLE") /\ UNCHANGED solution
  /\ UNCHANGED stack

\* The outermost call.
Begin ==
  /\ step = "seed" /\ ~Seeding
  /\ Decisions(problem) # {}
  /\ stack' = <<Call(Decisions(problem), InitialDomains(problem, solution))>>
  /\ step' = "enter"
  /\ UNCHANGED <<problem, solution, nodes, status>>

Conclude ==
  /\ Finish(IF PassesFinalCheck(problem, solution) THEN "SOLVED" ELSE "INFEASIBLE")
  /\ UNCHANGED <<solution, stack>>

AllLocked ==
  /\ step = "seed" /\ ~Seeding
  /\ Decisions(problem) = {}
  /\ Conclude

\* The context is looked at when a call begins, and nowhere else.
Stop ==
  /\ step = "enter"
  /\ \E result \in {"CANCELLED", "DEADLINE_EXCEEDED"} : Finish(result)
  /\ UNCHANGED <<solution, stack>>

AllPlaced ==
  /\ step = "enter"
  /\ Top.left = {}
  /\ Conclude

\* Mutant: one node too many.
LimitPassed == nodes > problem.maxNodes

LimitReached == nodes >= problem.maxNodes

NodeLimit ==
  /\ step = "enter"
  /\ Top.left # {}
  /\ LimitReached
  /\ Finish("NODE_LIMIT")
  /\ UNCHANGED <<solution, stack>>

\* Select a session.  A heuristic call that finds no candidate left does not count.
Select ==
  /\ step = "enter"
  /\ ~LimitReached
  /\ \E d \in Selectable(problem, Top.left, Top.domains) :
       /\ stack' = [stack EXCEPT ![Len(stack)].selected = d,
                                 ![Len(stack)].untried = Top.domains[d]]
       /\ nodes' = IF Basic \/ Top.domains[d] # {} THEN nodes + 1 ELSE nodes
  /\ step' = "loop"
  /\ UNCHANGED <<problem, solution, status>>

\* The turn of candidate v of the session selected.
Turn(v) ==
  /\ step = "loop"
  /\ v \in Top.untried
  /\ \A w \in Top.untried \ {v} : ~Sooner(problem, solution, Top, w, v)

\* Mutant: the candidate stays to be tried.
Kept(v) == stack

Tried(v) == [stack EXCEPT ![Len(stack)].untried = @ \ {v}]

Skip(v) ==
  /\ Turn(v)
  /\ ~Consistent(problem, solution, Assign(Top.selected, v))
  /\ stack' = Tried(v)
  /\ UNCHANGED <<problem, solution, nodes, step, status>>

\* AddAssignment refuses what the constraints let through: Solve returns a bare error.
Fail(v) ==
  /\ Turn(v)
  /\ Consistent(problem, solution, Assign(Top.selected, v))
  /\ ~Addable(problem, solution, Assign(Top.selected, v))
  /\ Finish("")
  /\ UNCHANGED <<solution, stack>>

\* Place the session, check forward, and go on with the next session or take it back.
Place(v) ==
  /\ Turn(v)
  /\ Usable(problem, solution, Top.selected, v)
  /\ LET placed  == Add(problem, solution, Assign(Top.selected, v))
         left    == Top.left \ {Top.selected}
         domains == Prune(problem, placed, left, Top.domains)
     IN IF Viable(problem, left, domains)
        THEN /\ solution' = placed
             /\ stack' = Append(Tried(v), Call(left, domains))
             /\ step' = "enter"
        ELSE /\ solution' = RemoveLast(problem, placed)
             /\ stack' = Tried(v)
             /\ UNCHANGED step
  /\ UNCHANGED <<problem, nodes, status>>

\* No candidate is left: back to the caller, which takes its own session back.
Return ==
  /\ step = "loop"
  /\ Top.untried = {}
  /\ stack' = Below
  /\ IF Below = << >>
     THEN Finish("INFEASIBLE") /\ UNCHANGED solution
     ELSE /\ solution' = RemoveLast(problem, solution)
          /\ UNCHANGED <<problem, nodes, step, status>>

Next ==
  \/ Reject \/ Accept \/ Seed \/ Begin \/ AllLocked
  \/ Stop \/ AllPlaced \/ NodeLimit \/ Select
  \/ \E v \in Candidates : Skip(v) \/ Fail(v) \/ Place(v)
  \/ Return

Spec == Init /\ [][Next]_vars

\* One goroutine runs the search to its end.
FairSpec == Spec /\ WF_vars(Next)

-----------------------------------------------------------------------------
(* Properties. *)

\* The sessions placed so far are the locked ones and then, one per call in progress, the
\* sessions the calls have selected; each call knows exactly the sessions left to it.  The
\* code keeps this by hand: every AddAssignment is matched by a RemoveLastAssignment on
\* every way back (backtracking.go:205-211, 273-289).
OneSessionPerCall ==
  LET n == Len(problem.locked) IN
  /\ \A k \in DOMAIN solution.list : k <= n => solution.list[k] = problem.locked[k]
  /\ step \in {"validate", "seed"} => stack = << >> /\ Len(solution.list) <= n
  /\ step \in {"enter", "loop"} =>
       /\ stack # << >>
       /\ Len(solution.list) = n + Len(stack) - 1
       /\ \A i \in 1 .. Len(stack) :
            stack[i].left = Decisions(problem) \ {stack[j].selected : j \in 1 .. i - 1}
       /\ \A i \in 1 .. Len(stack) - 1 :
            stack[i].selected \in stack[i].left /\ solution.list[n + i].id = stack[i].selected
  /\ step = "loop" => Top.selected \in Top.left

\* A cell is empty and nobody's, or it bears the id of the only assignment that takes it.
Reflects(table, list, cells) ==
  \A x \in DOMAIN table :
    \/ table[x] = None /\ \A k \in DOMAIN list : x \notin cells[k]
    \/ \E k \in DOMAIN list : /\ x \in cells[k] /\ table[x] = list[k].id
                              /\ \A j \in DOMAIN list : x \in cells[j] => j = k

Agrees(p, s) ==
  /\ Reflects(s.faculty, s.list, [k \in DOMAIN s.list |-> FacultyCells(p, s.list[k])])
  /\ Reflects(s.room, s.list, [k \in DOMAIN s.list |-> RoomCells(p, s.list[k])])
  /\ Reflects(s.group, s.list, [k \in DOMAIN s.list |-> GroupCells(p, s.list[k])])

\* Through any number of placements, withdrawals and returns the index describes the
\* assignments and nothing else: the conflict checks of the search read only the index
\* ("Caller must ensure no conflicts", solution.go:149).
IndexAgrees == Agrees(problem, solution)

\* The candidates of a session in a call are exactly those that the assignments made
\* before that call rule out neither by themselves nor by a rule: forward checking
\* removes all it should and nothing it should not, at every depth.
DomainsExact ==
  problem.mode # "BASIC" /\ DistinctIds(problem) =>
    \A i \in DOMAIN stack : \A d \in stack[i].left :
      stack[i].domains[d] =
        {v \in Candidates :
           LET a == Assign(d, v)
               before == 1 .. Len(problem.locked) + i - 1
           IN /\ Suits(problem, a)
              /\ \A k \in before : ~Clash(problem, solution.list[k], a)
              /\ \A rule \in problem.rules :
                   d[1] \in rule.covers =>
                     Cardinality(OnDay(problem, solution, rule, a) \cap before) < rule.max}

\* A solution reported as SOLVED keeps every locked session, places every other session
\* exactly once, and is feasible by the definition above (verifier.go holds it to the same).
SolvedIsFeasible ==
  status = "SOLVED" =>
    LET n    == Len(problem.locked)
        mine == n + 1 .. Len(solution.list)
        at(d) == CHOOSE k \in mine : solution.list[k].id = d
    IN /\ SubSeq(solution.list, 1, n) = problem.locked
       /\ Len(solution.list) = n + Cardinality(Decisions(problem))
       /\ {solution.list[k].id : k \in mine} = Decisions(problem)
       /\ Works(problem, [d \in Decisions(problem) |->
                            <<solution.list[at(d)].room, solution.list[at(d)].slot>>])

\* "INFEASIBLE: The problem is provably unsolvable (proven by ... CSP exhaustive tree
\* exhaustion)" (CURRA_CONTEXT.md:330): whatever the mode, no timetable is missed, neither
\* by the forward checking nor by what the index remembers, provided that no rule spans
\* groups that overlap and the ids are distinct.
ExhaustionIsProof ==
  status = "INFEASIBLE" /\ RulesByGroup(problem) /\ DistinctIds(problem) => ~Solvable(problem)

\* The same sentence without the provisos.
InfeasibleIsProved == status = "INFEASIBLE" /\ DistinctIds(problem) => ~Solvable(problem)

\* What the constraints let through can always be added: the search never ends without
\* a status, unless a locked session bears the id of a session to place.
NeverFails == step = "done" /\ status = "" => ~DistinctIds(problem)

\* The search ends, whatever the problem, without being stopped.
SearchEnds == <>(step = "done")

=============================================================================
