------------------------------- MODULE Engine -------------------------------
(***************************************************************************)
(* One timetable from the request that asks for it to the edits of its     *)
(* draft: the phases of engine.Solve (engine/engine.go), each with its     *)
(* early returns, the verification of the answer by the run                *)
(* (asyncrun/execute.go), and the checks of a stored draft by the adapter  *)
(* (curra/adapter.go) when it is verified or edited by hand.               *)
(*                                                                         *)
(* The two searches are taken by contract: of the first, what is shown of  *)
(* Backtracking (any timetable that works, or a reason for having none),   *)
(* of the second, what LocalSearch promises in the words of Handovers (the *)
(* same sessions, rearranged, at no higher a penalty).  JSON is left out,  *)
(* except that a stored score has no breakdown and a parsed solution no    *)
(* index.                                                                  *)
(***************************************************************************)
EXTENDS Verifier, Handovers, SequencesExt

CONSTANTS
  Requests,     \* [problem, instances, optimize]; the problem's rules come from the instances
  NoAnswer      \* nobody has asked about the draft yet

VARIABLES
  request,
  phase,
  problem,      \* with the compiled rules, once they are
  list,         \* the timetable
  score,        \* what is reported with it
  status,       \* "NONE" until the response; "" is a bare error
  ended,        \* the phase the response comes from
  answer        \* the last answer about the draft

vars == <<request, phase, problem, list, score, status, ended, answer>>

Phases == {"validate", "presolve", "compile", "objective", "search", "improve", "verify",
           "over", "stored"}
Statuses == {"NONE", "", "SOLVED", "INFEASIBLE", "INVALID_PROBLEM", "INVALID_RESULT",
             "NODE_LIMIT", "CANCELLED", "DEADLINE_EXCEEDED"}

\* A problem is a record of these.
ProblemFields == {"reqs", "rooms", "sizes", "free", "locked", "rules", "mode", "maxNodes", "dislikes",
                  "objective"}

ASSUME RequestsAssumption ==
  \A q \in Requests : /\ q.problem \in Problems /\ q.problem.rules = {}
                      /\ ProblemFields \subseteq DOMAIN q.problem
                      /\ IsFiniteSet(q.instances) /\ q.instances \subseteq InstanceOf(q.problem)
                      /\ q.optimize \in BOOLEAN

Unscored == [soft |-> 0, breakdown |-> [gap |-> 0, preference |-> 0, room |-> 0], total |-> 0]

\* A score with its breakdown, under an objective.
Scored(objective, raw) ==
  [soft |-> Weighted(objective, raw), breakdown |-> raw, total |-> Weighted(objective, raw)]

-----------------------------------------------------------------------------
(* What the searches hand over. *)

\* The locked sessions first, then the others where f puts them.
Timetable(p, f) ==
  LET order == SetToSeq(Decisions(p))
  IN p.locked \o [k \in DOMAIN order |-> Assign(order[k], f[order[k]])]

\* Every session in every place.
Placings(old) ==
  {[k \in DOMAIN old |-> PlacedAt(old[k], at[k])] : at \in [DOMAIN old -> Candidates]}

-----------------------------------------------------------------------------
Init ==
  /\ request \in Requests
  /\ phase = "validate"
  /\ problem = request.problem
  /\ list = << >>
  /\ score = Unscored
  /\ status = "NONE"
  /\ ended = "validate"
  /\ answer = NoAnswer

GoOn(next) ==
  /\ phase' = next
  /\ UNCHANGED <<request, status, ended, answer>>

End(final) ==
  /\ phase' = "over"
  /\ status' = final
  /\ ended' = phase
  /\ UNCHANGED <<request, problem, answer>>

Invalid ==
  /\ phase = "validate" /\ ~LockedValid(problem)
  /\ End("INVALID_PROBLEM") /\ UNCHANGED <<list, score>>

Validate ==
  /\ phase = "validate" /\ LockedValid(problem)
  /\ GoOn("presolve") /\ UNCHANGED <<problem, list, score>>

Hopeless ==
  /\ phase = "presolve" /\ PreSolveRejects(problem)
  /\ End("INFEASIBLE") /\ UNCHANGED <<list, score>>

PreSolve ==
  /\ phase = "presolve" /\ ~PreSolveRejects(problem)
  /\ GoOn("compile") /\ UNCHANGED <<problem, list, score>>

CompileError ==
  /\ phase = "compile" /\ \E c \in request.instances : ~Compiles(c)
  /\ End("INVALID_PROBLEM") /\ UNCHANGED <<list, score>>

Compile ==
  /\ phase = "compile" /\ \A c \in request.instances : Compiles(c)
  /\ problem' = [problem EXCEPT !.rules = CompiledRules(request.instances)]
  /\ GoOn("objective") /\ UNCHANGED <<list, score>>

NegativeWeight == \E k \in DOMAIN problem.objective : problem.objective[k].weight < 0

InvalidObjective ==
  /\ phase = "objective" /\ NegativeWeight
  /\ End("INVALID_PROBLEM") /\ UNCHANGED <<list, score>>

ValidateObjective ==
  /\ phase = "objective" /\ ~NegativeWeight
  /\ GoOn("search") /\ UNCHANGED <<problem, list, score>>

\* The feasibility search scores what it has found with the default objective.
Found ==
  /\ phase = "search"
  /\ \E f \in [Decisions(problem) -> Candidates] :
       Works(problem, f) /\ list' = Timetable(problem, f)
  /\ score' = Scored(DefaultObjective, CalculateScore(problem, list'))
  /\ GoOn("improve") /\ UNCHANGED problem

NotFound ==
  /\ phase = "search"
  /\ ~Solvable(problem) \/ ~RulesByGroup(problem) \/ ~DistinctIds(problem)
  /\ End("INFEASIBLE") /\ UNCHANGED <<list, score>>

GaveUp ==
  /\ phase = "search" /\ Decisions(problem) # {}
  /\ \E reason \in {"NODE_LIMIT", "CANCELLED", "DEADLINE_EXCEEDED"} : End(reason)
  /\ UNCHANGED <<list, score>>

\* An id that is taken already: an error without a status.
Failed ==
  /\ phase = "search" /\ ~DistinctIds(problem)
  /\ End("") /\ UNCHANGED <<list, score>>

\* DisableOptimize.
Skip ==
  /\ phase = "improve" /\ ~request.optimize
  /\ GoOn("verify") /\ UNCHANGED <<problem, list, score>>

\* The tabu search returns another timetable, scored with the objective of the request.
Rearrange ==
  /\ list' \in {other \in Placings(list) : Improves(problem, list, other)}
  /\ score' = Scored(problem.objective, CalculateScore(problem, list'))

Improve ==
  /\ phase = "improve" /\ request.optimize
  /\ Rearrange
  /\ GoOn("verify") /\ UNCHANGED problem

Interrupted ==
  /\ phase = "improve" /\ request.optimize
  /\ Rearrange
  /\ \E reason \in {"CANCELLED", "DEADLINE_EXCEEDED"} : End(reason)

\* The best timetable fails the search's last check.
Spoiled ==
  /\ phase = "improve" /\ request.optimize /\ ~OneSlotSessions(problem)
  /\ Rearrange
  /\ End("INFEASIBLE")

Verify ==
  /\ phase = "verify"
  /\ End(Verdict(problem, request.instances, list, score))
  /\ UNCHANGED <<list, score>>

-----------------------------------------------------------------------------
(* The draft.  A run of the platform gives no weights, and its draft is    *)
(* stored with the penalty alone.                                          *)

Stored(soft) == [Unscored EXCEPT !.soft = soft]

Store ==
  /\ phase = "over" /\ status = "SOLVED" /\ request.problem.objective = << >>
  /\ Verdict(problem, request.instances, list, score) = "SOLVED"
  /\ phase' = "stored"
  /\ score' = Stored(score.soft)
  /\ UNCHANGED <<request, problem, list, status, ended, answer>>

\* VerifyVersion, and the check Publish makes.
VerifyStored ==
  /\ phase = "stored"
  /\ answer' = [about |-> "draft", verdict |-> Verdict(problem, request.instances, list, score)]
  /\ UNCHANGED <<request, phase, problem, list, score, status, ended>>

\* ValidateMove, ValidateSwap: applied to a copy, verified with the stored score; what is
\* accepted is stored with its gaps as its score, unless it was a dry run.
Edit(move) ==
  LET moved   == Apply(problem, BuildIndex(problem, list), move).list
      verdict == IF Appliable(problem, BuildIndex(problem, list), move)
                 THEN Verdict(problem, request.instances, moved, score)
                 ELSE "INVALID_RESULT"
      gaps    == Weight(DefaultObjective, "StudentGapPenalty") * StudentGapPenalty(problem, moved)
  IN /\ phase = "stored"
     /\ answer' = [about |-> "edit", verdict |-> verdict]
     /\ \E dryRun \in BOOLEAN :
          IF verdict = "SOLVED" /\ ~dryRun
          THEN list' = moved /\ score' = Stored(gaps)
          ELSE UNCHANGED <<list, score>>
     /\ UNCHANGED <<request, phase, problem, status, ended>>

\* A user may ask to move a session from where it is not.
EditMove ==
  \E k \in DOMAIN list, from \in Candidates, to \in Candidates :
    Edit(<<[id |-> list[k].id, req |-> list[k].req, from |-> from, to |-> to]>>)

EditSwap ==
  \E k, j \in DOMAIN list :
    Edit(<<ChangeOf(list[k], Placement(list[j])), ChangeOf(list[j], Placement(list[k]))>>)

Next ==
  \/ Invalid \/ Validate \/ Hopeless \/ PreSolve \/ CompileError \/ Compile
  \/ InvalidObjective \/ ValidateObjective
  \/ Found \/ NotFound \/ GaveUp \/ Failed
  \/ Skip \/ Improve \/ Interrupted \/ Spoiled \/ Verify
  \/ Store \/ VerifyStored \/ EditMove \/ EditSwap

Spec == Init /\ [][Next]_vars

-----------------------------------------------------------------------------
(* Properties. *)

\* A timetable without a flaw, said without an index and without a second count.
Sound(p, sessions) ==
  /\ \A k, j \in DOMAIN sessions : k # j => sessions[k].id # sessions[j].id
  /\ \A k \in DOMAIN p.locked : \E j \in DOMAIN sessions : sessions[j] = p.locked[k]
  /\ \A r \in DOMAIN p.reqs : Cardinality({k \in DOMAIN sessions : sessions[k].req = r}) = p.reqs[r].perWeek
  /\ \A k \in DOMAIN sessions : Occupied(p, sessions[k]) \subseteq Slots

Feasible(p, sessions) ==
  /\ \A k \in DOMAIN sessions : Suits(p, sessions[k])
  /\ \A rule \in p.rules : RuleHolds(p, [list |-> sessions], rule)
  /\ OneSlotSessions(p) => KeptApart(p, sessions)

\* "the result: every solution curra reports as SOLVED is provably correct" (README.md:39), for
\* what is answered and for what becomes of it: it is complete, keeps the locked sessions and is
\* feasible, and its penalty is the one the request's objective gives it; after any edits of
\* its draft it still is, if the built-in constraints are evaluated (no rule is compiled).
\* Sessions of several slots may share a place (ImprovedKeepsApart of LocalSearch).
SolvedIsSound ==
  /\ status = "SOLVED" =>
       /\ Sound(problem, list)
       /\ score.soft = Penalty(problem, list)
  /\ status = "SOLVED" /\ (phase = "over" \/ request.instances = {}) => Feasible(problem, list)

\* A group without students needs features that only rooms without seats have.
NeedsNoSeats(p, r) ==
  /\ p.sizes[p.reqs[r].group] = 0
  /\ p.reqs[r].features # {} /\ RoomsWith(p, p.reqs[r].features) # {}
  /\ \A room \in RoomsWith(p, p.reqs[r].features) : p.rooms[room].capacity = 0

\* "Detects provably unsolvable problems without tree search" (CURRA_CONTEXT.md:187): what
\* the analysis turns down has no timetable, down to a teacher with exactly the slots needed,
\* except that the bottleneck test wants seats for a group that needs none.
PreSolveIsProof ==
  status = "INFEASIBLE" /\ ended = "presolve" =>
    ~Solvable(problem) \/ \E r \in DOMAIN problem.reqs : NeedsNoSeats(problem, r)

\* The verification, which counts everything in its own way, turns down a timetable of the
\* searches only for one of four reasons: two sessions in one place, a locked session that takes another
\* one's id or has an instance number out of range, or a score left from the default objective.
RejectionsExplained ==
  status = "INVALID_RESULT" =>
    \/ ~KeptApart(problem, list)
    \/ ~DistinctIds(problem)
    \/ \E k \in DOMAIN problem.locked :
         InstanceNumber(problem.locked[k]) >= problem.reqs[problem.locked[k].req].perWeek
    \/ ~request.optimize /\ Penalty(problem, list) # Weighted(DefaultObjective, CalculateScore(problem, list))

\* "Verify independently checks a stored solution" (adapter.go:134): asked about the draft of a
\* solved run, it finds nothing wrong; publishing depends on the same answer.
DraftVerifies == answer # NoAnswer /\ answer.about = "draft" => answer.verdict = "SOLVED"
=============================================================================
