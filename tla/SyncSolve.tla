------------------------------ MODULE SyncSolve ------------------------------
(***************************************************************************)
(* Solving in the request itself (services/slice.go, CreateAndRunSolveJob, *)
(* which the tests call and no route does any more): the request inserts   *)
(* its run as RUNNING with no worker and no lease, solves a snapshot,      *)
(* verifies the answer and finishes the run with the plain Update of       *)
(* schedule_run_repo.go, while users cancel runs (CancelSolveJob).  The    *)
(* reaper's statements compare lease_expires_at, which is NULL here, and   *)
(* never touch these rows.                                                 *)
(*                                                                         *)
(* Abstractions: a request and its run have one name; of a run only the    *)
(* status, the version and the snapshot are kept.                          *)
(***************************************************************************)
EXTENDS Snapshots

CONSTANT Requests

VARIABLES
  pc,        \* where each request is
  source,    \* the snapshot it works on, 0 if none
  result,    \* the canonical status it is about to record
  answer,    \* what the caller was told; "none" until then and if nobody listens
  status,    \* schedule_runs.status; "NONE" before the INSERT
  version,   \* schedule_runs.version
  pinned     \* runs with a row in engine_snapshots

requests == <<pc, source, result, answer>>
runs     == <<status, version, pinned>>
vars     == <<catalogueVars, requests, runs>>

\* CANCELLED and DEADLINE_EXCEEDED need a context that ends, and then Update fails too.
Results  == {"SOLVED", "INFEASIBLE", "INVALID_PROBLEM", "INVALID_RESULT", "NODE_LIMIT"}
Answers  == Results \cup {"none", "FAILED", "error"}
Terminal == Results \cup {"CANCELLED"}
Statuses == Terminal \cup {"NONE", "RUNNING"}
Places   == {"start", "create", "solve", "pin", "record", "over"}

TypeOK ==
  /\ SnapshotsTypeOK
  /\ pc      \in [Requests -> Places]
  /\ source  \in [Requests -> Nat]
  /\ result  \in [Requests -> Results \cup {"none"}]
  /\ answer  \in [Requests -> Answers]
  /\ status  \in [Requests -> Statuses]
  /\ version \in [Requests -> 0 .. 2]
  /\ pinned  \in SUBSET Requests

Init ==
  /\ SnapshotsInit
  /\ pc      = [q \in Requests |-> "start"]
  /\ source  = [q \in Requests |-> 0]
  /\ result  = [q \in Requests |-> "none"]
  /\ answer  = [q \in Requests |-> "none"]
  /\ status  = [q \in Requests |-> "NONE"]
  /\ version = [q \in Requests |-> 0]
  /\ pinned  = {}

-----------------------------------------------------------------------------
Goto(q, place) == pc' = [pc EXCEPT ![q] = place]

Tell(q, what) ==
  /\ Goto(q, "over")
  /\ answer' = [answer EXCEPT ![q] = what]

\* The snapshot of the request, or the latest of the timetable.
Choose(q) ==
  /\ pc[q] = "start"
  /\ \E n \in DOMAIN snapshots : source' = [source EXCEPT ![q] = n]
  /\ Goto(q, "create")
  /\ UNCHANGED <<catalogueVars, result, answer, runs>>

\* Without one: "no snapshot exists for timetable; create a snapshot first".
NoSnapshot(q) ==
  /\ pc[q] = "start" /\ snapshots = << >>
  /\ Tell(q, "error")
  /\ UNCHANGED <<catalogueVars, source, result, runs>>

Create(q) ==
  /\ pc[q] = "create"
  /\ status'  = [status EXCEPT ![q] = "RUNNING"]
  /\ version' = [version EXCEPT ![q] = 1]
  /\ Goto(q, "solve")
  /\ UNCHANGED <<catalogueVars, source, result, answer, pinned>>

\* recordInvalidProblem, recordFailed: the caller is told, the run is not.
Unrecorded(q) ==
  /\ pc[q] = "solve"
  /\ \E what \in {"INVALID_PROBLEM", "FAILED"} : Tell(q, what)
  /\ UNCHANGED <<catalogueVars, source, result, runs>>

\* What Solve and Verify make of a snapshot between them.
Outcomes(n) == IF Valid(snapshots[n].rows) THEN Results ELSE {"INVALID_PROBLEM"}

\* Mutant: the run is recorded before its engine snapshot is stored.
UnpinnedPlace(outcome) == "record"

NextPlace(outcome) == IF outcome = "SOLVED" THEN "pin" ELSE "record"

Solve(q) ==
  /\ pc[q] = "solve"
  /\ \E outcome \in Outcomes(source[q]) :
       /\ result' = [result EXCEPT ![q] = outcome]
       /\ Goto(q, NextPlace(outcome))
  /\ UNCHANGED <<catalogueVars, source, answer, runs>>

Pin(q) ==
  /\ pc[q] = "pin"
  /\ pinned' = pinned \cup {q}
  /\ Goto(q, "record")
  /\ UNCHANGED <<catalogueVars, source, result, answer, status, version>>

\* Mutant: the run is found by its id alone.
MatchesID(q) == TRUE

\* WHERE id = $19 AND version = $20; the request has held the row with version 1.
Matches(q) == version[q] = 1

\* The number of rows is not looked at.
Record(q) ==
  /\ pc[q] = "record"
  /\ IF Matches(q)
     THEN /\ status'  = [status EXCEPT ![q] = result[q]]
          /\ version' = [version EXCEPT ![q] = @ + 1]
     ELSE UNCHANGED <<status, version>>
  /\ Tell(q, result[q])
  /\ UNCHANGED <<catalogueVars, source, result, pinned>>

\* A statement fails or its answer is lost, the client leaves and takes the context
\* with it, or the server stops.
Abort(q) ==
  /\ pc[q] \in {"create", "solve", "pin", "record"}
  /\ \E what \in {"error", "none"} : Tell(q, what)
  /\ UNCHANGED <<catalogueVars, source, result, runs>>

\* The statement is executed and the request fails all the same.
CreateUnheard(q) ==
  /\ pc[q] = "create"
  /\ status'  = [status EXCEPT ![q] = "RUNNING"]
  /\ version' = [version EXCEPT ![q] = 1]
  /\ Tell(q, "error")
  /\ UNCHANGED <<catalogueVars, source, result, pinned>>

RecordUnheard(q) ==
  /\ pc[q] = "record" /\ Matches(q)
  /\ status'  = [status EXCEPT ![q] = result[q]]
  /\ version' = [version EXCEPT ![q] = @ + 1]
  /\ Tell(q, "error")
  /\ UNCHANGED <<catalogueVars, source, result, pinned>>

\* CancelSolveJob; its read of the status only chooses the error message.
Cancel(q) ==
  /\ status[q] = "RUNNING"
  /\ status'  = [status EXCEPT ![q] = "CANCELLED"]
  /\ version' = [version EXCEPT ![q] = @ + 1]
  /\ UNCHANGED <<catalogueVars, requests, pinned>>

CatalogueStep == SnapshotsNext /\ UNCHANGED <<requests, runs>>

RequestStep(q) ==
  \/ Choose(q) \/ NoSnapshot(q) \/ Create(q) \/ CreateUnheard(q)
  \/ Unrecorded(q) \/ Solve(q) \/ Pin(q) \/ Record(q) \/ RecordUnheard(q)
  \/ Abort(q) \/ Cancel(q)

Next == CatalogueStep \/ \E q \in Requests : RequestStep(q)

Spec == Init /\ [][Next]_vars

-----------------------------------------------------------------------------
(* Properties. *)

\* A cancellation that was confirmed is never overwritten by the late result of
\* the request, nor any other final status by a cancellation: Update and Cancel each
\* compare and change the version or the status in one statement.
FinalStatusStays ==
  [][\A q \in Requests : status[q] \in Terminal => status'[q] = status[q]]_vars

\* What the caller is told is what the run says, unless a user cancelled the run (the lost
\* Update is not noticed) or the engine never ran to an end (the run then stays RUNNING, with
\* no lease for the reaper to see); and only SOLVED runs of a valid snapshot, with the engine's
\* request and answer stored, are called SOLVED.
AnswersAccounted ==
  \A q \in Requests :
    /\ answer[q] \in Results =>
         \/ status[q] = answer[q]
         \/ status[q] = "CANCELLED"
         \/ status[q] = "RUNNING" /\ answer[q] = "INVALID_PROBLEM" /\ result[q] = "none"
    /\ "SOLVED" \in {status[q], answer[q]} =>
         q \in pinned /\ Valid(snapshots[source[q]].rows)
    /\ answer[q] = "FAILED" => status[q] \in {"RUNNING", "CANCELLED"}
=============================================================================
