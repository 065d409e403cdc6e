--------------------------- MODULE RunQueueProofs ---------------------------
(***************************************************************************)
(* Proofs about RunQueue, for every number of runs, set of workers and     *)
(* retry limit.                                                            *)
(*                                                                         *)
(* What a worker may do to a row it no longer possesses is decided by two  *)
(* facts that lie in different places: the retry count its claim returned, *)
(* and the worker id in the row. Possession ties them together (of the     *)
(* workers busy with a running run, the owner and the one at the current   *)
(* attempt are the same), and needs ClaimsHold (no two claims hold one     *)
(* row) to survive a claim. Two workers are then never at the same         *)
(* attempt, and the guard of the terminal transaction lets only the        *)
(* current attempt through; with UnfinishedClean (nothing was written      *)
(* before) and SnapshotFirst (the snapshot was written by the same         *)
(* attempt) the draft, the audit event and the snapshot of a finished run  *)
(* all bear that attempt.                                                  *)
(***************************************************************************)
EXTENDS RunQueue, TLAPS

USE NumRunsAssumption, WorkersAssumption, MaxRetriesAssumption

-----------------------------------------------------------------------------
(* Shapes: the types of the columns and of what the workers carry *)

RowTypes ==
  /\ status  \in [Runs -> Statuses]
  /\ retry   \in [Runs -> Attempts]
  /\ owner   \in [Runs -> Workers \cup {NoWorker}]
  /\ lapsed  \in SUBSET Runs
  /\ fresh   \in SUBSET Runs
  /\ snap    \in [Runs -> Attempts \cup {NoSnap}]
  /\ drafts  \in [Runs -> Seq(Attempts)]
  /\ audit   \in [Runs -> Seq(Event)]

ProcTypes ==
  /\ pc      \in [Workers -> Places]
  /\ job     \in [Workers -> Runs \cup {0}]
  /\ attempt \in [Workers -> Attempts]
  /\ outcome \in [Workers -> Outcomes \cup {"none"}]

AllOK == \A w \in Workers : WorkerOK(w)

Shapes == RowTypes /\ ProcTypes /\ AllOK

LEMMA StatusFacts ==
  /\ Outcomes \subseteq Statuses
  /\ {"NONE", "QUEUED", "RUNNING", "CANCELLED", "FAILED"} \subseteq Statuses
  /\ Unsolved \subseteq Outcomes /\ Dropped \subseteq Outcomes
  /\ {"SOLVED", "FAILED"} \subseteq Outcomes
  /\ "SOLVED" \notin Unsolved /\ "FAILED" \notin Unsolved /\ "SOLVED" \notin Dropped
  /\ "none" \notin Outcomes
BY DEF Statuses, Terminal, Outcomes, Unsolved, Dropped

LEMMA NumberFacts ==
  /\ 0 \in Attempts /\ Attempts \subseteq Nat /\ 0 \notin Runs /\ Runs \subseteq Nat
  /\ \A k \in Attempts : (k < MaxRetries => k + 1 \in Attempts) /\ k <= MaxRetries
BY DEF Attempts, Runs

\* What the worker-side helpers do to the shapes.
LEMMA ReturnShape ==
  ASSUME ProcTypes, AllOK, NEW w \in Workers, Return(w)
  PROVE  ProcTypes' /\ AllOK'
<1>1. ProcTypes'
  BY NumberFacts DEF ProcTypes, Return, Goto, Places
<1>2. AllOK'
  BY DEF ProcTypes, AllOK, WorkerOK, Busy, Return, Goto
<1> QED
  BY <1>1, <1>2

LEMMA ExpectShape ==
  ASSUME ProcTypes, AllOK, NEW w \in Workers, job[w] \in Runs,
         NEW place \in Places, NEW s \in Outcomes, Expect(w, place, s),
         UNCHANGED <<job, attempt>>,
         place \in {"reporting", "failing"} => s # "SOLVED",
         place = "persisting" => s = "SOLVED",
         place = "committing" => s # "FAILED"
  PROVE  ProcTypes' /\ AllOK'
<1>1. ProcTypes'
  BY DEF ProcTypes, Expect, Goto
<1>2. AllOK'
  BY DEF ProcTypes, AllOK, WorkerOK, Busy, Expect, Goto
<1> QED
  BY <1>1, <1>2

LEMMA ClaimTxShape ==
  ASSUME RowTypes, NEW w \in Workers, NEW r \in Runs, ClaimTx(w, r)
  PROVE  RowTypes'
BY StatusFacts DEF RowTypes, ClaimTx, side

LEMMA TerminalTxShape ==
  ASSUME RowTypes, ProcTypes, NEW w \in Workers, job[w] \in Runs,
         outcome[w] \in Outcomes, TerminalTx(w)
  PROVE  RowTypes'
<1>1. [attempt |-> attempt[w], status |-> outcome[w]] \in Event
  BY DEF Event, ProcTypes
<1>2. audit' \in [Runs -> Seq(Event)]
  BY <1>1 DEF RowTypes, TerminalTx
<1>3. drafts' \in [Runs -> Seq(Attempts)]
  BY DEF RowTypes, ProcTypes, TerminalTx
<1>4. status' \in [Runs -> Statuses]
  BY StatusFacts DEF RowTypes, TerminalTx
<1> QED
  BY <1>2, <1>3, <1>4 DEF RowTypes, TerminalTx, StopClocks

LEMMA NoTxShape == ASSUME RowTypes, UNCHANGED <<row, side>> PROVE RowTypes'
BY DEF RowTypes, row, side

LEMMA BusyShape ==
  ASSUME ProcTypes, AllOK, NEW w \in Workers, Busy(w)
  PROVE  /\ job[w] \in Runs
         /\ pc[w] # "executing" => outcome[w] \in Outcomes
BY DEF ProcTypes, AllOK, WorkerOK, Busy, Places

LEMMA ShapesStep == Shapes /\ [Next]_vars => Shapes'
<1> SUFFICES ASSUME RowTypes, ProcTypes, AllOK, [Next]_vars PROVE Shapes'
  BY DEF Shapes
<1> USE DEF Shapes
<1>1. ASSUME UNCHANGED proc PROVE ProcTypes' /\ AllOK'
  BY <1>1 DEF ProcTypes, AllOK, WorkerOK, Busy, proc
<1>2. ASSUME NEW r \in Runs, Request(r) PROVE Shapes'
  <2>1. CASE CreateRun(r)
    BY <1>1, <2>1, StatusFacts DEF CreateRun, RowTypes, side
  <2>2. CASE Cancel(r)
    BY <1>1, <2>2, StatusFacts DEF Cancel, StopClocks, RowTypes, side
  <2> QED
    BY <1>2, <2>1, <2>2 DEF Request
<1>3. ASSUME NEW r \in Runs, Clock(r) PROVE Shapes'
  BY <1>1, <1>3 DEF Clock, LeaseExpires, HeartbeatAges, RowTypes, side
<1>4. ASSUME NEW w \in Workers, Claim(w) PROVE Shapes'
  <2>1. CASE BeginClaim(w)
    <3>1. RowTypes'
      BY <2>1, NoTxShape DEF BeginClaim
    <3>2. ProcTypes'
      BY <2>1 DEF BeginClaim, Goto, ProcTypes, Places
    <3>3. AllOK'
      BY <2>1 DEF BeginClaim, Goto, ProcTypes, AllOK, WorkerOK, Busy
    <3> QED
      BY <3>1, <3>2, <3>3
  <2>2. pc[w] = "claiming" => job[w] \in Runs
    BY DEF AllOK, WorkerOK
  <2>3. CASE CommitClaim(w)
    <3>1. RowTypes'
      BY <2>2, <2>3, ClaimTxShape DEF CommitClaim
    <3>2. ProcTypes'
      BY <2>2, <2>3 DEF CommitClaim, Goto, ProcTypes, RowTypes, Places
    <3>3. AllOK'
      BY <2>2, <2>3 DEF CommitClaim, Goto, ProcTypes, AllOK, WorkerOK, Busy
    <3> QED
      BY <3>1, <3>2, <3>3
  <2>4. CASE LoseClaim(w)
    BY <2>2, <2>4, ClaimTxShape, ReturnShape DEF LoseClaim
  <2>5. CASE AbortClaim(w)
    BY <2>5, NoTxShape, ReturnShape DEF AbortClaim
  <2> QED
    BY <1>4, <2>1, <2>3, <2>4, <2>5 DEF Claim
<1>5. ASSUME NEW w \in Workers, Execute(w) PROVE Shapes'
  <2>1. job[w] \in Runs
    BY <1>5, BusyShape
       DEF Execute, ExecuteFails, ExecuteGivesUp, ExecuteUnsolved, ExecuteSolved,
           PersistSnapshot, PersistFails, CommitResult, CommitFails, ReportOnce, Busy
  <2>2. CASE ExecuteFails(w) \/ ExecuteGivesUp(w) \/ ExecuteUnsolved(w) \/ ExecuteSolved(w)
    <3>1. RowTypes'
      BY <2>2, NoTxShape DEF ExecuteFails, ExecuteGivesUp, ExecuteUnsolved, ExecuteSolved
    <3>2. ProcTypes' /\ AllOK'
      BY <2>1, <2>2, ExpectShape, StatusFacts
         DEF ExecuteFails, ExecuteGivesUp, ExecuteUnsolved, ExecuteSolved, Places
    <3> QED
      BY <3>1, <3>2
  <2>3. CASE PersistSnapshot(w)
    <3>1. RowTypes'
      BY <2>3 DEF PersistSnapshot, InsertSnapshot, RowTypes, ProcTypes, row
    <3>2. ProcTypes'
      BY <2>3 DEF PersistSnapshot, Goto, ProcTypes, Places
    <3>3. AllOK'
      BY <2>1, <2>3, StatusFacts DEF PersistSnapshot, Goto, ProcTypes, AllOK, WorkerOK, Busy
    <3> QED
      BY <3>1, <3>2, <3>3
  <2>4. CASE PersistFails(w)
    <3>1. RowTypes'
      BY <2>4 DEF PersistFails, InsertSnapshot, RowTypes, ProcTypes, row
    <3>2. ProcTypes' /\ AllOK'
      BY <2>1, <2>4, ExpectShape, StatusFacts DEF PersistFails, Places
    <3> QED
      BY <3>1, <3>2
  <2>5. outcome[w] \in Outcomes
        \/ pc[w] \notin {"persisting", "committing", "reporting", "failing"}
    BY DEF AllOK, WorkerOK
  <2>6. CASE CommitResult(w)
    BY <2>1, <2>5, <2>6, TerminalTxShape, ReturnShape DEF CommitResult
  <2>7. CASE CommitFails(w)
    <3>1. RowTypes'
      BY <2>1, <2>5, <2>7, TerminalTxShape, NoTxShape DEF CommitFails, NoTx
    <3>2. ProcTypes' /\ AllOK'
      BY <2>1, <2>7, ExpectShape, StatusFacts DEF CommitFails, Places
    <3> QED
      BY <3>1, <3>2
  <2>8. CASE ReportOnce(w)
    BY <2>1, <2>5, <2>8, TerminalTxShape, NoTxShape, ReturnShape DEF ReportOnce, NoTx
  <2> QED
    BY <1>5, <2>2, <2>3, <2>4, <2>6, <2>7, <2>8 DEF Execute
<1>6. ASSUME NEW w \in Workers, Heartbeat(w) PROVE Shapes'
  BY <1>1, <1>6, BusyShape DEF Heartbeat, RowTypes, side
<1>7. ASSUME NEW w \in Workers, Reap(w) PROVE Shapes'
  <2>1. CASE ReapRequeue(w)
    <3>1. RowTypes'
      BY <2>1, StatusFacts, NumberFacts
         DEF ReapRequeue, StopClocks, Retriable, RowTypes, side
    <3>2. ProcTypes'
      BY <2>1 DEF ReapRequeue, ProcTypes, Places
    <3>3. AllOK'
      BY <2>1 DEF ReapRequeue, ProcTypes, AllOK, WorkerOK, Busy
    <3> QED
      BY <3>1, <3>2, <3>3
  <2>2. CASE ReapFail(w)
    <3>1. RowTypes'
      BY <2>2, StatusFacts DEF ReapFail, StopClocks, RowTypes, side
    <3>2. ProcTypes'
      BY <2>2 DEF ReapFail, Goto, ProcTypes, Places
    <3>3. AllOK'
      BY <2>2 DEF ReapFail, Goto, ProcTypes, AllOK, WorkerOK, Busy
    <3> QED
      BY <3>1, <3>2, <3>3
  <2>3. CASE ReapAborts(w)
    <3>1. ProcTypes'
      BY <2>3 DEF ReapAborts, Goto, ProcTypes, Places
    <3>2. AllOK'
      BY <2>3 DEF ReapAborts, Goto, ProcTypes, AllOK, WorkerOK, Busy
    <3> QED
      BY <2>3, <3>1, <3>2, NoTxShape DEF ReapAborts
  <2> QED
    BY <1>7, <2>1, <2>2, <2>3 DEF Reap
<1>8. ASSUME NEW w \in Workers, Crash(w) PROVE Shapes'
  BY <1>8, NoTxShape, ReturnShape DEF Crash
<1>9. CASE UNCHANGED vars
  BY <1>1, <1>9, NoTxShape DEF vars, row, side, proc
<1> QED
  BY <1>2, <1>3, <1>4, <1>5, <1>6, <1>7, <1>8, <1>9 DEF Next

LEMMA ShapesInit == Init => Shapes
<1> SUFFICES ASSUME Init PROVE Shapes
  OBVIOUS
<1>1. RowTypes
  BY StatusFacts, NumberFacts DEF Init, RowTypes, NoSnap
<1>2. ProcTypes
  BY NumberFacts DEF Init, ProcTypes, Places
<1>3. AllOK
  BY DEF Init, AllOK, WorkerOK, Busy
<1> QED
  BY <1>1, <1>2, <1>3 DEF Shapes

\* Every reachable state is well typed; in particular no run is taken back more
\* than MaxRetries times.
THEOREM TypeCorrect == Spec => []TypeOK
<1>1. Shapes => TypeOK
  BY DEF Shapes, RowTypes, ProcTypes, TypeOK
<1> QED
  BY <1>1, ShapesInit, ShapesStep, PTL DEF Spec

-----------------------------------------------------------------------------
(* Holding: who claims and who executes what *)

Holding == ClaimsHold /\ Possession /\ OneWorkerPerAttempt

\* No worker claims or executes anything it did not before.
NoNewWork ==
  \A v \in Workers :
    /\ Busy(v)' => Busy(v) /\ job'[v] = job[v] /\ attempt'[v] = attempt[v]
    /\ pc'[v] = "claiming" => pc[v] = "claiming" /\ job'[v] = job[v]

\* Runs keep their attempt and owner, and may only finish, if not locked.
OnlyFinishes ==
  \A r \in Runs :
    /\ retry'[r] = retry[r] /\ owner'[r] = owner[r]
    /\ \/ status'[r] = status[r]
       \/ status'[r] \in Terminal /\ ~Locked(r)

LEMMA TerminalFacts ==
  /\ {"NONE", "QUEUED", "RUNNING"} \cap Terminal = {}
  /\ Outcomes \subseteq Terminal /\ "CANCELLED" \in Terminal /\ "FAILED" \in Outcomes
  /\ "CANCELLED" \notin Outcomes
BY DEF Terminal, Outcomes, Unsolved

\* Work that goes on, or stops, over runs that stay or finish keeps Holding.
LEMMA HoldingKept ==
  ASSUME Shapes, Holding, NoNewWork, OnlyFinishes
  PROVE  Holding'
<1>1. \A w \in Workers : pc[w] = "claiming" \/ Busy(w) => job[w] \in Runs
  BY DEF Shapes, AllOK, WorkerOK
<1>2. ClaimsHold'
  BY <1>1, TerminalFacts DEF Holding, ClaimsHold, NoNewWork, OnlyFinishes, Locked
<1>3. Possession'
  BY <1>1, TerminalFacts DEF Holding, Possession, NoNewWork, OnlyFinishes
<1>4. OneWorkerPerAttempt'
  BY DEF Holding, OneWorkerPerAttempt, NoNewWork
<1> QED
  BY <1>2, <1>3, <1>4 DEF Holding

\* A run that is being executed or claimed is not locked by another claim.
LEMMA BusyNotLocked ==
  ASSUME Holding, NEW r \in Runs, status[r] # "QUEUED"
  PROVE  ~Locked(r)
BY DEF Holding, ClaimsHold, Locked

LEMMA ReturnNoNewWork ==
  ASSUME ProcTypes, NEW w \in Workers, Return(w) PROVE NoNewWork
BY DEF ProcTypes, Return, Goto, NoNewWork, Busy

LEMMA GotoNoNewWork ==
  ASSUME ProcTypes, NEW w \in Workers, Busy(w),
         NEW place \in Places, place # "claiming",
         Goto(w, place), UNCHANGED <<job, attempt>>
  PROVE  NoNewWork
BY DEF ProcTypes, Goto, NoNewWork, Busy

LEMMA TerminalTxFinishes ==
  ASSUME Shapes, Holding, NEW w \in Workers, job[w] \in Runs,
         outcome[w] \in Outcomes, TerminalTx(w)
  PROVE  OnlyFinishes
BY BusyNotLocked, TerminalFacts
   DEF Shapes, RowTypes, TerminalTx, Owns, OnlyFinishes

LEMMA NoTxFinishes == ASSUME UNCHANGED row PROVE OnlyFinishes
BY DEF row, OnlyFinishes

LEMMA CommitClaimHolding ==
  ASSUME Shapes, Holding, NEW w \in Workers, CommitClaim(w)
  PROVE  Holding'
<1>1. \A v \in Workers : pc[v] = "claiming" \/ Busy(v) => job[v] \in Runs
  BY DEF Shapes, AllOK, WorkerOK
<1>2. job[w] \in Runs /\ status[job[w]] = "QUEUED"
  BY <1>1 DEF CommitClaim, Holding, ClaimsHold
<1>3. /\ status' = [status EXCEPT ![job[w]] = "RUNNING"]
      /\ owner' = [owner EXCEPT ![job[w]] = w]
      /\ retry' = retry /\ job' = job
      /\ attempt' = [attempt EXCEPT ![w] = retry[job[w]]]
      /\ pc' = [pc EXCEPT ![w] = "executing"]
      /\ pc[w] = "claiming"
  BY DEF CommitClaim, ClaimTx, Goto
<1>4. \A v \in Workers \ {w} : Busy(v)' = Busy(v) /\ pc'[v] = pc[v] /\ attempt'[v] = attempt[v]
  BY <1>3 DEF Shapes, ProcTypes, Busy
<1>5. pc'[w] = "executing" /\ attempt'[w] = retry[job[w]]
  BY <1>3 DEF Shapes, ProcTypes
<1>6. ClaimsHold'
  <2> SUFFICES ASSUME NEW v \in Workers, pc'[v] = "claiming"
               PROVE  /\ status'[job'[v]] = "QUEUED"
                      /\ \A u \in Workers \ {v} : pc'[u] = "claiming" => job'[u] # job'[v]
    BY DEF ClaimsHold
  <2>1. v # w /\ pc[v] = "claiming" /\ job[v] # job[w] /\ status[job[v]] = "QUEUED"
    BY <1>3, <1>4, <1>5 DEF Holding, ClaimsHold
  <2>2. \A u \in Workers \ {v} : pc'[u] = "claiming" => job'[u] # job'[v]
    BY <1>3, <1>4, <1>5, <2>1 DEF Holding, ClaimsHold
  <2> QED
    BY <1>1, <1>2, <1>3, <2>1, <2>2 DEF Shapes, RowTypes
<1>7. \A v \in Workers \ {w} : Busy(v) /\ job[v] = job[w] => attempt[v] < retry[job[w]]
  BY <1>2 DEF Holding, Possession
<1>8. Possession'
  <2> SUFFICES ASSUME NEW v \in Workers, Busy(v)'
               PROVE  /\ status'[job'[v]] # "NONE"
                      /\ attempt'[v] <= retry'[job'[v]]
                      /\ status'[job'[v]] = "QUEUED" => attempt'[v] < retry'[job'[v]]
                      /\ status'[job'[v]] = "RUNNING" =>
                           (owner'[job'[v]] = v <=> attempt'[v] = retry'[job'[v]])
    BY DEF Possession
  <2>1. retry[job[w]] \in Nat
    BY <1>2, NumberFacts DEF Shapes, RowTypes
  <2>2. CASE v = w
    BY <1>2, <1>3, <1>5, <2>1, <2>2 DEF Shapes, RowTypes
  <2>3. CASE v # w /\ job[v] = job[w]
    <3>1. attempt[v] < retry[job[w]] /\ attempt[v] \in Nat
      BY <1>4, <1>7, <2>3, NumberFacts DEF Shapes, ProcTypes
    <3> QED
      BY <1>2, <1>3, <1>4, <2>1, <2>3, <3>1 DEF Shapes, RowTypes
  <2>4. CASE v # w /\ job[v] # job[w]
    BY <1>1, <1>2, <1>3, <1>4, <2>4 DEF Shapes, RowTypes, Holding, Possession
  <2> QED
    BY <2>2, <2>3, <2>4
<1>9. OneWorkerPerAttempt'
  <2>1. \A v \in Workers \ {w} : Busy(v)' /\ job'[v] = job'[w] => attempt'[v] # attempt'[w]
    <3> SUFFICES ASSUME NEW v \in Workers \ {w}, Busy(v), job[v] = job[w]
                 PROVE  attempt[v] # retry[job[w]]
      BY <1>3, <1>4, <1>5
    <3>1. retry[job[w]] \in Nat /\ attempt[v] \in Nat
      BY <1>2, NumberFacts DEF Shapes, RowTypes, ProcTypes
    <3> QED
      BY <1>7, <3>1
  <2> QED
    BY <1>3, <1>4, <2>1 DEF Holding, OneWorkerPerAttempt
<1> QED
  BY <1>6, <1>8, <1>9 DEF Holding

LEMMA LoseClaimHolding ==
  ASSUME Shapes, Holding, NEW w \in Workers, LoseClaim(w)
  PROVE  Holding'
<1>1. \A v \in Workers : pc[v] = "claiming" \/ Busy(v) => job[v] \in Runs
  BY DEF Shapes, AllOK, WorkerOK
<1>2. job[w] \in Runs /\ status[job[w]] = "QUEUED" /\ pc[w] = "claiming"
  BY <1>1 DEF LoseClaim, Holding, ClaimsHold
<1>3. /\ status' = [status EXCEPT ![job[w]] = "RUNNING"]
      /\ owner' = [owner EXCEPT ![job[w]] = w]
      /\ retry' = retry
  BY DEF LoseClaim, ClaimTx
<1>4. \A v \in Workers \ {w} :
        Busy(v)' = Busy(v) /\ pc'[v] = pc[v] /\ attempt'[v] = attempt[v] /\ job'[v] = job[v]
  BY DEF LoseClaim, Return, Goto, Shapes, ProcTypes, Busy
<1>5. pc'[w] = "idle" /\ ~Busy(w)'
  BY DEF LoseClaim, Return, Goto, Shapes, ProcTypes, Busy
<1>6. ClaimsHold'
  <2> SUFFICES ASSUME NEW v \in Workers, pc'[v] = "claiming"
               PROVE  /\ status'[job'[v]] = "QUEUED"
                      /\ \A u \in Workers \ {v} : pc'[u] = "claiming" => job'[u] # job'[v]
    BY DEF ClaimsHold
  <2>1. v # w /\ pc[v] = "claiming" /\ job'[v] = job[v]
    BY <1>4, <1>5
  <2>2. job[v] # job[w] /\ status[job[v]] = "QUEUED" /\ job[v] \in Runs
    BY <1>1, <1>2, <2>1 DEF Holding, ClaimsHold
  <2>3. \A u \in Workers \ {v} : pc'[u] = "claiming" => job'[u] # job'[v]
    BY <1>4, <1>5, <2>1 DEF Holding, ClaimsHold
  <2> QED
    BY <1>3, <2>1, <2>2, <2>3 DEF Shapes, RowTypes
<1>7. Possession'
  <2> SUFFICES ASSUME NEW v \in Workers, Busy(v)'
               PROVE  /\ status'[job'[v]] # "NONE"
                      /\ attempt'[v] <= retry'[job'[v]]
                      /\ status'[job'[v]] = "QUEUED" => attempt'[v] < retry'[job'[v]]
                      /\ status'[job'[v]] = "RUNNING" =>
                           (owner'[job'[v]] = v <=> attempt'[v] = retry'[job'[v]])
    BY DEF Possession
  <2>1. v # w /\ Busy(v) /\ job'[v] = job[v] /\ attempt'[v] = attempt[v] /\ job[v] \in Runs
    BY <1>1, <1>4, <1>5
  <2>2. CASE job[v] = job[w]
    <3>1. attempt[v] < retry[job[w]] /\ attempt[v] \in Nat /\ retry[job[w]] \in Nat
      BY <1>2, <2>1, <2>2, NumberFacts DEF Shapes, ProcTypes, RowTypes, Holding, Possession
    <3> QED
      BY <1>2, <1>3, <2>1, <2>2, <3>1 DEF Shapes, RowTypes
  <2>3. CASE job[v] # job[w]
    BY <1>2, <1>3, <2>1, <2>3 DEF Shapes, RowTypes, Holding, Possession
  <2> QED
    BY <2>2, <2>3
<1>8. OneWorkerPerAttempt'
  BY <1>4, <1>5 DEF Holding, OneWorkerPerAttempt
<1> QED
  BY <1>6, <1>7, <1>8 DEF Holding

LEMMA BeginClaimHolding ==
  ASSUME Shapes, Holding, NEW w \in Workers, BeginClaim(w)
  PROVE  Holding'
<1>1. PICK r \in Runs : Oldest(r) /\ job' = [job EXCEPT ![w] = r]
  BY DEF BeginClaim
<1>2. status[r] = "QUEUED" /\ \A v \in Workers : pc[v] = "claiming" => job[v] # r
  BY <1>1 DEF Oldest, Claimable, Locked
<1>3. /\ pc' = [pc EXCEPT ![w] = "claiming"] /\ pc[w] = "idle"
      /\ UNCHANGED <<status, retry, owner, attempt>>
  BY DEF BeginClaim, Goto, row
<1>4. /\ pc'[w] = "claiming" /\ job'[w] = r /\ ~Busy(w)'
      /\ \A v \in Workers \ {w} : pc'[v] = pc[v] /\ job'[v] = job[v] /\ Busy(v)' = Busy(v)
  BY <1>1, <1>3 DEF Shapes, ProcTypes, Busy
<1>5. ClaimsHold'
  BY <1>2, <1>3, <1>4 DEF Holding, ClaimsHold
<1>6. Possession'
  BY <1>3, <1>4 DEF Holding, Possession
<1>7. OneWorkerPerAttempt'
  BY <1>3, <1>4 DEF Holding, OneWorkerPerAttempt
<1> QED
  BY <1>5, <1>6, <1>7 DEF Holding

LEMMA CreateRunHolding ==
  ASSUME Shapes, Holding, NEW r \in Runs, CreateRun(r)
  PROVE  Holding'
<1>1. \A v \in Workers : pc[v] = "claiming" \/ Busy(v) => job[v] \in Runs /\ job[v] # r
  BY DEF Shapes, AllOK, WorkerOK, Holding, ClaimsHold, Possession, CreateRun
<1>2. ClaimsHold'
  BY <1>1 DEF CreateRun, proc, Shapes, RowTypes, Holding, ClaimsHold
<1>3. Possession'
  <2> SUFFICES ASSUME NEW v \in Workers, Busy(v)
               PROVE  /\ status'[job[v]] # "NONE"
                      /\ attempt[v] <= retry[job[v]]
                      /\ status'[job[v]] = "QUEUED" => attempt[v] < retry[job[v]]
                      /\ status'[job[v]] = "RUNNING" =>
                           (owner[job[v]] = v <=> attempt[v] = retry[job[v]])
    BY DEF Possession, CreateRun, proc, Busy
  <2>1. status'[job[v]] = status[job[v]]
    BY <1>1 DEF CreateRun, Shapes, RowTypes
  <2> QED
    BY <2>1 DEF Holding, Possession
<1>4. OneWorkerPerAttempt'
  BY DEF CreateRun, proc, Holding, OneWorkerPerAttempt, Busy
<1> QED
  BY <1>2, <1>3, <1>4 DEF Holding

LEMMA ReapRequeueHolding ==
  ASSUME Shapes, Holding, NEW w \in Workers, ReapRequeue(w)
  PROVE  Holding'
<1> DEFINE back == {r \in Runs : Expired(r) /\ Retriable(r)}
<1>1. \A v \in Workers :
        /\ Busy(v)' = Busy(v) /\ job'[v] = job[v] /\ attempt'[v] = attempt[v]
        /\ pc'[v] = "claiming" <=> pc[v] = "claiming"
  BY DEF ReapRequeue, Shapes, ProcTypes, Busy
<1>2. \A r \in Runs :
        IF r \in back
          THEN /\ status[r] = "RUNNING" /\ status'[r] = "QUEUED"
               /\ retry'[r] = retry[r] + 1 /\ owner'[r] = NoWorker
          ELSE status'[r] = status[r] /\ retry'[r] = retry[r] /\ owner'[r] = owner[r]
  BY DEF ReapRequeue, Expired
<1>3. \A v \in Workers : pc[v] = "claiming" \/ Busy(v) => job[v] \in Runs
  BY DEF Shapes, AllOK, WorkerOK
<1> HIDE DEF back
<1>4. ClaimsHold'
  BY <1>1, <1>2, <1>3 DEF Holding, ClaimsHold
<1>5. Possession'
  <2> SUFFICES ASSUME NEW v \in Workers, Busy(v)'
               PROVE  /\ status'[job'[v]] # "NONE"
                      /\ attempt'[v] <= retry'[job'[v]]
                      /\ status'[job'[v]] = "QUEUED" => attempt'[v] < retry'[job'[v]]
                      /\ status'[job'[v]] = "RUNNING" =>
                           (owner'[job'[v]] = v <=> attempt'[v] = retry'[job'[v]])
    BY DEF Possession
  <2>1. attempt[v] \in Nat /\ retry[job[v]] \in Nat /\ job[v] \in Runs /\ Busy(v)
    <3>1. Busy(v) /\ job[v] \in Runs
      BY <1>1, <1>3
    <3> QED
      BY <3>1, NumberFacts DEF Shapes, ProcTypes, RowTypes
  <2>2. attempt[v] <= retry[job[v]]
    BY <2>1 DEF Holding, Possession
  <2>3. CASE job[v] \in back
    BY <1>1, <1>2, <2>1, <2>2, <2>3
  <2>4. CASE job[v] \notin back
    BY <1>1, <1>2, <2>1, <2>4 DEF Holding, Possession
  <2> QED
    BY <2>3, <2>4
<1>6. OneWorkerPerAttempt'
  BY <1>1 DEF Holding, OneWorkerPerAttempt
<1> QED
  BY <1>4, <1>5, <1>6 DEF Holding

LEMMA HoldingStep == Shapes /\ Holding /\ [Next]_vars => Holding'
<1> SUFFICES ASSUME Shapes, Holding, [Next]_vars PROVE Holding'
  OBVIOUS
<1> USE DEF Shapes
<1>1. ASSUME UNCHANGED proc PROVE NoNewWork
  BY <1>1 DEF proc, NoNewWork, Busy
<1>2. ASSUME NEW r \in Runs, Request(r) PROVE Holding'
  <2>1. CASE CreateRun(r)
    BY <2>1, CreateRunHolding
  <2>2. CASE Cancel(r)
    <3>1. OnlyFinishes
      BY <2>2, TerminalFacts DEF Cancel, OnlyFinishes, RowTypes
    <3> QED
      BY <1>1, <2>2, <3>1, HoldingKept DEF Cancel
  <2> QED
    BY <1>2, <2>1, <2>2 DEF Request
<1>3. ASSUME NEW r \in Runs, Clock(r) PROVE Holding'
  <2>1. OnlyFinishes
    BY <1>3 DEF Clock, LeaseExpires, HeartbeatAges, OnlyFinishes
  <2> QED
    BY <1>1, <1>3, <2>1, HoldingKept DEF Clock, LeaseExpires, HeartbeatAges
<1>4. ASSUME NEW w \in Workers, Claim(w) PROVE Holding'
  <2>1. CASE AbortClaim(w)
    BY <2>1, ReturnNoNewWork, NoTxFinishes, HoldingKept DEF AbortClaim
  <2> QED
    BY <1>4, <2>1, BeginClaimHolding, CommitClaimHolding, LoseClaimHolding DEF Claim
<1>5. ASSUME NEW w \in Workers, Execute(w) PROVE Holding'
  <2>1. Busy(w) /\ job[w] \in Runs
    BY <1>5, BusyShape
       DEF Execute, ExecuteFails, ExecuteGivesUp, ExecuteUnsolved, ExecuteSolved,
           PersistSnapshot, PersistFails, CommitResult, CommitFails, ReportOnce, Busy
  <2>2. CASE ExecuteFails(w) \/ ExecuteGivesUp(w) \/ ExecuteUnsolved(w) \/ ExecuteSolved(w)
    <3>1. NoNewWork
      BY <2>1, <2>2, GotoNoNewWork
         DEF ExecuteFails, ExecuteGivesUp, ExecuteUnsolved, ExecuteSolved, Expect, Places
    <3> QED
      BY <2>2, <3>1, NoTxFinishes, HoldingKept
         DEF ExecuteFails, ExecuteGivesUp, ExecuteUnsolved, ExecuteSolved
  <2>3. CASE PersistSnapshot(w) \/ PersistFails(w)
    <3>1. NoNewWork
      BY <2>1, <2>3, GotoNoNewWork DEF PersistSnapshot, PersistFails, Expect, Places
    <3> QED
      BY <2>3, <3>1, NoTxFinishes, HoldingKept DEF PersistSnapshot, PersistFails
  <2>4. CASE CommitResult(w) \/ CommitFails(w) \/ ReportOnce(w)
    <3>1. outcome[w] \in Outcomes
      BY <2>4, <2>1, BusyShape DEF CommitResult, CommitFails, ReportOnce
    <3>2. OnlyFinishes
      BY <2>1, <2>4, <3>1, TerminalTxFinishes, NoTxFinishes
         DEF CommitResult, CommitFails, ReportOnce, NoTx
    <3>3. NoNewWork
      BY <2>1, <2>4, GotoNoNewWork, ReturnNoNewWork
         DEF CommitResult, CommitFails, ReportOnce, Expect, Places
    <3> QED
      BY <3>2, <3>3, HoldingKept
  <2> QED
    BY <1>5, <2>2, <2>3, <2>4 DEF Execute
<1>6. ASSUME NEW w \in Workers, Heartbeat(w) PROVE Holding'
  BY <1>1, <1>6, HoldingKept DEF Heartbeat, OnlyFinishes
<1>7. ASSUME NEW w \in Workers, Reap(w) PROVE Holding'
  <2>1. CASE ReapFail(w)
    <3>1. OnlyFinishes
      BY <2>1, BusyNotLocked, TerminalFacts DEF ReapFail, Expired, OnlyFinishes
    <3>2. NoNewWork
      BY <2>1 DEF ReapFail, Goto, ProcTypes, NoNewWork, Busy
    <3> QED
      BY <3>1, <3>2, HoldingKept
  <2>2. CASE ReapAborts(w)
    <3>1. NoNewWork
      BY <2>2 DEF ReapAborts, Goto, ProcTypes, NoNewWork, Busy
    <3> QED
      BY <2>2, <3>1, NoTxFinishes, HoldingKept DEF ReapAborts
  <2> QED
    BY <1>7, <2>1, <2>2, ReapRequeueHolding DEF Reap
<1>8. ASSUME NEW w \in Workers, Crash(w) PROVE Holding'
  BY <1>8, ReturnNoNewWork, NoTxFinishes, HoldingKept DEF Crash
<1>9. CASE UNCHANGED vars
  <2>1. UNCHANGED row /\ UNCHANGED proc
    BY <1>9 DEF vars, row, proc
  <2> QED
    BY <1>1, <2>1, NoTxFinishes, HoldingKept
<1> QED
  BY <1>2, <1>3, <1>4, <1>5, <1>6, <1>7, <1>8, <1>9 DEF Next

-----------------------------------------------------------------------------
(* Ledger: what a run leaves behind *)

Settled(r) ==
  /\ status[r] \notin Terminal => drafts[r] = <<>> /\ audit[r] = <<>>
  /\ drafts[r] = IF status[r] = "SOLVED" THEN <<retry[r]>> ELSE <<>>
  /\ audit[r] # <<>> => audit[r] = <<[attempt |-> retry[r], status |-> status[r]]>>
  /\ status[r] \in Outcomes \ {"FAILED"} => audit[r] # <<>>
  /\ status[r] = "SOLVED" => snap[r] = retry[r]

AllSettled == \A r \in Runs : Settled(r)

Ledger == AllSettled /\ SnapshotFirst

LEMMA InvParts == Inv <=> Shapes /\ Holding /\ Ledger
BY DEF Inv, Shapes, RowTypes, ProcTypes, TypeOK, AllOK, Holding, Ledger, AllSettled,
       Settled, UnfinishedClean, DraftIffSolved, AuditAgrees, SolvedSnapshotIsOwn

\* A run stays as it is but for its first snapshot, moves between statuses that
\* are not terminal, or ends without a result.
Untouched(r) ==
  /\ status'[r] = status[r] /\ retry'[r] = retry[r]
  /\ snap'[r] = snap[r] \/ snap[r] = NoSnap
  /\ drafts'[r] = drafts[r] /\ audit'[r] = audit[r]

Unfinished(r) ==
  /\ status[r] \notin Terminal
  /\ status'[r] \notin Terminal \/ status'[r] \in {"CANCELLED", "FAILED"}
  /\ drafts'[r] = drafts[r] /\ audit'[r] = audit[r]

LEMMA SettledKept ==
  ASSUME Shapes, NEW r \in Runs, Settled(r), Untouched(r) \/ Unfinished(r)
  PROVE  Settled(r)'
<1>1. CASE Untouched(r)
  <2>1. retry[r] # NoSnap
    BY DEF Shapes, RowTypes, Attempts, NoSnap
  <2> QED
    BY <1>1, <2>1 DEF Settled, Untouched
<1>2. CASE Unfinished(r)
  <2>1. drafts'[r] = <<>> /\ audit'[r] = <<>>
    BY <1>2 DEF Settled, Unfinished
  <2>2. status'[r] # "SOLVED" /\ status'[r] \notin Outcomes \ {"FAILED"}
    BY <1>2, TerminalFacts, StatusFacts DEF Unfinished
  <2> QED
    BY <2>1, <2>2 DEF Settled
<1> QED
  BY <1>1, <1>2

\* The commit of the worker in possession settles its run.
LEMMA TerminalTxSettles ==
  ASSUME Shapes, Holding, Ledger, NEW w \in Workers, Busy(w), TerminalTx(w),
         outcome[w] \in Outcomes,
         outcome[w] = "SOLVED" => snap[job[w]] = attempt[w]
  PROVE  AllSettled'
<1> SUFFICES ASSUME NEW j, j = job[w] PROVE AllSettled'
  OBVIOUS
<1>1. j \in Runs /\ status[j] = "RUNNING" /\ attempt[w] = retry[j]
  BY BusyShape DEF Shapes, TerminalTx, Owns, Holding, Possession
<1>2. drafts[j] = <<>> /\ audit[j] = <<>>
  BY <1>1, TerminalFacts DEF Ledger, AllSettled, Settled
<1>3. /\ status' = [status EXCEPT ![j] = outcome[w]]
      /\ drafts' = IF outcome[w] = "SOLVED"
                     THEN [drafts EXCEPT ![j] = Append(@, attempt[w])] ELSE drafts
      /\ audit' = [audit EXCEPT ![j] =
                     Append(@, [attempt |-> attempt[w], status |-> outcome[w]])]
      /\ UNCHANGED <<retry, snap>>
  BY DEF TerminalTx
<1>4. /\ status'[j] = outcome[w]
      /\ drafts'[j] = IF outcome[w] = "SOLVED" THEN <<attempt[w]>> ELSE <<>>
      /\ audit'[j] = <<[attempt |-> attempt[w], status |-> outcome[w]]>>
  BY <1>1, <1>2, <1>3 DEF Shapes, RowTypes
<1>5. Settled(j)'
  <2>1. outcome[w] \in Terminal
    BY TerminalFacts
  <2>2. audit'[j] # <<>>
    BY <1>4
  <2> QED
    BY <1>1, <1>3, <1>4, <2>1, <2>2 DEF Settled
<1>6. ASSUME NEW r \in Runs, r # j PROVE Settled(r)'
  <2>1. Untouched(r)
    BY <1>1, <1>3, <1>6 DEF Shapes, RowTypes, Untouched
  <2> QED
    BY <2>1, SettledKept DEF Ledger, AllSettled
<1> QED
  BY <1>5, <1>6 DEF AllSettled

\* Every worker that may commit SOLVED could do so before, and its run keeps
\* the snapshot.
NoNewSolution ==
  \A v \in Workers : pc'[v] = "committing" /\ outcome'[v] = "SOLVED" =>
    /\ pc[v] = "committing" /\ outcome[v] = "SOLVED"
    /\ job'[v] = job[v] /\ attempt'[v] = attempt[v]

SnapsKept == \A r \in Runs : snap'[r] = snap[r] \/ snap[r] = NoSnap

LEMMA SnapshotFirstKept ==
  ASSUME Shapes, SnapshotFirst, NoNewSolution, SnapsKept
  PROVE  SnapshotFirst'
<1> SUFFICES ASSUME NEW v \in Workers, pc'[v] = "committing", outcome'[v] = "SOLVED"
             PROVE  snap'[job'[v]] = attempt'[v]
  BY DEF SnapshotFirst
<1>1. /\ pc[v] = "committing" /\ outcome[v] = "SOLVED"
      /\ job'[v] = job[v] /\ attempt'[v] = attempt[v]
  BY DEF NoNewSolution
<1>2. snap[job[v]] = attempt[v] /\ job[v] \in Runs
  BY <1>1 DEF SnapshotFirst, Shapes, AllOK, WorkerOK, Busy
<1>3. attempt[v] # NoSnap
  BY DEF Shapes, ProcTypes, Attempts, NoSnap
<1> QED
  BY <1>1, <1>2, <1>3 DEF SnapsKept

LEMMA ReturnNoNewSolution ==
  ASSUME ProcTypes, NEW w \in Workers, Return(w) PROVE NoNewSolution
BY DEF ProcTypes, Return, Goto, NoNewSolution

LEMMA ExpectNoNewSolution ==
  ASSUME ProcTypes, NEW w \in Workers, NEW place, NEW s, Expect(w, place, s),
         UNCHANGED <<job, attempt>>, place # "committing" \/ s # "SOLVED"
  PROVE  NoNewSolution
BY DEF ProcTypes, Expect, Goto, NoNewSolution

LEMMA QuietSettled ==
  ASSUME Shapes, AllSettled, \A r \in Runs : Untouched(r) \/ Unfinished(r)
  PROVE  AllSettled' /\ (UNCHANGED snap => SnapsKept)
BY SettledKept DEF AllSettled, SnapsKept

LEMMA NoTxSettled ==
  ASSUME Shapes, AllSettled, UNCHANGED <<row, side>> PROVE AllSettled'
<1>1. \A r \in Runs : Untouched(r)
  BY DEF row, side, Untouched
<1> QED
  BY <1>1, QuietSettled

LEMMA LedgerStep == Shapes /\ Holding /\ Ledger /\ [Next]_vars => Ledger'
<1> SUFFICES ASSUME Shapes, Holding, Ledger, [Next]_vars PROVE Ledger'
  OBVIOUS
<1> USE DEF Ledger
<1>1. UNCHANGED proc => NoNewSolution
  BY DEF proc, NoNewSolution
<1>2. UNCHANGED side => SnapsKept
  BY DEF side, SnapsKept
<1>3. ProcTypes
  BY DEF Shapes
<1>4. ASSUME NEW r \in Runs, Request(r) \/ Clock(r) PROVE Ledger'
  <2>1. UNCHANGED side /\ UNCHANGED proc
    BY <1>4 DEF Request, CreateRun, Cancel, Clock, LeaseExpires, HeartbeatAges
  <2>2. \A q \in Runs : Untouched(q) \/ Unfinished(q)
    <3>1. CASE CreateRun(r)
      BY <3>1, TerminalFacts DEF CreateRun, side, Shapes, RowTypes, Untouched, Unfinished
    <3>2. CASE Cancel(r)
      BY <3>2, TerminalFacts DEF Cancel, side, Shapes, RowTypes, Untouched, Unfinished
    <3>3. CASE Clock(r)
      BY <3>3 DEF Clock, LeaseExpires, HeartbeatAges, side, Untouched
    <3> QED
      BY <1>4, <3>1, <3>2, <3>3 DEF Request
  <2> QED
    BY <1>1, <1>2, <2>1, <2>2, QuietSettled, SnapshotFirstKept
<1>5. ASSUME NEW w \in Workers, Claim(w) PROVE Ledger'
  <2>1. UNCHANGED side
    BY <1>5 DEF Claim, BeginClaim, CommitClaim, LoseClaim, AbortClaim, ClaimTx
  <2>2. NoNewSolution
    <3>1. CASE BeginClaim(w) \/ CommitClaim(w)
      BY <1>3, <3>1 DEF BeginClaim, CommitClaim, Goto, ProcTypes, NoNewSolution
    <3> QED
      BY <1>3, <1>5, <3>1, ReturnNoNewSolution DEF Claim, LoseClaim, AbortClaim
  <2>3. \A q \in Runs : Untouched(q) \/ Unfinished(q)
    <3>1. CASE BeginClaim(w) \/ AbortClaim(w)
      BY <3>1 DEF BeginClaim, AbortClaim, row, side, Untouched
    <3>2. CASE CommitClaim(w) \/ LoseClaim(w)
      <4>1. status[job[w]] = "QUEUED" /\ ClaimTx(w, job[w])
        BY <3>2 DEF CommitClaim, LoseClaim, Holding, ClaimsHold
      <4> QED
        BY <4>1, TerminalFacts
           DEF ClaimTx, side, Shapes, RowTypes, Untouched, Unfinished
    <3> QED
      BY <1>5, <3>1, <3>2 DEF Claim
  <2> QED
    BY <1>2, <2>1, <2>2, <2>3, QuietSettled, SnapshotFirstKept
<1>6. ASSUME NEW w \in Workers, Execute(w) PROVE Ledger'
  <2>1. Busy(w) /\ job[w] \in Runs
    BY <1>3, <1>6, BusyShape
       DEF Execute, ExecuteFails, ExecuteGivesUp, ExecuteUnsolved, ExecuteSolved, Shapes,
           PersistSnapshot, PersistFails, CommitResult, CommitFails, ReportOnce, Busy
  <2>2. CASE ExecuteFails(w) \/ ExecuteGivesUp(w) \/ ExecuteUnsolved(w) \/ ExecuteSolved(w)
    <3>1. NoNewSolution
      BY <1>3, <2>2, StatusFacts, ExpectNoNewSolution
         DEF ExecuteFails, ExecuteGivesUp, ExecuteUnsolved, ExecuteSolved
    <3>2. UNCHANGED <<row, side>>
      BY <2>2 DEF ExecuteFails, ExecuteGivesUp, ExecuteUnsolved, ExecuteSolved
    <3> QED
      BY <1>2, <3>1, <3>2, NoTxSettled, SnapshotFirstKept
  <2>3. CASE PersistSnapshot(w) \/ PersistFails(w)
    <3>1. /\ UNCHANGED <<row, drafts, audit>>
          /\ \/ snap[job[w]] = NoSnap /\ snap' = [snap EXCEPT ![job[w]] = attempt[w]]
             \/ UNCHANGED snap
      BY <2>3 DEF PersistSnapshot, PersistFails, InsertSnapshot
    <3>2. SnapsKept
      BY <3>1 DEF SnapsKept, Shapes, RowTypes
    <3>3. \A q \in Runs : Untouched(q)
      BY <3>1, <3>2 DEF row, SnapsKept, Untouched
    <3>4. AllSettled'
      BY <3>3, QuietSettled
    <3>5. SnapshotFirst'
      <4>1. CASE PersistFails(w)
        <5>1. NoNewSolution
          BY <1>3, <4>1, ExpectNoNewSolution DEF PersistFails
        <5> QED
          BY <3>2, <5>1, SnapshotFirstKept
      <4>2. CASE PersistSnapshot(w)
        <5>1. /\ snap'[job[w]] = attempt[w] /\ SnapsKept
              /\ UNCHANGED <<job, attempt, outcome>> /\ pc' = [pc EXCEPT ![w] = "committing"]
          BY <2>1, <3>2, <4>2
             DEF PersistSnapshot, InsertSnapshot, Goto, Shapes, RowTypes
        <5> SUFFICES ASSUME NEW v \in Workers, pc'[v] = "committing", outcome[v] = "SOLVED"
                     PROVE  snap'[job[v]] = attempt[v]
          BY <5>1 DEF SnapshotFirst
        <5>2. CASE v = w
          BY <5>1, <5>2
        <5>3. CASE v # w
          <6>1. snap[job[v]] = attempt[v] /\ job[v] \in Runs
            BY <1>3, <5>1, <5>3
               DEF ProcTypes, SnapshotFirst, Shapes, AllOK, WorkerOK, Busy
          <6>2. attempt[v] # NoSnap
            BY <1>3 DEF ProcTypes, Attempts, NoSnap
          <6> QED
            BY <5>1, <6>1, <6>2 DEF SnapsKept
        <5> QED
          BY <5>2, <5>3
      <4> QED
        BY <2>3, <4>1, <4>2
    <3> QED
      BY <3>4, <3>5
  <2>4. CASE CommitResult(w) \/ CommitFails(w) \/ ReportOnce(w)
    <3>1. outcome[w] \in Outcomes
      BY <1>3, <2>1, <2>4, BusyShape DEF Shapes, CommitResult, CommitFails, ReportOnce
    <3>2. outcome[w] = "SOLVED" => snap[job[w]] = attempt[w]
      BY <2>4
         DEF CommitResult, CommitFails, ReportOnce, SnapshotFirst, Shapes, AllOK, WorkerOK
    <3>3. TerminalTx(w) \/ UNCHANGED <<row, side>>
      BY <2>4 DEF CommitResult, CommitFails, ReportOnce, NoTx
    <3>4. AllSettled'
      BY <2>1, <3>1, <3>2, <3>3, TerminalTxSettles, NoTxSettled
    <3>5. SnapsKept
      BY <3>3 DEF TerminalTx, side, SnapsKept
    <3>6. NoNewSolution
      BY <1>3, <2>4, ExpectNoNewSolution, ReturnNoNewSolution
         DEF CommitResult, CommitFails, ReportOnce
    <3> QED
      BY <3>4, <3>5, <3>6, SnapshotFirstKept
  <2> QED
    BY <1>6, <2>2, <2>3, <2>4 DEF Execute
<1>7. ASSUME NEW w \in Workers, Heartbeat(w) PROVE Ledger'
  <2>1. \A q \in Runs : Untouched(q)
    BY <1>7 DEF Heartbeat, side, Untouched
  <2> QED
    BY <1>1, <1>2, <1>7, <2>1, QuietSettled, SnapshotFirstKept DEF Heartbeat
<1>8. ASSUME NEW w \in Workers, Reap(w) PROVE Ledger'
  <2>1. UNCHANGED side
    BY <1>8 DEF Reap, ReapRequeue, ReapFail, ReapAborts
  <2>2. NoNewSolution
    BY <1>3, <1>8 DEF Reap, ReapRequeue, ReapFail, ReapAborts, Goto, ProcTypes, NoNewSolution
  <2>3. \A q \in Runs : Untouched(q) \/ Unfinished(q)
    <3>1. CASE ReapRequeue(w)
      BY <2>1, <3>1, TerminalFacts DEF ReapRequeue, Expired, side, Untouched, Unfinished
    <3>2. CASE ReapFail(w)
      BY <2>1, <3>2, TerminalFacts DEF ReapFail, Expired, side, Untouched, Unfinished
    <3>3. CASE ReapAborts(w)
      BY <3>3 DEF ReapAborts, row, side, Untouched
    <3> QED
      BY <1>8, <3>1, <3>2, <3>3 DEF Reap
  <2> QED
    BY <1>2, <2>1, <2>2, <2>3, QuietSettled, SnapshotFirstKept
<1>9. ASSUME NEW w \in Workers, Crash(w) PROVE Ledger'
  BY <1>2, <1>3, <1>9, ReturnNoNewSolution, NoTxSettled, SnapshotFirstKept DEF Crash
<1>10. CASE UNCHANGED vars
  <2>1. UNCHANGED <<row, side>> /\ UNCHANGED side /\ UNCHANGED proc
    BY <1>10 DEF vars, row, side, proc
  <2> QED
    BY <1>1, <1>2, <2>1, NoTxSettled, SnapshotFirstKept
<1> QED
  BY <1>4, <1>5, <1>6, <1>7, <1>8, <1>9, <1>10 DEF Next

-----------------------------------------------------------------------------
(* The invariants *)

LEMMA InvInit == Init => Inv
<1> SUFFICES ASSUME Init PROVE Inv
  OBVIOUS
<1>1. Holding
  BY DEF Init, Holding, ClaimsHold, Possession, OneWorkerPerAttempt, Busy
<1>2. Ledger
  BY TerminalFacts, StatusFacts DEF Init, Ledger, AllSettled, Settled, SnapshotFirst
<1> QED
  BY <1>1, <1>2, ShapesInit, InvParts

LEMMA InvStep == Inv /\ [Next]_vars => Inv'
<1>1. (Shapes /\ Holding /\ Ledger)' => Inv'
  BY InvParts, PTL
<1> QED
  BY <1>1, InvParts, ShapesStep, HoldingStep, LedgerStep

\* The inductive invariant holds in every reachable state.
THEOREM Invariance == Spec => []Inv
BY InvInit, InvStep, PTL DEF Spec

\* An attempt at a run is executed by at most one worker, at any time, although
\* workers stop, leases expire and claims are lost.
THEOREM AttemptHasOneWorker == Spec => []OneWorkerPerAttempt
<1>1. Inv => OneWorkerPerAttempt
  BY DEF Inv
<1> QED
  BY <1>1, Invariance, PTL

\* A run has a draft version exactly when it is SOLVED: the draft is written by the
\* transaction that makes it so.
THEOREM DraftsFollowSolved == Spec => []DraftIffSolved
<1>1. Inv => DraftIffSolved
  BY DEF Inv
<1> QED
  BY <1>1, Invariance, PTL

\* A run has at most one audit event, and it names the attempt and the status the row
\* ended with.
THEOREM AuditsAgree == Spec => []AuditAgrees
<1>1. Inv => AuditAgrees
  BY DEF Inv
<1> QED
  BY <1>1, Invariance, PTL

\* The engine snapshot of a SOLVED run was stored by the attempt that solved it, although
\* it is inserted before the transaction and without asking who owns the run.
THEOREM SolvedSnapshotsAreOwn == Spec => []SolvedSnapshotIsOwn
<1>1. Inv => SolvedSnapshotIsOwn
  BY DEF Inv
<1> QED
  BY <1>1, Invariance, PTL

-----------------------------------------------------------------------------
(* A finished run stays as it is *)

FrozenRun(r) ==
  status[r] \in Terminal =>
    /\ status'[r] = status[r] /\ retry'[r] = retry[r] /\ owner'[r] = owner[r]
    /\ drafts'[r] = drafts[r] /\ audit'[r] = audit[r]

\* What a step does to the rows: nothing, or a change of runs that are not
\* finished.
LEMMA RowSteps ==
  ASSUME Inv, [Next]_vars
  PROVE  \/ UNCHANGED <<status, retry, owner, drafts, audit>>
         \/ \E r \in Runs : CreateRun(r) \/ Cancel(r)
         \/ \E w \in Workers : /\ job[w] \in Runs /\ status[job[w]] = "QUEUED"
                               /\ ClaimTx(w, job[w])
         \/ \E w \in Workers : /\ Busy(w) /\ job[w] \in Runs /\ outcome[w] \in Outcomes
                               /\ TerminalTx(w)
         \/ \E w \in Workers : ReapRequeue(w) \/ ReapFail(w)
<1> USE DEF row, side
<1>1. ASSUME NEW w \in Workers, CommitClaim(w) \/ LoseClaim(w)
      PROVE  job[w] \in Runs /\ status[job[w]] = "QUEUED" /\ ClaimTx(w, job[w])
  BY <1>1 DEF CommitClaim, LoseClaim, Inv, ClaimsHold, WorkerOK
<1>2. ASSUME NEW w \in Workers, CommitResult(w) \/ CommitFails(w) \/ ReportOnce(w)
      PROVE  \/ UNCHANGED <<row, side>>
             \/ Busy(w) /\ job[w] \in Runs /\ outcome[w] \in Outcomes /\ TerminalTx(w)
  BY <1>2 DEF CommitResult, CommitFails, ReportOnce, NoTx, Inv, WorkerOK, Busy
<1>3. ASSUME NEW w \in Workers, Claim(w)
      PROVE  CommitClaim(w) \/ LoseClaim(w) \/ UNCHANGED <<row, side>>
  BY <1>3 DEF Claim, BeginClaim, AbortClaim
<1>4. ASSUME NEW w \in Workers, Execute(w)
      PROVE  \/ CommitResult(w) \/ CommitFails(w) \/ ReportOnce(w)
             \/ UNCHANGED <<row, drafts, audit>>
  BY <1>4 DEF Execute, ExecuteFails, ExecuteGivesUp, ExecuteUnsolved, ExecuteSolved,
              PersistSnapshot, PersistFails
<1>5. ASSUME NEW w \in Workers, Heartbeat(w) \/ Reap(w) \/ Crash(w)
      PROVE  ReapRequeue(w) \/ ReapFail(w)
             \/ UNCHANGED <<status, retry, owner, drafts, audit>>
  BY <1>5 DEF Heartbeat, Reap, ReapAborts, Crash
<1>6. ASSUME NEW r \in Runs, Request(r) \/ Clock(r)
      PROVE  CreateRun(r) \/ Cancel(r) \/ UNCHANGED <<status, retry, owner, drafts, audit>>
  BY <1>6 DEF Request, Clock, LeaseExpires, HeartbeatAges
<1>7. CASE UNCHANGED vars
  BY <1>7 DEF vars
<1> QED
  BY <1>1, <1>2, <1>3, <1>4, <1>5, <1>6, <1>7 DEF Next

LEMMA FrozenStep ==
  ASSUME Inv, [Next]_vars, NEW r \in Runs
  PROVE  FrozenRun(r)
<1> USE TerminalFacts DEF FrozenRun
<1>1. status \in [Runs -> Statuses] /\ drafts \in [Runs -> Seq(Attempts)]
      /\ audit \in [Runs -> Seq(Event)] /\ owner \in [Runs -> Workers \cup {NoWorker}]
  BY DEF Inv, TypeOK
<1>2. CASE UNCHANGED <<status, retry, owner, drafts, audit>>
  BY <1>2
<1>3. ASSUME NEW q \in Runs, CreateRun(q) \/ Cancel(q) PROVE FrozenRun(r)
  BY <1>1, <1>3 DEF CreateRun, Cancel, side
<1>4. ASSUME NEW w \in Workers, job[w] \in Runs, status[job[w]] = "QUEUED", ClaimTx(w, job[w])
      PROVE  FrozenRun(r)
  BY <1>1, <1>4 DEF ClaimTx, side
<1>5. ASSUME NEW w \in Workers, job[w] \in Runs, TerminalTx(w) PROVE FrozenRun(r)
  BY <1>1, <1>5 DEF TerminalTx, Owns
<1>6. ASSUME NEW w \in Workers, ReapRequeue(w) \/ ReapFail(w) PROVE FrozenRun(r)
  BY <1>6 DEF ReapRequeue, ReapFail, Expired, side
<1> QED
  BY <1>2, <1>3, <1>4, <1>5, <1>6, RowSteps

\* A run in a terminal status is never changed again, and no draft or audit
\* event is added for it.
THEOREM FinishedStaysFinished == Spec => TerminalFrozen
<1>1. Inv /\ [Next]_vars =>
        [\A r \in Runs : status[r] \in Terminal =>
           /\ status'[r] = status[r]
           /\ retry'[r]  = retry[r]
           /\ owner'[r]  = owner[r]
           /\ drafts'[r] = drafts[r]
           /\ audit'[r]  = audit[r]]_vars
  BY FrozenStep DEF FrozenRun
<1> QED
  BY <1>1, Invariance, PTL DEF Spec, TerminalFrozen

-----------------------------------------------------------------------------
(* The refinement *)

PhaseMap  == [r \in Runs |-> PhaseOf(r)]
WinnerMap == [r \in Runs |-> WinnerOf(r)]

LEMMA MapFacts ==
  ASSUME Inv, NEW r \in Runs
  PROVE  /\ status[r] = "NONE"      => PhaseOf(r) = "none"
         /\ status[r] = "QUEUED"    => PhaseOf(r) = "queued"
         /\ status[r] = "RUNNING"   => PhaseOf(r) = "running"
         /\ status[r] = "CANCELLED" => PhaseOf(r) = "cancelled"
         /\ status[r] \in Outcomes  =>
              PhaseOf(r) = IF audit[r] = <<>> THEN "lost" ELSE status[r]
         /\ audit[r] = <<>> => WinnerOf(r) = NoSnap
         /\ audit[r] # <<>> => WinnerOf(r) = retry[r]
<1>1. audit[r] # <<>> =>
        audit[r] = <<[attempt |-> retry[r], status |-> status[r]]>>
  BY DEF Inv, AuditAgrees
<1>2. audit[r] # <<>> => audit[r][Len(audit[r])].attempt = retry[r]
  BY <1>1
<1>3. status[r] \in Outcomes => status[r] \notin {"NONE", "QUEUED", "RUNNING", "CANCELLED"}
  BY TerminalFacts
<1> QED
  BY <1>2, <1>3 DEF PhaseOf, WinnerOf

Finished ==
  \A r \in Runs :
    /\ status[r] \in Outcomes =>
         PhaseOf(r) = IF audit[r] = <<>> THEN "lost" ELSE status[r]
    /\ audit[r] # <<>> => WinnerOf(r) = retry[r]

LEMMA MapFinished == Inv => Finished
BY MapFacts DEF Finished

\* A run whose row and audit stay keeps its image.
LEMMA ImageKept ==
  ASSUME NEW r \in Runs, status'[r] = status[r], audit'[r] = audit[r]
  PROVE  PhaseOf(r)' = PhaseOf(r) /\ WinnerOf(r)' = WinnerOf(r)
BY DEF PhaseOf, WinnerOf

LEMMA OneImageChanges ==
  ASSUME NEW q \in Runs, \A r \in Runs \ {q} : status'[r] = status[r] /\ audit'[r] = audit[r]
  PROVE  /\ PhaseMap' = [PhaseMap EXCEPT ![q] = PhaseOf(q)']
         /\ WinnerMap' = [WinnerMap EXCEPT ![q] = WinnerOf(q)']
         /\ WinnerOf(q)' = WinnerOf(q) => WinnerMap' = WinnerMap
BY ImageKept DEF PhaseMap, WinnerMap

LEMMA RefineInit == Init => Lifecycle!Init
<1> SUFFICES ASSUME Init PROVE Lifecycle!Init
  OBVIOUS
<1>1. \A r \in Runs : status[r] = "NONE" /\ audit[r] = <<>> /\ retry[r] = 0
  BY DEF Init
<1>2. \A r \in Runs : PhaseOf(r) = "none" /\ WinnerOf(r) = NoSnap
  BY <1>1 DEF PhaseOf, WinnerOf
<1> QED
  BY <1>1, <1>2 DEF Lifecycle!Init, Lifecycle!NoAttempt, NoSnap, Init

LEMMA RefineStep ==
  ASSUME Inv, Inv', [Next]_vars
  PROVE  [Lifecycle!Next]_(Lifecycle!vars)
<1> USE DEF PhaseMap, WinnerMap
<1>1. /\ status \in [Runs -> Statuses] /\ audit \in [Runs -> Seq(Event)]
      /\ retry \in [Runs -> Attempts]
      /\ \A r \in Runs : status[r] \notin Terminal => audit[r] = <<>>
  BY DEF Inv, TypeOK, UnfinishedClean
<1>2. CASE UNCHANGED <<status, retry, owner, drafts, audit>>
  BY <1>2, ImageKept DEF Lifecycle!vars
<1>3. ASSUME NEW q \in Runs, CreateRun(q) PROVE Lifecycle!Submit(q)
  <2>1. /\ \A r \in Runs \ {q} : status'[r] = status[r] /\ audit'[r] = audit[r]
        /\ status[q] = "NONE" /\ status'[q] = "QUEUED" /\ audit'[q] = audit[q]
        /\ UNCHANGED retry
    BY <1>1, <1>3 DEF CreateRun, side
  <2>2. PhaseOf(q) = "none" /\ PhaseOf(q)' = "queued" /\ WinnerOf(q)' = WinnerOf(q)
    BY <2>1 DEF PhaseOf, WinnerOf
  <2> QED
    BY <2>1, <2>2, OneImageChanges DEF Lifecycle!Submit, Lifecycle!Move
<1>4. ASSUME NEW q \in Runs, Cancel(q) PROVE Lifecycle!Withdraw(q)
  <2>1. /\ \A r \in Runs \ {q} : status'[r] = status[r] /\ audit'[r] = audit[r]
        /\ status[q] \in {"QUEUED", "RUNNING"} /\ status'[q] = "CANCELLED"
        /\ audit'[q] = audit[q] /\ UNCHANGED retry
    BY <1>1, <1>4 DEF Cancel, side
  <2>2. PhaseOf(q) \in {"queued", "running"} /\ PhaseOf(q)' = "cancelled"
        /\ WinnerOf(q)' = WinnerOf(q)
    BY <2>1 DEF PhaseOf, WinnerOf
  <2> QED
    BY <2>1, <2>2, OneImageChanges DEF Lifecycle!Withdraw, Lifecycle!Move
<1>5. ASSUME NEW w \in Workers, job[w] \in Runs, status[job[w]] = "QUEUED", ClaimTx(w, job[w])
      PROVE  \E r \in Runs : Lifecycle!Start(r)
  <2> SUFFICES ASSUME NEW q \in Runs, q = job[w] PROVE Lifecycle!Start(q)
    BY <1>5
  <2>1. /\ \A r \in Runs \ {q} : status'[r] = status[r] /\ audit'[r] = audit[r]
        /\ status[q] = "QUEUED" /\ status'[q] = "RUNNING" /\ audit'[q] = audit[q]
        /\ UNCHANGED retry
    BY <1>1, <1>5 DEF ClaimTx, side
  <2>2. PhaseOf(q) = "queued" /\ PhaseOf(q)' = "running" /\ WinnerOf(q)' = WinnerOf(q)
    BY <2>1 DEF PhaseOf, WinnerOf
  <2> QED
    BY <2>1, <2>2, OneImageChanges DEF Lifecycle!Start, Lifecycle!Move
<1>6. ASSUME NEW w \in Workers, Busy(w), job[w] \in Runs, outcome[w] \in Outcomes, TerminalTx(w)
      PROVE  \E r \in Runs, s \in Outcomes : Lifecycle!Finish(r, s)
  <2> SUFFICES ASSUME NEW q \in Runs, q = job[w], NEW s \in Outcomes, s = outcome[w]
               PROVE  Lifecycle!Finish(q, s)
    BY <1>6
  <2>1. /\ \A r \in Runs \ {q} : status'[r] = status[r] /\ audit'[r] = audit[r]
        /\ status[q] = "RUNNING" /\ status'[q] = s /\ UNCHANGED retry
    BY <1>1, <1>6 DEF TerminalTx, Owns
  <2>2. audit'[q] # <<>>
    <3>1. audit[q] = <<>>
      BY <1>1, <2>1, TerminalFacts
    <3>2. audit'[q] = <<[attempt |-> attempt[w], status |-> outcome[w]]>>
      BY <1>1, <1>6, <3>1 DEF TerminalTx
    <3> QED
      BY <3>2
  <2>3. PhaseOf(q) = "running"
    BY <2>1, MapFacts
  <2>4. PhaseOf(q)' = s /\ WinnerOf(q)' = retry[q]
    <3>1. Finished'
      BY MapFinished, PTL
    <3> QED
      BY <2>1, <2>2, <3>1 DEF Finished
  <2> QED
    BY <2>1, <2>3, <2>4, OneImageChanges DEF Lifecycle!Finish, Lifecycle!Move
<1>7. ASSUME NEW w \in Workers, ReapRequeue(w)
      PROVE  \E S \in SUBSET Runs : Lifecycle!TakeBack(S)
  <2> DEFINE S == {r \in Runs : Expired(r) /\ Retriable(r)}
  <2>1. /\ \A r \in S : status[r] = "RUNNING" /\ retry[r] < MaxRetries /\ status'[r] = "QUEUED"
        /\ \A r \in Runs \ S : status'[r] = status[r]
        /\ retry' = [r \in Runs |-> IF r \in S THEN retry[r] + 1 ELSE retry[r]]
        /\ UNCHANGED audit
    BY <1>7 DEF ReapRequeue, Expired, Retriable, side
  <2>2. \A r \in S : PhaseOf(r) = "running" /\ PhaseOf(r)' = "queued"
    BY <2>1 DEF PhaseOf
  <2>3. \A r \in Runs : (r \notin S => PhaseOf(r)' = PhaseOf(r)) /\ WinnerOf(r)' = WinnerOf(r)
    BY <2>1 DEF PhaseOf, WinnerOf
  <2>4. Lifecycle!TakeBack(S)
    BY <2>1, <2>2, <2>3 DEF Lifecycle!TakeBack
  <2> QED
    BY <2>4
<1>8. ASSUME NEW w \in Workers, ReapFail(w)
      PROVE  \E S \in SUBSET Runs : Lifecycle!GiveUp(S)
  <2> DEFINE S == {r \in Runs : Expired(r) /\ Spent(r)}
  <2>1. /\ \A r \in S : status[r] = "RUNNING" /\ retry[r] = MaxRetries /\ status'[r] = "FAILED"
        /\ \A r \in Runs \ S : status'[r] = status[r]
        /\ UNCHANGED <<retry, audit>>
    <3>1. \A r \in S : retry[r] = MaxRetries
      BY <1>1, NumberFacts DEF Spent, Attempts
    <3> QED
      BY <1>8, <3>1 DEF ReapFail, Expired, side
  <2>2. \A r \in S : PhaseOf(r) = "running" /\ PhaseOf(r)' = "lost"
    BY <1>1, <2>1, TerminalFacts DEF PhaseOf
  <2>3. \A r \in Runs : (r \notin S => PhaseOf(r)' = PhaseOf(r)) /\ WinnerOf(r)' = WinnerOf(r)
    BY <2>1 DEF PhaseOf, WinnerOf
  <2>4. Lifecycle!GiveUp(S)
    BY <2>1, <2>2, <2>3 DEF Lifecycle!GiveUp
  <2> QED
    BY <2>4
<1> QED
  BY <1>2, <1>3, <1>4, <1>5, <1>6, <1>7, <1>8, RowSteps DEF Lifecycle!Next

\* The queue with its workers, crashes, leases and lost answers implements the
\* life cycle of a run: only the attempt in possession finishes it.
THEOREM Refinement == Spec => ImplementsLifecycle
<1>1. Spec => []Inv
  BY Invariance
<1> QED
  BY <1>1, RefineInit, RefineStep, PTL DEF Spec, ImplementsLifecycle, Lifecycle!Spec
=============================================================================
