------------------------------ MODULE RunQueue ------------------------------
(***************************************************************************)
(* The asynchronous solver queue of the timetable platform: the table      *)
(* schedule_runs, the workers that claim, execute and finish its rows      *)
(* (internal/worker, internal/asyncrun), the reaper that takes back rows   *)
(* whose lease ran out, and the requests that create and cancel runs.      *)
(*                                                                         *)
(* Every action is one database statement or transaction, or one step of a *)
(* worker between two of them.  A worker process is one goroutine: it      *)
(* claims, executes and reaps in turn, and never holds two runs.  A        *)
(* statement can fail, can succeed without the worker learning of it, and  *)
(* the process can stop between any two of them.                           *)
(*                                                                         *)
(* Abstractions: time is the pair of events LeaseExpires and               *)
(* HeartbeatAges, and is forgotten for a row that is not RUNNING, whose    *)
(* two timestamps no statement reads; the result, score and diagnostics    *)
(* columns are left out; a run's number gives the order of created_at; an  *)
(* attempt is named by the retry_count its claim returned (drafts, audit   *)
(* and snap remember it as history).                                       *)
(***************************************************************************)
EXTENDS Naturals, Sequences

CONSTANTS
  NumRuns,      \* number of rows schedule_runs may come to hold
  Workers,      \* worker processes, standalone or embedded in the server
  NoWorker,     \* NULL in the column worker_id
  MaxRetries    \* Worker.maxRetries

ASSUME NumRunsAssumption    == NumRuns \in Nat
ASSUME WorkersAssumption    == NoWorker \notin Workers
ASSUME MaxRetriesAssumption == MaxRetries \in Nat

Runs     == 1..NumRuns
Attempts == 0..MaxRetries
NoSnap   == MaxRetries + 1     \* no row of engine_snapshots for the run

\* What asyncrun.Execute can hand to commitHook.  CANCELLED and
\* DEADLINE_EXCEEDED need a context that ends, and the worker's ends only when
\* the process stops, when nothing more reaches the database.
Unsolved == {"INFEASIBLE", "INVALID_PROBLEM", "INVALID_RESULT", "NODE_LIMIT"}
Dropped  == {"INVALID_PROBLEM", "FAILED"}
Outcomes == {"SOLVED", "FAILED"} \cup Unsolved
Terminal == Outcomes \cup {"CANCELLED"}
Statuses == {"NONE", "QUEUED", "RUNNING"} \cup Terminal

VARIABLES
  status,    \* the column status of each run; "NONE" before the row exists
  retry,     \* retry_count
  owner,     \* worker_id
  lapsed,    \* running runs whose lease_expires_at has passed
  fresh,     \* running runs whose heartbeat_at is at most 120 seconds old
  snap,      \* the attempt whose row engine_snapshots holds for the run
  drafts,    \* attempts that inserted a DRAFT version of the run, in order
  audit,     \* completion audit events of the run, in order
  pc,        \* where each worker is
  job,       \* the run it works on, 0 if none
  attempt,   \* the retry_count its claim returned
  outcome    \* the status it is about to commit

row  == <<status, retry, owner, lapsed, fresh>>
side == <<snap, drafts, audit>>
proc == <<pc, job, attempt, outcome>>
vars == <<status, retry, owner, lapsed, fresh, snap, drafts, audit,
          pc, job, attempt, outcome>>

Places == {"idle", "claiming", "executing", "persisting", "committing",
           "reporting", "failing", "reaping"}

Event == [attempt : Attempts, status : Outcomes]

TypeOK ==
  /\ status  \in [Runs -> Statuses]
  /\ retry   \in [Runs -> Attempts]
  /\ owner   \in [Runs -> Workers \cup {NoWorker}]
  /\ lapsed  \in SUBSET Runs
  /\ fresh   \in SUBSET Runs
  /\ snap    \in [Runs -> Attempts \cup {NoSnap}]
  /\ drafts  \in [Runs -> Seq(Attempts)]
  /\ audit   \in [Runs -> Seq(Event)]
  /\ pc      \in [Workers -> Places]
  /\ job     \in [Workers -> Runs \cup {0}]
  /\ attempt \in [Workers -> Attempts]
  /\ outcome \in [Workers -> Outcomes \cup {"none"}]

Init ==
  /\ status  = [r \in Runs |-> "NONE"]
  /\ retry   = [r \in Runs |-> 0]
  /\ owner   = [r \in Runs |-> NoWorker]
  /\ lapsed  = {}
  /\ fresh   = {}
  /\ snap    = [r \in Runs |-> NoSnap]
  /\ drafts  = [r \in Runs |-> <<>>]
  /\ audit   = [r \in Runs |-> <<>>]
  /\ pc      = [w \in Workers |-> "idle"]
  /\ job     = [w \in Workers |-> 0]
  /\ attempt = [w \in Workers |-> 0]
  /\ outcome = [w \in Workers |-> "none"]

-----------------------------------------------------------------------------
(* Requests *)

\* The runs of S are not RUNNING any more.
StopClocks(S) ==
  /\ lapsed' = lapsed \ S
  /\ fresh'  = fresh \ S

\* The INSERT of CreateRun.  Requests race: a row with a later created_at may
\* become visible first.
CreateRun(r) ==
  /\ status[r] = "NONE"
  /\ status' = [status EXCEPT ![r] = "QUEUED"]
  /\ UNCHANGED <<retry, owner, lapsed, fresh, side, proc>>

\* Mutant: the claim does not lock the row it selects.
LockedByNobody(r) == FALSE

\* The row is locked by a claim that has not committed.
Locked(r) == \E w \in Workers : pc[w] = "claiming" /\ job[w] = r

\* Mutant: the UPDATE of Cancel does not look at the status.
CancelAny(r) ==
  /\ status[r] # "NONE"
  /\ ~Locked(r)
  /\ status' = [status EXCEPT ![r] = "CANCELLED"]
  /\ StopClocks({r})
  /\ UNCHANGED <<retry, owner, side, proc>>

\* The UPDATE of Cancel waits for a row lock, then checks the status again; no
\* worker is told, and the reads around it in CancelRun change nothing.
Cancel(r) ==
  /\ status[r] \in {"QUEUED", "RUNNING"}
  /\ ~Locked(r)
  /\ status' = [status EXCEPT ![r] = "CANCELLED"]
  /\ StopClocks({r})
  /\ UNCHANGED <<retry, owner, side, proc>>

-----------------------------------------------------------------------------
(* Claiming *)

Claimable(r) == status[r] = "QUEUED" /\ ~Locked(r)
Oldest(r)    == Claimable(r) /\ \A q \in Runs : Claimable(q) => r <= q

Goto(w, place) == pc' = [pc EXCEPT ![w] = place]

\* The worker forgets its run and waits for the next tick.
Return(w) ==
  /\ Goto(w, "idle")
  /\ job'     = [job EXCEPT ![w] = 0]
  /\ attempt' = [attempt EXCEPT ![w] = 0]
  /\ outcome' = [outcome EXCEPT ![w] = "none"]

\* SELECT ... FOR UPDATE SKIP LOCKED: the oldest row no other claim holds.
BeginClaim(w) ==
  /\ pc[w] = "idle"
  /\ \E r \in Runs : Oldest(r) /\ job' = [job EXCEPT ![w] = r]
  /\ Goto(w, "claiming")
  /\ UNCHANGED <<row, side, attempt, outcome>>

\* The UPDATE around it becomes visible; a new lease starts.
ClaimTx(w, r) ==
  /\ status' = [status EXCEPT ![r] = "RUNNING"]
  /\ owner'  = [owner EXCEPT ![r] = w]
  /\ fresh'  = fresh \cup {r}
  /\ UNCHANGED <<retry, lapsed, side>>

CommitClaim(w) ==
  /\ pc[w] = "claiming"
  /\ ClaimTx(w, job[w])
  /\ Goto(w, "executing")
  /\ attempt' = [attempt EXCEPT ![w] = retry[job[w]]]
  /\ UNCHANGED <<job, outcome>>

\* The server commits but the worker sees an error and drops the run.
LoseClaim(w) ==
  /\ pc[w] = "claiming"
  /\ ClaimTx(w, job[w])
  /\ Return(w)

AbortClaim(w) ==
  /\ pc[w] = "claiming"
  /\ Return(w)
  /\ UNCHANGED <<row, side>>

-----------------------------------------------------------------------------
(* Executing *)

Expect(w, place, s) ==
  /\ Goto(w, place)
  /\ outcome' = [outcome EXCEPT ![w] = s]

\* The snapshot cannot be loaded, or Execute panics.
ExecuteFails(w) ==
  /\ pc[w] = "executing"
  /\ Expect(w, "failing", "FAILED")
  /\ UNCHANGED <<row, side, job, attempt>>

\* Compilation fails, or Solve fails without a status: Execute calls
\* commitHook and drops its error.
ExecuteGivesUp(w) ==
  /\ pc[w] = "executing"
  /\ \E s \in Dropped : Expect(w, "reporting", s)
  /\ UNCHANGED <<row, side, job, attempt>>

\* The engine ends without a solution, or with one that verification rejects.
ExecuteUnsolved(w) ==
  /\ pc[w] = "executing"
  /\ \E s \in Unsolved : Expect(w, "committing", s)
  /\ UNCHANGED <<row, side, job, attempt>>

\* The engine solves the problem and verification accepts the solution.
ExecuteSolved(w) ==
  /\ pc[w] = "executing"
  /\ Expect(w, "persisting", "SOLVED")
  /\ UNCHANGED <<row, side, job, attempt>>

\* Mutant: INSERT ... ON CONFLICT DO NOTHING.
InsertSnapshotOrKeep(w) ==
  snap' = IF snap[job[w]] = NoSnap THEN [snap EXCEPT ![job[w]] = attempt[w]] ELSE snap

\* EngineSnapshots.Create: an insert under the unique index on
\* schedule_run_id, outside the final transaction and without a look at the
\* owner of the run.
InsertSnapshot(w) ==
  /\ snap[job[w]] = NoSnap
  /\ snap' = [snap EXCEPT ![job[w]] = attempt[w]]

PersistSnapshot(w) ==
  /\ pc[w] = "persisting"
  /\ InsertSnapshot(w)
  /\ Goto(w, "committing")
  /\ UNCHANGED <<row, drafts, audit, job, attempt, outcome>>

\* A row is there already, the statement fails, or its answer is lost.
PersistFails(w) ==
  /\ pc[w] = "persisting"
  /\ InsertSnapshot(w) \/ UNCHANGED snap
  /\ Expect(w, "failing", "FAILED")
  /\ UNCHANGED <<row, drafts, audit, job, attempt>>

-----------------------------------------------------------------------------
(* Finishing: CommitTerminalResultTx, from commitHook or from failRun *)

\* Mutant: the UPDATE looks at the status alone.
OwnsRunning(w) == status[job[w]] = "RUNNING"

\* Mutant: the UPDATE looks at worker_id alone.
OwnsWhatever(w) == owner[job[w]] = w

Owns(w) == status[job[w]] = "RUNNING" /\ owner[job[w]] = w

\* One transaction: the guarded UPDATE, the draft version of a solved run with
\* its assignments, the audit event.
TerminalTx(w) ==
  /\ Owns(w)
  /\ status' = [status EXCEPT ![job[w]] = outcome[w]]
  /\ drafts' = IF outcome[w] = "SOLVED"
                 THEN [drafts EXCEPT ![job[w]] = Append(@, attempt[w])]
                 ELSE drafts
  /\ audit'  = [audit EXCEPT ![job[w]] =
                  Append(@, [attempt |-> attempt[w], status |-> outcome[w]])]
  /\ StopClocks({job[w]})
  /\ UNCHANGED <<retry, owner, snap>>

\* ErrStaleWorker, or an error that rolls the transaction back.
NoTx == UNCHANGED <<row, side>>

CommitResult(w) ==
  /\ pc[w] = "committing"
  /\ TerminalTx(w)
  /\ Return(w)

\* Any error of the commit, one that only hides its success included, makes
\* Execute fail and the worker call failRun.
CommitFails(w) ==
  /\ pc[w] = "committing"
  /\ TerminalTx(w) \/ NoTx
  /\ Expect(w, "failing", "FAILED")
  /\ UNCHANGED <<job, attempt>>

\* The commit whose error Execute drops, and failRun: both are tried once.
ReportOnce(w) ==
  /\ pc[w] \in {"reporting", "failing"}
  /\ TerminalTx(w) \/ NoTx
  /\ Return(w)

-----------------------------------------------------------------------------
(* Heartbeats, leases and the reaper *)

Busy(w) == pc[w] \notin {"idle", "claiming", "reaping"}

\* The ticker of the goroutine that runs beside execute: lease_expires_at is
\* not touched.
Heartbeat(w) ==
  /\ Busy(w)
  /\ Owns(w)
  /\ fresh' = fresh \cup {job[w]}
  /\ UNCHANGED <<status, retry, owner, lapsed, side, proc>>

HeartbeatAges(r) ==
  /\ r \in fresh
  /\ fresh' = fresh \ {r}
  /\ UNCHANGED <<status, retry, owner, lapsed, side, proc>>

\* The clock passes lease_expires_at of a running row.
LeaseExpires(r) ==
  /\ status[r] = "RUNNING"
  /\ r \notin lapsed
  /\ lapsed' = lapsed \cup {r}
  /\ UNCHANGED <<status, retry, owner, fresh, side, proc>>

\* Mutants: one retry too many, and a last attempt that is never given up.
RetriableOnceMore(r) == retry[r] <= MaxRetries
SpentTooLate(r)      == retry[r] > MaxRetries

Retriable(r) == retry[r] < MaxRetries
Spent(r)     == retry[r] >= MaxRetries

Expired(r) == status[r] = "RUNNING" /\ r \in lapsed

\* RecoverExpired, first statement: every expired run that has retries left
\* goes back to the queue.  If it fails the reaper skips the second one.
ReapRequeue(w) ==
  LET back == {r \in Runs : Expired(r) /\ Retriable(r)} IN
  /\ pc[w] = "idle"
  /\ status' = [r \in Runs |-> IF r \in back THEN "QUEUED" ELSE status[r]]
  /\ retry'  = [r \in Runs |-> IF r \in back THEN retry[r] + 1 ELSE retry[r]]
  /\ owner'  = [r \in Runs |-> IF r \in back THEN NoWorker ELSE owner[r]]
  /\ StopClocks(back)
  /\ pc' \in {[pc EXCEPT ![w] = "reaping"], pc}
  /\ UNCHANGED <<side, job, attempt, outcome>>

\* Second statement: every other expired run fails.
ReapFail(w) ==
  LET lost == {r \in Runs : Expired(r) /\ Spent(r)} IN
  /\ pc[w] = "reaping"
  /\ status' = [r \in Runs |-> IF r \in lost THEN "FAILED" ELSE status[r]]
  /\ StopClocks(lost)
  /\ Goto(w, "idle")
  /\ UNCHANGED <<retry, owner, side, job, attempt, outcome>>

ReapAborts(w) ==
  /\ pc[w] = "reaping"
  /\ Goto(w, "idle")
  /\ UNCHANGED <<row, side, job, attempt, outcome>>

\* The process stops, on a signal or by a crash, and a new one takes its place.
\* A stop on a signal cancels the context of every later statement.
Crash(w) ==
  /\ Busy(w)
  /\ Return(w)
  /\ UNCHANGED <<row, side>>

-----------------------------------------------------------------------------
Request(r) == CreateRun(r) \/ Cancel(r)

Claim(w)   == BeginClaim(w) \/ CommitClaim(w) \/ LoseClaim(w) \/ AbortClaim(w)

Execute(w) == \/ ExecuteFails(w)
              \/ ExecuteGivesUp(w)
              \/ ExecuteUnsolved(w)
              \/ ExecuteSolved(w)
              \/ PersistSnapshot(w)
              \/ PersistFails(w)
              \/ CommitResult(w)
              \/ CommitFails(w)
              \/ ReportOnce(w)

Reap(w)    == ReapRequeue(w) \/ ReapFail(w) \/ ReapAborts(w)

Clock(r)   == LeaseExpires(r) \/ HeartbeatAges(r)

Next ==
  \/ \E r \in Runs : Request(r) \/ Clock(r)
  \/ \E w \in Workers : Claim(w) \/ Execute(w) \/ Heartbeat(w) \/ Reap(w) \/ Crash(w)

Spec == Init /\ [][Next]_vars

\* A worker that executes a run comes back: the solver stops at its node limit
\* and statements return.  Its select serves both tickers, chosen at random
\* when both are ready, so neither claiming nor reaping is put off for ever;
\* statements that fail now do not fail for ever.  Leases run out.
Fairness ==
  /\ \A w \in Workers :
       /\ WF_vars(Execute(w))
       /\ SF_vars(BeginClaim(w))
       /\ SF_vars(CommitClaim(w))
       /\ SF_vars(ReapRequeue(w))
       /\ SF_vars(ReapFail(w))
  /\ \A r \in Runs : WF_vars(LeaseExpires(r))

FairSpec == Spec /\ Fairness

-----------------------------------------------------------------------------
(* Safety *)

\* No two workers execute the same attempt at a run: whatever claims, crashes,
\* expired leases and hidden commits do, SKIP LOCKED and the status guard of
\* ClaimQueued give an attempt to one worker.
OneWorkerPerAttempt ==
  \A v, w \in Workers :
    v # w /\ Busy(v) /\ Busy(w) /\ job[v] = job[w] => attempt[v] # attempt[w]

\* A run has a draft version exactly when it is SOLVED, one only, and it is the
\* draft of the attempt that was in possession of the run: a worker whose lease
\* was taken back never leaves one, and no commit whose answer was lost is
\* repeated.
DraftIffSolved ==
  \A r \in Runs :
    drafts[r] = IF status[r] = "SOLVED" THEN <<retry[r]>> ELSE <<>>

\* The completion audit event of a run, if any, is unique and tells the status
\* the row really has; a run that a worker ended otherwise than by failure has
\* one.
AuditAgrees ==
  \A r \in Runs :
    /\ audit[r] # <<>> =>
         audit[r] = <<[attempt |-> retry[r], status |-> status[r]]>>
    /\ status[r] \in Outcomes \ {"FAILED"} => audit[r] # <<>>

\* The engine snapshot of a SOLVED run was written by the attempt that solved
\* it.  The insert is neither guarded by the owner nor part of the final
\* transaction, so it is the unique index that keeps a stale worker's snapshot
\* from standing beside another attempt's result; the price is that a run whose
\* earlier attempt got as far as the snapshot cannot be solved any more.
SolvedSnapshotIsOwn ==
  \A r \in Runs : status[r] = "SOLVED" => snap[r] = retry[r]

\* A row in a terminal status is never changed again, and no version or audit
\* event is added for its run (docs/state-machines.md, Terminal states).
TerminalFrozen ==
  [][\A r \in Runs : status[r] \in Terminal =>
       /\ status'[r] = status[r]
       /\ retry'[r]  = retry[r]
       /\ owner'[r]  = owner[r]
       /\ drafts'[r] = drafts[r]
       /\ audit'[r]  = audit[r]]_vars

-----------------------------------------------------------------------------
(* The inductive invariant behind them *)

\* What a worker carries fits the place it is at: a run whenever it claims or
\* executes, the outcome it is to commit once the execution has ended, and
\* SOLVED only on the way through the snapshot.
WorkerOK(w) ==
  /\ pc[w] = "claiming" \/ Busy(w) => job[w] \in Runs
  /\ pc[w] \in {"persisting", "committing", "reporting", "failing"}
       => outcome[w] \in Outcomes
  /\ pc[w] \in {"reporting", "failing"} => outcome[w] # "SOLVED"
  /\ pc[w] = "persisting" => outcome[w] = "SOLVED"
  /\ pc[w] = "committing" => outcome[w] # "FAILED"

\* A claim holds the lock of a queued row, and holds it alone.
ClaimsHold ==
  \A w \in Workers : pc[w] = "claiming" =>
    /\ status[job[w]] = "QUEUED"
    /\ \A v \in Workers \ {w} : pc[v] = "claiming" => job[v] # job[w]

\* A worker executes the current attempt at its run, or one the reaper took
\* back; it is in possession of a running run exactly in the first case.
Possession ==
  \A w \in Workers : Busy(w) =>
    /\ status[job[w]] # "NONE"
    /\ attempt[w] <= retry[job[w]]
    /\ status[job[w]] = "QUEUED" => attempt[w] < retry[job[w]]
    /\ status[job[w]] = "RUNNING" =>
         (owner[job[w]] = w <=> attempt[w] = retry[job[w]])

\* A worker about to commit SOLVED has written the engine snapshot.
SnapshotFirst ==
  \A w \in Workers : pc[w] = "committing" /\ outcome[w] = "SOLVED"
                       => snap[job[w]] = attempt[w]

\* A run that is not finished has left nothing behind.
UnfinishedClean ==
  \A r \in Runs : status[r] \notin Terminal => drafts[r] = <<>> /\ audit[r] = <<>>

\* The inductive invariant: leases may expire, processes stop and commits go
\* unanswered at any point, and still each attempt has one worker, and only
\* the one in possession leaves a result.
Inv ==
  /\ TypeOK
  /\ \A w \in Workers : WorkerOK(w)
  /\ ClaimsHold
  /\ Possession
  /\ SnapshotFirst
  /\ UnfinishedClean
  /\ OneWorkerPerAttempt
  /\ DraftIffSolved
  /\ AuditAgrees
  /\ SolvedSnapshotIsOwn

-----------------------------------------------------------------------------
(* The queue implements the life cycle of its runs *)

PhaseOf(r) ==
  CASE status[r] = "NONE"      -> "none"
    [] status[r] = "QUEUED"    -> "queued"
    [] status[r] = "RUNNING"   -> "running"
    [] status[r] = "CANCELLED" -> "cancelled"
    [] OTHER -> IF audit[r] = <<>> THEN "lost" ELSE status[r]

WinnerOf(r) ==
  IF audit[r] = <<>> THEN NoSnap ELSE audit[r][Len(audit[r])].attempt

Lifecycle == INSTANCE RunLifecycle WITH
  phase  <- [r \in Runs |-> PhaseOf(r)],
  tries  <- retry,
  winner <- [r \in Runs |-> WinnerOf(r)]

\* Only the attempt in possession finishes a run, a finished run stays as it
\* is, and a run is taken back at most MaxRetries times.
ImplementsLifecycle == Lifecycle!Spec

-----------------------------------------------------------------------------
(* Liveness *)

\* Every created run reaches a terminal status, whatever fails in between: a
\* run whose worker stopped, whose commit failed or whose snapshot insert
\* always fails is taken back by the reaper or failed.
EveryRunEnds ==
  \A r \in Runs : (status[r] # "NONE") ~> (status[r] \in Terminal)

=============================================================================
