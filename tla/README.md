# Curra: models and proofs

Curra is a timetabling platform. A deterministic engine (`src/internal/scheduler`)
places teaching sessions in rooms and time slots; an HTTP platform
(`src/application`) keeps catalogues, queues solver runs for worker processes, and
manages the versions of each timetable from draft to publication. This directory
holds TLA+ models of both halves, TLC configurations that check them on small
instances, and proofs checked by TLAPS for instances of every size.

    tlc -workers 2 -config RunQueue_two.cfg MCRunQueue     # one run
    tlapm RunQueueProofs.tla                               # one module of proofs

## 1. Inventory

### Platform (`src/application`)

| Component | State | Operations | How it meets the others |
|---|---|---|---|
| Run queue (`repositories/schedule_run_repo.go`, `services/run.go`) | table `schedule_runs`: status, retry count, owner, lease, heartbeat | create, claim, heartbeat, commit a terminal result, cancel, recover expired runs | shared table between API server and workers |
| Worker and executor (`worker/worker.go`, `asyncrun/execute.go`) | one goroutine: the run it holds, the status it will commit | poll, execute, persist the engine snapshot, commit, report failure | calls the engine; writes runs, versions, snapshots and audit events |
| Idempotency keys (`repositories/idempotency_repo.go`, `services/run.go`) | table `idempotency_keys`: state, lock token, stored answer | acquire (with takeover after a minute), poll, complete, release | around creation of runs and versions |
| Versions (`services/version.go`, `publishing.go`, `moveswap.go`, `repositories/schedule_version_repo.go`) | `schedule_versions`, `schedule_assignments`, the timetable's published pointer | create, submit, send back, archive, rename, move, swap, publish | drafts come from the worker; publishing asks the verifier |
| Problem snapshots (`services/snapshot.go`) | an immutable row built by fifteen queries | create | read by the worker |
| Synchronous solving (`services/slice.go`) | a run created as RUNNING with no lease | create and solve in the request | a second writer of `schedule_runs` |
| Catalogue, users, institutions, timetables | independent rows with a version number each | create, read, update, delete | read by snapshots |
| HTTP, authentication, database access, mains, web client | no shared state of their own | decoding, routing, start-up | call the services |

### Engine (`src/internal/scheduler`)

| Component | State | Operations | How it meets the others |
|---|---|---|---|
| Problem, validation, presolver (`problem/`) | a prepared catalogue | validate, prepare, presolve | first phases of the pipeline |
| Constraint templates (`constraints/`) | compiled rules | evaluate a candidate on a partial solution, evaluate a complete one | asked by every search |
| Solution index and moves (`problem/solution.go`, `move.go`) | assignments and who holds each cell of the grid | add, remove last, apply and undo moves and swaps | the only thing conflict checks read |
| Backtracking (`solver/backtracking`) | recursion over the sessions left, with their domains | select, place, check forward, take back | finds the first timetable |
| Tabu search, evaluator, scorer (`solver/localsearch`, `scorer`) | current and best solution, tabu list, cached penalty | generate moves, apply the best, update the penalty by deltas | improves the timetable |
| Verifier, pipeline, adapter (`verifier`, `engine`, `application/internal/curra`) | none between calls | check a solution independently; run the phases; translate | last phases |

### What is hard here

Workers are separate processes that meet only in the database, a lease decides which
of them owns a run, and any statement can fail, or succeed without its caller
learning of it. Requests read in one statement, decide in memory and write in
another. An attempt whose lease was taken back goes on as if nothing had happened.
The engine, by contrast, runs in one goroutine, and its difficulty is a long
sequence of placements and withdrawals by hand over an index that every conflict
check trusts. `PROJECT.json` lists each hazard at its line with the properties that
would show it going wrong, and every component with its status.

What makes each component correct:

- *Queue*: one worker per attempt; a result only from the attempt in possession; the
  draft, the audit event and the engine snapshot agree with the status; terminal
  rows never change; every run ends.
- *Idempotency*: a second resource under a key, or a second answer, only when a lock
  was reclaimed or an insert was misreported; a stored answer is final.
- *Versions*: at most one version published and the pointer on it; what is published
  is what was verified; the score is that of the assignments; no write that does not
  follow from what its request read.
- *Search*: the index is a function of the assignments; domains are exact; SOLVED
  means feasible; INFEASIBLE means there is no timetable; it ends.
- *Improvement*: trying a neighbour leaves no trace; the tallies are what a full count
  gives; the best timetable is never lost and never worse than the start; a reversed move
  stays forbidden for the tenure; it ends.
- *Pipeline*: a SOLVED answer is a timetable with the penalty reported; what is turned down
  is turned down for a reason that can be named.
- *Snapshots and synchronous solving*: a snapshot lies between two states of its
  institution's catalogue, with one of its terms; the caller is told what the run says; a
  final status stays.

## 2. Modules

    RunLifecycle  <-- refined by -- RunQueue  <-- RunQueueProofs, MCRunQueue
    VersionLifecycle <-- refined -- ScheduleVersions <-- ScheduleVersionsProofs, MCScheduleVersions
                                    Idempotency  <-- IdempotencyProofs, MCIdempotency
    Snapshots     <-- extended by - SyncSolve <-- SyncSolveProofs, MCSyncSolve
    Timetabling   <-- extended by - Backtracking <-- BacktrackingProofs, MCBacktracking
       ^-- Objectives, SolutionMoves
              ^-- Handovers                the contract between tabu search and pipeline
              ^-- Evaluator <-- EvaluatorProofs
              ^-- Verifier
    Evaluator, Handovers <-- extended by -- LocalSearch <-- LocalSearchProofs, MCLocalSearch
                                                 '-- refines --> AnytimeSearch
    Verifier, Handovers  <-- extended by -- Engine <-- EngineProofs, MCEngine

`EvaluatorProofs`, the lemmas about timetables and scores, is extended by `LocalSearchProofs`
and `EngineProofs`.

`PROJECT.json` "map" gives the source lines of every definition. Definitions whose
comment begins with *Mutant* are not part of a model: each is a plausible bug that
the named properties must be able to detect when it stands in place of the definition
beside it.

### RunQueue

State: the columns of `schedule_runs` (`status`, `retry`, `owner`; `lapsed` and
`fresh` for the two timestamps compared with now), the engine snapshot of each run
(`snap`), its draft versions and audit events, and for each worker its place
(`pc`), its run, the retry count its claim returned and the status it will commit.

| Code | Actions |
|---|---|
| `CreateRun`, `CancelRun` | `CreateRun`, `Cancel` |
| `ClaimQueued`: `UPDATE ... WHERE id = (SELECT ... FOR UPDATE SKIP LOCKED)` | `BeginClaim`, then `CommitClaim`, `LoseClaim` (answer lost) or `AbortClaim` |
| `asyncrun.Execute` | `ExecuteFails`, `ExecuteGivesUp`, `ExecuteUnsolved`, `ExecuteSolved`, `PersistSnapshot`, `PersistFails` |
| `CommitTerminalResultTx` from `commitHook` and `failRun` | `TerminalTx` in `CommitResult`, `CommitFails`, `ReportOnce` |
| `UpdateHeartbeat`, the clock | `Heartbeat`, `HeartbeatAges`, `LeaseExpires` |
| `RecoverExpired`: two statements | `ReapRequeue`, `ReapFail`, `ReapAborts` |
| a stopped process | `Crash` |

A claim is two actions because the row lock is held between them: another claim
skips the row and a cancellation waits. The snapshot insert is an action of its own
because it is outside the final transaction. `CommitFails` may have committed.

`RunLifecycle` is what the queue promises: a run is created, started, taken back at
most `MaxRetries` times, and ended once, by its current attempt, by a cancellation,
or by the reaper. `ImplementsLifecycle` maps the rows and the audit to it.

### Idempotency

State: one row of `idempotency_keys`, the resources inserted, and the place of each
request. The upsert of `Acquire` is `AcquireLock` / `AcquireConflict` / `Replay`, the
waiting loop `Poll` / `PollGivesUp`, the body of the request `Reject` / `Create` /
`CreateFails`, and the statements on the key after it `Complete` / `Release`, whose
errors the code ignores. `Age` is the minute after which a lock may be reclaimed;
`Stop` a request that dies. Requests without a key run beside the keyed ones.

### ScheduleVersions

State: status, version number, score, assignments of each version, the published
pointer, and a history variable for what the verifier accepted. A request is a
sequence of statements: `Load` (version and If-Match), then either `Update` or
`Conflict` (submit, send back, archive, rename), or `List` and the transaction
(`Begin`, `EditDelete`/`EditCas`/`EditCommit` for a move or swap,
`PublishArchive`/`PublishCas`/`PublishCommit` for a publication). READ COMMITTED is
modelled by what it means for these statements: a statement has the snapshot of its
start, waits for rows that another transaction has written, and looks at them again;
the two unique indexes make the loser fail (`EditDuplicate`, `PublishDuplicate`).
Requests that fail or die roll back (`Abort`). Drafts come from the worker
(`WorkerDraft`) or from `CreateVersion`, whose copy of the assignments is a second
transaction (`CopyAssignments`).

`VersionLifecycle` is the same with atomic operations: an edit, a change of status, a
publication that archives what was published. `ImplementsLifecycle` shows that the
overlapping transactions do nothing else.

### Timetabling and Backtracking

`Timetabling` has no state: problems, sessions in the grid, the solution with its
index (`Add`, `RemoveLast`, `Addable`), the hard constraints as the search asks them
(`Consistent`) and the final check (`PassesFinalCheck`). It keeps what is peculiar in
the code: a conflict check looks only at the first taken slot and is blind to its own
id, `AddAssignment` looks at every cell, and SubjectMaxPerDay counts differently on
partial and on complete solutions.

`Backtracking` turns the recursion of `searchBasic` and `searchHeuristic` into a
stack of frames (sessions left, their domains, the session selected, the candidates
untried). The three modes differ in `Selectable`, `Sooner` and `Prune`, as in the
code. `Place` is one turn of the loop: add, prune, and recurse or take back;
`Return` is a loop that ran out, with the removal its caller makes. `Stop` is the
context, read at the start of a call only.

`Works` and `Solvable` (in `Timetabling`) say what a feasible timetable is with no search
and no index; they are what SOLVED and INFEASIBLE are compared with, here and in `Engine`.

### SolutionMoves, Objectives, Evaluator, Handovers

Four modules without state. `SolutionMoves` has `Apply` and `Undo` of a move (one change of
place, or two for a swap) as the code does them in place: the assignments concerned leave
the index, each giving up only the cells that bear its id, then enter it again, each taking
only cells that are free. `BuildIndex` is the index built from a list, in which the last
assignment on a cell owns it. `Objectives` counts gaps, dislikes and changes of room over a
timetable; of an objective listed twice the first counts. `Evaluator` has the
tallies and the four kinds of delta by which a move changes them. `Handovers` says what one
phase may count on from the one before: `Improves(p, list, other)`, the same sessions with the
locked ones in place, every session suited to its place, the rules kept, apart if the
sessions take one slot each, at no higher a penalty. The code has no such assertion; it
hands the solution on, and this is what the next phase needs of it.

### LocalSearch

The loop of `TabuSearcher.Search`. `Consider` is one neighbour: applied, validated
where the move has put its sessions, scored by deltas, compared with the tabu list (which
drops an expired entry only when asked about it), and undone. The code draws neighbours in
an order of its own and may skip some; the model considers any of them, any number of
times. `Move` makes the best one, `NothingFound` counts an idle iteration. `best` is the
clone the code keeps. `accepted` is a history of when a move was last reversed, for
`TabuHolds`. `AnytimeSearch` is the promise: a timetable in hand, replaced
only by a rearrangement of the same sessions with a lower penalty, locks in
place.

### Verifier and Engine

`Verifier` has the compiler's verdict on a rule, the three tests of the pre-solve analysis
(`ZeroDomain`, `FacultyOverload`, and `FeatureBottleneck`, which adds up seats),
and `VerifySolution`: completeness, locks, hard constraints over a rebuilt index, and a
second count of every component of the penalty, by other code than the scorer's and so
by other definitions. `Engine` goes through the phases of `Solve`, one action per way out of
each, then stores the draft and lets users verify and edit it. The searches enter by their
contracts: the first hands over any timetable that `Works`, or an excuse that
`Backtracking` allows (`NotFound`, `GaveUp`, `Failed`), the second any timetable that
`Improves` on it, with sessions of several slots possibly in one place. Both are proved of
the other side: `SolvedIsFeasible` says of a list the search calls SOLVED that it `Works`, and
`BestKept` that what the tabu search returns `Improves` on what it was given, unless it
reports INFEASIBLE, which it does only for sessions of several slots. `Found` puts
the sessions into one order of its own; nothing the verdict or the score reads depends on it.
`LocalSearch` starts from timetables with distinct ids (`Startable`), so of a
request whose locked session bears the id of another nothing is promised; such a request
ends as INVALID_RESULT.

### Snapshots and SyncSolve

`Snapshots` has the catalogue as a growing set of rows with foreign keys, and a capture that
reads one table after the other; each query may fail, or break off in the middle, unnoticed,
and what has come by then is the beginning of a list (`Place` is its order). A query returns
the institution's own rows (`Own`), while a foreign key is content with a row of any
institution (`Insert`). `Persist` stores all that was read, but of the terms only the first
(`TermOf`, `Contents`). `SnapshotsBracketed` says how far such a snapshot is one of the
catalogue, and for which four reasons a reference in it can lead nowhere.
`SyncSolve` extends it with the requests that solve a snapshot in place: `Create`,
`Solve`, `Pin` (the engine snapshot), `Record` (the plain `Update`, whose row count
nobody reads), the paths that answer and record nothing (`Unrecorded`, `Abort`), statements
that are executed and reported as failed, and cancellations. No route reaches
this path any more; the tests do.

## 3. Runs

| Run | Instance | What it shows |
|---|---|---|
| `queue_two_runs` | 2 runs, 2 workers, 1 retry | the safety of the queue, its inductive invariant, and that it implements `RunLifecycle` |
| `queue_liveness` | 1 run, 2 workers, 2 retries | every run ends under the fairness below |
| `idempotency_race` | 4 requests, 3 of them keyed, 2 polls | answers agree unless a lock was reclaimed; a completed key is final |
| `versions_two` | 2 versions, 2 requests, 2 contents, version numbers to 4 | publishing, editing and status changes that overlap; `VersionLifecycle` |
| `search` | 1296 problems (below) | the search in all modes, through its whole tree |
| `local_search` | 5 timetables (below), 3 iterations | tallies, best timetable, undo, tabu list, end of the loop, that the best one is what the pipeline counts on, and that it implements `AnytimeSearch` |
| `engine_requests` | 34 requests (below) | every phase and every way out of it, the verification's second count, edits of drafts |
| `sync_solve` | a catalogue of 7 rows in 4 tables (below), 1 capture, 2 requests | what a snapshot holds and may lack; what a caller is told against what the run says |
| `idempotency_reclaim`, `false_infeasible`, `double_booking`, `stored_draft` | the same or smaller | each finds a sentence of the repository that the code does not keep (section 6) |

**Bounds.** `NumRuns` and `MaxRetries` are parameters of the queue. Two runs are needed for the order
of the queue and for a reaper that takes back several; with two workers every pair of
actors can race (claim against claim, stale worker against new owner, reaper against
commit, cancellation against each); one retry gives a first attempt, a second, and a
run that fails for good. `Polls` is 5 (times 50 ms) in the code; the loop does the
same thing each time, so 2 gives a first, a last, and a change in between. Three
keyed requests give a holder, one that reclaims from it, and one that replays from
either; the unkeyed one is the bystander. `MaxVersion` stops writes at number 4, enough
for a version to be edited, submitted, published and archived; a longer life repeats
these. Two requests in the database are the least that can conflict.

The problems of `search` are every combination of three catalogues (a two-slot
session of a whole class, two sessions of one requirement, subgroups, a room
feature), two buildings, two calendars, six lists of locked sessions (none; instance
0; instance 1; ids of another form; two that clash; more than the requirement has),
three sets of rules, three modes and two node limits, in a grid of three slots on
two days and two rooms. Both verdicts, every early return and a tree that is exhausted
occur among them; all of it takes 12,620 states, because the search is
deterministic up to the ties described in the module.

The timetables of `local_search` are five: two ways to close a gap with a
teacher who dislikes late periods; a locked session with a rule, custom weights and an
objective listed twice; the same broken from the start; a whole class between its
subgroups; a session of two slots beside one of one slot. Three iterations with a tenure of
one let a move be made, be forbidden, and be free again; in each iteration every
set of neighbours may have been looked at. The requests of `engine_requests` vary the locked sessions
(none, one, one with instance 1, one out of range, one with another id), seven sets of
rules (each kind the compiler turns down, and two it accepts), the hours of
a teacher around the number needed, three objectives, with and without
improvement, sessions of two slots, and a lab and a subgroup of sizes around zero, where the third
test of the pre-solve analysis and the first disagree.

The catalogue of `sync_solve` starts with two terms and a class of another institution. A
class, its group, a group of the foreign class, and an offering in the term that is second by
name may be inserted at any moment, each after what it refers to; classes, groups, terms and
offerings are read in this order. So each of the four reasons for a dangling reference occurs:
the class is inserted after its table was read, the foreign class is in no list, the
query of the classes fails or that of the terms breaks off, and the second term is dropped
for the first. More captures would not meet, since a capture only reads. 4,148,289 states.

**Symmetry** is used on workers, requests, versions and contents, which the specifications never
order or name, and only in runs without liveness properties.

**Deadlock** is checked for the queue: it can always do something. In the others the system
really stops (all requests answered, all versions at the bound, search over), and
the configurations say so.

**Fairness.** In the queue, a worker that executes a run goes on (the solver
stops at its node limit and statements return): weak fairness of `Execute`. The worker's
`select` serves both tickers and chooses at random when both are ready, and
statements do not fail for ever: strong fairness of the claim and of both reaper
statements. Leases run out: weak fairness of `LeaseExpires`. Nothing is assumed of
requests, heartbeats or crashes: workers may crash without end, since each crash during an
attempt uses up a retry. In the search, one goroutine runs to the end: weak fairness
of `Next`. In the tabu search the same goroutine: weak fairness of `Progress`, which is all but
`Consider` (an iteration looks at finitely many neighbours) and but the two ways in which
time or the context ends the loop from outside.

## 4. Proofs

All theorems hold for every value of the constants that satisfies the named assumptions:
`NumRunsAssumption`, `WorkersAssumption` and `MaxRetriesAssumption`; `RequestsAssumption`
and `PollsAssumption`; `NoneAssumption` and `MaxVersionAssumption`; `GridAssumption` and
`ProblemsAssumption` (a finite grid, and problems whose catalogue is in order);
`SoftAssumption`, `LimitsAssumption` and `StartsAssumption` (limits are naturals, and the
timetable handed over has distinct ids and no two sessions in one place); for `Engine`,
`RequestsAssumption` (a problem of `Problems` without rules yet, finitely many rule
instances that refer to it); `CatalogueAssumption` (foreign keys lead to rows, whoever's
they are). Sets of workers, requests, versions, captures, rows, problems, requests and
timetables may be infinite; the finite sets are the grid's.

**RunQueueProofs**: `TypeCorrect`, `Invariance`, `AttemptHasOneWorker`,
`DraftsFollowSolved`, `AuditsAgree`, `SolvedSnapshotsAreOwn`, `FinishedStaysFinished`,
`Refinement`. "A draft exists exactly when the run is
SOLVED" is not inductive: it needs to know that a worker about to commit is at the
current attempt exactly when it owns the row (`Possession`), which a claim preserves
only because no two claims hold one row (`ClaimsHold`); that nothing was written for
a run before it finished (`UnfinishedClean`); and that the snapshot of an attempt
about to commit SOLVED is its own (`SnapshotFirst`). The proof goes action by action,
with lemmas about what `Return`, `ClaimTx`, `TerminalTx` and `NoTx` leave alone. The
refinement adds that at most one run's image changes in a step of a worker, and that
the reaper's steps change several, which `RunLifecycle` allows.

**IdempotencyProofs**: `Invariance`, `OneUnlessExcused`, `SameAnswer`,
`AnswerIsFinal`. The invariant says who holds the lock at each place of a request
(`LocksHeld`: it has it or lost it to a reclaim for good) and what it knows of its own
insert (`InsertsKnown`). Then of all requests that inserted, at most one neither lost its lock nor
was misinformed (`DuplicatesExcused`, proved as `OneUnlessExcused`).

**ScheduleVersionsProofs**: `Invariance`, `OnePublished`, `PublishedAsVerified`,
`ScoreOfAssignments`, `NoLostUpdate`, `Refinement`. The heart is `NumberStands`: while
the version number a request read still stands, so does all it read under it, except
that a publication of another version archives this one without a new number. Around
it, `HitsPublished` says what the first statement of a publication has in hand and
`Excludes` which transactions cannot both be about to commit.

**SyncSolveProofs**: `Invariance`, `SnapshotsAreBracketed`, `AnswersAreAccounted`,
`FinalStatusesStay`. For a capture the invariant says that the tables behind it, unless
their query failed, were read whole as of its beginning, that nothing but the institution's
own rows was read, and that a term that was read has all earlier ones with it, even when the
query broke off (`CaptureOK`); the catalogue only grows, so that lies between two of its
states. A stored snapshot (`SnapshotOK`) is what `TermOf` leaves of that; `TermChosen` is
the lemma about the choice: one term, none before it, and none at all only if none was read.
For a request it says what it may assume of its run at each place: still RUNNING, or
cancelled meanwhile.

**BacktrackingProofs**: `TypeCorrect`, `CallsCorrect`, `IndexCorrect`,
`AlwaysAddable`, `SolvedCorrect`, `DomainsCorrect`, `ExhaustionCorrect`, for any problems
over any finite grid. The types of the search depend on the
stack and the list of assignments moving together, so both are one invariant. The
index joins it: what `AddAssignment` writes was empty, so each cell has one taker, so
taking back the last assignment frees its cells and no others. From the three follows
that the id of a session being placed is nowhere in the index, so the constraint that
looks at the first taken slot, and is blind to that id, lets through only what
`AddAssignment` accepts; the last step takes the least taken slot by well-founded
induction on the naturals.

In the second part, `SolvedCorrect` and `DomainsCorrect`, the invariant describes what is
placed without the index: it lies in the grid, suits, and no two of it clash (`Sound`),
which `AddAssignment` keeps because the index agrees with the list (`AddableApart`). The
final check then has only the rules left to see to, and what SubjectMaxPerDay counts over a
complete list is matched one to one with what the definition of a feasible timetable counts
(`FinalFeasible`). `DomainsExact` follows from what the assignments before a call leave
(`Exact`), which only shrinks from call to call: pruning a domain that was exact by the new
assignment gives one that is exact.

The third part, `ExhaustionCorrect`, is the other half: INFEASIBLE means there is no
timetable. Invariant `NothingMissed`: for every timetable f that works, some call in progress
has not tried f's candidate for its session, and all calls before it have placed theirs where
f has them. A candidate of f cannot have been pruned by assignments that are f's own
(`FollowsExact`), so when a call fails, one before it has f still to try; the outermost cannot
run out. The one other way to INFEASIBLE is the final check of the locked sessions
(`FinalCheckHolds`). The theorem has the provisos of the property, that rules bind groups
that do not overlap (`RulesByGroup`) and that ids are distinct; section 6 shows what
happens without the first.

**EvaluatorProofs** has no theorem about a specification; it is what the proofs about
`LocalSearch` and `Engine` share. A sum over a set (`SumFunctionOnSet` of the community
modules) is defined by a recursion that takes the elements in an order nobody knows. By
well-founded induction on the subsets of a finite set the recursion has a solution
(`SumTaken`, `SumEmpty`), and the sum does not depend on the order. From this follow the
sums of the evaluator: what a move adds to and takes from the set of a group's periods in a
day, a teacher's disliked slots and a group's changes of room is what the four deltas
say (`DeltaOfOne`, `DeltaOfTwo`), and an index built from a list without clashes has each cell with its
only holder.

**LocalSearchProofs**: `SearchInvariance`, `TabuIsHeld`, `CandidatesLeaveNoTrace`,
`ShortSessionsStayApart`, `TalliesStayExact`, `BestIsKept`, `IsAnytime`, `TypeCorrect`. A table
of the index is `Owned` when each cell bears the id of its only holder or none. Undoing a
candidate restores an owned table, whatever the candidate did to it. A legal move of
sessions of one slot leaves the tables owned and the sessions apart (`StillFeasible`),
since the first taken slot is then the only one. For longer sessions that is false
(`double_booking` in section 6). `TabuHolds` needs the current iteration to be above every
reversal, and each reversal of the last `TabuTenure` iterations to be in the list
(`TabuInv`).

`TalliesExact` as it stands is nearly inductive: `ScoreInv` states that the tallies are those a
rebuild would count (`Rebuild`), so that the lemmas about deltas apply at every step whether or not
sessions share a place, and adds what the best timetable is compared with. From it
follow `BestKept`, whose first part is the score returned, and the refinement of
`AnytimeSearch`: the copy changes only where `Better` compares two penalties that are both
exact. The second part of `BestKept`, the contract with the pipeline, has its own
invariant, `ContractInv`: from an acceptable timetable the rules hold at every step, for
sessions of any length, because the rule's check reads the list, which a candidate
has changed already, and not the index.

**EngineProofs**: `AnswersAreSound`, `PreSolveProves`, `VerifierAgrees`. The invariant
`EngineInv` says of each phase what the ones before have established: that the locked
sessions are valid, that the rules are those compiled, and that the list is one the searches
hand over with its score (`Produced`). The pre-solve analysis is a counting argument: in a
timetable that works, the sessions of a teacher start at places of their own, so no more
slots are needed than the teacher has; and a session of a group that has students sits in a
room with seats, so the rooms with its features have seats between them (`SeatsFound`). For
a group of size 0 that does not follow, and the code is wrong there (section 6):
`PreSolveIsProof` and `PreSolveProves` except exactly this case, `NeedsNoSeats`, by name.
That the verification agrees is the long part. In its index the last session on a cell owns
it, and it is shown to answer as the searches' does when no two sessions share a place; its
counts of gaps, dislikes and changes of room are other algorithms (it counts sessions where
the scorer counts periods, and sorts by start and room where the scorer sorts by start),
shown to give the same numbers when no two sessions of a group meet. So a verdict other than
SOLVED leaves only the four reasons `RejectionsExplained` names. The score of a stored draft
has a breakdown of zeros, hence an edit is accepted only if the verification counts nothing;
then the scorer sees no dislikes and no changes of room either, and the gaps stored with the
edit are the whole penalty (`GapsAlone`). This keeps `SolvedIsSound` through any number of
edits.

**Only model-checked.** Liveness (`EveryRunEnds`, and `SearchEnds` of both searches):
under fairness it is out of the prover's reach. That the sentences of section 6 fail is by
nature a matter of a run. Every other property of a run is proved.

## 5. Not modelled

- *Catalogue, timetables, institutions, users*: inserts under foreign keys are in
  `Snapshots`, for they are what a capture can see half of. Updates and deletes are one
  statement with the compare-and-swap of `ScheduleVersions`; timetables, institutions and
  users are independent rows.
- *HTTP, authentication, database access, start-up, web client*: they decode, route, connect
  and draw, and keep no state the models could get wrong.
- *Field-by-field checks and translation*: validation of single fields of a catalogue and of
  a rule's parameters is one outcome, an error or none; the adapter's translation to and
  from JSON is modelled only where it loses something (scores, objectives, weights).
- *Abstracted*: time (leases, stale locks and heartbeats are events that may come at
  any moment); diagnostics and messages; the interval arithmetic of the lease, whose
  effect (a lease that is over at once) is among the behaviours.
- *Composition*: the queue takes the engine's answer as any of its statuses, the versions
  take the verifier as accepting any assignments but none, and the pipeline takes the two
  searches by contract. That each search keeps its contract is proved (`SolvedCorrect`,
  `BestIsKept`); the three state machines are not run as one.

## 6. Where the documents and the code differ

Each has a run that exhibits it and an entry under "findings".

| Run | The repository says | The code does |
|---|---|---|
| `idempotency_reclaim` | `application/concurrency_test.go:876`: exactly one run per key | a holder slower than a minute and the one that reclaims its lock create one each |
| `false_infeasible` | `CURRA_CONTEXT.md:330`: INFEASIBLE is proved | a rule is stricter on partial solutions than on complete ones |
| `double_booking` | `README.md:85`: the search improves "without ever breaking a hard constraint" | a candidate is validated after its cells were written, by the first taken slot alone: a longer session can land on another |
| `stored_draft` | `CURRA_CONTEXT.md:332`: INVALID_RESULT "indicates an engine bug" | the score stored with a draft loses its breakdown, so any draft with a penalty fails the verification |

Met while modelling, without a run:

- *Queue.* The reaper looks at the lease alone, which heartbeats do not extend
  (`docs/state-machines.md:45` has a stale heartbeat). A dead worker's run is queued again where
  `docs/state-machines.md:48` has it FAILED. Runs with an equal configuration are not detected
  (`docs/state-machines.md:46-47`, `services/run.go:117`).
- *Versions.* Archiving the published version leaves the pointer
  (`docs/state-machines.md:111`). A published version can be renamed
  (`docs/state-machines.md:104`, `services/version.go:208`). A publication archives the
  old version without a new version number (`docs/state-machines.md:116`,
  `schedule_version_repo.go:178`). Of two moves at once, the loser may fail on the unique
  index before its compare-and-swap (`application/concurrency_test.go:1111` expects a
  conflict). A draft made from a run's result is empty, its assignments being looked up by
  another name than they are stored by (`contracts/api-contract.md:79`). The score stored
  after a manual move counts gaps only.
- *Engine.* With instance 1 of a requirement locked, instance 1 is placed again
  (`assignment.go:9`). A locked session whose instance is out of range passes validation and
  ends as INVALID_RESULT (`verifier.go:220`). The final checks leave the built-in
  constraints out when compiled rules exist (`verifier.go:329`). With improvement switched
  off and an objective of its own, a request ends as INVALID_RESULT. The verifier counts the
  gaps of a group in two places at once differently from the scorer. The third test of the
  pre-solve analysis adds up the capacities of the rooms with a feature and rejects when the
  sum is 0 (`presolver.go:206`), although a group of size 0 may sit in a room of capacity 0,
  which validation (`validation.go:125`, `:249`) and the first test (`presolver.go:50`) both
  allow: a problem that has a timetable is then answered INFEASIBLE, where
  `CURRA_CONTEXT.md:187` has "provably unsolvable problems" and `presolver.go:14` "provably
  infeasible". Without its exception `engine_requests` violates `PreSolveIsProof` on such a
  request. The adapter appends the caller's objectives to the defaults, and of an objective
  listed twice the first counts (`adapter.go:86`).
- *Synchronous path.* After a compile error, an error of the engine or a lost engine
  snapshot the run stays RUNNING with no lease for the reaper to find; an update that
  matches no row is answered as success. Snapshots are fifteen queries whose errors are
  dropped; a table can be missing or cut short, and a class without groups makes
  every snapshot of its institution INVALID_PROBLEM. So does an offering of any term but the
  first by name, for only that one is kept (`snapshot.go:58`) while offerings are read whole, and
  each must be of the problem's term (`validation.go:137`); `contracts/api-contract.md:60` has a
  snapshot freeze "current academic data". And so does a program, class or group
  whose parent is another institution's: neither `CreateProgram` (`catalog.go:54`) and its kin nor
  the foreign keys (`migrations.go:51`) ask whose it is, and the lists leave the parent out.

## 7. Plan

Done: (M1) run queue, (M2) idempotency keys, (M3) schedule versions, (M4) timetabling
and backtracking, (M5) solution moves, evaluator and local search, (M6) verifier and
pipeline, (M7) snapshots and the synchronous path; each with its proofs. Next, in this order:

1. One theorem from the list `Backtracking` returns to the one `Engine` receives, whatever the
   order of its sessions, in place of the choice of one order in `Found`.
2. The idempotent creation of a run as a refinement of an atomic one, with a reclaim as the one
   step that may create twice.
3. The synchronous path as a second writer of the rows of `RunQueue`, where a cancellation
   and a worker's final transaction meet it.
4. Updates and deletes of the catalogue beside a capture, which then no longer lies between
   two states.
