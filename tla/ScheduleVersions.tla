-------------------------- MODULE ScheduleVersions --------------------------
(***************************************************************************)
(* The versions of one timetable and the requests that change them         *)
(* (services/version.go, moveswap.go, publishing.go, schedule_version_repo *)
(* and the tables behind it).  A request reads the version, later its      *)
(* assignments, checks them, and writes with "WHERE version = n"; writes   *)
(* are single statements, or transactions at READ COMMITTED whose row      *)
(* locks and unique indexes are modelled statement by statement.           *)
(*                                                                         *)
(* Abstractions: the assignments of a version are one content, None when   *)
(* there are none; a score is the content it was computed for; a verifier  *)
(* accepts any content but None; names, audit rows and answers are left    *)
(* out, except for the failure on a unique index.  If-Match always bears   *)
(* the version a request has just read: any other value is turned away     *)
(* at once.                                                                *)
(***************************************************************************)
EXTENDS Naturals, FiniteSets

CONSTANTS
  Versions,    \* ids of schedule_versions
  Requests,    \* connections to the database, one request at a time each
  Contents,    \* valid sets of assignments
  None,        \* no version, no assignments, no score
  MaxVersion   \* bound: a version at this number is not written again

ASSUME NoneAssumption == None \notin Versions /\ None \notin Contents
ASSUME MaxVersionAssumption == MaxVersion \in Nat \ {0}

VARIABLES
  status,      \* schedule_versions.status, "NONE" before the insert
  version,     \* schedule_versions.version
  score,       \* schedule_versions.score
  content,     \* schedule_assignments of the version
  pointer,     \* timetables.current_published_version_id
  verified,    \* history: what Verify accepted when the version was published
  req          \* what each request is doing

rows == <<status, version, score, content, pointer, verified>>
vars == <<rows, req>>

Statuses == {"NONE", "DRAFT", "REVIEW", "PUBLISHED", "ARCHIVED"}
Ops      == {"submit", "sendback", "archive", "rename", "edit", "publish"}
Places   == {"idle", "copy", "update", "list", "begin", "scan", "cas", "commit"}
Maybe    == Contents \cup {None}

Request ==
  [pc       : Places,
   op       : Ops \cup {"none"},
   target   : Versions \cup {None},
   expected : 0..MaxVersion,    \* the version that was read
   seen     : Maybe,            \* the score, later the assignments that were read
   new      : Maybe,            \* the assignments to write
   hit      : SUBSET Versions,  \* rows the transaction found PUBLISHED, then archived
   stranded : BOOLEAN]          \* the rows its DELETE waited for are gone

Idle == [pc |-> "idle", op |-> "none", target |-> None, expected |-> 0, seen |-> None,
         new |-> None, hit |-> {}, stranded |-> FALSE]

TypeOK ==
  /\ status \in [Versions -> Statuses]
  /\ version \in [Versions -> 0..MaxVersion]
  /\ score \in [Versions -> Maybe]
  /\ content \in [Versions -> Maybe]
  /\ pointer \in Versions \cup {None}
  /\ verified \in [Versions -> Maybe]
  /\ req \in [Requests -> Request]

Init ==
  /\ status = [v \in Versions |-> "NONE"]
  /\ version = [v \in Versions |-> 0]
  /\ score = [v \in Versions |-> None]
  /\ content = [v \in Versions |-> None]
  /\ pointer = None
  /\ verified = [v \in Versions |-> None]
  /\ req = [q \in Requests |-> Idle]

\* The statuses in which each operation is allowed.
Needs(o) ==
  CASE o = "submit"   -> {"DRAFT"}
    [] o = "sendback" -> {"REVIEW"}
    [] o = "archive"  -> {"DRAFT", "PUBLISHED"}
    [] o = "rename"   -> Statuses \ {"NONE"}
    [] o = "edit"     -> {"DRAFT"}
    [] o = "publish"  -> {"REVIEW"}

At(q, place) == req[q].pc = place
Goto(q, place) == req' = [req EXCEPT ![q].pc = place]
End(q) == req' = [req EXCEPT ![q] = Idle]
Unmoved(q) == version[req[q].target] = req[q].expected

-----------------------------------------------------------------------------
(* Locks held until commit, and the unique index on PUBLISHED *)

\* Another transaction has written the row of v and not committed.
RowLocked(q, v) ==
  \E p \in Requests \ {q} :
    \/ At(p, "cas") /\ v \in req[p].hit
    \/ At(p, "commit") /\ v \in req[p].hit \cup {req[p].target}

\* Another transaction has deleted the assignments of v and not committed.
AssignmentsLocked(q, v) ==
  \E p \in Requests \ {q} :
    req[p].op = "edit" /\ req[p].target = v /\ req[p].pc \in {"cas", "commit"}

\* Another transaction has entries of the index idx_versions_one_published
\* pending, which a new entry waits for.
IndexBusy(q) ==
  \E p \in Requests \ {q} :
    /\ req[p].op = "publish"
    /\ At(p, "commit") \/ (At(p, "cas") /\ req[p].hit # {})

PublishedBut(v) == {u \in Versions \ {v} : status[u] = "PUBLISHED"}

-----------------------------------------------------------------------------
(* New versions *)

NewRow(v, c, s) ==
  /\ status[v] = "NONE"
  /\ status' = [status EXCEPT ![v] = "DRAFT"]
  /\ version' = [version EXCEPT ![v] = 1]
  /\ content' = [content EXCEPT ![v] = c]
  /\ score' = [score EXCEPT ![v] = s]
  /\ UNCHANGED <<pointer, verified>>

\* The worker inserts version and assignments in the transaction that commits
\* a solved run.
WorkerDraft(v, c) == NewRow(v, c, c) /\ UNCHANGED req

\* CreateVersion inserts the row first, blank or with the score of a run.
CreateVersion(q, v, s) ==
  /\ At(q, "idle")
  /\ NewRow(v, None, s)
  /\ IF s = None
       THEN UNCHANGED req
       ELSE req' = [req EXCEPT ![q] = [Idle EXCEPT !.pc = "copy", !.target = v, !.new = s]]

\* The assignments of the run are copied without their ids, which are looked
\* up under another name than the worker stores them by: two blank ids violate
\* idx_assignments_unique_in_version and the error is ignored, a single blank
\* one passes no check and counts as None.
CopyAssignments(q) ==
  /\ At(q, "copy")
  /\ End(q)
  /\ UNCHANGED rows

-----------------------------------------------------------------------------
(* Reading *)

\* The version is read, its status and If-Match are checked.
Load(q, o, v) ==
  /\ At(q, "idle")
  /\ status[v] \in Needs(o)
  /\ version[v] < MaxVersion
  /\ req' = [req EXCEPT ![q] =
       [Idle EXCEPT !.op = o, !.target = v, !.expected = version[v], !.seen = score[v],
                    !.pc = IF o \in {"edit", "publish"} THEN "list" ELSE "update"]]
  /\ UNCHANGED rows

\* The assignments are read by a later statement and pass their check: an
\* edit yields the valid assignments c, a publication is verified.
List(q, c) ==
  /\ At(q, "list")
  /\ LET read == content[req[q].target] IN
       /\ read # None
       /\ req[q].op = "publish" => c = read
       /\ req' = [req EXCEPT ![q].seen = read, ![q].new = c, ![q].pc = "begin"]
  /\ UNCHANGED rows

\* The request fails, is turned away or was a dry run, its transaction is
\* aborted, or the process stops: nothing uncommitted remains.
Abort(q) ==
  /\ ~At(q, "idle")
  /\ End(q)
  /\ UNCHANGED rows

-----------------------------------------------------------------------------
(* UpdateStatus and Update: one statement *)

After(o, s) ==
  CASE o = "submit"   -> "REVIEW"
    [] o = "sendback" -> "DRAFT"
    [] o = "archive"  -> "ARCHIVED"
    [] o = "rename"   -> s

\* Mutant: WHERE id = $2, without the version.
UpdateAnyway(q) ==
  LET v == req[q].target  o == req[q].op IN
  /\ At(q, "update") /\ ~RowLocked(q, v) /\ version[v] < MaxVersion
  /\ status' = [status EXCEPT ![v] = After(o, @)]
  /\ version' = [version EXCEPT ![v] = @ + 1]
  /\ score' = [score EXCEPT ![v] = IF o = "rename" THEN req[q].seen ELSE @]
  /\ End(q)
  /\ UNCHANGED <<content, pointer, verified>>

Update(q) ==
  LET v == req[q].target  o == req[q].op IN
  /\ At(q, "update") /\ ~RowLocked(q, v) /\ Unmoved(q)
  /\ status' = [status EXCEPT ![v] = After(o, @)]
  /\ version' = [version EXCEPT ![v] = @ + 1]
  /\ score' = [score EXCEPT ![v] = IF o = "rename" THEN req[q].seen ELSE @]
  /\ End(q)
  /\ UNCHANGED <<content, pointer, verified>>

\* No row has the expected version: ErrOptimisticLock, the transaction of an
\* edit or a publication is rolled back.
Conflict(q) ==
  /\ At(q, "update") \/ At(q, "cas")
  /\ ~RowLocked(q, req[q].target) /\ ~Unmoved(q)
  /\ End(q)
  /\ UNCHANGED rows

-----------------------------------------------------------------------------
(* ApplyAssignmentUpdateTx and PublishTx *)

\* The first statement takes its snapshot: the DELETE of the assignments, or
\* the UPDATE of the versions published so far.
Begin(q) ==
  /\ At(q, "begin")
  /\ req' = [req EXCEPT ![q].pc = "scan",
       ![q].hit = IF req[q].op = "publish" THEN PublishedBut(req[q].target) ELSE {}]
  /\ UNCHANGED rows

\* The rows are deleted once no other transaction holds them, and the new
\* ones are inserted.
EditDelete(q) ==
  /\ At(q, "scan") /\ req[q].op = "edit"
  /\ ~AssignmentsLocked(q, req[q].target) /\ ~req[q].stranded
  /\ Goto(q, "cas")
  /\ UNCHANGED rows

\* The rows in the snapshot are gone and those that replaced them stay: the
\* INSERT violates idx_assignments_unique_in_version.
EditDuplicate(q) ==
  /\ At(q, "scan") /\ req[q].op = "edit"
  /\ ~AssignmentsLocked(q, req[q].target) /\ req[q].stranded
  /\ End(q)
  /\ UNCHANGED rows

\* Mutant: the version is bumped whatever it is.
EditCasAnyway(q) ==
  /\ At(q, "cas") /\ req[q].op = "edit"
  /\ ~RowLocked(q, req[q].target) /\ version[req[q].target] < MaxVersion
  /\ Goto(q, "commit")
  /\ UNCHANGED rows

EditCas(q) ==
  /\ At(q, "cas") /\ req[q].op = "edit"
  /\ ~RowLocked(q, req[q].target) /\ Unmoved(q)
  /\ Goto(q, "commit")
  /\ UNCHANGED rows

EditCommit(q) ==
  LET v == req[q].target
      waiting == {p \in Requests \ {q} :
                    At(p, "scan") /\ req[p].op = "edit" /\ req[p].target = v}
  IN
  /\ At(q, "commit") /\ req[q].op = "edit"
  /\ content' = [content EXCEPT ![v] = req[q].new]
  /\ score' = [score EXCEPT ![v] = req[q].new]
  /\ version' = [version EXCEPT ![v] = @ + 1]
  /\ req' = [p \in Requests |->
       IF p = q THEN Idle
       ELSE IF p \in waiting THEN [req[p] EXCEPT !.stranded = TRUE] ELSE req[p]]
  /\ UNCHANGED <<status, pointer, verified>>

\* Mutant: rows held by another transaction are not waited for.
PublishArchiveStale(q) ==
  /\ At(q, "scan") /\ req[q].op = "publish"
  /\ Goto(q, "cas")
  /\ UNCHANGED rows

\* Rows that another transaction holds are waited for and looked at again.
PublishArchive(q) ==
  /\ At(q, "scan") /\ req[q].op = "publish"
  /\ \A u \in req[q].hit : ~RowLocked(q, u)
  /\ req' = [req EXCEPT ![q].pc = "cas",
                        ![q].hit = {u \in @ : status[u] = "PUBLISHED"}]
  /\ UNCHANGED rows

\* Mutant: without idx_versions_one_published.
PublishNoIndex(q) ==
  /\ At(q, "cas") /\ req[q].op = "publish"
  /\ ~RowLocked(q, req[q].target) /\ Unmoved(q)
  /\ Goto(q, "commit")
  /\ UNCHANGED rows

PublishCas(q) ==
  /\ At(q, "cas") /\ req[q].op = "publish"
  /\ ~RowLocked(q, req[q].target) /\ Unmoved(q)
  /\ ~IndexBusy(q) /\ PublishedBut(req[q].target) \subseteq req[q].hit
  /\ Goto(q, "commit")
  /\ UNCHANGED rows

\* A version published since the first statement is in the index.
PublishDuplicate(q) ==
  /\ At(q, "cas") /\ req[q].op = "publish"
  /\ ~RowLocked(q, req[q].target) /\ Unmoved(q)
  /\ ~IndexBusy(q) /\ ~(PublishedBut(req[q].target) \subseteq req[q].hit)
  /\ End(q)
  /\ UNCHANGED rows

\* Mutant: the first statement is forgotten.
PublishOver(q) ==
  LET v == req[q].target IN
  /\ At(q, "commit") /\ req[q].op = "publish"
  /\ status' = [status EXCEPT ![v] = "PUBLISHED"]
  /\ version' = [version EXCEPT ![v] = @ + 1]
  /\ pointer' = v
  /\ verified' = [verified EXCEPT ![v] = req[q].new]
  /\ End(q)
  /\ UNCHANGED <<score, content>>

PublishCommit(q) ==
  LET v == req[q].target IN
  /\ At(q, "commit") /\ req[q].op = "publish"
  /\ status' = [u \in Versions |->
       IF u = v THEN "PUBLISHED" ELSE IF u \in req[q].hit THEN "ARCHIVED" ELSE status[u]]
  /\ version' = [version EXCEPT ![v] = @ + 1]
  /\ pointer' = v
  /\ verified' = [verified EXCEPT ![v] = req[q].new]
  /\ End(q)
  /\ UNCHANGED <<score, content>>

-----------------------------------------------------------------------------
Next ==
  \/ \E v \in Versions, c \in Contents : WorkerDraft(v, c)
  \/ \E q \in Requests :
       \/ \E v \in Versions, s \in Maybe : CreateVersion(q, v, s)
       \/ CopyAssignments(q)
       \/ \E o \in Ops, v \in Versions : Load(q, o, v)
       \/ \E c \in Contents : List(q, c)
       \/ Abort(q)
       \/ Update(q)
       \/ Conflict(q)
       \/ Begin(q)
       \/ EditDelete(q)
       \/ EditDuplicate(q)
       \/ EditCas(q)
       \/ EditCommit(q)
       \/ PublishArchive(q)
       \/ PublishCas(q)
       \/ PublishDuplicate(q)
       \/ PublishCommit(q)

Spec == Init /\ [][Next]_vars

-----------------------------------------------------------------------------
(* Properties *)

\* At most one version is published, and the timetable points at it, however
\* publications, archivings and edits overlap.
PublishedIsCurrent ==
  \A v \in Versions : status[v] = "PUBLISHED" => pointer = v

\* The assignments of a published version are those the verifier accepted:
\* nothing written between the check and the commit gets published.
PublishedIsVerified ==
  \A v \in Versions :
    status[v] = "PUBLISHED" => verified[v] # None /\ content[v] = verified[v]

\* Unless it is empty, a version has the score of its own assignments: no
\* rename or edit puts a score back that it read earlier.
ScoreMatches ==
  \A v \in Versions : content[v] # None => score[v] = content[v]

\* A transaction that passed its compare-and-swap still finds the version it
\* read, with the assignments its check was made on: no edit is lost and no
\* status is left that the operation did not start from.
FollowsReads(r) ==
  r.pc = "commit" =>
    /\ version[r.target] = r.expected
    /\ status[r.target] \in Needs(r.op)
    /\ content[r.target] = r.seen

WritesFollowReads == \A q \in Requests : FollowsReads(req[q])

\* A request that has read something, and one whose version number still stands.
Reading(r) == r.pc \in Places \ {"idle", "copy"}
Standing(r) == Reading(r) /\ version[r.target] = r.expected

\* What a request carries from step to step.
Carries(r) ==
  Reading(r) =>
    /\ r.target \in Versions /\ status[r.target] # "NONE"
    /\ r.expected < MaxVersion /\ r.expected <= version[r.target]
    /\ IF r.pc = "update"
         THEN r.op \in {"submit", "sendback", "archive", "rename"}
         ELSE r.op \in {"edit", "publish"}
    /\ r.pc \in {"begin", "scan", "cas", "commit"} =>
         r.new \in Contents /\ (r.op = "publish" => r.new = r.seen)

\* The version number stands for all that was read under it, but for the
\* status of a version archived by the publication of another.
NumberStands(r) ==
  Standing(r) =>
    /\ \/ status[r.target] \in Needs(r.op)
       \/ r.op = "archive" /\ status[r.target] = "ARCHIVED"
    /\ r.pc = "update" => r.seen = score[r.target]
    /\ r.pc \in {"begin", "scan", "cas", "commit"} => r.seen = content[r.target]

\* The rows a publication has archived stay as it found them, and once it
\* passed the index they are all that were published.
HitsPublished(r) ==
  IF r.op = "publish"
    THEN /\ Reading(r) => r.target \notin r.hit
         /\ r.pc \in {"cas", "commit"} => r.hit \subseteq PublishedBut(r.target)
         /\ r.pc = "commit" => PublishedBut(r.target) = r.hit
    ELSE Reading(r) => r.hit = {}

\* A transaction about to commit holds no row of another, and none publishes
\* while another has something to archive or to publish.
Excludes(r, s) ==
  r.pc = "commit" =>
    /\ s.pc = "commit" => r.target # s.target
    /\ s.pc \in {"cas", "commit"} => r.target \notin s.hit
    /\ r.op = "publish" /\ s.op = "publish" =>
         s.pc # "commit" /\ (s.pc = "cas" => s.hit = {})

RequestOK(r) == Carries(r) /\ FollowsReads(r) /\ NumberStands(r) /\ HitsPublished(r)

\* The inductive invariant.
Inv ==
  /\ TypeOK
  /\ PublishedIsCurrent
  /\ PublishedIsVerified
  /\ ScoreMatches
  /\ \A q \in Requests : RequestOK(req[q])
  /\ \A p, q \in Requests : p # q => Excludes(req[p], req[q])

\* The requests together do what the atomic operations of the lifecycle do.
Abstract == INSTANCE VersionLifecycle
ImplementsLifecycle == Abstract!Spec

=============================================================================
