----------------------- MODULE ScheduleVersionsProofs -----------------------
(***************************************************************************)
(* Proofs about ScheduleVersions for any sets of versions, requests and    *)
(* contents and any bound on the version numbers.  Inv says of each        *)
(* request that its version number stands for all it has read, and of each *)
(* two transactions that they do not hold the same rows.  A step that only *)
(* moves a request (ReqStep) has to show this of that request; a step that *)
(* writes rows, that the other requests do not notice unless the number    *)
(* they read is out of date.                                               *)
(***************************************************************************)
EXTENDS ScheduleVersions, TLAPS

USE NoneAssumption, MaxVersionAssumption

-----------------------------------------------------------------------------
(* The steps that change one request and no row *)

\* Such a step preserves the invariant if the new record x keeps to it.
LEMMA ReqStep ==
  ASSUME Inv, UNCHANGED rows, NEW q \in Requests, NEW x \in Request,
         req' = [req EXCEPT ![q] = x],
         RequestOK(x),
         \A p \in Requests \ {q} : Excludes(req[p], x) /\ Excludes(x, req[p])
  PROVE  Inv'
<1>1. /\ req' \in [Requests -> Request]
      /\ req'[q] = x
      /\ \A p \in Requests \ {q} : req'[p] = req[p]
  BY DEF Inv, TypeOK
<1>2. TypeOK' /\ PublishedIsCurrent' /\ PublishedIsVerified' /\ ScoreMatches'
  BY <1>1 DEF Inv, TypeOK, PublishedIsCurrent, PublishedIsVerified, ScoreMatches, rows
<1>3. \A r \in Request : RequestOK(r) => RequestOK(r)'
  BY DEF RequestOK, Carries, FollowsReads, NumberStands, HitsPublished, Standing, Reading, PublishedBut, rows
<1>4. ASSUME NEW p \in Requests PROVE RequestOK(req[p])'
  <2>1. req'[p] \in Request /\ RequestOK(req'[p])
    BY <1>1 DEF Inv
  <2> QED
    BY <2>1, <1>3 DEF RequestOK, Carries, FollowsReads, NumberStands, HitsPublished, Standing, Reading, PublishedBut, rows
<1>5. ASSUME NEW p \in Requests, NEW o \in Requests, p # o PROVE Excludes(req[p], req[o])'
  <2>1. Excludes(req'[p], req'[o])
    BY <1>1, <1>5 DEF Inv
  <2> QED
    BY <2>1 DEF Excludes
<1> QED
  BY <1>2, <1>4, <1>5 DEF Inv

\* A request outside any operation constrains nothing.
LEMMA IdleStep ==
  ASSUME Inv, UNCHANGED rows, NEW q \in Requests, NEW x \in Request,
         req' = [req EXCEPT ![q] = x], x.pc \in {"idle", "copy"}
  PROVE  Inv'
<1>1. RequestOK(x)
  BY DEF RequestOK, Carries, FollowsReads, NumberStands, HitsPublished, Standing, Reading
<1>2. \A p \in Requests \ {q} : Excludes(req[p], x) /\ Excludes(x, req[p])
  BY DEF Excludes
<1> QED
  BY <1>1, <1>2, ReqStep

\* The idle record is well formed.
LEMMA IdleRequest == Idle \in Request
BY DEF Idle, Request, Places, Maybe

\* A request ends.
LEMMA EndStep == ASSUME Inv, UNCHANGED rows, NEW q \in Requests, End(q) PROVE Inv'
BY IdleStep, IdleRequest DEF End, Idle

\* What is read first stands by its version number.
LEMMA LoadStep ==
  ASSUME Inv, NEW q \in Requests, NEW o \in Ops, NEW v \in Versions, Load(q, o, v)
  PROVE  Inv'
<1> DEFINE x == [Idle EXCEPT !.op = o, !.target = v, !.expected = version[v], !.seen = score[v],
                    !.pc = IF o \in {"edit", "publish"} THEN "list" ELSE "update"]
<1>1. /\ x.pc = IF o \in {"edit", "publish"} THEN "list" ELSE "update"
      /\ x.op = o /\ x.target = v /\ x.expected = version[v] /\ x.seen = score[v] /\ x.hit = {}
  BY DEF Idle
<1>2. x \in Request
  <2>1. version[v] \in 0..MaxVersion /\ score[v] \in Maybe
    BY DEF Inv, TypeOK
  <2> QED
    BY <2>1, IdleRequest DEF Request, Places
<1>3. RequestOK(x)
  BY <1>1 DEF Load, Inv, TypeOK, RequestOK, Carries, FollowsReads, NumberStands, HitsPublished,
     Standing, Reading, Ops, Needs, Statuses
<1>4. \A p \in Requests \ {q} : Excludes(req[p], x) /\ Excludes(x, req[p])
  BY <1>1 DEF Excludes
<1>5. UNCHANGED rows /\ req' = [req EXCEPT ![q] = x]
  BY DEF Load
<1> HIDE DEF x
<1> QED
  BY <1>2, <1>3, <1>4, <1>5, ReqStep

\* The assignments read later do as well, if the number has not changed.
LEMMA ListStep ==
  ASSUME Inv, NEW q \in Requests, NEW c \in Contents, List(q, c)
  PROVE  Inv'
<1> DEFINE x == [req[q] EXCEPT !.seen = content[req[q].target], !.new = c, !.pc = "begin"]
<1>1. req[q] \in Request /\ RequestOK(req[q])
  BY DEF Inv, TypeOK
<1>2. Carries(req[q]) /\ NumberStands(req[q]) /\ req[q].pc = "list"
  BY <1>1 DEF RequestOK, List, At
<1>3. req[q].target \in Versions
  BY <1>2 DEF Carries, Reading, Places
<1>4. x \in Request
  BY <1>1, <1>3 DEF Inv, TypeOK, Request, Places, Maybe
<1>5. RequestOK(x)
  BY <1>1, <1>2, <1>3 DEF List, RequestOK, Carries, FollowsReads, NumberStands, HitsPublished,
     Standing, Reading, Places, Request
<1>6. \A p \in Requests \ {q} : Excludes(req[p], x) /\ Excludes(x, req[p])
  BY <1>1 DEF Excludes, Request
<1>7. UNCHANGED rows /\ req' = [req EXCEPT ![q] = x]
  BY DEF List
<1> HIDE DEF x
<1> QED
  BY <1>4, <1>5, <1>6, <1>7, ReqStep

\* A transaction begins.
LEMMA BeginStep ==
  ASSUME Inv, NEW q \in Requests, Begin(q)
  PROVE  Inv'
<1> DEFINE h == IF req[q].op = "publish" THEN PublishedBut(req[q].target) ELSE {}
           x == [req[q] EXCEPT !.pc = "scan", !.hit = h]
<1>1. req[q] \in Request /\ RequestOK(req[q]) /\ req[q].pc = "begin"
  BY DEF Inv, TypeOK, Begin, At
<1>2. h \in SUBSET Versions
  BY DEF PublishedBut
<1> HIDE DEF h
<1>3. x \in Request
  BY <1>1, <1>2 DEF Request, Places
<1>4. RequestOK(x)
  BY <1>1 DEF RequestOK, Carries, FollowsReads, NumberStands, HitsPublished, Standing, Reading,
     Places, Request, h, PublishedBut
<1>5. \A p \in Requests \ {q} : Excludes(req[p], x) /\ Excludes(x, req[p])
  BY <1>1 DEF Excludes, Request
<1>6. UNCHANGED rows /\ req' = [req EXCEPT ![q] = x]
  BY DEF Begin, h
<1> HIDE DEF x
<1> QED
  BY <1>3, <1>4, <1>5, <1>6, ReqStep

\* An edit holds its assignments, and no version row yet.
LEMMA EditDeleteStep ==
  ASSUME Inv, NEW q \in Requests, EditDelete(q)
  PROVE  Inv'
<1> DEFINE x == [req[q] EXCEPT !.pc = "cas"]
<1>1. req[q] \in Request /\ RequestOK(req[q]) /\ req[q].pc = "scan" /\ req[q].op = "edit"
  BY DEF Inv, TypeOK, EditDelete, At
<1>2. req[q].hit = {}
  BY <1>1 DEF RequestOK, HitsPublished, Reading, Places
<1>3. x \in Request
  BY <1>1 DEF Request, Places
<1>4. RequestOK(x)
  BY <1>1, <1>2 DEF RequestOK, Carries, FollowsReads, NumberStands, HitsPublished, Standing,
     Reading, Places, Request
<1>5. \A p \in Requests \ {q} : Excludes(req[p], x) /\ Excludes(x, req[p])
  BY <1>1, <1>2 DEF Excludes, Request
<1>6. UNCHANGED rows /\ req' = [req EXCEPT ![q] = x]
  BY DEF EditDelete, Goto
<1> HIDE DEF x
<1> QED
  BY <1>3, <1>4, <1>5, <1>6, ReqStep

\* An edit passes its compare-and-swap.
LEMMA EditCasStep ==
  ASSUME Inv, NEW q \in Requests, EditCas(q)
  PROVE  Inv'
<1> DEFINE x == [req[q] EXCEPT !.pc = "commit"]
<1>1. req[q] \in Request /\ RequestOK(req[q]) /\ req[q].pc = "cas" /\ req[q].op = "edit"
  BY DEF Inv, TypeOK, EditCas, At
<1>2. req[q].hit = {} /\ Standing(req[q])
  BY <1>1 DEF RequestOK, HitsPublished, Reading, Places, Standing, EditCas, Unmoved
<1>3. x \in Request
  BY <1>1 DEF Request, Places
<1>4. RequestOK(x)
  BY <1>1, <1>2 DEF RequestOK, Carries, FollowsReads, NumberStands, HitsPublished, Standing,
     Reading, Places, Request
<1>5. ASSUME NEW p \in Requests \ {q} PROVE Excludes(req[p], x) /\ Excludes(x, req[p])
  <2>1. ~RowLocked(q, req[q].target)
    BY DEF EditCas
  <2>2. Excludes(x, req[p])
    BY <1>1, <2>1 DEF Excludes, RowLocked, At, Request
  <2>3. Excludes(req[p], x)
    BY <1>1, <1>2, <2>1 DEF Excludes, RowLocked, At, Request
  <2> QED
    BY <2>2, <2>3
<1>6. UNCHANGED rows /\ req' = [req EXCEPT ![q] = x]
  BY DEF EditCas, Goto
<1> HIDE DEF x
<1> QED
  BY <1>3, <1>4, <1>5, <1>6, ReqStep

\* A publication holds the rows it archives: none if another is to commit.
LEMMA PublishArchiveStep ==
  ASSUME Inv, NEW q \in Requests, PublishArchive(q)
  PROVE  Inv'
<1> DEFINE h == {u \in req[q].hit : status[u] = "PUBLISHED"}
           x == [req[q] EXCEPT !.pc = "cas", !.hit = h]
<1>1. req[q] \in Request /\ RequestOK(req[q]) /\ req[q].pc = "scan" /\ req[q].op = "publish"
  BY DEF Inv, TypeOK, PublishArchive, At
<1>2. h \in SUBSET Versions /\ h \subseteq req[q].hit /\ \A u \in h : status[u] = "PUBLISHED"
  BY <1>1 DEF Request
<1>3. req[q].target \notin h
  BY <1>1 DEF RequestOK, HitsPublished, Reading, Places
<1>4. UNCHANGED rows /\ req' = [req EXCEPT ![q] = x]
  BY DEF PublishArchive
<1> HIDE DEF h
<1>5. x \in Request
  BY <1>1, <1>2 DEF Request, Places
<1>6. RequestOK(x)
  BY <1>1, <1>2, <1>3 DEF RequestOK, Carries, FollowsReads, NumberStands, HitsPublished, Standing,
     Reading, Places, Request, PublishedBut
<1>7. ASSUME NEW p \in Requests \ {q} PROVE Excludes(req[p], x) /\ Excludes(x, req[p])
  <2>1. \A u \in h : ~RowLocked(q, u)
    BY <1>2 DEF PublishArchive
  <2>2. Excludes(x, req[p])
    BY <1>1 DEF Excludes, Request
  <2>3. ASSUME req[p].pc = "commit" PROVE req[p].target \notin h
    BY <2>1, <2>3 DEF RowLocked, At
  <2>4. ASSUME req[p].pc = "commit", req[p].op = "publish" PROVE h = {}
    <3>1. PublishedBut(req[p].target) = req[p].hit
      BY <2>4 DEF Inv, RequestOK, HitsPublished
    <3>2. ASSUME NEW u \in h PROVE FALSE
      <4>1. u \in req[p].hit
        BY <1>2, <2>3, <2>4, <3>1, <3>2 DEF PublishedBut
      <4> QED
        BY <2>1, <2>4, <3>2, <4>1 DEF RowLocked, At
    <3> QED
      BY <3>2
  <2>5. Excludes(req[p], x)
    BY <1>1, <2>3, <2>4 DEF Excludes, Request
  <2> QED
    BY <2>2, <2>5
<1> HIDE DEF x
<1> QED
  BY <1>4, <1>5, <1>6, <1>7, ReqStep

\* A publication passes its compare-and-swap and the index.
LEMMA PublishCasStep ==
  ASSUME Inv, NEW q \in Requests, PublishCas(q)
  PROVE  Inv'
<1> DEFINE x == [req[q] EXCEPT !.pc = "commit"]
<1>1. req[q] \in Request /\ RequestOK(req[q]) /\ req[q].pc = "cas" /\ req[q].op = "publish"
  BY DEF Inv, TypeOK, PublishCas, At
<1>2. Standing(req[q]) /\ PublishedBut(req[q].target) = req[q].hit
  BY <1>1 DEF RequestOK, HitsPublished, Reading, Places, Standing, PublishCas, Unmoved
<1>3. x \in Request
  BY <1>1 DEF Request, Places
<1>4. RequestOK(x)
  BY <1>1, <1>2 DEF RequestOK, Carries, FollowsReads, NumberStands, HitsPublished, Standing,
     Reading, Places, Request
<1>5. ASSUME NEW p \in Requests \ {q} PROVE Excludes(req[p], x) /\ Excludes(x, req[p])
  <2>1. ~RowLocked(q, req[q].target) /\ ~IndexBusy(q)
    BY DEF PublishCas
  <2>2. Excludes(req[p], req[q])
    BY DEF Inv
  <2>3. Excludes(x, req[p])
    BY <1>1, <2>1 DEF Excludes, RowLocked, IndexBusy, At, Request
  <2>4. Excludes(req[p], x)
    BY <1>1, <2>1, <2>2 DEF Excludes, RowLocked, IndexBusy, At, Request
  <2> QED
    BY <2>3, <2>4
<1>6. UNCHANGED rows /\ req' = [req EXCEPT ![q] = x]
  BY DEF PublishCas, Goto
<1> HIDE DEF x
<1> QED
  BY <1>3, <1>4, <1>5, <1>6, ReqStep

-----------------------------------------------------------------------------
(* The steps that write rows *)

\* A request keeps all it carries, but for the flag stranded.
Kept(p) ==
  /\ req'[p].pc = req[p].pc /\ req'[p].op = req[p].op /\ req'[p].target = req[p].target
  /\ req'[p].expected = req[p].expected /\ req'[p].seen = req[p].seen
  /\ req'[p].new = req[p].new /\ req'[p].hit = req[p].hit

\* A new row is no concern of the requests under way.
LEMMA NewRowStep ==
  ASSUME Inv, NEW v \in Versions, NEW c \in Maybe, NEW s \in Maybe, NewRow(v, c, s),
         c # None => s = c,
         req' \in [Requests -> Request],
         \A p \in Requests : req'[p] = req[p] \/ req'[p].pc \in {"idle", "copy"}
  PROVE  Inv'
<1>1. /\ \A u \in Versions \ {v} : /\ status'[u] = status[u] /\ version'[u] = version[u]
                                   /\ content'[u] = content[u] /\ score'[u] = score[u]
      /\ status[v] = "NONE" /\ status'[v] = "DRAFT" /\ version'[v] = 1
      /\ content'[v] = c /\ score'[v] = s /\ pointer' = pointer /\ verified' = verified
  BY DEF NewRow, Inv, TypeOK
<1>2. TypeOK'
  BY DEF NewRow, Inv, TypeOK, Statuses
<1>3. PublishedIsCurrent' /\ PublishedIsVerified' /\ ScoreMatches'
  BY <1>1 DEF Inv, TypeOK, PublishedIsCurrent, PublishedIsVerified, ScoreMatches
<1>4. ASSUME NEW p \in Requests PROVE RequestOK(req[p])'
  <2>1. CASE req'[p].pc \in {"idle", "copy"}
    BY <2>1 DEF RequestOK, Carries, FollowsReads, NumberStands, HitsPublished, Standing, Reading
  <2>2. CASE req'[p] = req[p]
    <3>1. req[p] \in Request /\ RequestOK(req[p])
      BY DEF Inv, TypeOK
    <3>2. Reading(req[p]) => req[p].target \in Versions \ {v}
      BY <1>1, <3>1 DEF RequestOK, Carries
    <3>3. \A t \in Versions : PublishedBut(t)' = PublishedBut(t)
      BY <1>1 DEF PublishedBut
    <3> QED
      BY <1>1, <2>2, <3>1, <3>2, <3>3 DEF RequestOK, Carries, FollowsReads, NumberStands,
         HitsPublished, Standing, Reading, Places
  <2> QED
    BY <2>1, <2>2
<1>5. ASSUME NEW p \in Requests, NEW o \in Requests, p # o PROVE Excludes(req[p], req[o])'
  BY <1>5 DEF Inv, Excludes
<1> QED
  BY <1>2, <1>3, <1>4, <1>5 DEF Inv

\* A single statement: its row is held by no transaction, the number moves on.
LEMMA UpdateStep ==
  ASSUME Inv, NEW q \in Requests, Update(q)
  PROVE  Inv'
<1> DEFINE r == req[q]
<1>1. r \in Request /\ RequestOK(r) /\ r.pc = "update"
  BY DEF Inv, TypeOK, Update, At
<1> SUFFICES ASSUME NEW v \in Versions, v = r.target, NEW o \in Ops, o = r.op PROVE Inv'
  BY <1>1 DEF RequestOK, Carries, Reading, Places, Ops
<1>2. /\ version[v] = r.expected /\ version[v] < MaxVersion /\ status[v] # "NONE"
      /\ r.seen = score[v] /\ r.seen \in Maybe
      /\ o \in {"submit", "sendback", "archive", "rename"}
      /\ o = "submit" => status[v] = "DRAFT"
      /\ o = "sendback" => status[v] = "REVIEW"
  BY <1>1 DEF RequestOK, Carries, NumberStands, Standing, Reading, Places, Needs, Update, Unmoved,
     Request
<1>3. /\ status' = [status EXCEPT ![v] = After(o, @)]
      /\ version' = [version EXCEPT ![v] = @ + 1]
      /\ score' = score /\ content' = content /\ pointer' = pointer /\ verified' = verified
      /\ req' = [req EXCEPT ![q] = Idle]
  BY <1>2 DEF Update, End, Inv, TypeOK
<1>4. /\ After(o, status[v]) \in Statuses \ {"NONE"}
      /\ After(o, status[v]) = "PUBLISHED" => status[v] = "PUBLISHED"
  BY <1>2 DEF After, Statuses, Inv, TypeOK
<1>5. /\ \A u \in Versions \ {v} : status'[u] = status[u] /\ version'[u] = version[u]
      /\ status'[v] = After(o, status[v]) /\ version'[v] = version[v] + 1
      /\ version \in [Versions -> Nat]
  BY <1>3 DEF Inv, TypeOK
<1>6. TypeOK'
  <2>1. version[v] + 1 \in 0..MaxVersion
    BY <1>2, <1>5
  <2> QED
    BY <1>3, <1>4, <2>1, IdleRequest DEF Inv, TypeOK
<1>7. PublishedIsCurrent' /\ PublishedIsVerified' /\ ScoreMatches'
  BY <1>3, <1>4, <1>5 DEF Inv, PublishedIsCurrent, PublishedIsVerified, ScoreMatches
<1>8. ASSUME NEW p \in Requests \ {q} PROVE RequestOK(req[p])'
  <2>1. req[p] \in Request /\ RequestOK(req[p]) /\ req'[p] = req[p]
    BY <1>3 DEF Inv, TypeOK
  <2>2. /\ req[p].pc \in {"cas", "commit"} => v \notin req[p].hit
        /\ req[p].pc = "commit" => v # req[p].target
    BY DEF Update, RowLocked, At
  <2>3. req[p].expected \in Nat
    BY <2>1 DEF Request
  <2>4. Carries(req[p])'
    BY <1>4, <1>5, <2>1, <2>3 DEF RequestOK, Carries, Reading
  <2>5. FollowsReads(req[p])'
    BY <1>3, <1>5, <2>1, <2>2 DEF RequestOK, FollowsReads, Carries, Reading, Places
  <2>6. NumberStands(req[p])'
    BY <1>3, <1>5, <2>1, <2>3 DEF RequestOK, NumberStands, Carries, Standing, Reading
  <2>7. HitsPublished(req[p])'
    BY <1>4, <1>5, <2>1, <2>2 DEF RequestOK, HitsPublished, Reading, PublishedBut
  <2> QED
    BY <2>4, <2>5, <2>6, <2>7 DEF RequestOK
<1>9. RequestOK(req[q])'
  BY <1>3 DEF Idle, Inv, TypeOK, RequestOK, Carries, FollowsReads, NumberStands, HitsPublished, Standing, Reading
<1>10. ASSUME NEW p1 \in Requests, NEW p2 \in Requests, p1 # p2 PROVE Excludes(req[p1], req[p2])'
  BY <1>3, <1>10 DEF Idle, Inv, TypeOK, Excludes
<1> QED
  BY <1>6, <1>7, <1>8, <1>9, <1>10 DEF Inv

\* An edit commits: the number moves on, no other transaction is at commit on it.
LEMMA EditCommitStep ==
  ASSUME Inv, NEW q \in Requests, EditCommit(q)
  PROVE  Inv'
<1> DEFINE r == req[q]
<1>1. r \in Request /\ RequestOK(r) /\ r.pc = "commit" /\ r.op = "edit"
  BY DEF Inv, TypeOK, EditCommit, At
<1> SUFFICES ASSUME NEW v \in Versions, v = r.target, NEW c \in Contents, c = r.new PROVE Inv'
  BY <1>1 DEF RequestOK, Carries, Reading, Places
<1>2. version[v] = r.expected /\ version[v] < MaxVersion /\ status[v] = "DRAFT"
  BY <1>1 DEF RequestOK, Carries, FollowsReads, Reading, Places, Needs
<1>3. /\ status' = status /\ pointer' = pointer /\ verified' = verified
      /\ content' = [content EXCEPT ![v] = c] /\ score' = [score EXCEPT ![v] = c]
      /\ version' = [version EXCEPT ![v] = @ + 1]
  BY DEF EditCommit
<1>4. /\ \A u \in Versions \ {v} : /\ version'[u] = version[u]
                                   /\ content'[u] = content[u] /\ score'[u] = score[u]
      /\ version'[v] = version[v] + 1 /\ content'[v] = c /\ score'[v] = c
      /\ version \in [Versions -> Nat]
  BY <1>3 DEF Inv, TypeOK
<1>5. /\ req' \in [Requests -> Request] /\ req'[q] = Idle
      /\ \A p \in Requests \ {q} : Kept(p)
  <2>1. \A p \in Requests \ {q} : req'[p] \in {req[p], [req[p] EXCEPT !.stranded = TRUE]}
    BY DEF EditCommit
  <2>2. ASSUME NEW p \in Requests \ {q} PROVE req'[p] \in Request /\ Kept(p)
    <3>1. req[p] \in Request
      BY DEF Inv, TypeOK
    <3>2. CASE req'[p] = req[p]
      BY <3>1, <3>2 DEF Kept
    <3>3. CASE req'[p] = [req[p] EXCEPT !.stranded = TRUE]
      <4>1. req'[p] \in Request
        BY <3>1, <3>3 DEF Request
      <4>2. Kept(p)
        BY <3>1, <3>3 DEF Request, Kept
      <4> QED
        BY <4>1, <4>2
    <3> QED
      BY <2>1, <3>2, <3>3
  <2>3. req'[q] = Idle /\ req' = [p \in Requests |-> req'[p]]
    BY DEF EditCommit
  <2> QED
    BY <2>2, <2>3, IdleRequest
<1>6. TypeOK'
  <2>1. version[v] + 1 \in 0..MaxVersion
    BY <1>2, <1>4
  <2> QED
    BY <1>3, <1>5, <2>1 DEF Inv, TypeOK, Maybe
<1>7. PublishedIsCurrent' /\ PublishedIsVerified' /\ ScoreMatches'
  BY <1>2, <1>3, <1>4 DEF Inv, PublishedIsCurrent, PublishedIsVerified, ScoreMatches
<1>8. ASSUME NEW p \in Requests \ {q} PROVE RequestOK(req[p])'
  <2>1. req[p] \in Request /\ RequestOK(req[p]) /\ Kept(p)
    BY <1>5 DEF Inv, TypeOK
  <2>2. req[p].pc = "commit" => v # req[p].target
    BY <1>1 DEF Inv, Excludes
  <2>3. req[p].expected \in Nat
    BY <2>1 DEF Request
  <2>4. Carries(req[p])'
    BY <1>3, <1>4, <2>1, <2>3 DEF RequestOK, Carries, Reading, Kept
  <2>5. FollowsReads(req[p])'
    BY <1>3, <1>4, <2>1, <2>2 DEF RequestOK, FollowsReads, Carries, Reading, Places, Kept
  <2>6. NumberStands(req[p])'
    BY <1>3, <1>4, <2>1, <2>3 DEF RequestOK, NumberStands, Carries, Standing, Reading, Kept
  <2>7. HitsPublished(req[p])'
    BY <1>3, <2>1 DEF RequestOK, HitsPublished, Reading, PublishedBut, Kept
  <2> QED
    BY <2>4, <2>5, <2>6, <2>7 DEF RequestOK
<1>9. RequestOK(req[q])'
  BY <1>5 DEF Idle, RequestOK, Carries, FollowsReads, NumberStands, HitsPublished, Standing, Reading
<1>10. ASSUME NEW p1 \in Requests, NEW p2 \in Requests, p1 # p2 PROVE Excludes(req[p1], req[p2])'
  BY <1>5, <1>10 DEF Idle, Inv, Excludes, Kept
<1> QED
  BY <1>6, <1>7, <1>8, <1>9, <1>10 DEF Inv

\* A publication commits: all that was published is archived.
LEMMA PublishCommitStep ==
  ASSUME Inv, NEW q \in Requests, PublishCommit(q)
  PROVE  Inv'
<1> DEFINE r == req[q]
<1>1. r \in Request /\ RequestOK(r) /\ r.pc = "commit" /\ r.op = "publish"
  BY DEF Inv, TypeOK, PublishCommit, At
<1> SUFFICES ASSUME NEW v \in Versions, v = r.target PROVE Inv'
  BY <1>1 DEF RequestOK, Carries, Reading, Places
<1>2. /\ version[v] = r.expected /\ version[v] < MaxVersion /\ status[v] = "REVIEW"
      /\ r.hit = PublishedBut(v) /\ r.new \in Contents /\ r.new = content[v]
  BY <1>1 DEF RequestOK, Carries, FollowsReads, HitsPublished, Reading, Places, Needs
<1>3. /\ version' = [version EXCEPT ![v] = @ + 1]
      /\ pointer' = v /\ verified' = [verified EXCEPT ![v] = content[v]]
      /\ req' = [req EXCEPT ![q] = Idle]
      /\ score' = score /\ content' = content
  BY <1>2 DEF PublishCommit, End
<1>4. /\ \A u \in Versions \ {v} : version'[u] = version[u]
      /\ version'[v] = version[v] + 1 /\ version \in [Versions -> Nat]
      /\ verified'[v] = content[v] /\ content[v] # None
  BY <1>2, <1>3 DEF Inv, TypeOK
<1>5. \A u \in Versions : status'[u] = IF u = v THEN "PUBLISHED"
                                     ELSE IF status[u] = "PUBLISHED" THEN "ARCHIVED" ELSE status[u]
  BY <1>2 DEF PublishCommit, PublishedBut
<1>6. TypeOK'
  <2>1. version[v] + 1 \in 0..MaxVersion
    BY <1>2, <1>4
  <2>2. status' \in [Versions -> Statuses]
    BY <1>5 DEF PublishCommit, Inv, TypeOK, Statuses
  <2>3. verified' \in [Versions -> Maybe]
    BY <1>3 DEF Inv, TypeOK
  <2> QED
    BY <1>3, <2>1, <2>2, <2>3, IdleRequest DEF Inv, TypeOK
<1>7. PublishedIsCurrent' /\ PublishedIsVerified' /\ ScoreMatches'
  BY <1>3, <1>4, <1>5 DEF Inv, PublishedIsCurrent, PublishedIsVerified, ScoreMatches
<1>8. ASSUME NEW p \in Requests \ {q} PROVE RequestOK(req[p])'
  <2>1. req[p] \in Request /\ RequestOK(req[p]) /\ req'[p] = req[p]
    BY <1>3 DEF Inv, TypeOK
  <2>2. /\ req[p].pc = "commit" => v # req[p].target
        /\ req[p].op = "publish" =>
             req[p].pc # "commit" /\ (req[p].pc = "cas" => req[p].hit = {})
    BY <1>1 DEF Inv, Excludes
  <2>3. req[p].expected \in Nat
    BY <2>1 DEF Request
  <2>4. Carries(req[p])'
    BY <1>4, <1>5, <2>1, <2>3 DEF RequestOK, Carries, Reading
  <2>5. FollowsReads(req[p])'
    <3>1. req[p].pc = "commit" => req[p].op = "edit" /\ status[req[p].target] = "DRAFT"
      BY <2>1, <2>2 DEF RequestOK, Carries, FollowsReads, Reading, Places, Needs
    <3> QED
      BY <1>3, <1>4, <1>5, <2>1, <2>2, <3>1 DEF RequestOK, FollowsReads, Carries, Reading, Places
  <2>6. NumberStands(req[p])'
    <3>1. ASSUME Standing(req[p]), req[p].target # v
          PROVE  \/ status'[req[p].target] \in Needs(req[p].op)
                 \/ req[p].op = "archive" /\ status'[req[p].target] = "ARCHIVED"
      BY <1>5, <2>1, <3>1 DEF RequestOK, NumberStands, Carries, Standing, Needs, Statuses
    <3> QED
      BY <1>3, <1>4, <2>1, <2>3, <3>1 DEF RequestOK, NumberStands, Carries, Standing, Reading
  <2>7. HitsPublished(req[p])'
    BY <2>1, <2>2 DEF RequestOK, HitsPublished, Reading
  <2> QED
    BY <2>4, <2>5, <2>6, <2>7 DEF RequestOK
<1>9. RequestOK(req[q])'
  BY <1>3 DEF Idle, Inv, TypeOK, RequestOK, Carries, FollowsReads, NumberStands, HitsPublished, Standing, Reading
<1>10. ASSUME NEW p1 \in Requests, NEW p2 \in Requests, p1 # p2 PROVE Excludes(req[p1], req[p2])'
  BY <1>3, <1>10 DEF Idle, Inv, TypeOK, Excludes
<1> QED
  BY <1>6, <1>7, <1>8, <1>9, <1>10 DEF Inv

-----------------------------------------------------------------------------
(* Theorems *)

\* The initial states satisfy the invariant.
LEMMA InitInv == Init => Inv
<1> SUFFICES ASSUME Init PROVE Inv
  OBVIOUS
<1>1. TypeOK
  BY IdleRequest DEF Init, TypeOK, Statuses, Maybe
<1> QED
  BY <1>1 DEF Init, Inv, Idle, PublishedIsCurrent, PublishedIsVerified, ScoreMatches, RequestOK,
     Carries, FollowsReads, NumberStands, HitsPublished, Excludes, Standing, Reading

\* Every step preserves the invariant.
LEMMA NextInv == Inv /\ [Next]_vars => Inv'
<1> SUFFICES ASSUME Inv, [Next]_vars PROVE Inv'
  OBVIOUS
<1>1. ASSUME NEW v \in Versions, NEW c \in Contents, WorkerDraft(v, c) PROVE Inv'
  BY <1>1, NewRowStep DEF WorkerDraft, Maybe, Inv, TypeOK
<1>2. ASSUME NEW q \in Requests, NEW v \in Versions, NEW s \in Maybe, CreateVersion(q, v, s)
      PROVE  Inv'
  <2> DEFINE x == [Idle EXCEPT !.pc = "copy", !.target = v, !.new = s]
  <2>1. x \in Request /\ x.pc = "copy"
    BY IdleRequest DEF Idle, Request, Places
  <2>2. req' = req \/ req' = [req EXCEPT ![q] = x]
    BY <1>2 DEF CreateVersion
  <2>3. NewRow(v, None, s) /\ None \in Maybe
    BY <1>2 DEF CreateVersion, Maybe
  <2> HIDE DEF x
  <2>4. /\ req' \in [Requests -> Request]
        /\ \A p \in Requests : req'[p] = req[p] \/ req'[p].pc \in {"idle", "copy"}
    BY <2>1, <2>2 DEF Inv, TypeOK
  <2> QED
    BY <2>3, <2>4, NewRowStep
<1>3. ASSUME NEW q \in Requests, CopyAssignments(q) \/ Abort(q) \/ Conflict(q) PROVE Inv'
  BY <1>3, EndStep DEF CopyAssignments, Abort, Conflict
<1>4. ASSUME NEW q \in Requests, EditDuplicate(q) \/ PublishDuplicate(q) PROVE Inv'
  BY <1>4, EndStep DEF EditDuplicate, PublishDuplicate
<1>5. ASSUME NEW q \in Requests, NEW o \in Ops, NEW v \in Versions, Load(q, o, v) PROVE Inv'
  BY <1>5, LoadStep
<1>6. ASSUME NEW q \in Requests, NEW c \in Contents, List(q, c) PROVE Inv'
  BY <1>6, ListStep
<1>7. ASSUME NEW q \in Requests, Begin(q) \/ EditDelete(q) \/ EditCas(q) \/ PublishArchive(q)
                                \/ PublishCas(q)
      PROVE  Inv'
  BY <1>7, BeginStep, EditDeleteStep, EditCasStep, PublishArchiveStep, PublishCasStep
<1>8. ASSUME NEW q \in Requests, Update(q) \/ EditCommit(q) \/ PublishCommit(q) PROVE Inv'
  BY <1>8, UpdateStep, EditCommitStep, PublishCommitStep
<1>9. CASE UNCHANGED vars
  BY <1>9 DEF vars, rows, Inv, TypeOK, PublishedIsCurrent, PublishedIsVerified, ScoreMatches,
     RequestOK, Carries, FollowsReads, NumberStands, HitsPublished, Excludes, Standing, Reading,
     PublishedBut
<1> QED
  BY <1>1, <1>2, <1>3, <1>4, <1>5, <1>6, <1>7, <1>8, <1>9 DEF Next

\* Every reachable state satisfies the invariant, types included.
THEOREM Invariance == Spec => []Inv
<1> QED
  BY InitInv, NextInv, PTL DEF Spec

\* However requests overlap, at most one version is published and the
\* timetable points at it.
THEOREM OnePublished == Spec => []PublishedIsCurrent
<1>1. Inv => PublishedIsCurrent
  BY DEF Inv
<1> QED
  BY <1>1, Invariance, PTL

\* What is published is what the verifier saw.
THEOREM PublishedAsVerified == Spec => []PublishedIsVerified
<1>1. Inv => PublishedIsVerified
  BY DEF Inv
<1> QED
  BY <1>1, Invariance, PTL

\* A version with assignments has their score.
THEOREM ScoreOfAssignments == Spec => []ScoreMatches
<1>1. Inv => ScoreMatches
  BY DEF Inv
<1> QED
  BY <1>1, Invariance, PTL

\* A transaction commits on the version and the assignments it has read.
THEOREM NoLostUpdate == Spec => []WritesFollowReads
<1>1. Inv => WritesFollowReads
  BY DEF Inv, RequestOK, WritesFollowReads
<1> QED
  BY <1>1, Invariance, PTL

\* The statements of all requests, interleaved at will, amount to atomic
\* operations that follow the lifecycle.
THEOREM Refinement == Spec => ImplementsLifecycle
<1>1. Init => Abstract!Init
  BY DEF Init, Abstract!Init
<1>2. Inv /\ [Next]_vars => [Abstract!Next]_<<status, content, score, pointer>>
  <2> SUFFICES ASSUME Inv, Next, ~UNCHANGED <<status, content, score, pointer>>
               PROVE  Abstract!Next
    BY DEF vars, rows
  <2>1. ASSUME NEW v \in Versions, NEW c \in Maybe, NEW s \in Maybe, NewRow(v, c, s)
        PROVE  Abstract!Next
    BY <2>1 DEF NewRow, Abstract!Next, Abstract!Draft, Maybe
  <2>2. ASSUME NEW q \in Requests, Update(q) PROVE Abstract!Next
    <3>1. req[q] \in Request /\ RequestOK(req[q]) /\ req[q].pc = "update" /\ Unmoved(q)
      BY <2>2 DEF Inv, TypeOK, Update, At
    <3> SUFFICES ASSUME NEW v \in Versions, v = req[q].target, NEW o \in Ops, o = req[q].op
                 PROVE  Abstract!Next
      BY <3>1 DEF RequestOK, Carries, Reading, Places, Ops
    <3>2. /\ o \in {"submit", "sendback", "archive", "rename"} /\ req[q].seen = score[v]
          /\ o = "submit" => status[v] = "DRAFT"
          /\ o = "sendback" => status[v] = "REVIEW"
          /\ o = "archive" => status[v] \in {"DRAFT", "PUBLISHED", "ARCHIVED"}
      BY <3>1 DEF RequestOK, Carries, NumberStands, Standing, Reading, Places, Needs, Unmoved
    <3>3. /\ status' = [status EXCEPT ![v] = After(o, @)]
          /\ score' = score /\ content' = content /\ pointer' = pointer
      BY <2>2, <3>2 DEF Update, Inv, TypeOK
    <3>4. o # "rename" /\ status[v] # "ARCHIVED"
      BY <3>2, <3>3 DEF After, Inv, TypeOK
    <3> QED
      BY <3>2, <3>3, <3>4 DEF After, Abstract!Next, Abstract!Submit, Abstract!SendBack,
         Abstract!Archive, Abstract!Move
  <2>3. ASSUME NEW q \in Requests, EditCommit(q) PROVE Abstract!Next
    <3>1. RequestOK(req[q]) /\ req[q].pc = "commit" /\ req[q].op = "edit"
      BY <2>3 DEF Inv, EditCommit, At
    <3>2. /\ req[q].target \in Versions /\ req[q].new \in Contents
          /\ status[req[q].target] = "DRAFT"
      BY <3>1 DEF RequestOK, Carries, FollowsReads, Reading, Places, Needs
    <3> QED
      BY <2>3, <3>2 DEF EditCommit, Abstract!Next, Abstract!Edit
  <2>4. ASSUME NEW q \in Requests, PublishCommit(q) PROVE Abstract!Next
    <3>1. RequestOK(req[q]) /\ req[q].pc = "commit" /\ req[q].op = "publish"
      BY <2>4 DEF Inv, PublishCommit, At
    <3>2. /\ req[q].target \in Versions /\ status[req[q].target] = "REVIEW"
          /\ content[req[q].target] \in Contents /\ req[q].hit = PublishedBut(req[q].target)
      BY <3>1 DEF RequestOK, Carries, FollowsReads, HitsPublished, Reading, Places, Needs
    <3> QED
      BY <2>4, <3>2 DEF PublishCommit, PublishedBut, Abstract!Next, Abstract!Publish
  <2> QED
    BY <2>1, <2>2, <2>3, <2>4 DEF Next, WorkerDraft, CreateVersion, Maybe, CopyAssignments, Load,
       List, Abort, Conflict, Begin, EditDelete, EditDuplicate, EditCas, PublishArchive, PublishCas,
       PublishDuplicate, rows
<1> QED
  BY <1>1, <1>2, Invariance, PTL DEF Spec, ImplementsLifecycle, Abstract!Spec
=============================================================================
