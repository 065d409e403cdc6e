--------------------------- MODULE SyncSolveProofs ---------------------------
(***************************************************************************)
(* SyncSolve and Snapshots, for any catalogue, any number of captures and  *)
(* requests.  The invariant says what a capture has read so far, and what  *)
(* a request at each of its places knows of its run.                       *)
(***************************************************************************)
EXTENDS SyncSolve, TLAPS

\* Every table that is behind the capture and did not fail has been read; of the terms,
\* which come in the order of their names, what was read comes before what was not.
CaptureOK(c) ==
  /\ read[c] \subseteq catalogue \cap Own /\ began[c] \subseteq catalogue
  /\ table[c] = 0 => read[c] = {}
  /\ table[c] \in 1 .. NumTables + 1 =>
       \A t \in Tables \ failed[c] : t < table[c] => Of(began[c] \cap Own, t) \subseteq read[c]
  /\ \A x \in Terms(read[c]), y \in Terms(began[c] \cap Own) \ read[c] : Place[x] <= Place[y]

SnapshotOK(s) ==
  /\ s.rows \subseteq catalogue \cap Own
  /\ \A t \in Tables \ (s.failed \cup {TermTable}) : Of(s.began \cap Own, t) \subseteq s.rows
  /\ \A x, y \in Terms(s.rows) : x = y
  /\ \A x \in Terms(s.rows), y \in Terms(s.began \cap Own) : Place[x] <= Place[y]
  /\ Terms(s.rows) = {} /\ Terms(s.began \cap Own) # {} => TermTable \in s.failed

CaptureInv ==
  /\ SnapshotsTypeOK
  /\ \A c \in Captures : CaptureOK(c)
  /\ \A n \in DOMAIN snapshots : SnapshotOK(snapshots[n])

\* The run as its request finds it, unless a user has cancelled it.
Open(q) == status[q] \in {"RUNNING", "CANCELLED"}

HasSource(q) == source[q] \in DOMAIN snapshots

Good(q) == q \in pinned /\ HasSource(q) /\ Valid(snapshots[source[q]].rows)

RequestOK(q) ==
  /\ version[q] = 1 <=> status[q] = "RUNNING"
  /\ pc[q] # "over" => answer[q] = "none"
  /\ pc[q] \in {"start", "create"} => status[q] = "NONE"
  /\ pc[q] \in {"create", "solve"} => HasSource(q)
  /\ pc[q] \in {"start", "create", "solve"} => result[q] = "none"
  /\ pc[q] \in {"solve", "pin", "record"} => Open(q)
  /\ pc[q] = "pin" => /\ result[q] = "SOLVED" /\ HasSource(q)
                      /\ Valid(snapshots[source[q]].rows)
  /\ pc[q] = "record" => result[q] \in Results /\ (result[q] = "SOLVED" => Good(q))
  /\ answer[q] \in Results =>
       \/ status[q] = answer[q] \/ status[q] = "CANCELLED"
       \/ status[q] = "RUNNING" /\ answer[q] = "INVALID_PROBLEM" /\ result[q] = "none"
  /\ answer[q] = "FAILED" => Open(q)
  /\ "SOLVED" \in {status[q], answer[q]} => Good(q)

IInv == TypeOK /\ CaptureInv /\ \A q \in Requests : RequestOK(q)

-----------------------------------------------------------------------------
(* The captures. *)

LEMMA CaptureInit == SnapshotsInit => CaptureInv
<1> SUFFICES ASSUME SnapshotsInit PROVE CaptureInv
  OBVIOUS
<1> USE CatalogueAssumption DEF SnapshotsInit
<1>1. SnapshotsTypeOK
  BY DEF SnapshotsTypeOK, Tables
<1>2. \A c \in Captures : CaptureOK(c)
  BY DEF CaptureOK, Terms, Of
<1> QED
  BY <1>1, <1>2 DEF CaptureInv

\* What a snapshot holds: everything that was read, and of the terms the first.
LEMMA TermChosen ==
  ASSUME NEW S, NEW term, term \in TermOf(S)
  PROVE  LET rows == Contents(S, term) IN
         /\ rows \subseteq S /\ S \ Terms(S) \subseteq rows
         /\ \A x, y \in Terms(rows) : x = y
         /\ \A x \in Terms(rows), y \in Terms(S) : Place[x] <= Place[y]
         /\ Terms(rows) = {} => Terms(S) = {}
<1> DEFINE rows == Contents(S, term)
<1>1. CASE Terms(S) = {}
  BY <1>1 DEF TermOf, Terms, Of, Contents
<1>2. CASE Terms(S) # {}
  <2>1. PICK x \in FirstTerms(S) : term = {x}
    BY <1>2 DEF TermOf
  <2>2. x \in S /\ x \in Terms(S) /\ \A y \in Terms(S) : Place[x] <= Place[y]
    BY <2>1 DEF FirstTerms, Terms, Of
  <2>3. Terms(rows) = {x}
    BY <2>1, <2>2 DEF Terms, Of, Contents
  <2>4. rows \subseteq S /\ S \ Terms(S) \subseteq rows
    BY <2>1, <2>2 DEF Contents
  <2> QED
    BY <2>2, <2>3, <2>4
<1> QED
  BY <1>1, <1>2

LEMMA CaptureStep == CaptureInv /\ [SnapshotsNext]_catalogueVars => CaptureInv'
<1> SUFFICES ASSUME CaptureInv, [SnapshotsNext]_catalogueVars PROVE CaptureInv'
  OBVIOUS
<1> USE CatalogueAssumption DEF CaptureInv, Tables
<1>1. CASE UNCHANGED catalogueVars
  <2>1. SnapshotsTypeOK'
    BY <1>1 DEF catalogueVars, captures, SnapshotsTypeOK
  <2>2. \A c \in Captures : CaptureOK(c)'
    BY <1>1 DEF catalogueVars, captures, CaptureOK, Of, Terms
  <2> QED
    BY <1>1, <2>1, <2>2 DEF catalogueVars, SnapshotOK, Of, Terms
<1>2. ASSUME NEW r \in Rows, Insert(r) PROVE CaptureInv'
  <2>1. SnapshotsTypeOK' /\ catalogue \subseteq catalogue'
    BY <1>2 DEF Insert, captures, SnapshotsTypeOK
  <2>2. \A c \in Captures : CaptureOK(c)'
    BY <1>2, <2>1 DEF Insert, captures, CaptureOK, Of, Terms
  <2> QED
    BY <1>2, <2>1, <2>2 DEF Insert, SnapshotOK, Of, Terms
<1>3. ASSUME NEW c \in Captures, BeginCapture(c) PROVE CaptureInv'
  <2>1. SnapshotsTypeOK'
    BY <1>3 DEF BeginCapture, SnapshotsTypeOK
  <2>2. \A d \in Captures : CaptureOK(d)'
    <3> SUFFICES ASSUME NEW d \in Captures PROVE CaptureOK(d)'
      OBVIOUS
    <3>1. CASE d # c
      BY <1>3, <3>1 DEF BeginCapture, SnapshotsTypeOK, CaptureOK, Of, Terms
    <3>2. CASE d = c
      <4>1. read[c] = {}
        BY <1>3 DEF BeginCapture, CaptureOK
      <4> QED
        BY <1>3, <3>2, <4>1 DEF BeginCapture, SnapshotsTypeOK, CaptureOK, Terms, Of
    <3> QED
      BY <3>1, <3>2
  <2> QED
    BY <1>3, <2>1, <2>2 DEF BeginCapture, SnapshotOK, Of, Terms
<1>4. ASSUME NEW c \in Captures, ReadTable(c) \/ ReadFails(c) PROVE CaptureInv'
  <2>1. SnapshotsTypeOK'
    <3>1. table' = [table EXCEPT ![c] = table[c] + 1] /\ table[c] \in 1 .. NumTables
      BY <1>4 DEF ReadTable, ReadFails, SnapshotsTypeOK
    <3>2. table' \in [Captures -> 0 .. NumTables + 2]
      BY <3>1 DEF SnapshotsTypeOK
    <3>3. read' \in [Captures -> SUBSET Rows]
      <4>1. PICK got \in SUBSET Rows : read' = [read EXCEPT ![c] = read[c] \cup got]
        BY <1>4 DEF ReadTable, ReadFails, Found, Present, Of, SnapshotsTypeOK
      <4> QED
        BY <4>1 DEF SnapshotsTypeOK
    <3>4. failed' \in [Captures -> SUBSET Tables]
      <4>1. failed' = failed \/ failed' = [failed EXCEPT ![c] = failed[c] \cup {table[c]}]
        BY <1>4 DEF ReadTable, ReadFails
      <4>2. failed \in [Captures -> SUBSET Tables]
        BY DEF SnapshotsTypeOK
      <4>3. failed[c] \cup {table[c]} \in SUBSET Tables
        BY <3>1, <4>2
      <4> HIDE DEF Tables
      <4> QED
        BY <4>1, <4>2, <4>3
    <3> QED
      BY <1>4, <3>2, <3>3, <3>4 DEF ReadTable, ReadFails, SnapshotsTypeOK
  <2>2. \A d \in Captures \ {c} : CaptureOK(d)'
    BY <1>4 DEF ReadTable, ReadFails, SnapshotsTypeOK, CaptureOK, Of, Terms
  <2>3. /\ read'[c] \subseteq catalogue \cap Own /\ read[c] \subseteq read'[c]
        /\ table'[c] = table[c] + 1 /\ table[c] \in Tables
        /\ UNCHANGED <<began, catalogue>>
        /\ failed[c] \subseteq failed'[c]
        /\ table[c] \notin failed'[c] => Present(table[c]) \subseteq read'[c]
    <3>1. Found(c) \subseteq catalogue \cap Own /\ Found(c) = Present(table[c])
      BY DEF Found, Present, Of
    <3>2. PICK got : /\ got \subseteq Found(c) /\ read'[c] = read[c] \cup got
                     /\ table[c] \notin failed'[c] => got = Found(c)
      BY <1>4 DEF ReadTable, ReadFails, SnapshotsTypeOK
    <3>3. /\ table'[c] = table[c] + 1 /\ table[c] \in Tables
          /\ UNCHANGED <<began, catalogue>>
          /\ failed[c] \subseteq failed'[c]
      BY <1>4 DEF ReadTable, ReadFails, SnapshotsTypeOK
    <3>4. read[c] \subseteq catalogue \cap Own
      BY DEF CaptureOK
    <3>5. read'[c] \subseteq catalogue \cap Own
      BY <3>1, <3>2, <3>4
    <3>6. table[c] \notin failed'[c] => Present(table[c]) \subseteq read'[c]
      BY <3>1, <3>2
    <3> QED
      BY <3>2, <3>3, <3>5, <3>6
  <2>4. ASSUME NEW x \in Terms(read'[c]), NEW y \in Terms(began[c] \cap Own) \ read'[c]
        PROVE  Place[x] <= Place[y]
    <3>1. PICK got \in SUBSET Found(c) :
            read'[c] = read[c] \cup got /\ Beginning(got, Found(c))
      BY <1>4 DEF ReadTable, ReadFails, SnapshotsTypeOK, Beginning
    <3>2. CASE x \in read[c]
      BY <2>3, <2>4, <3>2 DEF CaptureOK, Terms, Of
    <3>3. CASE x \in got
      <4>1. TableOf[x] = table[c] /\ table[c] = TermTable
        BY <2>4, <3>3 DEF Found, Present, Of, Terms
      <4>2. y \in Found(c) \ got
        BY <2>4, <3>1, <4>1 DEF Found, Present, Of, Terms, CaptureOK
      <4> QED
        BY <3>1, <3>3, <4>2 DEF Beginning
    <3> QED
      BY <2>4, <3>1, <3>2, <3>3 DEF Terms, Of
  <2>5. CaptureOK(c)'
    <3> SUFFICES ASSUME NEW t \in Tables \ failed'[c], t < table'[c]
                 PROVE  Of(began[c] \cap Own, t) \subseteq read'[c]
      <4>1. began'[c] \subseteq catalogue'
        BY <2>3 DEF CaptureOK
      <4>2. table'[c] # 0
        BY <2>3
      <4> QED
        BY <2>3, <2>4, <4>1, <4>2 DEF CaptureOK, Of, Terms
    <3>1. CASE t < table[c]
      <4>1. t \in Tables \ failed[c] /\ table[c] \in 1 .. NumTables + 1
        BY <2>3
      <4>2. Of(began[c] \cap Own, t) \subseteq read[c]
        BY <3>1, <4>1 DEF CaptureOK
      <4> QED
        BY <2>3, <4>2
    <3>2. CASE t = table[c]
      BY <2>3, <3>2 DEF CaptureOK, Of, Present
    <3>3. t < table[c] \/ t = table[c]
      BY <2>3
    <3> QED
      BY <3>1, <3>2, <3>3
  <2> QED
    BY <1>4, <2>1, <2>2, <2>5 DEF ReadTable, ReadFails, SnapshotOK, Terms, Of
<1>5. ASSUME NEW c \in Captures, Persist(c) PROVE CaptureInv'
  <2>1. PICK term : /\ term \in TermOf(read[c])
                       /\ snapshots' = Append(snapshots,
                            [rows   |-> Contents(read[c], term),
                             began  |-> began[c], failed |-> failed[c]])
    BY <1>5 DEF Persist
  <2> DEFINE rows == Contents(read[c], term)
             s    == [rows |-> rows, began |-> began[c], failed |-> failed[c]]
  <2>2. /\ rows \subseteq read[c] /\ read[c] \ Terms(read[c]) \subseteq rows
        /\ \A x, y \in Terms(rows) : x = y
        /\ \A x \in Terms(rows), y \in Terms(read[c]) : Place[x] <= Place[y]
        /\ Terms(rows) = {} => Terms(read[c]) = {}
    BY <2>1, TermChosen
  <2>3. s \in Problem /\ snapshots \in Seq(Problem) /\ snapshots' = Append(snapshots, s)
    BY <2>1, <2>2 DEF SnapshotsTypeOK, Problem
  <2>4. SnapshotsTypeOK'
    BY <1>5, <2>3 DEF Persist, Forget, SnapshotsTypeOK
  <2>5. SnapshotOK(s)
    <3>1. \A t \in Tables \ failed[c] : Of(began[c] \cap Own, t) \subseteq read[c]
      <4>1. table[c] = NumTables + 1 /\ table[c] \in 1 .. NumTables + 1
        BY <1>5 DEF Persist
      <4>2. \A t \in Tables : t < table[c]
        BY <4>1
      <4> QED
        BY <4>1, <4>2 DEF CaptureOK
    <3>2. \A t \in Tables \ (failed[c] \cup {TermTable}) : Of(began[c] \cap Own, t) \subseteq rows
      BY <2>2, <3>1 DEF Terms, Of
    <3>3. \A x \in Terms(rows), y \in Terms(began[c] \cap Own) : Place[x] <= Place[y]
      <4> SUFFICES ASSUME NEW x \in Terms(rows), NEW y \in Terms(began[c] \cap Own)
                   PROVE  Place[x] <= Place[y]
        OBVIOUS
      <4>1. CASE y \in read[c]
        BY <2>2, <4>1 DEF Terms, Of
      <4>2. CASE y \notin read[c]
        BY <2>2, <4>2 DEF CaptureOK, Terms, Of
      <4> QED
        BY <4>1, <4>2
    <3>4. Terms(rows) = {} /\ Terms(began[c] \cap Own) # {} => TermTable \in failed[c]
      BY <2>2, <3>1 DEF Terms, Of
    <3>5. rows \subseteq catalogue \cap Own
      BY <2>2 DEF CaptureOK
    <3> QED
      BY <2>2, <3>2, <3>3, <3>4, <3>5 DEF SnapshotOK
  <2>6. \A n \in DOMAIN snapshots' : SnapshotOK(snapshots'[n])
    BY <2>3, <2>5
  <2>7. \A d \in Captures : CaptureOK(d)'
    <3>1. \A d \in Captures \ {c} : CaptureOK(d)'
      BY <1>5 DEF Persist, Forget, SnapshotsTypeOK, CaptureOK, Of, Terms
    <3>2. CaptureOK(c)'
      BY <1>5 DEF Persist, Forget, SnapshotsTypeOK, CaptureOK, Of, Terms
    <3> QED
      BY <3>1, <3>2
  <2> QED
    BY <1>5, <2>4, <2>6, <2>7 DEF Persist, SnapshotOK, Of, Terms
<1>6. ASSUME NEW c \in Captures, GiveUp(c) PROVE CaptureInv'
  <2>1. SnapshotsTypeOK'
    BY <1>6 DEF GiveUp, Forget, SnapshotsTypeOK
  <2>2. \A d \in Captures \ {c} : CaptureOK(d)'
    BY <1>6 DEF GiveUp, Forget, SnapshotsTypeOK, CaptureOK, Of, Terms
  <2>3. CaptureOK(c)'
    BY <1>6 DEF GiveUp, Forget, SnapshotsTypeOK, CaptureOK, Of, Terms
  <2> QED
    BY <1>6, <2>1, <2>2, <2>3 DEF GiveUp, SnapshotOK, Of, Terms
<1> QED
  BY <1>1, <1>2, <1>3, <1>4, <1>5, <1>6 DEF SnapshotsNext

\* No capture changes a snapshot that is stored, and only one at a time is added.
LEMMA SnapshotsStay ==
  ASSUME CaptureInv, [SnapshotsNext]_catalogueVars
  PROVE  \A n \in DOMAIN snapshots : n \in DOMAIN snapshots' /\ snapshots'[n] = snapshots[n]
<1>1. snapshots' = snapshots \/ \E s \in Problem : snapshots' = Append(snapshots, s)
  <2>1. ASSUME NEW c \in Captures, Persist(c)
        PROVE  \E s \in Problem : snapshots' = Append(snapshots, s)
    <3>1. PICK term : /\ term \in TermOf(read[c])
                         /\ snapshots' = Append(snapshots,
                              [rows   |-> Contents(read[c], term),
                               began  |-> began[c], failed |-> failed[c]])
      BY <2>1 DEF Persist
    <3>2. Contents(read[c], term) \subseteq read[c]
      BY <3>1, TermChosen
    <3>3. read[c] \subseteq Rows /\ began[c] \subseteq Rows /\ failed[c] \subseteq Tables
      BY DEF CaptureInv, SnapshotsTypeOK
    <3>4. [rows   |-> Contents(read[c], term),
           began  |-> began[c], failed |-> failed[c]] \in Problem
      BY <3>2, <3>3 DEF Problem
    <3> QED
      BY <3>1, <3>4
  <2> QED
    BY <2>1 DEF SnapshotsNext, catalogueVars, Insert, BeginCapture, ReadTable, ReadFails, GiveUp
<1>2. snapshots \in Seq(Problem)
  BY DEF CaptureInv, SnapshotsTypeOK
<1>3. ASSUME NEW s \in Problem, snapshots' = Append(snapshots, s), NEW n \in DOMAIN snapshots
      PROVE  n \in DOMAIN snapshots' /\ snapshots'[n] = snapshots[n]
  BY <1>2, <1>3
<1> QED
  BY <1>1, <1>3
-----------------------------------------------------------------------------
(* The requests. *)

\* What one request does leaves every other alone.
OthersStay(q) ==
  \A o \in Requests \ {q} :
    /\ pc'[o] = pc[o] /\ source'[o] = source[o] /\ result'[o] = result[o]
    /\ answer'[o] = answer[o] /\ status'[o] = status[o] /\ version'[o] = version[o]
    /\ o \in pinned' <=> o \in pinned

LEMMA OtherRequests ==
  ASSUME TypeOK, NEW q \in Requests, RequestStep(q)
  PROVE  OthersStay(q)
BY DEF RequestStep, OthersStay, TypeOK, Choose, NoSnapshot, Create, CreateUnheard, Unrecorded,
       Solve, Pin, Record, RecordUnheard, Abort, Cancel, Goto, Tell, requests, runs, catalogueVars

\* A request keeps what it knows while the snapshots it uses stay.
LEMMA RequestKept ==
  ASSUME NEW q \in Requests, RequestOK(q),
         \A n \in DOMAIN snapshots : n \in DOMAIN snapshots' /\ snapshots'[n] = snapshots[n],
         pc'[q] = pc[q], source'[q] = source[q], result'[q] = result[q], answer'[q] = answer[q],
         status'[q] = status[q], version'[q] = version[q], q \in pinned' <=> q \in pinned
  PROVE  RequestOK(q)'
BY DEF RequestOK, Open, HasSource, Good

LEMMA TypeInit == Init => TypeOK
<1> SUFFICES ASSUME Init PROVE TypeOK
  OBVIOUS
<1>1. SnapshotsTypeOK
  BY CaptureInit DEF Init, CaptureInv
<1> QED
  BY <1>1 DEF Init, TypeOK, Places, Answers, Statuses, Results

LEMMA RequestTypes ==
  ASSUME TypeOK, NEW q \in Requests, RequestOK(q), RequestStep(q)
  PROVE  TypeOK'
<1> USE DEF Goto, Tell, runs, Results, Answers, Terminal, Statuses, Places
<1>1. SnapshotsTypeOK'
  BY DEF RequestStep, TypeOK, Choose, NoSnapshot, Create, CreateUnheard, Unrecorded, Solve, Pin,
         Record, RecordUnheard, Abort, Cancel, catalogueVars, captures, SnapshotsTypeOK
<1>2. pinned' \in SUBSET Requests
  BY DEF RequestStep, TypeOK, Choose, NoSnapshot, Create, CreateUnheard, Unrecorded, Solve, Pin,
         Record, RecordUnheard, Abort, Cancel
<1>3. CASE Choose(q)
  BY <1>1, <1>2, <1>3 DEF Choose, TypeOK, SnapshotsTypeOK
<1>4. CASE NoSnapshot(q) \/ Unrecorded(q) \/ Abort(q)
  <2>1. PICK what \in Answers : Tell(q, what)
    BY <1>4 DEF NoSnapshot, Unrecorded, Abort
  <2>2. UNCHANGED <<source, result, status, version, pinned>>
    BY <1>4 DEF NoSnapshot, Unrecorded, Abort
  <2>3. pc' \in [Requests -> Places] /\ answer' \in [Requests -> Answers]
    <3> HIDE DEF Answers
    <3> QED
      BY <2>1 DEF TypeOK
  <2> QED
    BY <1>1, <1>2, <2>2, <2>3 DEF TypeOK
<1>5. CASE Create(q) \/ CreateUnheard(q)
  BY <1>1, <1>2, <1>5 DEF Create, CreateUnheard, TypeOK
<1>6. CASE Solve(q)
  BY <1>1, <1>2, <1>6 DEF Solve, Outcomes, NextPlace, TypeOK
<1>7. CASE Pin(q)
  BY <1>1, <1>2, <1>7 DEF Pin, TypeOK
<1>8. CASE Record(q) \/ RecordUnheard(q)
  <2>1. pc[q] = "record" /\ result[q] \in Results
    BY <1>8 DEF Record, RecordUnheard, RequestOK
  <2> QED
    BY <1>1, <1>2, <1>8, <2>1 DEF Record, RecordUnheard, Matches, TypeOK
<1>9. CASE Cancel(q)
  BY <1>1, <1>2, <1>9 DEF Cancel, requests, RequestOK, TypeOK
<1> QED
  BY <1>3, <1>4, <1>5, <1>6, <1>7, <1>8, <1>9 DEF RequestStep

LEMMA RequestMoves ==
  ASSUME TypeOK, NEW q \in Requests, RequestOK(q), RequestStep(q)
  PROVE  RequestOK(q)'
<1> USE DEF Goto, Tell, runs, Results, Terminal, Open, HasSource, Good
<1> UNCHANGED snapshots
  BY DEF RequestStep, Choose, NoSnapshot, Create, CreateUnheard, Unrecorded, Solve, Pin,
         Record, RecordUnheard, Abort, Cancel, catalogueVars
<1>3. CASE Choose(q)
  BY <1>3 DEF Choose, TypeOK, RequestOK
<1>4. CASE NoSnapshot(q) \/ Unrecorded(q) \/ Abort(q)
  BY <1>4 DEF NoSnapshot, Unrecorded, Abort, TypeOK, RequestOK
<1>5. CASE Create(q) \/ CreateUnheard(q)
  BY <1>5 DEF Create, CreateUnheard, TypeOK, RequestOK
<1>6. CASE Solve(q)
  BY <1>6 DEF Solve, Outcomes, NextPlace, TypeOK, RequestOK
<1>7. CASE Pin(q)
  BY <1>7 DEF Pin, TypeOK, RequestOK
<1>8. CASE Record(q)
  BY <1>8 DEF Record, Matches, TypeOK, RequestOK
<1>9. CASE RecordUnheard(q)
  BY <1>9 DEF RecordUnheard, Matches, TypeOK, RequestOK
<1>10. CASE Cancel(q)
  BY <1>10 DEF Cancel, requests, TypeOK, RequestOK
<1> QED
  BY <1>3, <1>4, <1>5, <1>6, <1>7, <1>8, <1>9, <1>10 DEF RequestStep

-----------------------------------------------------------------------------
(* The invariant and what follows from it. *)

LEMMA InvInit == Init => IInv
<1> SUFFICES ASSUME Init PROVE IInv
  OBVIOUS
<1>1. \A q \in Requests : RequestOK(q)
  BY DEF Init, RequestOK, Results
<1> QED
  BY <1>1, TypeInit, CaptureInit DEF Init, IInv

LEMMA InvStep == IInv /\ [Next]_vars => IInv'
<1> SUFFICES ASSUME IInv, [Next]_vars PROVE IInv'
  OBVIOUS
<1>1. CASE CatalogueStep \/ UNCHANGED vars
  <2>1. [SnapshotsNext]_catalogueVars /\ UNCHANGED <<requests, runs>>
    BY <1>1 DEF CatalogueStep, vars
  <2>2. CaptureInv'
    BY <2>1, CaptureStep DEF IInv
  <2>3. \A n \in DOMAIN snapshots : n \in DOMAIN snapshots' /\ snapshots'[n] = snapshots[n]
    BY <2>1, SnapshotsStay DEF IInv
  <2>4. \A q \in Requests : RequestOK(q)'
    BY <2>1, <2>3, RequestKept DEF IInv, requests, runs
  <2> QED
    BY <2>1, <2>2, <2>4 DEF IInv, TypeOK, CaptureInv, requests, runs
<1>2. ASSUME NEW q \in Requests, RequestStep(q) PROVE IInv'
  <2>1. UNCHANGED catalogueVars
    BY <1>2 DEF RequestStep, Choose, NoSnapshot, Create, CreateUnheard, Unrecorded, Solve, Pin,
                Record, RecordUnheard, Abort, Cancel
  <2>2. CaptureInv'
    BY <2>1, CaptureStep DEF IInv
  <2>3. RequestOK(q)' /\ TypeOK'
    BY <1>2, RequestMoves, RequestTypes DEF IInv
  <2>4. ASSUME NEW o \in Requests \ {q} PROVE RequestOK(o)'
    <3>1. OthersStay(q)
      BY <1>2, OtherRequests DEF IInv
    <3>2. \A n \in DOMAIN snapshots : n \in DOMAIN snapshots' /\ snapshots'[n] = snapshots[n]
      BY <2>1 DEF catalogueVars
    <3> QED
      BY <3>1, <3>2, RequestKept DEF IInv, OthersStay
  <2> QED
    BY <2>2, <2>3, <2>4 DEF IInv
<1> QED
  BY <1>1, <1>2 DEF Next

\* Whatever the catalogue, the queries that fail and the statements that are lost: a capture
\* knows what it has read, and a request what it may assume of its run at each place.
THEOREM Invariance == Spec => []IInv
BY InvInit, InvStep, PTL DEF Spec

\* A snapshot lacks a row of the institution that existed when it was begun only where a query
\* failed, or because it is a term and a first one was kept; and so a reference of it leads
\* nowhere only to rows inserted meanwhile, of other institutions, of a table that failed, or to
\* another term, whatever the catalogue, the owners of its rows and the order of its tables.
THEOREM SnapshotsAreBracketed == Spec => []SnapshotsBracketed
<1>1. IInv => SnapshotsBracketed
  <2> SUFFICES ASSUME IInv, NEW n \in DOMAIN snapshots
               PROVE  LET s    == snapshots[n]
                          here == s.began \cap Own
                      IN /\ s.rows \subseteq catalogue \cap Own
                         /\ \A t \in Tables \ (s.failed \cup {TermTable}) :
                              Of(here, t) \subseteq s.rows
                         /\ \A x, y \in Terms(s.rows) : x = y
                         /\ \A x \in Terms(s.rows), y \in Terms(here) : Place[x] <= Place[y]
                         /\ Terms(s.rows) = {} /\ Terms(here) # {} => TermTable \in s.failed
                         /\ \A r \in s.rows : \A x \in Parents[r] \ s.rows :
                              \/ x \notin s.began
                              \/ x \notin Own
                              \/ TableOf[x] \in s.failed
                              \/ TableOf[x] = TermTable /\ Terms(s.rows) # {}
    BY DEF SnapshotsBracketed
  <2> DEFINE s == snapshots[n]
  <2>1. SnapshotOK(s) /\ s \in Problem
    BY DEF IInv, CaptureInv, SnapshotsTypeOK
  <2>2. ASSUME NEW r \in s.rows, NEW x \in Parents[r] \ s.rows, x \in s.began, x \in Own,
               TableOf[x] \notin s.failed
        PROVE  TableOf[x] = TermTable /\ Terms(s.rows) # {}
    <3>1. x \in Rows /\ TableOf[x] \in Tables
      BY <2>1, <2>2, CatalogueAssumption DEF Problem
    <3>2. x \in Of(s.began \cap Own, TableOf[x])
      BY <2>2, <3>1 DEF Of
    <3>3. TableOf[x] = TermTable
      BY <2>1, <2>2, <3>1, <3>2 DEF SnapshotOK
    <3> QED
      BY <2>1, <2>2, <3>2, <3>3 DEF SnapshotOK, Terms
  <2> QED
    BY <2>1, <2>2 DEF SnapshotOK
<1> QED
  BY <1>1, Invariance, PTL

\* Of what a caller was told and the run does not say there are two cases and no other: a
\* user cancelled the run, or the engine gave no answer to record.
THEOREM AnswersAreAccounted == Spec => []AnswersAccounted
<1>1. IInv => AnswersAccounted
  BY DEF IInv, AnswersAccounted, RequestOK, Good, Open
<1> QED
  BY <1>1, Invariance, PTL

\* A final status stays: Update and Cancel find no row to change any more.
THEOREM FinalStatusesStay == Spec => FinalStatusStays
<1>1. IInv /\ [Next]_vars =>
        [\A q \in Requests : status[q] \in Terminal => status'[q] = status[q]]_vars
  <2> SUFFICES ASSUME IInv, Next, NEW q \in Requests, status[q] \in Terminal
               PROVE  status'[q] = status[q]
    OBVIOUS
  <2>1. CASE CatalogueStep
    BY <2>1 DEF CatalogueStep, runs
  <2>2. ASSUME NEW o \in Requests, o # q, RequestStep(o) PROVE status'[q] = status[q]
    BY <2>2, OtherRequests DEF IInv, OthersStay
  <2>3. ASSUME RequestStep(q) PROVE status'[q] = status[q]
    BY <2>3 DEF IInv, TypeOK, RequestOK, Terminal, Results, RequestStep, Choose, NoSnapshot, Create,
                CreateUnheard, Unrecorded, Solve, Pin, Record, RecordUnheard, Matches, Abort, Cancel, runs
  <2> QED
    BY <2>1, <2>2, <2>3 DEF Next
<1> QED
  BY <1>1, Invariance, PTL DEF Spec, FinalStatusStays
=============================================================================
