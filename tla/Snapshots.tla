------------------------------ MODULE Snapshots ------------------------------
(***************************************************************************)
(* The academic catalogue of an institution (services/catalog.go,          *)
(* repositories/academic_repos.go) and the problem snapshots taken of it   *)
(* (services/snapshot.go): fifteen queries, one table after the other and  *)
(* each its own transaction, whose errors are dropped, and one INSERT of   *)
(* what they returned, of all the terms only the first.                    *)
(*                                                                         *)
(* Abstractions: a row is a member of Rows with its table and the rows it  *)
(* refers to (a term's academic year left out, which no problem has); only *)
(* its presence matters.  The services insert rows and never delete one,   *)
(* and a change of a name leaves the references alone.  No service writes  *)
(* the terms and the offerings: their rows are in Loaded, or somebody      *)
(* inserts them by other means, under the same foreign keys.               *)
(***************************************************************************)
EXTENDS Naturals, Sequences, FiniteSets

CONSTANTS
  Rows,        \* rows the catalogue may come to hold
  NumTables,   \* the tables, in the order CreateSnapshot reads them
  TermTable,   \* the one that holds the terms
  TableOf,     \* the table of each row
  Place,       \* where its list puts it: rows in one place come in any order
  Parents,     \* the rows its foreign keys name
  Own,         \* the institution's rows; the others are those of other institutions
  Owners,      \* classes and course offerings, ...
  Parts,       \* ... and the groups or requirements each needs at least one of
  Loaded,      \* the catalogue at the start
  Captures     \* requests for a snapshot

Tables == 1 .. NumTables

\* A set of rows in which every reference leads somewhere.
Closed(S) == \A r \in S : Parents[r] \subseteq S

ASSUME CatalogueAssumption ==
  /\ NumTables \in Nat
  /\ TermTable \in Tables
  /\ TableOf \in [Rows -> Tables] /\ Place \in [Rows -> Nat]
  /\ Parents \in [Rows -> SUBSET Rows]
  /\ Own \subseteq Rows
  /\ Owners \subseteq Rows /\ Parts \in [Owners -> SUBSET Rows]
  /\ Loaded \subseteq Rows /\ Closed(Loaded)

VARIABLES
  catalogue,   \* the rows that exist
  table,       \* the next table each capture reads; 0 before, NumTables + 2 after it
  read,        \* the rows it has read
  began,       \* the catalogue when it began
  failed,      \* the tables its queries failed on
  snapshots    \* problem_snapshots, in the order of created_at

captures == <<table, read, began, failed>>
catalogueVars == <<catalogue, captures, snapshots>>

Problem == [rows : SUBSET Rows, began : SUBSET Rows, failed : SUBSET Tables]

SnapshotsTypeOK ==
  /\ catalogue \in SUBSET Rows
  /\ table     \in [Captures -> 0 .. NumTables + 2]
  /\ read      \in [Captures -> SUBSET Rows]
  /\ began     \in [Captures -> SUBSET Rows]
  /\ failed    \in [Captures -> SUBSET Tables]
  /\ snapshots \in Seq(Problem)

SnapshotsInit ==
  /\ catalogue = Loaded
  /\ table     = [c \in Captures |-> 0]
  /\ read      = [c \in Captures |-> {}]
  /\ began     = [c \in Captures |-> {}]
  /\ failed    = [c \in Captures |-> {}]
  /\ snapshots = << >>

-----------------------------------------------------------------------------

\* CreateDepartment, CreateProgram, ...: the foreign keys refuse a row whose parents do
\* not exist, and neither they nor the services ask whose the parents are.
Insert(r) ==
  /\ r \notin catalogue
  /\ Parents[r] \subseteq catalogue
  /\ catalogue' = catalogue \cup {r}
  /\ UNCHANGED <<captures, snapshots>>

BeginCapture(c) ==
  /\ table[c] = 0
  /\ table' = [table EXCEPT ![c] = 1]
  /\ began' = [began EXCEPT ![c] = catalogue]
  /\ UNCHANGED <<catalogue, read, failed, snapshots>>

Of(S, t) == {r \in S : TableOf[r] = t}

\* WHERE institution_id = $1.
Present(t) == Of(catalogue \cap Own, t)

\* Mutant: rows whose parents the capture has not read are left out.
FoundWithParents(c) == {r \in Present(table[c]) : Parents[r] \subseteq read[c]}

\* What the next query finds.
Found(c) == Present(table[c])

\* ListByInstitution of one table.
ReadTable(c) ==
  /\ table[c] \in Tables
  /\ read'  = [read EXCEPT ![c] = @ \cup Found(c)]
  /\ table' = [table EXCEPT ![c] = @ + 1]
  /\ UNCHANGED <<catalogue, began, failed, snapshots>>

\* What has come of a list when it breaks off.
Beginning(got, all) == got \subseteq all /\ \A r \in got, x \in all \ got : Place[r] <= Place[x]

\* The query fails, at once or between two rows (rows.Err is never asked): what it has
\* returned is taken for the table.
ReadFails(c) ==
  /\ table[c] \in Tables
  /\ \E got \in SUBSET Found(c) :
       Beginning(got, Found(c)) /\ read' = [read EXCEPT ![c] = @ \cup got]
  /\ failed' = [failed EXCEPT ![c] = @ \cup {table[c]}]
  /\ table'  = [table EXCEPT ![c] = @ + 1]
  /\ UNCHANGED <<catalogue, began, snapshots>>

\* The request is over, its locals are gone.
Forget(c) ==
  /\ table'  = [table EXCEPT ![c] = NumTables + 2]
  /\ read'   = [read EXCEPT ![c] = {}]
  /\ began'  = [began EXCEPT ![c] = {}]
  /\ failed' = [failed EXCEPT ![c] = {}]

Terms(S) == Of(S, TermTable)

\* The terms that may come first in the list.
FirstTerms(S) == {x \in Terms(S) : \A y \in Terms(S) : Place[x] <= Place[y]}

\* terms[0] is the term of the problem; without one its id is "term-1", which no row has.
TermOf(S) == IF Terms(S) = {} THEN {{}} ELSE {{x} : x \in FirstTerms(S)}

\* What becomes of the rows that were read, given the term.
Contents(S, term) == (S \ Terms(S)) \cup term

\* The INSERT into problem_snapshots; it may fail, and the request may die before it.
Persist(c) ==
  /\ table[c] = NumTables + 1
  /\ \E term \in TermOf(read[c]) :
       snapshots' = Append(snapshots, [rows   |-> Contents(read[c], term),
                                       began  |-> began[c],
                                       failed |-> failed[c]])
  /\ Forget(c)
  /\ UNCHANGED catalogue

GiveUp(c) ==
  /\ table[c] \in 1 .. NumTables + 1
  /\ Forget(c)
  /\ UNCHANGED <<catalogue, snapshots>>

SnapshotsNext ==
  \/ \E r \in Rows : Insert(r)
  \/ \E c \in Captures : \/ BeginCapture(c) \/ ReadTable(c) \/ ReadFails(c)
                         \/ Persist(c) \/ GiveUp(c)

-----------------------------------------------------------------------------
(* What the engine makes of a snapshot. *)

\* problem.Validate: every reference leads somewhere, and classes and offerings have parts.
Valid(S) == Closed(S) /\ \A r \in Owners \cap S : Parts[r] \cap S # {}

\* A snapshot of the institution's catalogue holds, table by table, at least what existed when
\* its request began and at most what exists, except that a failed query leaves rows out; but
\* of the terms it holds only one, before which none stands that existed then, and none at all
\* only if there was none or their query failed.  So a reference leads nowhere for one of four
\* reasons: the row was inserted meanwhile, it is another institution's, its table's query
\* failed, or it is a term and another one was kept.
SnapshotsBracketed ==
  \A n \in DOMAIN snapshots :
    LET s    == snapshots[n]
        here == s.began \cap Own
    IN /\ s.rows \subseteq catalogue \cap Own
       /\ \A t \in Tables \ (s.failed \cup {TermTable}) : Of(here, t) \subseteq s.rows
       /\ \A x, y \in Terms(s.rows) : x = y
       /\ \A x \in Terms(s.rows), y \in Terms(here) : Place[x] <= Place[y]
       /\ Terms(s.rows) = {} /\ Terms(here) # {} => TermTable \in s.failed
       /\ \A r \in s.rows : \A x \in Parents[r] \ s.rows :
            \/ x \notin s.began
            \/ x \notin Own
            \/ TableOf[x] \in s.failed
            \/ TableOf[x] = TermTable /\ Terms(s.rows) # {}
=============================================================================
