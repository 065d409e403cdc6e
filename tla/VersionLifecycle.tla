-------------------------- MODULE VersionLifecycle --------------------------
(***************************************************************************)
(* What the versions of one timetable promise, whatever requests race for  *)
(* them: every operation on them is atomic, takes the lifecycle of         *)
(* docs/state-machines.md one step further, and a version is published     *)
(* only in place of the one published before.                              *)
(***************************************************************************)
CONSTANTS Versions, Contents, None

VARIABLES status, content, score, pointer

Statuses == {"NONE", "DRAFT", "REVIEW", "PUBLISHED", "ARCHIVED"}

Init ==
  /\ status = [v \in Versions |-> "NONE"]
  /\ content = [v \in Versions |-> None]
  /\ score = [v \in Versions |-> None]
  /\ pointer = None

\* A draft appears, with assignments c and score s.
Draft(v, c, s) ==
  /\ status[v] = "NONE"
  /\ status' = [status EXCEPT ![v] = "DRAFT"]
  /\ content' = [content EXCEPT ![v] = c]
  /\ score' = [score EXCEPT ![v] = s]
  /\ UNCHANGED pointer

Move(v, from, to) ==
  /\ status[v] = from
  /\ status' = [status EXCEPT ![v] = to]
  /\ UNCHANGED <<content, score, pointer>>

Submit(v)   == Move(v, "DRAFT", "REVIEW")
SendBack(v) == Move(v, "REVIEW", "DRAFT")
Archive(v)  == Move(v, "DRAFT", "ARCHIVED") \/ Move(v, "PUBLISHED", "ARCHIVED")

\* A draft's assignments change together with its score.
Edit(v, c) ==
  /\ status[v] = "DRAFT"
  /\ content' = [content EXCEPT ![v] = c]
  /\ score' = [score EXCEPT ![v] = c]
  /\ UNCHANGED <<status, pointer>>

\* A reviewed version with assignments replaces the published one.
Publish(v) ==
  /\ status[v] = "REVIEW" /\ content[v] # None
  /\ status' = [u \in Versions |->
       IF u = v THEN "PUBLISHED"
       ELSE IF status[u] = "PUBLISHED" THEN "ARCHIVED" ELSE status[u]]
  /\ pointer' = v
  /\ UNCHANGED <<content, score>>

Next ==
  \E v \in Versions :
    \/ \E c, s \in Contents \cup {None} : Draft(v, c, s)
    \/ Submit(v)
    \/ SendBack(v)
    \/ Archive(v)
    \/ \E c \in Contents : Edit(v, c)
    \/ Publish(v)

Spec == Init /\ [][Next]_<<status, content, score, pointer>>
=============================================================================
