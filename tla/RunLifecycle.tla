---------------------------- MODULE RunLifecycle ----------------------------
(***************************************************************************)
(* What the solver queue promises of a run, whoever executes it: it starts *)
(* only from the queue, each start is one attempt, at most MaxRetries      *)
(* attempts are taken back, and the one that finishes the run is the       *)
(* attempt in possession of it.  A finished run never changes again.       *)
(***************************************************************************)
EXTENDS Naturals

CONSTANTS Runs, MaxRetries, Outcomes

NoAttempt == MaxRetries + 1

VARIABLES
  phase,     \* "none", "queued", "running", "cancelled", "lost" or an outcome
  tries,     \* attempts taken back so far: the number of the current one
  winner     \* the attempt that finished the run, NoAttempt if none did

vars == <<phase, tries, winner>>

Init ==
  /\ phase  = [r \in Runs |-> "none"]
  /\ tries  = [r \in Runs |-> 0]
  /\ winner = [r \in Runs |-> NoAttempt]

Move(r, from, to) ==
  /\ phase[r] = from
  /\ phase' = [phase EXCEPT ![r] = to]

Submit(r) == Move(r, "none", "queued") /\ UNCHANGED <<tries, winner>>

Start(r) == Move(r, "queued", "running") /\ UNCHANGED <<tries, winner>>

\* The attempt in possession ends the run.
Finish(r, s) ==
  /\ Move(r, "running", s)
  /\ winner' = [winner EXCEPT ![r] = tries[r]]
  /\ UNCHANGED tries

Withdraw(r) ==
  /\ Move(r, "queued", "cancelled") \/ Move(r, "running", "cancelled")
  /\ UNCHANGED <<tries, winner>>

\* A set of attempts is given up as one; their runs wait for another.
TakeBack(S) ==
  /\ \A r \in S : phase[r] = "running" /\ tries[r] < MaxRetries
  /\ phase' = [r \in Runs |-> IF r \in S THEN "queued" ELSE phase[r]]
  /\ tries' = [r \in Runs |-> IF r \in S THEN tries[r] + 1 ELSE tries[r]]
  /\ UNCHANGED winner

\* The last attempts of a set of runs are given up.
GiveUp(S) ==
  /\ \A r \in S : phase[r] = "running" /\ tries[r] = MaxRetries
  /\ phase' = [r \in Runs |-> IF r \in S THEN "lost" ELSE phase[r]]
  /\ UNCHANGED <<tries, winner>>

Next ==
  \/ \E r \in Runs : Submit(r) \/ Start(r) \/ Withdraw(r)
  \/ \E r \in Runs, s \in Outcomes : Finish(r, s)
  \/ \E S \in SUBSET Runs : TakeBack(S) \/ GiveUp(S)

Spec == Init /\ [][Next]_vars
=============================================================================
