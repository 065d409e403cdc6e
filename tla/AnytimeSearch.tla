--------------------------- MODULE AnytimeSearch ---------------------------
(***************************************************************************)
(* What an optimiser of timetables promises: it holds a timetable at every *)
(* moment, exchanges it only for one with a smaller penalty that has the   *)
(* same sessions and leaves the locked ones where they are, and may be     *)
(* stopped at any moment.  Penalties are those of the scorer, counted over *)
(* the whole timetable.                                                    *)
(***************************************************************************)
EXTENDS Handovers

VARIABLES given,     \* the problem
          held,      \* the timetable held: a list of assignments
          running

avars == <<given, held, running>>

AInit ==
  /\ given \in Problems
  /\ held \in Seq(Assignment(given))
  /\ running = TRUE

Improve ==
  /\ running
  /\ Rearranged(given, held, held')
  /\ Penalty(given, held') < Penalty(given, held)
  /\ UNCHANGED <<given, running>>

Stop ==
  /\ running
  /\ running' = FALSE
  /\ UNCHANGED <<given, held>>

ANext == Improve \/ Stop

ASpec == AInit /\ [][ANext]_avars
=============================================================================
