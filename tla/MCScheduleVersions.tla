------------------------- MODULE MCScheduleVersions -------------------------
(* Small instances of ScheduleVersions for TLC. *)
EXTENDS ScheduleVersions, TLC

Symmetry == Permutations(Versions) \cup Permutations(Requests) \cup Permutations(Contents)
=============================================================================
