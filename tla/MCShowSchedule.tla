-------------------------- MODULE MCShowSchedule --------------------------
(* Small instances of ShowSchedule for TLC. *)
EXTENDS ShowSchedule, TLC

Symmetry == Permutations(Calls) \cup Permutations(Screens)
=============================================================================
