---------------------------- MODULE MCSchedules ----------------------------
(***************************************************************************)
(* Instances of Schedules for TLC.                                         *)
(***************************************************************************)
EXTENDS Schedules, TLC

Symmetry == Permutations(Worker)
=============================================================================
