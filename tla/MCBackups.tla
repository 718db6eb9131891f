----------------------------- MODULE MCBackups -----------------------------
(***************************************************************************)
(* Backups for TLC.                                                        *)
(***************************************************************************)
EXTENDS Backups, TLC

\* The workers are alike.
Symmetry == Permutations(Slot)
=============================================================================
