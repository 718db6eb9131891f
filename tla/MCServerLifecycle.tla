------------------------- MODULE MCServerLifecycle -------------------------
(***************************************************************************)
(* ServerLifecycle for TLC.                                                *)
(***************************************************************************)
EXTENDS ServerLifecycle, TLC

\* The workers are alike.
Symmetry == Permutations(Slot)

\* What a daemon knows of a suspension decides no step (Sync and Boot overwrite
\* it unseen), and apart from its type only SuspensionReachesDaemon speaks of it: to
\* the other properties, states that differ in nothing else are the same state.
View == <<exists, server, transfers, request, jobs, files, down>>
=============================================================================
