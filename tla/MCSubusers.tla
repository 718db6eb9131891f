----------------------------- MODULE MCSubusers -----------------------------
(***************************************************************************)
(* Instances of Subusers for TLC.                                          *)
(***************************************************************************)
EXTENDS Subusers
=============================================================================
