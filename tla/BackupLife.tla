----------------------------- MODULE BackupLife -----------------------------
(***************************************************************************)
(* What a user sees of the backups of a server: each begins, when there is *)
(* room for it or another was deleted to give way to it, ends one way or   *)
(* the other, and may be deleted.  A success is never taken back; a        *)
(* failure is when the daemon, which had been given up, reports a success  *)
(* after all: that may leave more backups than the limit, but never lets   *)
(* one more begin than have given way.                                     *)
(***************************************************************************)
EXTENDS Naturals, FiniteSets

CONSTANTS
  Id,       \* the backups
  Limit     \* how many may be in progress or successful for one more to begin

VARIABLES
  status,   \* what the panel says of each backup
  place     \* a backup has given way to one that has not begun

life == <<status, place>>

Init == status = [b \in Id |-> "none"] /\ place = FALSE

Current == {b \in Id : status[b] \in {"in_progress", "successful"}}

Become(b, old, new) ==
  /\ status[b] = old
  /\ status' = [status EXCEPT ![b] = new]

Start(b) ==
  /\ Become(b, "none", "in_progress")
  /\ place \/ Cardinality(Current) < Limit
  /\ place' = FALSE

End(b) ==
  /\ \/ Become(b, "in_progress", "successful")
     \/ Become(b, "in_progress", "failed")
     \/ Become(b, "failed", "successful")
  /\ UNCHANGED place

\* Several backups are given up at once.
GiveUp ==
  /\ \E B \in SUBSET {b \in Id : status[b] = "in_progress"} :
       status' = [b \in Id |-> IF b \in B THEN "failed" ELSE status[b]]
  /\ UNCHANGED place

Deletion(b) == \E old \in {"in_progress", "successful", "failed"} : Become(b, old, "deleted")

Delete(b) == Deletion(b) /\ UNCHANGED place

GiveWay(b) ==
  /\ Limit > 0
  /\ ~place /\ place' = TRUE
  /\ Deletion(b)

\* Nothing begins in the place of the one that has given way.
Forgo == place /\ place' = FALSE /\ UNCHANGED status

Next ==
  \/ \E b \in Id : Start(b) \/ End(b) \/ Delete(b) \/ GiveWay(b)
  \/ GiveUp
  \/ Forgo

Spec == Init /\ [][Next]_life
=============================================================================
