---------------------------- MODULE ScheduleRun ----------------------------
(***************************************************************************)
(* What a schedule promises of one run after another: its tasks are        *)
(* attempted in the order of their sequence, none is passed over, and one  *)
(* that failed or was interrupted may be attempted again before the next.  *)
(* A run may end after any task.                                           *)
(***************************************************************************)
EXTENDS Naturals

CONSTANT Length   \* the number of tasks

VARIABLES
  running,   \* a run is going on
  last       \* the place of the task last attempted in it, or 0

Init == running = FALSE /\ last = 0

Start == ~running /\ running' = TRUE /\ last' = 0

Perform ==
  /\ running
  /\ last' \in {last, last + 1} \cap 1 .. Length
  /\ UNCHANGED running

Finish == running /\ running' = FALSE /\ UNCHANGED last

Next == Start \/ Perform \/ Finish

Spec == Init /\ [][Next]_<<running, last>>
=============================================================================
