-------------------------- MODULE TransferLedger ---------------------------
(***************************************************************************)
(* What the panel promises about the node of a server, whatever the        *)
(* requests and the daemons do: the server is on one node, it has at most   *)
(* one destination at a time, and it only ever moves to its destination.    *)
(***************************************************************************)
CONSTANTS
  Node,     \* the nodes
  Home      \* the node the server is created on

VARIABLES
  gone,         \* the server has been deleted
  node,         \* the node it is on
  destination   \* {n} while it is being transferred to n, otherwise {}

ledger == <<gone, node, destination>>

Init ==
  /\ gone = FALSE
  /\ node = Home
  /\ destination = {}

Start(n) ==
  /\ ~gone
  /\ destination = {}
  /\ destination' = {n}
  /\ UNCHANGED <<gone, node>>

\* The transfer succeeds.
Arrive(n) ==
  /\ destination = {n}
  /\ node' = n
  /\ destination' = {}
  /\ UNCHANGED gone

\* The transfer fails or is cancelled.
Abandon ==
  /\ destination # {}
  /\ destination' = {}
  /\ UNCHANGED <<gone, node>>

Delete ==
  /\ ~gone
  /\ gone' = TRUE
  /\ destination' = {}
  /\ UNCHANGED node

Next ==
  \/ \E n \in Node : Start(n) \/ Arrive(n)
  \/ Abandon
  \/ Delete

Spec == Init /\ [][Next]_ledger
=============================================================================
