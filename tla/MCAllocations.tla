--------------------------- MODULE MCAllocations ---------------------------
(***************************************************************************)
(* Instances of Allocations for TLC: two nodes, one of which has two       *)
(* allocations, so that a transfer can reserve an additional one there.    *)
(***************************************************************************)
EXTENDS Allocations, TLC

CONSTANTS a1, a2, b, n1, n2

Nodes == (a1 :> n1) @@ (a2 :> n1) @@ (b :> n2)

Symmetry == Permutations(Server)
=============================================================================
