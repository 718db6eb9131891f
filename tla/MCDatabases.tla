---------------------------- MODULE MCDatabases ----------------------------
(***************************************************************************)
(* Instances of Databases for TLC.                                         *)
(***************************************************************************)
EXTENDS Databases, TLC

\* The first and the second have the same name.
SameName == (1 :> "n1") @@ (2 :> "n1") @@ (3 :> "n2")

\* A user name that no row and no request has is never used again.  Of the user it
\* left on the host, if any, it matters that it is there, and a doubt about it
\* matters only then; whether its limit was waived does not matter any more.
View ==
  LET used == Live \cup {request[s].id : s \in Active}
      left == [d \in Id |->
                 CASE d \in used -> <<users[d], doubt[d]>>
                   [] users[d] = NoUser -> <<doubt[d] \ {"user"}>>
                   [] OTHER -> <<NoUser, doubt[d]>>]
  IN <<rows, spent, waived \cap used, schemas, request, left>>

Symmetry == Permutations(Password) \cup Permutations(Slot)
=============================================================================
