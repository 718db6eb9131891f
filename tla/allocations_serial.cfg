\* One request at a time, and administrators who choose what the forms offer.
SYMMETRY Symmetry
SPECIFICATION Spec
CONSTANTS
  a1 = a1
  a2 = a2
  b = b
  n1 = n1
  n2 = n2
  Server = {s1, s2}
  Allocation = {a1, a2, b}
  Node = {n1, n2}
  NodeOf <- Nodes
  None = None
  Slot = {r1}
  Limit = 2
  Forms = TRUE
  AnyTime = FALSE
CHECK_DEADLOCK FALSE
INVARIANTS TypeOK PrimaryOwned OnNode
