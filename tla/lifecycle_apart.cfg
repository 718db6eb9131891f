\* Two requests at the same time, but none beside the start of a transfer that it
\* must not overlap with.
SYMMETRY Symmetry
VIEW View
SPECIFICATION Spec
CONSTANTS
  Node = {n1, n2}
  Home = n1
  Slot = {r1, r2}
  Answers = {"accepted"}
  Unstable = {}
  MaxTransfers = 2
  MaxJobs = 1
CHECK_DEADLOCK FALSE
CONSTRAINT Apart
PROPERTY ImplementsLedger
