\* Two requests run at the same time, on snapshots that may be stale.
SYMMETRY Symmetry
VIEW View
SPECIFICATION Spec
CONSTANTS
  Node = {n1, n2}
  Home = n1
  Slot = {r1, r2}
  Answers = {"accepted"}
  Unstable = {}
  MaxTransfers = 2
  MaxJobs = 1
CHECK_DEADLOCK FALSE
INVARIANTS TypeOK NodeOnRecord
PROPERTIES  MoveSettlesTransfer OnlySuspendSuspends SuspensionLasts
