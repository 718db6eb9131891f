\* One request at a time, daemons that do what they are asked.
SPECIFICATION Spec
CONSTANTS
  Node = {n1, n2}
  Home = n1
  Slot = {r1}
  Answers = {"accepted"}
  Unstable = {}
  MaxTransfers = 1
  MaxJobs = 2
CHECK_DEADLOCK FALSE
INVARIANT RestoreExcludesTransfer
