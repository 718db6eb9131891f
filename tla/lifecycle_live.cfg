\* One request at a time, and daemons that stop and start again at any time, but
\* only fail by being down.
SPECIFICATION FairSpec
CONSTANTS
  Node = {n1, n2}
  Home = n1
  Slot = {r1}
  Answers = {"accepted"}
  Unstable = {n1, n2}
  MaxTransfers = 2
  MaxJobs = 1
PROPERTIES ImplementsLedger RestoreEnds SuspensionReachesDaemon
