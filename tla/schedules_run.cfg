SPECIFICATION Spec
CONSTANTS
  Task = {1, 2, 3}
  Length = 3
  Worker = {w1, w2}
  Continues = {2}
  MaxAttempts = 3
  Outcomes = {"done", "unreachable", "error"}
  OnlyOnline = TRUE
  Manual = FALSE
  Toggles = FALSE
  Stops = {"handle", "advance"}
  MaxEdits = 0
  MaxJobs = 3
SYMMETRY Symmetry
INVARIANTS TypeOK OneChain MarkedWhileJob NothingLeftMarked
PROPERTY ImplementsRun
