SPECIFICATION FairSpec
CONSTANTS
  Task = {1, 2}
  Length = 1
  Worker = {w1}
  Continues = {}
  MaxAttempts = 2
  Outcomes = {"done", "error"}
  OnlyOnline = FALSE
  Manual = TRUE
  Toggles = TRUE
  Stops = {"handle", "advance", "dispatch", "done", "failed"}
  MaxEdits = 1
  MaxJobs = 2
INVARIANT JobWhileMarked
PROPERTY ScheduleCompletes
