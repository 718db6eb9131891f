\* One request at a time, a daemon that does what it is asked, and a cron command
\* that gives up what takes too long.
SPECIFICATION Spec
CONSTANTS
  Slot = {r1}
  Adapters = {"wings"}
  Answers = {"accepted"}
  BackupLimit = 1
  ThrottleLimit = 2
  Pruning = TRUE
  Stop = FALSE
  Repeats = FALSE
  MaxBackups = 2
INVARIANT WithinLimit
