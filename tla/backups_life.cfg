\* One request at a time; the daemon stops and refuses, calls fail, adapters change.
SPECIFICATION FairSpec
CONSTANTS
  Slot = {r1}
  Adapters = {"wings", "s3"}
  Answers = {"accepted", "refused", "lost"}
  BackupLimit = 1
  ThrottleLimit = 1
  Pruning = TRUE
  Stop = TRUE
  Repeats = FALSE
  MaxBackups = 2
INVARIANTS TypeOK WithinThrottle
PROPERTIES LockedSurvives ImplementsLife BackupSettles
