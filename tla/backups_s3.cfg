\* Two requests at the same time; all backups are in S3.
SYMMETRY Symmetry
SPECIFICATION Spec
CONSTANTS
  Slot = {r1, r2}
  Adapters = {"s3"}
  Answers = {"accepted", "unreachable"}
  BackupLimit = 1
  ThrottleLimit = 2
  Pruning = TRUE
  Stop = FALSE
  Repeats = TRUE
  MaxBackups = 2
INVARIANTS SuccessHasArchive
