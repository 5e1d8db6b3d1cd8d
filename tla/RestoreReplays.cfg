SPECIFICATION Spec
CONSTANTS
  Names = {"acme", "moved"}
  First = "acme"
  BackupNames = {"acme", "site"}
  MaxTime = 1
  MaxEntries = 4
  MaxJobs = 3
PROPERTY RestoredReplays
CHECK_DEADLOCK FALSE
