SPECIFICATION Spec
CONSTANTS
  Names = {"acme", "moved"}
  First = "acme"
  BackupNames = {"acme", "site"}
  MaxTime = 1
  MaxEntries = 4
  MaxJobs = 3
INVARIANTS TypeOK NothingLost WritesOwn
PROPERTIES RestoredHoldsArchive DecommissionedIsBundled
CHECK_DEADLOCK FALSE
