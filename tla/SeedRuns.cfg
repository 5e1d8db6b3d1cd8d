SPECIFICATION FairSpec
CONSTANTS
  NItems = 1
  NBindings = 1
  NEvents = 2
  SeedRuns = {"operator", "other"}
  JpRuns = {"jp"}
  MaxEvents = 3
INVARIANTS TypeOK Idempotent SnapshotCoherent
PROPERTIES CompleteIsSeeded SeedCompletes
