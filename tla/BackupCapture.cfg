SPECIFICATION HSpec
CONSTANTS
  archiveJ = archiveJ
  logJ = logJ
  acme = acme
  pilot = pilot
  Journals = {archiveJ, logJ}
  Log = logJ
  Upstream <- CaptureUpstream
  Rank <- CaptureRank
  Tenants = {pilot}
  NameRank <- TenantRank
  Workers = {"nightly"}
  Unavailable = unavailable
  None = none
  MaxTime = 0
  MaxEntries = 2
  MaxKeep = 1
INVARIANTS TypeOK ConsistencyPoint CausalCapture
PROPERTIES CompletedIsWhole ImplementsVault
