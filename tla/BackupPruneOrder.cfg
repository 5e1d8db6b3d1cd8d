SPECIFICATION Spec
CONSTANTS
  archiveJ = archiveJ
  logJ = logJ
  acme = acme
  pilot = pilot
  Journals = {logJ}
  Log = logJ
  Upstream <- CaptureUpstream
  Rank <- CaptureRank
  Tenants = {acme, pilot}
  NameRank <- TenantRank
  Workers = {"nightly"}
  Unavailable = unavailable
  MaxTime = 1
  MaxEntries = 0
  MaxKeep = 2
PROPERTY PruneSparesLatest
