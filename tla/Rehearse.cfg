SPECIFICATION RSpec
CONSTANTS
  logJ = logJ
  Journals = {logJ}
  Log = logJ
  Upstream <- OwnUpstream
  Rank <- FirstRank
  Tenants = {"upgrade"}
  NameRank <- AnyRank
  Workers = {"rehearsal"}
  Rehearser = "rehearsal"
  Upgrade = "upgrade"
  Unavailable = unavailable
  MaxTime = 1
  MaxEntries = 1
  MaxKeep = 1
INVARIANTS RTypeOK NoFalseAlarm
PROPERTIES GreenKeepsWhatWas BackedUpBeforeSwap PruneSparesNewest
