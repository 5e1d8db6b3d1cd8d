SPECIFICATION Spec
CONSTANTS
  rootJ = rootJ
  logJ = logJ
  tenantJ = tenantJ
  tenantM = tenantM
  seedF = seedF
  registry = registry
  log = log
  tenant = tenant
  Files = {rootJ, logJ, tenantJ, tenantM, seedF}
  Target <- TargetOf
  Targets <- TargetOrder
  RunDir = "run"
  Members <- MemberOrder
  Services = {registry, tenant}
  Opens <- OpensJ
  Needs <- NeedsM
  Seen = {registry}
  MaxTime = 1
  MaxEntries = 2
  MaxCrashes = 1
INVARIANT NoneStranded
