SPECIFICATION WorkSpec
CONSTANTS
  r1 = r1
  c1 = c1
  h1 = h1
  h2 = h2
  f1 = f1
  None = None
  NoClaim = NoClaim
  Repo = {r1}
  Commit = {c1}
  Tenant = {}
  Slot = {h1, h2, f1}
  OwnerId = {h1, h2, f1}
  PoolOf <- TwoHeadsAndFull
  Pools = {"head", "full"}
  MaxAttempts = 2
  MaxSeq = 2
  MaxRequests = 3
  MaxCrashes = 1
  Purging = TRUE
INVARIANT NoOrphanLease
PROPERTIES
  EveryOutputSettles
  SlotsReturn
CHECK_DEADLOCK FALSE
