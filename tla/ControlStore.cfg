SPECIFICATION Spec
CONSTANTS
  r1 = r1
  c1 = c1
  c2 = c2
  o1 = o1
  o2 = o2
  None = None
  Repo = {r1}
  Commit = {c1, c2}
  Tenant = {}
  OwnerId = {o1, o2}
  Pools = {"head", "full"}
  MaxAttempts = 1
  MaxSeq = 2
SYMMETRY OwnerSymmetry
INVARIANTS
  HeadFailureTakesFull
  StoreInv
PROPERTY ImplementsLifecycle
