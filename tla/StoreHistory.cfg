SPECIFICATION HistorySpec
CONSTANTS
  r1 = r1
  r2 = r2
  c1 = c1
  o1 = o1
  o2 = o2
  alice = alice
  None = None
  Repo = {r1, r2}
  Commit = {c1}
  Tenant = {alice}
  OwnerId = {o1, o2}
  Pools = {"head"}
  MaxAttempts = 2
  MaxSeq = 2
SYMMETRY StoreSymmetry
INVARIANT SeqUnique
PROPERTIES
  TurnsTaken
  OvertakenWriteNothing
