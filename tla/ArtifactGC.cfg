SPECIFICATION KeepSpec
CONSTANTS
  p1 = p1
  p2 = p2
  x = x
  b1 = b1
  b2 = b2
  t1 = t1
  t2 = t2
  head = head
  full = full
  None = None
  NoRepo = NoRepo
  Repo = {p1, p2}
  Hash = {x}
  Build = {b1, b2}
  Ttl = 1
  Batch = 1
  LateDelete = FALSE
  MaxTime = 3
  MaxBuilds = 2
  MaxErrors = 1
  MaxRefused = 1
  MaxCrashes = 1
  Object = {1, 2}
  DirOf <- MCDirOf
  OldDirs = {"d1"}
  Task = {t1, t2}
  PartCount = 2
  MaxKept = 1
  MaxStores = 3
  MaxCuts = 1
  MaxRefusals = 1
  Commit = {1, 2}
  Parents <- MCParents
  Builder = {head, full}
  Kind <- MCKind
  Of <- MCOf
  Tips = {2}
  PackLimit = 1
  Refresher = refresher
  Purger = purger
  StopsInRemoval = FALSE
  MaxFaults = 2
SYMMETRY GCSymmetry
INVARIANTS
  GCInv
  ReadersServed
  StoredSurvives
  UploadsWhole
  ReadersKeepPacks
  BuildsOnWholeHistory
  ColdFullExact
  NoCircularWait
CHECK_DEADLOCK FALSE
