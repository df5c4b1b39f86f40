SPECIFICATION OutputsSpec
CONSTANTS
  None = None
  Commit = {1, 2, 3, 4, 5, 6}
  Pushed = {1, 2, 3, 4}
  HeadObjects <- MCHeadObjects
  ObjectSize <- MCObjectSize
  PackTarget = 4
  RebaseBytes = 3
  MaxHeadLevels = 2
  MaxLevels = 2
  Content <- MCContent
  MinFrame = 2
  MaxFrame = 4
  BundleSize = 8
  TailPercent = 25
  MaxTails = 1
  Parents <- MCParents
  Tree <- MCTree
  pack = pack
  tags = tags
  Unlocked = Unlocked
  Artifact = {pack, tags}
  Size <- MCArtifactSize
  Known = {pack}
  TempFile = {pack}
  Signed = {pack, tags}
  Cached = {tags}
  Part = 1
  RANGE_PARALLEL = 2
  FETCH_MAX_ATTEMPTS = 2
  MaxFaults = 2
  MaxExpiries = 1
  MaxLies = 1
  ChunkOf <- MCChunkOf
  Frags <- MCFrags
  Fetcher = {t1, t2}
  Writer = {w1, w2}
  Depth = 1
  QueueDepth = 1
  FetchConc = 2
  WriteBatch = 2
  MaxTrouble = 2
  fullClone = fullClone
  headClone = headClone
  packA = packA
  packB = packB
  big = big
  history = history
  Install = {fullClone, headClone}
  Lists <- MCLists
  PackLen <- MCPackLen
  HistoryOnly = {history}
  Bundled = {big}
  Blobs <- MCBlobs
  Paths <- MCPaths
  Keep <- MCKeep
  MemoryPermits = 3
  UnitBytes = 2
  DownloadConc = 2
  ParseConc = 1
  MaxMishaps = 2
INVARIANTS
  HeadPacksExact
  LevelsHoldHistory
  OwnHistoryCompletes
  FilesReadBlobs
  NothingWrongIsUsed
  TreeIsWhole
  NoFalseFailure
  QuietOnReturn
  InstalledWhole
PROPERTY ClientsFinish
CHECK_DEADLOCK FALSE
