SPECIFICATION ClonesSpec
CONSTANTS
  c1 = c1
  c2 = c2
  task = task
  install = install
  git = git
  writeRefs = writeRefs
  Client = {c1, c2}
  Writer = {task, install, git, writeRefs}
  Holder <- Nested
  Async = {task}
  Blocking = {install}
  Git = {git}
  Detached = {writeRefs}
  Nobody = Nobody
  None = None
  Commit <- MCCommit
  Parents <- MCParents
  Branch <- MCBranch
  Default = "main"
  FirstTips <- MCFirstTips
  Pushes <- MCPushes
  TagCommits <- MCTagCommits
  Request <- MCRequest
  SideLayers = 2
  MaxPolls = 2
  MaxPushes = 2
  MaxPublishes = 2
  MaxBuilds = 2
  MaxFailures = 1
  MaxFaults = 1
INVARIANTS
  RefsWholeOnBase
  ServedRefsSuffice
  AnswersConsistent
  WritersGoFirst
  LiveStagingKept
  NothingLeft
  NoLostWakeup
CHECK_DEADLOCK FALSE
