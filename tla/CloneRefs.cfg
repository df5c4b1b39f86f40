CONSTANTS
  Commit <- MCCommit
  Parents <- MCParents
  None = None
  Branch <- MCBranch
  Default = "main"
  FirstTips <- MCFirstTips
  Pushes <- MCPushes
  TagCommits <- MCTagCommits
  Request <- MCRequest
  SideLayers = 2
  MaxPolls = 2
  MaxPushes = 2
  MaxPublishes = 2
  MaxBuilds = 2
  MaxFailures = 0
SPECIFICATION Spec
INVARIANT RefsWhole
CHECK_DEADLOCK FALSE
