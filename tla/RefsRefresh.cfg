SPECIFICATION RefsSpec
CONSTANTS
  None = None
  Refresher = {r1}
  Poller = {p1}
  FullBuild = {f1}
  HeadBuild = {h1}
  MaxPush = 2
  MaxFailures = 1
INVARIANT ReadyHeadHasTags
PROPERTIES
  PublishedForward
  RefsServed
CHECK_DEADLOCK FALSE
