SPECIFICATION Spec
CONSTANTS
  None = None
  Refresher = {r1}
  Poller = {}
  FullBuild = {f1}
  HeadBuild = {h1}
  MaxPush = 2
  MaxFailures = 1
PROPERTY EveryRequestServed
CHECK_DEADLOCK FALSE
