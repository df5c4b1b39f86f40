SPECIFICATION StagingSpec
CONSTANTS
  c1 = c1
  task = task
  refs = refs
  Nobody = Nobody
  Client = {c1}
  Writer = {task, refs}
  Holder <- Unguarded
  Async = {task}
  Blocking = {}
  Git = {}
  Detached = {refs}
  MaxFaults = 0
INVARIANT NothingEverLeft
CHECK_DEADLOCK FALSE
