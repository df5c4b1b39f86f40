SPECIFICATION BucketSpec
CONSTANTS
  p1 = p1
  x = x
  y = y
  b1 = b1
  u1 = u1
  u2 = u2
  u3 = u3
  NoRepo = NoRepo
  Repo = {p1}
  Hash = {x, y}
  Build = {b1}
  Ttl = 1
  Batch = 1
  LateDelete = TRUE
  MaxTime = 2
  MaxBuilds = 2
  MaxErrors = 1
  MaxRefused = 0
  MaxCrashes = 0
  Put = {u1, u2, u3}
  Max = 3
  ThrottledAttempts = 2
  FailedAttempts = 1
INVARIANTS
  NothingLeaks
  PutInv
PROPERTY BucketWorkEnds
CHECK_DEADLOCK FALSE
