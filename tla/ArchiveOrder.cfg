SPECIFICATION ArchiveSpec
CONSTANTS
  None = None
  Commit = {1, 2, 3, 4, 5, 6}
  Pushed = {1, 2, 3, 4}
  HeadObjects <- MCHeadObjects
  ObjectSize <- MCObjectSize
  PackTarget = 4
  RebaseBytes = 3
  MaxHeadLevels = 2
  MaxLevels = 2
  Content <- MCContent
  MinFrame = 2
  MaxFrame = 4
  BundleSize = 8
  TailPercent = 25
  MaxTails = 1
  Parents <- MCLine
  Tree <- MCTreeMiddle
INVARIANT FilesReadBlobs
CHECK_DEADLOCK FALSE
