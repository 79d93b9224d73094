SPECIFICATION FairSpec
CONSTANTS
  n1 = n1  n2 = n2  invite = invite  join = join  Nobody = Nobody
  Node = {n1, n2}
  Op = {invite}
  Stale = {}
  Accepts <- MCAccepts
  Depth = 1
  MaxBatch = 2
  SnapshotPeriod = 2
  MaxPosts = 2
  MaxReorgs = 0
  MaxCrashes = 1
CHECK_DEADLOCK FALSE
INVARIANTS ReplayProtected SentIsNotLost
PROPERTY EveryNodeHandles
