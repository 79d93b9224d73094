SPECIFICATION Spec
CONSTANTS
  n1 = n1  n2 = n2  invite = invite  join = join  Nobody = Nobody
  Node = {n1, n2}
  Op = {invite, join}
  Stale = {invite}
  Accepts <- MCAccepts
  Depth = 1
  MaxBatch = 2
  SnapshotPeriod = 2
  MaxPosts = 2
  MaxReorgs = 1
  MaxCrashes = 0
CHECK_DEADLOCK FALSE
INVARIANTS TypeOK FollowsChain Agreement
PROPERTY ImplementsReplicatedLog
