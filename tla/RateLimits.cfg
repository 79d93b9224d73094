SPECIFICATION FairSpec
CONSTANTS
  u1 = u1  u2 = u2  a1 = a1  w1 = w1  w2 = w2
  Nobody = Nobody
  User = {u1, u2}
  App = {a1}
  Worker = {w1, w2}
  TimeWindow = 1
  Limit = 1
  AppsLimit = 1
  MaxTime = 1
  MaxPosts = 3
CHECK_DEADLOCK FALSE
INVARIANTS TypeOK OwnLimitIsKept
PROPERTY RefusalsEnd
