SPECIFICATION Spec
CONSTANTS
  c1 = c1  c2 = c2  c3 = c3  k1 = k1  k2 = k2
  Contact = {c1, c2, c3}
  Key = {k1, k2}
  FirstKey = k1
  Num = {3}
  DAY = 1
  WEEK = 2
  Lag = 1
  MaxTime = 6
  MaxChanges = 4
  MaxRequests = 1
INVARIANT KeysAreThoseSet
SYMMETRY Symmetry
CHECK_DEADLOCK FALSE
