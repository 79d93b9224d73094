SPECIFICATION FairSpec
CONSTANTS
  x = x  y = y  x1 = x1  x2 = x2  y1 = y1  w1 = w1  w2 = w2
  User = {x, y}
  Client = {x1, y1}
  Worker = {w1, w2}
  UserOf <- MCUserOf
  Account = {a, b}
  Uid = {m, n}
  MaxPeriod = 1
  MaxParams = 1
INVARIANT TypeOK
PROPERTIES ImplementsRegistry SignedIsRegistered
