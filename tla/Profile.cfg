SPECIFICATION FairSpec
CONSTANTS
  c1 = c1  c2 = c2  u1 = u1  u2 = u2  d1 = d1  d2 = d2  NoData = NoData
  Channel = {c1, c2}
  Uuid = {u1, u2}
  Data = {d1, d2}
  SizeOf <- MCSizeOf
  MaxSize = 3
  MaxKeys = 1
  SECOND = 2
  MinTTL = 2
  MaxTTL = 5
  DefaultTTL = 4
  TTLExtension = 3
  RequestedTTL = {0, 1, 2, 5, 6}
INVARIANTS TypeOK SizeIsKept PromiseKept
PROPERTY ChannelsGoAway
