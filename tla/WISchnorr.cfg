SPECIFICATION SessionSpec
CONSTANTS
  i1 = i1  i2 = i2
  q = 3
  w = 1
  Byte = 2
  Bytes = 2
  Info = {i1, i2}
  Msg = {0, 1}
  FOf <- MCFOf
  Hash <- MCHash
CHECK_DEADLOCK FALSE
INVARIANTS SignatureVerifies EveryResponseFits
