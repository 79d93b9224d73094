SPECIFICATION Spec
CONSTANTS
  x = x  u = u  j1 = j1  j2 = j2
  Id = {x}
  User = {u}
  Job = {j1, j2}
  Total = 2
  CHUNK = 2
  RECHECK = 1
  MaxDocs = 4
  Slot <- MCSlot
  MaxOps = 2
  MaxEvents = 1
  MaxCrashes = 0
INVARIANTS TypeOK SponsoredAreEntitled
PROPERTY SponsoredForEver
