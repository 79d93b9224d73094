SPECIFICATION FairSpec
CONSTANTS
  x = x  u = u  j1 = j1  j2 = j2
  Id = {x}
  User = {u}
  Job = {j1}
  Total = 1
  CHUNK = 2
  RECHECK = 1
  MaxDocs = 4
  Slot <- MCSlot
  MaxOps = 2
  MaxEvents = 2
  MaxCrashes = 1
PROPERTIES CountComesRight EventsAreRead
