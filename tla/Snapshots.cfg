SPECIFICATION FairSpec
CONSTANTS
  a = a  b = b  g = g
  User = {a, b}
  Group = {g}
  QuotaOf = 1
  Quota <- MCQuota
  MaxSnapshots = 3
  MaxConnects = 2
  MaxFailures = 1
CHECK_DEADLOCK FALSE
INVARIANTS TypeOK ResultsFollowChain HashesDescribe QuotaKept
PROPERTIES VerifiedUsersStay EverySnapshotServed
