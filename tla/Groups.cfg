SPECIFICATION Spec
CONSTANTS
  a = a  b = b  c = c  Nobody = Nobody
  f = f  g = g
  User = {a, b, c}
  Group = {f, g}
  Initially <- Everyone
  Changing <- OneChanging
  Dismissals <- OthersOnly
  MaxInvites = 1
INVARIANTS TypeOK RolesMatchMembers HeadIsMember RemovedLeavesNothing
PROPERTIES VouchesFollowChange LastAdminStays
