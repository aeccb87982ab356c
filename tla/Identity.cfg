SPECIFICATION IdentitySpec
CONSTANTS
  r1 = r1  r2 = r2  ann = ann  ben = ben  n1 = n1  n2 = n2
  admins = admins  staff = staff  root = root  read = read
  Plays <- TwoPlays
  Users <- TwoUsers
  Names <- TwoNames
  Groups <- TwoGroups
  Policies <- TwoPolicies
  Followed <- OneUser
  Nothing = Nothing
  Declared <- Changes
  MaxId = 4
  MaxDisturbances = 1
INVARIANTS AccessAsDeclared
PROPERTIES LeaverGainsNothing KeepsAccess
CHECK_DEADLOCK FALSE
