SPECIFICATION Spec
CONSTANTS
  u1 = u1
  u2 = u2
  User <- MCUser
  Subjects <- MCSubjects
  Operator = {o1, o2}
  Login = {l1, l2}
  NoUser = NoUser
  Threshold = 2
  MaxTokens = 1
  MaxChanges = 2
  MaxFaults = 2
SYMMETRY Symmetry
INVARIANTS
  TypeOK
  AdminRemains
  RevokedForGood
  LockoutBound
CHECK_DEADLOCK FALSE
