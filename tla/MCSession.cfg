SPECIFICATION Spec
CONSTANTS
  u1 = u1
  u2 = u2
  User <- MCUser
  Admins <- MCAdmins
  Tab = {t1}
  NoUser = NoUser
  NoTab = NoTab
  Injected = "new"
  Unlocked = TRUE
  MaxTokens = 2
  MaxNet = 1
INVARIANTS
  TypeOK
  StoreMatchesStorage
  AdminPageForAdmins
PROPERTIES
  Settles
CHECK_DEADLOCK FALSE
