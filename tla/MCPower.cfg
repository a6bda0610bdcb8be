SPECIFICATION DirectSpec
CONSTANTS
  Proc = {p1, p2}
  Device = {d1}
  Rack = {r1, r2}
  Pdu = {u1}
  Socket = {s1, s2}
  Conn = {c1, c2}
  Ticket = {}
  Role = {primary, standby}
  None = None
  Heights = {1}
  UHeights = {1}
  StartUs = {1}
  Lives = {"WAITING_RACK"}
  Statuses = {"AVAILABLE", "DISABLED"}
  MaxVersion = 3
SYMMETRY Symmetry
INVARIANTS
  SamePlacePower
  SocketStatusTruth
  RoleOnce
  NoWaitCycle
PROPERTIES
  RetiresOnlyConfirmed
  ImplementsLedger
CHECK_DEADLOCK FALSE
