SPECIFICATION FairSpec
CONSTANTS
  Proc = {p1, p2}
  Device = {d1}
  Rack = {r1}
  Pdu = {u1}
  Socket = {s1}
  Conn = {c1}
  Ticket = {t1}
  Role = {primary}
  None = None
  Heights = {1}
  UHeights = {1}
  StartUs = {1}
  Lives = {"WAITING_RACK"}
  Statuses = {"AVAILABLE"}
  MaxVersion = 2
INVARIANTS
  Inductive
PROPERTIES
  EveryTransactionEnds
CHECK_DEADLOCK FALSE
