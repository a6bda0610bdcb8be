SPECIFICATION ApprovalsSpec
CONSTANTS
  Proc = {p1, p2}
  Device = {d1}
  Rack = {r1}
  Pdu = {}
  Socket = {}
  Conn = {}
  Ticket = {t1, t2}
  Role = {}
  None = None
  Heights = {1, 2}
  UHeights = {2}
  StartUs = {1, 2}
  Lives = {"WAITING_RACK"}
  Statuses = {"AVAILABLE"}
  MaxVersion = 3
SYMMETRY Symmetry
PROPERTIES
  ApprovalExecutesRequest
  DecisionFinal
CHECK_DEADLOCK FALSE
