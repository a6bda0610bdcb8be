SPECIFICATION LookupSpec
CONSTANTS
  Proc = {p1, p2}
  Device = {d1}
  Rack = {r1}
  Pdu = {}
  Socket = {}
  Conn = {}
  Ticket = {}
  Role = {}
  None = None
  Heights = {1, 2}
  UHeights = {2}
  StartUs = {1}
  Lives = {"WAITING_RACK"}
  Statuses = {"AVAILABLE"}
  MaxVersion = 3
PROPERTIES
  MountedHeightKept
CHECK_DEADLOCK FALSE
