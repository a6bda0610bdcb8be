SPECIFICATION PlacementSpec
CONSTANTS
  Proc = {p1, p2}
  Device = {d1, d2}
  Rack = {r1, r2}
  Pdu = {}
  Socket = {}
  Conn = {}
  Ticket = {}
  Role = {}
  None = None
  Heights = {0, 1, 2}
  UHeights = {2}
  StartUs = {1, 2}
  Lives = {"WAITING_RACK"}
  Statuses = {"AVAILABLE"}
  MaxVersion = 3
SYMMETRY Symmetry
INVARIANTS
  TypeOK
  FootprintsDisjoint
  NoGhostPosition
  PositionMatchesDevice
  HistoryChain
PROPERTIES
  ImplementsLedger
CHECK_DEADLOCK FALSE
