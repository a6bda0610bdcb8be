SPECIFICATION MCSpec
CONSTANTS
  Device = {1, 2, 3, 4}
  PerPage = 1
  Spare = {3}
  MaxVersion = 3
  Rack = {1, 2, 3, 4, 5}
  Room = {1, 2}
  Made = {101, 102}
  Name = {2}
  Slashed = {2}
  Height = 3
  Token = {1, 2}
INVARIANTS
  ImportsTypeOK
  ReportedRowsExist
  SerialsStayUnique
  CommittedOnce
PROPERTIES
  UpdatesNamed
  ImportKeepsRest
CHECK_DEADLOCK FALSE
