SPECIFICATION MCSpec
CONSTANTS
  Row = {1, 2, 3, 4}
  Group = {g}
  All = all
  Builtin = {}
  Hideable = {3}
  PageSize = 1
  MaxVer = 3
  MaxNet = 2
  MaxCalls = 3
INVARIANTS
  WireOK
  Shown
  SelectionExists
  RetriesCreateNothing
PROPERTIES
  NoLostUpdate
CHECK_DEADLOCK FALSE
