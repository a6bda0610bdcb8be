SPECIFICATION LedgerSpec
CONSTANTS
  Row = {1}
  Group = {g}
  All = all
  Builtin = {}
  Hideable = {3}
  PageSize = 1
  MaxVer = 3
  MaxNet = 2
  MaxCalls = 4
PROPERTIES
  NoStaleSave
CHECK_DEADLOCK FALSE
