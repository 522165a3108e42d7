SPECIFICATION Spec
CONSTANTS
  Device = {d1, d2}
  Name = {n1, n2}
  NoName = NoName
  Renamed = {}
  Toggled = FALSE
  Chosen = FALSE
  Cabled = {d1, d2}
  MaxFeed = 2
  MaxCommands = 1
  MaxTimers = 1
  MaxItems = 4
INVARIANTS DevicesListed EnabledIsManaged
PROPERTIES ViewNotStolen
SYMMETRY Symmetry
CHECK_DEADLOCK FALSE
