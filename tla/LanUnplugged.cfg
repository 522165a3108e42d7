SPECIFICATION Spec
CONSTANTS
  Device = {d1}
  Name = {n1, n2}
  NoName = NoName
  Renamed = {}
  Toggled = FALSE
  Chosen = FALSE
  Cabled = {d1}
  MaxFeed = 1
  MaxCommands = 1
  MaxTimers = 1
  MaxItems = 4
INVARIANTS NoNullDevice
CHECK_DEADLOCK FALSE
