SPECIFICATION Spec
CONSTANTS
  Device = {d1, d2}
  Name = {n1, n2, n3}
  NoName = NoName
  Renamed = {d1, d2}
  Toggled = TRUE
  Chosen = TRUE
  Cabled = {}
  MaxFeed = 2
  MaxCommands = 0
  MaxTimers = 0
  MaxItems = 1
INVARIANTS TypeOK ListsPartition NoGhostDevices SwitchFollows
PROPERTIES ShownIsCurrent
SYMMETRY Symmetry
