SPECIFICATION FairSpec
CONSTANTS
  d1 = d1 d2 = d2 c1 = c1 c2 = c2
  NoConn = NoConn NoDevice = NoDevice
  Device = {d1}
  Conn = {c1, c2}
  IfaceOf <- OneDevice
  Stops = TRUE
  MaxPending = 2
INVARIANTS TypeOK RecordFollows
PROPERTIES SwitchKeepsRecords Restored TurnsOff
