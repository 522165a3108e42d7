SPECIFICATION NetSpec
CONSTANTS
  Device = {d1}
  Renamed = {d1}
  n1 = n1
  Name = {n1, n2}
  s1 = s1
  gbk = gbk
  decoded = decoded
  Ssid = {s1, gbk}
  Text <- Texts
  Conn = {c1, c2}
  Unnamed = {}
  Active = {a1}
  NoObject = NoObject
  MaxFeed = 2
  MaxTimers = 0
  Settings <- AllSettings
  Edited = {c1}
  AnyName = AnyName
  Hotspot = {c1}
  ActiveConn <- FirstConn
  ActiveDevice <- FirstDevice
  NoConn = NoConn
CONSTRAINT Undisturbed
INVARIANTS ConfiguredTruly
CHECK_DEADLOCK FALSE
