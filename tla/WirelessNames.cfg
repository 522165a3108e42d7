SPECIFICATION NetSpec
CONSTANTS
  Device = {d1, d2}
  Renamed = {d2}
  n1 = n1
  Name = {n1, n2}
  s1 = s1
  gbk = gbk
  decoded = decoded
  Ssid = {s1, gbk}
  Text <- Texts
  Conn = {}
  Unnamed = {}
  Active = {}
  NoObject = NoObject
  MaxFeed = 2
  MaxTimers = 1
  Settings <- NoSettings
  Edited = {}
  AnyName = AnyName
  Hotspot = {}
  ActiveConn <- FirstConn
  ActiveDevice <- FirstDevice
  NoConn = NoConn
CONSTRAINT Undisturbed
INVARIANTS NetTypeOK NoGhosts NamesFollow AllShown
CHECK_DEADLOCK TRUE
