SPECIFICATION Spec
CONSTANTS
  d1 = d1 d2 = d2 c1 = c1 c2 = c2
  NoConn = NoConn NoDevice = NoDevice
  Device = {d1}
  Conn = {c1, c2}
  IfaceOf <- OneDevice
  Stops = FALSE
  MaxPending = 2
INVARIANT ClearedOnDisconnect
