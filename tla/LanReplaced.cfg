SPECIFICATION Spec
CONSTANTS
  Faults = {}
  Edited = {}
  Conn = {c1, c2}
  Path = {p1, p2}
  Device = {d1, d2}
  Ifaces = {AnyIface}
  AnyIface = AnyIface
  Empty = Empty
  NoPath = NoPath
  MaxFeed = 2
  MaxActive = 2
SYMMETRY Symmetry
INVARIANTS OneShown
