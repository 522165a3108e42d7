SPECIFICATION Spec
CONSTANTS
  Faults = {"restart", "hidden", "default"}
  Edited = {c1}
  Conn = {c1}
  Path = {p1, p2}
  Device = {d1, d2}
  Ifaces = {AnyIface, d1, d2}
  AnyIface = AnyIface
  Empty = Empty
  NoPath = NoPath
  MaxFeed = 3
  MaxActive = 2
SYMMETRY Symmetry
INVARIANTS AtMostOnce PlaceholderAlone ListsFollow
PROPERTIES NoSecondItem
