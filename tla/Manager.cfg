SPECIFICATION FairSpec
CONSTANTS
  Device = {d1}
  Renamed = {d1}
  Name = {n1, n2}
  Ssid = {s1}
  decoded = decoded
  Text <- Texts
  Conn = {c1, c2}
  Unnamed = {c2}
  Active = {a1}
  NoObject = NoObject
  MaxFeed = 2
  MaxTimers = 1
INVARIANTS TypeOK ListsMirrorNM FeedLeadsToLists FeedAlternates UpdatesOfKnown
PROPERTIES ImplementsFeed LossAnnounced InsertFindsAll SlotsEnd ViewCatchesUp
CHECK_DEADLOCK TRUE
