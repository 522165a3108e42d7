------------------------- MODULE LanConnectionsProofs -------------------------
(***************************************************************************)
(* A profile is in one list of the wired page, the active list shows one   *)
(* connection besides those about to leave it, and "not connected" only    *)
(* beside those; and the lists are NetworkManager's when all is handled:   *)
(* for every number of profiles and devices, every length of the queue and *)
(* every restart.                                                          *)
(*                                                                         *)
(* A handler looks up what the manager knows now, so an item may be ahead  *)
(* of its signals, and the argument is about the signals still queued.     *)
(* Known says of an item that its profile is there as the item shows it    *)
(* and no connectionAdd of it is queued, or that the connectionRemove that *)
(* takes the item away is queued ahead of any such connectionAdd.          *)
(*                                                                         *)
(* The second half (FollowInv) says of everything the lists do not show as *)
(* NetworkManager has it which queued signal will put it right.  It is     *)
(* kept by NetworkManager because a change is queued with its signal       *)
(* (Reports), and by the handlers because each does to the item of its     *)
(* profile what its signal says (Effects).                                 *)
(***************************************************************************)
EXTENDS LanConnections, SequenceTheorems, TLAPS

A == page.m_activeConnectionMap
I == page.m_inactiveConnectionMap

Keys == Conn \cup {Empty}
Item == [path : Path \cup {NoPath}, state : State]
Maps(keys) == UNION {[ks -> Item] : ks \in SUBSET keys}
Page ==
  [m_currentDeviceName : Device \cup {AnyIface}, on : BOOLEAN, listed : BOOLEAN,
   m_activeConnectionMap : Maps(Keys), m_inactiveConnectionMap : Maps(Conn)]

\* What changes is never that a connection is now going up (MayBecome).
Message ==
  [sig : {"connectionAdd", "connectionUpdate", "activeConnectRemove"}, conn : Conn]
  \cup [sig : {"connectionRemove"}, path : Path]
  \cup [sig : {"stateChangeReason"}, conn : Conn, state : State \ {"Activating"}]

ActiveConnection == [conn : Conn, path : Path, dev : Device, state : State]

\* The library's tables and the queue; the page.
FeedType ==
  /\ DOMAIN profile \subseteq Conn /\ \A c \in DOMAIN profile : profile[c] \in Profile
  /\ active \in Seq(ActiveConnection) /\ feed \in Seq(Message) /\ up \in BOOLEAN

IsAdd(m, c)      == m.sig = "connectionAdd" /\ m.conn = c
IsRemove(m, p)   == m.sig = "connectionRemove" /\ m.path = p
IsDown(m, c)     == m.sig = "stateChangeReason" /\ m.conn = c /\ m.state = "Deactivated"

\* An item of profile c with this path, as the signals of queue q find it.
Current(q, path, c) ==
  c \in DOMAIN profile /\ path = profile[c].path /\ \A i \in DOMAIN q : ~IsAdd(q[i], c)
Removed(q, path, c) ==
  \E j \in DOMAIN q : IsRemove(q[j], path) /\ \A i \in DOMAIN q : IsAdd(q[i], c) => j < i
Known(q, path, c) == Current(q, path, c) \/ Removed(q, path, c)

\* Leaving, for an item with this path.
LeavesIn(q, path, c) == \E i \in DOMAIN q : IsDown(q[i], c) \/ IsRemove(q[i], path)

KnownInv ==
  /\ \A c \in DOMAIN A : c \notin disturbed /\ c # Empty => Known(feed, A[c].path, c)
  /\ \A c \in DOMAIN I : c \notin disturbed => Known(feed, I[c].path, c)

\* NetworkManager has one connection up on a device, and a profile up on one device.
Strong(ac) == ac.state \in {"Activated", "Deactivating"}
OneUp ==
  \A i, j \in DOMAIN active :
    Strong(active[i]) /\ Strong(active[j])
    /\ (active[i].conn = active[j].conn \/ active[i].dev = active[j].dev) => i = j
PathsInv ==
  \A i \in DOMAIN active :
    active[i].conn \in DOMAIN profile => active[i].path = profile[active[i].conn].path

\* What the active list shows is up on the page's device, or about to leave the list.
UpOn(c, dev) ==
  \E i \in DOMAIN active : Strong(active[i]) /\ active[i].conn = c /\ active[i].dev = dev
AllUp ==
  Shown => \A c \in DOMAIN A \ (disturbed \cup {Empty}) :
             Leaving(c) \/ UpOn(c, page.m_currentDeviceName)
ShownInv == up => AllUp
StoppedInv == ~up => active = <<>>

TablesInv == FeedType /\ OneUp /\ PathsInv /\ StoppedInv
IInv == TablesInv /\ page \in Page /\ KnownInv /\ AtMostOnce /\ ShownInv /\ OneShown

-----------------------------------------------------------------------------
(* The page's maps.                                                        *)

LEMMA MapsProperties ==
  ASSUME NEW K
  PROVE  /\ \A m \in Maps(K) : DOMAIN m \subseteq K /\ \A k \in DOMAIN m : m[k] \in Item
         /\ \A m : /\ m = [k \in DOMAIN m |-> m[k]] /\ DOMAIN m \subseteq K
                   /\ \A k \in DOMAIN m : m[k] \in Item
                   => m \in Maps(K)
<1>1. ASSUME NEW m, m = [k \in DOMAIN m |-> m[k]], DOMAIN m \subseteq K,
             \A k \in DOMAIN m : m[k] \in Item
      PROVE  m \in Maps(K)
  <2>1. m \in [DOMAIN m -> Item]
    BY <1>1
  <2>2. QED BY <1>1, <2>1 DEF Maps
<1>2. QED BY <1>1 DEF Maps

\* Items leave a map, enter it, or change their state.
LEMMA WithoutProperties ==
  ASSUME NEW K, NEW m \in Maps(K), NEW ks
  PROVE  /\ Without(m, ks) \in Maps(K) /\ DOMAIN Without(m, ks) = DOMAIN m \ ks
         /\ \A k \in DOMAIN m \ ks : Without(m, ks)[k] = m[k]
BY MapsProperties, Zenon DEF Without, Restrict

\* The same of the page's two maps.
LEMMA ShownWithout ==
  \A m \in Maps(Keys) : \A ks :
    /\ Without(m, ks) \in Maps(Keys) /\ DOMAIN Without(m, ks) = DOMAIN m \ ks
    /\ \A k \in DOMAIN m \ ks : Without(m, ks)[k] = m[k]
BY WithoutProperties

LEMMA ListedWithout ==
  \A m \in Maps(Conn) : \A ks :
    /\ Without(m, ks) \in Maps(Conn) /\ DOMAIN Without(m, ks) = DOMAIN m \ ks
    /\ \A k \in DOMAIN m \ ks : Without(m, ks)[k] = m[k]
BY WithoutProperties

Extends(K, m, c, item, n) ==
  /\ n \in Maps(K) /\ DOMAIN n = DOMAIN m \cup {c} /\ n[c] = item
  /\ \A k \in DOMAIN m \ {c} : n[k] = m[k]

LEMMA ShownWith ==
  \A m, c, item : m \in Maps(Keys) /\ c \in Keys /\ item \in Item =>
    Extends(Keys, m, c, item, With(m, c, item))
<1>1. SUFFICES ASSUME NEW m \in Maps(Keys), NEW c \in Keys, NEW item \in Item
               PROVE  Extends(Keys, m, c, item, With(m, c, item))
  OBVIOUS
<1>2. DOMAIN With(m, c, item) = DOMAIN m \cup {c}
  BY DEF With
<1>3. \A k \in DOMAIN m \cup {c} : With(m, c, item)[k] = IF k = c THEN item ELSE m[k]
  BY DEF With
<1>4. With(m, c, item) = [k \in DOMAIN With(m, c, item) |-> With(m, c, item)[k]]
  BY DEF With
<1>5. QED
  BY <1>2, <1>3, <1>4, MapsProperties DEF Extends

LEMMA ListedWith ==
  \A m, c, item : m \in Maps(Conn) /\ c \in Conn /\ item \in Item =>
    Extends(Conn, m, c, item, With(m, c, item))
<1>1. SUFFICES ASSUME NEW m \in Maps(Conn), NEW c \in Conn, NEW item \in Item
               PROVE  Extends(Conn, m, c, item, With(m, c, item))
  OBVIOUS
<1>2. DOMAIN With(m, c, item) = DOMAIN m \cup {c}
  BY DEF With
<1>3. \A k \in DOMAIN m \cup {c} : With(m, c, item)[k] = IF k = c THEN item ELSE m[k]
  BY DEF With
<1>4. With(m, c, item) = [k \in DOMAIN With(m, c, item) |-> With(m, c, item)[k]]
  BY DEF With
<1>5. QED
  BY <1>2, <1>3, <1>4, MapsProperties DEF Extends

LEMMA PathProperties ==
  ASSUME NEW K, NEW m \in Maps(K), NEW c \in DOMAIN m, NEW path \in Path
  PROVE  LET n == [m EXCEPT ![c].path = path]
         IN /\ n \in Maps(K) /\ DOMAIN n = DOMAIN m /\ n[c].path = path
            /\ \A k \in DOMAIN m \ {c} : n[k] = m[k]
<1> DEFINE item == [m[c] EXCEPT !.path = path]
           n == [m EXCEPT ![c].path = path]
<1>1. n = [k \in DOMAIN m |-> IF k = c THEN item ELSE m[k]]
  BY MapsProperties DEF Maps
<1>2. item \in Item /\ item.path = path
  BY MapsProperties DEF Item
<1> HIDE DEF item, n
<1>3. n = [k \in DOMAIN n |-> n[k]] /\ DOMAIN n = DOMAIN m
  BY <1>1
<1>4. n[c] = item /\ \A k \in DOMAIN m \ {c} : n[k] = m[k]
  BY <1>1
<1>5. \A k \in DOMAIN n : n[k] \in Item
  BY <1>2, <1>3, <1>4, MapsProperties
<1>6. n \in Maps(K)
  BY <1>3, <1>5, MapsProperties
<1>7. QED
  BY <1>2, <1>3, <1>4, <1>6 DEF n

LEMMA ShownPath ==
  \A m, c, path : m \in Maps(Keys) /\ c \in DOMAIN m /\ path \in Path =>
    LET n == [m EXCEPT ![c].path = path]
    IN /\ n \in Maps(Keys) /\ DOMAIN n = DOMAIN m /\ n[c].path = path
       /\ \A k \in DOMAIN m \ {c} : n[k] = m[k]
BY PathProperties

LEMMA ListedPath ==
  \A m, c, path : m \in Maps(Conn) /\ c \in DOMAIN m /\ path \in Path =>
    LET n == [m EXCEPT ![c].path = path]
    IN /\ n \in Maps(Conn) /\ DOMAIN n = DOMAIN m /\ n[c].path = path
       /\ \A k \in DOMAIN m \ {c} : n[k] = m[k]
BY PathProperties

SamePaths(m, n) ==
  DOMAIN n = DOMAIN m /\ \A k \in DOMAIN m : n[k].path = m[k].path

LEMMA StateProperties ==
  ASSUME NEW K, NEW m \in Maps(K), NEW c, NEW state \in State
  PROVE  /\ UpdateConnectionState(m, c, state) \in Maps(K)
         /\ SamePaths(m, UpdateConnectionState(m, c, state))
<1> DEFINE n == [m EXCEPT ![c].state = state]
<1>1. CASE c \notin DOMAIN m
  BY <1>1 DEF UpdateConnectionState, SamePaths
<1>2. CASE c \in DOMAIN m
  <2>1. n = [k \in DOMAIN m |-> IF k = c THEN [m[c] EXCEPT !.state = state] ELSE m[k]]
    BY MapsProperties DEF Maps
  <2>2. [m[c] EXCEPT !.state = state] \in Item /\ [m[c] EXCEPT !.state = state].path = m[c].path
    BY <1>2, MapsProperties DEF Item
  <2>3. n = [k \in DOMAIN n |-> n[k]]
    BY <2>1
  <2>4. n \in Maps(K)
    BY <2>1, <2>2, <2>3, MapsProperties
  <2>5. QED
    BY <1>2, <2>1, <2>2, <2>4 DEF UpdateConnectionState, SamePaths
<1>3. QED BY <1>1, <1>2

LEMMA ShownState ==
  \A m, c, state : m \in Maps(Keys) /\ state \in State =>
    /\ UpdateConnectionState(m, c, state) \in Maps(Keys)
    /\ SamePaths(m, UpdateConnectionState(m, c, state))
BY StateProperties

LEMMA ListedState ==
  \A m, c, state : m \in Maps(Conn) /\ state \in State =>
    /\ UpdateConnectionState(m, c, state) \in Maps(Conn)
    /\ SamePaths(m, UpdateConnectionState(m, c, state))
BY StateProperties

-----------------------------------------------------------------------------
(* The queue.                                                              *)

\* A signal is handled: what is queued of an item stays queued unless it was the head.
LEMMA TailQueue ==
  ASSUME NEW q \in Seq(Message), q # <<>>
  PROVE  /\ Head(q) \in Message /\ Tail(q) \in Seq(Message)
         /\ \A path, c :
              /\ Known(q, path, c) /\ ~IsRemove(Head(q), path) => Known(Tail(q), path, c)
              /\ Known(q, path, c) => ~IsAdd(Head(q), c)
              /\ LeavesIn(q, path, c) /\ ~IsRemove(Head(q), path) /\ ~IsDown(Head(q), c)
                   => LeavesIn(Tail(q), path, c)
              /\ Known(q, path, c) /\ c \notin DOMAIN profile /\ ~IsRemove(Head(q), path)
                   => LeavesIn(Tail(q), path, c)
<1> DEFINE t == Tail(q)
<1>1. /\ Head(q) = q[1] /\ Head(q) \in Message /\ t \in Seq(Message) /\ Len(t) = Len(q) - 1
      /\ Len(q) \in Nat \ {0} /\ \A i \in 1..Len(t) : t[i] = q[i + 1]
  BY HeadTailProperties
<1> HIDE DEF t
<1>2. /\ DOMAIN q = 1..Len(q) /\ DOMAIN t = 1..Len(t) /\ 1 \in 1..Len(q)
      /\ \A i \in 1..Len(q) : i = 1 \/ (i - 1 \in 1..Len(t) /\ q[i] = t[i - 1])
      /\ \A i \in 1..Len(t) : i + 1 \in 1..Len(q)
  BY <1>1
<1> SUFFICES ASSUME NEW path, NEW c
             PROVE  /\ Known(q, path, c) /\ ~IsRemove(Head(q), path) => Known(t, path, c)
                    /\ Known(q, path, c) => ~IsAdd(Head(q), c)
                    /\ LeavesIn(q, path, c) /\ ~IsRemove(Head(q), path) /\ ~IsDown(Head(q), c)
                         => LeavesIn(t, path, c)
                    /\ Known(q, path, c) /\ c \notin DOMAIN profile /\ ~IsRemove(Head(q), path)
                         => LeavesIn(t, path, c)
  BY <1>1 DEF t
<1>3. Current(q, path, c) => Current(t, path, c) /\ ~IsAdd(Head(q), c)
  BY <1>1, <1>2 DEF Current
<1>4. ASSUME Removed(q, path, c)
      PROVE  ~IsAdd(Head(q), c) /\ (~IsRemove(Head(q), path) => Removed(t, path, c))
  <2>1. PICK j \in 1..Len(q) :
          IsRemove(q[j], path) /\ \A i \in 1..Len(q) : IsAdd(q[i], c) => j < i
    BY <1>2, <1>4 DEF Removed
  <2>2. ~IsAdd(Head(q), c)
    BY <1>1, <1>2, <2>1
  <2>3. ASSUME ~IsRemove(Head(q), path) PROVE Removed(t, path, c)
    <3>1. j - 1 \in 1..Len(t) /\ IsRemove(t[j - 1], path)
      BY <1>1, <1>2, <2>1, <2>3
    <3>2. \A i \in 1..Len(t) : IsAdd(t[i], c) => j - 1 < i
      BY <1>1, <1>2, <2>1
    <3>3. QED
      BY <1>2, <3>1, <3>2 DEF Removed
  <2>4. QED
    BY <2>2, <2>3
<1>5. LeavesIn(q, path, c) /\ ~IsRemove(Head(q), path) /\ ~IsDown(Head(q), c) => LeavesIn(t, path, c)
  BY <1>1, <1>2 DEF LeavesIn
<1>6. Removed(t, path, c) => LeavesIn(t, path, c)
  BY DEF Removed, LeavesIn
<1>7. QED
  BY <1>3, <1>4, <1>5, <1>6 DEF Known, Current

LEMMA AnnouncedProperties ==
  ASSUME NEW q \in Seq(Message), NEW c
  PROVE  c \in Announced(q) <=> \E i \in DOMAIN q : IsAdd(q[i], c)
BY DEF Announced, IsAdd

\* Signals are queued behind the others: what is said of an item stays said.
LEMMA LongerQueue ==
  ASSUME NEW q \in Seq(Message), NEW s \in Seq(Message)
  PROVE  /\ q \o s \in Seq(Message)
         /\ \A path, c :
              /\ LeavesIn(q, path, c) => LeavesIn(q \o s, path, c)
              /\ LeavesIn(s, path, c) => LeavesIn(q \o s, path, c)
              /\ Removed(q, path, c) => Removed(q \o s, path, c) /\ LeavesIn(q, path, c)
              /\ /\ \A i \in DOMAIN q : ~IsAdd(q[i], c)
                 /\ \A i \in DOMAIN s : ~IsAdd(s[i], c)
                 => /\ \A i \in DOMAIN (q \o s) : ~IsAdd((q \o s)[i], c)
                    /\ LeavesIn(s, path, c) /\ (\A i \in DOMAIN s : ~IsDown(s[i], c))
                         => Removed(q \o s, path, c)
<1> DEFINE r == q \o s
<1>1. /\ r \in Seq(Message) /\ Len(r) = Len(q) + Len(s)
      /\ \A i \in 1..Len(q) + Len(s) : r[i] = IF i <= Len(q) THEN q[i] ELSE s[i - Len(q)]
  BY ConcatProperties
<1> HIDE DEF r
<1>2. /\ DOMAIN q = 1..Len(q) /\ DOMAIN s = 1..Len(s) /\ DOMAIN r = 1..Len(r)
      /\ Len(q) \in Nat /\ Len(s) \in Nat
  BY <1>1
<1>3. /\ \A i \in 1..Len(q) : i \in 1..Len(r) /\ r[i] = q[i]
      /\ \A i \in 1..Len(s) : Len(q) + i \in 1..Len(r) /\ r[Len(q) + i] = s[i]
      /\ \A i \in 1..Len(r) :
           \/ i \in 1..Len(q) /\ r[i] = q[i]
           \/ i > Len(q) /\ i - Len(q) \in 1..Len(s) /\ r[i] = s[i - Len(q)]
  BY <1>1, <1>2
<1> SUFFICES ASSUME NEW path, NEW c
             PROVE  /\ LeavesIn(q, path, c) => LeavesIn(r, path, c)
                    /\ LeavesIn(s, path, c) => LeavesIn(r, path, c)
                    /\ Removed(q, path, c) => Removed(r, path, c) /\ LeavesIn(q, path, c)
                    /\ /\ \A i \in DOMAIN q : ~IsAdd(q[i], c)
                       /\ \A i \in DOMAIN s : ~IsAdd(s[i], c)
                       => /\ \A i \in DOMAIN r : ~IsAdd(r[i], c)
                          /\ LeavesIn(s, path, c) /\ (\A i \in DOMAIN s : ~IsDown(s[i], c))
                               => Removed(r, path, c)
  BY <1>1 DEF r
<1>4. /\ LeavesIn(q, path, c) => LeavesIn(r, path, c)
      /\ LeavesIn(s, path, c) => LeavesIn(r, path, c)
  BY <1>2, <1>3 DEF LeavesIn
<1>5. ASSUME Removed(q, path, c) PROVE Removed(r, path, c) /\ LeavesIn(q, path, c)
  <2>1. PICK j \in 1..Len(q) :
          IsRemove(q[j], path) /\ \A i \in 1..Len(q) : IsAdd(q[i], c) => j < i
    BY <1>2, <1>5 DEF Removed
  <2>2. \A i \in 1..Len(r) : IsAdd(r[i], c) => j < i
    BY <1>2, <1>3, <2>1
  <2>3. QED
    BY <1>2, <1>3, <2>1, <2>2 DEF Removed, LeavesIn
<1>6. ASSUME \A i \in DOMAIN q : ~IsAdd(q[i], c), \A i \in DOMAIN s : ~IsAdd(s[i], c)
      PROVE  \A i \in DOMAIN r : ~IsAdd(r[i], c)
  BY <1>2, <1>3, <1>6
<1>7. ASSUME LeavesIn(s, path, c), \A i \in DOMAIN s : ~IsDown(s[i], c),
             \A i \in DOMAIN r : ~IsAdd(r[i], c)
      PROVE  Removed(r, path, c)
  BY <1>2, <1>3, <1>7 DEF LeavesIn, Removed
<1>8. QED
  BY <1>4, <1>5, <1>6, <1>7

-----------------------------------------------------------------------------
(* What a handler may leave on the page.                                   *)

\* An item that was there, and that the signal handled does not take away.
ShownBefore(p, c) ==
  LET path == A[c].path
  IN /\ c \in DOMAIN A /\ p.m_activeConnectionMap[c].path = path /\ ~IsRemove(Msg, path)
     /\ IsDown(Msg, c) => c \notin DOMAIN profile
ListedBefore(p, c) ==
  LET path == I[c].path
  IN c \in DOMAIN I /\ p.m_inactiveConnectionMap[c].path = path /\ ~IsRemove(Msg, path)

\* An item made from what the manager knows now.
ShownNow(p, c) ==
  /\ c \in DOMAIN profile \ Announced(Tail(feed))
  /\ \E i \in DOMAIN active :
       /\ active[i].conn = c /\ active[i].state = "Activated"
       /\ active[i].dev = p.m_currentDeviceName
       /\ active[i].path = p.m_activeConnectionMap[c].path
ListedNow(p, c) ==
  /\ c \in DOMAIN profile \ Announced(Tail(feed))
  /\ p.m_inactiveConnectionMap[c].path = profile[c].path

Handled(p, d) ==
  /\ p \in Page /\ p.on = page.on /\ p.m_currentDeviceName = page.m_currentDeviceName
  /\ disturbed \subseteq d
  /\ \A c \in DOMAIN p.m_activeConnectionMap \ (d \cup {Empty}) : ShownBefore(p, c) \/ ShownNow(p, c)
  /\ \A c \in DOMAIN p.m_inactiveConnectionMap \ d : ListedBefore(p, c) \/ ListedNow(p, c)
  /\ (DOMAIN p.m_activeConnectionMap \cap DOMAIN p.m_inactiveConnectionMap) \ d
       \subseteq DOMAIN A \cap DOMAIN I

LEMMA OneOfTwo == OneUp /\ AllUp => OneShown
<1>1. SUFFICES ASSUME OneUp, AllUp, Shown, NEW c \in DOMAIN A \ (disturbed \cup {Empty}),
                      NEW k \in DOMAIN A \ (disturbed \cup {Empty}),
                      UpOn(c, page.m_currentDeviceName), UpOn(k, page.m_currentDeviceName)
               PROVE  c = k
  BY DEF OneShown, AllUp, A
<1>2. PICK i \in DOMAIN active :
        Strong(active[i]) /\ active[i].conn = c /\ active[i].dev = page.m_currentDeviceName
  BY <1>1 DEF UpOn
<1>3. PICK j \in DOMAIN active :
        Strong(active[j]) /\ active[j].conn = k /\ active[j].dev = page.m_currentDeviceName
  BY <1>1 DEF UpOn
<1>4. QED
  BY <1>1, <1>2, <1>3 DEF OneUp

LEMMA HandledStep ==
  ASSUME IInv, feed # <<>>, feed' = Tail(feed), UNCHANGED manager, Handled(page', disturbed'),
         Remembered
  PROVE  IInv'
<1>1. feed \in Seq(Message) /\ profile' = profile /\ active' = active /\ up' = up
  BY DEF IInv, TablesInv, FeedType, manager
<1>2. TablesInv'
  BY <1>1, TailQueue DEF IInv, TablesInv, FeedType, OneUp, Strong, PathsInv, StoppedInv
<1>3. /\ \A q, path, c : Known(q, path, c)' <=> Known(q', path', c')
      /\ \A c : Leaving(c)' <=> LeavesIn(Tail(feed), A'[c].path, c)
      /\ \A c : Leaving(c) <=> LeavesIn(feed, A[c].path, c)
  BY <1>1 DEF Known, Current, Removed, Leaving, LeavesIn, IsDown, IsRemove, A
<1>4. ASSUME NEW c \in DOMAIN A' \ (disturbed' \cup {Empty}), ShownBefore(page', c)
      PROVE  /\ c \in DOMAIN A \ (disturbed \cup {Empty}) /\ Known(feed, A[c].path, c)
             /\ Known(Tail(feed), A'[c].path, c) /\ (Leaving(c) => Leaving(c)')
  <2>1. /\ c \in DOMAIN A \ (disturbed \cup {Empty}) /\ Known(feed, A[c].path, c)
        /\ A'[c].path = A[c].path /\ ~IsRemove(Msg, A[c].path)
        /\ IsDown(Msg, c) => c \notin DOMAIN profile
    BY <1>4 DEF Handled, ShownBefore, IInv, KnownInv, A
  <2>2. QED
    BY <1>1, <1>3, <2>1, TailQueue DEF Msg
<1>5. ASSUME NEW c \in DOMAIN A', ShownNow(page', c)
      PROVE  Known(Tail(feed), A'[c].path, c) /\ UpOn(c, page'.m_currentDeviceName) /\ up
  <2>1. PICK i \in DOMAIN active :
          /\ active[i].conn = c /\ active[i].state = "Activated"
          /\ active[i].dev = page'.m_currentDeviceName /\ active[i].path = A'[c].path
    BY <1>5 DEF ShownNow, A
  <2>2. c \in DOMAIN profile /\ A'[c].path = profile[c].path
    BY <1>5, <2>1 DEF ShownNow, IInv, TablesInv, PathsInv
  <2>3. \A j \in DOMAIN Tail(feed) : ~IsAdd(Tail(feed)[j], c)
    BY <1>1, <1>5, TailQueue, AnnouncedProperties DEF ShownNow
  <2>4. up
    BY <2>1 DEF IInv, TablesInv, StoppedInv
  <2>5. QED
    BY <2>1, <2>2, <2>3, <2>4 DEF Known, Current, UpOn, Strong
<1>6. ASSUME NEW c \in DOMAIN I' \ disturbed' PROVE Known(Tail(feed), I'[c].path, c)
  <2>1. CASE ListedBefore(page', c)
    <3>1. /\ c \in DOMAIN I \ disturbed /\ Known(feed, I[c].path, c)
          /\ I'[c].path = I[c].path /\ ~IsRemove(Msg, I[c].path)
      BY <1>6, <2>1 DEF Handled, ListedBefore, IInv, KnownInv, I
    <3>2. QED
      BY <1>1, <3>1, TailQueue DEF Msg
  <2>2. CASE ListedNow(page', c)
    <3>1. \A j \in DOMAIN Tail(feed) : ~IsAdd(Tail(feed)[j], c)
      BY <1>1, <2>2, TailQueue, AnnouncedProperties DEF ListedNow
    <3>2. QED
      BY <2>2, <3>1 DEF ListedNow, Known, Current, I
  <2>3. QED
    BY <1>6, <2>1, <2>2 DEF Handled, I
<1>7. \A c \in DOMAIN A' \ (disturbed' \cup {Empty}) : ShownBefore(page', c) \/ ShownNow(page', c)
  BY DEF Handled, A
<1>8. KnownInv'
  <2>1. \A c \in DOMAIN A' \ (disturbed' \cup {Empty}) : Known(Tail(feed), A'[c].path, c)
    BY <1>4, <1>5, <1>7
  <2>2. \A q, path, c : Known(q, path, c) => (Known(q, path, c))'
    BY <1>3
  <2>3. QED
    BY <1>3, <1>6, <2>1 DEF KnownInv
<1>9. AtMostOnce'
  BY DEF Handled, IInv, AtMostOnce, A, I
<1>10. Shown' <=> Shown
  BY DEF Handled, Shown, Remembered
<1>11. ShownInv'
  <2>1. SUFFICES ASSUME Shown', up', NEW c \in DOMAIN A' \ (disturbed' \cup {Empty})
                 PROVE  Leaving(c)' \/ UpOn(c, page'.m_currentDeviceName)
    BY <1>1 DEF ShownInv, AllUp, UpOn, Strong
  <2>2. CASE ShownBefore(page', c)
    <3>1. Leaving(c) \/ UpOn(c, page.m_currentDeviceName)
      BY <1>1, <1>4, <1>10, <2>1, <2>2 DEF IInv, ShownInv, AllUp
    <3>2. QED
      BY <1>4, <2>2, <3>1 DEF Handled
  <2>3. QED
    BY <1>5, <1>7, <2>2
<1>12. OneShown'
  <2>1. CASE up
    <3>1. (OneUp /\ AllUp => OneShown)'
      BY OneOfTwo, PTL
    <3>2. QED
      BY <1>1, <1>2, <1>11, <2>1, <3>1 DEF TablesInv, ShownInv
  <2>2. CASE ~up
    <3>1. \A c \in DOMAIN A' \ (disturbed' \cup {Empty}) :
            c \in DOMAIN A \ (disturbed \cup {Empty}) /\ (Leaving(c) => Leaving(c)')
      BY <1>4, <1>5, <1>7, <2>2
    <3>2. QED
      BY <1>10, <3>1 DEF IInv, OneShown, A
  <2>3. QED BY <2>1, <2>2
<1>13. QED
  BY <1>2, <1>8, <1>9, <1>11, <1>12 DEF IInv, Handled

-----------------------------------------------------------------------------
(* The handlers.                                                           *)

LEMMA ActiveNow ==
  ASSUME TablesInv, NEW c, IsActiveConnection(c)
  PROVE  LET i == First(At(c, {"Activated"}))
         IN i \in DOMAIN active /\ active[i].conn = c /\ active[i].state = "Activated"
<1> DEFINE on == At(c, {"Activated"})
<1>1. /\ on \subseteq DOMAIN active /\ on # {}
      /\ \A i \in on : active[i].conn = c /\ active[i].state = "Activated"
  BY DEF IsActiveConnection, At
<1>2. \A i, j \in on : i = j
  BY <1>1 DEF TablesInv, OneUp, Strong
<1>3. DOMAIN active \subseteq Nat
  BY DEF TablesInv, FeedType
<1>4. \E i \in on : \A j \in on : i <= j
  BY <1>1, <1>2, <1>3
<1>5. First(on) \in on
  BY <1>4 DEF First
<1>6. QED
  BY <1>1, <1>5

LEMMA ConnectionItemType ==
  ASSUME FeedType, NEW c \in DOMAIN profile, NEW dev
  PROVE  GetConnectionItem(c, dev) \in Item /\ GetConnectionItem(c, dev).path = profile[c].path
BY DEF FeedType, GetConnectionItem, Item, Profile, State

LEMMA PlaceholderProperties ==
  ASSUME NEW m \in Maps(Keys)
  PROVE  /\ Placeholder \in Maps(Keys) /\ Placeholder[Empty] \in Item
         /\ OrPlaceholder(m) \in Maps(Keys)
         /\ DOMAIN m \subseteq DOMAIN OrPlaceholder(m)
         /\ DOMAIN OrPlaceholder(m) \subseteq DOMAIN m \cup {Empty}
         /\ \A k \in DOMAIN m : OrPlaceholder(m)[k] = m[k]
<1>1. Placeholder[Empty] \in Item /\ DOMAIN Placeholder = {Empty}
  BY DEF Placeholder, Item, State
<1>2. Placeholder = [k \in DOMAIN Placeholder |-> Placeholder[k]]
  BY DEF Placeholder
<1>3. Placeholder \in Maps(Keys)
  BY <1>1, <1>2, MapsProperties DEF Keys
<1>4. QED
  BY <1>1, <1>3 DEF OrPlaceholder

LEMMA PageFields ==
  ASSUME page \in Page
  PROVE  /\ A \in Maps(Keys) /\ DOMAIN A \subseteq Keys
         /\ \A c \in DOMAIN A : A[c] \in Item
         /\ I \in Maps(Conn) /\ DOMAIN I \subseteq Conn /\ \A c \in DOMAIN I : I[c] \in Item
BY MapsProperties DEF Page, Keys, A, I

LEMMA MessageConn ==
  ASSUME FeedType, feed # <<>>
  PROVE  /\ Msg \in Message /\ (Msg.sig # "connectionRemove" => Msg.conn \in Conn)
         /\ Msg.sig = "stateChangeReason" => Msg.state \in State \ {"Activating"}
BY HeadTailProperties DEF FeedType, Msg, Message

\* A signal that takes no item away, and a handler that changes neither map.
LEMMA NothingHandled ==
  ASSUME IInv, NEW d, disturbed \subseteq d,
         Msg.sig # "connectionRemove" /\ (Msg.sig = "stateChangeReason" => Msg.conn \notin DOMAIN profile)
  PROVE  Handled(page, d)
BY DEF IInv, Handled, ShownBefore, ListedBefore, IsRemove, IsDown, A, I

LEMMA AddConnectionHandled ==
  ASSUME IInv, OnAddConnection PROVE Handled(page', disturbed')
<1>1. feed # <<>> /\ Msg.sig = "connectionAdd" /\ ReadAhead
  BY DEF OnAddConnection, Handle
<1>2. FeedType /\ page \in Page /\ Msg.conn \in Conn
  BY <1>1, MessageConn DEF IInv, TablesInv
<1>3. CASE UNCHANGED page
  BY <1>1, <1>3, NothingHandled DEF ReadAhead
<1>4. CASE /\ Msg.conn \in DOMAIN profile
           /\ page' = [page EXCEPT !.m_inactiveConnectionMap =
                         With(@, Msg.conn, GetConnectionItem(Msg.conn, AnyIface))]
  <2> DEFINE c == Msg.conn
             n == With(I, c, GetConnectionItem(c, AnyIface))
  <2>1. /\ n \in Maps(Conn) /\ DOMAIN n = DOMAIN I \cup {c} /\ n[c].path = profile[c].path
        /\ \A k \in DOMAIN I \ {c} : n[k] = I[k]
    <3> DEFINE item == GetConnectionItem(c, AnyIface)
    <3>1. item \in Item /\ item.path = profile[c].path
      BY <1>2, <1>4, ConnectionItemType
    <3>2. I \in Maps(Conn) /\ c \in Conn
      BY <1>2, PageFields
    <3> HIDE DEF item
    <3>3. Extends(Conn, I, c, item, With(I, c, item))
      BY <3>1, <3>2, ListedWith
    <3>4. QED
      BY <3>1, <3>3 DEF item, Extends
  <2>2. /\ page' \in Page /\ page'.on = page.on
        /\ page'.m_currentDeviceName = page.m_currentDeviceName
        /\ page'.m_activeConnectionMap = A /\ page'.m_inactiveConnectionMap = n
    BY <1>2, <1>4, <2>1 DEF Page, A, I
  <2>3. \A k \in DOMAIN A \ (disturbed \cup {Empty}) : k # c
    <3>1. IsAdd(Head(feed), c) /\ feed \in Seq(Message)
      BY <1>1, <1>2 DEF IsAdd, Msg, FeedType
    <3>2. QED
      BY <1>1, <3>1, TailQueue DEF IInv, KnownInv
  <2>4. c # Empty
    BY <1>2, ConnectionAssumption
  <2>5. disturbed \subseteq disturbed' /\ (c \in Announced(Tail(feed)) => c \in disturbed')
    BY <1>1 DEF ReadAhead
  <2> HIDE DEF n
  <2>6. \A k \in DOMAIN n \ disturbed' : ListedBefore(page', k) \/ ListedNow(page', k)
    BY <1>1, <1>4, <2>1, <2>2, <2>5 DEF ListedBefore, ListedNow, IsRemove
  <2>7. \A k \in DOMAIN A \ (disturbed' \cup {Empty}) : ShownBefore(page', k)
    BY <1>1, <2>2 DEF ShownBefore, IsRemove, IsDown
  <2>8. (DOMAIN A \cap DOMAIN n) \ disturbed' \subseteq DOMAIN A \cap DOMAIN I
    BY <1>2, <2>1, <2>3, <2>4, <2>5, PageFields
  <2>9. QED
    BY <2>2, <2>5, <2>6, <2>7, <2>8 DEF Handled
<1>5. QED
  BY <1>3, <1>4 DEF OnAddConnection

\* Every item of the profile's path is gone, or was disturbed already, or is now.
LEMMA RemoveConnectionHandled ==
  ASSUME IInv, OnRemoveConnection PROVE Handled(page', disturbed')
<1> DEFINE inactive == OfPath(I, Msg.path)
           shown    == OfPath(A, Msg.path)
           found    == IF inactive # {} THEN inactive ELSE shown
<1>1. /\ Msg.sig = "connectionRemove" /\ page \in Page
      /\ DOMAIN A \cap DOMAIN I \subseteq disturbed
  BY DEF OnRemoveConnection, Handle, IInv, AtMostOnce, A, I
<1>2. /\ inactive \subseteq DOMAIN I /\ \A c \in DOMAIN I \ inactive : ~IsRemove(Msg, I[c].path)
      /\ shown \subseteq DOMAIN A /\ \A c \in DOMAIN A \ shown : ~IsRemove(Msg, A[c].path)
      /\ \A c : ~IsDown(Msg, c)
  BY <1>1 DEF OfPath, IsRemove, IsDown
<1> A \in Maps(Keys)
  BY <1>1, PageFields
<1> I \in Maps(Conn)
  BY <1>1, PageFields
<1>3. DOMAIN I \subseteq Conn /\ Empty \notin Conn
  BY <1>1, PageFields, ConnectionAssumption
<1>4. ASSUME page' \in Page, page'.on = page.on,
             page'.m_currentDeviceName = page.m_currentDeviceName,
             disturbed \subseteq disturbed',
             DOMAIN A' \subseteq DOMAIN A \cup {Empty}, DOMAIN I' \subseteq DOMAIN I,
             \A c \in DOMAIN A' \ (disturbed' \cup {Empty}) :
               c \in DOMAIN A \ shown /\ A'[c] = A[c],
             \A c \in DOMAIN I' \ disturbed' :
               c \in DOMAIN I \ inactive /\ I'[c] = I[c]
      PROVE  Handled(page', disturbed')
  <2>1. \A c \in DOMAIN A' \ (disturbed' \cup {Empty}) : ShownBefore(page', c)
    BY <1>2, <1>4 DEF ShownBefore, A
  <2>2. \A c \in DOMAIN I' \ disturbed' : ListedBefore(page', c)
    BY <1>2, <1>4 DEF ListedBefore, I
  <2>3. (DOMAIN A' \cap DOMAIN I') \ disturbed' \subseteq DOMAIN A \cap DOMAIN I
    BY <1>3, <1>4
  <2>4. QED
    BY <1>4, <2>1, <2>2, <2>3 DEF Handled, A, I
<1>5. CASE ~page.listed /\ UNCHANGED page /\ disturbed' = disturbed \cup ((inactive \cup shown) \ {})
  BY <1>1, <1>4, <1>5 DEF A, I
<1>6. CASE /\ found = {} /\ page' = [page EXCEPT !.m_activeConnectionMap = OrPlaceholder(A)]
           /\ UNCHANGED disturbed
  <2>1. inactive = {} /\ shown = {}
    BY <1>6
  <2>2. /\ page' \in Page /\ page'.on = page.on
        /\ page'.m_currentDeviceName = page.m_currentDeviceName
        /\ A' = OrPlaceholder(A) /\ I' = I
    BY <1>1, <1>6, PlaceholderProperties DEF Page, A, I
  <2>3. QED
    BY <1>4, <1>6, <2>1, <2>2, PlaceholderProperties
<1>7. ASSUME NEW k \in found, page' = ConnectionRemoved(page, k),
             disturbed' = disturbed \cup ((inactive \cup shown) \ {k})
      PROVE  Handled(page', disturbed')
  <2>1. CASE k \in DOMAIN I
    <3>1. Without(I, {k}) \in Maps(Conn)
      BY ListedWithout
    <3>2. page' = [page EXCEPT !.m_inactiveConnectionMap = Without(I, {k})]
      BY <1>7, <2>1 DEF ConnectionRemoved, I
    <3>3. /\ page' \in Page /\ page'.on = page.on
          /\ page'.m_currentDeviceName = page.m_currentDeviceName
          /\ A' = A /\ I' = Without(I, {k})
      BY <1>1, <3>1, <3>2 DEF Page, A, I
    <3>4. DOMAIN I' = DOMAIN I \ {k} /\ \A c \in DOMAIN I \ {k} : I'[c] = I[c]
      BY <3>3, ListedWithout
    <3>5. \A c \in DOMAIN A \ disturbed' : c \notin shown
      BY <1>1, <1>2, <1>7, <2>1
    <3>6. QED
      BY <1>4, <1>7, <3>3, <3>4, <3>5
  <2>2. CASE k \notin DOMAIN I
    <3> DEFINE m == Without(A, {k})
    <3>1. /\ m \in Maps(Keys) /\ DOMAIN m = DOMAIN A \ {k}
          /\ \A c \in DOMAIN A \ {k} : m[c] = A[c]
      BY ShownWithout
    <3>2. page' = [page EXCEPT !.m_activeConnectionMap = OrPlaceholder(m)]
      BY <1>7, <2>2 DEF ConnectionRemoved, A, I
    <3> HIDE DEF m
    <3>3. /\ OrPlaceholder(m) \in Maps(Keys)
          /\ DOMAIN OrPlaceholder(m) \subseteq DOMAIN m \cup {Empty}
          /\ DOMAIN m \subseteq DOMAIN OrPlaceholder(m)
          /\ \A c \in DOMAIN m : OrPlaceholder(m)[c] = m[c]
      BY <3>1, PlaceholderProperties
    <3>4. /\ page' \in Page /\ page'.on = page.on
          /\ page'.m_currentDeviceName = page.m_currentDeviceName
          /\ A' = OrPlaceholder(m) /\ I' = I
      BY <1>1, <3>2, <3>3 DEF Page, A, I
    <3>5. \A c \in DOMAIN I : c \notin disturbed' => c \notin inactive
      BY <1>7, <2>2
    <3>6. QED
      BY <1>2, <1>4, <1>7, <3>1, <3>3, <3>4, <3>5
  <2>3. QED BY <2>1, <2>2
<1>8. QED
  BY <1>5, <1>6, <1>7 DEF OnRemoveConnection, A, I

\* A new name, or another interface: an item stays what it is, goes, or is new.
LEMMA UpdateConnectionHandled ==
  ASSUME IInv, OnUpdateConnection PROVE Handled(page', disturbed')
<1> DEFINE c == Msg.conn
<1>1. /\ feed # <<>> /\ Msg.sig = "connectionUpdate" /\ page \in Page /\ FeedType
      /\ disturbed \subseteq disturbed' /\ (c \in Announced(Tail(feed)) => c \in disturbed')
  BY DEF OnUpdateConnection, ReadAhead, Handle, IInv, TablesInv
<1> A \in Maps(Keys)
  BY <1>1, PageFields
<1> I \in Maps(Conn)
  BY <1>1, PageFields
<1> c \in Conn
  BY <1>1, MessageConn
<1>2. DOMAIN I \subseteq Conn /\ Empty \notin Conn
  BY <1>1, PageFields, ConnectionAssumption
<1>3. \A p : ~IsRemove(Msg, p) /\ \A k : ~IsDown(Msg, k)
  BY <1>1 DEF IsRemove, IsDown
<1>4. CASE UNCHANGED page
  BY <1>1, <1>4, NothingHandled
<1>5. CASE c \in DOMAIN profile /\ IsActiveConnection(c)
  <2> DEFINE i == First(At(c, {"Activated"}))
             ac == active[i]
  <2>1. /\ i \in DOMAIN active /\ ac.conn = c /\ ac.state = "Activated"
        /\ ac \in ActiveConnection
    BY <1>5, ActiveNow DEF IInv, TablesInv, FeedType
  <2> HIDE DEF i
  <2>2. page' = UpdateActiveConnectionProperty(page, ac)
    BY <1>1, <1>5, <2>1 DEF OnUpdateConnection, i
  <2>3. SUFFICES ASSUME c \in DOMAIN A PROVE Handled(page', disturbed')
    BY <1>4, <2>1, <2>2 DEF UpdateActiveConnectionProperty, A
  <2>4. CASE ac.dev # page.m_currentDeviceName
    <3> DEFINE m == Without(A, {c})
               none == Placeholder[Empty]
               n == With(m, Empty, none)
    <3>1. page' = [page EXCEPT !.m_activeConnectionMap = n]
      BY <2>1, <2>2, <2>3, <2>4 DEF UpdateActiveConnectionProperty, A
    <3>2. /\ m \in Maps(Keys) /\ DOMAIN m = DOMAIN A \ {c}
          /\ \A k \in DOMAIN A \ {c} : m[k] = A[k]
      BY ShownWithout
    <3> HIDE DEF m
    <3> m \in Maps(Keys)
      BY <3>2
    <3>3. none \in Item /\ Empty \in Keys
      BY PlaceholderProperties DEF Keys
    <3> HIDE DEF none
    <3>12. Extends(Keys, m, Empty, none, n)
      BY <3>3, ShownWith
    <3> HIDE DEF n
    <3>4. /\ n \in Maps(Keys) /\ DOMAIN n = DOMAIN m \cup {Empty}
          /\ \A k \in DOMAIN m \ {Empty} : n[k] = m[k]
      BY <3>12 DEF Extends
    <3>5. /\ page' \in Page /\ page'.on = page.on
          /\ page'.m_currentDeviceName = page.m_currentDeviceName /\ A' = n /\ I' = I
      BY <1>1, <3>1, <3>4 DEF Page, A, I
    <3>6. \A k \in DOMAIN A' \ (disturbed' \cup {Empty}) : ShownBefore(page', k)
      BY <1>3, <3>2, <3>4, <3>5 DEF ShownBefore, A
    <3>7. \A k \in DOMAIN I' \ disturbed' : ListedBefore(page', k)
      BY <1>3, <3>5 DEF ListedBefore, I
    <3>8. DOMAIN A' \cap DOMAIN I' \subseteq DOMAIN A \cap DOMAIN I
      BY <1>2, <3>2, <3>4, <3>5
    <3>9. QED
      BY <1>1, <3>5, <3>6, <3>7, <3>8 DEF Handled, A, I
  <2>5. CASE ac.dev = page.m_currentDeviceName
    <3> DEFINE n == [A EXCEPT ![c].path = ac.path]
    <3>1. page' = [page EXCEPT !.m_activeConnectionMap = n]
      BY <1>1, <2>1, <2>2, <2>3, <2>5 DEF UpdateActiveConnectionProperty, A, Page
    <3>2. ac.path \in Path
      BY <2>1 DEF ActiveConnection
    <3>5. DOMAIN n = DOMAIN A
      BY <2>3, <3>2, ShownPath
    <3>6. /\ n \in Maps(Keys) /\ n[c].path = ac.path
          /\ \A k \in DOMAIN A \ {c} : n[k] = A[k]
      BY <2>3, <3>2, ShownPath
    <3> HIDE DEF n
    <3>7. /\ page' \in Page /\ page'.on = page.on
          /\ page'.m_currentDeviceName = page.m_currentDeviceName /\ A' = n /\ I' = I
      BY <1>1, <3>1, <3>6 DEF Page, A, I
    <3>8. c \notin disturbed' => ShownNow(page', c)
      BY <1>1, <1>5, <2>1, <2>5, <3>6, <3>7 DEF ShownNow, A
    <3>9. \A k \in DOMAIN A' \ {c} : ShownBefore(page', k)
      BY <1>3, <3>5, <3>6, <3>7 DEF ShownBefore, A
    <3>10. \A k \in DOMAIN I' \ disturbed' : ListedBefore(page', k)
      BY <1>3, <3>7 DEF ListedBefore, I
    <3>11. QED
      BY <1>1, <3>5, <3>7, <3>8, <3>9, <3>10 DEF Handled, A, I
  <2>6. QED BY <2>4, <2>5
<1>6. ASSUME NEW renamed \in BOOLEAN, c \in DOMAIN profile,
             page' = UpdateConnectionProperty(page, c, renamed)
      PROVE  Handled(page', disturbed')
  <2> DEFINE item == GetConnectionItem(c, AnyIface)
  <2>1. item \in Item /\ item.path = profile[c].path
    BY <1>1, <1>6, ConnectionItemType
  <2> HIDE DEF item
  <2>2. ASSUME NEW n \in Maps(Conn), page' = [page EXCEPT !.m_inactiveConnectionMap = n],
               \A k \in DOMAIN n \ {c} : k \in DOMAIN I /\ n[k] = I[k],
               c \in DOMAIN n => n[c].path = profile[c].path,
               c \in DOMAIN n /\ c \in DOMAIN A => c \in DOMAIN I
        PROVE  Handled(page', disturbed')
    <3>1. /\ page' \in Page /\ page'.on = page.on
          /\ page'.m_currentDeviceName = page.m_currentDeviceName /\ A' = A /\ I' = n
      BY <1>1, <2>2 DEF Page, A, I
    <3>2. \A k \in DOMAIN A' : ShownBefore(page', k)
      BY <1>3, <3>1 DEF ShownBefore, A
    <3>3. \A k \in DOMAIN I' \ disturbed' : ListedBefore(page', k) \/ ListedNow(page', k)
      BY <1>1, <1>3, <1>6, <2>2, <3>1 DEF ListedBefore, ListedNow, I
    <3>4. DOMAIN A' \cap DOMAIN I' \subseteq DOMAIN A \cap DOMAIN I
      BY <2>2, <3>1
    <3>5. QED
      BY <1>1, <3>1, <3>2, <3>3, <3>4 DEF Handled, A, I
  <2>3. CASE c \in DOMAIN I /\ ~Fits(c, page.m_currentDeviceName)
    <3>1. page' = [page EXCEPT !.m_inactiveConnectionMap = Without(I, {c})]
      BY <1>6, <2>3 DEF UpdateConnectionProperty, I
    <3>2. QED
      BY <2>2, <3>1, ListedWithout
  <2>4. CASE c \in DOMAIN I /\ Fits(c, page.m_currentDeviceName) /\ renamed
    <3> DEFINE n == [I EXCEPT ![c] = item]
    <3>1. page' = [page EXCEPT !.m_inactiveConnectionMap = n]
      BY <1>1, <1>6, <2>4 DEF UpdateConnectionProperty, I, Page, item
    <3>2. n = [k \in DOMAIN I |-> IF k = c THEN item ELSE I[k]]
      BY DEF Maps
    <3>3. n = [k \in DOMAIN n |-> n[k]] /\ DOMAIN n = DOMAIN I
      BY <3>2
    <3>4. /\ n \in Maps(Conn) /\ n[c] = item /\ \A k \in DOMAIN I \ {c} : n[k] = I[k]
      BY <2>1, <2>4, <3>2, <3>3, MapsProperties
    <3>5. QED
      BY <2>1, <2>2, <2>4, <3>1, <3>3, <3>4
  <2>5. CASE c \in DOMAIN I /\ Fits(c, page.m_currentDeviceName) /\ ~renamed
    <3> DEFINE n == [I EXCEPT ![c].path = item.path]
    <3>1. page' = [page EXCEPT !.m_inactiveConnectionMap = n]
      BY <1>1, <1>6, <2>5 DEF UpdateConnectionProperty, I, Page, item
    <3>2. item.path \in Path
      BY <1>1, <1>6, <2>1 DEF FeedType, Profile
    <3>5. DOMAIN n = DOMAIN I
      BY <2>5, <3>2, ListedPath
    <3>6. n \in Maps(Conn) /\ n[c].path = item.path /\ \A k \in DOMAIN I \ {c} : n[k] = I[k]
      BY <2>5, <3>2, ListedPath
    <3>7. QED
      BY <2>1, <2>2, <2>5, <3>1, <3>5, <3>6
  <2>6. CASE /\ c \notin DOMAIN I /\ c \notin DOMAIN A
             /\ Fits(c, page.m_currentDeviceName)
    <3>1. page' = [page EXCEPT !.m_inactiveConnectionMap = With(I, c, item)]
      BY <1>6, <2>6 DEF UpdateConnectionProperty, A, I, item
    <3>2. Extends(Conn, I, c, item, With(I, c, item))
      BY <2>1, ListedWith
    <3>3. QED
      BY <2>1, <2>2, <2>6, <3>1, <3>2 DEF Extends
  <2>7. CASE c \notin DOMAIN I /\ ~(c \notin DOMAIN A /\ Fits(c, page.m_currentDeviceName))
    BY <1>4, <1>6, <2>7 DEF UpdateConnectionProperty, A, I
  <2>8. QED
    BY <2>3, <2>4, <2>5, <2>6, <2>7
<1>7. QED
  <2>1. CASE c \notin DOMAIN profile
    BY <1>1, <1>4, <2>1 DEF OnUpdateConnection
  <2>2. CASE c \in DOMAIN profile /\ ~IsActiveConnection(c)
    BY <1>6, <2>2 DEF OnUpdateConnection
  <2>3. QED
    BY <1>5, <2>1, <2>2

LEMMA StateChangeHandled ==
  ASSUME IInv, OnConnectionStateChange PROVE Handled(page', disturbed')
<1> DEFINE c == Msg.conn
           mine == UpdateConnectionState(A, c, Msg.state)
           told == [page EXCEPT !.m_activeConnectionMap = mine]
<1>1. /\ feed # <<>> /\ Msg.sig = "stateChangeReason" /\ page \in Page /\ FeedType
      /\ disturbed \subseteq disturbed' /\ (c \in Announced(Tail(feed)) => c \in disturbed')
      /\ DOMAIN A \cap DOMAIN I \subseteq disturbed
  BY DEF OnConnectionStateChange, Handle, ReadAhead, IInv, TablesInv, AtMostOnce, A, I
<1> page \in Page
  BY <1>1
<1> A \in Maps(Keys)
  BY <1>1, PageFields
<1> I \in Maps(Conn)
  BY <1>1, PageFields
<1> c \in Conn /\ Msg.state \in State
  BY <1>1, MessageConn
<1>2. DOMAIN I \subseteq Conn /\ Empty \notin Conn
  BY <1>1, PageFields, ConnectionAssumption
<1>3. CASE c \notin DOMAIN profile
  <2>1. UNCHANGED page
    BY <1>3 DEF OnConnectionStateChange, State
  <2>2. QED
    BY <1>1, <1>3, <2>1, NothingHandled
<1>4. ASSUME c \in DOMAIN profile, NEW p \in Page, p.on = page.on,
             p.m_currentDeviceName = page.m_currentDeviceName,
             \A k \in DOMAIN p.m_activeConnectionMap \ {Empty} :
               \/ /\ k \in DOMAIN A /\ p.m_activeConnectionMap[k].path = A[k].path
                  /\ k = c /\ Msg.state = "Deactivated" => k \in disturbed
               \/ /\ k = c
                  /\ \E i \in DOMAIN active :
                       /\ active[i].conn = c /\ active[i].state = "Activated"
                       /\ active[i].dev = page.m_currentDeviceName
                       /\ active[i].path = p.m_activeConnectionMap[c].path,
             \A k \in DOMAIN p.m_inactiveConnectionMap :
               \/ k \in DOMAIN I /\ p.m_inactiveConnectionMap[k].path = I[k].path
               \/ k = c /\ p.m_inactiveConnectionMap[c].path = profile[c].path,
             DOMAIN p.m_activeConnectionMap \cap DOMAIN p.m_inactiveConnectionMap
               \subseteq DOMAIN A \cap DOMAIN I
      PROVE  Handled(p, disturbed')
  <2>1. ASSUME NEW k \in DOMAIN p.m_activeConnectionMap \ (disturbed' \cup {Empty})
        PROVE  ShownBefore(p, k) \/ ShownNow(p, k)
    BY <1>1, <1>4, <2>1 DEF ShownBefore, ShownNow, IsRemove, IsDown
  <2>2. ASSUME NEW k \in DOMAIN p.m_inactiveConnectionMap \ disturbed'
        PROVE  ListedBefore(p, k) \/ ListedNow(p, k)
    BY <1>1, <1>4, <2>2 DEF ListedBefore, ListedNow, IsRemove
  <2>3. QED
    BY <1>1, <1>4, <2>1, <2>2 DEF Handled
<1>5. mine \in Maps(Keys) /\ SamePaths(A, mine)
  BY ShownState
<1> HIDE DEF mine
<1>6. /\ told \in Page /\ told.on = page.on /\ told.m_currentDeviceName = page.m_currentDeviceName
      /\ told.m_activeConnectionMap = mine /\ told.m_inactiveConnectionMap = I
  BY <1>5 DEF Page, I
<1>7. told = [page EXCEPT !.m_activeConnectionMap = UpdateConnectionState(@, c, Msg.state)]
  BY DEF mine, A, Page
<1> HIDE DEF told
<1>8. DOMAIN mine = DOMAIN A /\ \A k \in DOMAIN A : mine[k].path = A[k].path
  BY <1>5 DEF SamePaths
<1>9. CASE c \in DOMAIN profile /\ Msg.state # "Deactivated" /\ page' = told
  BY <1>4, <1>6, <1>8, <1>9
<1>10. CASE /\ c \in DOMAIN profile /\ Msg.state = "Activating"
            /\ page' = [told EXCEPT !.m_inactiveConnectionMap =
                          UpdateConnectionState(@, c, "Activating")]
  <2> DEFINE n == UpdateConnectionState(I, c, "Activating")
  <2>1. n \in Maps(Conn) /\ SamePaths(I, n)
    BY ListedState DEF State
  <2> HIDE DEF n
  <2>2. /\ page' \in Page /\ page'.on = page.on
        /\ page'.m_currentDeviceName = page.m_currentDeviceName
        /\ page'.m_activeConnectionMap = mine /\ page'.m_inactiveConnectionMap = n
    BY <1>6, <1>10, <2>1 DEF Page, n
  <2>3. QED
    BY <1>4, <1>8, <1>10, <2>1, <2>2 DEF SamePaths
<1>11. CASE c \in DOMAIN profile /\ Msg.state = "Activated" /\ page' = Activated(told, c)
  <2>1. CASE At(c, {"Activated"}) = {}
    BY <1>9, <1>11, <2>1 DEF Activated
  <2>2. CASE At(c, {"Activated"}) # {}
    <3> DEFINE i == First(At(c, {"Activated"}))
               ac == active[i]
               moved == UpdateActivatedConnectionArea(told, ac)
               shown == moved.m_activeConnectionMap
               n == UpdateConnectionState(shown, c, "Activated")
    <3>1. /\ i \in DOMAIN active /\ ac.conn = c /\ ac.state = "Activated"
          /\ ac \in ActiveConnection
      BY <1>1, <2>2, ActiveNow DEF IInv, TablesInv, FeedType, IsActiveConnection
    <3> HIDE DEF i
    <3>2. page' = [moved EXCEPT !.m_activeConnectionMap = UpdateConnectionState(@, c, "Activated")]
      BY <1>11, <2>2 DEF Activated, i
    <3>3. ASSUME moved \in Page, moved.on = page.on,
                 moved.m_currentDeviceName = page.m_currentDeviceName,
                 \A k \in DOMAIN shown \ {Empty} :
                   \/ k \in DOMAIN A /\ shown[k].path = A[k].path
                   \/ k = c /\ ac.dev = page.m_currentDeviceName /\ ac.path = shown[c].path,
                 \A k \in DOMAIN moved.m_inactiveConnectionMap :
                   k \in DOMAIN I /\ moved.m_inactiveConnectionMap[k].path = I[k].path,
                 DOMAIN shown \cap DOMAIN moved.m_inactiveConnectionMap
                   \subseteq DOMAIN A \cap DOMAIN I
          PROVE  Handled(page', disturbed')
      <4> HIDE DEF moved
      <4>1. shown \in Maps(Keys)
        BY <3>3 DEF Page
      <4>2. n \in Maps(Keys) /\ SamePaths(shown, n)
        BY <4>1, ShownState DEF State
      <4>3. /\ page' \in Page /\ page'.on = page.on
            /\ page'.m_currentDeviceName = page.m_currentDeviceName
            /\ page'.m_activeConnectionMap = n
            /\ page'.m_inactiveConnectionMap = moved.m_inactiveConnectionMap
        BY <3>2, <3>3, <4>2 DEF Page
      <4>4. DOMAIN n = DOMAIN shown /\ \A k \in DOMAIN shown : n[k].path = shown[k].path
        BY <4>2 DEF SamePaths
      <4> HIDE DEF n, shown
      <4>5. \A k \in DOMAIN n \ {Empty} :
              \/ k \in DOMAIN A /\ n[k].path = A[k].path
              \/ k = c /\ \E j \in DOMAIN active :
                            /\ active[j].conn = c /\ active[j].state = "Activated"
                            /\ active[j].dev = page.m_currentDeviceName
                            /\ active[j].path = n[c].path
        BY <3>1, <3>3, <4>4
      <4>6. QED
        BY <1>4, <1>11, <3>3, <4>3, <4>4, <4>5
    <3>4. CASE c \in DOMAIN A
      <4>1. moved = told
        BY <1>6, <1>8, <3>1, <3>4 DEF UpdateActivatedConnectionArea
      <4>2. QED
        BY <1>6, <1>8, <3>3, <4>1
    <3>5. CASE c \notin DOMAIN A /\ ac.dev # page.m_currentDeviceName
      <4>1. moved = [told EXCEPT !.m_inactiveConnectionMap = Without(I, {c})]
        BY <1>6, <1>8, <3>1, <3>5 DEF UpdateActivatedConnectionArea, Page
      <4>2. /\ Without(I, {c}) \in Maps(Conn) /\ DOMAIN Without(I, {c}) = DOMAIN I \ {c}
            /\ \A k \in DOMAIN I \ {c} : Without(I, {c})[k] = I[k]
        BY ListedWithout
      <4>3. /\ moved \in Page /\ moved.on = page.on
            /\ moved.m_currentDeviceName = page.m_currentDeviceName
            /\ shown = mine /\ moved.m_inactiveConnectionMap = Without(I, {c})
        BY <1>6, <4>1, <4>2 DEF Page
      <4>4. QED
        BY <1>8, <3>3, <4>2, <4>3
    <3>6. CASE c \notin DOMAIN A /\ ac.dev = page.m_currentDeviceName
      <4> DEFINE item == [path |-> ac.path, state |-> "Activated"]
                 rest == Without(mine, {Empty})
                 new  == With(rest, c, item)
      <4>1. moved = [told EXCEPT !.m_inactiveConnectionMap = Without(I, {c}),
                                 !.m_activeConnectionMap   = new]
        BY <1>6, <1>8, <3>1, <3>6 DEF UpdateActivatedConnectionArea, Page
      <4>2. /\ Without(I, {c}) \in Maps(Conn) /\ DOMAIN Without(I, {c}) = DOMAIN I \ {c}
            /\ \A k \in DOMAIN I \ {c} : Without(I, {c})[k] = I[k]
        BY ListedWithout
      <4>3. item \in Item /\ item.path = ac.path /\ c \in Keys
        BY <3>1 DEF Item, ActiveConnection, State, Keys
      <4>4. /\ rest \in Maps(Keys) /\ DOMAIN rest = DOMAIN mine \ {Empty}
            /\ \A k \in DOMAIN mine \ {Empty} : rest[k] = mine[k]
        BY <1>5, ShownWithout
      <4> HIDE DEF item, rest
      <4>5. Extends(Keys, rest, c, item, new)
        BY <4>3, <4>4, ShownWith
      <4> HIDE DEF new
      <4>6. /\ moved \in Page /\ moved.on = page.on
            /\ moved.m_currentDeviceName = page.m_currentDeviceName
            /\ shown = new /\ moved.m_inactiveConnectionMap = Without(I, {c})
        BY <1>6, <4>1, <4>2, <4>5 DEF Page, Extends
      <4>7. \A k \in DOMAIN new \ {Empty} :
              \/ k \in DOMAIN A /\ new[k].path = A[k].path
              \/ k = c /\ new[c].path = ac.path
        BY <1>8, <4>3, <4>4, <4>5 DEF Extends
      <4>8. DOMAIN new \cap (DOMAIN I \ {c}) \subseteq DOMAIN A \cap DOMAIN I
        BY <1>2, <1>8, <4>4, <4>5 DEF Extends
      <4> HIDE DEF moved
      <4>9. QED
        BY <3>3, <3>6, <4>2, <4>6, <4>7, <4>8
    <3>7. QED
      BY <3>4, <3>5, <3>6
  <2>3. QED
    BY <2>1, <2>2
<1>12. CASE c \in DOMAIN profile /\ Msg.state = "Deactivated" /\ page' = Deactivated(told, c)
  <2> DEFINE there == UpdateConnectionArea(told, c)
             listed == there.m_inactiveConnectionMap
             n == UpdateConnectionState(listed, c, "Deactivated")
  <2>1. page' = [there EXCEPT !.m_inactiveConnectionMap = n]
    BY <1>12 DEF Deactivated
  <2>2. ASSUME there \in Page, there.on = page.on,
               there.m_currentDeviceName = page.m_currentDeviceName,
               \A k \in DOMAIN there.m_activeConnectionMap \ {Empty} :
                 /\ k \in DOMAIN A /\ there.m_activeConnectionMap[k].path = A[k].path
                 /\ k = c => k \in disturbed,
               \A k \in DOMAIN listed :
                 \/ k \in DOMAIN I /\ listed[k].path = I[k].path
                 \/ k = c /\ listed[c].path = profile[c].path,
               DOMAIN there.m_activeConnectionMap \cap DOMAIN listed
                 \subseteq DOMAIN A \cap DOMAIN I
        PROVE  Handled(page', disturbed')
    <3> HIDE DEF there
    <3>1. listed \in Maps(Conn)
      BY <2>2 DEF Page
    <3>2. n \in Maps(Conn) /\ SamePaths(listed, n)
      BY <3>1, ListedState DEF State
    <3> HIDE DEF n
    <3>3. /\ page' \in Page /\ page'.on = page.on
          /\ page'.m_currentDeviceName = page.m_currentDeviceName
          /\ page'.m_activeConnectionMap = there.m_activeConnectionMap
          /\ page'.m_inactiveConnectionMap = n
      BY <2>1, <2>2, <3>2 DEF Page
    <3>4. DOMAIN n = DOMAIN listed /\ \A k \in DOMAIN listed : n[k].path = listed[k].path
      BY <3>2 DEF SamePaths
    <3> HIDE DEF listed
    <3>5. QED
      BY <1>4, <1>12, <2>2, <3>3, <3>4
  <2>3. CASE c \in DOMAIN I
    <3>1. there = told
      BY <1>6, <2>3 DEF UpdateConnectionArea
    <3>2. QED
      BY <1>1, <1>6, <1>8, <2>2, <2>3, <3>1
  <2>4. CASE c \notin DOMAIN I
    <3> DEFINE rest == Without(mine, {c})
               item == GetConnectionItem(c, AnyIface)
               new == IF Fits(c, page.m_currentDeviceName) THEN With(I, c, item) ELSE I
    <3>1. there = [told EXCEPT !.m_activeConnectionMap   = OrPlaceholder(rest),
                               !.m_inactiveConnectionMap = new]
      BY <1>6, <2>4 DEF UpdateConnectionArea
    <3>2. item \in Item /\ item.path = profile[c].path
      BY <1>1, <1>12, ConnectionItemType
    <3>3. /\ rest \in Maps(Keys) /\ DOMAIN rest = DOMAIN mine \ {c}
          /\ \A k \in DOMAIN mine \ {c} : rest[k] = mine[k]
      BY <1>5, ShownWithout
    <3> HIDE DEF item, rest
    <3>4. /\ OrPlaceholder(rest) \in Maps(Keys)
          /\ DOMAIN OrPlaceholder(rest) \subseteq DOMAIN rest \cup {Empty}
          /\ DOMAIN rest \subseteq DOMAIN OrPlaceholder(rest)
          /\ \A k \in DOMAIN rest : OrPlaceholder(rest)[k] = rest[k]
      BY <3>3, PlaceholderProperties
    <3>5. Extends(Conn, I, c, item, With(I, c, item))
      BY <3>2, ListedWith
    <3>6. /\ new \in Maps(Conn) /\ DOMAIN new \subseteq DOMAIN I \cup {c}
          /\ \A k \in DOMAIN new : \/ k \in DOMAIN I /\ new[k].path = I[k].path
                                   \/ k = c /\ new[c].path = profile[c].path
      BY <2>4, <3>2, <3>5 DEF Extends
    <3> HIDE DEF new
    <3>7. /\ there \in Page /\ there.on = page.on
          /\ there.m_currentDeviceName = page.m_currentDeviceName
          /\ there.m_activeConnectionMap = OrPlaceholder(rest) /\ listed = new
      BY <1>6, <3>1, <3>4, <3>6 DEF Page
    <3>8. \A k \in DOMAIN OrPlaceholder(rest) \ {Empty} :
            k \in DOMAIN A /\ OrPlaceholder(rest)[k].path = A[k].path /\ k # c
      BY <1>8, <3>3, <3>4
    <3>9. DOMAIN OrPlaceholder(rest) \cap DOMAIN new \subseteq DOMAIN A \cap DOMAIN I
      BY <1>2, <1>8, <3>3, <3>4, <3>6
    <3> HIDE DEF there, listed
    <3>10. QED
      BY <2>2, <3>6, <3>7, <3>8, <3>9
  <2>5. QED BY <2>3, <2>4
<1>13. QED
  BY <1>3, <1>7, <1>9, <1>10, <1>11, <1>12 DEF OnConnectionStateChange, State

LEMMA ActiveRemoveHandled ==
  ASSUME IInv, OnActiveConnectRemove PROVE Handled(page', disturbed')
<1> DEFINE n == UpdateConnectionState(A, Msg.conn, "Deactivated")
<1>1. /\ feed # <<>> /\ Msg.sig = "activeConnectRemove" /\ page \in Page
      /\ disturbed' = disturbed
  BY DEF OnActiveConnectRemove, Handle, IInv
<1>2. A \in Maps(Keys)
  BY <1>1, PageFields
<1>3. n \in Maps(Keys) /\ SamePaths(A, n)
  BY <1>2, ShownState DEF State
<1>4. page' = [page EXCEPT !.m_activeConnectionMap = n]
  BY <1>1 DEF OnActiveConnectRemove, A, Page
<1> HIDE DEF n
<1>5. /\ page' \in Page /\ page'.on = page.on
      /\ page'.m_currentDeviceName = page.m_currentDeviceName /\ A' = n /\ I' = I
  BY <1>1, <1>3, <1>4 DEF Page, A, I
<1>6. \A k \in DOMAIN A' : ShownBefore(page', k)
  BY <1>1, <1>3, <1>5 DEF ShownBefore, SamePaths, IsRemove, IsDown, A
<1>7. \A k \in DOMAIN I' : ListedBefore(page', k)
  BY <1>1, <1>5 DEF ListedBefore, IsRemove, I
<1>8. QED
  BY <1>1, <1>3, <1>5, <1>6, <1>7 DEF Handled, SamePaths, A, I

LEMMA SignalsStep ==
  ASSUME IInv, Signals PROVE IInv'
<1>1. feed # <<>> /\ feed' = Tail(feed) /\ UNCHANGED manager
  BY DEF Signals, OnAddConnection, OnRemoveConnection, OnUpdateConnection,
         OnConnectionStateChange, OnActiveConnectRemove, Handle
<1>2. Handled(page', disturbed')
  BY AddConnectionHandled, RemoveConnectionHandled, UpdateConnectionHandled,
     StateChangeHandled, ActiveRemoveHandled DEF Signals
<1>3. Remembered
  BY DEF Signals, OnAddConnection, OnRemoveConnection, OnUpdateConnection,
         OnConnectionStateChange, OnActiveConnectRemove
<1>4. QED
  BY <1>1, <1>2, <1>3, HandledStep

-----------------------------------------------------------------------------
(* The lists drawn from what the manager knows.                            *)

LEMMA AreaProperties ==
  ASSUME TablesInv, NEW dev \in Device
  PROVE  LET m == ConstructActiveConnectionArea(dev)
             n == ConstructConnectionArea(dev)
         IN /\ m \in Maps(Keys) /\ n \in Maps(Conn)
            /\ \A c \in DOMAIN m \ {Empty} :
                 \E i \in DOMAIN active :
                   /\ active[i].conn = c /\ active[i].state = "Activated"
                   /\ active[i].dev = dev /\ active[i].path = m[c].path
            /\ \A c \in DOMAIN n : c \in DOMAIN profile /\ n[c].path = profile[c].path
            /\ DOMAIN m \cap DOMAIN n = {}
<1> DEFINE list == GetActiveConnectionList(dev)
           item(c) == CHOOSE ac \in list : ac.conn = c
           conns == {ac.conn : ac \in list}
           on == [c \in conns |-> [path |-> item(c).path, state |-> "Activated"]]
           m == ConstructActiveConnectionArea(dev)
           n == ConstructConnectionArea(dev)
<1>1. FeedType
  BY DEF TablesInv
<1>2. \A ac \in list :
        /\ ac \in ActiveConnection
        /\ \E i \in DOMAIN active :
             active[i] = ac /\ active[i].state = "Activated" /\ active[i].dev = dev
  BY <1>1 DEF GetActiveConnectionList, FeedType
<1>3. \A c \in conns : item(c) \in list /\ item(c).conn = c
  OBVIOUS
<1> HIDE DEF list, item
<1>4. DOMAIN on = conns /\ \A c \in conns : on[c] = [path |-> item(c).path, state |-> "Activated"]
  OBVIOUS
<1>5. conns \subseteq Conn /\ \A c \in conns : on[c] \in Item /\ on[c].path = item(c).path
  BY <1>2, <1>3, <1>4 DEF ActiveConnection, Item, State
<1>6. on = [c \in DOMAIN on |-> on[c]]
  BY <1>4
<1>7. m = OrPlaceholder(on)
  BY DEF ConstructActiveConnectionArea, list, item
<1> HIDE DEF on, conns, m
<1>8. on \in Maps(Keys)
  BY <1>4, <1>5, <1>6, MapsProperties DEF Keys
<1>9. /\ m \in Maps(Keys) /\ DOMAIN m \subseteq conns \cup {Empty}
      /\ DOMAIN on \subseteq DOMAIN m /\ \A c \in conns : m[c] = on[c]
  BY <1>4, <1>7, <1>8, PlaceholderProperties
<1>10. \A c \in DOMAIN m \ {Empty} :
         \E i \in DOMAIN active :
           /\ active[i].conn = c /\ active[i].state = "Activated"
           /\ active[i].dev = dev /\ active[i].path = m[c].path
  BY <1>2, <1>3, <1>5, <1>9
<1>11. /\ DOMAIN n \subseteq DOMAIN profile
       /\ \A c \in DOMAIN n : n[c] = GetConnectionItem(c, dev) /\ ~IsActiveConnection(c)
  BY DEF ConstructConnectionArea, GetConnectionList
<1>12. n = [c \in DOMAIN n |-> n[c]]
  BY DEF ConstructConnectionArea
<1> HIDE DEF n
<1>13. \A c \in DOMAIN n : n[c] \in Item /\ n[c].path = profile[c].path
  BY <1>1, <1>11, ConnectionItemType
<1>14. n \in Maps(Conn)
  BY <1>1, <1>11, <1>12, <1>13, MapsProperties DEF FeedType
<1>15. DOMAIN m \cap DOMAIN n = {}
  <2>1. \A c \in DOMAIN n : c # Empty
    BY <1>1, <1>11, ConnectionAssumption DEF FeedType
  <2>2. \A c \in DOMAIN m \ {Empty} : IsActiveConnection(c)
    BY <1>10 DEF IsActiveConnection, At
  <2>3. QED
    BY <1>11, <2>1, <2>2
<1>16. QED
  BY <1>9, <1>10, <1>11, <1>13, <1>14, <1>15 DEF m, n

JustDrawn ==
  /\ TablesInv /\ page \in Page /\ page.m_currentDeviceName \in Device
  /\ A = ConstructActiveConnectionArea(page.m_currentDeviceName)
  /\ I = ConstructConnectionArea(page.m_currentDeviceName)
  /\ Announced(feed) \subseteq disturbed
  /\ \A i \in DOMAIN active : active[i].conn \in DOMAIN profile \cup disturbed

LEMMA JustDrawnInv == JustDrawn => IInv
<1> SUFFICES ASSUME JustDrawn PROVE IInv
  OBVIOUS
<1> DEFINE dev == page.m_currentDeviceName
<1>1. TablesInv /\ page \in Page /\ dev \in Device /\ feed \in Seq(Message)
  BY DEF JustDrawn, TablesInv, FeedType
<1>2. /\ \A c \in DOMAIN A \ {Empty} :
           \E i \in DOMAIN active :
             /\ active[i].conn = c /\ active[i].state = "Activated"
             /\ active[i].dev = dev /\ active[i].path = A[c].path
      /\ \A c \in DOMAIN I : c \in DOMAIN profile /\ I[c].path = profile[c].path
      /\ DOMAIN A \cap DOMAIN I = {}
  BY <1>1, AreaProperties DEF JustDrawn
<1>3. \A c : c \notin disturbed => \A i \in DOMAIN feed : ~IsAdd(feed[i], c)
  BY <1>1, AnnouncedProperties DEF JustDrawn
<1>4. \A c \in DOMAIN A \ (disturbed \cup {Empty}) :
        c \in DOMAIN profile /\ A[c].path = profile[c].path
  BY <1>1, <1>2 DEF JustDrawn, TablesInv, PathsInv
<1>5. KnownInv
  BY <1>2, <1>3, <1>4 DEF KnownInv, Known, Current
<1>6. AtMostOnce
  BY <1>2 DEF AtMostOnce, A, I
<1>7. AllUp
  BY <1>2 DEF AllUp, UpOn, Strong
<1>8. QED
  BY <1>1, <1>5, <1>6, <1>7, OneOfTwo DEF IInv, TablesInv, ShownInv

LEMMA RedrawStep ==
  ASSUME IInv, NEW dev \in Device \cup {AnyIface}, NEW on \in BOOLEAN, NEW listed \in BOOLEAN,
         Redraw(dev, on, listed)
  PROVE  IInv'
<1> DEFINE p == [page EXCEPT !.m_currentDeviceName = dev, !.on = on, !.listed = listed]
<1>1. /\ page' = InitLanArea(p) /\ page \in Page /\ TablesInv
      /\ profile' = profile /\ active' = active /\ up' = up /\ feed' = feed
  BY DEF Redraw, manager, IInv
<1>2. /\ p \in Page /\ p.m_currentDeviceName = dev /\ p.on = on
      /\ p.m_activeConnectionMap = A /\ p.m_inactiveConnectionMap = I
  BY <1>1 DEF Page, A, I
<1> HIDE DEF p
<1>3. TablesInv'
  BY <1>1 DEF TablesInv, FeedType, OneUp, Strong, PathsInv, StoppedInv
<1>4. CASE on /\ dev # AnyIface
  <2>1. page' = [p EXCEPT !.m_activeConnectionMap   = ConstructActiveConnectionArea(dev),
                          !.m_inactiveConnectionMap = ConstructConnectionArea(dev)]
    BY <1>1, <1>2, <1>4 DEF InitLanArea
  <2>2. /\ ConstructActiveConnectionArea(dev) \in Maps(Keys)
        /\ ConstructConnectionArea(dev) \in Maps(Conn)
    BY <1>1, <1>4, AreaProperties
  <2>3. /\ page' \in Page /\ page'.m_currentDeviceName = dev
        /\ A' = ConstructActiveConnectionArea(dev) /\ I' = ConstructConnectionArea(dev)
    BY <1>2, <2>1, <2>2 DEF Page, A, I
  <2>4. /\ ConstructActiveConnectionArea(page.m_currentDeviceName)'
             = ConstructActiveConnectionArea(dev)
        /\ ConstructConnectionArea(page.m_currentDeviceName)' = ConstructConnectionArea(dev)
    BY <1>1, <2>3 DEF ConstructActiveConnectionArea, GetActiveConnectionList,
         ConstructConnectionArea, GetConnectionList, GetConnectionItem, GetActiveConnect, Fits,
         IsActiveConnection, IsActivatingConnection, At
  <2>5. /\ Announced(feed)' \subseteq disturbed'
        /\ \A i \in DOMAIN active' : active'[i].conn \in DOMAIN profile' \cup disturbed'
    BY <1>1, <1>4 DEF Redraw, Announced
  <2>6. JustDrawn'
    BY <1>3, <1>4, <2>3, <2>4, <2>5 DEF JustDrawn
  <2>7. (JustDrawn => IInv)'
    BY JustDrawnInv, PTL
  <2>8. QED
    BY <2>6, <2>7
<1>5. CASE ~on \/ dev = AnyIface
  <2>1. page' = p /\ disturbed' = disturbed
    BY <1>1, <1>2, <1>5 DEF InitLanArea, Redraw
  <2>2. A' = A /\ I' = I /\ ~Shown'
    BY <1>2, <1>5, <2>1 DEF A, I, Shown
  <2>3. KnownInv'
    BY <1>1, <2>1, <2>2 DEF IInv, KnownInv, Known, Current, Removed
  <2>4. AtMostOnce'
    BY <2>1, <2>2 DEF IInv, AtMostOnce, A, I
  <2>5. QED
    BY <1>2, <1>3, <2>1, <2>2, <2>3, <2>4 DEF IInv, ShownInv, AllUp, OneShown
<1>6. QED BY <1>4, <1>5

LEMMA InitDrawn == Init => JustDrawn
<1> SUFFICES ASSUME Init PROVE JustDrawn
  OBVIOUS
<1>1. FeedType
  <2>1. DOMAIN profile \subseteq Conn /\ \A c \in DOMAIN profile : profile[c] \in Profile
    BY DEF Init
  <2>2. active \in Seq(ActiveConnection)
    <3>1. ASSUME NEW c \in DOMAIN profile, NEW dev \in Device
          PROVE  [conn |-> c, path |-> profile[c].path, dev |-> dev, state |-> "Activated"]
                   \in ActiveConnection
      BY <2>1, <3>1 DEF ActiveConnection, Profile, State
    <3>2. \A ac \in ActiveConnection : <<ac>> \in Seq(ActiveConnection)
      OBVIOUS
    <3>3. CASE active = <<>>
      BY <3>3, EmptySeq
    <3>4. ASSUME NEW c \in DOMAIN profile, NEW dev \in Device,
                 active = <<[conn |-> c, path |-> profile[c].path, dev |-> dev,
                             state |-> "Activated"]>>
          PROVE  active \in Seq(ActiveConnection)
      BY <3>1, <3>2, <3>4
    <3>5. QED
      BY <3>3, <3>4 DEF Init
  <2>3. feed \in Seq(Message) /\ up \in BOOLEAN
    BY DEF Init
  <2>4. QED
    BY <2>1, <2>2, <2>3 DEF FeedType
<1>2. \A i \in DOMAIN active : /\ i = 1 /\ active[i].conn \in DOMAIN profile
                               /\ active[i].path = profile[active[i].conn].path
  BY DEF Init
<1>3. TablesInv
  BY <1>1, <1>2 DEF TablesInv, OneUp, PathsInv, StoppedInv, Init
<1>4. PICK dev \in Device : page = Drawn(dev, TRUE)
  BY DEF Init
<1>5. page = [m_currentDeviceName |-> dev, on |-> TRUE, listed |-> TRUE,
              m_activeConnectionMap |-> ConstructActiveConnectionArea(dev),
              m_inactiveConnectionMap |-> ConstructConnectionArea(dev)]
  BY <1>4, ConnectionAssumption DEF Drawn, InitLanArea
<1>6. /\ ConstructActiveConnectionArea(dev) \in Maps(Keys)
      /\ ConstructConnectionArea(dev) \in Maps(Conn)
  BY <1>3, AreaProperties
<1>7. page \in Page /\ page.m_currentDeviceName = dev
  BY <1>5, <1>6 DEF Page
<1>8. Announced(feed) = {}
  BY DEF Init, Announced
<1>9. QED
  BY <1>2, <1>3, <1>5, <1>7, <1>8 DEF JustDrawn, A, I

LEMMA InitInv == Init => IInv
BY InitDrawn, JustDrawnInv

-----------------------------------------------------------------------------
(* NetworkManager's steps: nothing changes on the page, signals are queued. *)

\* What is known of an item stays so if its profile stays there, or its connectionRemove
\* is queued.
LEMMA KnownKept ==
  ASSUME FeedType, NEW s \in Seq(Message), feed' = feed \o s,
         \A c \in DOMAIN profile :
           /\ \/ c \in DOMAIN profile' /\ profile'[c].path = profile[c].path
              \/ /\ \E i \in DOMAIN s : IsRemove(s[i], profile[c].path)
                 /\ \A i \in DOMAIN s : ~IsDown(s[i], c)
           /\ \A i \in DOMAIN s : ~IsAdd(s[i], c)
  PROVE  \A path, c : Known(feed, path, c) => Known(feed, path, c)'
<1> SUFFICES ASSUME NEW path, NEW c, Known(feed, path, c) PROVE Known(feed, path, c)'
  OBVIOUS
<1>1. feed \in Seq(Message)
  BY DEF FeedType
<1>2. CASE Removed(feed, path, c)
  <2>1. Removed(feed \o s, path, c)
    BY <1>1, <1>2, LongerQueue
  <2>2. QED
    BY <2>1 DEF Known, Removed
<1>3. CASE Current(feed, path, c)
  <2>1. /\ c \in DOMAIN profile /\ path = profile[c].path
        /\ \A i \in DOMAIN feed : ~IsAdd(feed[i], c)
        /\ \A i \in DOMAIN s : ~IsAdd(s[i], c)
    BY <1>3 DEF Current
  <2>2. /\ \A i \in DOMAIN (feed \o s) : ~IsAdd((feed \o s)[i], c)
        /\ LeavesIn(s, path, c) /\ (\A i \in DOMAIN s : ~IsDown(s[i], c))
             => Removed(feed \o s, path, c)
    BY <1>1, <2>1, LongerQueue
  <2>3. CASE c \in DOMAIN profile' /\ profile'[c].path = profile[c].path
    BY <2>1, <2>2, <2>3 DEF Known, Current
  <2>4. CASE /\ \E i \in DOMAIN s : IsRemove(s[i], profile[c].path)
             /\ \A i \in DOMAIN s : ~IsDown(s[i], c)
    <3>1. LeavesIn(s, path, c) /\ \A i \in DOMAIN s : ~IsDown(s[i], c)
      BY <2>1, <2>4 DEF LeavesIn
    <3>2. Removed(feed \o s, path, c)
      BY <2>2, <3>1
    <3>3. QED
      BY <3>2 DEF Known, Removed
  <2>5. QED
    BY <2>1, <2>3, <2>4
<1>4. QED
  BY <1>2, <1>3 DEF Known

LEMMA QueuedStep ==
  ASSUME IInv, TablesInv', UNCHANGED pageVars, NEW s \in Seq(Message), feed' = feed \o s,
         \A path, c : Known(feed, path, c) => Known(feed, path, c)',
         up' => /\ up
                /\ \A path, c, dev : UpOn(c, dev) => UpOn(c, dev)' \/ LeavesIn(s, path, c)
  PROVE  IInv'
<1>1. /\ A' = A /\ I' = I /\ page' = page /\ disturbed' = disturbed /\ undrawn' = undrawn
      /\ feed \in Seq(Message) /\ page \in Page
  BY DEF pageVars, IInv, TablesInv, FeedType, A, I
<1>2. /\ \A c : LeavesIn(feed, A[c].path, c) \/ LeavesIn(s, A[c].path, c) => Leaving(c)'
      /\ \A c : Leaving(c) => LeavesIn(feed, A[c].path, c)
  <2>1. \A path, c : LeavesIn(feed, path, c) \/ LeavesIn(s, path, c) => LeavesIn(feed \o s, path, c)
    BY <1>1, LongerQueue
  <2>2. \A c : /\ Leaving(c)' <=> LeavesIn(feed \o s, A[c].path, c)
               /\ Leaving(c) <=> LeavesIn(feed, A[c].path, c)
    BY <1>1 DEF Leaving, LeavesIn, IsDown, IsRemove, A
  <2>3. QED
    BY <2>1, <2>2
<1>3. KnownInv'
  BY <1>1 DEF IInv, KnownInv
<1>4. AtMostOnce'
  BY <1>1 DEF IInv, AtMostOnce, A, I
<1>5. ShownInv'
  <2>1. SUFFICES ASSUME up', Shown', NEW c \in DOMAIN A \ (disturbed \cup {Empty})
                 PROVE  Leaving(c)' \/ UpOn(c, page.m_currentDeviceName)'
    BY <1>1 DEF ShownInv, AllUp
  <2>2. Leaving(c) \/ UpOn(c, page.m_currentDeviceName)
    BY <1>1, <2>1 DEF IInv, ShownInv, AllUp, Shown
  <2>3. UpOn(c, page.m_currentDeviceName)
          => UpOn(c, page.m_currentDeviceName)' \/ LeavesIn(s, A[c].path, c)
    BY <1>1, <2>1 DEF UpOn
  <2>4. QED
    BY <1>2, <2>2, <2>3
<1>6. OneShown'
  BY <1>1, <1>2 DEF IInv, OneShown, Shown, A
<1>7. QED
  BY <1>1, <1>3, <1>4, <1>5, <1>6 DEF IInv

LEMMA OneSignal ==
  ASSUME NEW m \in Message
  PROVE  <<m>> \in Seq(Message) /\ DOMAIN <<m>> = {1} /\ <<m>>[1] = m
OBVIOUS

LEMMA AddProfileStep ==
  ASSUME IInv, NEW c \in Conn, NEW p \in Profile, AddProfile(c, p) PROVE IInv'
<1> DEFINE m == Signal("connectionAdd", c)
<1>1. /\ profile' = With(profile, c, p) /\ feed' = feed \o <<m>> /\ active' = active
      /\ up' = up /\ c \notin DOMAIN profile /\ At(c, State) = {} /\ UNCHANGED pageVars
  BY DEF AddProfile, Emit
<1>2. TablesInv /\ FeedType
  BY DEF IInv, TablesInv
<1>3. m \in Message /\ (\A k : ~IsDown(m, k)) /\ (\A k : IsAdd(m, k) => k = c)
  BY DEF Signal, Message, IsDown, IsAdd
<1> HIDE DEF m
<1>4. <<m>> \in Seq(Message) /\ DOMAIN <<m>> = {1} /\ <<m>>[1] = m
  BY <1>3, OneSignal
<1>5. /\ DOMAIN profile' = DOMAIN profile \cup {c} /\ profile'[c] = p
      /\ \A k \in DOMAIN profile : profile'[k] = profile[k]
  BY <1>1 DEF With
<1>6. \A i \in DOMAIN active : active[i].conn # c
  <2>1. \A i \in DOMAIN active : active[i] \in ActiveConnection
    BY <1>2 DEF FeedType
  <2>2. \A i \in DOMAIN active : i \notin At(c, State)
    BY <1>1
  <2>3. QED
    BY <2>1, <2>2 DEF At, ActiveConnection
<1>7. feed' \in Seq(Message)
  BY <1>1, <1>2, <1>4, LongerQueue DEF FeedType
<1>8. TablesInv'
  <2>1. FeedType'
    BY <1>1, <1>2, <1>5, <1>7 DEF FeedType
  <2>2. PathsInv'
    BY <1>1, <1>2, <1>5, <1>6 DEF TablesInv, PathsInv
  <2>3. QED
    BY <1>1, <1>2, <2>1, <2>2 DEF TablesInv, OneUp, Strong, StoppedInv
<1>9. \A path, k : Known(feed, path, k) => Known(feed, path, k)'
  <2>1. \A k \in DOMAIN profile :
          /\ k \in DOMAIN profile' /\ profile'[k].path = profile[k].path
          /\ \A i \in DOMAIN <<m>> : ~IsAdd(<<m>>[i], k)
    BY <1>1, <1>3, <1>4, <1>5
  <2>2. QED
    BY <1>1, <1>2, <1>4, <2>1, KnownKept
<1>10. QED
  BY <1>1, <1>4, <1>8, <1>9, QueuedStep DEF UpOn, Strong

LEMMA RemoveProfileStep ==
  ASSUME IInv, NEW c \in Conn, RemoveProfile(c) PROVE IInv'
<1> DEFINE m == [sig |-> "connectionRemove", path |-> profile[c].path]
<1>1. /\ profile' = Without(profile, {c}) /\ feed' = feed \o <<m>> /\ active' = active
      /\ up' = up /\ c \in DOMAIN profile /\ UNCHANGED pageVars
  BY DEF RemoveProfile, Emit
<1>2. TablesInv /\ FeedType
  BY DEF IInv, TablesInv
<1>3. m \in Message /\ (\A k : ~IsDown(m, k) /\ ~IsAdd(m, k)) /\ IsRemove(m, profile[c].path)
  BY <1>1, <1>2 DEF Message, FeedType, Profile, IsDown, IsAdd, IsRemove
<1> HIDE DEF m
<1>4. <<m>> \in Seq(Message) /\ DOMAIN <<m>> = {1} /\ <<m>>[1] = m
  BY <1>3, OneSignal
<1>5. /\ DOMAIN profile' = DOMAIN profile \ {c}
      /\ \A k \in DOMAIN profile \ {c} : profile'[k] = profile[k]
  BY <1>1 DEF Without, Restrict
<1>6. feed' \in Seq(Message)
  BY <1>1, <1>2, <1>4, LongerQueue DEF FeedType
<1>7. TablesInv'
  <2>1. FeedType'
    BY <1>1, <1>2, <1>5, <1>6 DEF FeedType
  <2>2. QED
    BY <1>1, <1>2, <1>5, <2>1 DEF TablesInv, PathsInv, OneUp, Strong, StoppedInv
<1>8. \A path, k : Known(feed, path, k) => Known(feed, path, k)'
  <2>1. \A k \in DOMAIN profile :
          /\ \/ k \in DOMAIN profile' /\ profile'[k].path = profile[k].path
             \/ /\ \E i \in DOMAIN <<m>> : IsRemove(<<m>>[i], profile[k].path)
                /\ \A i \in DOMAIN <<m>> : ~IsDown(<<m>>[i], k)
          /\ \A i \in DOMAIN <<m>> : ~IsAdd(<<m>>[i], k)
    BY <1>3, <1>4, <1>5
  <2>2. QED
    BY <1>1, <1>2, <1>4, <2>1, KnownKept
<1>9. QED
  BY <1>1, <1>4, <1>7, <1>8, QueuedStep DEF UpOn, Strong

LEMMA ChangeProfileStep ==
  ASSUME IInv, NEW c \in Conn, NEW iface \in Ifaces, ChangeProfile(c, iface) PROVE IInv'
<1> DEFINE m == Signal("connectionUpdate", c)
<1>1. /\ profile' = [profile EXCEPT ![c].iface = iface] /\ feed' = feed \o <<m>>
      /\ active' = active /\ up' = up /\ c \in DOMAIN profile /\ UNCHANGED pageVars
  BY DEF ChangeProfile, Emit
<1>2. TablesInv /\ FeedType
  BY DEF IInv, TablesInv
<1>3. m \in Message /\ \A k : ~IsDown(m, k) /\ ~IsAdd(m, k)
  BY DEF Signal, Message, IsDown, IsAdd
<1> HIDE DEF m
<1>4. <<m>> \in Seq(Message) /\ DOMAIN <<m>> = {1} /\ <<m>>[1] = m
  BY <1>3, OneSignal
<1>5. /\ DOMAIN profile' = DOMAIN profile
      /\ \A k \in DOMAIN profile : profile'[k] \in Profile /\ profile'[k].path = profile[k].path
  BY <1>1, <1>2 DEF FeedType, Profile
<1>6. feed' \in Seq(Message)
  BY <1>1, <1>2, <1>4, LongerQueue DEF FeedType
<1>7. TablesInv'
  <2>1. FeedType'
    BY <1>1, <1>2, <1>5, <1>6 DEF FeedType
  <2>2. QED
    BY <1>1, <1>2, <1>5, <2>1 DEF TablesInv, PathsInv, OneUp, Strong, StoppedInv
<1>8. \A path, k : Known(feed, path, k) => Known(feed, path, k)'
  <2>1. \A k \in DOMAIN profile :
          /\ k \in DOMAIN profile' /\ profile'[k].path = profile[k].path
          /\ \A i \in DOMAIN <<m>> : ~IsAdd(<<m>>[i], k)
    BY <1>3, <1>4, <1>5
  <2>2. QED
    BY <1>1, <1>2, <1>4, <2>1, KnownKept
<1>9. QED
  BY <1>1, <1>4, <1>7, <1>8, QueuedStep DEF UpOn, Strong

LEMMA ActivateStep ==
  ASSUME IInv, NEW c \in Conn, NEW dev \in Device, Activate(c, dev) PROVE IInv'
<1> DEFINE ac == [conn |-> c, path |-> profile[c].path, dev |-> dev, state |-> "Activating"]
<1>1. /\ active' = Append(active, ac) /\ up /\ c \in DOMAIN profile
      /\ profile' = profile /\ up' = up /\ feed' = feed /\ UNCHANGED pageVars
  BY DEF Activate
<1>2. TablesInv /\ FeedType /\ active \in Seq(ActiveConnection) /\ feed \in Seq(Message)
  BY DEF IInv, TablesInv, FeedType
<1>3. ac \in ActiveConnection /\ ~Strong(ac) /\ ac.conn = c /\ ac.path = profile[c].path
  BY <1>1, <1>2 DEF ActiveConnection, FeedType, Profile, State, Strong
<1> HIDE DEF ac
<1>4. /\ active' \in Seq(ActiveConnection)
      /\ \A i \in DOMAIN active' : \/ i \in DOMAIN active /\ active'[i] = active[i]
                                   \/ active'[i] = ac
      /\ \A i \in DOMAIN active : i \in DOMAIN active' /\ active'[i] = active[i]
  BY <1>1, <1>2, <1>3, AppendProperties
<1>5. TablesInv'
  <2>1. FeedType'
    BY <1>1, <1>2, <1>4 DEF FeedType
  <2>2. OneUp'
    BY <1>2, <1>3, <1>4 DEF TablesInv, OneUp, Strong
  <2>3. PathsInv'
    BY <1>1, <1>2, <1>3, <1>4 DEF TablesInv, PathsInv
  <2>4. QED
    BY <1>1, <2>1, <2>2, <2>3 DEF TablesInv, StoppedInv
<1>6. <<>> \in Seq(Message) /\ feed' = feed \o <<>>
  BY <1>1, <1>2, EmptySeq, ConcatEmptySeq
<1>7. \A path, k : Known(feed, path, k) => Known(feed, path, k)'
  BY <1>1 DEF Known, Current, Removed
<1>8. \A k, d : UpOn(k, d) => UpOn(k, d)'
  BY <1>4 DEF UpOn, Strong
<1>9. QED
  BY <1>1, <1>5, <1>6, <1>7, <1>8, QueuedStep

LEMMA ChangeStateStep ==
  ASSUME IInv, NEW i \in DOMAIN active, NEW state \in State, ChangeState(i, state) PROVE IInv'
<1> DEFINE ac == active[i]
           m == [sig |-> "stateChangeReason", conn |-> ac.conn, state |-> state]
<1>1. /\ active' = [active EXCEPT ![i].state = state] /\ MayBecome(i, state)
      /\ feed' = feed \o <<m>> /\ profile' = profile /\ up' = up /\ UNCHANGED pageVars
  BY DEF ChangeState, Emit
<1>2. TablesInv /\ FeedType /\ active \in Seq(ActiveConnection) /\ ac \in ActiveConnection
  BY DEF IInv, TablesInv, FeedType
<1>3. /\ m \in Message /\ \A k : ~IsAdd(m, k)
      /\ state = "Deactivated" => IsDown(m, ac.conn)
  BY <1>1, <1>2 DEF MayBecome, Message, IsAdd, IsDown, ActiveConnection
<1> HIDE DEF m
<1>4. <<m>> \in Seq(Message) /\ DOMAIN <<m>> = {1} /\ <<m>>[1] = m
  BY <1>3, OneSignal
<1>5. /\ DOMAIN active' = DOMAIN active /\ active' \in Seq(ActiveConnection)
      /\ \A j \in DOMAIN active \ {i} : active'[j] = active[j]
      /\ active'[i] = [ac EXCEPT !.state = state]
  BY <1>1, <1>2 DEF ActiveConnection
<1>6. /\ active'[i].conn = ac.conn /\ active'[i].dev = ac.dev /\ active'[i].path = ac.path
      /\ active'[i].state = state
  BY <1>2, <1>5 DEF ActiveConnection
<1>7. Strong(active'[i]) /\ ~Strong(ac) =>
        \A j \in DOMAIN active \ {i} :
          Strong(active[j]) => active[j].conn # ac.conn /\ active[j].dev # ac.dev
  BY <1>1, <1>6 DEF MayBecome, Strong
<1>8. Strong(ac) => Strong(active'[i]) \/ state = "Deactivated"
  BY <1>1, <1>6 DEF MayBecome, Strong
<1>9. feed' \in Seq(Message)
  BY <1>1, <1>2, <1>4, LongerQueue DEF FeedType
<1>10. up
  BY <1>2 DEF TablesInv, StoppedInv
<1>11. TablesInv'
  <2>1. FeedType'
    BY <1>1, <1>2, <1>5, <1>9 DEF FeedType
  <2>2. OneUp'
    <3>1. SUFFICES ASSUME NEW j \in DOMAIN active, NEW k \in DOMAIN active, j # k,
                          Strong(active'[j]), Strong(active'[k]),
                          active'[j].conn = active'[k].conn \/ active'[j].dev = active'[k].dev
                   PROVE  FALSE
      BY <1>5 DEF OneUp, Strong
    <3>2. CASE j # i /\ k # i
      BY <1>2, <1>5, <3>1, <3>2 DEF TablesInv, OneUp
    <3>3. CASE j = i
      BY <1>2, <1>5, <1>6, <1>7, <3>1, <3>3 DEF TablesInv, OneUp
    <3>4. CASE k = i
      BY <1>2, <1>5, <1>6, <1>7, <3>1, <3>4 DEF TablesInv, OneUp
    <3>5. QED
      BY <3>2, <3>3, <3>4
  <2>3. PathsInv'
    BY <1>1, <1>2, <1>5, <1>6 DEF TablesInv, PathsInv
  <2>4. QED
    BY <1>1, <1>10, <2>1, <2>2, <2>3 DEF TablesInv, StoppedInv
<1>12. \A path, k : Known(feed, path, k) => Known(feed, path, k)'
  BY <1>1, <1>2, <1>3, <1>4, KnownKept
<1>13. \A path, k, d : UpOn(k, d) => UpOn(k, d)' \/ LeavesIn(<<m>>, path, k)
  <2>1. SUFFICES ASSUME NEW path, NEW k, NEW d, NEW j \in DOMAIN active,
                        Strong(active[j]), active[j].conn = k, active[j].dev = d
                 PROVE  UpOn(k, d)' \/ LeavesIn(<<m>>, path, k)
    BY DEF UpOn
  <2>2. CASE j # i \/ Strong(active'[i])
    BY <1>5, <1>6, <2>1, <2>2 DEF UpOn, Strong
  <2>3. CASE j = i /\ state = "Deactivated"
    BY <1>3, <1>4, <2>1, <2>3 DEF LeavesIn
  <2>4. QED
    BY <1>8, <2>1, <2>2, <2>3
<1>14. QED
  BY <1>1, <1>4, <1>10, <1>11, <1>12, <1>13, QueuedStep

LEMMA RemoveAtProperties ==
  ASSUME NEW S, NEW q \in Seq(S), NEW i \in DOMAIN q
  PROVE  LET r == RemoveAt(q, i)
         IN /\ r \in Seq(S)
            /\ \A j \in DOMAIN r : r[j] = IF j < i THEN q[j] ELSE q[j + 1]
            /\ \A j \in DOMAIN r : IF j < i THEN j \in DOMAIN q ELSE j + 1 \in DOMAIN q
            /\ \A j \in DOMAIN q \ {i} : IF j < i THEN j \in DOMAIN r ELSE j - 1 \in DOMAIN r
<1> DEFINE a == SubSeq(q, 1, i - 1)
           b == SubSeq(q, i + 1, Len(q))
           r == RemoveAt(q, i)
<1>1. DOMAIN q = 1..Len(q) /\ Len(q) \in Nat /\ i \in 1..Len(q)
  OBVIOUS
<1>2. /\ a \in Seq(S) /\ Len(a) = i - 1 /\ \A j \in 1..i - 1 : a[j] = q[j]
  <2>1. \A j \in 1..i - 1 : q[j] \in S
    BY <1>1
  <2>2. QED
    BY <1>1, <2>1, SubSeqProperties
<1>3. /\ b \in Seq(S) /\ Len(b) = Len(q) - i /\ \A j \in 1..Len(q) - i : b[j] = q[j + i]
  <2>1. \A j \in i + 1..Len(q) : q[j] \in S
    BY <1>1
  <2>2. QED
    BY <1>1, <2>1, SubSeqProperties
<1> HIDE DEF a, b
<1>4. r = a \o b
  BY DEF RemoveAt, a, b
<1> HIDE DEF r
<1>5. /\ r \in Seq(S) /\ Len(r) = Len(q) - 1
      /\ \A j \in 1..Len(q) - 1 : r[j] = IF j <= i - 1 THEN a[j] ELSE b[j - (i - 1)]
  <2>1. /\ r \in Seq(S) /\ Len(r) = Len(a) + Len(b)
        /\ \A j \in 1..Len(a) + Len(b) : r[j] = IF j <= Len(a) THEN a[j] ELSE b[j - Len(a)]
    BY <1>2, <1>3, <1>4, ConcatProperties
  <2>2. Len(a) + Len(b) = Len(q) - 1
    BY <1>1, <1>2, <1>3
  <2>3. QED
    BY <1>2, <2>1, <2>2
<1>6. DOMAIN r = 1..Len(q) - 1
  BY <1>1, <1>5
<1>7. \A j \in 1..Len(q) - 1 : r[j] = IF j < i THEN q[j] ELSE q[j + 1]
  <2>1. SUFFICES ASSUME NEW j \in 1..Len(q) - 1 PROVE r[j] = IF j < i THEN q[j] ELSE q[j + 1]
    OBVIOUS
  <2>2. CASE j < i
    BY <1>1, <1>2, <1>5, <2>2
  <2>3. CASE j >= i
    <3>1. /\ j - (i - 1) \in 1..Len(q) - i /\ (j - (i - 1)) + i = j + 1
          /\ ~(j <= i - 1) /\ ~(j < i)
      BY <1>1, <2>3
    <3>2. r[j] = b[j - (i - 1)]
      BY <1>5, <3>1
    <3>3. b[j - (i - 1)] = q[(j - (i - 1)) + i]
      BY <1>3, <3>1
    <3>4. QED
      BY <3>1, <3>2, <3>3
  <2>4. QED
    BY <1>1, <2>2, <2>3
<1>8. QED
  BY <1>1, <1>5, <1>6, <1>7 DEF r

LEMMA RemoveSignal ==
  \A c \in Conn : LET m == Signal("activeConnectRemove", c)
                  IN m \in Message /\ \A k : ~IsAdd(m, k)
BY DEF Signal, Message, IsAdd

LEMMA RemoveActiveStep ==
  ASSUME IInv, NEW i \in DOMAIN active, RemoveActive(i) PROVE IInv'
<1> DEFINE m == Signal("activeConnectRemove", active[i].conn)
           old(j) == IF j < i THEN j ELSE j + 1
           new(j) == IF j < i THEN j ELSE j - 1
<1>1. /\ active' = RemoveAt(active, i) /\ active[i].state = "Deactivated"
      /\ feed' = feed \o <<m>> /\ profile' = profile /\ up' = up /\ UNCHANGED pageVars
  BY DEF RemoveActive, Emit
<1>2. TablesInv /\ FeedType /\ active \in Seq(ActiveConnection)
  BY DEF IInv, TablesInv, FeedType
<1>3. m \in Message /\ \A k : ~IsAdd(m, k)
  <2>1. active[i].conn \in Conn
    <3>1. active[i] \in ActiveConnection
      BY <1>2
    <3>2. QED
      BY <3>1 DEF ActiveConnection
  <2>2. QED
    BY <2>1, RemoveSignal
<1> HIDE DEF m
<1>4. <<m>> \in Seq(Message) /\ DOMAIN <<m>> = {1} /\ <<m>>[1] = m
  BY <1>3, OneSignal
<1>5. /\ active' \in Seq(ActiveConnection) /\ i \in Nat
      /\ DOMAIN active \subseteq Nat /\ DOMAIN active' \subseteq Nat
      /\ \A j \in DOMAIN active' : active'[j] = active[old(j)] /\ old(j) \in DOMAIN active
      /\ \A j \in DOMAIN active \ {i} : new(j) \in DOMAIN active' /\ old(new(j)) = j
  <2>1. /\ active' \in Seq(ActiveConnection)
        /\ \A j \in DOMAIN active' : active'[j] = IF j < i THEN active[j] ELSE active[j + 1]
        /\ \A j \in DOMAIN active' :
             IF j < i THEN j \in DOMAIN active ELSE j + 1 \in DOMAIN active
        /\ \A j \in DOMAIN active \ {i} :
             IF j < i THEN j \in DOMAIN active' ELSE j - 1 \in DOMAIN active'
    BY <1>1, <1>2, RemoveAtProperties
  <2>2. DOMAIN active \subseteq Nat /\ DOMAIN active' \subseteq Nat /\ i \in Nat
    BY <1>2, <2>1
  <2>3. QED
    BY <2>1, <2>2
<1>6. \A j, k \in DOMAIN active' : old(j) = old(k) => j = k
  BY <1>5
<1> HIDE DEF old, new
<1>7. feed' \in Seq(Message)
  BY <1>1, <1>2, <1>4, LongerQueue DEF FeedType
<1>8. up
  BY <1>2 DEF TablesInv, StoppedInv
<1>9. TablesInv'
  <2>1. FeedType'
    BY <1>1, <1>2, <1>5, <1>7 DEF FeedType
  <2>2. OneUp'
    BY <1>2, <1>5, <1>6 DEF TablesInv, OneUp, Strong
  <2>3. PathsInv'
    BY <1>1, <1>2, <1>5 DEF TablesInv, PathsInv
  <2>4. QED
    BY <1>1, <1>8, <2>1, <2>2, <2>3 DEF TablesInv, StoppedInv
<1>10. \A path, k : Known(feed, path, k) => Known(feed, path, k)'
  BY <1>1, <1>2, <1>3, <1>4, KnownKept
<1>11. \A k, d : UpOn(k, d) => UpOn(k, d)'
  <2>1. SUFFICES ASSUME NEW k, NEW d, NEW j \in DOMAIN active,
                        Strong(active[j]), active[j].conn = k, active[j].dev = d
                 PROVE  UpOn(k, d)'
    BY DEF UpOn
  <2>2. j # i
    BY <1>1, <2>1 DEF Strong
  <2>3. new(j) \in DOMAIN active' /\ active'[new(j)] = active[j]
    BY <1>5, <2>2
  <2>4. QED
    BY <2>1, <2>3 DEF UpOn, Strong
<1>12. QED
  BY <1>1, <1>4, <1>8, <1>9, <1>10, <1>11, QueuedStep

LEMMA ServiceStopsStep ==
  ASSUME IInv, ServiceStops PROVE IInv'
<1> DEFINE s == [i \in DOMAIN active |-> Signal("activeConnectRemove", active[i].conn)]
<1>1. /\ active' = <<>> /\ up' = FALSE /\ feed' = feed \o s /\ profile' = profile
      /\ UNCHANGED pageVars
  BY DEF ServiceStops, Emit
<1>2. TablesInv /\ FeedType /\ active \in Seq(ActiveConnection)
  BY DEF IInv, TablesInv, FeedType
<1>3. \A i \in DOMAIN active : s[i] \in Message /\ \A c : ~IsAdd(s[i], c)
  <2>1. \A i \in DOMAIN active : active[i].conn \in Conn
    <3>1. \A i \in DOMAIN active : active[i] \in ActiveConnection
      BY <1>2
    <3>2. QED
      BY <3>1 DEF ActiveConnection
  <2>2. QED
    BY <2>1, RemoveSignal
<1>4. s \in Seq(Message) /\ DOMAIN s = DOMAIN active
  BY <1>2, <1>3
<1> HIDE DEF s
<1>5. feed' \in Seq(Message)
  BY <1>1, <1>2, <1>4, LongerQueue DEF FeedType
<1>6. TablesInv'
  <2>1. active' \in Seq(ActiveConnection) /\ DOMAIN active' = {}
    BY <1>1, EmptySeq
  <2>2. FeedType'
    BY <1>1, <1>2, <1>5, <2>1 DEF FeedType
  <2>3. QED
    BY <1>1, <2>1, <2>2 DEF TablesInv, OneUp, PathsInv, StoppedInv
<1>7. \A path, c : Known(feed, path, c) => Known(feed, path, c)'
  BY <1>1, <1>2, <1>3, <1>4, KnownKept
<1>8. QED
  BY <1>1, <1>4, <1>6, <1>7, QueuedStep

\* No profile is left: what the list still shows is about to leave it.
LEMMA ServiceReturnsStep ==
  ASSUME IInv, ServiceReturns PROVE IInv'
<1>1. /\ active' = active /\ feed' = feed /\ profile' = profile /\ DOMAIN profile = {}
      /\ up' = TRUE /\ page' = page /\ disturbed' = disturbed /\ A' = A /\ I' = I
      /\ undrawn' = undrawn
  BY DEF ServiceReturns, pageVars, A, I
<1>2. TablesInv'
  BY <1>1 DEF IInv, TablesInv, FeedType, OneUp, Strong, PathsInv, StoppedInv
<1>3. KnownInv'
  BY <1>1 DEF IInv, KnownInv, Known, Current, Removed
<1>4. \A c : Leaving(c)' <=> Leaving(c)
  BY <1>1 DEF Leaving
<1>5. \A c \in DOMAIN A \ (disturbed \cup {Empty}) : Leaving(c)
  <2>1. \A c \in DOMAIN A \ (disturbed \cup {Empty}) : Removed(feed, A[c].path, c)
    BY <1>1 DEF IInv, KnownInv, Known, Current
  <2>2. QED
    BY <2>1 DEF Removed, Leaving, IsRemove, A
<1>6. ShownInv'
  BY <1>1, <1>4, <1>5 DEF ShownInv, AllUp
<1>7. OneShown'
  BY <1>1, <1>4 DEF IInv, OneShown, Shown
<1>8. QED
  BY <1>1, <1>2, <1>3, <1>6, <1>7 DEF IInv, AtMostOnce

\* setDefaultWiredDevice leaves the maps as they are, and no list drawn for the device.
LEMMA SetDefaultStep ==
  ASSUME IInv, NEW d \in Device, SetDefaultWiredDevice(d) PROVE IInv'
<1>1. /\ page' = [page EXCEPT !.m_currentDeviceName = d] /\ page \in Page /\ undrawn' = TRUE
      /\ profile' = profile /\ active' = active /\ up' = up /\ feed' = feed
      /\ disturbed' = disturbed
  BY DEF SetDefaultWiredDevice, manager, IInv
<1>2. page' \in Page /\ A' = A /\ I' = I /\ ~Shown'
  BY <1>1 DEF Page, A, I, Shown
<1>3. TablesInv'
  BY <1>1 DEF IInv, TablesInv, FeedType, OneUp, Strong, PathsInv, StoppedInv
<1>4. KnownInv'
  BY <1>1, <1>2 DEF IInv, KnownInv, Known, Current, Removed
<1>5. AtMostOnce'
  BY <1>1, <1>2 DEF IInv, AtMostOnce, A, I
<1>6. QED
  BY <1>2, <1>3, <1>4, <1>5 DEF IInv, ShownInv, AllUp, OneShown

-----------------------------------------------------------------------------
(* Every step keeps IInv, and the properties it implies.                   *)

LEMMA Step == IInv /\ [Next]_vars => IInv'
<1> SUFFICES ASSUME IInv, [Next]_vars PROVE IInv'
  OBVIOUS
<1>1. CASE NetworkManager
  BY <1>1, AddProfileStep, ChangeProfileStep, ActivateStep, RemoveProfileStep, ChangeStateStep,
     RemoveActiveStep, ServiceStopsStep, ServiceReturnsStep DEF NetworkManager
<1>2. CASE Signals
  BY <1>2, SignalsStep
<1>3. CASE \E dev \in Device \cup {AnyIface}, on, listed \in BOOLEAN : Redraw(dev, on, listed)
  BY <1>3, RedrawStep
<1>4. CASE UNCHANGED vars
  <2>1. /\ page' = page /\ profile' = profile /\ active' = active /\ up' = up /\ feed' = feed
        /\ disturbed' = disturbed /\ undrawn' = undrawn /\ A' = A /\ I' = I
    BY <1>4 DEF vars, A, I
  <2>2. TablesInv'
    BY <2>1 DEF IInv, TablesInv, FeedType, OneUp, Strong, PathsInv, StoppedInv
  <2>3. KnownInv'
    BY <2>1 DEF IInv, KnownInv, Known, Current, Removed
  <2>4. ShownInv' /\ OneShown'
    BY <2>1 DEF IInv, ShownInv, AllUp, OneShown, Shown, Leaving, UpOn, Strong
  <2>5. QED
    BY <2>1, <2>2, <2>3, <2>4 DEF IInv, AtMostOnce
<1>5. CASE \E dev \in Device : SetDefaultWiredDevice(dev)
  BY <1>5, SetDefaultStep
<1>6. QED
  BY <1>1, <1>2, <1>3, <1>4, <1>5 DEF Next

LEMMA Invariance == Spec => []IInv
<1>1. QED
  BY InitInv, Step, PTL DEF Spec

\* Nobody sees a profile in both lists of the wired page, whatever the handlers of
\* KyConnectResourse's and KyActiveConnectResource's signals looked up ahead of them.
THEOREM ProfileInOneList == Spec => []AtMostOnce
<1>1. IInv => AtMostOnce
  BY DEF IInv
<1>2. QED
  BY <1>1, Invariance, PTL

\* However the connections of a device replace each other, and however many of the
\* signals of this are queued, the active list shows one of them besides those whose
\* Deactivated or connectionRemove is queued.
THEOREM ListShowsOne == Spec => []OneShown
<1>1. IInv => OneShown
  BY DEF IInv
<1>2. QED
  BY <1>1, Invariance, PTL

LEMMA NoSecondStep ==
  ASSUME IInv, [Next]_vars, Shown, NEW k \in strays' \ strays
  PROVE  k \in disturbed \/ (k = Empty /\ \E c \in DOMAIN A : c \in disturbed \/ Leaving(c))
<1>1. TablesInv /\ FeedType /\ page \in Page /\ feed \in Seq(Message)
  BY DEF IInv, TablesInv, FeedType
<1>2. CASE OnAddConnection
  <2>1. /\ feed # <<>> /\ Msg.sig = "connectionAdd" /\ k = Msg.conn /\ k \in DOMAIN I
    BY <1>2 DEF OnAddConnection, Handle, I
  <2>2. IsAdd(Head(feed), k)
    BY <2>1 DEF IsAdd, Msg
  <2>3. QED
    BY <1>1, <2>1, <2>2, TailQueue DEF IInv, KnownInv
<1>3. CASE OnUpdateConnection
  <2> DEFINE c == Msg.conn
             ac == active[First(At(c, {"Activated"}))]
  <2>1. /\ feed # <<>> /\ Msg.sig = "connectionUpdate" /\ k = Empty /\ page' # page
        /\ ac.dev # page.m_currentDeviceName /\ IsActiveConnection(c)
        /\ page' = UpdateActiveConnectionProperty(page, ac)
    BY <1>3 DEF OnUpdateConnection, Handle
  <2>2. PICK i \in DOMAIN active :
          active[i] = ac /\ active[i].conn = c /\ active[i].state = "Activated"
    BY <1>1, <2>1, ActiveNow
  <2> HIDE DEF ac
  <2>3. c \in DOMAIN A /\ up
    BY <1>1, <2>1, <2>2 DEF UpdateActiveConnectionProperty, A, TablesInv, StoppedInv
  <2>4. c # Empty
    BY <1>1, <2>1, MessageConn, ConnectionAssumption
  <2>5. ~UpOn(c, page.m_currentDeviceName)
    BY <1>1, <2>1, <2>2 DEF UpOn, Strong, TablesInv, OneUp
  <2>6. c \in disturbed \/ Leaving(c)
    BY <2>3, <2>4, <2>5 DEF IInv, ShownInv, AllUp
  <2>7. QED
    BY <2>1, <2>3, <2>6
<1>4. CASE strays' = strays
  BY <1>4
<1>5. QED
  BY <1>2, <1>3, <1>4
     DEF Next, vars, NetworkManager, pageVars, AddProfile, ChangeProfile, Activate, RemoveProfile,
         ChangeState, RemoveActive, ServiceStops, ServiceReturns, Signals, OnRemoveConnection,
         OnConnectionStateChange, OnActiveConnectRemove, Redraw, SetDefaultWiredDevice

\* No handler leaves an item in a list that no map holds, which no later signal could
\* remove, but one of a profile drawn ahead of its connectionAdd; and a second "not
\* connected" only beside an item that is about to leave, or was so drawn.
THEOREM NoSecondItemLeft == Spec => NoSecondItem
<1>1. IInv /\ [Next]_vars =>
        [Shown => strays' \ strays \subseteq
           disturbed \cup (IF \E c \in DOMAIN page.m_activeConnectionMap :
                                c \in disturbed \/ Leaving(c) THEN {Empty} ELSE {})]_vars
  BY NoSecondStep DEF A
<1>2. QED
  BY <1>1, Invariance, PTL DEF Spec, NoSecondItem

-----------------------------------------------------------------------------
(* What the lists do not show yet is in a queued signal.                   *)

IsUp(m, c)     == m.sig = "stateChangeReason" /\ m.conn = c /\ m.state = "Activated"
IsUpdate(m, c) == m.sig = "connectionUpdate" /\ m.conn = c

AddIn(q, c)    == \E i \in DOMAIN q : IsAdd(q[i], c)
UpIn(q, c)     == \E i \in DOMAIN q : IsUp(q[i], c)
DownIn(q, c)   == \E i \in DOMAIN q : IsDown(q[i], c)
UpdateIn(q, c) == \E i \in DOMAIN q : IsUpdate(q[i], c)

\* The signals after which a profile's item does not show it active.
Resets(m, c) ==
  \/ IsAdd(m, c)
  \/ m.sig = "activeConnectRemove" /\ m.conn = c
  \/ m.sig = "stateChangeReason" /\ m.conn = c /\ m.state # "Activated"

\* Signal i tells of the activation that the profile is in now.
Since(q, i, c) ==
  IsUp(q[i], c) /\ \A j \in DOMAIN q : j > i => ~IsDown(q[j], c) /\ ~IsAdd(q[j], c)

IsStrong(c) == \E i \in DOMAIN active : Strong(active[i]) /\ active[i].conn = c

\* What the queue owes: a profile whose path is being removed is still to be added, the
\* item of an active one that a signal resets is still to be said up, and one said up
\* and not since down is up.
UniquePaths == \A c, k \in DOMAIN profile : profile[c].path = profile[k].path => c = k
Sole ==
  \A i, j \in DOMAIN active :
    Strong(active[i]) /\ active[j].conn = active[i].conn => i = j \/ active[j].state = "Activating"
RemovedFirst ==
  \A c \in DOMAIN profile, i \in DOMAIN feed :
    IsRemove(feed[i], profile[c].path) => \E j \in DOMAIN feed : j > i /\ IsAdd(feed[j], c)
UpLast ==
  \A c : IsActiveConnection(c) =>
    \A i \in DOMAIN feed : Resets(feed[i], c) => \E j \in DOMAIN feed : j > i /\ IsUp(feed[j], c)
UpStrong ==
  up => \A c \in DOMAIN profile, i \in DOMAIN feed : Since(feed, i, c) => IsStrong(c)

QueueInv == UniquePaths /\ Sole /\ RemovedFirst /\ UpLast /\ UpStrong

-----------------------------------------------------------------------------
(* The places of the signals that stay when one is handled or some are     *)
(* queued, and what the queue then says of a profile.                      *)

LEMMA TailPlaces ==
  ASSUME NEW q \in Seq(Message), q # <<>>
  PROVE  /\ DOMAIN q = 1..Len(q) /\ DOMAIN Tail(q) = 1..Len(q) - 1 /\ Len(q) \in Nat \ {0}
         /\ Head(q) = q[1] /\ 1 \in DOMAIN q
         /\ \A i \in DOMAIN Tail(q) : i + 1 \in DOMAIN q /\ Tail(q)[i] = q[i + 1] /\ i \in Nat
         /\ \A i \in DOMAIN q : i # 1 => i - 1 \in DOMAIN Tail(q) /\ Tail(q)[i - 1] = q[i]
<1> DEFINE t == Tail(q)
<1>1. /\ Head(q) = q[1] /\ t \in Seq(Message) /\ Len(t) = Len(q) - 1
      /\ Len(q) \in Nat \ {0} /\ \A i \in 1..Len(t) : t[i] = q[i + 1]
  BY HeadTailProperties
<1> HIDE DEF t
<1>2. DOMAIN q = 1..Len(q) /\ DOMAIN t = 1..Len(q) - 1
  BY <1>1
<1>3. \A i \in 1..Len(q) : i # 1 => i - 1 \in 1..Len(q) - 1 /\ (i - 1) + 1 = i
  BY <1>1
<1>4. \A i \in 1..Len(q) : i # 1 => t[i - 1] = q[i]
  BY <1>1, <1>3
<1>5. QED
  BY <1>1, <1>2, <1>3, <1>4 DEF t

LEMMA TailSignals ==
  ASSUME NEW q \in Seq(Message), q # <<>>, NEW c
  PROVE  /\ AddIn(q, c) <=> IsAdd(Head(q), c) \/ AddIn(Tail(q), c)
         /\ UpIn(q, c) <=> IsUp(Head(q), c) \/ UpIn(Tail(q), c)
         /\ DownIn(q, c) <=> IsDown(Head(q), c) \/ DownIn(Tail(q), c)
         /\ UpdateIn(q, c) <=> IsUpdate(Head(q), c) \/ UpdateIn(Tail(q), c)
         /\ \A i \in DOMAIN Tail(q) : Since(Tail(q), i, c) => i + 1 \in DOMAIN q /\ Since(q, i + 1, c)
<1>1. /\ DOMAIN q = 1..Len(q) /\ DOMAIN Tail(q) = 1..Len(q) - 1 /\ Len(q) \in Nat \ {0}
      /\ Head(q) = q[1] /\ 1 \in DOMAIN q
      /\ \A i \in DOMAIN Tail(q) : i + 1 \in DOMAIN q /\ Tail(q)[i] = q[i + 1] /\ i \in Nat
      /\ \A i \in DOMAIN q : i # 1 => i - 1 \in DOMAIN Tail(q) /\ Tail(q)[i - 1] = q[i]
  BY TailPlaces
<1>2. AddIn(q, c) <=> IsAdd(Head(q), c) \/ AddIn(Tail(q), c)
  BY <1>1 DEF AddIn
<1>3. UpIn(q, c) <=> IsUp(Head(q), c) \/ UpIn(Tail(q), c)
  BY <1>1 DEF UpIn
<1>4. DownIn(q, c) <=> IsDown(Head(q), c) \/ DownIn(Tail(q), c)
  BY <1>1 DEF DownIn
<1>5. UpdateIn(q, c) <=> IsUpdate(Head(q), c) \/ UpdateIn(Tail(q), c)
  BY <1>1 DEF UpdateIn
<1>6. ASSUME NEW i \in DOMAIN Tail(q), Since(Tail(q), i, c) PROVE Since(q, i + 1, c)
  <2>1. IsUp(q[i + 1], c)
    BY <1>1, <1>6 DEF Since
  <2>2. ASSUME NEW j \in DOMAIN q, j > i + 1 PROVE ~IsDown(q[j], c) /\ ~IsAdd(q[j], c)
    <3>1. j - 1 \in DOMAIN Tail(q) /\ Tail(q)[j - 1] = q[j] /\ j - 1 > i
      BY <1>1, <2>2
    <3>2. QED
      BY <1>6, <3>1 DEF Since
  <2>3. QED
    BY <2>1, <2>2 DEF Since
<1>7. QED
  BY <1>1, <1>2, <1>3, <1>4, <1>5, <1>6

LEMMA LongerPlaces ==
  ASSUME NEW q \in Seq(Message), NEW s \in Seq(Message)
  PROVE  LET r == q \o s
         IN /\ r \in Seq(Message) /\ Len(q) \in Nat /\ DOMAIN q = 1..Len(q)
            /\ \A i \in DOMAIN q : i \in DOMAIN r /\ r[i] = q[i]
            /\ \A i \in DOMAIN s : Len(q) + i \in DOMAIN r /\ r[Len(q) + i] = s[i] /\ i \in Nat \ {0}
            /\ \A i \in DOMAIN r :
                 \/ i \in DOMAIN q /\ r[i] = q[i]
                 \/ i \in Nat /\ i > Len(q) /\ i - Len(q) \in DOMAIN s /\ r[i] = s[i - Len(q)]
<1> DEFINE r == q \o s
<1>1. /\ r \in Seq(Message) /\ Len(r) = Len(q) + Len(s)
      /\ \A i \in 1..Len(q) + Len(s) : r[i] = IF i <= Len(q) THEN q[i] ELSE s[i - Len(q)]
  BY ConcatProperties
<1> HIDE DEF r
<1>2. /\ DOMAIN q = 1..Len(q) /\ DOMAIN s = 1..Len(s) /\ DOMAIN r = 1..Len(q) + Len(s)
      /\ Len(q) \in Nat /\ Len(s) \in Nat
  BY <1>1
<1>3. \A i \in 1..Len(q) : i \in 1..Len(q) + Len(s) /\ r[i] = q[i]
  BY <1>1, <1>2
<1>4. \A i \in 1..Len(s) : Len(q) + i \in 1..Len(q) + Len(s) /\ r[Len(q) + i] = s[i] /\ i \in Nat \ {0}
  BY <1>1, <1>2
<1>5. \A i \in 1..Len(q) + Len(s) :
        \/ i \in 1..Len(q) /\ r[i] = q[i]
        \/ i \in Nat /\ i > Len(q) /\ i - Len(q) \in 1..Len(s) /\ r[i] = s[i - Len(q)]
  BY <1>1, <1>2
<1>6. QED
  BY <1>1, <1>2, <1>3, <1>4, <1>5 DEF r

LEMMA LongerSignals ==
  ASSUME NEW q \in Seq(Message), NEW s \in Seq(Message), NEW c
  PROVE  LET r == q \o s
         IN /\ AddIn(r, c) <=> AddIn(q, c) \/ AddIn(s, c)
            /\ UpIn(r, c) <=> UpIn(q, c) \/ UpIn(s, c)
            /\ DownIn(r, c) <=> DownIn(q, c) \/ DownIn(s, c)
            /\ UpdateIn(r, c) <=> UpdateIn(q, c) \/ UpdateIn(s, c)
            /\ \A i \in DOMAIN r : Since(r, i, c) =>
                 \/ i \in DOMAIN q /\ Since(q, i, c) /\ ~DownIn(s, c) /\ ~AddIn(s, c)
                 \/ i \in Nat /\ i > Len(q) /\ i - Len(q) \in DOMAIN s /\ UpIn(s, c)
<1> DEFINE r == q \o s
<1>1. /\ r \in Seq(Message) /\ Len(q) \in Nat /\ DOMAIN q = 1..Len(q)
      /\ \A i \in DOMAIN q : i \in DOMAIN r /\ r[i] = q[i]
      /\ \A i \in DOMAIN s : Len(q) + i \in DOMAIN r /\ r[Len(q) + i] = s[i] /\ i \in Nat \ {0}
      /\ \A i \in DOMAIN r :
           \/ i \in DOMAIN q /\ r[i] = q[i]
           \/ i \in Nat /\ i > Len(q) /\ i - Len(q) \in DOMAIN s /\ r[i] = s[i - Len(q)]
  BY LongerPlaces
<1> HIDE DEF r
<1>2. AddIn(r, c) <=> AddIn(q, c) \/ AddIn(s, c)
  BY <1>1 DEF AddIn
<1>3. UpIn(r, c) <=> UpIn(q, c) \/ UpIn(s, c)
  BY <1>1 DEF UpIn
<1>4. DownIn(r, c) <=> DownIn(q, c) \/ DownIn(s, c)
  BY <1>1 DEF DownIn
<1>5. UpdateIn(r, c) <=> UpdateIn(q, c) \/ UpdateIn(s, c)
  BY <1>1 DEF UpdateIn
<1>6. ASSUME NEW i \in DOMAIN r, Since(r, i, c)
      PROVE  \/ i \in DOMAIN q /\ Since(q, i, c) /\ ~DownIn(s, c) /\ ~AddIn(s, c)
             \/ i \in Nat /\ i > Len(q) /\ i - Len(q) \in DOMAIN s /\ UpIn(s, c)
  <2>1. IsUp(r[i], c) /\ \A j \in DOMAIN r : j > i => ~IsDown(r[j], c) /\ ~IsAdd(r[j], c)
    BY <1>6 DEF Since
  <2>2. CASE i \in DOMAIN q /\ r[i] = q[i]
    <3>1. Since(q, i, c)
      BY <1>1, <2>1, <2>2 DEF Since
    <3>2. \A j \in DOMAIN s : Len(q) + j > i
      BY <1>1, <2>2
    <3>3. ~DownIn(s, c) /\ ~AddIn(s, c)
      BY <1>1, <2>1, <3>2 DEF DownIn, AddIn
    <3>4. QED
      BY <2>2, <3>1, <3>3
  <2>3. CASE i \in Nat /\ i > Len(q) /\ i - Len(q) \in DOMAIN s /\ r[i] = s[i - Len(q)]
    BY <2>1, <2>3 DEF UpIn
  <2>4. QED
    BY <1>1, <2>2, <2>3
<1>7. QED
  BY <1>2, <1>3, <1>4, <1>5, <1>6 DEF r

\* A signal is handled.
LEMMA QueueDequeued ==
  ASSUME IInv, QueueInv, feed # <<>>, feed' = Tail(feed), UNCHANGED manager
  PROVE  QueueInv'
<1>1. /\ feed \in Seq(Message) /\ profile' = profile /\ active' = active /\ up' = up
      /\ QueueInv
  BY DEF IInv, TablesInv, FeedType, manager
<1>2. /\ \A i \in DOMAIN Tail(feed) : i + 1 \in DOMAIN feed /\ Tail(feed)[i] = feed[i + 1] /\ i \in Nat
      /\ \A i \in DOMAIN feed : i # 1 => i - 1 \in DOMAIN Tail(feed) /\ Tail(feed)[i - 1] = feed[i]
      /\ DOMAIN feed \subseteq Nat \ {0}
  BY <1>1, TailPlaces
<1>3. UniquePaths' /\ Sole'
  BY <1>1 DEF QueueInv, UniquePaths, Sole, Strong
<1>4. RemovedFirst'
  <2>1. SUFFICES ASSUME NEW c \in DOMAIN profile, NEW i \in DOMAIN Tail(feed),
                        IsRemove(Tail(feed)[i], profile[c].path)
                 PROVE  \E j \in DOMAIN Tail(feed) : j > i /\ IsAdd(Tail(feed)[j], c)
    BY <1>1 DEF RemovedFirst
  <2>2. PICK j \in DOMAIN feed : j > i + 1 /\ IsAdd(feed[j], c)
    BY <1>1, <1>2, <2>1 DEF QueueInv, RemovedFirst
  <2>3. j - 1 \in DOMAIN Tail(feed) /\ j - 1 > i /\ Tail(feed)[j - 1] = feed[j]
    BY <1>2, <2>2
  <2>4. QED
    BY <2>2, <2>3
<1>5. UpLast'
  <2>1. SUFFICES ASSUME NEW c, IsActiveConnection(c), NEW i \in DOMAIN Tail(feed),
                        Resets(Tail(feed)[i], c)
                 PROVE  \E j \in DOMAIN Tail(feed) : j > i /\ IsUp(Tail(feed)[j], c)
    BY <1>1 DEF UpLast, IsActiveConnection, At
  <2>2. PICK j \in DOMAIN feed : j > i + 1 /\ IsUp(feed[j], c)
    BY <1>1, <1>2, <2>1 DEF QueueInv, UpLast
  <2>3. j - 1 \in DOMAIN Tail(feed) /\ j - 1 > i /\ Tail(feed)[j - 1] = feed[j]
    BY <1>2, <2>2
  <2>4. QED
    BY <2>2, <2>3
<1>6. UpStrong'
  <2>1. SUFFICES ASSUME up, NEW c \in DOMAIN profile, NEW i \in DOMAIN Tail(feed),
                        Since(Tail(feed), i, c)
                 PROVE  IsStrong(c)
    BY <1>1 DEF UpStrong, IsStrong, Strong
  <2>2. i + 1 \in DOMAIN feed /\ Since(feed, i + 1, c)
    BY <1>1, <2>1, TailSignals
  <2>3. QED
    BY <1>1, <2>1, <2>2 DEF QueueInv, UpStrong
<1>7. QED
  BY <1>3, <1>4, <1>5, <1>6 DEF QueueInv

-----------------------------------------------------------------------------
(* NetworkManager queues with each change the signals that tell of it.     *)

ActiveOn(c, dev) ==
  \E i \in DOMAIN active :
    active[i].state = "Activated" /\ active[i].conn = c /\ active[i].dev = dev
Between(c) == At(c, {"Activating", "Deactivating"}) # {}

\* What changes for NetworkManager is said by the signals s queued with it.
Reports(s) ==
  /\ UniquePaths' /\ Sole' /\ TablesInv'
  /\ \A c \in DOMAIN profile' :
       /\ \A i \in DOMAIN s : ~IsRemove(s[i], profile'[c].path)
       /\ \/ AddIn(s, c)
          \/ /\ c \in DOMAIN profile /\ profile'[c].path = profile[c].path
             /\ profile'[c].iface = profile[c].iface \/ UpdateIn(s, c)
  /\ \A c :
       /\ IsActiveConnection(c)' => \A i \in DOMAIN s : ~Resets(s[i], c)
       /\ UpIn(s, c) => /\ c \in DOMAIN profile /\ IsActiveConnection(c)' /\ ~IsStrong(c)
                        /\ \A k : ~DownIn(s, k)
       /\ \A dev : ActiveOn(c, dev)' => ActiveOn(c, dev) \/ UpIn(s, c)
       /\ \A dev : UpOn(c, dev)' => UpOn(c, dev) \/ UpIn(s, c)
  /\ up' => /\ up
            /\ \A c : /\ \A dev : UpOn(c, dev) => UpOn(c, dev)' \/ DownIn(s, c)
                      /\ Between(c) => Between(c)' \/ UpIn(s, c) \/ DownIn(s, c)

\* Whether a connection is up is whether it is up on some device.
LEMMA OnSomeDevice ==
  \A c : /\ IsStrong(c) <=> \E dev : UpOn(c, dev)
         /\ IsActiveConnection(c) <=> \E dev : ActiveOn(c, dev)
         /\ \A dev : ActiveOn(c, dev) => UpOn(c, dev)
BY DEF IsStrong, UpOn, IsActiveConnection, At, ActiveOn, Strong

\* What the queue owes it owes after any change that is so reported.
LEMMA QueueReported ==
  ASSUME IInv, QueueInv, NEW s \in Seq(Message), feed' = feed \o s, Reports(s)
  PROVE  QueueInv'
<1>1. feed \in Seq(Message)
  BY DEF IInv, TablesInv, FeedType
<1> DEFINE r == feed \o s
<1>2. /\ r \in Seq(Message) /\ Len(feed) \in Nat /\ DOMAIN feed = 1..Len(feed)
      /\ \A i \in DOMAIN feed : i \in DOMAIN r /\ r[i] = feed[i]
      /\ \A i \in DOMAIN s : Len(feed) + i \in DOMAIN r /\ r[Len(feed) + i] = s[i] /\ i \in Nat \ {0}
      /\ \A i \in DOMAIN r :
           \/ i \in DOMAIN feed /\ r[i] = feed[i]
           \/ i \in Nat /\ i > Len(feed) /\ i - Len(feed) \in DOMAIN s /\ r[i] = s[i - Len(feed)]
  BY <1>1, LongerPlaces
<1>3. feed' = r
  OBVIOUS
<1> HIDE DEF r
<1>4. RemovedFirst'
  <2>1. SUFFICES ASSUME NEW c \in DOMAIN profile', NEW i \in DOMAIN feed',
                        IsRemove(feed'[i], profile'[c].path)
                 PROVE  \E j \in DOMAIN feed' : j > i /\ IsAdd(feed'[j], c)
    BY DEF RemovedFirst
  <2>2. i \in DOMAIN feed /\ feed'[i] = feed[i]
    BY <1>3, <1>2, <2>1 DEF Reports
  <2>3. CASE AddIn(s, c)
    <3>1. PICK j \in DOMAIN s : IsAdd(s[j], c)
      BY <2>3 DEF AddIn
    <3>2. Len(feed) + j \in DOMAIN feed' /\ Len(feed) + j > i /\ feed'[Len(feed) + j] = s[j]
      BY <1>3, <1>2, <2>2
    <3>3. QED
      BY <3>1, <3>2
  <2>4. CASE c \in DOMAIN profile /\ profile'[c].path = profile[c].path
    <3>1. PICK j \in DOMAIN feed : j > i /\ IsAdd(feed[j], c)
      BY <2>1, <2>2, <2>4 DEF QueueInv, RemovedFirst
    <3>2. QED
      BY <1>3, <1>2, <3>1
  <2>5. QED
    BY <2>3, <2>4 DEF Reports
<1>5. UpLast'
  <2>1. SUFFICES ASSUME NEW c, IsActiveConnection(c)', NEW i \in DOMAIN feed', Resets(feed'[i], c)
                 PROVE  \E j \in DOMAIN feed' : j > i /\ IsUp(feed'[j], c)
    BY DEF UpLast
  <2>2. i \in DOMAIN feed /\ feed'[i] = feed[i]
    BY <1>3, <1>2, <2>1 DEF Reports
  <2>3. CASE UpIn(s, c)
    <3>1. PICK j \in DOMAIN s : IsUp(s[j], c)
      BY <2>3 DEF UpIn
    <3>2. Len(feed) + j \in DOMAIN feed' /\ Len(feed) + j > i /\ feed'[Len(feed) + j] = s[j]
      BY <1>3, <1>2, <2>2
    <3>3. QED
      BY <3>1, <3>2
  <2>4. CASE IsActiveConnection(c)
    <3>1. PICK j \in DOMAIN feed : j > i /\ IsUp(feed[j], c)
      BY <2>1, <2>2, <2>4 DEF QueueInv, UpLast
    <3>2. QED
      BY <1>3, <1>2, <3>1
  <2>5. IsActiveConnection(c) \/ UpIn(s, c)
    <3>1. \E dev : ActiveOn(c, dev)'
      BY <2>1 DEF IsActiveConnection, At, ActiveOn
    <3>2. QED
      BY <3>1, OnSomeDevice DEF Reports
  <2>6. QED
    BY <2>3, <2>4, <2>5
<1>6. UpStrong'
  <2>1. SUFFICES ASSUME up', NEW c \in DOMAIN profile', NEW i \in DOMAIN feed', Since(feed', i, c)
                 PROVE  IsStrong(c)'
    BY DEF UpStrong, Since
  <2>2. CASE i \in DOMAIN feed /\ Since(feed, i, c) /\ ~DownIn(s, c) /\ ~AddIn(s, c)
    <3>1. c \in DOMAIN profile /\ up
      BY <2>1, <2>2 DEF Reports
    <3>2. PICK dev : UpOn(c, dev)
      BY <2>2, <3>1, OnSomeDevice DEF QueueInv, UpStrong
    <3>3. UpOn(c, dev)'
      BY <2>1, <2>2, <3>2 DEF Reports
    <3>4. QED
      BY <3>3 DEF UpOn, IsStrong
  <2>3. CASE UpIn(s, c)
    <3>1. IsActiveConnection(c)'
      BY <2>3 DEF Reports
    <3>2. QED
      BY <3>1 DEF IsActiveConnection, At, IsStrong, Strong
  <2>4. QED
    BY <1>1, <2>1, <2>2, <2>3, LongerSignals DEF r
<1>7. QED
  BY <1>4, <1>5, <1>6 DEF QueueInv, Reports

\* Each change is so reported.
LEMMA AddProfileReports ==
  ASSUME IInv, QueueInv, NEW c \in Conn, NEW p \in Profile, AddProfile(c, p)
  PROVE  Reports(<<Signal("connectionAdd", c)>>)
<1> DEFINE m == Signal("connectionAdd", c)
           s == <<m>>
<1>1. /\ profile' = With(profile, c, p) /\ active' = active /\ up' = up
      /\ c \notin DOMAIN profile /\ At(c, State) = {}
      /\ \A k \in DOMAIN profile : profile[k].path # p.path
  BY DEF AddProfile
<1>2. IInv' /\ TablesInv'
  BY AddProfileStep DEF IInv
<1>3. /\ DOMAIN profile' = DOMAIN profile \cup {c} /\ profile'[c] = p
      /\ \A k \in DOMAIN profile : profile'[k] = profile[k]
  BY <1>1 DEF With
<1>4. UniquePaths'
  BY <1>1, <1>3 DEF QueueInv, UniquePaths
<1>5. Sole'
  BY <1>1 DEF QueueInv, Sole, Strong
<1>6. ~IsActiveConnection(c)
  BY <1>1 DEF IsActiveConnection, At, State
<1>7. /\ m.sig = "connectionAdd" /\ m.conn = c
  BY DEF Signal
<1> HIDE DEF m
<1>8. /\ DOMAIN s = {1} /\ s[1] = m
  OBVIOUS
<1> HIDE DEF s
<1>9. /\ AddIn(s, c) /\ \A k : ~UpIn(s, k) /\ ~DownIn(s, k)
      /\ \A i \in DOMAIN s : (\A path : ~IsRemove(s[i], path)) /\ \A k : Resets(s[i], k) => k = c
  BY <1>7, <1>8 DEF AddIn, UpIn, DownIn, IsAdd, IsUp, IsDown, IsRemove, Resets
<1>10. \A k : /\ IsActiveConnection(k)' <=> IsActiveConnection(k)
              /\ Between(k)' <=> Between(k)
              /\ \A dev : (ActiveOn(k, dev)' <=> ActiveOn(k, dev)) /\ (UpOn(k, dev)' <=> UpOn(k, dev))
  BY <1>1 DEF IsActiveConnection, At, Between, ActiveOn, UpOn, Strong
<1>11. Reports(s)
  BY <1>1, <1>2, <1>3, <1>4, <1>5, <1>6, <1>9, <1>10 DEF Reports
<1>12. QED
  BY <1>11 DEF s, m

LEMMA RemoveProfileReports ==
  ASSUME IInv, QueueInv, NEW c \in Conn, RemoveProfile(c)
  PROVE  Reports(<<[sig |-> "connectionRemove", path |-> profile[c].path]>>)
<1> DEFINE m == [sig |-> "connectionRemove", path |-> profile[c].path]
           s == <<m>>
<1>1. /\ profile' = Without(profile, {c}) /\ active' = active /\ up' = up /\ c \in DOMAIN profile
  BY DEF RemoveProfile
<1>2. IInv' /\ TablesInv'
  BY RemoveProfileStep DEF IInv
<1>3. /\ DOMAIN profile' = DOMAIN profile \ {c}
      /\ \A k \in DOMAIN profile \ {c} : profile'[k] = profile[k]
  BY <1>1 DEF Without, Restrict
<1>4. UniquePaths'
  BY <1>3 DEF QueueInv, UniquePaths
<1>5. Sole'
  BY <1>1 DEF QueueInv, Sole, Strong
<1>6. /\ m.sig = "connectionRemove" /\ m.path = profile[c].path
  OBVIOUS
<1> HIDE DEF m
<1>7. /\ DOMAIN s = {1} /\ s[1] = m
  OBVIOUS
<1> HIDE DEF s
<1>8. /\ \A k : ~UpIn(s, k) /\ ~DownIn(s, k)
      /\ \A i \in DOMAIN s : (\A path : IsRemove(s[i], path) => path = profile[c].path)
                             /\ \A k : ~Resets(s[i], k)
  BY <1>6, <1>7 DEF UpIn, DownIn, IsAdd, IsUp, IsDown, IsRemove, Resets
<1>9. \A k : /\ IsActiveConnection(k)' <=> IsActiveConnection(k)
             /\ Between(k)' <=> Between(k)
             /\ \A dev : (ActiveOn(k, dev)' <=> ActiveOn(k, dev)) /\ (UpOn(k, dev)' <=> UpOn(k, dev))
  BY <1>1 DEF IsActiveConnection, At, Between, ActiveOn, UpOn, Strong
<1>10. \A k \in DOMAIN profile' : profile'[k].path # profile[c].path
  BY <1>1, <1>3 DEF QueueInv, UniquePaths
<1>11. Reports(s)
  BY <1>1, <1>2, <1>3, <1>4, <1>5, <1>8, <1>9, <1>10 DEF Reports
<1>12. QED
  BY <1>11 DEF s, m

LEMMA ChangeProfileReports ==
  ASSUME IInv, QueueInv, NEW c \in Conn, NEW iface \in Ifaces, ChangeProfile(c, iface)
  PROVE  Reports(<<Signal("connectionUpdate", c)>>)
<1> DEFINE m == Signal("connectionUpdate", c)
           s == <<m>>
<1>1. /\ profile' = [profile EXCEPT ![c].iface = iface] /\ active' = active /\ up' = up
      /\ c \in DOMAIN profile
  BY DEF ChangeProfile
<1>2. IInv' /\ TablesInv' /\ FeedType
  BY ChangeProfileStep DEF IInv, TablesInv
<1>3. /\ DOMAIN profile' = DOMAIN profile
      /\ \A k \in DOMAIN profile : profile'[k].path = profile[k].path
      /\ \A k \in DOMAIN profile \ {c} : profile'[k].iface = profile[k].iface
  BY <1>1, <1>2 DEF FeedType, Profile
<1>4. UniquePaths'
  BY <1>3 DEF QueueInv, UniquePaths
<1>5. Sole'
  BY <1>1 DEF QueueInv, Sole, Strong
<1>6. /\ m.sig = "connectionUpdate" /\ m.conn = c
  BY DEF Signal
<1> HIDE DEF m
<1>7. /\ DOMAIN s = {1} /\ s[1] = m
  OBVIOUS
<1> HIDE DEF s
<1>8. /\ UpdateIn(s, c) /\ \A k : ~UpIn(s, k) /\ ~DownIn(s, k)
      /\ \A i \in DOMAIN s : (\A path : ~IsRemove(s[i], path)) /\ \A k : ~Resets(s[i], k)
  BY <1>6, <1>7 DEF UpIn, DownIn, IsAdd, IsUp, IsDown, IsRemove, Resets, UpdateIn, IsUpdate
<1>9. \A k : /\ IsActiveConnection(k)' <=> IsActiveConnection(k)
             /\ Between(k)' <=> Between(k)
             /\ \A dev : (ActiveOn(k, dev)' <=> ActiveOn(k, dev)) /\ (UpOn(k, dev)' <=> UpOn(k, dev))
  BY <1>1 DEF IsActiveConnection, At, Between, ActiveOn, UpOn, Strong
<1>10. Reports(s)
  BY <1>1, <1>2, <1>3, <1>4, <1>5, <1>8, <1>9 DEF Reports
<1>11. QED
  BY <1>10 DEF s, m

LEMMA ActivateReports ==
  ASSUME IInv, QueueInv, NEW c \in Conn, NEW dev \in Device, Activate(c, dev)
  PROVE  Reports(<<>>)
<1> DEFINE ac == [conn |-> c, path |-> profile[c].path, dev |-> dev, state |-> "Activating"]
<1>1. /\ active' = Append(active, ac) /\ up /\ profile' = profile /\ up' = up
  BY DEF Activate
<1>2. IInv' /\ TablesInv' /\ active \in Seq(ActiveConnection)
  BY ActivateStep DEF IInv, TablesInv, FeedType
<1>3. ac \in ActiveConnection /\ ac.conn = c /\ ac.state = "Activating"
  <2>1. c \in DOMAIN profile /\ FeedType
    BY DEF Activate, IInv, TablesInv
  <2>2. QED
    BY <2>1 DEF ActiveConnection, FeedType, Profile, State
<1> HIDE DEF ac
<1>4. /\ \A i \in DOMAIN active' : \/ i \in DOMAIN active /\ active'[i] = active[i]
                                   \/ active'[i] = ac
      /\ \A i \in DOMAIN active : i \in DOMAIN active' /\ active'[i] = active[i]
  BY <1>1, <1>2, <1>3, AppendProperties
<1>5. UniquePaths'
  BY <1>1 DEF QueueInv, UniquePaths
<1>6. Sole'
  BY <1>3, <1>4 DEF QueueInv, Sole, Strong
<1>7. \A k : /\ IsActiveConnection(k)' <=> IsActiveConnection(k)
             /\ Between(k) => Between(k)'
             /\ \A d : (ActiveOn(k, d)' <=> ActiveOn(k, d)) /\ (UpOn(k, d)' <=> UpOn(k, d))
  BY <1>3, <1>4 DEF IsActiveConnection, At, Between, ActiveOn, UpOn, Strong
<1>8. DOMAIN <<>> = {} /\ \A k : ~UpIn(<<>>, k)
  BY DEF UpIn
<1>9. QED
  BY <1>1, <1>2, <1>5, <1>6, <1>7, <1>8 DEF Reports

LEMMA ChangeStateReports ==
  ASSUME IInv, QueueInv, NEW i \in DOMAIN active, NEW state \in State, ChangeState(i, state)
  PROVE  Reports(<<[sig |-> "stateChangeReason", conn |-> active[i].conn, state |-> state]>>)
<1> DEFINE ac == active[i]
           m == [sig |-> "stateChangeReason", conn |-> ac.conn, state |-> state]
           s == <<m>>
<1>1. /\ active' = [active EXCEPT ![i].state = state] /\ MayBecome(i, state)
      /\ profile' = profile /\ up' = up
  BY DEF ChangeState
<1>2. IInv' /\ TablesInv' /\ TablesInv /\ active \in Seq(ActiveConnection) /\ ac \in ActiveConnection
  BY ChangeStateStep DEF IInv, TablesInv, FeedType
<1>3. PICK c : c = ac.conn
  OBVIOUS
<1>4. /\ DOMAIN active' = DOMAIN active
      /\ \A j \in DOMAIN active \ {i} : active'[j] = active[j]
      /\ active'[i].conn = c /\ active'[i].dev = ac.dev /\ active'[i].state = state
  BY <1>1, <1>2, <1>3 DEF ActiveConnection
<1>5. m.sig = "stateChangeReason" /\ m.conn = c /\ m.state = state
  BY <1>3
<1> HIDE DEF m
<1>6. DOMAIN s = {1} /\ s[1] = m
  OBVIOUS
<1> HIDE DEF s
<1>7. /\ \A k : /\ UpIn(s, k) <=> k = c /\ state = "Activated"
                /\ DownIn(s, k) <=> k = c /\ state = "Deactivated"
      /\ \A j \in DOMAIN s : /\ \A path : ~IsRemove(s[j], path)
                             /\ \A k : Resets(s[j], k) => k = c /\ state # "Activated"
  BY <1>5, <1>6 DEF UpIn, DownIn, IsAdd, IsUp, IsDown, IsRemove, Resets
\* The three changes of state.
<1>8. ASSUME ac.state = "Activating", state = "Deactivated", ~IsStrong(c)
      PROVE  Reports(s)
  <2>1. Sole'
    BY <1>4, <1>3, <1>8 DEF QueueInv, Sole, Strong, IsStrong
  <2>2. \A k : /\ ~IsActiveConnection(c)
               /\ IsActiveConnection(k)' <=> IsActiveConnection(k)
               /\ Between(k) => Between(k)' \/ k = c
               /\ \A d : (ActiveOn(k, d)' <=> ActiveOn(k, d)) /\ (UpOn(k, d)' <=> UpOn(k, d))
    BY <1>4, <1>3, <1>8 DEF IsActiveConnection, At, Between, ActiveOn, UpOn, Strong, IsStrong
  <2>3. UniquePaths'
    BY <1>1 DEF QueueInv, UniquePaths
  <2>4. /\ \A k : ~UpIn(s, k) /\ (DownIn(s, k) <=> k = c)
        /\ \A j \in DOMAIN s : /\ \A path : ~IsRemove(s[j], path)
                               /\ \A k : Resets(s[j], k) => k = c
    BY <1>7, <1>8
  <2>5. QED
    BY <1>1, <1>2, <2>1, <2>2, <2>3, <2>4 DEF Reports
<1>9. ASSUME ac.state = "Activating", state = "Activated", c \in DOMAIN profile,
             \A j \in DOMAIN active : active[j].conn = c => j = i
      PROVE  Reports(s)
  <2>1. Sole'
    BY <1>4, <1>3, <1>9 DEF QueueInv, Sole, Strong
  <2>2. ~IsStrong(c) /\ IsActiveConnection(c)'
    BY <1>4, <1>3, <1>9 DEF IsStrong, IsActiveConnection, At, Strong
  <2>3. \A k : /\ k # c => (IsActiveConnection(k)' <=> IsActiveConnection(k))
               /\ k # c /\ Between(k) => Between(k)'
               /\ \A d : UpOn(k, d) => UpOn(k, d)'
               /\ \A d : k # c => (ActiveOn(k, d)' <=> ActiveOn(k, d)) /\ (UpOn(k, d)' <=> UpOn(k, d))
    BY <1>4, <1>3, <1>9 DEF IsActiveConnection, At, Between, ActiveOn, UpOn, Strong
  <2>4. UniquePaths'
    BY <1>1 DEF QueueInv, UniquePaths
  <2>5. /\ \A k : (UpIn(s, k) <=> k = c) /\ ~DownIn(s, k)
        /\ \A j \in DOMAIN s : /\ \A path : ~IsRemove(s[j], path)
                               /\ \A k : ~Resets(s[j], k)
    BY <1>7, <1>9
  <2>6. QED
    BY <1>1, <1>2, <1>9, <2>1, <2>2, <2>3, <2>4, <2>5 DEF Reports
<1>10. ASSUME \/ ac.state = "Activated" /\ state = "Deactivating"
              \/ ac.state = "Deactivating" /\ state = "Deactivated"
       PROVE  Reports(s)
  <2>1. \A j \in DOMAIN active : active[j].conn = c => j = i \/ active[j].state = "Activating"
    BY <1>10, <1>3 DEF QueueInv, Sole, Strong
  <2>2. Sole'
    BY <1>4, <1>3, <1>10, <2>1 DEF QueueInv, Sole, Strong
  <2>3. ~IsActiveConnection(c)'
    BY <1>4, <1>3, <1>10, <2>1 DEF IsActiveConnection, At
  <2>4. /\ \A k : IsActiveConnection(k)' => IsActiveConnection(k)
        /\ \A k : Between(k) => Between(k)' \/ (k = c /\ state = "Deactivated")
    BY <1>4, <1>3, <1>10 DEF IsActiveConnection, Between, At
  <2>5. \A k, d : ActiveOn(k, d)' => ActiveOn(k, d)
    BY <1>4, <1>3, <1>10 DEF ActiveOn
  <2>6. \A k, d : UpOn(k, d)' => UpOn(k, d)
    BY <1>4, <1>3, <1>10 DEF UpOn, Strong
  <2>7. \A k, d : UpOn(k, d) => UpOn(k, d)' \/ (k = c /\ state = "Deactivated")
    BY <1>4, <1>3, <1>10 DEF UpOn, Strong
  <2>8. UniquePaths'
    BY <1>1 DEF QueueInv, UniquePaths
  <2>9. /\ \A k : ~UpIn(s, k)
        /\ \A k : k = c /\ state = "Deactivated" => DownIn(s, k)
        /\ \A j \in DOMAIN s : /\ \A path : ~IsRemove(s[j], path)
                               /\ \A k : Resets(s[j], k) => ~IsActiveConnection(k)'
    BY <1>7, <1>10, <2>3
  <2>10. QED
    BY <1>1, <1>2, <2>2, <2>4, <2>5, <2>6, <2>7, <2>8, <2>9 DEF Reports
<1>11. Reports(s)
  <2>1. (~\E j \in DOMAIN active :
             /\ j # i /\ active[j].state \in {"Activated", "Deactivating"}
             /\ active[j].conn = c \/ active[j].dev = ac.dev)
          /\ ac.state = "Activating" => ~IsStrong(c)
    BY DEF IsStrong, Strong
  <2>2. At(c, State) = {i} => \A j \in DOMAIN active : active[j].conn = c => j = i
    <3>1. \A j \in DOMAIN active : active[j] \in ActiveConnection
      BY <1>2
    <3>2. QED
      BY <3>1 DEF At, ActiveConnection
  <2>3. QED
    BY <1>1, <1>8, <1>9, <1>10, <1>3, <2>1, <2>2 DEF MayBecome
<1>12. QED
  BY <1>11 DEF s, m

LEMMA RemoveActiveReports ==
  ASSUME IInv, QueueInv, NEW i \in DOMAIN active, RemoveActive(i)
  PROVE  Reports(<<Signal("activeConnectRemove", active[i].conn)>>)
<1> DEFINE c == active[i].conn
           m == Signal("activeConnectRemove", c)
           s == <<m>>
           old(j) == IF j < i THEN j ELSE j + 1
           new(j) == IF j < i THEN j ELSE j - 1
<1>1. /\ active' = RemoveAt(active, i) /\ active[i].state = "Deactivated"
      /\ profile' = profile /\ up' = up
  BY DEF RemoveActive
<1>2. IInv' /\ TablesInv' /\ TablesInv /\ active \in Seq(ActiveConnection)
  BY RemoveActiveStep DEF IInv, TablesInv, FeedType
<1>3. /\ \A j \in DOMAIN active' : active'[j] = active[old(j)] /\ old(j) \in DOMAIN active
      /\ \A j \in DOMAIN active \ {i} : new(j) \in DOMAIN active' /\ active'[new(j)] = active[j]
      /\ \A j, k \in DOMAIN active' : old(j) = old(k) => j = k
  <2>1. /\ active' \in Seq(ActiveConnection)
        /\ \A j \in DOMAIN active' : active'[j] = IF j < i THEN active[j] ELSE active[j + 1]
        /\ \A j \in DOMAIN active' :
             IF j < i THEN j \in DOMAIN active ELSE j + 1 \in DOMAIN active
        /\ \A j \in DOMAIN active \ {i} :
             IF j < i THEN j \in DOMAIN active' ELSE j - 1 \in DOMAIN active'
    BY <1>1, <1>2, RemoveAtProperties
  <2>2. DOMAIN active \subseteq Nat /\ DOMAIN active' \subseteq Nat /\ i \in Nat
    BY <1>2, <2>1
  <2>3. QED
    BY <2>1, <2>2
<1> HIDE DEF old, new
<1>4. m.sig = "activeConnectRemove" /\ m.conn = c
  BY DEF Signal
<1> HIDE DEF m
<1>5. DOMAIN s = {1} /\ s[1] = m
  OBVIOUS
<1> HIDE DEF s
<1>6. /\ \A k : ~UpIn(s, k) /\ ~DownIn(s, k)
      /\ \A j \in DOMAIN s : /\ \A path : ~IsRemove(s[j], path)
                             /\ \A k : Resets(s[j], k) => k = c
  BY <1>4, <1>5 DEF UpIn, DownIn, IsAdd, IsUp, IsDown, IsRemove, Resets
<1>7. Sole'
  BY <1>3 DEF QueueInv, Sole, Strong
<1>8. ~IsActiveConnection(c)
  BY <1>1 DEF QueueInv, Sole, Strong, IsActiveConnection, At
<1>9. ASSUME NEW k
      PROVE  /\ IsActiveConnection(k)' <=> IsActiveConnection(k)
             /\ Between(k) => Between(k)'
             /\ \A d : (ActiveOn(k, d)' <=> ActiveOn(k, d)) /\ (UpOn(k, d)' <=> UpOn(k, d))
  <2>1. IsActiveConnection(k)' <=> IsActiveConnection(k)
    BY <1>1, <1>3 DEF IsActiveConnection, At
  <2>2. Between(k) => Between(k)'
    BY <1>1, <1>3 DEF Between, At
  <2>3. \A d : (ActiveOn(k, d)' <=> ActiveOn(k, d)) /\ (UpOn(k, d)' <=> UpOn(k, d))
    BY <1>1, <1>3 DEF ActiveOn, UpOn, Strong
  <2>4. QED BY <2>1, <2>2, <2>3
<1>10. UniquePaths'
  BY <1>1 DEF QueueInv, UniquePaths
<1>11. Reports(s)
  BY <1>1, <1>2, <1>6, <1>7, <1>8, <1>9, <1>10 DEF Reports
<1>12. QED
  BY <1>11 DEF s, m

LEMMA ServiceStopsReports ==
  ASSUME IInv, QueueInv, ServiceStops
  PROVE  Reports([i \in DOMAIN active |-> Signal("activeConnectRemove", active[i].conn)])
<1> DEFINE s == [i \in DOMAIN active |-> Signal("activeConnectRemove", active[i].conn)]
<1>1. active' = <<>> /\ up' = FALSE /\ profile' = profile /\ DOMAIN active' = {}
  BY DEF ServiceStops
<1>2. IInv' /\ TablesInv'
  BY ServiceStopsStep DEF IInv
<1>3. \A i \in DOMAIN s : s[i].sig = "activeConnectRemove"
  BY DEF Signal
<1> HIDE DEF s
<1>4. /\ \A k : ~UpIn(s, k)
      /\ \A j \in DOMAIN s : \A path : ~IsRemove(s[j], path)
  BY <1>3 DEF UpIn, IsUp, IsRemove
<1>5. \A k : ~IsActiveConnection(k)' /\ \A d : ~ActiveOn(k, d)' /\ ~UpOn(k, d)'
  BY <1>1 DEF IsActiveConnection, At, ActiveOn, UpOn
<1>6. UniquePaths' /\ Sole'
  BY <1>1 DEF QueueInv, UniquePaths, Sole
<1>7. Reports(s)
  BY <1>1, <1>2, <1>4, <1>5, <1>6 DEF Reports
<1>8. QED
  BY <1>7 DEF s

LEMMA QueueInit == Init => QueueInv
<1> SUFFICES ASSUME Init PROVE QueueInv
  OBVIOUS
<1>1. /\ UniquePaths /\ DOMAIN feed = {}
      /\ \A i \in DOMAIN active : i = 1
  BY DEF Init, UniquePaths
<1>2. QED
  BY <1>1 DEF QueueInv, Sole, RemovedFirst, UpLast, UpStrong

-----------------------------------------------------------------------------
(* What the lists show, or a queued signal will make them show.            *)

dev == page.m_currentDeviceName

\* The items that came with their signals, and the profiles that are not to be added still.
Mine == DOMAIN A \ (disturbed \cup {Empty})
Rest == DOMAIN I \ disturbed
Firm(c) == c \in DOMAIN profile /\ ~AddIn(feed, c)

\* An item has the path of its profile.
PathKnown ==
  /\ \A c \in Mine : Firm(c) => A[c].path = profile[c].path
  /\ \A c \in Rest : Firm(c) => I[c].path = profile[c].path

\* Before the signal of the connection that is up, each one shown beside it goes.
Behind ==
  up /\ Shown =>
    \A c \in Mine, i \in DOMAIN feed : \A k :
      Firm(c) /\ UpOn(k, dev) /\ k # c /\ Since(feed, i, k)
        => \E j \in DOMAIN feed : j < i /\ IsDown(feed[j], c)

\* Of two that are shown, one is about to leave, or its profile is being replaced.
Gone == up /\ Shown => \A c, k \in Mine : c # k /\ ~Leaving(k) => ~Firm(c)

\* The active list shows what is active, as active, and says so when it shows nothing.
Shows ==
  Shown => \A c \in DOMAIN profile \ disturbed :
             ActiveOn(c, dev) => c \in DOMAIN A \/ UpIn(feed, c)
SaysUp ==
  \A c \in Mine : c \in DOMAIN profile /\ IsActiveConnection(c) /\ A[c].state # "Activated"
                    => UpIn(feed, c)
Placed ==
  Shown => /\ DOMAIN A # {}
           /\ Empty \in DOMAIN A /\ disturbed = {} => \A c \in DOMAIN A \ {Empty} : Leaving(c)

\* The inactive list shows the profiles of the device that are not active, as that.
NotListed ==
  \A c \in Rest : c \in DOMAIN profile /\ IsActiveConnection(c) => UpIn(feed, c)
Fitting == Shown => \A c \in Rest : Firm(c) /\ ~Fits(c, dev) => UpdateIn(feed, c) \/ c \in unmoved
Listed ==
  up /\ Shown =>
    \A c \in DOMAIN profile \ disturbed :
      Fits(c, dev) /\ ~IsStrong(c)
        => c \in DOMAIN I \/ AddIn(feed, c) \/ DownIn(feed, c) \/ UpdateIn(feed, c)
SaysDown ==
  up => \A c \in Rest : c \in DOMAIN profile /\ I[c].state # "Deactivated"
                          => Between(c) \/ AddIn(feed, c) \/ UpIn(feed, c) \/ DownIn(feed, c)

ShowsInv == Behind /\ Gone /\ Shows /\ SaysUp /\ Placed
ListsInv == NotListed /\ Fitting /\ Listed /\ SaysDown
FollowInv == IInv /\ QueueInv /\ PathKnown /\ ShowsInv /\ ListsInv

\* Nothing queued removes the profile under the path it has, until it is added.
LEMMA FirmLeaves ==
  ASSUME FollowInv, NEW c
  PROVE  /\ Firm(c) => \A i \in DOMAIN feed : ~IsRemove(feed[i], profile[c].path)
         /\ c \in Mine /\ Firm(c) /\ Leaving(c) => DownIn(feed, c)
<1>1. Firm(c) => \A i \in DOMAIN feed : ~IsRemove(feed[i], profile[c].path)
  BY DEF FollowInv, QueueInv, RemovedFirst, Firm, AddIn
<1>2. c \in Mine /\ Firm(c) => A[c].path = profile[c].path
  BY DEF FollowInv, PathKnown
<1>3. Leaving(c) => DownIn(feed, c) \/ \E i \in DOMAIN feed : IsRemove(feed[i], A[c].path)
  BY DEF Leaving, DownIn, IsDown, IsRemove, A
<1>4. QED
  BY <1>1, <1>2, <1>3

\* A change that is reported.
LEMMA FollowReported ==
  ASSUME FollowInv, IInv', UNCHANGED pageVars,
         NEW s \in Seq(Message), feed' = feed \o s, Reports(s)
  PROVE  FollowInv'
<1>1. /\ A' = A /\ I' = I /\ page' = page /\ disturbed' = disturbed /\ dev' = dev
      /\ Mine' = Mine /\ Rest' = Rest /\ (Shown' <=> Shown)
      /\ feed \in Seq(Message) /\ (up' => up) /\ unmoved' = unmoved
  BY DEF pageVars, IInv, TablesInv, FeedType, A, I, dev, Mine, Rest, Shown, FollowInv, Reports
<1> DEFINE r == feed \o s
<1>2. feed' = r
  OBVIOUS
<1>3. \A c : /\ AddIn(r, c) <=> AddIn(feed, c) \/ AddIn(s, c)
             /\ UpIn(r, c) <=> UpIn(feed, c) \/ UpIn(s, c)
             /\ DownIn(r, c) <=> DownIn(feed, c) \/ DownIn(s, c)
             /\ UpdateIn(r, c) <=> UpdateIn(feed, c) \/ UpdateIn(s, c)
             /\ \A i \in DOMAIN r : Since(r, i, c) =>
                 \/ i \in DOMAIN feed /\ Since(feed, i, c) /\ ~DownIn(s, c) /\ ~AddIn(s, c)
                 \/ i \in Nat /\ i > Len(feed) /\ i - Len(feed) \in DOMAIN s /\ UpIn(s, c)
  BY <1>1, LongerSignals
<1>4. /\ Len(feed) \in Nat /\ DOMAIN feed = 1..Len(feed)
      /\ \A i \in DOMAIN feed : i \in DOMAIN r /\ r[i] = feed[i]
  BY <1>1, LongerPlaces
<1> HIDE DEF r
<1>5. \A c : Firm(c)' => Firm(c) /\ profile'[c].path = profile[c].path
  BY <1>2, <1>3 DEF Firm, Reports
<1>6. \A c : Leaving(c) => Leaving(c)'
  BY <1>1, <1>2, <1>4 DEF Leaving
<1>7. \A c \in DOMAIN profile' : IsActiveConnection(c)' =>
        c \in DOMAIN profile /\ (IsActiveConnection(c) \/ UpIn(s, c))
  <2>1. SUFFICES ASSUME NEW c \in DOMAIN profile', IsActiveConnection(c)'
                 PROVE  c \in DOMAIN profile /\ (IsActiveConnection(c) \/ UpIn(s, c))
    OBVIOUS
  <2>2. ~AddIn(s, c)
    BY <2>1 DEF Reports, Resets, AddIn
  <2>3. PICK d : ActiveOn(c, d)'
    BY <2>1 DEF IsActiveConnection, At, ActiveOn
  <2>4. QED
    BY <2>1, <2>2, <2>3, OnSomeDevice DEF Reports
<1>8. up' => \A c : IsStrong(c) => IsStrong(c)' \/ DownIn(s, c)
  <2>1. \A c, d : UpOn(c, d)' => IsStrong(c)'
    BY DEF UpOn, IsStrong
  <2>2. QED
    BY <2>1, OnSomeDevice DEF Reports
<1>9. PathKnown'
  BY <1>1, <1>5 DEF FollowInv, PathKnown
<1>10. Behind'
  <2>1. SUFFICES ASSUME up', Shown, NEW c \in Mine, NEW k, NEW i \in DOMAIN r, Firm(c)',
                        UpOn(k, dev)', k # c, Since(r, i, k)
                 PROVE  \E j \in DOMAIN r : j < i /\ IsDown(r[j], c)
    BY <1>1, <1>2 DEF Behind, UpOn, dev
  <2>2. Firm(c) /\ up
    BY <1>1, <1>5, <2>1
  <2>3. CASE UpOn(k, dev) /\ i \in DOMAIN feed /\ Since(feed, i, k)
    <3>1. PICK j \in DOMAIN feed : j < i /\ IsDown(feed[j], c)
      BY <2>1, <2>2, <2>3 DEF FollowInv, ShowsInv, Behind
    <3>2. QED
      BY <1>4, <3>1
  <2>4. CASE UpIn(s, k)
    <3>1. ~IsStrong(k) /\ k \in DOMAIN profile /\ ~DownIn(s, c)
      BY <2>4 DEF Reports
    <3>2. ~UpOn(c, dev)'
      <4>1. TablesInv'
        BY DEF Reports
      <4>2. QED
        BY <2>1, <4>1 DEF UpOn, TablesInv, OneUp
    <3>3. ~UpOn(c, dev)
      BY <1>1, <2>1, <3>1, <3>2 DEF Reports
    <3>4. Leaving(c)
      BY <2>1, <2>2, <3>3 DEF FollowInv, IInv, ShownInv, AllUp, Mine, dev
    <3>5. PICK j \in DOMAIN feed : IsDown(feed[j], c)
      BY <2>1, <2>2, <3>4, FirmLeaves DEF DownIn
    <3>6. ~(i \in DOMAIN feed /\ Since(feed, i, k))
      BY <2>2, <3>1 DEF FollowInv, QueueInv, UpStrong
    <3>7. i > Len(feed) /\ i \in Nat
      BY <1>3, <2>1, <3>6
    <3>8. QED
      BY <1>4, <3>5, <3>7
  <2>5. QED
    BY <1>1, <1>3, <2>1, <2>3, <2>4 DEF Reports
<1>11. Gone'
  <2>1. \A c : ~Leaving(c)' => ~Leaving(c)
    BY <1>6
  <2>2. \A c : ~Firm(c) => ~Firm(c)'
    BY <1>5
  <2>3. QED
    BY <1>1, <2>1, <2>2 DEF FollowInv, ShowsInv, Gone
<1>12. Shows'
  <2>1. SUFFICES ASSUME Shown, NEW c \in DOMAIN profile' \ disturbed, ActiveOn(c, dev)'
                 PROVE  c \in DOMAIN A \/ UpIn(r, c)
    BY <1>1, <1>2 DEF Shows, ActiveOn, dev, UpIn
  <2>2. IsActiveConnection(c)'
    BY <2>1 DEF IsActiveConnection, At, ActiveOn
  <2>3. c \in DOMAIN profile
    BY <1>7, <2>1, <2>2
  <2>4. ActiveOn(c, dev) \/ UpIn(s, c)
    BY <1>1, <2>1 DEF Reports
  <2>5. QED
    BY <1>3, <2>1, <2>3, <2>4 DEF FollowInv, ShowsInv, Shows
<1>13. SaysUp' /\ NotListed'
  BY <1>1, <1>2, <1>3, <1>7 DEF FollowInv, ShowsInv, ListsInv, SaysUp, NotListed
<1>14. Placed'
  BY <1>1, <1>6 DEF FollowInv, ShowsInv, Placed
<1>15. Fitting'
  <2>1. SUFFICES ASSUME Shown, NEW c \in Rest, Firm(c)', ~Fits(c, dev)'
                 PROVE  UpdateIn(r, c) \/ c \in unmoved
    BY <1>1, <1>2 DEF Fitting, Fits, dev
  <2>2. Firm(c) /\ (profile'[c].iface = profile[c].iface \/ UpdateIn(s, c))
    BY <1>2, <1>3, <1>5, <2>1 DEF Firm, Reports
  <2>3. profile'[c].iface = profile[c].iface => ~Fits(c, dev)
    BY <1>1, <2>1 DEF Fits
  <2>4. QED
    BY <1>3, <2>1, <2>2, <2>3 DEF FollowInv, ListsInv, Fitting
<1>16. Listed'
  <2>1. SUFFICES ASSUME up', Shown, NEW c \in DOMAIN profile' \ disturbed, Fits(c, dev)',
                        ~IsStrong(c)', c \notin DOMAIN I, ~AddIn(r, c), ~DownIn(r, c), ~UpdateIn(r, c)
                 PROVE  FALSE
    BY <1>1, <1>2 DEF Listed, Fits, dev, IsStrong, AddIn, DownIn, UpdateIn
  <2>2. c \in DOMAIN profile /\ profile'[c].iface = profile[c].iface
    BY <1>3, <2>1 DEF Reports
  <2>3. Fits(c, dev)
    BY <1>1, <2>1, <2>2 DEF Fits
  <2>4. ~IsStrong(c)
    BY <1>3, <1>8, <2>1
  <2>5. QED
    BY <1>1, <1>3, <2>1, <2>2, <2>3, <2>4 DEF FollowInv, ListsInv, Listed
<1>17. SaysDown'
  <2>1. SUFFICES ASSUME up', NEW c \in Rest, c \in DOMAIN profile', I[c].state # "Deactivated"
                 PROVE  Between(c)' \/ AddIn(r, c) \/ UpIn(r, c) \/ DownIn(r, c)
    BY <1>1, <1>2 DEF SaysDown, Between, At, AddIn, UpIn, DownIn
  <2>2. c \in DOMAIN profile \/ AddIn(s, c)
    BY <2>1 DEF Reports
  <2>3. CASE c \in DOMAIN profile
    <3>1. Between(c) \/ AddIn(feed, c) \/ UpIn(feed, c) \/ DownIn(feed, c)
      BY <1>1, <2>1, <2>3 DEF FollowInv, ListsInv, SaysDown
    <3>2. Between(c) => Between(c)' \/ UpIn(s, c) \/ DownIn(s, c)
      BY <2>1 DEF Reports
    <3>3. QED
      BY <1>3, <3>1, <3>2
  <2>4. QED
    BY <1>3, <2>2, <2>3
<1>18. QueueInv'
  BY QueueReported DEF FollowInv
<1>19. QED
  BY <1>9, <1>10, <1>11, <1>12, <1>13, <1>14, <1>15, <1>16, <1>17, <1>18 DEF FollowInv, ShowsInv, ListsInv

\* The lists as the page draws them.
LEMMA AreaItems ==
  ASSUME TablesInv, NEW d \in Device
  PROVE  LET m == ConstructActiveConnectionArea(d)
             n == ConstructConnectionArea(d)
         IN /\ DOMAIN m # {} /\ (Empty \in DOMAIN m => DOMAIN m = {Empty})
            /\ \A c \in DOMAIN m \ {Empty} : m[c].state = "Activated"
            /\ \A c : ActiveOn(c, d) => c \in DOMAIN m
            /\ \A c : c \in DOMAIN n <=> c \in DOMAIN profile /\ Fits(c, d) /\ ~IsActiveConnection(c)
            /\ \A c \in DOMAIN n : n[c].state # "Deactivated" => Between(c)
<1> DEFINE list == GetActiveConnectionList(d)
           item(c) == CHOOSE ac \in list : ac.conn = c
           conns == {ac.conn : ac \in list}
           on == [c \in conns |-> [path |-> item(c).path, state |-> "Activated"]]
           m == ConstructActiveConnectionArea(d)
           n == ConstructConnectionArea(d)
<1>1. /\ \A c : ActiveOn(c, d) => c \in conns
      /\ conns \subseteq Conn
  <2>1. \A i \in DOMAIN active : active[i] \in ActiveConnection
    BY DEF TablesInv, FeedType
  <2>2. \A ac \in list : ac \in ActiveConnection
    BY <2>1 DEF GetActiveConnectionList
  <2>3. \A c : ActiveOn(c, d) => c \in conns
    BY DEF GetActiveConnectionList, ActiveOn
  <2>4. QED
    BY <2>2, <2>3 DEF ActiveConnection
<1>2. m = OrPlaceholder(on)
  BY DEF ConstructActiveConnectionArea
<1>3. DOMAIN on = conns /\ \A c \in conns : on[c].state = "Activated"
  OBVIOUS
<1> HIDE DEF on, conns, m
<1>4. /\ DOMAIN m # {} /\ (Empty \in DOMAIN m => DOMAIN m = {Empty})
      /\ \A c \in DOMAIN m \ {Empty} : m[c].state = "Activated"
      /\ \A c : ActiveOn(c, d) => c \in DOMAIN m
  BY <1>1, <1>2, <1>3, ConnectionAssumption DEF OrPlaceholder, Placeholder
<1>5. \A c : c \in DOMAIN n <=> c \in DOMAIN profile /\ Fits(c, d) /\ ~IsActiveConnection(c)
  BY DEF ConstructConnectionArea, GetConnectionList
<1>6. \A c \in DOMAIN n : n[c].state # "Deactivated" => Between(c)
  BY DEF ConstructConnectionArea, GetConnectionItem, IsActivatingConnection, At, Between
<1>7. QED
  BY <1>4, <1>5, <1>6 DEF m

LEMMA FollowDrawn == JustDrawn /\ QueueInv => FollowInv
<1> SUFFICES ASSUME JustDrawn, QueueInv PROVE FollowInv
  OBVIOUS
<1>1. IInv /\ TablesInv /\ dev \in Device /\ feed \in Seq(Message)
  BY JustDrawnInv DEF JustDrawn, TablesInv, FeedType, dev
<1>2. /\ A = ConstructActiveConnectionArea(dev) /\ I = ConstructConnectionArea(dev)
  BY DEF JustDrawn, dev
<1>3. /\ \A c \in DOMAIN A \ {Empty} :
           \E i \in DOMAIN active :
             /\ active[i].conn = c /\ active[i].state = "Activated"
             /\ active[i].dev = dev /\ active[i].path = A[c].path
      /\ \A c \in DOMAIN I : c \in DOMAIN profile /\ I[c].path = profile[c].path
  BY <1>1, <1>2, AreaProperties
<1>4. /\ DOMAIN A # {} /\ (Empty \in DOMAIN A => DOMAIN A = {Empty})
      /\ \A c \in DOMAIN A \ {Empty} : A[c].state = "Activated"
      /\ \A c : ActiveOn(c, dev) => c \in DOMAIN A
      /\ \A c : c \in DOMAIN I <=> c \in DOMAIN profile /\ Fits(c, dev) /\ ~IsActiveConnection(c)
      /\ \A c \in DOMAIN I : I[c].state # "Deactivated" => Between(c)
  BY <1>1, <1>2, AreaItems
<1>5. PathKnown
  BY <1>1, <1>3 DEF PathKnown, Firm, Mine, Rest, TablesInv, PathsInv
<1>6. \A c \in Mine : UpOn(c, dev)
  BY <1>3 DEF Mine, UpOn, Strong
<1>7. \A c, k : UpOn(c, dev) /\ UpOn(k, dev) => c = k
  BY <1>1 DEF UpOn, TablesInv, OneUp
<1>8. Behind /\ Gone
  BY <1>6, <1>7 DEF Behind, Gone
<1>9. Shows /\ SaysUp /\ Placed
  BY <1>4 DEF Shows, SaysUp, Placed, Mine
<1>10. NotListed /\ Fitting /\ SaysDown
  BY <1>4 DEF NotListed, Fitting, SaysDown, Rest
<1>11. Listed
  BY <1>4 DEF Listed, IsStrong, IsActiveConnection, At, Strong
<1>12. QED
  BY <1>1, <1>5, <1>8, <1>9, <1>10, <1>11 DEF FollowInv, ShowsInv, ListsInv

LEMMA FollowRedraw ==
  ASSUME FollowInv, IInv', NEW d \in Device \cup {AnyIface}, NEW on \in BOOLEAN, NEW listed \in BOOLEAN,
         Redraw(d, on, listed)
  PROVE  FollowInv'
<1> DEFINE p == [page EXCEPT !.m_currentDeviceName = d, !.on = on, !.listed = listed]
<1>1. /\ page' = InitLanArea(p) /\ page \in Page /\ TablesInv /\ TablesInv'
      /\ profile' = profile /\ active' = active /\ up' = up /\ feed' = feed
  BY DEF Redraw, manager, IInv, FollowInv
<1>2. /\ p \in Page /\ p.m_currentDeviceName = d /\ p.on = on
      /\ p.m_activeConnectionMap = A /\ p.m_inactiveConnectionMap = I
  BY <1>1 DEF Page, A, I
<1> HIDE DEF p
<1>3. QueueInv'
  BY <1>1 DEF FollowInv, QueueInv, UniquePaths, Sole, RemovedFirst, UpLast, UpStrong, IsStrong,
         Strong, IsActiveConnection, At
<1>4. CASE on /\ d # AnyIface
  <2>1. page' = [p EXCEPT !.m_activeConnectionMap   = ConstructActiveConnectionArea(d),
                          !.m_inactiveConnectionMap = ConstructConnectionArea(d)]
    BY <1>1, <1>2, <1>4 DEF InitLanArea
  <2>2. /\ ConstructActiveConnectionArea(d) \in Maps(Keys)
        /\ ConstructConnectionArea(d) \in Maps(Conn)
    BY <1>1, <1>4, AreaProperties
  <2>3. /\ page' \in Page /\ page'.m_currentDeviceName = d
        /\ A' = ConstructActiveConnectionArea(d) /\ I' = ConstructConnectionArea(d)
    BY <1>2, <2>1, <2>2 DEF Page, A, I
  <2>4. /\ ConstructActiveConnectionArea(page.m_currentDeviceName)'
             = ConstructActiveConnectionArea(d)
        /\ ConstructConnectionArea(page.m_currentDeviceName)' = ConstructConnectionArea(d)
    BY <1>1, <2>3 DEF ConstructActiveConnectionArea, GetActiveConnectionList,
         ConstructConnectionArea, GetConnectionList, GetConnectionItem, GetActiveConnect, Fits,
         IsActiveConnection, IsActivatingConnection, At
  <2>5. /\ Announced(feed)' \subseteq disturbed'
        /\ \A i \in DOMAIN active' : active'[i].conn \in DOMAIN profile' \cup disturbed'
    BY <1>1, <1>4 DEF Redraw, Announced
  <2>6. JustDrawn'
    BY <1>1, <1>4, <2>3, <2>4, <2>5 DEF JustDrawn
  <2>7. (JustDrawn /\ QueueInv => FollowInv)'
    BY FollowDrawn, PTL
  <2>8. QED
    BY <1>3, <2>6, <2>7
<1>5. CASE ~on \/ d = AnyIface
  <2>1. page' = p /\ disturbed' = disturbed
    BY <1>1, <1>2, <1>5 DEF InitLanArea, Redraw
  <2>2. A' = A /\ I' = I /\ ~Shown'
    BY <1>2, <1>5, <2>1 DEF A, I, Shown
  <2>3. \A c : /\ Firm(c)' <=> Firm(c)
               /\ IsActiveConnection(c)' <=> IsActiveConnection(c)
               /\ Between(c)' <=> Between(c)
    BY <1>1 DEF Firm, AddIn, IsActiveConnection, At, Between
  <2>4. PathKnown' /\ SaysUp'
    BY <1>1, <2>1, <2>2, <2>3 DEF FollowInv, ShowsInv, PathKnown, SaysUp, Mine, Rest, UpIn
  <2>5. NotListed' /\ SaysDown'
    BY <1>1, <2>1, <2>2, <2>3 DEF FollowInv, ListsInv, NotListed, SaysDown, Rest, UpIn, DownIn, AddIn
  <2>6. Behind' /\ Gone' /\ Shows' /\ Placed' /\ Fitting' /\ Listed'
    BY <2>2 DEF Behind, Gone, Shows, Placed, Fitting, Listed
  <2>7. QED
    BY <1>3, <2>4, <2>5, <2>6 DEF FollowInv, ShowsInv, ListsInv
<1>6. QED BY <1>4, <1>5

LEMMA FollowSetDefault ==
  ASSUME FollowInv, IInv', NEW d \in Device, SetDefaultWiredDevice(d) PROVE FollowInv'
<1>1. /\ page' = [page EXCEPT !.m_currentDeviceName = d] /\ page \in Page /\ undrawn' = TRUE
      /\ profile' = profile /\ active' = active /\ up' = up /\ feed' = feed
      /\ disturbed' = disturbed
  BY DEF SetDefaultWiredDevice, manager, IInv, FollowInv
<1>2. A' = A /\ I' = I /\ ~Shown'
  BY <1>1 DEF Page, A, I, Shown
<1>3. QueueInv'
  BY <1>1 DEF FollowInv, QueueInv, UniquePaths, Sole, RemovedFirst, UpLast, UpStrong, IsStrong,
         Strong, IsActiveConnection, At
<1>4. \A c : /\ Firm(c)' <=> Firm(c)
             /\ IsActiveConnection(c)' <=> IsActiveConnection(c)
             /\ Between(c)' <=> Between(c)
  BY <1>1 DEF Firm, AddIn, IsActiveConnection, At, Between
<1>5. PathKnown' /\ SaysUp'
  BY <1>1, <1>2, <1>4 DEF FollowInv, ShowsInv, PathKnown, SaysUp, Mine, Rest, UpIn
<1>6. NotListed' /\ SaysDown'
  BY <1>1, <1>2, <1>4 DEF FollowInv, ListsInv, NotListed, SaysDown, Rest, UpIn, DownIn, AddIn
<1>7. Behind' /\ Gone' /\ Shows' /\ Placed' /\ Fitting' /\ Listed'
  BY <1>2 DEF Behind, Gone, Shows, Placed, Fitting, Listed
<1>8. QED
  BY <1>3, <1>5, <1>6, <1>7 DEF FollowInv, ShowsInv, ListsInv

LEMMA FollowReturns ==
  ASSUME FollowInv, IInv', ServiceReturns PROVE FollowInv'
<1>1. /\ active' = active /\ feed' = feed /\ profile' = profile /\ DOMAIN profile = {}
      /\ page' = page /\ disturbed' = disturbed /\ A' = A /\ I' = I /\ undrawn' = undrawn
      /\ TablesInv' /\ DOMAIN profile' = {}
  BY DEF ServiceReturns, pageVars, A, I, IInv
<1>2. QueueInv'
  <2>1. UpLast' /\ Sole'
    BY <1>1 DEF FollowInv, QueueInv, UpLast, Sole, Strong, IsActiveConnection, At
  <2>2. QED
    BY <1>1, <2>1 DEF QueueInv, UniquePaths, RemovedFirst, UpStrong
<1>3. \A c : ~Firm(c)'
  BY <1>1 DEF Firm
<1>4. Placed'
  BY <1>1 DEF FollowInv, ShowsInv, Placed, Shown, Leaving
<1>5. QED
  BY <1>1, <1>2, <1>3, <1>4 DEF FollowInv, PathKnown, ShowsInv, ListsInv, Behind, Gone, Shows, SaysUp,
    NotListed, Fitting, Listed, SaysDown

LEMMA FollowInit == Init => FollowInv
<1> SUFFICES ASSUME Init PROVE FollowInv
  OBVIOUS
<1>1. QueueInv /\ JustDrawn
  BY QueueInit, InitDrawn
<1>2. QED
  BY <1>1, FollowDrawn

-----------------------------------------------------------------------------
(* What each handler does to the items of a profile, and to "not connected". *)

\* The active list's item.
ShowEffect(c) ==
  /\ c \in DOMAIN A' \ DOMAIN A => IsUp(Msg, c) /\ c \in DOMAIN profile /\ ActiveOn(c, dev)
  /\ c \in DOMAIN A \ DOMAIN A' =>
       \/ IsDown(Msg, c) \/ IsRemove(Msg, A[c].path)
       \/ IsActiveConnection(c) /\ ~ActiveOn(c, dev)
  /\ c \in DOMAIN A' =>
       \/ A'[c].state = "Activated" \/ Resets(Msg, c)
       \/ /\ c \in DOMAIN A /\ A'[c].state = A[c].state
          /\ ~(IsUp(Msg, c) /\ c \in DOMAIN profile /\ IsActiveConnection(c))
  /\ IsUp(Msg, c) /\ c \in DOMAIN profile /\ ActiveOn(c, dev) => c \in DOMAIN A'
  /\ IsDown(Msg, c) /\ c \in DOMAIN profile => c \notin DOMAIN A'

\* The inactive list's item.
ListEffect(c) ==
  /\ c \in DOMAIN I' \ DOMAIN I =>
       c \in DOMAIN profile /\ Fits(c, dev) /\ (IsDown(Msg, c) \/ ~IsActiveConnection(c))
  /\ c \in DOMAIN I \ DOMAIN I' =>
       \/ IsRemove(Msg, I[c].path) \/ IsActiveConnection(c)
       \/ c \in DOMAIN profile /\ ~Fits(c, dev)
  /\ c \in DOMAIN I' =>
       \/ I'[c].state = "Deactivated" \/ IsActivatingConnection(c)
       \/ /\ c \in DOMAIN I /\ I'[c].state = I[c].state
          /\ ~(IsDown(Msg, c) /\ c \in DOMAIN profile)
  /\ c \in DOMAIN profile =>
       /\ IsUp(Msg, c) /\ IsActiveConnection(c) => c \notin DOMAIN I'
       /\ IsUpdate(Msg, c) /\ c \in DOMAIN I' => Fits(c, dev) \/ c \in FoundActive
       /\ Fits(c, dev) /\ ~IsStrong(c) =>
            /\ IsAdd(Msg, c) \/ IsDown(Msg, c) => c \in DOMAIN I'
            /\ IsUpdate(Msg, c) => c \in DOMAIN I' \/ c \in DOMAIN A

\* "Not connected" comes beside another item only when the one of a profile that is
\* active on another device goes.
PlaceEffect ==
  /\ DOMAIN A # {} => DOMAIN A' # {}
  /\ Empty \in DOMAIN A' /\ DOMAIN A' # {Empty} =>
       /\ DOMAIN A' \ {Empty} \subseteq DOMAIN A
       /\ \/ Empty \in DOMAIN A
          \/ \E x \in DOMAIN A \cap DOMAIN profile :
               /\ IsUpdate(Msg, x) /\ IsActiveConnection(x) /\ x \notin DOMAIN A'
               /\ x \in disturbed' \/ ~AddIn(Tail(feed), x)

Effects == PlaceEffect /\ \A c \in Conn \ disturbed' : ShowEffect(c) /\ ListEffect(c)

\* Whatever does that to them keeps what the lists show, or will show.
LEMMA FollowHandled ==
  ASSUME FollowInv, IInv', feed # <<>>, feed' = Tail(feed), UNCHANGED manager,
         Handled(page', disturbed'), Effects, Remembered
  PROVE  FollowInv'
<1> DEFINE t == Tail(feed)
<1>1. /\ IInv /\ TablesInv /\ FeedType /\ feed \in Seq(Message) /\ page \in Page
      /\ profile' = profile /\ active' = active /\ up' = up /\ feed' = t
      /\ page' \in Page /\ dev' = dev /\ (Shown' <=> Shown) /\ disturbed \subseteq disturbed'
  BY DEF FollowInv, IInv, TablesInv, FeedType, manager, Handled, dev, Shown, Remembered
<1>2. \A c : /\ AddIn(feed, c) <=> IsAdd(Msg, c) \/ AddIn(t, c)
             /\ UpIn(feed, c) <=> IsUp(Msg, c) \/ UpIn(t, c)
             /\ DownIn(feed, c) <=> IsDown(Msg, c) \/ DownIn(t, c)
             /\ UpdateIn(feed, c) <=> IsUpdate(Msg, c) \/ UpdateIn(t, c)
             /\ \A i \in DOMAIN t : Since(t, i, c) => i + 1 \in DOMAIN feed /\ Since(feed, i + 1, c)
  BY <1>1, TailSignals DEF Msg
<1>3. /\ Len(feed) \in Nat \ {0} /\ Msg = feed[1] /\ 1 \in DOMAIN feed /\ DOMAIN feed = 1..Len(feed)
      /\ \A i \in DOMAIN feed : i # 1 => i - 1 \in DOMAIN t /\ t[i - 1] = feed[i]
      /\ \A i \in DOMAIN t : i \in Nat
  BY <1>1, TailPlaces DEF Msg
<1>4. \A path, c :
        /\ Known(feed, path, c) => ~IsAdd(Msg, c)
        /\ LeavesIn(feed, path, c) /\ ~IsRemove(Msg, path) /\ ~IsDown(Msg, c)
             => LeavesIn(t, path, c)
        /\ Known(feed, path, c) /\ c \notin DOMAIN profile /\ ~IsRemove(Msg, path)
             => LeavesIn(t, path, c)
  BY <1>1, TailQueue DEF Msg
<1>5. /\ Mine \subseteq Conn \ disturbed /\ Rest \subseteq Conn \ disturbed
      /\ Mine' = DOMAIN A' \ (disturbed' \cup {Empty}) /\ Rest' = DOMAIN I' \ disturbed'
      /\ Mine' \subseteq Conn \ disturbed' /\ Rest' \subseteq Conn \ disturbed'
  <2>1. DOMAIN A' \subseteq Keys /\ DOMAIN I' \subseteq Conn
    BY <1>1, MapsProperties DEF Page, A, I
  <2>2. QED
    BY <1>1, <2>1, PageFields DEF Keys, Mine, Rest
<1>6. \A c : /\ Firm(c)' <=> c \in DOMAIN profile /\ ~AddIn(t, c)
             /\ Firm(c)' /\ c \in Mine \cup Rest => Firm(c)
             /\ (UpOn(c, dev)' <=> UpOn(c, dev)) /\ (IsStrong(c)' <=> IsStrong(c))
             /\ (IsActiveConnection(c)' <=> IsActiveConnection(c))
             /\ (ActiveOn(c, dev)' <=> ActiveOn(c, dev)) /\ (Fits(c, dev)' <=> Fits(c, dev))
             /\ (Between(c)' <=> Between(c))
             /\ Leaving(c) <=> LeavesIn(feed, A[c].path, c)
             /\ Leaving(c)' <=> LeavesIn(t, A'[c].path, c)
  <2>1. \A c : Firm(c)' <=> c \in DOMAIN profile /\ ~AddIn(t, c)
    BY <1>1 DEF Firm, AddIn
  <2>2. \A c \in Mine \cup Rest : ~IsAdd(Msg, c)
    BY <1>1, <1>4 DEF IInv, KnownInv, Mine, Rest
  <2>3. \A c : (UpOn(c, dev)' <=> UpOn(c, dev)) /\ (IsStrong(c)' <=> IsStrong(c))
             /\ (IsActiveConnection(c)' <=> IsActiveConnection(c))
             /\ (ActiveOn(c, dev)' <=> ActiveOn(c, dev)) /\ (Fits(c, dev)' <=> Fits(c, dev))
             /\ (Between(c)' <=> Between(c))
    BY <1>1 DEF UpOn, IsStrong, Strong, IsActiveConnection, At, ActiveOn, Fits, Between
  <2>4. \A c : /\ Leaving(c) <=> LeavesIn(feed, A[c].path, c)
               /\ Leaving(c)' <=> LeavesIn(t, A'[c].path, c)
    BY <1>1 DEF Leaving, LeavesIn, IsDown, IsRemove, A
  <2>5. QED
    BY <1>2, <2>1, <2>2, <2>3, <2>4 DEF Firm
\* An item that stays about to leave.
<1>7. ASSUME NEW c \in Mine', c \in Mine, Leaving(c) PROVE Leaving(c)'
  <2>1. CASE ShownBefore(page', c)
    <3>1. /\ Known(feed, A[c].path, c) /\ A'[c].path = A[c].path /\ ~IsRemove(Msg, A[c].path)
          /\ IsDown(Msg, c) => c \notin DOMAIN profile
      BY <1>1, <1>7, <2>1 DEF ShownBefore, IInv, KnownInv, A, Mine
    <3>2. QED
      BY <1>4, <1>6, <1>7, <3>1
  <2>2. CASE ShownNow(page', c)
    <3>1. c \in DOMAIN profile /\ ~AddIn(t, c)
      BY <1>1, <2>2, TailQueue, AnnouncedProperties DEF ShownNow, AddIn
    <3>2. DownIn(feed, c)
      BY <1>6, <1>7, <3>1, FirmLeaves
    <3>3. ~IsDown(Msg, c)
      BY <1>5, <1>7, <3>1 DEF Effects, ShowEffect
    <3>4. DownIn(t, c)
      BY <1>2, <3>2, <3>3
    <3>5. QED
      BY <1>6, <3>4 DEF DownIn, LeavesIn
  <2>3. QED
    BY <1>5, <1>7, <2>1, <2>2 DEF Handled, A
<1>8. \A c, k : UpOn(c, dev) /\ UpOn(k, dev) => c = k
  BY <1>1 DEF UpOn, TablesInv, OneUp
<1>9. \A c : ActiveOn(c, dev) => UpOn(c, dev) /\ IsActiveConnection(c)
  BY OnSomeDevice
\* A connection that is up was said to be after its item was reset.
<1>10. ASSUME NEW c, IsActiveConnection(c), Resets(Msg, c) \/ AddIn(feed, c) PROVE UpIn(t, c)
  <2>1. PICK i \in DOMAIN feed : Resets(feed[i], c)
    BY <1>3, <1>10 DEF AddIn, Resets
  <2>2. PICK j \in DOMAIN feed : j > i /\ IsUp(feed[j], c)
    BY <1>10, <2>1 DEF FollowInv, QueueInv, UpLast
  <2>3. j - 1 \in DOMAIN t /\ t[j - 1] = feed[j]
    BY <1>3, <2>2
  <2>4. QED
    BY <2>2, <2>3 DEF UpIn
<1>11. \A c \in DOMAIN profile :
         /\ c \in Mine /\ IsRemove(Msg, A[c].path) => AddIn(t, c)
         /\ c \in Rest /\ IsRemove(Msg, I[c].path) => AddIn(t, c)
  <2>1. SUFFICES ASSUME NEW c \in DOMAIN profile,
                        \/ c \in Mine /\ IsRemove(Msg, A[c].path)
                        \/ c \in Rest /\ IsRemove(Msg, I[c].path)
                 PROVE  AddIn(t, c)
    OBVIOUS
  <2>2. ~Firm(c)
    BY <1>3, <2>1, FirmLeaves DEF FollowInv, PathKnown
  <2>3. AddIn(feed, c) /\ ~IsAdd(Msg, c)
    BY <2>1, <2>2 DEF Firm, IsAdd, IsRemove
  <2>4. QED
    BY <1>2, <2>3
\* Nothing queued takes back the activation that the head tells of.
<1>12. ASSUME NEW c, IsUp(Msg, c), ~AddIn(t, c), ~DownIn(t, c) PROVE Since(feed, 1, c)
  <2>1. ASSUME NEW j \in DOMAIN feed, j > 1 PROVE ~IsDown(feed[j], c) /\ ~IsAdd(feed[j], c)
    <3>1. j - 1 \in DOMAIN t /\ t[j - 1] = feed[j]
      BY <1>3, <2>1
    <3>2. QED
      BY <1>12, <3>1 DEF AddIn, DownIn
  <2>2. QED
    BY <1>3, <1>12, <2>1 DEF Since
<1> HIDE DEF t
<1>13. PathKnown'
  <2>1. ASSUME NEW c \in Mine', Firm(c)' PROVE A'[c].path = profile[c].path
    <3>1. CASE ShownBefore(page', c)
      BY <1>1, <1>5, <1>6, <2>1, <3>1 DEF ShownBefore, FollowInv, PathKnown, A, Mine
    <3>2. CASE ShownNow(page', c)
      BY <1>1, <3>2 DEF ShownNow, TablesInv, PathsInv, A
    <3>3. QED
      BY <1>5, <3>1, <3>2 DEF Handled, A
  <2>2. ASSUME NEW c \in Rest', Firm(c)' PROVE I'[c].path = profile[c].path
    <3>1. CASE ListedBefore(page', c)
      BY <1>1, <1>5, <1>6, <2>2, <3>1 DEF ListedBefore, FollowInv, PathKnown, I, Rest
    <3>2. CASE ListedNow(page', c)
      BY <3>2 DEF ListedNow, I
    <3>3. QED
      BY <1>5, <3>1, <3>2 DEF Handled, I
  <2>3. QED
    BY <1>1, <2>1, <2>2 DEF PathKnown
<1>14. \A c \in Conn \ disturbed' : ShowEffect(c) /\ ListEffect(c)
  BY DEF Effects
<1>15. ASSUME NEW c \in Mine', c \notin Mine
       PROVE  IsUp(Msg, c) /\ c \in DOMAIN profile /\ ActiveOn(c, dev) /\ UpOn(c, dev) /\ ~AddIn(t, c)
  <2>1. c \notin DOMAIN A /\ c \in DOMAIN A'
    BY <1>1, <1>5, <1>15 DEF Mine
  <2>2. ShownNow(page', c)
    BY <1>5, <1>15, <2>1 DEF Handled, ShownBefore, A
  <2>3. ~AddIn(t, c)
    BY <1>1, <2>2, TailQueue, AnnouncedProperties DEF ShownNow, AddIn, t
  <2>4. QED
    BY <1>5, <1>9, <1>14, <1>15, <2>1, <2>3 DEF ShowEffect
<1>16. \A c \in Mine' : c \in Mine /\ Shown /\ up => Leaving(c) \/ UpOn(c, dev)
  BY <1>1 DEF IInv, ShownInv, AllUp, Mine, dev
<1>17. Behind'
  <2>1. SUFFICES ASSUME up', Shown', NEW c \in Mine', NEW k, NEW i \in DOMAIN t, Firm(c)',
                        UpOn(k, dev)', k # c, Since(t, i, k)
                 PROVE  \E j \in DOMAIN t : j < i /\ IsDown(t[j], c)
    BY <1>1 DEF Behind, UpOn, dev
  <2>2. up /\ Shown /\ UpOn(k, dev) /\ c \in DOMAIN profile
    BY <1>1, <1>6, <2>1
  <2>3. c \in Mine
    BY <1>8, <1>15, <2>1, <2>2
  <2>4. Firm(c) /\ i + 1 \in DOMAIN feed /\ Since(feed, i + 1, k)
    BY <1>2, <1>6, <2>1, <2>3
  <2>5. PICK j \in DOMAIN feed : j < i + 1 /\ IsDown(feed[j], c)
    BY <2>1, <2>2, <2>3, <2>4 DEF FollowInv, ShowsInv, Behind
  <2>6. j # 1
    BY <1>3, <1>5, <1>14, <2>1, <2>2, <2>5 DEF ShowEffect
  <2>7. j - 1 \in DOMAIN t /\ t[j - 1] = feed[j] /\ j - 1 < i
    BY <1>3, <2>5, <2>6
  <2>8. QED
    BY <2>5, <2>7
<1>18. Gone'
  <2>1. SUFFICES ASSUME up', Shown', NEW c \in Mine', NEW k \in Mine', c # k, ~Leaving(k)', Firm(c)'
                 PROVE  FALSE
    BY DEF Gone
  <2>2. up /\ Shown /\ c \in DOMAIN profile
    BY <1>1, <1>6, <2>1
  <2>3. k \in Mine => ~Leaving(k) /\ UpOn(k, dev)
    BY <1>7, <1>16, <2>1, <2>2
  <2>4. CASE c \in Mine /\ k \in Mine
    BY <1>6, <2>1, <2>2, <2>3, <2>4 DEF FollowInv, ShowsInv, Gone
  <2>5. CASE c \in Mine /\ k \notin Mine
    <3>1. ~DownIn(t, k)
      BY <1>6, <2>1 DEF DownIn, LeavesIn, t
    <3>2. Since(feed, 1, k) /\ UpOn(k, dev)
      BY <1>12, <1>15, <2>5, <3>1
    <3>3. PICK j \in DOMAIN feed : j < 1
      BY <1>3, <1>6, <2>1, <2>2, <2>5, <3>2 DEF FollowInv, ShowsInv, Behind
    <3>4. QED
      BY <1>3, <3>3
  <2>6. CASE c \notin Mine
    BY <1>8, <1>15, <2>1, <2>3, <2>6
  <2>7. QED
    BY <2>4, <2>5, <2>6
<1>19. Shows'
  <2>1. SUFFICES ASSUME Shown', NEW c \in DOMAIN profile \ disturbed', ActiveOn(c, dev)'
                 PROVE  c \in DOMAIN A' \/ UpIn(t, c)
    BY <1>1 DEF Shows, ActiveOn, dev, UpIn
  <2>2. /\ c \in Conn \ disturbed' /\ c \notin disturbed /\ c # Empty
        /\ ActiveOn(c, dev) /\ IsActiveConnection(c) /\ Shown
    BY <1>1, <1>6, <1>9, <2>1, ConnectionAssumption DEF FeedType
  <2>3. ShowEffect(c)
    BY <1>14, <2>2
  <2>4. CASE UpIn(feed, c)
    BY <1>2, <2>1, <2>2, <2>3, <2>4 DEF ShowEffect
  <2>5. CASE c \in DOMAIN A
    <3>1. CASE IsDown(Msg, c)
      BY <1>10, <2>2, <3>1 DEF Resets, IsDown
    <3>2. CASE IsRemove(Msg, A[c].path)
      <4>1. c \in Mine /\ c \in DOMAIN profile
        BY <2>1, <2>2, <2>5 DEF Mine
      <4>2. AddIn(t, c)
        BY <1>11, <3>2, <4>1
      <4>3. QED
        BY <1>2, <1>10, <2>2, <4>2
    <3>3. QED
      BY <2>2, <2>3, <2>5, <3>1, <3>2 DEF ShowEffect
  <2>6. QED
    BY <2>1, <2>2, <2>4, <2>5 DEF FollowInv, ShowsInv, Shows
<1>20. SaysUp'
  <2>1. SUFFICES ASSUME NEW c \in Mine', c \in DOMAIN profile, IsActiveConnection(c)',
                        A'[c].state # "Activated"
                 PROVE  UpIn(t, c)
    BY <1>1 DEF SaysUp, UpIn
  <2>2. IsActiveConnection(c) /\ ShowEffect(c)
    BY <1>5, <1>6, <1>14, <2>1
  <2>3. CASE Resets(Msg, c)
    BY <1>10, <2>2, <2>3
  <2>4. CASE c \in DOMAIN A /\ A'[c].state = A[c].state /\ ~IsUp(Msg, c)
    <3>1. c \in Mine
      BY <1>1, <1>5, <2>1, <2>4 DEF Mine
    <3>2. QED
      BY <1>2, <2>1, <2>2, <2>4, <3>1 DEF FollowInv, ShowsInv, SaysUp
  <2>5. QED
    BY <1>5, <2>1, <2>2, <2>3, <2>4 DEF ShowEffect
<1>21. Placed'
  <2>1. Shown => DOMAIN A' # {}
    BY DEF Effects, PlaceEffect, FollowInv, ShowsInv, Placed
  <2>2. SUFFICES ASSUME Shown, Empty \in DOMAIN A', disturbed' = {}, NEW c \in DOMAIN A' \ {Empty}
                 PROVE  Leaving(c)'
    BY <1>1, <2>1 DEF Placed
  <2>3. DOMAIN A' \ {Empty} \subseteq DOMAIN A /\ disturbed = {}
    BY <1>1, <2>2 DEF Effects, PlaceEffect
  <2>4. c \in Mine /\ c \in Mine'
    BY <1>5, <2>2, <2>3 DEF Mine
  <2>5. CASE Empty \in DOMAIN A
    BY <1>7, <2>2, <2>3, <2>4, <2>5 DEF FollowInv, ShowsInv, Placed
  <2>6. ASSUME NEW x \in DOMAIN A \cap DOMAIN profile, IsUpdate(Msg, x), IsActiveConnection(x),
               x \notin DOMAIN A', ~AddIn(t, x)
        PROVE  Leaving(c)
    <3>1. x \in Mine /\ x # c
      BY <1>1, <2>2, <2>3, <2>6, ConnectionAssumption DEF Mine, FeedType
    <3>2. Firm(x)
      BY <1>2, <2>6 DEF Firm, IsAdd, IsUpdate
    <3>3. up
      BY <1>1, <2>6 DEF TablesInv, StoppedInv, IsActiveConnection, At
    <3>4. QED
      BY <2>2, <2>4, <3>1, <3>2, <3>3 DEF FollowInv, ShowsInv, Gone
  <2>7. QED
    BY <1>7, <2>2, <2>4, <2>5, <2>6 DEF Effects, PlaceEffect, t
<1>22. NotListed'
  <2>1. SUFFICES ASSUME NEW c \in Rest', c \in DOMAIN profile, IsActiveConnection(c)'
                 PROVE  UpIn(t, c)
    BY <1>1 DEF NotListed, UpIn
  <2>2. IsActiveConnection(c) /\ ListEffect(c) /\ c \in DOMAIN I'
    BY <1>5, <1>6, <1>14, <2>1
  <2>3. CASE c \in DOMAIN I
    <3>1. c \in Rest /\ ~IsUp(Msg, c)
      BY <1>1, <1>5, <2>1, <2>2, <2>3 DEF Rest, ListEffect
    <3>2. QED
      BY <1>2, <2>1, <2>2, <3>1 DEF FollowInv, ListsInv, NotListed
  <2>4. CASE c \notin DOMAIN I
    <3>1. IsDown(Msg, c)
      BY <2>2, <2>4 DEF ListEffect
    <3>2. QED
      BY <1>10, <2>2, <3>1 DEF Resets, IsDown
  <2>5. QED
    BY <2>3, <2>4
<1>23. Fitting'
  <2>1. SUFFICES ASSUME Shown, NEW c \in Rest', Firm(c)', ~Fits(c, dev)'
                 PROVE  UpdateIn(t, c) \/ c \in unmoved'
    BY <1>1 DEF Fitting, UpdateIn, Fits, dev
  <2>2. ListEffect(c) /\ c \in DOMAIN I' /\ ~Fits(c, dev) /\ c \in DOMAIN profile
    BY <1>5, <1>6, <1>14, <2>1
  <2>3. c \in unmoved \cup FoundActive => c \in unmoved'
    BY <2>2 DEF Remembered, I
  <2>4. SUFFICES ASSUME c \notin FoundActive PROVE UpdateIn(t, c) \/ c \in unmoved'
    BY <2>3
  <2>5. c \in Rest /\ ~IsUpdate(Msg, c)
    BY <1>1, <1>5, <2>1, <2>2, <2>4 DEF Rest, ListEffect
  <2>6. QED
    BY <1>2, <1>6, <2>1, <2>2, <2>3, <2>5 DEF FollowInv, ListsInv, Fitting
<1>24. Listed'
  <2>1. SUFFICES ASSUME up', Shown, NEW c \in DOMAIN profile \ disturbed', Fits(c, dev)', ~IsStrong(c)',
                        c \notin DOMAIN I', ~AddIn(t, c), ~DownIn(t, c), ~UpdateIn(t, c)
                 PROVE  FALSE
    BY <1>1 DEF Listed, Fits, dev, IsStrong, AddIn, DownIn, UpdateIn
  <2>2. /\ up /\ c \in Conn \ disturbed' /\ c \notin disturbed /\ c # Empty /\ c \in DOMAIN profile
        /\ Fits(c, dev) /\ ~IsStrong(c) /\ ListEffect(c)
    BY <1>1, <1>6, <1>14, <2>1, ConnectionAssumption DEF FeedType
  <2>3. ~IsActiveConnection(c) /\ ~UpOn(c, dev)
    BY <2>2, OnSomeDevice
  <2>4. ~IsAdd(Msg, c) /\ ~IsDown(Msg, c)
    BY <2>1, <2>2 DEF ListEffect
  <2>5. Firm(c) /\ ~DownIn(feed, c)
    BY <1>2, <2>1, <2>2, <2>4 DEF Firm
  <2>6. CASE c \in DOMAIN I
    <3>1. c \in Rest /\ IsRemove(Msg, I[c].path)
      BY <2>1, <2>2, <2>3, <2>6 DEF ListEffect, Rest
    <3>2. QED
      BY <1>11, <2>1, <2>2, <3>1
  <2>7. CASE IsUpdate(Msg, c)
    <3>1. c \in Mine
      BY <2>1, <2>2, <2>7 DEF ListEffect, Mine
    <3>2. Leaving(c)
      BY <2>1, <2>2, <2>3, <3>1 DEF FollowInv, IInv, ShownInv, AllUp, Mine, dev
    <3>3. QED
      BY <2>5, <3>1, <3>2, FirmLeaves
  <2>8. QED
    BY <1>2, <2>1, <2>2, <2>5, <2>6, <2>7 DEF FollowInv, ListsInv, Listed, Firm
<1>25. SaysDown'
  <2>1. SUFFICES ASSUME up', NEW c \in Rest', c \in DOMAIN profile, I'[c].state # "Deactivated"
                 PROVE  Between(c) \/ AddIn(t, c) \/ UpIn(t, c) \/ DownIn(t, c)
    BY <1>1, <1>6 DEF SaysDown, AddIn, UpIn, DownIn
  <2>2. ListEffect(c) /\ c \in DOMAIN I' /\ up
    BY <1>1, <1>5, <1>14, <2>1
  <2>3. CASE IsActivatingConnection(c)
    BY <2>3 DEF IsActivatingConnection, Between, At
  <2>4. CASE c \in DOMAIN I /\ I'[c].state = I[c].state /\ ~IsDown(Msg, c)
    <3>1. c \in Rest
      BY <1>1, <1>5, <2>1, <2>4 DEF Rest
    <3>2. ~IsAdd(Msg, c)
      BY <1>1, <1>4, <3>1 DEF IInv, KnownInv, Rest
    <3>3. Between(c) \/ AddIn(t, c) \/ UpIn(feed, c) \/ DownIn(t, c)
      BY <1>2, <2>1, <2>2, <2>4, <3>1, <3>2 DEF FollowInv, ListsInv, SaysDown
    <3>4. ASSUME IsUp(Msg, c), ~AddIn(t, c), ~DownIn(t, c) PROVE Between(c)
      <4>1. Since(feed, 1, c)
        BY <1>12, <3>4
      <4>2. IsStrong(c)
        BY <1>3, <2>1, <2>2, <4>1 DEF FollowInv, QueueInv, UpStrong
      <4>3. ~IsActiveConnection(c)
        BY <2>1, <2>2, <3>4 DEF ListEffect
      <4>4. QED
        BY <4>2, <4>3 DEF IsStrong, Strong, IsActiveConnection, Between, At
    <3>5. QED
      BY <1>2, <3>3, <3>4
  <2>5. QED
    BY <2>1, <2>2, <2>3, <2>4 DEF ListEffect
<1>26. QueueInv'
  BY QueueDequeued DEF FollowInv
<1>27. QED
  BY <1>13, <1>17, <1>18, <1>19, <1>20, <1>21, <1>22, <1>23, <1>24, <1>25, <1>26
     DEF FollowInv, ShowsInv, ListsInv

\* A handler that changes nothing of profile c, which its signal is not about.
LEMMA OtherEffects ==
  ASSUME NEW c, c \in DOMAIN A' <=> c \in DOMAIN A, c \in DOMAIN A => A'[c].state = A[c].state,
         c \in DOMAIN I' <=> c \in DOMAIN I, c \in DOMAIN I => I'[c].state = I[c].state,
         c \in DOMAIN profile =>
           ~IsUp(Msg, c) /\ ~IsDown(Msg, c) /\ ~IsAdd(Msg, c) /\ ~IsUpdate(Msg, c)
  PROVE  ShowEffect(c) /\ ListEffect(c)
BY DEF ShowEffect, ListEffect

LEMMA SamePlaces ==
  ASSUME \/ DOMAIN A' = DOMAIN A
         \/ \E m : A' = OrPlaceholder(m) /\ DOMAIN m \subseteq DOMAIN A
  PROVE  PlaceEffect
<1>1. CASE DOMAIN A' = DOMAIN A
  BY <1>1 DEF PlaceEffect
<1>2. ASSUME NEW m, A' = OrPlaceholder(m), DOMAIN m \subseteq DOMAIN A PROVE PlaceEffect
  <2>1. CASE DOMAIN m = {}
    <3>1. DOMAIN A' = {Empty}
      BY <1>2, <2>1 DEF OrPlaceholder, Placeholder
    <3>2. QED
      BY <3>1 DEF PlaceEffect
  <2>2. CASE DOMAIN m # {}
    <3>1. A' = m
      BY <1>2, <2>2 DEF OrPlaceholder
    <3>2. QED
      BY <1>2, <2>2, <3>1 DEF PlaceEffect
  <2>3. QED
    BY <2>1, <2>2
<1>3. QED
  BY <1>1, <1>2

LEMMA PlaceholderItems ==
  \A m : /\ DOMAIN OrPlaceholder(m) \ {Empty} = DOMAIN m \ {Empty}
         /\ \A k \in DOMAIN m \ {Empty} : OrPlaceholder(m)[k] = m[k]
BY DEF OrPlaceholder, Placeholder

LEMMA StateItems ==
  ASSUME NEW K, NEW m \in Maps(K), NEW c, NEW state \in State
  PROVE  LET n == UpdateConnectionState(m, c, state)
         IN /\ DOMAIN n = DOMAIN m /\ (c \in DOMAIN m => n[c].state = state)
            /\ \A k \in DOMAIN m \ {c} : n[k] = m[k]
<1> DEFINE n == [m EXCEPT ![c].state = state]
<1>1. CASE c \notin DOMAIN m
  BY <1>1 DEF UpdateConnectionState
<1>2. CASE c \in DOMAIN m
  <2>1. n = [k \in DOMAIN m |-> IF k = c THEN [m[c] EXCEPT !.state = state] ELSE m[k]]
    BY MapsProperties DEF Maps
  <2>2. [m[c] EXCEPT !.state = state].state = state
    BY <1>2, MapsProperties DEF Item
  <2>3. QED
    BY <1>2, <2>1, <2>2 DEF UpdateConnectionState
<1>3. QED BY <1>1, <1>2

LEMMA ShownStates ==
  \A m \in Maps(Keys), state \in State : \A c :
    LET n == UpdateConnectionState(m, c, state)
    IN /\ DOMAIN n = DOMAIN m /\ (c \in DOMAIN m => n[c].state = state)
       /\ \A k \in DOMAIN m \ {c} : n[k] = m[k]
BY StateItems

LEMMA ListedStates ==
  \A m \in Maps(Conn), state \in State : \A c :
    LET n == UpdateConnectionState(m, c, state)
    IN /\ DOMAIN n = DOMAIN m /\ (c \in DOMAIN m => n[c].state = state)
       /\ \A k \in DOMAIN m \ {c} : n[k] = m[k]
BY StateItems

\* A profile that is active is so on one device.
LEMMA ActiveOnce ==
  ASSUME TablesInv, NEW i \in DOMAIN active, active[i].state = "Activated", NEW d,
         ActiveOn(active[i].conn, d)
  PROVE  active[i].dev = d
BY DEF TablesInv, OneUp, Strong, ActiveOn

LEMMA ItemState ==
  \A c, d : LET item == GetConnectionItem(c, d)
            IN item.state = "Deactivated" \/ IsActivatingConnection(c)
BY DEF GetConnectionItem

\* The handlers.
LEMMA AddConnectionEffects ==
  ASSUME FollowInv, OnAddConnection PROVE Effects
<1> DEFINE c == Msg.conn
           item == GetConnectionItem(c, AnyIface)
<1>1. /\ Msg.sig = "connectionAdd" /\ page \in Page
      /\ \A k : /\ ~IsUp(Msg, k) /\ ~IsDown(Msg, k) /\ ~IsUpdate(Msg, k)
                /\ IsAdd(Msg, k) => k = c
  BY DEF OnAddConnection, Handle, FollowInv, IInv, IsUp, IsDown, IsUpdate, IsAdd
<1>2. CASE /\ c \in DOMAIN profile /\ ~IsActiveConnection(c) /\ Fits(c, dev)
           /\ page' = [page EXCEPT !.m_inactiveConnectionMap = With(@, c, item)]
  <2>1. A' = A /\ I' = With(I, c, item)
    BY <1>1, <1>2 DEF Page, A, I
  <2>2. /\ DOMAIN I' = DOMAIN I \cup {c} /\ I'[c] = item
        /\ \A k \in DOMAIN I \ {c} : I'[k] = I[k]
    BY <2>1 DEF With
  <2>3. ASSUME NEW k, k # c PROVE ShowEffect(k) /\ ListEffect(k)
    BY <1>1, <2>1, <2>2, <2>3, OtherEffects
  <2>4. ShowEffect(c)
    BY <1>1, <2>1 DEF ShowEffect
  <2>5. ListEffect(c)
    BY <1>1, <1>2, <2>2, ItemState DEF ListEffect
  <2>6. PlaceEffect
    BY <2>1, SamePlaces
  <2>7. QED
    BY <2>3, <2>4, <2>5, <2>6 DEF Effects
<1>3. CASE ~(c \in DOMAIN profile /\ ~IsActiveConnection(c) /\ Fits(c, dev)) /\ UNCHANGED page
  <2>1. A' = A /\ I' = I
    BY <1>3 DEF A, I
  <2>2. ASSUME NEW k PROVE ShowEffect(k) /\ ListEffect(k)
    <3>1. ~(k \in DOMAIN profile /\ IsAdd(Msg, k) /\ Fits(k, dev) /\ ~IsStrong(k))
      BY <1>1, <1>3, OnSomeDevice
    <3>2. QED
      BY <1>1, <2>1, <3>1 DEF ShowEffect, ListEffect
  <2>3. QED
    BY <2>1, <2>2, SamePlaces DEF Effects
<1>4. QED
  BY <1>2, <1>3 DEF OnAddConnection, dev

LEMMA RemoveConnectionEffects ==
  ASSUME FollowInv, OnRemoveConnection PROVE Effects
<1> DEFINE inactive == OfPath(I, Msg.path)
           shown    == OfPath(A, Msg.path)
           found    == IF inactive # {} THEN inactive ELSE shown
<1>1. /\ Msg.sig = "connectionRemove" /\ page \in Page /\ disturbed \subseteq disturbed'
      /\ DOMAIN A \cap DOMAIN I \subseteq disturbed
      /\ \A k : ~IsUp(Msg, k) /\ ~IsDown(Msg, k) /\ ~IsUpdate(Msg, k) /\ ~IsAdd(Msg, k)
  BY DEF OnRemoveConnection, Handle, FollowInv, IInv, AtMostOnce, A, I, IsUp, IsDown, IsUpdate, IsAdd
<1>2. /\ \A k \in inactive : k \in DOMAIN I /\ IsRemove(Msg, I[k].path)
      /\ \A k \in shown : k \in DOMAIN A /\ IsRemove(Msg, A[k].path)
  BY <1>1 DEF OfPath, IsRemove
<1> HIDE DEF inactive, shown
\* At most one item goes.
<1>3. ASSUME PlaceEffect, DOMAIN A' \ {Empty} \subseteq DOMAIN A, DOMAIN I' \subseteq DOMAIN I,
             \A k \in DOMAIN A \ {Empty} : k \in shown \/ (k \in DOMAIN A' /\ A'[k] = A[k]),
             \A k \in DOMAIN I \ disturbed : k \in inactive \/ (k \in DOMAIN I' /\ I'[k] = I[k]),
             \A k \in DOMAIN A' \ {Empty} : A'[k] = A[k],
             \A k \in DOMAIN I' : I'[k] = I[k]
      PROVE  Effects
  <2>1. SUFFICES ASSUME NEW k \in Conn \ disturbed PROVE ShowEffect(k) /\ ListEffect(k)
    BY <1>1, <1>3 DEF Effects
  <2>2. k # Empty
    BY <2>1, ConnectionAssumption
  <2>3. ShowEffect(k)
    BY <1>1, <1>2, <1>3, <2>2 DEF ShowEffect
  <2>4. ListEffect(k)
    BY <1>1, <1>2, <1>3, <2>2 DEF ListEffect
  <2>5. QED
    BY <2>3, <2>4
<1>4. CASE UNCHANGED page
  <2>1. A' = A /\ I' = I
    BY <1>4 DEF A, I
  <2>2. QED
    BY <1>3, <2>1, SamePlaces
<1>5. CASE page' = [page EXCEPT !.m_activeConnectionMap = OrPlaceholder(@)]
  <2>1. A' = OrPlaceholder(A) /\ I' = I
    BY <1>1, <1>5 DEF Page, A, I
  <2>2. PlaceEffect
    BY <2>1, SamePlaces
  <2>3. QED
    BY <1>3, <2>1, <2>2, PlaceholderItems
<1>6. ASSUME NEW k \in found, page' = ConnectionRemoved(page, k) PROVE Effects
  <2>1. CASE k \in DOMAIN I
    <3>1. A' = A /\ I' = Without(I, {k})
      BY <1>1, <1>6, <2>1 DEF ConnectionRemoved, Page, A, I
    <3>2. DOMAIN I' = DOMAIN I \ {k} /\ \A c \in DOMAIN I \ {k} : I'[c] = I[c]
      BY <1>1, <3>1, PageFields, ListedWithout
    <3>3. k \in inactive \cup disturbed
      BY <1>1, <1>2, <1>6, <2>1
    <3>4. QED
      BY <1>3, <3>1, <3>2, <3>3, SamePlaces
  <2>2. CASE k \notin DOMAIN I
    <3> DEFINE m == Without(A, {k})
    <3>1. A' = OrPlaceholder(m) /\ I' = I
      BY <1>1, <1>6, <2>2 DEF ConnectionRemoved, Page, A, I
    <3>2. DOMAIN m = DOMAIN A \ {k} /\ \A c \in DOMAIN A \ {k} : m[c] = A[c]
      BY <1>1, PageFields, ShownWithout
    <3> HIDE DEF m
    <3>3. k \in shown
      BY <1>2, <1>6, <2>2
    <3>4. PlaceEffect
      BY <3>1, <3>2, SamePlaces
    <3>5. QED
      BY <1>3, <3>1, <3>2, <3>3, <3>4, PlaceholderItems
  <2>3. QED
    BY <2>1, <2>2
<1>7. QED
  BY <1>4, <1>5, <1>6 DEF OnRemoveConnection, A, I, inactive, shown

LEMMA UpdateConnectionEffects ==
  ASSUME FollowInv, OnUpdateConnection PROVE Effects
<1> DEFINE c == Msg.conn
<1>1. /\ feed # <<>> /\ Msg.sig = "connectionUpdate" /\ page \in Page /\ TablesInv /\ FeedType
      /\ \A k : /\ ~IsUp(Msg, k) /\ ~IsDown(Msg, k) /\ ~IsAdd(Msg, k)
                /\ IsUpdate(Msg, k) <=> k = c
      /\ (c \in Announced(Tail(feed)) => c \in disturbed')
      /\ c \in DOMAIN profile /\ IsActiveConnection(c) /\ ~Fits(c, dev) => c \in FoundActive
  BY DEF OnUpdateConnection, ReadAhead, FoundActive, Handle, FollowInv, IInv, TablesInv, IsUp, IsDown, IsUpdate, IsAdd, I, dev
<1>2. c \in Conn /\ c # Empty /\ feed \in Seq(Message)
  BY <1>1, MessageConn, ConnectionAssumption DEF FeedType
<1>3. A \in Maps(Keys) /\ I \in Maps(Conn)
  BY <1>1, PageFields
<1> HIDE DEF c
<1>4. CASE c \notin DOMAIN profile /\ UNCHANGED page
  <2>1. A' = A /\ I' = I
    BY <1>4 DEF A, I
  <2>2. ASSUME NEW k PROVE ShowEffect(k) /\ ListEffect(k)
    BY <1>1, <1>4, <2>1, OtherEffects
  <2>3. QED
    BY <2>1, <2>2, SamePlaces DEF Effects
<1>5. CASE c \in DOMAIN profile /\ IsActiveConnection(c)
  <2> DEFINE i == First(At(c, {"Activated"}))
             ac == active[i]
  <2>1. i \in DOMAIN active /\ ac.conn = c /\ ac.state = "Activated"
    BY <1>1, <1>5, ActiveNow
  <2>2. page' = UpdateActiveConnectionProperty(page, ac)
    BY <1>1, <1>5 DEF OnUpdateConnection, c
  <2> HIDE DEF i
  <2>3. ActiveOn(c, dev) => ac.dev = dev
    BY <1>1, <2>1, ActiveOnce
  <2>4. IsStrong(c)
    BY <1>5, OnSomeDevice
  <2>5. I' = I => (c \notin disturbed' => ListEffect(c))
    BY <1>1, <1>5, <2>4 DEF ListEffect
  <2>6. CASE c \notin DOMAIN A
    <3>1. A' = A /\ I' = I
      BY <2>1, <2>2, <2>6 DEF UpdateActiveConnectionProperty, A, I
    <3>2. ASSUME NEW k, k # c PROVE ShowEffect(k) /\ ListEffect(k)
      BY <1>1, <3>1, <3>2, OtherEffects
    <3>3. ShowEffect(c)
      BY <1>1, <2>6, <3>1 DEF ShowEffect
    <3>4. QED
      BY <2>5, <3>1, <3>2, <3>3, SamePlaces DEF Effects
  <2>7. CASE c \in DOMAIN A /\ ac.dev # dev
    <3> DEFINE m == Without(A, {c})
    <3>1. A' = With(m, Empty, Placeholder[Empty]) /\ I' = I
      BY <1>1, <2>1, <2>2, <2>7 DEF UpdateActiveConnectionProperty, Page, A, I, dev
    <3>2. DOMAIN m = DOMAIN A \ {c} /\ \A k \in DOMAIN A \ {c} : m[k] = A[k]
      BY <1>3, ShownWithout
    <3> HIDE DEF m
    <3>3. /\ DOMAIN A' = (DOMAIN A \ {c}) \cup {Empty}
          /\ \A k \in DOMAIN A \ {c, Empty} : A'[k] = A[k]
      BY <3>1, <3>2 DEF With
    <3>4. ASSUME NEW k, k # c, k # Empty PROVE ShowEffect(k) /\ ListEffect(k)
      BY <1>1, <3>1, <3>3, <3>4, OtherEffects
    <3>5. ShowEffect(c)
      BY <1>1, <1>2, <1>5, <2>3, <2>7, <3>3 DEF ShowEffect
    <3>6. c \in disturbed' \/ ~AddIn(Tail(feed), c)
      BY <1>1, <1>2, TailQueue, AnnouncedProperties DEF AddIn
    <3>7. PlaceEffect
      BY <1>1, <1>2, <1>5, <2>7, <3>3, <3>6 DEF PlaceEffect
    <3>8. QED
      BY <2>5, <3>1, <3>4, <3>5, <3>7, ConnectionAssumption DEF Effects
  <2>8. CASE c \in DOMAIN A /\ ac.dev = dev
    <3>1. A' = [A EXCEPT ![c].path = ac.path] /\ I' = I
      BY <1>1, <2>1, <2>2, <2>8 DEF UpdateActiveConnectionProperty, Page, A, I, dev
    <3>2. A[c] \in Item
      BY <1>3, <2>8, MapsProperties
    <3>3. /\ DOMAIN A' = DOMAIN A /\ \A k \in DOMAIN A : A'[k].state = A[k].state
      BY <3>1, <3>2 DEF Item
    <3>4. ASSUME NEW k, k # c PROVE ShowEffect(k) /\ ListEffect(k)
      BY <1>1, <3>1, <3>3, <3>4, OtherEffects
    <3>5. ShowEffect(c)
      BY <1>1, <3>3 DEF ShowEffect
    <3>6. QED
      BY <2>5, <3>1, <3>3, <3>4, <3>5, SamePlaces DEF Effects
  <2>9. QED
    BY <2>6, <2>7, <2>8
<1>6. ASSUME NEW renamed \in BOOLEAN, c \in DOMAIN profile, ~IsActiveConnection(c),
             page' = UpdateConnectionProperty(page, c, renamed)
      PROVE  Effects
  <2> DEFINE item == GetConnectionItem(c, AnyIface)
  <2>1. A' = A
    BY <1>1, <1>6 DEF UpdateConnectionProperty, Page, A
  <2>2. /\ \A k \in Conn \ {c} : /\ k \in DOMAIN I' <=> k \in DOMAIN I
                                 /\ k \in DOMAIN I => I'[k].state = I[k].state
        /\ c \in DOMAIN I' => Fits(c, dev)
        /\ Fits(c, dev) /\ (c \in DOMAIN I \/ c \notin DOMAIN A) => c \in DOMAIN I'
        /\ c \in DOMAIN I' => \/ I'[c].state = item.state
                              \/ c \in DOMAIN I /\ I'[c].state = I[c].state
    <3>1. CASE c \in DOMAIN I /\ ~Fits(c, dev)
      <4>1. I' = Without(I, {c})
        BY <1>1, <1>6, <3>1 DEF UpdateConnectionProperty, Page, I, dev
      <4>2. DOMAIN I' = DOMAIN I \ {c} /\ \A k \in DOMAIN I \ {c} : I'[k] = I[k]
        BY <1>3, <4>1, ListedWithout
      <4>3. QED
        BY <3>1, <4>2
    <3>2. CASE c \in DOMAIN I /\ Fits(c, dev) /\ renamed
      <4>1. I' = [I EXCEPT ![c] = item]
        BY <1>1, <1>6, <3>2 DEF UpdateConnectionProperty, Page, I, dev
      <4> HIDE DEF item
      <4>2. DOMAIN I' = DOMAIN I /\ I'[c] = item /\ \A k \in DOMAIN I \ {c} : I'[k] = I[k]
        BY <3>2, <4>1
      <4>3. QED
        BY <3>2, <4>2
    <3>3. CASE c \in DOMAIN I /\ Fits(c, dev) /\ ~renamed
      <4>1. I' = [I EXCEPT ![c].path = item.path]
        BY <1>1, <1>6, <3>3 DEF UpdateConnectionProperty, Page, I, dev
      <4>2. I[c] \in Item
        BY <1>3, <3>3, MapsProperties
      <4>3. QED
        BY <3>3, <4>1, <4>2 DEF Item
    <3>4. CASE c \notin DOMAIN I /\ c \notin DOMAIN A /\ Fits(c, dev)
      <4>1. I' = With(I, c, item)
        BY <1>1, <1>6, <3>4 DEF UpdateConnectionProperty, Page, A, I, dev
      <4> HIDE DEF item
      <4>2. QED
        BY <3>4, <4>1 DEF With
    <3>5. CASE c \notin DOMAIN I /\ ~(c \notin DOMAIN A /\ Fits(c, dev))
      <4>1. I' = I
        BY <1>1, <1>6, <3>5 DEF UpdateConnectionProperty, A, I, dev
      <4>2. QED
        BY <3>5, <4>1
    <3>6. QED
      BY <3>1, <3>2, <3>3, <3>4, <3>5
  <2>3. ASSUME NEW k \in Conn \ {c} PROVE ShowEffect(k) /\ ListEffect(k)
    BY <1>1, <2>1, <2>2, <2>3, OtherEffects
  <2>4. ShowEffect(c)
    BY <1>1, <2>1 DEF ShowEffect
  <2>5. item.state = "Deactivated" \/ IsActivatingConnection(c)
    BY ItemState
  <2> HIDE DEF item
  <2>6. ListEffect(c)
    BY <1>1, <1>6, <2>2, <2>5 DEF ListEffect
  <2>7. QED
    BY <2>1, <2>3, <2>4, <2>6, SamePlaces DEF Effects
<1>7. QED
  <2>1. CASE c \notin DOMAIN profile
    BY <1>1, <1>4, <2>1 DEF OnUpdateConnection, c
  <2>2. CASE c \in DOMAIN profile /\ ~IsActiveConnection(c)
    BY <1>6, <2>2 DEF OnUpdateConnection, c
  <2>3. QED
    BY <1>5, <2>1, <2>2

LEMMA ActiveRemoveEffects ==
  ASSUME FollowInv, OnActiveConnectRemove PROVE Effects
<1> DEFINE c == Msg.conn
<1>1. /\ Msg.sig = "activeConnectRemove" /\ page \in Page
      /\ \A k : ~IsUp(Msg, k) /\ ~IsDown(Msg, k) /\ ~IsAdd(Msg, k) /\ ~IsUpdate(Msg, k)
      /\ Resets(Msg, c)
  BY DEF OnActiveConnectRemove, Handle, FollowInv, IInv, IsUp, IsDown, IsUpdate, IsAdd, Resets
<1>2. A \in Maps(Keys)
  BY <1>1, PageFields
<1>3. A' = UpdateConnectionState(A, c, "Deactivated") /\ I' = I
  BY <1>1 DEF OnActiveConnectRemove, Page, A, I
<1>4. DOMAIN A' = DOMAIN A /\ \A k \in DOMAIN A \ {c} : A'[k] = A[k]
  BY <1>2, <1>3, ShownStates DEF State
<1>5. ASSUME NEW k, k # c PROVE ShowEffect(k) /\ ListEffect(k)
  BY <1>1, <1>3, <1>4, <1>5, OtherEffects
<1>6. ShowEffect(c) /\ ListEffect(c)
  BY <1>1, <1>3, <1>4 DEF ShowEffect, ListEffect
<1>7. QED
  BY <1>4, <1>5, <1>6, SamePlaces DEF Effects

LEMMA StateChangeEffects ==
  ASSUME FollowInv, OnConnectionStateChange PROVE Effects
<1> DEFINE c == Msg.conn
           mine == UpdateConnectionState(A, c, Msg.state)
           told == [page EXCEPT !.m_activeConnectionMap = UpdateConnectionState(@, c, Msg.state)]
<1>1. /\ feed # <<>> /\ Msg.sig = "stateChangeReason" /\ page \in Page /\ TablesInv /\ FeedType
      /\ \A k : /\ ~IsUpdate(Msg, k) /\ ~IsAdd(Msg, k)
                /\ IsUp(Msg, k) <=> k = c /\ Msg.state = "Activated"
                /\ IsDown(Msg, k) <=> k = c /\ Msg.state = "Deactivated"
                /\ Resets(Msg, k) <=> k = c /\ Msg.state # "Activated"
      /\ disturbed \subseteq disturbed' /\ DOMAIN A \cap DOMAIN I \subseteq disturbed
  BY DEF OnConnectionStateChange, Handle, ReadAhead, FollowInv, IInv, TablesInv, AtMostOnce, A, I,
         IsUp, IsDown, IsUpdate, IsAdd, Resets
<1>2. c \in Conn /\ c # Empty /\ Msg.state \in State \ {"Activating"}
  BY <1>1, MessageConn, ConnectionAssumption
<1>3. A \in Maps(Keys) /\ I \in Maps(Conn)
  BY <1>1, PageFields
<1>4. /\ DOMAIN mine = DOMAIN A /\ (c \in DOMAIN A => mine[c].state = Msg.state)
      /\ \A k \in DOMAIN A \ {c} : mine[k] = A[k]
  BY <1>2, <1>3, ShownStates
<1>5. mine \in Maps(Keys)
  BY <1>2, <1>3, ShownState
<1>6. /\ told \in Page /\ told.m_currentDeviceName = dev
      /\ told.m_activeConnectionMap = mine /\ told.m_inactiveConnectionMap = I
  BY <1>1, <1>5 DEF Page, A, I, dev
<1> HIDE DEF c, mine, told
<1>7. CASE c \notin DOMAIN profile
  <2>1. A' = A /\ I' = I
    BY <1>2, <1>7 DEF OnConnectionStateChange, A, I, c, State
  <2>2. ASSUME NEW k PROVE ShowEffect(k) /\ ListEffect(k)
    BY <1>1, <1>7, <2>1, OtherEffects
  <2>3. QED
    BY <2>1, <2>2, SamePlaces DEF Effects
\* The other profiles' items stay.
<1>8. ASSUME c \in DOMAIN profile, PlaceEffect,
             \A k \in Conn \ {c} : /\ k \in DOMAIN A' <=> k \in DOMAIN A
                                   /\ k \in DOMAIN A => A'[k] = A[k]
                                   /\ k \in DOMAIN I' <=> k \in DOMAIN I
                                   /\ k \in DOMAIN I => I'[k] = I[k],
             c \notin disturbed' => ShowEffect(c) /\ ListEffect(c)
      PROVE  Effects
  <2>1. ASSUME NEW k \in Conn \ {c} PROVE ShowEffect(k) /\ ListEffect(k)
    BY <1>1, <1>8, <2>1, OtherEffects
  <2>2. QED
    BY <1>8, <2>1 DEF Effects
<1>9. CASE c \in DOMAIN profile /\ Msg.state = "Deactivating" /\ page' = told
  <2>1. A' = mine /\ I' = I
    BY <1>6, <1>9 DEF A, I
  <2>2. ShowEffect(c) /\ ListEffect(c)
    BY <1>1, <1>4, <1>9, <2>1 DEF ShowEffect, ListEffect
  <2>3. QED
    BY <1>4, <1>8, <1>9, <2>1, <2>2, SamePlaces
<1>10. CASE c \in DOMAIN profile /\ Msg.state = "Activated" /\ page' = Activated(told, c)
  <2>1. CASE ~IsActiveConnection(c)
    <3>1. A' = mine /\ I' = I
      BY <1>6, <1>10, <2>1 DEF Activated, IsActiveConnection, A, I
    <3>2. ShowEffect(c) /\ ListEffect(c)
      BY <1>1, <1>4, <1>9, <1>10, <2>1, <3>1, OnSomeDevice DEF ShowEffect, ListEffect
    <3>3. QED
      BY <1>4, <1>8, <1>10, <3>1, <3>2, SamePlaces
  <2>2. CASE IsActiveConnection(c)
    <3> DEFINE i == First(At(c, {"Activated"}))
               ac == active[i]
               moved == UpdateActivatedConnectionArea(told, ac)
               shown == moved.m_activeConnectionMap
    <3>1. i \in DOMAIN active /\ ac.conn = c /\ ac.state = "Activated"
      BY <1>1, <2>2, ActiveNow
    <3>2. page' = [moved EXCEPT !.m_activeConnectionMap = UpdateConnectionState(@, c, "Activated")]
      BY <1>10, <2>2 DEF Activated, IsActiveConnection
    <3> HIDE DEF i
    <3>3. ActiveOn(c, dev) <=> ac.dev = dev
      BY <1>1, <3>1, ActiveOnce DEF ActiveOn
    <3>4. ac \in ActiveConnection
      BY <1>1, <3>1 DEF FeedType
    <3>5. IsStrong(c)
      BY <2>2, OnSomeDevice
    <3>6. ASSUME moved \in Page,
                 \A k \in Conn \ {c} : /\ k \in DOMAIN shown <=> k \in DOMAIN A
                                       /\ k \in DOMAIN A => shown[k] = A[k],
                 DOMAIN shown = DOMAIN A \/ (Empty \notin DOMAIN shown /\ DOMAIN shown # {}),
                 c \in DOMAIN A => c \in DOMAIN shown,
                 c \in DOMAIN shown \ DOMAIN A => ac.dev = dev,
                 ac.dev = dev => c \in DOMAIN shown,
                 moved.m_inactiveConnectionMap = I \/ moved.m_inactiveConnectionMap = Without(I, {c}),
                 c \in DOMAIN I /\ moved.m_inactiveConnectionMap = I => c \in DOMAIN A
          PROVE  Effects
      <4> HIDE DEF moved
      <4>1. shown \in Maps(Keys) /\ A' = UpdateConnectionState(shown, c, "Activated")
            /\ I' = moved.m_inactiveConnectionMap
        BY <3>2, <3>6 DEF Page, A, I
      <4> HIDE DEF shown
      <4>2. /\ DOMAIN A' = DOMAIN shown /\ (c \in DOMAIN shown => A'[c].state = "Activated")
            /\ \A k \in DOMAIN shown \ {c} : A'[k] = shown[k]
        BY <4>1, ShownStates DEF State
      <4>3. /\ \A k \in Conn \ {c} : /\ k \in DOMAIN I' <=> k \in DOMAIN I
                                     /\ k \in DOMAIN I => I'[k] = I[k]
            /\ c \in DOMAIN I' => I' = I /\ c \in DOMAIN I
        <5>1. CASE I' = I
          BY <5>1
        <5>2. CASE I' = Without(I, {c})
          <6>1. DOMAIN I' = DOMAIN I \ {c} /\ \A k \in DOMAIN I \ {c} : I'[k] = I[k]
            BY <1>3, <5>2, ListedWithout
          <6>2. QED
            BY <6>1
        <5>3. QED
          BY <3>6, <4>1, <5>1, <5>2
      <4>4. PlaceEffect
        <5>1. CASE DOMAIN shown = DOMAIN A
          BY <4>2, <5>1, SamePlaces
        <5>2. CASE Empty \notin DOMAIN shown /\ DOMAIN shown # {}
          BY <4>2, <5>2 DEF PlaceEffect
        <5>3. QED
          BY <3>6, <5>1, <5>2
      <4>5. ShowEffect(c)
        BY <1>1, <1>10, <3>3, <3>6, <4>2 DEF ShowEffect
      <4>6. c \notin disturbed' => ListEffect(c)
        BY <1>1, <1>10, <2>2, <3>5, <3>6, <4>1, <4>3 DEF ListEffect
      <4>7. \A k \in Conn \ {c} : /\ k \in DOMAIN A' <=> k \in DOMAIN A
                                  /\ k \in DOMAIN A => A'[k] = A[k]
        BY <3>6, <4>2
      <4>8. QED
        BY <1>8, <1>10, <4>3, <4>4, <4>5, <4>6, <4>7
    <3>7. CASE c \in DOMAIN A
      <4>1. moved = told
        BY <1>4, <1>6, <3>1, <3>7 DEF UpdateActivatedConnectionArea
      <4>2. moved \in Page /\ shown = mine /\ moved.m_inactiveConnectionMap = I
        BY <1>6, <4>1
      <4> HIDE DEF moved
      <4>3. QED
        BY <1>4, <3>6, <3>7, <4>2
    <3>8. CASE c \notin DOMAIN A /\ ac.dev # dev
      <4>1. moved = [told EXCEPT !.m_inactiveConnectionMap = Without(I, {c})]
        BY <1>4, <1>6, <3>1, <3>8 DEF UpdateActivatedConnectionArea, Page
      <4>2. Without(I, {c}) \in Maps(Conn) /\ (c \in DOMAIN I => Without(I, {c}) # I)
        <5>1. Without(I, {c}) \in Maps(Conn) /\ DOMAIN Without(I, {c}) = DOMAIN I \ {c}
          BY <1>3, ListedWithout
        <5>2. QED
          BY <5>1
      <4>3. moved \in Page /\ shown = mine /\ moved.m_inactiveConnectionMap = Without(I, {c})
        BY <1>6, <4>1, <4>2 DEF Page
      <4> HIDE DEF moved
      <4>4. QED
        BY <1>4, <3>6, <3>8, <4>2, <4>3
    <3>9. CASE c \notin DOMAIN A /\ ac.dev = dev
      <4> DEFINE item == [path |-> ac.path, state |-> "Activated"]
                 rest == Without(mine, {Empty})
                 new  == With(rest, c, item)
      <4>1. moved = [told EXCEPT !.m_inactiveConnectionMap = Without(I, {c}),
                                 !.m_activeConnectionMap   = new]
        BY <1>4, <1>6, <3>1, <3>9 DEF UpdateActivatedConnectionArea, Page
      <4>2. Without(I, {c}) \in Maps(Conn) /\ (c \in DOMAIN I => Without(I, {c}) # I)
        <5>1. Without(I, {c}) \in Maps(Conn) /\ DOMAIN Without(I, {c}) = DOMAIN I \ {c}
          BY <1>3, ListedWithout
        <5>2. QED
          BY <5>1
      <4>3. item \in Item /\ c \in Keys
        BY <1>2, <3>4 DEF Item, ActiveConnection, State, Keys
      <4>4. /\ rest \in Maps(Keys) /\ DOMAIN rest = DOMAIN mine \ {Empty}
            /\ \A k \in DOMAIN mine \ {Empty} : rest[k] = mine[k]
        BY <1>5, ShownWithout
      <4> HIDE DEF item, rest
      <4>5. Extends(Keys, rest, c, item, new)
        BY <4>3, <4>4, ShownWith
      <4> HIDE DEF new
      <4>6. moved \in Page /\ shown = new /\ moved.m_inactiveConnectionMap = Without(I, {c})
        BY <1>6, <4>1, <4>2, <4>5 DEF Page, Extends
      <4>7. /\ DOMAIN new = (DOMAIN A \ {Empty}) \cup {c}
            /\ \A k \in DOMAIN A \ {c, Empty} : new[k] = A[k]
        BY <1>4, <4>4, <4>5 DEF Extends
      <4> HIDE DEF moved
      <4>8. QED
        BY <1>2, <3>6, <3>9, <4>2, <4>6, <4>7, ConnectionAssumption
    <3>10. QED
      BY <3>7, <3>8, <3>9
  <2>3. QED
    BY <2>1, <2>2
<1>11. CASE c \in DOMAIN profile /\ Msg.state = "Deactivated" /\ page' = Deactivated(told, c)
  <2> DEFINE there == UpdateConnectionArea(told, c)
             listed == there.m_inactiveConnectionMap
  <2>1. page' = [there EXCEPT !.m_inactiveConnectionMap = UpdateConnectionState(@, c, "Deactivated")]
    BY <1>11 DEF Deactivated
  <2>2. ASSUME there \in Page, PlaceEffect,
               \A k \in Conn \ {c} : /\ k \in DOMAIN A' <=> k \in DOMAIN A
                                     /\ k \in DOMAIN A => A'[k] = A[k],
               \A k \in Conn \ {c} : /\ k \in DOMAIN listed <=> k \in DOMAIN I
                                     /\ k \in DOMAIN I => listed[k] = I[k],
               c \notin disturbed' => c \notin DOMAIN A',
               c \in DOMAIN I => c \in DOMAIN listed,
               c \notin DOMAIN I => (c \in DOMAIN listed <=> Fits(c, dev))
        PROVE  Effects
    <3> HIDE DEF there
    <3>1. listed \in Maps(Conn) /\ I' = UpdateConnectionState(listed, c, "Deactivated")
      BY <2>1, <2>2 DEF Page, I
    <3> HIDE DEF listed
    <3>2. /\ DOMAIN I' = DOMAIN listed /\ (c \in DOMAIN listed => I'[c].state = "Deactivated")
          /\ \A k \in DOMAIN listed \ {c} : I'[k] = listed[k]
      BY <3>1, ListedStates DEF State
    <3>3. c \notin disturbed' => ShowEffect(c)
      BY <1>1, <1>11, <2>2 DEF ShowEffect
    <3>4. ListEffect(c)
      BY <1>1, <1>11, <2>2, <3>2 DEF ListEffect
    <3>5. QED
      BY <1>8, <1>11, <2>2, <3>2, <3>3, <3>4
  <2>3. CASE c \in DOMAIN I
    <3>1. there = told
      BY <1>6, <2>3 DEF UpdateConnectionArea
    <3>2. A' = mine
      BY <1>6, <2>1, <3>1 DEF Page, A
    <3>3. PlaceEffect
      BY <1>4, <3>2, SamePlaces
    <3>4. QED
      BY <1>1, <1>4, <1>6, <2>2, <2>3, <3>1, <3>2, <3>3
  <2>4. CASE c \notin DOMAIN I
    <3> DEFINE rest == Without(mine, {c})
               item == GetConnectionItem(c, AnyIface)
               new == IF Fits(c, dev) THEN With(I, c, item) ELSE I
    <3>1. there = [told EXCEPT !.m_activeConnectionMap   = OrPlaceholder(rest),
                               !.m_inactiveConnectionMap = new]
      BY <1>6, <2>4 DEF UpdateConnectionArea
    <3>2. item \in Item
      BY <1>1, <1>11, ConnectionItemType
    <3>3. /\ rest \in Maps(Keys) /\ DOMAIN rest = DOMAIN mine \ {c}
          /\ \A k \in DOMAIN mine \ {c} : rest[k] = mine[k]
      BY <1>5, ShownWithout
    <3> HIDE DEF item, rest
    <3>4. OrPlaceholder(rest) \in Maps(Keys)
      BY <3>3, PlaceholderProperties
    <3>5. Extends(Conn, I, c, item, With(I, c, item))
      BY <1>2, <1>3, <3>2, ListedWith
    <3>6. /\ new \in Maps(Conn) /\ (c \in DOMAIN new <=> Fits(c, dev))
          /\ \A k \in Conn \ {c} : /\ k \in DOMAIN new <=> k \in DOMAIN I
                                   /\ k \in DOMAIN I => new[k] = I[k]
      BY <1>3, <2>4, <3>5 DEF Extends
    <3> HIDE DEF new
    <3>7. there \in Page /\ there.m_activeConnectionMap = OrPlaceholder(rest) /\ listed = new
      BY <1>6, <3>1, <3>4, <3>6 DEF Page
    <3> HIDE DEF there
    <3>8. A' = OrPlaceholder(rest)
      BY <2>1, <3>7 DEF Page, A
    <3>9. /\ DOMAIN A' \ {Empty} = DOMAIN A \ {c, Empty}
          /\ \A k \in DOMAIN A \ {c, Empty} : A'[k] = A[k]
      BY <1>4, <3>3, <3>8, PlaceholderItems
    <3>10. PlaceEffect
      BY <1>4, <3>3, <3>8, SamePlaces
    <3>11. QED
      BY <1>2, <2>2, <2>4, <3>6, <3>7, <3>9, <3>10, ConnectionAssumption
  <2>5. QED
    BY <2>3, <2>4
<1>12. QED
  BY <1>2, <1>7, <1>9, <1>10, <1>11 DEF OnConnectionStateChange, c, told, State

-----------------------------------------------------------------------------
(* Every step keeps FollowInv.                                             *)

LEMMA NetworkManagerFollows ==
  ASSUME FollowInv, IInv', NetworkManager PROVE FollowInv'
<1>1. IInv /\ QueueInv /\ FeedType /\ active \in Seq(ActiveConnection) /\ feed \in Seq(Message)
  BY DEF FollowInv, IInv, TablesInv, FeedType
<1>2. ASSUME NEW m \in Message, feed' = feed \o <<m>>, Reports(<<m>>), UNCHANGED pageVars PROVE FollowInv'
  BY <1>2, OneSignal, FollowReported
<1>3. ASSUME NEW c \in Conn, NEW p \in Profile, AddProfile(c, p) PROVE FollowInv'
  <2>1. Signal("connectionAdd", c) \in Message
    BY DEF Signal, Message
  <2>2. Reports(<<Signal("connectionAdd", c)>>)
    BY <1>1, <1>3, AddProfileReports
  <2>3. QED
    BY <1>2, <1>3, <2>1, <2>2 DEF AddProfile, Emit
<1>4. ASSUME NEW c \in Conn, NEW iface \in Ifaces, ChangeProfile(c, iface) PROVE FollowInv'
  <2>1. Signal("connectionUpdate", c) \in Message
    BY DEF Signal, Message
  <2>2. Reports(<<Signal("connectionUpdate", c)>>)
    BY <1>1, <1>4, ChangeProfileReports
  <2>3. QED
    BY <1>2, <1>4, <2>1, <2>2 DEF ChangeProfile, Emit
<1>5. ASSUME NEW c \in Conn, NEW d \in Device, Activate(c, d) PROVE FollowInv'
  <2>1. <<>> \in Seq(Message) /\ feed \o <<>> = feed
    BY <1>1, EmptySeq, ConcatEmptySeq
  <2>2. Reports(<<>>)
    BY <1>1, <1>5, ActivateReports
  <2>3. feed' = feed \o <<>> /\ UNCHANGED pageVars
    BY <1>5, <2>1 DEF Activate
  <2>4. QED
    BY <2>1, <2>2, <2>3, FollowReported
<1>6. ASSUME NEW c \in Conn, RemoveProfile(c) PROVE FollowInv'
  <2>1. [sig |-> "connectionRemove", path |-> profile[c].path] \in Message
    BY <1>1, <1>6 DEF RemoveProfile, FeedType, Profile, Message
  <2>2. Reports(<<[sig |-> "connectionRemove", path |-> profile[c].path]>>)
    BY <1>1, <1>6, RemoveProfileReports
  <2>3. QED
    BY <1>2, <1>6, <2>1, <2>2 DEF RemoveProfile, Emit
<1>7. \A i \in DOMAIN active : active[i].conn \in Conn
  <2>1. \A i \in DOMAIN active : active[i] \in ActiveConnection
    BY <1>1
  <2>2. QED
    BY <2>1 DEF ActiveConnection
<1>8. ASSUME NEW i \in DOMAIN active, NEW state \in State, ChangeState(i, state) PROVE FollowInv'
  <2> DEFINE m == [sig |-> "stateChangeReason", conn |-> active[i].conn, state |-> state]
  <2>1. m \in Message
    BY <1>7, <1>8 DEF ChangeState, MayBecome, Message
  <2>2. Reports(<<m>>)
    BY <1>1, <1>8, ChangeStateReports
  <2>3. feed' = feed \o <<m>> /\ UNCHANGED pageVars
    BY <1>8 DEF ChangeState, Emit
  <2> HIDE DEF m
  <2>4. QED
    BY <1>2, <2>1, <2>2, <2>3
<1>9. ASSUME NEW i \in DOMAIN active, RemoveActive(i) PROVE FollowInv'
  <2>1. Signal("activeConnectRemove", active[i].conn) \in Message
    BY <1>7, RemoveSignal
  <2>2. Reports(<<Signal("activeConnectRemove", active[i].conn)>>)
    BY <1>1, <1>9, RemoveActiveReports
  <2>3. QED
    BY <1>2, <1>9, <2>1, <2>2 DEF RemoveActive, Emit
<1>10. ASSUME ServiceStops PROVE FollowInv'
  <2> DEFINE s == [i \in DOMAIN active |-> Signal("activeConnectRemove", active[i].conn)]
  <2>1. \A i \in DOMAIN active : s[i] \in Message
    BY <1>7, RemoveSignal
  <2>2. s \in Seq(Message)
    BY <1>1, <2>1
  <2>3. Reports(s)
    BY <1>1, <1>10, ServiceStopsReports
  <2>4. feed' = feed \o s /\ UNCHANGED pageVars
    BY <1>10 DEF ServiceStops, Emit
  <2> HIDE DEF s
  <2>5. QED
    BY <2>2, <2>3, <2>4, FollowReported
<1>11. QED
  BY <1>3, <1>4, <1>5, <1>6, <1>8, <1>9, <1>10, FollowReturns DEF NetworkManager

LEMMA SignalsFollow ==
  ASSUME FollowInv, IInv', Signals PROVE FollowInv'
<1>1. feed # <<>> /\ feed' = Tail(feed) /\ UNCHANGED manager
  BY DEF Signals, OnAddConnection, OnRemoveConnection, OnUpdateConnection,
         OnConnectionStateChange, OnActiveConnectRemove, Handle
<1>2. Handled(page', disturbed')
  BY AddConnectionHandled, RemoveConnectionHandled, UpdateConnectionHandled,
     StateChangeHandled, ActiveRemoveHandled DEF Signals, FollowInv
<1>3. Effects
  BY AddConnectionEffects, RemoveConnectionEffects, UpdateConnectionEffects,
     StateChangeEffects, ActiveRemoveEffects DEF Signals
<1>4. Remembered
  BY DEF Signals, OnAddConnection, OnRemoveConnection, OnUpdateConnection,
         OnConnectionStateChange, OnActiveConnectRemove
<1>5. QED
  BY <1>1, <1>2, <1>3, <1>4, FollowHandled

LEMMA FollowStep == FollowInv /\ [Next]_vars => FollowInv'
<1> SUFFICES ASSUME FollowInv, [Next]_vars PROVE FollowInv'
  OBVIOUS
<1>1. IInv'
  BY Step DEF FollowInv
<1>2. CASE NetworkManager
  BY <1>1, <1>2, NetworkManagerFollows
<1>3. CASE Signals
  BY <1>1, <1>3, SignalsFollow
<1>4. CASE \E d \in Device \cup {AnyIface}, on, listed \in BOOLEAN : Redraw(d, on, listed)
  BY <1>1, <1>4, FollowRedraw
<1>5. CASE UNCHANGED vars
  <2>1. /\ page' = page /\ profile' = profile /\ active' = active /\ up' = up /\ feed' = feed
        /\ disturbed' = disturbed /\ A' = A /\ I' = I /\ unmoved' = unmoved /\ undrawn' = undrawn
    BY <1>5 DEF vars, A, I
  <2>2. QueueInv'
    BY <2>1 DEF FollowInv, QueueInv, UniquePaths, Sole, RemovedFirst, UpLast, UpStrong, IsStrong,
           Strong, IsActiveConnection, At
  <2>3. /\ dev' = dev /\ Mine' = Mine /\ Rest' = Rest /\ (Shown' <=> Shown)
        /\ \A c : /\ Firm(c)' <=> Firm(c)
                  /\ IsActiveConnection(c)' <=> IsActiveConnection(c)
                  /\ (Between(c)' <=> Between(c)) /\ (Leaving(c)' <=> Leaving(c))
                  /\ UpOn(c, dev)' <=> UpOn(c, dev)
                  /\ ActiveOn(c, dev)' <=> ActiveOn(c, dev)
                  /\ IsStrong(c)' <=> IsStrong(c)
                  /\ Fits(c, dev)' <=> Fits(c, dev)
    BY <2>1 DEF dev, Mine, Rest, Shown, Firm, AddIn, IsActiveConnection, At, Between, Leaving, UpOn,
           ActiveOn, IsStrong, Strong, Fits
  <2>4. PathKnown'
    BY <2>1, <2>3 DEF FollowInv, PathKnown
  <2>5. Behind' /\ Gone' /\ Placed'
    BY <2>1, <2>3 DEF FollowInv, ShowsInv, Behind, Gone, Placed, UpOn, Strong, dev
  <2>6. Shows' /\ SaysUp' /\ NotListed'
    BY <2>1, <2>3 DEF FollowInv, ShowsInv, ListsInv, Shows, SaysUp, NotListed, UpIn, ActiveOn, dev
  <2>7. Fitting' /\ Listed'
    BY <2>1, <2>3 DEF FollowInv, ListsInv, Fitting, Listed, DownIn, AddIn, UpdateIn, Fits, dev
  <2>8. SaysDown'
    BY <2>1, <2>3 DEF FollowInv, ListsInv, SaysDown, UpIn, DownIn, AddIn
  <2>9. QED
    BY <1>1, <2>2, <2>4, <2>5, <2>6, <2>7, <2>8 DEF FollowInv, ShowsInv, ListsInv
<1>6. CASE \E d \in Device : SetDefaultWiredDevice(d)
  BY <1>1, <1>6, FollowSetDefault
<1>7. QED
  BY <1>2, <1>3, <1>4, <1>5, <1>6 DEF Next

LEMMA FollowInvariance == Spec => []FollowInv
<1>1. QED
  BY FollowInit, FollowStep, PTL DEF Spec

\* The wired page's active list is never empty, and it says "not connected" beside no
\* connection but those about to leave it: no handler leaves the list without an item
\* (onRemoveConnection and updateConnectionArea put the placeholder there), and none adds
\* one and leaves the placeholder (updateActivatedConnectionArea); a profile drawn ahead of
\* its signals excepted.
THEOREM NotConnectedAlone == Spec => []PlaceholderAlone
<1>1. FollowInv => PlaceholderAlone
  BY DEF FollowInv, ShowsInv, Placed, PlaceholderAlone, A
<1>2. QED
  BY <1>1, FollowInvariance, PTL

\* With nothing queued nothing is owed.
LEMMA QuietLists == FollowInv => ListsFollow
<1> SUFFICES ASSUME FollowInv, Quiet, Shown PROVE ListsFollow
  BY DEF ListsFollow
<1> DEFINE on == {ac.conn : ac \in GetActiveConnectionList(dev)}
<1>1. /\ up /\ DOMAIN feed = {} /\ TablesInv /\ page \in Page /\ KnownInv /\ AllUp
      /\ \A i \in DOMAIN active :
           /\ active[i].state = "Activated" /\ active[i].conn \in DOMAIN profile
           /\ active[i].conn \in Conn
  <2>1. \A i \in DOMAIN active : active[i] \in ActiveConnection
    BY DEF FollowInv, IInv, TablesInv, FeedType
  <2>2. QED
    BY <2>1 DEF Quiet, FollowInv, IInv, ShownInv, ActiveConnection
<1>2. \A c : /\ ~AddIn(feed, c) /\ ~UpIn(feed, c) /\ ~DownIn(feed, c) /\ ~UpdateIn(feed, c)
             /\ ~Leaving(c) /\ ~Between(c) /\ (IsStrong(c) => IsActiveConnection(c))
  BY <1>1 DEF AddIn, UpIn, DownIn, UpdateIn, Leaving, Between, At, IsStrong, IsActiveConnection
<1>3. \A c : c \in on <=> ActiveOn(c, dev)
  BY DEF GetActiveConnectionList, ActiveOn
<1>4. \A c : /\ UpOn(c, dev) <=> ActiveOn(c, dev)
             /\ ActiveOn(c, dev) => c \in DOMAIN profile /\ c # Empty /\ IsActiveConnection(c)
  <2>1. \A c : UpOn(c, dev) => ActiveOn(c, dev)
    BY <1>1 DEF UpOn, ActiveOn
  <2>2. \A c : ActiveOn(c, dev) => c \in DOMAIN profile /\ c # Empty
    BY <1>1, ConnectionAssumption DEF ActiveOn
  <2>3. QED
    BY <2>1, <2>2, OnSomeDevice
<1>5. \A c \in Mine : ActiveOn(c, dev)
  BY <1>1, <1>2, <1>4 DEF AllUp, Mine, dev
<1>6. \A c : c \in on \ disturbed => c \in Mine
  BY <1>2, <1>3, <1>4 DEF FollowInv, ShowsInv, Shows, Mine
<1>7. (DOMAIN A \ {Empty}) \ disturbed = on \ disturbed
  BY <1>3, <1>5, <1>6 DEF Mine
<1>8. \A c \in on \ disturbed : A[c].state = "Activated"
  BY <1>2, <1>3, <1>4, <1>6 DEF FollowInv, ShowsInv, SaysUp
<1>9. \A c \in Rest : c \in DOMAIN profile /\ Firm(c)
  <2>1. \A c \in Rest : Known(feed, I[c].path, c)
    BY <1>1 DEF KnownInv, Rest
  <2>2. QED
    BY <1>1, <1>2, <2>1 DEF Known, Current, Removed, Firm
<1>10. \A c \in Rest : /\ Fits(c, dev) \/ c \in unmoved
                       /\ ~IsActiveConnection(c) /\ I[c].state = "Deactivated"
  BY <1>1, <1>2, <1>9 DEF FollowInv, ListsInv, Fitting, NotListed, SaysDown
<1>11. \A c \in GetConnectionList(dev) \ disturbed : c \in DOMAIN I
  BY <1>1, <1>2 DEF GetConnectionList, FollowInv, ListsInv, Listed
<1>12. DOMAIN I \ disturbed \subseteq GetConnectionList(dev) \cup unmoved
  BY <1>9, <1>10 DEF GetConnectionList, Rest
<1> HIDE DEF on
<1>13. QED
  BY <1>7, <1>8, <1>10, <1>11, <1>12 DEF ListsFollow, A, I, dev, Rest, on

\* When all signals are handled and no connection is going up or down, the two lists are
\* NetworkManager's connections and profiles of the device, each with the state it has,
\* whatever the handlers looked up ahead of their signals; a profile drawn ahead excepted.
THEOREM ListsAreNetworkManagers == Spec => []ListsFollow
<1>1. QED
  BY QuietLists, FollowInvariance, PTL
=============================================================================
