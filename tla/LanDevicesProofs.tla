-------------------------- MODULE LanDevicesProofs --------------------------
(***************************************************************************)
(* The wired page's lists of devices, its drop-down box, what it shows and *)
(* its switch, for every set of devices and names and every length of the  *)
(* queues.                                                                 *)
(*                                                                         *)
(* The switch is set in three places: from a signal, from NetworkManager   *)
(* ahead of the signals when a device is added, and to off with the last   *)
(* device; and a signal that finds no device is dropped.  The invariant    *)
(* SwitchInv is about the signals still queued: the last one says what     *)
(* NetworkManager's switch is now, and when there is none the page's       *)
(* switch is right, unless no device is listed.                            *)
(*                                                                         *)
(* The lists need more of the queue.  PageInv says that the signals, taken *)
(* in order, lead from the names the resource has to the names the devices *)
(* have (Told), that no two devices ever have one name on the way, and     *)
(* that a listed name is one the resource has.  From this a device added   *)
(* or renamed has a name that is not listed yet, so the lists stay without *)
(* repetition and in two parts (Parted).  NewsInv adds, where no device is *)
(* renamed, that what the lists do not show yet is in a queued signal.     *)
(***************************************************************************)
EXTENDS LanDevices, SequenceTheorems, FiniteSetTheorems, WellFoundedInduction, TLAPS

Switch == {"wiredEnabled", "wiredDisabled"}
Other ==
  {"deviceAdd", "deviceRemove", "deviceUpdate", "deviceManagedChange", "deviceCarrierChanage"}
Said(on) == IF on THEN "wiredEnabled" ELSE "wiredDisabled"

Signal ==
  [sig : Switch \cup Other, dev : Device \cup {{}}, name : Name \cup {NoName}]

\* No signal of the switch is queued; the last one queued says what it is.
Unsaid(f) == \A i \in DOMAIN f : f[i].sig \notin Switch
SaidLast(f, on) ==
  \A i \in DOMAIN f :
    f[i].sig \in Switch /\ (\A j \in DOMAIN f : j > i => f[j].sig \notin Switch)
      => f[i].sig = Said(on)

IsPage(p) == {"on", "m_devList"} \subseteq DOMAIN p /\ p.on \in BOOLEAN

\* A function of the page that has nothing to do with the switch.
Keeps(p, q) == IsPage(q) /\ q.on = p.on /\ q.m_devList = p.m_devList

\* A handler: what it leaves on the page is right, or was there before.
Follows(p, q) ==
  /\ IsPage(q)
  /\ q.m_devList # <<>> => q.on = wiredEnabled \/ (p.m_devList # <<>> /\ q.on = p.on)

NicType ==
  /\ DOMAIN nic \subseteq Device
  /\ \A d \in DOMAIN nic : nic[d] \in [name : Name, managed : BOOLEAN, seen : BOOLEAN]

SwitchInv ==
  /\ NicType /\ wiredEnabled \in BOOLEAN /\ feed \in Seq(Signal) /\ IsPage(page)
  /\ SaidLast(feed, wiredEnabled)
  /\ Unsaid(feed) /\ page.m_devList # <<>> => page.on = wiredEnabled

-----------------------------------------------------------------------------
(* The queue.                                                              *)

LEMMA SaidTail ==
  ASSUME NEW f \in Seq(Signal), f # <<>>, NEW on, SaidLast(f, on)
  PROVE  /\ Head(f) \in Signal /\ Tail(f) \in Seq(Signal) /\ SaidLast(Tail(f), on)
         /\ Unsaid(Tail(f)) => IF Head(f).sig \in Switch THEN Head(f).sig = Said(on)
                                                         ELSE Unsaid(f)
<1> DEFINE t == Tail(f)
<1>1. /\ Head(f) = f[1] /\ Head(f) \in Signal /\ t \in Seq(Signal) /\ Len(t) = Len(f) - 1
      /\ Len(f) \in Nat \ {0} /\ \A i \in 1..Len(t) : t[i] = f[i + 1]
  BY HeadTailProperties
<1> HIDE DEF t
<1>2. SaidLast(t, on)
  <2>1. SUFFICES ASSUME NEW i \in 1..Len(t), t[i].sig \in Switch,
                        \A j \in 1..Len(t) : j > i => t[j].sig \notin Switch
                 PROVE  t[i].sig = Said(on)
    BY <1>1 DEF SaidLast
  <2>2. \A j \in 1..Len(f) : j > i + 1 => f[j].sig \notin Switch
    <3>1. SUFFICES ASSUME NEW j \in 1..Len(f), j > i + 1 PROVE f[j].sig \notin Switch
      OBVIOUS
    <3>2. j - 1 \in 1..Len(t) /\ j - 1 > i /\ f[j] = t[j - 1]
      BY <1>1, <3>1
    <3>3. QED
      BY <2>1, <3>2
  <2>3. i + 1 \in 1..Len(f) /\ f[i + 1] = t[i]
    BY <1>1
  <2>4. QED
    BY <2>1, <2>2, <2>3 DEF SaidLast
<1>3. ASSUME Unsaid(t)
      PROVE  IF Head(f).sig \in Switch THEN Head(f).sig = Said(on) ELSE Unsaid(f)
  <2>1. \A j \in 1..Len(f) : j > 1 => f[j].sig \notin Switch
    <3>1. SUFFICES ASSUME NEW j \in 1..Len(f), j > 1 PROVE f[j].sig \notin Switch
      OBVIOUS
    <3>2. j - 1 \in 1..Len(t) /\ f[j] = t[j - 1]
      BY <1>1, <3>1
    <3>3. QED
      BY <1>1, <1>3, <3>2 DEF Unsaid
  <2>2. 1 \in 1..Len(f) /\ \A j \in 1..Len(f) : j = 1 \/ j > 1
    BY <1>1
  <2>3. QED
    BY <1>1, <2>1, <2>2 DEF SaidLast, Unsaid
<1>4. QED
  BY <1>1, <1>2, <1>3 DEF t

LEMMA SaidAppend ==
  ASSUME NEW f \in Seq(Signal), NEW m \in Signal, NEW on,
         IF m.sig \in Switch THEN m.sig = Said(on) ELSE SaidLast(f, on)
  PROVE  /\ Append(f, m) \in Seq(Signal) /\ SaidLast(Append(f, m), on)
         /\ Unsaid(Append(f, m)) => m.sig \notin Switch /\ Unsaid(f)
<1> DEFINE g == Append(f, m)
<1>1. /\ g \in Seq(Signal) /\ Len(g) = Len(f) + 1 /\ g[Len(f) + 1] = m
      /\ \A i \in 1..Len(f) : g[i] = f[i]
  BY AppendProperties
<1> HIDE DEF g
<1>2. Len(f) + 1 \in 1..Len(g) /\ \A i \in 1..Len(f) : i \in 1..Len(g) /\ i < Len(f) + 1
  BY <1>1
<1>3. \A i \in 1..Len(g) : i = Len(f) + 1 \/ i \in 1..Len(f)
  BY <1>1
<1>4. SaidLast(g, on)
  <2>1. SUFFICES ASSUME NEW i \in 1..Len(g), g[i].sig \in Switch,
                        \A j \in 1..Len(g) : j > i => g[j].sig \notin Switch
                 PROVE  g[i].sig = Said(on)
    BY <1>1 DEF SaidLast
  <2>2. CASE i = Len(f) + 1
    BY <1>1, <2>1, <2>2
  <2>3. CASE i \in 1..Len(f)
    <3>1. m.sig \notin Switch
      BY <1>1, <1>2, <2>1, <2>3
    <3>2. f[i].sig \in Switch /\ \A j \in 1..Len(f) : j > i => f[j].sig \notin Switch
      BY <1>1, <1>2, <2>1, <2>3
    <3>3. QED
      BY <1>1, <2>3, <3>1, <3>2 DEF SaidLast
  <2>4. QED
    BY <1>3, <2>2, <2>3
<1>5. Unsaid(g) => m.sig \notin Switch /\ Unsaid(f)
  BY <1>1, <1>2 DEF Unsaid
<1>6. QED
  BY <1>1, <1>4, <1>5 DEF g

-----------------------------------------------------------------------------
(* The page's functions that keep the switch and the listed devices.       *)

LEMMA KeepsTransitive ==
  ASSUME NEW p, NEW q, NEW r, Keeps(p, q), Keeps(q, r)
  PROVE  Keeps(p, r)
BY DEF Keeps

LEMMA SetDefaultKeeps ==
  ASSUME NEW p, NEW n, IsPage(p) PROVE Keeps(p, SetDefault(p, n))
BY DEF SetDefault, IsPage, Keeps

LEMMA AddItemsKeeps ==
  ASSUME NEW p, NEW items, IsPage(p) PROVE Keeps(p, AddItems(p, items))
BY DEF AddItems, IsPage, Keeps

LEMMA InitLanAreaKeeps ==
  ASSUME NEW p, IsPage(p) PROVE Keeps(p, InitLanArea(p))
BY DEF InitLanArea, IsPage, Keeps

LEMMA InitLanDeviceStateKeeps ==
  ASSUME NEW p, IsPage(p) PROVE Keeps(p, InitLanDeviceState(p))
BY DEF InitLanDeviceState, IsPage, Keeps

LEMMA InitDeviceComboxKeeps ==
  ASSUME NEW p, IsPage(p) PROVE Keeps(p, InitDeviceCombox(p))
<1>1. PICK n, items, i :
        InitDeviceCombox(p) = [SetDefault(p, n) EXCEPT !.combo = items, !.index = i]
  BY DEF InitDeviceCombox
<1>2. Keeps(p, SetDefault(p, n))
  BY SetDefaultKeeps
<1>3. \A q : IsPage(q) => Keeps(q, [q EXCEPT !.combo = items, !.index = i])
  BY DEF IsPage, Keeps
<1>4. Keeps(SetDefault(p, n), InitDeviceCombox(p))
  BY <1>1, <1>2, <1>3 DEF Keeps
<1>5. QED
  BY <1>2, <1>4, KeepsTransitive

LEMMA RebuiltKeeps ==
  ASSUME NEW p, IsPage(p) PROVE Keeps(p, Rebuilt(p))
<1>1. Keeps(p, InitLanDeviceState(p))
  BY InitLanDeviceStateKeeps
<1>2. Keeps(InitLanDeviceState(p), InitDeviceCombox(InitLanDeviceState(p)))
  BY <1>1, InitDeviceComboxKeeps DEF Keeps
<1>3. Keeps(p, InitDeviceCombox(InitLanDeviceState(p)))
  BY <1>1, <1>2, KeepsTransitive
<1>4. Keeps(InitDeviceCombox(InitLanDeviceState(p)), Rebuilt(p))
  BY <1>3, InitLanAreaKeeps DEF Keeps, Rebuilt
<1>5. QED
  BY <1>3, <1>4, KeepsTransitive

LEMMA AddDeviceForComboxKeeps ==
  ASSUME NEW p, NEW n, IsPage(p) PROVE Keeps(p, AddDeviceForCombox(p, n))
<1>1. Keeps(p, p)
  BY DEF Keeps
<1>2. QED
  BY <1>1, SetDefaultKeeps, AddItemsKeeps DEF AddDeviceForCombox

LEMMA DeleteDeviceFromComboxKeeps ==
  ASSUME NEW p, NEW n, NEW next, IsPage(p) PROVE Keeps(p, DeleteDeviceFromCombox(p, n, next))
<1> DEFINE wasNow == p.m_currentDeviceName = n
           others == {i \in DOMAIN p.combo : p.combo[i] # n}
           at     == FindData(p.combo, n)
           less   == [p EXCEPT !.combo = RemoveAt(@, at),
                               !.index = IF @ = at THEN next ELSE IF @ > at THEN @ - 1 ELSE @]
           data   == IF less.index \in DOMAIN less.combo THEN less.combo[less.index] ELSE NoName
           last   == IF wasNow /\ others # {} THEN SetDefault(p, p.combo[Max(others)]) ELSE p
           none   == [last EXCEPT !.combo = <<>>, !.index = 0]
<1>1. DeleteDeviceFromCombox(p, n, next)
        \in {SetDefault(p, NoName), none, SetDefault(less, data), less, p}
  BY DEF DeleteDeviceFromCombox
<1>2. Keeps(p, p) /\ Keeps(p, less)
  BY DEF IsPage, Keeps
<1>3. Keeps(p, last)
  BY <1>2, SetDefaultKeeps
<1>4. Keeps(p, none)
  <2> HIDE DEF last
  <2> QED BY <1>3 DEF IsPage, Keeps
<1>5. Keeps(p, SetDefault(less, data))
  <2> HIDE DEF less, data
  <2>1. Keeps(less, SetDefault(less, data))
    BY <1>2, SetDefaultKeeps DEF Keeps
  <2>2. QED
    BY <1>2, <2>1, KeepsTransitive
<1> HIDE DEF none, less, data
<1>6. QED
  BY <1>1, <1>2, <1>4, <1>5, SetDefaultKeeps

LEMMA SetCurrentIndexKeeps ==
  ASSUME NEW p, NEW i, IsPage(p) PROVE Keeps(p, SetCurrentIndex(p, i))
<1> DEFINE q == [p EXCEPT !.index = i, !.m_currentDeviceName = p.combo[i]]
<1>1. Keeps(p, p) /\ Keeps(p, q)
  BY DEF IsPage, Keeps
<1>2. Keeps(q, InitLanArea(q))
  BY <1>1, InitLanAreaKeeps DEF Keeps
<1>3. Keeps(p, InitLanArea(q))
  BY <1>1, <1>2, KeepsTransitive
<1>4. QED
  BY <1>1, <1>3 DEF SetCurrentIndex

LEMMA UpdateDeviceComboxKeeps ==
  ASSUME NEW p, NEW old, NEW new, IsPage(p) PROVE Keeps(p, UpdateDeviceCombox(p, old, new))
<1>1. Keeps(p, p)
  BY DEF Keeps
<1>2. QED
  BY <1>1, SetDefaultKeeps DEF UpdateDeviceCombox

LEMMA KeepsFollows ==
  ASSUME NEW p, NEW q, Keeps(p, q) PROVE Follows(p, q)
BY DEF Keeps, Follows

-----------------------------------------------------------------------------
(* The handlers that list and forget devices.                              *)

LEMMA DeviceAddedFollows ==
  ASSUME IsPage(page), NEW n, wiredEnabled \in BOOLEAN
  PROVE  Follows(page, DeviceAdded(page, n))
<1>1. PICK c, l, e, d, listed :
        /\ listed = [page EXCEPT !.on = wiredEnabled, !.m_currentDeviceName = c, !.m_devList = l,
                                 !.m_enableDeviceList = e, !.m_disableDeviceList = d]
        /\ LET added == AddDeviceForCombox(listed, n)
           IN DeviceAdded(page, n) \in {added, InitLanArea(added)}
  BY DEF DeviceAdded
<1>2. IsPage(listed) /\ listed.on = wiredEnabled
  BY <1>1 DEF IsPage
<1> DEFINE added == AddDeviceForCombox(listed, n)
<1>3. Keeps(listed, added)
  BY <1>2, AddDeviceForComboxKeeps
<1>4. Keeps(added, InitLanArea(added))
  BY <1>3, InitLanAreaKeeps DEF Keeps
<1>5. QED
  BY <1>1, <1>2, <1>3, <1>4 DEF Keeps, Follows

LEMMA DeviceRemovedFollows ==
  ASSUME IsPage(page), NEW n, NEW next, page.m_devList # <<>>
  PROVE  Follows(page, DeviceRemoved(page, n, next))
<1> DEFINE left == RemoveFirst(page.m_devList, n)
           less == [page EXCEPT !.m_devList = left, !.on = @ /\ left # <<>>]
           gone == DeleteDeviceFromCombox(less, n, next)
           set  == SetDefault(gone, gone.m_currentDeviceName)
<1>1. /\ IsPage(less) /\ less.m_devList = left
      /\ left # <<>> => less.on = page.on
  BY DEF IsPage
<1>2. Keeps(less, gone)
  <2> HIDE DEF less
  <2> QED BY <1>1, DeleteDeviceFromComboxKeeps
<1> DEFINE redrawn == IF page.m_currentDeviceName = n \/ left = <<>> THEN InitLanArea(set) ELSE gone
<1>3. DeviceRemoved(page, n, next) =
        [redrawn EXCEPT !.m_enableDeviceList  = RemoveFirst(@, n),
                        !.m_disableDeviceList = RemoveFirst(@, n)]
  BY DEF DeviceRemoved
<1> HIDE DEF gone
<1>4. Keeps(gone, gone) /\ Keeps(gone, set)
  BY <1>2, SetDefaultKeeps DEF Keeps
<1> HIDE DEF set, less
<1>5. Keeps(set, InitLanArea(set))
  BY <1>4, InitLanAreaKeeps DEF Keeps
<1>6. Keeps(gone, redrawn)
  BY <1>4, <1>5, KeepsTransitive
<1> HIDE DEF redrawn
<1>7. Keeps(redrawn, DeviceRemoved(page, n, next))
  BY <1>3, <1>6 DEF Keeps, IsPage
<1>8. Keeps(less, DeviceRemoved(page, n, next))
  BY <1>2, <1>6, <1>7, KeepsTransitive
<1>9. QED
  BY <1>1, <1>8 DEF Keeps, Follows

LEMMA DeviceNameUpdatedFollows ==
  ASSUME IsPage(page), NEW old, NEW new, page.m_devList # <<>>
  PROVE  Follows(page, DeviceNameUpdated(page, old, new))
<1>1. PICK l, e, d, listed :
        /\ listed = [page EXCEPT !.m_devList = l, !.m_enableDeviceList = e,
                                 !.m_disableDeviceList = d]
        /\ LET moved == UpdateDeviceCombox(listed, old, new)
           IN DeviceNameUpdated(page, old, new) \in {moved, InitLanArea(moved)}
  BY DEF DeviceNameUpdated
<1>2. IsPage(listed) /\ listed.on = page.on
  BY <1>1 DEF IsPage
<1> DEFINE moved == UpdateDeviceCombox(listed, old, new)
<1>3. Keeps(listed, moved)
  BY <1>2, UpdateDeviceComboxKeeps
<1>4. Keeps(moved, InitLanArea(moved))
  BY <1>3, InitLanAreaKeeps DEF Keeps
<1>5. QED
  BY <1>1, <1>2, <1>3, <1>4 DEF Keeps, Follows

-----------------------------------------------------------------------------
(* The invariant is inductive.                                             *)

LEMMA InitSwitch == ASSUME Init PROVE SwitchInv
<1>1. NicType
  BY DEF Init, NicType
<1>2. wiredEnabled \in BOOLEAN /\ feed = <<>>
  BY DEF Init
<1>3. PICK old, devs : page = Constructed(devs, old)
  BY DEF Init
<1> DEFINE p == [m_devList |-> devs, m_enableDeviceList |-> <<>>, m_disableDeviceList |-> <<>>,
                 m_currentDeviceName |-> old, default |-> old, combo |-> <<>>, index |-> 0,
                 on |-> wiredEnabled, shown |-> NoName]
           q == InitDeviceCombox(InitLanDeviceState(p))
<1>4. IsPage(p) /\ p.on = wiredEnabled
  BY <1>2 DEF IsPage
<1>5. page = InitLanArea(q)
  BY <1>3 DEF Constructed
<1> HIDE DEF p
<1>6. Keeps(p, InitLanDeviceState(p))
  BY <1>4, InitLanDeviceStateKeeps
<1>7. Keeps(InitLanDeviceState(p), q)
  BY <1>6, InitDeviceComboxKeeps DEF Keeps
<1>8. Keeps(q, page)
  BY <1>5, <1>7, InitLanAreaKeeps DEF Keeps
<1>9. IsPage(page) /\ page.on = wiredEnabled
  BY <1>4, <1>6, <1>7, <1>8 DEF Keeps
<1>10. feed \in Seq(Signal) /\ DOMAIN feed = {}
  BY <1>2
<1>11. QED
  BY <1>1, <1>2, <1>9, <1>10 DEF SwitchInv, SaidLast

\* A signal about a device is queued.
LEMMA OtherSentInv ==
  ASSUME SwitchInv, NicType', NEW d \in Device, NEW n \in Name,
         NEW sig \in Other,
         Emit(sig, d, n), UNCHANGED <<wiredEnabled, page>>
  PROVE  SwitchInv'
<1> DEFINE m == [sig |-> sig, dev |-> d, name |-> n]
<1>1. m \in Signal
  BY DEF Signal
<1>2. m.sig \notin Switch /\ feed' = Append(feed, m)
  BY DEF Emit, Switch, Other
<1> HIDE DEF m
<1>3. /\ feed' \in Seq(Signal) /\ SaidLast(feed', wiredEnabled)
      /\ Unsaid(feed') => Unsaid(feed)
  BY <1>1, <1>2, SaidAppend DEF SwitchInv
<1>4. QED
  BY <1>3 DEF SwitchInv

\* NetworkManager's steps: its devices, and at most one signal about one of them.
LEMMA NetworkManagerInv ==
  ASSUME SwitchInv, NetworkManager
  PROVE  SwitchInv'
<1>1. NicType
  BY DEF SwitchInv
<1>2. ASSUME NEW d \in Device, NEW n \in Name, NEW managed \in BOOLEAN, PlugIn(d, n, managed)
      PROVE  SwitchInv'
  <2>1. NicType'
    BY <1>1, <1>2 DEF PlugIn, NicType
  <2>2. Emit("deviceAdd", d, n) /\ UNCHANGED <<wiredEnabled, page>>
    BY <1>2 DEF PlugIn
  <2>3. QED
    BY <2>1, <2>2, OtherSentInv DEF Other
<1>3. ASSUME NEW d \in Device, Unplug(d) PROVE SwitchInv'
  <2>1. NicType' /\ nic[d].name \in Name
    BY <1>1, <1>3 DEF Unplug, NicType
  <2>2. Emit("deviceRemove", d, nic[d].name) /\ UNCHANGED <<wiredEnabled, page>>
    BY <1>3 DEF Unplug
  <2>3. QED
    BY <2>1, <2>2, OtherSentInv DEF Other
<1>4. ASSUME NEW d \in Device, NEW n \in Name, Rename(d, n) PROVE SwitchInv'
  <2>1. NicType'
    BY <1>1, <1>4 DEF Rename, NicType
  <2>2. Emit("deviceUpdate", d, n) /\ UNCHANGED <<wiredEnabled, page>>
    BY <1>4 DEF Rename
  <2>3. QED
    BY <2>1, <2>2, OtherSentInv DEF Other
<1>5. ASSUME NEW d \in Device, ChangeManaged(d) PROVE SwitchInv'
  <2>1. NicType'
    BY <1>1, <1>5 DEF ChangeManaged, NicType
  <2>2. QED
    BY <1>5, <2>1 DEF ChangeManaged, SwitchInv
<1>6. ASSUME NEW d \in Device, SeeManaged(d) PROVE SwitchInv'
  <2>1. NicType' /\ nic[d].name \in Name
    BY <1>1, <1>6 DEF SeeManaged, NicType
  <2>2. Emit("deviceManagedChange", d, nic[d].name) /\ UNCHANGED <<wiredEnabled, page>>
    BY <1>6 DEF SeeManaged
  <2>3. QED
    BY <2>1, <2>2, OtherSentInv DEF Other
<1>7. ASSUME NEW d \in Device, PlugCable(d) PROVE SwitchInv'
  <2>1. NicType' /\ nic[d].name \in Name
    BY <1>1, <1>7 DEF PlugCable, NicType, nm
  <2>2. Emit("deviceCarrierChanage", d, nic[d].name) /\ UNCHANGED <<wiredEnabled, page>>
    BY <1>7 DEF PlugCable, nm
  <2>3. QED
    BY <2>1, <2>2, OtherSentInv DEF Other
<1>8. ASSUME NEW d \in Device, NEW enable \in BOOLEAN, SetDeviceSwitch(d, enable)
      PROVE  SwitchInv'
  BY <1>8 DEF SetDeviceSwitch, nm, NicType, SwitchInv
<1>9. ASSUME SetWiredEnabled PROVE SwitchInv'
  <2> DEFINE m == [sig |-> IF wiredEnabled THEN "wiredDisabled" ELSE "wiredEnabled",
                   dev |-> {}, name |-> NoName]
  <2>1. wiredEnabled' = ~wiredEnabled /\ feed' = Append(feed, m) /\ UNCHANGED <<nic, page>>
    BY <1>9 DEF SetWiredEnabled, Emit
  <2>2. m \in Signal /\ m.sig \in Switch /\ m.sig = Said(wiredEnabled')
    <3>1. wiredEnabled \in BOOLEAN
      BY DEF SwitchInv
    <3>2. m.sig = Said(wiredEnabled') /\ m.sig \in Switch
      BY <2>1, <3>1 DEF Said, Switch
    <3>3. m \in Signal
      BY DEF Signal, Switch
    <3>4. QED
      BY <3>2, <3>3
  <2> HIDE DEF m
  <2>3. /\ feed' \in Seq(Signal) /\ SaidLast(feed', wiredEnabled')
        /\ ~Unsaid(feed')
    BY <2>1, <2>2, SaidAppend DEF SwitchInv
  <2>4. NicType'
    BY <1>1, <2>1 DEF NicType
  <2>5. QED
    BY <2>1, <2>3, <2>4 DEF SwitchInv
<1>10. QED
  BY <1>2, <1>3, <1>4, <1>5, <1>6, <1>7, <1>8, <1>9 DEF NetworkManager

\* A handler of a signal that is not of the switch.
LEMMA HandledInv ==
  ASSUME SwitchInv, NEW sig, sig \notin Switch, Handle(sig), Follows(page, page')
  PROVE  SwitchInv'
<1>1. feed # <<>> /\ Head(feed).sig = sig /\ feed' = Tail(feed) /\ UNCHANGED nm
  BY DEF Handle, Msg
<1>2. feed' \in Seq(Signal) /\ SaidLast(feed', wiredEnabled) /\ (Unsaid(feed') => Unsaid(feed))
  BY <1>1, SaidTail DEF SwitchInv
<1>3. QED
  BY <1>1, <1>2 DEF SwitchInv, NicType, nm, Follows

LEMMA ContainsNotEmpty ==
  ASSUME NEW s, NEW e, Contains(s, e) PROVE s # <<>>
BY DEF Contains

LEMMA SignalsInv ==
  ASSUME SwitchInv, Signals
  PROVE  SwitchInv'
<1>1. IsPage(page) /\ wiredEnabled \in BOOLEAN /\ Follows(page, page)
  BY KeepsFollows DEF SwitchInv, Keeps
<1>2. ASSUME OnDeviceAdd PROVE SwitchInv'
  <2>1. page' \in {page, DeviceAdded(page, Msg.name)}
    BY <1>2 DEF OnDeviceAdd
  <2>2. Follows(page, page')
    BY <1>1, <2>1, DeviceAddedFollows
  <2>3. QED
    BY <1>2, <2>2, HandledInv DEF OnDeviceAdd, Switch
<1>3. ASSUME OnDeviceRemove PROVE SwitchInv'
  <2>1. \/ Contains(page.m_devList, Msg.name) /\ \E next : page' = DeviceRemoved(page, Msg.name, next)
        \/ page' = page
    BY <1>3 DEF OnDeviceRemove
  <2>2. Follows(page, page')
    BY <1>1, <2>1, ContainsNotEmpty, DeviceRemovedFollows
  <2>3. QED
    BY <1>3, <2>2, HandledInv DEF OnDeviceRemove, Switch
<1>4. ASSUME OnDeviceUpdate PROVE SwitchInv'
  <2>1. \/ /\ Contains(page.m_devList, m_deviceMap[Msg.dev])
           /\ page' = DeviceNameUpdated(page, m_deviceMap[Msg.dev], Msg.name)
        \/ page' = page
    BY <1>4 DEF OnDeviceUpdate
  <2>2. Follows(page, page')
    BY <1>1, <2>1, ContainsNotEmpty, DeviceNameUpdatedFollows
  <2>3. QED
    BY <1>4, <2>2, HandledInv DEF OnDeviceUpdate, Switch
<1>5. ASSUME OnDeviceManagedChange PROVE SwitchInv'
  <2>1. page' \in {page, Rebuilt(page)}
    BY <1>5 DEF OnDeviceManagedChange
  <2>2. Follows(page, page')
    BY <1>1, <2>1, RebuiltKeeps, KeepsFollows
  <2>3. QED
    BY <1>5, <2>2, HandledInv DEF OnDeviceManagedChange, Switch
<1>6. ASSUME OnDeviceCarriered PROVE SwitchInv'
  <2>1. page' = page \/ \E i : page' = SetCurrentIndex(page, i)
    BY <1>6 DEF OnDeviceCarriered
  <2>2. Follows(page, page')
    BY <1>1, <2>1, SetCurrentIndexKeeps, KeepsFollows
  <2>3. QED
    BY <1>6, <2>2, HandledInv DEF OnDeviceCarriered, Switch
<1>7. ASSUME OnWiredEnabledChanged PROVE SwitchInv'
  <2>1. PICK enabled \in BOOLEAN :
          /\ Handle(Said(enabled))
          /\ page' = IF page.m_devList = <<>> \/ page.on = enabled THEN page
                     ELSE Rebuilt([page EXCEPT !.on = enabled])
    BY <1>7 DEF OnWiredEnabledChanged, Said
  <2>2. feed # <<>> /\ Head(feed).sig = Said(enabled) /\ feed' = Tail(feed) /\ UNCHANGED nm
    BY <2>1 DEF Handle, Msg
  <2>3. /\ feed' \in Seq(Signal) /\ SaidLast(feed', wiredEnabled)
        /\ Unsaid(feed') => Said(enabled) = Said(wiredEnabled)
    BY <2>2, SaidTail DEF SwitchInv, Switch, Said
  <2>4. Said(enabled) = Said(wiredEnabled) => enabled = wiredEnabled
    BY <1>1 DEF Said
  <2>5. IsPage(page') /\ (page'.m_devList # <<>> => page'.on = enabled)
    <3> DEFINE p == [page EXCEPT !.on = enabled]
    <3>1. IsPage(p) /\ p.on = enabled
      BY <1>1 DEF IsPage
    <3> HIDE DEF p
    <3>2. IsPage(Rebuilt(p)) /\ Rebuilt(p).on = enabled
      BY <3>1, RebuiltKeeps DEF Keeps
    <3>3. page' = Rebuilt(p) \/ (page' = page /\ (page.m_devList = <<>> \/ page.on = enabled))
      BY <2>1 DEF p
    <3>4. QED
      BY <1>1, <3>2, <3>3
  <2>6. QED
    BY <1>1, <2>2, <2>3, <2>4, <2>5 DEF SwitchInv, NicType, nm
<1>8. QED
  BY <1>2, <1>3, <1>4, <1>5, <1>6, <1>7 DEF Signals

\* What a device switch changes.
LEMMA UpdateDeviceStateInv ==
  ASSUME SwitchInv, NEW n, NEW enable \in BOOLEAN, UpdateDeviceState(n, enable),
         UNCHANGED <<wiredEnabled, feed>>
  PROVE  SwitchInv'
<1>1. CASE UNCHANGED <<nic, page>>
  BY <1>1 DEF SwitchInv, NicType
<1>2. CASE ~UNCHANGED <<nic, page>>
  <2>1. nic' = [d \in DOMAIN nic |-> IF nic[d].name = n
                                       THEN [nic[d] EXCEPT !.managed = enable] ELSE nic[d]]
    BY <1>2 DEF UpdateDeviceState
  <2>2. NicType'
    BY <2>1 DEF SwitchInv, NicType
  <2>3. PICK e, d : page' = InitLanArea(InitDeviceCombox(
                      [page EXCEPT !.m_enableDeviceList = e, !.m_disableDeviceList = d]))
    BY <1>2 DEF UpdateDeviceState
  <2> DEFINE p == [page EXCEPT !.m_enableDeviceList = e, !.m_disableDeviceList = d]
  <2>4. Keeps(page, p)
    BY DEF SwitchInv, IsPage, Keeps
  <2> HIDE DEF p
  <2>5. Keeps(p, InitDeviceCombox(p))
    BY <2>4, InitDeviceComboxKeeps DEF Keeps
  <2>6. Keeps(InitDeviceCombox(p), page')
    BY <2>3, <2>5, InitLanAreaKeeps DEF Keeps, p
  <2>7. QED
    BY <2>2, <2>4, <2>5, <2>6 DEF Keeps, SwitchInv
<1>3. QED
  BY <1>1, <1>2

LEMMA CommandsInv ==
  ASSUME SwitchInv, OnSysWiredDevSwitchChanged \/ DisableTimeout \/ Requests
  PROVE  SwitchInv'
<1>1. CASE OnSysWiredDevSwitchChanged
  <2>1. UNCHANGED <<wiredEnabled, feed>>
    BY <1>1 DEF OnSysWiredDevSwitchChanged
  <2>2. UpdateDeviceState(Head(commands).name, TRUE) \/ UNCHANGED <<nic, page>>
    BY <1>1 DEF OnSysWiredDevSwitchChanged
  <2>3. QED
    BY <2>1, <2>2, UpdateDeviceStateInv DEF SwitchInv, NicType
<1>2. CASE DisableTimeout
  BY <1>2, UpdateDeviceStateInv DEF DisableTimeout
<1>3. CASE Requests
  <2>1. /\ \/ \E i : page' = SetCurrentIndex(page, i)
           \/ \E n : page' = SetDefault(page, n)
        /\ UNCHANGED <<nm, feed>>
    BY <1>3 DEF Requests, SelectDevice, SetDefaultWiredDevice
  <2>2. Keeps(page, page')
    BY <2>1, SetCurrentIndexKeeps, SetDefaultKeeps DEF SwitchInv
  <2>3. QED
    BY <2>1, <2>2 DEF SwitchInv, NicType, nm, Keeps
<1>4. QED
  BY <1>1, <1>2, <1>3

-----------------------------------------------------------------------------
(* Lists of names.                                                         *)

LEMMA LeastNatural ==
  ASSUME NEW T, T \subseteq Nat, T # {}
  PROVE  \E x \in T : \A y \in T : x <= y
<1>1. PICK x \in T : \A y \in T : ~(<<y, x>> \in OpToRel(<, Nat))
  BY NatLessThanWellFounded, WFMin, Zenon
<1>2. \A y \in T : ~(y < x)
  BY <1>1 DEF OpToRel
<1>3. \A y \in T : y \in Nat
  OBVIOUS
<1>4. QED
  BY <1>2, <1>3

LEMMA FindDataProperties ==
  ASSUME NEW S, NEW s \in Seq(S), NEW n
  PROVE  /\ FindData(s, n) \in 0..Len(s)
         /\ FindData(s, n) = 0 <=> ~Contains(s, n)
         /\ FindData(s, n) # 0 => s[FindData(s, n)] = n
<1> DEFINE places == {i \in 1..Len(s) : s[i] = n}
<1>1. FindData(s, n) = IF places # {} THEN Min(places) ELSE 0
  BY DEF FindData, SelectInSeq
<1>2. ASSUME places # {} PROVE Min(places) \in places
  <2>1. places \subseteq Nat
    OBVIOUS
  <2> HIDE DEF places
  <2>2. \E x \in places : \A y \in places : x <= y
    BY <1>2, <2>1, LeastNatural
  <2>3. QED
    BY <2>2 DEF Min
<1>3. QED
  BY <1>1, <1>2 DEF Contains

LEMMA RemoveAtProperties ==
  ASSUME NEW S, NEW q \in Seq(S), NEW i \in 1..Len(q)
  PROVE  LET r == RemoveAt(q, i)
         IN /\ r \in Seq(S) /\ Len(r) = Len(q) - 1
            /\ \A j \in 1..Len(r) : r[j] = IF j < i THEN q[j] ELSE q[j + 1]
<1> DEFINE a == SubSeq(q, 1, i - 1)
           b == SubSeq(q, i + 1, Len(q))
           r == RemoveAt(q, i)
<1>1. Len(q) \in Nat /\ i \in Nat /\ 1 <= i /\ i <= Len(q)
  OBVIOUS
<1>2. a \in Seq(S) /\ Len(a) = i - 1 /\ \A j \in 1..i - 1 : a[j] = q[j]
  <2>1. \A j \in 1..i - 1 : q[j] \in S
    BY <1>1
  <2>2. QED
    BY <1>1, <2>1, SubSeqProperties
<1>3. b \in Seq(S) /\ Len(b) = Len(q) - i /\ \A j \in 1..Len(q) - i : b[j] = q[j + i]
  <2>1. \A j \in i + 1..Len(q) : q[j] \in S
    BY <1>1
  <2>2. QED
    BY <1>1, <2>1, SubSeqProperties
<1> HIDE DEF a, b
<1>4. r = a \o b
  BY DEF RemoveAt, a, b
<1> HIDE DEF r
<1>5. /\ r \in Seq(S) /\ Len(r) = Len(a) + Len(b)
      /\ \A j \in 1..Len(a) + Len(b) : r[j] = IF j <= Len(a) THEN a[j] ELSE b[j - Len(a)]
  BY <1>2, <1>3, <1>4, ConcatProperties
<1>6. Len(r) = Len(q) - 1
  BY <1>1, <1>2, <1>3, <1>5
<1>7. ASSUME NEW j \in 1..Len(r) PROVE r[j] = IF j < i THEN q[j] ELSE q[j + 1]
  <2>1. CASE j < i
    BY <1>1, <1>2, <1>3, <1>5, <1>6, <2>1
  <2>2. CASE ~(j < i)
    <3>1. j - (i - 1) \in 1..Len(q) - i /\ (j - (i - 1)) + i = j + 1 /\ ~(j <= i - 1)
      BY <1>1, <1>6, <2>2
    <3>2. r[j] = b[j - (i - 1)]
      BY <1>2, <1>5, <1>6, <3>1
    <3>3. QED
      BY <1>3, <2>2, <3>1, <3>2
  <2>3. QED
    BY <2>1, <2>2
<1>8. QED
  BY <1>5, <1>6, <1>7 DEF r

\* A list of names without repetition, of these names.
Lists(s, T) == s \in Seq(Name) /\ IsInjective(s) /\ ToSet(s) = T

LEMMA RemoveFirstLists ==
  ASSUME NEW s, NEW T, Lists(s, T), NEW n
  PROVE  Lists(RemoveFirst(s, n), T \ {n})
<1>0. s \in Seq(Name) /\ Len(s) \in Nat /\ DOMAIN s = 1..Len(s)
  BY DEF Lists
<1>1. CASE \A i \in 1..Len(s) : s[i] # n
  <2>1. RemoveFirst(s, n) = s
    BY <1>1 DEF RemoveFirst
  <2>2. n \notin T
    BY <1>0, <1>1 DEF Lists, ToSet
  <2>3. QED
    BY <2>1, <2>2 DEF Lists
<1>2. CASE \E i \in 1..Len(s) : s[i] = n
  <2> DEFINE at == FindData(s, n)
             r == RemoveFirst(s, n)
  <2>1. r = RemoveAt(s, at)
    BY <1>2 DEF RemoveFirst, FindData
  <2>2. at \in 1..Len(s) /\ s[at] = n
    BY <1>0, <1>2, FindDataProperties DEF Contains
  <2> HIDE DEF at
  <2>3. /\ RemoveAt(s, at) \in Seq(Name) /\ Len(RemoveAt(s, at)) = Len(s) - 1
        /\ \A j \in 1..Len(RemoveAt(s, at)) : RemoveAt(s, at)[j] = IF j < at THEN s[j] ELSE s[j + 1]
    BY <1>0, <2>2, RemoveAtProperties
  <2> HIDE DEF r
  <2>4. /\ r \in Seq(Name) /\ DOMAIN r = 1..Len(s) - 1
        /\ \A j \in 1..Len(s) - 1 : r[j] = IF j < at THEN s[j] ELSE s[j + 1]
    BY <1>0, <2>1, <2>3
  <2> DEFINE from(j) == IF j < at THEN j ELSE j + 1
  <2>5. \A j \in 1..Len(s) - 1 : from(j) \in 1..Len(s) /\ from(j) # at /\ r[j] = s[from(j)]
    BY <1>0, <2>2, <2>4
  <2>6. \A i, j \in 1..Len(s) - 1 : from(i) = from(j) => i = j
    BY <1>0, <2>2
  <2>7. \A i \in 1..Len(s) : i # at => \E j \in 1..Len(s) - 1 : from(j) = i
    <3>1. SUFFICES ASSUME NEW i \in 1..Len(s), i # at
                   PROVE  \E j \in 1..Len(s) - 1 : from(j) = i
      OBVIOUS
    <3>2. CASE i < at
      <4>1. i \in 1..Len(s) - 1 /\ from(i) = i
        BY <1>0, <2>2, <3>2
      <4>2. QED
        BY <4>1
    <3>3. CASE i > at
      <4>1. i - 1 \in 1..Len(s) - 1 /\ from(i - 1) = i
        BY <1>0, <2>2, <3>3
      <4>2. QED
        BY <4>1
    <3>4. QED
      BY <1>0, <2>2, <3>1, <3>2, <3>3
  <2> HIDE DEF from
  <2>8. \A i, j \in 1..Len(s) : s[i] = s[j] => i = j
    BY <1>0 DEF Lists, IsInjective
  <2>9. IsInjective(r)
    BY <2>4, <2>5, <2>6, <2>8 DEF IsInjective
  <2>10. ASSUME NEW x PROVE x \in ToSet(r) <=> x \in ToSet(s) \ {n}
    <3>1. ASSUME NEW j \in 1..Len(s) - 1, x = r[j] PROVE x \in ToSet(s) \ {n}
      <4>1. x = s[from(j)] /\ from(j) \in 1..Len(s) /\ x # n
        BY <2>2, <2>5, <2>8, <3>1
      <4>2. QED
        BY <1>0, <4>1 DEF ToSet
    <3>2. ASSUME NEW i \in 1..Len(s), x = s[i], x # n PROVE x \in ToSet(r)
      <4>1. PICK j \in 1..Len(s) - 1 : from(j) = i
        BY <2>2, <2>7, <3>2
      <4>2. x = r[j]
        BY <2>5, <3>2, <4>1
      <4>3. QED
        BY <2>4, <4>2 DEF ToSet
    <3>3. QED
      BY <1>0, <2>4, <3>1, <3>2 DEF ToSet
  <2>11. ToSet(r) = T \ {n}
    BY <2>10 DEF Lists
  <2>12. QED
    BY <2>4, <2>9, <2>11 DEF Lists, r
<1>3. QED
  BY <1>1, <1>2

LEMMA AppendLists ==
  ASSUME NEW s, NEW T, Lists(s, T), NEW n \in Name, n \notin T
  PROVE  Lists(Append(s, n), T \cup {n})
<1> DEFINE r == Append(s, n)
<1>1. /\ s \in Seq(Name) /\ Len(s) \in Nat /\ DOMAIN s = 1..Len(s)
      /\ \A i, j \in 1..Len(s) : s[i] = s[j] => i = j
      /\ \A i \in 1..Len(s) : s[i] # n
  BY DEF Lists, ToSet, IsInjective
<1>2. /\ r \in Seq(Name) /\ Len(r) = Len(s) + 1 /\ r[Len(s) + 1] = n
      /\ \A i \in 1..Len(s) : r[i] = s[i]
  BY <1>1, AppendProperties
<1> HIDE DEF r
<1>3. DOMAIN r = 1..Len(s) + 1 /\ \A i \in 1..Len(s) + 1 : i = Len(s) + 1 \/ i \in 1..Len(s)
  BY <1>1, <1>2
<1>4. IsInjective(r)
  BY <1>1, <1>2, <1>3 DEF IsInjective
<1>5. ToSet(r) = ToSet(s) \cup {n}
  <2>1. Len(s) + 1 \in DOMAIN r /\ \A i \in 1..Len(s) : i \in DOMAIN r
    BY <1>1, <1>3
  <2>2. QED
    BY <1>1, <1>2, <1>3, <2>1 DEF ToSet
<1>6. QED
  BY <1>2, <1>4, <1>5 DEF Lists, r

LEMMA ContainsMember ==
  ASSUME NEW s, NEW T, Lists(s, T), NEW n
  PROVE  Contains(s, n) <=> n \in T
BY DEF Lists, Contains, ToSet

LEMMA RenamedInLists ==
  ASSUME NEW s, NEW T, Lists(s, T), NEW old, NEW new \in Name, new \notin T
  PROVE  Lists(RenamedIn(s, old, new), IF old \in T THEN (T \ {old}) \cup {new} ELSE T)
<1>1. Contains(s, old) <=> old \in T
  BY ContainsMember
<1>2. Lists(RemoveFirst(s, old), T \ {old})
  BY RemoveFirstLists
<1>3. Lists(Append(RemoveFirst(s, old), new), (T \ {old}) \cup {new})
  BY <1>2, AppendLists
<1>4. QED
  BY <1>1, <1>3 DEF RenamedIn

LEMMA EmptyLists == Lists(<<>>, {})
<1>1. <<>> \in Seq(Name) /\ DOMAIN <<>> = {}
  OBVIOUS
<1>2. QED
  BY <1>1 DEF Lists, IsInjective, ToSet

\* The loop of initLanDeviceState, as a function of the number of passes.
Loop(of, k, s, managed) ==
  of = [i \in 0..k |-> IF i = 0 THEN <<>>
                       ELSE IF Managed(s[i]) = managed THEN Append(of[i - 1], s[i])
                       ELSE of[i - 1]]

LEMMA LoopExists == ASSUME NEW s, NEW managed, NEW k \in Nat PROVE \E of : Loop(of, k, s, managed)
<1> DEFINE without == {n \in Nat : ~\E of : Loop(of, n, s, managed)}
<1>1. SUFFICES ASSUME without # {} PROVE FALSE
  OBVIOUS
<1>2. without \subseteq Nat
  OBVIOUS
<1> HIDE DEF without
<1>3. PICK n \in without : \A m \in without : n <= m
  BY <1>1, <1>2, LeastNatural
<1>4. n \in Nat /\ ~\E of : Loop(of, n, s, managed)
  BY <1>3 DEF without
<1>5. n # 0
  <2>1. Loop([i \in 0..0 |-> <<>>], 0, s, managed)
    <3>1. \A i \in 0..0 : i = 0
      OBVIOUS
    <3>2. QED
      BY <3>1 DEF Loop
  <2>2. QED
    BY <1>4, <2>1
<1>6. PICK f : Loop(f, n - 1, s, managed)
  <2>1. n - 1 \in Nat /\ ~(n <= n - 1)
    BY <1>4, <1>5
  <2>2. n - 1 \notin without
    BY <1>3, <2>1
  <2>3. QED
    BY <2>1, <2>2 DEF without
<1> DEFINE last == IF Managed(s[n]) = managed THEN Append(f[n - 1], s[n]) ELSE f[n - 1]
           g == [i \in 0..n |-> IF i = n THEN last ELSE f[i]]
<1>7. DOMAIN f = 0..n - 1 /\ f[0] = <<>>
      /\ \A i \in 1..n - 1 :
           f[i] = IF Managed(s[i]) = managed THEN Append(f[i - 1], s[i]) ELSE f[i - 1]
  <2>1. 0 \in 0..n - 1 /\ \A i \in 1..n - 1 : i \in 0..n - 1 /\ i # 0
    BY <1>4, <1>5
  <2>2. QED
    BY <1>6, <2>1 DEF Loop
<1>8. g[0] = <<>> /\ \A i \in 1..n :
           g[i] = IF Managed(s[i]) = managed THEN Append(g[i - 1], s[i]) ELSE g[i - 1]
  <2> HIDE DEF last
  <2>1. g[0] = f[0] /\ \A i \in 0..n : g[i] = IF i = n THEN last ELSE f[i]
    BY <1>4, <1>5
  <2> HIDE DEF g
  <2>2. ASSUME NEW i \in 1..n
        PROVE  g[i] = IF Managed(s[i]) = managed THEN Append(g[i - 1], s[i]) ELSE g[i - 1]
    <3>1. i \in 0..n /\ i - 1 \in 0..n /\ i - 1 # n
      BY <1>4
    <3>2. g[i - 1] = f[i - 1]
      BY <2>1, <3>1
    <3>3. CASE i = n
      BY <2>1, <3>1, <3>2, <3>3 DEF last
    <3>4. CASE i # n
      <4>1. i \in 1..n - 1
        BY <1>4, <3>4
      <4>2. QED
        BY <1>7, <2>1, <3>1, <3>2, <3>4, <4>1
    <3>5. QED
      BY <3>3, <3>4
  <2>3. QED
    BY <1>7, <2>1, <2>2
<1>9. DOMAIN g = 0..n /\ g = [i \in 0..n |-> g[i]]
  OBVIOUS
<1> HIDE DEF g
<1>10. \A i \in 0..n : i = 0 \/ i \in 1..n
  BY <1>4
<1>11. Loop(g, n, s, managed)
  <2>1. \A i \in 0..n : g[i] = IF i = 0 THEN <<>>
                       ELSE IF Managed(s[i]) = managed THEN Append(g[i - 1], s[i])
                       ELSE g[i - 1]
    BY <1>8, <1>10
  <2>2. QED
    BY <1>9, <2>1 DEF Loop
<1>12. QED
  BY <1>4, <1>11

LEMMA OfManagedLists ==
  ASSUME NEW s, NEW T, Lists(s, T), NEW managed \in BOOLEAN
  PROVE  Lists(OfManaged(s, managed), {n \in T : Managed(n) = managed})
<1> DEFINE of == CHOOSE of : Loop(of, Len(s), s, managed)
           picked(i) == {s[j] : j \in {k \in 1..i : Managed(s[k]) = managed}}
<1>1. s \in Seq(Name) /\ Len(s) \in Nat /\ DOMAIN s = 1..Len(s)
      /\ \A i, j \in 1..Len(s) : s[i] = s[j] => i = j
  BY DEF Lists, IsInjective
<1>2. OfManaged(s, managed) = of[Len(s)]
  BY DEF OfManaged, Loop
<1>3. Loop(of, Len(s), s, managed)
  <2>1. \E f : Loop(f, Len(s), s, managed)
    BY <1>1, LoopExists
  <2>2. QED
    BY <2>1
<1> HIDE DEF of
<1>4. of[0] = <<>> /\ \A i \in 1..Len(s) :
           of[i] = IF Managed(s[i]) = managed THEN Append(of[i - 1], s[i]) ELSE of[i - 1]
  <2>1. 0 \in 0..Len(s) /\ \A i \in 1..Len(s) : i \in 0..Len(s) /\ i # 0
    BY <1>1
  <2>2. QED
    BY <1>3, <2>1 DEF Loop
<1>5. Lists(of[Len(s)], picked(Len(s)))
  <2> DEFINE wrong == {i \in 0..Len(s) : ~Lists(of[i], picked(i))}
  <2>0. Len(s) \in 0..Len(s)
    BY <1>1
  <2> HIDE DEF picked
  <2>1. SUFFICES ASSUME wrong # {} PROVE FALSE
    BY <2>0
  <2>2. wrong \subseteq Nat
    BY <1>1
  <2> HIDE DEF wrong
  <2>3. PICK i \in wrong : \A j \in wrong : i <= j
    BY <2>1, <2>2, LeastNatural
  <2>4. i \in 0..Len(s) /\ ~Lists(of[i], picked(i))
    BY <2>3 DEF wrong
  <2>5. i # 0
    <3>1. picked(0) = {}
      BY DEF picked
    <3>2. QED
      BY <1>4, <2>4, <3>1, EmptyLists
  <2>6. i \in 1..Len(s) /\ i - 1 \in 0..Len(s) /\ ~(i <= i - 1)
    BY <1>1, <2>4, <2>5
  <2>7. Lists(of[i - 1], picked(i - 1))
    <3>1. i - 1 \notin wrong
      BY <2>3, <2>6
    <3>2. QED
      BY <2>6, <3>1 DEF wrong
  <2>8. CASE Managed(s[i]) = managed
    <3>1. picked(i) = picked(i - 1) \cup {s[i]}
      <4>1. \A k : k \in 1..i <=> (k \in 1..i - 1 \/ k = i)
        BY <2>6
      <4>2. QED
        BY <2>8, <4>1 DEF picked
    <3>2. s[i] \notin picked(i - 1) /\ s[i] \in Name
      <4>1. \A k \in 1..i - 1 : k \in 1..Len(s) /\ k # i
        BY <2>6
      <4>2. QED
        BY <1>1, <2>6, <4>1 DEF picked
    <3>3. Lists(Append(of[i - 1], s[i]), picked(i))
      BY <2>7, <3>1, <3>2, AppendLists
    <3>4. QED
      BY <1>4, <2>4, <2>6, <2>8, <3>3
  <2>9. CASE Managed(s[i]) # managed
    <3>1. picked(i) = picked(i - 1)
      <4>1. \A k : k \in 1..i <=> (k \in 1..i - 1 \/ k = i)
        BY <2>6
      <4>2. QED
        BY <2>9, <4>1 DEF picked
    <3>2. QED
      BY <1>4, <2>4, <2>6, <2>7, <2>9, <3>1
  <2>10. QED
    BY <2>8, <2>9
<1>6. picked(Len(s)) = {n \in T : Managed(n) = managed}
  BY <1>1 DEF Lists, ToSet
<1>7. QED
  BY <1>2, <1>5, <1>6

-----------------------------------------------------------------------------
(* The page's functions: types, lists, what is current and what is shown.  *)

Listed(p)   == ToSet(p.m_devList)
Enabled(p)  == ToSet(p.m_enableDeviceList)
Disabled(p) == ToSet(p.m_disableDeviceList)

Parted(p) ==
  /\ Lists(p.m_devList, Listed(p))
  /\ Lists(p.m_enableDeviceList, Enabled(p)) /\ Lists(p.m_disableDeviceList, Disabled(p))
  /\ Enabled(p) \cap Disabled(p) = {} /\ Enabled(p) \cup Disabled(p) = Listed(p)

Boxed(p) == p \in PageType /\ p.index <= Len(p.combo)

SameLists(p, q) ==
  /\ q.m_devList = p.m_devList /\ q.m_enableDeviceList = p.m_enableDeviceList
  /\ q.m_disableDeviceList = p.m_disableDeviceList

Label == Name \cup {NoName}

LEMMA SetDefaultPage ==
  ASSUME NEW p, Boxed(p), NEW n \in Label
  PROVE  LET q == SetDefault(p, n)
         IN /\ Boxed(q) /\ SameLists(p, q) /\ q.m_currentDeviceName = n
            /\ q.shown = p.shown /\ q.on = p.on /\ q.combo = p.combo /\ q.index = p.index
BY DEF SetDefault, Boxed, PageType, SameLists, Label

LEMMA InitLanAreaPage ==
  ASSUME NEW p, Boxed(p)
  PROVE  LET q == InitLanArea(p)
         IN /\ Boxed(q) /\ SameLists(p, q) /\ ShowsCurrent(q)
            /\ q.m_currentDeviceName = p.m_currentDeviceName /\ q.on = p.on
BY DEF InitLanArea, Boxed, PageType, SameLists, ShowsCurrent

LEMMA AddItemsPage ==
  ASSUME NEW p, Boxed(p), NEW items \in Seq(Label), items # <<>>
  PROVE  LET q == AddItems(p, items)
         IN /\ Boxed(q) /\ SameLists(p, q) /\ q.m_currentDeviceName = p.m_currentDeviceName
            /\ q.shown = p.shown /\ q.on = p.on
<1> DEFINE c == p.combo \o items
           i == IF p.combo = <<>> THEN 1 ELSE p.index
           q == AddItems(p, items)
<1>1. p.combo \in Seq(Label) /\ p.index \in Nat /\ p.index <= Len(p.combo)
  BY DEF Boxed, PageType, Label
<1>2. c \in Seq(Label) /\ Len(c) = Len(p.combo) + Len(items)
  BY <1>1, ConcatProperties
<1>3. Len(items) \in Nat /\ Len(items) >= 1 /\ Len(p.combo) \in Nat
  BY <1>1, EmptySeq, LenProperties
<1> HIDE DEF c
<1>4. i \in Nat /\ i <= Len(c)
  BY <1>1, <1>2, <1>3
<1> HIDE DEF i
<1>5. q = [p EXCEPT !.combo = c, !.index = i]
  BY DEF AddItems, c, i
<1> HIDE DEF q
<1>6. QED
  BY <1>2, <1>4, <1>5 DEF Boxed, PageType, SameLists, Label, q

LEMMA InitDeviceComboxPage ==
  ASSUME NEW p, Boxed(p), Parted(p)
  PROVE  LET q == InitDeviceCombox(p)
         IN /\ Boxed(q) /\ SameLists(p, q) /\ q.on = p.on
            /\ p.on /\ p.m_currentDeviceName \in Enabled(p)
                 => q.m_currentDeviceName = p.m_currentDeviceName
<1> DEFINE items == IF p.on THEN p.m_enableDeviceList ELSE <<>>
           n == IF items = <<>> THEN NoName
                ELSE IF Contains(items, p.m_currentDeviceName) THEN p.m_currentDeviceName
                ELSE Head(items)
           i == FindData(items, n)
           q == InitDeviceCombox(p)
<1>1. items \in Seq(Name) /\ items \in Seq(Label)
  BY DEF Parted, Lists, Label
<1>2. n \in Label
  BY <1>1 DEF Boxed, PageType, Label
<1>3. p.on /\ p.m_currentDeviceName \in Enabled(p) => n = p.m_currentDeviceName
  <2>1. p.on /\ p.m_currentDeviceName \in Enabled(p) => Contains(items, p.m_currentDeviceName)
    BY ContainsMember DEF Parted
  <2>2. QED
    BY <2>1, ContainsNotEmpty
<1> HIDE DEF items, n
<1>4. i \in Nat /\ i <= Len(items)
  BY <1>1, FindDataProperties
<1> HIDE DEF i
<1>5. q = [SetDefault(p, n) EXCEPT !.combo = items, !.index = i]
  BY DEF InitDeviceCombox, items, n, i
<1> DEFINE d == SetDefault(p, n)
<1>6. Boxed(d) /\ SameLists(p, d) /\ d.m_currentDeviceName = n /\ d.on = p.on
  BY <1>2, SetDefaultPage
<1> HIDE DEF d, q
<1>7. QED
  BY <1>1, <1>3, <1>4, <1>5, <1>6 DEF Boxed, PageType, SameLists, Label, q, d

LEMMA InitLanDeviceStatePage ==
  ASSUME NEW p, Boxed(p), Lists(p.m_devList, Listed(p))
  PROVE  LET q == InitLanDeviceState(p)
         IN /\ Boxed(q) /\ Parted(q) /\ q.m_devList = p.m_devList /\ q.on = p.on
            /\ q.m_currentDeviceName = p.m_currentDeviceName
            /\ Enabled(q) = {n \in Listed(p) : Managed(n)}
<1> DEFINE e == OfManaged(p.m_devList, TRUE)
           d == OfManaged(p.m_devList, FALSE)
           q == InitLanDeviceState(p)
<1>1. Lists(p.m_devList, Listed(p))
  OBVIOUS
<1>2. Lists(e, {n \in Listed(p) : Managed(n) = TRUE}) /\ Lists(d, {n \in Listed(p) : Managed(n) = FALSE})
  BY <1>1, OfManagedLists
<1>3. \A n : Managed(n) \in BOOLEAN
  BY DEF Managed
<1> HIDE DEF e, d
<1>4. q = [p EXCEPT !.m_enableDeviceList = e, !.m_disableDeviceList = d]
  BY DEF InitLanDeviceState, e, d
<1> HIDE DEF q
<1>5. e \in Seq(Name) /\ d \in Seq(Name)
  BY <1>2 DEF Lists
<1>6. /\ q.m_enableDeviceList = e /\ q.m_disableDeviceList = d /\ q.m_devList = p.m_devList
      /\ q.m_currentDeviceName = p.m_currentDeviceName /\ q.on = p.on /\ Boxed(q)
  BY <1>4, <1>5 DEF Boxed, PageType
<1>7. /\ Enabled(q) = {n \in Listed(p) : Managed(n)} /\ Disabled(q) = {n \in Listed(p) : ~Managed(n)}
      /\ Listed(q) = Listed(p)
  BY <1>2, <1>3, <1>6 DEF Lists, Enabled, Disabled, Listed
<1>8. Lists(e, Enabled(q)) /\ Lists(d, Disabled(q))
  BY <1>2, <1>6 DEF Lists, Enabled, Disabled
<1>9. Parted(q)
  BY <1>1, <1>6, <1>7, <1>8 DEF Parted
<1>10. QED
  BY <1>6, <1>7, <1>9 DEF q

LEMMA PartedKept ==
  ASSUME NEW p, NEW q, SameLists(p, q)
  PROVE  /\ Parted(p) => Parted(q)
         /\ Listed(q) = Listed(p) /\ Enabled(q) = Enabled(p) /\ Disabled(q) = Disabled(p)
BY DEF Parted, SameLists, Listed, Enabled, Disabled

LEMMA RebuiltPage ==
  ASSUME NEW p, Boxed(p), Lists(p.m_devList, Listed(p))
  PROVE  LET q == Rebuilt(p)
         IN /\ Boxed(q) /\ Parted(q) /\ Listed(q) = Listed(p) /\ q.on = p.on /\ ShowsCurrent(q)
            /\ Enabled(q) = {n \in Listed(p) : Managed(n)}
            /\ p.on /\ p.m_currentDeviceName \in Enabled(q)
                 => q.m_currentDeviceName = p.m_currentDeviceName
<1> DEFINE a == InitLanDeviceState(p)
           b == InitDeviceCombox(a)
           q == Rebuilt(p)
<1>1. /\ Boxed(a) /\ Parted(a) /\ a.m_devList = p.m_devList /\ a.on = p.on
      /\ a.m_currentDeviceName = p.m_currentDeviceName /\ Enabled(a) = {n \in Listed(p) : Managed(n)}
  BY InitLanDeviceStatePage
<1> HIDE DEF a
<1>2. /\ Boxed(b) /\ SameLists(a, b) /\ b.on = a.on
      /\ a.on /\ a.m_currentDeviceName \in Enabled(a)
           => b.m_currentDeviceName = a.m_currentDeviceName
  BY <1>1, InitDeviceComboxPage
<1> HIDE DEF b
<1>3. /\ Boxed(q) /\ SameLists(b, q) /\ ShowsCurrent(q)
      /\ q.m_currentDeviceName = b.m_currentDeviceName /\ q.on = b.on
  BY <1>2, InitLanAreaPage DEF Rebuilt, a, b
<1> HIDE DEF q
<1>4. SameLists(a, q)
  BY <1>2, <1>3 DEF SameLists
<1>5. Parted(q) /\ Listed(q) = Listed(a) /\ Enabled(q) = Enabled(a)
  BY <1>1, <1>4, PartedKept
<1>6. Listed(a) = Listed(p)
  BY <1>1 DEF Listed
<1>7. QED
  BY <1>1, <1>2, <1>3, <1>5, <1>6 DEF q

LEMMA ListsMember ==
  ASSUME NEW s, NEW T, Lists(s, T), NEW i \in 1..Len(s)
  PROVE  s[i] \in T /\ s[i] \in Name
<1>1. s \in Seq(Name) /\ DOMAIN s = 1..Len(s)
  BY DEF Lists
<1>2. QED
  BY <1>1 DEF Lists, ToSet

LEMMA AddDeviceForComboxPage ==
  ASSUME NEW p, Boxed(p), Parted(p), NEW n \in Name
  PROVE  LET q == AddDeviceForCombox(p, n)
         IN /\ Boxed(q) /\ SameLists(p, q) /\ q.shown = p.shown /\ q.on = p.on
            /\ \/ q.m_currentDeviceName = p.m_currentDeviceName
               \/ /\ p.on /\ Len(p.m_enableDeviceList) = 1
                  /\ q.m_currentDeviceName = p.m_enableDeviceList[1]
            /\ p.on /\ Len(p.m_enableDeviceList) = 1
                 => q.m_currentDeviceName = p.m_enableDeviceList[1]
<1> DEFINE q == AddDeviceForCombox(p, n)
           len == Len(p.m_enableDeviceList)
<1>1. len \in Nat /\ SameLists(p, p)
  BY DEF Parted, Lists, SameLists
<1>2. CASE p.on /\ len = 1
  <2>1. q = SetDefault(p, p.m_enableDeviceList[1])
    BY <1>2 DEF AddDeviceForCombox
  <2>2. p.m_enableDeviceList[1] \in Label
    BY <1>2, ListsMember DEF Parted, Label
  <2> HIDE DEF q
  <2>3. /\ Boxed(q) /\ SameLists(p, q) /\ q.shown = p.shown /\ q.on = p.on
        /\ q.m_currentDeviceName = p.m_enableDeviceList[1]
    BY <2>1, <2>2, SetDefaultPage
  <2>4. QED
    BY <1>2, <2>3 DEF q
<1>3. CASE p.on /\ len = 2
  <2>1. q = AddItems(p, <<p.m_currentDeviceName, n>>)
    BY <1>3 DEF AddDeviceForCombox
  <2>2. /\ <<p.m_currentDeviceName, n>> \in Seq(Label) /\ <<p.m_currentDeviceName, n>> # <<>>
        /\ len # 1
    BY <1>3 DEF Boxed, PageType, Label
  <2>3. QED
    BY <2>1, <2>2, AddItemsPage
<1>4. CASE p.on /\ len > 2
  <2>1. q = AddItems(p, <<n>>)
    BY <1>1, <1>4 DEF AddDeviceForCombox
  <2>2. <<n>> \in Seq(Label) /\ <<n>> # <<>>
    BY DEF Label
  <2> HIDE DEF q
  <2>3. /\ Boxed(q) /\ SameLists(p, q) /\ q.shown = p.shown /\ q.on = p.on
        /\ q.m_currentDeviceName = p.m_currentDeviceName
    BY <2>1, <2>2, AddItemsPage
  <2> HIDE DEF len
  <2>4. len # 1
    BY <1>1, <1>4
  <2>5. QED
    BY <2>3, <2>4 DEF q, len
<1>5. CASE ~(p.on /\ (len = 1 \/ len = 2 \/ len > 2))
  <2>1. q = p
    BY <1>5 DEF AddDeviceForCombox
  <2>2. QED
    BY <1>1, <1>5, <2>1
<1>6. QED
  BY <1>2, <1>3, <1>4, <1>5

\* What a device switch and a signal may not do: take the page from the device it shows.
Stays(p, q) ==
  p.on /\ p.shown = p.m_currentDeviceName /\ p.shown \in Enabled(p) /\ p.shown \in Enabled(q)
    /\ q.on => q.shown = p.shown

LEMMA DeviceAddedPage ==
  ASSUME NEW p, Boxed(p), Parted(p), NEW n \in Name, n \notin Listed(p), wiredEnabled \in BOOLEAN
  PROVE  LET q == DeviceAdded(p, n)
         IN /\ Boxed(q) /\ Parted(q) /\ Listed(q) = Listed(p) \cup {n} /\ q.on = wiredEnabled
            /\ Enabled(q) = Enabled(p) \cup (IF Managed(n) THEN {n} ELSE {})
            /\ ShowsCurrent(p) /\ Managed(n) /\ p.on = wiredEnabled => ShowsCurrent(q)
            /\ Stays(p, q)
<1> DEFINE c == IF p.m_devList = <<>> THEN n ELSE p.m_currentDeviceName
           l == Append(p.m_devList, n)
           e == IF Managed(n) THEN Append(p.m_enableDeviceList, n) ELSE p.m_enableDeviceList
           d == IF Managed(n) THEN p.m_disableDeviceList ELSE Append(p.m_disableDeviceList, n)
           listed == [p EXCEPT !.on = wiredEnabled, !.m_currentDeviceName = c, !.m_devList = l,
                               !.m_enableDeviceList = e, !.m_disableDeviceList = d]
           added == AddDeviceForCombox(listed, n)
           q == DeviceAdded(p, n)
<1>1. /\ Lists(p.m_devList, Listed(p)) /\ Lists(p.m_enableDeviceList, Enabled(p))
      /\ Lists(p.m_disableDeviceList, Disabled(p)) /\ n \notin Enabled(p) /\ n \notin Disabled(p)
      /\ Enabled(p) \cap Disabled(p) = {} /\ Enabled(p) \cup Disabled(p) = Listed(p)
  BY DEF Parted
<1>2. Lists(l, Listed(p) \cup {n})
  BY <1>1, AppendLists
<1>3. Lists(e, Enabled(p) \cup (IF Managed(n) THEN {n} ELSE {}))
  BY <1>1, AppendLists
<1>4. Lists(d, Disabled(p) \cup (IF Managed(n) THEN {} ELSE {n}))
  BY <1>1, AppendLists
<1>5. c \in Label
  BY DEF Boxed, PageType, Label
<1>6. q = IF added.m_currentDeviceName = n THEN InitLanArea(added) ELSE added
  BY DEF DeviceAdded
<1>7. p.m_devList # <<>> => c = p.m_currentDeviceName
  OBVIOUS
<1>8. p.m_devList = <<>> => c = n /\ Enabled(p) = {}
  BY <1>1 DEF Listed, ToSet
<1> HIDE DEF c, l, e, d
<1>9. Boxed(listed)
  BY <1>2, <1>3, <1>4, <1>5 DEF Boxed, PageType, Lists, Label
<1>10. /\ listed.m_devList = l /\ listed.m_enableDeviceList = e /\ listed.m_disableDeviceList = d
       /\ listed.m_currentDeviceName = c /\ listed.on = wiredEnabled /\ listed.shown = p.shown
  BY DEF Boxed, PageType
<1> HIDE DEF listed
<1>11. /\ Listed(listed) = Listed(p) \cup {n}
       /\ Enabled(listed) = Enabled(p) \cup (IF Managed(n) THEN {n} ELSE {})
       /\ Disabled(listed) = Disabled(p) \cup (IF Managed(n) THEN {} ELSE {n})
  BY <1>2, <1>3, <1>4, <1>10 DEF Lists, Listed, Enabled, Disabled
<1>12. Parted(listed)
  BY <1>1, <1>2, <1>3, <1>4, <1>10, <1>11 DEF Parted
<1>13. /\ Boxed(added) /\ SameLists(listed, added) /\ added.shown = p.shown /\ added.on = wiredEnabled
       /\ \/ added.m_currentDeviceName = c
          \/ wiredEnabled /\ Len(e) = 1 /\ added.m_currentDeviceName = e[1]
       /\ wiredEnabled /\ Len(e) = 1 => added.m_currentDeviceName = e[1]
  BY <1>9, <1>10, <1>12, AddDeviceForComboxPage
<1> HIDE DEF added
<1>14. /\ Boxed(q) /\ SameLists(added, q) /\ q.m_currentDeviceName = added.m_currentDeviceName
       /\ q.on = wiredEnabled
       /\ added.m_currentDeviceName = n => ShowsCurrent(q)
       /\ added.m_currentDeviceName # n => q.shown = p.shown
  BY <1>6, <1>13, InitLanAreaPage DEF SameLists
<1> HIDE DEF q
<1>15. SameLists(listed, q)
  BY <1>13, <1>14 DEF SameLists
<1>16. Parted(q) /\ Listed(q) = Listed(listed) /\ Enabled(q) = Enabled(listed)
  BY <1>12, <1>15, PartedKept
<1>17. Len(e) = 1 => e[1] \in Enabled(listed) /\ \A v \in Enabled(listed) : v = e[1]
  <2>1. DOMAIN e = 1..Len(e) /\ ToSet(e) = Enabled(listed)
    BY <1>3, <1>11 DEF Lists
  <2>2. ASSUME Len(e) = 1 PROVE DOMAIN e = {1}
    BY <2>1, <2>2
  <2>3. QED
    BY <2>1, <2>2 DEF ToSet
<1>18. ASSUME ShowsCurrent(p), Managed(n), p.on = wiredEnabled PROVE ShowsCurrent(q)
  <2>1. CASE added.m_currentDeviceName = n
    BY <1>14, <2>1
  <2>2. CASE added.m_currentDeviceName # n
    <3>1. ~(wiredEnabled /\ Len(e) = 1)
      BY <1>11, <1>13, <1>17, <1>18, <2>2
    <3>2. added.m_currentDeviceName = p.m_currentDeviceName
      BY <1>7, <1>8, <1>13, <2>2, <3>1
    <3>3. QED
      BY <1>14, <1>18, <2>2, <3>2 DEF ShowsCurrent
  <2>3. QED
    BY <2>1, <2>2
<1>19. Stays(p, q)
  <2>1. SUFFICES ASSUME p.on, p.shown = p.m_currentDeviceName, p.shown \in Enabled(p), q.on
                 PROVE  q.shown = p.shown
    BY DEF Stays
  <2>2. c = p.shown /\ p.shown # n
    BY <1>1, <1>7, <1>8, <2>1
  <2>3. added.m_currentDeviceName = p.shown
    BY <1>11, <1>13, <1>14, <1>17, <2>1, <2>2
  <2>4. QED
    BY <1>14, <2>2, <2>3
<1>20. QED
  BY <1>11, <1>14, <1>16, <1>18, <1>19 DEF q

LEMMA GreatestPlace ==
  ASSUME NEW n \in Nat, NEW T, T \subseteq 1..n, T # {}
  PROVE  Max(T) \in T
<1> DEFINE U == {n - i : i \in T}
<1>1. U \subseteq Nat /\ U # {}
  <2>1. ASSUME NEW i \in T PROVE n - i \in Nat
    <3>1. i \in 1..n
      OBVIOUS
    <3>2. QED
      BY <3>1
  <2>2. QED
    BY <2>1
<1> HIDE DEF U
<1>2. PICK x \in U : \A y \in U : x <= y
  BY <1>1, LeastNatural
<1>3. PICK i \in T : x = n - i
  BY <1>2 DEF U
<1>4. \A j \in T : n - j \in U
  BY DEF U
<1>5. \A j \in T : i >= j
  <2>1. ASSUME NEW j \in T PROVE i >= j
    <3>1. n - i <= n - j /\ i \in 1..n /\ j \in 1..n
      BY <1>2, <1>3, <1>4
    <3>2. QED
      BY <3>1
  <2>2. QED
    BY <2>1
<1>6. QED
  BY <1>5 DEF Max

LEMMA DeleteDeviceFromComboxPage ==
  ASSUME NEW p, Boxed(p), NEW n \in Name,
         NEW next \in IF Len(p.combo) < 2 THEN {0} ELSE 1..Len(p.combo) - 1
  PROVE  LET q == DeleteDeviceFromCombox(p, n, next)
         IN /\ Boxed(q) /\ SameLists(p, q) /\ q.shown = p.shown /\ q.on = p.on
            /\ p.m_currentDeviceName # n => q.m_currentDeviceName = p.m_currentDeviceName
<1> DEFINE count  == Len(p.m_enableDeviceList)
           wasNow == p.m_currentDeviceName = n
           others == {i \in DOMAIN p.combo : p.combo[i] # n}
           at     == FindData(p.combo, n)
           box    == RemoveAt(p.combo, at)
           index  == IF p.index = at THEN next ELSE IF p.index > at THEN p.index - 1 ELSE p.index
           less   == [p EXCEPT !.combo = box, !.index = index]
           data   == IF less.index \in DOMAIN less.combo THEN less.combo[less.index] ELSE NoName
           last   == IF wasNow /\ others # {} THEN SetDefault(p, p.combo[Max(others)]) ELSE p
           none   == [last EXCEPT !.combo = <<>>, !.index = 0]
           q      == DeleteDeviceFromCombox(p, n, next)
<1>1. q \in {IF wasNow THEN SetDefault(p, NoName) ELSE p, IF at # 0 THEN none ELSE p,
             IF at # 0 THEN IF wasNow THEN SetDefault(less, data) ELSE less ELSE p, p}
  BY DEF DeleteDeviceFromCombox
<1>2. p.combo \in Seq(Label) /\ p.index \in Nat /\ p.index <= Len(p.combo) /\ Len(p.combo) \in Nat
      /\ DOMAIN p.combo = 1..Len(p.combo)
  BY DEF Boxed, PageType, Label
<1>3. at \in 0..Len(p.combo)
  BY <1>2, FindDataProperties
<1>4. SameLists(p, p)
  BY DEF SameLists
<1> DEFINE Good(r) ==
      /\ Boxed(r) /\ SameLists(p, r) /\ r.shown = p.shown /\ r.on = p.on
      /\ p.m_currentDeviceName # n => r.m_currentDeviceName = p.m_currentDeviceName
<1>5. Good(p)
  BY <1>4
<1>6. wasNow => Good(SetDefault(p, NoName))
  <2>1. NoName \in Label
    BY DEF Label
  <2>2. QED
    BY <2>1, SetDefaultPage
<1>7. Good(last)
  <2>1. CASE wasNow /\ others # {}
    <3>1. others \subseteq 1..Len(p.combo)
      BY <1>2
    <3>2. Max(others) \in 1..Len(p.combo)
      <4> HIDE DEF others
      <4> QED BY <1>2, <2>1, <3>1, GreatestPlace
    <3> HIDE DEF others
    <3>3. p.combo[Max(others)] \in Label
      BY <1>2, <3>2
    <3>4. Good(SetDefault(p, p.combo[Max(others)]))
      BY <2>1, <3>3, SetDefaultPage
    <3>5. QED
      BY <2>1, <3>4
  <2>2. CASE ~(wasNow /\ others # {})
    BY <1>5, <2>2
  <2>3. QED
    BY <2>1, <2>2
<1>8. Good(none)
  <2> HIDE DEF last
  <2>1. last \in PageType /\ SameLists(p, last)
    BY <1>7 DEF Boxed
  <2>2. none \in PageType /\ none.combo = <<>> /\ none.index = 0 /\ SameLists(p, none)
        /\ none.shown = last.shown /\ none.on = last.on
        /\ none.m_currentDeviceName = last.m_currentDeviceName
    <3> DEFINE nothing == <<>>
    <3>1. nothing \in Seq(Name \cup {NoName})
      OBVIOUS
    <3>2. none = [last EXCEPT !.combo = nothing, !.index = 0]
      OBVIOUS
    <3> HIDE DEF nothing
    <3>3. none \in PageType
      BY <2>1, <3>1, <3>2 DEF PageType
    <3>4. /\ none.combo = nothing /\ none.index = 0 /\ SameLists(p, none)
          /\ none.shown = last.shown /\ none.on = last.on
          /\ none.m_currentDeviceName = last.m_currentDeviceName
      BY <2>1, <3>2 DEF PageType, SameLists
    <3>5. QED
      BY <3>3, <3>4 DEF nothing
  <2> HIDE DEF none
  <2>3. Boxed(none)
    BY <2>2 DEF Boxed
  <2>4. QED
    BY <1>7, <2>2, <2>3
<1>9. ASSUME at # 0 PROVE Good(less)
  <2>1. at \in 1..Len(p.combo)
    BY <1>2, <1>3, <1>9
  <2> HIDE DEF at
  <2>2. box \in Seq(Label) /\ Len(box) = Len(p.combo) - 1
    BY <1>2, <2>1, RemoveAtProperties
  <2>3. index \in Nat /\ index <= Len(p.combo) - 1
    <3>1. CASE p.index = at
      <4>1. next \in Nat /\ next <= Len(p.combo) - 1
        BY <1>2, <2>1
      <4>2. QED
        BY <3>1, <4>1
    <3>2. CASE p.index # at
      BY <1>2, <2>1, <3>2
    <3>3. QED
      BY <3>1, <3>2
  <2> HIDE DEF box, index
  <2>4. QED
    BY <2>2, <2>3 DEF Boxed, PageType, SameLists, Label
<1>10. ASSUME at # 0, wasNow PROVE Good(SetDefault(less, data))
  <2>1. Good(less)
    BY <1>9, <1>10
  <2> HIDE DEF less
  <2>2. data \in Label
    BY <2>1 DEF Boxed, PageType, Label
  <2> HIDE DEF data
  <2>3. /\ Boxed(SetDefault(less, data)) /\ SameLists(less, SetDefault(less, data))
        /\ SetDefault(less, data).shown = less.shown /\ SetDefault(less, data).on = less.on
    BY <2>1, <2>2, SetDefaultPage
  <2>4. QED
    BY <1>10, <2>1, <2>3 DEF SameLists
<1> HIDE DEF less, data, none, last, at
<1>11. Good(q)
  BY <1>1, <1>5, <1>6, <1>8, <1>9, <1>10
<1>12. QED
  BY <1>11

LEMMA DeviceRemovedPage ==
  ASSUME NEW p, Boxed(p), Parted(p), NEW n \in Listed(p),
         NEW next \in IF Len(p.combo) < 2 THEN {0} ELSE 1..Len(p.combo) - 1
  PROVE  LET q == DeviceRemoved(p, n, next)
         IN /\ Boxed(q) /\ Parted(q) /\ Listed(q) = Listed(p) \ {n}
            /\ Enabled(q) = Enabled(p) \ {n}
            /\ ShowsCurrent(p) => ShowsCurrent(q)
            /\ Stays(p, q)
<1> DEFINE left    == RemoveFirst(p.m_devList, n)
           on      == p.on /\ left # <<>>
           less    == [p EXCEPT !.m_devList = left, !.on = on]
           gone    == DeleteDeviceFromCombox(less, n, next)
           set     == SetDefault(gone, gone.m_currentDeviceName)
           redrawn == IF p.m_currentDeviceName = n \/ left = <<>> THEN InitLanArea(set) ELSE gone
           e       == RemoveFirst(p.m_enableDeviceList, n)
           d       == RemoveFirst(p.m_disableDeviceList, n)
           q       == DeviceRemoved(p, n, next)
<1>1. /\ Lists(p.m_devList, Listed(p)) /\ Lists(p.m_enableDeviceList, Enabled(p))
      /\ Lists(p.m_disableDeviceList, Disabled(p))
      /\ Enabled(p) \cap Disabled(p) = {} /\ Enabled(p) \cup Disabled(p) = Listed(p)
  BY DEF Parted
<1>2. n \in Name
  BY <1>1 DEF Lists, ToSet
<1>3. /\ Lists(left, Listed(p) \ {n}) /\ Lists(e, Enabled(p) \ {n}) /\ Lists(d, Disabled(p) \ {n})
  BY <1>1, RemoveFirstLists
<1>4. q = [redrawn EXCEPT !.m_enableDeviceList  = RemoveFirst(@, n),
                          !.m_disableDeviceList = RemoveFirst(@, n)]
  BY DEF DeviceRemoved
<1>5. on \in BOOLEAN /\ (on => p.on) /\ (left # <<>> => on = p.on) /\ (left = <<>> => ~on)
  BY DEF Boxed, PageType
<1> HIDE DEF left, on
<1>6. /\ Boxed(less) /\ less.m_devList = left /\ less.on = on /\ less.shown = p.shown
      /\ less.m_enableDeviceList = p.m_enableDeviceList /\ less.combo = p.combo
      /\ less.m_disableDeviceList = p.m_disableDeviceList
      /\ less.m_currentDeviceName = p.m_currentDeviceName
  BY <1>3, <1>5 DEF Boxed, PageType, Lists
<1> HIDE DEF less
<1>7. /\ Boxed(gone) /\ SameLists(less, gone) /\ gone.shown = p.shown /\ gone.on = on
      /\ p.m_currentDeviceName # n => gone.m_currentDeviceName = p.m_currentDeviceName
  BY <1>2, <1>6, DeleteDeviceFromComboxPage
<1> HIDE DEF gone
<1>8. Boxed(set) /\ SameLists(gone, set) /\ set.on = on
  <2>1. gone.m_currentDeviceName \in Label
    BY <1>7 DEF Boxed, PageType, Label
  <2>2. QED
    BY <1>7, <2>1, SetDefaultPage
<1> HIDE DEF set
<1>9. /\ Boxed(redrawn) /\ SameLists(gone, redrawn) /\ redrawn.on = on
      /\ p.m_currentDeviceName = n \/ left = <<>> => ShowsCurrent(redrawn)
      /\ p.m_currentDeviceName # n /\ left # <<>>
           => redrawn.shown = p.shown /\ redrawn.m_currentDeviceName = p.m_currentDeviceName
  <2>1. /\ Boxed(InitLanArea(set)) /\ SameLists(set, InitLanArea(set))
        /\ ShowsCurrent(InitLanArea(set)) /\ InitLanArea(set).on = on
    BY <1>8, InitLanAreaPage
  <2>2. QED
    BY <1>7, <1>8, <2>1 DEF SameLists
<1> HIDE DEF redrawn
<1>10. redrawn.m_enableDeviceList = p.m_enableDeviceList
       /\ redrawn.m_disableDeviceList = p.m_disableDeviceList /\ redrawn.m_devList = left
  BY <1>6, <1>7, <1>9 DEF SameLists
<1>11. q = [redrawn EXCEPT !.m_enableDeviceList = e, !.m_disableDeviceList = d]
  BY <1>4, <1>10
<1> HIDE DEF e, d, q
<1>12. /\ Boxed(q) /\ q.m_enableDeviceList = e /\ q.m_disableDeviceList = d /\ q.m_devList = left
       /\ q.on = on /\ q.shown = redrawn.shown /\ q.m_currentDeviceName = redrawn.m_currentDeviceName
  BY <1>3, <1>9, <1>10, <1>11 DEF Boxed, PageType, Lists
<1>13. /\ Listed(q) = Listed(p) \ {n} /\ Enabled(q) = Enabled(p) \ {n}
       /\ Disabled(q) = Disabled(p) \ {n}
  BY <1>3, <1>12 DEF Lists, Listed, Enabled, Disabled
<1>14. Parted(q)
  BY <1>1, <1>3, <1>12, <1>13 DEF Parted
<1>15. ShowsCurrent(p) => ShowsCurrent(q)
  BY <1>5, <1>9, <1>12 DEF ShowsCurrent
<1>16. Stays(p, q)
  <2>1. SUFFICES ASSUME p.on, p.shown = p.m_currentDeviceName, p.shown \in Enabled(q), q.on
                 PROVE  q.shown = p.shown
    BY DEF Stays
  <2>2. p.m_currentDeviceName # n /\ left # <<>>
    BY <1>5, <1>12, <1>13, <2>1
  <2>3. QED
    BY <1>9, <1>12, <2>2
<1>17. QED
  BY <1>12, <1>13, <1>14, <1>15, <1>16 DEF q

LEMMA DeviceNameUpdatedPage ==
  ASSUME NEW p, Boxed(p), Parted(p), NEW old \in Listed(p), NEW new \in Name, new \notin Listed(p)
  PROVE  LET q == DeviceNameUpdated(p, old, new)
         IN /\ Boxed(q) /\ Parted(q) /\ Listed(q) = (Listed(p) \ {old}) \cup {new}
            /\ q.on = p.on
            /\ ShowsCurrent(p) => ShowsCurrent(q)
            /\ Stays(p, q)
<1> DEFINE l == RenamedIn(p.m_devList, old, new)
           e == RenamedIn(p.m_enableDeviceList, old, new)
           d == RenamedIn(p.m_disableDeviceList, old, new)
           listed == [p EXCEPT !.m_devList = l, !.m_enableDeviceList = e, !.m_disableDeviceList = d]
           moved == UpdateDeviceCombox(listed, old, new)
           q == DeviceNameUpdated(p, old, new)
<1>1. /\ Lists(p.m_devList, Listed(p)) /\ Lists(p.m_enableDeviceList, Enabled(p))
      /\ Lists(p.m_disableDeviceList, Disabled(p)) /\ new \notin Enabled(p) /\ new \notin Disabled(p)
      /\ Enabled(p) \cap Disabled(p) = {} /\ Enabled(p) \cup Disabled(p) = Listed(p)
  BY DEF Parted
<1> DEFINE After(T) == IF old \in T THEN (T \ {old}) \cup {new} ELSE T
<1>2. Lists(l, After(Listed(p))) /\ Lists(e, After(Enabled(p))) /\ Lists(d, After(Disabled(p)))
  BY <1>1, RenamedInLists
<1>3. q = IF moved.m_currentDeviceName = new THEN InitLanArea(moved) ELSE moved
  BY DEF DeviceNameUpdated
<1> HIDE DEF l, e, d
<1>4. /\ Boxed(listed) /\ listed.m_devList = l /\ listed.m_enableDeviceList = e
      /\ listed.m_disableDeviceList = d /\ listed.on = p.on /\ listed.shown = p.shown
      /\ listed.m_currentDeviceName = p.m_currentDeviceName
  BY <1>2 DEF Boxed, PageType, Lists
<1> HIDE DEF listed
<1>5. /\ Boxed(moved) /\ SameLists(listed, moved) /\ moved.on = p.on /\ moved.shown = p.shown
      /\ moved.m_currentDeviceName = IF p.m_currentDeviceName = old THEN new ELSE p.m_currentDeviceName
  <2>1. new \in Label /\ SameLists(listed, listed)
    BY DEF Label, SameLists
  <2>2. QED
    BY <1>4, <2>1, SetDefaultPage DEF UpdateDeviceCombox
<1> HIDE DEF moved
<1>6. /\ Boxed(q) /\ SameLists(moved, q) /\ q.on = p.on
      /\ moved.m_currentDeviceName = new => ShowsCurrent(q) /\ q.m_currentDeviceName = new
      /\ moved.m_currentDeviceName # new
           => q.shown = p.shown /\ q.m_currentDeviceName = moved.m_currentDeviceName
  BY <1>3, <1>5, InitLanAreaPage DEF SameLists
<1> HIDE DEF q
<1>7. q.m_devList = l /\ q.m_enableDeviceList = e /\ q.m_disableDeviceList = d
  BY <1>4, <1>5, <1>6 DEF SameLists
<1>8. /\ Listed(q) = After(Listed(p)) /\ Enabled(q) = After(Enabled(p))
      /\ Disabled(q) = After(Disabled(p))
  BY <1>2, <1>7 DEF Lists, Listed, Enabled, Disabled
<1>9. /\ Enabled(q) \cap Disabled(q) = {} /\ Enabled(q) \cup Disabled(q) = Listed(q)
      /\ Listed(q) = (Listed(p) \ {old}) \cup {new} /\ old \notin Enabled(q)
  BY <1>1, <1>8
<1>10. Parted(q)
  BY <1>2, <1>7, <1>8, <1>9 DEF Parted
<1>11. ShowsCurrent(p) => ShowsCurrent(q)
  BY <1>5, <1>6 DEF ShowsCurrent
<1>12. Stays(p, q)
  BY <1>1, <1>5, <1>6, <1>9 DEF Stays
<1>13. QED
  BY <1>6, <1>9, <1>10, <1>11, <1>12 DEF q

LEMMA SetCurrentIndexPage ==
  ASSUME NEW p, Boxed(p), NEW i
  PROVE  LET q == SetCurrentIndex(p, i)
         IN Boxed(q) /\ SameLists(p, q) /\ (ShowsCurrent(p) => ShowsCurrent(q))
<1> DEFINE r == [p EXCEPT !.index = i, !.m_currentDeviceName = p.combo[i]]
           q == SetCurrentIndex(p, i)
<1>1. CASE i = p.index \/ i \notin DOMAIN p.combo
  <2>1. q = p
    BY <1>1 DEF SetCurrentIndex
  <2>2. QED
    BY <2>1 DEF SameLists
<1>2. CASE ~(i = p.index \/ i \notin DOMAIN p.combo)
  <2>1. q = InitLanArea(r)
    BY <1>2 DEF SetCurrentIndex
  <2>2. i \in Nat /\ i <= Len(p.combo) /\ p.combo[i] \in Label
    BY <1>2 DEF Boxed, PageType, Label
  <2>3. Boxed(r) /\ SameLists(p, r)
    BY <2>2 DEF Boxed, PageType, Label, SameLists
  <2> HIDE DEF r
  <2>4. Boxed(q) /\ SameLists(r, q) /\ ShowsCurrent(q)
    BY <2>1, <2>3, InitLanAreaPage
  <2>5. QED
    BY <2>3, <2>4 DEF SameLists
<1>3. QED
  BY <1>1, <1>2

\* A device switched: it changes list, and the box and the area are drawn again.
LEMMA RedrawnPage ==
  ASSUME NEW p, Boxed(p), Parted(p), NEW e, NEW E, NEW d, NEW D, Lists(e, E), Lists(d, D),
         E \cap D = {}, E \cup D = Listed(p)
  PROVE  LET q == InitLanArea(InitDeviceCombox(
                    [p EXCEPT !.m_enableDeviceList = e, !.m_disableDeviceList = d]))
         IN Boxed(q) /\ Parted(q) /\ Listed(q) = Listed(p) /\ Enabled(q) = E /\ ShowsCurrent(q)
<1> DEFINE a == [p EXCEPT !.m_enableDeviceList = e, !.m_disableDeviceList = d]
           b == InitDeviceCombox(a)
           q == InitLanArea(b)
<1>1. /\ Boxed(a) /\ a.m_devList = p.m_devList /\ a.m_enableDeviceList = e
      /\ a.m_disableDeviceList = d
  BY DEF Boxed, PageType, Lists
<1> HIDE DEF a
<1>2. Listed(a) = Listed(p) /\ Enabled(a) = E /\ Disabled(a) = D
  BY <1>1 DEF Lists, Listed, Enabled, Disabled
<1>3. Parted(a)
  BY <1>1, <1>2 DEF Parted
<1>4. Boxed(b) /\ SameLists(a, b)
  BY <1>1, <1>3, InitDeviceComboxPage
<1> HIDE DEF b
<1>5. Boxed(q) /\ SameLists(b, q) /\ ShowsCurrent(q)
  BY <1>4, InitLanAreaPage
<1> HIDE DEF q
<1>6. SameLists(a, q)
  BY <1>4, <1>5 DEF SameLists
<1>7. Parted(q) /\ Listed(q) = Listed(a) /\ Enabled(q) = Enabled(a)
  BY <1>3, <1>6, PartedKept
<1>8. QED
  BY <1>2, <1>5, <1>7 DEF q, b, a

\* updateDeviceState's two lists, the one the device comes into and the one it leaves.
LEMMA SwitchedPage ==
  ASSUME NEW p, Boxed(p), Parted(p), NEW n \in Listed(p), NEW enable \in BOOLEAN
  PROVE  LET into(names) == IF Contains(names, n) THEN names ELSE Append(names, n)
             outof(names) == RemoveFirst(names, n)
             q == InitLanArea(InitDeviceCombox(
                    [p EXCEPT !.m_enableDeviceList  = IF enable THEN into(@) ELSE outof(@),
                              !.m_disableDeviceList = IF enable THEN outof(@) ELSE into(@)]))
         IN /\ Boxed(q) /\ Parted(q) /\ Listed(q) = Listed(p) /\ ShowsCurrent(q)
            /\ Enabled(q) = IF enable THEN Enabled(p) \cup {n} ELSE Enabled(p) \ {n}
<1> DEFINE into(names) == IF Contains(names, n) THEN names ELSE Append(names, n)
           outof(names) == RemoveFirst(names, n)
           e == IF enable THEN into(p.m_enableDeviceList) ELSE outof(p.m_enableDeviceList)
           d == IF enable THEN outof(p.m_disableDeviceList) ELSE into(p.m_disableDeviceList)
           E == IF enable THEN Enabled(p) \cup {n} ELSE Enabled(p) \ {n}
           D == IF enable THEN Disabled(p) \ {n} ELSE Disabled(p) \cup {n}
<1>1. /\ Lists(p.m_enableDeviceList, Enabled(p)) /\ Lists(p.m_disableDeviceList, Disabled(p))
      /\ Enabled(p) \cap Disabled(p) = {} /\ Enabled(p) \cup Disabled(p) = Listed(p) /\ n \in Name
  BY DEF Parted, Lists, ToSet
<1>2. \A s, T : Lists(s, T) => Lists(into(s), T \cup {n})
  <2>1. SUFFICES ASSUME NEW s, NEW T, Lists(s, T) PROVE Lists(into(s), T \cup {n})
    OBVIOUS
  <2>2. CASE n \in T
    <3>1. into(s) = s /\ T \cup {n} = T
      BY <2>1, <2>2, ContainsMember
    <3>2. QED
      BY <2>1, <3>1
  <2>3. CASE n \notin T
    <3>1. into(s) = Append(s, n)
      BY <2>1, <2>3, ContainsMember
    <3>2. Lists(Append(s, n), T \cup {n})
      BY <1>1, <2>1, <2>3, AppendLists
    <3>3. QED
      BY <3>1, <3>2
  <2>4. QED
    BY <2>2, <2>3
<1>3. \A s, T : Lists(s, T) => Lists(outof(s), T \ {n})
  BY RemoveFirstLists
<1> DEFINE q == InitLanArea(InitDeviceCombox(
                  [p EXCEPT !.m_enableDeviceList  = IF enable THEN into(@) ELSE outof(@),
                            !.m_disableDeviceList = IF enable THEN outof(@) ELSE into(@)]))
<1>4. q = InitLanArea(InitDeviceCombox([p EXCEPT !.m_enableDeviceList = e, !.m_disableDeviceList = d]))
  OBVIOUS
<1> HIDE DEF into, outof, q
<1>5. Lists(e, E) /\ Lists(d, D)
  BY <1>1, <1>2, <1>3
<1>6. E \cap D = {} /\ E \cup D = Listed(p)
  BY <1>1
<1> HIDE DEF e, d, E, D
<1> DEFINE r == InitLanArea(InitDeviceCombox(
                  [p EXCEPT !.m_enableDeviceList = e, !.m_disableDeviceList = d]))
<1>7. Boxed(r) /\ Parted(r) /\ Listed(r) = Listed(p) /\ Enabled(r) = E /\ ShowsCurrent(r)
  <2> HIDE DEF r
  <2> QED BY <1>5, <1>6, RedrawnPage DEF r
<1> HIDE DEF r
<1>8. q = r
  BY <1>4 DEF r
<1>9. QED
  BY <1>7, <1>8 DEF E, q, into, outof

\* A finite set in some order: every member of it, once.
LEMMA SetToSeqsLists ==
  ASSUME NEW T, T \subseteq Name, IsFiniteSet(T), NEW s \in SetToSeqs(T)
  PROVE  Lists(s, T)
<1> DEFINE n == Cardinality(T)
<1>1. n \in Nat
  BY FS_CardinalityType
<1>2. s \in [1..n -> T] /\ \A i, j \in 1..n : i # j => s[i] # s[j]
  BY DEF SetToSeqs
<1>3. IsFiniteSet(1..n) /\ Cardinality(1..n) = n
  <2>1. \A a, b \in Int : IsFiniteSet(a..b) /\ Cardinality(a..b) = (IF a > b THEN 0 ELSE b - a + 1)
    BY FS_Interval
  <2>2. IsFiniteSet(1..n) /\ Cardinality(1..n) = (IF 1 > n THEN 0 ELSE n - 1 + 1)
    BY <1>1, <2>1
  <2> HIDE DEF n
  <2>3. QED
    BY <1>1, <2>2
<1>4. s \in Injection(1..n, T)
  BY <1>2 DEF Injection, IsInjective
<1>5. s \in Surjection(1..n, T)
  BY <1>3, <1>4, FS_Injection
<1> HIDE DEF n
<1>6. s \in Seq(T) /\ DOMAIN s = 1..n
  BY <1>1, <1>2
<1>7. s \in Seq(Name)
  BY <1>6
<1>8. ToSet(s) = T
  BY <1>2, <1>5, <1>6 DEF Surjection, ToSet
<1>9. IsInjective(s)
  BY <1>2, <1>6 DEF IsInjective
<1>10. QED
  BY <1>7, <1>8, <1>9 DEF Lists

LEMMA ConcatLists ==
  ASSUME NEW s, NEW S, NEW t, NEW T, Lists(s, S), Lists(t, T), S \cap T = {}
  PROVE  Lists(s \o t, S \cup T)
<1> DEFINE r == s \o t
<1>1. /\ s \in Seq(Name) /\ t \in Seq(Name) /\ Len(s) \in Nat /\ Len(t) \in Nat
      /\ DOMAIN s = 1..Len(s) /\ DOMAIN t = 1..Len(t)
      /\ \A i, j \in 1..Len(s) : s[i] = s[j] => i = j
      /\ \A i, j \in 1..Len(t) : t[i] = t[j] => i = j
  BY DEF Lists, IsInjective
<1>2. /\ r \in Seq(Name) /\ Len(r) = Len(s) + Len(t)
      /\ \A i \in 1..Len(s) + Len(t) : r[i] = IF i <= Len(s) THEN s[i] ELSE t[i - Len(s)]
  BY <1>1, ConcatProperties
<1> HIDE DEF r
<1>3. DOMAIN r = 1..Len(s) + Len(t)
  BY <1>2
<1>4. \A i \in 1..Len(s) + Len(t) : IF i <= Len(s) THEN i \in 1..Len(s) ELSE i - Len(s) \in 1..Len(t)
  BY <1>1
<1>5. /\ \A i \in 1..Len(s) : s[i] \in S
      /\ \A i \in 1..Len(t) : t[i] \in T
  BY <1>1 DEF Lists, ToSet
<1>6. IsInjective(r)
  <2>1. SUFFICES ASSUME NEW i \in 1..Len(s) + Len(t), NEW j \in 1..Len(s) + Len(t), r[i] = r[j]
                 PROVE  i = j
    BY <1>3 DEF IsInjective
  <2>2. CASE i <= Len(s) /\ j <= Len(s)
    BY <1>1, <1>2, <1>4, <2>1, <2>2
  <2>3. CASE ~(i <= Len(s)) /\ ~(j <= Len(s))
    <3>1. i - Len(s) = j - Len(s)
      BY <1>1, <1>2, <1>4, <2>1, <2>3
    <3>2. QED
      BY <1>1, <3>1
  <2>4. CASE (i <= Len(s)) # (j <= Len(s))
    BY <1>2, <1>4, <1>5, <2>1, <2>4
  <2>5. QED
    BY <2>2, <2>3, <2>4
<1>7. ToSet(r) = S \cup T
  <2>1. \A i \in DOMAIN r : r[i] \in S \cup T
    BY <1>2, <1>3, <1>4, <1>5
  <2>2. ASSUME NEW x \in S PROVE x \in ToSet(r)
    <3>1. PICK i \in 1..Len(s) : x = s[i]
      BY <1>1 DEF Lists, ToSet
    <3>2. i \in 1..Len(s) + Len(t) /\ i <= Len(s)
      BY <1>1
    <3>3. QED
      BY <1>2, <1>3, <3>1, <3>2 DEF ToSet
  <2>3. ASSUME NEW x \in T PROVE x \in ToSet(r)
    <3>1. PICK i \in 1..Len(t) : x = t[i]
      BY <1>1 DEF Lists, ToSet
    <3>2. i + Len(s) \in 1..Len(s) + Len(t) /\ ~(i + Len(s) <= Len(s)) /\ (i + Len(s)) - Len(s) = i
      BY <1>1
    <3>3. r[i + Len(s)] = x
      BY <1>2, <3>1, <3>2
    <3>4. QED
      BY <1>3, <3>2, <3>3 DEF ToSet
  <2>4. QED
    BY <2>1, <2>2, <2>3 DEF ToSet
<1>8. QED
  BY <1>2, <1>6, <1>7 DEF Lists, r

-----------------------------------------------------------------------------
(* The names the queued signals tell of.                                   *)

\* Devices by the names they have, no two of them the same.
IsMap(m) ==
  /\ DOMAIN m \subseteq Device /\ \A d \in DOMAIN m : m[d] \in Name
  /\ \A d, e \in DOMAIN m : m[d] = m[e] => d = e

\* After the signal the names m are the names k.
Tells(m, s, k) ==
  CASE s.sig = "deviceAdd"    -> /\ s.dev \notin DOMAIN m
                                 /\ k = [d \in DOMAIN m \cup {s.dev} |->
                                           IF d = s.dev THEN s.name ELSE m[d]]
    [] s.sig = "deviceRemove" -> /\ s.dev \in DOMAIN m /\ s.name = m[s.dev]
                                 /\ k = [d \in DOMAIN m \ {s.dev} |-> m[d]]
    [] s.sig = "deviceUpdate" -> s.dev \in DOMAIN m /\ k = [m EXCEPT ![s.dev] = s.name]
    [] OTHER                  -> k = m

\* After all the signals queued the names m are the names k.
Told(m, f, k) ==
  \E h : /\ h[0] = m /\ h[Len(f)] = k
         /\ \A i \in 0..Len(f) : IsMap(h[i])
         /\ \A i \in 1..Len(f) : Tells(h[i - 1], f[i], h[i])

LEMMA ToldNothing ==
  ASSUME NEW m, IsMap(m) PROVE Told(m, <<>>, m)
<1> DEFINE h == [i \in {0} |-> m]
<1>1. h[0] = m /\ h[Len(<<>>)] = m /\ 0..Len(<<>>) = {0} /\ 1..Len(<<>>) = {}
  OBVIOUS
<1> HIDE DEF h
<1>2. QED
  BY <1>1 DEF Told

LEMMA ToldIsMap ==
  ASSUME NEW m, NEW f \in Seq(Signal), NEW k, Told(m, f, k)
  PROVE  IsMap(m) /\ IsMap(k) /\ (f = <<>> => m = k)
<1>1. PICK h : /\ h[0] = m /\ h[Len(f)] = k /\ \A i \in 0..Len(f) : IsMap(h[i])
  BY DEF Told
<1>2. Len(f) \in Nat /\ 0 \in 0..Len(f) /\ Len(f) \in 0..Len(f) /\ (f = <<>> => Len(f) = 0)
  BY LenProperties
<1>3. QED
  BY <1>1, <1>2

LEMMA ToldHead ==
  ASSUME NEW m, NEW f \in Seq(Signal), f # <<>>, NEW k, Told(m, f, k)
  PROVE  \E l : IsMap(l) /\ Tells(m, Head(f), l) /\ Told(l, Tail(f), k)
<1>1. PICK h : /\ h[0] = m /\ h[Len(f)] = k /\ \A i \in 0..Len(f) : IsMap(h[i])
               /\ \A i \in 1..Len(f) : Tells(h[i - 1], f[i], h[i])
  BY DEF Told
<1> DEFINE t == Tail(f)
           g == [i \in 0..Len(t) |-> h[i + 1]]
<1>2. /\ Head(f) = f[1] /\ t \in Seq(Signal) /\ Len(t) = Len(f) - 1 /\ Len(t) \in Nat
      /\ Len(f) \in Nat \ {0} /\ \A i \in 1..Len(t) : t[i] = f[i + 1]
  BY HeadTailProperties, LenProperties
<1> HIDE DEF t
<1>3. \A i \in 0..Len(t) : g[i] = h[i + 1]
  OBVIOUS
<1> HIDE DEF g
<1>4. 1 \in 1..Len(f) /\ 1 \in 0..Len(f) /\ 1 - 1 = 0
  BY <1>2
<1>5. IsMap(h[1]) /\ Tells(m, Head(f), h[1])
  BY <1>1, <1>2, <1>4
<1>6. g[0] = h[1] /\ g[Len(t)] = k
  <2>1. 0 \in 0..Len(t) /\ Len(t) \in 0..Len(t) /\ Len(t) + 1 = Len(f) /\ 0 + 1 = 1
    BY <1>2
  <2>2. QED
    BY <1>1, <1>3, <2>1
<1>7. ASSUME NEW i \in 0..Len(t) PROVE IsMap(g[i])
  <2>1. i + 1 \in 0..Len(f)
    BY <1>2
  <2>2. QED
    BY <1>1, <1>3, <2>1
<1>8. ASSUME NEW i \in 1..Len(t) PROVE Tells(g[i - 1], t[i], g[i])
  <2>1. i + 1 \in 1..Len(f) /\ i \in 0..Len(t) /\ i - 1 \in 0..Len(t)
        /\ (i + 1) - 1 = i /\ (i - 1) + 1 = i
    BY <1>2
  <2>2. g[i] = h[i + 1] /\ g[i - 1] = h[i] /\ t[i] = f[i + 1]
    BY <1>2, <1>3, <2>1
  <2>3. Tells(h[(i + 1) - 1], f[i + 1], h[i + 1])
    BY <1>1, <2>1
  <2>4. QED
    BY <2>1, <2>2, <2>3
<1>9. Told(h[1], t, k)
  BY <1>6, <1>7, <1>8 DEF Told
<1>10. QED
  BY <1>5, <1>9 DEF t

LEMMA ToldAppend ==
  ASSUME NEW m, NEW f \in Seq(Signal), NEW k, Told(m, f, k),
         NEW s \in Signal, NEW l, IsMap(l), Tells(k, s, l)
  PROVE  Told(m, Append(f, s), l)
<1>1. PICK h : /\ h[0] = m /\ h[Len(f)] = k /\ \A i \in 0..Len(f) : IsMap(h[i])
               /\ \A i \in 1..Len(f) : Tells(h[i - 1], f[i], h[i])
  BY DEF Told
<1> DEFINE t == Append(f, s)
           g == [i \in 0..Len(f) + 1 |-> IF i = Len(f) + 1 THEN l ELSE h[i]]
<1>2. /\ t \in Seq(Signal) /\ Len(t) = Len(f) + 1 /\ t[Len(f) + 1] = s /\ Len(f) \in Nat
      /\ \A i \in 1..Len(f) : t[i] = f[i]
  BY AppendProperties, LenProperties
<1> HIDE DEF t
<1>3. \A i \in 0..Len(f) : i \in 0..Len(f) + 1 /\ i # Len(f) + 1
  BY <1>2
<1>4. Len(f) + 1 \in 0..Len(f) + 1
  BY <1>2
<1>5. g[Len(f) + 1] = l /\ \A i \in 0..Len(f) : g[i] = h[i]
  BY <1>3, <1>4
<1> HIDE DEF g
<1>6. 0 \in 0..Len(f) /\ Len(f) \in 0..Len(f) /\ (Len(f) + 1) - 1 = Len(f)
  BY <1>2
<1>7. \A i \in 0..Len(t) : i \in 0..Len(f) \/ i = Len(f) + 1
  BY <1>2
<1>8. \A i \in 1..Len(t) : i = Len(f) + 1 \/ (i \in 1..Len(f) /\ i \in 0..Len(f) /\ i - 1 \in 0..Len(f))
  BY <1>2
<1>9. g[0] = m /\ g[Len(t)] = l
  BY <1>1, <1>2, <1>5, <1>6
<1>10. \A i \in 0..Len(t) : IsMap(g[i])
  BY <1>1, <1>5, <1>7
<1>11. ASSUME NEW i \in 1..Len(t) PROVE Tells(g[i - 1], t[i], g[i])
  <2>1. CASE i = Len(f) + 1
    <3>1. g[i - 1] = k /\ t[i] = s /\ g[i] = l
      BY <1>1, <1>2, <1>5, <1>6, <2>1
    <3>2. QED
      BY <3>1
  <2>2. CASE i # Len(f) + 1
    <3>1. /\ i \in 1..Len(f) /\ g[i - 1] = h[i - 1] /\ g[i] = h[i] /\ t[i] = f[i]
      BY <1>2, <1>5, <1>8, <2>2
    <3>2. QED
      BY <1>1, <3>1
  <2>3. QED
    BY <2>1, <2>2
<1>12. QED
  BY <1>9, <1>10, <1>11 DEF Told, t

-----------------------------------------------------------------------------
(* The page's lists and the queue.                                         *)

NicNames == [d \in DOMAIN nic |-> nic[d].name]

PageInv ==
  /\ Boxed(page) /\ Parted(page)
  /\ Told(m_deviceMap, feed, NicNames)
  /\ \A n \in Listed(page) : \E d \in DOMAIN m_deviceMap : m_deviceMap[d] = n
  /\ commands \in Seq([name : Name, enable : BOOLEAN]) /\ timers \in Seq(Name) /\ crashed \in BOOLEAN

\* A step that leaves the lists alone, or rebuilds them from the devices listed.
Relists(p, q) ==
  /\ Boxed(q) /\ Parted(q) /\ Listed(q) = Listed(p)
  /\ Enabled(q) = Enabled(p) \/ Enabled(q) = {n \in Listed(p) : Managed(n)}
  /\ ShowsCurrent(p) => ShowsCurrent(q)

LEMMA SignalHead ==
  ASSUME SwitchInv, PageInv, feed # <<>>
  PROVE  /\ Msg \in Signal
         /\ \E l : IsMap(l) /\ Tells(m_deviceMap, Msg, l) /\ Told(l, Tail(feed), NicNames)
<1>1. Msg \in Signal
  BY SaidTail DEF SwitchInv, Msg
<1>2. QED
  BY <1>1, ToldHead DEF SwitchInv, PageInv, Msg

\* deviceAdd: the name is not listed yet.
LEMMA OnDeviceAddPage ==
  ASSUME SwitchInv, PageInv, OnDeviceAdd
  PROVE  /\ IsMap(m_deviceMap') /\ Told(m_deviceMap', feed', NicNames)
         /\ \E d \in DOMAIN m_deviceMap' : m_deviceMap'[d] = Msg.name
         /\ \A d \in DOMAIN m_deviceMap :
              d \in DOMAIN m_deviceMap' /\ m_deviceMap'[d] = m_deviceMap[d]
         /\ Msg.name \notin Listed(page)
         /\ Boxed(page') /\ Parted(page') /\ Stays(page, page')
         /\ Listed(page') = Listed(page) \cup {n \in {Msg.name} : n \in Names}
         /\ Enabled(page') = Enabled(page) \cup {n \in {Msg.name} : Managed(n)}
         /\ ShowsCurrent(page) /\ Managed(Msg.name) /\ page.on = page'.on => ShowsCurrent(page')
<1>1. feed # <<>> /\ Msg.sig = "deviceAdd" /\ feed' = Tail(feed)
  BY DEF OnDeviceAdd, Handle
<1>2. PICK l : IsMap(l) /\ Tells(m_deviceMap, Msg, l) /\ Told(l, Tail(feed), NicNames)
  BY <1>1, SignalHead
<1>3. /\ Msg.dev \notin DOMAIN m_deviceMap
      /\ l = [d \in DOMAIN m_deviceMap \cup {Msg.dev} |->
                IF d = Msg.dev THEN Msg.name ELSE m_deviceMap[d]]
  BY <1>1, <1>2 DEF Tells
<1>4. m_deviceMap' = l
  BY <1>3 DEF OnDeviceAdd
<1>5. /\ Msg.dev \in DOMAIN l /\ l[Msg.dev] = Msg.name
      /\ \A d \in DOMAIN m_deviceMap : d \in DOMAIN l /\ l[d] = m_deviceMap[d] /\ d # Msg.dev
  BY <1>3
<1>6. Msg.name \notin Listed(page)
  <2>1. \A d \in DOMAIN m_deviceMap : m_deviceMap[d] # Msg.name
    BY <1>2, <1>5 DEF IsMap
  <2>2. QED
    BY <2>1 DEF PageInv
<1>7. Boxed(page) /\ Parted(page) /\ wiredEnabled \in BOOLEAN
  BY DEF SwitchInv, PageInv
<1>8. ~Contains(page.m_devList, Msg.name)
  BY <1>6, <1>7, ContainsMember DEF Parted
<1>9. page' = IF Msg.name \notin Names THEN page ELSE DeviceAdded(page, Msg.name)
  BY <1>8 DEF OnDeviceAdd
<1>10. Managed(Msg.name) => Msg.name \in Names
  BY DEF Managed, Names
<1>11. CASE Msg.name \in Names
  <2> DEFINE q == DeviceAdded(page, Msg.name)
  <2>1. Msg.name \in Name
    BY <1>11 DEF Names, SwitchInv, NicType
  <2>2. /\ Boxed(q) /\ Parted(q) /\ Listed(q) = Listed(page) \cup {Msg.name} /\ q.on = wiredEnabled
        /\ Enabled(q) = Enabled(page) \cup (IF Managed(Msg.name) THEN {Msg.name} ELSE {})
        /\ ShowsCurrent(page) /\ Managed(Msg.name) /\ page.on = wiredEnabled => ShowsCurrent(q)
        /\ Stays(page, q)
    BY <1>6, <1>7, <2>1, DeviceAddedPage
  <2>3. page' = q
    BY <1>9, <1>11
  <2> HIDE DEF q
  <2>4. QED
    BY <1>1, <1>2, <1>4, <1>5, <1>6, <1>11, <2>2, <2>3
<1>12. CASE Msg.name \notin Names
  <2>1. page' = page
    BY <1>9, <1>12
  <2>2. QED
    BY <1>1, <1>2, <1>4, <1>5, <1>6, <1>7, <1>10, <1>12, <2>1 DEF Stays
<1>13. QED
  BY <1>11, <1>12

LEMMA OnDeviceRemovePage ==
  ASSUME SwitchInv, PageInv, OnDeviceRemove
  PROVE  /\ IsMap(m_deviceMap') /\ Told(m_deviceMap', feed', NicNames)
         /\ \A d \in DOMAIN m_deviceMap : m_deviceMap[d] # Msg.name =>
              d \in DOMAIN m_deviceMap' /\ m_deviceMap'[d] = m_deviceMap[d]
         /\ Boxed(page') /\ Parted(page') /\ Stays(page, page')
         /\ Listed(page') = Listed(page) \ {Msg.name} /\ Enabled(page') = Enabled(page) \ {Msg.name}
         /\ ShowsCurrent(page) => ShowsCurrent(page')
<1>1. feed # <<>> /\ Msg.sig = "deviceRemove" /\ feed' = Tail(feed)
  BY DEF OnDeviceRemove, Handle
<1>2. PICK l : IsMap(l) /\ Tells(m_deviceMap, Msg, l) /\ Told(l, Tail(feed), NicNames)
  BY <1>1, SignalHead
<1>3. /\ Msg.name = m_deviceMap[Msg.dev]
      /\ l = [d \in DOMAIN m_deviceMap \ {Msg.dev} |-> m_deviceMap[d]]
  BY <1>1, <1>2 DEF Tells
<1>4. m_deviceMap' = l
  BY <1>3 DEF OnDeviceRemove
<1>5. Boxed(page) /\ Parted(page)
  BY DEF PageInv
<1>6. Contains(page.m_devList, Msg.name) <=> Msg.name \in Listed(page)
  BY <1>5, ContainsMember DEF Parted
<1>7. /\ Boxed(page') /\ Parted(page') /\ Stays(page, page')
      /\ Listed(page') = Listed(page) \ {Msg.name} /\ Enabled(page') = Enabled(page) \ {Msg.name}
      /\ ShowsCurrent(page) => ShowsCurrent(page')
  <2>1. CASE Msg.name \in Listed(page)
    <3>1. PICK next \in IF Len(page.combo) < 2 THEN {0} ELSE 1..Len(page.combo) - 1 :
            page' = DeviceRemoved(page, Msg.name, next)
      BY <1>6, <2>1 DEF OnDeviceRemove
    <3>2. QED
      BY <1>5, <2>1, <3>1, DeviceRemovedPage
  <2>2. CASE Msg.name \notin Listed(page)
    <3>1. page' = page
      BY <1>6, <2>2 DEF OnDeviceRemove
    <3>2. Msg.name \notin Enabled(page)
      BY <1>5, <2>2 DEF Parted
    <3>3. QED
      BY <1>5, <2>2, <3>1, <3>2 DEF Stays
  <2>3. QED
    BY <2>1, <2>2
<1>8. QED
  BY <1>1, <1>2, <1>3, <1>4, <1>7

LEMMA OnDeviceUpdatePage ==
  ASSUME SwitchInv, PageInv, OnDeviceUpdate
  PROVE  /\ IsMap(m_deviceMap') /\ Told(m_deviceMap', feed', NicNames)
         /\ Msg.dev \in DOMAIN m_deviceMap /\ m_deviceMap' = [m_deviceMap EXCEPT ![Msg.dev] = Msg.name]
         /\ Boxed(page') /\ Parted(page') /\ Stays(page, page')
         /\ LET old == m_deviceMap[Msg.dev]
            IN Listed(page') = IF old \in Listed(page) THEN (Listed(page) \ {old}) \cup {Msg.name}
                                                       ELSE Listed(page)
         /\ ShowsCurrent(page) => ShowsCurrent(page')
<1> DEFINE old == m_deviceMap[Msg.dev]
<1>1. feed # <<>> /\ Msg.sig = "deviceUpdate" /\ feed' = Tail(feed)
  BY DEF OnDeviceUpdate, Handle
<1>2. PICK l : IsMap(l) /\ Tells(m_deviceMap, Msg, l) /\ Told(l, Tail(feed), NicNames)
  BY <1>1, SignalHead
<1>3. Msg.dev \in DOMAIN m_deviceMap /\ l = [m_deviceMap EXCEPT ![Msg.dev] = Msg.name]
  BY <1>1, <1>2 DEF Tells
<1>4. m_deviceMap' = l
  BY <1>3 DEF OnDeviceUpdate
<1>5. Boxed(page) /\ Parted(page)
  BY DEF PageInv
<1>6. Contains(page.m_devList, old) <=> old \in Listed(page)
  BY <1>5, ContainsMember DEF Parted
<1>7. l[Msg.dev] = Msg.name /\ Msg.name \in Name /\ DOMAIN l = DOMAIN m_deviceMap
      /\ \A d \in DOMAIN m_deviceMap : d # Msg.dev => l[d] = m_deviceMap[d]
  BY <1>2, <1>3 DEF IsMap
<1>8. /\ Boxed(page') /\ Parted(page') /\ Stays(page, page')
      /\ Listed(page') = IF old \in Listed(page) THEN (Listed(page) \ {old}) \cup {Msg.name}
                                                 ELSE Listed(page)
      /\ ShowsCurrent(page) => ShowsCurrent(page')
  <2>1. CASE old \in Listed(page) /\ old # Msg.name
    <3>1. page' = DeviceNameUpdated(page, old, Msg.name)
      BY <1>3, <1>6, <2>1 DEF OnDeviceUpdate
    <3>2. Msg.name \notin Listed(page)
      <4>1. SUFFICES ASSUME Msg.name \in Listed(page) PROVE FALSE
        OBVIOUS
      <4>2. PICK d \in DOMAIN m_deviceMap : m_deviceMap[d] = Msg.name
        BY <4>1 DEF PageInv
      <4>3. d # Msg.dev /\ l[d] = l[Msg.dev]
        BY <1>7, <2>1, <4>2
      <4>4. QED
        BY <1>2, <1>3, <1>7, <4>3 DEF IsMap
    <3> HIDE DEF old
    <3>3. QED
      BY <1>5, <1>7, <2>1, <3>1, <3>2, DeviceNameUpdatedPage
  <2>2. CASE ~(old \in Listed(page) /\ old # Msg.name)
    <3>1. page' = page
      BY <1>3, <1>6, <2>2 DEF OnDeviceUpdate
    <3>2. QED
      BY <1>5, <2>2, <3>1 DEF Stays
  <2>3. QED
    BY <2>1, <2>2
<1>9. QED
  BY <1>1, <1>2, <1>3, <1>4, <1>8

\* A handler of a signal that says nothing of the names.
LEMMA OtherHandled ==
  ASSUME SwitchInv, PageInv, NEW sig, Handle(sig), UNCHANGED m_deviceMap,
         sig \notin {"deviceAdd", "deviceRemove", "deviceUpdate"}
  PROVE  Told(m_deviceMap', feed', NicNames)
<1>1. feed # <<>> /\ Msg.sig = sig /\ feed' = Tail(feed)
  BY DEF Handle
<1>2. PICK l : Tells(m_deviceMap, Msg, l) /\ Told(l, Tail(feed), NicNames)
  BY <1>1, SignalHead
<1>3. l = m_deviceMap
  BY <1>1, <1>2 DEF Tells
<1>4. QED
  BY <1>1, <1>2, <1>3

LEMMA OnDeviceManagedChangePage ==
  ASSUME SwitchInv, PageInv, OnDeviceManagedChange
  PROVE  /\ Relists(page, page') /\ Stays(page, page')
         /\ Msg.name \in Names => Enabled(page') = {n \in Listed(page) : Managed(n)}
<1>1. page' = IF Msg.name \in Names THEN Rebuilt(page) ELSE page
  BY DEF OnDeviceManagedChange
<1>2. Boxed(page) /\ Parted(page) /\ Lists(page.m_devList, Listed(page))
  BY DEF PageInv, Parted
<1> DEFINE q == Rebuilt(page)
<1>3. /\ Boxed(q) /\ Parted(q) /\ Listed(q) = Listed(page) /\ q.on = page.on /\ ShowsCurrent(q)
      /\ Enabled(q) = {n \in Listed(page) : Managed(n)}
      /\ page.on /\ page.m_currentDeviceName \in Enabled(q)
           => q.m_currentDeviceName = page.m_currentDeviceName
  BY <1>2, RebuiltPage
<1> HIDE DEF q
<1>4. Stays(page, q)
  BY <1>3 DEF Stays, ShowsCurrent
<1>5. Relists(page, q) /\ Relists(page, page) /\ Stays(page, page)
  BY <1>2, <1>3 DEF Relists, Stays
<1>6. page' = IF Msg.name \in Names THEN q ELSE page
  BY <1>1 DEF q
<1>7. QED
  BY <1>3, <1>4, <1>5, <1>6

LEMMA OnWiredEnabledChangedPage ==
  ASSUME SwitchInv, PageInv, OnWiredEnabledChanged
  PROVE  Relists(page, page') /\ Stays(page, page')
<1>1. PICK enabled \in BOOLEAN :
        page' = IF page.m_devList = <<>> \/ page.on = enabled THEN page
                ELSE Rebuilt([page EXCEPT !.on = enabled])
  BY DEF OnWiredEnabledChanged
<1>2. Boxed(page) /\ Parted(page) /\ Lists(page.m_devList, Listed(page)) /\ page.on \in BOOLEAN
  BY DEF PageInv, Parted, Boxed, PageType
<1>3. Relists(page, page) /\ Stays(page, page)
  BY <1>2 DEF Relists, Stays
<1>4. CASE page' # page
  <2> DEFINE p == [page EXCEPT !.on = enabled]
             q == Rebuilt(p)
  <2>1. page' = q /\ page.on # enabled
    BY <1>1, <1>4
  <2>2. Boxed(p) /\ p.m_devList = page.m_devList /\ p.on = enabled
    BY <1>2 DEF Boxed, PageType
  <2> HIDE DEF p
  <2>3. Lists(p.m_devList, Listed(p)) /\ Listed(p) = Listed(page)
    BY <1>2, <2>2 DEF Listed
  <2>4. /\ Boxed(q) /\ Parted(q) /\ Listed(q) = Listed(page) /\ q.on = enabled /\ ShowsCurrent(q)
        /\ Enabled(q) = {n \in Listed(page) : Managed(n)}
    BY <2>2, <2>3, RebuiltPage
  <2> HIDE DEF q
  <2>5. Relists(page, q)
    BY <2>4 DEF Relists
  <2>6. Stays(page, q)
    BY <1>2, <2>1, <2>4 DEF Stays
  <2>7. QED
    BY <2>1, <2>5, <2>6
<1>5. QED
  BY <1>3, <1>4

LEMMA SameListsRelists ==
  ASSUME NEW p, NEW q, Parted(p), Boxed(q), SameLists(p, q), ShowsCurrent(p) => ShowsCurrent(q)
  PROVE  Relists(p, q)
BY PartedKept DEF Relists

LEMMA OnDeviceCarrieredPage ==
  ASSUME PageInv, OnDeviceCarriered
  PROVE  Relists(page, page') /\ Enabled(page') = Enabled(page)
<1>1. page' = page \/ \E i : page' = SetCurrentIndex(page, i)
  BY DEF OnDeviceCarriered
<1>2. Boxed(page) /\ Parted(page) /\ SameLists(page, page)
  BY DEF PageInv, SameLists
<1>3. Boxed(page') /\ SameLists(page, page') /\ (ShowsCurrent(page) => ShowsCurrent(page'))
  BY <1>1, <1>2, SetCurrentIndexPage
<1>4. QED
  BY <1>2, <1>3, SameListsRelists, PartedKept

LEMMA RequestsPage ==
  ASSUME PageInv, Requests, SwitchInv
  PROVE  /\ Boxed(page') /\ SameLists(page, page')
         /\ \/ ShowsCurrent(page) => ShowsCurrent(page')
            \/ page' = SetDefault(page, page'.m_currentDeviceName)
<1>1. \/ \E i : page' = SetCurrentIndex(page, i)
      \/ \E n \in Names : page' = SetDefault(page, n)
  BY DEF Requests, SelectDevice, SetDefaultWiredDevice
<1>2. Boxed(page)
  BY DEF PageInv
<1>3. ASSUME NEW n \in Names, page' = SetDefault(page, n)
      PROVE  /\ Boxed(page') /\ SameLists(page, page')
             /\ page' = SetDefault(page, page'.m_currentDeviceName)
  <2>1. n \in Label
    BY <1>3 DEF Names, SwitchInv, NicType, Label
  <2>2. Boxed(page') /\ SameLists(page, page') /\ page'.m_currentDeviceName = n
    BY <1>2, <1>3, <2>1, SetDefaultPage
  <2>3. QED
    BY <1>3, <2>2
<1>4. QED
  BY <1>1, <1>2, <1>3, SetCurrentIndexPage

\* What a device switch does, if the device is listed and plugged in.
LEMMA UpdateDeviceStatePage ==
  ASSUME SwitchInv, PageInv, NEW n, NEW enable \in BOOLEAN, UpdateDeviceState(n, enable)
  PROVE  /\ crashed' \in BOOLEAN
         /\ \/ UNCHANGED <<nic, page>>
            \/ /\ nic' = [d \in DOMAIN nic |-> IF nic[d].name = n
                                                 THEN [nic[d] EXCEPT !.managed = enable] ELSE nic[d]]
               /\ n \in Listed(page)
               /\ Boxed(page') /\ Parted(page') /\ Listed(page') = Listed(page) /\ ShowsCurrent(page')
               /\ Enabled(page') = IF enable THEN Enabled(page) \cup {n} ELSE Enabled(page) \ {n}
<1>1. Boxed(page) /\ Parted(page) /\ crashed \in BOOLEAN
  BY DEF PageInv
<1>2. Contains(page.m_devList, n) <=> n \in Listed(page)
  BY <1>1, ContainsMember DEF Parted
<1>3. CASE n \in Listed(page) /\ n \in Names
  <2>1. /\ nic' = [d \in DOMAIN nic |-> IF nic[d].name = n
                                          THEN [nic[d] EXCEPT !.managed = enable] ELSE nic[d]]
        /\ UNCHANGED crashed
    BY <1>2, <1>3 DEF UpdateDeviceState
  <2> DEFINE into(names) == IF Contains(names, n) THEN names ELSE Append(names, n)
             outof(names) == RemoveFirst(names, n)
             q == InitLanArea(InitDeviceCombox(
                    [page EXCEPT !.m_enableDeviceList  = IF enable THEN into(@) ELSE outof(@),
                                 !.m_disableDeviceList = IF enable THEN outof(@) ELSE into(@)]))
  <2>2. page' = q
    BY <1>2, <1>3 DEF UpdateDeviceState
  <2>3. /\ Boxed(q) /\ Parted(q) /\ Listed(q) = Listed(page) /\ ShowsCurrent(q)
        /\ Enabled(q) = IF enable THEN Enabled(page) \cup {n} ELSE Enabled(page) \ {n}
    BY <1>1, <1>3, SwitchedPage
  <2> HIDE DEF q
  <2>4. QED
    BY <1>1, <1>3, <2>1, <2>2, <2>3
<1>4. CASE ~(n \in Listed(page) /\ n \in Names)
  BY <1>1, <1>2, <1>4 DEF UpdateDeviceState
<1>5. QED
  BY <1>3, <1>4

-----------------------------------------------------------------------------
(* The lists' invariant is inductive.                                      *)

\* The lists of the constructed page.
LEMMA InitPage ==
  ASSUME Init
  PROVE  PageInv /\ Listed(page) = Names /\ Enabled(page) = {n \in Names : Managed(n)}
<1>1. /\ DOMAIN nic \subseteq Device /\ \A d \in DOMAIN nic : nic[d].name \in Name
      /\ \A d, e \in DOMAIN nic : nic[d].name = nic[e].name => d = e
      /\ feed = <<>> /\ commands = <<>> /\ timers = <<>> /\ crashed = FALSE
      /\ m_deviceMap = NicNames /\ wiredEnabled \in BOOLEAN
  BY DEF Init, NicNames
<1>2. IsMap(NicNames) /\ Names \subseteq Name
  BY <1>1 DEF IsMap, NicNames, Names
<1>3. Told(m_deviceMap, feed, NicNames)
  BY <1>1, <1>2, ToldNothing
<1>4. IsFiniteSet(Names)
  <2>1. IsFiniteSet(DOMAIN nic)
    BY <1>1, DeviceAssumption, FS_Subset
  <2>2. NicNames \in Surjection(DOMAIN nic, Names)
    BY DEF Surjection, NicNames, Names
  <2>3. QED
    BY <2>1, <2>2, FS_Surjection
<1>5. PICK old \in Names \cup {NoName}, devs \in SetToSeqs(Names) : page = Constructed(devs, old)
  BY DEF Init
<1>6. Lists(devs, Names)
  BY <1>2, <1>4, SetToSeqsLists
<1> DEFINE p == [m_devList |-> devs, m_enableDeviceList |-> <<>>, m_disableDeviceList |-> <<>>,
                 m_currentDeviceName |-> old, default |-> old, combo |-> <<>>, index |-> 0,
                 on |-> wiredEnabled, shown |-> NoName]
<1>7. page = Rebuilt(p)
  BY <1>5 DEF Constructed, Rebuilt
<1>8. p.m_devList = devs /\ Boxed(p)
  <2> DEFINE none == <<>>
  <2>1. none \in Seq(Name) /\ none \in Seq(Name \cup {NoName}) /\ Len(none) = 0
    OBVIOUS
  <2>2. old \in Name \cup {NoName} /\ NoName \in Name \cup {NoName} /\ 0 \in Nat
    BY <1>2
  <2>3. p = [m_devList |-> devs, m_enableDeviceList |-> none, m_disableDeviceList |-> none,
             m_currentDeviceName |-> old, default |-> old, combo |-> none, index |-> 0,
             on |-> wiredEnabled, shown |-> NoName]
    OBVIOUS
  <2> HIDE DEF none, p
  <2>4. p \in PageType
    BY <1>1, <1>6, <2>1, <2>2, <2>3 DEF PageType, Lists
  <2>5. p.m_devList = devs /\ p.combo = none /\ p.index = 0
    BY <2>3
  <2>6. QED
    BY <2>1, <2>4, <2>5 DEF Boxed
<1> HIDE DEF p
<1>9. Listed(p) = Names
  BY <1>6, <1>8 DEF Listed, Lists
<1> DEFINE q == Rebuilt(p)
<1>10. Boxed(q) /\ Parted(q) /\ Listed(q) = Names /\ Enabled(q) = {n \in Names : Managed(n)}
  <2>1. Lists(p.m_devList, Listed(p))
    BY <1>6, <1>8, <1>9
  <2>2. Boxed(q) /\ Parted(q) /\ Listed(q) = Listed(p) /\ Enabled(q) = {n \in Listed(p) : Managed(n)}
    BY <1>8, <2>1, RebuiltPage
  <2>3. QED
    BY <1>9, <2>2
<1> HIDE DEF q
<1>11. page = q
  BY <1>7 DEF q
<1>12. \A n \in Names : \E d \in DOMAIN m_deviceMap : m_deviceMap[d] = n
  BY <1>1 DEF NicNames, Names
<1>13. /\ commands \in Seq([name : Name, enable : BOOLEAN]) /\ timers \in Seq(Name)
       /\ crashed \in BOOLEAN
  <2>1. \A S : <<>> \in Seq(S)
    BY EmptySeq
  <2>2. QED
    BY <1>1, <2>1
<1>14. QED
  BY <1>3, <1>10, <1>11, <1>12, <1>13 DEF PageInv

\* A signal is queued: what it tells of is what has changed.
LEMMA SentPage ==
  ASSUME SwitchInv, PageInv, NEW m \in Signal, feed' = Append(feed, m), IsMap(NicNames'),
         Tells(NicNames, m, NicNames'), UNCHANGED <<m_deviceMap, page, commands, timers, crashed>>
  PROVE  PageInv'
<1>1. Told(m_deviceMap, feed', NicNames')
  BY ToldAppend DEF SwitchInv, PageInv
<1>2. QED
  BY <1>1 DEF PageInv

LEMMA NetworkManagerPage ==
  ASSUME SwitchInv, PageInv, NetworkManager
  PROVE  PageInv'
<1>1. /\ IsMap(NicNames) /\ DOMAIN NicNames = DOMAIN nic
      /\ \A d \in DOMAIN nic : NicNames[d] = nic[d].name /\ nic[d].name \in Name
      /\ DOMAIN nic \subseteq Device
  BY ToldIsMap DEF SwitchInv, PageInv, NicNames, NicType
<1>2. ASSUME NEW d \in Device, NEW n \in Name, NEW managed \in BOOLEAN, PlugIn(d, n, managed)
      PROVE  PageInv'
  <2> DEFINE m == [sig |-> "deviceAdd", dev |-> d, name |-> n]
  <2>1. m \in Signal /\ m.sig = "deviceAdd" /\ m.dev = d /\ m.name = n
    BY DEF Signal, Other
  <2>2. feed' = Append(feed, m)
    BY <1>2 DEF PlugIn, Emit
  <2>3. /\ d \notin DOMAIN nic /\ n \notin Names
        /\ UNCHANGED <<m_deviceMap, page, commands, timers, crashed>>
        /\ nic' = [e \in DOMAIN nic \cup {d} |->
                     IF e = d THEN [name |-> n, managed |-> managed, seen |-> managed] ELSE nic[e]]
    BY <1>2 DEF PlugIn, FreeName
  <2>4. NicNames' = [e \in DOMAIN NicNames \cup {d} |-> IF e = d THEN n ELSE NicNames[e]]
    BY <1>1, <2>3 DEF NicNames
  <2>5. \A e \in DOMAIN NicNames : NicNames[e] # n
    BY <1>1, <2>3 DEF Names
  <2>6. IsMap(NicNames')
    BY <1>1, <2>4, <2>5 DEF IsMap
  <2> HIDE DEF m
  <2>7. Tells(NicNames, m, NicNames')
    BY <1>1, <2>1, <2>3, <2>4 DEF Tells
  <2>8. QED
    BY <2>1, <2>2, <2>3, <2>6, <2>7, SentPage
<1>3. ASSUME NEW d \in Device, Unplug(d) PROVE PageInv'
  <2> DEFINE m == [sig |-> "deviceRemove", dev |-> d, name |-> nic[d].name]
  <2>1. /\ d \in DOMAIN nic /\ UNCHANGED <<m_deviceMap, page, commands, timers, crashed>>
        /\ feed' = Append(feed, m) /\ nic' = [e \in DOMAIN nic \ {d} |-> nic[e]]
    BY <1>3 DEF Unplug, Emit
  <2>2. m \in Signal /\ m.sig = "deviceRemove" /\ m.dev = d /\ m.name = NicNames[d]
    BY <1>1, <2>1 DEF Signal, Other
  <2>3. NicNames' = [e \in DOMAIN NicNames \ {d} |-> NicNames[e]]
    BY <1>1, <2>1 DEF NicNames
  <2>4. IsMap(NicNames')
    BY <1>1, <2>3 DEF IsMap
  <2> HIDE DEF m
  <2>5. Tells(NicNames, m, NicNames')
    BY <1>1, <2>1, <2>2, <2>3 DEF Tells
  <2>6. QED
    BY <2>1, <2>2, <2>4, <2>5, SentPage
<1>4. ASSUME NEW d \in Device, NEW n \in Name, Rename(d, n) PROVE PageInv'
  <2> DEFINE m == [sig |-> "deviceUpdate", dev |-> d, name |-> n]
  <2>1. m \in Signal /\ m.sig = "deviceUpdate" /\ m.dev = d /\ m.name = n
    BY DEF Signal, Other
  <2>2. /\ d \in DOMAIN nic /\ n \notin Names
        /\ UNCHANGED <<m_deviceMap, page, commands, timers, crashed>>
        /\ feed' = Append(feed, m) /\ nic' = [nic EXCEPT ![d].name = n]
    BY <1>4 DEF Rename, Emit, FreeName
  <2>3. DOMAIN nic' = DOMAIN nic /\ \A e \in DOMAIN nic : nic'[e].name = IF e = d THEN n ELSE nic[e].name
    BY <2>2 DEF SwitchInv, NicType
  <2>4. NicNames' = [NicNames EXCEPT ![d] = n]
    BY <1>1, <2>2, <2>3 DEF NicNames
  <2>5. \A e \in DOMAIN NicNames : NicNames[e] # n
    BY <1>1, <2>2 DEF Names
  <2>6. IsMap(NicNames')
    BY <1>1, <2>2, <2>4, <2>5 DEF IsMap
  <2> HIDE DEF m
  <2>7. Tells(NicNames, m, NicNames')
    BY <1>1, <2>1, <2>2, <2>4 DEF Tells
  <2>8. QED
    BY <2>1, <2>2, <2>6, <2>7, SentPage
<1>5. ASSUME NEW d \in Device, ChangeManaged(d) PROVE PageInv'
  <2>1. /\ UNCHANGED <<feed, commands, m_deviceMap, page, timers, crashed>>
        /\ nic' = [nic EXCEPT ![d].managed = ~@]
    BY <1>5 DEF ChangeManaged
  <2>2. NicNames' = NicNames
    BY <2>1 DEF NicNames, SwitchInv, NicType
  <2>3. QED
    BY <2>1, <2>2 DEF PageInv
<1>6. ASSUME NEW d \in Device, NEW sig \in {"deviceManagedChange", "deviceCarrierChanage"},
             d \in DOMAIN nic, Emit(sig, d, nic[d].name), NicNames' = NicNames,
             UNCHANGED <<m_deviceMap, page, commands, timers, crashed>>
      PROVE  PageInv'
  <2> DEFINE m == [sig |-> sig, dev |-> d, name |-> nic[d].name]
  <2>1. feed' = Append(feed, m)
    BY <1>6 DEF Emit
  <2>2. m \in Signal /\ m.sig = sig
    BY <1>1, <1>6 DEF Signal, Other
  <2> HIDE DEF m
  <2>3. Tells(NicNames, m, NicNames')
    BY <1>6, <2>2 DEF Tells
  <2>4. QED
    BY <1>1, <1>6, <2>1, <2>2, <2>3, SentPage
<1>7. ASSUME NEW d \in Device, SeeManaged(d) PROVE PageInv'
  <2>1. /\ d \in DOMAIN nic /\ Emit("deviceManagedChange", d, nic[d].name)
        /\ UNCHANGED <<m_deviceMap, page, commands, timers, crashed>>
        /\ nic' = [nic EXCEPT ![d].seen = nic[d].managed]
    BY <1>7 DEF SeeManaged
  <2>2. NicNames' = NicNames
    BY <2>1 DEF NicNames, SwitchInv, NicType
  <2>3. QED
    BY <1>6, <2>1, <2>2
<1>8. ASSUME NEW d \in Device, PlugCable(d) PROVE PageInv'
  <2>1. /\ d \in DOMAIN nic /\ Emit("deviceCarrierChanage", d, nic[d].name)
        /\ UNCHANGED <<nic, m_deviceMap, page, commands, timers, crashed>>
    BY <1>8 DEF PlugCable, nm
  <2>2. NicNames' = NicNames
    BY <2>1 DEF NicNames
  <2>3. QED
    BY <1>6, <2>1, <2>2
<1>9. ASSUME NEW d \in Device, NEW enable \in BOOLEAN, SetDeviceSwitch(d, enable) PROVE PageInv'
  <2>1. /\ d \in DOMAIN nic /\ commands' = Append(commands, [name |-> nic[d].name, enable |-> enable])
        /\ UNCHANGED <<nic, feed, m_deviceMap, page, timers, crashed>>
    BY <1>9 DEF SetDeviceSwitch, nm
  <2>2. commands' \in Seq([name : Name, enable : BOOLEAN])
    BY <1>1, <2>1 DEF PageInv
  <2>3. QED
    BY <2>1, <2>2 DEF PageInv, NicNames
<1>10. ASSUME SetWiredEnabled PROVE PageInv'
  <2> DEFINE m == [sig |-> IF wiredEnabled THEN "wiredDisabled" ELSE "wiredEnabled",
                   dev |-> {}, name |-> NoName]
  <2>1. /\ feed' = Append(feed, m) /\ UNCHANGED <<nic, m_deviceMap, page, commands, timers, crashed>>
    BY <1>10 DEF SetWiredEnabled, Emit
  <2>2. m.sig \in Switch /\ m \in Signal
    <3>1. m.sig \in Switch
      BY DEF Switch
    <3>2. m \in Signal
      BY DEF Signal, Switch
    <3>3. QED
      BY <3>1, <3>2
  <2> HIDE DEF m
  <2>3. NicNames' = NicNames
    BY <2>1 DEF NicNames
  <2>4. Tells(NicNames, m, NicNames')
    BY <2>2, <2>3 DEF Tells, Switch
  <2>5. QED
    BY <1>1, <2>1, <2>2, <2>3, <2>4, SentPage
<1>11. QED
  BY <1>2, <1>3, <1>4, <1>5, <1>7, <1>8, <1>9, <1>10 DEF NetworkManager

LEMMA SignalsPage ==
  ASSUME SwitchInv, PageInv, Signals
  PROVE  PageInv'
<1>1. UNCHANGED <<nic, commands, timers, crashed>>
  BY DEF Signals, OnDeviceAdd, OnDeviceRemove, OnDeviceUpdate, OnDeviceManagedChange,
         OnWiredEnabledChanged, OnDeviceCarriered, Handle, nm
<1>2. ASSUME Told(m_deviceMap', feed', NicNames), Boxed(page'), Parted(page'),
             \A n \in Listed(page') : \E d \in DOMAIN m_deviceMap' : m_deviceMap'[d] = n
      PROVE  PageInv'
  <2>1. NicNames' = NicNames
    BY <1>1 DEF NicNames
  <2>2. QED
    BY <1>1, <1>2, <2>1 DEF PageInv
<1>3. \A n \in Listed(page) : \E d \in DOMAIN m_deviceMap : m_deviceMap[d] = n
  BY DEF PageInv
<1>4. CASE OnDeviceAdd
  <2>1. \A n \in Listed(page') : \E d \in DOMAIN m_deviceMap' : m_deviceMap'[d] = n
    BY <1>3, <1>4, OnDeviceAddPage
  <2>2. QED
    BY <1>2, <1>4, <2>1, OnDeviceAddPage
<1>5. CASE OnDeviceRemove
  <2>1. \A n \in Listed(page') : \E d \in DOMAIN m_deviceMap' : m_deviceMap'[d] = n
    <3>1. \A n \in Listed(page') : n \in Listed(page) /\ n # Msg.name
      BY <1>5, OnDeviceRemovePage
    <3>2. QED
      BY <1>3, <1>5, <3>1, OnDeviceRemovePage
  <2>2. QED
    BY <1>2, <1>5, <2>1, OnDeviceRemovePage
<1>6. CASE OnDeviceUpdate
  <2> DEFINE old == m_deviceMap[Msg.dev]
             map == [m_deviceMap EXCEPT ![Msg.dev] = Msg.name]
  <2>1. /\ Msg.dev \in DOMAIN m_deviceMap /\ m_deviceMap' = map
        /\ Listed(page') = IF old \in Listed(page) THEN (Listed(page) \ {old}) \cup {Msg.name}
                                                   ELSE Listed(page)
    BY <1>6, OnDeviceUpdatePage
  <2>2. map[Msg.dev] = Msg.name /\ DOMAIN map = DOMAIN m_deviceMap
        /\ \A d \in DOMAIN m_deviceMap : d # Msg.dev => map[d] = m_deviceMap[d]
    BY <2>1
  <2> HIDE DEF map
  <2>3. \A n \in Listed(page') : n = Msg.name \/ (n \in Listed(page) /\ n # old)
    BY <2>1
  <2>4. \A n \in Listed(page') : \E d \in DOMAIN map : map[d] = n
    <3>1. SUFFICES ASSUME NEW n \in Listed(page') PROVE \E d \in DOMAIN map : map[d] = n
      OBVIOUS
    <3>2. CASE n = Msg.name
      BY <2>1, <2>2, <3>2
    <3>3. CASE n \in Listed(page) /\ n # old
      <4>1. PICK d \in DOMAIN m_deviceMap : m_deviceMap[d] = n
        BY <1>3, <3>3
      <4>2. d # Msg.dev
        BY <3>3, <4>1
      <4>3. QED
        BY <2>2, <4>1, <4>2
    <3>4. QED
      BY <2>3, <3>1, <3>2, <3>3
  <2>5. QED
    BY <1>2, <1>6, <2>1, <2>4, OnDeviceUpdatePage
<1>7. ASSUME Relists(page, page'), UNCHANGED m_deviceMap, NEW sig, Handle(sig),
             sig \notin {"deviceAdd", "deviceRemove", "deviceUpdate"}
      PROVE  PageInv'
  <2>1. Told(m_deviceMap', feed', NicNames)
    BY <1>7, OtherHandled
  <2>2. \A n \in Listed(page') : \E d \in DOMAIN m_deviceMap' : m_deviceMap'[d] = n
    BY <1>3, <1>7 DEF Relists
  <2>3. QED
    BY <1>2, <1>7, <2>1, <2>2 DEF Relists
<1>8. CASE OnDeviceManagedChange
  <2>1. Handle("deviceManagedChange") /\ UNCHANGED m_deviceMap
    BY <1>8 DEF OnDeviceManagedChange
  <2>2. QED
    BY <1>7, <1>8, <2>1, OnDeviceManagedChangePage
<1>9. CASE OnWiredEnabledChanged
  <2>1. PICK sig \in {"wiredEnabled", "wiredDisabled"} : Handle(sig)
    BY <1>9 DEF OnWiredEnabledChanged
  <2>2. UNCHANGED m_deviceMap
    BY <1>9 DEF OnWiredEnabledChanged
  <2>3. QED
    BY <1>7, <1>9, <2>1, <2>2, OnWiredEnabledChangedPage
<1>10. CASE OnDeviceCarriered
  <2>1. Handle("deviceCarrierChanage") /\ UNCHANGED m_deviceMap
    BY <1>10 DEF OnDeviceCarriered
  <2>2. QED
    BY <1>7, <1>10, <2>1, OnDeviceCarrieredPage
<1>11. QED
  BY <1>4, <1>5, <1>6, <1>8, <1>9, <1>10 DEF Signals

LEMMA CommandsPage ==
  ASSUME SwitchInv, PageInv, OnSysWiredDevSwitchChanged \/ DisableTimeout \/ Requests
  PROVE  PageInv'
<1>1. UNCHANGED <<feed, m_deviceMap>>
  BY DEF OnSysWiredDevSwitchChanged, DisableTimeout, Requests, SelectDevice, SetDefaultWiredDevice
<1>2. ASSUME NicNames' = NicNames, Boxed(page'), Parted(page'), Listed(page') = Listed(page),
             commands' \in Seq([name : Name, enable : BOOLEAN]), timers' \in Seq(Name),
             crashed' \in BOOLEAN
      PROVE  PageInv'
  BY <1>1, <1>2 DEF PageInv
<1>3. /\ commands \in Seq([name : Name, enable : BOOLEAN]) /\ timers \in Seq(Name)
      /\ crashed \in BOOLEAN /\ Boxed(page) /\ Parted(page)
  BY DEF PageInv
<1>4. ASSUME NEW n, NEW enable \in BOOLEAN, UpdateDeviceState(n, enable)
      PROVE  /\ NicNames' = NicNames /\ crashed' \in BOOLEAN
             /\ Boxed(page') /\ Parted(page') /\ Listed(page') = Listed(page)
  <2>1. CASE UNCHANGED <<nic, page>>
    BY <1>3, <1>4, <2>1, UpdateDeviceStatePage DEF NicNames
  <2>2. CASE ~UNCHANGED <<nic, page>>
    <3>1. nic' = [d \in DOMAIN nic |-> IF nic[d].name = n
                                         THEN [nic[d] EXCEPT !.managed = enable] ELSE nic[d]]
      BY <1>4, <2>2, UpdateDeviceStatePage
    <3>2. NicNames' = NicNames
      BY <3>1 DEF NicNames, SwitchInv, NicType
    <3>3. QED
      BY <1>4, <2>2, <3>2, UpdateDeviceStatePage
  <2>3. QED
    BY <2>1, <2>2
<1>5. CASE OnSysWiredDevSwitchChanged
  <2>1. commands # <<>> /\ commands' = Tail(commands)
    BY <1>5 DEF OnSysWiredDevSwitchChanged
  <2>2. commands' \in Seq([name : Name, enable : BOOLEAN]) /\ Head(commands).name \in Name
    <3> DEFINE Command == [name : Name, enable : BOOLEAN]
    <3>1. \A c \in Command : c.name \in Name
      OBVIOUS
    <3> HIDE DEF Command
    <3>2. commands \in Seq(Command)
      BY <1>3 DEF Command
    <3>3. Tail(commands) \in Seq(Command) /\ Head(commands) \in Command
      BY <2>1, <3>2, HeadTailProperties
    <3>4. QED
      BY <2>1, <3>1, <3>3 DEF Command
  <2>3. \/ UpdateDeviceState(Head(commands).name, TRUE) /\ UNCHANGED timers
        \/ timers' = Append(timers, Head(commands).name) /\ UNCHANGED <<nic, page, crashed>>
    BY <1>5 DEF OnSysWiredDevSwitchChanged
  <2>4. timers' \in Seq(Name)
    <3> DEFINE n == Head(commands).name
    <3>1. n \in Name /\ timers \in Seq(Name) /\ timers' \in {timers, Append(timers, n)}
      BY <1>3, <2>2, <2>3
    <3> HIDE DEF n
    <3>2. Append(timers, n) \in Seq(Name)
      BY <3>1, AppendProperties
    <3>3. QED
      BY <3>1, <3>2
  <2>5. CASE UpdateDeviceState(Head(commands).name, TRUE)
    BY <1>2, <1>4, <2>2, <2>4, <2>5
  <2>6. CASE UNCHANGED <<nic, page, crashed>>
    <3>1. NicNames' = NicNames
      BY <2>6 DEF NicNames
    <3>2. QED
      BY <1>2, <1>3, <2>2, <2>4, <2>6, <3>1
  <2>7. QED
    BY <2>3, <2>5, <2>6
<1>6. CASE DisableTimeout
  <2>1. timers # <<>> /\ timers' = Tail(timers) /\ UNCHANGED commands
        /\ UpdateDeviceState(Head(timers), FALSE)
    BY <1>6 DEF DisableTimeout
  <2>2. timers' \in Seq(Name)
    BY <1>3, <2>1, HeadTailProperties
  <2>3. QED
    BY <1>2, <1>3, <1>4, <2>1, <2>2
<1>7. CASE Requests
  <2>1. UNCHANGED <<nic, commands, timers, crashed>>
    BY <1>7 DEF Requests, SelectDevice, SetDefaultWiredDevice, nm
  <2>2. Boxed(page') /\ SameLists(page, page')
    BY <1>7, RequestsPage
  <2>3. Parted(page') /\ Listed(page') = Listed(page)
    BY <1>3, <2>2, PartedKept
  <2>4. NicNames' = NicNames
    BY <2>1 DEF NicNames
  <2>5. QED
    BY <1>2, <1>3, <2>1, <2>2, <2>3, <2>4
<1>8. QED
  BY <1>5, <1>6, <1>7

DevicesInv == SwitchInv /\ PageInv

LEMMA DevicesInductive == DevicesInv /\ [Next]_vars => DevicesInv'
<1>1. SUFFICES ASSUME DevicesInv, [Next]_vars PROVE DevicesInv'
  OBVIOUS
<1>2. SwitchInv /\ PageInv
  BY <1>1 DEF DevicesInv
<1>3. CASE UNCHANGED vars
  <2>1. SwitchInv'
    BY <1>2, <1>3 DEF vars, SwitchInv, NicType
  <2>2. PageInv'
    BY <1>2, <1>3 DEF vars, PageInv, NicNames
  <2>3. QED
    BY <2>1, <2>2 DEF DevicesInv
<1>4. CASE Next
  <2>1. SwitchInv'
    BY <1>2, <1>4, NetworkManagerInv, SignalsInv, CommandsInv DEF Next
  <2>2. PageInv'
    BY <1>2, <1>4, NetworkManagerPage, SignalsPage, CommandsPage DEF Next
  <2>3. QED
    BY <2>1, <2>2 DEF DevicesInv
<1>5. QED
  BY <1>1, <1>3, <1>4

LEMMA DevicesInvariant == Spec => []DevicesInv
<1>1. Init => DevicesInv
  BY InitSwitch, InitPage DEF DevicesInv
<1>2. QED
  BY <1>1, DevicesInductive, PTL DEF Spec

\* What a step does to the page, by what the signal at the head of the queue is.
LEMMA PageSteps ==
  ASSUME DevicesInv, [Next]_vars, page' # page
  PROVE  \/ /\ feed # <<>> /\ Msg.sig = "deviceAdd" /\ feed' = Tail(feed) /\ Stays(page, page')
            /\ ShowsCurrent(page) /\ Managed(Msg.name) /\ page.on = page'.on => ShowsCurrent(page')
         \/ /\ feed # <<>> /\ Msg.sig # "deviceCarrierChanage" /\ feed' = Tail(feed)
            /\ Stays(page, page') /\ (ShowsCurrent(page) => ShowsCurrent(page'))
         \/ /\ feed # <<>> /\ Msg.sig = "deviceCarrierChanage"
            /\ ShowsCurrent(page) => ShowsCurrent(page')
         \/ /\ feed' = feed
            /\ \/ ShowsCurrent(page) => ShowsCurrent(page')
               \/ page' = SetDefault(page, page'.m_currentDeviceName)
<1>1. SwitchInv /\ PageInv
  BY DEF DevicesInv
<1>2. Next /\ ~UNCHANGED page
  BY DEF vars
<1>3. ~NetworkManager
  BY <1>2 DEF NetworkManager, PlugIn, Rename, Unplug, ChangeManaged, SeeManaged, PlugCable,
              SetDeviceSwitch, SetWiredEnabled
<1>4. \A sig : Handle(sig) => feed # <<>> /\ Msg.sig = sig /\ feed' = Tail(feed)
  BY DEF Handle
<1>5. CASE OnDeviceAdd
  <2>1. Handle("deviceAdd")
    BY <1>5 DEF OnDeviceAdd
  <2>2. QED
    BY <1>1, <1>4, <1>5, <2>1, OnDeviceAddPage
<1>6. CASE OnDeviceRemove
  <2>1. Handle("deviceRemove")
    BY <1>6 DEF OnDeviceRemove
  <2>2. QED
    BY <1>1, <1>4, <1>6, <2>1, OnDeviceRemovePage
<1>7. CASE OnDeviceUpdate
  <2>1. Handle("deviceUpdate")
    BY <1>7 DEF OnDeviceUpdate
  <2>2. QED
    BY <1>1, <1>4, <1>7, <2>1, OnDeviceUpdatePage
<1>8. CASE OnDeviceManagedChange
  <2>1. Handle("deviceManagedChange")
    BY <1>8 DEF OnDeviceManagedChange
  <2>2. QED
    BY <1>1, <1>4, <1>8, <2>1, OnDeviceManagedChangePage DEF Relists
<1>9. CASE OnWiredEnabledChanged
  <2>1. Handle("wiredEnabled") \/ Handle("wiredDisabled")
    BY <1>9 DEF OnWiredEnabledChanged
  <2>2. QED
    BY <1>1, <1>4, <1>9, <2>1, OnWiredEnabledChangedPage DEF Relists
<1>10. CASE OnDeviceCarriered
  <2>1. Handle("deviceCarrierChanage")
    BY <1>10 DEF OnDeviceCarriered
  <2>2. QED
    BY <1>1, <1>4, <1>10, <2>1, OnDeviceCarrieredPage DEF Relists
<1>11. ASSUME NEW n, NEW enable \in BOOLEAN, UpdateDeviceState(n, enable) PROVE ShowsCurrent(page')
  BY <1>1, <1>2, <1>11, UpdateDeviceStatePage
<1>12. CASE OnSysWiredDevSwitchChanged
  <2>1. UpdateDeviceState(Head(commands).name, TRUE) /\ feed' = feed
    BY <1>2, <1>12 DEF OnSysWiredDevSwitchChanged
  <2>2. QED
    BY <1>11, <2>1
<1>13. CASE DisableTimeout
  <2>1. UpdateDeviceState(Head(timers), FALSE) /\ feed' = feed
    BY <1>13 DEF DisableTimeout
  <2>2. QED
    BY <1>11, <2>1
<1>14. CASE Requests
  <2>1. feed' = feed
    BY <1>14 DEF Requests, SelectDevice, SetDefaultWiredDevice
  <2>2. QED
    BY <1>1, <1>14, <2>1, RequestsPage
<1>15. QED
  BY <1>2, <1>3, <1>5, <1>6, <1>7, <1>8, <1>9, <1>10, <1>12, <1>13, <1>14 DEF Next, Signals

-----------------------------------------------------------------------------
(* Where no device is renamed: every plugged device is listed, and enabled *)
(* if it is managed, or a signal still queued will see to it.              *)

Forgets(s, n) == s.sig = "deviceRemove" /\ s.name = n
Finds(s, n)   == s.sig = "deviceAdd" /\ s.name = n
Renews(s, n)  == s.sig \in {"deviceAdd", "deviceManagedChange"} /\ s.name = n

\* The name will be listed when the signals are handled.
WillList(f, listed, n) ==
  \/ n \in listed /\ \A i \in DOMAIN f : ~Forgets(f[i], n)
  \/ \E i \in DOMAIN f : Finds(f[i], n) /\ \A j \in DOMAIN f : j > i => ~Forgets(f[j], n)

\* The page has the device where the library has it, or will have.
Reflects(f, p, d) ==
  LET n == nic[d].name
  IN n \in Listed(p) => \/ n \in Enabled(p) <=> nic[d].seen
                        \/ nic[d].seen # nic[d].managed
                        \/ \E i \in DOMAIN f : Renews(f[i], n)

NewsInv ==
  /\ \A i \in DOMAIN feed : feed[i].sig # "deviceUpdate"
  /\ \A n \in Names : WillList(feed, Listed(page), n)
  /\ \A d \in DOMAIN nic : Reflects(feed, page, d)

LEMMA TailPlaces ==
  ASSUME NEW f \in Seq(Signal), f # <<>>
  PROVE  /\ DOMAIN f = 1..Len(f) /\ DOMAIN Tail(f) = 1..Len(f) - 1 /\ Len(f) \in Nat \ {0}
         /\ Head(f) = f[1] /\ 1 \in DOMAIN f
         /\ \A i \in DOMAIN Tail(f) : i + 1 \in DOMAIN f /\ Tail(f)[i] = f[i + 1] /\ i \in Nat
         /\ \A i \in DOMAIN f : i # 1 => i - 1 \in DOMAIN Tail(f) /\ Tail(f)[i - 1] = f[i]
<1> DEFINE t == Tail(f)
<1>1. /\ Head(f) = f[1] /\ t \in Seq(Signal) /\ Len(t) = Len(f) - 1
      /\ Len(f) \in Nat \ {0} /\ \A i \in 1..Len(t) : t[i] = f[i + 1]
  BY HeadTailProperties
<1> HIDE DEF t
<1>2. DOMAIN f = 1..Len(f) /\ DOMAIN t = 1..Len(f) - 1
  BY <1>1
<1>3. 1 \in DOMAIN f /\ \A i \in DOMAIN t : i + 1 \in DOMAIN f /\ t[i] = f[i + 1] /\ i \in Nat
  BY <1>1, <1>2
<1>4. ASSUME NEW i \in DOMAIN f, i # 1 PROVE i - 1 \in DOMAIN t /\ t[i - 1] = f[i]
  <2>1. i - 1 \in 1..Len(f) - 1 /\ (i - 1) + 1 = i
    BY <1>1, <1>2, <1>4
  <2>2. QED
    BY <1>1, <1>2, <2>1
<1>5. QED
  BY <1>1, <1>2, <1>3, <1>4 DEF t

LEMMA AppendPlaces ==
  ASSUME NEW f \in Seq(Signal), NEW s \in Signal
  PROVE  /\ Len(f) \in Nat /\ Len(f) + 1 \in DOMAIN Append(f, s) /\ Append(f, s)[Len(f) + 1] = s
         /\ \A i \in DOMAIN f : i \in DOMAIN Append(f, s) /\ Append(f, s)[i] = f[i] /\ i \in Nat
         /\ \A i \in DOMAIN Append(f, s) : i \in DOMAIN f \/ i = Len(f) + 1
         /\ \A i \in DOMAIN Append(f, s) : ~(i > Len(f) + 1)
<1> DEFINE g == Append(f, s)
<1>1. /\ g \in Seq(Signal) /\ Len(g) = Len(f) + 1 /\ g[Len(f) + 1] = s /\ Len(f) \in Nat
      /\ \A i \in 1..Len(f) : g[i] = f[i]
  BY AppendProperties, LenProperties
<1> HIDE DEF g
<1>2. DOMAIN g = 1..Len(f) + 1 /\ DOMAIN f = 1..Len(f)
  BY <1>1
<1>3. QED
  BY <1>1, <1>2 DEF g

LEMMA WillListTail ==
  ASSUME NEW f \in Seq(Signal), f # <<>>, NEW listed, NEW n, WillList(f, listed, n), NEW after,
         n \in listed /\ ~Forgets(Head(f), n) => n \in after,
         Finds(Head(f), n) => n \in after
  PROVE  WillList(Tail(f), after, n)
<1> DEFINE t == Tail(f)
<1>1. /\ Head(f) = f[1] /\ 1 \in DOMAIN f /\ DOMAIN f = 1..Len(f) /\ Len(f) \in Nat
      /\ \A i \in DOMAIN t : i + 1 \in DOMAIN f /\ t[i] = f[i + 1] /\ i \in Nat
      /\ \A i \in DOMAIN f : i # 1 => i - 1 \in DOMAIN t /\ t[i - 1] = f[i]
  BY TailPlaces
<1> HIDE DEF t
<1>2. \A i \in DOMAIN t : i \in Nat /\ (i >= 1 => i + 1 > 1)
  BY <1>1
<1>3. CASE n \in listed /\ \A i \in DOMAIN f : ~Forgets(f[i], n)
  BY <1>1, <1>3 DEF WillList, t
<1>4. ASSUME NEW i \in DOMAIN f, Finds(f[i], n), \A j \in DOMAIN f : j > i => ~Forgets(f[j], n)
      PROVE  WillList(t, after, n)
  <2>1. CASE i = 1
    <3>1. \A j \in DOMAIN t : j + 1 > 1
      <4>1. DOMAIN t = 1..Len(f) - 1
        BY TailPlaces DEF t
      <4>2. QED
        BY <1>1, <4>1
    <3>2. \A j \in DOMAIN t : ~Forgets(t[j], n)
      BY <1>1, <1>4, <2>1, <3>1
    <3>3. QED
      BY <1>1, <1>4, <2>1, <3>2 DEF WillList
  <2>2. CASE i # 1
    <3>1. i - 1 \in DOMAIN t /\ Finds(t[i - 1], n)
      BY <1>1, <1>4, <2>2
    <3>2. ASSUME NEW j \in DOMAIN t, j > i - 1 PROVE ~Forgets(t[j], n)
      <4>1. j + 1 \in DOMAIN f /\ j + 1 > i /\ t[j] = f[j + 1]
        BY <1>1, <1>4, <3>2
      <4>2. QED
        BY <1>4, <4>1
    <3>3. QED
      BY <3>1, <3>2 DEF WillList
  <2>3. QED
    BY <2>1, <2>2
<1>5. QED
  BY <1>3, <1>4 DEF WillList, t

LEMMA WillListAppend ==
  ASSUME NEW f \in Seq(Signal), NEW s \in Signal, NEW listed, NEW n,
         \/ WillList(f, listed, n) /\ ~Forgets(s, n)
         \/ Finds(s, n)
  PROVE  WillList(Append(f, s), listed, n)
<1> DEFINE g == Append(f, s)
           k == Len(f) + 1
<1>1. /\ k \in DOMAIN g /\ g[k] = s
      /\ \A i \in DOMAIN f : i \in DOMAIN g /\ g[i] = f[i]
      /\ \A i \in DOMAIN g : i \in DOMAIN f \/ i = k
      /\ \A i \in DOMAIN g : ~(i > k)
  BY AppendPlaces
<1> HIDE DEF g, k
<1>2. QED
  BY <1>1 DEF WillList, g

LEMMA RenewedTail ==
  ASSUME NEW f \in Seq(Signal), f # <<>>, NEW n, \E i \in DOMAIN f : Renews(f[i], n)
  PROVE  Renews(Head(f), n) \/ \E i \in DOMAIN Tail(f) : Renews(Tail(f)[i], n)
BY TailPlaces

\* The library's answer about a name is about the device that has it.
LEMMA ManagedSeen ==
  ASSUME DevicesInv, NEW d \in DOMAIN nic
  PROVE  /\ Managed(nic[d].name) <=> nic[d].seen
         /\ nic[d].name \in Names /\ nic[d].seen \in BOOLEAN /\ nic[d].managed \in BOOLEAN
         /\ \A e \in DOMAIN nic : nic[e].name = nic[d].name => e = d
<1>1. feed \in Seq(Signal) /\ Told(m_deviceMap, feed, NicNames)
      /\ nic[d] \in [name : Name, managed : BOOLEAN, seen : BOOLEAN]
  BY DEF DevicesInv, SwitchInv, PageInv, NicType
<1>2. \A e \in DOMAIN nic : nic[e].name = nic[d].name => e = d
  <2>1. IsMap(NicNames)
    BY <1>1, ToldIsMap
  <2>2. QED
    BY <2>1 DEF IsMap, NicNames
<1>3. QED
  BY <1>1, <1>2 DEF Managed, Names

LEMMA HandledNews ==
  ASSUME DevicesInv, NewsInv, feed # <<>>, feed' = Tail(feed), UNCHANGED nic,
         \A n \in Names : n \in Listed(page) /\ ~Forgets(Msg, n) => n \in Listed(page'),
         \A n \in Names : Finds(Msg, n) => n \in Listed(page'),
         \A d \in DOMAIN nic :
           LET n == nic[d].name
           IN n \in Listed(page') =>
                IF Renews(Msg, n) THEN n \in Enabled(page') <=> nic[d].seen
                ELSE /\ n \in Listed(page)
                     /\ \/ n \in Enabled(page') <=> n \in Enabled(page)
                        \/ n \in Enabled(page') <=> nic[d].seen
  PROVE  NewsInv'
<1>1. feed \in Seq(Signal)
  BY DEF DevicesInv, SwitchInv
<1>2. \A i \in DOMAIN feed' : feed'[i].sig # "deviceUpdate"
  BY <1>1, TailPlaces DEF NewsInv
<1>3. ASSUME NEW n \in Names PROVE WillList(feed', Listed(page'), n)
  <2>1. WillList(feed, Listed(page), n)
    BY DEF NewsInv
  <2>2. QED
    BY <1>1, <2>1, WillListTail DEF Msg
<1>4. ASSUME NEW d \in DOMAIN nic PROVE Reflects(feed', page', d)
  <2> DEFINE n == nic[d].name
  <2>1. SUFFICES ASSUME n \in Listed(page'), nic[d].seen = nic[d].managed, ~Renews(Msg, n),
                        ~(n \in Enabled(page') <=> nic[d].seen)
                 PROVE  \E i \in DOMAIN feed' : Renews(feed'[i], n)
    BY DEF Reflects
  <2>2. n \in Listed(page) /\ ~(n \in Enabled(page) <=> nic[d].seen)
    BY <2>1
  <2>3. \E i \in DOMAIN feed : Renews(feed[i], n)
    BY <2>1, <2>2 DEF NewsInv, Reflects
  <2>4. QED
    BY <1>1, <2>1, <2>3, RenewedTail DEF Msg
<1>5. Names' = Names
  BY DEF Names
<1>6. \A d \in DOMAIN nic' : Reflects(feed, page, d)'
  BY <1>4 DEF Reflects
<1>7. QED
  BY <1>2, <1>3, <1>5, <1>6 DEF NewsInv

LEMMA SentNews ==
  ASSUME DevicesInv, NewsInv, NEW m \in Signal, feed' = Append(feed, m), UNCHANGED page,
         m.sig # "deviceUpdate",
         \A n \in Names' : (n \in Names /\ ~Forgets(m, n)) \/ Finds(m, n),
         \A d \in DOMAIN nic' : Renews(m, nic'[d].name) \/ (d \in DOMAIN nic /\ nic'[d] = nic[d])
  PROVE  NewsInv'
<1>1. feed \in Seq(Signal)
  BY DEF DevicesInv, SwitchInv
<1>2. /\ \A i \in DOMAIN feed' : (i \in DOMAIN feed /\ feed'[i] = feed[i]) \/ feed'[i] = m
      /\ \A i \in DOMAIN feed : i \in DOMAIN feed' /\ feed'[i] = feed[i]
      /\ \E i \in DOMAIN feed' : feed'[i] = m
  BY <1>1, AppendPlaces
<1>3. \A i \in DOMAIN feed' : feed'[i].sig # "deviceUpdate"
  BY <1>2 DEF NewsInv
<1>4. ASSUME NEW n \in Names' PROVE WillList(feed', Listed(page'), n)
  <2>1. (WillList(feed, Listed(page), n) /\ ~Forgets(m, n)) \/ Finds(m, n)
    BY DEF NewsInv
  <2>2. QED
    BY <1>1, <2>1, WillListAppend
<1>5. ASSUME NEW d \in DOMAIN nic' PROVE Reflects(feed, page, d)'
  <2>1. CASE Renews(m, nic'[d].name)
    BY <1>2, <2>1 DEF Reflects
  <2>2. CASE d \in DOMAIN nic /\ nic'[d] = nic[d]
    <3>1. Reflects(feed, page, d)
      BY <2>2 DEF NewsInv
    <3>2. QED
      BY <1>2, <2>2, <3>1 DEF Reflects
  <2>3. QED
    BY <2>1, <2>2
<1>6. QED
  BY <1>3, <1>4, <1>5 DEF NewsInv

LEMMA InitNews == ASSUME Init PROVE NewsInv
<1>1. DevicesInv /\ Listed(page) = Names /\ Enabled(page) = {n \in Names : Managed(n)} /\ feed = <<>>
  BY InitSwitch, InitPage DEF DevicesInv, Init
<1>2. DOMAIN feed = {}
  BY <1>1
<1>3. \A n \in Names : WillList(feed, Listed(page), n)
  BY <1>1, <1>2 DEF WillList
<1>4. \A d \in DOMAIN nic : Reflects(feed, page, d)
  BY <1>1, ManagedSeen DEF Reflects
<1>5. QED
  BY <1>2, <1>3, <1>4 DEF NewsInv

LEMMA NetworkManagerNews ==
  ASSUME Renamed = {}, DevicesInv, NewsInv, NetworkManager
  PROVE  NewsInv'
<1>1. /\ DOMAIN nic \subseteq Device
      /\ \A d \in DOMAIN nic : nic[d] \in [name : Name, managed : BOOLEAN, seen : BOOLEAN]
  BY DEF DevicesInv, SwitchInv, NicType
<1>2. ASSUME NEW d \in Device, NEW n \in Name, NEW managed \in BOOLEAN, PlugIn(d, n, managed)
      PROVE  NewsInv'
  <2> DEFINE m == [sig |-> "deviceAdd", dev |-> d, name |-> n]
             new == [name |-> n, managed |-> managed, seen |-> managed]
  <2>1. m \in Signal /\ m.sig = "deviceAdd" /\ m.name = n
    BY DEF Signal, Other
  <2>2. /\ feed' = Append(feed, m) /\ UNCHANGED page
        /\ nic' = [e \in DOMAIN nic \cup {d} |-> IF e = d THEN new ELSE nic[e]]
    BY <1>2 DEF PlugIn, Emit
  <2>3. new.name = n
    OBVIOUS
  <2> HIDE DEF m, new
  <2>4. Finds(m, n) /\ Renews(m, n) /\ \A o : ~Forgets(m, o)
    BY <2>1 DEF Finds, Renews, Forgets
  <2>5. \A e \in DOMAIN nic' : nic'[e].name = n \/ (e \in DOMAIN nic /\ nic'[e] = nic[e])
    BY <2>2, <2>3
  <2>6. \A o \in Names' : o \in Names \/ o = n
    BY <2>5 DEF Names
  <2>7. QED
    BY <2>1, <2>2, <2>4, <2>5, <2>6, SentNews
<1>3. ASSUME NEW d \in Device, Unplug(d) PROVE NewsInv'
  <2> DEFINE m == [sig |-> "deviceRemove", dev |-> d, name |-> nic[d].name]
  <2>1. /\ d \in DOMAIN nic /\ UNCHANGED page /\ feed' = Append(feed, m)
        /\ nic' = [e \in DOMAIN nic \ {d} |-> nic[e]]
    BY <1>3 DEF Unplug, Emit
  <2>2. m \in Signal /\ m.sig = "deviceRemove" /\ m.name = nic[d].name
    BY <1>1, <2>1 DEF Signal, Other
  <2> HIDE DEF m
  <2>3. \A e \in DOMAIN nic' : e \in DOMAIN nic /\ nic'[e] = nic[e] /\ nic[e].name # nic[d].name
    BY <2>1, ManagedSeen
  <2>4. \A o \in Names' : o \in Names /\ ~Forgets(m, o)
    BY <2>2, <2>3 DEF Names, Forgets
  <2>5. QED
    BY <2>1, <2>2, <2>3, <2>4, SentNews
<1>4. ASSUME NEW d \in Device, NEW n \in Name, Rename(d, n) PROVE NewsInv'
  BY <1>4 DEF Rename
<1>5. ASSUME NEW d \in Device, ChangeManaged(d) PROVE NewsInv'
  <2>1. /\ d \in DOMAIN nic /\ nic[d].seen = nic[d].managed /\ UNCHANGED <<feed, page>>
        /\ nic' = [nic EXCEPT ![d].managed = ~@]
    BY <1>5 DEF ChangeManaged
  <2>2. /\ DOMAIN nic' = DOMAIN nic /\ nic'[d].seen # nic'[d].managed
        /\ \A e \in DOMAIN nic : nic'[e].name = nic[e].name
        /\ \A e \in DOMAIN nic : e # d => nic'[e] = nic[e]
    BY <1>1, <2>1
  <2>3. Names' = Names
    BY <2>2 DEF Names
  <2>4. ASSUME NEW e \in DOMAIN nic' PROVE Reflects(feed, page, e)'
    <3>1. CASE e = d
      BY <2>2, <3>1 DEF Reflects
    <3>2. CASE e # d
      <4>1. Reflects(feed, page, e)
        BY <2>2 DEF NewsInv
      <4>2. QED
        BY <2>1, <2>2, <3>2, <4>1 DEF Reflects
    <3>3. QED
      BY <3>1, <3>2
  <2>5. QED
    BY <2>1, <2>3, <2>4 DEF NewsInv
<1>6. ASSUME NEW d \in Device, SeeManaged(d) PROVE NewsInv'
  <2> DEFINE m == [sig |-> "deviceManagedChange", dev |-> d, name |-> nic[d].name]
  <2>1. /\ d \in DOMAIN nic /\ UNCHANGED page /\ feed' = Append(feed, m)
        /\ nic' = [nic EXCEPT ![d].seen = nic[d].managed]
    BY <1>6 DEF SeeManaged, Emit
  <2>2. m \in Signal /\ m.sig = "deviceManagedChange" /\ m.name = nic[d].name
    BY <1>1, <2>1 DEF Signal, Other
  <2> HIDE DEF m
  <2>3. /\ DOMAIN nic' = DOMAIN nic /\ \A e \in DOMAIN nic : nic'[e].name = nic[e].name
        /\ \A e \in DOMAIN nic : e # d => nic'[e] = nic[e]
    BY <1>1, <2>1
  <2>4. Names' = Names /\ \A o : ~Forgets(m, o)
    BY <2>2, <2>3 DEF Names, Forgets
  <2>5. Renews(m, nic'[d].name)
    BY <2>1, <2>2, <2>3 DEF Renews
  <2>6. \A e \in DOMAIN nic' : Renews(m, nic'[e].name) \/ (e \in DOMAIN nic /\ nic'[e] = nic[e])
    BY <2>3, <2>5
  <2>7. QED
    BY <2>1, <2>2, <2>4, <2>6, SentNews
<1>7. ASSUME NEW d \in Device, PlugCable(d) PROVE NewsInv'
  <2> DEFINE m == [sig |-> "deviceCarrierChanage", dev |-> d, name |-> nic[d].name]
  <2>1. d \in DOMAIN nic /\ UNCHANGED <<nic, page>> /\ feed' = Append(feed, m)
    BY <1>7 DEF PlugCable, Emit, nm
  <2>2. m \in Signal /\ m.sig = "deviceCarrierChanage"
    BY <1>1, <2>1 DEF Signal, Other
  <2> HIDE DEF m
  <2>3. Names' = Names /\ \A o : ~Forgets(m, o)
    BY <2>1, <2>2 DEF Names, Forgets
  <2>4. QED
    BY <2>1, <2>2, <2>3, SentNews
<1>8. ASSUME NEW d \in Device, NEW enable \in BOOLEAN, SetDeviceSwitch(d, enable)
      PROVE  NewsInv'
  BY <1>8 DEF SetDeviceSwitch, nm, NewsInv, Names, Reflects
<1>9. ASSUME SetWiredEnabled PROVE NewsInv'
  <2> DEFINE m == [sig |-> IF wiredEnabled THEN "wiredDisabled" ELSE "wiredEnabled",
                   dev |-> {}, name |-> NoName]
  <2>1. UNCHANGED <<nic, page>> /\ feed' = Append(feed, m)
    BY <1>9 DEF SetWiredEnabled, Emit
  <2>2. m.sig \in Switch /\ m \in Signal
    <3>1. m.sig \in Switch
      BY DEF Switch
    <3>2. m \in Signal
      BY DEF Signal, Switch
    <3>3. QED
      BY <3>1, <3>2
  <2> HIDE DEF m
  <2>3. Names' = Names /\ (\A o : ~Forgets(m, o)) /\ m.sig # "deviceUpdate"
    BY <2>1, <2>2 DEF Names, Forgets, Switch
  <2>4. QED
    BY <2>1, <2>2, <2>3, SentNews
<1>10. QED
  BY <1>2, <1>3, <1>4, <1>5, <1>6, <1>7, <1>8, <1>9 DEF NetworkManager

LEMMA SignalsNews ==
  ASSUME DevicesInv, NewsInv, Signals
  PROVE  NewsInv'
<1>1. SwitchInv /\ PageInv /\ UNCHANGED nic
  BY DEF DevicesInv, Signals, OnDeviceAdd, OnDeviceRemove, OnDeviceUpdate, OnDeviceManagedChange,
         OnWiredEnabledChanged, OnDeviceCarriered, Handle, nm
<1>2. \A sig : Handle(sig) => feed # <<>> /\ Msg.sig = sig /\ feed' = Tail(feed)
  BY DEF Handle
<1>3. \A d \in DOMAIN nic : /\ Managed(nic[d].name) <=> nic[d].seen
                            /\ nic[d].name \in Names
  BY ManagedSeen
<1>4. \A n : n \in Enabled(page) => n \in Listed(page)
  BY <1>1 DEF PageInv, Parted
<1>5. CASE OnDeviceAdd
  <2>1. feed # <<>> /\ Msg.sig = "deviceAdd" /\ feed' = Tail(feed)
    BY <1>2, <1>5 DEF OnDeviceAdd
  <2>2. /\ Msg.name \notin Listed(page)
        /\ Listed(page') = Listed(page) \cup {n \in {Msg.name} : n \in Names}
        /\ Enabled(page') = Enabled(page) \cup {n \in {Msg.name} : Managed(n)}
    BY <1>1, <1>5, OnDeviceAddPage
  <2>3. \A n : Renews(Msg, n) <=> Msg.name = n
    BY <2>1 DEF Renews
  <2>4. \A n \in Names : Finds(Msg, n) => n \in Listed(page')
    BY <2>2 DEF Finds
  <2>5. ASSUME NEW d \in DOMAIN nic, nic[d].name \in Listed(page')
        PROVE  LET n == nic[d].name
               IN IF Renews(Msg, n) THEN n \in Enabled(page') <=> nic[d].seen
                  ELSE n \in Listed(page) /\ (n \in Enabled(page') <=> n \in Enabled(page))
    BY <1>3, <1>4, <2>2, <2>3, <2>5
  <2>6. QED
    BY <1>1, <2>1, <2>2, <2>4, <2>5, HandledNews
<1>6. CASE OnDeviceRemove
  <2>1. feed # <<>> /\ Msg.sig = "deviceRemove" /\ feed' = Tail(feed)
    BY <1>2, <1>6 DEF OnDeviceRemove
  <2>2. Listed(page') = Listed(page) \ {Msg.name} /\ Enabled(page') = Enabled(page) \ {Msg.name}
    BY <1>1, <1>6, OnDeviceRemovePage
  <2>3. \A n : ~Renews(Msg, n) /\ ~Finds(Msg, n) /\ (Forgets(Msg, n) <=> Msg.name = n)
    BY <2>1 DEF Renews, Finds, Forgets
  <2>4. QED
    BY <1>1, <2>1, <2>2, <2>3, HandledNews
<1>7. CASE OnDeviceUpdate
  <2>1. feed # <<>> /\ Msg.sig = "deviceUpdate"
    BY <1>2, <1>7 DEF OnDeviceUpdate
  <2>2. Msg = feed[1] /\ 1 \in DOMAIN feed
    BY <2>1, TailPlaces DEF Msg, DevicesInv, SwitchInv
  <2>3. QED
    BY <2>1, <2>2 DEF NewsInv
<1>8. ASSUME Relists(page, page'), feed # <<>>, feed' = Tail(feed),
             Msg.sig \in {"deviceManagedChange", "deviceCarrierChanage"} \cup Switch,
             Msg.sig = "deviceManagedChange" /\ Msg.name \in Names
               => Enabled(page') = {n \in Listed(page) : Managed(n)}
      PROVE  NewsInv'
  <2>1. Listed(page') = Listed(page)
        /\ (Enabled(page') = Enabled(page) \/ Enabled(page') = {n \in Listed(page) : Managed(n)})
    BY <1>8 DEF Relists
  <2>2. \A n : /\ ~Finds(Msg, n) /\ ~Forgets(Msg, n)
               /\ Renews(Msg, n) => Msg.sig = "deviceManagedChange" /\ Msg.name = n
    BY <1>8 DEF Finds, Forgets, Renews, Switch
  <2>3. ASSUME NEW d \in DOMAIN nic, nic[d].name \in Listed(page')
        PROVE  LET n == nic[d].name
               IN IF Renews(Msg, n) THEN n \in Enabled(page') <=> nic[d].seen
                  ELSE /\ n \in Listed(page)
                       /\ \/ n \in Enabled(page') <=> n \in Enabled(page)
                          \/ n \in Enabled(page') <=> nic[d].seen
    BY <1>3, <1>8, <2>1, <2>2, <2>3
  <2>4. QED
    BY <1>1, <1>8, <2>1, <2>2, <2>3, HandledNews
<1>9. CASE OnDeviceManagedChange
  <2>1. Handle("deviceManagedChange")
    BY <1>9 DEF OnDeviceManagedChange
  <2>2. QED
    BY <1>1, <1>2, <1>8, <1>9, <2>1, OnDeviceManagedChangePage
<1>10. CASE OnWiredEnabledChanged
  <2>1. Handle("wiredEnabled") \/ Handle("wiredDisabled")
    BY <1>10 DEF OnWiredEnabledChanged
  <2>2. feed # <<>> /\ feed' = Tail(feed) /\ Msg.sig \in Switch
    BY <1>2, <2>1 DEF Switch
  <2>3. QED
    BY <1>1, <1>8, <1>10, <2>2, OnWiredEnabledChangedPage DEF Switch
<1>11. CASE OnDeviceCarriered
  <2>1. Handle("deviceCarrierChanage")
    BY <1>11 DEF OnDeviceCarriered
  <2>2. QED
    BY <1>1, <1>2, <1>8, <1>11, <2>1, OnDeviceCarrieredPage
<1>12. QED
  BY <1>5, <1>6, <1>7, <1>9, <1>10, <1>11 DEF Signals

LEMMA CommandsNews ==
  ASSUME DevicesInv, NewsInv, OnSysWiredDevSwitchChanged \/ DisableTimeout \/ Requests
  PROVE  NewsInv'
<1>1. UNCHANGED feed /\ SwitchInv /\ PageInv
  BY DEF OnSysWiredDevSwitchChanged, DisableTimeout, Requests, SelectDevice, SetDefaultWiredDevice,
         DevicesInv
<1>2. ASSUME UNCHANGED nic, Listed(page') = Listed(page), Enabled(page') = Enabled(page)
      PROVE  NewsInv'
  BY <1>1, <1>2 DEF NewsInv, Reflects, Names
<1>3. ASSUME NEW n, NEW enable \in BOOLEAN, UpdateDeviceState(n, enable) PROVE NewsInv'
  <2>1. CASE UNCHANGED <<nic, page>>
    BY <1>2, <2>1
  <2>2. CASE ~UNCHANGED <<nic, page>>
    <3>1. /\ nic' = [d \in DOMAIN nic |-> IF nic[d].name = n
                                            THEN [nic[d] EXCEPT !.managed = enable] ELSE nic[d]]
          /\ Listed(page') = Listed(page)
          /\ Enabled(page') = IF enable THEN Enabled(page) \cup {n} ELSE Enabled(page) \ {n}
      BY <1>1, <1>3, <2>2, UpdateDeviceStatePage
    <3>2. /\ DOMAIN nic' = DOMAIN nic
          /\ \A d \in DOMAIN nic : nic'[d].name = nic[d].name /\ nic'[d].seen = nic[d].seen
          /\ \A d \in DOMAIN nic : nic[d].name = n => nic'[d].managed = enable
          /\ \A d \in DOMAIN nic : nic[d].name # n => nic'[d] = nic[d]
      BY <1>1, <3>1 DEF SwitchInv, NicType
    <3>3. Names' = Names
      BY <3>2 DEF Names
    <3>4. ASSUME NEW d \in DOMAIN nic' PROVE Reflects(feed, page, d)'
      <4>1. nic[d].seen \in BOOLEAN /\ d \in DOMAIN nic
        BY <3>2, ManagedSeen
      <4>2. CASE nic[d].name = n
        BY <3>1, <3>2, <4>1, <4>2 DEF Reflects
      <4>3. CASE nic[d].name # n
        <5>1. Reflects(feed, page, d)
          BY <4>1 DEF NewsInv
        <5>2. QED
          BY <1>1, <3>1, <3>2, <4>1, <4>3, <5>1 DEF Reflects
      <4>4. QED
        BY <4>2, <4>3
    <3>5. QED
      BY <1>1, <3>1, <3>3, <3>4 DEF NewsInv
  <2>3. QED
    BY <2>1, <2>2
<1>4. CASE OnSysWiredDevSwitchChanged
  <2>1. UpdateDeviceState(Head(commands).name, TRUE) \/ UNCHANGED <<nic, page>>
    BY <1>4 DEF OnSysWiredDevSwitchChanged
  <2>2. QED
    BY <1>2, <1>3, <2>1
<1>5. CASE DisableTimeout
  BY <1>3, <1>5 DEF DisableTimeout
<1>6. CASE Requests
  <2>1. UNCHANGED nic /\ SameLists(page, page')
    BY <1>1, <1>6, RequestsPage DEF Requests, SelectDevice, SetDefaultWiredDevice, nm
  <2>2. QED
    BY <1>2, <2>1, PartedKept
<1>7. QED
  BY <1>4, <1>5, <1>6

LEMMA NewsInvariant ==
  ASSUME Renamed = {} PROVE Spec => [](DevicesInv /\ NewsInv)
<1>1. Init => DevicesInv /\ NewsInv
  BY InitSwitch, InitPage, InitNews DEF DevicesInv
<1>2. DevicesInv /\ NewsInv /\ [Next]_vars => NewsInv'
  <2>1. SUFFICES ASSUME DevicesInv, NewsInv, [Next]_vars PROVE NewsInv'
    OBVIOUS
  <2>2. CASE UNCHANGED vars
    BY <2>1, <2>2 DEF vars, NewsInv, Names, Reflects
  <2>3. CASE Next
    BY <2>1, <2>3, NetworkManagerNews, SignalsNews, CommandsNews DEF Next
  <2>4. QED
    BY <2>1, <2>2, <2>3
<1>3. QED
  BY <1>1, <1>2, DevicesInductive, PTL DEF Spec

-----------------------------------------------------------------------------
(* What is proved.                                                         *)

\* While it lists a device and no signal is queued, the page's switch is
\* NetworkManager's, in every reachable state (lanpage.cpp:601 reads it ahead of
\* the signals, and its handler drops a signal while no device is listed).
THEOREM SwitchFollowed == Spec => []SwitchFollows
<1>1. SwitchInv /\ [Next]_vars => SwitchInv'
  <2>1. SUFFICES ASSUME SwitchInv, [Next]_vars PROVE SwitchInv'
    OBVIOUS
  <2>2. CASE UNCHANGED vars
    BY <2>1, <2>2 DEF vars, SwitchInv, NicType
  <2>3. CASE Next
    BY <2>1, <2>3, NetworkManagerInv, SignalsInv, CommandsInv DEF Next
  <2>4. QED
    BY <2>1, <2>2, <2>3
<1>2. SwitchInv => SwitchFollows
  <2>1. feed = <<>> => Unsaid(feed)
    BY DEF Unsaid
  <2>2. QED
    BY <2>1 DEF SwitchInv, SwitchFollows
<1>3. QED
  BY <1>1, <1>2, InitSwitch, PTL DEF Spec

\* Every state has its type: in particular the index of the drop-down box stays within
\* the box, which takes itself for empty while it holds one device (lanpage.cpp:291) and
\* whose items are counted by the enabled devices when one is deleted (lanpage.cpp:637).
THEOREM TypeCorrect == Spec => []TypeOK
<1>1. DevicesInv => TypeOK
  <2>1. SUFFICES ASSUME SwitchInv, PageInv PROVE TypeOK
    BY DEF DevicesInv
  <2>2. IsMap(m_deviceMap)
    <3>1. feed \in Seq(Signal) /\ Told(m_deviceMap, feed, NicNames)
      BY <2>1 DEF SwitchInv, PageInv
    <3>2. QED
      BY <3>1, ToldIsMap
  <2>3. QED
    BY <2>1, <2>2 DEF TypeOK, SwitchInv, NicType, PageInv, Boxed, IsMap
<1>2. QED
  BY <1>1, DevicesInvariant, PTL

\* Every listed device is enabled or disabled for the page, once, in every reachable
\* state: the rebuilding of the lists from the devices of now (lanpage.cpp:188), the
\* four handlers and the device switch (lanpage.cpp:1860) agree on it.
THEOREM ListsParted == Spec => []ListsPartition
<1>1. DevicesInv => ListsPartition
  <2>1. SUFFICES ASSUME Parted(page) PROVE ListsPartition
    BY DEF DevicesInv, PageInv
  <2>2. Lists(page.m_enableDeviceList \o page.m_disableDeviceList, Listed(page))
    BY <2>1, ConcatLists DEF Parted
  <2>3. QED
    BY <2>1, <2>2 DEF ListsPartition, Parted, Lists, Listed
<1>2. QED
  BY <1>1, DevicesInvariant, PTL

\* When the signals are handled every listed device is plugged in under the name it is
\* listed by, however it was renamed, removed and plugged in meanwhile
\* (kylinnetworkdeviceresource.cpp:607 finds the old name in its own map).
THEOREM NoGhostsListed == Spec => []NoGhostDevices
<1>1. DevicesInv => NoGhostDevices
  <2>1. SUFFICES ASSUME SwitchInv, PageInv, feed = <<>> PROVE Listed(page) \subseteq Names
    BY DEF DevicesInv, NoGhostDevices, Listed
  <2>2. m_deviceMap = NicNames
    BY <2>1, ToldIsMap DEF SwitchInv, PageInv
  <2>3. QED
    BY <2>1, <2>2 DEF PageInv, NicNames, Names
<1>2. QED
  BY <1>1, DevicesInvariant, PTL

\* No step of the page takes its current device from the area on show, but for the default
\* device set over D-Bus (lanpage.h:84) and an added device that is disabled or comes with
\* the switch changed (lanpage.cpp:550).
THEOREM ShownFollows == Spec => ShownIsCurrent
<1> DEFINE Follow ==
      ShowsCurrent(page) =>
        \/ ShowsCurrent(page')
        \/ page' = SetDefault(page, page'.m_currentDeviceName)
        \/ /\ feed # <<>> /\ Msg.sig = "deviceAdd" /\ feed' = Tail(feed)
           /\ ~Managed(Msg.name) \/ page'.on # page.on
<1>1. DevicesInv /\ [Next]_vars => [Follow]_vars
  <2>1. SUFFICES ASSUME DevicesInv, [Next]_vars PROVE Follow
    OBVIOUS
  <2>2. CASE page' = page
    BY <2>2
  <2>3. CASE page' # page
    BY <2>1, <2>3, PageSteps
  <2>4. QED
    BY <2>2, <2>3
<1>2. QED
  BY <1>1, DevicesInvariant, PTL DEF Spec, ShownIsCurrent

\* No signal about other devices takes the page away from the enabled device it shows
\* (initDeviceCombox keeps the current device while it is among the items).
THEOREM ViewKept == Spec => ViewNotStolen
<1> DEFINE Kept ==
      LET n == page.shown IN
        /\ n # NoName /\ ShowsCurrent(page)
        /\ Contains(page.m_enableDeviceList, n) /\ Contains(page'.m_enableDeviceList, n)
        /\ page'.on /\ feed # <<>> /\ Msg.sig # "deviceCarrierChanage" /\ feed' = Tail(feed)
        => page'.shown = n
<1>1. DevicesInv /\ [Next]_vars => [Kept]_vars
  <2>1. SUFFICES ASSUME DevicesInv, DevicesInv', [Next]_vars, page.shown # NoName, ShowsCurrent(page),
                        Contains(page.m_enableDeviceList, page.shown),
                        Contains(page'.m_enableDeviceList, page.shown), page'.on, feed # <<>>,
                        Msg.sig # "deviceCarrierChanage", feed' = Tail(feed), page' # page
                 PROVE  page'.shown = page.shown
    BY DevicesInductive
  <2>2. feed' # feed
    <3>1. feed \in Seq(Signal)
      BY <2>1 DEF DevicesInv, SwitchInv
    <3> DEFINE t == Tail(feed)
    <3>2. feed # <<>>
      BY <2>1
    <3>3. Len(t) = Len(feed) - 1
      BY <3>1, <3>2, HeadTailProperties
    <3>4. Len(feed) \in Nat
      BY <3>1, LenProperties
    <3> HIDE DEF t
    <3>5. t # feed
      BY <3>3, <3>4
    <3>6. QED
      BY <2>1, <3>5 DEF t
  <2>3. Stays(page, page')
    BY <2>1, <2>2, PageSteps
  <2>4. Parted(page) /\ Parted(page')
    BY <2>1 DEF DevicesInv, PageInv
  <2>5. page.shown \in Enabled(page) /\ page.shown \in Enabled(page')
    BY <2>1, <2>4, ContainsMember DEF Parted
  <2>6. page.on /\ page.shown = page.m_currentDeviceName
    BY <2>1 DEF ShowsCurrent
  <2>7. QED
    BY <2>1, <2>3, <2>5, <2>6 DEF Stays
<1>2. QED
  BY <1>1, DevicesInvariant, PTL DEF Spec, ViewNotStolen

\* Where no device is renamed while it is plugged in, every device is listed when the
\* signals are handled, however often it was plugged in and out meanwhile (onDeviceAdd
\* drops a name that no device has any more, lanpage.cpp:594, and a later signal is then
\* queued for the device that has it again).
THEOREM AllListed == ASSUME Renamed = {} PROVE Spec => []DevicesListed
<1>1. NewsInv => DevicesListed
  <2>1. SUFFICES ASSUME NewsInv, feed = <<>> PROVE Names \subseteq Listed(page)
    BY DEF DevicesListed, Listed
  <2>2. DOMAIN feed = {}
    BY <2>1
  <2>3. QED
    BY <2>1, <2>2 DEF NewsInv, WillList
<1>2. QED
  BY <1>1, NewsInvariant, PTL

\* There, when nothing is on its way, the page takes for enabled exactly the devices that
\* NetworkManager manages, although updateDeviceState changes the lists ahead of the
\* answer and onDeviceManagedChange rebuilds them from what the library has seen.
THEOREM ManagedEnabled == ASSUME Renamed = {} PROVE Spec => []EnabledIsManaged
<1>1. DevicesInv /\ NewsInv => EnabledIsManaged
  <2>1. SUFFICES ASSUME DevicesInv, NewsInv, Quiet
                 PROVE  Enabled(page) = {nic[d].name : d \in {e \in DOMAIN nic : nic[e].managed}}
    BY DEF EnabledIsManaged, Enabled
  <2>2. feed = <<>> /\ DOMAIN feed = {} /\ \A d \in DOMAIN nic : nic[d].seen = nic[d].managed
    BY <2>1 DEF Quiet
  <2>3. Listed(page) = Names
    <3>1. Names \subseteq Listed(page)
      BY <2>1, <2>2 DEF NewsInv, WillList
    <3>2. m_deviceMap = NicNames
      BY <2>1, <2>2, ToldIsMap DEF DevicesInv, SwitchInv, PageInv
    <3>3. Listed(page) \subseteq Names
      BY <2>1, <3>2 DEF DevicesInv, PageInv, NicNames, Names
    <3>4. QED
      BY <3>1, <3>3
  <2>4. Enabled(page) \subseteq Names
    BY <2>1, <2>3 DEF DevicesInv, PageInv, Parted
  <2>5. \A d \in DOMAIN nic : nic[d].name \in Enabled(page) <=> nic[d].managed
    <3>1. ASSUME NEW d \in DOMAIN nic PROVE nic[d].name \in Enabled(page) <=> nic[d].managed
      <4>1. nic[d].name \in Listed(page)
        BY <2>3 DEF Names
      <4>2. Reflects(feed, page, d)
        BY <2>1 DEF NewsInv
      <4>3. QED
        BY <2>2, <4>1, <4>2 DEF Reflects
    <3>2. QED
      BY <3>1
  <2>6. QED
    BY <2>4, <2>5 DEF Names
<1>2. QED
  BY <1>1, NewsInvariant, PTL

=============================================================================
