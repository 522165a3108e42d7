------------------------------ MODULE LanDevices ------------------------------
(***************************************************************************)
(* The wired page's devices (LanPage and the KyNetworkDeviceResourse it    *)
(* owns): which devices it lists, which of them are enabled, which one is  *)
(* current, what the drop-down box holds and whose connections are shown.  *)
(*                                                                         *)
(* The page hears of devices through signals queued from the manager's     *)
(* thread, and of the device switches of the control center through the    *)
(* system daemon's signal.  Its handlers ask the manager's devices and     *)
(* NetworkManager as these are when the signal is handled.  Disabling a    *)
(* device is carried out by a timer of 500 ms.                             *)
(*                                                                         *)
(* The page is one record, and each of its functions is an operator from   *)
(* the page before to the page after.  An interface name that is "" in the *)
(* code is NoName.                                                         *)
(***************************************************************************)
EXTENDS Naturals, SequencesExt

CONSTANTS
  Device,      \* NetworkManager's wired devices, by object path
  Name,        \* interface names
  NoName,      \* the empty name
  Renamed,     \* the devices that may be given another name while plugged in
  Toggled,     \* may the wired switch (WiredEnabled) change
  Chosen,      \* may another program set the default device
  Cabled,      \* the devices whose cable may be plugged in
  MaxFeed, MaxCommands, MaxTimers,  \* bounds of the three queues
  MaxItems     \* bound of the drop-down box: no device is plugged in above it

ASSUME DeviceAssumption ==
  /\ IsFiniteSet(Device) /\ NoName \notin Name /\ Renamed \cup Cabled \subseteq Device
  /\ Toggled \in BOOLEAN /\ Chosen \in BOOLEAN
  /\ {MaxFeed, MaxCommands, MaxTimers, MaxItems} \subseteq Nat

VARIABLES
  nic,          \* plugged devices: name, managed, and seen: managed as the library has it
  wiredEnabled, \* NetworkManager's WiredEnabled
  feed,         \* the manager's signals in the main thread's queue
  commands,     \* sysWiredDevSwitchChanged signals on the system bus
  m_deviceMap,  \* KyNetworkDeviceResourse: object path -> interface name
  page,         \* LanPage
  timers,       \* devices whose disabling waits for its timer, oldest first
  crashed       \* a null device was used

nm   == <<nic, wiredEnabled>>
vars == <<nic, wiredEnabled, feed, commands, m_deviceMap, page, timers, crashed>>

-----------------------------------------------------------------------------
(* What the page asks of the manager.                                      *)

Names == {nic[d].name : d \in DOMAIN nic}
Managed(n) == \E d \in DOMAIN nic : nic[d].name = n /\ nic[d].seen

\* Those of the names, in order, that are managed or that are not.
OfManaged(names, managed) ==
  LET of[i \in 0..Len(names)] ==
        IF i = 0 THEN <<>>
        ELSE IF Managed(names[i]) = managed THEN Append(of[i - 1], names[i]) ELSE of[i - 1]
  IN of[Len(names)]

\* The first place of a name in the drop-down box (findData), 0 if there is none.
FindData(names, n) == SelectInSeq(names, LAMBDA m : m = n)

-----------------------------------------------------------------------------
(* The page's functions.                                                   *)

\* Appended to the drop-down box, whose first item becomes the selected one.
AddItems(p, items) ==
  [p EXCEPT !.combo = @ \o items, !.index = IF p.combo = <<>> THEN 1 ELSE @]

SetDefault(p, n) == [p EXCEPT !.m_currentDeviceName = n, !.default = n]

InitLanDeviceState(p) ==
  [p EXCEPT !.m_enableDeviceList  = OfManaged(p.m_devList, TRUE),
            !.m_disableDeviceList = OfManaged(p.m_devList, FALSE)]

\* Mutant: the first device becomes the current one.
InitDeviceComboxFirst(p) ==
  LET items   == IF p.on THEN p.m_enableDeviceList ELSE <<>>
      current == IF items = <<>> THEN NoName ELSE Head(items)
  IN [SetDefault(p, current) EXCEPT !.combo = items, !.index = IF items = <<>> THEN 0 ELSE 1]

InitDeviceCombox(p) ==
  LET items   == IF p.on THEN p.m_enableDeviceList ELSE <<>>
      current == IF items = <<>> THEN NoName
                 ELSE IF Contains(items, p.m_currentDeviceName) THEN p.m_currentDeviceName
                 ELSE Head(items)
  IN [SetDefault(p, current) EXCEPT
        !.combo = items,
        !.index = FindData(items, current)]

InitLanArea(p) == [p EXCEPT !.shown = IF p.on THEN p.m_currentDeviceName ELSE NoName]

Rebuilt(p) == InitLanArea(InitDeviceCombox(InitLanDeviceState(p)))

AddDeviceForCombox(p, n) ==
  CASE p.on /\ Len(p.m_enableDeviceList) = 1 -> SetDefault(p, p.m_enableDeviceList[1])
    [] p.on /\ Len(p.m_enableDeviceList) = 2 -> AddItems(p, <<p.m_currentDeviceName, n>>)
    [] p.on /\ Len(p.m_enableDeviceList) > 2 -> AddItems(p, <<n>>)
    [] OTHER                                 -> p

\* Mutant: the box is emptied and its index stays.
DeleteDeviceFromComboxIndexed(p, n, next) ==
  IF p.on /\ Len(p.m_enableDeviceList) = 2 /\ Contains(p.combo, n) THEN [p EXCEPT !.combo = <<>>]
  ELSE p

\* The item Qt selects when the selected one is removed is its own choice: next, one of
\* those left, if there are any.
DeleteDeviceFromCombox(p, n, next) ==
  LET count  == Len(p.m_enableDeviceList)
      wasNow == p.m_currentDeviceName = n
      others == {i \in DOMAIN p.combo : p.combo[i] # n}
      at     == FindData(p.combo, n)
      less   == [p EXCEPT !.combo = RemoveAt(@, at),
                          !.index = IF @ = at THEN next ELSE IF @ > at THEN @ - 1 ELSE @]
      data   == IF less.index \in DOMAIN less.combo THEN less.combo[less.index] ELSE NoName
  IN CASE p.on /\ count = 1 /\ wasNow -> SetDefault(p, NoName)
       [] p.on /\ count = 2 /\ at # 0 ->
            [IF wasNow /\ others # {} THEN SetDefault(p, p.combo[Max(others)]) ELSE p
               EXCEPT !.combo = <<>>, !.index = 0]
       [] p.on /\ count > 2 /\ at # 0 -> IF wasNow THEN SetDefault(less, data) ELSE less
       [] OTHER                       -> p

\* onDeviceComboxIndexChanged, if the index changes.
SetCurrentIndex(p, i) ==
  IF i = p.index \/ i \notin DOMAIN p.combo THEN p
  ELSE InitLanArea([p EXCEPT !.index = i, !.m_currentDeviceName = p.combo[i]])

\* The box's items keep the old name as their data.
UpdateDeviceCombox(p, old, new) ==
  IF p.m_currentDeviceName = old THEN SetDefault(p, new) ELSE p

RenamedIn(names, old, new) ==
  IF Contains(names, old) THEN Append(RemoveFirst(names, old), new) ELSE names

-----------------------------------------------------------------------------
(* Initial states: the constructor has run and no signal is on its way.    *)
(* The default device read from the configuration file is any name.        *)

Emit(sig, d, n) ==
  /\ Len(feed) < MaxFeed
  /\ feed' = Append(feed, [sig |-> sig, dev |-> d, name |-> n])

Constructed(devs, old) ==
  InitLanArea(InitDeviceCombox(InitLanDeviceState(
    [m_devList |-> devs, m_enableDeviceList |-> <<>>, m_disableDeviceList |-> <<>>,
     m_currentDeviceName |-> old, default |-> old, combo |-> <<>>, index |-> 0,
     on |-> wiredEnabled, shown |-> NoName])))

Init ==
  /\ \E plugged \in SUBSET Device :
       nic \in [plugged -> [name : Name, managed : BOOLEAN, seen : BOOLEAN]]
  /\ \A d, e \in DOMAIN nic : nic[d].name = nic[e].name => d = e
  /\ \A d \in DOMAIN nic : nic[d].seen = nic[d].managed
  /\ wiredEnabled \in (IF Toggled THEN BOOLEAN ELSE {TRUE})
  /\ feed = <<>> /\ commands = <<>> /\ timers = <<>> /\ crashed = FALSE
  /\ m_deviceMap = [d \in DOMAIN nic |-> nic[d].name]
  /\ \E old \in Names \cup {NoName}, devs \in SetToSeqs(Names) : page = Constructed(devs, old)

-----------------------------------------------------------------------------
(* NetworkManager, as the library and the manager's thread report it.      *)

FreeName(n) == n \notin Names

PlugIn(d, n, managed) ==
  /\ d \notin DOMAIN nic /\ FreeName(n) /\ Len(page.combo) <= MaxItems
  /\ \A i \in DOMAIN feed : feed[i].dev # d
  /\ nic' = [e \in DOMAIN nic \cup {d} |->
               IF e = d THEN [name |-> n, managed |-> managed, seen |-> managed] ELSE nic[e]]
  /\ Emit("deviceAdd", d, n)
  /\ UNCHANGED <<wiredEnabled, commands, m_deviceMap, page, timers, crashed>>

Unplug(d) ==
  /\ d \in DOMAIN nic
  /\ nic' = [e \in DOMAIN nic \ {d} |-> nic[e]]
  /\ Emit("deviceRemove", d, nic[d].name)
  /\ UNCHANGED <<wiredEnabled, commands, m_deviceMap, page, timers, crashed>>

Rename(d, n) ==
  /\ d \in Renamed /\ d \in DOMAIN nic /\ FreeName(n)
  /\ nic' = [nic EXCEPT ![d].name = n]
  /\ Emit("deviceUpdate", d, n)
  /\ UNCHANGED <<wiredEnabled, commands, m_deviceMap, page, timers, crashed>>

\* Another program, or NetworkManager itself, changes Managed.  (Not before the
\* last change has been reported: NetworkManager would report neither.)
ChangeManaged(d) ==
  /\ d \in DOMAIN nic /\ nic[d].seen = nic[d].managed
  /\ nic' = [nic EXCEPT ![d].managed = ~@]
  /\ UNCHANGED <<wiredEnabled, feed, commands, m_deviceMap, page, timers, crashed>>

\* The library learns of it: onDeviceManagedChange.
SeeManaged(d) ==
  /\ d \in DOMAIN nic /\ nic[d].seen # nic[d].managed
  /\ nic' = [nic EXCEPT ![d].seen = nic[d].managed]
  /\ Emit("deviceManagedChange", d, nic[d].name)
  /\ UNCHANGED <<wiredEnabled, commands, m_deviceMap, page, timers, crashed>>

PlugCable(d) ==
  /\ d \in Cabled /\ d \in DOMAIN nic
  /\ Emit("deviceCarrierChanage", d, nic[d].name)
  /\ UNCHANGED <<nm, commands, m_deviceMap, page, timers, crashed>>

\* The page's switch is clicked (its state stays), or another program's.
SetWiredEnabled ==
  /\ Toggled
  /\ wiredEnabled' = ~wiredEnabled
  /\ Emit(IF wiredEnabled THEN "wiredDisabled" ELSE "wiredEnabled", {}, NoName)
  /\ UNCHANGED <<nic, commands, m_deviceMap, page, timers, crashed>>

\* The control center's switch of a device: setDeviceSwitch of the system daemon.
SetDeviceSwitch(d, enable) ==
  /\ d \in DOMAIN nic /\ Len(commands) < MaxCommands
  /\ commands' = Append(commands, [name |-> nic[d].name, enable |-> enable])
  /\ UNCHANGED <<nm, feed, m_deviceMap, page, timers, crashed>>

-----------------------------------------------------------------------------
(* The handlers of the manager's signals.                                  *)

Msg == Head(feed)
Handle(sig) ==
  /\ feed # <<>> /\ Msg.sig = sig
  /\ feed' = Tail(feed)
  /\ UNCHANGED <<nm, commands, timers, crashed>>

\* Mutant: the switch is not read again.
DeviceAddedUnread(p, n) ==
  AddDeviceForCombox([p EXCEPT !.m_devList = Append(@, n),
                               !.m_enableDeviceList  = IF Managed(n) THEN Append(@, n) ELSE @,
                               !.m_disableDeviceList = IF Managed(n) THEN @ ELSE Append(@, n)], n)

DeviceAdded(p, n) ==
  LET first  == p.m_devList = <<>>
      listed == [p EXCEPT !.on = wiredEnabled,
                          !.m_currentDeviceName = IF first THEN n ELSE @,
                          !.m_devList = Append(@, n),
                          !.m_enableDeviceList  = IF Managed(n) THEN Append(@, n) ELSE @,
                          !.m_disableDeviceList = IF Managed(n) THEN @ ELSE Append(@, n)]
      added  == AddDeviceForCombox(listed, n)
  IN IF added.m_currentDeviceName = n THEN InitLanArea(added) ELSE added

\* Mutant: a device that is not managed is not listed.
OnDeviceAddOfManaged ==
  /\ Handle("deviceAdd")
  /\ m_deviceMap' = [d \in DOMAIN m_deviceMap \cup {Msg.dev} |->
                       IF d = Msg.dev THEN Msg.name ELSE m_deviceMap[d]]
  /\ page' = IF ~Managed(Msg.name) \/ Contains(page.m_devList, Msg.name)
               THEN page ELSE DeviceAdded(page, Msg.name)

\* checkDeviceType asks for the device that has the name now.
OnDeviceAdd ==
  /\ Handle("deviceAdd")
  /\ m_deviceMap' = [d \in DOMAIN m_deviceMap \cup {Msg.dev} |->
                       IF d = Msg.dev THEN Msg.name ELSE m_deviceMap[d]]
  /\ page' = IF Msg.name \notin Names \/ Contains(page.m_devList, Msg.name)
               THEN page ELSE DeviceAdded(page, Msg.name)

\* Mutant: only an enabled device is forgotten.
DeviceRemovedEnabled(p, n, next) ==
  LET left == RemoveFirst(p.m_devList, n)
      gone == DeleteDeviceFromCombox(
                [p EXCEPT !.m_devList = left, !.on = @ /\ left # <<>>], n, next)
  IN [InitLanArea(gone) EXCEPT !.m_enableDeviceList = RemoveFirst(@, n)]

\* Mutant: the page is drawn again for its last device only.
DeviceRemovedUndrawn(p, n, next) ==
  LET left == RemoveFirst(p.m_devList, n)
      gone == DeleteDeviceFromCombox(
                [p EXCEPT !.m_devList = left, !.on = @ /\ left # <<>>], n, next)
  IN [IF left = <<>> THEN InitLanArea(gone) ELSE gone EXCEPT
        !.m_enableDeviceList = RemoveFirst(@, n), !.m_disableDeviceList = RemoveFirst(@, n)]

DeviceRemoved(p, n, next) ==
  LET left    == RemoveFirst(p.m_devList, n)
      gone    == DeleteDeviceFromCombox(
                   [p EXCEPT !.m_devList = left, !.on = @ /\ left # <<>>], n, next)
      redrawn == IF p.m_currentDeviceName = n \/ left = <<>>
                   THEN InitLanArea(SetDefault(gone, gone.m_currentDeviceName)) ELSE gone
  IN [redrawn EXCEPT !.m_enableDeviceList  = RemoveFirst(@, n),
                     !.m_disableDeviceList = RemoveFirst(@, n)]

OnDeviceRemove ==
  /\ Handle("deviceRemove")
  /\ m_deviceMap' = [d \in DOMAIN m_deviceMap \ {Msg.dev} |-> m_deviceMap[d]]
  /\ IF Contains(page.m_devList, Msg.name)
       THEN \E next \in IF Len(page.combo) < 2 THEN {0} ELSE 1..Len(page.combo) - 1 :
              page' = DeviceRemoved(page, Msg.name, next)
       ELSE UNCHANGED page

DeviceNameUpdated(p, old, new) ==
  LET moved == UpdateDeviceCombox(
                 [p EXCEPT !.m_devList           = RenamedIn(@, old, new),
                           !.m_enableDeviceList  = RenamedIn(@, old, new),
                           !.m_disableDeviceList = RenamedIn(@, old, new)], old, new)
  IN IF moved.m_currentDeviceName = new THEN InitLanArea(moved) ELSE moved

\* Mutant: the device map keeps the first name.
OnDeviceUpdateOfList ==
  /\ Handle("deviceUpdate")
  /\ page' = IF /\ Msg.dev \in DOMAIN m_deviceMap
                /\ Contains(page.m_devList, m_deviceMap[Msg.dev])
                /\ m_deviceMap[Msg.dev] # Msg.name
               THEN DeviceNameUpdated(page, m_deviceMap[Msg.dev], Msg.name) ELSE page
  /\ UNCHANGED m_deviceMap

OnDeviceUpdate ==
  /\ Handle("deviceUpdate")
  /\ IF Msg.dev \in DOMAIN m_deviceMap
       THEN /\ m_deviceMap' = [m_deviceMap EXCEPT ![Msg.dev] = Msg.name]
            /\ page' = IF Contains(page.m_devList, m_deviceMap[Msg.dev])
                            /\ m_deviceMap[Msg.dev] # Msg.name
                         THEN DeviceNameUpdated(page, m_deviceMap[Msg.dev], Msg.name) ELSE page
       ELSE UNCHANGED <<m_deviceMap, page>>

\* Mutant: for the current device only.
OnDeviceManagedChangeOfCurrent ==
  /\ Handle("deviceManagedChange")
  /\ page' = IF Msg.name = page.m_currentDeviceName THEN Rebuilt(page) ELSE page
  /\ UNCHANGED m_deviceMap

OnDeviceManagedChange ==
  /\ Handle("deviceManagedChange")
  /\ page' = IF Msg.name \in Names THEN Rebuilt(page) ELSE page
  /\ UNCHANGED m_deviceMap

OnWiredEnabledChanged ==
  /\ \E enabled \in BOOLEAN :
       /\ Handle(IF enabled THEN "wiredEnabled" ELSE "wiredDisabled")
       /\ page' = IF page.m_devList = <<>> \/ page.on = enabled THEN page
                  ELSE Rebuilt([page EXCEPT !.on = enabled])
  /\ UNCHANGED m_deviceMap

\* updateCurrentDevice: an unknown name selects the first item.
OnDeviceCarriered ==
  /\ Handle("deviceCarrierChanage")
  /\ page' = IF ~Contains(page.m_enableDeviceList, Msg.name) \/ page.m_currentDeviceName = Msg.name
               THEN page
             ELSE IF Contains(page.combo, Msg.name)
               THEN SetCurrentIndex(page, FindData(page.combo, Msg.name))
             ELSE SetCurrentIndex(page, 1)
  /\ UNCHANGED m_deviceMap

-----------------------------------------------------------------------------
(* The device switch.                                                      *)

\* NetworkManager does what setDeviceManaged asks.  (updateDeviceState then
\* looks for another current device if the current one is the disabled one, which
\* InitDeviceCombox has just excluded.)
UpdateDeviceState(n, enable) ==
  IF ~Contains(page.m_devList, n) THEN UNCHANGED <<nic, page, crashed>>
  ELSE IF n \notin Names THEN crashed' = TRUE /\ UNCHANGED <<nic, page>>
  ELSE
    /\ nic' = [d \in DOMAIN nic |-> IF nic[d].name = n
                                      THEN [nic[d] EXCEPT !.managed = enable] ELSE nic[d]]
    /\ LET into(names) == IF Contains(names, n) THEN names ELSE Append(names, n)
           outof(names) == RemoveFirst(names, n)
       IN page' = InitLanArea(InitDeviceCombox(
            [page EXCEPT !.m_enableDeviceList  = IF enable THEN into(@) ELSE outof(@),
                         !.m_disableDeviceList = IF enable THEN outof(@) ELSE into(@)]))
    /\ UNCHANGED crashed

\* Disabling waits for the timer.
OnSysWiredDevSwitchChanged ==
  /\ commands # <<>> /\ commands' = Tail(commands)
  /\ IF Head(commands).enable
       THEN UpdateDeviceState(Head(commands).name, TRUE) /\ UNCHANGED timers
       ELSE /\ Len(timers) < MaxTimers
            /\ timers' = Append(timers, Head(commands).name)
            /\ UNCHANGED <<nic, page, crashed>>
  /\ UNCHANGED <<wiredEnabled, feed, m_deviceMap>>

DisableTimeout ==
  /\ timers # <<>> /\ timers' = Tail(timers)
  /\ UpdateDeviceState(Head(timers), FALSE)
  /\ UNCHANGED <<wiredEnabled, feed, commands, m_deviceMap>>

-----------------------------------------------------------------------------
(* The user and other programs.                                            *)

\* An item of the drop-down box, which is hidden for a single device.
SelectDevice(i) ==
  /\ Len(page.combo) > 1 /\ i # page.index
  /\ page' = SetCurrentIndex(page, i)
  /\ UNCHANGED <<nm, feed, commands, m_deviceMap, timers, crashed>>

\* setDefaultWiredDevice over D-Bus: the page is not redrawn.
SetDefaultWiredDevice(n) ==
  /\ Chosen /\ n \in Names
  /\ page' = SetDefault(page, n)
  /\ UNCHANGED <<nm, feed, commands, m_deviceMap, timers, crashed>>

-----------------------------------------------------------------------------
NetworkManager ==
  \/ \E d \in Device :
       \/ \E n \in Name, managed \in BOOLEAN : PlugIn(d, n, managed)
       \/ \E n \in Name : Rename(d, n)
       \/ Unplug(d) \/ ChangeManaged(d) \/ SeeManaged(d) \/ PlugCable(d)
       \/ \E enable \in BOOLEAN : SetDeviceSwitch(d, enable)
  \/ SetWiredEnabled

Signals ==
  \/ OnDeviceAdd \/ OnDeviceRemove \/ OnDeviceUpdate \/ OnDeviceManagedChange
  \/ OnWiredEnabledChanged \/ OnDeviceCarriered

Requests ==
  \/ \E i \in DOMAIN page.combo : SelectDevice(i)
  \/ \E n \in Name : SetDefaultWiredDevice(n)

Next == ~crashed /\ (NetworkManager \/ Signals \/ OnSysWiredDevSwitchChanged
                     \/ DisableTimeout \/ Requests)

Spec == Init /\ [][Next]_vars

-----------------------------------------------------------------------------
(* Properties.                                                             *)

PageType ==
  [m_devList : Seq(Name), m_enableDeviceList : Seq(Name), m_disableDeviceList : Seq(Name),
   m_currentDeviceName : Name \cup {NoName}, default : Name \cup {NoName},
   combo : Seq(Name \cup {NoName}), index : Nat, on : BOOLEAN, shown : Name \cup {NoName}]

TypeOK ==
  /\ DOMAIN nic \subseteq Device /\ DOMAIN m_deviceMap \subseteq Device
  /\ \A d \in DOMAIN nic : nic[d] \in [name : Name, managed : BOOLEAN, seen : BOOLEAN]
  /\ \A d \in DOMAIN m_deviceMap : m_deviceMap[d] \in Name
  /\ wiredEnabled \in BOOLEAN /\ crashed \in BOOLEAN
  /\ commands \in Seq([name : Name, enable : BOOLEAN]) /\ timers \in Seq(Name)
  /\ page \in PageType /\ page.index <= Len(page.combo)

\* Every listed device is either enabled or disabled for the page, once, whichever
\* of the five handlers that move it ran: a device left in both lists, or in
\* neither, is offered for a connection it cannot make, or never again.
ListsPartition ==
  LET parts == page.m_enableDeviceList \o page.m_disableDeviceList
  IN /\ IsInjective(page.m_devList) /\ IsInjective(parts)
     /\ ToSet(parts) = ToSet(page.m_devList)

\* When the signals are handled no device is listed that is not plugged in, under a
\* name it has: whatever was renamed, removed and plugged in meanwhile.
NoGhostDevices == feed = <<>> => ToSet(page.m_devList) \subseteq Names

\* And every device is listed.  The comment of initDeviceCombox says of m_devList
\* that it records every device inserted.
DevicesListed == feed = <<>> => Names \subseteq ToSet(page.m_devList)

\* Nothing is on its way: no signal, no command, no timer.
Quiet == /\ feed = <<>> /\ commands = <<>> /\ timers = <<>> /\ ~crashed
         /\ \A d \in DOMAIN nic : nic[d].seen = nic[d].managed

\* The page takes for enabled exactly the devices NetworkManager manages, although
\* it changes its lists ahead of NetworkManager's answer, rebuilds them from what
\* the library has seen so far, and disables devices half a second late.
EnabledIsManaged ==
  Quiet => ToSet(page.m_enableDeviceList) = {nic[d].name : d \in {e \in DOMAIN nic : nic[e].managed}}

\* While it lists a device, the page's switch follows NetworkManager's, although it
\* is read ahead of the signals when a device is added, not looked at while no
\* device is listed, and turned off with the last device.
SwitchFollows == feed = <<>> /\ page.m_devList # <<>> => page.on = wiredEnabled

\* The connections on show are those of the device that is current (operations on a
\* connection are sent to the current device), and none when the switch is off.
ShowsCurrent(p) == p.shown = IF p.on THEN p.m_currentDeviceName ELSE NoName

\* No step takes the current device from the page that shows it, but for two: another
\* program's default device, and a device added that is disabled, so that the only
\* enabled one becomes current (addDeviceForCombox), or after the switch has changed.
ShownIsCurrent ==
  [][ShowsCurrent(page) =>
       \/ ShowsCurrent(page')
       \/ page' = SetDefault(page, page'.m_currentDeviceName)
       \/ /\ feed # <<>> /\ Msg.sig = "deviceAdd" /\ feed' = Tail(feed)
          /\ ~Managed(Msg.name) \/ page'.on # page.on]_vars

\* A signal about other devices never takes the page away from an enabled one: while it
\* shows its current device, it changes device by itself only if that is disabled,
\* renamed or unplugged, the switch is off, or a cable is plugged into another.
ViewNotStolen ==
  [][LET n == page.shown IN
     /\ n # NoName /\ ShowsCurrent(page)
     /\ Contains(page.m_enableDeviceList, n) /\ Contains(page'.m_enableDeviceList, n)
     /\ page'.on /\ feed # <<>> /\ Msg.sig # "deviceCarrierChanage" /\ feed' = Tail(feed)
     => page'.shown = n]_vars

\* setDeviceManaged reports a device it cannot find, and returns.
NoNullDevice == ~crashed
=============================================================================
