----------------------- MODULE NetworkResourceManager -----------------------
(***************************************************************************)
(* KyNetworkResourceManager: the singleton that lives in a thread of its   *)
(* own, keeps lists of what NetworkManager has (devices, connections,      *)
(* active connections, wifi networks) and announces every change with a    *)
(* signal.  The receivers live in the main thread, so a signal is an event *)
(* in that thread's queue: `feed'.                                         *)
(*                                                                         *)
(* NetworkManager is seen through libNetworkManagerQt, which lives in the  *)
(* manager's thread: it changes its own tables and calls the manager's     *)
(* slots directly, so a change and the slots it triggers are one step.  A  *)
(* slot that loops over a list (clearConnections, insertWifiNetworks) is   *)
(* one step per element, because the main thread runs meanwhile.           *)
(*                                                                         *)
(* The lists are kept as a number of entries per object: their order is    *)
(* read by nothing here but findWifiNetwork, which returns the oldest      *)
(* entry (see FirstEntry).                                                 *)
(***************************************************************************)
EXTENDS Naturals, Sequences, FiniteSets

CONSTANTS
  Device,       \* wireless devices (their uni, NetworkManager's object path)
  Renamed,      \* those of Device whose interface may be given another name
  Name,         \* interface names
  Ssid,         \* wifi networks, by the library's name for them
  Text,         \* what getSsidFromByteArray makes of the bytes of each
  Conn,         \* connection profiles (path and uuid)
  Unnamed,      \* those of Conn whose name or uuid is empty
  Active,       \* active connections (their path)
  NoObject,     \* a signal that names no object of the lists
  MaxFeed,      \* bound: no new event while this many signals are queued
  MaxTimers     \* bound: pending 500 ms timers

ASSUME ConstantsAssumption ==
  /\ Renamed \subseteq Device /\ Unnamed \subseteq Conn
  /\ NoObject \notin Device \cup Conn \cup Active
  /\ Device \cap Conn = {} /\ Device \cap Active = {} /\ Conn \cap Active = {}
  /\ MaxFeed \in Nat /\ MaxTimers \in Nat

\* The text is the library's name where the bytes are UTF-8; where they are not, it
\* is decoded as GBK and is the name of no other network.
ASSUME TextAssumption ==
  /\ \A s, t \in Ssid : Text[s] = Text[t] => s = t
  /\ \A s \in Ssid : Text[s] \in Ssid => Text[s] = s

VARIABLES
  running,          \* NetworkManager owns its D-Bus name
  nmDevice, nmName, \* the library's devices and their interface names
  nmRetired,        \* device paths NetworkManager has used since it started
  nmConn, nmActive, \* the library's connections and active connections
  nmNetwork,        \* the library's networks, pairs <<device, ssid>>
  m_initFinished,
  m_devices, m_connections, m_activeConns,  \* entries of the lists
  m_wifiNets,       \* entries per network: of the library's present object
                    \* (live) and of objects the library has dropped (dead)
  at, todo,         \* where the manager's thread is, and the rest of its loop
  insertTimers,     \* pending QTimer::singleShot(500, insertWifiNetworks)
  feed,             \* signals queued for the main thread
  sub,              \* has the main thread read the lists / connected
  view,             \* the objects the main thread knows
  missed            \* objects announced between its reading and connecting

library == <<running, nmDevice, nmName, nmRetired, nmConn, nmActive, nmNetwork>>
lists   == <<m_devices, m_connections, m_activeConns, m_wifiNets>>
loop    == <<at, todo>>
queue   == <<feed, missed>>
vars    == <<library, m_initFinished, lists, loop, insertTimers, queue, sub, view>>

Network == Device \X Ssid
Object  == Device \cup Conn \cup Active

-----------------------------------------------------------------------------
(* Signals.                                                                *)

AddSignal    == {"deviceAdd", "connectionAdd", "activeConnectionAdd"}
RemoveSignal == {"deviceRemove", "connectionRemove", "activeConnectionRemove"}
OtherSignal  == {"deviceUpdate", "connectionUpdate", "activeConnectStateChangeReason",
                 "wifiNetworkAdded", "wifiNetworkRemoved", "wifiNetworkPropertyChange",
                 "wifiNetworkDeviceDisappear"}
NoArg  == <<>>
Arg    == {NoArg} \cup (Name \X {"name"}) \cup (Name \X (Ssid \cup {Text[s] : s \in Ssid}))
Signal == [sig : AddSignal \cup RemoveSignal, obj : Object, arg : Arg]
            \cup [sig : OtherSignal, obj : Object \cup {NoObject}, arg : Arg]

About(sig, x)         == [sig |-> sig, obj |-> x, arg |-> NoArg]
AboutDevice(sig, d)   == [sig |-> sig, obj |-> d, arg |-> <<nmName[d], "name">>]
AboutNetwork(sig, net) ==
  [sig |-> sig, obj |-> NoObject, arg |-> <<nmName[net[1]], Text[net[2]]>>]
\* insertWifiNetworks says the library's name.
AddedByName(net) ==
  [sig |-> "wifiNetworkAdded", obj |-> NoObject, arg |-> <<nmName[net[1]], net[2]>>]
DeviceDisappear  == About("wifiNetworkDeviceDisappear", NoObject)

\* The signals that say an object is listed or no longer listed.
Listing(msg) == msg.sig \in AddSignal \cup RemoveSignal

\* Q_EMIT of the signals in msgs, in that order.
Emit(msgs) ==
  /\ feed' = IF sub = "live" THEN feed \o msgs ELSE feed
  /\ missed' = IF sub = "read"
                 THEN missed \cup {msgs[i].obj : i \in {j \in DOMAIN msgs : Listing(msgs[j])}}
                 ELSE missed

-----------------------------------------------------------------------------
(* The lists.                                                              *)

NoEntry  == [live |-> 0, dead |-> 0]

FirstEntry(entry) == IF entry.dead > 0 THEN "dead" ELSE "live"
Entries(net)      == m_wifiNets[net].live + m_wifiNets[net].dead

Cached == {d \in Device : m_devices[d] > 0} \cup {c \in Conn : m_connections[c] > 0}
            \cup {a \in Active : m_activeConns[a] > 0}

\* The library drops the objects of the networks in gone: entries that pointed
\* to them now point to objects nothing else holds.
Orphaned(nets, gone) ==
  [net \in Network |-> IF net \in gone
     THEN [live |-> 0, dead |-> nets[net].live + nets[net].dead] ELSE nets[net]]

-----------------------------------------------------------------------------
Init ==
  /\ running \in BOOLEAN
  /\ nmDevice \in SUBSET (IF running THEN Device ELSE {})
  /\ nmName \in [Device -> Name]
  /\ \A d, e \in nmDevice : nmName[d] = nmName[e] => d = e
  /\ nmRetired = {}
  /\ nmConn \in SUBSET (IF running THEN Conn ELSE {})
  /\ nmActive \in SUBSET (IF running THEN Active ELSE {})
  /\ nmNetwork \in SUBSET (nmDevice \X Ssid)
  /\ m_initFinished = FALSE
  /\ m_devices = [d \in Device |-> 0]
  /\ m_connections = [c \in Conn |-> 0]
  /\ m_activeConns = [a \in Active |-> 0]
  /\ m_wifiNets = [net \in Network |-> NoEntry]
  /\ at = "idle" /\ todo = {}
  /\ insertTimers = 0
  /\ feed = <<>> /\ sub = "none" /\ view = {} /\ missed = {}

\* The thread has started: the lists are filled, then the library's signals are
\* connected.  main() waits for m_initFinished, so nothing hears the signals of
\* insertWifiNetworks.
OnInitNetwork ==
  /\ ~m_initFinished
  /\ m_activeConns' = [a \in Active |-> IF a \in nmActive THEN 1 ELSE 0]
  /\ m_connections' = [c \in Conn |-> IF c \in nmConn \ Unnamed THEN 1 ELSE 0]
  /\ m_devices' = [d \in Device |-> IF d \in nmDevice THEN 1 ELSE 0]
  /\ m_wifiNets' = [net \in Network |->
                      [live |-> IF net \in nmNetwork THEN 1 ELSE 0, dead |-> 0]]
  /\ m_initFinished' = TRUE
  /\ UNCHANGED <<library, loop, insertTimers, queue, sub, view>>

-----------------------------------------------------------------------------
(* Events of the library, each with the slots it triggers.                 *)

Quiet == m_initFinished /\ at = "idle" /\ Len(feed) < MaxFeed
InNM  == Quiet /\ running

\* onDeviceAdded.  Networks the device already has when the library builds its
\* object (have) are not announced by the library.
OnDeviceAdded(d, n, have) ==
  /\ InNM /\ d \notin nmDevice \cup nmRetired
  /\ \A e \in nmDevice : nmName[e] # n
  /\ nmDevice' = nmDevice \cup {d}
  /\ nmName' = [nmName EXCEPT ![d] = n]
  /\ nmNetwork' = nmNetwork \cup ({d} \X have)
  /\ IF m_devices[d] = 0
       THEN /\ m_devices' = [m_devices EXCEPT ![d] = 1]
            /\ Emit(<<[sig |-> "deviceAdd", obj |-> d, arg |-> <<n, "name">>]>>)
       ELSE UNCHANGED <<m_devices, queue>>
  /\ UNCHANGED <<running, nmRetired, nmConn, nmActive, m_initFinished, m_connections,
                 m_activeConns, m_wifiNets, loop, insertTimers, sub, view>>

\* onDeviceRemoved, for the library's loop on service loss too.
ForgetDevice(d) ==
  /\ nmDevice' = nmDevice \ {d}
  /\ nmRetired' = nmRetired \cup {d}
  /\ nmNetwork' = nmNetwork \ ({d} \X Ssid)
  /\ m_wifiNets' = Orphaned(m_wifiNets, {d} \X Ssid)
  /\ IF m_devices[d] > 0
       THEN /\ m_devices' = [m_devices EXCEPT ![d] = @ - 1]
            /\ Emit(<<AboutDevice("deviceRemove", d)>>)
       ELSE UNCHANGED <<m_devices, queue>>

OnDeviceRemoved(d) ==
  /\ InNM /\ d \in nmDevice
  /\ ForgetDevice(d)
  /\ UNCHANGED <<running, nmName, nmConn, nmActive, m_initFinished, m_connections,
                 m_activeConns, loop, insertTimers, sub, view>>

\* interfaceNameChanged -> onDeviceUpdated, connected by addDevice.
OnDeviceUpdated(d, n) ==
  /\ InNM /\ d \in Renamed \cap nmDevice /\ m_devices[d] > 0
  /\ \A e \in nmDevice : nmName[e] # n
  /\ nmName' = [nmName EXCEPT ![d] = n]
  /\ Emit(<<[sig |-> "deviceUpdate", obj |-> d, arg |-> <<n, "name">>]>>)
  /\ UNCHANGED <<running, nmDevice, nmRetired, nmConn, nmActive, nmNetwork,
                 m_initFinished, lists, loop, insertTimers, sub, view>>

\* networkAppeared -> onWifiNetworkAppeared -> onWifiNetworkAdd.
OnWifiNetworkAppeared(net) ==
  /\ InNM /\ net[1] \in nmDevice /\ net \notin nmNetwork /\ m_devices[net[1]] > 0
  /\ nmNetwork' = nmNetwork \cup {net}
  /\ m_wifiNets' = IF m_wifiNets[net].live = 0
                     THEN [m_wifiNets EXCEPT ![net].live = 1] ELSE m_wifiNets
  /\ Emit(<<AboutNetwork("wifiNetworkAdded", net), AboutDevice("deviceUpdate", net[1])>>)
  /\ UNCHANGED <<running, nmDevice, nmName, nmRetired, nmConn, nmActive, m_initFinished,
                 m_devices, m_connections, m_activeConns, loop, insertTimers, sub, view>>

\* A network's last access point goes.  The library tells both with the device's
\* networkDisappeared (onWifiNetworkRemove takes the entry findWifiNetwork finds)
\* and with the network's own disappeared (onWifiNetworkUpdate takes the entry of
\* that object, unless its signals were disconnected with it).
\* Mutant: no look whether the list holds the sender.
RemoveSenderUnseen(entry) == [entry EXCEPT !.live = @ - 1]
\* Mutant: the entry goes without a signal.
RemovedInSilence(net, before, after) == <<>>

RemoveFound(entry) ==
  IF entry.live + entry.dead = 0 THEN entry
  ELSE [entry EXCEPT ![FirstEntry(entry)] = @ - 1]
RemoveSender(entry) ==
  IF entry.live = 0 THEN entry ELSE [entry EXCEPT !.live = @ - 1]

Removed(net, before, after) ==
  IF before = after THEN <<>> ELSE <<AboutNetwork("wifiNetworkRemoved", net)>>

OnWifiNetworkDisappeared(net, deviceFirst) ==
  LET e0 == m_wifiNets[net]
      e1 == IF deviceFirst THEN RemoveFound(e0) ELSE RemoveSender(e0)
      \* takeAt of the sender's entry is followed by net->disconnect(this)
      e2 == IF deviceFirst
              THEN IF e1.live < e0.live THEN e1 ELSE RemoveSender(e1)
              ELSE RemoveFound(e1)
      update == <<AboutDevice("deviceUpdate", net[1])>>
  IN /\ InNM /\ net \in nmNetwork /\ m_devices[net[1]] > 0
     /\ nmNetwork' = nmNetwork \ {net}
     /\ m_wifiNets' = Orphaned([m_wifiNets EXCEPT ![net] = e2], {net})
     /\ Emit(IF deviceFirst
               THEN Removed(net, e0, e1) \o update \o Removed(net, e1, e2)
               ELSE Removed(net, e0, e1) \o Removed(net, e1, e2) \o update)
     /\ UNCHANGED <<running, nmDevice, nmName, nmRetired, nmConn, nmActive, m_initFinished,
                    m_devices, m_connections, m_activeConns, loop, insertTimers, sub, view>>

\* signalStrengthChanged or referenceAccessPointChanged of a listed network.  An
\* object whose device has gone may still signal: wifiNetworkDeviceDisappear.
OnWifiNetworkUpdate(net) ==
  /\ Quiet /\ Entries(net) > 0
  /\ IF m_devices[net[1]] = 0
       THEN Emit(<<DeviceDisappear>>)
       ELSE m_wifiNets[net].live > 0 /\ Emit(<<AboutNetwork("wifiNetworkPropertyChange", net)>>)
  /\ UNCHANGED <<library, m_initFinished, lists, loop, insertTimers, sub, view>>

OnConnectionAdded(c) ==
  /\ InNM /\ c \notin nmConn
  /\ nmConn' = nmConn \cup {c}
  /\ IF c \notin Unnamed /\ m_connections[c] = 0
       THEN /\ m_connections' = [m_connections EXCEPT ![c] = 1]
            /\ Emit(<<About("connectionAdd", c)>>)
       ELSE UNCHANGED <<m_connections, queue>>
  /\ UNCHANGED <<running, nmDevice, nmName, nmRetired, nmActive, nmNetwork, m_initFinished,
                 m_devices, m_activeConns, m_wifiNets, loop, insertTimers, sub, view>>

\* Mutants: the entry goes without a signal; at() in place of takeAt().
TakeConnectionSilently(c) ==
  m_connections' = [m_connections EXCEPT ![c] = @ - 1] /\ UNCHANGED queue
ReadConnection(c) ==
  UNCHANGED m_connections /\ Emit(<<About("connectionRemove", c)>>)

\* removeConnection(pos): takeAt, disconnect, connectionRemove.
TakeConnection(c) ==
  /\ m_connections' = [m_connections EXCEPT ![c] = @ - 1]
  /\ Emit(<<About("connectionRemove", c)>>)

\* Both the settings notifier and the connection itself call onConnectionRemoved;
\* the second call finds no entry.
OnConnectionRemoved(c) ==
  /\ InNM /\ c \in nmConn
  /\ nmConn' = nmConn \ {c}
  /\ IF m_connections[c] > 0 THEN TakeConnection(c) ELSE UNCHANGED <<m_connections, queue>>
  /\ UNCHANGED <<running, nmDevice, nmName, nmRetired, nmActive, nmNetwork, m_initFinished,
                 m_devices, m_activeConns, m_wifiNets, loop, insertTimers, sub, view>>

OnConnectionUpdated(c) ==
  /\ InNM /\ c \in nmConn /\ m_connections[c] > 0
  /\ Emit(<<About("connectionUpdate", c)>>)
  /\ UNCHANGED <<library, m_initFinished, lists, loop, insertTimers, sub, view>>

OnActiveConnectionAdded(a) ==
  /\ InNM /\ a \notin nmActive
  /\ nmActive' = nmActive \cup {a}
  /\ IF m_activeConns[a] = 0
       THEN /\ m_activeConns' = [m_activeConns EXCEPT ![a] = 1]
            /\ Emit(<<About("activeConnectionAdd", a)>>)
       ELSE UNCHANGED <<m_activeConns, queue>>
  /\ UNCHANGED <<running, nmDevice, nmName, nmRetired, nmConn, nmNetwork, m_initFinished,
                 m_devices, m_connections, m_wifiNets, loop, insertTimers, sub, view>>

\* Mutants: the entry goes without a signal; the signal leaves the entry.
ForgetActiveSilently(a) ==
  /\ nmActive' = nmActive \ {a}
  /\ m_activeConns' = [m_activeConns EXCEPT ![a] = 0]
  /\ UNCHANGED queue
ForgetActiveButListed(a) ==
  /\ nmActive' = nmActive \ {a}
  /\ Emit(<<About("activeConnectionRemove", a)>>)
  /\ UNCHANGED m_activeConns

ForgetActive(a) ==
  /\ nmActive' = nmActive \ {a}
  /\ IF m_activeConns[a] > 0
       THEN /\ m_activeConns' = [m_activeConns EXCEPT ![a] = @ - 1]
            /\ Emit(<<About("activeConnectionRemove", a)>>)
       ELSE UNCHANGED <<m_activeConns, queue>>

OnActiveConnectionRemoved(a) ==
  /\ InNM /\ a \in nmActive
  /\ ForgetActive(a)
  /\ UNCHANGED <<running, nmDevice, nmName, nmRetired, nmConn, nmNetwork, m_initFinished,
                 m_devices, m_connections, m_wifiNets, loop, insertTimers, sub, view>>

\* stateChanged of a listed active connection.
OnActiveConnectionChanged(a) ==
  /\ InNM /\ a \in nmActive /\ m_activeConns[a] > 0
  /\ Emit(<<About("activeConnectStateChangeReason", a)>>)
  /\ UNCHANGED <<library, m_initFinished, lists, loop, insertTimers, sub, view>>

-----------------------------------------------------------------------------
(* NetworkManager stops: the library reports every device and every active *)
(* connection removed, but no connection (the comment in onInitNetwork),   *)
(* and then serviceDisappeared, which runs clearConnections and            *)
(* clearWifiNetworks.                                                      *)

ServiceDisappears ==
  /\ InNM
  /\ running' = FALSE /\ at' = "lost"
  /\ UNCHANGED <<nmDevice, nmName, nmRetired, nmConn, nmActive, nmNetwork, m_initFinished,
                 lists, todo, insertTimers, queue, sub, view>>

LoseDevice(d) ==
  /\ at = "lost" /\ d \in nmDevice
  /\ ForgetDevice(d)
  /\ UNCHANGED <<running, nmName, nmConn, nmActive, m_initFinished, m_connections,
                 m_activeConns, loop, insertTimers, sub, view>>

LoseActive(a) ==
  /\ at = "lost" /\ nmDevice = {} /\ a \in nmActive
  /\ ForgetActive(a)
  /\ UNCHANGED <<running, nmDevice, nmName, nmRetired, nmConn, nmNetwork, m_initFinished,
                 m_devices, m_connections, m_wifiNets, loop, insertTimers, sub, view>>

\* Mutant: clearConnections is not connected to serviceDisappeared.
ServiceDisappearedUnheard ==
  /\ at = "lost" /\ nmDevice = {} /\ nmActive = {}
  /\ at' = "idle" /\ nmConn' = {}
  /\ UNCHANGED <<running, nmDevice, nmName, nmRetired, nmActive, nmNetwork, m_initFinished,
                 lists, todo, insertTimers, queue, sub, view>>

ServiceDisappeared ==
  /\ at = "lost" /\ nmDevice = {} /\ nmActive = {}
  /\ at' = "clearing" /\ nmConn' = {}
  /\ UNCHANGED <<running, nmDevice, nmName, nmRetired, nmActive, nmNetwork, m_initFinished,
                 lists, todo, insertTimers, queue, sub, view>>

ClearConnection(c) ==
  /\ at = "clearing" /\ m_connections[c] > 0
  /\ TakeConnection(c)
  /\ UNCHANGED <<library, m_initFinished, m_devices, m_activeConns, m_wifiNets, loop,
                 insertTimers, sub, view>>

\* clearWifiNetworks emits nothing.
ClearWifiNetworks ==
  /\ at = "clearing" /\ \A c \in Conn : m_connections[c] = 0
  /\ m_wifiNets' = [net \in Network |-> NoEntry]
  /\ at' = "idle"
  /\ UNCHANGED <<library, m_initFinished, m_devices, m_connections, m_activeConns, todo,
                 insertTimers, queue, sub, view>>

\* NameOwnerChanged from no owner to an owner.  The library lists what the new
\* service has through the same added events as above.
OnServiceAppear ==
  /\ Quiet /\ ~running /\ insertTimers < MaxTimers
  /\ running' = TRUE /\ nmRetired' = {}
  /\ insertTimers' = insertTimers + 1
  /\ UNCHANGED <<nmDevice, nmName, nmConn, nmActive, nmNetwork, m_initFinished, lists,
                 loop, queue, sub, view>>

\* Mutant: the loop goes over the networks that are listed already.
InsertTimeoutListed ==
  /\ Quiet /\ insertTimers > 0
  /\ insertTimers' = insertTimers - 1
  /\ at' = "inserting"
  /\ todo' = {net \in nmNetwork : m_wifiNets[net].live > 0}
  /\ UNCHANGED <<library, m_initFinished, lists, queue, sub, view>>

\* The timer runs insertWifiNetworks, which appends without looking for an entry.
InsertTimeout ==
  /\ Quiet /\ insertTimers > 0
  /\ insertTimers' = insertTimers - 1
  /\ at' = "inserting"
  /\ todo' = {net \in nmNetwork : m_devices[net[1]] > 0}
  /\ UNCHANGED <<library, m_initFinished, lists, queue, sub, view>>

InsertWifiNetwork(net) ==
  /\ at = "inserting" /\ net \in todo
  /\ todo' = todo \ {net}
  /\ m_wifiNets' = [m_wifiNets EXCEPT ![net].live = @ + 1]
  /\ Emit(<<AddedByName(net)>>)
  /\ UNCHANGED <<library, m_initFinished, m_devices, m_connections, m_activeConns, at,
                 insertTimers, sub, view>>

InsertDone ==
  /\ at = "inserting" /\ todo = {}
  /\ at' = "idle"
  /\ UNCHANGED <<library, m_initFinished, lists, todo, insertTimers, queue, sub, view>>

-----------------------------------------------------------------------------
(* The main thread: a receiver reads the lists in its constructor          *)
(* (initDeviceMap, kyWirelessNetItemListInit), then connects, then gets    *)
(* the signals in order.                                                   *)

ReadLists ==
  /\ m_initFinished /\ sub = "none"
  /\ view' = Cached /\ sub' = "read"
  /\ UNCHANGED <<library, m_initFinished, lists, loop, insertTimers, queue>>

Connect ==
  /\ sub = "read"
  /\ sub' = "live"
  /\ UNCHANGED <<library, m_initFinished, lists, loop, insertTimers, queue, view>>

Apply(known, msg) ==
  CASE msg.sig \in AddSignal    -> known \cup {msg.obj}
    [] msg.sig \in RemoveSignal -> known \ {msg.obj}
    [] OTHER                    -> known

Deliver ==
  /\ feed # <<>>
  /\ view' = Apply(view, Head(feed))
  /\ feed' = Tail(feed)
  /\ UNCHANGED <<library, m_initFinished, lists, loop, insertTimers, missed, sub>>

-----------------------------------------------------------------------------
LibraryEvent ==
  \/ \E d \in Device, n \in Name, have \in SUBSET Ssid : OnDeviceAdded(d, n, have)
  \/ \E d \in Device : OnDeviceRemoved(d)
  \/ \E d \in Device, n \in Name : OnDeviceUpdated(d, n)
  \/ \E net \in Network : OnWifiNetworkAppeared(net) \/ OnWifiNetworkUpdate(net)
  \/ \E net \in Network, first \in BOOLEAN : OnWifiNetworkDisappeared(net, first)
  \/ \E c \in Conn : OnConnectionAdded(c) \/ OnConnectionRemoved(c) \/ OnConnectionUpdated(c)
  \/ \E a \in Active : OnActiveConnectionAdded(a) \/ OnActiveConnectionRemoved(a)
                         \/ OnActiveConnectionChanged(a)
  \/ ServiceDisappears \/ OnServiceAppear

\* The manager's thread going on with the slot it is in.
Continue ==
  \/ \E d \in Device : LoseDevice(d)
  \/ \E a \in Active : LoseActive(a)
  \/ ServiceDisappeared
  \/ \E c \in Conn : ClearConnection(c)
  \/ ClearWifiNetworks
  \/ \E net \in Network : InsertWifiNetwork(net)
  \/ InsertDone

ManagerNext == OnInitNetwork \/ LibraryEvent \/ InsertTimeout \/ Continue

Next == ManagerNext \/ ReadLists \/ Connect \/ Deliver

Spec == Init /\ [][Next]_vars

\* A slot runs to its end, the timer fires, and the main thread empties its queue.
FairSpec == Spec /\ WF_vars(Continue) /\ WF_vars(Deliver) /\ WF_vars(InsertTimeout)

-----------------------------------------------------------------------------
(* Properties.                                                             *)

TypeOK ==
  /\ running \in BOOLEAN
  /\ nmDevice \subseteq Device /\ nmRetired \subseteq Device
  /\ nmName \in [Device -> Name]
  /\ nmConn \subseteq Conn /\ nmActive \subseteq Active
  /\ nmNetwork \subseteq Network
  /\ m_initFinished \in BOOLEAN
  /\ m_devices \in [Device -> Nat]
  /\ m_connections \in [Conn -> Nat]
  /\ m_activeConns \in [Active -> Nat]
  /\ m_wifiNets \in [Network -> [live : Nat, dead : Nat]]
  /\ at \in {"idle", "lost", "clearing", "inserting"}
  /\ todo \subseteq Network
  /\ insertTimers \in Nat
  /\ feed \in Seq(Signal)
  /\ sub \in {"none", "read", "live"}
  /\ view \subseteq Object /\ missed \subseteq Object

\* Between two slots the lists hold exactly what NetworkManager has, each object
\* once: no entry survives a stop of the service, none is listed twice after a
\* restart, and a connection without a name is never listed.
ListsMirrorNM ==
  (m_initFinished /\ at = "idle") =>
    /\ \A d \in Device : m_devices[d] = IF d \in nmDevice THEN 1 ELSE 0
    /\ \A c \in Conn   : m_connections[c] = IF c \in nmConn \ Unnamed THEN 1 ELSE 0
    /\ \A a \in Active : m_activeConns[a] = IF a \in nmActive THEN 1 ELSE 0

Changes(msg, x) == msg.obj = x /\ Listing(msg)

\* Is x known to a receiver that knew v and has handled the signals f?
KnownAfter(f, v, x) ==
  \/ \E i \in DOMAIN f :
        /\ Changes(f[i], x) /\ f[i].sig \in AddSignal
        /\ \A j \in DOMAIN f : j > i => ~Changes(f[j], x)
  \/ x \in v /\ \A i \in DOMAIN f : ~Changes(f[i], x)

\* A receiver that handles the queue in order ends with the lists' contents,
\* save for objects that changed between its reading and its connecting.
FeedLeadsToLists ==
  sub # "none" => \A x \in Object \ missed : KnownAfter(feed, view, x) <=> x \in Cached

Earlier(i) == SubSeq(feed, 1, i - 1)

\* The signals of one object alternate: it is never announced twice, nor removed
\* without having been announced or read.
FeedAlternates ==
  \A x \in Object \ missed : \A i \in DOMAIN feed :
    Changes(feed[i], x) =>
      (feed[i].sig \in AddSignal <=> ~KnownAfter(Earlier(i), view, x))

\* An update or a state change reaches the receiver only while it knows the
\* object, never before the announcement or after the removal.
UpdatesOfKnown ==
  \A x \in Object \ missed : \A i \in DOMAIN feed :
    (feed[i].obj = x /\ feed[i].sig \in OtherSignal) => KnownAfter(Earlier(i), view, x)

\* The main thread is told of every network that loses its last entry: by its
\* own signal, or with its device.
Sent(msg) == \E i \in DOMAIN feed' : i > Len(feed) /\ feed'[i] = msg
LossAnnounced ==
  [][\A net \in Network :
       (sub = "live" /\ m_wifiNets[net].live > 0 /\ m_wifiNets'[net].live = 0)
         => \/ Sent(AboutNetwork("wifiNetworkRemoved", net))
            \/ Sent(AboutDevice("deviceRemove", net[1]))]_vars

\* insertWifiNetworks leaves no network of a listed device out: what the library
\* did not announce after a restart is found when the timer fires.
InsertFindsAll ==
  [][(at = "inserting" /\ at' = "idle") =>
       \A net \in nmNetwork : m_devices[net[1]] > 0 => m_wifiNets[net].live > 0]_vars

\* A slot ends: the loops over the lists do not hold the thread for ever.
SlotsEnd == (at # "idle") ~> (at = "idle")

\* An object that stays listed (or unlisted) is eventually known (or forgotten).
ViewCatchesUp ==
  \A x \in Object :
    /\ <>[](sub = "live" /\ x \notin missed /\ x \in Cached) => <>[](x \in view)
    /\ <>[](sub = "live" /\ x \notin missed /\ x \notin Cached) => <>[](x \notin view)
-----------------------------------------------------------------------------
(* The manager implements ResourceFeed: what is pending for an object is   *)
(* what its signals in the queue say.                                      *)

Pending == [x \in Object |-> Cardinality({i \in DOMAIN feed : Changes(feed[i], x)})]

Feed == INSTANCE ResourceFeed WITH listed <- Cached, known <- view, pending <- Pending,
                                   phase <- sub, stale <- missed

\* Every step of the manager and of its receiver is a step of the abstract feed.
ImplementsFeed == Feed!Spec
=============================================================================
