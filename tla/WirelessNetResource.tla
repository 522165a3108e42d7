------------------------- MODULE WirelessNetResource -------------------------
(***************************************************************************)
(* KyWirelessNetResource and the KyNetworkDeviceResourse it owns: the main *)
(* thread's copy of the manager's wifi networks, by interface name, each   *)
(* with the connection profile that is configured for it.  The copy is     *)
(* read from the manager's lists once, and then kept up by the handlers of *)
(* the manager's signals.  The handlers do not take their data from the    *)
(* signal: they look the device, the network and the profile up in the     *)
(* manager's lists as these are when the signal is handled, which may be   *)
(* ahead of the queue.                                                     *)
(*                                                                         *)
(* An item is kept as the profile it holds and whether it counts as        *)
(* configured: the list of an interface is a sequence of items for each    *)
(* ssid.  Where the code takes the first item of any ssid, or the first or *)
(* the last profile of m_connections, any may be taken: neither order is   *)
(* kept here.                                                              *)
(***************************************************************************)
EXTENDS NetworkResourceManager

CONSTANTS
  Settings,      \* what a profile may say: its ssid, and its interface or AnyName
  Edited,        \* the profiles whose settings may be changed
  AnyName,
  Hotspot,       \* the profiles whose mode is not infrastructure
  ActiveConn,    \* the profile of each active connection
  ActiveDevice,  \* and its device
  NoConn         \* the profile of an item that holds none

ASSUME ProfileAssumption ==
  /\ Settings \subseteq [ssid : Ssid, iface : Name \cup {AnyName}]
  /\ AnyName \notin Name /\ NoConn \notin Conn /\ Hotspot \subseteq Conn /\ Edited \subseteq Conn
  /\ ActiveConn \in [Active -> Conn] /\ ActiveDevice \in [Active -> Device]

VARIABLES
  m_deviceMap,        \* KyNetworkDeviceResourse: uni -> interface name
  m_WifiNetworkList,  \* interface name -> ssid -> items
  settings,           \* the settings of each profile
  netSub,             \* has the constructor read the networks / connected
  disturbed,          \* the manager took a step during the construction
  doubled             \* profiles that two items of one interface held at once

copy    == <<m_deviceMap, m_WifiNetworkList>>
started == <<settings, netSub, disturbed>>
netVars == <<vars, copy, started, doubled>>

Free     == [conn |-> NoConn, configured |-> FALSE]
Taken(c) == [conn |-> c, configured |-> TRUE]
Item     == [conn : Conn, configured : BOOLEAN] \cup {Free}

-----------------------------------------------------------------------------
(* Partial functions.                                                      *)

Put(f, k, v)  == [x \in DOMAIN f \cup {k} |-> IF x = k THEN v ELSE f[x]]
Drop(f, k)    == [x \in DOMAIN f \ {k} |-> f[x]]
Empty         == [x \in {} |-> x]
NoItems       == [s \in Ssid |-> <<>>]

(* What the handlers look up in the manager.                               *)

FindDeviceInterface(n) == {d \in Device : m_devices[d] > 0 /\ nmName[d] = n}

\* Profiles for the network: of its ssid, bound to its interface or to none.
Matching(n, s) ==
  {c \in Conn : /\ m_connections[c] > 0
                /\ settings[c].ssid = s /\ settings[c].iface \in {n, AnyName}}

ActiveOn(c, n) ==
  \E a \in Active : m_activeConns[a] > 0 /\ ActiveConn[a] = c
                      /\ ActiveDevice[a] \in FindDeviceInterface(n)

\* What updatewirelessItemConnectInfoEx may make of an item: it takes an active
\* profile, else one of infrastructure mode, else a hotspot.
Chosen(n, s) ==
  LET all    == Matching(n, s)
      active == {c \in all : ActiveOn(c, n)}
      best   == CASE active # {} -> active
                  [] active = {} /\ all \ Hotspot # {} -> all \ Hotspot
                  [] active = {} /\ all \ Hotspot = {} -> all
  IN IF all = {} THEN {Free} ELSE {Taken(c) : c \in best}

\* kyWirelessNetItemListInit: an item for every entry of m_wifiNets whose device
\* is listed, dead entries and second entries included.
ListInit ==
  LET listed == {net \in Network : Entries(net) > 0 /\ m_devices[net[1]] > 0}
      names  == {nmName[net[1]] : net \in listed}
      count(n, s) == LET nets == {net \in listed : nmName[net[1]] = n /\ net[2] = s}
                     IN IF nets = {} THEN 0 ELSE Entries(CHOOSE net \in nets : TRUE)
  IN \E pick \in [names \X Ssid -> Item] :
       /\ \A n \in names, s \in Ssid : pick[<<n, s>>] \in Chosen(n, s)
       /\ m_WifiNetworkList' =
            [n \in names |-> [s \in Ssid |-> [i \in 1..count(n, s) |-> pick[<<n, s>>]]]]

-----------------------------------------------------------------------------
(* Construction: the device map is read and connected (ReadLists and       *)
(* Connect of the manager's module), then the networks are.                *)

DeviceSignal == {"deviceAdd", "deviceRemove", "deviceUpdate"}

\* The signals of devices in f, in order.
OfDevices(f) ==
  LET only[i \in 0..Len(f)] ==
        IF i = 0 THEN <<>>
        ELSE IF f[i].sig \in DeviceSignal THEN Append(only[i - 1], f[i]) ELSE only[i - 1]
  IN only[Len(f)]

NetInit ==
  /\ Init
  /\ m_deviceMap = Empty /\ m_WifiNetworkList = Empty
  /\ settings \in [Conn -> Settings]
  /\ netSub = "none" /\ disturbed = FALSE /\ doubled = {}

InitDeviceMap ==
  /\ ReadLists
  /\ m_deviceMap' = [d \in {e \in Device : m_devices[e] > 0} |-> nmName[d]]
  /\ UNCHANGED <<m_WifiNetworkList, started>>

ConnectDevices == Connect /\ UNCHANGED <<copy, started>>

\* Signals of networks and profiles are not connected yet: they are not queued.
ReadNetworks ==
  /\ sub = "live" /\ netSub = "none"
  /\ ListInit
  /\ netSub' = "read" /\ feed' = OfDevices(feed)
  /\ UNCHANGED <<library, m_initFinished, lists, loop, insertTimers, missed, sub, view,
                 m_deviceMap, settings, disturbed>>

ConnectNetworks ==
  /\ netSub = "read"
  /\ netSub' = "live" /\ feed' = OfDevices(feed)
  /\ UNCHANGED <<library, m_initFinished, lists, loop, insertTimers, missed, sub, view, copy,
                 settings, disturbed>>

-----------------------------------------------------------------------------
(* The handlers.                                                           *)

Handling(sig) == /\ netSub = "live" /\ feed # <<>> /\ Head(feed).sig = sig
                 /\ Deliver /\ UNCHANGED started
Msg == Head(feed)

\* Mutant: key and value of the map are exchanged.
OnDeviceAddExchanged ==
  /\ Handling("deviceAdd")
  /\ m_deviceMap' = Put(m_deviceMap, Msg.arg[1], Msg.obj)
  /\ UNCHANGED m_WifiNetworkList

OnDeviceAdd ==
  /\ Handling("deviceAdd")
  /\ LET n == Msg.arg[1] IN
       /\ m_deviceMap' = Put(m_deviceMap, Msg.obj, n)
       /\ m_WifiNetworkList' = IF n \in DOMAIN m_WifiNetworkList THEN m_WifiNetworkList
                               ELSE Put(m_WifiNetworkList, n, NoItems)

\* Mutant: the networks of the device stay.
OnDeviceRemoveOfMap ==
  /\ Handling("deviceRemove")
  /\ m_deviceMap' = Drop(m_deviceMap, Msg.obj)
  /\ UNCHANGED m_WifiNetworkList

OnDeviceRemove ==
  /\ Handling("deviceRemove")
  /\ m_deviceMap' = Drop(m_deviceMap, Msg.obj)
  /\ m_WifiNetworkList' = Drop(m_WifiNetworkList, Msg.arg[1])

\* onDeviceNameUpdate: the list goes to the new name, over what is there.
OnDeviceNameUpdate(old, new) ==
  m_WifiNetworkList' =
    IF old \notin DOMAIN m_WifiNetworkList THEN m_WifiNetworkList
    ELSE Put(Drop(m_WifiNetworkList, old), new, m_WifiNetworkList[old])

\* Mutant: the list is renamed and the map is not.
OnDeviceUpdateOfList ==
  /\ Handling("deviceUpdate")
  /\ LET d == Msg.obj
         new == Msg.arg[1]
     IN IF d \notin DOMAIN m_deviceMap THEN UNCHANGED m_WifiNetworkList
        ELSE OnDeviceNameUpdate(m_deviceMap[d], new)
  /\ UNCHANGED m_deviceMap

\* onDeviceUpdate, and onDeviceNameUpdate if the name has changed.
OnDeviceUpdate ==
  /\ Handling("deviceUpdate")
  /\ LET d == Msg.obj
         new == Msg.arg[1]
     IN IF d \notin DOMAIN m_deviceMap \/ m_deviceMap[d] = new THEN UNCHANGED copy
        ELSE /\ m_deviceMap' = [m_deviceMap EXCEPT ![d] = new]
             /\ OnDeviceNameUpdate(m_deviceMap[d], new)

\* Mutant: only for an interface that has a list, which the last item's end removes.
OnWifiNetworkAddedToList ==
  /\ Handling("wifiNetworkAdded")
  /\ LET n == Msg.arg[1]
         s == Msg.arg[2]
     IN IF n \in DOMAIN m_WifiNetworkList
             /\ \E d \in FindDeviceInterface(n) : <<d, s>> \in nmNetwork
          THEN \E item \in Chosen(n, s) :
                 m_WifiNetworkList' = [m_WifiNetworkList EXCEPT ![n][s] = <<item>>]
          ELSE UNCHANGED m_WifiNetworkList
  /\ UNCHANGED m_deviceMap

\* The device and its network are looked up by the names in the signal, the network
\* by the library's name: a text that is not one finds nothing.
OnWifiNetworkAdded ==
  /\ Handling("wifiNetworkAdded")
  /\ LET n == Msg.arg[1]
         s == Msg.arg[2]
     IN IF \E d \in FindDeviceInterface(n) : <<d, s>> \in nmNetwork
          THEN \E item \in Chosen(n, s) :
                 m_WifiNetworkList' =
                   Put(m_WifiNetworkList, n,
                       [IF n \in DOMAIN m_WifiNetworkList THEN m_WifiNetworkList[n] ELSE NoItems
                          EXCEPT ![s] = <<item>>])
          ELSE UNCHANGED m_WifiNetworkList
  /\ UNCHANGED m_deviceMap

Of(text) == CHOOSE s \in Ssid : Text[s] = text

\* The first item of that text goes, and with the last item the interface.
OnWifiNetworkRemoved ==
  /\ Handling("wifiNetworkRemoved")
  /\ LET n == Msg.arg[1]
         s == Of(Msg.arg[2])
     IN IF n \in DOMAIN m_WifiNetworkList /\ m_WifiNetworkList[n][s] # <<>>
          THEN LET left == [m_WifiNetworkList[n] EXCEPT ![s] = Tail(@)]
               IN m_WifiNetworkList' = IF left = NoItems THEN Drop(m_WifiNetworkList, n)
                                       ELSE [m_WifiNetworkList EXCEPT ![n] = left]
          ELSE UNCHANGED m_WifiNetworkList
  /\ UNCHANGED m_deviceMap

OnWifiNetworkDeviceDisappear ==
  /\ Handling("wifiNetworkDeviceDisappear")
  /\ ListInit
  /\ UNCHANGED m_deviceMap

\* The first item of the profile's ssid on every interface it may be used on.
OnConnectionAdd ==
  /\ Handling("connectionAdd")
  /\ LET c == Msg.obj
         s == settings[c].ssid
     IN m_WifiNetworkList' =
          [n \in DOMAIN m_WifiNetworkList |->
             IF /\ m_connections[c] > 0 /\ settings[c].iface \in {n, AnyName}
                /\ m_WifiNetworkList[n][s] # <<>>
               THEN [m_WifiNetworkList[n] EXCEPT ![s][1] = Taken(c)]
               ELSE m_WifiNetworkList[n]]
  /\ UNCHANGED m_deviceMap

FirstOf(items, c) == CHOOSE i \in DOMAIN items :
                       items[i].conn = c /\ \A j \in DOMAIN items : items[j].conn = c => i <= j

\* The ssids of the items that hold c.
HeldFor(items, c) == {s \in Ssid : \E i \in DOMAIN items[s] : items[s][i].conn = c}

\* On every interface the first item that holds c becomes item[its ssid].
Rewrite(c, item) ==
  \E pick \in [DOMAIN m_WifiNetworkList -> Ssid] :
    LET held(n) == HeldFor(m_WifiNetworkList[n], c) IN
    /\ \A n \in DOMAIN m_WifiNetworkList : held(n) # {} => pick[n] \in held(n)
    /\ m_WifiNetworkList' =
         [n \in DOMAIN m_WifiNetworkList |->
            IF held(n) = {} THEN m_WifiNetworkList[n]
            ELSE [m_WifiNetworkList[n] EXCEPT
                    ![pick[n]][FirstOf(m_WifiNetworkList[n][pick[n]], c)] = item[pick[n]]]]

\* The item holds no profile any more.
OnConnectionRemove ==
  /\ Handling("connectionRemove")
  /\ Rewrite(Msg.obj, [s \in Ssid |-> Free])
  /\ UNCHANGED m_deviceMap

\* Mutant: a profile that is for another network now stays configured.
OnConnectionUpdateUncompared ==
  /\ Handling("connectionUpdate")
  /\ IF m_connections[Msg.obj] > 0
       THEN Rewrite(Msg.obj, [s \in Ssid |-> Taken(Msg.obj)])
       ELSE UNCHANGED m_WifiNetworkList
  /\ UNCHANGED m_deviceMap

\* updateKylinWirelessItemInfo: the item keeps the profile, and is configured if the
\* profile is for its network; the interface it is bound to is not looked at.
Updated(c, s) == [conn |-> c, configured |-> settings[c].ssid = s]

OnConnectionUpdate ==
  /\ Handling("connectionUpdate")
  /\ LET c == Msg.obj IN
       IF m_connections[c] > 0
         THEN Rewrite(c, [s \in Ssid |-> Updated(c, s)])
         ELSE UNCHANGED m_WifiNetworkList
  /\ UNCHANGED m_deviceMap

\* onWifiNetworkPropertyChange changes nothing modelled; this class hears no signal
\* of active connections.
OnOther ==
  /\ \E sig \in {"wifiNetworkPropertyChange", "activeConnectionAdd",
                 "activeConnectionRemove", "activeConnectStateChangeReason"} : Handling(sig)
  /\ UNCHANGED copy

\* A query of the wlan page that writes: the item of the network that is active on
\* the interface is given the profile that is chosen now.
GetActiveWirelessNetItem(n) ==
  /\ netSub = "live" /\ n \in DOMAIN m_WifiNetworkList
  /\ \E a \in Active :
       /\ m_activeConns[a] > 0 /\ ActiveDevice[a] \in FindDeviceInterface(n)
       /\ LET s == settings[ActiveConn[a]].ssid IN
            /\ m_WifiNetworkList[n][s] # <<>>
            /\ \E item \in Chosen(n, s) :
                 m_WifiNetworkList' = [m_WifiNetworkList EXCEPT ![n][s][1] = item]
  /\ UNCHANGED <<vars, m_deviceMap, started>>

-----------------------------------------------------------------------------
Construct == InitDeviceMap \/ ConnectDevices \/ ReadNetworks \/ ConnectNetworks

Handle ==
  \/ OnDeviceAdd \/ OnDeviceRemove \/ OnDeviceUpdate
  \/ OnWifiNetworkAdded \/ OnWifiNetworkRemoved \/ OnWifiNetworkDeviceDisappear
  \/ OnConnectionAdd \/ OnConnectionRemove \/ OnConnectionUpdate \/ OnOther

\* The settings of a profile change: the library reads them and tells the manager.
EditConnection(c) ==
  /\ OnConnectionUpdated(c)
  /\ \E said \in Settings : settings' = [settings EXCEPT ![c] = said]

ManagerStep ==
  /\ \/ ManagerNext /\ UNCHANGED settings
     \/ \E c \in Edited : EditConnection(c)
  /\ disturbed' = (disturbed \/ (sub # "none" /\ netSub # "live"))
  /\ UNCHANGED <<copy, netSub>>

\* The profiles that two items of one interface hold.
HeldTwice(list) ==
  {c \in Conn : \E n \in DOMAIN list : \E s, t \in Ssid :
     \E i \in DOMAIN list[n][s], j \in DOMAIN list[n][t] :
       <<s, i>> # <<t, j>> /\ list[n][s][i].conn = c /\ list[n][t][j].conn = c}

NetStep ==
  \/ ManagerStep
  \/ Construct \/ Handle
  \/ \E n \in Name : GetActiveWirelessNetItem(n)

NetNext == NetStep /\ doubled' = doubled \cup HeldTwice(m_WifiNetworkList')

NetSpec == NetInit /\ [][NetNext]_netVars

-----------------------------------------------------------------------------
(* Properties.                                                             *)

NetTypeOK ==
  /\ DOMAIN m_deviceMap \subseteq Device /\ \A d \in DOMAIN m_deviceMap : m_deviceMap[d] \in Name
  /\ DOMAIN m_WifiNetworkList \subseteq Name
  /\ \A n \in DOMAIN m_WifiNetworkList :
       m_WifiNetworkList[n] \in [Ssid -> Seq(Item)]
  /\ settings \in [Conn -> Settings] /\ doubled \subseteq Conn
  /\ netSub \in {"none", "read", "live"} /\ disturbed \in BOOLEAN

\* Everything has been signalled and handled, by a receiver whose construction was
\* not overtaken by the manager.
Settled == netSub = "live" /\ ~disturbed /\ feed = <<>> /\ at = "idle"

Shown(n, s) == IF n \in DOMAIN m_WifiNetworkList THEN m_WifiNetworkList[n][s] ELSE <<>>

\* No network is shown that the manager does not list for the device that has the
\* interface's name, nor more often than it lists it: whatever was removed, listed
\* anew or renamed away from the name while the signals were queued.  A device that
\* came to the name by being renamed brings its list, as it is.
NoGhosts ==
  Settled => \A n \in Name, s \in Ssid :
    Shown(n, s) # <<>> =>
      \E d \in FindDeviceInterface(n) : d \in Renamed \/ Len(Shown(n, s)) <= Entries(<<d, s>>)

\* Every network the manager lists is shown, for a device that keeps its name: also
\* when the device has taken over the name of one that was removed or renamed.  Not
\* so a network whose bytes are not UTF-8: it is announced by a text that
\* onWifiNetworkAdded does not find, and is shown only if a list that is read anew
\* or the restart timer brings it.
AllShown ==
  Settled => \A net \in nmNetwork :
    net[1] \notin Renamed /\ Text[net[2]] = net[2] /\ m_wifiNets[net].live > 0
      => Shown(nmName[net[1]], net[2]) # <<>>

\* The device map holds the devices there are, under the names they have.
NamesFollow ==
  Settled => \A d \in Device :
    /\ d \in DOMAIN m_deviceMap <=> d \in nmDevice
    /\ d \in nmDevice => m_deviceMap[d] = nmName[d]

\* An item counts as configured only for a profile that exists and is for its
\* network, and for its interface: though handlers read the profiles ahead of the
\* queue, and profiles are edited.  The handlers rewrite one item of an interface, so
\* this leaves out a profile that two items of one interface have held at once; and
\* the interface a profile is bound to is read only when the item takes it, so that
\* part leaves out edited profiles and renamed interfaces.
ConfiguredTruly ==
  Settled => \A n \in DOMAIN m_WifiNetworkList, s \in Ssid :
    \A i \in DOMAIN m_WifiNetworkList[n][s] :
      LET c == m_WifiNetworkList[n][s][i].conn IN
        m_WifiNetworkList[n][s][i].configured /\ c \notin doubled =>
          /\ m_connections[c] > 0 /\ settings[c].ssid = s
          /\ \/ settings[c].iface \in {n, AnyName} \/ c \in Edited
             \/ \E d \in FindDeviceInterface(n) : d \in Renamed
=============================================================================
