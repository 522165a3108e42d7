-------------------- MODULE NetworkResourceManagerProofs --------------------
(***************************************************************************)
(* Theorems about NetworkResourceManager for every set of devices,         *)
(* profiles, networks and active connections, and every bound.             *)
(*                                                                         *)
(* The argument has four layers: the types; the lists (ListsInv, which     *)
(* says what the lists hold in the middle of a slot too); the networks     *)
(* (NetsInv: a live entry is of a network NetworkManager has), which       *)
(* InsertFindsAll and LossAnnounced need; and the queue (QueueInv), which  *)
(* leans on the lists, because a signal is sent exactly when an entry of   *)
(* an object is the first one or was the last one.                         *)
(***************************************************************************)
EXTENDS NetworkResourceManager, SequenceTheorems, TLAPS

USE DEF Object, Network

-----------------------------------------------------------------------------
(* Types.                                                                  *)

\* The signals the slots build are signals.
LEMMA SignalTypes ==
  ASSUME TypeOK
  PROVE  /\ DeviceDisappear \in Signal
         /\ \A x \in Object, sig \in AddSignal \cup RemoveSignal \cup OtherSignal :
              About(sig, x) \in Signal
         /\ \A d \in Device, n \in Name, sig \in AddSignal \cup RemoveSignal \cup OtherSignal :
              [sig |-> sig, obj |-> d, arg |-> <<n, "name">>] \in Signal
         /\ \A d \in Device, sig \in AddSignal \cup RemoveSignal \cup OtherSignal :
              AboutDevice(sig, d) \in Signal
         /\ \A net \in Network, sig \in OtherSignal : AboutNetwork(sig, net) \in Signal
         /\ \A net \in Network : AddedByName(net) \in Signal
  BY DEF TypeOK, Signal, DeviceDisappear, About, AboutDevice, AboutNetwork, AddedByName, Arg,
         NoArg, OtherSignal

\* Emitting signals keeps the queue and the missed objects well typed.
LEMMA EmitTypes ==
  ASSUME TypeOK, NEW msgs \in Seq(Signal), Emit(msgs)
  PROVE  feed' \in Seq(Signal) /\ missed' \subseteq Object
<1>1. feed \o msgs \in Seq(Signal)
  BY DEF TypeOK
<1>2. \A i \in DOMAIN msgs : Listing(msgs[i]) => msgs[i].obj \in Object
  <2>1. \A i \in DOMAIN msgs : msgs[i] \in Signal
    OBVIOUS
  <2>2. \A m \in Signal : Listing(m) => m.obj \in Object
    BY DEF Signal, Listing, AddSignal, RemoveSignal, OtherSignal
  <2>3. QED
    BY <2>1, <2>2
<1>3. QED
  BY <1>1, <1>2 DEF TypeOK, Emit

\* A slot that emits one signal.
LEMMA EmitOneTypes ==
  ASSUME TypeOK, NEW m \in Signal, Emit(<<m>>)
  PROVE  feed' \in Seq(Signal) /\ missed' \subseteq Object
<1>1. <<m>> \in Seq(Signal)
  OBVIOUS
<1>2. QED
  BY <1>1, EmitTypes

\* Orphaned only moves entries from live to dead.
LEMMA OrphanedTypes ==
  ASSUME NEW nets \in [Network -> [live : Nat, dead : Nat]], NEW gone
  PROVE  Orphaned(nets, gone) \in [Network -> [live : Nat, dead : Nat]]
  BY DEF Orphaned

\* takeAt of a listed entry.
LEMMA TakeTypes ==
  ASSUME NEW S, NEW f \in [S -> Nat], NEW x \in S, f[x] > 0
  PROVE  [f EXCEPT ![x] = @ - 1] \in [S -> Nat]
<1>1. f[x] - 1 \in Nat
  OBVIOUS
<1>2. QED
  BY <1>1

\* onDeviceRemoved keeps types.
LEMMA ForgetDeviceTypes ==
  ASSUME TypeOK, NEW d \in Device, ForgetDevice(d)
  PROVE  /\ nmDevice' \subseteq Device /\ nmRetired' \subseteq Device
         /\ nmNetwork' \subseteq Network
         /\ m_devices' \in [Device -> Nat]
         /\ m_wifiNets' \in [Network -> [live : Nat, dead : Nat]]
         /\ feed' \in Seq(Signal) /\ missed' \subseteq Object
<1>1. m_wifiNets' \in [Network -> [live : Nat, dead : Nat]]
  BY OrphanedTypes DEF TypeOK, ForgetDevice
<1>2. AboutDevice("deviceRemove", d) \in Signal
  BY SignalTypes DEF RemoveSignal
<1>3. feed' \in Seq(Signal) /\ missed' \subseteq Object
  BY <1>2, EmitOneTypes DEF ForgetDevice, TypeOK, queue
<1>4. m_devices' \in [Device -> Nat]
  <2>1. m_devices \in [Device -> Nat]
    BY DEF TypeOK
  <2>2. m_devices[d] > 0 => [m_devices EXCEPT ![d] = @ - 1] \in [Device -> Nat]
    BY <2>1, TakeTypes
  <2>3. QED
    BY <2>1, <2>2 DEF ForgetDevice
<1>5. QED
  BY <1>1, <1>3, <1>4 DEF ForgetDevice, TypeOK

\* onActiveConnectionRemoved keeps types.
LEMMA ForgetActiveTypes ==
  ASSUME TypeOK, NEW a \in Active, ForgetActive(a)
  PROVE  /\ nmActive' \subseteq Active /\ m_activeConns' \in [Active -> Nat]
         /\ feed' \in Seq(Signal) /\ missed' \subseteq Object
<1>1. About("activeConnectionRemove", a) \in Signal
  BY SignalTypes DEF RemoveSignal
<1>2. feed' \in Seq(Signal) /\ missed' \subseteq Object
  BY <1>1, EmitOneTypes DEF ForgetActive, TypeOK, queue
<1>3. m_activeConns' \in [Active -> Nat]
  <2>1. m_activeConns \in [Active -> Nat]
    BY DEF TypeOK
  <2>2. m_activeConns[a] > 0 => [m_activeConns EXCEPT ![a] = @ - 1] \in [Active -> Nat]
    BY <2>1, TakeTypes
  <2>3. QED
    BY <2>1, <2>2 DEF ForgetActive
<1>4. QED
  BY <1>2, <1>3 DEF ForgetActive, TypeOK

\* removeConnection(pos) keeps types.
LEMMA TakeConnectionTypes ==
  ASSUME TypeOK, NEW c \in Conn, m_connections[c] > 0, TakeConnection(c)
  PROVE  /\ m_connections' \in [Conn -> Nat]
         /\ feed' \in Seq(Signal) /\ missed' \subseteq Object
<1>1. About("connectionRemove", c) \in Signal
  BY SignalTypes DEF RemoveSignal
<1>2. feed' \in Seq(Signal) /\ missed' \subseteq Object
  BY <1>1, EmitOneTypes DEF TakeConnection
<1>3. QED
  BY <1>2, TakeTypes DEF TakeConnection, TypeOK

\* Both calls of a disappearing network keep types.
LEMMA DisappearedTypes ==
  ASSUME TypeOK, NEW net \in Network, NEW first \in BOOLEAN,
         OnWifiNetworkDisappeared(net, first)
  PROVE  /\ m_wifiNets' \in [Network -> [live : Nat, dead : Nat]]
         /\ feed' \in Seq(Signal) /\ missed' \subseteq Object
<1> DEFINE Entry == [live : Nat, dead : Nat]
<1>1. \A e \in Entry : RemoveFound(e) \in Entry /\ RemoveSender(e) \in Entry
  BY DEF RemoveFound, RemoveSender, FirstEntry
<1>2. \A e, f : Removed(net, e, f) \in Seq(Signal)
  <2>1. AboutNetwork("wifiNetworkRemoved", net) \in Signal
    BY SignalTypes DEF OtherSignal
  <2>2. QED
    BY <2>1 DEF Removed
<1>3. <<AboutDevice("deviceUpdate", net[1])>> \in Seq(Signal)
  BY SignalTypes DEF OtherSignal
<1>4. PICK e1, e2 \in Entry :
        /\ m_wifiNets' = Orphaned([m_wifiNets EXCEPT ![net] = e2], {net})
        /\ \E msgs \in Seq(Signal) : Emit(msgs)
  <2> DEFINE e0 == m_wifiNets[net]
             e1 == IF first THEN RemoveFound(e0) ELSE RemoveSender(e0)
             e2 == IF first THEN IF e1.live < e0.live THEN e1 ELSE RemoveSender(e1)
                            ELSE RemoveFound(e1)
             update == <<AboutDevice("deviceUpdate", net[1])>>
             msgs == IF first
                       THEN Removed(net, e0, e1) \o update \o Removed(net, e1, e2)
                       ELSE Removed(net, e0, e1) \o Removed(net, e1, e2) \o update
  <2>1. e0 \in Entry
    BY DEF TypeOK
  <2>2. e1 \in Entry
    BY <2>1, <1>1
  <2>3. e2 \in Entry
    BY <2>2, <1>1
  <2>4. msgs \in Seq(Signal)
    BY <1>2, <1>3
  <2>5. m_wifiNets' = Orphaned([m_wifiNets EXCEPT ![net] = e2], {net}) /\ Emit(msgs)
    BY DEF OnWifiNetworkDisappeared
  <2>6. QED
    BY <2>2, <2>3, <2>4, <2>5
<1>5. [m_wifiNets EXCEPT ![net] = e2] \in [Network -> Entry]
  BY DEF TypeOK
<1>6. QED
  BY <1>4, <1>5, OrphanedTypes, EmitTypes

\* Every step keeps the types: no takeAt of an entry that is not there takes a count
\* below zero.
LEMMA TypeStep ==
  ASSUME TypeOK, [Next]_vars
  PROVE  TypeOK'
<1> USE DEF library, lists, loop, queue
<1>1. CASE OnInitNetwork
  BY <1>1 DEF OnInitNetwork, TypeOK
<1>2. ASSUME NEW d \in Device, NEW n \in Name, NEW have \in SUBSET Ssid, OnDeviceAdded(d, n, have)
      PROVE  TypeOK'
  <2>1. [sig |-> "deviceAdd", obj |-> d, arg |-> <<n, "name">>] \in Signal
    BY SignalTypes DEF AddSignal
  <2>2. feed' \in Seq(Signal) /\ missed' \subseteq Object
    BY <1>2, <2>1, EmitOneTypes DEF OnDeviceAdded, TypeOK
  <2>3. nmNetwork' \subseteq Network
    BY <1>2 DEF OnDeviceAdded, TypeOK
  <2>4. m_devices' \in [Device -> Nat] /\ nmName' \in [Device -> Name]
    <3>1. m_devices' \in {m_devices, [m_devices EXCEPT ![d] = 1]}
      BY <1>2 DEF OnDeviceAdded
    <3>2. nmName' = [nmName EXCEPT ![d] = n]
      BY <1>2 DEF OnDeviceAdded
    <3>3. QED
      BY <3>1, <3>2 DEF TypeOK
  <2>5. QED
    BY <1>2, <2>2, <2>3, <2>4 DEF OnDeviceAdded, TypeOK
<1>3. ASSUME NEW d \in Device, OnDeviceRemoved(d)
      PROVE  TypeOK'
  BY <1>3, ForgetDeviceTypes DEF OnDeviceRemoved, TypeOK
<1>4. ASSUME NEW d \in Device, NEW n \in Name, OnDeviceUpdated(d, n)
      PROVE  TypeOK'
  <2>1. [sig |-> "deviceUpdate", obj |-> d, arg |-> <<n, "name">>] \in Signal
    BY SignalTypes DEF OtherSignal
  <2>2. feed' \in Seq(Signal) /\ missed' \subseteq Object
    BY <1>4, <2>1, EmitOneTypes DEF OnDeviceUpdated
  <2>3. QED
    BY <1>4, <2>2 DEF OnDeviceUpdated, TypeOK
<1>5. ASSUME NEW net \in Network, OnWifiNetworkAppeared(net)
      PROVE  TypeOK'
  <2>1. <<AboutNetwork("wifiNetworkAdded", net), AboutDevice("deviceUpdate", net[1])>> \in Seq(Signal)
    BY SignalTypes DEF OtherSignal
  <2>2. feed' \in Seq(Signal) /\ missed' \subseteq Object
    BY <1>5, <2>1, EmitTypes DEF OnWifiNetworkAppeared
  <2>3. m_wifiNets' \in [Network -> [live : Nat, dead : Nat]]
    BY <1>5 DEF OnWifiNetworkAppeared, TypeOK
  <2>4. QED
    BY <1>5, <2>2, <2>3 DEF OnWifiNetworkAppeared, TypeOK
<1>6. ASSUME NEW net \in Network, OnWifiNetworkUpdate(net)
      PROVE  TypeOK'
  <2>1. DeviceDisappear \in Signal /\ AboutNetwork("wifiNetworkPropertyChange", net) \in Signal
    BY SignalTypes DEF OtherSignal
  <2>2. feed' \in Seq(Signal) /\ missed' \subseteq Object
    BY <1>6, <2>1, EmitOneTypes DEF OnWifiNetworkUpdate
  <2>3. QED
    BY <1>6, <2>2 DEF OnWifiNetworkUpdate, TypeOK
<1>7. ASSUME NEW net \in Network, NEW first \in BOOLEAN, OnWifiNetworkDisappeared(net, first)
      PROVE  TypeOK'
  BY <1>7, DisappearedTypes DEF OnWifiNetworkDisappeared, TypeOK
<1>8. ASSUME NEW c \in Conn, OnConnectionAdded(c)
      PROVE  TypeOK'
  <2>1. About("connectionAdd", c) \in Signal
    BY SignalTypes DEF AddSignal
  <2>2. feed' \in Seq(Signal) /\ missed' \subseteq Object
    BY <1>8, <2>1, EmitOneTypes DEF OnConnectionAdded, TypeOK
  <2>3. QED
    BY <1>8, <2>2 DEF OnConnectionAdded, TypeOK
<1>9. ASSUME NEW c \in Conn, OnConnectionRemoved(c)
      PROVE  TypeOK'
  BY <1>9, TakeConnectionTypes DEF OnConnectionRemoved, TypeOK
<1>10. ASSUME NEW c \in Conn, OnConnectionUpdated(c)
       PROVE  TypeOK'
  <2>1. About("connectionUpdate", c) \in Signal
    BY SignalTypes DEF OtherSignal
  <2>2. feed' \in Seq(Signal) /\ missed' \subseteq Object
    BY <1>10, <2>1, EmitOneTypes DEF OnConnectionUpdated
  <2>3. QED
    BY <1>10, <2>2 DEF OnConnectionUpdated, TypeOK
<1>11. ASSUME NEW a \in Active, OnActiveConnectionAdded(a)
       PROVE  TypeOK'
  <2>1. About("activeConnectionAdd", a) \in Signal
    BY SignalTypes DEF AddSignal
  <2>2. feed' \in Seq(Signal) /\ missed' \subseteq Object
    BY <1>11, <2>1, EmitOneTypes DEF OnActiveConnectionAdded, TypeOK
  <2>3. m_activeConns' \in [Active -> Nat]
    <3>1. m_activeConns' \in {m_activeConns, [m_activeConns EXCEPT ![a] = 1]}
      BY <1>11 DEF OnActiveConnectionAdded
    <3>2. QED
      BY <3>1 DEF TypeOK
  <2>4. QED
    BY <1>11, <2>2, <2>3 DEF OnActiveConnectionAdded, TypeOK
<1>12. ASSUME NEW a \in Active, OnActiveConnectionRemoved(a)
       PROVE  TypeOK'
  BY <1>12, ForgetActiveTypes DEF OnActiveConnectionRemoved, TypeOK
<1>13. ASSUME NEW a \in Active, OnActiveConnectionChanged(a)
       PROVE  TypeOK'
  <2>1. About("activeConnectStateChangeReason", a) \in Signal
    BY SignalTypes DEF OtherSignal
  <2>2. feed' \in Seq(Signal) /\ missed' \subseteq Object
    BY <1>13, <2>1, EmitOneTypes DEF OnActiveConnectionChanged
  <2>3. QED
    BY <1>13, <2>2 DEF OnActiveConnectionChanged, TypeOK
<1>14. CASE ServiceDisappears \/ OnServiceAppear \/ InsertTimeout
  <2>1. CASE ServiceDisappears
    BY <2>1 DEF ServiceDisappears, TypeOK
  <2>2. CASE OnServiceAppear
    BY <2>2 DEF OnServiceAppear, TypeOK
  <2>3. CASE InsertTimeout
    <3>1. insertTimers' \in Nat /\ todo' \subseteq Network
      BY <2>3 DEF InsertTimeout, TypeOK
    <3>2. QED
      BY <2>3, <3>1 DEF InsertTimeout, TypeOK
  <2>4. QED
    BY <1>14, <2>1, <2>2, <2>3
<1>15. ASSUME NEW d \in Device, LoseDevice(d)
       PROVE  TypeOK'
  BY <1>15, ForgetDeviceTypes DEF LoseDevice, TypeOK
<1>16. ASSUME NEW a \in Active, LoseActive(a)
       PROVE  TypeOK'
  BY <1>16, ForgetActiveTypes DEF LoseActive, TypeOK
<1>17. ASSUME NEW c \in Conn, ClearConnection(c)
       PROVE  TypeOK'
  BY <1>17, TakeConnectionTypes DEF ClearConnection, TypeOK
<1>18. CASE ServiceDisappeared \/ ClearWifiNetworks \/ InsertDone
  BY <1>18 DEF ServiceDisappeared, ClearWifiNetworks, InsertDone, NoEntry, TypeOK
<1>19. ASSUME NEW net \in Network, InsertWifiNetwork(net)
       PROVE  TypeOK'
  <2>1. AddedByName(net) \in Signal
    BY SignalTypes DEF OtherSignal
  <2>2. feed' \in Seq(Signal) /\ missed' \subseteq Object
    BY <1>19, <2>1, EmitOneTypes DEF InsertWifiNetwork
  <2>3. m_wifiNets' \in [Network -> [live : Nat, dead : Nat]]
    <3>1. m_wifiNets[net].live + 1 \in Nat
      BY DEF TypeOK
    <3>2. QED
      BY <1>19, <3>1 DEF InsertWifiNetwork, TypeOK
  <2>4. QED
    BY <1>19, <2>2, <2>3 DEF InsertWifiNetwork, TypeOK
<1>20. CASE ReadLists \/ Connect
  BY <1>20 DEF ReadLists, Connect, Cached, TypeOK
<1>21. CASE Deliver
  <2>1. Head(feed) \in Signal /\ Tail(feed) \in Seq(Signal)
    BY <1>21 DEF Deliver, TypeOK
  <2>2. Apply(view, Head(feed)) \subseteq Object
    BY <2>1 DEF Apply, TypeOK, Signal, AddSignal, RemoveSignal, OtherSignal
  <2>3. QED
    BY <1>21, <2>1, <2>2 DEF Deliver, TypeOK
<1>22. CASE UNCHANGED vars
  BY <1>22 DEF vars, TypeOK
<1>23. QED
  BY <1>1, <1>2, <1>3, <1>4, <1>5, <1>6, <1>7, <1>8, <1>9, <1>10, <1>11, <1>12, <1>13,
     <1>14, <1>15, <1>16, <1>17, <1>18, <1>19, <1>20, <1>21, <1>22
     DEF Next, ManagerNext, LibraryEvent, Continue

LEMMA TypeInit ==
  ASSUME Init
  PROVE  TypeOK
<1>1. m_wifiNets \in [Network -> [live : Nat, dead : Nat]]
  BY DEF Init, NoEntry
<1>2. nmNetwork \subseteq Network
  BY DEF Init
<1>3. nmConn \subseteq Conn /\ nmActive \subseteq Active /\ nmDevice \subseteq Device
  BY DEF Init
<1>4. feed \in Seq(Signal)
  BY DEF Init
<1>5. QED
  BY <1>1, <1>2, <1>3, <1>4 DEF Init, TypeOK

\* Whatever NetworkManager does, the manager's lists, its loop, its queue of
\* signals and the receiver's knowledge are well typed: no takeAt of an entry that
\* is not there takes a count below zero.
THEOREM TypeCorrect == Spec => []TypeOK
<1>1. Init => TypeOK
  BY TypeInit
<1>2. TypeOK /\ [Next]_vars => TypeOK'
  BY TypeStep
<1>3. QED
  BY <1>1, <1>2, PTL DEF Spec

-----------------------------------------------------------------------------
(* The lists.  Devices and active connections are exact all the time; the  *)
(* connections are exact except while clearConnections runs, when every    *)
(* entry left is an only entry and NetworkManager has none.                *)

One(S, x) == IF x \in S THEN 1 ELSE 0

ConnectionsInv ==
  IF at = "clearing"
    THEN nmConn = {} /\ \A c \in Conn : m_connections[c] \in {0, 1}
    ELSE m_initFinished => \A c \in Conn : m_connections[c] = One(nmConn \ Unnamed, c)

ListsInv ==
  /\ at # "idle" => m_initFinished
  /\ m_initFinished => \A d \in Device : m_devices[d] = One(nmDevice, d)
  /\ m_initFinished => \A a \in Active : m_activeConns[a] = One(nmActive, a)
  /\ ConnectionsInv

\* A step that changes no list and no table of the library, and does not start or
\* end clearConnections.
LEMMA ListsUntouched ==
  ASSUME TypeOK, ListsInv,
         UNCHANGED <<nmDevice, nmConn, nmActive, m_initFinished, m_devices, m_connections,
                     m_activeConns>>,
         at' = "clearing" <=> at = "clearing",
         at' # "idle" => m_initFinished
  PROVE  ListsInv'
  BY DEF ListsInv, ConnectionsInv, One

\* onDeviceRemoved leaves the other lists as they were.
LEMMA DeviceForgotten ==
  ASSUME TypeOK, ListsInv, NEW d \in Device, ForgetDevice(d), m_initFinished,
         UNCHANGED <<nmConn, nmActive, m_initFinished, m_connections, m_activeConns, at>>
  PROVE  ListsInv'
<1>1. \A e \in Device : m_devices'[e] = One(nmDevice', e)
  <2>1. m_devices \in [Device -> Nat] /\ \A e \in Device : m_devices[e] = One(nmDevice, e)
    BY DEF TypeOK, ListsInv
  <2>2. m_devices' = IF m_devices[d] > 0 THEN [m_devices EXCEPT ![d] = @ - 1] ELSE m_devices
    BY DEF ForgetDevice
  <2>3. nmDevice' = nmDevice \ {d}
    BY DEF ForgetDevice
  <2>4. QED
    BY <2>1, <2>2, <2>3 DEF One
<1>2. QED
  BY <1>1 DEF ListsInv, ConnectionsInv, One

\* onActiveConnectionRemoved leaves the other lists as they were.
LEMMA ActiveForgotten ==
  ASSUME TypeOK, ListsInv, NEW a \in Active, ForgetActive(a), m_initFinished,
         UNCHANGED <<nmConn, nmDevice, m_initFinished, m_connections, m_devices, at>>
  PROVE  ListsInv'
<1>1. \A b \in Active : m_activeConns'[b] = One(nmActive', b)
  <2>1. m_activeConns \in [Active -> Nat] /\ \A b \in Active : m_activeConns[b] = One(nmActive, b)
    BY DEF TypeOK, ListsInv
  <2>2. m_activeConns' = IF m_activeConns[a] > 0
                           THEN [m_activeConns EXCEPT ![a] = @ - 1] ELSE m_activeConns
    BY DEF ForgetActive
  <2>3. nmActive' = nmActive \ {a}
    BY DEF ForgetActive
  <2>4. QED
    BY <2>1, <2>2, <2>3 DEF One
<1>2. QED
  BY <1>1 DEF ListsInv, ConnectionsInv, One

\* Every step keeps the strengthened invariant of the lists.
LEMMA ListsStep ==
  ASSUME TypeOK, ListsInv, [Next]_vars
  PROVE  ListsInv'
<1> USE DEF library, lists, loop, queue, Quiet, InNM
<1>1. CASE OnInitNetwork
  <2>1. at = "idle"
    BY <1>1 DEF OnInitNetwork, ListsInv
  <2>2. QED
    BY <1>1, <2>1 DEF OnInitNetwork, ListsInv, ConnectionsInv, One
<1>2. ASSUME NEW d \in Device, NEW n \in Name, NEW have \in SUBSET Ssid, OnDeviceAdded(d, n, have)
      PROVE  ListsInv'
  <2>1. m_devices' = [m_devices EXCEPT ![d] = 1] /\ nmDevice' = nmDevice \cup {d}
    BY <1>2 DEF OnDeviceAdded, ListsInv, One
  <2>2. \A e \in Device : m_devices'[e] = One(nmDevice', e)
    BY <1>2, <2>1 DEF OnDeviceAdded, TypeOK, ListsInv, One
  <2>3. UNCHANGED <<nmConn, nmActive, m_initFinished, m_connections, m_activeConns, at>>
    BY <1>2 DEF OnDeviceAdded
  <2>4. QED
    BY <2>2, <2>3 DEF ListsInv, ConnectionsInv, One
<1>3. ASSUME NEW d \in Device, OnDeviceRemoved(d)
      PROVE  ListsInv'
  BY <1>3, DeviceForgotten DEF OnDeviceRemoved
<1>4. ASSUME NEW d \in Device, NEW n \in Name, OnDeviceUpdated(d, n)
      PROVE  ListsInv'
  BY <1>4, ListsUntouched DEF OnDeviceUpdated
<1>5. ASSUME NEW net \in Network,
             OnWifiNetworkAppeared(net) \/ OnWifiNetworkUpdate(net)
      PROVE  ListsInv'
  BY <1>5, ListsUntouched DEF OnWifiNetworkAppeared, OnWifiNetworkUpdate
<1>6. ASSUME NEW net \in Network, NEW first \in BOOLEAN, OnWifiNetworkDisappeared(net, first)
      PROVE  ListsInv'
  BY <1>6, ListsUntouched DEF OnWifiNetworkDisappeared
<1>7. ASSUME NEW c \in Conn, OnConnectionAdded(c)
      PROVE  ListsInv'
  <2>1. m_connections' = IF c \notin Unnamed THEN [m_connections EXCEPT ![c] = 1] ELSE m_connections
    BY <1>7 DEF OnConnectionAdded, ListsInv, ConnectionsInv, One
  <2>2. \A b \in Conn : m_connections'[b] = One(nmConn' \ Unnamed, b)
    BY <1>7, <2>1 DEF OnConnectionAdded, TypeOK, ListsInv, ConnectionsInv, One
  <2>3. UNCHANGED <<nmDevice, nmActive, m_initFinished, m_devices, m_activeConns, at>>
    BY <1>7 DEF OnConnectionAdded
  <2>4. QED
    BY <1>7, <2>2, <2>3 DEF OnConnectionAdded, ListsInv, ConnectionsInv, One
<1>8. ASSUME NEW c \in Conn, OnConnectionRemoved(c)
      PROVE  ListsInv'
  <2>1. \A b \in Conn : m_connections[b] = One(nmConn \ Unnamed, b)
    BY <1>8 DEF OnConnectionRemoved, ListsInv, ConnectionsInv
  <2>2. m_connections' = IF m_connections[c] > 0
                           THEN [m_connections EXCEPT ![c] = @ - 1] ELSE m_connections
    BY <1>8 DEF OnConnectionRemoved, TakeConnection
  <2>3. \A b \in Conn : m_connections'[b] = One(nmConn' \ Unnamed, b)
    BY <1>8, <2>1, <2>2 DEF OnConnectionRemoved, TypeOK, One
  <2>4. UNCHANGED <<nmDevice, nmActive, m_initFinished, m_devices, m_activeConns, at>>
    BY <1>8 DEF OnConnectionRemoved
  <2>5. QED
    BY <1>8, <2>3, <2>4 DEF OnConnectionRemoved, ListsInv, ConnectionsInv, One
<1>9. ASSUME NEW c \in Conn, OnConnectionUpdated(c)
      PROVE  ListsInv'
  BY <1>9, ListsUntouched DEF OnConnectionUpdated
<1>10. ASSUME NEW a \in Active, OnActiveConnectionAdded(a)
       PROVE  ListsInv'
  <2>1. m_activeConns' = [m_activeConns EXCEPT ![a] = 1] /\ nmActive' = nmActive \cup {a}
    BY <1>10 DEF OnActiveConnectionAdded, ListsInv, One
  <2>2. \A b \in Active : m_activeConns'[b] = One(nmActive', b)
    BY <1>10, <2>1 DEF OnActiveConnectionAdded, TypeOK, ListsInv, One
  <2>3. UNCHANGED <<nmConn, nmDevice, m_initFinished, m_connections, m_devices, at>>
    BY <1>10 DEF OnActiveConnectionAdded
  <2>4. QED
    BY <2>2, <2>3 DEF ListsInv, ConnectionsInv, One
<1>11. ASSUME NEW a \in Active, OnActiveConnectionRemoved(a)
       PROVE  ListsInv'
  BY <1>11, ActiveForgotten DEF OnActiveConnectionRemoved
<1>12. ASSUME NEW a \in Active, OnActiveConnectionChanged(a)
       PROVE  ListsInv'
  BY <1>12, ListsUntouched DEF OnActiveConnectionChanged
<1>13. CASE ServiceDisappears \/ OnServiceAppear \/ InsertTimeout \/ InsertDone
  BY <1>13, ListsUntouched
     DEF ServiceDisappears, OnServiceAppear, InsertTimeout, InsertDone, ListsInv
<1>14. ASSUME NEW d \in Device, LoseDevice(d)
       PROVE  ListsInv'
  BY <1>14, DeviceForgotten DEF LoseDevice, ListsInv
<1>15. ASSUME NEW a \in Active, LoseActive(a)
       PROVE  ListsInv'
  BY <1>15, ActiveForgotten DEF LoseActive, ListsInv
<1>16. CASE ServiceDisappeared
  <2>1. \A c \in Conn : m_connections[c] = One(nmConn \ Unnamed, c)
    BY <1>16 DEF ServiceDisappeared, ListsInv, ConnectionsInv
  <2>2. QED
    BY <1>16, <2>1 DEF ServiceDisappeared, ListsInv, ConnectionsInv, One
<1>17. ASSUME NEW c \in Conn, ClearConnection(c)
       PROVE  ListsInv'
  <2>1. m_connections' = [m_connections EXCEPT ![c] = @ - 1] /\ m_connections[c] = 1
    BY <1>17 DEF ClearConnection, TakeConnection, ListsInv, ConnectionsInv
  <2>2. \A b \in Conn : m_connections'[b] \in {0, 1}
    BY <1>17, <2>1 DEF ClearConnection, ListsInv, ConnectionsInv, TypeOK
  <2>3. QED
    BY <1>17, <2>2 DEF ClearConnection, ListsInv, ConnectionsInv, One
<1>18. CASE ClearWifiNetworks
  BY <1>18 DEF ClearWifiNetworks, ListsInv, ConnectionsInv, One
<1>19. ASSUME NEW net \in Network, InsertWifiNetwork(net)
       PROVE  ListsInv'
  BY <1>19, ListsUntouched DEF InsertWifiNetwork, ListsInv
<1>20. CASE ReadLists \/ Connect \/ Deliver
  BY <1>20, ListsUntouched DEF ReadLists, Connect, Deliver, ListsInv
<1>21. CASE UNCHANGED vars
  BY <1>21, ListsUntouched DEF vars, ListsInv
<1>22. QED
  BY <1>1, <1>2, <1>3, <1>4, <1>5, <1>6, <1>7, <1>8, <1>9, <1>10, <1>11, <1>12, <1>13,
     <1>14, <1>15, <1>16, <1>17, <1>18, <1>19, <1>20, <1>21
     DEF Next, ManagerNext, LibraryEvent, Continue

\* At every point of every slot, the lists are related to NetworkManager's objects
\* as ListsInv says: also inside the loops of a lost service.
THEOREM ListsInvariant == Spec => []ListsInv
<1>1. Init => ListsInv
  BY DEF Init, ListsInv, ConnectionsInv
<1>2. TypeOK /\ ListsInv /\ [Next]_vars => ListsInv'
  BY ListsStep
<1>3. QED
  BY <1>1, <1>2, TypeCorrect, PTL DEF Spec

\* Between two slots the lists hold exactly what NetworkManager has, each object
\* once, for any number of devices, connections and restarts.
THEOREM ListsMirrored == Spec => []ListsMirrorNM
<1>1. ListsInv => ListsMirrorNM
  BY DEF ListsInv, ConnectionsInv, ListsMirrorNM, One
<1>2. QED
  BY <1>1, ListsInvariant, PTL
-----------------------------------------------------------------------------
(* The networks: an entry of a live object is of a network the library     *)
(* has, whose device it has; and what insertWifiNetworks has still to do   *)
(* is all that is not listed.                                              *)

NetsInv ==
  /\ \A d, e \in nmDevice : nmName[d] = nmName[e] => d = e
  /\ nmNetwork \subseteq nmDevice \X Ssid
  /\ \A net \in Network : m_wifiNets[net].live > 0 => net \in nmNetwork
  /\ at = "clearing" => nmDevice = {}
  /\ todo \subseteq nmNetwork
  /\ IF at = "inserting" THEN \A net \in nmNetwork : net \in todo \/ m_wifiNets[net].live > 0
                         ELSE todo = {}

\* A step that changes nothing NetsInv speaks of.
LEMMA NetsUntouched ==
  ASSUME NetsInv, UNCHANGED <<nmDevice, nmName, nmNetwork, m_wifiNets, at, todo>>
  PROVE  NetsInv'
  BY DEF NetsInv

\* onDeviceRemoved takes the device's networks out of the library's table, and the
\* entries of their objects are orphaned.
LEMMA NetsDevice ==
  ASSUME TypeOK, NetsInv, NEW d \in Device, ForgetDevice(d), at # "inserting",
         UNCHANGED <<nmName, at, todo>>
  PROVE  NetsInv'
<1>1. /\ nmDevice' = nmDevice \ {d} /\ nmNetwork' = nmNetwork \ ({d} \X Ssid)
      /\ m_wifiNets' = Orphaned(m_wifiNets, {d} \X Ssid)
  BY DEF ForgetDevice
<1>2. \A net \in Network : m_wifiNets'[net].live > 0 =>
        net \notin {d} \X Ssid /\ m_wifiNets[net].live > 0
  BY <1>1 DEF Orphaned
<1>3. \A net \in nmNetwork' : net \in nmDevice' \X Ssid
  BY <1>1 DEF NetsInv
<1>4. todo' = {}
  BY DEF NetsInv
<1>5. \A net \in Network : m_wifiNets'[net].live > 0 => net \in nmNetwork'
  BY <1>1, <1>2 DEF NetsInv
<1>6. \A c, e \in nmDevice' : nmName'[c] = nmName'[e] => c = e
  BY <1>1 DEF NetsInv
<1>7. at' = "clearing" => nmDevice' = {}
  BY <1>1 DEF NetsInv
<1>8. QED
  BY <1>3, <1>4, <1>5, <1>6, <1>7 DEF NetsInv

\* The two calls of a disappearing network leave no entry of its object.
LEMMA NetsDisappeared ==
  ASSUME TypeOK, NetsInv, NEW net \in Network, NEW first \in BOOLEAN,
         OnWifiNetworkDisappeared(net, first)
  PROVE  NetsInv'
<1> DEFINE e0 == m_wifiNets[net]
           e1 == IF first THEN RemoveFound(e0) ELSE RemoveSender(e0)
           e2 == IF first THEN IF e1.live < e0.live THEN e1 ELSE RemoveSender(e1)
                          ELSE RemoveFound(e1)
<1>1. /\ nmNetwork' = nmNetwork \ {net} /\ at = "idle"
      /\ m_wifiNets' = Orphaned([m_wifiNets EXCEPT ![net] = e2], {net})
      /\ UNCHANGED <<nmDevice, nmName, at, todo>>
  BY DEF OnWifiNetworkDisappeared, loop, InNM, Quiet
<1> HIDE DEF e2
<1>2. \A other \in Network : m_wifiNets'[other].live > 0 =>
        other # net /\ m_wifiNets'[other] = m_wifiNets[other]
  <2> DEFINE nets == [m_wifiNets EXCEPT ![net] = e2]
  <2>1. \A other \in Network : other # net => nets[other] = m_wifiNets[other]
    BY DEF TypeOK
  <2> HIDE DEF nets
  <2>2. m_wifiNets' = Orphaned(nets, {net})
    BY <1>1 DEF nets
  <2>3. QED
    BY <2>1, <2>2 DEF Orphaned
<1>3. todo = {}
  BY <1>1 DEF NetsInv
<1>4. QED
  BY <1>1, <1>2, <1>3 DEF NetsInv

\* Every step keeps NetsInv.
LEMMA NetsStep ==
  ASSUME TypeOK, ListsInv, NetsInv, [Next]_vars
  PROVE  NetsInv'
<1> USE DEF library, lists, loop, queue, Quiet, InNM
<1>1. CASE OnInitNetwork
  <2>1. at = "idle"
    BY <1>1 DEF OnInitNetwork, ListsInv
  <2>2. \A net \in Network : m_wifiNets'[net].live > 0 => net \in nmNetwork
    BY <1>1 DEF OnInitNetwork
  <2>3. QED
    BY <1>1, <2>1, <2>2 DEF OnInitNetwork, NetsInv
<1>2. ASSUME NEW d \in Device, NEW n \in Name, NEW have \in SUBSET Ssid, OnDeviceAdded(d, n, have)
      PROVE  NetsInv'
  <2>1. /\ nmDevice' = nmDevice \cup {d} /\ nmName' = [nmName EXCEPT ![d] = n]
        /\ nmNetwork' = nmNetwork \cup ({d} \X have) /\ d \notin nmDevice /\ at = "idle"
        /\ UNCHANGED <<m_wifiNets, at, todo>> /\ \A e \in nmDevice : nmName[e] # n
    BY <1>2 DEF OnDeviceAdded
  <2>2. /\ nmName'[d] = n
        /\ \A e \in nmDevice : nmName'[e] = nmName[e] /\ nmName[e] # n
    BY <2>1 DEF TypeOK
  <2>3. \A c, e \in nmDevice' : nmName'[c] = nmName'[e] => c = e
    BY <2>1, <2>2 DEF NetsInv
  <2>4. nmNetwork' \subseteq nmDevice' \X Ssid
    BY <2>1 DEF NetsInv
  <2>5. QED
    BY <2>1, <2>3, <2>4 DEF NetsInv
<1>3. ASSUME NEW d \in Device, OnDeviceRemoved(d) \/ LoseDevice(d)
      PROVE  NetsInv'
  BY <1>3, NetsDevice DEF OnDeviceRemoved, LoseDevice
<1>4. ASSUME NEW d \in Device, NEW n \in Name, OnDeviceUpdated(d, n)
      PROVE  NetsInv'
  <2>1. /\ nmName' = [nmName EXCEPT ![d] = n] /\ d \in nmDevice
        /\ \A e \in nmDevice : nmName[e] # n
        /\ UNCHANGED <<nmDevice, nmNetwork, m_wifiNets, at, todo>>
    BY <1>4 DEF OnDeviceUpdated
  <2>2. \A e \in nmDevice : nmName'[e] = IF e = d THEN n ELSE nmName[e]
    BY <2>1 DEF TypeOK
  <2>3. \A c, e \in nmDevice' : nmName'[c] = nmName'[e] => c = e
    BY <2>1, <2>2 DEF NetsInv
  <2>4. QED
    BY <2>1, <2>3 DEF NetsInv
<1>5. ASSUME NEW net \in Network, OnWifiNetworkAppeared(net)
      PROVE  NetsInv'
  <2>1. /\ nmNetwork' = nmNetwork \cup {net} /\ net[1] \in nmDevice /\ at = "idle"
        /\ UNCHANGED <<nmDevice, nmName, at, todo>>
    BY <1>5 DEF OnWifiNetworkAppeared
  <2>2. \A other \in Network : m_wifiNets'[other].live > 0 =>
          other = net \/ m_wifiNets[other].live > 0
    BY <1>5 DEF OnWifiNetworkAppeared, TypeOK
  <2>3. QED
    BY <2>1, <2>2 DEF NetsInv
<1>6. ASSUME NEW net \in Network, NEW first \in BOOLEAN, OnWifiNetworkDisappeared(net, first)
      PROVE  NetsInv'
  BY <1>6, NetsDisappeared
<1>7. CASE \/ \E net \in Network : OnWifiNetworkUpdate(net)
           \/ \E c \in Conn : OnConnectionAdded(c) \/ OnConnectionRemoved(c) \/ OnConnectionUpdated(c)
           \/ \E a \in Active : OnActiveConnectionAdded(a) \/ OnActiveConnectionRemoved(a)
                                  \/ OnActiveConnectionChanged(a) \/ LoseActive(a)
           \/ OnServiceAppear \/ \E c \in Conn : ClearConnection(c)
           \/ ReadLists \/ Connect \/ Deliver \/ UNCHANGED vars
  BY <1>7, NetsUntouched
     DEF OnWifiNetworkUpdate, OnConnectionAdded, OnConnectionRemoved, OnConnectionUpdated,
         OnActiveConnectionAdded, OnActiveConnectionRemoved, OnActiveConnectionChanged, LoseActive,
         OnServiceAppear, ClearConnection, ReadLists, Connect, Deliver, vars
<1>8. CASE ServiceDisappears \/ ServiceDisappeared
  BY <1>8 DEF ServiceDisappears, ServiceDisappeared, NetsInv
<1>9. CASE ClearWifiNetworks
  <2>1. \A net \in Network : ~(m_wifiNets'[net].live > 0)
    BY <1>9 DEF ClearWifiNetworks, NoEntry
  <2>2. QED
    BY <1>9, <2>1 DEF ClearWifiNetworks, NetsInv
<1>10. CASE InsertTimeout
  <2>1. \A net \in nmNetwork : net \in todo'
    BY <1>10 DEF InsertTimeout, ListsInv, One, NetsInv, TypeOK
  <2>2. QED
    BY <1>10, <2>1 DEF InsertTimeout, NetsInv
<1>11. ASSUME NEW net \in Network, InsertWifiNetwork(net)
       PROVE  NetsInv'
  <2>1. \A other \in Network :
          m_wifiNets'[other].live = IF other = net THEN m_wifiNets[other].live + 1
                                    ELSE m_wifiNets[other].live
    BY <1>11 DEF InsertWifiNetwork, TypeOK
  <2>2. m_wifiNets'[net].live > 0
    BY <2>1 DEF TypeOK
  <2>3. \A other \in Network : m_wifiNets[other].live > 0 => m_wifiNets'[other].live > 0
    BY <2>1, <2>2
  <2>4. \A other \in Network : m_wifiNets'[other].live > 0 =>
          other = net \/ m_wifiNets[other].live > 0
    BY <2>1
  <2>5. QED
    BY <1>11, <2>2, <2>3, <2>4 DEF InsertWifiNetwork, NetsInv, TypeOK
<1>12. CASE InsertDone
  BY <1>12 DEF InsertDone, NetsInv
<1>13. QED
  BY <1>1, <1>2, <1>3, <1>4, <1>5, <1>6, <1>7, <1>8, <1>9, <1>10, <1>11, <1>12
     DEF Next, ManagerNext, LibraryEvent, Continue

\* What NetsInv says holds initially.
LEMMA NetsInit ==
  ASSUME Init
  PROVE  NetsInv
  BY DEF Init, NetsInv, NoEntry

\* Devices have names of their own, and no entry of a live object is left without
\* its network or its device, in the middle of a slot or between two.
THEOREM NetsInvariant == Spec => []NetsInv
<1>1. Init => NetsInv
  BY NetsInit
<1>2. TypeOK /\ ListsInv /\ NetsInv /\ [Next]_vars => NetsInv'
  BY NetsStep
<1>3. QED
  BY <1>1, <1>2, TypeCorrect, ListsInvariant, PTL DEF Spec

\* insertWifiNetworks leaves no network of a listed device out, however many
\* networks there are and whatever was listed when the timer fired.
THEOREM InsertComplete == Spec => InsertFindsAll
<1>1. ASSUME TypeOK, NetsInv, [Next]_vars, at = "inserting", at' = "idle",
             NEW net \in nmNetwork, m_devices[net[1]] > 0
      PROVE  m_wifiNets[net].live > 0
  <2>1. InsertDone
    BY <1>1 DEF Next, ManagerNext, LibraryEvent, Continue, Quiet, InNM, library, lists, loop,
         queue, vars, OnInitNetwork,
         OnDeviceAdded, OnDeviceRemoved, OnDeviceUpdated, OnWifiNetworkAppeared,
         OnWifiNetworkUpdate, OnWifiNetworkDisappeared, OnConnectionAdded, OnConnectionRemoved,
         OnConnectionUpdated, OnActiveConnectionAdded, OnActiveConnectionRemoved,
         OnActiveConnectionChanged, ServiceDisappears, OnServiceAppear, LoseDevice, LoseActive,
         ServiceDisappeared, ClearConnection, ClearWifiNetworks, InsertWifiNetwork, InsertTimeout,
         ReadLists, Connect, Deliver
  <2>2. todo = {}
    BY <2>1 DEF InsertDone
  <2>3. QED
    BY <1>1, <2>2 DEF NetsInv
<1>2. TypeOK /\ NetsInv /\ [Next]_vars =>
        [(at = "inserting" /\ at' = "idle") =>
           \A net \in nmNetwork : m_devices[net[1]] > 0 => m_wifiNets[net].live > 0]_vars
  BY <1>1
<1>3. QED
  BY <1>2, TypeCorrect, NetsInvariant, PTL DEF Spec, InsertFindsAll

-----------------------------------------------------------------------------
(* The queue.  First what a queue says of an object, as facts about        *)
(* sequences; then the three kinds of step: one that announces nothing of  *)
(* what is listed, one that announces that x is listed or no longer is,    *)
(* and the delivery of the oldest signal.                                  *)

\* Appended signals that do not list or unlist x leave what is known of x.
LEMMA KnownAfterOther ==
  ASSUME NEW f \in Seq(Signal), NEW g \in Seq(Signal), NEW v, NEW x,
         \A i \in DOMAIN g : ~Changes(g[i], x)
  PROVE  KnownAfter(f \o g, v, x) <=> KnownAfter(f, v, x)
<1> DEFINE h == f \o g
<1>1. /\ h \in Seq(Signal) /\ Len(h) = Len(f) + Len(g)
      /\ \A i \in 1..Len(f) : h[i] = f[i]
      /\ \A i \in DOMAIN h : i > Len(f) => i - Len(f) \in DOMAIN g /\ h[i] = g[i - Len(f)]
  OBVIOUS
<1>2. \A i \in DOMAIN h : Changes(h[i], x) => i \in DOMAIN f /\ Changes(f[i], x)
  BY <1>1
<1>3. \A i \in DOMAIN f : i \in DOMAIN h /\ (Changes(h[i], x) <=> Changes(f[i], x)) /\ h[i] = f[i]
  BY <1>1
<1>4. QED
  BY <1>2, <1>3 DEF KnownAfter

\* After a listing signal of x, x is known exactly if it was an announcement.
LEMMA KnownAfterLast ==
  ASSUME NEW f \in Seq(Signal), NEW m \in Signal, NEW v, NEW x, Changes(m, x)
  PROVE  KnownAfter(f \o <<m>>, v, x) <=> m.sig \in AddSignal
<1> DEFINE h == f \o <<m>>
           n == Len(f) + 1
<1>1. h \in Seq(Signal) /\ Len(h) = n /\ h[n] = m /\ n \in DOMAIN h /\ DOMAIN h = 1..n
  OBVIOUS
<1>2. \A j \in DOMAIN h : ~(j > n)
  BY <1>1
<1>3. \A i \in DOMAIN h : i # n => n > i
  BY <1>1
<1>4. QED
  BY <1>1, <1>2, <1>3 DEF KnownAfter

\* Handling the oldest signal does not change what is known at the end.
LEMMA KnownAfterHead ==
  ASSUME NEW f \in Seq(Signal), f # <<>>, NEW v, NEW x \in Object
  PROVE  KnownAfter(Tail(f), Apply(v, Head(f)), x) <=> KnownAfter(f, v, x)
<1> DEFINE t == Tail(f)
           w == Apply(v, Head(f))
<1>1. /\ t \in Seq(Signal) /\ Len(f) > 0 /\ Len(t) = Len(f) - 1 /\ f[1] \in Signal
      /\ Head(f) = f[1] /\ \A i \in DOMAIN t : i + 1 \in DOMAIN f /\ t[i] = f[i + 1]
      /\ \A i \in DOMAIN f : i # 1 => i - 1 \in DOMAIN t /\ f[i] = t[i - 1]
      /\ 1 \in DOMAIN f /\ \A i \in DOMAIN f : i \in Nat /\ i >= 1
      /\ \A i \in DOMAIN t : i \in Nat /\ i >= 1
  OBVIOUS
<1>2. IF Changes(f[1], x) THEN x \in w <=> f[1].sig \in AddSignal ELSE x \in w <=> x \in v
  BY <1>1 DEF Apply, Changes, Listing, AddSignal, RemoveSignal
<1>3. CASE \E i \in DOMAIN t : Changes(t[i], x)
  <2>1. \E i \in DOMAIN f : i # 1 /\ Changes(f[i], x)
    BY <1>1, <1>3
  <2>2. KnownAfter(t, w, x) => KnownAfter(f, v, x)
    <3> SUFFICES ASSUME NEW i \in DOMAIN t, Changes(t[i], x), t[i].sig \in AddSignal,
                        \A j \in DOMAIN t : j > i => ~Changes(t[j], x)
                 PROVE  KnownAfter(f, v, x)
      BY <1>3 DEF KnownAfter
    <3>1. \A j \in DOMAIN f : j > i + 1 => j # 1 /\ j - 1 > i
      BY <1>1
    <3>2. \A j \in DOMAIN f : j > i + 1 => ~Changes(f[j], x)
      BY <1>1, <3>1
    <3>3. QED
      BY <1>1, <3>2 DEF KnownAfter
  <2>3. KnownAfter(f, v, x) => KnownAfter(t, w, x)
    <3> SUFFICES ASSUME NEW i \in DOMAIN f, Changes(f[i], x), f[i].sig \in AddSignal,
                        \A j \in DOMAIN f : j > i => ~Changes(f[j], x)
                 PROVE  KnownAfter(t, w, x)
      BY <2>1 DEF KnownAfter
    <3>1. i # 1
      <4>1. PICK k \in DOMAIN f : k # 1 /\ Changes(f[k], x)
        BY <2>1
      <4>2. k > 1
        BY <1>1, <4>1
      <4>3. QED
        BY <4>1, <4>2
    <3>2. \A j \in DOMAIN t : j > i - 1 => j + 1 > i
      BY <1>1
    <3>3. \A j \in DOMAIN t : j > i - 1 => ~Changes(t[j], x)
      BY <1>1, <3>2
    <3>4. QED
      BY <1>1, <3>1, <3>3 DEF KnownAfter
  <2>4. QED
    BY <2>2, <2>3
<1>4. CASE \A i \in DOMAIN t : ~Changes(t[i], x)
  <2>1. \A i \in DOMAIN f : Changes(f[i], x) => i = 1
    BY <1>1, <1>4
  <2>2. KnownAfter(t, w, x) <=> x \in w
    BY <1>4 DEF KnownAfter
  <2>3. CASE Changes(f[1], x)
    <3>1. \A j \in DOMAIN f : j > 1 => ~Changes(f[j], x)
      BY <2>1, <1>1
    <3>2. KnownAfter(f, v, x) <=> f[1].sig \in AddSignal
      BY <2>1, <2>3, <3>1, <1>1 DEF KnownAfter
    <3>3. QED
      BY <1>2, <2>2, <2>3, <3>2
  <2>4. CASE ~Changes(f[1], x)
    <3>1. KnownAfter(f, v, x) <=> x \in v
      BY <2>1, <2>4 DEF KnownAfter
    <3>2. QED
      BY <1>2, <2>2, <2>4, <3>1
  <2>5. QED
    BY <2>3, <2>4
<1>5. QED
  BY <1>3, <1>4
\* Nothing is queued before the receiver has connected, and the queue leads to
\* the lists.
QueueInv ==
  /\ ~m_initFinished => sub = "none"
  /\ sub # "live" => feed = <<>>
  /\ FeedLeadsToLists

\* A step that emits nothing and changes no list keeps QueueInv.
LEMMA QueueUntouched ==
  ASSUME TypeOK, QueueInv, UNCHANGED <<queue, sub, view>>, Cached' = Cached,
         m_initFinished => m_initFinished'
  PROVE  QueueInv'
  BY DEF QueueInv, FeedLeadsToLists, queue

\* A step that emits only signals that list nothing keeps QueueInv.
LEMMA QueueOther ==
  ASSUME TypeOK, QueueInv, NEW msgs \in Seq(Signal), Emit(msgs),
         \A i \in DOMAIN msgs : ~Listing(msgs[i]),
         UNCHANGED <<sub, view, m_initFinished>>, Cached' = Cached
  PROVE  QueueInv'
<1>1. missed' = missed
  BY DEF Emit
<1>2. \A x : KnownAfter(feed \o msgs, view, x) <=> KnownAfter(feed, view, x)
  <2> SUFFICES ASSUME NEW x
               PROVE  KnownAfter(feed \o msgs, view, x) <=> KnownAfter(feed, view, x)
    OBVIOUS
  <2>1. \A i \in DOMAIN msgs : ~Changes(msgs[i], x)
    BY DEF Changes
  <2>2. QED
    BY <2>1, KnownAfterOther DEF TypeOK
<1>3. QED
  BY <1>1, <1>2 DEF QueueInv, FeedLeadsToLists, Emit

\* The same for one signal.
LEMMA QueueOtherOne ==
  ASSUME TypeOK, QueueInv, NEW m \in Signal, Emit(<<m>>), m.sig \in OtherSignal,
         UNCHANGED <<sub, view, m_initFinished>>, Cached' = Cached
  PROVE  QueueInv'
<1>1. ~Listing(m)
  BY DEF Listing, OtherSignal, AddSignal, RemoveSignal
<1>2. <<m>> \in Seq(Signal) /\ \A i \in DOMAIN <<m>> : ~Listing(<<m>>[i])
  BY <1>1
<1>3. QED
  BY <1>2, QueueOther

\* A step that lists or unlists x and says so keeps QueueInv.
LEMMA QueueListing ==
  ASSUME TypeOK, QueueInv, NEW m \in Signal, Emit(<<m>>), Listing(m),
         UNCHANGED <<sub, view, m_initFinished>>,
         Cached' = IF m.sig \in AddSignal THEN Cached \cup {m.obj} ELSE Cached \ {m.obj}
  PROVE  QueueInv'
<1>1. \A x : x # m.obj => (x \in Cached' <=> x \in Cached)
  OBVIOUS
<1>2. CASE sub = "live"
  <2>1. feed' = feed \o <<m>> /\ missed' = missed /\ <<m>> \in Seq(Signal)
    BY <1>2 DEF Emit
  <2>2. ASSUME NEW x \in Object \ missed
        PROVE  KnownAfter(feed', view, x) <=> x \in Cached'
    <3>1. CASE x = m.obj
      <4>1. KnownAfter(feed', view, x) <=> m.sig \in AddSignal
        BY <2>1, <3>1, KnownAfterLast DEF Changes, TypeOK
      <4>2. QED
        BY <3>1, <4>1
    <3>2. CASE x # m.obj
      <4>1. KnownAfter(feed', view, x) <=> KnownAfter(feed, view, x)
        <5>1. \A i \in DOMAIN <<m>> : ~Changes(<<m>>[i], x)
          BY <3>2 DEF Changes
        <5>2. feed \in Seq(Signal)
          BY DEF TypeOK
        <5>3. QED
          BY <2>1, <5>1, <5>2, KnownAfterOther
      <4>2. QED
        BY <1>1, <1>2, <3>2, <4>1 DEF QueueInv, FeedLeadsToLists
    <3>3. QED
      BY <3>1, <3>2
  <2>3. QED
    BY <1>2, <2>1, <2>2 DEF QueueInv, FeedLeadsToLists
<1>3. CASE sub = "read"
  <2>1. feed' = feed /\ missed' = missed \cup {m.obj}
    BY <1>3 DEF Emit
  <2>2. QED
    BY <1>1, <1>3, <2>1 DEF QueueInv, FeedLeadsToLists
<1>4. CASE sub = "none"
  BY <1>4 DEF QueueInv, FeedLeadsToLists, Emit
<1>5. QED
  BY <1>2, <1>3, <1>4 DEF TypeOK

\* What is listed is what NetworkManager has, named.
LEMMA CachedChange ==
  ASSUME TypeOK
  PROVE  /\ \A d \in Device : m_devices' = [m_devices EXCEPT ![d] = 1]
              /\ UNCHANGED <<m_connections, m_activeConns>> => Cached' = Cached \cup {d}
         /\ \A c \in Conn : m_connections' = [m_connections EXCEPT ![c] = 1]
              /\ UNCHANGED <<m_devices, m_activeConns>> => Cached' = Cached \cup {c}
         /\ \A a \in Active : m_activeConns' = [m_activeConns EXCEPT ![a] = 1]
              /\ UNCHANGED <<m_devices, m_connections>> => Cached' = Cached \cup {a}
         /\ \A d \in Device : m_devices[d] = 1 /\ m_devices' = [m_devices EXCEPT ![d] = @ - 1]
              /\ UNCHANGED <<m_connections, m_activeConns>> => Cached' = Cached \ {d}
         /\ \A c \in Conn : m_connections[c] = 1 /\ m_connections' = [m_connections EXCEPT ![c] = @ - 1]
              /\ UNCHANGED <<m_devices, m_activeConns>> => Cached' = Cached \ {c}
         /\ \A a \in Active : m_activeConns[a] = 1 /\ m_activeConns' = [m_activeConns EXCEPT ![a] = @ - 1]
              /\ UNCHANGED <<m_devices, m_connections>> => Cached' = Cached \ {a}
         /\ UNCHANGED <<m_devices, m_connections, m_activeConns>> => Cached' = Cached
<1> USE ConstantsAssumption DEF TypeOK, Cached
<1>1. ASSUME NEW d \in Device, m_devices' = [m_devices EXCEPT ![d] = 1],
             UNCHANGED <<m_connections, m_activeConns>>
      PROVE  Cached' = Cached \cup {d}
  BY <1>1
<1>2. ASSUME NEW c \in Conn, m_connections' = [m_connections EXCEPT ![c] = 1],
             UNCHANGED <<m_devices, m_activeConns>>
      PROVE  Cached' = Cached \cup {c}
  BY <1>2
<1>3. ASSUME NEW a \in Active, m_activeConns' = [m_activeConns EXCEPT ![a] = 1],
             UNCHANGED <<m_devices, m_connections>>
      PROVE  Cached' = Cached \cup {a}
  BY <1>3
<1>4. ASSUME NEW d \in Device, m_devices[d] = 1, m_devices' = [m_devices EXCEPT ![d] = @ - 1],
             UNCHANGED <<m_connections, m_activeConns>>
      PROVE  Cached' = Cached \ {d}
  BY <1>4
<1>5. ASSUME NEW c \in Conn, m_connections[c] = 1,
             m_connections' = [m_connections EXCEPT ![c] = @ - 1],
             UNCHANGED <<m_devices, m_activeConns>>
      PROVE  Cached' = Cached \ {c}
  BY <1>5
<1>6. ASSUME NEW a \in Active, m_activeConns[a] = 1,
             m_activeConns' = [m_activeConns EXCEPT ![a] = @ - 1],
             UNCHANGED <<m_devices, m_connections>>
      PROVE  Cached' = Cached \ {a}
  BY <1>6
<1>7. UNCHANGED <<m_devices, m_connections, m_activeConns>> => Cached' = Cached
  OBVIOUS
<1>8. QED
  BY <1>1, <1>2, <1>3, <1>4, <1>5, <1>6, <1>7

\* onDeviceRemoved keeps QueueInv.
LEMMA QueueDevice ==
  ASSUME TypeOK, ListsInv, QueueInv, m_initFinished, NEW d \in Device, ForgetDevice(d),
         UNCHANGED <<sub, view, m_initFinished, m_connections, m_activeConns>>
  PROVE  QueueInv'
<1>1. CASE m_devices[d] > 0
  <2>1. m_devices[d] = 1
    BY <1>1 DEF ListsInv, One
  <2>2. Cached' = Cached \ {d}
    BY <1>1, <2>1, CachedChange DEF ForgetDevice
  <2>3. AboutDevice("deviceRemove", d) \in Signal
    BY SignalTypes DEF RemoveSignal
  <2>4. QED
    BY <1>1, <2>2, <2>3, QueueListing
       DEF ForgetDevice, AboutDevice, Listing, AddSignal, RemoveSignal
<1>2. CASE ~(m_devices[d] > 0)
  BY <1>2, QueueUntouched, CachedChange DEF ForgetDevice, queue
<1>3. QED
  BY <1>1, <1>2

\* onActiveConnectionRemoved keeps QueueInv.
LEMMA QueueActive ==
  ASSUME TypeOK, ListsInv, QueueInv, m_initFinished, NEW a \in Active, ForgetActive(a),
         UNCHANGED <<sub, view, m_initFinished, m_connections, m_devices>>
  PROVE  QueueInv'
<1>1. CASE m_activeConns[a] > 0
  <2>1. m_activeConns[a] = 1
    BY <1>1 DEF ListsInv, One
  <2>2. Cached' = Cached \ {a}
    BY <1>1, <2>1, CachedChange DEF ForgetActive
  <2>3. About("activeConnectionRemove", a) \in Signal
    BY SignalTypes DEF RemoveSignal
  <2>4. QED
    BY <1>1, <2>2, <2>3, QueueListing
       DEF ForgetActive, About, Listing, AddSignal, RemoveSignal
<1>2. CASE ~(m_activeConns[a] > 0)
  BY <1>2, QueueUntouched, CachedChange DEF ForgetActive, queue
<1>3. QED
  BY <1>1, <1>2

\* removeConnection(pos) keeps QueueInv.
LEMMA QueueConnection ==
  ASSUME TypeOK, ListsInv, QueueInv, m_initFinished, NEW c \in Conn, m_connections[c] > 0,
         TakeConnection(c), UNCHANGED <<sub, view, m_initFinished, m_devices, m_activeConns>>
  PROVE  QueueInv'
<1>1. m_connections[c] = 1
  BY DEF ListsInv, ConnectionsInv, One
<1>2. Cached' = Cached \ {c}
  BY <1>1, CachedChange DEF TakeConnection
<1>3. About("connectionRemove", c) \in Signal
  BY SignalTypes DEF RemoveSignal
<1>4. QED
  BY <1>2, <1>3, QueueListing DEF TakeConnection, About, Listing, AddSignal, RemoveSignal

\* Every step keeps QueueInv.
LEMMA QueueStep ==
  ASSUME TypeOK, ListsInv, QueueInv, [Next]_vars
  PROVE  QueueInv'
<1> USE DEF library, lists, loop, Quiet, InNM
<1>1. CASE OnInitNetwork
  <2>1. sub = "none" /\ sub' = sub /\ feed' = feed
    BY <1>1 DEF OnInitNetwork, QueueInv, queue
  <2>2. QED
    BY <1>1, <2>1 DEF OnInitNetwork, QueueInv, FeedLeadsToLists
<1>2. ASSUME NEW d \in Device, NEW n \in Name, NEW have \in SUBSET Ssid, OnDeviceAdded(d, n, have)
      PROVE  QueueInv'
  <2> DEFINE m == [sig |-> "deviceAdd", obj |-> d, arg |-> <<n, "name">>]
  <2>1. m_devices[d] = 0
    BY <1>2 DEF OnDeviceAdded, ListsInv, One
  <2>2. m_devices' = [m_devices EXCEPT ![d] = 1] /\ Emit(<<m>>)
    BY <1>2, <2>1 DEF OnDeviceAdded
  <2>3. Cached' = Cached \cup {d}
    BY <1>2, <2>2, CachedChange DEF OnDeviceAdded
  <2>4. m \in Signal /\ Listing(m) /\ m.sig \in AddSignal /\ m.obj = d
    BY SignalTypes DEF AddSignal, Listing
  <2>5. QED
    BY <1>2, <2>2, <2>3, <2>4, QueueListing DEF OnDeviceAdded
<1>3. ASSUME NEW d \in Device, OnDeviceRemoved(d)
      PROVE  QueueInv'
  BY <1>3, QueueDevice DEF OnDeviceRemoved
<1>4. ASSUME NEW d \in Device, NEW n \in Name, OnDeviceUpdated(d, n)
      PROVE  QueueInv'
  <2>1. [sig |-> "deviceUpdate", obj |-> d, arg |-> <<n, "name">>] \in Signal
    BY SignalTypes DEF OtherSignal
  <2>2. QED
    BY <1>4, <2>1, QueueOtherOne, CachedChange DEF OnDeviceUpdated, OtherSignal
<1>5. ASSUME NEW net \in Network, OnWifiNetworkAppeared(net)
      PROVE  QueueInv'
  <2> DEFINE msgs == <<AboutNetwork("wifiNetworkAdded", net), AboutDevice("deviceUpdate", net[1])>>
  <2>1. msgs \in Seq(Signal)
    BY SignalTypes DEF OtherSignal
  <2>2. \A i \in DOMAIN msgs : ~Listing(msgs[i])
    BY DEF AboutNetwork, AboutDevice, Listing, AddSignal, RemoveSignal
  <2>3. QED
    BY <1>5, <2>1, <2>2, QueueOther, CachedChange DEF OnWifiNetworkAppeared
<1>6. ASSUME NEW net \in Network, OnWifiNetworkUpdate(net)
      PROVE  QueueInv'
  <2>1. DeviceDisappear \in Signal /\ AboutNetwork("wifiNetworkPropertyChange", net) \in Signal
    BY SignalTypes DEF OtherSignal
  <2>2. /\ DeviceDisappear.sig \in OtherSignal
        /\ AboutNetwork("wifiNetworkPropertyChange", net).sig \in OtherSignal
    BY DEF DeviceDisappear, About, AboutNetwork, OtherSignal
  <2>3. QED
    BY <1>6, <2>1, <2>2, QueueOtherOne, CachedChange DEF OnWifiNetworkUpdate
<1>7. ASSUME NEW net \in Network, NEW first \in BOOLEAN, OnWifiNetworkDisappeared(net, first)
      PROVE  QueueInv'
  <2> DEFINE Unlisting == {m \in Signal : ~Listing(m)}
  <2>1. \A e, f : Removed(net, e, f) \in Seq(Unlisting)
    <3>1. AboutNetwork("wifiNetworkRemoved", net) \in Unlisting
      BY SignalTypes DEF AboutNetwork, OtherSignal, Listing, AddSignal, RemoveSignal
    <3>2. QED
      BY <3>1 DEF Removed
  <2>2. <<AboutDevice("deviceUpdate", net[1])>> \in Seq(Unlisting)
    <3>1. AboutDevice("deviceUpdate", net[1]) \in Unlisting
      BY SignalTypes DEF AboutDevice, OtherSignal, Listing, AddSignal, RemoveSignal
    <3>2. QED
      BY <3>1
  <2>3. \E msgs \in Seq(Unlisting) : Emit(msgs)
    <3> DEFINE e0 == m_wifiNets[net]
               e1 == IF first THEN RemoveFound(e0) ELSE RemoveSender(e0)
               e2 == IF first THEN IF e1.live < e0.live THEN e1 ELSE RemoveSender(e1)
                              ELSE RemoveFound(e1)
               update == <<AboutDevice("deviceUpdate", net[1])>>
               msgs == IF first
                         THEN Removed(net, e0, e1) \o update \o Removed(net, e1, e2)
                         ELSE Removed(net, e0, e1) \o Removed(net, e1, e2) \o update
    <3>1. msgs \in Seq(Unlisting)
      <4>1. /\ Removed(net, e0, e1) \in Seq(Unlisting) /\ Removed(net, e1, e2) \in Seq(Unlisting)
            /\ update \in Seq(Unlisting)
        BY <2>1, <2>2
      <4>2. QED
        BY <4>1
    <3>2. Emit(msgs)
      BY <1>7 DEF OnWifiNetworkDisappeared
    <3>3. QED
      BY <3>1, <3>2
  <2>4. PICK msgs \in Seq(Unlisting) : Emit(msgs)
    BY <2>3
  <2>5. msgs \in Seq(Signal) /\ \A i \in DOMAIN msgs : ~Listing(msgs[i])
    OBVIOUS
  <2>6. QED
    BY <1>7, <2>4, <2>5, QueueOther, CachedChange DEF OnWifiNetworkDisappeared
<1>8. ASSUME NEW c \in Conn, OnConnectionAdded(c)
      PROVE  QueueInv'
  <2>1. CASE c \in Unnamed
    BY <1>8, <2>1, QueueUntouched, CachedChange DEF OnConnectionAdded, queue
  <2>2. CASE c \notin Unnamed
    <3>1. m_connections[c] = 0
      BY <1>8, <2>2 DEF OnConnectionAdded, ListsInv, ConnectionsInv, One
    <3>2. Cached' = Cached \cup {c}
      BY <1>8, <2>2, <3>1, CachedChange DEF OnConnectionAdded
    <3>3. About("connectionAdd", c) \in Signal
      BY SignalTypes DEF AddSignal
    <3>4. QED
      BY <1>8, <2>2, <3>1, <3>2, <3>3, QueueListing
         DEF OnConnectionAdded, About, Listing, AddSignal
  <2>3. QED
    BY <2>1, <2>2
<1>9. ASSUME NEW c \in Conn, OnConnectionRemoved(c)
      PROVE  QueueInv'
  BY <1>9, QueueConnection, QueueUntouched, CachedChange DEF OnConnectionRemoved, queue
<1>10. ASSUME NEW c \in Conn, OnConnectionUpdated(c)
       PROVE  QueueInv'
  <2>1. About("connectionUpdate", c) \in Signal
    BY SignalTypes DEF OtherSignal
  <2>2. QED
    BY <1>10, <2>1, QueueOtherOne, CachedChange DEF OnConnectionUpdated, About, OtherSignal
<1>11. ASSUME NEW a \in Active, OnActiveConnectionAdded(a)
       PROVE  QueueInv'
  <2>1. m_activeConns[a] = 0
    BY <1>11 DEF OnActiveConnectionAdded, ListsInv, One
  <2>2. Cached' = Cached \cup {a}
    BY <1>11, <2>1, CachedChange DEF OnActiveConnectionAdded
  <2>3. About("activeConnectionAdd", a) \in Signal
    BY SignalTypes DEF AddSignal
  <2>4. QED
    BY <1>11, <2>1, <2>2, <2>3, QueueListing
       DEF OnActiveConnectionAdded, About, Listing, AddSignal
<1>12. ASSUME NEW a \in Active, OnActiveConnectionRemoved(a)
       PROVE  QueueInv'
  BY <1>12, QueueActive DEF OnActiveConnectionRemoved
<1>13. ASSUME NEW a \in Active, OnActiveConnectionChanged(a)
       PROVE  QueueInv'
  <2>1. About("activeConnectStateChangeReason", a) \in Signal
    BY SignalTypes DEF OtherSignal
  <2>2. QED
    BY <1>13, <2>1, QueueOtherOne, CachedChange DEF OnActiveConnectionChanged, About, OtherSignal
<1>14. CASE ServiceDisappears \/ OnServiceAppear \/ InsertTimeout \/ InsertDone
               \/ ServiceDisappeared \/ ClearWifiNetworks
  BY <1>14, QueueUntouched, CachedChange
     DEF ServiceDisappears, OnServiceAppear, InsertTimeout, InsertDone, ServiceDisappeared,
         ClearWifiNetworks
<1>15. ASSUME NEW d \in Device, LoseDevice(d)
       PROVE  QueueInv'
  BY <1>15, QueueDevice DEF LoseDevice, ListsInv
<1>16. ASSUME NEW a \in Active, LoseActive(a)
       PROVE  QueueInv'
  BY <1>16, QueueActive DEF LoseActive, ListsInv
<1>17. ASSUME NEW c \in Conn, ClearConnection(c)
       PROVE  QueueInv'
  BY <1>17, QueueConnection DEF ClearConnection, ListsInv
<1>18. ASSUME NEW net \in Network, InsertWifiNetwork(net)
       PROVE  QueueInv'
  <2>1. AddedByName(net) \in Signal
    BY SignalTypes DEF OtherSignal
  <2>2. QED
    BY <1>18, <2>1, QueueOtherOne, CachedChange DEF InsertWifiNetwork, AddedByName, OtherSignal
<1>19. CASE ReadLists
  <2>1. feed = <<>> /\ feed' = <<>> /\ view' = Cached /\ Cached' = Cached
    BY <1>19, CachedChange DEF ReadLists, QueueInv, queue
  <2>2. QED
    BY <1>19, <2>1 DEF ReadLists, QueueInv, FeedLeadsToLists, KnownAfter
<1>20. CASE Connect
  <2>1. Cached' = Cached
    BY <1>20, CachedChange DEF Connect
  <2>2. QED
    BY <1>20, <2>1 DEF Connect, QueueInv, FeedLeadsToLists, queue
<1>21. CASE Deliver
  <2>1. Cached' = Cached /\ sub = "live"
    BY <1>21, CachedChange DEF Deliver, QueueInv, TypeOK
  <2>2. \A x \in Object : KnownAfter(feed', view', x) <=> KnownAfter(feed, view, x)
    BY <1>21, KnownAfterHead DEF Deliver, TypeOK
  <2>3. QED
    BY <1>21, <2>1, <2>2 DEF Deliver, QueueInv, FeedLeadsToLists
<1>22. CASE UNCHANGED vars
  BY <1>22, QueueUntouched, CachedChange DEF vars
<1>23. QED
  BY <1>1, <1>2, <1>3, <1>4, <1>5, <1>6, <1>7, <1>8, <1>9, <1>10, <1>11, <1>12, <1>13,
     <1>14, <1>15, <1>16, <1>17, <1>18, <1>19, <1>20, <1>21, <1>22
     DEF Next, ManagerNext, LibraryEvent, Continue

\* The strengthened invariant of the queue.
LEMMA QueueInvariant == Spec => []QueueInv
<1>1. Init => QueueInv
  BY DEF Init, QueueInv, FeedLeadsToLists
<1>2. TypeOK /\ ListsInv /\ QueueInv /\ [Next]_vars => QueueInv'
  BY QueueStep
<1>3. QED
  BY <1>1, <1>2, TypeCorrect, ListsInvariant, PTL DEF Spec

\* Whatever NetworkManager does and however the threads interleave, a receiver
\* that handles its queue in order ends with the manager's lists.
THEOREM FeedCorrect == Spec => []FeedLeadsToLists
<1>1. QueueInv => FeedLeadsToLists
  BY DEF QueueInv
<1>2. QED
  BY <1>1, QueueInvariant, PTL

\* What a slot emits is queued for a receiver that has connected.
LEMMA EmittedIsSent ==
  ASSUME TypeOK, NEW msgs \in Seq(Signal), Emit(msgs), sub = "live", NEW i \in DOMAIN msgs
  PROVE  Sent(msgs[i])
<1>1. feed' = feed \o msgs /\ feed \in Seq(Signal)
  BY DEF Emit, TypeOK
<1>2. Len(feed) + i \in DOMAIN feed' /\ Len(feed) + i > Len(feed) /\ feed'[Len(feed) + i] = msgs[i]
  BY <1>1
<1>3. QED
  BY <1>2 DEF Sent

\* The two calls of a disappearing network: one of them takes an entry, and says so.
LEMMA DisappearedIsSent ==
  ASSUME TypeOK, NEW net \in Network, NEW first \in BOOLEAN,
         OnWifiNetworkDisappeared(net, first), sub = "live", m_wifiNets[net].live > 0
  PROVE  Sent(AboutNetwork("wifiNetworkRemoved", net))
<1> DEFINE e0 == m_wifiNets[net]
           e1 == IF first THEN RemoveFound(e0) ELSE RemoveSender(e0)
           e2 == IF first THEN IF e1.live < e0.live THEN e1 ELSE RemoveSender(e1)
                          ELSE RemoveFound(e1)
           gone   == AboutNetwork("wifiNetworkRemoved", net)
           update == AboutDevice("deviceUpdate", net[1])
           again  == Removed(net, e1, e2)
           msgs == IF first THEN Removed(net, e0, e1) \o <<update>> \o again
                            ELSE Removed(net, e0, e1) \o again \o <<update>>
<1>1. Emit(msgs)
  BY DEF OnWifiNetworkDisappeared
<1>2. gone \in Signal /\ update \in Signal
  BY SignalTypes DEF OtherSignal
<1>3. e0 # e1
  <2>1. e0 \in [live : Nat, dead : Nat] /\ e0.live > 0
    BY DEF TypeOK
  <2> HIDE DEF e0
  <2>2. QED
    BY <2>1 DEF RemoveFound, RemoveSender, FirstEntry
<1>4. Removed(net, e0, e1) = <<gone>>
  BY <1>3 DEF Removed
<1>5. again \in Seq(Signal)
  BY <1>2 DEF Removed
<1> HIDE DEF again, gone, update
<1>6. msgs \in Seq(Signal) /\ 1 \in DOMAIN msgs /\ msgs[1] = gone
  <2>1. \A s, t \in Seq(Signal) : LET f == <<gone>> \o s \o t IN
          f \in Seq(Signal) /\ 1 \in DOMAIN f /\ f[1] = gone
    BY <1>2
  <2>2. msgs = IF first THEN <<gone>> \o <<update>> \o again ELSE <<gone>> \o again \o <<update>>
    BY <1>4
  <2>3. <<update>> \in Seq(Signal)
    BY <1>2
  <2> HIDE DEF msgs
  <2>4. QED
    BY <1>5, <2>1, <2>2, <2>3
<1> HIDE DEF msgs
<1>7. Sent(msgs[1])
  BY <1>1, <1>6, EmittedIsSent
<1>8. QED
  BY <1>6, <1>7 DEF gone

\* A network that loses its last live entry does so in a step that sends a signal
\* of it or of its device.
LEMMA LossIsSent ==
  ASSUME TypeOK, ListsInv, NetsInv, [Next]_vars, NEW net \in Network, sub = "live",
         m_initFinished, m_wifiNets[net].live > 0, m_wifiNets'[net].live = 0
  PROVE  \/ Sent(AboutNetwork("wifiNetworkRemoved", net))
         \/ Sent(AboutDevice("deviceRemove", net[1]))
<1>1. ASSUME NEW d \in Device, OnDeviceRemoved(d) \/ LoseDevice(d)
      PROVE  Sent(AboutDevice("deviceRemove", net[1]))
  <2>1. ForgetDevice(d)
    BY <1>1 DEF OnDeviceRemoved, LoseDevice
  <2>2. net \in {d} \X Ssid
    BY <2>1 DEF ForgetDevice, Orphaned
  <2>3. net[1] = d /\ d \in nmDevice
    BY <2>2 DEF NetsInv
  <2>4. m_devices[d] > 0
    BY <2>3 DEF ListsInv, One
  <2>5. Emit(<<AboutDevice("deviceRemove", d)>>)
    BY <2>1, <2>4 DEF ForgetDevice
  <2>6. AboutDevice("deviceRemove", d) \in Signal
    BY SignalTypes DEF RemoveSignal
  <2> DEFINE msgs == <<AboutDevice("deviceRemove", d)>>
  <2>7. msgs \in Seq(Signal) /\ 1 \in DOMAIN msgs /\ msgs[1] = AboutDevice("deviceRemove", d)
    BY <2>6
  <2>8. QED
    BY <2>3, <2>5, <2>7, EmittedIsSent
<1>2. ASSUME NEW other \in Network, NEW first \in BOOLEAN, OnWifiNetworkDisappeared(other, first)
      PROVE  Sent(AboutNetwork("wifiNetworkRemoved", net))
  <2>1. other = net
    <3> DEFINE e0 == m_wifiNets[other]
               e1 == IF first THEN RemoveFound(e0) ELSE RemoveSender(e0)
               e2 == IF first THEN IF e1.live < e0.live THEN e1 ELSE RemoveSender(e1)
                              ELSE RemoveFound(e1)
    <3>1. m_wifiNets' = Orphaned([m_wifiNets EXCEPT ![other] = e2], {other})
      BY <1>2 DEF OnWifiNetworkDisappeared
    <3> HIDE DEF e2
    <3>2. QED
      BY <3>1 DEF Orphaned, TypeOK
  <2>2. QED
    BY <1>2, <2>1, DisappearedIsSent
<1>3. ASSUME NEW other \in Network, OnWifiNetworkAppeared(other) \/ InsertWifiNetwork(other)
      PROVE  FALSE
  <2>1. m_wifiNets \in [Network -> [live : Nat, dead : Nat]]
    BY DEF TypeOK
  <2>2. m_wifiNets' = [m_wifiNets EXCEPT ![other].live = 1]
          \/ m_wifiNets' = [m_wifiNets EXCEPT ![other].live = @ + 1] \/ m_wifiNets' = m_wifiNets
    BY <1>3 DEF OnWifiNetworkAppeared, InsertWifiNetwork
  <2>3. m_wifiNets'[net].live = 1 \/ m_wifiNets'[net].live = m_wifiNets[net].live + 1
          \/ m_wifiNets'[net].live = m_wifiNets[net].live
    BY <2>1, <2>2
  <2>4. m_wifiNets[net].live \in Nat
    BY <2>1
  <2>5. QED
    BY <2>3, <2>4
<1>4. CASE ClearWifiNetworks
  BY <1>4 DEF ClearWifiNetworks, NetsInv
<1>5. CASE m_wifiNets' = m_wifiNets
  BY <1>5
<1>6. QED
  BY <1>1, <1>2, <1>3, <1>4, <1>5
     DEF Next, ManagerNext, LibraryEvent, Continue, lists, vars, OnInitNetwork, OnDeviceAdded,
         OnDeviceUpdated, OnWifiNetworkUpdate, OnConnectionAdded, OnConnectionRemoved,
         OnConnectionUpdated, OnActiveConnectionAdded, OnActiveConnectionRemoved,
         OnActiveConnectionChanged, ServiceDisappears, OnServiceAppear, LoseActive,
         ServiceDisappeared, ClearConnection, InsertTimeout, InsertDone, ReadLists, Connect, Deliver

\* The main thread is told of every network that loses its last entry: nothing is
\* lost in silence, whichever of the two calls of a disappearing network comes
\* first, and also when the service stops.
THEOREM LossIsAnnounced == Spec => LossAnnounced
<1>1. TypeOK /\ ListsInv /\ NetsInv /\ QueueInv /\ [Next]_vars =>
        [\A net \in Network :
           (sub = "live" /\ m_wifiNets[net].live > 0 /\ m_wifiNets'[net].live = 0)
             => \/ Sent(AboutNetwork("wifiNetworkRemoved", net))
                \/ Sent(AboutDevice("deviceRemove", net[1]))]_vars
  BY LossIsSent DEF QueueInv
<1>2. QED
  BY <1>1, TypeCorrect, ListsInvariant, NetsInvariant, QueueInvariant, PTL DEF Spec, LossAnnounced
=============================================================================
