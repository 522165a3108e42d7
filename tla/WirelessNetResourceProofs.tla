--------------------- MODULE WirelessNetResourceProofs ---------------------
(***************************************************************************)
(* The main thread's copy of the wifi networks, for every set of devices,  *)
(* names, networks and profiles, and every length of the queue.            *)
(*                                                                         *)
(* The copy is keyed by interface name, and its handlers look up the lists *)
(* of the manager, which are ahead of the queue.  What an item means       *)
(* depends on the names the signals still queued will tell of.  So the     *)
(* invariants speak of a history h: the names after each signal queued,    *)
(* from those the copy has (h[0]) to those the devices have (Told).  A     *)
(* step of the manager prolongs it, a handler takes its first element.     *)
(*                                                                         *)
(* Along the history, ShownInv says where a listed network is: shown under *)
(* its name, or in a signal to come; GhostInv bounds the items shown under *)
(* a name that nobody leaves any more by the entries of the device that    *)
(* has it and the removals still queued; ConfInv says what a configured    *)
(* item may be waiting for.                                                *)
(***************************************************************************)
EXTENDS WirelessNetResource, NetworkResourceManagerProofs, FiniteSetTheorems,
        WellFoundedInduction

USE DEF Object, Network

-----------------------------------------------------------------------------
(* Signals.                                                                *)

Added(n, s)     == [sig |-> "wifiNetworkAdded", obj |-> NoObject, arg |-> <<n, s>>]
RemovedOf(n, s) == [sig |-> "wifiNetworkRemoved", obj |-> NoObject, arg |-> <<n, Text[s]>>]

\* What the handlers take for granted of a signal.
WellFormed(m) ==
  /\ m.sig \in DeviceSignal => m.obj \in Device /\ m.arg \in Name \X {"name"}
  /\ m.sig = "wifiNetworkAdded" =>
       m.obj = NoObject /\ m.arg \in Name \X (Ssid \cup {Text[s] : s \in Ssid})
  /\ m.sig = "wifiNetworkRemoved" =>
       m.obj = NoObject /\ m.arg \in Name \X {Text[s] : s \in Ssid}
  /\ m.sig \in {"connectionAdd", "connectionRemove", "connectionUpdate"} => m.obj \in Conn

FineSignal == {m \in Signal : WellFormed(m)}

\* The signals the slots build are well formed.
LEMMA FineSignals ==
  ASSUME TypeOK
  PROVE  /\ DeviceDisappear \in FineSignal
         /\ \A c \in Conn, sig \in {"connectionAdd", "connectionRemove", "connectionUpdate"} :
              About(sig, c) \in FineSignal
         /\ \A a \in Active, sig \in {"activeConnectionAdd", "activeConnectionRemove",
                                      "activeConnectStateChangeReason"} :
              About(sig, a) \in FineSignal
         /\ \A d \in Device, n \in Name, sig \in DeviceSignal :
              [sig |-> sig, obj |-> d, arg |-> <<n, "name">>] \in FineSignal
         /\ \A d \in Device, sig \in DeviceSignal : AboutDevice(sig, d) \in FineSignal
         /\ \A net \in Network, sig \in {"wifiNetworkAdded", "wifiNetworkRemoved",
                                         "wifiNetworkPropertyChange"} :
              AboutNetwork(sig, net) \in FineSignal
         /\ \A net \in Network : AddedByName(net) \in FineSignal
<1> USE SignalTypes DEF FineSignal, WellFormed, DeviceSignal, AddSignal, RemoveSignal, OtherSignal
<1>1. DeviceDisappear \in FineSignal
  BY DEF DeviceDisappear, About
<1>2. \A c \in Conn, sig \in {"connectionAdd", "connectionRemove", "connectionUpdate"} :
        About(sig, c) \in FineSignal
  BY DEF About
<1>3. \A a \in Active, sig \in {"activeConnectionAdd", "activeConnectionRemove",
                                "activeConnectStateChangeReason"} : About(sig, a) \in FineSignal
  BY DEF About
<1>4. \A d \in Device, n \in Name, sig \in DeviceSignal :
        [sig |-> sig, obj |-> d, arg |-> <<n, "name">>] \in FineSignal
  OBVIOUS
<1>5. \A d \in Device : nmName[d] \in Name
  BY DEF TypeOK
<1>6. \A d \in Device, sig \in DeviceSignal : AboutDevice(sig, d) \in FineSignal
  BY <1>4, <1>5 DEF AboutDevice
<1>7. \A net \in Network, sig \in {"wifiNetworkAdded", "wifiNetworkRemoved",
                                   "wifiNetworkPropertyChange"} :
        AboutNetwork(sig, net) \in FineSignal
  BY <1>5 DEF AboutNetwork
<1>8. \A net \in Network : AddedByName(net) \in FineSignal
  BY <1>5 DEF AddedByName
<1>9. QED
  BY <1>1, <1>2, <1>3, <1>4, <1>6, <1>7, <1>8

-----------------------------------------------------------------------------
(* The signals that are kept while the networks are not connected yet.     *)

LEMMA LeastNatural ==
  ASSUME NEW T, T \subseteq Nat, T # {}
  PROVE  \E x \in T : \A y \in T : x <= y
<1>1. PICK x \in T : \A y \in T : ~(<<y, x>> \in OpToRel(<, Nat))
  BY NatLessThanWellFounded, WFMin, Zenon
<1>2. \A y \in T : ~(y < x)
  BY <1>1 DEF OpToRel
<1>3. \A y \in T : y \in Nat
  OBVIOUS
<1>4. QED
  BY <1>2, <1>3

\* The recursive function of OfDevices, up to k.
Picking(only, k, f) ==
  only = [i \in 0..k |-> IF i = 0 THEN <<>>
                         ELSE IF f[i].sig \in DeviceSignal THEN Append(only[i - 1], f[i])
                         ELSE only[i - 1]]

LEMMA PickingExists == ASSUME NEW f, NEW k \in Nat PROVE \E only : Picking(only, k, f)
<1> DEFINE without == {n \in Nat : ~\E only : Picking(only, n, f)}
<1>1. SUFFICES ASSUME without # {} PROVE FALSE
  OBVIOUS
<1>2. without \subseteq Nat
  OBVIOUS
<1> HIDE DEF without
<1>3. PICK n \in without : \A m \in without : n <= m
  BY <1>1, <1>2, LeastNatural
<1>4. n \in Nat /\ ~\E only : Picking(only, n, f)
  BY <1>3 DEF without
<1>5. n # 0
  <2>1. Picking([i \in 0..0 |-> <<>>], 0, f)
    <3>1. \A i \in 0..0 : i = 0
      OBVIOUS
    <3>2. QED
      BY <3>1 DEF Picking
  <2>2. QED
    BY <1>4, <2>1
<1>6. PICK p : Picking(p, n - 1, f)
  <2>1. n - 1 \in Nat /\ ~(n <= n - 1)
    BY <1>4, <1>5
  <2>2. n - 1 \notin without
    BY <1>3, <2>1
  <2>3. QED
    BY <2>1, <2>2 DEF without
<1> DEFINE last == IF f[n].sig \in DeviceSignal THEN Append(p[n - 1], f[n]) ELSE p[n - 1]
           g == [i \in 0..n |-> IF i = n THEN last ELSE p[i]]
<1>7. p[0] = <<>>
      /\ \A i \in 1..n - 1 :
           p[i] = IF f[i].sig \in DeviceSignal THEN Append(p[i - 1], f[i]) ELSE p[i - 1]
  <2>1. 0 \in 0..n - 1 /\ \A i \in 1..n - 1 : i \in 0..n - 1 /\ i # 0
    BY <1>4, <1>5
  <2>2. QED
    BY <1>6, <2>1 DEF Picking
<1>8. \A i \in 0..n : g[i] = IF i = n THEN last ELSE p[i]
  OBVIOUS
<1>9. g = [i \in 0..n |-> g[i]]
  OBVIOUS
<1> HIDE DEF g, last
<1>10. g[0] = <<>>
  BY <1>4, <1>5, <1>7, <1>8
<1>11. ASSUME NEW i \in 1..n
       PROVE  g[i] = IF f[i].sig \in DeviceSignal THEN Append(g[i - 1], f[i]) ELSE g[i - 1]
  <2>1. i \in 0..n /\ i - 1 \in 0..n /\ i - 1 # n
    BY <1>4
  <2>2. g[i - 1] = p[i - 1]
    BY <1>8, <2>1
  <2>3. CASE i = n
    BY <1>8, <2>1, <2>2, <2>3 DEF last
  <2>4. CASE i # n
    <3>1. i \in 1..n - 1
      BY <1>4, <2>4
    <3>2. QED
      BY <1>7, <1>8, <2>1, <2>2, <2>4, <3>1
  <2>5. QED
    BY <2>3, <2>4
<1>12. Picking(g, n, f)
  <2>1. \A i \in 0..n : g[i] = IF i = 0 THEN <<>>
                               ELSE IF f[i].sig \in DeviceSignal THEN Append(g[i - 1], f[i])
                               ELSE g[i - 1]
    <3>1. \A i \in 0..n : i = 0 \/ i \in 1..n
      BY <1>4
    <3>2. QED
      BY <1>10, <1>11, <3>1
  <2>2. QED
    BY <1>9, <2>1 DEF Picking
<1>13. QED
  BY <1>4, <1>12

LEMMA OfDevicesType ==
  ASSUME NEW S, NEW f \in Seq(S)
  PROVE  OfDevices(f) \in Seq(S) /\ (f = <<>> => OfDevices(f) = <<>>)
<1> DEFINE only == CHOOSE only : Picking(only, Len(f), f)
<1>1. Len(f) \in Nat /\ \A i \in 1..Len(f) : f[i] \in S
  OBVIOUS
<1>2. OfDevices(f) = only[Len(f)]
  BY DEF OfDevices, Picking
<1>3. Picking(only, Len(f), f)
  <2>1. \E p : Picking(p, Len(f), f)
    BY <1>1, PickingExists
  <2>2. QED
    BY <2>1
<1> HIDE DEF only
<1>4. only[0] = <<>> /\ \A i \in 1..Len(f) :
        only[i] = IF f[i].sig \in DeviceSignal THEN Append(only[i - 1], f[i]) ELSE only[i - 1]
  <2>1. 0 \in 0..Len(f) /\ \A i \in 1..Len(f) : i \in 0..Len(f) /\ i # 0
    BY <1>1
  <2>2. QED
    BY <1>3, <2>1 DEF Picking
<1>5. only[Len(f)] \in Seq(S)
  <2> DEFINE Typed(i) == only[i] \in Seq(S)
             wrong == {i \in 0..Len(f) : ~Typed(i)}
  <2>0. Len(f) \in 0..Len(f)
    BY <1>1
  <2>10. SUFFICES Typed(Len(f))
    OBVIOUS
  <2> HIDE DEF Typed
  <2>1. SUFFICES ASSUME wrong # {} PROVE FALSE
    BY <2>0
  <2>2. wrong \subseteq Nat
    BY <1>1
  <2> HIDE DEF wrong
  <2>3. PICK i \in wrong : \A j \in wrong : i <= j
    BY <2>1, <2>2, LeastNatural
  <2>4. i \in 0..Len(f) /\ ~Typed(i)
    BY <2>3 DEF wrong
  <2>5. i # 0
    <3>1. Typed(0)
      BY <1>4 DEF Typed
    <3>2. QED
      BY <2>4, <3>1
  <2>6. i \in 1..Len(f) /\ i - 1 \in 0..Len(f) /\ ~(i <= i - 1)
    BY <1>1, <2>4, <2>5
  <2>7. only[i - 1] \in Seq(S)
    <3>1. i - 1 \notin wrong
      BY <2>3, <2>6
    <3>2. QED
      BY <2>6, <3>1 DEF wrong, Typed
  <2>8. Typed(i)
    <3>1. \A q \in Seq(S), x \in S : Append(q, x) \in Seq(S)
      BY AppendProperties
    <3>2. Append(only[i - 1], f[i]) \in Seq(S)
      BY <1>1, <2>6, <2>7, <3>1
    <3>3. only[i] = Append(only[i - 1], f[i]) \/ only[i] = only[i - 1]
      BY <1>4, <2>6
    <3>4. QED
      BY <2>7, <3>2, <3>3 DEF Typed
  <2>9. QED
    BY <2>4, <2>8
<1>6. f = <<>> => Len(f) = 0
  OBVIOUS
<1>7. QED
  BY <1>2, <1>4, <1>5, <1>6

-----------------------------------------------------------------------------
(* Names, and what a step of the manager reports of them.                  *)

\* Devices by the names they have, no two of them the same.
IsMap(m) ==
  /\ DOMAIN m \subseteq Device /\ m = [d \in DOMAIN m |-> m[d]]
  /\ \A d \in DOMAIN m : m[d] \in Name
  /\ \A d, e \in DOMAIN m : m[d] = m[e] => d = e

\* After the signal s the names m are the names k.
Tells(m, s, k) ==
  CASE s.sig = "deviceAdd"    -> s.obj \notin DOMAIN m /\ k = Put(m, s.obj, s.arg[1])
    [] s.sig = "deviceRemove" -> s.obj \in DOMAIN m /\ s.arg[1] = m[s.obj] /\ k = Drop(m, s.obj)
    [] s.sig = "deviceUpdate" -> /\ s.obj \in DOMAIN m /\ k = [m EXCEPT ![s.obj] = s.arg[1]]
                                 /\ s.arg[1] # m[s.obj] => s.obj \in Renamed
    [] OTHER                  -> k = m

NamesNow == [d \in nmDevice |-> nmName[d]]

Holds(m, d, n) == d \in DOMAIN m /\ m[d] = n

\* Whoever has the name n now was not renamed to it.
Own(n) == \A d \in nmDevice : nmName[d] = n => d \notin Renamed

\* The entries of the network s of the device that has the name n.
Bound(n, s) ==
  IF \E d \in nmDevice : nmName[d] = n
    THEN Entries(<<CHOOSE d \in nmDevice : nmName[d] = n, s>>) ELSE 0

Has(msgs, m)     == \E i \in DOMAIN msgs : msgs[i] = m
Rest(f, p, m)    == {i \in p + 1..Len(f) : f[i] = m}
CountOf(msgs, m) == Cardinality(Rest(msgs, 0, m))

Leaves(n) == \E d \in Device : Holds(NamesNow, d, n) /\ ~Holds(NamesNow', d, n)

\* A step that sends msgs tells of every name that changes, ...
TellsNames(msgs) ==
  /\ msgs = <<>> => NamesNow' = NamesNow
  /\ \A i \in DOMAIN msgs : Tells(IF i = 1 THEN NamesNow ELSE NamesNow', msgs[i], NamesNow')

\* ... of every network that is new and whose name is the text it is announced by, and
\* of none such as gone that is listed, ...
KeepsShown(msgs) ==
  \A net \in Network : net[1] \notin Renamed /\ Text[net[2]] = net[2]
                          /\ m_wifiNets'[net].live > 0 =>
    LET n == nmName'[net[1]] IN
      /\ ~Has(msgs, RemovedOf(n, net[2]))
      /\ (m_wifiNets[net].live > 0 /\ nmName[net[1]] = n) \/ Has(msgs, Added(n, net[2]))

\* ... of every entry that is gone, unless its device leaves the name, ...
KeepsBound(msgs) ==
  \A n \in Name, s \in Ssid : Own(n)' =>
    IF Leaves(n) THEN ~Has(msgs, Added(n, s))
    ELSE /\ Own(n) /\ Bound(n, s) <= Bound(n, s)' + CountOf(msgs, RemovedOf(n, s))
         /\ Has(msgs, Added(n, s)) => 1 <= Bound(n, s)'

\* ... and of every profile that is gone.
KeepsProfiles(msgs) ==
  \A c \in Conn : m_connections[c] > 0 =>
    m_connections'[c] > 0 \/ Has(msgs, About("connectionRemove", c))

Reports(msgs) ==
  /\ msgs \in Seq(FineSignal) /\ Emit(msgs)
  /\ TellsNames(msgs) /\ KeepsShown(msgs) /\ KeepsBound(msgs) /\ KeepsProfiles(msgs)

\* The names the devices have are a map.
LEMMA NamesAreMap ==
  ASSUME TypeOK, NetsInv
  PROVE  IsMap(NamesNow)
  BY DEF IsMap, NamesNow, NetsInv, TypeOK

\* The entries of a name are those of the one device that has it.
LEMMA BoundIs ==
  ASSUME TypeOK, NetsInv, NEW s \in Ssid
  PROVE  /\ \A n \in Name, d \in nmDevice : nmName[d] = n => Bound(n, s) = Entries(<<d, s>>)
         /\ \A n \in Name : (\A d \in nmDevice : nmName[d] # n) => Bound(n, s) = 0
         /\ \A n \in Name : Bound(n, s) \in Nat
<1>1. ASSUME NEW n \in Name, NEW d \in nmDevice, nmName[d] = n
      PROVE  Bound(n, s) = Entries(<<d, s>>)
  <2>1. (CHOOSE e \in nmDevice : nmName[e] = n) = d
    BY <1>1 DEF NetsInv
  <2>2. QED
    BY <1>1, <2>1 DEF Bound
<1>2. \A n \in Name : (\A d \in nmDevice : nmName[d] # n) => Bound(n, s) = 0
  BY DEF Bound
<1>3. \A d \in nmDevice : Entries(<<d, s>>) \in Nat
  <2>1. \A d \in nmDevice : <<d, s>> \in Network
    BY DEF TypeOK
  <2>2. QED
    BY <2>1 DEF Entries, TypeOK
<1>4. ASSUME NEW n \in Name PROVE Bound(n, s) \in Nat
  <2>1. CASE \E d \in nmDevice : nmName[d] = n
    BY <1>1, <1>3, <2>1
  <2>2. CASE \A d \in nmDevice : nmName[d] # n
    <3>1. Bound(n, s) = 0
      BY <1>2, <2>2
    <3>2. QED
      BY <3>1
  <2>3. QED
    BY <2>1, <2>2
<1>5. QED
  BY <1>1, <1>2, <1>4

\* The places of a signal in a queue are finite in number.
LEMMA RestType ==
  ASSUME NEW S, NEW f \in Seq(S), NEW p \in Nat, NEW m
  PROVE  IsFiniteSet(Rest(f, p, m)) /\ Cardinality(Rest(f, p, m)) \in Nat
<1>1. IsFiniteSet(p + 1..Len(f))
  BY FS_Interval
<1>2. Rest(f, p, m) \in SUBSET (p + 1..Len(f))
  BY DEF Rest
<1>3. IsFiniteSet(Rest(f, p, m))
  BY <1>1, <1>2, FS_Subset
<1>4. QED
  BY <1>3, FS_CardinalityType

\* A signal that is in a queue at one place, or at two.
LEMMA CountAtLeast ==
  ASSUME NEW S, NEW f \in Seq(S), NEW m
  PROVE  /\ CountOf(f, m) \in Nat
         /\ \A i \in DOMAIN f : f[i] = m => CountOf(f, m) >= 1
         /\ \A i, j \in DOMAIN f : i # j /\ f[i] = m /\ f[j] = m => CountOf(f, m) >= 2
<1> DEFINE R == Rest(f, 0, m)
<1>1. IsFiniteSet(R) /\ Cardinality(R) \in Nat
  BY RestType
<1>2. \A i \in DOMAIN f : f[i] = m => i \in R
  BY DEF Rest
<1> HIDE DEF R
<1>3. \A i \in R : Cardinality(R \ {i}) = Cardinality(R) - 1 /\ IsFiniteSet(R \ {i})
  BY <1>1, FS_RemoveElement
<1>4. \A T : IsFiniteSet(T) => Cardinality(T) \in Nat /\ (T # {} => Cardinality(T) # 0)
  BY FS_CardinalityType, FS_EmptySet
<1>5. \A i \in R : Cardinality(R) >= 1
  BY <1>1, <1>4
<1>6. ASSUME NEW i \in R, NEW j \in R, i # j PROVE Cardinality(R) >= 2
  <2>1. R \ {i} # {}
    BY <1>6
  <2>2. Cardinality(R \ {i}) \in Nat /\ Cardinality(R \ {i}) # 0
    BY <1>3, <1>4, <2>1
  <2>3. QED
    BY <1>1, <1>3, <2>2
<1>7. QED
  BY <1>1, <1>2, <1>5, <1>6 DEF CountOf, R

-----------------------------------------------------------------------------
(* What the steps of the manager report, by kind.                          *)

\* A step that changes no name, no network and no entry, and sends nothing of them.
LEMMA ReportsNothing ==
  ASSUME TypeOK, NetsInv, NEW msgs \in Seq(FineSignal), Emit(msgs),
         UNCHANGED <<nmDevice, nmName, m_wifiNets>>, KeepsProfiles(msgs),
         \A i \in DOMAIN msgs :
           msgs[i].sig \notin DeviceSignal \cup {"wifiNetworkAdded", "wifiNetworkRemoved"}
  PROVE  Reports(msgs)
<1>1. NamesNow' = NamesNow
  BY DEF NamesNow
<1>2. TellsNames(msgs)
  BY <1>1 DEF TellsNames, Tells, DeviceSignal
<1>3. \A n, s : ~Has(msgs, Added(n, s)) /\ ~Has(msgs, RemovedOf(n, s))
  BY DEF Has, Added, RemovedOf
<1>4. KeepsShown(msgs)
  BY <1>3 DEF KeepsShown
<1>5. KeepsBound(msgs)
  <2>1. \A n : ~Leaves(n)
    BY <1>1 DEF Leaves
  <2>2. \A n, s : Bound(n, s)' = Bound(n, s) /\ (Own(n)' <=> Own(n))
    BY DEF Bound, Own, Entries
  <2>3. \A n \in Name, s \in Ssid : Bound(n, s) \in Nat
    BY BoundIs
  <2>4. \A n, s : CountOf(msgs, RemovedOf(n, s)) = 0
    <3>1. \A n, s : Rest(msgs, 0, RemovedOf(n, s)) = {}
      BY <1>3 DEF Rest, Has
    <3>2. QED
      BY <3>1, FS_EmptySet DEF CountOf
  <2>5. \A n \in Name, s \in Ssid : Bound(n, s) <= Bound(n, s)' + 0
    BY <2>2, <2>3
  <2>6. QED
    BY <1>3, <2>1, <2>2, <2>4, <2>5 DEF KeepsBound
<1>6. QED
  BY <1>2, <1>4, <1>5 DEF Reports

\* BoundIs, after a step.
LEMMA BoundIsNext ==
  ASSUME TypeOK', NetsInv', NEW s \in Ssid
  PROVE  /\ \A n \in Name, d \in nmDevice' : nmName'[d] = n => Bound(n, s)' = Entries(<<d, s>>)'
         /\ \A n \in Name : (\A d \in nmDevice' : nmName'[d] # n) => Bound(n, s)' = 0
         /\ \A n \in Name : Bound(n, s)' \in Nat
<1>1. ASSUME NEW n \in Name, NEW d \in nmDevice', nmName'[d] = n
      PROVE  Bound(n, s)' = Entries(<<d, s>>)'
  <2>1. (CHOOSE e \in nmDevice' : nmName'[e] = n) = d
    BY <1>1 DEF NetsInv
  <2>2. QED
    BY <1>1, <2>1 DEF Bound, Entries
<1>2. \A n \in Name : (\A d \in nmDevice' : nmName'[d] # n) => Bound(n, s)' = 0
  BY DEF Bound
<1>3. \A d \in nmDevice' : Entries(<<d, s>>)' \in Nat
  <2>1. \A d \in nmDevice' : <<d, s>> \in Network
    BY DEF TypeOK
  <2>2. QED
    BY <2>1 DEF Entries, TypeOK
<1>4. ASSUME NEW n \in Name PROVE Bound(n, s)' \in Nat
  <2>1. CASE \E d \in nmDevice' : nmName'[d] = n
    BY <1>1, <1>3, <2>1
  <2>2. CASE \A d \in nmDevice' : nmName'[d] # n
    <3>1. Bound(n, s)' = 0
      BY <1>2, <2>2
    <3>2. QED
      BY <3>1
  <2>3. QED
    BY <2>1, <2>2
<1>5. QED
  BY <1>1, <1>2, <1>4

\* The name n has the same device as before, or had none and has one that was not
\* renamed, and the entries of that device are counted.
LEMMA BoundKept ==
  ASSUME TypeOK, NetsInv, TypeOK', NetsInv', NEW msgs \in Seq(FineSignal), NEW n \in Name, NEW s \in Ssid,
         \A d \in nmDevice : nmName[d] = n =>
           /\ d \in nmDevice' /\ nmName'[d] = n
           /\ Entries(<<d, s>>) <= Entries(<<d, s>>)' + CountOf(msgs, RemovedOf(n, s))
  PROVE  /\ ~Leaves(n) /\ (Own(n)' => Own(n))
         /\ Bound(n, s) <= Bound(n, s)' + CountOf(msgs, RemovedOf(n, s))
<1> DEFINE k == CountOf(msgs, RemovedOf(n, s))
<1>1. k \in Nat
  BY CountAtLeast
<1> HIDE DEF k
<1>2. ~Leaves(n) /\ (Own(n)' => Own(n))
  BY DEF Leaves, Holds, NamesNow, Own
<1>3. CASE \E d \in nmDevice : nmName[d] = n
  <2>1. PICK d \in nmDevice : nmName[d] = n
    BY <1>3
  <2>2. d \in nmDevice' /\ nmName'[d] = n /\ Entries(<<d, s>>) <= Entries(<<d, s>>)' + k
    BY <2>1 DEF k
  <2>3. Bound(n, s) = Entries(<<d, s>>) /\ Bound(n, s)' = Entries(<<d, s>>)'
    BY <2>1, <2>2, BoundIs, BoundIsNext
  <2>4. QED
    BY <1>2, <2>2, <2>3 DEF k
<1>4. CASE \A d \in nmDevice : nmName[d] # n
  <2>1. Bound(n, s) = 0 /\ Bound(n, s)' \in Nat
    BY <1>4, BoundIs, BoundIsNext
  <2>2. 0 <= Bound(n, s)' + k
    BY <1>1, <2>1
  <2>3. QED
    BY <1>2, <2>1, <2>2 DEF k
<1>5. QED
  BY <1>3, <1>4

\* A step that sends one signal of a device.
LEMMA OneSignal ==
  ASSUME NEW m \in FineSignal, m.sig \in DeviceSignal
  PROVE  /\ <<m>> \in Seq(FineSignal) /\ DOMAIN <<m>> = {1} /\ <<m>>[1] = m
         /\ \A n, s : ~Has(<<m>>, Added(n, s)) /\ ~Has(<<m>>, RemovedOf(n, s))
<1>1. <<m>> \in Seq(FineSignal) /\ DOMAIN <<m>> = {1} /\ <<m>>[1] = m
  OBVIOUS
<1>2. \A n, s : m # Added(n, s) /\ m # RemovedOf(n, s)
  BY DEF Added, RemovedOf, DeviceSignal
<1>3. QED
  BY <1>1, <1>2 DEF Has

\* onDeviceAdded.
LEMMA ReportsDeviceAdded ==
  ASSUME TypeOK, ListsInv, NetsInv, TypeOK', NetsInv',
         NEW d \in Device, NEW n \in Name, NEW have \in SUBSET Ssid, OnDeviceAdded(d, n, have)
  PROVE  \E msgs : Reports(msgs)
<1> DEFINE m == [sig |-> "deviceAdd", obj |-> d, arg |-> <<n, "name">>]
<1>1. m \in FineSignal /\ m.sig \in DeviceSignal
  BY FineSignals DEF DeviceSignal
<1>2. m_devices[d] = 0
  BY DEF OnDeviceAdded, InNM, Quiet, ListsInv, One
<1>3. /\ Emit(<<m>>) /\ d \notin nmDevice /\ nmDevice' = nmDevice \cup {d}
      /\ nmName' = [nmName EXCEPT ![d] = n] /\ UNCHANGED <<m_wifiNets, m_connections>>
  BY <1>2 DEF OnDeviceAdded
<1>4. nmName'[d] = n /\ \A e \in nmDevice : nmName'[e] = nmName[e]
  BY <1>3 DEF TypeOK
<1>5. NamesNow' = Put(NamesNow, d, n) /\ d \notin DOMAIN NamesNow
  BY <1>3, <1>4 DEF NamesNow, Put
<1>6. TellsNames(<<m>>)
  BY <1>1, <1>5, OneSignal DEF TellsNames, Tells
<1>7. KeepsShown(<<m>>)
  BY <1>1, <1>3, <1>4, OneSignal DEF KeepsShown, NetsInv
<1>8. KeepsBound(<<m>>)
  <2> SUFFICES ASSUME NEW o \in Name, NEW s \in Ssid, Own(o)'
               PROVE  /\ ~Leaves(o) /\ Own(o)
                      /\ Bound(o, s) <= Bound(o, s)' + CountOf(<<m>>, RemovedOf(o, s))
                      /\ ~Has(<<m>>, Added(o, s))
    BY DEF KeepsBound
  <2>1. CountOf(<<m>>, RemovedOf(o, s)) \in Nat
    BY <1>1, OneSignal, CountAtLeast
  <2>2. \A e \in nmDevice : Entries(<<e, s>>) <= Entries(<<e, s>>)' + CountOf(<<m>>, RemovedOf(o, s))
    <3>1. \A e \in nmDevice : Entries(<<e, s>>) \in Nat /\ Entries(<<e, s>>)' = Entries(<<e, s>>)
      BY <1>3 DEF Entries, TypeOK
    <3>2. QED
      BY <2>1, <3>1
  <2>3. QED
    BY <1>1, <1>3, <1>4, <2>2, BoundKept, OneSignal
<1>9. KeepsProfiles(<<m>>)
  BY <1>3 DEF KeepsProfiles
<1>10. QED
  BY <1>1, <1>3, <1>6, <1>7, <1>8, <1>9, OneSignal DEF Reports

\* onDeviceRemoved.
LEMMA ReportsDeviceRemoved ==
  ASSUME TypeOK, ListsInv, NetsInv, TypeOK', NetsInv', m_initFinished,
         NEW d \in nmDevice, ForgetDevice(d), UNCHANGED <<nmName, m_connections>>
  PROVE  \E msgs : Reports(msgs)
<1> DEFINE m == AboutDevice("deviceRemove", d)
<1>1. m \in FineSignal /\ m.sig \in DeviceSignal /\ m.obj = d /\ m.arg[1] = nmName[d]
      /\ m.sig = "deviceRemove"
  BY FineSignals DEF DeviceSignal, AboutDevice, TypeOK
<1>2. m_devices[d] = 1
  BY DEF ListsInv, One, TypeOK
<1>3. /\ Emit(<<m>>) /\ nmDevice' = nmDevice \ {d}
      /\ m_wifiNets' = Orphaned(m_wifiNets, {d} \X Ssid)
  BY <1>2 DEF ForgetDevice
<1> HIDE DEF m
<1>4. NamesNow' = Drop(NamesNow, d) /\ d \in DOMAIN NamesNow /\ NamesNow[d] = nmName[d]
  BY <1>3 DEF NamesNow, Drop
<1>5. TellsNames(<<m>>)
  BY <1>1, <1>4, OneSignal DEF TellsNames, Tells
<1>6. \A net \in Network : net[1] # d => m_wifiNets'[net] = m_wifiNets[net]
  BY <1>3 DEF Orphaned
<1>7. KeepsShown(<<m>>)
  <2>1. \A net \in Network : m_wifiNets'[net].live > 0 => m_wifiNets[net].live > 0
    <3>1. \A net \in Network : m_wifiNets'[net].live > 0 => net[1] # d
      BY <1>3 DEF Orphaned
    <3>2. QED
      BY <1>6, <3>1
  <2>2. QED
    BY <1>1, <2>1, OneSignal DEF KeepsShown
<1>8. KeepsBound(<<m>>)
  <2> SUFFICES ASSUME NEW o \in Name, NEW s \in Ssid, Own(o)', ~Leaves(o)
               PROVE  /\ Own(o)
                      /\ Bound(o, s) <= Bound(o, s)' + CountOf(<<m>>, RemovedOf(o, s))
    BY <1>1, OneSignal DEF KeepsBound
  <2>1. CountOf(<<m>>, RemovedOf(o, s)) \in Nat
    BY <1>1, OneSignal, CountAtLeast
  <2>2. o # nmName[d]
    BY <1>3, <1>4 DEF Leaves, Holds, Drop, TypeOK
  <2>3. ASSUME NEW e \in nmDevice, nmName[e] = o
        PROVE  /\ e \in nmDevice' /\ nmName'[e] = o
               /\ Entries(<<e, s>>) <= Entries(<<e, s>>)' + CountOf(<<m>>, RemovedOf(o, s))
    <3>1. e # d /\ <<e, s>> \in Network /\ <<e, s>>[1] = e
      BY <2>2, <2>3 DEF TypeOK
    <3>2. m_wifiNets'[<<e, s>>] = m_wifiNets[<<e, s>>]
      BY <1>6, <3>1
    <3>3. Entries(<<e, s>>) \in Nat /\ Entries(<<e, s>>)' = Entries(<<e, s>>)
      BY <3>1, <3>2 DEF Entries, TypeOK
    <3>4. QED
      BY <1>3, <2>1, <2>3, <3>1, <3>3
  <2>4. QED
    BY <1>1, <2>3, BoundKept, OneSignal
<1>9. KeepsProfiles(<<m>>)
  BY DEF KeepsProfiles
<1>10. QED
  BY <1>1, <1>3, <1>5, <1>7, <1>8, <1>9, OneSignal DEF Reports

\* onDeviceUpdated.
LEMMA ReportsDeviceUpdated ==
  ASSUME TypeOK, NetsInv, TypeOK', NetsInv',
         NEW d \in Device, NEW n \in Name, OnDeviceUpdated(d, n)
  PROVE  \E msgs : Reports(msgs)
<1> DEFINE m == [sig |-> "deviceUpdate", obj |-> d, arg |-> <<n, "name">>]
<1>1. m \in FineSignal /\ m.sig \in DeviceSignal
  BY FineSignals DEF DeviceSignal
<1>2. /\ Emit(<<m>>) /\ d \in nmDevice /\ d \in Renamed /\ nmDevice' = nmDevice
      /\ nmName' = [nmName EXCEPT ![d] = n] /\ UNCHANGED <<m_wifiNets, m_connections>>
      /\ \A e \in nmDevice : nmName[e] # n
  BY DEF OnDeviceUpdated, lists
<1>3. nmName'[d] = n /\ \A e \in nmDevice : e # d => nmName'[e] = nmName[e]
  BY <1>2 DEF TypeOK
<1>4. NamesNow' = [NamesNow EXCEPT ![d] = n] /\ d \in DOMAIN NamesNow
  BY <1>2, <1>3 DEF NamesNow
<1>5. TellsNames(<<m>>)
  <2>1. Tells(NamesNow, m, NamesNow')
    BY <1>2, <1>4 DEF Tells
  <2>2. QED
    BY <1>1, <2>1, OneSignal DEF TellsNames
<1>6. KeepsShown(<<m>>)
  <2>1. \A net \in Network : net[1] \notin Renamed => nmName'[net[1]] = nmName[net[1]]
    BY <1>2 DEF TypeOK
  <2>2. QED
    BY <1>1, <1>2, <2>1, OneSignal DEF KeepsShown
<1>7. KeepsBound(<<m>>)
  <2> SUFFICES ASSUME NEW o \in Name, NEW s \in Ssid, Own(o)', ~Leaves(o)
               PROVE  /\ Own(o)
                      /\ Bound(o, s) <= Bound(o, s)' + CountOf(<<m>>, RemovedOf(o, s))
    BY <1>1, OneSignal DEF KeepsBound
  <2>1. CountOf(<<m>>, RemovedOf(o, s)) \in Nat
    BY <1>1, OneSignal, CountAtLeast
  <2>2. o # nmName[d]
    <3>1. NamesNow[d] = nmName[d] /\ NamesNow'[d] = n /\ nmName[d] # n
      BY <1>2, <1>3 DEF NamesNow
    <3>2. QED
      BY <1>4, <3>1 DEF Leaves, Holds
  <2>3. ASSUME NEW e \in nmDevice, nmName[e] = o
        PROVE  /\ e \in nmDevice' /\ nmName'[e] = o
               /\ Entries(<<e, s>>) <= Entries(<<e, s>>)' + CountOf(<<m>>, RemovedOf(o, s))
    <3>1. e # d /\ <<e, s>> \in Network
      BY <2>2, <2>3 DEF TypeOK
    <3>2. Entries(<<e, s>>) \in Nat /\ Entries(<<e, s>>)' = Entries(<<e, s>>)
      BY <1>2, <3>1 DEF Entries, TypeOK
    <3>3. QED
      BY <1>2, <1>3, <2>1, <2>3, <3>1, <3>2
  <2>4. QED
    BY <1>1, <2>3, BoundKept, OneSignal
<1>8. KeepsProfiles(<<m>>)
  BY <1>2 DEF KeepsProfiles
<1>9. QED
  BY <1>1, <1>2, <1>5, <1>6, <1>7, <1>8, OneSignal DEF Reports

\* A signal of a network, and of its device that keeps its name.
LEMMA NetworkTells ==
  ASSUME TypeOK, NEW d \in nmDevice, NEW s \in Ssid, UNCHANGED <<nmDevice, nmName>>
  PROVE  /\ Tells(NamesNow, AboutDevice("deviceUpdate", d), NamesNow')
         /\ \A m : m.sig \notin DeviceSignal => Tells(NamesNow, m, NamesNow')
<1>1. NamesNow' = NamesNow /\ d \in DOMAIN NamesNow /\ NamesNow[d] = nmName[d]
      /\ NamesNow = [NamesNow EXCEPT ![d] = nmName[d]]
  BY DEF NamesNow
<1>2. Tells(NamesNow, AboutDevice("deviceUpdate", d), NamesNow')
  BY <1>1 DEF Tells, AboutDevice
<1>3. \A m : m.sig \notin DeviceSignal => Tells(NamesNow, m, NamesNow')
  BY <1>1 DEF Tells, DeviceSignal
<1>4. QED
  BY <1>2, <1>3

\* A step that gives net one more entry, or leaves it, and says by the name or by the
\* text that it was added.
LEMMA ReportsAdded ==
  ASSUME TypeOK, NetsInv, TypeOK', NetsInv', NEW net \in Network, net[1] \in nmDevice,
         NEW a \in {AboutNetwork("wifiNetworkAdded", net), AddedByName(net)},
         NEW msgs \in Seq(FineSignal), Emit(msgs),
         \A i \in DOMAIN msgs : \/ msgs[i] = a
                                \/ msgs[i] = AboutDevice("deviceUpdate", net[1]),
         Has(msgs, a),
         UNCHANGED <<nmDevice, nmName, m_connections>>,
         m_wifiNets'[net].live \in {m_wifiNets[net].live, m_wifiNets[net].live + 1},
         m_wifiNets'[net].live > 0, m_wifiNets'[net].dead = m_wifiNets[net].dead,
         \A other \in Network : other # net => m_wifiNets'[other] = m_wifiNets[other]
  PROVE  Reports(msgs)
<1> DEFINE d == net[1]
           n == nmName[d]
<1>1. n \in Name /\ d \in Device /\ net[2] \in Ssid /\ net = <<d, net[2]>>
  BY DEF TypeOK
<1>2. a = Added(n, Text[net[2]]) \/ a = Added(n, net[2])
  BY DEF AboutNetwork, AddedByName, Added
<1>3. /\ \A o, s : ~Has(msgs, RemovedOf(o, s))
      /\ \A o, s : s \in Ssid /\ Has(msgs, Added(o, s)) => o = n /\ s = net[2]
  <2>1. \A o, s : ~Has(msgs, RemovedOf(o, s))
    BY <1>2 DEF Has, Added, RemovedOf, AboutDevice
  <2>2. ASSUME NEW o, NEW s \in Ssid, Has(msgs, Added(o, s)) PROVE o = n /\ s = net[2]
    <3>1. Added(o, s) = a
      BY <2>2 DEF Has, Added, AboutDevice
    <3>2. o = n /\ (s = Text[net[2]] \/ s = net[2])
      BY <1>2, <3>1 DEF Added
    <3>3. QED
      BY <1>1, <3>2, TextAssumption
  <2>3. QED
    BY <2>1, <2>2
<1>9. /\ \A other \in Network :
           /\ m_wifiNets[other].live \in Nat /\ m_wifiNets[other].dead \in Nat
           /\ m_wifiNets'[other].live \in Nat /\ m_wifiNets'[other].dead \in Nat
           /\ m_wifiNets[other].live <= m_wifiNets'[other].live
           /\ m_wifiNets[other].dead <= m_wifiNets'[other].dead
      /\ m_wifiNets'[net].live >= 1
  <2>1. \A other \in Network :
           /\ m_wifiNets[other].live \in Nat /\ m_wifiNets[other].dead \in Nat
           /\ m_wifiNets'[other].live \in Nat /\ m_wifiNets'[other].dead \in Nat
    BY DEF TypeOK
  <2>2. \A other \in Network : other # net => m_wifiNets'[other] = m_wifiNets[other]
    OBVIOUS
  <2>3. QED
    BY <2>1, <2>2
<1>4. TellsNames(msgs)
  <2>1. NamesNow' = NamesNow
    BY DEF NamesNow
  <2>2. a.sig \notin DeviceSignal
    BY <1>2 DEF Added, DeviceSignal
  <2>3. QED
    BY <2>1, <2>2, NetworkTells DEF TellsNames
<1>5. KeepsShown(msgs)
  BY <1>2, <1>3 DEF KeepsShown
<1>6. KeepsBound(msgs)
  <2> SUFFICES ASSUME NEW o \in Name, NEW s \in Ssid, Own(o)'
               PROVE  /\ ~Leaves(o) /\ Own(o)
                      /\ Bound(o, s) <= Bound(o, s)' + CountOf(msgs, RemovedOf(o, s))
                      /\ Has(msgs, Added(o, s)) => 1 <= Bound(o, s)'
    BY DEF KeepsBound
  <2>1. CountOf(msgs, RemovedOf(o, s)) \in Nat
    BY CountAtLeast
  <2>2. ASSUME NEW e \in nmDevice
        PROVE  Entries(<<e, s>>) <= Entries(<<e, s>>)' + CountOf(msgs, RemovedOf(o, s))
    <3>1. <<e, s>> \in Network
      BY DEF TypeOK
    <3>2. Entries(<<e, s>>) \in Nat /\ Entries(<<e, s>>)' \in Nat
          /\ Entries(<<e, s>>) <= Entries(<<e, s>>)'
      BY <1>9, <3>1 DEF Entries
    <3>3. QED
      BY <2>1, <3>2
  <2>3. ASSUME Has(msgs, Added(o, s)) PROVE 1 <= Bound(o, s)'
    <3>1. o = n /\ s = net[2]
      BY <1>3, <2>3
    <3>2. Bound(o, s)' = Entries(<<d, s>>)'
      BY <3>1, BoundIsNext
    <3>3. Entries(<<d, s>>)' >= 1
      BY <1>1, <1>9, <3>1 DEF Entries
    <3>4. QED
      BY <3>2, <3>3
  <2>4. QED
    BY <2>2, <2>3, BoundKept
<1>7. KeepsProfiles(msgs)
  BY DEF KeepsProfiles
<1>8. QED
  BY <1>4, <1>5, <1>6, <1>7 DEF Reports

\* onWifiNetworkAppeared.
LEMMA ReportsAppeared ==
  ASSUME TypeOK, NetsInv, TypeOK', NetsInv', NEW net \in Network, OnWifiNetworkAppeared(net)
  PROVE  \E msgs : Reports(msgs)
<1> DEFINE a == AboutNetwork("wifiNetworkAdded", net)
           u == AboutDevice("deviceUpdate", net[1])
           msgs == <<a, u>>
<1>1. a \in FineSignal /\ u \in FineSignal
  BY FineSignals DEF DeviceSignal
<1>2. /\ Emit(msgs) /\ net[1] \in nmDevice /\ UNCHANGED <<nmDevice, nmName, m_connections>>
      /\ m_wifiNets' = IF m_wifiNets[net].live = 0
                         THEN [m_wifiNets EXCEPT ![net].live = 1] ELSE m_wifiNets
  BY DEF OnWifiNetworkAppeared
<1> HIDE DEF a, u
<1>3. msgs \in Seq(FineSignal) /\ DOMAIN msgs = {1, 2} /\ msgs[1] = a /\ msgs[2] = u
  BY <1>1
<1> HIDE DEF msgs
<1>4. /\ m_wifiNets'[net].live \in {m_wifiNets[net].live, m_wifiNets[net].live + 1}
      /\ m_wifiNets'[net].live > 0 /\ m_wifiNets'[net].dead = m_wifiNets[net].dead
      /\ \A other \in Network : other # net => m_wifiNets'[other] = m_wifiNets[other]
  BY <1>2 DEF TypeOK
<1>5. Reports(msgs)
  BY <1>2, <1>3, <1>4, ReportsAdded DEF Has, a, u
<1>6. QED
  BY <1>5

\* One round of insertWifiNetworks.
LEMMA ReportsInsert ==
  ASSUME TypeOK, NetsInv, TypeOK', NetsInv', NEW net \in Network, InsertWifiNetwork(net)
  PROVE  \E msgs : Reports(msgs)
<1> DEFINE a == AddedByName(net)
           msgs == <<a>>
<1>1. a \in FineSignal
  BY FineSignals
<1>2. /\ Emit(msgs) /\ UNCHANGED <<nmDevice, nmName, m_connections>>
      /\ net \in todo /\ m_wifiNets' = [m_wifiNets EXCEPT ![net].live = @ + 1]
  BY DEF InsertWifiNetwork, library
<1>3. net[1] \in nmDevice
  BY <1>2 DEF NetsInv
<1> HIDE DEF a
<1>4. msgs \in Seq(FineSignal) /\ DOMAIN msgs = {1} /\ msgs[1] = a
  BY <1>1
<1> HIDE DEF msgs
<1>5. /\ m_wifiNets'[net].live \in {m_wifiNets[net].live, m_wifiNets[net].live + 1}
      /\ m_wifiNets'[net].live > 0 /\ m_wifiNets'[net].dead = m_wifiNets[net].dead
      /\ \A other \in Network : other # net => m_wifiNets'[other] = m_wifiNets[other]
  BY <1>2 DEF TypeOK
<1>6. Reports(msgs)
  BY <1>2, <1>3, <1>4, <1>5, ReportsAdded DEF Has, a
<1>7. QED
  BY <1>6

\* One of the two calls takes an entry, or finds none.
LEMMA EntryTaken ==
  ASSUME NEW e \in [live : Nat, dead : Nat], NEW f \in {RemoveFound(e), RemoveSender(e)}
  PROVE  /\ f \in [live : Nat, dead : Nat]
         /\ f # e => f.live + f.dead = (e.live + e.dead) - 1
<1>1. CASE f = RemoveFound(e)
  BY <1>1 DEF RemoveFound, FirstEntry
<1>2. CASE f = RemoveSender(e)
  BY <1>2 DEF RemoveSender
<1>3. QED
  BY <1>1, <1>2

\* The signals of the two calls: u, and the removal r at least k times.
TwoCalls(msgs, r, u, k) ==
  /\ msgs \in Seq(FineSignal) /\ msgs # <<>>
  /\ \A i \in DOMAIN msgs : msgs[i] \in {r, u}
  /\ CountOf(msgs, r) >= k

Ends(q, x, y) == q \in Seq(FineSignal) /\ Len(q) = 2 /\ q[1] = x /\ q[2] = y

LEMMA PairConcat ==
  ASSUME NEW x \in FineSignal, NEW y \in FineSignal
  PROVE  Ends(<<x>> \o <<y>>, x, y)
  BY DEF Ends

LEMMA NoneConcat == ASSUME NEW S, NEW q \in Seq(S) PROVE <<>> \o q = q /\ q \o <<>> = q
  OBVIOUS

LEMMA TwoRemovals ==
  ASSUME NEW r \in FineSignal, NEW u \in FineSignal, NEW a \in {<<>>, <<r>>}, NEW b \in {<<>>, <<r>>},
         NEW msgs, msgs = a \o <<u>> \o b \/ msgs = a \o b \o <<u>>
  PROVE  TwoCalls(msgs, r, u, Len(a) + Len(b))
<1> USE DEF TwoCalls
<1>1. Len(<<>>) = 0 /\ Len(<<r>>) = 1
  OBVIOUS
<1>2. /\ <<u>> \in Seq(FineSignal) /\ DOMAIN <<u>> = {1} /\ <<u>>[1] = u
      /\ <<r, u>> \in Seq(FineSignal) /\ DOMAIN <<r, u>> = {1, 2}
      /\ <<r, u>>[1] = r /\ <<r, u>>[2] = u
      /\ <<u, r>> \in Seq(FineSignal) /\ DOMAIN <<u, r>> = {1, 2}
      /\ <<u, r>>[1] = u /\ <<u, r>>[2] = r
      /\ <<r, u, r>> \in Seq(FineSignal) /\ DOMAIN <<r, u, r>> = {1, 2, 3}
      /\ <<r, u, r>>[1] = r /\ <<r, u, r>>[2] = u /\ <<r, u, r>>[3] = r
      /\ <<r, r, u>> \in Seq(FineSignal) /\ DOMAIN <<r, r, u>> = {1, 2, 3}
      /\ <<r, r, u>>[1] = r /\ <<r, r, u>>[2] = r /\ <<r, r, u>>[3] = u
  OBVIOUS
<1>3. CASE a = <<>> /\ b = <<>>
  <2>1. msgs = <<u>>
    BY <1>3
  <2>2. CountOf(msgs, r) \in Nat
    BY <1>2, <2>1, CountAtLeast
  <2>3. Len(a) + Len(b) = 0
    BY <1>3
  <2>4. CountOf(msgs, r) >= Len(a) + Len(b)
    BY <2>2, <2>3
  <2>5. QED
    BY <1>2, <2>1, <2>4
<1>4. CASE Len(a) + Len(b) = 1
  <2>1. Ends(<<u>> \o <<r>>, u, r) /\ Ends(<<r>> \o <<u>>, r, u)
    BY PairConcat, Zenon
  <2>2. /\ <<>> \o <<u>> = <<u>> /\ <<>> \o <<r>> = <<r>> /\ <<r>> \o <<>> = <<r>>
        /\ (<<r>> \o <<u>>) \o <<>> = <<r>> \o <<u>>
    <3>1. <<r>> \in Seq(FineSignal) /\ <<u>> \in Seq(FineSignal)
      OBVIOUS
    <3>2. <<r>> \o <<u>> \in Seq(FineSignal)
      BY <2>1 DEF Ends
    <3>3. QED
      BY <3>1, <3>2, NoneConcat, Zenon
  <2>3. Ends(msgs, r, u) \/ Ends(msgs, u, r)
    <3>1. CASE a = <<r>> /\ b = <<>>
      BY <2>1, <2>2, <3>1, Zenon
    <3>2. CASE a = <<>> /\ b = <<r>>
      BY <2>1, <2>2, <3>2, Zenon
    <3>3. QED
      BY <1>1, <1>4, <3>1, <3>2
  <2>4. /\ msgs \in Seq(FineSignal) /\ DOMAIN msgs = {1, 2} /\ msgs[1] \in {r, u}
        /\ msgs[2] \in {r, u} /\ \E i \in DOMAIN msgs : msgs[i] = r
    <3>1. CASE Ends(msgs, r, u)
      <4>1. 1 \in DOMAIN msgs /\ msgs[1] = r
        BY <3>1 DEF Ends
      <4>2. QED
        BY <3>1, <4>1 DEF Ends
    <3>2. CASE Ends(msgs, u, r)
      <4>1. 2 \in DOMAIN msgs /\ msgs[2] = r
        BY <3>2 DEF Ends
      <4>2. QED
        BY <3>2, <4>1 DEF Ends
    <3>3. QED
      BY <2>3, <3>1, <3>2
  <2>5. CountOf(msgs, r) >= 1
    BY <2>4, CountAtLeast
  <2>6. msgs # <<>> /\ \A i \in DOMAIN msgs : msgs[i] \in {r, u}
    BY <2>4
  <2>7. QED
    BY <1>4, <2>4, <2>5, <2>6
<1>5. CASE a = <<r>> /\ b = <<r>>
  <2>1. msgs = <<r, u, r>> \/ msgs = <<r, r, u>>
    BY <1>5
  <2>2. Len(a) + Len(b) = 2
    BY <1>1, <1>5
  <2>3. /\ msgs \in Seq(FineSignal) /\ DOMAIN msgs = {1, 2, 3}
        /\ msgs[1] \in {r, u} /\ msgs[2] \in {r, u} /\ msgs[3] \in {r, u}
        /\ \E i, j \in DOMAIN msgs : i # j /\ msgs[i] = r /\ msgs[j] = r
    <3>1. CASE msgs = <<r, u, r>>
      <4>1. 1 \in DOMAIN msgs /\ 3 \in DOMAIN msgs /\ 1 # 3 /\ msgs[1] = r /\ msgs[3] = r
        BY <1>2, <3>1
      <4>2. QED
        BY <1>2, <3>1, <4>1
    <3>2. CASE msgs = <<r, r, u>>
      <4>1. 1 \in DOMAIN msgs /\ 2 \in DOMAIN msgs /\ 1 # 2 /\ msgs[1] = r /\ msgs[2] = r
        BY <1>2, <3>2
      <4>2. QED
        BY <1>2, <3>2, <4>1
    <3>3. QED
      BY <2>1, <3>1, <3>2
  <2>4. CountOf(msgs, r) >= 2
    BY <2>3, CountAtLeast
  <2>5. QED
    BY <2>2, <2>3, <2>4
<1>6. (a = <<>> /\ b = <<>>) \/ Len(a) + Len(b) = 1 \/ (a = <<r>> /\ b = <<r>>)
  BY <1>1
<1>7. QED
  BY <1>3, <1>4, <1>5, <1>6

\* onWifiNetworkRemove and onWifiNetworkUpdate of a disappearing network.
LEMMA ReportsDisappeared ==
  ASSUME TypeOK, NetsInv, TypeOK', NetsInv', NEW net \in Network, NEW first \in BOOLEAN,
         OnWifiNetworkDisappeared(net, first)
  PROVE  \E msgs : Reports(msgs)
<1> DEFINE d  == net[1]
           n  == nmName[d]
           r  == RemovedOf(n, net[2])
           u  == AboutDevice("deviceUpdate", d)
           e0 == m_wifiNets[net]
           e1 == IF first THEN RemoveFound(e0) ELSE RemoveSender(e0)
           e2 == IF first THEN IF e1.live < e0.live THEN e1 ELSE RemoveSender(e1)
                          ELSE RemoveFound(e1)
           a  == Removed(net, e0, e1)
           b  == Removed(net, e1, e2)
           msgs == IF first THEN a \o <<u>> \o b ELSE a \o b \o <<u>>
           sum(e) == e.live + e.dead
<1>1. /\ Emit(msgs) /\ net \in nmNetwork
      /\ m_wifiNets' = Orphaned([m_wifiNets EXCEPT ![net] = e2], {net})
      /\ UNCHANGED <<nmDevice, nmName, m_connections>>
  BY DEF OnWifiNetworkDisappeared
<1>2. d \in nmDevice /\ n \in Name /\ net[2] \in Ssid /\ net = <<d, net[2]>> /\ d \in Device
  BY <1>1 DEF NetsInv, TypeOK
<1>3. r = AboutNetwork("wifiNetworkRemoved", net) /\ r \in FineSignal /\ u \in FineSignal
  BY FineSignals DEF AboutNetwork, RemovedOf, DeviceSignal
<1>4. /\ e0 \in [live : Nat, dead : Nat] /\ e1 \in [live : Nat, dead : Nat]
      /\ e2 \in [live : Nat, dead : Nat]
      /\ sum(e0) = sum(e1) + Len(a) /\ sum(e1) = sum(e2) + Len(b)
      /\ a \in {<<>>, <<r>>} /\ b \in {<<>>, <<r>>}
  <2>1. e0 \in [live : Nat, dead : Nat]
    BY DEF TypeOK
  <2> HIDE DEF e0, r
  <2>2. e1 \in [live : Nat, dead : Nat] /\ (e1 # e0 => sum(e1) = sum(e0) - 1)
    BY <2>1, EntryTaken
  <2> HIDE DEF e1
  <2>3. e2 \in [live : Nat, dead : Nat] /\ (e2 # e1 => sum(e2) = sum(e1) - 1)
    BY <2>2, EntryTaken
  <2> HIDE DEF e2
  <2>4. /\ a = (IF e0 = e1 THEN <<>> ELSE <<r>>) /\ b = (IF e1 = e2 THEN <<>> ELSE <<r>>)
    BY <1>3 DEF Removed
  <2>5. /\ sum(e0) \in Nat /\ sum(e1) \in Nat /\ sum(e2) \in Nat
    BY <2>1, <2>2, <2>3
  <2>6. Len(<<>>) = 0 /\ Len(<<r>>) = 1
    OBVIOUS
  <2> HIDE DEF sum, a, b
  <2>7. QED
    BY <2>1, <2>2, <2>3, <2>4, <2>5, <2>6
<1> HIDE DEF a, b, r, u, e0, e1, e2
<1>5. /\ msgs \in Seq(FineSignal) /\ msgs # <<>> /\ \A i \in DOMAIN msgs : msgs[i] \in {r, u}
      /\ CountOf(msgs, r) >= Len(a) + Len(b)
  <2>1. msgs = a \o <<u>> \o b \/ msgs = a \o b \o <<u>>
    OBVIOUS
  <2> HIDE DEF msgs
  <2>2. /\ r \in FineSignal /\ u \in FineSignal /\ a \in {<<>>, <<r>>} /\ b \in {<<>>, <<r>>}
    BY <1>3, <1>4
  <2>3. TwoCalls(msgs, r, u, Len(a) + Len(b))
    BY <2>1, <2>2, TwoRemovals
  <2>4. QED
    BY <2>3 DEF TwoCalls
<1> HIDE DEF msgs
<1>6. /\ m_wifiNets'[net].live = 0 /\ sum(m_wifiNets'[net]) = sum(e2)
      /\ \A other \in Network : other # net => m_wifiNets'[other] = m_wifiNets[other]
  <2> DEFINE nets == [m_wifiNets EXCEPT ![net] = e2]
  <2>1. nets[net] = e2 /\ \A other \in Network : other # net => nets[other] = m_wifiNets[other]
    BY DEF TypeOK
  <2>2. m_wifiNets' = Orphaned(nets, {net})
    BY <1>1
  <2> HIDE DEF nets
  <2>3. m_wifiNets'[net] = [live |-> 0, dead |-> e2.live + e2.dead]
    BY <2>1, <2>2 DEF Orphaned
  <2>4. sum(m_wifiNets'[net]) = sum(e2)
    BY <1>4, <2>3
  <2>5. \A other \in Network : other # net => m_wifiNets'[other] = m_wifiNets[other]
    BY <2>1, <2>2 DEF Orphaned
  <2>6. QED
    BY <2>3, <2>4, <2>5
<1>7. NamesNow' = NamesNow
  BY <1>1 DEF NamesNow
<1>8. TellsNames(msgs)
  <2>1. r.sig \notin DeviceSignal
    BY DEF r, RemovedOf, DeviceSignal
  <2>2. Tells(NamesNow, r, NamesNow') /\ Tells(NamesNow, u, NamesNow')
    BY <1>1, <1>2, <2>1, NetworkTells DEF u
  <2>3. QED
    BY <1>5, <1>7, <2>2 DEF TellsNames
<1>9. /\ \A o, s : ~Has(msgs, Added(o, s))
      /\ \A o, s : s \in Ssid /\ Has(msgs, RemovedOf(o, s)) => o = n /\ s = net[2]
  <2>1. \A o, s : ~Has(msgs, Added(o, s))
    BY <1>5 DEF Has, Added, RemovedOf, r, u, AboutDevice
  <2>2. ASSUME NEW o, NEW s \in Ssid, Has(msgs, RemovedOf(o, s)) PROVE o = n /\ s = net[2]
    <3>1. RemovedOf(o, s) = r
      BY <1>5, <2>2 DEF Has, RemovedOf, u, AboutDevice
    <3>2. o = n /\ Text[s] = Text[net[2]]
      BY <3>1 DEF RemovedOf, r
    <3>3. QED
      BY <1>2, <3>2, TextAssumption
  <2>3. QED
    BY <2>1, <2>2
<1>10. KeepsShown(msgs)
  <2> SUFFICES ASSUME NEW other \in Network, m_wifiNets'[other].live > 0
               PROVE  /\ ~Has(msgs, RemovedOf(nmName[other[1]], other[2]))
                      /\ m_wifiNets[other].live > 0
    BY <1>1 DEF KeepsShown
  <2>1. other # net
    BY <1>6
  <2>2. m_wifiNets[other].live > 0
    BY <1>6, <2>1
  <2>3. other[1] \in nmDevice
    BY <2>2 DEF NetsInv
  <2>4. nmName[other[1]] # n \/ other[2] # net[2]
    BY <1>2, <2>1, <2>3 DEF NetsInv
  <2>5. QED
    BY <1>9, <2>2, <2>4
<1>11. KeepsBound(msgs)
  <2> SUFFICES ASSUME NEW o \in Name, NEW s \in Ssid, Own(o)'
               PROVE  /\ ~Leaves(o) /\ Own(o)
                      /\ Bound(o, s) <= Bound(o, s)' + CountOf(msgs, RemovedOf(o, s))
    BY <1>9 DEF KeepsBound
  <2>1. CountOf(msgs, RemovedOf(o, s)) \in Nat
    BY <1>5, CountAtLeast
  <2>2. ASSUME NEW e \in nmDevice, nmName[e] = o
        PROVE  /\ e \in nmDevice' /\ nmName'[e] = o
               /\ Entries(<<e, s>>) <= Entries(<<e, s>>)' + CountOf(msgs, RemovedOf(o, s))
    <3>1. <<e, s>> \in Network
      BY DEF TypeOK
    <3>2. CASE <<e, s>> = net
      <4>1. RemovedOf(o, s) = r
        BY <1>2, <2>2, <3>2 DEF r
      <4>2. Entries(<<e, s>>) = sum(e0) /\ Entries(<<e, s>>)' = sum(e2)
        BY <1>6, <3>2 DEF Entries, e0
      <4>3. sum(e0) = sum(e2) + (Len(a) + Len(b)) /\ sum(e2) \in Nat
            /\ CountOf(msgs, r) >= Len(a) + Len(b) /\ Len(a) \in Nat /\ Len(b) \in Nat
            /\ CountOf(msgs, r) \in Nat
        <5>1. sum(e2) \in Nat /\ sum(e1) \in Nat
          BY <1>4
        <5>2. Len(a) \in Nat /\ Len(b) \in Nat
          BY <1>4
        <5>3. CountOf(msgs, r) \in Nat
          BY <1>5, CountAtLeast
        <5> HIDE DEF sum
        <5>4. QED
          BY <1>4, <1>5, <5>1, <5>2, <5>3
      <4> HIDE DEF sum
      <4>4. QED
        BY <1>1, <2>2, <4>1, <4>2, <4>3
    <3>3. CASE <<e, s>> # net
      <4>1. m_wifiNets'[<<e, s>>] = m_wifiNets[<<e, s>>]
        BY <1>6, <3>1, <3>3
      <4>2. Entries(<<e, s>>) \in Nat /\ Entries(<<e, s>>)' = Entries(<<e, s>>)
        BY <3>1, <4>1 DEF Entries, TypeOK
      <4>3. QED
        BY <1>1, <2>1, <2>2, <4>2
    <3>4. QED
      BY <3>2, <3>3
  <2>3. QED
    BY <1>5, <2>2, BoundKept
<1>12. KeepsProfiles(msgs)
  BY <1>1 DEF KeepsProfiles
<1>13. QED
  BY <1>1, <1>5, <1>8, <1>10, <1>11, <1>12 DEF Reports
\* A step that sends nothing.
LEMMA NothingSent ==
  ASSUME TypeOK, UNCHANGED queue
  PROVE  Emit(<<>>) /\ <<>> \in Seq(FineSignal)
<1>1. feed \o <<>> = feed
  BY DEF TypeOK
<1>2. {<<>>[i].obj : i \in {j \in DOMAIN <<>> : Listing(<<>>[j])}} = {}
  OBVIOUS
<1>3. QED
  BY <1>1, <1>2 DEF Emit, queue

\* A step that changes no name, no network and no entry, and sends one signal or
\* none, which is not of a device or of a network that is listed or not.
LEMMA ReportsOther ==
  ASSUME TypeOK, NetsInv, NEW m \in FineSignal, UNCHANGED <<nmDevice, nmName, m_wifiNets>>,
         m.sig \notin DeviceSignal \cup {"wifiNetworkAdded", "wifiNetworkRemoved"},
         \/ UNCHANGED queue /\ UNCHANGED m_connections
         \/ Emit(<<m>>) /\ \A c \in Conn : m_connections[c] > 0 =>
                             m_connections'[c] > 0 \/ m = About("connectionRemove", c)
  PROVE  \E msgs : Reports(msgs)
<1>1. CASE UNCHANGED queue /\ UNCHANGED m_connections
  <2>1. KeepsProfiles(<<>>)
    BY <1>1 DEF KeepsProfiles
  <2>3. Emit(<<>>) /\ <<>> \in Seq(FineSignal) /\ DOMAIN <<>> = {}
    BY <1>1, NothingSent
  <2>4. Reports(<<>>)
    BY <2>1, <2>3, ReportsNothing
  <2>5. QED
    BY <2>4
<1>2. CASE Emit(<<m>>) /\ \A c \in Conn : m_connections[c] > 0 =>
                            m_connections'[c] > 0 \/ m = About("connectionRemove", c)
  <2>1. <<m>> \in Seq(FineSignal) /\ DOMAIN <<m>> = {1} /\ <<m>>[1] = m
    OBVIOUS
  <2>2. KeepsProfiles(<<m>>)
    BY <1>2, <2>1 DEF KeepsProfiles, Has
  <2>3. Reports(<<m>>)
    BY <1>2, <2>1, <2>2, ReportsNothing
  <2>4. QED
    BY <2>3
<1>3. QED
  BY <1>1, <1>2

\* A step that sends nothing and changes nothing that is reported.
LEMMA ReportsQuiet ==
  ASSUME TypeOK, NetsInv, UNCHANGED <<queue, nmDevice, nmName, m_wifiNets, m_connections>>
  PROVE  \E msgs : Reports(msgs)
<1>1. KeepsProfiles(<<>>)
  BY DEF KeepsProfiles
<1>2. Emit(<<>>) /\ <<>> \in Seq(FineSignal) /\ DOMAIN <<>> = {}
  BY NothingSent
<1>3. Reports(<<>>)
  BY <1>1, <1>2, ReportsNothing
<1>4. QED
  BY <1>3

\* clearWifiNetworks, when the devices have gone.
LEMMA ReportsClear ==
  ASSUME TypeOK, NetsInv, TypeOK', NetsInv', ClearWifiNetworks
  PROVE  \E msgs : Reports(msgs)
<1>1. /\ nmDevice = {} /\ m_wifiNets' = [net \in Network |-> NoEntry]
      /\ UNCHANGED <<queue, nmDevice, nmName, m_connections>>
  BY DEF ClearWifiNetworks, NetsInv, library
<1>2. Emit(<<>>) /\ <<>> \in Seq(FineSignal) /\ DOMAIN <<>> = {}
  BY <1>1, NothingSent
<1>3. NamesNow' = NamesNow
  BY <1>1 DEF NamesNow
<1>4. \A m : ~Has(<<>>, m)
  BY <1>2 DEF Has
<1>5. TellsNames(<<>>) /\ KeepsProfiles(<<>>)
  BY <1>1, <1>2, <1>3 DEF TellsNames, KeepsProfiles
<1>6. KeepsShown(<<>>)
  BY <1>1 DEF KeepsShown, NoEntry
<1>7. KeepsBound(<<>>)
  BY <1>1, <1>2, <1>4, BoundKept DEF KeepsBound
<1>8. QED
  BY <1>2, <1>5, <1>6, <1>7 DEF Reports

\* Every step of the manager's thread, once its lists are filled.
LEMMA StepReports ==
  ASSUME TypeOK, ListsInv, NetsInv, TypeOK', NetsInv', m_initFinished,
         LibraryEvent \/ InsertTimeout \/ Continue
  PROVE  \E msgs : Reports(msgs)
<1>1. ASSUME NEW d \in Device, NEW n \in Name, NEW have \in SUBSET Ssid, OnDeviceAdded(d, n, have)
      PROVE  \E msgs : Reports(msgs)
  BY <1>1, ReportsDeviceAdded
<1>2. ASSUME NEW d \in Device, OnDeviceRemoved(d) \/ LoseDevice(d)
      PROVE  \E msgs : Reports(msgs)
  <2>1. d \in nmDevice /\ ForgetDevice(d) /\ UNCHANGED <<nmName, m_connections>>
    BY <1>2 DEF OnDeviceRemoved, LoseDevice
  <2>2. QED
    BY <2>1, ReportsDeviceRemoved
<1>3. ASSUME NEW d \in Device, NEW n \in Name, OnDeviceUpdated(d, n) PROVE \E msgs : Reports(msgs)
  BY <1>3, ReportsDeviceUpdated
<1>4. ASSUME NEW net \in Network, OnWifiNetworkAppeared(net) PROVE \E msgs : Reports(msgs)
  BY <1>4, ReportsAppeared
<1>5. ASSUME NEW net \in Network, OnWifiNetworkUpdate(net) PROVE \E msgs : Reports(msgs)
  <2>1. UNCHANGED <<nmDevice, nmName, m_wifiNets, m_connections>>
    BY <1>5 DEF OnWifiNetworkUpdate, library, lists
  <2>2. PICK m \in {DeviceDisappear, AboutNetwork("wifiNetworkPropertyChange", net)} : Emit(<<m>>)
    BY <1>5 DEF OnWifiNetworkUpdate
  <2>3. m \in FineSignal /\ m.sig \notin DeviceSignal \cup {"wifiNetworkAdded", "wifiNetworkRemoved"}
    <3>1. DeviceDisappear \in FineSignal /\ AboutNetwork("wifiNetworkPropertyChange", net) \in FineSignal
      BY FineSignals
    <3>2. /\ DeviceDisappear.sig = "wifiNetworkDeviceDisappear"
          /\ AboutNetwork("wifiNetworkPropertyChange", net).sig = "wifiNetworkPropertyChange"
      BY DEF DeviceDisappear, About, AboutNetwork
    <3>3. QED
      BY <2>2, <3>1, <3>2 DEF DeviceSignal
  <2>4. QED
    BY <2>1, <2>2, <2>3, ReportsOther
<1>6. ASSUME NEW net \in Network, NEW first \in BOOLEAN, OnWifiNetworkDisappeared(net, first)
      PROVE  \E msgs : Reports(msgs)
  BY <1>6, ReportsDisappeared
<1>7. ASSUME NEW c \in Conn,
             OnConnectionAdded(c) \/ OnConnectionRemoved(c) \/ OnConnectionUpdated(c) \/ ClearConnection(c)
      PROVE  \E msgs : Reports(msgs)
  <2>1. UNCHANGED <<nmDevice, nmName, m_wifiNets>>
    BY <1>7 DEF OnConnectionAdded, OnConnectionRemoved, OnConnectionUpdated, ClearConnection,
                library, lists
  <2>2. \A sig \in {"connectionAdd", "connectionRemove", "connectionUpdate"} :
          /\ About(sig, c) \in FineSignal /\ About(sig, c).sig = sig
          /\ sig \notin DeviceSignal \cup {"wifiNetworkAdded", "wifiNetworkRemoved"}
    BY FineSignals DEF About, DeviceSignal
  <2>3. CASE UNCHANGED queue /\ UNCHANGED m_connections
    BY <2>1, <2>3, ReportsQuiet
  <2>4. CASE \E sig \in {"connectionAdd", "connectionUpdate"} :
               Emit(<<About(sig, c)>>) /\ \A k \in Conn : m_connections'[k] >= m_connections[k]
    <3>1. PICK sig \in {"connectionAdd", "connectionUpdate"} :
            Emit(<<About(sig, c)>>) /\ \A k \in Conn : m_connections'[k] >= m_connections[k]
      BY <2>4
    <3>2. \A k \in Conn : m_connections[k] > 0 => m_connections'[k] > 0
      BY <3>1 DEF TypeOK
    <3>3. QED
      BY <2>1, <2>2, <3>1, <3>2, ReportsOther
  <2>5. CASE TakeConnection(c)
    <3>1. \A k \in Conn : k # c => m_connections'[k] = m_connections[k]
      BY <2>5 DEF TakeConnection, TypeOK
    <3>2. Emit(<<About("connectionRemove", c)>>)
      BY <2>5 DEF TakeConnection
    <3>3. QED
      BY <2>1, <2>2, <3>1, <3>2, ReportsOther
  <2>6. CASE OnConnectionAdded(c)
    <3>1. \/ UNCHANGED <<m_connections, queue>>
          \/ /\ m_connections' = [m_connections EXCEPT ![c] = 1] /\ m_connections[c] = 0
             /\ Emit(<<About("connectionAdd", c)>>)
      BY <2>6 DEF OnConnectionAdded
    <3>2. m_connections' = [m_connections EXCEPT ![c] = 1] /\ m_connections[c] = 0
            => \A k \in Conn : m_connections'[k] >= m_connections[k]
      BY DEF TypeOK
    <3>3. QED
      BY <2>3, <2>4, <3>1, <3>2
  <2>7. CASE OnConnectionUpdated(c)
    <3>1. UNCHANGED m_connections /\ Emit(<<About("connectionUpdate", c)>>)
      BY <2>7 DEF OnConnectionUpdated, lists
    <3>2. \A k \in Conn : m_connections'[k] >= m_connections[k]
      BY <3>1 DEF TypeOK
    <3>3. QED
      BY <2>4, <3>1, <3>2
  <2>8. CASE OnConnectionRemoved(c) \/ ClearConnection(c)
    <3>1. TakeConnection(c) \/ UNCHANGED <<m_connections, queue>>
      BY <2>8 DEF OnConnectionRemoved, ClearConnection
    <3>2. QED
      BY <2>3, <2>5, <3>1
  <2>9. QED
    BY <1>7, <2>6, <2>7, <2>8
<1>8. ASSUME NEW a \in Active,
             \/ OnActiveConnectionAdded(a) \/ OnActiveConnectionRemoved(a)
             \/ OnActiveConnectionChanged(a) \/ LoseActive(a)
      PROVE  \E msgs : Reports(msgs)
  <2>1. UNCHANGED <<nmDevice, nmName, m_wifiNets, m_connections>>
    BY <1>8 DEF OnActiveConnectionAdded, OnActiveConnectionRemoved, OnActiveConnectionChanged,
                LoseActive, library, lists
  <2>2. \/ UNCHANGED queue
        \/ \E sig \in {"activeConnectionAdd", "activeConnectionRemove",
                       "activeConnectStateChangeReason"} : Emit(<<About(sig, a)>>)
    BY <1>8 DEF OnActiveConnectionAdded, OnActiveConnectionRemoved, OnActiveConnectionChanged,
                LoseActive, ForgetActive
  <2>3. CASE UNCHANGED queue
    BY <2>1, <2>3, ReportsQuiet
  <2>4. CASE \E sig \in {"activeConnectionAdd", "activeConnectionRemove",
                         "activeConnectStateChangeReason"} : Emit(<<About(sig, a)>>)
    <3>1. PICK sig \in {"activeConnectionAdd", "activeConnectionRemove",
                        "activeConnectStateChangeReason"} : Emit(<<About(sig, a)>>)
      BY <2>4
    <3>2. About(sig, a) \in FineSignal
          /\ About(sig, a).sig \notin DeviceSignal \cup {"wifiNetworkAdded", "wifiNetworkRemoved"}
      BY FineSignals DEF About, DeviceSignal
    <3>3. QED
      BY <2>1, <3>1, <3>2, ReportsOther
  <2>5. QED
    BY <2>2, <2>3, <2>4
<1>9. CASE ServiceDisappears \/ OnServiceAppear \/ ServiceDisappeared \/ InsertTimeout \/ InsertDone
  <2>1. UNCHANGED <<queue, nmDevice, nmName, m_wifiNets, m_connections>>
    BY <1>9 DEF ServiceDisappears, OnServiceAppear, ServiceDisappeared, InsertTimeout, InsertDone,
                library, lists
  <2>2. QED
    BY <2>1, ReportsQuiet
<1>10. CASE ClearWifiNetworks
  BY <1>10, ReportsClear
<1>11. ASSUME NEW net \in Network, InsertWifiNetwork(net) PROVE \E msgs : Reports(msgs)
  BY <1>11, ReportsInsert
<1>12. QED
  BY <1>1, <1>2, <1>3, <1>4, <1>5, <1>6, <1>7, <1>8, <1>9, <1>10, <1>11 DEF LibraryEvent, Continue
-----------------------------------------------------------------------------
(* The types of the copy.                                                  *)

\* The lists of items, by interface name.
Lists(list) ==
  /\ DOMAIN list \subseteq Name
  /\ \A n \in DOMAIN list : list[n] \in [Ssid -> Seq(Item)]

LEMMA ItemReplaced ==
  ASSUME NEW q \in Seq(Item), NEW i \in DOMAIN q, NEW c \in Item
  PROVE  LET r == [q EXCEPT ![i] = c] IN
           /\ r \in Seq(Item) /\ Len(r) = Len(q) /\ r[i] = c
           /\ \A j \in DOMAIN q : j # i => r[j] = q[j]
  OBVIOUS

LEMMA ListsReplaced ==
  ASSUME NEW list, Lists(list), NEW n \in Name, NEW v \in [Ssid -> Seq(Item)]
  PROVE  /\ Lists(Put(list, n, v)) /\ Lists(Drop(list, n))
         /\ n \in DOMAIN list => Lists([list EXCEPT ![n] = v])
         /\ n \in DOMAIN list => Lists(Put(Drop(list, n), n, v))
<1>1. Lists(Put(list, n, v))
  BY DEF Lists, Put
<1>2. Lists(Drop(list, n))
  BY DEF Lists, Drop
<1>3. n \in DOMAIN list => Lists([list EXCEPT ![n] = v])
  BY DEF Lists
<1>4. Lists(Put(Drop(list, n), n, v))
  BY <1>2 DEF Lists, Put
<1>5. QED
  BY <1>1, <1>2, <1>3, <1>4

\* The profiles an item may be given are for its network, or it is not configured.
LEMMA ChosenMatch ==
  ASSUME NEW n \in Name, NEW s \in Ssid
  PROVE  /\ Chosen(n, s) \subseteq {Taken(c) : c \in Matching(n, s)} \cup {Free}
         /\ Chosen(n, s) \subseteq Item
<1> DEFINE all    == Matching(n, s)
           active == {c \in all : ActiveOn(c, n)}
           best   == CASE active # {} -> active
                       [] active = {} /\ all \ Hotspot # {} -> all \ Hotspot
                       [] active = {} /\ all \ Hotspot = {} -> all
<1>1. all \subseteq Conn /\ active \subseteq all
  BY DEF Matching
<1>2. Chosen(n, s) = IF all = {} THEN {Free} ELSE {Taken(c) : c \in best}
  BY DEF Chosen
<1>3. best \subseteq all
  <2> HIDE DEF all, active
  <2>1. CASE active # {}
    BY <1>1, <2>1
  <2>2. CASE active = {} /\ all \ Hotspot # {}
    BY <2>2
  <2>3. CASE active = {} /\ all \ Hotspot = {}
    BY <2>3
  <2>4. QED
    BY <2>1, <2>2, <2>3
<1> HIDE DEF all, best
<1>4. Chosen(n, s) \subseteq {Taken(c) : c \in all} \cup {Free}
  BY <1>2, <1>3
<1>5. \A c \in all : Taken(c) \in Item
  BY <1>1 DEF Taken, Item
<1>6. QED
  BY <1>4, <1>5 DEF all, Item

\* kyWirelessNetItemListInit shows an item for every entry of a listed device.
LEMMA ListInitShows ==
  ASSUME TypeOK, ListsInv, NetsInv, m_initFinished, ListInit
  PROVE  /\ Lists(m_WifiNetworkList')
         /\ \A n \in Name, s \in Ssid :
              /\ Len(Shown(n, s)') = Bound(n, s)
              /\ \A i \in DOMAIN Shown(n, s)' : Shown(n, s)'[i] \in Chosen(n, s)
<1> DEFINE listed == {net \in Network : Entries(net) > 0 /\ m_devices[net[1]] > 0}
           names  == {nmName[net[1]] : net \in listed}
           of(n, s) == {net \in listed : nmName[net[1]] = n /\ net[2] = s}
           count(n, s) == IF of(n, s) = {} THEN 0 ELSE Entries(CHOOSE net \in of(n, s) : TRUE)
<1>1. PICK pick \in [names \X Ssid -> Item] :
        /\ \A n \in names, s \in Ssid : pick[<<n, s>>] \in Chosen(n, s)
        /\ m_WifiNetworkList' =
             [n \in names |-> [s \in Ssid |-> [i \in 1..count(n, s) |-> pick[<<n, s>>]]]]
  BY DEF ListInit
<1>2. \A d \in Device : m_devices[d] > 0 <=> d \in nmDevice
  BY DEF ListsInv, One
<1>3. names \subseteq Name
  BY DEF TypeOK
<1>4. ASSUME NEW n \in Name, NEW s \in Ssid
      PROVE  count(n, s) = Bound(n, s) /\ (n \notin names => Bound(n, s) = 0)
  <2>1. CASE \E net \in of(n, s) : TRUE
    <3>1. PICK net \in of(n, s) : net = CHOOSE other \in of(n, s) : TRUE
      BY <2>1
    <3>2. net \in Network /\ net[1] \in nmDevice /\ nmName[net[1]] = n /\ net = <<net[1], s>>
      BY <1>2, <3>1
    <3>3. Bound(n, s) = Entries(net)
      BY <3>2, BoundIs
    <3>4. count(n, s) = Entries(net) /\ n \in names
      BY <3>1
    <3>5. QED
      BY <3>3, <3>4
  <2>2. CASE of(n, s) = {}
    <3>1. count(n, s) = 0
      BY <2>2
    <3>2. Bound(n, s) = 0
      <4>1. ASSUME NEW d \in nmDevice, nmName[d] = n PROVE Entries(<<d, s>>) = 0
        <5>1. <<d, s>> \in Network /\ <<d, s>>[1] = d /\ <<d, s>>[2] = s
          BY DEF TypeOK
        <5>2. ~(Entries(<<d, s>>) > 0)
          BY <1>2, <2>2, <4>1, <5>1
        <5>3. Entries(<<d, s>>) \in Nat
          BY <5>1 DEF Entries, TypeOK
        <5>4. QED
          BY <5>2, <5>3
      <4>2. QED
        BY <4>1, BoundIs
    <3>3. QED
      BY <3>1, <3>2
  <2>3. QED
    BY <2>1, <2>2
<1>5. \A n \in Name, s \in Ssid : Bound(n, s) \in Nat
  BY BoundIs
<1>6. \A n \in names, s \in Ssid : pick[<<n, s>>] \in Item /\ count(n, s) \in Nat
  <2> SUFFICES ASSUME NEW n \in names, NEW s \in Ssid
               PROVE  pick[<<n, s>>] \in Item /\ count(n, s) \in Nat
    OBVIOUS
  <2>1. n \in Name
    BY <1>3
  <2>2. count(n, s) \in Nat
    BY <1>4, <1>5, <2>1
  <2>3. pick[<<n, s>>] \in Chosen(n, s)
    BY <1>1
  <2>4. QED
    BY <2>1, <2>2, <2>3, ChosenMatch
<1> HIDE DEF names, count
<1>7. \A n \in names, s \in Ssid : [i \in 1..count(n, s) |-> pick[<<n, s>>]] \in Seq(Item)
  BY <1>6
<1>8. Lists(m_WifiNetworkList')
  <2>1. \A n \in names : [s \in Ssid |-> [i \in 1..count(n, s) |-> pick[<<n, s>>]]] \in [Ssid -> Seq(Item)]
    BY <1>7
  <2>2. QED
    BY <1>1, <1>3, <2>1 DEF Lists
<1>9. ASSUME NEW n \in Name, NEW s \in Ssid
      PROVE  /\ Len(Shown(n, s)') = Bound(n, s)
             /\ \A i \in DOMAIN Shown(n, s)' : Shown(n, s)'[i] \in Chosen(n, s)
  <2>1. CASE n \in names
    <3>1. Shown(n, s)' = [i \in 1..count(n, s) |-> pick[<<n, s>>]]
      BY <1>1, <2>1 DEF Shown
    <3>2. count(n, s) = Bound(n, s) /\ Bound(n, s) \in Nat
      BY <1>4, <1>5
    <3>3. pick[<<n, s>>] \in Chosen(n, s)
      BY <1>1, <2>1
    <3>4. QED
      BY <3>1, <3>2, <3>3
  <2>2. CASE n \notin names
    <3>1. Shown(n, s)' = <<>>
      BY <1>1, <2>2 DEF Shown
    <3>2. QED
      BY <1>4, <2>2, <3>1
  <2>3. QED
    BY <2>1, <2>2
<1>10. QED
  BY <1>8, <1>9
-----------------------------------------------------------------------------
(* What the handlers do with the items of one name and one ssid.           *)

MapType == DOMAIN m_deviceMap \subseteq Device /\ \A d \in DOMAIN m_deviceMap : m_deviceMap[d] \in Name

\* Who has the name, after the signal.
Left(n) == \E d \in Device : Holds(m_deviceMap, d, n) /\ ~Holds(m_deviceMap', d, n)
Came(n) == \E d \in Renamed : Holds(m_deviceMap', d, n)

\* An item as it was, without its profile, with one for its network, or compared anew
\* with the profile it holds.
SimilarItem(item, next, n, s) ==
  \/ next = item \/ next = Free
  \/ \E c \in Matching(n, s) : next = Taken(c)
  \/ /\ Msg.sig = "connectionUpdate" /\ m_connections[Msg.obj] > 0
     /\ item.conn = Msg.obj /\ next = Updated(Msg.obj, s)

\* As many items as before; and an interface's only item of the profile that the
\* signal is of was found.
Similar(items, next, n, s) ==
  /\ Len(next) = Len(items)
  /\ \A i \in DOMAIN items : SimilarItem(items[i], next[i], n, s)
  /\ /\ Msg.sig \in {"connectionRemove", "connectionUpdate"}
     /\ Msg.obj \notin HeldTwice(m_WifiNetworkList)
     => \A i \in DOMAIN items : next[i].conn = Msg.obj =>
          /\ Msg.sig = "connectionUpdate"
          /\ m_connections[Msg.obj] > 0 => next[i] = Updated(Msg.obj, s)

Stays(n, s) ==
  /\ ~Left(n)
  /\ \/ Msg # RemovedOf(n, s) /\ Similar(Shown(n, s), Shown(n, s)', n, s)
     \/ /\ Msg = RemovedOf(n, s)
        /\ Shown(n, s)' = IF Shown(n, s) = <<>> THEN <<>> ELSE Tail(Shown(n, s))
     \/ Msg = Added(n, s) /\ \E c \in Chosen(n, s) : Shown(n, s)' = <<c>>
     \/ /\ Msg.sig = "wifiNetworkDeviceDisappear" /\ Len(Shown(n, s)') = Bound(n, s)
        /\ \A i \in DOMAIN Shown(n, s)' : Shown(n, s)'[i] \in Chosen(n, s)

Result(n, s) ==
  /\ \/ Left(n) /\ Shown(n, s)' = <<>>
     \/ Msg.sig = "deviceUpdate" /\ Came(n) /\ \E o \in Name : Shown(n, s)' = Shown(o, s)
     \/ Stays(n, s)
  /\ Msg = Added(n, s) /\ (\E net \in nmNetwork : nmName[net[1]] = n /\ net[2] = s) =>
       Shown(n, s)' # <<>>

\* The handler follows the names the signal tells of.
Follows ==
  \A k : IsMap(m_deviceMap) /\ Tells(m_deviceMap, Msg, k) =>
    m_deviceMap' = k /\ \A n \in Name, s \in Ssid : Result(n, s)

\* The signal at the head of the queue, and what the handlers leave alone.
LEMMA HeadFine ==
  ASSUME feed \in Seq(FineSignal), feed # <<>>
  PROVE  Msg \in FineSignal /\ Tail(feed) \in Seq(FineSignal) /\ WellFormed(Msg) /\ Msg = feed[1]
  BY DEF Msg, FineSignal

LEMMA ShownTypes ==
  ASSUME Lists(m_WifiNetworkList), NEW n \in Name, NEW s \in Ssid
  PROVE  Shown(n, s) \in Seq(Item)
  BY DEF Lists, Shown

LEMMA ShownTypesNext ==
  ASSUME Lists(m_WifiNetworkList'), NEW n \in Name, NEW s \in Ssid
  PROVE  Shown(n, s)' \in Seq(Item)
  BY DEF Lists, Shown

\* The items under a name, in a list that was changed at one name.
LEMMA ShownNext ==
  ASSUME Lists(m_WifiNetworkList), NEW k \in Name, NEW v \in [Ssid -> Seq(Item)]
  PROVE  /\ m_WifiNetworkList' = Put(m_WifiNetworkList, k, v) =>
              \A n \in Name, s \in Ssid : Shown(n, s)' = IF n = k THEN v[s] ELSE Shown(n, s)
         /\ m_WifiNetworkList' = Drop(m_WifiNetworkList, k) =>
              \A n \in Name, s \in Ssid : Shown(n, s)' = IF n = k THEN <<>> ELSE Shown(n, s)
         /\ k \in DOMAIN m_WifiNetworkList /\ m_WifiNetworkList' = [m_WifiNetworkList EXCEPT ![k] = v] =>
              \A n \in Name, s \in Ssid : Shown(n, s)' = IF n = k THEN v[s] ELSE Shown(n, s)
<1>1. m_WifiNetworkList' = Put(m_WifiNetworkList, k, v) =>
        \A n \in Name, s \in Ssid : Shown(n, s)' = IF n = k THEN v[s] ELSE Shown(n, s)
  BY DEF Shown, Put
<1>2. m_WifiNetworkList' = Drop(m_WifiNetworkList, k) =>
        \A n \in Name, s \in Ssid : Shown(n, s)' = IF n = k THEN <<>> ELSE Shown(n, s)
  BY DEF Shown, Drop
<1>3. k \in DOMAIN m_WifiNetworkList /\ m_WifiNetworkList' = [m_WifiNetworkList EXCEPT ![k] = v] =>
        \A n \in Name, s \in Ssid : Shown(n, s)' = IF n = k THEN v[s] ELSE Shown(n, s)
  BY DEF Shown
<1>4. QED
  BY <1>1, <1>2, <1>3

\* Items that are as they were.
LEMMA SameStays ==
  ASSUME NEW n \in Name, NEW s \in Ssid, Shown(n, s)' = Shown(n, s), ~Left(n),
         Msg # RemovedOf(n, s), Msg.sig \notin {"connectionRemove", "connectionUpdate"}
  PROVE  Stays(n, s)
  BY DEF Stays, Similar, SimilarItem

\* onDeviceAdd.
LEMMA DeviceAddResult ==
  ASSUME Lists(m_WifiNetworkList), MapType, feed \in Seq(FineSignal), OnDeviceAdd
  PROVE  Lists(m_WifiNetworkList') /\ MapType' /\ Follows
<1> DEFINE n == Msg.arg[1]
           L == m_WifiNetworkList
<1>1. /\ feed # <<>> /\ Msg.sig = "deviceAdd" /\ m_deviceMap' = Put(m_deviceMap, Msg.obj, n)
      /\ m_WifiNetworkList' = IF n \in DOMAIN L THEN L ELSE Put(L, n, NoItems)
  BY DEF OnDeviceAdd, Handling, Msg
<1>2. Msg.obj \in Device /\ n \in Name
  BY <1>1, HeadFine DEF WellFormed, DeviceSignal
<1>3. NoItems \in [Ssid -> Seq(Item)]
  BY DEF NoItems
<1>4. Lists(m_WifiNetworkList')
  BY <1>1, <1>2, <1>3, ListsReplaced
<1>5. MapType'
  BY <1>1, <1>2 DEF MapType, Put
<1>6. \A o \in Name, s \in Ssid : Shown(o, s)' = Shown(o, s)
  <2>1. CASE n \in DOMAIN L
    BY <1>1, <2>1 DEF Shown
  <2>2. CASE n \notin DOMAIN L
    <3>1. \A s \in Ssid : Shown(n, s) = <<>> /\ NoItems[s] = <<>>
      BY <2>2 DEF Shown, NoItems
    <3>2. m_WifiNetworkList' = Put(L, n, NoItems)
      BY <1>1, <2>2
    <3>3. \A o \in Name, s \in Ssid : Shown(o, s)' = IF o = n THEN NoItems[s] ELSE Shown(o, s)
      BY <1>2, <1>3, <3>2, ShownNext
    <3>4. QED
      BY <3>1, <3>3
  <2>3. QED
    BY <2>1, <2>2
<1>7. Follows
  <2> SUFFICES ASSUME NEW k, Tells(m_deviceMap, Msg, k)
               PROVE  m_deviceMap' = k /\ \A o \in Name, s \in Ssid : Result(o, s)
    BY DEF Follows
  <2>1. Msg.obj \notin DOMAIN m_deviceMap /\ k = Put(m_deviceMap, Msg.obj, n)
    BY <1>1 DEF Tells
  <2> SUFFICES ASSUME NEW o \in Name, NEW s \in Ssid PROVE Result(o, s)
    BY <1>1, <2>1
  <2>2. ~Left(o)
    BY <1>1, <2>1 DEF Left, Holds, Put
  <2>3. Msg # RemovedOf(o, s) /\ Msg # Added(o, s)
    BY <1>1 DEF RemovedOf, Added
  <2>4. Stays(o, s)
    BY <1>1, <1>6, <2>2, <2>3, SameStays
  <2>5. QED
    BY <1>1, <2>1, <2>3, <2>4 DEF Result
<1>8. QED
  BY <1>4, <1>5, <1>7

\* onDeviceRemove.
LEMMA DeviceRemoveResult ==
  ASSUME Lists(m_WifiNetworkList), MapType, feed \in Seq(FineSignal), OnDeviceRemove
  PROVE  Lists(m_WifiNetworkList') /\ MapType' /\ Follows
<1> DEFINE n == Msg.arg[1]
<1>1. /\ feed # <<>> /\ Msg.sig = "deviceRemove" /\ m_deviceMap' = Drop(m_deviceMap, Msg.obj)
      /\ m_WifiNetworkList' = Drop(m_WifiNetworkList, n)
  BY DEF OnDeviceRemove, Handling, Msg
<1>2. Msg.obj \in Device /\ n \in Name
  BY <1>1, HeadFine DEF WellFormed, DeviceSignal
<1>3. NoItems \in [Ssid -> Seq(Item)]
  BY DEF NoItems
<1>4. Lists(m_WifiNetworkList')
  BY <1>1, <1>2, <1>3, ListsReplaced
<1>5. MapType'
  BY <1>1, <1>2 DEF MapType, Drop
<1>6. \A o \in Name, s \in Ssid : Shown(o, s)' = IF o = n THEN <<>> ELSE Shown(o, s)
  BY <1>1, <1>2, <1>3, ShownNext
<1>7. Follows
  <2> SUFFICES ASSUME NEW k, Tells(m_deviceMap, Msg, k)
               PROVE  m_deviceMap' = k /\ \A o \in Name, s \in Ssid : Result(o, s)
    BY DEF Follows
  <2>1. Msg.obj \in DOMAIN m_deviceMap /\ m_deviceMap[Msg.obj] = n /\ k = Drop(m_deviceMap, Msg.obj)
    BY <1>1 DEF Tells
  <2> SUFFICES ASSUME NEW o \in Name, NEW s \in Ssid PROVE Result(o, s)
    BY <1>1, <2>1
  <2>3. Msg # RemovedOf(o, s) /\ Msg # Added(o, s)
    BY <1>1 DEF RemovedOf, Added
  <2>4. CASE o = n
    <3>1. Left(o)
      BY <1>1, <1>2, <2>1, <2>4 DEF Left, Holds, Drop
    <3>2. QED
      BY <1>1, <1>6, <2>1, <2>3, <2>4, <3>1 DEF Result
  <2>5. CASE o # n
    <3>1. ~Left(o)
      BY <1>1, <2>1, <2>5 DEF Left, Holds, Drop
    <3>2. Stays(o, s)
      BY <1>1, <1>6, <2>3, <2>5, <3>1, SameStays
    <3>3. QED
      BY <1>1, <2>1, <2>3, <3>2 DEF Result
  <2>6. QED
    BY <2>4, <2>5
<1>8. QED
  BY <1>4, <1>5, <1>7

\* onDeviceUpdate.
LEMMA DeviceUpdateResult ==
  ASSUME Lists(m_WifiNetworkList), MapType, feed \in Seq(FineSignal), OnDeviceUpdate
  PROVE  Lists(m_WifiNetworkList') /\ MapType' /\ Follows
<1> DEFINE d   == Msg.obj
           new == Msg.arg[1]
           old == m_deviceMap[d]
           L   == m_WifiNetworkList
<1>1. /\ feed # <<>> /\ Msg.sig = "deviceUpdate"
      /\ IF d \notin DOMAIN m_deviceMap \/ old = new THEN UNCHANGED copy
         ELSE /\ m_deviceMap' = [m_deviceMap EXCEPT ![d] = new]
              /\ m_WifiNetworkList' =
                   IF old \notin DOMAIN L THEN L ELSE Put(Drop(L, old), new, L[old])
  BY DEF OnDeviceUpdate, OnDeviceNameUpdate, Handling, Msg
<1>2. d \in Device /\ new \in Name
  BY <1>1, HeadFine DEF WellFormed, DeviceSignal
<1>3. \A o, s : Msg # RemovedOf(o, s) /\ Msg # Added(o, s)
  BY <1>1 DEF RemovedOf, Added
<1>4. CASE d \notin DOMAIN m_deviceMap \/ old = new
  <2>1. m_deviceMap' = m_deviceMap /\ m_WifiNetworkList' = m_WifiNetworkList
    BY <1>1, <1>4 DEF copy
  <2>2. Lists(m_WifiNetworkList') /\ MapType'
    BY <2>1 DEF MapType, Lists
  <2>3. Follows
    <3> SUFFICES ASSUME NEW k, IsMap(m_deviceMap), Tells(m_deviceMap, Msg, k)
                 PROVE  m_deviceMap' = k /\ \A o \in Name, s \in Ssid : Result(o, s)
      BY DEF Follows
    <3>1. d \in DOMAIN m_deviceMap /\ k = [m_deviceMap EXCEPT ![d] = new] /\ old = new
      BY <1>1, <1>4 DEF Tells
    <3>2. k = m_deviceMap
      BY <3>1 DEF IsMap
    <3> SUFFICES ASSUME NEW o \in Name, NEW s \in Ssid PROVE Result(o, s)
      BY <2>1, <3>2
    <3>3. Shown(o, s)' = Shown(o, s) /\ ~Left(o)
      BY <2>1 DEF Shown, Left, Holds
    <3>4. Stays(o, s)
      BY <1>1, <1>3, <3>3, SameStays
    <3>5. QED
      BY <1>3, <2>1, <3>2, <3>4 DEF Result
  <2>4. QED
    BY <2>2, <2>3
<1>5. CASE d \in DOMAIN m_deviceMap /\ old # new
  <2>1. old \in Name /\ m_deviceMap' = [m_deviceMap EXCEPT ![d] = new]
    BY <1>1, <1>5 DEF MapType
  <2>2. MapType'
    BY <1>2, <2>1 DEF MapType
  <2>3. Lists(m_WifiNetworkList')
    <3>1. CASE old \in DOMAIN L
      <4>1. L[old] \in [Ssid -> Seq(Item)]
        BY <3>1 DEF Lists
      <4>2. Lists(Drop(L, old))
        BY <2>1, <4>1, ListsReplaced
      <4>3. Lists(Put(Drop(L, old), new, L[old]))
        BY <1>2, <4>1, <4>2, ListsReplaced
      <4>4. QED
        BY <1>1, <1>5, <3>1, <4>3
    <3>2. CASE old \notin DOMAIN L
      BY <1>1, <1>5, <3>2
    <3>3. QED
      BY <3>1, <3>2
  <2>4. \A o \in Name, s \in Ssid :
          /\ o \notin {old, new} => Shown(o, s)' = Shown(o, s)
          /\ o = old => Shown(o, s)' = <<>>
          /\ o = new => Shown(o, s)' \in {Shown(old, s), Shown(o, s)}
    <3>1. CASE old \in DOMAIN L
      <4>1. m_WifiNetworkList' = Put(Drop(L, old), new, L[old])
        BY <1>1, <1>5, <3>1
      <4>2. DOMAIN m_WifiNetworkList' = (DOMAIN L \ {old}) \cup {new}
            /\ m_WifiNetworkList'[new] = L[old]
            /\ \A o \in DOMAIN L \ {old, new} : m_WifiNetworkList'[o] = L[o]
        BY <4>1 DEF Put, Drop
      <4>3. QED
        BY <1>5, <3>1, <4>2 DEF Shown
    <3>2. CASE old \notin DOMAIN L
      BY <1>1, <1>5, <3>2 DEF Shown
    <3>3. QED
      BY <3>1, <3>2
  <2>5. Follows
    <3> SUFFICES ASSUME NEW k, IsMap(m_deviceMap), Tells(m_deviceMap, Msg, k)
                 PROVE  m_deviceMap' = k /\ \A o \in Name, s \in Ssid : Result(o, s)
      BY DEF Follows
    <3>1. k = [m_deviceMap EXCEPT ![d] = new] /\ d \in Renamed
      BY <1>1, <1>5 DEF Tells
    <3> SUFFICES ASSUME NEW o \in Name, NEW s \in Ssid PROVE Result(o, s)
      BY <2>1, <3>1
    <3>2. CASE o = old
      <4>1. Left(o)
        BY <1>2, <1>5, <2>1, <3>2 DEF Left, Holds
      <4>2. QED
        BY <1>3, <2>1, <2>4, <3>1, <3>2, <4>1 DEF Result
    <3>3. CASE o = new
      <4>1. Came(o)
        BY <1>5, <2>1, <3>1, <3>3 DEF Came, Holds
      <4>2. \E p \in Name : Shown(o, s)' = Shown(p, s)
        BY <1>2, <2>1, <2>4, <3>3
      <4>3. QED
        BY <1>1, <1>3, <2>1, <3>1, <4>1, <4>2 DEF Result
    <3>4. CASE o \notin {old, new}
      <4>1. ~Left(o)
        BY <1>5, <2>1, <3>4 DEF Left, Holds
      <4>2. Stays(o, s)
        BY <1>1, <1>3, <2>4, <3>4, <4>1, SameStays
      <4>3. QED
        BY <1>3, <2>1, <3>1, <4>2 DEF Result
    <3>5. QED
      BY <3>2, <3>3, <3>4
  <2>6. QED
    BY <2>2, <2>3, <2>5
<1>6. QED
  BY <1>4, <1>5
\* A signal that is of no device.
LEMMA MapStays ==
  ASSUME MapType, m_deviceMap' = m_deviceMap, Msg.sig \notin DeviceSignal
  PROVE  /\ MapType' /\ \A n : ~Left(n)
         /\ (\A n \in Name, s \in Ssid : Result(n, s)) => Follows
<1>1. MapType' /\ \A n : ~Left(n)
  BY DEF MapType, Left, Holds
<1>2. \A k : Tells(m_deviceMap, Msg, k) => m_deviceMap' = k
  BY DEF Tells, DeviceSignal
<1>3. QED
  BY <1>1, <1>2 DEF Follows

\* onWifiNetworkAdded.
LEMMA AddedResult ==
  ASSUME TypeOK, ListsInv, NetsInv, m_initFinished,
         Lists(m_WifiNetworkList), MapType, feed \in Seq(FineSignal), OnWifiNetworkAdded
  PROVE  Lists(m_WifiNetworkList') /\ MapType' /\ Follows
<1> DEFINE n == Msg.arg[1]
           s == Msg.arg[2]
           L == m_WifiNetworkList
           here == IF n \in DOMAIN L THEN L[n] ELSE NoItems
           known == \E d \in FindDeviceInterface(n) : <<d, s>> \in nmNetwork
<1>1. /\ feed # <<>> /\ Msg.sig = "wifiNetworkAdded" /\ m_deviceMap' = m_deviceMap
      /\ IF known THEN \E c \in Chosen(n, s) :
                         m_WifiNetworkList' = Put(L, n, [here EXCEPT ![s] = <<c>>])
                  ELSE m_WifiNetworkList' = L
  BY DEF OnWifiNetworkAdded, Handling, Msg
<1>2. n \in Name /\ Msg.sig \notin DeviceSignal
  BY <1>1, HeadFine DEF WellFormed, DeviceSignal
<1>3. Msg = Added(n, s)
  <2>1. Msg \in Signal /\ Msg.obj = NoObject /\ Msg.arg = <<n, s>>
    BY <1>1, HeadFine DEF WellFormed, FineSignal
  <2>2. QED
    BY <1>1, <2>1 DEF Added, Signal
<1>4. \A o, x : Msg # RemovedOf(o, x) /\ (Msg = Added(o, x) => o = n /\ x = s)
  BY <1>1, <1>3 DEF RemovedOf, Added
<1>5. here \in [Ssid -> Seq(Item)] /\ \A x \in Ssid : here[x] = Shown(n, x)
  BY <1>2 DEF Lists, NoItems, Shown
<1> HIDE DEF here
<1>6. \A d \in nmDevice : nmName[d] = n => d \in FindDeviceInterface(n)
  BY DEF ListsInv, One, FindDeviceInterface, TypeOK
<1>7. (\E net \in nmNetwork : nmName[net[1]] = n /\ net[2] = s) => known
  <2>1. ASSUME NEW net \in nmNetwork, nmName[net[1]] = n, net[2] = s PROVE known
    <3>1. net[1] \in nmDevice /\ net = <<net[1], s>>
      BY <2>1 DEF NetsInv
    <3>2. QED
      BY <1>6, <2>1, <3>1
  <2>2. QED
    BY <2>1
<1>11. known => s \in Ssid
  BY DEF TypeOK
<1> HIDE DEF known
<1>8. CASE known
  <2>0. s \in Ssid
    BY <1>8, <1>11
  <2>1. PICK c \in Chosen(n, s) : m_WifiNetworkList' = Put(L, n, [here EXCEPT ![s] = <<c>>])
    BY <1>1, <1>8
  <2> DEFINE v == [here EXCEPT ![s] = <<c>>]
  <2>2. c \in Item
    BY <1>2, <2>0, ChosenMatch
  <2>3. v \in [Ssid -> Seq(Item)] /\ v[s] = <<c>> /\ \A x \in Ssid : x # s => v[x] = here[x]
    BY <1>5, <2>0, <2>2
  <2> HIDE DEF v
  <2>4. m_WifiNetworkList' = Put(L, n, v)
    BY <2>1 DEF v
  <2>5. Lists(m_WifiNetworkList')
    BY <1>2, <2>3, <2>4, ListsReplaced
  <2>6. \A o \in Name, x \in Ssid : Shown(o, x)' = IF o = n THEN v[x] ELSE Shown(o, x)
    BY <1>2, <2>3, <2>4, ShownNext
  <2>7. ASSUME NEW o \in Name, NEW x \in Ssid PROVE Result(o, x)
    <3>1. CASE o = n /\ x = s
      <4>1. Shown(o, x)' = <<c>> /\ <<c>> # <<>>
        BY <2>3, <2>6, <3>1
      <4>2. Stays(o, x)
        BY <1>1, <1>2, <1>3, <2>0, <3>1, <4>1, MapStays DEF Stays
      <4>3. QED
        BY <4>1, <4>2 DEF Result
    <3>2. CASE ~(o = n /\ x = s)
      <4>1. Shown(o, x)' = Shown(o, x)
        BY <1>5, <2>3, <2>6, <3>2
      <4>2. Stays(o, x)
        BY <1>1, <1>2, <1>4, <4>1, MapStays, SameStays
      <4>3. QED
        BY <1>4, <3>2, <4>2 DEF Result
    <3>3. QED
      BY <3>1, <3>2
  <2>8. QED
    BY <1>1, <1>2, <2>5, <2>7, MapStays
<1>9. CASE ~known
  <2>1. m_WifiNetworkList' = L
    BY <1>1, <1>9
  <2>2. Lists(m_WifiNetworkList')
    BY <2>1
  <2>3. ASSUME NEW o \in Name, NEW x \in Ssid PROVE Result(o, x)
    <3>1. Shown(o, x)' = Shown(o, x)
      BY <2>1 DEF Shown
    <3>2. Stays(o, x)
      BY <1>1, <1>2, <1>4, <3>1, MapStays, SameStays
    <3>3. ~(Msg = Added(o, x) /\ \E net \in nmNetwork : nmName[net[1]] = o /\ net[2] = x)
      BY <1>4, <1>7, <1>9
    <3>4. QED
      BY <3>2, <3>3 DEF Result
  <2>4. QED
    BY <1>1, <1>2, <2>2, <2>3, MapStays
<1>10. QED
  BY <1>8, <1>9

\* onWifiNetworkRemoved.
LEMMA RemovedResult ==
  ASSUME Lists(m_WifiNetworkList), MapType, feed \in Seq(FineSignal), OnWifiNetworkRemoved
  PROVE  Lists(m_WifiNetworkList') /\ MapType' /\ Follows
<1> DEFINE n == Msg.arg[1]
           s == Of(Msg.arg[2])
           L == m_WifiNetworkList
           left == [L[n] EXCEPT ![s] = Tail(@)]
<1>1. /\ feed # <<>> /\ Msg.sig = "wifiNetworkRemoved" /\ m_deviceMap' = m_deviceMap
      /\ IF n \in DOMAIN L /\ L[n][s] # <<>>
           THEN m_WifiNetworkList' = IF left = NoItems THEN Drop(L, n) ELSE [L EXCEPT ![n] = left]
           ELSE m_WifiNetworkList' = L
  BY DEF OnWifiNetworkRemoved, Handling, Msg
<1>2. n \in Name /\ s \in Ssid /\ Text[s] = Msg.arg[2] /\ Msg.sig \notin DeviceSignal
  <2>1. n \in Name /\ Msg.arg[2] \in {Text[x] : x \in Ssid}
    BY <1>1, HeadFine DEF WellFormed
  <2>2. s \in Ssid /\ Text[s] = Msg.arg[2]
    BY <2>1 DEF Of
  <2>3. QED
    BY <1>1, <2>1, <2>2 DEF DeviceSignal
<1>3. Msg = RemovedOf(n, s)
  <2>1. Msg \in Signal /\ Msg.obj = NoObject /\ Msg.arg = <<n, Text[s]>>
    <3>1. Msg \in Signal /\ Msg.obj = NoObject /\ Msg.arg = <<n, Msg.arg[2]>>
      BY <1>1, HeadFine DEF WellFormed, FineSignal
    <3>2. QED
      BY <1>2, <3>1
  <2>2. QED
    BY <1>1, <2>1 DEF RemovedOf, Signal
<1>4. /\ \A o, x : Msg # Added(o, x)
      /\ \A o, x : x \in Ssid /\ Msg = RemovedOf(o, x) => o = n /\ x = s
  BY <1>1, <1>2, <1>3, TextAssumption DEF RemovedOf, Added
<1> HIDE DEF s
<1>5. /\ Lists(m_WifiNetworkList')
      /\ \A o \in Name, x \in Ssid : ~(o = n /\ x = s) => Shown(o, x)' = Shown(o, x)
      /\ \A o \in Name, x \in Ssid : (o = n /\ x = s) =>
           Shown(o, x)' = IF Shown(o, x) = <<>> THEN <<>> ELSE Tail(Shown(o, x))
  <2>1. CASE n \in DOMAIN L /\ L[n][s] # <<>>
    <3>1. L[n] \in [Ssid -> Seq(Item)]
      BY <2>1 DEF Lists
    <3>2. left \in [Ssid -> Seq(Item)] /\ left[s] = Tail(L[n][s])
          /\ \A x \in Ssid : x # s => left[x] = L[n][x]
      BY <1>2, <2>1, <3>1
    <3>3. \A x \in Ssid : Shown(n, x) = L[n][x]
      BY <2>1 DEF Shown
    <3> HIDE DEF left
    <3>4. /\ Shown(n, s) # <<>> /\ left[s] = Tail(Shown(n, s))
          /\ \A x \in Ssid : x # s => left[x] = Shown(n, x)
      BY <1>2, <2>1, <3>2, <3>3
    <3>5. /\ Lists(m_WifiNetworkList')
          /\ \A o \in Name, x \in Ssid : Shown(o, x)' = IF o = n THEN left[x] ELSE Shown(o, x)
      <4>1. CASE left = NoItems
        <5>1. m_WifiNetworkList' = Drop(L, n)
          BY <1>1, <2>1, <4>1
        <5>2. \A o \in Name, x \in Ssid : Shown(o, x)' = IF o = n THEN <<>> ELSE Shown(o, x)
          BY <1>2, <3>2, <5>1, ShownNext
        <5>3. \A x \in Ssid : left[x] = <<>>
          BY <4>1 DEF NoItems
        <5>4. Lists(m_WifiNetworkList')
          BY <1>2, <3>2, <5>1, ListsReplaced
        <5>5. QED
          BY <5>2, <5>3, <5>4
      <4>2. CASE left # NoItems
        <5>1. m_WifiNetworkList' = [L EXCEPT ![n] = left]
          BY <1>1, <2>1, <4>2
        <5>2. \A o \in Name, x \in Ssid : Shown(o, x)' = IF o = n THEN left[x] ELSE Shown(o, x)
          BY <1>2, <2>1, <3>2, <5>1, ShownNext
        <5>3. Lists(m_WifiNetworkList')
          BY <1>2, <2>1, <3>2, <5>1, ListsReplaced
        <5>4. QED
          BY <5>2, <5>3
      <4>3. QED
        BY <4>1, <4>2
    <3>6. QED
      BY <3>4, <3>5
  <2>2. CASE ~(n \in DOMAIN L /\ L[n][s] # <<>>)
    <3>1. m_WifiNetworkList' = L
      BY <1>1, <2>2
    <3>2. Shown(n, s) = <<>>
      BY <2>2 DEF Shown
    <3>3. \A o, x : Shown(o, x)' = Shown(o, x)
      BY <3>1 DEF Shown
    <3>4. QED
      BY <3>1, <3>2, <3>3
  <2>3. QED
    BY <2>1, <2>2
<1>6. ASSUME NEW o \in Name, NEW x \in Ssid PROVE Result(o, x)
  <2>1. ~Left(o)
    BY <1>1, <1>2, MapStays
  <2>2. CASE o = n /\ x = s
    <3>1. Stays(o, x)
      BY <1>3, <1>5, <2>1, <2>2 DEF Stays
    <3>2. QED
      BY <1>4, <3>1 DEF Result
  <2>3. CASE ~(o = n /\ x = s)
    <3>1. Shown(o, x)' = Shown(o, x)
      BY <1>5, <2>3
    <3>2. Stays(o, x)
      BY <1>1, <1>4, <2>1, <2>3, <3>1, SameStays
    <3>3. QED
      BY <1>4, <3>2 DEF Result
  <2>4. QED
    BY <2>2, <2>3
<1>7. QED
  BY <1>1, <1>2, <1>5, <1>6, MapStays

\* onWifiNetworkDeviceDisappear.
LEMMA DisappearResult ==
  ASSUME TypeOK, ListsInv, NetsInv, m_initFinished,
         Lists(m_WifiNetworkList), MapType, feed \in Seq(FineSignal), OnWifiNetworkDeviceDisappear
  PROVE  Lists(m_WifiNetworkList') /\ MapType' /\ Follows
<1>1. Msg.sig = "wifiNetworkDeviceDisappear" /\ m_deviceMap' = m_deviceMap /\ ListInit
  BY DEF OnWifiNetworkDeviceDisappear, Handling, Msg
<1>2. /\ Lists(m_WifiNetworkList')
      /\ \A n \in Name, s \in Ssid :
           /\ Len(Shown(n, s)') = Bound(n, s)
           /\ \A i \in DOMAIN Shown(n, s)' : Shown(n, s)'[i] \in Chosen(n, s)
  BY <1>1, ListInitShows
<1>3. MapType' /\ \A n : ~Left(n)
  BY <1>1, MapStays DEF DeviceSignal
<1>4. \A n, s : Msg # Added(n, s)
  BY <1>1 DEF Added
<1>5. \A n \in Name, s \in Ssid : Result(n, s)
  BY <1>1, <1>2, <1>3, <1>4 DEF Result, Stays
<1>6. QED
  BY <1>1, <1>2, <1>3, <1>5, MapStays DEF DeviceSignal

\* A handler that changes items of the list it finds, and none of their number.
LEMMA ItemsResult ==
  ASSUME MapType, m_deviceMap' = m_deviceMap,
         Msg.sig \notin DeviceSignal \cup {"wifiNetworkAdded", "wifiNetworkRemoved"},
         \A n \in Name, s \in Ssid : Similar(Shown(n, s), Shown(n, s)', n, s)
  PROVE  MapType' /\ Follows
<1>1. \A n, s : Msg # RemovedOf(n, s) /\ Msg # Added(n, s)
  BY DEF RemovedOf, Added
<1>2. MapType' /\ \A n : ~Left(n)
  BY MapStays
<1>3. \A n \in Name, s \in Ssid : Result(n, s)
  BY <1>1, <1>2 DEF Result, Stays
<1>4. QED
  BY <1>2, <1>3, MapStays

\* onConnectionAdd.
LEMMA ConnectionAddResult ==
  ASSUME settings \in [Conn -> Settings],
         Lists(m_WifiNetworkList), MapType, feed \in Seq(FineSignal), OnConnectionAdd
  PROVE  Lists(m_WifiNetworkList') /\ MapType' /\ Follows
<1> DEFINE c == Msg.obj
           t == settings[c].ssid
           L == m_WifiNetworkList
           fits(n) == /\ m_connections[c] > 0 /\ settings[c].iface \in {n, AnyName}
                      /\ L[n][t] # <<>>
<1>1. /\ feed # <<>> /\ Msg.sig = "connectionAdd" /\ m_deviceMap' = m_deviceMap
      /\ m_WifiNetworkList' =
           [n \in DOMAIN L |-> IF fits(n) THEN [L[n] EXCEPT ![t][1] = Taken(c)] ELSE L[n]]
  BY DEF OnConnectionAdd, Handling, Msg
<1>2. c \in Conn /\ Taken(c) \in Item /\ t \in Ssid
  <2>1. c \in Conn
    BY <1>1, HeadFine DEF WellFormed
  <2>2. QED
    BY <2>1, ProfileAssumption DEF Item, Taken
<1>3. ASSUME NEW n \in DOMAIN L, NEW s \in Ssid
      PROVE  /\ m_WifiNetworkList'[n][s] \in Seq(Item)
             /\ Similar(L[n][s], m_WifiNetworkList'[n][s], n, s)
  <2>1. n \in Name /\ L[n] \in [Ssid -> Seq(Item)] /\ L[n][s] \in Seq(Item)
    BY DEF Lists
  <2>2. CASE fits(n) /\ s = t
    <3>1. m_WifiNetworkList'[n][s] = [L[n][s] EXCEPT ![1] = Taken(c)]
      BY <1>1, <2>1, <2>2
    <3>2. 1 \in DOMAIN L[n][s]
      BY <2>1, <2>2
    <3>3. c \in Matching(n, s)
      BY <1>2, <2>2 DEF Matching
    <3>4. /\ m_WifiNetworkList'[n][s] \in Seq(Item) /\ Len(m_WifiNetworkList'[n][s]) = Len(L[n][s])
          /\ m_WifiNetworkList'[n][s][1] = Taken(c)
          /\ \A j \in DOMAIN L[n][s] : j # 1 => m_WifiNetworkList'[n][s][j] = L[n][s][j]
      BY <1>2, <2>1, <3>1, <3>2, ItemReplaced
    <3>5. QED
      BY <1>1, <3>3, <3>4 DEF Similar, SimilarItem
  <2>3. CASE ~(fits(n) /\ s = t)
    <3>1. m_WifiNetworkList'[n][s] = L[n][s]
      BY <1>1, <2>1, <2>3
    <3>2. QED
      BY <1>1, <2>1, <3>1 DEF Similar, SimilarItem
  <2>4. QED
    BY <2>2, <2>3
<1>4. Lists(m_WifiNetworkList')
  <2>1. \A n \in DOMAIN L : L[n] \in [Ssid -> Seq(Item)]
    BY DEF Lists
  <2>2. \A n \in DOMAIN L : m_WifiNetworkList'[n] = [s \in Ssid |-> m_WifiNetworkList'[n][s]]
    BY <1>1, <2>1
  <2>3. QED
    BY <1>1, <1>3, <2>2 DEF Lists
<1>5. \A n \in Name, s \in Ssid : Similar(Shown(n, s), Shown(n, s)', n, s)
  <2>1. ASSUME NEW n \in Name, NEW s \in Ssid, n \notin DOMAIN L
        PROVE  Similar(Shown(n, s), Shown(n, s)', n, s)
    BY <1>1, <2>1 DEF Similar, Shown
  <2>2. DOMAIN m_WifiNetworkList' = DOMAIN L
    BY <1>1
  <2>3. QED
    BY <1>3, <2>1, <2>2 DEF Shown
<1>6. QED
  BY <1>1, <1>4, <1>5, ItemsResult DEF DeviceSignal

\* The first item that holds a profile.
LEMMA FirstOfHolds ==
  ASSUME NEW q \in Seq(Item), NEW c, \E i \in DOMAIN q : q[i].conn = c
  PROVE  FirstOf(q, c) \in DOMAIN q /\ q[FirstOf(q, c)].conn = c
<1> DEFINE T == {j \in DOMAIN q : q[j].conn = c}
<1>1. T \subseteq Nat /\ T # {}
  OBVIOUS
<1>2. \E i \in T : \A j \in T : i <= j
  <2> HIDE DEF T
  <2>1. QED
    BY <1>1, LeastNatural
<1>3. \E i \in DOMAIN q : q[i].conn = c /\ \A j \in DOMAIN q : q[j].conn = c => i <= j
  BY <1>2
<1>4. QED
  BY <1>3 DEF FirstOf

\* On every interface one item that holds c is replaced, if there is one.
LEMMA RewriteResult ==
  ASSUME Lists(m_WifiNetworkList), NEW c \in Conn, NEW item \in [Ssid -> Item], Rewrite(c, item)
  PROVE  /\ Lists(m_WifiNetworkList')
         /\ \A n \in Name, s \in Ssid :
              /\ Len(Shown(n, s)') = Len(Shown(n, s))
              /\ \A i \in DOMAIN Shown(n, s) :
                   /\ \/ Shown(n, s)'[i] = Shown(n, s)[i]
                      \/ Shown(n, s)[i].conn = c /\ Shown(n, s)'[i] = item[s]
                   /\ c \notin HeldTwice(m_WifiNetworkList) /\ Shown(n, s)[i].conn = c =>
                        Shown(n, s)'[i] = item[s]
<1> DEFINE L == m_WifiNetworkList
           held(n) == HeldFor(L[n], c)
<1>1. PICK pick \in [DOMAIN L -> Ssid] :
        /\ \A n \in DOMAIN L : held(n) # {} => pick[n] \in held(n)
        /\ m_WifiNetworkList' =
             [n \in DOMAIN L |->
                IF held(n) = {} THEN L[n]
                ELSE [L[n] EXCEPT ![pick[n]][FirstOf(L[n][pick[n]], c)] = item[pick[n]]]]
  BY DEF Rewrite
<1>2. ASSUME NEW n \in DOMAIN L, NEW s \in Ssid
      PROVE  LET q == L[n][s]
                 r == m_WifiNetworkList'[n][s]
             IN /\ r \in Seq(Item) /\ Len(r) = Len(q)
                /\ \A i \in DOMAIN q :
                     /\ r[i] = q[i] \/ (q[i].conn = c /\ r[i] = item[s])
                     /\ c \notin HeldTwice(L) /\ q[i].conn = c => r[i] = item[s]
  <2> DEFINE q == L[n][s]
             r == m_WifiNetworkList'[n][s]
             k == FirstOf(q, c)
  <2>1. n \in Name /\ L[n] \in [Ssid -> Seq(Item)] /\ q \in Seq(Item)
    BY DEF Lists
  <2>2. CASE held(n) # {} /\ s = pick[n]
    <3>1. s \in held(n)
      BY <1>1, <2>2
    <3>2. k \in DOMAIN q /\ q[k].conn = c
      BY <2>1, <3>1, FirstOfHolds DEF HeldFor
    <3>3. r = [q EXCEPT ![k] = item[s]]
      BY <1>1, <2>1, <2>2
    <3>4. item[s] \in Item
      OBVIOUS
    <3> HIDE DEF q, r, k
    <3>5. /\ r \in Seq(Item) /\ Len(r) = Len(q) /\ r[k] = item[s]
          /\ \A j \in DOMAIN q : j # k => r[j] = q[j]
      BY <2>1, <3>2, <3>3, <3>4, ItemReplaced
    <3>6. ASSUME NEW i \in DOMAIN q, c \notin HeldTwice(L), q[i].conn = c PROVE i = k
      <4>1. SUFFICES ASSUME i # k PROVE FALSE
        OBVIOUS
      <4>2. <<s, i>> # <<s, k>>
        BY <4>1
      <4>3. c \in HeldTwice(L)
        BY <3>2, <3>6, <4>2 DEF HeldTwice, q
      <4>4. QED
        BY <3>6, <4>3
    <3>7. QED
      BY <3>2, <3>5, <3>6 DEF q, r
  <2>3. CASE ~(held(n) # {} /\ s = pick[n])
    <3>1. r = q
      BY <1>1, <2>1, <2>3
    <3>2. ASSUME NEW i \in DOMAIN q, c \notin HeldTwice(L), q[i].conn = c PROVE FALSE
      <4>1. s \in held(n) /\ pick[n] # s
        BY <2>3, <3>2 DEF HeldFor
      <4>2. pick[n] \in Ssid /\ \E j \in DOMAIN L[n][pick[n]] : L[n][pick[n]][j].conn = c
        BY <1>1, <4>1 DEF HeldFor
      <4>3. PICK j \in DOMAIN L[n][pick[n]] : L[n][pick[n]][j].conn = c
        BY <4>2
      <4>4. <<s, i>> # <<pick[n], j>>
        BY <4>1
      <4>5. c \in HeldTwice(L)
        BY <3>2, <4>2, <4>3, <4>4 DEF HeldTwice
      <4>6. QED
        BY <3>2, <4>5
    <3> HIDE DEF q, r
    <3>3. QED
      BY <2>1, <3>1, <3>2 DEF q, r
  <2>4. QED
    BY <2>2, <2>3
<1>3. DOMAIN m_WifiNetworkList' = DOMAIN L
  BY <1>1
<1>4. Lists(m_WifiNetworkList')
  <2>1. \A n \in DOMAIN L : L[n] \in [Ssid -> Seq(Item)]
    BY DEF Lists
  <2>2. \A n \in DOMAIN L : m_WifiNetworkList'[n] = [s \in Ssid |-> m_WifiNetworkList'[n][s]]
    BY <1>1, <2>1
  <2>3. QED
    BY <1>2, <1>3, <2>2 DEF Lists
<1>5. ASSUME NEW n \in Name, NEW s \in Ssid
      PROVE  /\ Len(Shown(n, s)') = Len(Shown(n, s))
             /\ \A i \in DOMAIN Shown(n, s) :
                  /\ \/ Shown(n, s)'[i] = Shown(n, s)[i]
                     \/ Shown(n, s)[i].conn = c /\ Shown(n, s)'[i] = item[s]
                  /\ c \notin HeldTwice(L) /\ Shown(n, s)[i].conn = c =>
                       Shown(n, s)'[i] = item[s]
  <2>1. CASE n \in DOMAIN L
    <3>1. Shown(n, s) = L[n][s] /\ Shown(n, s)' = m_WifiNetworkList'[n][s]
      BY <1>3, <2>1 DEF Shown
    <3>2. QED
      BY <1>2, <2>1, <3>1
  <2>2. CASE n \notin DOMAIN L
    <3>1. Shown(n, s) = <<>> /\ Shown(n, s)' = <<>>
      BY <1>3, <2>2 DEF Shown
    <3>2. QED
      BY <3>1
  <2>3. QED
    BY <2>1, <2>2
<1>6. QED
  BY <1>4, <1>5

\* onConnectionRemove.
LEMMA ConnectionRemoveResult ==
  ASSUME Lists(m_WifiNetworkList), MapType, feed \in Seq(FineSignal), OnConnectionRemove
  PROVE  Lists(m_WifiNetworkList') /\ MapType' /\ Follows
<1> DEFINE c == Msg.obj
           item == [s \in Ssid |-> Free]
<1>1. /\ feed # <<>> /\ Msg.sig = "connectionRemove" /\ m_deviceMap' = m_deviceMap
      /\ Rewrite(c, item)
  BY DEF OnConnectionRemove, Handling, Msg
<1>2. c \in Conn
  BY <1>1, HeadFine DEF WellFormed
<1>3. item \in [Ssid -> Item] /\ \A s \in Ssid : item[s] = Free
  BY DEF Item
<1> HIDE DEF item
<1>4. Free.conn # c
  BY <1>2, ProfileAssumption DEF Free
<1>5. Lists(m_WifiNetworkList')
  BY <1>1, <1>2, <1>3, RewriteResult
<1>6. ASSUME NEW n \in Name, NEW s \in Ssid PROVE Similar(Shown(n, s), Shown(n, s)', n, s)
  <2>1. /\ Len(Shown(n, s)') = Len(Shown(n, s))
        /\ \A i \in DOMAIN Shown(n, s) :
             /\ Shown(n, s)'[i] = Shown(n, s)[i] \/ Shown(n, s)'[i] = Free
             /\ c \notin HeldTwice(m_WifiNetworkList) /\ Shown(n, s)[i].conn = c =>
                  Shown(n, s)'[i] = Free
    BY <1>1, <1>2, <1>3, RewriteResult
  <2>2. c \notin HeldTwice(m_WifiNetworkList) =>
          \A i \in DOMAIN Shown(n, s) : Shown(n, s)'[i].conn # c
    BY <1>4, <2>1
  <2>3. QED
    BY <2>1, <2>2 DEF Similar, SimilarItem
<1>7. QED
  BY <1>1, <1>5, <1>6, ItemsResult DEF DeviceSignal

\* onConnectionUpdate.
LEMMA ConnectionUpdateResult ==
  ASSUME Lists(m_WifiNetworkList), MapType, feed \in Seq(FineSignal), OnConnectionUpdate
  PROVE  Lists(m_WifiNetworkList') /\ MapType' /\ Follows
<1> DEFINE c == Msg.obj
           item == [s \in Ssid |-> Updated(c, s)]
<1>1. /\ feed # <<>> /\ Msg.sig = "connectionUpdate" /\ m_deviceMap' = m_deviceMap
      /\ IF m_connections[c] > 0 THEN Rewrite(c, item)
         ELSE m_WifiNetworkList' = m_WifiNetworkList
  BY DEF OnConnectionUpdate, Handling, Msg
<1>2. c \in Conn
  BY <1>1, HeadFine DEF WellFormed
<1>3. item \in [Ssid -> Item] /\ \A s \in Ssid : item[s] = Updated(c, s)
  BY <1>2 DEF Item, Updated
<1> HIDE DEF item
<1>4. CASE m_connections[c] > 0
  <2>1. Lists(m_WifiNetworkList')
    BY <1>1, <1>2, <1>3, <1>4, RewriteResult
  <2>2. ASSUME NEW n \in Name, NEW s \in Ssid PROVE Similar(Shown(n, s), Shown(n, s)', n, s)
    <3>1. /\ Len(Shown(n, s)') = Len(Shown(n, s))
          /\ \A i \in DOMAIN Shown(n, s) :
               /\ \/ Shown(n, s)'[i] = Shown(n, s)[i]
                  \/ Shown(n, s)[i].conn = c /\ Shown(n, s)'[i] = Updated(c, s)
               /\ c \notin HeldTwice(m_WifiNetworkList) /\ Shown(n, s)[i].conn = c =>
                    Shown(n, s)'[i] = Updated(c, s)
      BY <1>1, <1>2, <1>3, <1>4, RewriteResult
    <3>2. \A i \in DOMAIN Shown(n, s) : SimilarItem(Shown(n, s)[i], Shown(n, s)'[i], n, s)
      BY <1>1, <1>4, <3>1 DEF SimilarItem
    <3>3. c \notin HeldTwice(m_WifiNetworkList) =>
            \A i \in DOMAIN Shown(n, s) :
              Shown(n, s)'[i].conn = c => Shown(n, s)'[i] = Updated(c, s)
      BY <3>1
    <3>4. QED
      BY <1>1, <3>1, <3>2, <3>3 DEF Similar
  <2>3. QED
    BY <1>1, <2>1, <2>2, ItemsResult DEF DeviceSignal
<1>5. CASE ~(m_connections[c] > 0)
  <2>1. m_WifiNetworkList' = m_WifiNetworkList
    BY <1>1, <1>5
  <2>2. \A n, s : Shown(n, s)' = Shown(n, s)
    BY <2>1 DEF Shown
  <2>3. \A n \in Name, s \in Ssid : Similar(Shown(n, s), Shown(n, s)', n, s)
    BY <1>1, <1>5, <2>2 DEF Similar, SimilarItem
  <2>4. QED
    BY <1>1, <2>1, <2>3, ItemsResult DEF DeviceSignal
<1>6. QED
  BY <1>4, <1>5

\* The signals that change no item.
LEMMA OtherResult ==
  ASSUME Lists(m_WifiNetworkList), MapType, OnOther
  PROVE  Lists(m_WifiNetworkList') /\ MapType' /\ Follows
<1>1. /\ Msg.sig \in {"wifiNetworkPropertyChange", "activeConnectionAdd",
                      "activeConnectionRemove", "activeConnectStateChangeReason"}
      /\ m_deviceMap' = m_deviceMap /\ m_WifiNetworkList' = m_WifiNetworkList
  BY DEF OnOther, Handling, Msg, copy
<1>2. \A n, s : Shown(n, s)' = Shown(n, s)
  BY <1>1 DEF Shown
<1>3. \A n \in Name, s \in Ssid : Similar(Shown(n, s), Shown(n, s)', n, s)
  BY <1>1, <1>2 DEF Similar, SimilarItem
<1>4. QED
  BY <1>1, <1>3, ItemsResult DEF DeviceSignal

\* Every handler.
LEMMA HandleResult ==
  ASSUME TypeOK, ListsInv, NetsInv, m_initFinished, settings \in [Conn -> Settings],
         Lists(m_WifiNetworkList), MapType, feed \in Seq(FineSignal), Handle
  PROVE  Lists(m_WifiNetworkList') /\ MapType' /\ Follows
  BY DeviceAddResult, DeviceRemoveResult, DeviceUpdateResult, AddedResult, RemovedResult,
     DisappearResult, ConnectionAddResult, ConnectionRemoveResult, ConnectionUpdateResult,
     OtherResult DEF Handle

\* getActiveWirelessNetItem.
LEMMA GetActiveResult ==
  ASSUME settings \in [Conn -> Settings], Lists(m_WifiNetworkList), NEW n \in Name, GetActiveWirelessNetItem(n)
  PROVE  /\ Lists(m_WifiNetworkList')
         /\ \A o \in Name, x \in Ssid :
              /\ Len(Shown(o, x)') = Len(Shown(o, x))
              /\ \A i \in DOMAIN Shown(o, x) :
                   Shown(o, x)'[i] = Shown(o, x)[i] \/ Shown(o, x)'[i] \in Chosen(o, x)
<1> DEFINE L == m_WifiNetworkList
<1>0. PICK a \in Active :
        \E c \in Chosen(n, settings[ActiveConn[a]].ssid) :
          /\ n \in DOMAIN L /\ L[n][settings[ActiveConn[a]].ssid] # <<>>
          /\ m_WifiNetworkList' = [L EXCEPT ![n][settings[ActiveConn[a]].ssid][1] = c]
  BY DEF GetActiveWirelessNetItem
<1> DEFINE s == settings[ActiveConn[a]].ssid
<1>1. PICK c \in Chosen(n, s) : /\ n \in DOMAIN L /\ L[n][s] # <<>>
                                /\ m_WifiNetworkList' = [L EXCEPT ![n][s][1] = c]
  BY <1>0
<1> DEFINE v == [L[n] EXCEPT ![s] = [L[n][s] EXCEPT ![1] = c]]
<1>2. s \in Ssid
  BY ProfileAssumption
<1> HIDE DEF s
<1>3. c \in Item /\ c \in Chosen(n, s)
  BY <1>1, <1>2, ChosenMatch DEF s
<1>4. L[n] \in [Ssid -> Seq(Item)] /\ L[n][s] \in Seq(Item) /\ L[n][s] # <<>> /\ n \in DOMAIN L
  BY <1>1, <1>2 DEF Lists, s
<1>5. 1 \in DOMAIN L[n][s]
  BY <1>4
<1> DEFINE q == [L[n][s] EXCEPT ![1] = c]
<1>6. /\ q \in Seq(Item) /\ Len(q) = Len(L[n][s]) /\ q[1] = c
      /\ \A j \in DOMAIN L[n][s] : j # 1 => q[j] = L[n][s][j]
  BY <1>3, <1>4, <1>5, ItemReplaced
<1>7. v = [L[n] EXCEPT ![s] = q] /\ m_WifiNetworkList' = [L EXCEPT ![n] = v]
  BY <1>1 DEF s
<1> HIDE DEF q, v
<1>8. v \in [Ssid -> Seq(Item)] /\ v[s] = q /\ \A x \in Ssid : x # s => v[x] = L[n][x]
  BY <1>2, <1>4, <1>6, <1>7
<1>9. Lists(m_WifiNetworkList')
  BY <1>4, <1>7, <1>8, ListsReplaced
<1>10. \A o \in Name, x \in Ssid : Shown(o, x)' = IF o = n THEN v[x] ELSE Shown(o, x)
  BY <1>4, <1>7, <1>8, ShownNext
<1>11. \A x \in Ssid : Shown(n, x) = L[n][x]
  BY <1>4 DEF Shown
<1>12. QED
  BY <1>3, <1>6, <1>8, <1>9, <1>10, <1>11
-----------------------------------------------------------------------------
(* The base: the types, the manager's invariants, and the phases of the    *)
(* construction.                                                           *)

Phases ==
  /\ sub # "none" => m_initFinished
  /\ netSub # "none" => sub = "live"
  /\ sub # "live" => feed = <<>>

BaseInv ==
  /\ TypeOK /\ ListsInv /\ NetsInv
  /\ Lists(m_WifiNetworkList) /\ MapType
  /\ netSub \in {"none", "read", "live"} /\ disturbed \in BOOLEAN
  /\ settings \in [Conn -> Settings]
  /\ doubled \subseteq Conn /\ HeldTwice(m_WifiNetworkList) \subseteq doubled
  /\ feed \in Seq(FineSignal)
  /\ Phases

\* A step of the manager's module.
LEMMA CoreStep ==
  ASSUME TypeOK, ListsInv, NetsInv, [Next]_vars
  PROVE  TypeOK' /\ ListsInv' /\ NetsInv'
<1>1. TypeOK'
  BY TypeStep
<1>2. ListsInv'
  BY ListsStep
<1>3. NetsInv'
  BY NetsStep
<1>4. QED
  BY <1>1, <1>2, <1>3

\* A step that takes signals from the queue and changes nothing else of the manager.
LEMMA FeedStep ==
  ASSUME TypeOK, ListsInv, NetsInv, feed' \in Seq(FineSignal),
         UNCHANGED <<library, m_initFinished, lists, loop, insertTimers, missed, sub, view>>
  PROVE  TypeOK' /\ ListsInv' /\ NetsInv'
<1>1. feed' \in Seq(Signal)
  BY DEF FineSignal
<1>2. TypeOK'
  BY <1>1 DEF TypeOK, library, lists, loop
<1>3. ListsInv'
  BY DEF ListsInv, ConnectionsInv, library, lists, loop
<1>4. NetsInv'
  BY DEF NetsInv, library, lists, loop
<1>5. QED
  BY <1>2, <1>3, <1>4

\* A step of the manager's thread: it fills its lists, before anybody reads them, or
\* reports what it does.
LEMMA ManagerReports ==
  ASSUME BaseInv, ManagerNext
  PROVE  /\ TypeOK' /\ ListsInv' /\ NetsInv' /\ sub' = sub
         /\ \/ sub = "none" /\ m_initFinished' /\ feed' = feed
            \/ m_initFinished /\ m_initFinished' /\ \E msgs : Reports(msgs)
<1>1. TypeOK' /\ ListsInv' /\ NetsInv'
  BY CoreStep DEF BaseInv, Next
<1>2. CASE OnInitNetwork
  BY <1>1, <1>2 DEF OnInitNetwork, BaseInv, Phases, TypeOK, queue
<1>3. CASE LibraryEvent \/ InsertTimeout \/ Continue
  <2>1. m_initFinished
    <3>1. Continue => at # "idle"
      BY DEF Continue, LoseDevice, LoseActive, ServiceDisappeared, ClearConnection,
             ClearWifiNetworks, InsertWifiNetwork, InsertDone
    <3>2. LibraryEvent \/ InsertTimeout => m_initFinished
      BY DEF LibraryEvent, InsertTimeout, Quiet, InNM, OnDeviceAdded, OnDeviceRemoved,
             OnDeviceUpdated, OnWifiNetworkAppeared, OnWifiNetworkUpdate,
             OnWifiNetworkDisappeared, OnConnectionAdded, OnConnectionRemoved,
             OnConnectionUpdated, OnActiveConnectionAdded, OnActiveConnectionRemoved,
             OnActiveConnectionChanged, ServiceDisappears, OnServiceAppear
    <3>3. QED
      BY <1>3, <3>1, <3>2 DEF BaseInv, ListsInv
  <2>2. m_initFinished' = m_initFinished /\ sub' = sub
    BY <1>3 DEF LibraryEvent, InsertTimeout, Continue, OnDeviceAdded, OnDeviceRemoved,
           OnDeviceUpdated, OnWifiNetworkAppeared, OnWifiNetworkUpdate,
           OnWifiNetworkDisappeared, OnConnectionAdded, OnConnectionRemoved,
           OnConnectionUpdated, OnActiveConnectionAdded, OnActiveConnectionRemoved,
           OnActiveConnectionChanged, ServiceDisappears, OnServiceAppear, LoseDevice,
           LoseActive, ServiceDisappeared, ClearConnection, ClearWifiNetworks,
           InsertWifiNetwork, InsertDone
  <2>3. \E msgs : Reports(msgs)
    BY <1>1, <1>3, <2>1, StepReports DEF BaseInv
  <2>4. QED
    BY <1>1, <2>1, <2>2, <2>3
<1>4. QED
  BY <1>2, <1>3 DEF ManagerNext

\* With the settings of an edited profile, which it tells of.
LEMMA ManagerStepIs ==
  ASSUME BaseInv, ManagerStep
  PROVE  /\ ManagerNext /\ UNCHANGED <<m_deviceMap, m_WifiNetworkList, netSub>>
         /\ disturbed' = (disturbed \/ (sub # "none" /\ netSub # "live"))
         /\ disturbed' \in BOOLEAN /\ settings' \in [Conn -> Settings]
         /\ \A c \in Conn : settings'[c] # settings[c] =>
              c \in Edited /\ Emit(<<About("connectionUpdate", c)>>)
<1>1. /\ disturbed' = (disturbed \/ (sub # "none" /\ netSub # "live"))
      /\ UNCHANGED <<m_deviceMap, m_WifiNetworkList, netSub>>
  BY DEF ManagerStep, copy
<1>2. CASE ManagerNext /\ UNCHANGED settings
  BY <1>1, <1>2 DEF BaseInv
<1>3. ASSUME NEW e \in Edited, EditConnection(e)
      PROVE  /\ ManagerNext /\ settings' \in [Conn -> Settings]
             /\ \A c \in Conn : settings'[c] # settings[c] =>
                  c \in Edited /\ Emit(<<About("connectionUpdate", c)>>)
  <2>1. e \in Conn
    BY ProfileAssumption
  <2>2. OnConnectionUpdated(e) /\ Emit(<<About("connectionUpdate", e)>>)
    BY <1>3 DEF EditConnection, OnConnectionUpdated
  <2>3. ManagerNext
    BY <2>1, <2>2 DEF ManagerNext, LibraryEvent
  <2>4. PICK said \in Settings : settings' = [settings EXCEPT ![e] = said]
    BY <1>3 DEF EditConnection
  <2>5. settings' \in [Conn -> Settings] /\ \A c \in Conn : c # e => settings'[c] = settings[c]
    BY <2>4 DEF BaseInv
  <2>6. QED
    BY <2>2, <2>3, <2>5
<1>4. QED
  BY <1>1, <1>2, <1>3 DEF ManagerStep, BaseInv

LEMMA BaseInitially == ASSUME NetInit PROVE BaseInv
<1>1. Init
  BY DEF NetInit
<1>2. TypeOK /\ ListsInv /\ NetsInv
  BY <1>1, TypeInit, NetsInit DEF Init, ListsInv, ConnectionsInv
<1>3. Lists(m_WifiNetworkList) /\ MapType /\ netSub = "none" /\ disturbed = FALSE
  BY DEF NetInit, Empty, Lists, MapType
<1>4. feed = <<>> /\ sub = "none"
  BY <1>1 DEF Init
<1>5. feed \in Seq(FineSignal)
  BY <1>4
<1>6. Phases
  BY <1>3, <1>4 DEF Phases
<1>7. settings \in [Conn -> Settings] /\ doubled = {} /\ HeldTwice(m_WifiNetworkList) = {}
  BY DEF NetInit, Empty, HeldTwice
<1>8. QED
  BY <1>2, <1>3, <1>5, <1>6, <1>7 DEF BaseInv

LEMMA BaseStep ==
  ASSUME BaseInv, [NetNext]_netVars
  PROVE  BaseInv'
<1> USE DEF BaseInv
<1>9. doubled' \subseteq Conn /\ HeldTwice(m_WifiNetworkList)' \subseteq doubled'
  <2>1. CASE doubled' = doubled \cup HeldTwice(m_WifiNetworkList')
    BY <2>1 DEF HeldTwice
  <2>2. CASE UNCHANGED netVars
    BY <2>2 DEF netVars, copy, HeldTwice
  <2>3. QED
    BY <2>1, <2>2 DEF NetNext
<1>1. CASE ManagerStep
  <2>1. /\ ManagerNext /\ UNCHANGED <<m_deviceMap, m_WifiNetworkList, netSub>>
        /\ disturbed' \in BOOLEAN /\ settings' \in [Conn -> Settings]
    BY <1>1, ManagerStepIs
  <2>2. TypeOK' /\ ListsInv' /\ NetsInv' /\ sub' = sub
    BY <2>1, ManagerReports
  <2>3. feed' \in Seq(FineSignal) /\ Phases'
    <3>1. CASE sub = "none" /\ m_initFinished' /\ feed' = feed
      BY <2>1, <2>2, <3>1 DEF Phases
    <3>2. ASSUME m_initFinished', NEW msgs, Reports(msgs) PROVE feed' \in Seq(FineSignal) /\ Phases'
      <4>1. msgs \in Seq(FineSignal) /\ feed' = IF sub = "live" THEN feed \o msgs ELSE feed
        BY <3>2 DEF Reports, Emit
      <4>2. feed \o msgs \in Seq(FineSignal)
        BY <4>1
      <4>3. QED
        BY <2>1, <2>2, <3>2, <4>1, <4>2 DEF Phases
    <3>3. QED
      BY <2>1, <3>1, <3>2, ManagerReports
  <2>4. Lists(m_WifiNetworkList)' /\ MapType'
    BY <2>1 DEF Lists, MapType
  <2>5. QED
    BY <1>9, <2>1, <2>2, <2>3, <2>4
<1>2. CASE InitDeviceMap
  <2>1. /\ ReadLists /\ UNCHANGED <<m_WifiNetworkList, settings, netSub, disturbed>>
        /\ m_deviceMap' = [d \in {e \in Device : m_devices[e] > 0} |-> nmName[d]]
    BY <1>2 DEF InitDeviceMap, started
  <2>2. TypeOK' /\ ListsInv' /\ NetsInv'
    BY <2>1, CoreStep DEF Next
  <2>3. MapType'
    BY <2>1 DEF MapType, TypeOK
  <2>4. feed' = feed /\ Phases'
    BY <2>1 DEF ReadLists, queue, Phases
  <2>5. QED
    BY <1>9, <2>1, <2>2, <2>3, <2>4 DEF Lists
<1>3. CASE ConnectDevices
  <2>1. Connect /\ UNCHANGED <<m_deviceMap, m_WifiNetworkList, settings, netSub, disturbed>>
    BY <1>3 DEF ConnectDevices, started, copy
  <2>2. TypeOK' /\ ListsInv' /\ NetsInv'
    BY <2>1, CoreStep DEF Next
  <2>3. feed' = feed /\ Phases'
    BY <2>1 DEF Connect, queue, Phases
  <2>4. QED
    BY <1>9, <2>1, <2>2, <2>3 DEF Lists, MapType
<1>4. CASE ReadNetworks \/ ConnectNetworks
  <2>1. /\ feed' = OfDevices(feed) /\ netSub' \in {"read", "live"} /\ sub = "live"
        /\ UNCHANGED <<library, m_initFinished, lists, loop, insertTimers, missed, sub, view,
                       m_deviceMap, settings, disturbed>>
        /\ ListInit \/ UNCHANGED m_WifiNetworkList
    BY <1>4 DEF ReadNetworks, ConnectNetworks, copy, Phases
  <2>2. feed' \in Seq(FineSignal)
    BY <2>1, OfDevicesType
  <2>3. TypeOK' /\ ListsInv' /\ NetsInv'
    BY <2>1, <2>2, FeedStep
  <2>4. Lists(m_WifiNetworkList)'
    <3>1. CASE ListInit
      BY <2>1, <3>1, ListInitShows DEF Phases, Lists
    <3>2. CASE UNCHANGED m_WifiNetworkList
      BY <3>2 DEF Lists
    <3>3. QED
      BY <2>1, <3>1, <3>2
  <2>5. MapType' /\ Phases'
    BY <2>1 DEF MapType, Phases
  <2>6. QED
    BY <1>9, <2>1, <2>2, <2>3, <2>4, <2>5
<1>5. CASE Handle
  <2>1. Deliver /\ feed # <<>> /\ netSub = "live" /\ UNCHANGED <<settings, netSub, disturbed>>
    BY <1>5 DEF Handle, OnDeviceAdd, OnDeviceRemove, OnDeviceUpdate, OnWifiNetworkAdded,
                OnWifiNetworkRemoved, OnWifiNetworkDeviceDisappear, OnConnectionAdd,
                OnConnectionRemove, OnConnectionUpdate, OnOther, Handling, started
  <2>2. feed' = Tail(feed) /\ UNCHANGED <<sub, m_initFinished>>
    BY <2>1 DEF Deliver
  <2>3. TypeOK' /\ ListsInv' /\ NetsInv'
    BY <2>1, CoreStep DEF Next
  <2>4. feed' \in Seq(FineSignal)
    BY <2>1, <2>2
  <2>5. sub = "live" /\ m_initFinished
    BY <2>1 DEF Phases
  <2>6. Lists(m_WifiNetworkList') /\ MapType'
    BY <1>5, <2>5, HandleResult
  <2>7. Phases'
    BY <2>1, <2>2, <2>5 DEF Phases
  <2>8. QED
    BY <1>9, <2>1, <2>3, <2>4, <2>6, <2>7 DEF Lists
<1>6. ASSUME NEW n \in Name, GetActiveWirelessNetItem(n) PROVE BaseInv'
  <2>1. UNCHANGED <<vars, m_deviceMap, settings, netSub, disturbed>>
    BY <1>6 DEF GetActiveWirelessNetItem, started
  <2>2. TypeOK' /\ ListsInv' /\ NetsInv'
    BY <2>1, CoreStep
  <2>3. feed' = feed /\ Phases' /\ MapType'
    BY <2>1 DEF vars, queue, Phases, MapType
  <2>4. Lists(m_WifiNetworkList')
    BY <1>6, GetActiveResult
  <2>5. QED
    BY <1>9, <2>1, <2>2, <2>3, <2>4 DEF Lists
<1>7. CASE UNCHANGED netVars
  <2>1. UNCHANGED <<vars, m_deviceMap, m_WifiNetworkList, settings, netSub, disturbed>>
    BY <1>7 DEF netVars, copy, started
  <2>2. TypeOK' /\ ListsInv' /\ NetsInv'
    BY <2>1, CoreStep
  <2>3. feed' = feed /\ Phases'
    BY <2>1 DEF vars, queue, Phases
  <2>4. QED
    BY <1>9, <2>1, <2>2, <2>3 DEF Lists, MapType
<1>8. QED
  BY <1>1, <1>2, <1>3, <1>4, <1>5, <1>6, <1>7 DEF NetNext, NetStep, Construct

LEMMA BaseInvariant == NetSpec => []BaseInv
<1>1. NetInit => BaseInv
  BY BaseInitially
<1>2. BaseInv /\ [NetNext]_netVars => BaseInv'
  BY BaseStep
<1>3. QED
  BY <1>1, <1>2, PTL DEF NetSpec

\* The copy is of interface names, ssids and profiles, whatever is queued.
THEOREM NetTypeCorrect == NetSpec => []NetTypeOK
<1>1. BaseInv => NetTypeOK
  BY DEF BaseInv, NetTypeOK, Lists, MapType, Item
<1>2. QED
  BY <1>1, BaseInvariant, PTL

-----------------------------------------------------------------------------
(* The history: the names after each signal queued.                        *)

\* After all the signals of f the names m are the names k, along h.
Told(h, m, f, k) ==
  /\ h[0] = m /\ h[Len(f)] = k
  /\ \A i \in 0..Len(f) : IsMap(h[i])
  /\ \A i \in 1..Len(f) : Tells(h[i - 1], f[i], h[i])

\* The history l of t is h of f, with the signals g at its end that lead to k.
Prolonged(h, f, g, k, l, t) ==
  /\ Len(f) \in Nat /\ Len(g) \in Nat /\ Len(t) = Len(f) + Len(g)
  /\ \A i \in 1..Len(f) : t[i] = f[i]
  /\ \A i \in 1..Len(g) : t[Len(f) + i] = g[i]
  /\ \A i \in 0..Len(f) : l[i] = h[i]
  /\ \A i \in 1..Len(g) : l[Len(f) + i] = k

\* The history l of t is h of f, without its first element.
Shifted(h, f, l, t) ==
  /\ Len(t) \in Nat /\ Len(f) = Len(t) + 1
  /\ \A i \in 1..Len(t) : t[i] = f[i + 1]
  /\ \A i \in 0..Len(t) : l[i] = h[i + 1]

LEMMA ProlongedExists ==
  ASSUME NEW h, NEW S, NEW f \in Seq(S), NEW g \in Seq(S), NEW k
  PROVE  \E l : Prolonged(h, f, g, k, l, f \o g)
<1> DEFINE t == f \o g
           l == [i \in 0..Len(t) |-> IF i <= Len(f) THEN h[i] ELSE k]
<1>1. /\ Len(f) \in Nat /\ Len(g) \in Nat /\ Len(t) = Len(f) + Len(g)
      /\ \A i \in 1..Len(f) : t[i] = f[i]
      /\ \A i \in 1..Len(g) : t[Len(f) + i] = g[i]
  OBVIOUS
<1> HIDE DEF t
<1>2. \A i \in 0..Len(t) : l[i] = IF i <= Len(f) THEN h[i] ELSE k
  OBVIOUS
<1> HIDE DEF l
<1>3. \A i \in 0..Len(f) : i \in 0..Len(t) /\ i <= Len(f)
  BY <1>1
<1>4. \A i \in 1..Len(g) : Len(f) + i \in 0..Len(t) /\ ~(Len(f) + i <= Len(f))
  BY <1>1
<1>5. Prolonged(h, f, g, k, l, t)
  BY <1>1, <1>2, <1>3, <1>4 DEF Prolonged
<1>6. QED
  BY <1>5 DEF t

LEMMA ShiftedExists ==
  ASSUME NEW h, NEW S, NEW f \in Seq(S), f # <<>>
  PROVE  \E l : Shifted(h, f, l, Tail(f))
<1> DEFINE t == Tail(f)
           l == [i \in 0..Len(t) |-> h[i + 1]]
<1>1. Len(t) \in Nat /\ Len(f) = Len(t) + 1 /\ \A i \in 1..Len(t) : t[i] = f[i + 1]
  OBVIOUS
<1> HIDE DEF t
<1>2. \A i \in 0..Len(t) : l[i] = h[i + 1]
  OBVIOUS
<1> HIDE DEF l
<1>3. Shifted(h, f, l, t)
  BY <1>1, <1>2 DEF Shifted
<1>4. QED
  BY <1>3 DEF t

LEMMA ToldLater ==
  ASSUME NEW h, NEW m, NEW f, NEW g, NEW j, NEW k, NEW l, NEW t,
         Told(h, m, f, j), Prolonged(h, f, g, k, l, t), IsMap(k),
         Len(g) = 0 => k = j,
         \A i \in 1..Len(g) : Tells(IF i = 1 THEN j ELSE k, g[i], k)
  PROVE  Told(l, m, t, k)
<1>1. Len(f) \in Nat /\ Len(g) \in Nat /\ Len(t) = Len(f) + Len(g)
  BY DEF Prolonged
<1>2. 0 \in 0..Len(f) /\ Len(f) \in 0..Len(f)
  BY <1>1
<1>3. l[0] = m /\ l[Len(f)] = j
  BY <1>2 DEF Told, Prolonged
<1>4. \A i \in 0..Len(t) : i \in 0..Len(f) \/ (i - Len(f) \in 1..Len(g) /\ Len(f) + (i - Len(f)) = i)
  BY <1>1
<1>5. \A i \in 1..Len(g) : l[Len(f) + i] = k
  BY DEF Prolonged
<1>6. l[Len(t)] = k
  <2>1. CASE Len(g) = 0
    BY <1>1, <1>3, <2>1
  <2>2. CASE Len(g) # 0
    <3>1. Len(g) \in 1..Len(g)
      BY <1>1, <2>2
    <3>2. QED
      BY <1>1, <1>5, <3>1
  <2>3. QED
    BY <2>1, <2>2
<1>7. \A i \in 0..Len(t) : IsMap(l[i])
  <2>1. \A i \in 0..Len(f) : IsMap(l[i])
    BY DEF Told, Prolonged
  <2>2. QED
    BY <1>4, <1>5, <2>1
<1>8. ASSUME NEW i \in 1..Len(t) PROVE Tells(l[i - 1], t[i], l[i])
  <2>1. CASE i \in 1..Len(f)
    <3>1. i \in 0..Len(f) /\ i - 1 \in 0..Len(f)
      BY <1>1, <2>1
    <3>2. l[i] = h[i] /\ l[i - 1] = h[i - 1] /\ t[i] = f[i] /\ Tells(h[i - 1], f[i], h[i])
      BY <2>1, <3>1 DEF Told, Prolonged
    <3>3. QED
      BY <3>2
  <2>2. ASSUME NEW x \in 1..Len(g), i = Len(f) + x PROVE Tells(l[i - 1], t[i], l[i])
    <3>1. t[i] = g[x] /\ l[i] = k
      BY <2>2 DEF Prolonged
    <3>2. x = 1 => i - 1 = Len(f)
      BY <1>1, <2>2
    <3>3. x # 1 => x - 1 \in 1..Len(g) /\ i - 1 = Len(f) + (x - 1)
      BY <1>1, <2>2
    <3>4. l[i - 1] = IF x = 1 THEN j ELSE k
      BY <1>3, <1>5, <3>2, <3>3
    <3>5. QED
      BY <3>1, <3>4
  <2>3. i \in 1..Len(f) \/ \E x \in 1..Len(g) : i = Len(f) + x
    <3>1. i \notin 1..Len(f) => i - Len(f) \in 1..Len(g) /\ i = Len(f) + (i - Len(f))
      BY <1>1
    <3>2. QED
      BY <3>1
  <2>4. QED
    BY <2>1, <2>2, <2>3
<1>9. QED
  BY <1>3, <1>6, <1>7, <1>8 DEF Told

LEMMA ToldHandled ==
  ASSUME NEW h, NEW m, NEW f, NEW k, NEW l, NEW t, Told(h, m, f, k), Shifted(h, f, l, t)
  PROVE  Told(l, h[1], t, k) /\ IsMap(m) /\ IsMap(h[1]) /\ Tells(m, f[1], h[1])
<1>1. Len(t) \in Nat /\ Len(f) = Len(t) + 1
  BY DEF Shifted
<1>2. 1 \in 1..Len(f) /\ 0 \in 0..Len(f) /\ 1 \in 0..Len(f) /\ 1 - 1 = 0
  BY <1>1
<1>3. IsMap(m) /\ IsMap(h[1]) /\ Tells(m, f[1], h[1])
  BY <1>2 DEF Told
<1>4. 0 \in 0..Len(t) /\ Len(t) \in 0..Len(t) /\ 0 + 1 = 1
  BY <1>1
<1>5. l[0] = h[1] /\ l[Len(t)] = k
  BY <1>1, <1>4 DEF Told, Shifted
<1>6. ASSUME NEW i \in 0..Len(t) PROVE IsMap(l[i])
  <2>1. i + 1 \in 0..Len(f)
    BY <1>1
  <2>2. QED
    BY <2>1 DEF Told, Shifted
<1>7. ASSUME NEW i \in 1..Len(t) PROVE Tells(l[i - 1], t[i], l[i])
  <2>1. i + 1 \in 1..Len(f) /\ i \in 0..Len(t) /\ i - 1 \in 0..Len(t)
        /\ (i + 1) - 1 = i /\ (i - 1) + 1 = i
    BY <1>1
  <2>2. l[i] = h[i + 1] /\ l[i - 1] = h[i] /\ t[i] = f[i + 1]
    BY <2>1 DEF Shifted
  <2>3. Tells(h[(i + 1) - 1], f[i + 1], h[i + 1])
    BY <2>1 DEF Told
  <2>4. QED
    BY <2>1, <2>2, <2>3
<1>8. QED
  BY <1>3, <1>5, <1>6, <1>7 DEF Told

-----------------------------------------------------------------------------
(* Where a listed network is, along a history.                             *)

\* The network s of the device d, named n, is shown, or in a signal to come; from
\* there on d keeps the name, and nothing says that the network is gone.
Awaited(h, f, d, n, s, count) ==
  \E p \in 0..Len(f) :
    /\ IF p = 0 THEN count # 0 ELSE f[p] = Added(n, s)
    /\ \A i \in p..Len(f) : Holds(h[i], d, n)
    /\ \A i \in p + 1..Len(f) : f[i] # RemovedOf(n, s)

LEMMA AwaitedLater ==
  ASSUME NEW h, NEW f, NEW g, NEW k, NEW l, NEW t, Prolonged(h, f, g, k, l, t),
         NEW d, NEW n, NEW s, NEW count, Holds(k, d, n), ~Has(g, RemovedOf(n, s)),
         DOMAIN g = 1..Len(g),
         Awaited(h, f, d, n, s, count) \/ Has(g, Added(n, s))
  PROVE  Awaited(l, t, d, n, s, count)
<1>1. Len(f) \in Nat /\ Len(g) \in Nat /\ Len(t) = Len(f) + Len(g)
  BY DEF Prolonged
<1>2. ASSUME NEW i \in 0..Len(t)
      PROVE  \/ i \in 0..Len(f)
             \/ \E x \in 1..Len(g) : i = Len(f) + x
  <2>1. i \notin 0..Len(f) => i - Len(f) \in 1..Len(g) /\ i = Len(f) + (i - Len(f))
    BY <1>1
  <2>2. QED
    BY <2>1
<1>3. ASSUME NEW x \in 1..Len(g), NEW i, i = Len(f) + x
      PROVE  Holds(l[i], d, n) /\ t[i] = g[x] /\ t[i] # RemovedOf(n, s)
  BY <1>3 DEF Prolonged, Has
<1>4. CASE Awaited(h, f, d, n, s, count)
  <2>1. PICK p \in 0..Len(f) :
          /\ IF p = 0 THEN count # 0 ELSE f[p] = Added(n, s)
          /\ \A i \in p..Len(f) : Holds(h[i], d, n)
          /\ \A i \in p + 1..Len(f) : f[i] # RemovedOf(n, s)
    BY <1>4 DEF Awaited
  <2>2. p \in 0..Len(t) /\ (p # 0 => p \in 1..Len(f))
    BY <1>1
  <2>3. IF p = 0 THEN count # 0 ELSE t[p] = Added(n, s)
    BY <2>1, <2>2 DEF Prolonged
  <2>4. ASSUME NEW i \in p..Len(t) PROVE Holds(l[i], d, n)
    <3>1. i \in 0..Len(t)
      BY <1>1
    <3>2. CASE i \in 0..Len(f)
      <4>1. i \in p..Len(f) /\ l[i] = h[i]
        BY <1>1, <3>2 DEF Prolonged
      <4>2. QED
        BY <2>1, <4>1
    <3>3. QED
      BY <1>2, <1>3, <3>1, <3>2
  <2>5. ASSUME NEW i \in p + 1..Len(t) PROVE t[i] # RemovedOf(n, s)
    <3>1. i \in 0..Len(t)
      BY <1>1
    <3>2. CASE i \in 0..Len(f)
      <4>1. i \in p + 1..Len(f) /\ i \in 1..Len(f)
        BY <1>1, <3>2
      <4>2. t[i] = f[i]
        BY <4>1 DEF Prolonged
      <4>3. QED
        BY <2>1, <4>1, <4>2
    <3>3. QED
      BY <1>2, <1>3, <3>1, <3>2
  <2>6. QED
    BY <2>2, <2>3, <2>4, <2>5 DEF Awaited
<1>5. CASE Has(g, Added(n, s))
  <2>1. PICK y \in 1..Len(g) : g[y] = Added(n, s)
    BY <1>5 DEF Has
  <2> DEFINE p == Len(f) + y
  <2>2. p \in 0..Len(t) /\ p # 0 /\ t[p] = Added(n, s)
    BY <1>1, <1>3, <2>1
  <2>3. \A i \in p..Len(t) : i \in 0..Len(t) /\ i \notin 0..Len(f)
    BY <1>1
  <2>4. \A i \in p + 1..Len(t) : i \in p..Len(t)
    BY <1>1
  <2> HIDE DEF p
  <2>5. QED
    BY <1>2, <1>3, <2>2, <2>3, <2>4 DEF Awaited
<1>6. QED
  BY <1>4, <1>5

LEMMA AwaitedHandled ==
  ASSUME NEW h, NEW f, NEW l, NEW t, Shifted(h, f, l, t),
         NEW d, NEW n, NEW s, NEW count, NEW next, Awaited(h, f, d, n, s, count),
         f[1] = Added(n, s) /\ Holds(h[Len(f)], d, n) => next # 0,
         count # 0 /\ f[1] # RemovedOf(n, s) /\ Holds(h[0], d, n) /\ Holds(h[1], d, n) => next # 0
  PROVE  Awaited(l, t, d, n, s, next)
<1>1. Len(t) \in Nat /\ Len(f) = Len(t) + 1
  BY DEF Shifted
<1>2. PICK p \in 0..Len(f) :
        /\ IF p = 0 THEN count # 0 ELSE f[p] = Added(n, s)
        /\ \A i \in p..Len(f) : Holds(h[i], d, n)
        /\ \A i \in p + 1..Len(f) : f[i] # RemovedOf(n, s)
  BY DEF Awaited
<1> DEFINE q == IF p = 0 THEN 0 ELSE p - 1
<1>3. q \in 0..Len(t) /\ Len(f) \in p..Len(f)
  BY <1>1
<1>4. IF q = 0 THEN next # 0 ELSE t[q] = Added(n, s)
  <2>1. CASE p = 0
    <3>1. 0 \in p..Len(f) /\ 1 \in p..Len(f) /\ 1 \in p + 1..Len(f)
      BY <1>1, <2>1
    <3>2. QED
      BY <1>2, <2>1, <3>1
  <2>2. CASE p = 1
    BY <1>2, <1>3, <2>2
  <2>3. CASE p \notin {0, 1}
    <3>1. q \in 1..Len(t) /\ q + 1 = p /\ q # 0
      BY <1>1, <2>3
    <3>2. t[q] = f[q + 1]
      BY <3>1 DEF Shifted
    <3>3. QED
      BY <1>2, <2>3, <3>1, <3>2
  <2>4. QED
    BY <2>1, <2>2, <2>3
<1>5. ASSUME NEW i \in q..Len(t) PROVE Holds(l[i], d, n)
  <2>1. i \in 0..Len(t) /\ i + 1 \in p..Len(f)
    BY <1>1
  <2>2. QED
    BY <1>2, <2>1 DEF Shifted
<1>6. ASSUME NEW i \in q + 1..Len(t) PROVE t[i] # RemovedOf(n, s)
  <2>1. i \in 1..Len(t) /\ i + 1 \in p + 1..Len(f)
    BY <1>1
  <2>2. QED
    BY <1>2, <2>1 DEF Shifted
<1> HIDE DEF q
<1>7. QED
  BY <1>3, <1>4, <1>5, <1>6 DEF Awaited

-----------------------------------------------------------------------------
(* How many items there may be, along a history.                           *)

\* Somebody gives the name n up after p.
Vacates(h, f, p, n) ==
  \E i \in p + 1..Len(f), d \in Device : Holds(h[i - 1], d, n) /\ ~Holds(h[i], d, n)

ItemsAt(f, p, n, s, count) == IF p = 0 THEN count ELSE IF f[p] = Added(n, s) THEN 1 ELSE 0

\* At any place after which nobody gives the name up: no more items than bound, and
\* one for each removal to come.
Few(h, f, n, s, count, bound) ==
  \A p \in 0..Len(f) :
    ~Vacates(h, f, p, n) =>
      ItemsAt(f, p, n, s, count) <= bound + Cardinality(Rest(f, p, RemovedOf(n, s)))

\* Who has a name that nobody gives up has it in the end.
LEMMA HeldToTheEnd ==
  ASSUME NEW h, NEW f, Len(f) \in Nat, NEW p \in 0..Len(f), NEW n, NEW d \in Device,
         ~Vacates(h, f, p, n), Holds(h[p], d, n)
  PROVE  Holds(h[Len(f)], d, n)
<1> DEFINE Wrong == {i \in p..Len(f) : ~Holds(h[i], d, n)}
<1>1. SUFFICES ASSUME Wrong # {} PROVE FALSE
  <2>1. Len(f) \in p..Len(f)
    OBVIOUS
  <2>2. QED
    BY <2>1
<1>2. Wrong \subseteq Nat
  OBVIOUS
<1> HIDE DEF Wrong
<1>3. PICK i \in Wrong : \A j \in Wrong : i <= j
  BY <1>1, <1>2, LeastNatural
<1>4. i \in p..Len(f) /\ ~Holds(h[i], d, n)
  BY <1>3 DEF Wrong
<1>5. i # p
  BY <1>4
<1>6. i - 1 \in p..Len(f) /\ i \in p + 1..Len(f) /\ ~(i <= i - 1)
  BY <1>4, <1>5
<1>7. i - 1 \notin Wrong
  BY <1>3, <1>6
<1>8. Holds(h[i - 1], d, n)
  BY <1>6, <1>7 DEF Wrong
<1>9. QED
  BY <1>4, <1>6, <1>8 DEF Vacates

\* A place after which nobody gives the name up is one in the history it prolongs, ...
LEMMA VacatesLater ==
  ASSUME NEW h, NEW f, NEW g, NEW k, NEW l, NEW t, Prolonged(h, f, g, k, l, t),
         Len(g) = 0 => k = h[Len(f)], NEW n, NEW p \in 0..Len(f), ~Vacates(l, t, p, n)
  PROVE  /\ ~Vacates(h, f, p, n)
         /\ ~\E d \in Device : Holds(h[Len(f)], d, n) /\ ~Holds(k, d, n)
<1>1. /\ Len(f) \in Nat /\ Len(g) \in Nat /\ Len(t) = Len(f) + Len(g)
      /\ \A i \in 1..Len(g) : l[Len(f) + i] = k
      /\ \A i \in 0..Len(f) : l[i] = h[i]
  BY DEF Prolonged
<1>2. ~\E d \in Device : Holds(h[Len(f)], d, n) /\ ~Holds(k, d, n)
  <2>1. CASE Len(g) = 0
    BY <2>1
  <2>2. CASE Len(g) # 0
    <3>1. Len(f) + 1 \in p + 1..Len(t) /\ 1 \in 1..Len(g) /\ (Len(f) + 1) - 1 = Len(f)
          /\ Len(f) \in 0..Len(f)
      BY <1>1, <2>2
    <3>2. l[Len(f) + 1] = k /\ l[Len(f)] = h[Len(f)]
      BY <1>1, <3>1
    <3>3. QED
      BY <3>1, <3>2 DEF Vacates
  <2>3. QED
    BY <2>1, <2>2
<1>3. ~Vacates(h, f, p, n)
  <2>1. \A i \in p + 1..Len(f) : i \in p + 1..Len(t) /\ i \in 0..Len(f) /\ i - 1 \in 0..Len(f)
    BY <1>1
  <2>2. \A i \in p + 1..Len(f) : l[i] = h[i] /\ l[i - 1] = h[i - 1]
    BY <1>1, <2>1
  <2>3. QED
    BY <2>1, <2>2 DEF Vacates
<1>4. QED
  BY <1>2, <1>3

\* ... and in the history it is taken from.
LEMMA VacatesHandled ==
  ASSUME NEW h, NEW f, NEW l, NEW t, Shifted(h, f, l, t), NEW n
  PROVE  /\ \A p \in 0..Len(t) : ~Vacates(l, t, p, n) => ~Vacates(h, f, p + 1, n)
         /\ ~Vacates(l, t, 0, n) /\ ~(\E d \in Device : Holds(h[0], d, n) /\ ~Holds(h[1], d, n)) =>
              ~Vacates(h, f, 0, n)
         /\ ~Vacates(l, t, 0, n) =>
              ~\E d \in Device : Holds(h[1], d, n) /\ ~Holds(h[Len(f)], d, n)
<1>1. Len(t) \in Nat /\ Len(f) = Len(t) + 1 /\ \A i \in 0..Len(t) : l[i] = h[i + 1]
  BY DEF Shifted
<1>2. ASSUME NEW p \in 0..Len(t), ~Vacates(l, t, p, n) PROVE ~Vacates(h, f, p + 1, n)
  <2>1. \A i \in (p + 1) + 1..Len(f) :
          i - 1 \in p + 1..Len(t) /\ i - 1 \in 0..Len(t) /\ (i - 1) - 1 \in 0..Len(t)
          /\ (i - 1) + 1 = i /\ ((i - 1) - 1) + 1 = i - 1
    BY <1>1
  <2>2. \A i \in (p + 1) + 1..Len(f) : l[i - 1] = h[i] /\ l[(i - 1) - 1] = h[i - 1]
    BY <1>1, <2>1
  <2>3. QED
    BY <1>2, <2>1, <2>2 DEF Vacates
<1>3. ASSUME ~Vacates(l, t, 0, n) PROVE ~Vacates(h, f, 1, n)
  <2>1. 0 \in 0..Len(t) /\ 0 + 1 = 1
    BY <1>1
  <2>2. QED
    BY <1>2, <1>3, <2>1
<1>4. ASSUME ~Vacates(l, t, 0, n), ~\E d \in Device : Holds(h[0], d, n) /\ ~Holds(h[1], d, n)
      PROVE  ~Vacates(h, f, 0, n)
  <2>1. \A i \in 0 + 1..Len(f) : i = 1 \/ i \in 1 + 1..Len(f)
    BY <1>1
  <2>2. 1 - 1 = 0
    OBVIOUS
  <2>3. QED
    BY <1>3, <1>4, <2>1, <2>2 DEF Vacates
<1>5. ASSUME ~Vacates(l, t, 0, n)
      PROVE  ~\E d \in Device : Holds(h[1], d, n) /\ ~Holds(h[Len(f)], d, n)
  <2>1. 1 \in 0..Len(f) /\ Len(f) \in Nat
    BY <1>1
  <2>2. QED
    BY <1>3, <1>5, <2>1, HeldToTheEnd
<1>6. QED
  BY <1>2, <1>4, <1>5

\* The places of a signal in a queue that a handler takes the first signal from, ...
LEMMA RestHandled ==
  ASSUME NEW S, NEW h, NEW f \in Seq(S), NEW l, NEW t \in Seq(S), Shifted(h, f, l, t), NEW m
  PROVE  /\ \A p \in 0..Len(t) : Cardinality(Rest(t, p, m)) = Cardinality(Rest(f, p + 1, m))
         /\ Cardinality(Rest(f, 0, m)) =
              Cardinality(Rest(f, 1, m)) + IF f[1] = m THEN 1 ELSE 0
<1>1. Len(t) \in Nat /\ Len(f) = Len(t) + 1 /\ \A i \in 1..Len(t) : t[i] = f[i + 1]
  BY DEF Shifted
<1>2. ASSUME NEW p \in 0..Len(t)
      PROVE  Cardinality(Rest(t, p, m)) = Cardinality(Rest(f, p + 1, m))
  <2> DEFINE T == Rest(t, p, m)
             F == Rest(f, p + 1, m)
             shift == [i \in T |-> i + 1]
  <2>1. \A i \in T : i + 1 \in F
    BY <1>1 DEF Rest
  <2>2. \A i, j \in T : i + 1 = j + 1 => i = j
    BY DEF Rest
  <2>3. \A i \in F : i - 1 \in T /\ (i - 1) + 1 = i
    <3>1. \A i \in p + 2..Len(f) : i - 1 \in p + 1..Len(t) /\ i - 1 \in 1..Len(t) /\ (i - 1) + 1 = i
      BY <1>1
    <3>2. \A i \in F : i \in p + 2..Len(f) /\ f[i] = m
      BY DEF Rest
    <3>3. QED
      BY <1>1, <3>1, <3>2 DEF Rest
  <2>4. IsFiniteSet(T)
    BY RestType
  <2> HIDE DEF T, F
  <2>5. shift \in [T -> F]
    BY <2>1
  <2>6. \A i, j \in T : shift[i] = shift[j] => i = j
    BY <2>2
  <2>7. \A i \in F : \E j \in T : shift[j] = i
    BY <2>3
  <2>8. shift \in Bijection(T, F)
    BY <2>5, <2>6, <2>7 DEF Bijection, Injection, Surjection, IsInjective
  <2>9. ExistsBijection(T, F)
    BY <2>8 DEF ExistsBijection
  <2>10. Cardinality(F) = Cardinality(T)
    BY <2>4, <2>9, FS_Bijection
  <2>11. QED
    BY <2>10 DEF T, F
<1>3. Cardinality(Rest(f, 0, m)) = Cardinality(Rest(f, 1, m)) + IF f[1] = m THEN 1 ELSE 0
  <2> DEFINE R == Rest(f, 0, m)
             Q == Rest(f, 1, m)
  <2>1. IsFiniteSet(R) /\ IsFiniteSet(Q) /\ Cardinality(R) \in Nat /\ Cardinality(Q) \in Nat
    BY RestType
  <2>2. \A i \in Nat : i \in 1..Len(f) <=> i = 1 \/ i \in 2..Len(f)
    BY <1>1
  <2>3. Q = R \ {1} /\ (1 \in R <=> f[1] = m)
    BY <1>1, <2>2 DEF Rest
  <2> HIDE DEF R, Q
  <2>4. CASE 1 \in R
    <3>1. Cardinality(Q) = Cardinality(R) - 1
      BY <2>1, <2>3, <2>4, FS_RemoveElement
    <3>2. QED
      BY <2>1, <2>3, <2>4, <3>1 DEF R, Q
  <2>5. CASE 1 \notin R
    <3>1. Q = R
      BY <2>3, <2>5
    <3>2. QED
      BY <2>1, <2>3, <2>5, <3>1 DEF R, Q
  <2>6. QED
    BY <2>4, <2>5
<1>4. QED
  BY <1>2, <1>3

\* ... and in one that a step of the manager appends signals to.
LEMMA RestLater ==
  ASSUME NEW S, NEW h, NEW f \in Seq(S), NEW g \in Seq(S), NEW k, NEW l, NEW t \in Seq(S),
         Prolonged(h, f, g, k, l, t), NEW m, NEW p \in 0..Len(f)
  PROVE  Cardinality(Rest(f, p, m)) + CountOf(g, m) <= Cardinality(Rest(t, p, m))
<1> DEFINE F == Rest(f, p, m)
           G == Rest(g, 0, m)
           T == Rest(t, p, m)
           U == {i \in Len(f) + 1..Len(t) : t[i] = m}
           shift == [i \in G |-> Len(f) + i]
<1>1. /\ Len(f) \in Nat /\ Len(g) \in Nat /\ Len(t) = Len(f) + Len(g)
      /\ \A i \in 1..Len(f) : t[i] = f[i]
      /\ \A i \in 1..Len(g) : t[Len(f) + i] = g[i]
  BY DEF Prolonged
<1>2. /\ IsFiniteSet(F) /\ IsFiniteSet(G) /\ IsFiniteSet(T)
      /\ Cardinality(F) \in Nat /\ Cardinality(G) \in Nat /\ Cardinality(T) \in Nat
  BY RestType
<1>3. \A i \in p + 1..Len(f) : i \in p + 1..Len(t) /\ i \in 1..Len(f) /\ ~(i \in Len(f) + 1..Len(t))
  BY <1>1
<1>4. F \subseteq T /\ F \cap U = {}
  BY <1>1, <1>3 DEF Rest
<1>5. U \subseteq T
  BY <1>1 DEF Rest
<1>6. \A i \in G : i \in 1..Len(g) /\ g[i] = m
  BY DEF Rest
<1>7. \A i \in 1..Len(g) : Len(f) + i \in Len(f) + 1..Len(t)
  BY <1>1
<1>8. \A i \in G : Len(f) + i \in U
  BY <1>1, <1>6, <1>7
<1>9. \A i, j \in G : Len(f) + i = Len(f) + j => i = j
  BY <1>1, <1>6
<1>10. \A i \in U : i - Len(f) \in G /\ Len(f) + (i - Len(f)) = i
  <2>1. \A i \in Len(f) + 1..Len(t) :
          i - Len(f) \in 1..Len(g) /\ i - Len(f) \in 0 + 1..Len(g) /\ Len(f) + (i - Len(f)) = i
    BY <1>1
  <2>2. QED
    BY <1>1, <2>1 DEF Rest
<1> HIDE DEF F, G, T, U
<1>11. shift \in [G -> U]
  BY <1>8
<1>12. \A i, j \in G : shift[i] = shift[j] => i = j
  BY <1>9
<1>13. \A i \in U : \E j \in G : shift[j] = i
  BY <1>10
<1>14. shift \in Bijection(G, U)
  BY <1>11, <1>12, <1>13 DEF Bijection, Injection, Surjection, IsInjective
<1>15. ExistsBijection(G, U)
  BY <1>14 DEF ExistsBijection
<1>16. Cardinality(U) = Cardinality(G)
  BY <1>2, <1>15, FS_Bijection
<1>17. IsFiniteSet(U)
  BY <1>2, <1>5, FS_Subset
<1>18. Cardinality(F \cup U) = Cardinality(F) + Cardinality(U) - Cardinality(F \cap U)
  BY <1>2, <1>17, FS_Union
<1>19. Cardinality(F \cap U) = 0
  BY <1>4, FS_EmptySet
<1>20. Cardinality(F \cup U) <= Cardinality(T)
  <2>1. F \cup U \subseteq T
    BY <1>4, <1>5
  <2>2. QED
    BY <1>2, <2>1, FS_Subset
<1>21. Cardinality(F) + Cardinality(G) <= Cardinality(T)
  BY <1>2, <1>16, <1>18, <1>19, <1>20
<1>22. QED
  BY <1>21 DEF F, G, T, CountOf

LEMMA FewLater ==
  ASSUME NEW S, NEW h, NEW f \in Seq(S), NEW g \in Seq(S), NEW k, NEW l, NEW t \in Seq(S),
         Prolonged(h, f, g, k, l, t), Len(g) = 0 => k = h[Len(f)],
         NEW n, NEW s, NEW count \in Nat, NEW bound \in Nat, NEW next \in Nat,
         \/ /\ \E d \in Device : Holds(h[Len(f)], d, n) /\ ~Holds(k, d, n)
            /\ ~Has(g, Added(n, s))
         \/ /\ Few(h, f, n, s, count, bound) /\ bound <= next + CountOf(g, RemovedOf(n, s))
            /\ Has(g, Added(n, s)) => 1 <= next
  PROVE  Few(l, t, n, s, count, next)
<1> DEFINE r == RemovedOf(n, s)
<1> HIDE DEF r
<1>1. /\ Len(f) \in Nat /\ Len(g) \in Nat /\ Len(t) = Len(f) + Len(g)
      /\ \A i \in 1..Len(f) : t[i] = f[i]
      /\ \A i \in 1..Len(g) : t[Len(f) + i] = g[i] /\ l[Len(f) + i] = k
      /\ \A i \in 0..Len(f) : l[i] = h[i]
  BY DEF Prolonged
<1>2. CountOf(g, r) \in Nat
  BY CountAtLeast
<1>3. SUFFICES ASSUME NEW p \in 0..Len(t), ~Vacates(l, t, p, n)
               PROVE  ItemsAt(t, p, n, s, count) <= next + Cardinality(Rest(t, p, r))
  BY DEF Few, r
<1>4. Cardinality(Rest(t, p, r)) \in Nat
  BY RestType
<1>5. CASE p \in Len(f) + 1..Len(t)
  <2>1. p - Len(f) \in 1..Len(g) /\ Len(f) + (p - Len(f)) = p /\ p # 0
    BY <1>1, <1>5
  <2>2. t[p] = g[p - Len(f)]
    BY <1>1, <2>1
  <2>3. t[p] = Added(n, s) => Has(g, Added(n, s))
    <3>1. p - Len(f) \in DOMAIN g
      BY <2>1
    <3>2. QED
      BY <2>2, <3>1 DEF Has
  <2>4. ItemsAt(t, p, n, s, count) = 0 \/ (ItemsAt(t, p, n, s, count) = 1 /\ 1 <= next)
    BY <2>1, <2>3 DEF ItemsAt
  <2>5. QED
    BY <1>4, <2>4
<1>6. CASE p \in 0..Len(f)
  <2>1. ~Vacates(h, f, p, n) /\ ~\E d \in Device : Holds(h[Len(f)], d, n) /\ ~Holds(k, d, n)
    BY <1>3, <1>6, VacatesLater
  <2>2. Few(h, f, n, s, count, bound) /\ bound <= next + CountOf(g, r)
    BY <2>1 DEF r
  <2>4. ItemsAt(f, p, n, s, count) <= bound + Cardinality(Rest(f, p, r))
    BY <1>6, <2>1, <2>2 DEF Few, r
  <2>5. ItemsAt(t, p, n, s, count) = ItemsAt(f, p, n, s, count)
    <3>1. p # 0 => p \in 1..Len(f)
      BY <1>1, <1>6
    <3>2. QED
      BY <1>1, <3>1 DEF ItemsAt
  <2>6. Cardinality(Rest(f, p, r)) + CountOf(g, r) <= Cardinality(Rest(t, p, r))
    BY <1>6, RestLater
  <2>7. Cardinality(Rest(f, p, r)) \in Nat
    BY <1>6, RestType
  <2>8. ItemsAt(f, p, n, s, count) \in Nat
    BY DEF ItemsAt
  <2>9. QED
    BY <1>2, <1>4, <2>2, <2>4, <2>5, <2>6, <2>7, <2>8
<1>7. p \in 0..Len(f) \/ p \in Len(f) + 1..Len(t)
  BY <1>1
<1>8. QED
  BY <1>5, <1>6, <1>7

LEMMA FewHandled ==
  ASSUME NEW S, NEW h, NEW f \in Seq(S), NEW l, NEW t \in Seq(S), Shifted(h, f, l, t),
         NEW n, NEW s, NEW count \in Nat, NEW bound \in Nat, NEW next \in Nat,
         Few(h, f, n, s, count, bound),
         \/ next <= bound
         \/ \E d \in Device : Holds(h[1], d, n) /\ ~Holds(h[Len(f)], d, n)
         \/ /\ ~\E d \in Device : Holds(h[0], d, n) /\ ~Holds(h[1], d, n)
            /\ \/ f[1] # RemovedOf(n, s) /\ next = count
               \/ f[1] = RemovedOf(n, s) /\ next = IF count = 0 THEN 0 ELSE count - 1
               \/ f[1] = Added(n, s) /\ next = 1
  PROVE  Few(l, t, n, s, next, bound)
<1> DEFINE r == RemovedOf(n, s)
           a == Added(n, s)
<1> HIDE DEF r, a
<1>1. /\ Len(t) \in Nat /\ Len(f) = Len(t) + 1 /\ \A i \in 1..Len(t) : t[i] = f[i + 1]
      /\ \A i \in 0..Len(t) : l[i] = h[i + 1]
  BY DEF Shifted
<1>2. \A p \in 0..Len(t) : Cardinality(Rest(t, p, r)) = Cardinality(Rest(f, p + 1, r))
                             /\ Cardinality(Rest(t, p, r)) \in Nat
  BY RestHandled, RestType
<1>3. \A p \in 0..Len(t) : ~Vacates(l, t, p, n) => ~Vacates(h, f, p + 1, n)
  BY VacatesHandled
<1>4. \A p \in 0..Len(t) : p + 1 \in 0..Len(f) /\ p + 1 # 0
  BY <1>1
<1>5. ASSUME NEW p \in 0..Len(t), ~Vacates(l, t, p, n)
      PROVE  ItemsAt(f, p + 1, n, s, count) <= bound + Cardinality(Rest(t, p, r))
  <2>1. ItemsAt(f, p + 1, n, s, count) <= bound + Cardinality(Rest(f, p + 1, r))
    BY <1>3, <1>4, <1>5 DEF Few, r
  <2>2. QED
    BY <1>2, <2>1
<1>6. SUFFICES ASSUME NEW p \in 0..Len(t), ~Vacates(l, t, p, n)
               PROVE  ItemsAt(t, p, n, s, next) <= bound + Cardinality(Rest(t, p, r))
  BY DEF Few, r
<1>7. CASE p # 0
  <2>1. p \in 1..Len(t)
    BY <1>1, <1>7
  <2>2. ItemsAt(t, p, n, s, next) = ItemsAt(f, p + 1, n, s, count)
    BY <1>1, <1>4, <1>7, <2>1 DEF ItemsAt
  <2>3. QED
    BY <1>5, <1>6, <2>2
<1>8. CASE p = 0
  <2>1. 0 \in 0..Len(t) /\ 0 \in 0..Len(f) /\ 1 \in 0..Len(f) /\ 0 + 1 = 1 /\ 1 \in 0..Len(f)
    BY <1>1
  <2>3. Cardinality(Rest(t, 0, r)) = Cardinality(Rest(f, 1, r)) /\ Cardinality(Rest(t, 0, r)) \in Nat
    BY <1>2, <2>1
  <2>4. ItemsAt(t, p, n, s, next) = next
    BY <1>8 DEF ItemsAt
  <2>5. CASE next <= bound
    BY <1>8, <2>3, <2>4, <2>5
  <2>6. ~\E d \in Device : Holds(h[1], d, n) /\ ~Holds(h[Len(f)], d, n)
    BY <1>6, <1>8, VacatesHandled
  <2>7. CASE ~\E d \in Device : Holds(h[0], d, n) /\ ~Holds(h[1], d, n)
    <3>1. ~Vacates(h, f, 0, n)
      BY <1>6, <1>8, <2>7, VacatesHandled
    <3>2. ItemsAt(f, 0, n, s, count) <= bound + Cardinality(Rest(f, 0, r))
      BY <2>1, <3>1 DEF Few, r
    <3>3. count <= bound + Cardinality(Rest(f, 0, r))
      BY <3>2 DEF ItemsAt
    <3>4. Cardinality(Rest(f, 0, r)) = Cardinality(Rest(f, 1, r)) + IF f[1] = r THEN 1 ELSE 0
      BY RestHandled
    <3>5. CASE f[1] # r /\ next = count
      BY <1>8, <2>3, <2>4, <3>3, <3>4, <3>5
    <3>6. CASE f[1] = r /\ next = IF count = 0 THEN 0 ELSE count - 1
      BY <1>8, <2>3, <2>4, <3>3, <3>4, <3>6
    <3>7. CASE f[1] = a /\ next = 1
      <4>1. ItemsAt(f, 1, n, s, count) = 1
        BY <3>7 DEF ItemsAt, a
      <4>2. ItemsAt(f, 1, n, s, count) <= bound + Cardinality(Rest(t, 0, r))
        BY <1>5, <1>6, <1>8, <2>1
      <4>3. QED
        BY <1>8, <2>4, <3>7, <4>1, <4>2
    <3>8. QED
      BY <2>5, <2>6, <3>5, <3>6, <3>7 DEF r, a
  <2>8. QED
    BY <2>5, <2>6, <2>7
<1>9. QED
  BY <1>7, <1>8

-----------------------------------------------------------------------------
(* The invariants, for a history h of the queue.                           *)

\* A listed network of a device that keeps its name is shown or signalled, if it is
\* announced by its own name.
ShownInv(h) ==
  \A net \in Network :
    net[1] \notin Renamed /\ Text[net[2]] = net[2] /\ m_wifiNets[net].live > 0 =>
    \A n \in Name : n = nmName[net[1]] =>
      Awaited(h, feed, net[1], n, net[2], Len(Shown(n, net[2])))

\* The items under a name nobody was renamed to are bounded.
GhostInv(h) ==
  \A n \in Name, s \in Ssid :
    Own(n) => Few(h, feed, n, s, Len(Shown(n, s)), Bound(n, s))

\* An item of the network s under the name n holds a profile that was bound to that
\* name or to none, and that is listed; and if it is configured the profile is for
\* the network: or a signal to come tells otherwise.
FitItem(h, n, s, item) ==
  item.conn \in Conn =>
    /\ \/ item.conn \in Edited
       \/ Own(n) /\ ~Vacates(h, feed, 0, n) => settings[item.conn].iface \in {n, AnyName}
    /\ item.conn \notin doubled =>
         /\ m_connections[item.conn] > 0 \/ Has(feed, About("connectionRemove", item.conn))
         /\ item.configured => \/ settings[item.conn].ssid = s
                               \/ Has(feed, About("connectionUpdate", item.conn))
                               \/ Has(feed, About("connectionRemove", item.conn))

\* The same after a step.
FitAfter(l, n, s, item) ==
  item.conn \in Conn =>
    /\ \/ item.conn \in Edited
       \/ Own(n)' /\ ~Vacates(l, feed', 0, n) => settings'[item.conn].iface \in {n, AnyName}
    /\ item.conn \notin doubled' =>
         /\ m_connections'[item.conn] > 0 \/ Has(feed', About("connectionRemove", item.conn))
         /\ item.configured => \/ settings'[item.conn].ssid = s
                               \/ Has(feed', About("connectionUpdate", item.conn))
                               \/ Has(feed', About("connectionRemove", item.conn))

ConfInv(h) ==
  \A n \in Name, s \in Ssid :
    \A i \in DOMAIN Shown(n, s) : FitItem(h, n, s, Shown(n, s)[i])

LEMMA ConfAfter ==
  ASSUME NEW l,
         ASSUME NEW n \in Name, NEW s \in Ssid, NEW i \in DOMAIN Shown(n, s)', NEW item,
                item = Shown(n, s)'[i]
         PROVE  FitAfter(l, n, s, item)
  PROVE  ConfInv(l)'
<1>1. SUFFICES ASSUME NEW n \in Name, NEW s \in Ssid, NEW i \in DOMAIN Shown(n, s)'
               PROVE  FitItem(l, n, s, Shown(n, s)[i])'
  BY DEF ConfInv
<1>2. PICK item : item = Shown(n, s)'[i]
  OBVIOUS
<1>3. FitAfter(l, n, s, item)
  BY <1>2
<1>4. QED
  BY <1>2, <1>3 DEF FitItem, FitAfter

\* A profile is edited only when it may be, and a signal of it is queued.
Edits ==
  /\ doubled \subseteq doubled'
  /\ \A c \in Conn : settings'[c] # settings[c] =>
       c \in Edited /\ Has(feed', About("connectionUpdate", c))

Reading == sub # "none" /\ ~disturbed

-----------------------------------------------------------------------------
(* A step of the manager.                                                  *)

LEMMA ShownLater ==
  ASSUME BaseInv, BaseInv', NEW msgs, Reports(msgs), UNCHANGED m_WifiNetworkList,
         NEW h, NEW l, Prolonged(h, feed, msgs, NamesNow', l, feed'), ShownInv(h)
  PROVE  ShownInv(l)'
<1> SUFFICES ASSUME NEW net \in Network, net[1] \notin Renamed, Text[net[2]] = net[2],
                    m_wifiNets'[net].live > 0, NEW n \in Name, n = nmName'[net[1]]
             PROVE  Awaited(l, feed', net[1], n, net[2], Len(Shown(n, net[2])'))
  BY DEF ShownInv
<1>1. net[1] \in nmDevice'
  BY DEF BaseInv, NetsInv
<1>2. Holds(NamesNow', net[1], n)
  BY <1>1 DEF Holds, NamesNow
<1>3. /\ ~Has(msgs, RemovedOf(n, net[2]))
      /\ (m_wifiNets[net].live > 0 /\ nmName[net[1]] = n) \/ Has(msgs, Added(n, net[2]))
  BY DEF Reports, KeepsShown
<1>4. m_wifiNets[net].live > 0 /\ nmName[net[1]] = n =>
        Awaited(h, feed, net[1], n, net[2], Len(Shown(n, net[2])))
  BY DEF ShownInv
<1>5. DOMAIN msgs = 1..Len(msgs)
  BY DEF Reports
<1>6. Shown(n, net[2])' = Shown(n, net[2])
  BY DEF Shown
<1>7. QED
  BY <1>2, <1>3, <1>4, <1>5, <1>6, AwaitedLater

LEMMA GhostLater ==
  ASSUME BaseInv, BaseInv', NEW msgs, Reports(msgs), UNCHANGED m_WifiNetworkList,
         NEW h, NEW l, Prolonged(h, feed, msgs, NamesNow', l, feed'),
         h[Len(feed)] = NamesNow, GhostInv(h)
  PROVE  GhostInv(l)'
<1> SUFFICES ASSUME NEW n \in Name, NEW s \in Ssid, Own(n)'
             PROVE  Few(l, feed', n, s, Len(Shown(n, s)'), Bound(n, s)')
  BY DEF GhostInv
<1>1. msgs \in Seq(FineSignal) /\ feed \in Seq(FineSignal) /\ feed' \in Seq(FineSignal)
  BY DEF Reports, BaseInv
<1>2. Len(msgs) = 0 => NamesNow' = h[Len(feed)]
  BY <1>1 DEF Reports, TellsNames
<1>3. Shown(n, s)' = Shown(n, s) /\ Len(Shown(n, s)) \in Nat
  <2>1. Shown(n, s) \in Seq(Item)
    BY ShownTypes DEF BaseInv
  <2>2. QED
    BY <2>1 DEF Shown
<1>4. Bound(n, s) \in Nat /\ Bound(n, s)' \in Nat
  BY BoundIs, BoundIsNext DEF BaseInv
<1>5. IF Leaves(n) THEN ~Has(msgs, Added(n, s))
      ELSE /\ Own(n) /\ Bound(n, s) <= Bound(n, s)' + CountOf(msgs, RemovedOf(n, s))
           /\ Has(msgs, Added(n, s)) => 1 <= Bound(n, s)'
  BY DEF Reports, KeepsBound
<1>6. CASE Leaves(n)
  <2>1. \E d \in Device : Holds(h[Len(feed)], d, n) /\ ~Holds(NamesNow', d, n)
    BY <1>6 DEF Leaves
  <2>2. QED
    BY <1>1, <1>2, <1>3, <1>4, <1>5, <1>6, <2>1, FewLater
<1>7. CASE ~Leaves(n)
  <2>1. Few(h, feed, n, s, Len(Shown(n, s)), Bound(n, s))
    BY <1>5, <1>7 DEF GhostInv
  <2>2. QED
    BY <1>1, <1>2, <1>3, <1>4, <1>5, <1>7, <2>1, FewLater
<1>8. QED
  BY <1>6, <1>7

LEMMA HasLater ==
  ASSUME NEW S, NEW h, NEW f \in Seq(S), NEW g \in Seq(S), NEW k, NEW l, NEW t \in Seq(S),
         Prolonged(h, f, g, k, l, t), NEW m, Has(f, m) \/ Has(g, m)
  PROVE  Has(t, m)
<1>1. /\ Len(f) \in Nat /\ Len(g) \in Nat /\ Len(t) = Len(f) + Len(g)
      /\ \A i \in 1..Len(f) : t[i] = f[i]
      /\ \A i \in 1..Len(g) : t[Len(f) + i] = g[i]
  BY DEF Prolonged
<1>2. DOMAIN f = 1..Len(f) /\ DOMAIN g = 1..Len(g) /\ DOMAIN t = 1..Len(t)
  OBVIOUS
<1>3. \A i \in 1..Len(f) : i \in 1..Len(t)
  BY <1>1
<1>4. \A i \in 1..Len(g) : Len(f) + i \in 1..Len(t)
  BY <1>1
<1>5. CASE Has(f, m)
  <2>1. PICK i \in 1..Len(f) : f[i] = m
    BY <1>2, <1>5 DEF Has
  <2>2. QED
    BY <1>1, <1>2, <1>3, <2>1 DEF Has
<1>6. CASE Has(g, m)
  <2>1. PICK i \in 1..Len(g) : g[i] = m
    BY <1>2, <1>6 DEF Has
  <2>2. QED
    BY <1>1, <1>2, <1>4, <2>1 DEF Has
<1>7. QED
  BY <1>5, <1>6

LEMMA ConfLater ==
  ASSUME BaseInv, BaseInv', NEW msgs, Reports(msgs), UNCHANGED m_WifiNetworkList, Edits,
         NEW h, NEW l, Prolonged(h, feed, msgs, NamesNow', l, feed'),
         h[Len(feed)] = NamesNow, ConfInv(h)
  PROVE  ConfInv(l)'
<1>1. msgs \in Seq(FineSignal) /\ feed \in Seq(FineSignal) /\ feed' \in Seq(FineSignal)
  BY DEF Reports, BaseInv
<1>2. Len(msgs) = 0 => NamesNow' = h[Len(feed)]
  BY <1>1 DEF Reports, TellsNames
<1>3. ASSUME NEW n \in Name, NEW s \in Ssid, NEW item, FitItem(h, n, s, item)
      PROVE  FitAfter(l, n, s, item)
  <2> SUFFICES ASSUME NEW c \in Conn, c = item.conn
               PROVE  FitAfter(l, n, s, item)
    BY DEF FitAfter
  <2>1. \A m : Has(feed, m) \/ Has(msgs, m) => Has(feed', m)
    BY <1>1, HasLater
  <2>2. ASSUME c \notin doubled'
        PROVE  /\ m_connections'[c] > 0 \/ Has(feed', About("connectionRemove", c))
               /\ item.configured => \/ settings'[c].ssid = s
                                     \/ Has(feed', About("connectionUpdate", c))
                                     \/ Has(feed', About("connectionRemove", c))
    <3>1. c \notin doubled
      BY <2>2 DEF Edits
    <3>2. \/ m_connections'[c] > 0
          \/ Has(feed, About("connectionRemove", c))
          \/ Has(msgs, About("connectionRemove", c))
      BY <1>3, <3>1 DEF FitItem, Reports, KeepsProfiles
    <3>3. item.configured => \/ settings[c].ssid = s
                             \/ Has(feed, About("connectionUpdate", c))
                             \/ Has(feed, About("connectionRemove", c))
      BY <1>3, <3>1 DEF FitItem
    <3>4. settings'[c] = settings[c] \/ Has(feed', About("connectionUpdate", c))
      BY DEF Edits
    <3>5. QED
      BY <2>1, <3>2, <3>3, <3>4
  <2>3. ASSUME c \notin Edited, Own(n)', ~Vacates(l, feed', 0, n)
        PROVE  settings'[c].iface \in {n, AnyName}
    <3>1. 0 \in 0..Len(feed)
      BY <1>1
    <3>2. /\ ~Vacates(h, feed, 0, n)
          /\ ~\E d \in Device : Holds(h[Len(feed)], d, n) /\ ~Holds(NamesNow', d, n)
      BY <1>2, <2>3, <3>1, VacatesLater
    <3>3. ~Leaves(n)
      BY <3>2 DEF Leaves
    <3>4. Own(n)
      BY <2>3, <3>3 DEF Reports, KeepsBound
    <3>5. settings'[c] = settings[c]
      BY <2>3 DEF Edits
    <3>6. QED
      BY <1>3, <2>3, <3>2, <3>4, <3>5 DEF FitItem
  <2>4. QED
    BY <2>2, <2>3 DEF FitAfter
<1>4. \A n, s : Shown(n, s)' = Shown(n, s)
  BY DEF Shown
<1>5. ASSUME NEW n \in Name, NEW s \in Ssid, NEW i \in DOMAIN Shown(n, s)', NEW item,
             item = Shown(n, s)'[i]
      PROVE  FitAfter(l, n, s, item)
  <2>1. i \in DOMAIN Shown(n, s) /\ item = Shown(n, s)[i]
    BY <1>4, <1>5
  <2>2. FitItem(h, n, s, item)
    BY <2>1 DEF ConfInv
  <2>3. QED
    BY <1>3, <2>2
<1>6. QED
  BY <1>5, ConfAfter

-----------------------------------------------------------------------------
(* A handler.                                                              *)

\* The handler takes the first signal of the queue, and the first step of the history.
Handled(h, l) ==
  /\ feed # <<>> /\ Shifted(h, feed, l, feed') /\ m_deviceMap' = h[1]
  /\ UNCHANGED <<nmDevice, nmName, nmNetwork, m_connections, m_wifiNets, settings>>
  /\ doubled \subseteq doubled'
  /\ \A n \in Name, s \in Ssid : Result(n, s)

\* A name is left, or taken by renaming, in the first step of the history.
LEMMA LeftHandled ==
  ASSUME NEW h, NEW l, Told(h, m_deviceMap, feed, NamesNow), Handled(h, l), NEW n
  PROVE  /\ Left(n) <=> \E d \in Device : Holds(h[0], d, n) /\ ~Holds(h[1], d, n)
         /\ Came(n) /\ Own(n) => \E d \in Device : Holds(h[1], d, n) /\ ~Holds(h[Len(feed)], d, n)
<1>1. h[0] = m_deviceMap /\ h[1] = m_deviceMap' /\ h[Len(feed)] = NamesNow
  BY DEF Told, Handled
<1>2. Own(n) => \A d \in Renamed : ~Holds(NamesNow, d, n)
  BY DEF Own, Holds, NamesNow
<1>3. QED
  BY <1>1, <1>2, ConstantsAssumption DEF Left, Came

LEMMA ShownHandled ==
  ASSUME BaseInv, BaseInv', NEW h, NEW l, Told(h, m_deviceMap, feed, NamesNow), Handled(h, l),
         ShownInv(h)
  PROVE  ShownInv(l)'
<1> SUFFICES ASSUME NEW net \in Network, net[1] \notin Renamed, Text[net[2]] = net[2],
                    m_wifiNets[net].live > 0, NEW n \in Name, n = nmName[net[1]]
             PROVE  Awaited(l, feed', net[1], n, net[2], Len(Shown(n, net[2])'))
  BY DEF ShownInv, Handled
<1> DEFINE d == net[1]
           s == net[2]
<1>1. d \in Device /\ s \in Ssid /\ net = <<d, s>>
  OBVIOUS
<1>2. net \in nmNetwork /\ d \in nmDevice
  BY DEF BaseInv, NetsInv
<1>3. Awaited(h, feed, d, n, s, Len(Shown(n, s)))
  BY DEF ShownInv
<1>4. Shown(n, s) \in Seq(Item) /\ Shown(n, s)' \in Seq(Item)
  BY <1>1, ShownTypes, ShownTypesNext DEF BaseInv
<1>5. Bound(n, s) \in Nat /\ Bound(n, s) # 0
  <2>1. Bound(n, s) = Entries(<<d, s>>)
    BY <1>1, <1>2, BoundIs DEF BaseInv
  <2>2. m_wifiNets[net].live \in Nat /\ m_wifiNets[net].dead \in Nat
    BY DEF BaseInv, TypeOK
  <2>3. QED
    BY <1>1, <2>1, <2>2 DEF Entries
<1>6. Msg = feed[1]
  BY DEF Handled, BaseInv, Msg
<1>7. Result(n, s)
  BY <1>1 DEF Handled
<1>8. ASSUME feed[1] = Added(n, s) PROVE Len(Shown(n, s)') # 0
  <2>1. Shown(n, s)' # <<>>
    BY <1>2, <1>6, <1>7, <1>8 DEF Result
  <2>2. QED
    BY <1>4, <2>1
<1>9. ASSUME Len(Shown(n, s)) # 0, feed[1] # RemovedOf(n, s), Holds(h[0], d, n), Holds(h[1], d, n)
      PROVE  Len(Shown(n, s)') # 0
  <2>1. IsMap(h[0]) /\ IsMap(h[1])
    <3>1. IsMap(m_deviceMap) /\ IsMap(h[1])
      BY ToldHandled DEF Handled
    <3>2. QED
      BY <3>1 DEF Told
  <2>2. ~Left(n)
    <3>1. \A e \in Device : Holds(h[0], e, n) => e = d
      BY <1>9, <2>1 DEF IsMap, Holds
    <3>2. QED
      BY <1>9, <3>1, LeftHandled
  <2>3. ~Came(n)
    <3>1. \A e \in Device : Holds(h[1], e, n) => e = d
      BY <1>9, <2>1 DEF IsMap, Holds
    <3>2. h[1] = m_deviceMap'
      BY DEF Handled
    <3>3. QED
      BY <3>1, <3>2, ConstantsAssumption DEF Came
  <2>4. Stays(n, s)
    BY <1>7, <2>2, <2>3 DEF Result
  <2>5. CASE Similar(Shown(n, s), Shown(n, s)', n, s)
    BY <1>9, <2>5 DEF Similar
  <2>6. CASE \E c \in Chosen(n, s) : Shown(n, s)' = <<c>>
    BY <2>6
  <2>7. CASE Len(Shown(n, s)') = Bound(n, s)
    BY <1>5, <2>7
  <2>8. QED
    BY <1>6, <1>9, <2>4, <2>5, <2>6, <2>7 DEF Stays
<1>10. Shifted(h, feed, l, feed')
  BY DEF Handled
<1> HIDE DEF d, s
<1>11. Awaited(l, feed', d, n, s, Len(Shown(n, s)'))
  BY <1>3, <1>8, <1>9, <1>10, AwaitedHandled
<1>12. QED
  BY <1>11 DEF d, s

LEMMA GhostHandled ==
  ASSUME BaseInv, BaseInv', NEW h, NEW l, Told(h, m_deviceMap, feed, NamesNow), Handled(h, l),
         GhostInv(h)
  PROVE  GhostInv(l)'
<1>1. \A n, s : Bound(n, s)' = Bound(n, s) /\ (Own(n)' <=> Own(n))
  BY DEF Handled, Bound, Own, Entries
<1> SUFFICES ASSUME NEW n \in Name, NEW s \in Ssid, Own(n)
             PROVE  Few(l, feed', n, s, Len(Shown(n, s)'), Bound(n, s))
  BY <1>1 DEF GhostInv
<1> DEFINE items == Shown(n, s)
           next  == Shown(n, s)'
<1>2. items \in Seq(Item) /\ next \in Seq(Item)
  BY ShownTypes, ShownTypesNext DEF BaseInv
<1>3. feed \in Seq(FineSignal) /\ feed' \in Seq(FineSignal) /\ Msg = feed[1]
  BY DEF BaseInv, Handled, Msg
<1>4. Bound(n, s) \in Nat
  BY BoundIs DEF BaseInv
<1>5. Few(h, feed, n, s, Len(items), Bound(n, s)) /\ Shifted(h, feed, l, feed') /\ Result(n, s)
  BY DEF GhostInv, Handled
<1> HIDE DEF items, next
<1>6. Len(items) \in Nat /\ Len(next) \in Nat
  BY <1>2
<1> DEFINE Gone == \E d \in Device : Holds(h[1], d, n) /\ ~Holds(h[Len(feed)], d, n)
           Lost == \E d \in Device : Holds(h[0], d, n) /\ ~Holds(h[1], d, n)
<1>7. \/ Len(next) <= Bound(n, s)
      \/ Gone
      \/ /\ ~Lost
         /\ \/ feed[1] # RemovedOf(n, s) /\ Len(next) = Len(items)
            \/ feed[1] = RemovedOf(n, s) /\ Len(next) = IF Len(items) = 0 THEN 0 ELSE Len(items) - 1
            \/ feed[1] = Added(n, s) /\ Len(next) = 1
  <2>1. (Left(n) <=> Lost) /\ (Came(n) => Gone)
    BY LeftHandled
  <2>2. CASE next = <<>>
    BY <1>4, <2>2
  <2>3. CASE Came(n)
    BY <2>1, <2>3
  <2>4. CASE Stays(n, s)
    <3>1. ~Lost
      BY <2>1, <2>4 DEF Stays
    <3> HIDE DEF Gone, Lost
    <3>2. CASE Msg # RemovedOf(n, s) /\ Similar(items, next, n, s)
      BY <1>3, <3>1, <3>2 DEF Similar
    <3>3. CASE Msg = RemovedOf(n, s) /\ next = IF items = <<>> THEN <<>> ELSE Tail(items)
      <4>1. Len(next) = IF Len(items) = 0 THEN 0 ELSE Len(items) - 1
        BY <1>2, <3>3
      <4>2. QED
        BY <1>3, <3>1, <3>3, <4>1
    <3>4. CASE Msg = Added(n, s) /\ \E c \in Chosen(n, s) : next = <<c>>
      <4>1. Len(next) = 1
        BY <3>4
      <4>2. QED
        BY <1>3, <3>1, <3>4, <4>1
    <3>5. CASE Len(next) = Bound(n, s)
      BY <1>4, <3>5
    <3>6. QED
      BY <2>4, <3>2, <3>3, <3>4, <3>5 DEF Stays, items, next
  <2>5. QED
    BY <1>5, <2>2, <2>3, <2>4 DEF Result, next
<1>8. Few(l, feed', n, s, Len(next), Bound(n, s))
  BY <1>3, <1>4, <1>5, <1>6, <1>7, FewHandled
<1>9. QED
  BY <1>8 DEF next

\* What a handler makes of an item fits: a profile that matches, an item that did and
\* whose profile's end is not handled, or one compared anew.
LEMMA FitHandled ==
  ASSUME BaseInv, BaseInv', NEW h, NEW l, Told(h, m_deviceMap, feed, NamesNow), Handled(h, l),
         NEW n \in Name, NEW s \in Ssid, NEW item, NEW next
  PROVE  /\ next \in Chosen(n, s) => FitAfter(l, n, s, next)
         /\ /\ Came(n) /\ Msg.sig \notin {"connectionRemove", "connectionUpdate"}
            /\ \E o \in Name : FitItem(h, o, s, next)
            => FitAfter(l, n, s, next)
         /\ /\ ~Left(n) /\ Msg.sig \notin {"connectionRemove", "connectionUpdate"}
            /\ FitItem(h, n, s, next)
            => FitAfter(l, n, s, next)
         /\ /\ ~Left(n) /\ FitItem(h, n, s, item) /\ SimilarItem(item, next, n, s)
            /\ /\ Msg.sig \in {"connectionRemove", "connectionUpdate"}
               /\ Msg.obj \notin HeldTwice(m_WifiNetworkList) /\ next.conn = Msg.obj
               => /\ Msg.sig = "connectionUpdate"
                  /\ m_connections[Msg.obj] > 0 => next = Updated(Msg.obj, s)
            => FitAfter(l, n, s, next)
<1>1. /\ UNCHANGED <<nmDevice, nmName, m_connections, settings>> /\ Shifted(h, feed, l, feed')
      /\ feed \in Seq(FineSignal) /\ feed' \in Seq(FineSignal) /\ Msg = feed[1]
      /\ doubled \subseteq doubled' /\ HeldTwice(m_WifiNetworkList) \subseteq doubled
  BY DEF Handled, BaseInv, Msg
<1>2. Own(n)' <=> Own(n)
  BY <1>1 DEF Own
<1>3. ASSUME NEW m, Has(feed, m), Msg # m
      PROVE  Has(feed', m)
  <2>1. PICK i \in DOMAIN feed : feed[i] = m
    BY <1>3 DEF Has
  <2>2. i \in Nat /\ i # 0 /\ i # 1 /\ i <= Len(feed)
    BY <1>1, <1>3, <2>1
  <2>3. Len(feed') \in Nat /\ Len(feed) = Len(feed') + 1
    BY <1>1 DEF Shifted
  <2>4. i - 1 \in 1..Len(feed') /\ (i - 1) + 1 = i
    BY <2>2, <2>3
  <2>5. feed'[i - 1] = feed[i] /\ i - 1 \in DOMAIN feed'
    BY <1>1, <2>4 DEF Shifted
  <2>6. QED
    BY <2>1, <2>5 DEF Has
<1>4. \A c : /\ About("connectionRemove", c).sig = "connectionRemove"
             /\ About("connectionUpdate", c).sig = "connectionUpdate"
             /\ About("connectionRemove", c).obj = c /\ About("connectionUpdate", c).obj = c
  BY DEF About
<1>5. ASSUME NEW c \in Matching(n, s) PROVE FitAfter(l, n, s, Taken(c))
  <2>1. m_connections'[c] > 0 /\ settings'[c].ssid = s /\ settings'[c].iface \in {n, AnyName}
    BY <1>1 DEF Matching
  <2>2. Taken(c).conn = c
    BY DEF Taken
  <2>3. QED
    BY <2>1, <2>2 DEF FitAfter
<1>6. FitAfter(l, n, s, Free)
  BY ProfileAssumption DEF FitAfter, Free
<1>7. ASSUME next \in Chosen(n, s) PROVE FitAfter(l, n, s, next)
  BY <1>5, <1>6, <1>7, ChosenMatch
<1>8. ASSUME ~Left(n) PROVE ~Vacates(l, feed', 0, n) => ~Vacates(h, feed, 0, n)
  BY <1>1, <1>8, LeftHandled, VacatesHandled
<1>9. ASSUME Came(n) PROVE ~(Own(n)' /\ ~Vacates(l, feed', 0, n))
  BY <1>1, <1>2, <1>9, LeftHandled, VacatesHandled
<1>10. ASSUME Msg.sig \notin {"connectionRemove", "connectionUpdate"}, NEW o \in Name,
              FitItem(h, o, s, next), Came(n) \/ (~Left(n) /\ o = n)
       PROVE  FitAfter(l, n, s, next)
  <2> SUFFICES ASSUME NEW c \in Conn, c = next.conn
               PROVE  FitAfter(l, n, s, next)
    BY DEF FitAfter
  <2>1. Msg # About("connectionRemove", c) /\ Msg # About("connectionUpdate", c)
    BY <1>4, <1>10
  <2>2. c \notin doubled' => c \notin doubled
    BY <1>1
  <2>3. \/ c \in Edited
        \/ Own(n)' /\ ~Vacates(l, feed', 0, n) => settings'[c].iface \in {n, AnyName}
    BY <1>1, <1>2, <1>8, <1>9, <1>10 DEF FitItem
  <2>4. c \notin doubled' =>
          /\ m_connections'[c] > 0 \/ Has(feed', About("connectionRemove", c))
          /\ next.configured => \/ settings'[c].ssid = s
                                \/ Has(feed', About("connectionUpdate", c))
                                \/ Has(feed', About("connectionRemove", c))
    BY <1>1, <1>3, <1>10, <2>1, <2>2 DEF FitItem
  <2>5. QED
    BY <2>3, <2>4 DEF FitAfter
<1>11. ASSUME ~Left(n), FitItem(h, n, s, item), SimilarItem(item, next, n, s),
              /\ Msg.sig \in {"connectionRemove", "connectionUpdate"}
              /\ Msg.obj \notin HeldTwice(m_WifiNetworkList) /\ next.conn = Msg.obj
              => /\ Msg.sig = "connectionUpdate"
                 /\ m_connections[Msg.obj] > 0 => next = Updated(Msg.obj, s)
       PROVE  FitAfter(l, n, s, next)
  <2>1. CASE next = Free \/ \E c \in Matching(n, s) : next = Taken(c)
    BY <1>5, <1>6, <2>1
  <2>2. ASSUME \/ next = item
               \/ Msg.sig = "connectionUpdate" /\ item.conn = Msg.obj /\ next = Updated(Msg.obj, s)
        PROVE  FitAfter(l, n, s, next)
    <3> SUFFICES ASSUME NEW c \in Conn, c = next.conn
                 PROVE  FitAfter(l, n, s, next)
      BY DEF FitAfter
    <3>1. /\ Updated(Msg.obj, s).conn = Msg.obj
          /\ Updated(Msg.obj, s).configured <=> settings[Msg.obj].ssid = s
      BY DEF Updated
    <3>2. item.conn = c
      BY <2>2, <3>1
    <3>3. \/ c \in Edited
          \/ Own(n)' /\ ~Vacates(l, feed', 0, n) => settings'[c].iface \in {n, AnyName}
      BY <1>1, <1>2, <1>8, <1>11, <3>2 DEF FitItem
    <3>4. ASSUME c \notin doubled'
          PROVE  /\ m_connections'[c] > 0 \/ Has(feed', About("connectionRemove", c))
                 /\ next.configured => \/ settings'[c].ssid = s
                                       \/ Has(feed', About("connectionUpdate", c))
                                       \/ Has(feed', About("connectionRemove", c))
      <4>1. c \notin doubled /\ c \notin HeldTwice(m_WifiNetworkList)
        BY <1>1, <3>4
      <4>2. Msg # About("connectionRemove", c)
        BY <1>4, <1>11, <4>1
      <4>3. m_connections[c] > 0 \/ Has(feed', About("connectionRemove", c))
        BY <1>3, <1>11, <3>2, <4>1, <4>2 DEF FitItem
      <4>4. ASSUME Msg.sig = "connectionUpdate", Msg.obj = c, m_connections[c] > 0, next.configured
            PROVE  settings'[c].ssid = s
        BY <1>1, <1>11, <3>1, <4>1, <4>4
      <4>5. ASSUME next = item, next.configured,
                   ~(Msg.sig = "connectionUpdate" /\ Msg.obj = c)
            PROVE  \/ settings'[c].ssid = s
                   \/ Has(feed', About("connectionUpdate", c))
                   \/ Has(feed', About("connectionRemove", c))
        <5>1. Msg # About("connectionUpdate", c)
          BY <1>4, <4>5
        <5>2. QED
          BY <1>1, <1>3, <1>11, <3>2, <4>1, <4>2, <4>5, <5>1 DEF FitItem
      <4>6. QED
        BY <1>1, <2>2, <3>2, <4>3, <4>4, <4>5
    <3>5. QED
      BY <3>3, <3>4 DEF FitAfter
  <2>3. QED
    BY <1>11, <2>1, <2>2 DEF SimilarItem
<1>12. QED
  BY <1>7, <1>10, <1>11

LEMMA ConfHandled ==
  ASSUME BaseInv, BaseInv', NEW h, NEW l,
         Told(h, m_deviceMap, feed, NamesNow), Handled(h, l), ConfInv(h)
  PROVE  ConfInv(l)'
<1> SUFFICES ASSUME NEW n \in Name, NEW s \in Ssid, NEW i \in DOMAIN Shown(n, s)', NEW new,
                    new = Shown(n, s)'[i]
             PROVE  FitAfter(l, n, s, new)
  BY ConfAfter
<1> DEFINE items == Shown(n, s)
           next  == Shown(n, s)'
<1>1. items \in Seq(Item) /\ next \in Seq(Item) /\ Result(n, s)
  BY ShownTypes, ShownTypesNext DEF BaseInv, Handled
<1>2. ASSUME NEW o \in Name, NEW j \in DOMAIN Shown(o, s) PROVE FitItem(h, o, s, Shown(o, s)[j])
  BY DEF ConfInv
<1>3. i \in DOMAIN next /\ new = next[i]
  OBVIOUS
<1>4. CASE Came(n) /\ Msg.sig = "deviceUpdate" /\ \E o \in Name : next = Shown(o, s)
  <2>1. PICK o \in Name : next = Shown(o, s)
    BY <1>4
  <2>2. FitItem(h, o, s, new)
    BY <1>2, <1>3, <2>1
  <2>3. QED
    BY <1>4, <2>2, FitHandled
<1>5. CASE Stays(n, s)
  <2>1. ~Left(n)
    BY <1>5 DEF Stays
  <2>2. \A j \in DOMAIN items : FitItem(h, n, s, items[j])
    BY <1>2
  <2> HIDE DEF items, next
  <2>3. CASE Similar(items, next, n, s)
    <3>1. i \in DOMAIN items
      BY <1>1, <1>3, <2>3 DEF Similar
    <3>2. SimilarItem(items[i], new, n, s)
      BY <1>3, <2>3, <3>1 DEF Similar
    <3>3. /\ Msg.sig \in {"connectionRemove", "connectionUpdate"}
          /\ Msg.obj \notin HeldTwice(m_WifiNetworkList) /\ new.conn = Msg.obj
          => /\ Msg.sig = "connectionUpdate"
             /\ m_connections[Msg.obj] > 0 => new = Updated(Msg.obj, s)
      BY <1>3, <2>3, <3>1 DEF Similar
    <3>4. QED
      BY <2>1, <2>2, <3>1, <3>2, <3>3, FitHandled
  <2>4. CASE Msg = RemovedOf(n, s) /\ next = IF items = <<>> THEN <<>> ELSE Tail(items)
    <3>1. i + 1 \in DOMAIN items /\ new = items[i + 1]
      BY <1>1, <1>3, <2>4
    <3>2. Msg.sig \notin {"connectionRemove", "connectionUpdate"}
      BY <2>4 DEF RemovedOf
    <3>3. QED
      BY <2>1, <2>2, <3>1, <3>2, FitHandled
  <2>5. ASSUME new \in Chosen(n, s)
        PROVE  FitAfter(l, n, s, new)
    BY <2>5, FitHandled
  <2>6. CASE \E c \in Chosen(n, s) : next = <<c>>
    <3>1. PICK c \in Chosen(n, s) : next = <<c>>
      BY <2>6
    <3>2. new = c
      BY <1>3, <3>1
    <3>3. QED
      BY <2>5, <3>2
  <2>7. CASE \A j \in DOMAIN next : next[j] \in Chosen(n, s)
    BY <1>3, <2>5, <2>7
  <2>8. QED
    BY <1>5, <2>3, <2>4, <2>6, <2>7 DEF Stays, items, next
<1>6. CASE next = <<>>
  BY <1>3, <1>6
<1>7. QED
  BY <1>1, <1>4, <1>5, <1>6 DEF Result

-----------------------------------------------------------------------------
(* The steps, along the history.                                           *)

\* The step leads from the history h to l, and keeps what is known of it.
Carries(h, l) ==
  /\ Told(l, m_deviceMap', feed', NamesNow')
  /\ netSub' # "none" =>
       /\ netSub = "none" \/ ShownInv(h) => ShownInv(l)'
       /\ netSub = "none" \/ GhostInv(h) => GhostInv(l)'
       /\ netSub = "none" \/ ConfInv(h) => ConfInv(l)'

\* Nothing is queued before the networks are connected, if the manager was still.
Prompt == Reading /\ netSub # "live" => feed = <<>>

LEMMA ManagerCarries ==
  ASSUME BaseInv, BaseInv', ManagerStep, doubled \subseteq doubled', Reading',
         NEW h, Told(h, m_deviceMap, feed, NamesNow)
  PROVE  /\ Reading /\ netSub = "live" /\ netSub' = "live"
         /\ \E l : Carries(h, l)
<1>1. /\ ManagerNext /\ UNCHANGED <<m_deviceMap, m_WifiNetworkList, netSub>>
      /\ disturbed' = (disturbed \/ (sub # "none" /\ netSub # "live"))
      /\ \A c \in Conn : settings'[c] # settings[c] =>
           c \in Edited /\ Emit(<<About("connectionUpdate", c)>>)
  BY ManagerStepIs
<1>2. sub' = sub /\ sub # "none" /\ ~disturbed /\ netSub = "live"
  BY <1>1, ManagerReports DEF Reading, BaseInv
<1>3. PICK msgs : Reports(msgs)
  BY <1>1, <1>2, ManagerReports
<1>4. sub = "live" /\ feed \in Seq(FineSignal) /\ msgs \in Seq(FineSignal)
  BY <1>2, <1>3 DEF BaseInv, Phases, Reports
<1>5. feed' = feed \o msgs
  BY <1>3, <1>4 DEF Reports, Emit
<1>6. PICK l : Prolonged(h, feed, msgs, NamesNow', l, feed')
  BY <1>4, <1>5, ProlongedExists
<1>7. Told(l, m_deviceMap', feed', NamesNow')
  <2>1. IsMap(NamesNow')
    <3>1. \A m : m = NamesNow' => IsMap(m)
      BY DEF IsMap, NamesNow, BaseInv, NetsInv, TypeOK
    <3>2. QED
      BY <3>1
  <2>2. /\ Len(msgs) = 0 => NamesNow' = NamesNow
        /\ \A i \in 1..Len(msgs) : Tells(IF i = 1 THEN NamesNow ELSE NamesNow', msgs[i], NamesNow')
    BY <1>3, <1>4 DEF Reports, TellsNames
  <2>3. Told(l, m_deviceMap, feed', NamesNow')
    BY <1>6, <2>1, <2>2, ToldLater
  <2>4. QED
    BY <1>1, <2>3
<1>8. h[Len(feed)] = NamesNow
  BY DEF Told
<1>9. Edits
  <2>1. SUFFICES ASSUME NEW c \in Conn, settings'[c] # settings[c]
                 PROVE  c \in Edited /\ Has(feed', About("connectionUpdate", c))
    BY DEF Edits
  <2> DEFINE m == About("connectionUpdate", c)
  <2>2. c \in Edited /\ Emit(<<m>>)
    BY <1>1, <2>1
  <2> HIDE DEF m
  <2>3. feed' = feed \o <<m>>
    BY <1>4, <2>2 DEF Emit
  <2>4. Len(feed) + 1 \in DOMAIN feed' /\ feed'[Len(feed) + 1] = m
    BY <1>4, <2>3
  <2>5. Has(feed', m)
    BY <2>4 DEF Has
  <2>6. QED
    BY <2>2, <2>5 DEF m
<1>10. /\ ShownInv(h) => ShownInv(l)'
       /\ GhostInv(h) => GhostInv(l)'
       /\ ConfInv(h) => ConfInv(l)'
  BY <1>1, <1>3, <1>6, <1>8, <1>9, ShownLater, GhostLater, ConfLater
<1>11. Carries(h, l)
  BY <1>2, <1>7, <1>10 DEF Carries
<1>12. QED
  BY <1>1, <1>2, <1>11 DEF Reading

LEMMA HandleCarries ==
  ASSUME BaseInv, BaseInv', Handle, doubled \subseteq doubled', Reading',
         NEW h, Told(h, m_deviceMap, feed, NamesNow)
  PROVE  /\ Reading /\ netSub = "live" /\ netSub' = "live"
         /\ \E l : Carries(h, l)
<1>1. Deliver /\ netSub = "live" /\ UNCHANGED <<settings, netSub, disturbed>>
  BY DEF Handle, OnDeviceAdd, OnDeviceRemove, OnDeviceUpdate, OnWifiNetworkAdded,
         OnWifiNetworkRemoved, OnWifiNetworkDeviceDisappear, OnConnectionAdd,
         OnConnectionRemove, OnConnectionUpdate, OnOther, Handling, started
<1>2. /\ feed # <<>> /\ feed' = Tail(feed)
      /\ UNCHANGED <<nmDevice, nmName, nmNetwork, m_connections, m_wifiNets, sub>>
  BY <1>1 DEF Deliver, library, lists
<1>3. m_initFinished /\ feed \in Seq(FineSignal)
  BY <1>1 DEF BaseInv, Phases
<1>4. Follows
  BY <1>3, HandleResult DEF BaseInv
<1>5. PICK l : Shifted(h, feed, l, feed')
  BY <1>2, <1>3, ShiftedExists
<1>6. /\ Told(l, h[1], feed', NamesNow) /\ IsMap(m_deviceMap)
      /\ Tells(m_deviceMap, feed[1], h[1])
  BY <1>5, ToldHandled
<1>7. m_deviceMap' = h[1] /\ \A n \in Name, s \in Ssid : Result(n, s)
  <2>1. Msg = feed[1]
    BY <1>2, <1>3, HeadFine
  <2>2. QED
    BY <1>4, <1>6, <2>1 DEF Follows
<1>8. Handled(h, l)
  BY <1>1, <1>2, <1>5, <1>7 DEF Handled
<1>9. /\ ShownInv(h) => ShownInv(l)'
      /\ GhostInv(h) => GhostInv(l)'
      /\ ConfInv(h) => ConfInv(l)'
  BY <1>8, ShownHandled, GhostHandled, ConfHandled
<1>10. NamesNow' = NamesNow
  BY <1>2 DEF NamesNow
<1>11. Carries(h, l)
  BY <1>1, <1>6, <1>7, <1>9, <1>10 DEF Carries
<1>12. QED
  BY <1>1, <1>2, <1>11 DEF Reading

\* A step that changes nothing but the profile of an item.
LEMMA ItemCarries ==
  ASSUME BaseInv, BaseInv', Reading', sub # "none", netSub # "none" <=> netSub' # "none",
         UNCHANGED <<nmDevice, nmName, m_connections, m_wifiNets, feed, m_deviceMap, disturbed>>,
         UNCHANGED settings, doubled \subseteq doubled',
         \A n \in Name, s \in Ssid :
           /\ Len(Shown(n, s)') = Len(Shown(n, s))
           /\ \A i \in DOMAIN Shown(n, s) :
                Shown(n, s)'[i] = Shown(n, s)[i] \/ Shown(n, s)'[i] \in Chosen(n, s),
         NEW h, Told(h, m_deviceMap, feed, NamesNow)
  PROVE  Reading /\ Carries(h, h)
<1>1. NamesNow' = NamesNow
  BY DEF NamesNow
<1>2. Told(h, m_deviceMap', feed', NamesNow')
  BY <1>1
<1>3. ASSUME ShownInv(h) PROVE ShownInv(h)'
  BY <1>3 DEF ShownInv
<1>4. ASSUME GhostInv(h) PROVE GhostInv(h)'
  <2>1. \A n, s : Bound(n, s)' = Bound(n, s) /\ (Own(n)' <=> Own(n))
    BY DEF Bound, Own, Entries
  <2>2. QED
    BY <1>4, <2>1 DEF GhostInv
<1>5. ASSUME ConfInv(h) PROVE ConfInv(h)'
  <2>1. SUFFICES ASSUME NEW n \in Name, NEW s \in Ssid, NEW i \in DOMAIN Shown(n, s)',
                        NEW item, item = Shown(n, s)'[i]
                 PROVE  FitAfter(h, n, s, item)
    BY ConfAfter
  <2>2. i \in DOMAIN Shown(n, s)
    <3>1. Shown(n, s) \in Seq(Item) /\ Shown(n, s)' \in Seq(Item)
      BY ShownTypes, ShownTypesNext DEF BaseInv
    <3>2. Len(Shown(n, s)') = Len(Shown(n, s))
      OBVIOUS
    <3>3. QED
      BY <3>1, <3>2
  <2>3. CASE item \in Chosen(n, s)
    <3>1. item.conn \in Conn => item.conn \in Matching(n, s)
      BY <2>3, ChosenMatch, ProfileAssumption DEF Free, Taken
    <3>2. QED
      BY <3>1 DEF FitAfter, Matching
  <2>4. CASE item = Shown(n, s)[i]
    <3>1. FitItem(h, n, s, item)
      BY <1>5, <2>2, <2>4 DEF ConfInv
    <3>2. Own(n)' <=> Own(n)
      BY DEF Own
    <3>3. QED
      BY <3>1, <3>2 DEF FitItem, FitAfter
  <2>5. QED
    BY <2>1, <2>2, <2>3, <2>4
<1>6. QED
  BY <1>2, <1>3, <1>4, <1>5 DEF Carries, Reading

LEMMA ReadCarries ==
  ASSUME BaseInv, BaseInv', Prompt, ReadNetworks, Reading',
         NEW h, Told(h, m_deviceMap, feed, NamesNow)
  PROVE  Reading /\ feed' = <<>> /\ Carries(h, h)
<1>1. /\ sub = "live" /\ netSub = "none" /\ netSub' = "read" /\ ListInit
      /\ feed' = OfDevices(feed)
      /\ UNCHANGED <<nmDevice, nmName, m_connections, m_wifiNets, sub, m_deviceMap, disturbed>>
      /\ UNCHANGED settings
  BY DEF ReadNetworks, library, lists
<1>2. Reading /\ feed = <<>> /\ feed' = <<>>
  <2>1. Reading /\ feed = <<>>
    BY <1>1 DEF Reading, Prompt
  <2>2. OfDevices(feed) = <<>>
    BY <2>1, OfDevicesType DEF BaseInv
  <2>3. QED
    BY <1>1, <2>1, <2>2
<1>3. Len(feed) = 0 /\ h[0] = NamesNow /\ NamesNow' = NamesNow /\ m_initFinished
  BY <1>1, <1>2 DEF Told, NamesNow, BaseInv, Phases
<1>4. Told(h, m_deviceMap', feed', NamesNow')
  BY <1>1, <1>2, <1>3
<1>5. \A n \in Name, s \in Ssid :
        /\ Len(Shown(n, s)') = Bound(n, s)
        /\ \A i \in DOMAIN Shown(n, s)' : Shown(n, s)'[i] \in Chosen(n, s)
  BY <1>1, <1>3, ListInitShows DEF BaseInv
<1>6. \A n \in Name, s \in Ssid : Bound(n, s) \in Nat
  BY BoundIs DEF BaseInv
<1>7. 0..Len(feed') = {0} /\ 0 + 1..Len(feed') = {}
  BY <1>2
<1>8. ShownInv(h)'
  <2>1. SUFFICES ASSUME NEW net \in Network, m_wifiNets[net].live > 0,
                        NEW n \in Name, n = nmName[net[1]]
                 PROVE  Awaited(h, feed', net[1], n, net[2], Len(Shown(n, net[2])'))
    BY <1>1 DEF ShownInv
  <2>2. net[1] \in nmDevice /\ net[2] \in Ssid /\ net = <<net[1], net[2]>>
    BY <2>1 DEF BaseInv, NetsInv
  <2>3. Bound(n, net[2]) # 0
    <3>1. Bound(n, net[2]) = Entries(net)
      BY <2>1, <2>2, BoundIs DEF BaseInv
    <3>2. m_wifiNets[net].live \in Nat /\ m_wifiNets[net].dead \in Nat
      BY DEF BaseInv, TypeOK
    <3>3. QED
      BY <2>1, <3>1, <3>2 DEF Entries
  <2>4. Holds(h[0], net[1], n)
    BY <1>3, <2>1, <2>2 DEF Holds, NamesNow
  <2>5. Len(Shown(n, net[2])') # 0
    BY <1>5, <2>2, <2>3
  <2>6. QED
    BY <1>7, <2>4, <2>5 DEF Awaited
<1>9. GhostInv(h)'
  <2>1. \A n, s : Bound(n, s)' = Bound(n, s)
    BY <1>1 DEF Bound, Entries
  <2>2. ASSUME NEW n \in Name, NEW s \in Ssid
        PROVE  Few(h, feed', n, s, Len(Shown(n, s)'), Bound(n, s))
    <3>1. Rest(feed', 0, RemovedOf(n, s)) = {}
      BY <1>7 DEF Rest
    <3>2. Cardinality(Rest(feed', 0, RemovedOf(n, s))) = 0
      BY <3>1, FS_EmptySet
    <3>3. ItemsAt(feed', 0, n, s, Len(Shown(n, s)')) = Bound(n, s)
      BY <1>5 DEF ItemsAt
    <3>4. QED
      BY <1>6, <1>7, <3>2, <3>3 DEF Few
  <2>3. QED
    BY <2>1, <2>2 DEF GhostInv
<1>10. ConfInv(h)'
  <2>1. SUFFICES ASSUME NEW n \in Name, NEW s \in Ssid, NEW i \in DOMAIN Shown(n, s)',
                        NEW item, item = Shown(n, s)'[i]
                 PROVE  FitAfter(h, n, s, item)
    BY ConfAfter
  <2>2. item \in Chosen(n, s)
    BY <1>5, <2>1
  <2>3. item.conn \in Conn => item.conn \in Matching(n, s)
    BY <2>2, ChosenMatch, ProfileAssumption DEF Free, Taken
  <2>4. QED
    BY <1>1, <2>3 DEF FitAfter, Matching
<1>11. QED
  BY <1>2, <1>4, <1>8, <1>9, <1>10 DEF Carries

\* The device map is read: the history begins.
LEMMA MapCarries ==
  ASSUME BaseInv, BaseInv', InitDeviceMap
  PROVE  /\ sub = "none" /\ netSub = "none" /\ netSub' = "none" /\ feed' = <<>>
         /\ \E l : Told(l, m_deviceMap', feed', NamesNow')
<1>1. /\ m_initFinished /\ sub = "none" /\ UNCHANGED <<nmDevice, nmName, m_devices, feed, netSub>>
      /\ m_deviceMap' = [d \in {e \in Device : m_devices[e] > 0} |-> nmName[d]]
  BY DEF InitDeviceMap, ReadLists, library, lists, queue, started
<1>2. netSub = "none" /\ feed = <<>>
  BY <1>1 DEF BaseInv, Phases
<1>3. NamesNow' = NamesNow /\ IsMap(NamesNow)
  BY <1>1, NamesAreMap DEF NamesNow, BaseInv
<1>4. m_deviceMap' = NamesNow
  <2>1. {e \in Device : m_devices[e] > 0} = nmDevice
    BY <1>1 DEF BaseInv, ListsInv, One, TypeOK
  <2>2. QED
    BY <1>1, <2>1 DEF NamesNow
<1> DEFINE m == NamesNow
           l == [i \in {0} |-> m]
<1>5. feed' = <<>> /\ Len(feed') = 0 /\ 0..Len(feed') = {0} /\ 1..Len(feed') = {}
  BY <1>1, <1>2
<1>6. l[0] = m /\ IsMap(l[0])
  BY <1>3
<1> HIDE DEF m, l
<1>7. Told(l, m, feed', m)
  BY <1>5, <1>6 DEF Told
<1>8. \E k : Told(k, m, feed', m)
  <2>1. PICK k : k = l
    OBVIOUS
  <2>2. QED
    BY <1>7, <2>1
<1>9. m = m_deviceMap' /\ m = NamesNow'
  BY <1>3, <1>4 DEF m
<1>10. QED
  BY <1>1, <1>2, <1>5, <1>8, <1>9

LEMMA HistoryStep ==
  ASSUME BaseInv, BaseInv', Prompt, [NetNext]_netVars, Reading'
  PROVE  /\ Prompt'
         /\ \/ netSub' = "none" /\ \E l : Told(l, m_deviceMap', feed', NamesNow')
            \/ /\ Reading
               /\ \A h : Told(h, m_deviceMap, feed, NamesNow) => \E l : Carries(h, l)
<1> DEFINE Goal == /\ Prompt'
                   /\ \/ netSub' = "none" /\ \E l : Told(l, m_deviceMap', feed', NamesNow')
                      \/ /\ Reading
                         /\ \A h : Told(h, m_deviceMap, feed, NamesNow) => \E l : Carries(h, l)
<1>0. doubled \subseteq doubled'
  BY DEF NetNext, netVars
<1>1. ASSUME ManagerStep \/ Handle PROVE Goal
  <2>1. Reading /\ netSub' = "live"
    <3>1. CASE Handle
      BY <3>1 DEF Handle, OnDeviceAdd, OnDeviceRemove, OnDeviceUpdate, OnWifiNetworkAdded,
                  OnWifiNetworkRemoved, OnWifiNetworkDeviceDisappear, OnConnectionAdd,
                  OnConnectionRemove, OnConnectionUpdate, OnOther, Handling, started, Deliver,
                  Reading
    <3>2. CASE ManagerStep
      <4>1. /\ ManagerNext /\ UNCHANGED netSub
            /\ disturbed' = (disturbed \/ (sub # "none" /\ netSub # "live"))
        BY <3>2, ManagerStepIs
      <4>2. QED
        BY <4>1, ManagerReports DEF Reading, BaseInv
    <3>3. QED
      BY <1>1, <3>1, <3>2
  <2>2. Prompt'
    BY <2>1 DEF Prompt
  <2>3. \A h : Told(h, m_deviceMap, feed, NamesNow) => \E l : Carries(h, l)
    BY <1>0, <1>1, ManagerCarries, HandleCarries
  <2>4. QED
    BY <2>1, <2>2, <2>3
<1>2. ASSUME InitDeviceMap PROVE Goal
  <2>1. /\ netSub' = "none" /\ feed' = <<>>
        /\ \E l : Told(l, m_deviceMap', feed', NamesNow')
    BY <1>2, MapCarries
  <2>2. QED
    BY <2>1 DEF Prompt
<1>3. ASSUME ReadNetworks PROVE Goal
  <2>1. /\ sub = "live" /\ netSub = "none" /\ netSub' = "read" /\ feed' = OfDevices(feed)
        /\ UNCHANGED <<sub, disturbed>>
    BY <1>3 DEF ReadNetworks
  <2>2. Reading /\ feed' = <<>>
    BY <2>1, OfDevicesType DEF Reading, Prompt, BaseInv
  <2>3. \A h : Told(h, m_deviceMap, feed, NamesNow) => \E l : Carries(h, l)
    BY <1>3, ReadCarries
  <2>4. QED
    BY <2>2, <2>3 DEF Prompt
<1>4. ASSUME sub # "none", netSub # "none" <=> netSub' # "none",
             UNCHANGED <<nmDevice, nmName, m_connections, m_wifiNets, feed, m_deviceMap, disturbed>>,
             UNCHANGED settings, UNCHANGED netSub \/ feed = <<>>,
             \A n \in Name, s \in Ssid :
               /\ Len(Shown(n, s)') = Len(Shown(n, s))
               /\ \A i \in DOMAIN Shown(n, s) :
                    Shown(n, s)'[i] = Shown(n, s)[i] \/ Shown(n, s)'[i] \in Chosen(n, s)
      PROVE  Goal
  <2>1. Reading
    BY <1>4 DEF Reading
  <2>2. Prompt'
    BY <1>4, <2>1 DEF Prompt
  <2>3. ASSUME NEW h, Told(h, m_deviceMap, feed, NamesNow) PROVE Carries(h, h)
    BY <1>0, <1>4, <2>3, ItemCarries
  <2>4. QED
    BY <2>1, <2>2, <2>3
<1>5. ASSUME UNCHANGED m_WifiNetworkList
      PROVE  \A n \in Name, s \in Ssid :
               /\ Len(Shown(n, s)') = Len(Shown(n, s))
               /\ \A i \in DOMAIN Shown(n, s) :
                    Shown(n, s)'[i] = Shown(n, s)[i] \/ Shown(n, s)'[i] \in Chosen(n, s)
  <2>1. \A n, s : Shown(n, s)' = Shown(n, s)
    BY <1>5 DEF Shown
  <2>2. QED
    BY <2>1
<1>6. ASSUME ConnectDevices PROVE Goal
  <2>1. /\ UNCHANGED <<nmDevice, nmName, m_connections, m_wifiNets, feed, m_deviceMap, disturbed>>
        /\ UNCHANGED <<m_WifiNetworkList, settings, netSub>> /\ sub = "read"
    BY <1>6 DEF ConnectDevices, Connect, library, lists, queue, copy, started
  <2>2. QED
    BY <1>4, <1>5, <2>1
<1>7. ASSUME ConnectNetworks PROVE Goal
  <2>1. /\ UNCHANGED <<nmDevice, nmName, m_connections, m_wifiNets, m_deviceMap, disturbed, sub>>
        /\ UNCHANGED <<m_WifiNetworkList, settings>> /\ netSub = "read" /\ netSub' = "live"
        /\ feed' = OfDevices(feed)
    BY <1>7 DEF ConnectNetworks, library, lists, copy
  <2>2. sub # "none" /\ feed = <<>>
    BY <2>1 DEF Reading, Prompt
  <2>3. feed' = feed
    BY <2>1, <2>2, OfDevicesType DEF BaseInv
  <2>4. QED
    BY <1>4, <1>5, <2>1, <2>2, <2>3
<1>8. ASSUME NEW n \in Name, GetActiveWirelessNetItem(n) PROVE Goal
  <2>1. UNCHANGED <<vars, m_deviceMap, settings, netSub, disturbed>>
    BY <1>8 DEF GetActiveWirelessNetItem, started
  <2>2. UNCHANGED <<nmDevice, nmName, m_connections, m_wifiNets, feed, sub>>
    BY <2>1 DEF vars, library, lists, queue
  <2>3. \A o \in Name, x \in Ssid :
          /\ Len(Shown(o, x)') = Len(Shown(o, x))
          /\ \A i \in DOMAIN Shown(o, x) :
               Shown(o, x)'[i] = Shown(o, x)[i] \/ Shown(o, x)'[i] \in Chosen(o, x)
    BY <1>8, GetActiveResult DEF BaseInv
  <2>4. sub # "none"
    BY <2>2 DEF Reading
  <2>5. QED
    BY <1>4, <2>1, <2>2, <2>3, <2>4
<1>9. ASSUME UNCHANGED netVars PROVE Goal
  <2>1. /\ UNCHANGED <<nmDevice, nmName, m_connections, m_wifiNets, feed, m_deviceMap, disturbed>>
        /\ UNCHANGED <<m_WifiNetworkList, settings, netSub, sub>>
    BY <1>9 DEF netVars, vars, library, lists, queue, copy, started
  <2>2. sub # "none"
    BY <2>1 DEF Reading
  <2>3. QED
    BY <1>4, <1>5, <2>1, <2>2
<1> HIDE DEF Goal
<1>10. Goal
  BY <1>1, <1>2, <1>3, <1>6, <1>7, <1>8, <1>9 DEF NetNext, NetStep, Construct
<1>11. QED
  BY <1>10 DEF Goal

-----------------------------------------------------------------------------
(* The invariants of the copy, and what they mean when all is handled.     *)

CopyInv ==
  /\ Prompt
  /\ Reading => \E h : /\ Told(h, m_deviceMap, feed, NamesNow)
                       /\ netSub # "none" => ShownInv(h) /\ GhostInv(h)

ProfilesInv ==
  Reading => \E h : /\ Told(h, m_deviceMap, feed, NamesNow)
                    /\ netSub # "none" => ConfInv(h)

LEMMA CopyStep ==
  ASSUME BaseInv, BaseInv', CopyInv, [NetNext]_netVars
  PROVE  CopyInv'
<1>1. CASE ~Reading'
  BY <1>1 DEF CopyInv, Prompt
<1>2. CASE Reading'
  <2>1. Prompt' /\ \/ netSub' = "none" /\ \E l : Told(l, m_deviceMap', feed', NamesNow')
                   \/ /\ Reading
                      /\ \A h : Told(h, m_deviceMap, feed, NamesNow) => \E l : Carries(h, l)
    BY <1>2, HistoryStep DEF CopyInv
  <2>2. CASE netSub' = "none" /\ \E l : Told(l, m_deviceMap', feed', NamesNow')
    BY <2>1, <2>2 DEF CopyInv
  <2>3. CASE /\ Reading
             /\ \A h : Told(h, m_deviceMap, feed, NamesNow) => \E l : Carries(h, l)
    <3>1. PICK h : /\ Told(h, m_deviceMap, feed, NamesNow)
                   /\ netSub # "none" => ShownInv(h) /\ GhostInv(h)
      BY <2>3 DEF CopyInv
    <3>2. PICK l : Carries(h, l)
      BY <2>3, <3>1
    <3>3. /\ Told(l, m_deviceMap', feed', NamesNow')
          /\ netSub' # "none" => ShownInv(l)' /\ GhostInv(l)'
      BY <3>1, <3>2 DEF Carries
    <3>4. QED
      BY <2>1, <3>3 DEF CopyInv
  <2>4. QED
    BY <2>1, <2>2, <2>3
<1>3. QED
  BY <1>1, <1>2

LEMMA CopyInvariant == NetSpec => []CopyInv
<1>1. NetInit => CopyInv
  BY DEF NetInit, Init, CopyInv, Prompt, Reading
<1>2. BaseInv /\ BaseInv' /\ CopyInv /\ [NetNext]_netVars => CopyInv'
  BY CopyStep
<1>3. QED
  BY <1>1, <1>2, BaseInvariant, PTL DEF NetSpec

LEMMA ProfilesStep ==
  ASSUME BaseInv, BaseInv', CopyInv, ProfilesInv, [NetNext]_netVars
  PROVE  ProfilesInv'
<1>1. CASE ~Reading'
  BY <1>1 DEF ProfilesInv
<1>2. CASE Reading'
  <2>1. \/ netSub' = "none" /\ \E l : Told(l, m_deviceMap', feed', NamesNow')
        \/ /\ Reading
           /\ \A h : Told(h, m_deviceMap, feed, NamesNow) => \E l : Carries(h, l)
    BY <1>2, HistoryStep DEF CopyInv
  <2>2. CASE netSub' = "none" /\ \E l : Told(l, m_deviceMap', feed', NamesNow')
    BY <2>2 DEF ProfilesInv
  <2>3. CASE /\ Reading
             /\ \A h : Told(h, m_deviceMap, feed, NamesNow) => \E l : Carries(h, l)
    <3>1. PICK h : /\ Told(h, m_deviceMap, feed, NamesNow)
                   /\ netSub # "none" => ConfInv(h)
      BY <2>3 DEF ProfilesInv
    <3>2. PICK l : Carries(h, l)
      BY <2>3, <3>1
    <3>3. /\ Told(l, m_deviceMap', feed', NamesNow')
          /\ netSub' # "none" => ConfInv(l)'
      BY <3>1, <3>2 DEF Carries
    <3>4. QED
      BY <3>3 DEF ProfilesInv
  <2>4. QED
    BY <2>1, <2>2, <2>3
<1>3. QED
  BY <1>1, <1>2

LEMMA ProfilesInvariant == NetSpec => []ProfilesInv
<1>1. NetInit => ProfilesInv
  BY DEF NetInit, Init, ProfilesInv, Reading
<1>2. BaseInv /\ BaseInv' /\ CopyInv /\ ProfilesInv /\ [NetNext]_netVars => ProfilesInv'
  BY ProfilesStep
<1>3. QED
  BY <1>1, <1>2, BaseInvariant, CopyInvariant, PTL DEF NetSpec

\* With everything handled the history is one map, and nobody leaves a name.
LEMMA SettledHistory ==
  ASSUME BaseInv, Settled, NEW h, Told(h, m_deviceMap, feed, NamesNow)
  PROVE  /\ Reading /\ netSub # "none" /\ m_initFinished
         /\ m_deviceMap = NamesNow /\ h[0] = NamesNow
         /\ Len(feed) = 0 /\ 0..Len(feed) = {0} /\ \A n : ~Vacates(h, feed, 0, n)
         /\ \A m : Rest(feed, 0, m) = {} /\ ~Has(feed, m)
<1>1. netSub # "none" /\ ~disturbed /\ feed = <<>> /\ sub # "none" /\ m_initFinished
  BY DEF Settled, BaseInv, Phases
<1>2. Len(feed) = 0 /\ 0..Len(feed) = {0} /\ 0 + 1..Len(feed) = {} /\ DOMAIN feed = {}
  BY <1>1
<1>3. QED
  BY <1>1, <1>2 DEF Told, Reading, Vacates, Rest, Has

\* The devices that have a name, as the handlers look them up.
LEMMA Lookup ==
  ASSUME BaseInv, m_initFinished, NEW n
  PROVE  FindDeviceInterface(n) = {d \in nmDevice : nmName[d] = n}
  BY DEF FindDeviceInterface, BaseInv, ListsInv, One, TypeOK

\* The device map holds the devices there are, under the names they have, once the
\* signals are handled: whatever came, went or was renamed while they were queued.
THEOREM NamesFollowed == NetSpec => []NamesFollow
<1>1. ASSUME BaseInv, CopyInv, Settled, NEW d \in Device
      PROVE  /\ d \in DOMAIN m_deviceMap <=> d \in nmDevice
             /\ d \in nmDevice => m_deviceMap[d] = nmName[d]
  <2>1. Reading
    BY <1>1 DEF Settled, BaseInv, Phases, Reading
  <2>2. PICK h : Told(h, m_deviceMap, feed, NamesNow)
    BY <1>1, <2>1 DEF CopyInv
  <2>3. m_deviceMap = NamesNow
    BY <1>1, <2>2, SettledHistory
  <2>4. QED
    BY <2>3 DEF NamesNow
<1>2. BaseInv /\ CopyInv => NamesFollow
  BY <1>1 DEF NamesFollow
<1>3. QED
  BY <1>2, BaseInvariant, CopyInvariant, PTL

\* Every network the manager lists for a device that keeps its name is shown once
\* the signals are handled, also under a name that was another device's before, if the
\* text it is announced by is its name.
THEOREM NothingHidden == NetSpec => []AllShown
<1>1. ASSUME BaseInv, CopyInv, Settled, NEW net \in nmNetwork,
             net[1] \notin Renamed, Text[net[2]] = net[2], m_wifiNets[net].live > 0
      PROVE  Shown(nmName[net[1]], net[2]) # <<>>
  <2>1. Reading /\ netSub # "none"
    BY <1>1 DEF Settled, BaseInv, Phases, Reading
  <2>2. PICK h : Told(h, m_deviceMap, feed, NamesNow) /\ ShownInv(h)
    BY <1>1, <2>1 DEF CopyInv
  <2>3. 0..Len(feed) = {0}
    BY <1>1, <2>2, SettledHistory
  <2>4. net \in Network /\ net[2] \in Ssid /\ nmName[net[1]] \in Name
    BY <1>1 DEF BaseInv, TypeOK
  <2>5. ASSUME NEW n \in Name, n = nmName[net[1]] PROVE Shown(n, net[2]) # <<>>
    <3>1. Awaited(h, feed, net[1], n, net[2], Len(Shown(n, net[2])))
      BY <1>1, <2>2, <2>4, <2>5 DEF ShownInv
    <3>2. Len(Shown(n, net[2])) # 0
      BY <2>3, <3>1 DEF Awaited
    <3>3. QED
      BY <3>2
  <2>6. QED
    BY <2>4, <2>5
<1>2. BaseInv /\ CopyInv => AllShown
  BY <1>1 DEF AllShown
<1>3. QED
  BY <1>2, BaseInvariant, CopyInvariant, PTL

\* Once the signals are handled nothing is shown under a name but the networks of
\* the device that has it, each at most as often as the manager lists it, unless the
\* device was renamed to the name and brought its list.
THEOREM NoGhostShown == NetSpec => []NoGhosts
<1>1. ASSUME BaseInv, CopyInv, Settled, NEW n \in Name, NEW s \in Ssid, Shown(n, s) # <<>>
      PROVE  \E d \in FindDeviceInterface(n) : d \in Renamed \/ Len(Shown(n, s)) <= Entries(<<d, s>>)
  <2>1. Reading /\ netSub # "none" /\ m_initFinished
    BY <1>1 DEF Settled, BaseInv, Phases, Reading
  <2>2. PICK h : Told(h, m_deviceMap, feed, NamesNow) /\ GhostInv(h)
    BY <1>1, <2>1 DEF CopyInv
  <2>3. FindDeviceInterface(n) = {d \in nmDevice : nmName[d] = n}
    BY <1>1, <2>1, Lookup
  <2>4. CASE ~Own(n)
    BY <2>3, <2>4 DEF Own
  <2>5. CASE Own(n)
    <3>1. Few(h, feed, n, s, Len(Shown(n, s)), Bound(n, s))
      BY <2>2, <2>5 DEF GhostInv
    <3>2. Len(Shown(n, s)) <= Bound(n, s) + Cardinality(Rest(feed, 0, RemovedOf(n, s)))
      <4>1. 0 \in 0..Len(feed) /\ ~Vacates(h, feed, 0, n)
        BY <1>1, <2>2, SettledHistory
      <4>2. ItemsAt(feed, 0, n, s, Len(Shown(n, s))) = Len(Shown(n, s))
        BY DEF ItemsAt
      <4>3. QED
        BY <3>1, <4>1, <4>2 DEF Few
    <3>3. Cardinality(Rest(feed, 0, RemovedOf(n, s))) = 0
      <4>1. Rest(feed, 0, RemovedOf(n, s)) = {}
        BY <1>1, <2>2, SettledHistory
      <4>2. QED
        BY <4>1, FS_EmptySet
    <3>4. /\ \A d \in nmDevice : nmName[d] = n => Bound(n, s) = Entries(<<d, s>>)
          /\ (\A d \in nmDevice : nmName[d] # n) => Bound(n, s) = 0
          /\ Bound(n, s) \in Nat
      BY <1>1, BoundIs DEF BaseInv
    <3>5. Len(Shown(n, s)) \in Nat \ {0}
      <4>1. Shown(n, s) \in Seq(Item)
        BY <1>1, ShownTypes DEF BaseInv
      <4>2. QED
        BY <1>1, <4>1
    <3>6. Len(Shown(n, s)) <= Bound(n, s)
      BY <3>2, <3>3, <3>4
    <3>7. PICK d \in nmDevice : nmName[d] = n
      BY <3>4, <3>5, <3>6
    <3>8. QED
      BY <2>3, <3>4, <3>6, <3>7
  <2>6. QED
    BY <2>4, <2>5
<1>2. BaseInv /\ CopyInv => NoGhosts
  BY <1>1 DEF NoGhosts
<1>3. QED
  BY <1>2, BaseInvariant, CopyInvariant, PTL

\* Once the signals are handled an item is configured only for a profile that exists
\* and is for its network, though the handlers looked the profiles up ahead of the queue
\* and profiles are edited, unless two items of an interface have held the profile; and
\* for its interface, unless the profile is edited or the interface renamed.
THEOREM TrulyConfigured == NetSpec => []ConfiguredTruly
<1>1. ASSUME BaseInv, CopyInv, ProfilesInv, Settled,
             NEW n \in DOMAIN m_WifiNetworkList, NEW s \in Ssid,
             NEW i \in DOMAIN m_WifiNetworkList[n][s],
             NEW item, item = m_WifiNetworkList[n][s][i], item.configured, item.conn \notin doubled
      PROVE  /\ m_connections[item.conn] > 0 /\ settings[item.conn].ssid = s
             /\ \/ settings[item.conn].iface \in {n, AnyName} \/ item.conn \in Edited
                \/ \E d \in FindDeviceInterface(n) : d \in Renamed
  <2>1. Reading /\ netSub # "none" /\ m_initFinished
    BY <1>1 DEF Settled, BaseInv, Phases, Reading
  <2>2. PICK h : Told(h, m_deviceMap, feed, NamesNow) /\ ConfInv(h)
    BY <1>1, <2>1 DEF ProfilesInv
  <2>3. n \in Name /\ Shown(n, s) = m_WifiNetworkList[n][s]
    BY <1>1 DEF BaseInv, Lists, Shown
  <2>4. FitItem(h, n, s, item)
    BY <1>1, <2>2, <2>3 DEF ConfInv
  <2>5. item.conn \in Conn
    <3>1. m_WifiNetworkList[n][s] \in Seq(Item)
      BY <1>1 DEF BaseInv, Lists
    <3>2. item \in Item
      BY <1>1, <3>1
    <3>3. QED
      BY <1>1, <3>2 DEF Item, Free
  <2>6. ~Vacates(h, feed, 0, n) /\ \A m : ~Has(feed, m)
    BY <1>1, <2>2, SettledHistory
  <2>7. /\ m_connections[item.conn] > 0 /\ settings[item.conn].ssid = s
        /\ Own(n) => settings[item.conn].iface \in {n, AnyName} \/ item.conn \in Edited
    BY <1>1, <2>4, <2>5, <2>6 DEF FitItem
  <2>8. ~Own(n) => \E d \in FindDeviceInterface(n) : d \in Renamed
    BY <1>1, <2>1, Lookup DEF Own
  <2>9. QED
    BY <2>7, <2>8
<1>2. BaseInv /\ CopyInv /\ ProfilesInv => ConfiguredTruly
  BY <1>1 DEF ConfiguredTruly
<1>3. QED
  BY <1>2, BaseInvariant, CopyInvariant, ProfilesInvariant, PTL
=============================================================================
