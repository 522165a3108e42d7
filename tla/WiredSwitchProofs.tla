-------------------------- MODULE WiredSwitchProofs --------------------------
(***************************************************************************)
(* No switch forgets a connection, and what is up is what is recorded, for *)
(* every number of devices, profiles, queued events and timers.            *)
(*                                                                         *)
(* The reply comes long after the call, and the handler only looks at what *)
(* the call was: so the invariant says of every request on its way, from   *)
(* the D-Bus call to the reply, that it is concise, or of the user or the  *)
(* policy and for no device but its profile's. That a request names the    *)
(* device of its profile is known from the active connection it was made   *)
(* from, hence the types of the records and of the active connections are  *)
(* part of it.                                                             *)
(*                                                                         *)
(* What is up, heard of and not recorded yet will be: RecordInv says that  *)
(* its Activated is queued, no reply behind it that would clear the record,*)
(* and the connection in the resource manager's list, where the handler    *)
(* looks it up.                                                            *)
(***************************************************************************)
EXTENDS WiredSwitch, FiniteSetTheorems, SequenceTheorems, TLAPS

Own(r) ==
  r.concise \/ (r.by \in {"user", "policy"} /\ r.dev \in {NoDevice, IfaceOf[r.conn]})

OwnRequest == {r \in Requests : Own(r)}
OwnCall == OwnRequest \cup [op : {"activate"}, dev : Device, conn : Conn]
OwnEvent ==
  {e \in Events : e.ev \in {"deActivateConnect", "reply"} => Own(e.request)}

\* The events that no record depends on.
OtherEvent == {e \in OwnEvent : e.ev \notin {"Activated", "reply"}}

ProfilesOf(d) == {c \in Conn : IfaceOf[c] = d} \cup {NoConn}

StateInv ==
  /\ wired_main_switch \in BOOLEAN /\ running \in BOOLEAN
  /\ Lan_Connect \in [Device \cup {NoDevice} -> Conn \cup {NoConn}]
  /\ timers \subseteq Timers /\ closing \subseteq Conn \cup Device
  /\ link \in [Device -> Links]
  /\ managed \subseteq Device /\ carrier \subseteq Device
  /\ taken \in [Device -> {"nobody", "user", "center", "policy"}] /\ unheard \subseteq Device
  /\ \A d \in Device : /\ Lan_Connect[d] \in ProfilesOf(d) /\ link[d].conn \in ProfilesOf(d)
                       /\ link[d].listed => running

IInv == StateInv /\ inbox \in Seq(OwnEvent) /\ requests \in Seq(OwnCall)

-----------------------------------------------------------------------------
(* Sequences of the elements of a set.                                     *)

LEMMA SetToSeqType ==
  ASSUME NEW S, IsFiniteSet(S)
  PROVE  SetToSeq(S) \in Seq(S)
<1>1. Cardinality(S) \in Nat /\ ExistsBijection(1..Cardinality(S), S)
  BY FS_CardinalityType
<1>2. PICK f \in [1..Cardinality(S) -> S] : IsInjective(f)
  BY <1>1 DEF ExistsBijection, Bijection, Injection
<1>3. SetToSeq(S) \in [1..Cardinality(S) -> S]
  BY <1>2 DEF SetToSeq
<1>4. QED
  BY <1>1, <1>3

LEMMA OtherIsOwn == ASSUME NEW q \in Seq(OtherEvent) PROVE q \in Seq(OwnEvent)
BY SeqMonotonic DEF OtherEvent

LEMMA IfaceOfType == \A c \in Conn : IfaceOf[c] \in Device
BY SwitchAssumption

-----------------------------------------------------------------------------
(* The requests that the switches make.                                    *)

LEMMA DeactivateAllOwn ==
  ASSUME StateInv, NEW ds \in SUBSET Device, NEW concise \in BOOLEAN,
         NEW by \in {"user", "switch", "center", "policy"}, concise \/ by \in {"user", "policy"},
         \A d \in ds : link[d].conn \in Conn /\ IfaceOf[link[d].conn] = d
  PROVE  DeactivateAll(ds, concise, by) \in Seq(OwnCall)
<1> DEFINE f == [d \in ds |-> Deactivate(link[d].conn, d, concise, by)]
           R == {Deactivate(link[d].conn, d, concise, by) : d \in ds}
<1>1. IsFiniteSet(ds)
  BY FS_Subset, SwitchAssumption
<1>2. f \in Surjection(ds, R)
  BY DEF Surjection
<1>3. IsFiniteSet(R)
  <2> HIDE DEF f, R
  <2> QED BY <1>1, <1>2, FS_Surjection
<1>4. R \subseteq OwnCall
  <2>1. \A d \in ds : Deactivate(link[d].conn, d, concise, by) \in OwnRequest
    BY DEF Deactivate, OwnRequest, Own, Requests
  <2>2. QED
    BY <2>1 DEF OwnCall
<1>5. SetToSeq(R) \in Seq(OwnCall)
  <2> HIDE DEF R
  <2> QED BY <1>3, <1>4, SetToSeqType, SeqMonotonic
<1>6. QED
  BY <1>5 DEF DeactivateAll

\* A device with a connection has one of its own profiles.
LEMMA LinkOwn ==
  ASSUME StateInv, NEW d \in Device, link[d].state # "Deactivated"
  PROVE  link[d].conn \in Conn /\ IfaceOf[link[d].conn] = d
<1>1. link[d] \in Links /\ link[d].conn \in ProfilesOf(d)
  BY DEF StateInv
<1>2. link[d].conn \in Conn
  BY <1>1 DEF Links, Down
<1>3. QED
  BY <1>1, <1>2, SwitchAssumption DEF ProfilesOf

-----------------------------------------------------------------------------
(* The handlers' pieces.                                                   *)

\* What is recorded for some devices, and activating it.
LEMMA ActivateWiredType ==
  ASSUME StateInv, NEW pairs,
         \A p \in pairs : p[1] \in Device /\ p[2] \in Conn, ActivateWired(pairs)
  PROVE  timers' \subseteq Timers
BY DEF ActivateWired, StateInv, Timers

LEMMA RecordedType ==
  ASSUME StateInv, NEW ds \in SUBSET Device
  PROVE  \A p \in Recorded(ds) : p[1] \in Device /\ p[2] \in Conn
BY DEF Recorded, StateInv

\* A call to NetworkManager of a request that is one's own.
LEMMA CallOwn ==
  ASSUME requests \in Seq(OwnCall), NEW r \in OwnRequest, Call(r)
  PROVE  requests' \in Seq(OwnCall)
BY DEF Call, OwnCall

LEMMA TailOwn ==
  ASSUME inbox \in Seq(OwnEvent), inbox # <<>>
  PROVE  Event \in OwnEvent /\ Tail(inbox) \in Seq(OwnEvent)
BY HeadTailProperties DEF Event

\* Calls and signals are heard while kylin-nm runs.
LEMMA HeardOwn ==
  ASSUME NEW q \in Seq(OwnEvent), NEW es \in Seq(OwnEvent)
  PROVE  Heard(q, es) \in Seq(OwnEvent) /\ Heard(q, es) \in {q, q \o es}
BY ConcatProperties DEF Heard

LEMMA SendOwn ==
  ASSUME inbox \in Seq(OwnEvent), NEW e \in OwnEvent, Send(e)
  PROVE  inbox' \in Seq(OwnEvent) /\ inbox' \in {inbox, inbox \o <<e>>}
<1>1. <<e>> \in Seq(OwnEvent)
  OBVIOUS
<1>2. QED
  BY <1>1, HeardOwn DEF Send

LEMMA SetWiredMainSwitchOwn ==
  ASSUME StateInv, NEW on \in BOOLEAN, NEW q \in Seq(OwnEvent),
         SetWiredMainSwitch(on, q)
  PROVE  /\ wired_main_switch' \in BOOLEAN /\ closing' \subseteq Conn \cup Device
         /\ inbox' \in Seq(OwnEvent)
         /\ inbox' \in {q, q \o <<[ev |-> "mainSwitch", on |-> on]>>}
<1> DEFINE e == [ev |-> "mainSwitch", on |-> on]
<1>1. <<e>> \in Seq(OwnEvent)
  BY DEF OwnEvent, Events
<1>2. inbox' = q \/ inbox' = Heard(q, <<e>>)
  BY DEF SetWiredMainSwitch
<1>3. closing' \subseteq Conn \cup Device /\ wired_main_switch' = on
  BY DEF SetWiredMainSwitch, CloseWhatIsShown, StateInv
<1> HIDE DEF e
<1>4. inbox' \in Seq(OwnEvent) /\ inbox' \in {q, q \o <<e>>}
  BY <1>1, <1>2, HeardOwn
<1>5. QED
  BY <1>3, <1>4 DEF e

\* A call whose connection is replaced stays one's own.
LEMMA ReplacedOwn ==
  ASSUME NEW d, NEW calls \in Seq(OwnCall)
  PROVE  Replaced(d, calls) \in Seq(OwnCall)
<1> DEFINE kept(r) == IF r.op = "deactivate" /\ IfaceOf[r.conn] = d
                        THEN [r EXCEPT !.op = "error"] ELSE r
<1>1. ASSUME NEW r \in OwnCall PROVE kept(r) \in OwnCall
  <2>1. CASE r \in OwnRequest
    <3>1. r \in Requests
      BY <2>1 DEF OwnRequest
    <3>2. [r EXCEPT !.op = "error"] \in Requests
      BY <3>1 DEF Requests
    <3>3. Own([r EXCEPT !.op = "error"])
      BY <2>1, <3>1 DEF OwnRequest, Own, Requests
    <3>4. QED
      BY <2>1, <3>2, <3>3 DEF OwnRequest, OwnCall
  <2>2. CASE r \notin OwnRequest
    BY <1>1, <2>2 DEF OwnCall
  <2>3. QED
    BY <2>1, <2>2
<1>2. Replaced(d, calls) = [i \in DOMAIN calls |-> kept(calls[i])]
  BY DEF Replaced
<1> HIDE DEF kept
<1>3. QED
  BY <1>1, <1>2

\* NetworkManager brings a profile up on the device it is bound to.
LEMMA ActivationType ==
  ASSUME StateInv, NEW c \in Conn, NEW calls \in Seq(OwnCall), Activation(c, calls)
  PROVE  /\ link' \in [Device -> Links] /\ requests' \in Seq(OwnCall)
         /\ taken' \in [Device -> {"nobody", "user", "center", "policy"}]
         /\ \A d \in Device : link'[d].conn \in ProfilesOf(d) /\ (link'[d].listed => running)
<1> DEFINE d == IfaceOf[c]
           up == [conn |-> c, state |-> "Activating", listed |-> FALSE]
<1>1. d \in Device /\ up \in Links /\ up.conn \in ProfilesOf(d) /\ ~up.listed
  BY IfaceOfType DEF Links, ProfilesOf
<1>2. CASE d \in managed \cap carrier
  <2>1. /\ link' = [link EXCEPT ![d] = up] /\ taken' = [taken EXCEPT ![d] = "nobody"]
        /\ requests' = Replaced(d, calls)
    BY <1>2 DEF Activation
  <2> HIDE DEF up, d
  <2>2. QED
    BY <1>1, <2>1, ReplacedOwn DEF StateInv
<1>3. CASE d \notin managed \cap carrier
  <2>1. UNCHANGED <<link, taken>> /\ requests' = calls
    BY <1>3 DEF Activation
  <2>2. QED
    BY <2>1 DEF StateInv
<1>4. QED
  BY <1>2, <1>3

\* A device whose connection goes down, or changes its state only.
LEMMA LinkType ==
  ASSUME StateInv, NEW d \in Device,
         \/ link' = [link EXCEPT ![d] = Down]
         \/ /\ link[d].state # "Deactivated"
            /\ \E s \in {"Activated", "Deactivating"} : link' = [link EXCEPT ![d].state = s]
  PROVE  /\ link' \in [Device -> Links]
         /\ \A e \in Device : link'[e].conn \in ProfilesOf(e) /\ (link'[e].listed => running)
<1>1. CASE link' = [link EXCEPT ![d] = Down]
  <2>1. Down \in Links /\ Down.conn \in ProfilesOf(d) /\ ~Down.listed
    BY DEF Down, Links, ProfilesOf
  <2>2. QED
    BY <1>1, <2>1 DEF StateInv
<1>2. ASSUME NEW s \in {"Activated", "Deactivating"}, link[d].state # "Deactivated",
             link' = [link EXCEPT ![d].state = s]
      PROVE  /\ link' \in [Device -> Links]
             /\ \A e \in Device : link'[e].conn \in ProfilesOf(e) /\ (link'[e].listed => running)
  <2> DEFINE l == [link[d] EXCEPT !.state = s]
  <2>1. link[d] \in [conn : Conn, state : {"Activating", "Activated", "Deactivating"}, listed : BOOLEAN]
    BY <1>2 DEF StateInv, Links, Down
  <2>2. l \in Links /\ l.conn = link[d].conn /\ l.listed = link[d].listed
    BY <2>1 DEF Links
  <2>3. link' = [link EXCEPT ![d] = l]
    BY <1>2
  <2> HIDE DEF l
  <2>4. QED
    BY <2>2, <2>3 DEF StateInv
<1>3. QED
  BY <1>1, <1>2

-----------------------------------------------------------------------------
(* The invariant is inductive.                                             *)

LEMMA InitInv == ASSUME Init PROVE IInv
<1>1. \A d \in Device \cup {NoDevice} : Lan_Connect[d] = NoConn
  BY DEF Init
<1>2. \A d \in Device : link[d] = Down
  BY DEF Init
<1>3. Down \in Links /\ Down.conn = NoConn /\ ~Down.listed
  BY DEF Links, Down
<1>4. link \in [Device -> Links]
  BY <1>3 DEF Init
<1>5. StateInv
  BY <1>1, <1>2, <1>3, <1>4 DEF Init, StateInv, ProfilesOf
<1>6. QED
  BY <1>5 DEF Init, IInv

LEMMA UserInv ==
  ASSUME IInv, User
  PROVE  IInv'
<1> USE DEF IInv
<1>1. ASSUME NEW c \in Conn, PanelConnect(c) PROVE IInv'
  <2>1. [ev |-> "activateConnect", conn |-> c] \in OwnEvent
    BY DEF OwnEvent, Events
  <2>2. inbox' \in Seq(OwnEvent)
    BY <1>1, <2>1, SendOwn DEF PanelConnect
  <2>3. QED
    BY <1>1, <2>2 DEF PanelConnect, StateInv, daemon, nm, history
<1>2. ASSUME NEW d \in Device, NEW concise \in BOOLEAN, Disconnect(d, concise) PROVE IInv'
  <2> DEFINE e == [ev |-> "deActivateConnect",
                   request |-> Deactivate(link[d].conn, d, concise, "user")]
  <2>1. link[d].conn \in Conn /\ IfaceOf[link[d].conn] = d
    BY <1>2, LinkOwn DEF Disconnect, Up
  <2>2. Deactivate(link[d].conn, d, concise, "user") \in OwnRequest
    BY <2>1 DEF Deactivate, OwnRequest, Own, Requests
  <2>3. e \in OwnEvent
    BY <2>2 DEF OwnEvent, Events, OwnRequest
  <2>4. Send(e)
    BY <1>2 DEF Disconnect
  <2> HIDE DEF e
  <2>5. inbox' \in Seq(OwnEvent)
    BY <2>3, <2>4, SendOwn
  <2>6. QED
    BY <1>2, <2>5 DEF Disconnect, StateInv, daemon, nm, history
<1>3. ASSUME NEW d \in Device, ItemDisconnect(d) PROVE IInv'
  <2>1. link[d].conn \in Conn
    BY <1>3, LinkOwn DEF ItemDisconnect, Up
  <2>2. Deactivate(link[d].conn, NoDevice, FALSE, "user") \in OwnRequest
    BY <2>1 DEF Deactivate, OwnRequest, Own, Requests
  <2>3. requests' \in Seq(OwnCall)
    BY <1>3, <2>2, CallOwn DEF ItemDisconnect
  <2>4. QED
    BY <1>3, <2>3 DEF ItemDisconnect, StateInv, daemon, nm, history
<1>4. ASSUME NEW on \in BOOLEAN, PanelSwitch(on) PROVE IInv'
  <2>1. [ev |-> "setWiredSwitchEnable", on |-> on] \in OwnEvent
    BY DEF OwnEvent, Events
  <2>2. inbox' \in Seq(OwnEvent)
    BY <1>4, <2>1, SendOwn DEF PanelSwitch
  <2>3. QED
    BY <1>4, <2>2 DEF PanelSwitch, StateInv, daemon, nm, history
<1>5. ASSUME NEW on \in BOOLEAN, CenterSwitch(on) PROVE IInv'
  <2>1. /\ wired_main_switch' \in BOOLEAN /\ closing' \subseteq Conn \cup Device
        /\ inbox' \in Seq(OwnEvent)
    BY <1>5, SetWiredMainSwitchOwn DEF CenterSwitch
  <2>2. QED
    BY <1>5, <2>1 DEF CenterSwitch, StateInv, nm, history
<1>6. ASSUME NEW d \in Device, NEW on \in BOOLEAN, SetDeviceSwitch(d, on) PROVE IInv'
  <2> DEFINE es == <<[ev |-> "deviceSwitch", dev |-> d, on |-> TRUE],
                     [ev |-> "reconnect", dev |-> d]>>
  <2>1. es \in Seq(OwnEvent)
    BY DEF OwnEvent, Events
  <2>2. inbox' \in {inbox, Heard(inbox, es)} /\ closing' \subseteq Conn \cup Device
    BY <1>6 DEF SetDeviceSwitch, ConnsOf, StateInv
  <2> HIDE DEF es
  <2>3. inbox' \in Seq(OwnEvent)
    BY <2>1, <2>2, HeardOwn
  <2>4. QED
    BY <1>6, <2>2, <2>3 DEF SetDeviceSwitch, StateInv, daemon, nm, history
<1>7. QED
  BY <1>1, <1>2, <1>3, <1>4, <1>5, <1>6 DEF User, PanelDisconnect, CenterDisconnect

\* The control center's calls, and the policy's.
LEMMA OthersInv ==
  ASSUME IInv, Center \/ netCtrlDiscon
  PROVE  IInv'
<1> USE DEF IInv
<1>1. ASSUME NEW c \in Conn, CenterDeactivates(c) PROVE IInv'
  <2> DEFINE e == [ev |-> "deActivateConnect",
                   request |-> Deactivate(c, IfaceOf[c], TRUE, "center")]
  <2>1. Deactivate(c, IfaceOf[c], TRUE, "center") \in OwnRequest
    BY IfaceOfType DEF Deactivate, OwnRequest, Own, Requests
  <2>2. e \in OwnEvent
    BY <2>1 DEF OwnEvent, Events, OwnRequest
  <2>3. Send(e) /\ closing' \subseteq closing
    BY <1>1 DEF CenterDeactivates
  <2> HIDE DEF e
  <2>4. inbox' \in Seq(OwnEvent)
    BY <2>2, <2>3, SendOwn
  <2>5. QED
    BY <1>1, <2>3, <2>4 DEF CenterDeactivates, StateInv, daemon, nm, history
<1>2. ASSUME NEW d \in Device, CenterTurnsDeviceOff(d) PROVE IInv'
  <2>1. [ev |-> "deviceSwitch", dev |-> d, on |-> FALSE] \in OwnEvent
    BY DEF OwnEvent, Events
  <2>2. inbox' \in Seq(OwnEvent)
    BY <1>2, <2>1, SendOwn DEF CenterTurnsDeviceOff
  <2>3. QED
    BY <1>2, <2>2 DEF CenterTurnsDeviceOff, StateInv, daemon, nm, history
<1>3. CASE netCtrlDiscon
  <2>1. PICK kept : requests' =
               requests \o DeactivateAll((Active \cap managed) \ kept, FALSE, "policy")
    BY <1>3 DEF netCtrlDiscon
  <2> DEFINE ds == (Active \cap managed) \ kept
  <2>2. ds \subseteq Device /\ \A d \in ds : link[d].conn \in Conn /\ IfaceOf[link[d].conn] = d
    BY LinkOwn DEF Active, Listed, Up
  <2>3. requests' = requests \o DeactivateAll(ds, FALSE, "policy")
    BY <2>1
  <2> HIDE DEF ds
  <2>4. DeactivateAll(ds, FALSE, "policy") \in Seq(OwnCall)
    BY <2>2, DeactivateAllOwn
  <2>5. requests' \in Seq(OwnCall)
    BY <2>3, <2>4, ConcatProperties
  <2>6. QED
    BY <1>3, <2>5 DEF netCtrlDiscon, StateInv, daemon, nm, history
<1>4. QED
  BY <1>1, <1>2, <1>3 DEF Center

LEMMA SwitchHandlersInv ==
  ASSUME IInv, OnSetWiredSwitchEnable \/ OnSysWiredMainSwitchChanged
               \/ OnSysWiredDevSwitchChanged \/ OnSysDeviceSwitchChanged
  PROVE  IInv'
<1> USE DEF IInv
<1>1. CASE OnSetWiredSwitchEnable
  <2>1. Event \in OwnEvent /\ Tail(inbox) \in Seq(OwnEvent) /\ Event.ev = "setWiredSwitchEnable"
    BY <1>1, TailOwn DEF OnSetWiredSwitchEnable, Received
  <2>2. Event.on \in BOOLEAN
    BY <2>1 DEF OwnEvent, Events
  <2>3. /\ wired_main_switch' \in BOOLEAN /\ closing' \subseteq Conn \cup Device
        /\ inbox' \in Seq(OwnEvent)
    BY <1>1, <2>1, <2>2, SetWiredMainSwitchOwn DEF OnSetWiredSwitchEnable
  <2> DEFINE ds == {d \in Listed : ~Event.on}
  <2>4. ds \subseteq Device /\ \A d \in ds : link[d].conn \in Conn /\ IfaceOf[link[d].conn] = d
    BY LinkOwn DEF Listed, Up
  <2>5. DeactivateAll(ds, TRUE, "switch") \in Seq(OwnCall)
    <3> HIDE DEF ds
    <3> QED BY <2>4, DeactivateAllOwn
  <2>6. requests' \in Seq(OwnCall)
    <3>1. requests' = requests \o DeactivateAll(ds, TRUE, "switch")
      BY <1>1 DEF OnSetWiredSwitchEnable
    <3> HIDE DEF ds
    <3>2. QED
      BY <2>5, <3>1, ConcatProperties
  <2>7. QED
    BY <1>1, <2>3, <2>6 DEF OnSetWiredSwitchEnable, StateInv, nm, history
<1>2. CASE OnSysWiredMainSwitchChanged
  <2> DEFINE pairs == IF Event.on THEN Recorded(managed) ELSE {}
  <2>1. \A p \in pairs : p[1] \in Device /\ p[2] \in Conn
    BY RecordedType DEF StateInv
  <2>2. ActivateWired(pairs)
    BY <1>2 DEF OnSysWiredMainSwitchChanged
  <2>3. timers' \subseteq Timers
    <3> HIDE DEF pairs
    <3> QED BY <2>1, <2>2, ActivateWiredType
  <2>4. QED
    BY <1>2, <2>3, TailOwn DEF OnSysWiredMainSwitchChanged, Received, StateInv, daemon, nm, history
<1>3. CASE OnSysWiredDevSwitchChanged
  <2> DEFINE d == Event.dev
             ds == Active \cap {d}
  <2>1. Event \in OwnEvent /\ Tail(inbox) \in Seq(OwnEvent) /\ Event.ev = "deviceSwitch"
    BY <1>3, TailOwn DEF OnSysWiredDevSwitchChanged, Received
  <2>2. d \in Device
    BY <2>1 DEF OwnEvent, Events
  <2>3. ds \subseteq Device /\ \A e \in ds : link[e].conn \in Conn /\ IfaceOf[link[e].conn] = e
    BY LinkOwn DEF Active, Listed, Up
  <2>4. DeactivateAll(ds, TRUE, "switch") \in Seq(OwnCall)
    <3> HIDE DEF ds
    <3> QED BY <2>3, DeactivateAllOwn
  <2>5. /\ requests' \in Seq(OwnCall) /\ timers' \subseteq Timers /\ managed' \subseteq Device
        /\ inbox' = Tail(inbox) /\ UNCHANGED <<daemon, running, closing, link, carrier, history>>
    <3>1. [op |-> "disable", dev |-> d] \in Timers
      BY <2>2 DEF Timers
    <3>2. requests \o DeactivateAll(ds, TRUE, "switch") \in Seq(OwnCall)
      <4> HIDE DEF ds
      <4> QED BY <2>4, ConcatProperties
    <3>3. \/ managed' = managed \cup {d} /\ UNCHANGED <<timers, requests>>
          \/ /\ requests' = requests \o DeactivateAll(ds, TRUE, "switch") /\ UNCHANGED managed
             /\ timers' = timers \cup {[op |-> "disable", dev |-> d]}
      BY <1>3 DEF OnSysWiredDevSwitchChanged
    <3>4. inbox' = Tail(inbox) /\ UNCHANGED <<daemon, running, closing, link, carrier, history>>
      BY <1>3 DEF OnSysWiredDevSwitchChanged
    <3> HIDE DEF d, ds
    <3>5. QED
      BY <2>2, <3>1, <3>2, <3>3, <3>4 DEF StateInv
  <2>6. QED
    BY <2>1, <2>5 DEF StateInv, daemon, history
<1>4. CASE OnSysDeviceSwitchChanged
  <2>1. Event \in OwnEvent /\ Tail(inbox) \in Seq(OwnEvent) /\ Event.ev = "reconnect"
    BY <1>4, TailOwn DEF OnSysDeviceSwitchChanged, Received
  <2>2. {Event.dev} \subseteq Device
    BY <2>1 DEF OwnEvent, Events
  <2>3. timers' \subseteq Timers
    BY <1>4, <2>2, RecordedType, ActivateWiredType DEF OnSysDeviceSwitchChanged
  <2>4. QED
    BY <1>4, <2>1, <2>3 DEF OnSysDeviceSwitchChanged, StateInv, daemon, nm, history
<1>5. QED
  BY <1>1, <1>2, <1>3, <1>4

LEMMA ConnectionHandlersInv ==
  ASSUME IInv, OnActivateConnect \/ OnDeActivateConnect \/ OnActivated \/ OnDeactivationReply
  PROVE  IInv'
<1> USE DEF IInv
<1>1. CASE OnActivateConnect
  <2>1. Event \in OwnEvent /\ Tail(inbox) \in Seq(OwnEvent) /\ Event.ev = "activateConnect"
    BY <1>1, TailOwn DEF OnActivateConnect, Received
  <2>2. Event.conn \in Conn /\ IfaceOf[Event.conn] \in Device
    BY <2>1, IfaceOfType DEF OwnEvent, Events
  <2>3. timers' \subseteq Timers
    BY <1>1, <2>2, ActivateWiredType DEF OnActivateConnect
  <2>4. QED
    BY <1>1, <2>1, <2>3 DEF OnActivateConnect, StateInv, daemon, nm, history
<1>2. CASE OnDeActivateConnect
  <2>1. Event \in OwnEvent /\ Tail(inbox) \in Seq(OwnEvent) /\ Event.ev = "deActivateConnect"
    BY <1>2, TailOwn DEF OnDeActivateConnect, Received
  <2>2. Event.request \in OwnRequest
    BY <2>1 DEF OwnEvent, Events, OwnRequest
  <2>3. requests' \in Seq(OwnCall)
    BY <1>2, <2>2, CallOwn DEF OnDeActivateConnect
  <2>4. QED
    BY <1>2, <2>1, <2>3 DEF OnDeActivateConnect, StateInv, daemon, nm, history
<1>3. CASE OnActivated
  <2> DEFINE c == Event.conn
             d == IfaceOf[c]
  <2>1. Event \in OwnEvent /\ Tail(inbox) \in Seq(OwnEvent) /\ Event.ev = "Activated"
    BY <1>3, TailOwn DEF OnActivated, Received
  <2>2. c \in Conn /\ d \in Device /\ c \in ProfilesOf(d)
    BY <2>1, IfaceOfType DEF OwnEvent, Events, ProfilesOf
  <2>3. Lan_Connect' = [Lan_Connect EXCEPT ![d] = c] \/ UNCHANGED Lan_Connect
    BY <1>3 DEF OnActivated, WriteNmConfig
  <2>4. /\ Lan_Connect' \in [Device \cup {NoDevice} -> Conn \cup {NoConn}]
        /\ \A e \in Device : Lan_Connect'[e] \in ProfilesOf(e)
    <3> HIDE DEF c, d
    <3> QED BY <2>2, <2>3 DEF StateInv
  <2>5. QED
    BY <1>3, <2>1, <2>4 DEF OnActivated, StateInv, nm, history
<1>4. CASE OnDeactivationReply
  <2> DEFINE d == Event.request.dev
  <2>1. Event \in OwnEvent /\ Tail(inbox) \in Seq(OwnEvent) /\ Event.ev = "reply"
    BY <1>4, TailOwn DEF OnDeactivationReply, Received
  <2>2. Event.request \in Requests
    BY <2>1 DEF OwnEvent, Events
  <2>3. d \in Device \cup {NoDevice}
    BY <2>2 DEF Requests
  <2>4. Lan_Connect' = [Lan_Connect EXCEPT ![d] = NoConn] \/ UNCHANGED Lan_Connect
    BY <1>4 DEF OnDeactivationReply, WriteNmConfig
  <2>5. /\ Lan_Connect' \in [Device \cup {NoDevice} -> Conn \cup {NoConn}]
        /\ \A e \in Device : Lan_Connect'[e] \in ProfilesOf(e)
    <3> HIDE DEF d
    <3> QED BY <2>3, <2>4 DEF StateInv, ProfilesOf
  <2>6. QED
    BY <1>4, <2>1, <2>5 DEF OnDeactivationReply, StateInv, nm, history
<1>5. QED
  BY <1>1, <1>2, <1>3, <1>4

LEMMA TimersInv ==
  ASSUME IInv, NEW t \in timers, ActivateTimeout(t) \/ DisableTimeout(t)
  PROVE  IInv'
<1> USE DEF IInv
<1>1. t \in Timers
  BY DEF StateInv
<1>2. CASE ActivateTimeout(t)
  <2>1. t \in OwnCall
    BY <1>1, <1>2 DEF ActivateTimeout, Timers, OwnCall
  <2>2. QED
    BY <1>2, <2>1 DEF ActivateTimeout, StateInv, daemon, nm, history
<1>3. CASE DisableTimeout(t)
  <2>1. t.dev \in Device
    BY <1>1 DEF Timers
  <2>2. /\ link' \in [Device -> Links]
        /\ \A e \in Device : link'[e].conn \in ProfilesOf(e) /\ (link'[e].listed => running)
    BY <1>3, <2>1, LinkType DEF DisableTimeout
  <2>3. QED
    BY <1>3, <2>2 DEF DisableTimeout, StateInv, daemon, history
<1>4. QED
  BY <1>2, <1>3

LEMMA NetworkManagerInv ==
  ASSUME IInv, NetworkManager
  PROVE  IInv'
<1> USE DEF IInv
<1>1. ASSUME requests # <<>>
      PROVE  Head(requests) \in OwnCall /\ Tail(requests) \in Seq(OwnCall)
  BY <1>1, HeadTailProperties
<1>2. CASE CarryOutActivation
  <2>1. Head(requests).conn \in Conn
    BY <1>1, <1>2 DEF CarryOutActivation, OwnCall, OwnRequest, Requests
  <2>2. Activation(Head(requests).conn, Tail(requests)) /\ Tail(requests) \in Seq(OwnCall)
    BY <1>1, <1>2 DEF CarryOutActivation
  <2>3. /\ link' \in [Device -> Links] /\ requests' \in Seq(OwnCall)
        /\ taken' \in [Device -> {"nobody", "user", "center", "policy"}]
        /\ \A d \in Device : link'[d].conn \in ProfilesOf(d) /\ (link'[d].listed => running)
    BY <2>1, <2>2, ActivationType
  <2>4. QED
    BY <1>2, <2>3 DEF CarryOutActivation, StateInv, daemon
<1>3. CASE CarryOutDeactivation
  <2> DEFINE r == Head(requests)
             d == IfaceOf[r.conn]
  <2>1. r \in OwnRequest /\ Tail(requests) \in Seq(OwnCall)
    BY <1>1, <1>3 DEF CarryOutDeactivation, OwnCall
  <2>2. r.conn \in Conn /\ r.by \in {"user", "switch", "center", "policy"}
    BY <2>1 DEF OwnRequest, Requests
  <2>3. d \in Device
    BY <2>2, IfaceOfType
  <2>4. [ev |-> "reply", request |-> r] \in OwnEvent
    BY <2>1 DEF OwnEvent, Events, OwnRequest
  <2>5. CASE r.op = "deactivate" /\ Up(d) /\ link[d].conn = r.conn
    <3>1. /\ link' = [link EXCEPT ![d].state = "Deactivating"]
          /\ Send([ev |-> "reply", request |-> r])
          /\ taken' = IF r.by = "switch" THEN taken ELSE [taken EXCEPT ![d] = r.by]
      BY <1>3, <2>5 DEF CarryOutDeactivation
    <3>2. /\ link' \in [Device -> Links]
          /\ \A e \in Device : link'[e].conn \in ProfilesOf(e) /\ (link'[e].listed => running)
      <4> HIDE DEF d
      <4> QED BY <2>3, <2>5, <3>1, LinkType DEF Up
    <3>3. /\ inbox' \in Seq(OwnEvent)
          /\ taken' \in [Device -> {"nobody", "user", "center", "policy"}]
      <4> HIDE DEF d, r
      <4> QED BY <2>2, <2>3, <2>4, <3>1, SendOwn DEF StateInv
    <3>4. QED
      BY <1>3, <2>1, <3>2, <3>3 DEF CarryOutDeactivation, StateInv, daemon
  <2>6. CASE ~(r.op = "deactivate" /\ Up(d) /\ link[d].conn = r.conn)
    <3>1. UNCHANGED <<link, inbox, taken>>
      BY <1>3, <2>6 DEF CarryOutDeactivation
    <3>2. QED
      BY <1>3, <2>1, <3>1 DEF CarryOutDeactivation, StateInv, daemon
  <2>7. QED
    BY <2>5, <2>6
<1>4. ASSUME NEW d \in Device, LinkUp(d) PROVE IInv'
  <2> DEFINE e == [ev |-> "Activated", conn |-> link[d].conn]
  <2>1. link[d].conn \in Conn
    BY <1>4, LinkOwn DEF LinkUp
  <2>2. e \in OwnEvent
    BY <2>1 DEF OwnEvent, Events
  <2>3. /\ link' \in [Device -> Links]
        /\ \A f \in Device : link'[f].conn \in ProfilesOf(f) /\ (link'[f].listed => running)
    BY <1>4, LinkType DEF LinkUp
  <2>4. (Send(e) \/ UNCHANGED inbox) /\ unheard' \subseteq Device
    BY <1>4 DEF LinkUp, StateInv
  <2> HIDE DEF e
  <2>5. inbox' \in Seq(OwnEvent)
    BY <2>2, <2>4, SendOwn
  <2>6. QED
    BY <1>4, <2>3, <2>4, <2>5 DEF LinkUp, StateInv, daemon
<1>5. ASSUME NEW d \in Device, LinkDown(d) PROVE IInv'
  <2>1. /\ link' \in [Device -> Links]
        /\ \A e \in Device : link'[e].conn \in ProfilesOf(e) /\ (link'[e].listed => running)
    BY <1>5, LinkType DEF LinkDown
  <2>2. QED
    BY <1>5, <2>1 DEF LinkDown, StateInv, daemon, history
<1>6. ASSUME NEW d \in Device, PlugCable(d) PROVE IInv'
  <2>1. /\ link' \in [Device -> Links]
        /\ \A e \in Device : link'[e].conn \in ProfilesOf(e) /\ (link'[e].listed => running)
    BY <1>6, LinkType DEF PlugCable, StateInv
  <2>2. carrier' \subseteq Device
    BY <1>6 DEF PlugCable, StateInv
  <2>3. QED
    BY <1>6, <2>1, <2>2 DEF PlugCable, StateInv, daemon, history
<1>7. ASSUME NEW c \in Conn, OthersActivate(c) PROVE IInv'
  <2>1. /\ link' \in [Device -> Links] /\ requests' \in Seq(OwnCall)
        /\ taken' \in [Device -> {"nobody", "user", "center", "policy"}]
        /\ \A d \in Device : link'[d].conn \in ProfilesOf(d) /\ (link'[d].listed => running)
    BY <1>7, ActivationType DEF OthersActivate
  <2>2. QED
    BY <1>7, <2>1 DEF OthersActivate, StateInv, daemon
<1>8. ASSUME NEW d \in Device, ManagerLists(d) PROVE IInv'
  <2> DEFINE l == [link[d] EXCEPT !.listed = TRUE]
  <2>1. link[d] \in [conn : Conn, state : {"Activating", "Activated", "Deactivating"}, listed : BOOLEAN]
    BY <1>8 DEF ManagerLists, StateInv, Links, Down
  <2>2. l \in Links /\ l.conn = link[d].conn /\ running
    BY <1>8, <2>1 DEF Links, ManagerLists
  <2>3. link' = [link EXCEPT ![d] = l]
    BY <1>8 DEF ManagerLists
  <2> HIDE DEF l
  <2>4. /\ link' \in [Device -> Links]
        /\ \A e \in Device : link'[e].conn \in ProfilesOf(e) /\ (link'[e].listed => running)
    BY <2>2, <2>3 DEF StateInv
  <2>5. QED
    BY <1>8, <2>4 DEF ManagerLists, StateInv, daemon, history
<1>9. QED
  BY <1>2, <1>3, <1>4, <1>5, <1>6, <1>7, <1>8 DEF NetworkManager

LEMMA StartInv ==
  ASSUME IInv, Start
  PROVE  IInv'
BY DEF IInv, StateInv, Start, daemon, nm, history

\* A stop leaves the requests on their way, whose replies nobody will hear.
LEMMA StopInv ==
  ASSUME IInv, Stop
  PROVE  IInv'
<1> DEFINE heard == {e \in ToSet(inbox) : e.ev = "Activated"}
           kept(r) == IF r.op = "activate" THEN r ELSE [r EXCEPT !.concise = TRUE]
           l(d) == [link[d] EXCEPT !.listed = FALSE]
<1>1. unheard' \subseteq Device
  <2>1. \A e \in ToSet(inbox) : e \in OwnEvent
    BY DEF IInv, ToSet
  <2>2. \A e \in heard : e.conn \in Conn
    BY <2>1 DEF OwnEvent, Events
  <2>3. unheard' = unheard \cup {IfaceOf[e.conn] : e \in heard}
    BY DEF Stop
  <2> HIDE DEF heard
  <2>4. QED
    BY <2>2, <2>3, IfaceOfType DEF IInv, StateInv
<1>2. requests' \in Seq(OwnCall)
  <2>1. requests \in Seq(OwnCall) /\ requests' = [i \in DOMAIN requests |-> kept(requests[i])]
    BY DEF IInv, Stop
  <2>2. ASSUME NEW r \in OwnCall PROVE kept(r) \in OwnCall
    <3>1. CASE r \in OwnRequest
      <4>1. r \in Requests /\ r.op # "activate"
        BY <3>1 DEF OwnRequest, Requests
      <4>2. [r EXCEPT !.concise = TRUE] \in Requests /\ [r EXCEPT !.concise = TRUE].concise
        BY <4>1 DEF Requests
      <4>3. [r EXCEPT !.concise = TRUE] \in OwnRequest
        BY <4>2 DEF OwnRequest, Own
      <4>4. QED
        BY <4>1, <4>3 DEF OwnCall
    <3>2. CASE r \notin OwnRequest
      BY <2>2, <3>2 DEF OwnCall
    <3>3. QED
      BY <3>1, <3>2
  <2> HIDE DEF kept
  <2>3. QED
    BY <2>1, <2>2
<1>3. /\ link' \in [Device -> Links]
      /\ \A d \in Device : link'[d].conn \in ProfilesOf(d) /\ ~link'[d].listed
  <2>1. ASSUME NEW d \in Device PROVE l(d) \in Links /\ l(d).conn \in ProfilesOf(d) /\ ~l(d).listed
    <3>1. link[d] \in Links /\ link[d].conn \in ProfilesOf(d)
      BY DEF IInv, StateInv
    <3>2. CASE link[d] = Down
      <4>1. Down \in [conn : {NoConn}, state : {"Deactivated"}, listed : {FALSE}]
        BY DEF Down
      <4>2. [Down EXCEPT !.listed = FALSE] = Down
        BY <4>1
      <4>3. Down \in Links /\ ~Down.listed
        BY <4>1 DEF Links
      <4>4. QED
        BY <3>1, <3>2, <4>2, <4>3
    <3>3. CASE link[d] # Down
      BY <3>1, <3>3 DEF Links
    <3>4. QED
      BY <3>2, <3>3
  <2>2. link' = [d \in Device |-> l(d)]
    BY DEF Stop
  <2> HIDE DEF l
  <2>3. QED
    BY <2>1, <2>2
<1>4. StateInv'
  BY <1>1, <1>3 DEF IInv, StateInv, Stop, daemon
<1>5. inbox' \in Seq(OwnEvent)
  BY DEF Stop
<1>6. QED
  BY <1>2, <1>4, <1>5 DEF IInv

LEMMA NextInv ==
  ASSUME IInv, [Next]_vars
  PROVE  IInv'
<1>1. CASE UNCHANGED vars
  BY <1>1 DEF IInv, StateInv, vars, daemon, nm, history
<1>2. CASE Next
  BY <1>2, UserInv, SwitchHandlersInv, ConnectionHandlersInv, TimersInv, NetworkManagerInv,
     OthersInv, StartInv, StopInv DEF Next, Handle
<1>3. QED
  BY <1>1, <1>2

LEMMA Invariance == Spec => []IInv
<1>1. Init => IInv
  BY InitInv
<1>2. IInv /\ [Next]_vars => IInv'
  BY NextInv
<1>3. QED
  BY <1>1, <1>2, PTL DEF Spec

-----------------------------------------------------------------------------
(* No switch forgets a connection.                                         *)

\* Types, for every reachable state; a record and an active connection are of
\* a profile that is bound to the device (lanpage.cpp:1030 writes the record
\* under the interface of the profile).
THEOREM TypeCorrect == Spec => []TypeOK
<1>1. OwnEvent \subseteq Events
      /\ OwnCall \subseteq Requests \cup [op : {"activate"}, dev : Device, conn : Conn]
  BY DEF OwnEvent, OwnCall, OwnRequest
<1>2. ASSUME IInv PROVE TypeOK
  <2>1. inbox \in Seq(Events)
    BY <1>1, <1>2, SeqMonotonic DEF IInv
  <2>2. requests \in Seq(Requests \cup [op : {"activate"}, dev : Device, conn : Conn])
    BY <1>1, <1>2, SeqMonotonic DEF IInv
  <2>3. QED
    BY <1>2, <2>1, <2>2 DEF IInv, StateInv, TypeOK, ProfilesOf, ConnsOf
<1>3. QED
  BY <1>2, Invariance, PTL

\* No switch forgets a connection: only a reply empties a record, and it is the
\* reply to a disconnection the user or the policy asked for, of a profile of
\* that device (kylinconnectoperation.cpp:278, lanpage.cpp:1421).
THEOREM RecordsKept == Spec => SwitchKeepsRecords
<1> DEFINE Emptied(d) == Lan_Connect[d] # NoConn /\ Lan_Connect'[d] = NoConn
           Asked(d) == /\ Event.ev = "reply" /\ Event.request.by \in {"user", "policy"}
                       /\ IfaceOf[Event.request.conn] = d
<1>1. ASSUME IInv, [Next]_vars, NEW d \in Device, Emptied(d) PROVE Asked(d)
  <2>1. OnActivated \/ OnDeactivationReply
    BY <1>1 DEF Next, User, Center, Handle, NetworkManager, Start, Stop, vars, daemon,
       CenterDeactivates, CenterTurnsDeviceOff, netCtrlDiscon, ManagerLists,
       PanelConnect, PanelDisconnect, CenterDisconnect, Disconnect, ItemDisconnect, PanelSwitch,
       CenterSwitch, SetDeviceSwitch, OnActivateConnect, OnDeActivateConnect,
       OnSetWiredSwitchEnable, OnSysWiredMainSwitchChanged, OnSysWiredDevSwitchChanged,
       OnSysDeviceSwitchChanged, ActivateTimeout, DisableTimeout, CarryOutActivation,
       CarryOutDeactivation, LinkUp, LinkDown, PlugCable, OthersActivate
  <2>2. inbox # <<>> /\ Event \in OwnEvent
    BY <1>1, <2>1, TailOwn DEF IInv, OnActivated, OnDeactivationReply, Received
  <2>3. Lan_Connect \in [Device \cup {NoDevice} -> Conn \cup {NoConn}]
    BY <1>1 DEF IInv, StateInv
  <2>4. ~OnActivated
    <3>1. SUFFICES ASSUME OnActivated PROVE FALSE
      OBVIOUS
    <3>2. Event.ev = "Activated"
      BY <3>1 DEF OnActivated, Received
    <3>3. Event.conn \in Conn /\ Event.conn # NoConn
      BY <2>2, <3>2, SwitchAssumption DEF OwnEvent, Events
    <3>4. \/ Lan_Connect' = [Lan_Connect EXCEPT ![IfaceOf[Event.conn]] = Event.conn]
          \/ UNCHANGED Lan_Connect
      BY <3>1 DEF OnActivated, WriteNmConfig
    <3>5. QED
      BY <1>1, <2>3, <3>3, <3>4
  <2>5. OnDeactivationReply
    BY <2>1, <2>4
  <2> DEFINE r == Event.request
  <2>6. Event.ev = "reply" /\ r \in Requests /\ Own(r)
    BY <2>2, <2>5 DEF OnDeactivationReply, Received, OwnEvent, Events
  <2>7. ~r.concise /\ r.dev = d
    <3>1. IF r.concise THEN UNCHANGED Lan_Connect
                       ELSE Lan_Connect' = [Lan_Connect EXCEPT ![r.dev] = NoConn]
      BY <2>5 DEF OnDeactivationReply, WriteNmConfig
    <3> HIDE DEF r
    <3>2. QED
      BY <1>1, <2>3, <3>1
  <2>8. QED
    BY <2>6, <2>7, SwitchAssumption DEF Own
<1>2. IInv /\ [Next]_vars => [\A d \in Device : Emptied(d) => Asked(d)]_vars
  BY <1>1
<1>3. QED
  BY <1>2, Invariance, PTL DEF Spec, SwitchKeepsRecords

-----------------------------------------------------------------------------
(* The records.                                                            *)

IsActivated(e, c) == e.ev = "Activated" /\ e.conn = c
Clears(e, d) == e.ev = "reply" /\ ~e.request.concise /\ e.request.dev = d

\* Connection c of device d is recorded, or will be when q is handled.
Kept(q, d, c, recorded, listed) ==
  \/ recorded /\ \A i \in DOMAIN q : ~Clears(q[i], d)
  \/ /\ listed
     /\ \E k \in DOMAIN q : /\ IsActivated(q[k], c)
                            /\ \A j \in DOMAIN q : j > k => ~Clears(q[j], d)

RecordedNow(d) == Lan_Connect[d] = link[d].conn

RecordInv ==
  \A d \in Device \ unheard :
    link[d].state = "Activated" => Kept(inbox, d, link[d].conn, RecordedNow(d), link[d].listed)

LEMMA KeptConcat ==
  ASSUME NEW q \in Seq(OwnEvent), NEW g \in Seq(OwnEvent), NEW d, NEW c, NEW recorded, NEW listed,
         Kept(q, d, c, recorded, listed), \A i \in DOMAIN g : ~Clears(g[i], d)
  PROVE  Kept(q \o g, d, c, recorded, listed)
<1> DEFINE h == q \o g
<1>1. /\ Len(h) = Len(q) + Len(g) /\ h \in Seq(OwnEvent)
      /\ \A i \in 1..Len(q) + Len(g) : h[i] = IF i <= Len(q) THEN q[i] ELSE g[i - Len(q)]
  BY ConcatProperties
<1> HIDE DEF h
<1>2. \A i \in 1..Len(q) : i \in 1..Len(h) /\ h[i] = q[i]
  BY <1>1
<1>3. \A i \in 1..Len(h) : i \in 1..Len(q) \/ ~Clears(h[i], d)
  <2>1. SUFFICES ASSUME NEW i \in 1..Len(h), i \notin 1..Len(q) PROVE ~Clears(h[i], d)
    OBVIOUS
  <2>2. i - Len(q) \in 1..Len(g) /\ h[i] = g[i - Len(q)]
    BY <1>1, <2>1
  <2>3. QED
    BY <2>2
<1>4. CASE recorded /\ \A i \in DOMAIN q : ~Clears(q[i], d)
  BY <1>1, <1>2, <1>3, <1>4 DEF Kept, h
<1>5. ASSUME listed, NEW k \in DOMAIN q, IsActivated(q[k], c),
             \A j \in DOMAIN q : j > k => ~Clears(q[j], d)
      PROVE  Kept(h, d, c, recorded, listed)
  <2>1. k \in 1..Len(h) /\ h[k] = q[k]
    BY <1>2, <1>5
  <2>2. \A j \in 1..Len(h) : j > k => ~Clears(h[j], d)
    BY <1>2, <1>3, <1>5
  <2>3. QED
    BY <1>1, <1>5, <2>1, <2>2 DEF Kept
<1>6. QED
  BY <1>4, <1>5 DEF Kept, h

LEMMA KeptTail ==
  ASSUME NEW q \in Seq(OwnEvent), q # <<>>, NEW d, NEW c, NEW recorded, NEW listed,
         Kept(q, d, c, recorded, listed)
  PROVE  /\ IsActivated(Head(q), c) => Kept(Tail(q), d, c, recorded \/ listed, listed)
         /\ ~IsActivated(Head(q), c) => Kept(Tail(q), d, c, recorded, listed)
         /\ Clears(Head(q), d) => Kept(Tail(q), d, c, FALSE, listed)
<1> DEFINE t == Tail(q)
<1>1. /\ Head(q) = q[1] /\ Len(q) \in Nat \ {0} /\ Len(t) = Len(q) - 1
      /\ t \in Seq(OwnEvent) /\ \A i \in 1..Len(t) : t[i] = q[i + 1]
  BY HeadTailProperties
<1> HIDE DEF t
<1>2. \A i \in 1..Len(t) : i + 1 \in 1..Len(q) /\ t[i] = q[i + 1]
  BY <1>1
<1>3. \A i \in 1..Len(q) : i = 1 \/ (i - 1 \in 1..Len(t) /\ q[i] = t[i - 1])
  BY <1>1
<1>4. ASSUME recorded, \A i \in DOMAIN q : ~Clears(q[i], d)
      PROVE  ~Clears(Head(q), d) /\ \A i \in DOMAIN t : ~Clears(t[i], d)
  BY <1>1, <1>2, <1>4
<1>5. ASSUME listed, NEW k \in DOMAIN q, IsActivated(q[k], c),
             \A j \in DOMAIN q : j > k => ~Clears(q[j], d)
      PROVE  IF k = 1 THEN IsActivated(Head(q), c) /\ \A i \in DOMAIN t : ~Clears(t[i], d)
             ELSE Kept(t, d, c, FALSE, listed)
  <2>1. CASE k = 1
    <3>1. \A i \in 1..Len(t) : i + 1 > 1
      OBVIOUS
    <3>2. QED
      BY <1>1, <1>2, <1>5, <2>1, <3>1
  <2>2. CASE k # 1
    <3>1. k - 1 \in 1..Len(t) /\ t[k - 1] = q[k]
      BY <1>3, <2>2
    <3>2. \A j \in 1..Len(t) : j > k - 1 => ~Clears(t[j], d)
      <4>1. \A j \in 1..Len(t) : j > k - 1 => j + 1 > k
        BY <1>1
      <4>2. QED
        BY <1>1, <1>2, <1>5, <4>1
    <3>3. QED
      BY <1>1, <1>5, <2>2, <3>1, <3>2 DEF Kept
  <2>3. QED
    BY <2>1, <2>2
<1>6. Kept(t, d, c, FALSE, listed) => Kept(t, d, c, recorded, listed) /\ Kept(t, d, c, recorded \/ listed, listed)
  BY DEF Kept
<1>7. CASE recorded /\ \A i \in DOMAIN q : ~Clears(q[i], d)
  BY <1>4, <1>7 DEF Kept, t
<1>8. CASE /\ listed
           /\ \E k \in DOMAIN q : /\ IsActivated(q[k], c)
                                  /\ \A j \in DOMAIN q : j > k => ~Clears(q[j], d)
  <2>1. \/ IsActivated(Head(q), c) /\ \A i \in DOMAIN t : ~Clears(t[i], d)
        \/ Kept(t, d, c, FALSE, listed)
    BY <1>5, <1>8
  <2>2. IsActivated(Head(q), c) => ~Clears(Head(q), d)
    BY DEF IsActivated, Clears
  <2>3. QED
    BY <1>6, <2>1, <2>2 DEF Kept, t
<1>9. QED
  BY <1>7, <1>8 DEF Kept

\* Nothing is lost when a connection is listed.
LEMMA KeptListed ==
  ASSUME NEW q, NEW d, NEW c, NEW recorded, NEW was, NEW is, was => is, Kept(q, d, c, recorded, was)
  PROVE  Kept(q, d, c, recorded, is)
BY DEF Kept

\* A step that handles or sends no event a record depends on, and brings nothing up.
LEMMA RecordOther ==
  ASSUME IInv, RecordInv, NEW g \in Seq(OtherEvent), UNCHANGED <<Lan_Connect, unheard>>,
         \A d \in Device : link'[d].state = "Activated" =>
           /\ link[d].state = "Activated" /\ link'[d].conn = link[d].conn
           /\ link[d].listed => link'[d].listed,
         \/ inbox' = inbox
         \/ inbox' = inbox \o g
         \/ /\ inbox # <<>> /\ Event.ev \notin {"Activated", "reply"}
            /\ inbox' \in {Tail(inbox), Tail(inbox) \o g}
  PROVE  RecordInv'
<1>1. SUFFICES ASSUME NEW d \in Device, d \notin unheard, link'[d].state = "Activated"
               PROVE  Kept(inbox', d, link'[d].conn, RecordedNow(d)', link'[d].listed)
  BY DEF RecordInv
<1> DEFINE c == link[d].conn
           r == RecordedNow(d)
           was == link[d].listed
           is == link'[d].listed
<1>2. /\ link'[d].conn = c /\ (was => is) /\ RecordedNow(d)' = r
      /\ Kept(inbox, d, c, r, was)
  BY <1>1 DEF RecordInv, RecordedNow
<1> HIDE DEF c, r, was, is
<1>3. Kept(inbox, d, c, r, is)
  BY <1>2, KeptListed
<1>4. g \in Seq(OwnEvent) /\ \A i \in DOMAIN g : ~Clears(g[i], d)
  <2>1. \A i \in DOMAIN g : g[i] \in OtherEvent
    OBVIOUS
  <2>2. QED
    BY <2>1, OtherIsOwn DEF OtherEvent, Clears
<1>5. Kept(inbox', d, c, r, is)
  <2>1. CASE inbox' = inbox
    BY <1>3, <2>1
  <2>2. CASE inbox' = inbox \o g
    BY <1>3, <1>4, <2>2, KeptConcat DEF IInv
  <2>3. CASE /\ inbox # <<>> /\ Event.ev \notin {"Activated", "reply"}
             /\ inbox' \in {Tail(inbox), Tail(inbox) \o g}
    <3>1. Tail(inbox) \in Seq(OwnEvent)
      BY <2>3, TailOwn DEF IInv
    <3>2. ~IsActivated(Head(inbox), c)
      BY <2>3 DEF IsActivated, Event
    <3>3. Kept(Tail(inbox), d, c, r, is)
      BY <1>3, <2>3, <3>2, KeptTail DEF IInv
    <3>4. Kept(Tail(inbox) \o g, d, c, r, is)
      BY <1>4, <3>1, <3>3, KeptConcat
    <3>5. QED
      BY <2>3, <3>3, <3>4
  <2>4. QED
    BY <2>1, <2>2, <2>3
<1>6. QED
  BY <1>2, <1>5 DEF is

LEMMA RecordHandled ==
  ASSUME IInv, RecordInv, UNCHANGED <<Lan_Connect, link, unheard>>,
         \/ inbox' = inbox
         \/ inbox # <<>> /\ Event.ev \notin {"Activated", "reply"} /\ inbox' = Tail(inbox)
  PROVE  RecordInv'
<1>1. <<>> \in Seq(OtherEvent)
  OBVIOUS
<1>2. QED
  BY <1>1, RecordOther

\* Something is said that no record depends on, if there is somebody to hear it.
LEMMA RecordSaid ==
  ASSUME IInv, RecordInv, NEW g \in Seq(OtherEvent), inbox' \in {inbox, Heard(inbox, g)},
         UNCHANGED <<Lan_Connect, link, unheard>>
  PROVE  RecordInv'
<1>1. inbox' = inbox \/ inbox' = inbox \o g
  BY DEF Heard
<1>2. QED
  BY <1>1, RecordOther

\* What the users do, the two switches among it.
LEMMA UserRecord ==
  ASSUME IInv, RecordInv, User
  PROVE  RecordInv'
<1>1. ASSUME NEW c \in Conn, PanelConnect(c) PROVE RecordInv'
  <2>1. <<[ev |-> "activateConnect", conn |-> c]>> \in Seq(OtherEvent)
    BY DEF OtherEvent, OwnEvent, Events
  <2>2. QED
    BY <1>1, <2>1, RecordSaid DEF PanelConnect, Send, daemon, nm, history
<1>2. ASSUME NEW d \in Device, NEW concise \in BOOLEAN, Disconnect(d, concise) PROVE RecordInv'
  <2>1. link[d].conn \in Conn /\ IfaceOf[link[d].conn] = d
    BY <1>2, LinkOwn DEF IInv, Disconnect, Up
  <2>2. Deactivate(link[d].conn, d, concise, "user") \in OwnRequest
    BY <2>1 DEF Deactivate, OwnRequest, Own, Requests
  <2> DEFINE e == [ev |-> "deActivateConnect",
                   request |-> Deactivate(link[d].conn, d, concise, "user")]
  <2>3. e \in OtherEvent
    BY <2>2 DEF OtherEvent, OwnEvent, Events, OwnRequest
  <2>4. inbox' = Heard(inbox, <<e>>) /\ UNCHANGED <<Lan_Connect, link, unheard>>
    BY <1>2 DEF Disconnect, Send, daemon, nm, history
  <2> HIDE DEF e
  <2>5. <<e>> \in Seq(OtherEvent)
    BY <2>3
  <2>6. QED
    BY <2>4, <2>5, RecordSaid
<1>3. ASSUME NEW d \in Device, ItemDisconnect(d) PROVE RecordInv'
  <2>1. UNCHANGED <<inbox, Lan_Connect, link, unheard>>
    BY <1>3 DEF ItemDisconnect, daemon, nm, history
  <2>2. QED
    BY <2>1, RecordHandled
<1>4. ASSUME NEW on \in BOOLEAN, PanelSwitch(on) PROVE RecordInv'
  <2>1. <<[ev |-> "setWiredSwitchEnable", on |-> on]>> \in Seq(OtherEvent)
    BY DEF OtherEvent, OwnEvent, Events
  <2>2. QED
    BY <1>4, <2>1, RecordSaid DEF PanelSwitch, Send, daemon, nm, history
<1>5. ASSUME NEW on \in BOOLEAN, CenterSwitch(on) PROVE RecordInv'
  <2>1. <<[ev |-> "mainSwitch", on |-> on]>> \in Seq(OtherEvent)
    BY DEF OtherEvent, OwnEvent, Events
  <2>2. QED
    BY <1>5, <2>1, RecordSaid DEF CenterSwitch, SetWiredMainSwitch, nm, history
<1>6. ASSUME NEW d \in Device, NEW on \in BOOLEAN, SetDeviceSwitch(d, on) PROVE RecordInv'
  <2> DEFINE es == <<[ev |-> "deviceSwitch", dev |-> d, on |-> TRUE],
                     [ev |-> "reconnect", dev |-> d]>>
  <2>1. es \in Seq(OtherEvent)
    BY DEF OtherEvent, OwnEvent, Events
  <2>2. inbox' \in {inbox, Heard(inbox, es)} /\ UNCHANGED <<Lan_Connect, link, unheard>>
    BY <1>6 DEF SetDeviceSwitch, daemon, nm, history
  <2> HIDE DEF es
  <2>3. QED
    BY <2>1, <2>2, RecordSaid
<1>7. QED
  BY <1>1, <1>2, <1>3, <1>4, <1>5, <1>6 DEF User, PanelDisconnect, CenterDisconnect

LEMMA OthersRecord ==
  ASSUME IInv, RecordInv, Center \/ netCtrlDiscon \/ Start
  PROVE  RecordInv'
<1>1. ASSUME NEW c \in Conn, CenterDeactivates(c) PROVE RecordInv'
  <2> DEFINE e == [ev |-> "deActivateConnect",
                   request |-> Deactivate(c, IfaceOf[c], TRUE, "center")]
  <2>1. Deactivate(c, IfaceOf[c], TRUE, "center") \in OwnRequest
    BY IfaceOfType DEF Deactivate, OwnRequest, Own, Requests
  <2>2. e \in OtherEvent
    BY <2>1 DEF OtherEvent, OwnEvent, Events, OwnRequest
  <2>3. inbox' = Heard(inbox, <<e>>) /\ UNCHANGED <<Lan_Connect, link, unheard>>
    BY <1>1 DEF CenterDeactivates, Send, daemon, nm, history
  <2> HIDE DEF e
  <2>4. <<e>> \in Seq(OtherEvent)
    BY <2>2
  <2>5. QED
    BY <2>3, <2>4, RecordSaid
<1>2. ASSUME NEW d \in Device, CenterTurnsDeviceOff(d) PROVE RecordInv'
  <2>1. <<[ev |-> "deviceSwitch", dev |-> d, on |-> FALSE]>> \in Seq(OtherEvent)
    BY DEF OtherEvent, OwnEvent, Events
  <2>2. QED
    BY <1>2, <2>1, RecordSaid DEF CenterTurnsDeviceOff, Send, daemon, nm, history
<1>3. CASE netCtrlDiscon \/ Start
  <2>1. UNCHANGED <<inbox, Lan_Connect, link, unheard>>
    BY <1>3 DEF netCtrlDiscon, Start, daemon, nm, history
  <2>2. QED
    BY <2>1, RecordHandled
<1>4. QED
  BY <1>1, <1>2, <1>3 DEF Center

\* The handlers of what users and switches ask for.
LEMMA HandlersRecord ==
  ASSUME IInv, RecordInv,
         \/ OnActivateConnect \/ OnDeActivateConnect \/ OnSetWiredSwitchEnable
         \/ OnSysWiredMainSwitchChanged \/ OnSysWiredDevSwitchChanged \/ OnSysDeviceSwitchChanged
  PROVE  RecordInv'
<1>1. CASE OnSetWiredSwitchEnable
  <2> DEFINE e == [ev |-> "mainSwitch", on |-> Event.on]
  <2>1. Event \in OwnEvent /\ Tail(inbox) \in Seq(OwnEvent)
        /\ Event.ev = "setWiredSwitchEnable" /\ inbox # <<>>
    BY <1>1, TailOwn DEF IInv, OnSetWiredSwitchEnable, Received
  <2>2. e \in OtherEvent
    <3>1. Event.on \in BOOLEAN
      BY <2>1 DEF OwnEvent, Events
    <3>2. QED
      BY <3>1 DEF OtherEvent, OwnEvent, Events
  <2>3. /\ inbox' \in {Tail(inbox), Tail(inbox) \o <<e>>}
        /\ UNCHANGED <<Lan_Connect, link, unheard>>
    BY <1>1 DEF OnSetWiredSwitchEnable, SetWiredMainSwitch, Heard, nm, history
  <2> HIDE DEF e
  <2>4. <<e>> \in Seq(OtherEvent)
    BY <2>2
  <2>5. QED
    BY <2>1, <2>3, <2>4, RecordOther
<1>2. CASE OnActivateConnect
  <2>1. /\ inbox # <<>> /\ Event.ev = "activateConnect" /\ inbox' = Tail(inbox)
        /\ UNCHANGED <<Lan_Connect, link, unheard>>
    BY <1>2 DEF OnActivateConnect, Received, daemon, nm, history
  <2>2. QED
    BY <2>1, RecordHandled
<1>3. CASE OnDeActivateConnect
  <2>1. /\ inbox # <<>> /\ Event.ev = "deActivateConnect" /\ inbox' = Tail(inbox)
        /\ UNCHANGED <<Lan_Connect, link, unheard>>
    BY <1>3 DEF OnDeActivateConnect, Received, daemon, nm, history
  <2>2. QED
    BY <2>1, RecordHandled
<1>4. CASE OnSysWiredMainSwitchChanged
  <2>1. /\ inbox # <<>> /\ Event.ev = "mainSwitch" /\ inbox' = Tail(inbox)
        /\ UNCHANGED <<Lan_Connect, link, unheard>>
    BY <1>4 DEF OnSysWiredMainSwitchChanged, Received, daemon, nm, history
  <2>2. QED
    BY <2>1, RecordHandled
<1>5. CASE OnSysWiredDevSwitchChanged
  <2>1. /\ inbox # <<>> /\ Event.ev = "deviceSwitch" /\ inbox' = Tail(inbox)
        /\ UNCHANGED <<Lan_Connect, link, unheard>>
    BY <1>5 DEF OnSysWiredDevSwitchChanged, Received, daemon, history
  <2>2. QED
    BY <2>1, RecordHandled
<1>6. CASE OnSysDeviceSwitchChanged
  <2>1. /\ inbox # <<>> /\ Event.ev = "reconnect" /\ inbox' = Tail(inbox)
        /\ UNCHANGED <<Lan_Connect, link, unheard>>
    BY <1>6 DEF OnSysDeviceSwitchChanged, Received, daemon, nm, history
  <2>2. QED
    BY <2>1, RecordHandled
<1>7. QED
  BY <1>1, <1>2, <1>3, <1>4, <1>5, <1>6

\* The record of the connection is written, if it is still the one that is up.
LEMMA ActivatedRecord ==
  ASSUME IInv, RecordInv, OnActivated
  PROVE  RecordInv'
<1> DEFINE c == Event.conn
           d == IfaceOf[c]
<1>1. /\ Event \in OwnEvent /\ Event.ev = "Activated" /\ inbox # <<>> /\ inbox' = Tail(inbox)
      /\ Event = Head(inbox) /\ UNCHANGED <<link, unheard>>
  BY TailOwn DEF IInv, OnActivated, Received, nm, history, Event
<1>2. c \in Conn /\ d \in Device
  BY <1>1, IfaceOfType DEF OwnEvent, Events
<1>3. IF d \in Active /\ link[d].conn = c THEN Lan_Connect' = [Lan_Connect EXCEPT ![d] = c]
                                          ELSE UNCHANGED Lan_Connect
  BY DEF OnActivated, WriteNmConfig
<1> HIDE DEF c, d
<1>4. ASSUME NEW e \in Device \ unheard, link[e].state = "Activated"
      PROVE  Kept(Tail(inbox), e, link[e].conn, RecordedNow(e)', link[e].listed)
  <2> DEFINE l == link[e].listed
  <2>1. Kept(inbox, e, link[e].conn, RecordedNow(e), l)
    BY <1>4 DEF RecordInv
  <2>2. CASE ~IsActivated(Head(inbox), link[e].conn)
    <3>1. Kept(Tail(inbox), e, link[e].conn, RecordedNow(e), l)
      BY <1>1, <2>1, <2>2, KeptTail DEF IInv
    <3>2. c # link[e].conn
      BY <1>1, <2>2 DEF IsActivated, c
    <3>3. e # d \/ UNCHANGED Lan_Connect
      BY <1>3, <3>2
    <3>4. Lan_Connect'[e] = Lan_Connect[e]
      BY <1>3, <1>4, <3>3 DEF IInv, StateInv
    <3>5. RecordedNow(e)' <=> RecordedNow(e)
      BY <1>1, <3>4 DEF RecordedNow
    <3>6. QED
      BY <3>1, <3>5 DEF Kept
  <2>3. CASE IsActivated(Head(inbox), link[e].conn)
    <3>1. Kept(Tail(inbox), e, link[e].conn, RecordedNow(e) \/ l, l)
      BY <1>1, <2>1, <2>3, KeptTail DEF IInv
    <3>2. link[e].conn = c /\ IfaceOf[link[e].conn] = e
      BY <1>1, <1>4, <2>3, LinkOwn DEF IsActivated, IInv, c
    <3>3. d = e
      BY <3>2 DEF d
    <3>4. e \in Active <=> l
      BY <1>4 DEF Active, Listed, Up
    <3>5. RecordedNow(e)' <=> RecordedNow(e) \/ l
      <4>1. IF l THEN Lan_Connect' = [Lan_Connect EXCEPT ![e] = c] ELSE UNCHANGED Lan_Connect
        BY <1>3, <3>2, <3>3, <3>4
      <4>2. Lan_Connect'[e] = IF l THEN c ELSE Lan_Connect[e]
        BY <1>4, <4>1 DEF IInv, StateInv
      <4>3. QED
        BY <1>1, <3>2, <4>2 DEF RecordedNow
    <3>6. QED
      BY <3>1, <3>5 DEF Kept
  <2>4. QED
    BY <2>2, <2>3
<1>5. QED
  BY <1>1, <1>4 DEF RecordInv

\* A reply clears a record only if what is up now comes after it.
LEMMA ReplyRecord ==
  ASSUME IInv, RecordInv, OnDeactivationReply
  PROVE  RecordInv'
<1> DEFINE r == Event.request
<1>1. /\ Event.ev = "reply" /\ inbox # <<>> /\ inbox' = Tail(inbox)
      /\ Event = Head(inbox) /\ UNCHANGED <<link, unheard>>
  BY DEF OnDeactivationReply, Received, nm, history, Event
<1>2. IF r.concise THEN UNCHANGED Lan_Connect
                   ELSE Lan_Connect' = [Lan_Connect EXCEPT ![r.dev] = NoConn]
  BY DEF OnDeactivationReply, WriteNmConfig
<1>3. ASSUME NEW e \in Device \ unheard, link[e].state = "Activated"
      PROVE  Kept(Tail(inbox), e, link[e].conn, RecordedNow(e)', link[e].listed)
  <2> DEFINE l == link[e].listed
  <2>1. Kept(inbox, e, link[e].conn, RecordedNow(e), l)
    BY <1>3 DEF RecordInv
  <2>2. CASE Clears(Head(inbox), e)
    <3>1. Kept(Tail(inbox), e, link[e].conn, FALSE, l)
      BY <1>1, <2>1, <2>2, KeptTail DEF IInv
    <3>2. QED
      BY <3>1 DEF Kept
  <2>3. CASE ~Clears(Head(inbox), e)
    <3>1. ~IsActivated(Head(inbox), link[e].conn)
      BY <1>1 DEF IsActivated
    <3>2. Kept(Tail(inbox), e, link[e].conn, RecordedNow(e), l)
      BY <1>1, <2>1, <3>1, KeptTail DEF IInv
    <3>3. r.concise \/ r.dev # e
      BY <1>1, <2>3 DEF Clears
    <3>4. Lan_Connect'[e] = Lan_Connect[e]
      BY <1>2, <1>3, <3>3 DEF IInv, StateInv
    <3>5. RecordedNow(e)' <=> RecordedNow(e)
      BY <1>1, <3>4 DEF RecordedNow
    <3>6. QED
      BY <3>2, <3>5 DEF Kept
  <2>4. QED
    BY <2>2, <2>3
<1>4. QED
  BY <1>1, <1>3 DEF RecordInv

\* The link of one device goes down, or up as far as it is not active yet.
LEMMA RecordDown ==
  ASSUME IInv, RecordInv, NEW d, NEW s, s.state # "Activated",
         link' = [link EXCEPT ![d] = s] \/ UNCHANGED link,
         UNCHANGED <<inbox, Lan_Connect, unheard>>
  PROVE  RecordInv'
<1>1. \A e \in Device : link'[e].state = "Activated" => link'[e] = link[e]
  BY DEF IInv, StateInv
<1>2. <<>> \in Seq(OtherEvent)
  OBVIOUS
<1>3. QED
  BY <1>1, <1>2, RecordOther

\* A connection comes up: its Activated is queued, or nobody hears it.
LEMMA LinkUpRecord ==
  ASSUME IInv, RecordInv, NEW d \in Device, LinkUp(d)
  PROVE  RecordInv'
<1> DEFINE c == link[d].conn
           l == link[d].listed
           m == [ev |-> "Activated", conn |-> c]
           up == [link[d] EXCEPT !.state = "Activated"]
<1>1. c \in Conn /\ UNCHANGED Lan_Connect /\ (l => running)
  BY LinkOwn DEF LinkUp, IInv, StateInv, daemon
<1>2. m \in OwnEvent /\ IsActivated(m, c) /\ \A e : ~Clears(m, e)
  BY <1>1 DEF OwnEvent, Events, IsActivated, Clears
<1>3. IF l THEN inbox' = Heard(inbox, <<m>>) /\ unheard' = unheard \ {d}
           ELSE unheard' = unheard \cup {d} /\ UNCHANGED inbox
  BY DEF LinkUp, Send
<1>4. up.conn = c /\ up.listed = l /\ link' = [link EXCEPT ![d] = up]
  BY DEF LinkUp, IInv, StateInv, Links, Down
<1> HIDE DEF c, l, m, up
<1>5. inbox' = (IF l THEN inbox \o <<m>> ELSE inbox) /\ <<m>> \in Seq(OwnEvent)
  BY <1>1, <1>2, <1>3 DEF Heard
<1>6. SUFFICES ASSUME NEW e \in Device \ unheard', link'[e].state = "Activated"
               PROVE  Kept(inbox', e, link'[e].conn, RecordedNow(e)', link'[e].listed)
  BY DEF RecordInv
<1>7. CASE e = d
  <2>1. l /\ link'[e].conn = c /\ link'[e].listed = l
    BY <1>3, <1>4, <1>6, <1>7 DEF IInv, StateInv
  <2>2. /\ Len(inbox) + 1 \in DOMAIN inbox' /\ inbox'[Len(inbox) + 1] = m
        /\ \A j \in DOMAIN inbox' : ~(j > Len(inbox) + 1)
    BY <1>2, <1>5, <2>1 DEF IInv
  <2>3. QED
    BY <1>2, <2>1, <2>2 DEF Kept
<1>8. CASE e # d
  <2>1. link'[e] = link[e] /\ e \notin unheard
    BY <1>3, <1>4, <1>6, <1>8 DEF IInv, StateInv
  <2>2. RecordedNow(e)' = RecordedNow(e)
    BY <1>1, <2>1 DEF RecordedNow
  <2>3. Kept(inbox, e, link[e].conn, RecordedNow(e), link[e].listed)
    BY <1>6, <2>1 DEF RecordInv
  <2>4. \A i \in DOMAIN <<m>> : ~Clears(<<m>>[i], e)
    BY <1>2
  <2>5. Kept(inbox', e, link[e].conn, RecordedNow(e), link[e].listed)
    <3>1. CASE l
      BY <1>5, <2>3, <2>4, <3>1, KeptConcat DEF IInv
    <3>2. CASE ~l
      BY <1>5, <2>3, <3>2
    <3>3. QED
      BY <3>1, <3>2
  <2>6. QED
    BY <2>1, <2>2, <2>5
<1>9. QED
  BY <1>7, <1>8

\* A disconnection: its reply clears no record but that of the device it takes down.
LEMMA DeactivationRecord ==
  ASSUME IInv, RecordInv, CarryOutDeactivation
  PROVE  RecordInv'
<1> DEFINE r == Head(requests)
           d == IfaceOf[r.conn]
           m == [ev |-> "reply", request |-> r]
           down == [link[d] EXCEPT !.state = "Deactivating"]
<1>1. r \in OwnCall /\ r.op # "activate"
  BY HeadTailProperties DEF CarryOutDeactivation, IInv
<1>2. r \in OwnRequest
  BY <1>1 DEF OwnCall
<1>3. d \in Device /\ m \in OwnEvent /\ (r.concise \/ r.dev \in {NoDevice, d})
  <2>1. r.conn \in Conn
    BY <1>2 DEF OwnRequest, Requests
  <2>2. QED
    BY <1>2, <2>1, IfaceOfType DEF OwnRequest, Own, OwnEvent, Events
<1>4. UNCHANGED <<Lan_Connect, unheard>>
  BY DEF CarryOutDeactivation, daemon
<1>5. \/ link' = [link EXCEPT ![d] = down] /\ inbox' = Heard(inbox, <<m>>)
      \/ UNCHANGED <<link, inbox>>
  BY DEF CarryOutDeactivation, Send
<1>6. down.state = "Deactivating"
  BY <1>3 DEF IInv, StateInv, Links, Down
<1>7. \A e \in Device \ {d} : ~Clears(m, e)
  BY <1>3, SwitchAssumption DEF Clears
<1> HIDE DEF r, d, m, down
<1>8. CASE UNCHANGED <<link, inbox>>
  BY <1>4, <1>8, RecordHandled
<1>9. CASE link' = [link EXCEPT ![d] = down] /\ inbox' = Heard(inbox, <<m>>)
  <2>1. SUFFICES ASSUME NEW e \in Device \ unheard, link'[e].state = "Activated"
                 PROVE  Kept(inbox', e, link'[e].conn, RecordedNow(e)', link'[e].listed)
    BY <1>4 DEF RecordInv
  <2>2. e # d /\ link'[e] = link[e]
    BY <1>6, <1>9, <2>1 DEF IInv, StateInv
  <2>3. /\ Kept(inbox, e, link[e].conn, RecordedNow(e), link[e].listed)
        /\ RecordedNow(e)' = RecordedNow(e)
    BY <1>4, <2>1, <2>2 DEF RecordInv, RecordedNow
  <2>4. <<m>> \in Seq(OwnEvent) /\ \A i \in DOMAIN <<m>> : ~Clears(<<m>>[i], e)
    BY <1>3, <1>7, <2>2
  <2>5. inbox' \in {inbox, inbox \o <<m>>}
    BY <1>9 DEF Heard
  <2>6. QED
    BY <2>2, <2>3, <2>4, <2>5, KeptConcat DEF IInv
<1>10. QED
  BY <1>5, <1>8, <1>9

LEMMA NetworkManagerRecord ==
  ASSUME IInv, RecordInv, NetworkManager
  PROVE  RecordInv'
<1>1. ASSUME NEW c, NEW calls, Activation(c, calls), UNCHANGED <<inbox, Lan_Connect, unheard>>
      PROVE  RecordInv'
  <2> DEFINE s == [conn |-> c, state |-> "Activating", listed |-> FALSE]
  <2>1. s.state # "Activated" /\ (link' = [link EXCEPT ![IfaceOf[c]] = s] \/ UNCHANGED link)
    BY <1>1 DEF Activation
  <2> HIDE DEF s
  <2>2. QED
    BY <1>1, <2>1, RecordDown
<1>2. CASE CarryOutActivation
  BY <1>1, <1>2 DEF CarryOutActivation, daemon
<1>3. CASE \E c \in Conn : OthersActivate(c)
  BY <1>1, <1>3 DEF OthersActivate, daemon
<1>4. CASE \E d \in Device : LinkDown(d) \/ PlugCable(d)
  <2>1. Down.state # "Activated"
    BY DEF Down
  <2>2. PICK d \in Device : LinkDown(d) \/ PlugCable(d)
    BY <1>4
  <2>3. /\ link' = [link EXCEPT ![d] = Down] \/ UNCHANGED link
        /\ UNCHANGED <<inbox, Lan_Connect, unheard>>
    BY <2>2 DEF LinkDown, PlugCable, daemon, history
  <2>4. QED
    BY <2>1, <2>3, RecordDown
<1>5. ASSUME NEW d \in Device, ManagerLists(d) PROVE RecordInv'
  <2> DEFINE l == [link[d] EXCEPT !.listed = TRUE]
  <2>1. /\ link' = [link EXCEPT ![d] = l]
        /\ l.conn = link[d].conn /\ l.state = link[d].state /\ l.listed
    BY <1>5 DEF ManagerLists, IInv, StateInv, Links, Down
  <2> HIDE DEF l
  <2>2. \A e \in Device : link'[e].state = "Activated" =>
          /\ link[e].state = "Activated" /\ link'[e].conn = link[e].conn
          /\ link[e].listed => link'[e].listed
    BY <2>1 DEF IInv, StateInv
  <2>3. UNCHANGED <<inbox, Lan_Connect, unheard>> /\ <<>> \in Seq(OtherEvent)
    BY <1>5 DEF ManagerLists, daemon, history
  <2>4. QED
    BY <2>2, <2>3, RecordOther
<1>6. QED
  BY <1>2, <1>3, <1>4, <1>5, LinkUpRecord, DeactivationRecord DEF NetworkManager

LEMMA TimersRecord ==
  ASSUME IInv, RecordInv, NEW t \in timers, ActivateTimeout(t) \/ DisableTimeout(t)
  PROVE  RecordInv'
<1>1. UNCHANGED <<inbox, Lan_Connect, unheard>> /\ Down.state # "Activated"
  BY DEF ActivateTimeout, DisableTimeout, daemon, history, Down
<1>2. link' = [link EXCEPT ![t.dev] = Down] \/ UNCHANGED link
  BY DEF ActivateTimeout, DisableTimeout, nm
<1>3. QED
  BY <1>1, <1>2, RecordDown

\* A stop: what was not recorded yet is unheard of from now on.
LEMMA StopRecord ==
  ASSUME IInv, RecordInv, Stop
  PROVE  RecordInv'
<1> DEFINE heard == {e \in ToSet(inbox) : e.ev = "Activated"}
<1>1. /\ unheard' = unheard \cup {IfaceOf[e.conn] : e \in heard}
      /\ inbox' = <<>> /\ UNCHANGED Lan_Connect
  BY DEF Stop, daemon
<1>2. \A d \in Device : link'[d].conn = link[d].conn /\ link'[d].state = link[d].state
  <2> DEFINE l(d) == [link[d] EXCEPT !.listed = FALSE]
  <2>1. \A d \in Device : l(d).conn = link[d].conn /\ l(d).state = link[d].state
    BY DEF IInv, StateInv, Links, Down
  <2>2. link' = [d \in Device |-> l(d)]
    BY DEF Stop
  <2> HIDE DEF l
  <2>3. QED
    BY <2>1, <2>2
<1>3. ASSUME NEW d \in Device \ unheard', link[d].state = "Activated"
      PROVE  RecordedNow(d)'
  <2>1. Kept(inbox, d, link[d].conn, RecordedNow(d), link[d].listed)
    BY <1>1, <1>3 DEF RecordInv
  <2>2. ~ \E k \in DOMAIN inbox : IsActivated(inbox[k], link[d].conn)
    <3>1. SUFFICES ASSUME NEW k \in DOMAIN inbox, IsActivated(inbox[k], link[d].conn) PROVE FALSE
      OBVIOUS
    <3>2. inbox[k] \in heard
      BY <3>1 DEF ToSet, IsActivated
    <3>3. IfaceOf[inbox[k].conn] = d
      BY <1>3, <3>1, LinkOwn DEF IsActivated, IInv
    <3>4. d \in unheard'
      BY <1>1, <3>2, <3>3
    <3>5. QED
      BY <1>3, <3>4
  <2>3. RecordedNow(d)
    BY <2>1, <2>2 DEF Kept
  <2>4. QED
    BY <1>1, <1>2, <1>3, <2>3 DEF RecordedNow
<1>4. \A i : i \notin DOMAIN inbox'
  BY <1>1
<1>5. QED
  BY <1>1, <1>2, <1>3, <1>4 DEF RecordInv, Kept

\* When everything is handled, the connection that is up on a device is the
\* recorded one (onConnectionStateChange, lanpage.cpp:1030), unless kylin-nm has
\* not heard of it: however activations, disconnections and replies overlap.
THEOREM RecordFollowed == Spec => []RecordFollows
<1>1. Init => RecordInv
  BY DEF Init, RecordInv, Down
<1>2. IInv /\ RecordInv /\ [Next]_vars => RecordInv'
  <2>1. SUFFICES ASSUME IInv, RecordInv, [Next]_vars PROVE RecordInv'
    OBVIOUS
  <2>2. CASE UNCHANGED vars
    <3>1. UNCHANGED <<inbox, Lan_Connect, link, unheard>>
      BY <2>2 DEF vars, daemon, nm, history
    <3>2. QED
      BY <2>1, <3>1, RecordHandled
  <2>3. CASE Next
    BY <2>1, <2>3, UserRecord, OthersRecord, HandlersRecord, ActivatedRecord, ReplyRecord,
       NetworkManagerRecord, TimersRecord, StopRecord DEF Next, Handle
  <2>4. QED
    BY <2>1, <2>2, <2>3
<1>3. RecordInv => RecordFollows
  <2>1. SUFFICES ASSUME RecordInv, inbox = <<>>, NEW d \in Device \ unheard,
                        link[d].state = "Activated"
                 PROVE  Lan_Connect[d] = link[d].conn
    BY DEF RecordFollows, Quiet
  <2>2. /\ Kept(inbox, d, link[d].conn, RecordedNow(d), link[d].listed)
        /\ \A k : k \notin DOMAIN inbox
    BY <2>1 DEF RecordInv
  <2>3. QED
    BY <2>1, <2>2 DEF Kept, RecordedNow
<1>4. QED
  BY <1>1, <1>2, <1>3, Invariance, PTL DEF Spec

=============================================================================
