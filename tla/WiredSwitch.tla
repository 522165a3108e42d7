----------------------------- MODULE WiredSwitch -----------------------------
(***************************************************************************)
(* The wired switch, the device switches, and the connections they bring   *)
(* back.  The system daemon keeps the main switch and, by device, the      *)
(* connection that was up last (Lan_Connect in netSwitch.conf).  The page  *)
(* writes a record when a connection is up and clears it when the user has *)
(* taken the connection down, but not when a switch has; when a switch is  *)
(* turned on again, what is recorded is activated.                         *)
(*                                                                         *)
(* Actors: the user at the panel, in the page and in the control center;   *)
(* the control center, which takes down what it lists as active whenever   *)
(* the switch goes off; the daemon; the main thread of kylin-nm, whose     *)
(* D-Bus calls, daemon signals, connection states and replies of           *)
(* NetworkManager are events of one queue; its timers; its resource        *)
(* manager, which lists an active connection some time after it appears;   *)
(* the policy for simultaneous connections; NetworkManager.                *)
(***************************************************************************)
EXTENDS Naturals, SequencesExt, FiniteSets

CONSTANTS
  Device,   \* wired devices; the machine may have others
  Conn,     \* uuids of wired profiles
  NoConn,   \* no connection, an empty record
  NoDevice, \* the empty device name
  IfaceOf,  \* the interface a profile is bound to
  Stops,    \* whether kylin-nm may stop, to be started again
  MaxPending \* bound: nobody begins anything when this many events, timers and calls wait

ASSUME SwitchAssumption ==
  /\ NoConn \notin Conn /\ NoDevice \notin Device /\ IsFiniteSet(Device)
  /\ IfaceOf \in [Conn -> Device] /\ Stops \in BOOLEAN /\ MaxPending \in Nat

VARIABLES
  wired_main_switch, \* the daemon's
  Lan_Connect,       \* the daemon's records, by device
  running,           \* whether kylin-nm runs
  inbox,             \* events of its main thread
  timers,            \* its timers of 500 ms: what they will do
  requests,          \* its calls to NetworkManager, not yet carried out
  closing,           \* what the control center has yet to turn off: connections, and devices
  link,              \* NetworkManager: the connection of each device, its state, and whether
                     \* kylin-nm's resource manager has this active connection in its list
  managed, carrier,  \* devices that are managed, that have a cable
  taken,             \* history: who took the connection down, and nobody connected since
  unheard            \* history: devices whose last Activated kylin-nm has not heard

daemon  == <<wired_main_switch, Lan_Connect>>
history == <<taken, unheard>>
nm      == <<link, managed, carrier>>
vars    == <<daemon, running, inbox, timers, requests, closing, nm, history>>

-----------------------------------------------------------------------------
(* What kylin-nm's functions do.                                           *)

Down == [conn |-> NoConn, state |-> "Deactivated", listed |-> FALSE]
Up(d) == link[d].state \in {"Activating", "Activated"}
ConnsOf(d) == {c \in Conn : IfaceOf[c] = d}

\* What getWiredList and getActiveConnectionList find: the manager's list, and the states now.
Listed == {d \in Device : link[d].listed /\ Up(d)}
Active == {d \in Listed : link[d].state = "Activated"}

\* The active connections of some devices, each to be taken down.
Deactivate(c, d, concise, by) ==
  [op |-> "deactivate", conn |-> c, dev |-> d, concise |-> concise, by |-> by]
DeactivateAll(ds, concise, by) ==
  SetToSeq({Deactivate(link[d].conn, d, concise, by) : d \in ds})

\* getActiveConnect finds it in any state; else nothing is called.
Call(request) ==
  requests' = IF \E d \in Device : link[d].conn = request.conn /\ link[d].listed
                THEN Append(requests, request) ELSE requests

\* Mutant: the arguments of activateConnection in the other order.
ActivateWiredSwapped(pairs) ==
  timers' = timers \cup {[op |-> "activate", dev |-> p[2], conn |-> p[1]] :
                           p \in {q \in pairs : q[1] \in carrier}}

\* A cable is looked for now, and NetworkManager is called 500 ms later.
ActivateWired(pairs) ==
  timers' = timers \cup {[op |-> "activate", dev |-> p[1], conn |-> p[2]] :
                           p \in {q \in pairs : q[1] \in carrier}}

Recorded(ds) == {<<d, Lan_Connect[d]>> : d \in {e \in ds : Lan_Connect[e] # NoConn}}

WriteNmConfig(d, c) == Lan_Connect' = [Lan_Connect EXCEPT ![d] = c]

\* Nobody hears a call or a signal while kylin-nm does not run.
Heard(queue, events) == IF running THEN queue \o events ELSE queue
Send(event) == inbox' = Heard(inbox, <<event>>)

\* The control center goes through its list, which follows kylin-nm's signals:
\* any connections may be active there.
CloseWhatIsShown(cs) == \E shown \in SUBSET cs : closing' = closing \cup shown

\* The daemon says so only when the switch changes; renewSwitchLayout hears it too.
SetWiredMainSwitch(on, queue) ==
  /\ wired_main_switch' = on
  /\ IF on = wired_main_switch THEN inbox' = queue
                               ELSE inbox' = Heard(queue, <<[ev |-> "mainSwitch", on |-> on]>>)
  /\ IF wired_main_switch /\ ~on THEN CloseWhatIsShown(Conn) ELSE UNCHANGED closing

-----------------------------------------------------------------------------
\* The machine is booting; what comes up before kylin-nm starts it does not hear of.
Init ==
  /\ wired_main_switch \in BOOLEAN
  /\ Lan_Connect = [d \in Device \cup {NoDevice} |-> NoConn]
  /\ running = FALSE /\ inbox = <<>> /\ timers = {} /\ requests = <<>> /\ closing = {}
  /\ link = [d \in Device |-> Down]
  /\ managed = Device /\ carrier \in SUBSET Device
  /\ taken = [d \in Device |-> "nobody"] /\ unheard = {}

\* insertActiveConnections and the pages read the states, and write no record.
Start ==
  /\ ~running /\ running' = TRUE
  /\ UNCHANGED <<daemon, inbox, timers, requests, closing, nm, history>>

\* What is queued goes with the process, and the replies find nobody.
Stop ==
  /\ Stops /\ running /\ running' = FALSE
  /\ inbox' = <<>> /\ timers' = {}
  /\ requests' = [i \in DOMAIN requests |->
       IF requests[i].op = "activate" THEN requests[i] ELSE [requests[i] EXCEPT !.concise = TRUE]]
  /\ link' = [d \in Device |-> [link[d] EXCEPT !.listed = FALSE]]
  /\ unheard' = unheard \cup
       {IfaceOf[e.conn] : e \in {e \in ToSet(inbox) : e.ev = "Activated"}}
  /\ UNCHANGED <<daemon, closing, managed, carrier, taken>>

-----------------------------------------------------------------------------
(* The user.                                                               *)

Pending == Len(inbox) + Cardinality(timers) + Len(requests)
Idle == Pending + Cardinality(closing) < MaxPending

\* The panel's buttons are calls over D-Bus.
PanelConnect(c) ==
  /\ running /\ Idle /\ wired_main_switch /\ IfaceOf[c] \in managed
  /\ Send([ev |-> "activateConnect", conn |-> c])
  /\ UNCHANGED <<daemon, running, timers, requests, closing, nm, history>>

Disconnect(d, concise) ==
  /\ running /\ Idle /\ Up(d)
  /\ Send([ev |-> "deActivateConnect", request |-> Deactivate(link[d].conn, d, concise, "user")])
  /\ UNCHANGED <<daemon, running, timers, requests, closing, nm, history>>

PanelDisconnect(d)  == Disconnect(d, FALSE)
\* NetConnect::deActiveConnect, for its own buttons as well as for its switches.
CenterDisconnect(d) == Disconnect(d, TRUE)

\* A list item of the page names no device.
ItemDisconnect(d) ==
  /\ running /\ Idle /\ Up(d)
  /\ Call(Deactivate(link[d].conn, NoDevice, FALSE, "user"))
  /\ UNCHANGED <<daemon, running, inbox, timers, closing, nm, history>>

PanelSwitch(on) ==
  /\ running /\ Idle
  /\ Send([ev |-> "setWiredSwitchEnable", on |-> on])
  /\ UNCHANGED <<daemon, running, timers, requests, closing, nm, history>>

\* The control center calls the daemon itself, and then goes through its list.
CenterSwitch(on) ==
  /\ Idle /\ on # wired_main_switch
  /\ SetWiredMainSwitch(on, inbox)
  /\ UNCHANGED <<Lan_Connect, running, timers, requests, nm, history>>

\* The daemon says so twice when a device is turned on; when it is turned off,
\* the control center takes down what it shows of it first.
SetDeviceSwitch(d, on) ==
  /\ Idle
  /\ IF on
       THEN /\ inbox' = Heard(inbox, <<[ev |-> "deviceSwitch", dev |-> d, on |-> TRUE],
                                       [ev |-> "reconnect", dev |-> d]>>)
            /\ UNCHANGED closing
       ELSE \E shown \in SUBSET ConnsOf(d) : /\ closing' = closing \cup shown \cup {d}
                                             /\ UNCHANGED inbox
  /\ UNCHANGED <<daemon, running, timers, requests, nm, history>>

User ==
  \/ \E c \in Conn : PanelConnect(c)
  \/ \E d \in Device : PanelDisconnect(d) \/ CenterDisconnect(d) \/ ItemDisconnect(d)
  \/ \E on \in BOOLEAN : PanelSwitch(on) \/ CenterSwitch(on)
  \/ \E d \in Device, on \in BOOLEAN : SetDeviceSwitch(d, on)

-----------------------------------------------------------------------------
(* The control center on its own, and the policy.                          *)

\* One call for each that was active in its list when the switch went off; after
\* its own switch it hears the daemon, and goes through the list once more.
CenterDeactivates(c) ==
  /\ Pending < MaxPending /\ c \in closing
  /\ Send([ev |-> "deActivateConnect", request |-> Deactivate(c, IfaceOf[c], TRUE, "center")])
  /\ closing' \in {closing, closing \ {c}}
  /\ UNCHANGED <<daemon, running, timers, requests, nm, history>>

CenterTurnsDeviceOff(d) ==
  /\ Pending < MaxPending /\ d \in closing /\ closing \cap ConnsOf(d) = {}
  /\ Send([ev |-> "deviceSwitch", dev |-> d, on |-> FALSE])
  /\ closing' = closing \ {d}
  /\ UNCHANGED <<daemon, running, timers, requests, nm, history>>

Center == \/ \E c \in Conn : CenterDeactivates(c)
          \/ \E d \in Device : CenterTurnsDeviceOff(d)

\* At the start, and when the rule is set: of the connections of enabled devices
\* one remains, which may be that of a device the model does not follow.
netCtrlDiscon ==
  /\ running /\ Idle
  /\ \E kept \in {{}} \cup {{d} : d \in Device} :
       requests' = requests \o DeactivateAll((Active \cap managed) \ kept, FALSE, "policy")
  /\ UNCHANGED <<daemon, running, inbox, timers, closing, nm, history>>

-----------------------------------------------------------------------------
(* The main thread: the handlers of the events.                            *)

Event == Head(inbox)
Received(kind) == inbox # <<>> /\ Event.ev = kind

OnActivateConnect ==
  /\ Received("activateConnect") /\ inbox' = Tail(inbox)
  /\ ActivateWired({<<IfaceOf[Event.conn], Event.conn>>})
  /\ UNCHANGED <<daemon, running, requests, closing, nm, history>>

OnDeActivateConnect ==
  /\ Received("deActivateConnect") /\ inbox' = Tail(inbox)
  /\ Call(Event.request)
  /\ UNCHANGED <<daemon, running, timers, closing, nm, history>>

\* Mutant: the switch disconnects as the user does.
OnSetWiredSwitchEnableClearing ==
  /\ Received("setWiredSwitchEnable")
  /\ SetWiredMainSwitch(Event.on, Tail(inbox))
  /\ requests' = requests \o DeactivateAll({d \in Listed : ~Event.on}, FALSE, "switch")
  /\ UNCHANGED <<Lan_Connect, running, timers, nm, history>>

\* Mutant: an activation under way is left alone.
OnSetWiredSwitchEnableActivated ==
  /\ Received("setWiredSwitchEnable")
  /\ SetWiredMainSwitch(Event.on, Tail(inbox))
  /\ requests' = requests \o DeactivateAll({d \in Active : ~Event.on}, TRUE, "switch")
  /\ UNCHANGED <<Lan_Connect, running, timers, nm, history>>

\* DbusAdaptor::setWiredSwitchEnable: each active connection goes, its record stays.
OnSetWiredSwitchEnable ==
  /\ Received("setWiredSwitchEnable")
  /\ SetWiredMainSwitch(Event.on, Tail(inbox))
  /\ requests' = requests \o DeactivateAll({d \in Listed : ~Event.on}, TRUE, "switch")
  /\ UNCHANGED <<Lan_Connect, running, timers, nm, history>>

\* Mutant: a device with a connection, be it going down, is left alone.
OnSysWiredMainSwitchChangedIdle ==
  /\ Received("mainSwitch") /\ inbox' = Tail(inbox)
  /\ ActivateWired(IF Event.on THEN Recorded({d \in managed : link[d].conn = NoConn}) ELSE {})
  /\ UNCHANGED <<daemon, running, requests, closing, nm, history>>

\* The page hears the daemon: what is recorded for an enabled device is activated.
OnSysWiredMainSwitchChanged ==
  /\ Received("mainSwitch") /\ inbox' = Tail(inbox)
  /\ ActivateWired(IF Event.on THEN Recorded(managed) ELSE {})
  /\ UNCHANGED <<daemon, running, requests, closing, nm, history>>

\* An activated connection is taken down before its device is disabled, 500 ms later.
OnSysWiredDevSwitchChanged ==
  /\ Received("deviceSwitch") /\ inbox' = Tail(inbox)
  /\ LET d == Event.dev
     IN IF Event.on
          THEN managed' = managed \cup {d} /\ UNCHANGED <<timers, requests>>
          ELSE /\ requests' = requests \o DeactivateAll(Active \cap {d}, TRUE, "switch")
               /\ timers' = timers \cup {[op |-> "disable", dev |-> d]}
               /\ UNCHANGED managed
  /\ UNCHANGED <<daemon, running, closing, link, carrier, history>>

OnSysDeviceSwitchChanged ==
  /\ Received("reconnect") /\ inbox' = Tail(inbox)
  /\ ActivateWired(Recorded({Event.dev}))
  /\ UNCHANGED <<daemon, running, requests, closing, nm, history>>

\* Mutant: a record is only filled, never replaced.
OnActivatedOnce ==
  /\ Received("Activated") /\ inbox' = Tail(inbox)
  /\ LET d == IfaceOf[Event.conn]
     IN IF d \in Active /\ link[d].conn = Event.conn
          THEN IF Lan_Connect[d] = NoConn THEN WriteNmConfig(d, Event.conn)
                                          ELSE UNCHANGED Lan_Connect
          ELSE UNCHANGED Lan_Connect
  /\ UNCHANGED <<wired_main_switch, running, timers, requests, closing, nm, history>>

\* onConnectionStateChange looks the connection up again before it writes the record.
OnActivated ==
  /\ Received("Activated") /\ inbox' = Tail(inbox)
  /\ LET d == IfaceOf[Event.conn]
     IN IF d \in Active /\ link[d].conn = Event.conn
          THEN WriteNmConfig(d, Event.conn)
          ELSE UNCHANGED Lan_Connect
  /\ UNCHANGED <<wired_main_switch, running, timers, requests, closing, nm, history>>

\* The record that goes is the one of the device named in the call.
OnDeactivationReply ==
  /\ Received("reply") /\ inbox' = Tail(inbox)
  /\ IF Event.request.concise THEN UNCHANGED Lan_Connect
                              ELSE WriteNmConfig(Event.request.dev, NoConn)
  /\ UNCHANGED <<wired_main_switch, running, timers, requests, closing, nm, history>>

Handle ==
  \/ OnActivateConnect \/ OnDeActivateConnect \/ OnSetWiredSwitchEnable
  \/ OnSysWiredMainSwitchChanged \/ OnSysWiredDevSwitchChanged \/ OnSysDeviceSwitchChanged
  \/ OnActivated \/ OnDeactivationReply

ActivateTimeout(t) ==
  /\ t \in timers /\ t.op = "activate" /\ timers' = timers \ {t}
  /\ requests' = Append(requests, t)
  /\ UNCHANGED <<daemon, running, inbox, closing, nm, history>>

\* updateDeviceState: NetworkManager takes down what an unmanaged device has.
DisableTimeout(t) ==
  /\ t \in timers /\ t.op = "disable" /\ timers' = timers \ {t}
  /\ managed' = managed \ {t.dev}
  /\ link' = [link EXCEPT ![t.dev] = Down]
  /\ UNCHANGED <<daemon, running, inbox, requests, closing, carrier, history>>

-----------------------------------------------------------------------------
(* NetworkManager.                                                         *)

\* Calls for an active connection that another has replaced are errors.
Replaced(d, calls) ==
  [i \in DOMAIN calls |-> IF calls[i].op = "deactivate" /\ IfaceOf[calls[i].conn] = d
                            THEN [calls[i] EXCEPT !.op = "error"] ELSE calls[i]]

Activation(c, calls) ==
  LET d == IfaceOf[c]
  IN IF d \in managed \cap carrier
       THEN /\ link' = [link EXCEPT ![d] = [conn |-> c, state |-> "Activating", listed |-> FALSE]]
            /\ requests' = Replaced(d, calls)
            /\ taken' = [taken EXCEPT ![d] = "nobody"]
       ELSE requests' = calls /\ UNCHANGED <<link, taken>>

CarryOutActivation ==
  /\ requests # <<>> /\ Head(requests).op = "activate"
  /\ Activation(Head(requests).conn, Tail(requests))
  /\ UNCHANGED <<daemon, running, inbox, timers, closing, managed, carrier, unheard>>

\* A connection that is going down already is an error, with nothing more to do.
CarryOutDeactivation ==
  /\ requests # <<>> /\ Head(requests).op # "activate" /\ requests' = Tail(requests)
  /\ LET r == Head(requests) d == IfaceOf[r.conn]
     IN IF r.op = "deactivate" /\ Up(d) /\ link[d].conn = r.conn
          THEN /\ link' = [link EXCEPT ![d].state = "Deactivating"]
               /\ Send([ev |-> "reply", request |-> r])
               /\ taken' = IF r.by = "switch" THEN taken ELSE [taken EXCEPT ![d] = r.by]
          ELSE UNCHANGED <<link, inbox, taken>>
  /\ UNCHANGED <<daemon, running, timers, closing, managed, carrier, unheard>>

\* Only of a connection in its list does the resource manager hear the state.
LinkUp(d) ==
  /\ link[d].state = "Activating"
  /\ link' = [link EXCEPT ![d].state = "Activated"]
  /\ IF link[d].listed
       THEN Send([ev |-> "Activated", conn |-> link[d].conn]) /\ unheard' = unheard \ {d}
       ELSE unheard' = unheard \cup {d} /\ UNCHANGED inbox
  /\ UNCHANGED <<daemon, running, timers, requests, closing, managed, carrier, taken>>

LinkDown(d) ==
  /\ link[d].state = "Deactivating"
  /\ link' = [link EXCEPT ![d] = Down]
  /\ UNCHANGED <<daemon, running, inbox, timers, requests, closing, managed, carrier, history>>

\* onActiveConnectionAdded; an entry of a connection that is gone serves nothing any more.
ManagerLists(d) ==
  /\ running /\ link[d].conn # NoConn /\ ~link[d].listed
  /\ link' = [link EXCEPT ![d].listed = TRUE]
  /\ UNCHANGED <<daemon, running, inbox, timers, requests, closing, managed, carrier, history>>

\* Autoconnection, and other programs.
OthersActivate(c) ==
  /\ Idle /\ IfaceOf[c] \in managed \cap carrier
  /\ Activation(c, requests)
  /\ UNCHANGED <<daemon, running, inbox, timers, closing, managed, carrier, unheard>>

PlugCable(d) ==
  /\ Idle
  /\ IF d \in carrier THEN carrier' = carrier \ {d} /\ link' = [link EXCEPT ![d] = Down]
                      ELSE carrier' = carrier \cup {d} /\ UNCHANGED link
  /\ UNCHANGED <<daemon, running, inbox, timers, requests, closing, managed, history>>

NetworkManager ==
  \/ CarryOutActivation \/ CarryOutDeactivation
  \/ \E d \in Device : LinkUp(d) \/ LinkDown(d) \/ ManagerLists(d) \/ PlugCable(d)
  \/ \E c \in Conn : OthersActivate(c)

Next == Start \/ Stop \/ User \/ Center \/ netCtrlDiscon \/ Handle \/ NetworkManager
        \/ \E t \in timers : ActivateTimeout(t) \/ DisableTimeout(t)

Spec == Init /\ [][Next]_vars

Fairness ==
  /\ WF_vars(Handle) /\ WF_vars(CarryOutActivation \/ CarryOutDeactivation)
  /\ \A d \in Device : WF_vars(LinkUp(d)) /\ WF_vars(LinkDown(d))
  /\ \A d \in Device, c \in Conn : WF_vars(ActivateTimeout([op |-> "activate", dev |-> d, conn |-> c]))
  /\ \A d \in Device : WF_vars(DisableTimeout([op |-> "disable", dev |-> d]))

FairSpec == Spec /\ Fairness

-----------------------------------------------------------------------------
(* Properties.                                                             *)

Requests ==
  [op : {"deactivate", "error"}, conn : Conn, dev : Device \cup {NoDevice},
   concise : BOOLEAN, by : {"user", "switch", "center", "policy"}]
Timers == [op : {"activate"}, dev : Device, conn : Conn] \cup [op : {"disable"}, dev : Device]
Events ==
  [ev : {"activateConnect", "Activated"}, conn : Conn]
  \cup [ev : {"deActivateConnect", "reply"}, request : Requests]
  \cup [ev : {"setWiredSwitchEnable", "mainSwitch"}, on : BOOLEAN]
  \cup [ev : {"deviceSwitch"}, dev : Device, on : BOOLEAN]
  \cup [ev : {"reconnect"}, dev : Device]
Links ==
  [conn : Conn, state : {"Activating", "Activated", "Deactivating"}, listed : BOOLEAN] \cup {Down}

\* Types; a record and an active connection are of a profile bound to the
\* device (what writeNmConfig is called with, and what is asked for).
TypeOK ==
  /\ wired_main_switch \in BOOLEAN /\ running \in BOOLEAN
  /\ Lan_Connect \in [Device \cup {NoDevice} -> Conn \cup {NoConn}]
  /\ inbox \in Seq(Events) /\ timers \subseteq Timers
  /\ requests \in Seq(Requests \cup [op : {"activate"}, dev : Device, conn : Conn])
  /\ closing \subseteq Conn \cup Device
  /\ link \in [Device -> Links]
  /\ managed \subseteq Device /\ carrier \subseteq Device
  /\ taken \in [Device -> {"nobody", "user", "center", "policy"}] /\ unheard \subseteq Device
  /\ \A d \in Device : {Lan_Connect[d], link[d].conn} \subseteq ConnsOf(d) \cup {NoConn}

Quiet == inbox = <<>> /\ requests = <<>>

\* What is up when everything is handled is what the switch would bring back
\* (onConnectionStateChange writes it, lanpage.cpp:1030): however activations,
\* disconnections and their replies came, no reply to an earlier disconnection
\* has cleared the record of a later connection, and no Activated that was
\* handled late has written one that is gone.  Not so for a connection that came
\* up while kylin-nm did not run, its boot included, or before the resource
\* manager had it in its list, and for one whose signal was queued at a stop:
\* nothing records these until the device activates again.
RecordFollows ==
  Quiet => \A d \in Device \ unheard :
             link[d].state = "Activated" => Lan_Connect[d] = link[d].conn

\* No switch forgets a connection, be it kylin-nm's, the control center's or that
\* of a device: a record is emptied only by the reply to a disconnection of that
\* device that the user, or the policy for simultaneous connections, has asked
\* for (kylinconnectoperation.cpp:278).
SwitchKeepsRecords ==
  [][\A d \in Device : Lan_Connect[d] # NoConn /\ Lan_Connect'[d] = NoConn =>
       /\ Event.ev = "reply" /\ Event.request.by \in {"user", "policy"}
       /\ IfaceOf[Event.request.conn] = d]_vars

\* What takes precedence over bringing connection c of device d back.
Overtaken(d, c) ==
  \/ ~running \/ ~wired_main_switch \/ d \notin managed \cap carrier
  \/ taken[d] # "nobody" \/ link[d].conn \notin {c, NoConn}

\* When the page hears that the switch is on, what is recorded comes up, unless
\* it is switched off again, loses its device or its cable, another connection is
\* brought up or this one taken down meanwhile - by the user, by the policy, or
\* by the control center, late with what it does when the switch goes off - or
\* kylin-nm stops (onSysWiredMainSwitchChanged: lookup, timer, NetworkManager).
Restored ==
  \A c \in Conn :
    LET d == IfaceOf[c]
    IN inbox # <<>> /\ Event = [ev |-> "mainSwitch", on |-> TRUE] /\ Lan_Connect[d] = c
       ~> (link[d].conn = c /\ link[d].state = "Activated") \/ Overtaken(d, c)

\* The panel's switch takes down every active connection the resource manager
\* lists when it is turned off, an activation under way included, unless
\* kylin-nm stops or another activation replaces it (setWiredSwitchEnable calls
\* deActivateConnectConcise for each).
TurnsOff ==
  \A c \in Conn :
    LET d == IfaceOf[c]
    IN inbox # <<>> /\ Event = [ev |-> "setWiredSwitchEnable", on |-> FALSE]
         /\ d \in Listed /\ link[d].conn = c
       ~> ~(d \in Listed /\ link[d].conn = c)

\* "Disconnecting a wired network clears the information of the connection"
\* (lanpage.cpp:1736).
ClearedOnDisconnect ==
  Quiet => \A d \in Device : taken[d] = "user" => Lan_Connect[d] = NoConn

=============================================================================
