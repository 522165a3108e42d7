---------------------------- MODULE LanConnections ----------------------------
(***************************************************************************)
(* The wired page's connections (LanPage with KyConnectResourse and        *)
(* KyActiveConnectResource): the items of the active and of the inactive   *)
(* list of the current device.                                             *)
(*                                                                         *)
(* The page hears of profiles and of the states of active connections      *)
(* through signals queued from the manager's thread, and its handlers look *)
(* profiles and active connections up in the manager's lists as these are  *)
(* when the signal is handled.  Its other half (LanDevices) redraws both   *)
(* lists from what the manager knows, at any time, for any device.         *)
(*                                                                         *)
(* As in LanDevices the page is a record and its functions are operators   *)
(* from page to page.  A map of the page (QMap from uuid to item) is a     *)
(* function whose domain is the set of its keys.                           *)
(***************************************************************************)
EXTENDS Naturals, SequencesExt, Functions

CONSTANTS
  Conn,     \* the uuids of wired and PPPoE profiles
  Path,     \* object paths of profiles
  Device,   \* interface names
  AnyIface, \* the empty interface name of a profile, and the current device if there is none
  Empty,    \* EMPTY_CONNECT_UUID, the key of the item that says "not connected"
  NoPath,   \* the path of that item
  Ifaces,   \* the interface names of profiles
  Edited,   \* the profiles that are renamed or bound to another interface
  Faults,   \* "restart": NetworkManager may be restarted; "hidden": the lists may be hidden;
            \* "default": setDefaultWiredDevice is called
  MaxFeed,  \* bound: no event of NetworkManager when this many signals are queued
  MaxActive \* bound: active connections NetworkManager lists at a time

ASSUME ConnectionAssumption ==
  /\ Empty \notin Conn /\ NoPath \notin Path /\ AnyIface \notin Device
  /\ Ifaces \subseteq Device \cup {AnyIface}
  /\ Edited \subseteq Conn /\ Faults \subseteq {"restart", "hidden", "default"}
  /\ MaxFeed \in Nat /\ MaxActive \in Nat

VARIABLES
  profile,  \* m_connections: the profiles there are, by uuid, with path and iface
  active,   \* m_activeConns, in the list's order: conn, path, dev, state
  up,       \* NetworkManager is running
  feed,     \* the manager's signals in the main thread's queue
  page,     \* LanPage; an item of its maps has a path (NoPath: the placeholder) and a state
  strays,   \* uuids of list items that no map holds any more
  disturbed, \* history: profiles the lists show since before their connectionAdd was
             \* handled, or although their connectionRemove was
  unmoved,   \* history: profiles of the inactive list that no longer fit the device, and
             \* whose update has found them active already
  undrawn    \* history: setDefaultWiredDevice has changed the current device since the
             \* lists were drawn

manager == <<profile, active, up>>
vars == <<profile, active, up, feed, page, strays, disturbed, unmoved, undrawn>>

State == {"Activating", "Activated", "Deactivating", "Deactivated"}
Profile == [path : Path, iface : Ifaces]

-----------------------------------------------------------------------------
(* What the resources answer.                                              *)

\* The list positions of a profile's active connections in one of the states.
At(c, states) == {i \in DOMAIN active : active[i].conn = c /\ active[i].state \in states}
First(positions) == CHOOSE i \in positions : \A j \in positions : i <= j

IsActiveConnection(c)     == At(c, {"Activated"}) # {}
IsActivatingConnection(c) == At(c, {"Activating"}) # {}

\* getActiveConnect: whatever its state.
GetActiveConnect(c) == active[First(At(c, State))]

\* A profile for any interface counts as activating on the device asked for.
GetConnectionItem(c, dev) ==
  LET here == profile[c].iface # AnyIface \/ dev = AnyIface \/ GetActiveConnect(c).dev = dev
  IN [path  |-> profile[c].path,
      state |-> IF IsActivatingConnection(c) /\ here THEN "Activating" ELSE "Deactivated"]

\* The connections of a device, as both lists show them.
GetActiveConnectionList(dev) ==
  {active[i] : i \in {j \in DOMAIN active : active[j].dev = dev /\ active[j].state = "Activated"}}
Fits(c, dev) == profile[c].iface \in {dev, AnyIface}
GetConnectionList(dev) == {c \in DOMAIN profile : Fits(c, dev) /\ ~IsActiveConnection(c)}

GetConnectionDevice(c) ==
  IF At(c, State) # {} THEN GetActiveConnect(c).dev
  ELSE IF c \in DOMAIN profile THEN profile[c].iface ELSE AnyIface

-----------------------------------------------------------------------------
(* The page's functions.                                                   *)

Without(map, keys)  == Restrict(map, DOMAIN map \ keys)
With(map, key, item) == [k \in DOMAIN map \cup {key} |-> IF k = key THEN item ELSE map[k]]
Placeholder == [k \in {Empty} |-> [path |-> NoPath, state |-> "Deactivated"]]
OrPlaceholder(map) == IF DOMAIN map = {} THEN Placeholder ELSE map

UpdateConnectionState(map, c, state) ==
  IF c \in DOMAIN map THEN [map EXCEPT ![c].state = state] ELSE map

ConstructActiveConnectionArea(dev) ==
  LET list == GetActiveConnectionList(dev)
      item(c) == CHOOSE ac \in list : ac.conn = c
  IN OrPlaceholder([c \in {ac.conn : ac \in list} |-> [path |-> item(c).path, state |-> "Activated"]])

ConstructConnectionArea(dev) == [c \in GetConnectionList(dev) |-> GetConnectionItem(c, dev)]

InitLanArea(p) ==
  IF ~p.on \/ p.m_currentDeviceName = AnyIface THEN p
  ELSE [p EXCEPT !.m_activeConnectionMap   = ConstructActiveConnectionArea(p.m_currentDeviceName),
                 !.m_inactiveConnectionMap = ConstructConnectionArea(p.m_currentDeviceName)]

\* Mutant: the "not connected" item stays.
UpdateActivatedConnectionAreaBeside(p, ac) ==
  IF ac.conn \in DOMAIN p.m_activeConnectionMap THEN p
  ELSE [p EXCEPT !.m_inactiveConnectionMap = Without(@, {ac.conn}),
                 !.m_activeConnectionMap   =
                    IF ac.dev # p.m_currentDeviceName THEN @
                    ELSE With(@, ac.conn, [path |-> ac.path, state |-> "Activated"])]

\* Mutant: the item stays in the inactive list.
UpdateActivatedConnectionAreaCopied(p, ac) ==
  IF ac.conn \in DOMAIN p.m_activeConnectionMap \/ ac.dev # p.m_currentDeviceName THEN p
  ELSE [p EXCEPT !.m_activeConnectionMap =
          With(Without(@, {Empty}), ac.conn, [path |-> ac.path, state |-> "Activated"])]

UpdateActivatedConnectionArea(p, ac) ==
  IF ac.conn \in DOMAIN p.m_activeConnectionMap THEN p
  ELSE [p EXCEPT !.m_inactiveConnectionMap = Without(@, {ac.conn}),
                 !.m_activeConnectionMap   =
                    IF ac.dev # p.m_currentDeviceName THEN @
                    ELSE With(Without(@, {Empty}), ac.conn,
                              [path |-> ac.path, state |-> "Activated"])]

\* Mutant: a profile without an interface name counts as another device's.
UpdateConnectionAreaOfNamed(p, c) ==
  IF c \in DOMAIN p.m_inactiveConnectionMap THEN p
  ELSE [p EXCEPT !.m_activeConnectionMap   = OrPlaceholder(Without(@, {c})),
                 !.m_inactiveConnectionMap =
                    IF profile[c].iface = p.m_currentDeviceName
                      THEN With(@, c, GetConnectionItem(c, AnyIface)) ELSE @]

\* Mutant: the item is copied and not moved.
UpdateConnectionAreaBeside(p, c) ==
  IF c \in DOMAIN p.m_inactiveConnectionMap \/ ~Fits(c, p.m_currentDeviceName) THEN p
  ELSE [p EXCEPT !.m_inactiveConnectionMap = With(@, c, GetConnectionItem(c, AnyIface))]

UpdateConnectionArea(p, c) ==
  IF c \in DOMAIN p.m_inactiveConnectionMap THEN p
  ELSE [p EXCEPT !.m_activeConnectionMap   = OrPlaceholder(Without(@, {c})),
                 !.m_inactiveConnectionMap =
                    IF Fits(c, p.m_currentDeviceName)
                      THEN With(@, c, GetConnectionItem(c, AnyIface)) ELSE @]

UpdateActiveConnectionProperty(p, ac) ==
  IF ac.conn \notin DOMAIN p.m_activeConnectionMap THEN p
  ELSE IF ac.dev # p.m_currentDeviceName
    THEN [p EXCEPT !.m_activeConnectionMap =
            With(Without(@, {ac.conn}), Empty, Placeholder[Empty])]
  ELSE [p EXCEPT !.m_activeConnectionMap[ac.conn].path = ac.path]

\* A new name moves the item, with the state of its profile.
UpdateConnectionProperty(p, c, renamed) ==
  LET item == GetConnectionItem(c, AnyIface)
  IN IF c \in DOMAIN p.m_inactiveConnectionMap
       THEN IF ~Fits(c, p.m_currentDeviceName)
              THEN [p EXCEPT !.m_inactiveConnectionMap = Without(@, {c})]
            ELSE IF renamed THEN [p EXCEPT !.m_inactiveConnectionMap[c] = item]
            ELSE [p EXCEPT !.m_inactiveConnectionMap[c].path = item.path]
     ELSE IF c \notin DOMAIN p.m_activeConnectionMap /\ Fits(c, p.m_currentDeviceName)
       THEN [p EXCEPT !.m_inactiveConnectionMap = With(@, c, item)]
     ELSE p

\* The keys of the items of a path: at most one is removed.
OfPath(map, path) == {k \in DOMAIN map : map[k].path = path}

ConnectionRemoved(p, k) ==
  IF k \in DOMAIN p.m_inactiveConnectionMap
    THEN [p EXCEPT !.m_inactiveConnectionMap = Without(@, {k})]
    ELSE [p EXCEPT !.m_activeConnectionMap = OrPlaceholder(Without(@, {k}))]

-----------------------------------------------------------------------------
(* Initial states: the constructor has drawn the page, and nothing is on   *)
(* its way.  An active connection is up, on a device of its own.           *)

Drawn(dev, on) ==
  InitLanArea([m_currentDeviceName |-> dev, on |-> on, listed |-> TRUE,
               m_activeConnectionMap |-> <<>>, m_inactiveConnectionMap |-> <<>>])

Init ==
  /\ \E cs \in SUBSET Conn : profile \in [cs -> Profile]
  /\ \A c, k \in DOMAIN profile : profile[c].path = profile[k].path => c = k
  /\ \/ active = <<>>
     \/ \E c \in DOMAIN profile, dev \in Device :
          /\ Fits(c, dev)
          /\ active = <<[conn |-> c, path |-> profile[c].path, dev |-> dev, state |-> "Activated"]>>
  /\ up = TRUE /\ feed = <<>> /\ strays = {} /\ disturbed = {} /\ unmoved = {} /\ undrawn = FALSE
  /\ \E dev \in Device : page = Drawn(dev, TRUE)

-----------------------------------------------------------------------------
(* NetworkManager, as the library and the manager's thread report it.      *)

pageVars == <<page, strays, disturbed, unmoved, undrawn>>

Emit(signals) == feed' = feed \o signals
Signal(sig, c) == [sig |-> sig, conn |-> c]

AddProfile(c, p) ==
  /\ up /\ Len(feed) < MaxFeed
  /\ c \notin DOMAIN profile /\ At(c, State) = {}
  /\ \A k \in DOMAIN profile : profile[k].path # p.path
  /\ profile' = With(profile, c, p)
  /\ Emit(<<Signal("connectionAdd", c)>>)
  /\ UNCHANGED <<active, up>> /\ UNCHANGED pageVars

\* Deleted, or cleared by the manager when the service has stopped.
RemoveProfile(c) ==
  /\ up => Len(feed) < MaxFeed
  /\ c \in DOMAIN profile
  /\ profile' = Without(profile, {c})
  /\ Emit(<<[sig |-> "connectionRemove", path |-> profile[c].path]>>)
  /\ UNCHANGED <<active, up>> /\ UNCHANGED pageVars

\* A profile is renamed, or bound to another interface.
ChangeProfile(c, iface) ==
  /\ up /\ Len(feed) < MaxFeed
  /\ c \in DOMAIN profile \cap Edited
  /\ profile' = [profile EXCEPT ![c].iface = iface]
  /\ Emit(<<Signal("connectionUpdate", c)>>)
  /\ UNCHANGED <<active, up>> /\ UNCHANGED pageVars

\* A profile may be activated anew while its last active connection is still listed.
Activate(c, dev) ==
  /\ up /\ Len(active) < MaxActive
  /\ c \in DOMAIN profile /\ Fits(c, dev) /\ ~IsActivatingConnection(c)
  /\ active' = Append(active, [conn |-> c, path |-> profile[c].path, dev |-> dev,
                               state |-> "Activating"])
  /\ UNCHANGED <<profile, up, feed>> /\ UNCHANGED pageVars

\* The active connection that another one replaces, on its device or of its profile, goes
\* down first; that of the same profile is gone before the new one is up.
MayBecome(i, state) ==
  LET ac == active[i]
      replaced(j) == /\ j # i /\ active[j].state \in {"Activated", "Deactivating"}
                     /\ active[j].conn = ac.conn \/ active[j].dev = ac.dev
  IN \/ /\ ac.state = "Activating" /\ ~\E j \in DOMAIN active : replaced(j)
        /\ \/ state = "Deactivated"
           \/ state = "Activated" /\ ac.conn \in DOMAIN profile /\ At(ac.conn, State) = {i}
     \/ ac.state = "Activated" /\ state = "Deactivating"
     \/ ac.state = "Deactivating" /\ state = "Deactivated"

ChangeState(i, state) ==
  /\ Len(feed) < MaxFeed
  /\ MayBecome(i, state)
  /\ active' = [active EXCEPT ![i].state = state]
  /\ Emit(<<[sig |-> "stateChangeReason", conn |-> active[i].conn, state |-> state]>>)
  /\ UNCHANGED <<profile, up>> /\ UNCHANGED pageVars

RemoveActive(i) ==
  /\ Len(feed) < MaxFeed
  /\ active[i].state = "Deactivated"
  /\ active' = RemoveAt(active, i)
  /\ Emit(<<Signal("activeConnectRemove", active[i].conn)>>)
  /\ UNCHANGED <<profile, up>> /\ UNCHANGED pageVars

\* The library drops the active connections without a change of their state; the
\* manager then clears its profiles (RemoveProfile).
ServiceStops ==
  /\ "restart" \in Faults /\ up /\ Len(feed) < MaxFeed
  /\ up' = FALSE
  /\ active' = <<>>
  /\ Emit([i \in DOMAIN active |-> Signal("activeConnectRemove", active[i].conn)])
  /\ UNCHANGED profile /\ UNCHANGED pageVars

ServiceReturns ==
  /\ ~up /\ DOMAIN profile = {}
  /\ up' = TRUE
  /\ UNCHANGED <<profile, active, feed>> /\ UNCHANGED pageVars

-----------------------------------------------------------------------------
(* The handlers of the signals.                                            *)

Msg == Head(feed)
Handle(sig) ==
  /\ feed # <<>> /\ Msg.sig = sig
  /\ feed' = Tail(feed)
  /\ UNCHANGED manager

\* The profiles whose connectionAdd is still queued.
Announced(queue) ==
  {queue[i].conn : i \in {j \in DOMAIN queue : queue[j].sig = "connectionAdd"}}

ReadAhead == disturbed' = disturbed \cup ({Msg.conn} \cap Announced(Tail(feed)))

\* The profile whose update is handled: no longer for this device, and active already.
FoundActive ==
  {c \in DOMAIN profile : /\ Msg.sig = "connectionUpdate" /\ Msg.conn = c
                         /\ IsActiveConnection(c) /\ ~Fits(c, page.m_currentDeviceName)}
Remembered ==
  /\ unmoved' = (unmoved \cup FoundActive) \cap DOMAIN page'.m_inactiveConnectionMap
  /\ UNCHANGED undrawn

\* The map's item is replaced by a new one; the list keeps the old one, too.
OnAddConnection ==
  /\ Handle("connectionAdd")
  /\ LET c == Msg.conn
     IN IF c \in DOMAIN profile /\ ~IsActiveConnection(c) /\ Fits(c, page.m_currentDeviceName)
          THEN /\ page' = [page EXCEPT !.m_inactiveConnectionMap =
                              With(@, c, GetConnectionItem(c, AnyIface))]
               /\ strays' = strays \cup ({c} \cap DOMAIN page.m_inactiveConnectionMap)
          ELSE UNCHANGED <<page, strays>>
  /\ ReadAhead /\ Remembered

\* Mutant: only the active list is searched.
OnRemoveConnectionOfActive ==
  /\ Handle("connectionRemove")
  /\ page' = [page EXCEPT !.m_activeConnectionMap = OrPlaceholder(Without(@, OfPath(@, Msg.path)))]
  /\ UNCHANGED <<strays, disturbed>> /\ Remembered

\* One item goes, of the inactive list if it has one of this path.
OnRemoveConnection ==
  /\ Handle("connectionRemove")
  /\ LET inactive == OfPath(page.m_inactiveConnectionMap, Msg.path)
         shown    == OfPath(page.m_activeConnectionMap, Msg.path)
         found    == IF inactive # {} THEN inactive ELSE shown
         Kept(ks) == disturbed' = disturbed \cup ((inactive \cup shown) \ ks)
     IN \/ ~page.listed /\ UNCHANGED page /\ Kept({})
        \/ /\ page.listed /\ found = {}
           /\ page' = [page EXCEPT !.m_activeConnectionMap = OrPlaceholder(@)]
           /\ UNCHANGED disturbed
        \/ page.listed /\ \E k \in found : page' = ConnectionRemoved(page, k) /\ Kept({k})
  /\ UNCHANGED strays /\ Remembered

OnUpdateConnection ==
  /\ Handle("connectionUpdate")
  /\ LET c == Msg.conn
         ac == active[First(At(c, {"Activated"}))]
     IN IF c \notin DOMAIN profile THEN UNCHANGED <<page, strays>>
        ELSE IF IsActiveConnection(c)
          THEN /\ page' = UpdateActiveConnectionProperty(page, ac)
               /\ strays' = strays \cup
                    (IF page' # page /\ ac.dev # page.m_currentDeviceName
                       THEN {Empty} \cap DOMAIN page.m_activeConnectionMap ELSE {})
        ELSE /\ \E renamed \in BOOLEAN : page' = UpdateConnectionProperty(page, c, renamed)
             /\ UNCHANGED strays
  /\ ReadAhead /\ Remembered

Activated(p, c) ==
  LET acs == At(c, {"Activated"})
      moved == UpdateActivatedConnectionArea(p, active[First(acs)])
  IN IF acs = {} THEN p
     ELSE [moved EXCEPT !.m_activeConnectionMap = UpdateConnectionState(@, c, "Activated")]

Deactivated(p, c) ==
  [UpdateConnectionArea(p, c) EXCEPT
     !.m_inactiveConnectionMap = UpdateConnectionState(@, c, "Deactivated")]

\* sendLanStateChangeSignal sets the state of the active item, whatever the state is.
OnConnectionStateChange ==
  /\ Handle("stateChangeReason")
  /\ LET c == Msg.conn
         told == [page EXCEPT !.m_activeConnectionMap = UpdateConnectionState(@, c, Msg.state)]
     IN page' = CASE c \notin DOMAIN profile -> page
                  [] c \in DOMAIN profile /\ Msg.state = "Activated" -> Activated(told, c)
                  [] c \in DOMAIN profile /\ Msg.state = "Deactivated" -> Deactivated(told, c)
                  [] c \in DOMAIN profile /\ Msg.state = "Activating" ->
                       IF GetConnectionDevice(c) # page.m_currentDeviceName THEN told
                       ELSE [told EXCEPT !.m_inactiveConnectionMap =
                               UpdateConnectionState(@, c, "Activating")]
                  [] c \in DOMAIN profile /\ Msg.state = "Deactivating" -> told
  /\ UNCHANGED strays
  /\ ReadAhead /\ Remembered

OnActiveConnectRemove ==
  /\ Handle("activeConnectRemove")
  /\ page' = [page EXCEPT !.m_activeConnectionMap =
                 UpdateConnectionState(@, Msg.conn, "Deactivated")]
  /\ UNCHANGED <<strays, disturbed>> /\ Remembered

-----------------------------------------------------------------------------
(* The device half of the page: another current device, or the same one    *)
(* drawn again; the area hidden (the switch is off, or no device listed),   *)
(* which changes the device only by clearing it or adding the first one.   *)

Redraw(dev, on, listed) ==
  /\ on \/ "hidden" \in Faults
  /\ IF on THEN listed
     ELSE dev \in {page.m_currentDeviceName, AnyIface} \/ (listed /\ ~page.listed)
  /\ page' = InitLanArea([page EXCEPT !.m_currentDeviceName = dev, !.on = on, !.listed = listed])
  /\ IF ~on \/ dev = AnyIface THEN UNCHANGED <<disturbed, unmoved, undrawn>>
     ELSE /\ disturbed' = Announced(feed) \cup
                          {active[i].conn : i \in {j \in DOMAIN active :
                                                    active[j].conn \notin DOMAIN profile}}
          /\ unmoved' = {} /\ undrawn' = FALSE
  /\ UNCHANGED <<manager, feed, strays>>

\* setDefaultWiredDevice over D-Bus: the lists stay those of the device before, and the
\* handlers compare with the new one.
SetDefaultWiredDevice(dev) ==
  /\ "default" \in Faults /\ dev # page.m_currentDeviceName
  /\ page' = [page EXCEPT !.m_currentDeviceName = dev]
  /\ undrawn' = TRUE
  /\ UNCHANGED <<manager, feed, strays, disturbed, unmoved>>

-----------------------------------------------------------------------------
NetworkManager ==
  \/ \E c \in Conn :
       \/ \E p \in Profile : AddProfile(c, p)
       \/ \E iface \in Ifaces : ChangeProfile(c, iface)
       \/ \E dev \in Device : Activate(c, dev)
       \/ RemoveProfile(c)
  \/ \E i \in DOMAIN active :
       \/ \E state \in State : ChangeState(i, state)
       \/ RemoveActive(i)
  \/ ServiceStops \/ ServiceReturns

Signals ==
  \/ OnAddConnection \/ OnRemoveConnection \/ OnUpdateConnection
  \/ OnConnectionStateChange \/ OnActiveConnectRemove

Next ==
  \/ NetworkManager \/ Signals
  \/ \E dev \in Device \cup {AnyIface}, on, listed \in BOOLEAN : Redraw(dev, on, listed)
  \/ \E dev \in Device : SetDefaultWiredDevice(dev)

Spec == Init /\ [][Next]_vars

-----------------------------------------------------------------------------
(* Properties.                                                             *)

\* The lists are on show, and were drawn for the device that is current now: after
\* setDefaultWiredDevice the handlers mix two devices until the next drawing.
Shown == page.on /\ page.m_currentDeviceName # AnyIface /\ ~undrawn

\* Nothing is on its way, and no connection is going up or down.
Quiet == /\ feed = <<>> /\ up
         /\ \A i \in DOMAIN active :
              active[i].state = "Activated" /\ active[i].conn \in DOMAIN profile

\* The signal that takes an item out of the active list is queued: its connection's
\* Deactivated, or its profile's connectionRemove.
Leaving(c) ==
  \E i \in DOMAIN feed :
    \/ feed[i].sig = "stateChangeReason" /\ feed[i].conn = c /\ feed[i].state = "Deactivated"
    \/ feed[i].sig = "connectionRemove" /\ feed[i].path = page.m_activeConnectionMap[c].path

\* Nobody sees a profile in both lists, whatever the handlers looked up ahead of
\* their signals.
AtMostOnce ==
  DOMAIN page.m_activeConnectionMap \cap DOMAIN page.m_inactiveConnectionMap \subseteq disturbed

\* The active list is never empty, and it says "not connected" beside no connection but
\* those that are about to leave it.
PlaceholderAlone ==
  Shown => /\ DOMAIN page.m_activeConnectionMap # {}
           /\ Empty \in DOMAIN page.m_activeConnectionMap /\ disturbed = {} =>
                \A c \in DOMAIN page.m_activeConnectionMap \ {Empty} : Leaving(c)

\* When all is handled the two lists are NetworkManager's, and each item offers what
\* can be done: connect or disconnect.
ListsFollow ==
  Quiet /\ Shown =>
    LET dev   == page.m_currentDeviceName
        shown == page.m_activeConnectionMap
        rest  == page.m_inactiveConnectionMap
        on    == {ac.conn : ac \in GetActiveConnectionList(dev)}
    IN /\ (DOMAIN shown \ {Empty}) \ disturbed = on \ disturbed
       /\ GetConnectionList(dev) \ disturbed \subseteq DOMAIN rest
       /\ DOMAIN rest \ disturbed \subseteq GetConnectionList(dev) \cup unmoved
       /\ \A c \in on \ disturbed : shown[c].state = "Activated"
       /\ \A c \in DOMAIN rest \ disturbed : rest[c].state = "Deactivated"

\* A device has one connection: when the list shows two, because a handler found one
\* active ahead of its signal, one of them is about to leave
\* (updateConnectionArea, updateActivatedConnectionArea, onRemoveConnection).
OneShown ==
  Shown => \A c, k \in DOMAIN page.m_activeConnectionMap \ (disturbed \cup {Empty}) :
             c = k \/ Leaving(c) \/ Leaving(k)

\* An item a list keeps without its map is removed by no later signal: no handler
\* leaves one, unless the profile's item was made before its connectionAdd came; a
\* second "not connected" is left only beside such an item, or one that is about to leave.
NoSecondItem ==
  [][Shown => strays' \ strays \subseteq
       disturbed \cup (IF \E c \in DOMAIN page.m_activeConnectionMap : c \in disturbed \/ Leaving(c)
                         THEN {Empty} ELSE {})]_vars
=============================================================================
