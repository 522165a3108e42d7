# TLA+ models of kylin-nm

kylin-nm is the network front end of the UKUI desktop. A program in the user's
session (`src/src`) mirrors what NetworkManager does, shows it in two pages
(wired and wireless), asks the user for passwords, and offers it all again to
other programs over D-Bus (`com.kylin.network`). Around it stand a panel written
in QML, plugins of the control center, a VPN tray program and daemons that run
as root.

The models concentrate on what the program's own logic must get right: copies
of NetworkManager's state, kept in two threads and several objects, that follow
it through queued signals; a secret agent that answers NetworkManager's calls by
suspending them in nested event loops; and the wired switches, which three
programs and NetworkManager share.

## 1. Inventory

Paths are relative to the repository; `PROJECT.json` lists every component with
its sources and status.

| Component | State | Operations | Talks to |
|---|---|---|---|
| KyNetworkResourceManager (`src/backend/dbus-interface/kylinnetworkresourcemanager.cpp`) | lists of devices, connections, active connections and wifi networks; runs in a thread of its own | one slot for every signal of libNetworkManagerQt; clearing and refilling the lists when NetworkManager stops and returns; a 500 ms timer | the library (direct calls), every resource object (queued signals, and getters called from the main thread) |
| KyNetworkDeviceResourse (`kylinnetworkdeviceresource.cpp`) | object path -> interface name | reads the devices, follows three signals, forwards requests | the manager; both pages |
| KyWirelessNetResource (`kywirelessnetresource.cpp`, `kywirelessnetitem.cpp`) | networks by interface and the profile configured for each | reads the networks, ten handlers | the manager; the wireless page |
| KyActiveConnectResource, KyConnectResourse | none | turn the manager's signals into the pages' | the manager; the pages |
| KylinSecretAgent (`kylinsecretagent.cpp`) | the suspended requests (`m_waitingRequests`), the keyring | GetSecrets, SaveSecrets, DeleteSecrets, the answers | NetworkManager, the keyring, the panel, dialogs |
| Password prompts (`src/qml-network`, `joinhiddenwifipage.cpp`) | which prompt is open | submit, cancel, run out of time | the agent |
| VPN secrets (`vpnsecrets/kylinvpnrequest.c`) | one global result, a child process | new, store, free | the agent |
| LanPage, devices (`frontend/tab-pages/lanpage.cpp`) | device lists, drop-down box, current device, switch | handlers of device signals, of the device switch, of the wired switch | the resources, the system daemon, D-Bus |
| LanPage, connections (same file) | the active and the inactive list of the current device, each a map from uuid to item, and the widgets in them | handlers of the five signals of profiles and active connections; both lists are redrawn when the device half says so | the manager's lists, through the resources |
| Wired switch (LanPage, `kylinconnectoperation.cpp`, `backend/dbus.cpp`, `sys-dbus-register`, `netconnect.cpp`) | in the daemon, the main switch, the switch of each device and the connection last up on each (`Lan_Connect` in netSwitch.conf); in kylin-nm, timers of 500 ms and calls not answered yet | switch on, switch off, connect, disconnect, from the panel, a list item or the control center; writing and clearing the record; reconnecting | the daemon, NetworkManager, D-Bus |
| WlanPage (`wlanpage.cpp`) | items of active and inactive networks, scan and connection state | handlers of network and connection signals | the resources |
| Connect operations (`kylinconnectoperation.cpp`) | what to call 500 ms from now | activate, deactivate, add, update, delete | NetworkManager, the system daemon |
| MainWindow, DbusAdaptor (`mainwindow.cpp`, `backend/dbus.cpp`) | almost none | forward methods and signals | pages, D-Bus |
| Panel, control center plugins, kylin-vpn | mirrors of the pages' lists | handlers of D-Bus signals | `com.kylin.network` |
| System daemon (`sys-dbus-register`), network control, enhancement daemon | settings files | privileged calls, DNS configuration | all of the above |
| Single application, list items, detail pages, connectivity, network mode | forms, widgets, vendored code | | |

What is hard here:

- **Two threads.** The manager changes its lists in its own thread and announces
  each change with a queued signal. Handlers in the main thread take only a name
  from the signal and look everything else up in the manager's lists *of now*,
  which are ahead of the queue.
- **Reading, then connecting.** A resource reads the lists in its constructor
  and connects to the signals afterwards; nothing ever resynchronises it.
- **The service goes away.** The library reports devices and active connections
  removed, but not connections; the manager clears those itself, and refills the
  wifi networks by a timer that may meet signals.
- **Names are not identities.** Copies are keyed by interface name, and
  interfaces are renamed, removed and plugged in again under the same name.
- **Nested event loops.** Each prompt suspends the D-Bus handler in a loop that
  dispatches the next call; a handler resumes only after those nested in it.
- **Timers racing answers.** 120 s of a prompt, 500 ms of a device switch or of
  an activation.
- **Records written late.** The record of a connection is written when the page
  hears that it is up and cleared when a disconnection is answered; switches,
  other connections, the control center's own disconnections and a stop of kylin-nm
  come in between.

What makes each component correct: the manager's lists are NetworkManager's, and
its signals lead a receiver to them; the wireless copy has neither ghosts nor
gaps; every secret request is answered, with the password typed at its own prompt
or for a reason its own user gave; the wired page lists the devices there are, each
enabled or disabled as NetworkManager has it, and shows each connection of the
device it works on once, in the list where it belongs; the wired switch brings
back what was up, and nothing the user has taken down.

## 2. Modules

```
ResourceFeed                    what a receiver is promised
   ^ implements
NetworkResourceManager          the manager, the queue, a receiver
   ^ extends
WirelessNetResource             + the wireless copy in the main thread
LanDevices                      the wired page's devices
LanConnections                  the wired page's connections
WiredSwitch                     the switches and what they bring back: daemon,
                                kylin-nm, control center, NetworkManager
SecretAgent                     the agent, the panel and the dialogs
```

`MC*` modules instantiate a module for TLC, `*Proofs` modules hold theorems.

**NetworkResourceManager.** `nm*` variables are the library's tables, `m_*` the
manager's lists as a number of entries for each object (an object listed twice is
a bug the model can express; the order of a list is read only by
findWifiNetwork, whose choice is `FirstEntry`). A wifi entry is `live` when it
holds the library's present object and `dead` when the library has dropped it. A
library event and the slots it triggers are one step, since both are calls in one
thread; the loops of clearConnections, clearWifiNetworks and insertWifiNetworks
take a step for each element (`at`, `todo`), because the main thread runs
meanwhile. A network is announced by `Text` of its bytes (getSsidFromByteArray): the
library's name for it where they are UTF-8, another text, decoded as GBK, where they
are not (`TextAssumption`; that two networks have one text is left out); only the refill
announces the library's name (`AddedByName`). The slots' early returns for an object the
library finds no more or says is invalid (:1033, :1076, :1124) are left out: a library
event and its slots are one step. `feed` is the queue to the main thread. A receiver is
any resource:
`ReadLists`, `Connect`, `Deliver`; `missed` collects what was announced in the
gap between its reading and connecting.

**ResourceFeed.** The abstract promise: objects become listed and unlisted, and
an attached receiver learns of each change once and in order, some time later.
The mapping takes `pending[x]` for the number of queued signals that list or
unlist `x`.

**WirelessNetResource.** Extends the manager with m_deviceMap and
m_WifiNetworkList. The two constructor steps, and each handler with the look-ups it
makes, run against the manager's lists of the moment. An item is the profile it holds (or
NoConn) and whether it counts as configured. Where the code takes the first or last
profile of a list, or the first item of any ssid, and no module keeps that order, any may
be taken. `settings` is what the profiles say; `EditConnection` changes the network and
the interface of one, and `OnConnectionUpdate` gives the item that holds it what
updateKylinWirelessItemInfo does: configured if it is still for the network, whatever its
interface. The properties name their exceptions, which the code has. `AllShown` is about
networks whose text is their name: onWifiNetworkAdded looks the text up by the library's
name (kywirelessnetresource.cpp:505), so a network whose name is GBK is dropped, and shown
only when a whole list is read. `NoGhosts`: a device that is renamed brings its list to the new name
as it is; when a wifiNetworkDeviceDisappear queued ahead has that list read by its old
name, which another device holds by now, it brings that device's networks.
`ConfiguredTruly`: each handler rewrites the first item of an interface that holds the
profile, so a profile that two items of one interface have held (`doubled`: after a
restart, or an edit) is excepted; and the interface a profile is bound to is read only
when an item takes it, so for an edited profile and a renamed interface only the network
is claimed. `disturbed` marks a construction the
manager's thread overtook: the properties are about the others, because what is
lost in that gap is never repaired (the hazard at
kylinnetworkdeviceresource.cpp:64; the manager's own model covers it with
`missed`).

**SecretAgent.** A call of GetSecrets is numbered when it is dispatched; the
innermost loop is that of the greatest suspended number. `Outcome` is the chain of
early returns; `GetSecretsAtOnce`, `GetSecretsPanel` and `GetSecretsDialog` are
the three ways a call goes on. `request` is the SecretWaitRequest of a call, and
`Quit` its quit(). The panel's answers are messages in flight, sent under the id
of the device on show; a dialog's answer is immediate. What is typed is abstracted to the
call at whose prompt it was typed (`at`), which the answer carries to whatever request it
is delivered to, and the reply from there. An answer of the panel may come after its call
is over, and then answers the next call of the profile: the code cannot tell them apart,
and `OwnPassword` says that this is all that can happen. `DialogEdited` starts a
dialog's 120 s again. `KeyRingClear` is the screen lock: MainWindow deletes the agent
(mainwindow.cpp:1584) under whatever handlers are suspended (`deleted`), and a new one,
with no waiting requests, comes with `KeyRingInit`; a deleted agent's handler goes on in
freed memory when its loop ends (`ResumeDeleted`: it answers, does not, or crashes), and a
dialog submitted while there is no agent is a null dereference. That locks and
unlocks alternate is assumed. sendPasswordError and the start of the wait are one step.
Left out: the fields of each secret, VPN profiles (a module to come), the keyring's
asynchrony, and that the click which closes a dialog starts its timer once more, which
closes it again and repeats a cancel.

**LanDevices.** The page is one record and each function of it an operator from
page to page, so that a handler reads as in the code (`Rebuilt` is
initLanDeviceState, initDeviceCombox, initLanArea). `nic` is what is plugged in:
`managed` is NetworkManager's value, `seen` the library's. `feed` are the manager's
signals, `commands` the system daemon's sysWiredDevSwitchChanged, `timers` the
500 ms timers. The box is its items and the index of the selected one; when that one
is removed, Qt may select any of those left. `ShownIsCurrent` is about the steps of
the page and names its two exceptions: the default device set over D-Bus (lanpage.h:84),
and an added device that is disabled, or comes with a changed switch, which becomes an
item of the box all the same (lanpage.cpp:565; it takes three devices to meet).
`crashed` is set where the code uses a null device; nothing happens after it. Left
out: the text of the items (so is the flag of the connection state), which
connections a disabled device had, and devices other than Ethernet. The
constructor starts with an empty queue; the manager's own module has the gap.

**LanConnections.** `profile` and `active` are the manager's lists (already ahead of
the queue), `feed` its signals, `page` the two maps of LanPage. The five handlers
are actions, each with the whole cascade of the code: an item moved, the
placeholder ("not connected", `Empty`) put in or taken out, the look-ups made
meanwhile. `Redraw` is what the device half does to the lists: they are drawn for any
device, which becomes the current one, or hidden, at any time. `SetDefaultWiredDevice`
changes the current device and draws nothing (dbus.cpp:257, lanpage.h:84): until the next
redraw (`undrawn`) the handlers compare with a device whose lists are not on show, and mix
items of two devices. `AtMostOnce` holds all the same; the other properties are about
lists drawn for the device that is current (`Shown`). `strays` are the
widgets that a list shows and no map holds. `disturbed` names the profiles a list
was drawn with before their connectionAdd was handled (which then adds a second
item), or that stay shown after their connectionRemove: the properties are about
the others, and `NoSecondItem` about how a stray comes to be at all. `unmoved` names the
profiles of the inactive list bound to another device whose update found them active
already (:1254): if the Activated then finds them down again (:929) nothing takes the item
away, and `ListsFollow` excepts it. A handler may find
a connection active ahead of its signals, and show it beside the one it replaces;
`Leaving` says that the signal that takes an item away is queued, and `OneShown`,
`PlaceholderAlone` and `NoSecondItem` are about the items that stay.
Abstractions: an active connection appears as Activating; the one it replaces goes
down first; virtual connections and wireless profiles are left out, as is the
order of items within a list.

**WiredSwitch.** One module for the protocol of several processes. The daemon's
switch and records; `inbox`, the events of kylin-nm's main thread (calls over
D-Bus, signals of the daemon, states of connections, replies), in one queue;
`timers`, the 500 ms ones; `requests`, its calls to NetworkManager, carried out in
order; `link`, what is up on each device, and whether the resource manager lists it
(`ManagerLists`, some time after it appears): what kylin-nm takes down, and what it
writes a record of, it looks up in that list (`Listed`, `Active`). The user acts at the
panel, in a list item or in the control center, and these differ: a list item names no
device, the control center always disconnects "concisely", which clears no record.
`closing` is what the control center has yet to turn off: whenever the switch goes off,
by its own hand or another's (renewSwitchLayout), it calls kylin-nm once for each
connection its list shows as active, and that list is a mirror in another process, so any set may be
shown there; the calls come one by one, as late as they like. `netCtrlDiscon` is the
policy for simultaneous connections, which disconnects as the user does all
wired connections but one. NetworkManager activates and takes down on its own
(`OthersActivate` and losing cable or management stand for autoconnection and other
clients). The machine boots with kylin-nm not running: `Start` reads no record and writes
none. `Stop`, any number of times, loses its queue, its timers, the list and the
replies to calls already made. `unheard` are the devices whose connection came up with
nobody to hear it. Abstractions: a profile is bound to one device
(`IfaceOf`); an activation fails only for want of a cable or of management; setManaged
takes effect at once; calls to the daemon are synchronous and in one step with their
handler; profiles are not deleted; the order of the disconnections of one loop is
arbitrary; the daemon's own disconnection at its start is left out, and so is the page's
setWiredDeviceSwitch, which nothing calls.

Every definition that models code has its lines under `map` in `PROJECT.json`.
An operator commented `Mutant:` is a plausible bug (a dropped signal, a guard
read too late, a list not updated) that no specification uses: TLC must find
the named property violated when it takes the definition's place.

## 3. Runs

| Run | Question | Answer |
|---|---|---|
| manager | Do the lists follow NetworkManager, and does the queue lead a receiver to them? Do an object's signals alternate, with updates only between? Is the abstract feed implemented? Is every lost network announced, does the refill leave nothing out, does every slot end, does a receiver catch up? | holds |
| wireless_names | Two devices, one of which is renamed while signals are queued, and a network whose name is GBK: ghosts or gaps? | holds |
| wireless_profiles | Two profiles, a hotspot, an active connection: one of the profiles edited: does an item stay configured for a profile that is gone, or is not for its network? | holds |
| agent_prompts | Every form of call, nested, the screen locked and unlocked: own password, own cancellation, no leaked request, every answer reaches its prompt, and each call is answered although the user does nothing? | holds |
| agent_late_timeout | Is a submitted password delivered? | **violated** |
| lan_lists | Devices renamed, removed, switched and queued: are the lists a partition, without ghosts, the switch right, and the current device kept on show? | holds |
| lan_managed | Device switches, timers and other programs: does the page agree with NetworkManager, and keep showing the enabled device it shows? | holds |
| lan_unplugged | Is a device that is gone survived? | **violated** |
| lan_connections | A profile added, renamed, rebound, deleted and activated on two devices, restarts, redraws, the current device changed without drawing: is it in one list, the right one, with no item that stays for ever? | holds |
| lan_replaced | One connection replaces another: is never more than one shown as active, but for those whose leaving is queued? | holds |
| wired_switch | From the boot on: both switches, every way to connect and disconnect, the control center's own walk through its list, the policy, the cable, stops of kylin-nm: is the record what is up, does no switch empty it, does the switch bring it back and take down what is listed? | holds |
| wired_record | Does a disconnection by the user clear the record? | **violated** |

### What the violations show

- **agent_late_timeout** (kylinsecretagent.h:63). The 120 s timer of a prompt that
  was answered keeps running until the handler resumes. If another prompt is nested
  inside it, the timer fires first and turns the password into UserCanceled. Dialogs
  are safe (`DialogDelivered`, proved).
- **lan_unplugged** (kylinnetworkdeviceresource.cpp:652). A switch command, or the
  end of the 500 ms wait, for a device the manager has dropped and the page has not:
  setDeviceManaged calls a method of a null pointer just before the branch that
  would log that there is no such device.
- **wired_record** (lanlistitem.cpp:136). "Disconnecting a wired network clears the
  information of the connection", says lanpage.cpp:1736. A list item of the page
  disconnects without naming the device, so the record cleared is the one under
  the empty name; the control center's disconnection (netconnect.cpp:550) is
  concise and clears none. The record stays, and the connection the user took down
  comes back with the next switch-on. `SwitchKeepsRecords` is the other half, which
  holds: nothing empties a record but the reply to a disconnection of that device that the
  user, or the policy, asked for.

Other disagreements met while modelling have no run of their own and are listed
as hazards with a note: a network announced by the text of GBK bytes, which the handler
looks up by the library's name and drops (kywirelessnetresource.cpp:505); a network with a
profile left whose item is cleared with the profile it had taken (:918); handlers that
run on in an agent the screen lock has deleted (mainwindow.cpp:1584); a connection that
came up before kylin-nm was started, which no record is written of (lanpage.cpp:1029); the
control center's late disconnections after a quick off and on, which take down what the
switch is bringing back (netconnect.cpp:385); the current device changed without drawing
(lanpage.h:84); a request filed under
connection.interface-name, empty for a profile bound to no interface, which the
panel answers under the name of the device on show (kylinsecretagent.cpp:285: the
assumption `EveryIface` of `AnswersReach`); a connection drawn into a list ahead of
its connectionAdd, which gets a second item (lanpage.cpp:538); the drop-down box that holds one device
twice once a second one is plugged in (lanpage.cpp:291); an enable that the delayed disable before it
overrides (:1850); a device renamed before its deviceAdd is handled, which is never
listed (:594); a disabled device put into the box when it is plugged in as the third one
(:565); a renamed device whose item in the box keeps the old name as its data (:741); the wired switch read ahead of its signal, after which an enabled
device has nothing on show (:1343); a first request answered UserCanceled although
nobody was asked (kylinsecretagent.cpp:642).

### Bounds

- *Manager.* One device with two names, one ssid, two profiles, one active
  connection. An object's entries and signals do not depend on others of its kind,
  except through names (hence the rename) and through the loops (hence two
  profiles, one unnamed, so that the clearing loop has something to take and
  something to skip). `MaxFeed` bounds when new events may happen, not what a step
  may send: two signals are enough for an object to be added and removed again
  unseen. `MaxTimers` = 1 lets a restart meet the timer. Device paths are not reused
  while the service runs, as in NetworkManager.
- *Wireless.* Two networks, one of them announced by a text that is not its name; lists
  of different ssids share nothing but the interface's entry. Two devices and two names
  let one take over the other's name; `Renamed` is one of them, so that `AllShown` has a
  device that keeps its name. In wireless_profiles one profile is edited, to be for either
  network and bound to an interface or to none, and `MaxTimers` = 0: NetworkManager stops
  and does not return, after which nothing happens (hence no deadlock check there).
  Both runs do not go on from a state that is `disturbed` (the CONSTRAINT
  `Undisturbed`), which stays so and about which the properties say nothing.
- *Agent.* Two calls in all 288 forms, over a PSK, a WEP, an enterprise and a LEAP
  profile on two devices: one handler nested in the other, of one profile or of
  two. What a call does depends only on its own form, its own answers and whether
  another is inside it, or was before it, so a third adds depth and no case; the proofs are
  for any number. agent_late_timeout needs two PSK calls.
- *LanDevices.* Two devices are the least with a choice of the current one; a third
  name lets one be renamed while both are plugged in. `MaxItems` keeps a box with
  leftover items from growing for ever. The two queues hold two signals and one
  command. `Renamed`, `Toggled`, `Chosen` and `Cabled` say which of the environment's
  events a run has: lan_lists has them all, but for the device switches, and
  `ShownIsCurrent` is checked there; `DevicesListed` and `EnabledIsManaged` do not hold
  with renames (see the hazards), so lan_managed has none. Three and more devices are left
  to the proofs.
  lan_managed can reach `crashed`, after which the program has ended: no deadlock check.
- *LanConnections.* The handlers treat a profile without looking at others, except
  that a device has one active connection. So lan_connections has one profile with
  every fault (restart, hidden lists, setDefaultWiredDevice), on two devices, and queues of
  three signals (add, activate, remove), and lan_replaced two profiles for any device that
  replace each other; with
  setDefaultWiredDevice as well it has twice the states, which is left to the proof
  (`ListShowsOne` is for every `Faults`). Two entries
  in `active` are an old connection going down while the new one comes up. Profiles,
  paths and devices are told apart by nothing, and no liveness is checked: the runs use
  their symmetry.
- *WiredSwitch.* One device, since records, timers and requests are by device; the
  whole of the switch is a loop over devices, which the proofs cover. Two profiles,
  so that one can take the place of the recorded one. Nobody begins anything when two
  events, timers, calls or outstanding disconnections of the control center wait
  (`MaxPending`); handlers and NetworkManager go on regardless. Two are a switch-off
  followed by a switch-on, or a connection and the disconnection before it. With one
  device netCtrlDiscon disconnects only for the sake of a device the model does not follow,
  which it may. wired_record needs no stop.

### Fairness

`FairSpec` of the manager: the manager's thread goes on with a loop it is in,
its timers fire, the main thread's event loop delivers. `FairSpec` of the agent:
a handler whose loop was told to quit resumes when it is innermost, and a 120 s
timer that is not started again fires. These are what an event loop that keeps running
gives. Nothing is assumed of NetworkManager or of the user, who may never touch a prompt,
or edit a dialog for ever, which holds every handler outside it: `EveryCallAnswered` is
about the behaviours in which this ends (`EditingEnds`), and excepts the calls under which the
screen was locked.
`ViewCatchesUp` speaks of objects that stay listed (or unlisted) from some time on.
`FairSpec` of WiredSwitch: kylin-nm's event loop handles its queue and its timers
fire, NetworkManager carries out the calls it was sent, and an activation or
deactivation under way ends. Nothing is assumed of the user, of the control center, of
other clients, of cables, of when the resource manager lists a connection or of stops:
`Restored` therefore names what may take precedence. The Lan modules state safety only.

## 4. Proofs

For every set of constants and every bound:

**NetworkResourceManagerProofs.** `TypeCorrect` (`TypeOK`; its content is that no
count of entries goes below zero, which is why a found entry is removed only if
there is one). `ListsMirrored` (`ListsMirrorNM`) is not inductive: in the middle of
a slot the lists differ from NetworkManager's. `ListsInv` says what they hold there
too: every connection the library still has, and those not yet cleared. `FeedCorrect`
(`FeedLeadsToLists`) needs `QueueInv` on top: a signal is sent exactly when an
object's first entry comes or its last one goes, which is a fact about the lists.
The lemmas `KnownAfterLast` and `KnownAfterHead` say what appending to and taking
from the queue do to what a receiver will know; every slot is then one of a few
kinds (`QueueUntouched`, `QueueOther`, `QueueListing`).

`InsertComplete` and `LossIsAnnounced` (`InsertFindsAll`, `LossAnnounced`) are action
properties, from `NetsInv`: a live entry is of a network the library has, of a device it
has; and while insertWifiNetworks runs, what it has still to do is all that is not listed.

**NetworkResourceManagerFeedProofs.** `FeedAlternation` (`FeedAlternates`) and
`UpdatesBetween` (`UpdatesOfKnown`) look at what a receiver knows in the middle of the
queue. `OrderInv` states both of each queued signal and what precedes it; it is
preserved because what may be appended follows from the lists (`QueueInv`: a
receiver that handles the whole queue ends with them), and what is taken from the
front moves into what the receiver knows.

`FeedImplemented` (`ImplementsFeed`): the manager refines ResourceFeed. The mapping
counts the pending signals of an object (`CountAppend`, `CountHead`: what a step does to
the count). Each step is of one of three kinds: an object changes lists and its signal is
sent, nothing an abstract feed knows changes, or a signal is delivered; the last needs
`OrderInv`, since an abstract delivery changes what the receiver knows.

**WirelessNetResourceProofs.** All properties of WirelessNetResource. The copy is keyed by
names, its handlers read lists ahead of the queue, and what an item means depends on the
names that queued signals will tell of. So the invariants speak of a history `h` of the
queue: `h[0]` are the names the copy has, `h[i]` those after the signal `i`, the last those
the devices have now (`Told`). A step of the manager prolongs the history (`Prolonged`), a
handler takes its first element (`Shifted`).

- `NetTypeCorrect` (`NetTypeOK`) follows from `BaseInv`, which also has the invariants of
  the manager that the steps need.
- `NamesFollowed` (`NamesFollow`) is the history itself: with the queue empty `h[0]` is
  also the last.
- `NothingHidden` (`AllShown`), from `ShownInv`: a listed network of a device that keeps its
  name is shown under it, or a queued wifiNetworkAdded will show it, and from there on the
  device keeps the name and no wifiNetworkRemoved takes the item away (`Awaited`).
- `NoGhostShown` (`NoGhosts`), from `GhostInv`: under a name that no renamed device has come
  to, the items are at most the entries of the device that has it, plus the removals still
  queued, unless a signal still queued gives the name up, and with it the whole list
  (`Few`, `Vacates`).
- `TrulyConfigured` (`ConfiguredTruly`), from `ConfInv`: the profile an item is configured
  for, unless `doubled`, is in the manager's list and for the item's network, or its
  connectionRemove or connectionUpdate is queued, which will find the item: it is the
  only one of its interface that holds the profile.

Each step of the manager is reduced to what it queues and what that says of names, networks
and profiles (`Reports`, one lemma per slot); each handler to what it does to the items of
one name and network (`Result`, `Follows`). The invariants are then preserved by `Reports`
and by `Follows`, without another look at the actions.

**ResourceFeedProofs.** `ReceiverBehind`: the receiver differs from the lists in an
object exactly if the number of changes pending for it is odd. The strengthening is
that nothing is pending before it attaches. With `FeedImplemented` this is what a
receiver of the manager may rely on.

**SecretAgentProofs.** `Invariance` proves one invariant, `IInv`: the types,
`WaitingIsSuspended`, the three properties of replies, and `PromptsInv`. Of its parts,
`Arrivals`, `OpenPrompts` and `Over` say what a call holds before it is dispatched, while it
is suspended, and after; `LastPrompt`, that the call that waits for a profile is the last
that prompted for it; `AnsweredOnce`, that each prompt of the panel is on show or in one
message, so that an answer typed at another call's prompt finds that call over without it;
`Verdicts`, that a loop was ended by the word given at its own prompt, by one that came too
late for an earlier call of the profile, or by its timer; `DialogsFinal`, that a closed
dialog keeps its verdict. Each action is first reduced to one of seven effects (leaves alone,
answers at once, suspends, ends the wait, resumes, resumes in a deleted agent, locks:
`StepEffect`), and each part of the invariant is then preserved by each effect.
`TypesKept`, `WaitingFollowsSuspended`, `PasswordsOwn`, `CancelsOwn` and
`DialogsDelivered` follow. `AnswersReach` proves the action property `AnswerReaches`
under `EveryIface`: every profile names its interface, without which it does not hold.

**WiredSwitchProofs.** `TypeCorrect` (`TypeOK`; a record, and what is up, are of the
device's own profiles) and `RecordsKept` (`SwitchKeepsRecords`) follow from `IInv`,
which says of every request on its way, from the D-Bus call to the reply, that it
is concise, or of the user or the policy and names no device but its profile's: the reply
comes long after the call, and its handler sees nothing else. `RecordFollowed`
(`RecordFollows`) needs `RecordInv` on top: a connection that is up and was heard to
come up is recorded, or its Activated is queued and the connection in the manager's list,
where the handler looks it up; and in both cases no reply that would clear the record is queued
behind. New replies are sent only when the connection has gone down.

**LanDevicesProofs.** All properties of LanDevices, of which two only where no device is
renamed. `SwitchFollowed` (`SwitchFollows`): the switch is set from signals, from
NetworkManager ahead of them when a device is added, and to off with the last device.
`SwitchInv` says that the last queued signal of the switch is what NetworkManager's is
now, and that with none queued the page is right once it lists a device. All other
functions of the page are shown to leave the switch alone (`Keeps`).

`TypeCorrect`, `ListsParted`, `NoGhostsListed`, `ShownFollows` and `ViewKept` follow from
`DevicesInv`, which adds `PageInv`: the lists have no repetition and the enabled and the
disabled devices part the listed ones (`Parted`); the box's index is within the box (`Boxed`);
and the queued signals, taken in order, lead from the resource's map to the names of
now (`Told`), with no name held by two devices on the way. `Told` is what makes the rest
inductive: an added device, and a renamed one, go into the lists without a look at what
is there, and only the order of the queue says that the name is not. Each function of the page
has a lemma that says what it leaves of `Parted` and `Boxed`; each handler composes them.
The loop of initLanDeviceState (`OfManaged`) is a recursive function, and what it computes
is proved from a least counterexample (`LeastNatural`), because the library's induction
theorems cannot be instantiated here. `IsFiniteSet(Device)` is assumed because the first
list is an enumeration of the devices plugged in.

`AllListed` and `ManagedEnabled` (`DevicesListed`, `EnabledIsManaged`) need `NewsInv`: a
name that a device has now is listed with no deviceRemove of it queued, or has a deviceAdd
queued with no deviceRemove behind it (`WillList`); and a listed device is enabled or
disabled as the library has seen it, unless a queued signal will rebuild the lists or the
library has yet to see a change (`Reflects`). Both are proved for `Renamed = {}`: a
deviceAdd or deviceManagedChange queued under the old name of a renamed device is dropped
by its handler, and the news is lost.

**LanConnectionsProofs.** `ProfileInOneList` (`AtMostOnce`), `ListShowsOne` (`OneShown`) and
`NoSecondItemLeft` (`NoSecondItem`), from `IInv`. Its core is `KnownInv`: an item's profile is
there, under the item's path, with no connectionAdd of it queued (`Current`), or the
connectionRemove that takes the item away is queued ahead of any connectionAdd of the
profile (`Removed`). So when a profile's connectionAdd is handled neither list has an item
of it, and when its connectionRemove is handled the item of its path goes. `ShownInv` says
that what the active list shows is up on the current device or about to leave; with
`OneUp`, that NetworkManager has one connection up on a device, `OneShown` follows. While
NetworkManager is stopped there is nothing up, and everything shown is about to leave.
`HandledStep` reduces the five handlers to one statement: what they leave on the page was
there before and is not what the signal takes away (`ShownBefore`, `ListedBefore`), or is
what the manager knows now (`ShownNow`, `ListedNow`).

`NotConnectedAlone` (`PlaceholderAlone`) and `ListsAreNetworkManagers` (`ListsFollow`) need
the converse, that nothing is missing: `IInv` bounds what the lists show from above.
`FollowInv` adds to it, for everything that the lists do not show as NetworkManager has it,
the queued signal that will put it right. `QueueInv` is what the queue owes: a profile whose
path is being removed is still to be added (`RemovedFirst`), an active one whose item a
signal will reset is still to be said up (`UpLast`), and one said up and not since down is
up (`UpStrong`). `ShowsInv` is about the active list and the placeholder, `ListsInv` about the
inactive list; both speak of lists drawn for the current device, and `AtMostOnce` alone is
proved of the others too. NetworkManager keeps it because each change is queued with its signal
(`Reports`, proved once per action); the handlers because each does to the item of its
profile, and to the placeholder, what its signal says, and no more (`Effects`). `Behind` is the
part that is easy to miss: a connection is said up only after the signals that take the
others down, so the placeholder never stays beside an item of the one coming up. With the
queue empty nothing is owed, and `FollowInv` is `ListsFollow`.

Only model-checked: the liveness properties (`SlotsEnd`, `ViewCatchesUp`,
`EveryCallAnswered`, `Restored`, `TurnsOff`), which are beyond the prover. Every other
property that a passing run checks is a theorem.

## 5. What is not modelled

Each component left out is in `PROJECT.json` with its reason. In short: forms,
widgets and files without a protocol; vendored code (single application, the nma
and nm-compat sources); the mirrors of the pages in other processes; and, of the
modelled components, what no property reads (signal strength, security types, device
properties that are only forwarded). Two data races are hazards without a model: the
main thread walks the manager's lists while the manager's thread changes them
(kylinnetworkresourcemanager.cpp:459) with no lock, which is undefined behaviour; the
models take every look-up as atomic.

## 6. Plan

What this project would take up next, in this order:

1. `VpnRequest`: the global result and the child process of a VPN request, nested in
   the agent's loops (the hazard at kylinvpnrequest.c:176).
2. `WlanPage`: items, activation and their placeholders, over WirelessNetResource.
3. LanDevices and LanConnections in one module: `Redraw` would then be what the
   device half does, not any redraw.
4. The control center's mirrors and the enhancement daemon's threads.

## 7. Running

In this directory, `tlc -config <run>.cfg <module>` with the pairs of `PROJECT.json`
under `runs`, and `tlapm <module>Proofs.tla`. The longest runs (wired_switch,
lan_replaced, lan_lists, wireless_profiles) take two to four minutes.
