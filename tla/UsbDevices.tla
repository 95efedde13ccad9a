----------------------------- MODULE UsbDevices -----------------------------
(***************************************************************************)
(* The sender's devices: UsbDeviceManager with its hot-plug thread, the    *)
(* UsbDevice and MassStorageDevice objects (sender/usb), and what          *)
(* UsbSender does with them between Initialize and the end of the program  *)
(* (sender/main.cpp).                                                      *)
(*                                                                         *)
(* A libusb_device is one plugging-in: a stick that is plugged in again is *)
(* another device.  An object <<d, t>> is the UsbDevice that thread t made *)
(* for d, together with the MassStorageDevice around it: main makes one    *)
(* when it scans, the hot-plug thread when libusb reports an arrival.      *)
(* shared_ptr owners are sets and a vector of objects, and an object is    *)
(* destroyed in the step that drops its last owner.                        *)
(*                                                                         *)
(* libusb and the kernel are external: a call fails for any reason or none,*)
(* an interface is claimed by one handle at a time, and a device that is   *)
(* pulled out loses its claim while its handle stays open.  The transfers  *)
(* of Initialize are in MassStorage; here they only take time.  A signal   *)
(* interrupts main, as the kernels do when main does not block it.         *)
(***************************************************************************)
EXTENDS Integers, Sequences, FiniteSets

CONSTANTS
    Devices,        \* mass-storage devices that may be plugged in
    None

Threads == {"main", "hotplug"}

Objects == Devices \X Threads

ASSUME NoneAssumption == None \notin Objects

VARIABLES
    bus,                \* per device: "absent", "plugged" or "gone"
    claimOf,            \* per device: the object whose handle has its interface
    context_,           \* the libusb context: "none", "ready" or "freed"
    events,             \* hot-plug events that libusb has not reported yet
    registered,         \* hotplug_handle_ is valid
    monitoring_,
    pc, cur,            \* per thread: its place, and the object it works on
    todo,               \* devices of the scan that are still to be tried
    locals,             \* objects owned by local variables of a thread
    handle_, claimed_interfaces_, initialized_, capturing_,     \* sets of objects
    mass_storage_devices_,      \* UsbSender's vector
    devices_                    \* UrbCapture's

busVars    == <<bus, claimOf, events>>
libusbVars == <<context_, registered, monitoring_>>
threadVars == <<pc, cur, todo, locals>>
objVars    == <<handle_, claimed_interfaces_, initialized_, capturing_>>
listVars   == <<mass_storage_devices_, devices_>>
vars == <<busVars, libusbVars, threadVars, objVars, listVars>>

Elements(s) == {s[i] : i \in DOMAIN s}

Listed == Elements(mass_storage_devices_)

Init ==
    /\ bus \in [Devices -> {"absent", "plugged"}]
    /\ claimOf = [d \in Devices |-> None]
    /\ context_ = "none" /\ events = <<>> /\ registered = FALSE
    /\ monitoring_ = FALSE
    /\ pc = [t \in Threads |-> IF t = "main" THEN "initialize" ELSE "none"]
    /\ cur = [t \in Threads |-> None]
    /\ todo = {} /\ locals = {}
    /\ handle_ = {} /\ claimed_interfaces_ = {} /\ initialized_ = {}
    /\ capturing_ = {}
    /\ mass_storage_devices_ = <<>> /\ devices_ = {}

Goto(t, label) == pc' = [pc EXCEPT ![t] = label]

-----------------------------------------------------------------------------
(* The bus *)

\* libusb queues the event for a registered callback; an event that comes
\* before the registration may be queued or dropped.
Report(kind, d) ==
    events' \in {Append(events, [kind |-> kind, dev |-> d])}
                  \cup (IF registered THEN {} ELSE {events})

Plug(d) ==
    /\ bus[d] = "absent"
    /\ bus' = [bus EXCEPT ![d] = "plugged"]
    /\ Report("arrived", d)
    /\ UNCHANGED <<claimOf, libusbVars, threadVars, objVars, listVars>>

Unplug(d) ==
    /\ bus[d] = "plugged"
    /\ bus' = [bus EXCEPT ![d] = "gone"]
    /\ claimOf' = [claimOf EXCEPT ![d] = None]
    /\ Report("left", d)
    /\ UNCHANGED <<libusbVars, threadVars, objVars, listVars>>

-----------------------------------------------------------------------------
(* UsbDevice and MassStorageDevice *)

\* Mutant: ~UsbDevice does not close.  (Cleanup closes what was initialised.)
DestroyUnclosed(S) ==
    /\ handle_' = handle_ \ (S \cap initialized_)
    /\ claimed_interfaces_' = claimed_interfaces_ \ S
    /\ claimOf' = [d \in Devices |-> IF claimOf[d] \in S THEN None ELSE claimOf[d]]
    /\ initialized_' = initialized_ \ S
    /\ capturing_' = capturing_ \ S

\* Mutant: Close does not forget the interfaces it has released.
DestroyKeepsClaims(S) ==
    /\ handle_' = handle_ \ S
    /\ claimOf' = [d \in Devices |-> IF claimOf[d] \in S THEN None ELSE claimOf[d]]
    /\ initialized_' = initialized_ \ S
    /\ capturing_' = capturing_ \ S
    /\ UNCHANGED claimed_interfaces_

\* UsbDevice::Close, also by the destructor: what is still claimed is released.
Close(S) ==
    /\ handle_' = handle_ \ S
    /\ claimed_interfaces_' = claimed_interfaces_ \ S
    /\ claimOf' = [d \in Devices |-> IF claimOf[d] \in S THEN None ELSE claimOf[d]]

\* ~MassStorageDevice (Cleanup: StopCapture, ReleaseInterface, Close) and
\* ~UsbDevice of the objects of S.
Destroy(S) ==
    /\ Close(S)
    /\ initialized_' = initialized_ \ S
    /\ capturing_' = capturing_ \ S

\* Initialize and what follows it have failed or are done: main goes on with the
\* scan, the hot-plug thread leaves the callback.
Leave(t) ==
    /\ Goto(t, IF t = "main" THEN "scan" ELSE "return")
    /\ cur' = [cur EXCEPT ![t] = None]

Open(t) ==
    /\ pc[t] = "open"
    /\ bus[cur[t][1]] = "plugged"
    /\ handle_' = handle_ \cup {cur[t]}
    /\ Goto(t, "claim")
    /\ UNCHANGED <<busVars, libusbVars, cur, todo, locals, claimed_interfaces_,
                   initialized_, capturing_, listVars>>

\* Open fails; the object has no handle.
OpenFails(t) ==
    /\ pc[t] = "open"
    /\ Leave(t)
    /\ UNCHANGED <<busVars, libusbVars, todo, locals, objVars, listVars>>

\* Mutant: the interface is not claimed.
UseUnclaimed(t) ==
    /\ pc[t] = "claim"
    /\ Goto(t, "probe")
    /\ UNCHANGED <<busVars, libusbVars, cur, todo, locals, objVars, listVars>>

\* FindEndpoints finds the interface and ClaimInterface gets it.  (Whether it is
\* found cannot be told from the device: LoadDeviceInfo copies the memory of a
\* libusb structure, and bytes beyond it, in place of the descriptor.)
ClaimInterface(t) ==
    /\ pc[t] = "claim"
    /\ bus[cur[t][1]] = "plugged" /\ claimOf[cur[t][1]] = None
    /\ claimOf' = [claimOf EXCEPT ![cur[t][1]] = cur[t]]
    /\ claimed_interfaces_' = claimed_interfaces_ \cup {cur[t]}
    /\ Goto(t, "probe")
    /\ UNCHANGED <<bus, events, libusbVars, cur, todo, locals, handle_,
                   initialized_, capturing_, listVars>>

\* Either of them fails, and Initialize returns with the handle open.
ClaimFails(t) ==
    /\ pc[t] = "claim"
    /\ Leave(t)
    /\ UNCHANGED <<busVars, libusbVars, todo, locals, objVars, listVars>>

\* ResetDevice and GetCapacity; Initialize goes on whatever they return.
Probe(t) ==
    /\ pc[t] = "probe"
    /\ initialized_' = initialized_ \cup {cur[t]}
    /\ Goto(t, "push")
    /\ UNCHANGED <<busVars, libusbVars, cur, todo, locals, handle_,
                   claimed_interfaces_, capturing_, listVars>>

PushBack(t) ==
    /\ pc[t] = "push"
    /\ mass_storage_devices_' = Append(mass_storage_devices_, cur[t])
    /\ Goto(t, "add")
    /\ UNCHANGED <<busVars, libusbVars, cur, todo, locals, objVars, devices_>>

\* UrbCapture::AddDevice.
AddDevice(t) ==
    /\ pc[t] = "add"
    /\ devices_' = devices_ \cup {cur[t]}
    /\ Leave(t)
    /\ UNCHANGED <<busVars, libusbVars, todo, locals, objVars,
                   mass_storage_devices_>>

AddMassStorage(t) ==
    \/ Open(t) \/ OpenFails(t) \/ ClaimInterface(t) \/ ClaimFails(t)
    \/ Probe(t) \/ PushBack(t) \/ AddDevice(t)

-----------------------------------------------------------------------------
(* main: Initialize and Start *)

\* libusb_init.
Initialize ==
    /\ pc["main"] = "initialize"
    /\ context_' = "ready"
    /\ Goto("main", "listen")
    /\ UNCHANGED <<busVars, registered, monitoring_, cur, todo, locals, objVars,
                   listVars>>

\* libusb_init fails, or Listen does: main returns, and g_sender is destroyed.
StartFails ==
    /\ pc["main"] \in {"initialize", "listen"}
    /\ Goto("main", "destroycapture")
    /\ UNCHANGED <<busVars, libusbVars, cur, todo, locals, objVars, listVars>>

\* EnumerateDevices makes an object for each device, all owned by the vector
\* that GetMassStorageDevices returns.
GetMassStorageDevices ==
    /\ pc["main"] = "listen"
    /\ todo' = {d \in Devices : bus[d] = "plugged"}
    /\ locals' = locals \cup (todo' \X {"main"})
    /\ Goto("main", "scan")
    /\ UNCHANGED <<busVars, libusbVars, cur, objVars, listVars>>

ScanNext(d) ==
    /\ pc["main"] = "scan" /\ d \in todo
    /\ todo' = todo \ {d}
    /\ cur' = [cur EXCEPT !["main"] = <<d, "main">>]
    /\ Goto("main", "open")
    /\ UNCHANGED <<busVars, libusbVars, locals, objVars, listVars>>

\* The vector goes, and the objects that could not be initialised with it.
ScanDone ==
    /\ pc["main"] = "scan" /\ todo = {}
    /\ Destroy(locals \ (Listed \cup devices_))
    /\ locals' = {}
    /\ Goto("main", "startcapture")
    /\ UNCHANGED <<bus, events, libusbVars, cur, todo, listVars>>

\* UrbCapture::StartCapture starts each initialised device.
StartCapture ==
    /\ pc["main"] = "startcapture"
    /\ capturing_' = capturing_ \cup (devices_ \cap initialized_)
    /\ Goto("main", "register")
    /\ UNCHANGED <<busVars, libusbVars, cur, todo, locals, handle_,
                   claimed_interfaces_, initialized_, listVars>>

RegisterCallback ==
    /\ pc["main"] = "register"
    /\ registered' = TRUE
    /\ Goto("main", "monitor")
    /\ UNCHANGED <<busVars, context_, monitoring_, cur, todo, locals, objVars,
                   listVars>>

\* There is no hot-plug support, or the registration fails: Start goes on.
RegisterFails ==
    /\ pc["main"] = "register"
    /\ Goto("main", "run")
    /\ UNCHANGED <<busVars, libusbVars, cur, todo, locals, objVars, listVars>>

StartHotplugThread ==
    /\ pc["main"] = "monitor"
    /\ monitoring_' = TRUE
    /\ pc' = [pc EXCEPT !["main"] = "run", !["hotplug"] = "loop"]
    /\ UNCHANGED <<busVars, context_, registered, cur, todo, locals, objVars,
                   listVars>>

-----------------------------------------------------------------------------
(* The hot-plug thread *)

\* Mutant: one call of libusb, without the loop.
HotplugOnce ==
    /\ pc["hotplug"] = "loop"
    /\ Goto("hotplug", "exited")
    /\ UNCHANGED <<busVars, libusbVars, cur, todo, locals, objVars, listVars>>

HotplugLoop ==
    /\ pc["hotplug"] = "loop"
    /\ Goto("hotplug", IF monitoring_ THEN "events" ELSE "exited")
    /\ UNCHANGED <<busVars, libusbVars, cur, todo, locals, objVars, listVars>>

\* libusb_handle_events_timeout returns, after a second at the latest.
EventsReturn ==
    /\ pc["hotplug"] = "events"
    /\ Goto("hotplug", "loop")
    /\ UNCHANGED <<busVars, libusbVars, cur, todo, locals, objVars, listVars>>

\* HotplugCallback and OnDeviceHotplug for a device that has arrived.
OnArrived ==
    /\ pc["hotplug"] = "events"
    /\ events # <<>> /\ Head(events).kind = "arrived"
    /\ events' = Tail(events)
    /\ cur' = [cur EXCEPT !["hotplug"] = <<Head(events).dev, "hotplug">>]
    /\ locals' = locals \cup {<<Head(events).dev, "hotplug">>}
    /\ Goto("hotplug", "open")
    /\ UNCHANGED <<bus, claimOf, libusbVars, todo, objVars, listVars>>

\* Nothing is done for one that has left.
OnLeft ==
    /\ pc["hotplug"] = "events"
    /\ events # <<>> /\ Head(events).kind = "left"
    /\ events' = Tail(events)
    /\ UNCHANGED <<bus, claimOf, libusbVars, threadVars, objVars, listVars>>

\* The callback returns, and its usb_device goes out of scope.
CallbackReturns ==
    /\ pc["hotplug"] = "return"
    /\ Destroy(locals \ (Listed \cup devices_))
    /\ locals' = {}
    /\ Goto("hotplug", "events")
    /\ UNCHANGED <<bus, events, libusbVars, cur, todo, listVars>>

-----------------------------------------------------------------------------
(* main: Stop, from the signal handler, and the destructors at exit *)

\* UrbCapture::StopCapture stops the devices and joins its thread.
StopCapture ==
    /\ pc["main"] = "run"
    /\ capturing_' = capturing_ \ devices_
    /\ Goto("main", "stophotplug")
    /\ UNCHANGED <<busVars, libusbVars, cur, todo, locals, handle_,
                   claimed_interfaces_, initialized_, listVars>>

\* Mutant: the flag is left set.
StopHotplugUnflagged ==
    /\ pc["main"] = "stophotplug"
    /\ Goto("main", IF monitoring_ THEN "join" ELSE "clear")
    /\ UNCHANGED <<busVars, libusbVars, cur, todo, locals, objVars, listVars>>

StopHotplugMonitoring ==
    /\ pc["main"] = "stophotplug"
    /\ monitoring_' = FALSE
    /\ Goto("main", IF monitoring_ THEN "join" ELSE "clear")
    /\ UNCHANGED <<busVars, context_, registered, cur, todo, locals, objVars,
                   listVars>>

\* Mutant: the thread is not joined.
JoinHotplugSkipped ==
    /\ pc["main"] = "join"
    /\ registered' = FALSE
    /\ Goto("main", "clear")
    /\ UNCHANGED <<busVars, context_, monitoring_, cur, todo, locals, objVars,
                   listVars>>

\* Join, then deregister.
JoinHotplug ==
    /\ pc["main"] = "join" /\ pc["hotplug"] = "exited"
    /\ registered' = FALSE
    /\ pc' = [pc EXCEPT !["main"] = "clear", !["hotplug"] = "none"]
    /\ UNCHANGED <<busVars, context_, monitoring_, cur, todo, locals, objVars,
                   listVars>>

\* UrbCapture still owns the devices, which stay open.
ClearDevices ==
    /\ pc["main"] = "clear"
    /\ mass_storage_devices_' = <<>>
    /\ Destroy(Listed \ (devices_ \cup locals))
    /\ Goto("main", "destroycapture")
    /\ UNCHANGED <<bus, events, libusbVars, cur, todo, locals, devices_>>

\* ~UrbCapture destroys its vector of devices.
DestroyCapture ==
    /\ pc["main"] = "destroycapture"
    /\ Destroy(devices_ \ (Listed \cup locals))
    /\ devices_' = {}
    /\ Goto("main", "destroymanager")
    /\ UNCHANGED <<bus, events, libusbVars, cur, todo, locals,
                   mass_storage_devices_>>

\* ~UsbDeviceManager: Cleanup, whose StopHotplugMonitoring has nothing to do.
DestroyManager ==
    /\ pc["main"] = "destroymanager"
    /\ context_' = IF context_ = "ready" THEN "freed" ELSE context_
    /\ Goto("main", "exited")
    /\ UNCHANGED <<busVars, registered, monitoring_, cur, todo, locals, objVars,
                   listVars>>

-----------------------------------------------------------------------------

Start ==
    \/ Initialize \/ StartFails \/ GetMassStorageDevices
    \/ \E d \in Devices : ScanNext(d)
    \/ ScanDone \/ AddMassStorage("main")
    \/ StartCapture \/ RegisterCallback \/ RegisterFails \/ StartHotplugThread

HandleEvents == OnArrived \/ OnLeft \/ CallbackReturns \/ AddMassStorage("hotplug")

Stop ==
    \/ StopHotplugMonitoring \/ JoinHotplug \/ ClearDevices
    \/ DestroyCapture \/ DestroyManager

Next ==
    \/ \E d \in Devices : Plug(d) \/ Unplug(d)
    \/ Start
    \/ HotplugLoop \/ EventsReturn \/ HandleEvents
    \/ StopCapture
    \/ Stop

Spec == Init /\ [][Next]_vars

(***************************************************************************)
(* main runs, and so does the hot-plug thread, which reports the events    *)
(* that are there each time it calls libusb.  Every transfer inside        *)
(* Initialize has a timeout.  Nobody has to plug, unplug or stop.          *)
(***************************************************************************)
Fairness ==
    /\ WF_vars(Start) /\ WF_vars(Stop)
    /\ WF_vars(HotplugLoop \/ EventsReturn \/ HandleEvents)
    /\ SF_vars(HandleEvents)

FairSpec == Spec /\ Fairness

-----------------------------------------------------------------------------
(* Properties *)

\* The members of the classes keep their types, and a thread works on an object
\* exactly while it is adding one.
TypeOK ==
    /\ bus \in [Devices -> {"absent", "plugged", "gone"}]
    /\ claimOf \in [Devices -> Objects \cup {None}]
    /\ context_ \in {"none", "ready", "freed"}
    /\ events \in Seq([kind : {"arrived", "left"}, dev : Devices])
    /\ registered \in BOOLEAN /\ monitoring_ \in BOOLEAN
    /\ pc \in [Threads -> {"initialize", "listen", "scan", "open", "claim", "probe",
                           "push", "add", "startcapture", "register", "monitor",
                           "run", "stophotplug", "join", "clear", "destroycapture",
                           "destroymanager", "none", "loop", "events", "return",
                           "exited"}]
    /\ cur \in [Threads -> Objects \cup {None}]
    /\ \A t \in Threads :
          cur[t] # None <=> pc[t] \in {"open", "claim", "probe", "push", "add"}
    /\ todo \subseteq Devices /\ locals \subseteq Objects
    /\ handle_ \subseteq Objects /\ claimed_interfaces_ \subseteq handle_
    /\ initialized_ \subseteq Objects /\ capturing_ \subseteq initialized_
    /\ mass_storage_devices_ \in Seq(Objects) /\ devices_ \subseteq Objects

\* A device in the list that clients are shown is ready for use and is there
\* once: it is initialised, its handle is open, and as long as it is plugged in
\* its interface is claimed by that very object, although the scan and the
\* hot-plug thread may both have tried to add it.
ListedReady ==
    /\ \A o \in Listed :
          /\ o \in initialized_ /\ o \in handle_
          /\ bus[o[1]] = "plugged" => claimOf[o[1]] = o
    /\ \A i, j \in DOMAIN mass_storage_devices_ :
          mass_storage_devices_[i][1] = mass_storage_devices_[j][1] => i = j

\* Every open handle has an owner that will close it: also when Initialize fails
\* half-way, and when Stop drops the sender's list while the capture keeps its own.
HandlesOwned == handle_ \subseteq Listed \cup devices_ \cup locals

\* The sender is taken down in order: when main starts to drop devices, no
\* callback can be adding one (neither vector has a lock between them), and the
\* context is freed when no handle and no object is left.
TakenDownInOrder ==
    /\ pc["main"] \in {"clear", "destroycapture", "destroymanager", "exited"} =>
          pc["hotplug"] = "none" /\ ~registered
    /\ context_ = "freed" =>
          handle_ = {} /\ Listed \cup devices_ \cup locals = {}

\* Once Stop has come to StopHotplugMonitoring, it drops the devices and the program
\* ends, although the hot-plug thread that it joins may be in the middle of a callback.
\* (The two other waits of Stop are not in this module: StopCapture before this, which
\* may hang, see UrbCapture, and Close of the server after it, see UsbSender.)
StopReturns == (pc["main"] = "stophotplug") ~> (pc["main"] = "exited")

\* A device that is plugged in while the sender monitors the bus is reported
\* and tried, unless the sender is stopped.
ArrivalsTried ==
    \A d \in Devices :
        (monitoring_ /\ [kind |-> "arrived", dev |-> d] \in Elements(events))
            ~> (cur["hotplug"] = <<d, "hotplug">> \/ ~monitoring_)
=============================================================================
