---------------------------- MODULE UsbReceiver ----------------------------
(***************************************************************************)
(* The receiver's devices: UsbReceiver of receiver/main.cpp, the           *)
(* VirtualUsbDevice objects it imports and the port table of UsbipManager  *)
(* (receiver/virtual_device/virtual_usb_device.cpp).                       *)
(*                                                                         *)
(* Two threads meet here without a lock between them: the receive thread,  *)
(* which imports the devices of a device list, and the main thread, whose  *)
(* Stop (called from the signal handler) detaches and drops them.  A       *)
(* member function of VirtualUsbDevice runs under the device's mutex_ and  *)
(* calls into UsbipManager under the manager's, so it is one step; so is   *)
(* an operation on the vector virtual_devices_.  An operation whose        *)
(* precondition fails (pop_back of an empty vector, an element read past   *)
(* the end or through an invalidated iterator) has undefined behaviour: it *)
(* sets ub, and nothing is claimed of what comes after.                    *)
(*                                                                         *)
(* A shared_ptr is an object name; the vector and the receive thread's     *)
(* local variable are its owners, and an object without owner is           *)
(* destroyed in the step that drops the last one.                          *)
(***************************************************************************)
EXTENDS Integers, Sequences, FiniteSets

CONSTANTS
    Objects,        \* VirtualUsbDevice objects that can be constructed
    Busids,         \* bus ids of the mass-storage devices the sender lists
    NumPorts,       \* size of port_usage_ (8 in Initialize)
    MaxListLen,     \* bound: entries of a device list
    MaxLists,       \* bound: device lists received
    None

ASSUME PortsAssumption == NumPorts \in Nat
ASSUME NoneAssumption == None \notin Objects \cup Busids
ASSUME ListsAssumption == MaxListLen \in Nat /\ MaxLists \in Nat

Ports == 0 .. NumPorts - 1

VARIABLES
    port_usage_,        \* UsbipManager: the port is taken
    vhci,               \* the kernel's port table: the device attached to it
    created_, attached_,\* VirtualUsbDevice: objects with the flag set
    port_number_,       \* VirtualUsbDevice: -1 when it has none
    busid,              \* device_info_.busid of each constructed object
    virtual_devices_,   \* UsbReceiver's vector
    connected_,         \* UsbipClient's flag: sends succeed
    receiving,          \* the receive thread has not ended
    recv,               \* where the receive thread is
    current,            \* its local virtual_device
    todo,               \* entries of the list it is working on
    lists,              \* device lists received so far
    main,               \* where the main thread is
    next, end,          \* its iterators over virtual_devices_
    ub

devVars  == <<port_usage_, vhci, created_, attached_, port_number_, busid>>
recvVars == <<receiving, recv, current, todo, lists>>
mainVars == <<main, next, end>>
vars == <<devVars, virtual_devices_, connected_, recvVars, mainVars, ub>>

Elements(s) == {s[i] : i \in DOMAIN s}

Constructed == {o \in Objects : busid[o] # None}

\* The object the receive thread's local variable owns.
Owned == {current} \ {None}

Init ==
    /\ port_usage_ = [p \in Ports |-> FALSE]
    /\ vhci = [p \in Ports |-> None]
    /\ created_ = {} /\ attached_ = {}
    /\ port_number_ = [o \in Objects |-> -1]
    /\ busid = [o \in Objects |-> None]
    /\ virtual_devices_ = <<>>
    /\ connected_ = TRUE /\ receiving = TRUE
    /\ recv = "idle" /\ current = None /\ todo = <<>> /\ lists = 0
    /\ main = "run" /\ next = 1 /\ end = 0
    /\ ub = FALSE

-----------------------------------------------------------------------------
(* UsbipManager and VirtualUsbDevice *)

FreePorts == {p \in Ports : ~port_usage_[p]}

\* Mutant: the search runs one past the end of port_usage_.
PortPastEnd ==
    IF FreePorts = {} THEN NumPorts
    ELSE CHOOSE p \in FreePorts : \A q \in FreePorts : p <= q

\* The lowest free port, or -1.
GetAvailablePort ==
    IF FreePorts = {} THEN -1
    ELSE CHOOSE p \in FreePorts : \A q \in FreePorts : p <= q

\* Mutant: the port is returned without being marked as taken.
CreateUnmarked(o, b) ==
    LET port == GetAvailablePort
    IN /\ busid' = [busid EXCEPT ![o] = b]
       /\ port_number_' = [port_number_ EXCEPT ![o] = port]
       /\ created_' = IF port < 0 THEN created_ ELSE created_ \cup {o}
       /\ UNCHANGED <<vhci, attached_, port_usage_>>

\* CreateDevice of a new object o for the device b.
CreateDevice(o, b) ==
    LET port == GetAvailablePort
    IN /\ busid' = [busid EXCEPT ![o] = b]
       /\ port_number_' = [port_number_ EXCEPT ![o] = port]
       /\ port_usage_' = [p \in Ports |-> port_usage_[p] \/ p = port]
       /\ created_' = IF port < 0 THEN created_ ELSE created_ \cup {o}
       /\ UNCHANGED <<vhci, attached_>>

\* DetachDevice of every object of S.  The result of writing to the kernel's
\* detach file is ignored: the kernel keeps some of them.
Detach(S) ==
    LET going == S \cap attached_
    IN /\ attached_' = attached_ \ S
       /\ \E kept \in SUBSET going :
             vhci' = [p \in Ports |-> IF vhci[p] \in going \ kept THEN None ELSE vhci[p]]

\* Mutant: the device keeps its port in port_usage_.
ForgetPorts(S) ==
    /\ created_' = created_ \ S
    /\ port_number_' = [o \in Objects |-> IF o \in S THEN -1 ELSE port_number_[o]]
    /\ UNCHANGED port_usage_

\* The second half of DestroyDevice, of every object of S.
Release(S) ==
    LET freed == {port_number_[o] : o \in S \cap created_}
    IN /\ created_' = created_ \ S
       /\ port_usage_' = [p \in Ports |-> port_usage_[p] /\ p \notin freed]
       /\ port_number_' = [o \in Objects |-> IF o \in S THEN -1 ELSE port_number_[o]]

\* Mutant: the port is given back and the device stays attached.
DestroyAttached(S) == Release(S) /\ UNCHANGED <<attached_, vhci, busid>>

\* DestroyDevice, also by the destructor, of every object of S.
DestroyDevice(S) == Detach(S) /\ Release(S) /\ UNCHANGED busid

-----------------------------------------------------------------------------
(* The receive thread: OnDeviceListReceived and ImportDeviceInternal *)

OnDeviceListReceived(list) ==
    /\ ~ub /\ receiving /\ recv = "idle"
    /\ lists < MaxLists
    /\ lists' = lists + 1
    /\ todo' = list
    /\ recv' = "next"
    /\ UNCHANGED <<devVars, virtual_devices_, connected_, receiving, current,
                   mainVars, ub>>

ListDone ==
    /\ ~ub /\ recv = "next" /\ todo = <<>>
    /\ recv' = "idle"
    /\ UNCHANGED <<devVars, virtual_devices_, connected_, receiving, current,
                   todo, lists, mainVars, ub>>

\* Without a free port the object is given up with the entry.
ImportCreate(o) ==
    /\ ~ub /\ recv = "next" /\ todo # <<>>
    /\ o \notin Constructed
    /\ CreateDevice(o, Head(todo))
    /\ IF GetAvailablePort < 0
       THEN recv' = "next" /\ current' = None
       ELSE recv' = "attach" /\ current' = o
    /\ todo' = Tail(todo)
    /\ UNCHANGED <<virtual_devices_, connected_, receiving, lists, mainVars, ub>>

\* AttachToPort writes to the kernel's attach file, which may refuse, and
\* refuses a port that is in use.
AttachDevice ==
    /\ ~ub /\ recv = "attach"
    /\ vhci[port_number_[current]] = None
    /\ vhci' = [vhci EXCEPT ![port_number_[current]] = current]
    /\ attached_' = attached_ \cup {current}
    /\ recv' = "push"
    /\ UNCHANGED <<port_usage_, created_, port_number_, busid, virtual_devices_,
                   connected_, receiving, current, todo, lists, mainVars, ub>>

AttachFails ==
    /\ ~ub /\ recv = "attach"
    /\ DestroyDevice({current})
    /\ recv' = "next" /\ current' = None
    /\ UNCHANGED <<virtual_devices_, connected_, receiving, todo, lists,
                   mainVars, ub>>

\* push_back may reallocate the vector, under the iterators of Stop's loop.
PushBack ==
    /\ ~ub /\ recv = "push"
    /\ virtual_devices_' = Append(virtual_devices_, current)
    /\ ub' \in (IF main = "detach" THEN BOOLEAN ELSE {FALSE})
    /\ recv' = "send"
    /\ UNCHANGED <<devVars, connected_, receiving, current, todo, lists,
                   mainVars>>

\* Mutant: the object is dropped without its destructor destroying the device.
ImportSentLeaking ==
    /\ ~ub /\ recv = "send" /\ connected_
    /\ recv' = "next" /\ current' = None
    /\ UNCHANGED <<devVars, virtual_devices_, connected_, receiving, todo, lists,
                   mainVars, ub>>

\* The import request is sent.  The local variable goes out of scope, and takes
\* the object with it if Stop has cleared the vector meanwhile.
ImportSent ==
    /\ ~ub /\ recv = "send" /\ connected_
    /\ DestroyDevice(Owned \ Elements(virtual_devices_))
    /\ recv' = "next" /\ current' = None
    /\ UNCHANGED <<virtual_devices_, connected_, receiving, todo, lists,
                   mainVars, ub>>

\* The import request is not sent, either because the client is not connected
\* or because the socket fails, which OnNetworkError turns into the former.
ImportSendFails ==
    /\ ~ub /\ recv = "send"
    /\ connected_' = FALSE
    /\ recv' = "undodetach"
    /\ UNCHANGED <<devVars, virtual_devices_, receiving, current, todo, lists,
                   mainVars, ub>>

UndoDetach ==
    /\ ~ub /\ recv = "undodetach"
    /\ Detach({current})
    /\ recv' = "undodestroy"
    /\ UNCHANGED <<port_usage_, created_, port_number_, busid, virtual_devices_,
                   connected_, receiving, current, todo, lists, mainVars, ub>>

UndoDestroy ==
    /\ ~ub /\ recv = "undodestroy"
    /\ DestroyDevice({current})
    /\ recv' = "undopop"
    /\ UNCHANGED <<virtual_devices_, connected_, receiving, current, todo, lists,
                   mainVars, ub>>

\* pop_back of a vector that Stop has cleared is undefined.
UndoPop ==
    /\ ~ub /\ recv = "undopop"
    /\ IF virtual_devices_ = <<>>
       THEN ub' = TRUE /\ UNCHANGED virtual_devices_
       ELSE /\ virtual_devices_' =
                 SubSeq(virtual_devices_, 1, Len(virtual_devices_) - 1)
            /\ UNCHANGED ub
    /\ recv' = "next" /\ current' = None
    /\ UNCHANGED <<devVars, connected_, receiving, todo, lists, mainVars>>

\* The peer closes, or Close has told the receive thread to stop.
ReceiveThreadEnd ==
    /\ ~ub /\ receiving /\ recv = "idle"
    /\ receiving' = FALSE
    /\ connected_' = FALSE
    /\ UNCHANGED <<devVars, virtual_devices_, recv, current, todo, lists,
                   mainVars, ub>>

\* The heartbeat thread fails to send, or the receive thread a URB response,
\* which has no other effect here: the flag is cleared while the receive thread
\* goes on.
OnNetworkError ==
    /\ ~ub /\ connected_
    /\ connected_' = FALSE
    /\ UNCHANGED <<devVars, virtual_devices_, recvVars, mainVars, ub>>

-----------------------------------------------------------------------------
(* The main thread: Stop *)

Stop ==
    /\ ~ub /\ main = "run"
    /\ main' = "detach"
    /\ next' = 1 /\ end' = Len(virtual_devices_)
    /\ UNCHANGED <<devVars, virtual_devices_, connected_, recvVars, ub>>

StopDetach ==
    /\ ~ub /\ main = "detach" /\ next <= end
    /\ IF next > Len(virtual_devices_)
       THEN ub' = TRUE /\ UNCHANGED <<vhci, attached_>>
       ELSE Detach({virtual_devices_[next]}) /\ UNCHANGED ub
    /\ next' = next + 1
    /\ UNCHANGED <<port_usage_, created_, port_number_, busid, virtual_devices_,
                   connected_, recvVars, main, end>>

StopClear ==
    /\ ~ub /\ main = "detach" /\ next > end
    /\ DestroyDevice(Elements(virtual_devices_) \ Owned)
    /\ virtual_devices_' = <<>>
    /\ main' = "disconnect"
    /\ UNCHANGED <<connected_, recvVars, next, end, ub>>

\* Disconnect closes the socket and joins the receive thread, but does nothing
\* for a client that is no longer connected.
StopDisconnect ==
    /\ ~ub /\ main = "disconnect"
    /\ main' = IF connected_ THEN "join" ELSE "cleanup"
    /\ connected_' = FALSE
    /\ UNCHANGED <<devVars, virtual_devices_, recvVars, next, end, ub>>

StopJoin ==
    /\ ~ub /\ main = "join" /\ ~receiving
    /\ main' = "cleanup"
    /\ UNCHANGED <<devVars, virtual_devices_, connected_, recvVars, next, end, ub>>

\* UsbipManager::Cleanup: the manager's own list of devices is empty.
StopCleanup ==
    /\ ~ub /\ main = "cleanup"
    /\ main' = "stopped"
    /\ UNCHANGED <<devVars, virtual_devices_, connected_, recvVars, next, end, ub>>

-----------------------------------------------------------------------------

Lists == UNION {[1..n -> Busids] : n \in 0..MaxListLen}

ReceiveThread ==
    \/ ListDone
    \/ \E o \in Objects : ImportCreate(o)
    \/ AttachDevice \/ AttachFails \/ PushBack
    \/ ImportSent \/ ImportSendFails
    \/ UndoDetach \/ UndoDestroy \/ UndoPop

MainThread ==
    StopDetach \/ StopClear \/ StopDisconnect \/ StopJoin \/ StopCleanup

Next ==
    \/ \E list \in Lists : OnDeviceListReceived(list)
    \/ ReceiveThread
    \/ ReceiveThreadEnd
    \/ OnNetworkError
    \/ Stop
    \/ MainThread

Spec == Init /\ [][Next]_vars

-----------------------------------------------------------------------------
(* Properties *)

\* The members of the three classes keep their types.
TypeOK ==
    /\ port_usage_ \in [Ports -> BOOLEAN]
    /\ vhci \in [Ports -> Objects \cup {None}]
    /\ created_ \subseteq Objects /\ attached_ \subseteq Objects
    /\ port_number_ \in [Objects -> Ports \cup {-1}]
    /\ busid \in [Objects -> Busids \cup {None}]
    /\ virtual_devices_ \in Seq(Objects)
    /\ connected_ \in BOOLEAN /\ receiving \in BOOLEAN
    /\ recv \in {"idle", "next", "attach", "push", "send", "undodetach",
                 "undodestroy", "undopop"}
    /\ current \in Objects \cup {None}
    /\ todo \in Seq(Busids) /\ lists \in Nat
    /\ main \in {"run", "detach", "disconnect", "join", "cleanup", "stopped"}
    /\ next \in Nat /\ end \in Nat
    /\ ub \in BOOLEAN
    /\ (recv \in {"idle", "next"}) <=> (current = None)

\* Two created devices never share a port: GetAvailablePort never hands out a
\* port that a device still holds, whatever Stop and the imports do to it.
PortsExclusive ==
    \A a, b \in created_ :
        port_number_[a] \in Ports /\ (port_number_[a] = port_number_[b] => a = b)

\* A port is marked as taken exactly as long as some created device has it: no
\* failure path of an import, and no race with Stop, leaks a port or gives one
\* back twice.
PortAccounting ==
    \A p \in Ports : port_usage_[p] <=> \E o \in created_ : port_number_[o] = p

\* Every device that holds a port is owned: by the vector or by the import that
\* is under way, so that somebody will give the port back.
NoPortLeak == created_ \subseteq Elements(virtual_devices_) \cup Owned

\* An attached device is created and is the one the kernel has on its port.
AttachedOnItsPort ==
    \A o \in attached_ : o \in created_ /\ vhci[port_number_[o]] = o

\* receiver/main.cpp:89 says of the loop in Stop that it disconnects all virtual
\* devices: when Stop has returned, none is attached.
StopDetachesAll == main = "stopped" => attached_ = {}

-----------------------------------------------------------------------------
(* The inductive invariant of the proofs *)

\* Only constructed objects are created or owned, so ImportCreate takes a name
\* that nobody knows.
ConstructedInv ==
    created_ \cup Elements(virtual_devices_) \cup Owned \subseteq Constructed

\* The import under way: its device is created when it is attached and destroyed
\* when it is popped, and what it pops is what it pushed, if Stop has left it.
ImportInv ==
    /\ recv = "attach" => current \in created_
    /\ recv = "undopop" => current \notin created_
    /\ recv \in {"send", "undodetach", "undodestroy", "undopop"} =>
          virtual_devices_ = <<>> \/ virtual_devices_[Len(virtual_devices_)] = current

IInv ==
    /\ TypeOK
    /\ PortsExclusive /\ PortAccounting /\ NoPortLeak /\ AttachedOnItsPort
    /\ ConstructedInv /\ ImportInv
=============================================================================
