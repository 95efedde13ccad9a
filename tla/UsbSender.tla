----------------------------- MODULE UsbSender -----------------------------
(***************************************************************************)
(* The sender's server: UsbSender of sender/main.cpp on top of a listening *)
(* TcpSocket (common/network/tcp_socket.cpp).                              *)
(*                                                                         *)
(* The threads are main (Start, Stop), the accept thread, one detached     *)
(* handler per client and the hot-plug thread.  A handler knows its client *)
(* only by the number of a descriptor, and the kernel gives a number that  *)
(* was closed to the next client: fdTable is the kernel's table.  close()  *)
(* in another thread makes accept() and recv() fail (the sender runs on    *)
(* macOS).                                                                 *)
(*                                                                         *)
(* A request is one message; how a message is cut out of the byte stream   *)
(* is the subject of MessageStream.  mass_storage_devices_ has no lock: a  *)
(* change of the vector while a handler walks it has undefined behaviour,  *)
(* which may set ub, and nothing is claimed of what comes after.           *)
(*                                                                         *)
(* client_fds_ is modelled by the set of the numbers in the vector: its    *)
(* one reader closes them all, and std::remove takes out every copy.       *)
(***************************************************************************)
EXTENDS Integers

CONSTANTS
    Conns,          \* connections that clients make, each used once
    Fds,            \* bound: descriptor numbers for clients
    Requests,       \* what clients ask: a list, an import or a heartbeat
    Devices,        \* mass-storage devices
    None

ASSUME NoneAssumption == None \notin Conns /\ None \notin Fds /\ None \notin Requests
ASSUME FdsAssumption == Fds \subseteq Nat
ASSUME RequestsAssumption == Requests \subseteq {"list", "import", "heartbeat"}

VARIABLES
    is_connected_, is_listening_, should_stop_,     \* TcpSocket
    listener,               \* TcpSocket: socket_fd_ >= 0
    client_fds_,            \* TcpSocket, under mutex_: the numbers in the vector
    fdTable,                \* the connection a descriptor refers to
    peer,                   \* what the client has done
    request,                \* per connection: its request, and what became of it
    acc, accConn,           \* the accept thread, and the connection it has in hand
    handler,                \* where the handler of a connection is
    fdOf,                   \* its local client_fd
    mass_storage_devices_,
    main,
    ub

flags == <<is_connected_, is_listening_, should_stop_, listener>>
clientVars == <<peer, request>>
accVars == <<acc, accConn>>
vars == <<flags, client_fds_, fdTable, clientVars, accVars, handler, fdOf,
          mass_storage_devices_, main, ub>>

Init ==
    /\ is_connected_ = FALSE /\ is_listening_ = FALSE /\ should_stop_ = FALSE
    /\ listener = FALSE
    /\ client_fds_ = {}
    /\ fdTable = [f \in Fds |-> None]
    /\ peer = [c \in Conns |-> "none"]
    /\ request = [c \in Conns |-> [kind |-> None, state |-> "none"]]
    /\ acc = "none" /\ accConn = None
    /\ handler = [c \in Conns |-> "none"]
    /\ fdOf = [c \in Conns |-> None]
    /\ mass_storage_devices_ = {}
    /\ main = "start" /\ ub = FALSE

-----------------------------------------------------------------------------
(* Clients *)

ClientConnects(c) ==
    /\ ~ub /\ listener /\ peer[c] = "none"
    /\ peer' = [peer EXCEPT ![c] = "open"]
    /\ UNCHANGED <<flags, client_fds_, fdTable, request, accVars, handler, fdOf,
                   mass_storage_devices_, main, ub>>

ClientAsks(c, kind) ==
    /\ ~ub /\ peer[c] = "open" /\ request[c].state = "none"
    /\ request' = [request EXCEPT ![c] = [kind |-> kind, state |-> "sent"]]
    /\ UNCHANGED <<flags, client_fds_, fdTable, peer, accVars, handler, fdOf,
                   mass_storage_devices_, main, ub>>

ClientCloses(c) ==
    /\ ~ub /\ peer[c] = "open"
    /\ peer' = [peer EXCEPT ![c] = "closed"]
    /\ UNCHANGED <<flags, client_fds_, fdTable, request, accVars, handler, fdOf,
                   mass_storage_devices_, main, ub>>

-----------------------------------------------------------------------------
(* AcceptThread *)

\* Connections the kernel has completed and nobody has accepted.
Backlog == {c \in Conns : peer[c] # "none" /\ fdOf[c] = None}

FreeFds == {f \in Fds : fdTable[f] = None}

AcceptLoop ==
    /\ ~ub /\ acc = "loop"
    /\ acc' = IF should_stop_ \/ ~is_listening_ THEN "exited" ELSE "accept"
    /\ UNCHANGED <<flags, client_fds_, fdTable, clientVars, accConn, handler, fdOf,
                   mass_storage_devices_, main, ub>>

\* accept() returns the lowest descriptor that is free.
Accept(c, f) ==
    /\ ~ub /\ acc = "accept" /\ listener
    /\ c \in Backlog
    /\ f \in FreeFds /\ \A g \in FreeFds : f <= g
    /\ fdTable' = [fdTable EXCEPT ![f] = c]
    /\ fdOf' = [fdOf EXCEPT ![c] = f]
    /\ accConn' = c /\ acc' = "push"
    /\ UNCHANGED <<flags, client_fds_, clientVars, handler, mass_storage_devices_,
                   main, ub>>

\* Mutant: the result of a failed accept() is registered as a client.
AcceptUnchecked ==
    /\ ~ub /\ acc = "accept"
    /\ ~listener \/ (Backlog # {} /\ FreeFds = {})
    /\ client_fds_' = client_fds_ \cup {-1}
    /\ acc' = "loop"
    /\ UNCHANGED <<flags, fdTable, clientVars, accConn, handler, fdOf,
                   mass_storage_devices_, main, ub>>

\* The listening socket is closed, or there is no descriptor left.
AcceptFails ==
    /\ ~ub /\ acc = "accept"
    /\ ~listener \/ (Backlog # {} /\ FreeFds = {})
    /\ acc' = "loop"
    /\ UNCHANGED <<flags, client_fds_, fdTable, clientVars, accConn, handler, fdOf,
                   mass_storage_devices_, main, ub>>

PushClient ==
    /\ ~ub /\ acc = "push"
    /\ client_fds_' = client_fds_ \cup {fdOf[accConn]}
    /\ acc' = "spawn"
    /\ UNCHANGED <<flags, fdTable, clientVars, accConn, handler, fdOf,
                   mass_storage_devices_, main, ub>>

SpawnHandler ==
    /\ ~ub /\ acc = "spawn"
    /\ handler' = [handler EXCEPT ![accConn] = "loop"]
    /\ acc' = "loop" /\ accConn' = None
    /\ UNCHANGED <<flags, client_fds_, fdTable, clientVars, fdOf,
                   mass_storage_devices_, main, ub>>

-----------------------------------------------------------------------------
(* HandleClient *)

HandlerLoop(c) ==
    /\ ~ub /\ handler[c] = "loop"
    /\ handler' = [handler EXCEPT ![c] = IF should_stop_ THEN "close" ELSE "recv"]
    /\ UNCHANGED <<flags, client_fds_, fdTable, clientVars, accVars, fdOf,
                   mass_storage_devices_, main, ub>>

\* The connection that recv(client_fd) reads from.
Source(c) == fdTable[fdOf[c]]

\* recv() returns a request, and the mutex_ of the MessageHandler, which all
\* handlers share, is free.
Receive(c) ==
    /\ ~ub /\ handler[c] = "recv"
    /\ Source(c) # None
    /\ request[Source(c)].state = "sent"
    /\ \A other \in Conns : handler[other] # "handle"
    /\ request' = [request EXCEPT ![Source(c)].state = "read"]
    /\ handler' = [handler EXCEPT ![c] = "handle"]
    /\ UNCHANGED <<flags, client_fds_, fdTable, peer, accVars, fdOf,
                   mass_storage_devices_, main, ub>>

\* TcpSocket::Send on the server's socket.
CanSend == is_connected_ /\ listener

\* OnNetworkMessage: HandleDeviceListRequest, HandleDeviceImportRequest and
\* HandleHeartbeat end in a Send, whose result they ignore.
OnNetworkMessage(c) ==
    /\ ~ub /\ handler[c] = "handle"
    /\ request' = [a \in Conns |->
                     IF request[a].state = "read"
                     THEN [request[a] EXCEPT !.state = IF CanSend THEN "answered" ELSE "dropped"]
                     ELSE request[a]]
    /\ handler' = [handler EXCEPT ![c] = "loop"]
    /\ UNCHANGED <<flags, client_fds_, fdTable, peer, accVars, fdOf,
                   mass_storage_devices_, main, ub>>

\* recv() returns 0, or fails because the descriptor is closed.
StreamEnded(c) ==
    Source(c) # None =>
        peer[Source(c)] = "closed" /\ request[Source(c)].state # "sent"

\* Mutant: the end of the stream does not end the loop.
ReceiveEndIgnored(c) ==
    /\ ~ub /\ handler[c] = "recv"
    /\ StreamEnded(c)
    /\ handler' = [handler EXCEPT ![c] = "loop"]
    /\ UNCHANGED <<flags, client_fds_, fdTable, clientVars, accVars, fdOf,
                   mass_storage_devices_, main, ub>>

ReceiveEnd(c) ==
    /\ ~ub /\ handler[c] = "recv"
    /\ StreamEnded(c)
    /\ handler' = [handler EXCEPT ![c] = "close"]
    /\ UNCHANGED <<flags, client_fds_, fdTable, clientVars, accVars, fdOf,
                   mass_storage_devices_, main, ub>>

\* Mutant: the descriptor is not closed.
HandlerKeepsFd(c) ==
    /\ ~ub /\ handler[c] = "close"
    /\ handler' = [handler EXCEPT ![c] = "erase"]
    /\ UNCHANGED <<flags, client_fds_, fdTable, clientVars, accVars, fdOf,
                   mass_storage_devices_, main, ub>>

HandlerClose(c) ==
    /\ ~ub /\ handler[c] = "close"
    /\ fdTable' = [fdTable EXCEPT ![fdOf[c]] = None]
    /\ handler' = [handler EXCEPT ![c] = "erase"]
    /\ UNCHANGED <<flags, client_fds_, clientVars, accVars, fdOf,
                   mass_storage_devices_, main, ub>>

\* Mutant: the descriptor is closed a second time.
HandlerEraseCloses(c) ==
    /\ ~ub /\ handler[c] = "erase"
    /\ client_fds_' = client_fds_ \ {fdOf[c]}
    /\ fdTable' = [fdTable EXCEPT ![fdOf[c]] = None]
    /\ handler' = [handler EXCEPT ![c] = "exited"]
    /\ UNCHANGED <<flags, clientVars, accVars, fdOf, mass_storage_devices_, main, ub>>

\* erase(remove(...)).
HandlerErase(c) ==
    /\ ~ub /\ handler[c] = "erase"
    /\ client_fds_' = client_fds_ \ {fdOf[c]}
    /\ handler' = [handler EXCEPT ![c] = "exited"]
    /\ UNCHANGED <<flags, fdTable, clientVars, accVars, fdOf,
                   mass_storage_devices_, main, ub>>

-----------------------------------------------------------------------------
(* mass_storage_devices_ *)

\* A handler is walking the vector: for a list or an import, not a heartbeat.
Walking == \E c \in Conns : /\ handler[c] = "handle"
                            /\ \E a \in Conns : /\ request[a].state = "read"
                                                /\ request[a].kind # "heartbeat"

UbIfWalking == ub' \in IF Walking THEN BOOLEAN ELSE {FALSE}

\* ScanMassStorageDevices, by main in Start.
ScanMassStorageDevices(found) ==
    /\ ~ub /\ main = "scan"
    /\ mass_storage_devices_' = found
    /\ UbIfWalking
    /\ main' = "run"
    /\ UNCHANGED <<flags, client_fds_, fdTable, clientVars, accVars, handler, fdOf>>

\* By the hot-plug thread; nothing is done for a device that goes away.
OnDeviceHotplug(d) ==
    /\ ~ub /\ main = "run"
    /\ d \notin mass_storage_devices_
    /\ mass_storage_devices_' = mass_storage_devices_ \cup {d}
    /\ UbIfWalking
    /\ UNCHANGED <<flags, client_fds_, fdTable, clientVars, accVars, handler, fdOf,
                   main>>

-----------------------------------------------------------------------------
(* main: Start and Stop *)

\* TcpSocket::Listen.
Listen ==
    /\ ~ub /\ main = "start"
    /\ is_listening_' = TRUE /\ should_stop_' = FALSE /\ listener' = TRUE
    /\ acc' = "loop"
    /\ main' = "scan"
    /\ UNCHANGED <<is_connected_, client_fds_, fdTable, clientVars, accConn, handler,
                   fdOf, mass_storage_devices_, ub>>

\* Mutant: Close sets no flag.
StopUnflagged ==
    /\ ~ub /\ main = "run"
    /\ main' = "closelistener"
    /\ UNCHANGED <<flags, client_fds_, fdTable, clientVars, accVars, handler, fdOf,
                   mass_storage_devices_, ub>>

\* Stop, up to the flags that TcpSocket::Close sets first.
Stop ==
    /\ ~ub /\ main = "run"
    /\ should_stop_' = TRUE /\ is_connected_' = FALSE /\ is_listening_' = FALSE
    /\ main' = "closelistener"
    /\ UNCHANGED <<listener, client_fds_, fdTable, clientVars, accVars, handler, fdOf,
                   mass_storage_devices_, ub>>

CloseListener ==
    /\ ~ub /\ main = "closelistener"
    /\ listener' = FALSE
    /\ main' = "closeclients"
    /\ UNCHANGED <<is_connected_, is_listening_, should_stop_, client_fds_, fdTable,
                   clientVars, accVars, handler, fdOf, mass_storage_devices_, ub>>

CloseClients ==
    /\ ~ub /\ main = "closeclients"
    /\ fdTable' = [f \in Fds |-> IF f \in client_fds_ THEN None ELSE fdTable[f]]
    /\ client_fds_' = {}
    /\ main' = "join"
    /\ UNCHANGED <<flags, clientVars, accVars, handler, fdOf, mass_storage_devices_, ub>>

CloseJoin ==
    /\ ~ub /\ main = "join" /\ acc = "exited"
    /\ acc' = "none"
    /\ main' = "clear"
    /\ UNCHANGED <<flags, client_fds_, fdTable, clientVars, accConn, handler, fdOf,
                   mass_storage_devices_, ub>>

ClearDevices ==
    /\ ~ub /\ main = "clear"
    /\ mass_storage_devices_' = {}
    /\ UbIfWalking
    /\ main' = "stopped"
    /\ UNCHANGED <<flags, client_fds_, fdTable, clientVars, accVars, handler, fdOf>>

-----------------------------------------------------------------------------

AcceptThread ==
    \/ AcceptLoop
    \/ \E c \in Conns, f \in Fds : Accept(c, f)
    \/ AcceptFails
    \/ PushClient
    \/ SpawnHandler

HandleClient(c) ==
    \/ HandlerLoop(c) \/ Receive(c) \/ OnNetworkMessage(c) \/ ReceiveEnd(c)
    \/ HandlerClose(c) \/ HandlerErase(c)

Close == CloseListener \/ CloseClients \/ CloseJoin \/ ClearDevices

Next ==
    \/ \E c \in Conns : ClientConnects(c) \/ ClientCloses(c)
    \/ \E c \in Conns, kind \in Requests : ClientAsks(c, kind)
    \/ AcceptThread
    \/ \E c \in Conns : HandleClient(c)
    \/ \E found \in SUBSET Devices : ScanMassStorageDevices(found)
    \/ \E d \in Devices : OnDeviceHotplug(d)
    \/ Listen
    \/ Stop
    \/ Close

Spec == Init /\ [][Next]_vars

(***************************************************************************)
(* The accept thread, the handlers and a main thread that is stopping run  *)
(* whenever they can.  Clients do as they please.                          *)
(***************************************************************************)
Fairness ==
    /\ WF_vars(AcceptThread)
    /\ \A c \in Conns : WF_vars(HandleClient(c))
    /\ WF_vars(Close)

FairSpec == Spec /\ Fairness

-----------------------------------------------------------------------------
(* Properties *)

\* The members of TcpSocket and UsbSender keep their types.
TypeOK ==
    /\ is_connected_ \in BOOLEAN /\ is_listening_ \in BOOLEAN
    /\ should_stop_ \in BOOLEAN /\ listener \in BOOLEAN
    /\ client_fds_ \subseteq Fds
    /\ fdTable \in [Fds -> Conns \cup {None}]
    /\ peer \in [Conns -> {"none", "open", "closed"}]
    /\ request \in [Conns -> [kind : Requests \cup {None},
                              state : {"none", "sent", "read", "answered", "dropped"}]]
    /\ acc \in {"none", "loop", "accept", "push", "spawn", "exited"}
    /\ accConn \in Conns \cup {None}
    /\ handler \in [Conns -> {"none", "loop", "recv", "handle", "close", "erase",
                              "exited"}]
    /\ fdOf \in [Conns -> Fds \cup {None}]
    /\ mass_storage_devices_ \subseteq Devices
    /\ main \in {"start", "scan", "run", "closelistener", "closeclients", "join",
                 "clear", "stopped"}
    /\ ub \in BOOLEAN

\* A handler reads from its own client and from no other, although it knows it
\* only by a descriptor number that others close and the kernel reuses; and
\* until Close nobody else closes it.
ReadsOwnClient ==
    \A c \in Conns : handler[c] \in {"loop", "recv"} =>
        Source(c) = c \/ (should_stop_ /\ Source(c) = None)

\* Every open descriptor is in the hands of a thread that will close it: the
\* accept thread, or the handler of its connection before its close().  And Close
\* leaves no handler waiting on an open connection (tcp_socket.cpp:160), unless
\* the number it should have closed was reused: an earlier handler that erases the
\* number after its close() then takes the new client out of client_fds_.
NoDescriptorLeak ==
    /\ \A f \in Fds : LET c == fdTable[f] IN
          c # None => /\ fdOf[c] = f
                      /\ c = accConn \/ handler[c] \in {"loop", "recv", "handle", "close"}
    /\ main \in {"join", "clear", "stopped"} =>
          \A c \in Conns : handler[c] = "recv" /\ Source(c) = c =>
              \E d \in Conns \ {c} : fdOf[d] = fdOf[c]

\* The descriptor of a client that goes away is closed, whatever the other
\* threads do.
ClientReleased ==
    \A c \in Conns : (peer[c] = "closed" /\ fdOf[c] # None)
                        ~> (ub \/ fdOf[c] = None \/ Source(c) # c)

\* Close comes back from the join of the accept thread.
CloseReturns == (main = "closelistener") ~> (main = "stopped" \/ ub)
=============================================================================
