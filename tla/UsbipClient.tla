---------------------------- MODULE UsbipClient ----------------------------
(***************************************************************************)
(* The receiver's connection: UsbipClient (receiver/usbip/usbip_client.cpp)*)
(* on top of a client TcpSocket (common/network/tcp_socket.cpp), driven by *)
(* the main thread in UsbReceiver::Start, Run and Stop.                    *)
(*                                                                         *)
(* Three threads share the atomics: main, the receive thread and the       *)
(* heartbeat thread.  Callbacks run on the thread that fires them, so      *)
(* OnNetworkConnect is executed by main (in Connect and Close) and by the  *)
(* receive thread (when it ends), each store being one step.  pc[t] is     *)
(* where thread t is; "none" means that the std::thread is not joinable,   *)
(* "exited" that its function has returned and it has not been joined.     *)
(*                                                                         *)
(* Assigning to, or destroying, a joinable std::thread and joining one     *)
(* that has been joined end the program; so does SIGPIPE, which nobody     *)
(* handles.  All of these are Terminate.                                   *)
(***************************************************************************)
EXTENDS Integers

CONSTANT MaxConnects    \* bound: connections established

ASSUME ConnectsAssumption == MaxConnects \in Nat \ {0}

VARIABLES
    is_connected_, should_stop_,        \* TcpSocket
    fd,                                 \* TcpSocket: socket_fd_ >= 0
    connected_, heartbeat_running_,     \* UsbipClient
    peerOpen,                           \* the sender has not closed the connection
    pc,
    ret,                                \* where StopHeartbeat returns to
    closing,                            \* why main is in TcpSocket::Close
    connects,
    descriptors,                        \* the kernel: sockets open in the process
    retried                             \* history: Run has called Connect again

flags == <<is_connected_, should_stop_, fd, connected_, heartbeat_running_>>
opened == <<descriptors, retried>>
vars == <<flags, peerOpen, pc, ret, closing, connects, opened>>

Threads == {"main", "recv", "hb"}

Init ==
    /\ is_connected_ = FALSE /\ should_stop_ = FALSE /\ fd = FALSE
    /\ connected_ = FALSE /\ heartbeat_running_ = FALSE
    /\ peerOpen = FALSE
    /\ pc = [t \in Threads |-> IF t = "main" THEN "idle" ELSE "none"]
    /\ ret = [t \in Threads |-> "idle"]
    /\ closing = "no" /\ connects = 0
    /\ descriptors = 0 /\ retried = FALSE

Goto(t, label) == pc[t] # label /\ pc' = [pc EXCEPT ![t] = label]

\* After a failure Start makes the program exit, while the loop of Run goes on.
GiveUp == IF connects = 1 THEN "stopped" ELSE "idle"

Terminate == pc' = [t \in Threads |-> "terminated"]

\* StopHeartbeat by thread t, to go on at label.
CallStopHeartbeat(t, label) ==
    /\ Goto(t, "stophb")
    /\ ret' = [ret EXCEPT ![t] = label]

\* TcpSocket::Send by thread t, to go on at sent or at failed.  It gives up silently
\* on a socket that is not connected; to a peer that has closed, it may succeed, fail
\* (OnNetworkError) or raise SIGPIPE.
Send(t, sent, failed) ==
    LET ready == is_connected_ /\ fd
    IN \/ ready /\ Goto(t, sent) /\ UNCHANGED connected_
       \/ ~ready /\ Goto(t, failed) /\ UNCHANGED connected_
       \/ ready /\ ~peerOpen /\ Goto(t, failed) /\ connected_' = FALSE
       \/ ready /\ ~peerOpen /\ Terminate /\ UNCHANGED connected_

-----------------------------------------------------------------------------
(* main: Connect, from Start (connects = 0) and from the loop of Run *)

\* socket() and connect() succeed.  socket_fd_ is overwritten: the descriptor of a
\* lost connection, which the receive thread has not closed, stays open.
ConnectSucceeds ==
    /\ pc["main"] = "idle"
    /\ ~connected_ /\ ~is_connected_
    /\ connects < MaxConnects
    /\ connects' = connects + 1
    /\ is_connected_' = TRUE /\ should_stop_' = FALSE /\ fd' = TRUE
    /\ descriptors' = descriptors + 1 /\ retried' = (connects > 0)
    /\ peerOpen' = TRUE
    /\ Goto("main", "spawn")
    /\ UNCHANGED <<connected_, heartbeat_running_, ret, closing>>

\* Mutant: the new socket is not closed when connect() fails.
ConnectFailsOpen ==
    /\ pc["main"] = "idle" /\ connects > 0
    /\ ~connected_ /\ ~is_connected_
    /\ fd' = FALSE /\ retried' = TRUE
    /\ descriptors' = descriptors + 1
    /\ UNCHANGED <<is_connected_, should_stop_, connected_, heartbeat_running_,
                   peerOpen, pc, ret, closing, connects>>

\* connect() fails: NotifyError; the new socket is closed, the one that socket()
\* has overwritten is not.  (In Start the program ends.)
ConnectFails ==
    /\ pc["main"] = "idle" /\ connects > 0
    /\ ~connected_ /\ ~is_connected_
    /\ fd' = FALSE /\ retried' = TRUE
    /\ UNCHANGED <<is_connected_, should_stop_, connected_, heartbeat_running_,
                   peerOpen, pc, ret, closing, connects, descriptors>>

SpawnReceive ==
    /\ pc["main"] = "spawn"
    /\ IF pc["recv"] # "none"
       THEN Terminate
       ELSE pc' = [pc EXCEPT !["main"] = "notify", !["recv"] = "loop"]
    /\ UNCHANGED <<flags, peerOpen, ret, closing, connects, opened>>

\* NotifyConnect(true): OnNetworkConnect stores connected_.
NotifyConnected ==
    /\ pc["main"] = "notify"
    /\ connected_' = TRUE
    /\ Goto("main", "starthb")
    /\ UNCHANGED <<is_connected_, should_stop_, fd, heartbeat_running_, peerOpen,
                   ret, closing, connects, opened>>

StartHeartbeat ==
    /\ pc["main"] = "starthb"
    /\ heartbeat_running_' = TRUE
    /\ Goto("main", IF heartbeat_running_ THEN "confirm" ELSE "spawnhb")
    /\ UNCHANGED <<is_connected_, should_stop_, fd, connected_, peerOpen, ret,
                   closing, connects, opened>>

SpawnHeartbeat ==
    /\ pc["main"] = "spawnhb"
    /\ IF pc["hb"] # "none"
       THEN Terminate
       ELSE pc' = [pc EXCEPT !["main"] = "confirm", !["hb"] = "loop"]
    /\ UNCHANGED <<flags, peerOpen, ret, closing, connects, opened>>

\* Mutant: the wait has no limit.
ConfirmForever ==
    /\ pc["main"] = "confirm"
    /\ connected_
    /\ Goto("main", "request")
    /\ UNCHANGED <<flags, peerOpen, ret, closing, connects, opened>>

\* The wait for the confirmation ends: connected, or five seconds later.
Confirm ==
    /\ pc["main"] = "confirm"
    /\ IF connected_
       THEN Goto("main", "request") /\ UNCHANGED closing
       ELSE Goto("main", "close") /\ closing' = "timeout"
    /\ UNCHANGED <<flags, peerOpen, ret, connects, opened>>

\* Mutant: Start does not look at the result.
RequestIgnored ==
    /\ pc["main"] = "request"
    /\ Goto("main", "idle")
    /\ UNCHANGED <<flags, peerOpen, ret, closing, connects, opened>>

\* RequestDeviceList: without a connection nothing is sent.
RequestDeviceList ==
    /\ pc["main"] = "request"
    /\ \/ connected_ /\ Send("main", "idle", GiveUp)
       \/ ~connected_ /\ Goto("main", GiveUp) /\ UNCHANGED connected_
    /\ UNCHANGED <<is_connected_, should_stop_, fd, heartbeat_running_, peerOpen,
                   ret, closing, connects, opened>>

-----------------------------------------------------------------------------
(* main: Stop, which calls Disconnect, and the destructors at exit *)

Disconnect ==
    /\ pc["main"] = "idle" /\ connects > 0
    /\ IF connected_
       THEN CallStopHeartbeat("main", "close") /\ closing' = "stop"
       ELSE Goto("main", "stopped") /\ UNCHANGED <<ret, closing>>
    /\ UNCHANGED <<flags, peerOpen, connects, opened>>

\* ~UsbipClient destroys heartbeat_thread_ and then the socket, which closes.
\* (Its Disconnect does the work of Stop if the client is still connected.)
DestroyClient ==
    /\ pc["main"] = "stopped"
    /\ IF connected_
       THEN CallStopHeartbeat("main", "close") /\ closing' = "stop"
       ELSE IF pc["hb"] # "none"
            THEN Terminate /\ UNCHANGED <<ret, closing>>
            ELSE Goto("main", "close") /\ closing' = "destroy" /\ UNCHANGED ret
    /\ UNCHANGED <<flags, peerOpen, connects, opened>>

-----------------------------------------------------------------------------
(* main: TcpSocket::Close *)

Close ==
    /\ pc["main"] = "close"
    /\ should_stop_' = TRUE /\ is_connected_' = FALSE /\ fd' = FALSE
    /\ descriptors' = IF fd THEN descriptors - 1 ELSE descriptors
    /\ Goto("main", "joinrecv")
    /\ UNCHANGED <<connected_, heartbeat_running_, peerOpen, ret, closing, connects,
                   retried>>

\* Mutant: the receive thread is not joined.
CloseWithoutJoin ==
    /\ pc["main"] = "joinrecv"
    /\ Goto("main", "closenotify")
    /\ UNCHANGED <<flags, peerOpen, ret, closing, connects, opened>>

CloseJoin ==
    /\ pc["main"] = "joinrecv"
    /\ pc["recv"] \in {"none", "exited"}
    /\ pc' = [pc EXCEPT !["main"] = "closenotify", !["recv"] = "none"]
    /\ UNCHANGED <<flags, peerOpen, ret, closing, connects, opened>>

\* NotifyConnect(false): OnNetworkConnect stores connected_ and stops the
\* heartbeat.
CloseNotify ==
    /\ pc["main"] = "closenotify"
    /\ connected_' = FALSE
    /\ CallStopHeartbeat("main", CASE closing = "timeout" -> GiveUp
                                   [] closing = "stop"    -> "stopped"
                                   [] closing = "destroy" -> "exited")
    /\ closing' = "no"
    /\ UNCHANGED <<is_connected_, should_stop_, fd, heartbeat_running_, peerOpen,
                   connects, opened>>

-----------------------------------------------------------------------------
(* StopHeartbeat, by main or by the receive thread *)

StopHeartbeat(t) ==
    /\ pc[t] = "stophb"
    /\ Goto(t, IF heartbeat_running_ THEN "clearhb" ELSE ret[t])
    /\ UNCHANGED <<flags, peerOpen, ret, closing, connects, opened>>

\* Mutant: the flag is not cleared before the join.
JoinRunningHeartbeat(t) ==
    /\ pc[t] = "clearhb"
    /\ Goto(t, IF pc["hb"] # "none" THEN "joinhb" ELSE ret[t])
    /\ UNCHANGED <<flags, peerOpen, ret, closing, connects, opened>>

ClearHeartbeat(t) ==
    /\ pc[t] = "clearhb"
    /\ heartbeat_running_' = FALSE
    /\ Goto(t, IF pc["hb"] # "none" THEN "joinhb" ELSE ret[t])
    /\ UNCHANGED <<is_connected_, should_stop_, fd, connected_, peerOpen, ret,
                   closing, connects, opened>>

\* Whoever comes second joins a thread that is gone.
JoinHeartbeat(t) ==
    /\ pc[t] = "joinhb"
    /\ \/ /\ pc["hb"] = "exited"
          /\ pc' = [pc EXCEPT ![t] = ret[t], !["hb"] = "none"]
       \/ pc["hb"] = "none" /\ Terminate
    /\ UNCHANGED <<flags, peerOpen, ret, closing, connects, opened>>

-----------------------------------------------------------------------------
(* The receive thread *)

\* The loop condition; recv() on a closed descriptor fails at once.
ReceiveLoop ==
    /\ pc["recv"] = "loop"
    /\ IF should_stop_ \/ ~is_connected_
       THEN Goto("recv", "down") /\ UNCHANGED connected_
       ELSE IF fd
            THEN Goto("recv", "blocked") /\ UNCHANGED connected_
            ELSE Goto("recv", "down") /\ connected_' = FALSE
    /\ UNCHANGED <<is_connected_, should_stop_, fd, heartbeat_running_, peerOpen,
                   ret, closing, connects, opened>>

\* recv() returns data.  A thread blocked in recv() is not woken by close() in
\* another thread (Linux).
ReceiveData ==
    /\ pc["recv"] = "blocked" /\ peerOpen
    /\ Goto("recv", "callback")
    /\ UNCHANGED <<flags, peerOpen, ret, closing, connects, opened>>

\* data_callback_: what it receives may make the client send import requests or a
\* URB response.
ReceiveCallback ==
    /\ pc["recv"] = "callback"
    /\ \/ Goto("recv", "loop") /\ UNCHANGED connected_
       \/ connected_ /\ Send("recv", "loop", "loop")
    /\ UNCHANGED <<is_connected_, should_stop_, fd, heartbeat_running_, peerOpen,
                   ret, closing, connects, opened>>

\* recv() returns 0, or an error, which NotifyError passes to OnNetworkError.
ReceiveEnd ==
    /\ pc["recv"] = "blocked" /\ ~peerOpen
    /\ connected_' \in {connected_, FALSE}
    /\ Goto("recv", "down")
    /\ UNCHANGED <<is_connected_, should_stop_, fd, heartbeat_running_, peerOpen,
                   ret, closing, connects, opened>>

ReceiveDown ==
    /\ pc["recv"] = "down"
    /\ is_connected_' = FALSE
    /\ Goto("recv", "notify")
    /\ UNCHANGED <<should_stop_, fd, connected_, heartbeat_running_, peerOpen,
                   ret, closing, connects, opened>>

\* Mutant: NotifyConnect(true), which starts a heartbeat on the receive thread.
ReceiveNotifyTrue ==
    /\ pc["recv"] = "notify"
    /\ connected_' = TRUE
    /\ Goto("recv", "starthb")
    /\ UNCHANGED <<is_connected_, should_stop_, fd, heartbeat_running_, peerOpen,
                   ret, closing, connects, opened>>

\* NotifyConnect(false) from the receive thread.
ReceiveNotify ==
    /\ pc["recv"] = "notify"
    /\ connected_' = FALSE
    /\ CallStopHeartbeat("recv", "exited")
    /\ UNCHANGED <<is_connected_, should_stop_, fd, heartbeat_running_, peerOpen,
                   closing, connects, opened>>

-----------------------------------------------------------------------------
(* The heartbeat thread *)

HeartbeatWanted == heartbeat_running_ /\ connected_

HeartbeatLoop ==
    /\ pc["hb"] = "loop"
    /\ Goto("hb", IF HeartbeatWanted THEN "sleep" ELSE "exited")
    /\ UNCHANGED <<flags, peerOpen, ret, closing, connects, opened>>

HeartbeatWake ==
    /\ pc["hb"] = "sleep"
    /\ Goto("hb", IF HeartbeatWanted THEN "send" ELSE "exited")
    /\ UNCHANGED <<flags, peerOpen, ret, closing, connects, opened>>

HeartbeatSend ==
    /\ pc["hb"] = "send"
    /\ Send("hb", "loop", "loop")
    /\ UNCHANGED <<is_connected_, should_stop_, fd, heartbeat_running_, peerOpen,
                   ret, closing, connects, opened>>

-----------------------------------------------------------------------------
(* The sender, or the network, closes the connection *)

PeerCloses ==
    /\ peerOpen
    /\ peerOpen' = FALSE
    /\ UNCHANGED <<flags, pc, ret, closing, connects, opened>>

-----------------------------------------------------------------------------

StopHb(t) == StopHeartbeat(t) \/ ClearHeartbeat(t) \/ JoinHeartbeat(t)

Main ==
    \/ SpawnReceive \/ NotifyConnected \/ StartHeartbeat \/ SpawnHeartbeat
    \/ Confirm \/ RequestDeviceList
    \/ DestroyClient \/ Close \/ CloseJoin \/ CloseNotify
    \/ StopHb("main")

Receive ==
    \/ ReceiveLoop \/ ReceiveCallback \/ ReceiveEnd \/ ReceiveDown \/ ReceiveNotify
    \/ StopHb("recv")

Heartbeat == HeartbeatLoop \/ HeartbeatWake \/ HeartbeatSend

Next ==
    \/ ConnectSucceeds \/ ConnectFails \/ Disconnect
    \/ Main
    \/ Receive \/ ReceiveData
    \/ Heartbeat
    \/ PeerCloses

Spec == Init /\ [][Next]_vars

(***************************************************************************)
(* The three threads run whenever they can.  Nothing is assumed of the     *)
(* peer, which may never send and never close, of the user, who may never  *)
(* stop the program, and of connect(), which may always fail.              *)
(***************************************************************************)
Fairness == WF_vars(Main) /\ WF_vars(Receive) /\ WF_vars(Heartbeat)

FairSpec == Spec /\ Fairness

-----------------------------------------------------------------------------
(* Properties *)

MainPcs == {"idle", "spawn", "notify", "starthb", "spawnhb", "confirm", "request",
            "close", "joinrecv", "closenotify", "stophb", "clearhb", "joinhb",
            "stopped", "exited", "terminated"}
RecvPcs == {"none", "loop", "blocked", "callback", "down", "notify", "stophb",
            "clearhb", "joinhb", "exited", "terminated"}
HbPcs   == {"none", "loop", "sleep", "send", "exited", "terminated"}

\* The flags are initialised Booleans and the threads are at a known place.
TypeOK ==
    /\ is_connected_ \in BOOLEAN /\ should_stop_ \in BOOLEAN /\ fd \in BOOLEAN
    /\ connected_ \in BOOLEAN /\ heartbeat_running_ \in BOOLEAN
    /\ peerOpen \in BOOLEAN
    /\ DOMAIN pc = Threads
    /\ pc["main"] \in MainPcs /\ pc["recv"] \in RecvPcs /\ pc["hb"] \in HbPcs
    /\ ret \in [Threads -> {"idle", "close", "stopped", "exited"}]
    /\ closing \in {"no", "timeout", "stop", "destroy"}
    /\ connects \in Nat /\ descriptors \in Nat /\ retried \in BOOLEAN

\* How the program ends.  When it exits normally, no thread is running and no flag
\* says connected, whichever of Stop, the receive thread and the destructors took the
\* connection down; and every descriptor is closed, except that Run, if it has tried
\* to reconnect, has overwritten the one of the first connection, and that one only,
\* however often it tried (tcp_socket.cpp:31).  And it is never ended in another way
\* (SIGPIPE, a joinable std::thread destroyed or assigned to, a second join) while
\* the sender keeps the first connection open.
EndIsAccounted ==
    /\ pc["main"] = "exited" =>
          /\ pc["recv"] = "none" /\ pc["hb"] = "none"
          /\ ~fd /\ ~is_connected_ /\ ~connected_
          /\ descriptors = IF retried THEN 1 ELSE 0
    /\ pc["main"] = "terminated" => ~peerOpen \/ connects > 1

\* Connect always comes back, also when the connection is lost while it waits
\* for the confirmation and it has to close the socket again.
ConnectReturns ==
    (pc["main"] = "spawn") ~> (pc["main"] \in {"idle", "stopped", "terminated"})

\* No join waits for ever: neither main nor the receive thread for the heartbeat
\* thread, and main for the receive thread only while that one sits in recv() on a
\* connection that the sender keeps open and silent (close() does not wake it, so
\* Ctrl+C, receiver/main.cpp:110, ends the program only when the sender speaks).
JoinsReturn ==
    /\ \A t \in {"main", "recv"} : (pc[t] = "joinhb") ~> (pc[t] # "joinhb")
    /\ (pc["main"] = "joinrecv")
          ~> (pc["main"] # "joinrecv" \/ (pc["recv"] = "blocked" /\ peerOpen))

\* README.md:10 promises reconnection: establishing a connection after the first
\* does not end the program.
ReconnectSurvives == [][SpawnReceive => pc'["main"] # "terminated"]_vars

\* Run reconnects when the client does not report a connection: a connection
\* that is gone does not stay reported as connected, although main stores TRUE
\* in connected_ and the receive thread FALSE in either order.  (When the stores
\* come in the wrong order, Start's request fails and the program exits.)
LossNoticed == (pc["recv"] = "exited") ~> (~connected_ \/ pc["recv"] # "exited")
=============================================================================
