------------------------- MODULE UsbipClientProofs -------------------------
(***************************************************************************)
(* Proofs about UsbipClient, for every bound on the connections.           *)
(***************************************************************************)
EXTENDS UsbipClient, TLAPS

-----------------------------------------------------------------------------
(* The inductive invariant *)

InStopHb(t) == pc[t] \in {"stophb", "clearhb", "joinhb"}

\* In TcpSocket::Close main knows why it is there, and StopHeartbeat sends it
\* there only from Disconnect; the receive thread calls StopHeartbeat last.
ReturnInv ==
    /\ pc["main"] \in {"close", "joinrecv", "closenotify"} => closing # "no"
    /\ InStopHb("main") /\ ret["main"] = "close" => closing = "stop"
    /\ InStopHb("recv") => ret["recv"] = "exited"

\* What Close has taken down by the time main is at each of its steps.
CloseInv ==
    /\ pc["main"] \in {"joinrecv", "closenotify"} => ~fd /\ ~is_connected_
    /\ pc["main"] = "closenotify" => pc["recv"] = "none"

\* The destructor of the socket runs after that of heartbeat_thread_, and nothing
\* that it has taken down comes up again on the way out.
DestroyInv ==
    /\ pc["main"] \in {"close", "joinrecv", "closenotify"} /\ closing = "destroy"
          => pc["hb"] = "none"
    /\ (InStopHb("main") /\ ret["main"] = "exited") \/ pc["main"] = "exited"
          => /\ pc["recv"] = "none" /\ pc["hb"] = "none"
             /\ ~fd /\ ~is_connected_ /\ ~connected_

\* Each thread is at a place of its own function.
PlacesOK ==
    /\ DOMAIN pc = Threads
    /\ pc["main"] \in MainPcs /\ pc["recv"] \in RecvPcs /\ pc["hb"] \in HbPcs

\* The descriptor in socket_fd_ is an open one.
OpenCounted == fd => descriptors >= 1

IInv == TypeOK /\ ReturnInv /\ CloseInv /\ DestroyInv /\ OpenCounted

-----------------------------------------------------------------------------
(* Initial states and steps *)

LEMMA InitInv == Init => IInv
<1> SUFFICES ASSUME Init PROVE IInv
  OBVIOUS
<1>1. ret \in [Threads -> {"idle", "close", "stopped", "exited"}]
  BY DEF Init
<1>2. PlacesOK /\ pc["main"] = "idle" /\ pc["recv"] = "none"
  BY DEF Init, PlacesOK, Threads, MainPcs, RecvPcs, HbPcs
<1>3. TypeOK
  BY <1>1, <1>2 DEF Init, TypeOK, PlacesOK
<1>4. ReturnInv /\ CloseInv /\ DestroyInv /\ OpenCounted
  BY <1>2 DEF Init, ReturnInv, CloseInv, DestroyInv, OpenCounted, InStopHb
<1> QED
  BY <1>3, <1>4 DEF IInv

\* Connect: socket() and connect() succeed.
LEMMA ConnectSucceedsInv ==
    ASSUME IInv, ConnectSucceeds
    PROVE  IInv'
<1>1. TypeOK'
  <2>1. (connects \in Nat /\ descriptors \in Nat)'
    BY DEF ConnectSucceeds, IInv, TypeOK
  <2>2. PlacesOK'
    BY DEF ConnectSucceeds, Goto, IInv, PlacesOK, TypeOK, MainPcs, RecvPcs, HbPcs,
       Threads
  <2>3. (retried \in BOOLEAN)'
    BY DEF ConnectSucceeds
  <2> QED
    BY <2>1, <2>2, <2>3 DEF ConnectSucceeds, Goto, IInv, TypeOK, PlacesOK
<1>2. (ReturnInv /\ CloseInv /\ DestroyInv /\ OpenCounted)'
  BY DEF ConnectSucceeds, Goto, IInv, OpenCounted, ReturnInv, CloseInv,
     DestroyInv, InStopHb, TypeOK, MainPcs, RecvPcs, HbPcs, Threads
<1> QED
  BY <1>1, <1>2 DEF IInv

\* Connect that fails.
LEMMA ConnectFailsInv ==
    ASSUME IInv, ConnectFails
    PROVE  IInv'
<1>1. TypeOK'
  <2>1. PlacesOK'
    BY DEF ConnectFails, Goto, IInv, PlacesOK, TypeOK, MainPcs, RecvPcs, HbPcs,
       Threads
  <2> QED
    BY <2>1 DEF ConnectFails, Goto, IInv, TypeOK, PlacesOK
<1>2. (ReturnInv /\ CloseInv /\ DestroyInv /\ OpenCounted)'
  BY DEF ConnectFails, Goto, IInv, OpenCounted, ReturnInv, CloseInv, DestroyInv,
     InStopHb, TypeOK, MainPcs, RecvPcs, HbPcs, Threads
<1> QED
  BY <1>1, <1>2 DEF IInv

\* Connect starts the receive thread.
LEMMA SpawnReceiveInv ==
    ASSUME IInv, SpawnReceive
    PROVE  IInv'
<1>1. TypeOK'
  BY DEF SpawnReceive, flags, opened, Terminate, IInv, ReturnInv, InStopHb,
     TypeOK, MainPcs, RecvPcs, HbPcs, Threads
<1>2. (ReturnInv /\ CloseInv /\ DestroyInv /\ OpenCounted)'
  BY DEF SpawnReceive, flags, opened, Terminate, IInv, OpenCounted, ReturnInv,
     CloseInv, DestroyInv, InStopHb, TypeOK, MainPcs, RecvPcs, HbPcs, Threads
<1> QED
  BY <1>1, <1>2 DEF IInv

\* The callback of Connect.
LEMMA NotifyConnectedInv ==
    ASSUME IInv, NotifyConnected
    PROVE  IInv'
<1>1. TypeOK'
  BY DEF NotifyConnected, opened, Goto, IInv, ReturnInv, InStopHb, TypeOK,
     MainPcs, RecvPcs, HbPcs, Threads
<1>2. (ReturnInv /\ CloseInv /\ DestroyInv /\ OpenCounted)'
  BY DEF NotifyConnected, opened, Goto, IInv, OpenCounted, ReturnInv, CloseInv,
     DestroyInv, InStopHb, TypeOK, MainPcs, RecvPcs, HbPcs, Threads
<1> QED
  BY <1>1, <1>2 DEF IInv

\* The test and set of heartbeat_running_.
LEMMA StartHeartbeatInv ==
    ASSUME IInv, StartHeartbeat
    PROVE  IInv'
<1>1. TypeOK'
  BY DEF StartHeartbeat, opened, Goto, IInv, ReturnInv, InStopHb, TypeOK, MainPcs,
     RecvPcs, HbPcs, Threads
<1>2. (ReturnInv /\ CloseInv /\ DestroyInv /\ OpenCounted)'
  BY DEF StartHeartbeat, opened, Goto, IInv, OpenCounted, ReturnInv, CloseInv,
     DestroyInv, InStopHb, TypeOK, MainPcs, RecvPcs, HbPcs, Threads
<1> QED
  BY <1>1, <1>2 DEF IInv

\* The heartbeat thread is started.
LEMMA SpawnHeartbeatInv ==
    ASSUME IInv, SpawnHeartbeat
    PROVE  IInv'
<1>1. TypeOK'
  BY DEF SpawnHeartbeat, flags, opened, Terminate, IInv, ReturnInv, InStopHb,
     TypeOK, MainPcs, RecvPcs, HbPcs, Threads
<1>2. (ReturnInv /\ CloseInv /\ DestroyInv /\ OpenCounted)'
  BY DEF SpawnHeartbeat, flags, opened, Terminate, IInv, OpenCounted, ReturnInv,
     CloseInv, DestroyInv, InStopHb, TypeOK, MainPcs, RecvPcs, HbPcs, Threads
<1> QED
  BY <1>1, <1>2 DEF IInv

\* The wait of Connect ends.
LEMMA ConfirmInv ==
    ASSUME IInv, Confirm
    PROVE  IInv'
<1>1. TypeOK'
  BY DEF Confirm, flags, opened, Goto, IInv, ReturnInv, InStopHb, TypeOK, MainPcs,
     RecvPcs, HbPcs, Threads
<1>2. (ReturnInv /\ CloseInv /\ DestroyInv /\ OpenCounted)'
  BY DEF Confirm, flags, opened, Goto, IInv, OpenCounted, ReturnInv, CloseInv,
     DestroyInv, InStopHb, TypeOK, MainPcs, RecvPcs, HbPcs, Threads
<1> QED
  BY <1>1, <1>2 DEF IInv

\* The request that Start and Run make.
LEMMA RequestDeviceListInv ==
    ASSUME IInv, RequestDeviceList
    PROVE  IInv'
<1>1. TypeOK'
  BY DEF RequestDeviceList, opened, Send, Terminate, Goto, GiveUp, IInv,
     ReturnInv, InStopHb, TypeOK, MainPcs, RecvPcs, HbPcs, Threads
<1>2. (ReturnInv /\ CloseInv /\ DestroyInv /\ OpenCounted)'
  BY DEF RequestDeviceList, opened, Send, Terminate, Goto, GiveUp, IInv,
     OpenCounted, ReturnInv, CloseInv, DestroyInv, InStopHb, TypeOK, MainPcs,
     RecvPcs, HbPcs, Threads
<1> QED
  BY <1>1, <1>2 DEF IInv

\* Stop.
LEMMA DisconnectInv ==
    ASSUME IInv, Disconnect
    PROVE  IInv'
<1>1. TypeOK'
  BY DEF Disconnect, flags, opened, CallStopHeartbeat, Goto, IInv, ReturnInv,
     InStopHb, TypeOK, MainPcs, RecvPcs, HbPcs, Threads
<1>2. (ReturnInv /\ CloseInv /\ DestroyInv /\ OpenCounted)'
  BY DEF Disconnect, flags, opened, CallStopHeartbeat, Goto, IInv, OpenCounted,
     ReturnInv, CloseInv, DestroyInv, InStopHb, TypeOK, MainPcs, RecvPcs, HbPcs,
     Threads
<1> QED
  BY <1>1, <1>2 DEF IInv

\* The destructor of the client: the heartbeat thread is not joinable.
LEMMA DestroyClientInv ==
    ASSUME IInv, DestroyClient
    PROVE  IInv'
<1>1. TypeOK'
  BY DEF DestroyClient, flags, opened, Terminate, CallStopHeartbeat, Goto, IInv,
     ReturnInv, InStopHb, TypeOK, MainPcs, RecvPcs, HbPcs, Threads
<1>2. (ReturnInv /\ CloseInv /\ DestroyInv /\ OpenCounted)'
  BY DEF DestroyClient, flags, opened, Terminate, CallStopHeartbeat, Goto, IInv,
     OpenCounted, ReturnInv, CloseInv, DestroyInv, InStopHb, TypeOK, MainPcs,
     RecvPcs, HbPcs, Threads
<1> QED
  BY <1>1, <1>2 DEF IInv

\* Close sets the flags, opened and closes the descriptor.
LEMMA CloseInvariant ==
    ASSUME IInv, Close
    PROVE  IInv'
<1>1. TypeOK'
  <2>1. (descriptors \in Nat)'
    BY DEF Close, IInv, OpenCounted, TypeOK
  <2>2. PlacesOK'
    BY DEF Close, Goto, IInv, PlacesOK, TypeOK, MainPcs, RecvPcs, HbPcs, Threads
  <2> QED
    BY <2>1, <2>2 DEF Close, Goto, IInv, TypeOK, PlacesOK
<1>2. (ReturnInv /\ CloseInv /\ DestroyInv /\ OpenCounted)'
  BY DEF Close, Goto, IInv, OpenCounted, ReturnInv, CloseInv, DestroyInv,
     InStopHb, TypeOK, MainPcs, RecvPcs, HbPcs, Threads
<1> QED
  BY <1>1, <1>2 DEF IInv

\* Close joins the receive thread.
LEMMA CloseJoinInv ==
    ASSUME IInv, CloseJoin
    PROVE  IInv'
<1>1. TypeOK'
  BY DEF CloseJoin, flags, opened, IInv, ReturnInv, InStopHb, TypeOK, MainPcs,
     RecvPcs, HbPcs, Threads
<1>2. (ReturnInv /\ CloseInv /\ DestroyInv /\ OpenCounted)'
  BY DEF CloseJoin, flags, opened, IInv, OpenCounted, ReturnInv, CloseInv,
     DestroyInv, InStopHb, TypeOK, MainPcs, RecvPcs, HbPcs, Threads
<1> QED
  BY <1>1, <1>2 DEF IInv

\* Close calls OnNetworkConnect.
LEMMA CloseNotifyInv ==
    ASSUME IInv, CloseNotify
    PROVE  IInv'
<1>1. TypeOK'
  <2>1. (ret \in [Threads -> {"idle", "close", "stopped", "exited"}])'
    BY DEF CloseNotify, opened, CallStopHeartbeat, Goto, IInv, ReturnInv, TypeOK,
       Threads, GiveUp
  <2>2. PlacesOK'
    BY DEF CloseNotify, CallStopHeartbeat, Goto, IInv, PlacesOK, TypeOK, MainPcs,
       RecvPcs, HbPcs, Threads
  <2> QED
    BY <2>1, <2>2 DEF CloseNotify, opened, CallStopHeartbeat, Goto, IInv, TypeOK,
       PlacesOK
<1>2. (ReturnInv /\ CloseInv /\ DestroyInv /\ OpenCounted)'
  BY DEF CloseNotify, opened, CallStopHeartbeat, GiveUp, Goto, IInv, OpenCounted,
     ReturnInv, CloseInv, DestroyInv, InStopHb, TypeOK, MainPcs, RecvPcs, HbPcs,
     Threads
<1> QED
  BY <1>1, <1>2 DEF IInv

\* StopHeartbeat, by either of the threads that call it.
LEMMA StopHeartbeatInv ==
    ASSUME IInv, NEW t \in {"main", "recv"}, StopHeartbeat(t)
    PROVE  IInv'
<1>1. TypeOK'
  BY DEF StopHeartbeat, flags, opened, Goto, IInv, ReturnInv, InStopHb, TypeOK,
     MainPcs, RecvPcs, HbPcs, Threads
<1>2. (ReturnInv /\ CloseInv /\ DestroyInv /\ OpenCounted)'
  BY DEF StopHeartbeat, flags, opened, Goto, IInv, OpenCounted, ReturnInv,
     CloseInv, DestroyInv, InStopHb, TypeOK, MainPcs, RecvPcs, HbPcs, Threads
<1> QED
  BY <1>1, <1>2 DEF IInv

\* Its flag is cleared.
LEMMA ClearHeartbeatInv ==
    ASSUME IInv, NEW t \in {"main", "recv"}, ClearHeartbeat(t)
    PROVE  IInv'
<1>1. TypeOK'
  <2>1. PlacesOK'
    BY DEF ClearHeartbeat, Goto, IInv, ReturnInv, InStopHb, PlacesOK, TypeOK,
       MainPcs, RecvPcs, HbPcs, Threads
  <2> QED
    BY <2>1 DEF ClearHeartbeat, opened, Goto, IInv, TypeOK, PlacesOK
<1>2. (ReturnInv /\ CloseInv /\ DestroyInv /\ OpenCounted)'
  BY DEF ClearHeartbeat, opened, Goto, IInv, OpenCounted, ReturnInv, CloseInv,
     DestroyInv, InStopHb, TypeOK, MainPcs, RecvPcs, HbPcs, Threads
<1> QED
  BY <1>1, <1>2 DEF IInv

\* Its join, where the second to come ends the program.
LEMMA JoinHeartbeatInv ==
    ASSUME IInv, NEW t \in {"main", "recv"}, JoinHeartbeat(t)
    PROVE  IInv'
<1>1. TypeOK'
  BY DEF JoinHeartbeat, flags, opened, Terminate, IInv, ReturnInv, InStopHb,
     TypeOK, MainPcs, RecvPcs, HbPcs, Threads
<1>2. (ReturnInv /\ CloseInv /\ DestroyInv /\ OpenCounted)'
  BY DEF JoinHeartbeat, flags, opened, Terminate, IInv, OpenCounted, ReturnInv,
     CloseInv, DestroyInv, InStopHb, TypeOK, MainPcs, RecvPcs, HbPcs, Threads
<1> QED
  BY <1>1, <1>2 DEF IInv

\* The loop condition of the receive thread.
LEMMA ReceiveLoopInv ==
    ASSUME IInv, ReceiveLoop
    PROVE  IInv'
<1>1. TypeOK'
  <2>1. PlacesOK'
    BY DEF ReceiveLoop, Goto, IInv, PlacesOK, TypeOK, MainPcs, RecvPcs, HbPcs,
       Threads
  <2> QED
    BY <2>1 DEF ReceiveLoop, opened, Goto, IInv, TypeOK, PlacesOK
<1>2. (ReturnInv /\ CloseInv /\ DestroyInv /\ OpenCounted)'
  BY DEF ReceiveLoop, opened, Goto, IInv, OpenCounted, ReturnInv, CloseInv,
     DestroyInv, InStopHb, TypeOK, MainPcs, RecvPcs, HbPcs, Threads
<1> QED
  BY <1>1, <1>2 DEF IInv

\* recv() returns data.
LEMMA ReceiveDataInv ==
    ASSUME IInv, ReceiveData
    PROVE  IInv'
<1>1. TypeOK'
  BY DEF ReceiveData, flags, opened, Goto, IInv, ReturnInv, InStopHb, TypeOK,
     MainPcs, RecvPcs, HbPcs, Threads
<1>2. (ReturnInv /\ CloseInv /\ DestroyInv /\ OpenCounted)'
  BY DEF ReceiveData, flags, opened, Goto, IInv, OpenCounted, ReturnInv, CloseInv,
     DestroyInv, InStopHb, TypeOK, MainPcs, RecvPcs, HbPcs, Threads
<1> QED
  BY <1>1, <1>2 DEF IInv

\* What it returned is handled, and may be answered.
LEMMA ReceiveCallbackInv ==
    ASSUME IInv, ReceiveCallback
    PROVE  IInv'
<1>1. TypeOK'
  <2>1. PlacesOK'
    BY DEF ReceiveCallback, Send, Goto, Terminate, IInv, PlacesOK, TypeOK,
       MainPcs, RecvPcs, HbPcs, Threads
  <2> QED
    BY <2>1 DEF ReceiveCallback, Send, Goto, Terminate, opened, IInv, TypeOK,
       PlacesOK
<1>2. (ReturnInv /\ CloseInv /\ DestroyInv /\ OpenCounted)'
  BY DEF ReceiveCallback, Send, Goto, Terminate, opened, IInv, OpenCounted,
     ReturnInv, CloseInv, DestroyInv, InStopHb, TypeOK, MainPcs, RecvPcs, HbPcs,
     Threads
<1> QED
  BY <1>1, <1>2 DEF IInv

\* recv() returns nothing.
LEMMA ReceiveEndInv ==
    ASSUME IInv, ReceiveEnd
    PROVE  IInv'
<1>1. TypeOK'
  BY DEF ReceiveEnd, opened, Goto, IInv, ReturnInv, InStopHb, TypeOK, MainPcs,
     RecvPcs, HbPcs, Threads
<1>2. (ReturnInv /\ CloseInv /\ DestroyInv /\ OpenCounted)'
  BY DEF ReceiveEnd, opened, Goto, IInv, OpenCounted, ReturnInv, CloseInv,
     DestroyInv, InStopHb, TypeOK, MainPcs, RecvPcs, HbPcs, Threads
<1> QED
  BY <1>1, <1>2 DEF IInv

\* The receive thread clears is_connected_.
LEMMA ReceiveDownInv ==
    ASSUME IInv, ReceiveDown
    PROVE  IInv'
<1>1. TypeOK'
  BY DEF ReceiveDown, opened, Goto, IInv, ReturnInv, InStopHb, TypeOK, MainPcs,
     RecvPcs, HbPcs, Threads
<1>2. (ReturnInv /\ CloseInv /\ DestroyInv /\ OpenCounted)'
  BY DEF ReceiveDown, opened, Goto, IInv, OpenCounted, ReturnInv, CloseInv,
     DestroyInv, InStopHb, TypeOK, MainPcs, RecvPcs, HbPcs, Threads
<1> QED
  BY <1>1, <1>2 DEF IInv

\* The receive thread calls OnNetworkConnect.
LEMMA ReceiveNotifyInv ==
    ASSUME IInv, ReceiveNotify
    PROVE  IInv'
<1>1. TypeOK'
  <2>1. (ret \in [Threads -> {"idle", "close", "stopped", "exited"}])'
    BY DEF ReceiveNotify, opened, CallStopHeartbeat, Goto, IInv, ReturnInv,
       TypeOK, Threads
  <2>2. PlacesOK'
    BY DEF ReceiveNotify, CallStopHeartbeat, Goto, IInv, PlacesOK, TypeOK,
       MainPcs, RecvPcs, HbPcs, Threads
  <2> QED
    BY <2>1, <2>2 DEF ReceiveNotify, opened, CallStopHeartbeat, Goto, IInv,
       TypeOK, PlacesOK
<1>2. (ReturnInv /\ CloseInv /\ DestroyInv /\ OpenCounted)'
  BY DEF ReceiveNotify, opened, CallStopHeartbeat, Goto, IInv, OpenCounted,
     ReturnInv, CloseInv, DestroyInv, InStopHb, TypeOK, MainPcs, RecvPcs, HbPcs,
     Threads
<1> QED
  BY <1>1, <1>2 DEF IInv

\* The loop condition of the heartbeat thread.
LEMMA HeartbeatLoopInv ==
    ASSUME IInv, HeartbeatLoop
    PROVE  IInv'
<1>1. TypeOK'
  BY DEF HeartbeatLoop, flags, opened, HeartbeatWanted, Goto, IInv, ReturnInv,
     InStopHb, TypeOK, MainPcs, RecvPcs, HbPcs, Threads
<1>2. (ReturnInv /\ CloseInv /\ DestroyInv /\ OpenCounted)'
  BY DEF HeartbeatLoop, flags, opened, HeartbeatWanted, Goto, IInv, OpenCounted,
     ReturnInv, CloseInv, DestroyInv, InStopHb, TypeOK, MainPcs, RecvPcs, HbPcs,
     Threads
<1> QED
  BY <1>1, <1>2 DEF IInv

\* Its second test.
LEMMA HeartbeatWakeInv ==
    ASSUME IInv, HeartbeatWake
    PROVE  IInv'
<1>1. TypeOK'
  BY DEF HeartbeatWake, flags, opened, HeartbeatWanted, Goto, IInv, ReturnInv,
     InStopHb, TypeOK, MainPcs, RecvPcs, HbPcs, Threads
<1>2. (ReturnInv /\ CloseInv /\ DestroyInv /\ OpenCounted)'
  BY DEF HeartbeatWake, flags, opened, HeartbeatWanted, Goto, IInv, OpenCounted,
     ReturnInv, CloseInv, DestroyInv, InStopHb, TypeOK, MainPcs, RecvPcs, HbPcs,
     Threads
<1> QED
  BY <1>1, <1>2 DEF IInv

\* It sends.
LEMMA HeartbeatSendInv ==
    ASSUME IInv, HeartbeatSend
    PROVE  IInv'
<1>1. TypeOK'
  <2>1. PlacesOK'
    BY DEF HeartbeatSend, Send, Goto, Terminate, IInv, PlacesOK, TypeOK, MainPcs,
       RecvPcs, HbPcs, Threads
  <2> QED
    BY <2>1 DEF HeartbeatSend, opened, Send, Goto, Terminate, IInv, TypeOK,
       PlacesOK
<1>2. (ReturnInv /\ CloseInv /\ DestroyInv /\ OpenCounted)'
  BY DEF HeartbeatSend, opened, Send, Goto, Terminate, IInv, OpenCounted,
     ReturnInv, CloseInv, DestroyInv, InStopHb, TypeOK, MainPcs, RecvPcs, HbPcs,
     Threads
<1> QED
  BY <1>1, <1>2 DEF IInv

\* The sender closes the connection, or nothing happens.
LEMMA PeerInv ==
    ASSUME IInv, PeerCloses \/ UNCHANGED vars
    PROVE  IInv'
<1>1. TypeOK'
  BY DEF PeerCloses, vars, flags, opened, IInv, TypeOK
<1>2. (ReturnInv /\ CloseInv /\ DestroyInv /\ OpenCounted)'
  BY DEF PeerCloses, vars, flags, opened, IInv, OpenCounted, ReturnInv, CloseInv,
     DestroyInv, InStopHb
<1> QED
  BY <1>1, <1>2 DEF IInv

LEMMA NextInv == IInv /\ [Next]_vars => IInv'
<1> SUFFICES ASSUME IInv, [Next]_vars PROVE IInv'
  OBVIOUS
<1>1. ASSUME NEW t \in {"main", "recv"}, StopHb(t) PROVE IInv'
  BY <1>1, StopHeartbeatInv, ClearHeartbeatInv, JoinHeartbeatInv DEF StopHb
<1>2. CASE Main
  BY <1>1, <1>2, SpawnReceiveInv, NotifyConnectedInv, StartHeartbeatInv,
     SpawnHeartbeatInv, ConfirmInv, RequestDeviceListInv, DestroyClientInv,
     CloseInvariant, CloseJoinInv, CloseNotifyInv DEF Main
<1>3. CASE Receive \/ ReceiveData
  BY <1>1, <1>3, ReceiveLoopInv, ReceiveDataInv, ReceiveCallbackInv, ReceiveEndInv,
     ReceiveDownInv, ReceiveNotifyInv DEF Receive
<1>4. CASE Heartbeat
  BY <1>4, HeartbeatLoopInv, HeartbeatWakeInv, HeartbeatSendInv DEF Heartbeat
<1> QED
  BY <1>2, <1>3, <1>4, ConnectSucceedsInv, ConnectFailsInv, DisconnectInv,
     PeerInv DEF Next

-----------------------------------------------------------------------------
(* Theorems *)

\* However the three threads interleave, main closes what it has opened in order.
THEOREM Invariance == Spec => []IInv
  BY InitInv, NextInv, PTL DEF Spec

\* The flags are Booleans and the threads are at a known place.
THEOREM TypeCorrect == Spec => []TypeOK
<1>1. IInv => TypeOK
  BY DEF IInv
<1> QED
  BY <1>1, Invariance, PTL

-----------------------------------------------------------------------------
(* The second connection *)

\* From the second connection on, Connect is about to start the receive thread, or
\* the program is over.
ReconnectionEnds == connects > 1 => pc["main"] \in {"spawn", "terminated"}

\* No thread runs before the first Connect; from then on receive_thread_ is joinable
\* as long as main has not set out to leave, and after StopHeartbeat it leaves.
UnjoinedInv ==
    /\ connects = 0 => pc["main"] = "idle" /\ pc["recv"] = "none" /\ pc["hb"] = "none"
    /\ connects > 0 /\ pc["main"] \in {"idle", "notify", "starthb", "spawnhb",
                                       "confirm", "request"}
          => pc["recv"] # "none"
    /\ connects > 1 /\ pc["main"] = "spawn" => pc["recv"] # "none"
    /\ InStopHb("main") => ret["main"] # "idle"
    /\ ReconnectionEnds

LEMMA InitUnjoined == Init => UnjoinedInv
  BY DEF Init, UnjoinedInv, ReconnectionEnds, InStopHb, Threads

LEMMA NextUnjoined == IInv /\ UnjoinedInv /\ [Next]_vars => UnjoinedInv'
<1> SUFFICES ASSUME IInv, UnjoinedInv, [Next]_vars PROVE UnjoinedInv'
  OBVIOUS
<1>1. /\ DOMAIN pc = Threads /\ connects \in Nat
      /\ ret \in [Threads -> {"idle", "close", "stopped", "exited"}]
      /\ pc["main"] \in {"close", "joinrecv", "closenotify"} => closing # "no"
      /\ InStopHb("recv") => ret["recv"] = "exited"
      /\ closing \in {"no", "timeout", "stop", "destroy"}
  BY DEF IInv, TypeOK, ReturnInv
<1> USE DEF UnjoinedInv, ReconnectionEnds, InStopHb, Threads, Goto, Terminate, flags,
       opened
<1>2. CASE ConnectSucceeds
  BY <1>1, <1>2 DEF ConnectSucceeds
<1>3. CASE ConnectFails
  BY <1>1, <1>3 DEF ConnectFails
<1>4. CASE Disconnect
  BY <1>1, <1>4 DEF Disconnect, CallStopHeartbeat
<1>5. CASE SpawnReceive
  BY <1>1, <1>5 DEF SpawnReceive
<1>6. CASE NotifyConnected
  BY <1>1, <1>6 DEF NotifyConnected
<1>7. CASE StartHeartbeat
  BY <1>1, <1>7 DEF StartHeartbeat
<1>8. CASE SpawnHeartbeat
  BY <1>1, <1>8 DEF SpawnHeartbeat
<1>9. CASE Confirm
  BY <1>1, <1>9 DEF Confirm
<1>10. CASE RequestDeviceList
  BY <1>1, <1>10 DEF RequestDeviceList, Send, GiveUp
<1>11. CASE DestroyClient
  BY <1>1, <1>11 DEF DestroyClient, CallStopHeartbeat
<1>12. CASE Close
  BY <1>1, <1>12 DEF Close
<1>13. CASE CloseJoin
  BY <1>1, <1>13 DEF CloseJoin
<1>14. CASE CloseNotify
  BY <1>1, <1>14 DEF CloseNotify, CallStopHeartbeat, GiveUp
<1>15. CASE ReceiveLoop
  BY <1>1, <1>15 DEF ReceiveLoop
<1>16. CASE ReceiveData
  BY <1>1, <1>16 DEF ReceiveData
<1>17. CASE ReceiveEnd
  BY <1>1, <1>17 DEF ReceiveEnd
<1>18. CASE ReceiveDown
  BY <1>1, <1>18 DEF ReceiveDown
<1>19. CASE ReceiveNotify
  BY <1>1, <1>19 DEF ReceiveNotify, CallStopHeartbeat
<1>20. CASE HeartbeatLoop
  BY <1>1, <1>20 DEF HeartbeatLoop
<1>21. CASE HeartbeatWake
  BY <1>1, <1>21 DEF HeartbeatWake
<1>22. CASE HeartbeatSend
  BY <1>1, <1>22 DEF HeartbeatSend, Send
<1>23. CASE PeerCloses
  BY <1>1, <1>23 DEF PeerCloses
<1>24. ASSUME NEW t \in {"main", "recv"}, StopHeartbeat(t) PROVE UnjoinedInv'
  BY <1>1, <1>24 DEF StopHeartbeat
<1>25. ASSUME NEW t \in {"main", "recv"}, ClearHeartbeat(t) PROVE UnjoinedInv'
  BY <1>1, <1>25 DEF ClearHeartbeat
<1>26. ASSUME NEW t \in {"main", "recv"}, JoinHeartbeat(t) PROVE UnjoinedInv'
  BY <1>1, <1>26 DEF JoinHeartbeat
<1>27. CASE ReceiveCallback
  BY <1>1, <1>27 DEF ReceiveCallback, Send
<1>28. CASE UNCHANGED vars
  BY <1>28 DEF vars
<1> QED
  BY <1>2, <1>3, <1>4, <1>5, <1>6, <1>7, <1>8, <1>9, <1>10, <1>11, <1>12, <1>13,
     <1>14, <1>15, <1>16, <1>17, <1>18, <1>19, <1>20, <1>21, <1>22, <1>23, <1>24,
     <1>25, <1>26, <1>27, <1>28
     DEF Next, Main, Receive, Heartbeat, StopHb

\* Run cannot reconnect: every second Connect, however and whenever the first
\* connection was lost, assigns to the joinable receive_thread_ and ends the program.
THEOREM NoReconnection == Spec => []ReconnectionEnds
<1>1. UnjoinedInv => ReconnectionEnds
  BY DEF UnjoinedInv
<1> QED
  BY <1>1, InitUnjoined, NextUnjoined, Invariance, PTL DEF Spec

-----------------------------------------------------------------------------
(* The descriptors *)

\* With the first connection the process has one descriptor in socket_fd_, or none,
\* and, once Run has tried again, the one that was overwritten.  socket_fd_ holds one
\* for as long as main has neither closed it nor tried again, so the first attempt
\* always leaks one and no other attempt can.
DescriptorInv ==
    /\ fd => descriptors >= 1
    /\ connects = 0 => ~fd /\ ~retried /\ descriptors = 0 /\ ~heartbeat_running_
    /\ connects = 1
          => /\ descriptors = (IF fd THEN 1 ELSE 0) + (IF retried THEN 1 ELSE 0)
             /\ retried => ~fd
             /\ ~retried /\ pc["main"] \in {"spawn", "notify", "starthb", "spawnhb",
                                            "confirm", "request", "idle"}
                   => fd

LEMMA InitDescriptors == Init => DescriptorInv
  BY DEF Init, DescriptorInv

LEMMA NextDescriptors ==
    IInv /\ UnjoinedInv /\ DescriptorInv /\ [Next]_vars => DescriptorInv'
<1> SUFFICES ASSUME IInv, UnjoinedInv, DescriptorInv, [Next]_vars PROVE DescriptorInv'
  OBVIOUS
<1>1. /\ DOMAIN pc = Threads /\ connects \in Nat /\ descriptors \in Nat
      /\ fd \in BOOLEAN /\ retried \in BOOLEAN
      /\ pc["main"] \in {"close", "joinrecv", "closenotify"} => closing # "no"
      /\ closing \in {"no", "timeout", "stop", "destroy"}
      /\ InStopHb("recv") => ret["recv"] = "exited"
      /\ ret \in [Threads -> {"idle", "close", "stopped", "exited"}]
      /\ InStopHb("main") => ret["main"] # "idle"
      /\ connects = 0 => pc["main"] = "idle" /\ pc["recv"] = "none"
      /\ connects > 1 => pc["main"] \in {"spawn", "terminated"}
  BY DEF IInv, TypeOK, ReturnInv, UnjoinedInv, ReconnectionEnds
<1> USE DEF DescriptorInv, InStopHb, Threads, Goto, Terminate, flags, opened
<1>2. CASE ConnectSucceeds
  BY <1>1, <1>2 DEF ConnectSucceeds
<1>3. CASE ConnectFails
  BY <1>1, <1>3 DEF ConnectFails
<1>4. CASE Disconnect
  BY <1>1, <1>4 DEF Disconnect, CallStopHeartbeat
<1>5. CASE SpawnReceive
  BY <1>1, <1>5 DEF SpawnReceive
<1>6. CASE NotifyConnected
  BY <1>1, <1>6 DEF NotifyConnected
<1>7. CASE StartHeartbeat
  BY <1>1, <1>7 DEF StartHeartbeat
<1>8. CASE SpawnHeartbeat
  BY <1>1, <1>8 DEF SpawnHeartbeat
<1>9. CASE Confirm
  BY <1>1, <1>9 DEF Confirm
<1>10. CASE RequestDeviceList
  BY <1>1, <1>10 DEF RequestDeviceList, Send, GiveUp
<1>11. CASE DestroyClient
  BY <1>1, <1>11 DEF DestroyClient, CallStopHeartbeat
<1>12. CASE Close
  BY <1>1, <1>12 DEF Close
<1>13. CASE CloseJoin
  BY <1>1, <1>13 DEF CloseJoin
<1>14. CASE CloseNotify
  BY <1>1, <1>14 DEF CloseNotify, CallStopHeartbeat, GiveUp
<1>15. CASE ReceiveLoop
  BY <1>1, <1>15 DEF ReceiveLoop
<1>16. CASE ReceiveData
  BY <1>1, <1>16 DEF ReceiveData
<1>17. CASE ReceiveCallback
  BY <1>1, <1>17 DEF ReceiveCallback, Send
<1>18. CASE ReceiveEnd
  BY <1>1, <1>18 DEF ReceiveEnd
<1>19. CASE ReceiveDown
  BY <1>1, <1>19 DEF ReceiveDown
<1>20. CASE ReceiveNotify
  BY <1>1, <1>20 DEF ReceiveNotify, CallStopHeartbeat
<1>21. CASE HeartbeatLoop
  BY <1>1, <1>21 DEF HeartbeatLoop, HeartbeatWanted
<1>22. CASE HeartbeatWake
  BY <1>1, <1>22 DEF HeartbeatWake, HeartbeatWanted
<1>23. CASE HeartbeatSend
  BY <1>1, <1>23 DEF HeartbeatSend, Send
<1>24. CASE PeerCloses
  BY <1>1, <1>24 DEF PeerCloses
<1>25. ASSUME NEW t \in {"main", "recv"}, StopHeartbeat(t) PROVE DescriptorInv'
  BY <1>1, <1>25 DEF StopHeartbeat
<1>26. ASSUME NEW t \in {"main", "recv"}, ClearHeartbeat(t) PROVE DescriptorInv'
  BY <1>1, <1>26 DEF ClearHeartbeat
<1>27. ASSUME NEW t \in {"main", "recv"}, JoinHeartbeat(t) PROVE DescriptorInv'
  BY <1>1, <1>27 DEF JoinHeartbeat
<1>28. CASE UNCHANGED vars
  BY <1>28 DEF vars
<1> QED
  BY <1>2, <1>3, <1>4, <1>5, <1>6, <1>7, <1>8, <1>9, <1>10, <1>11, <1>12, <1>13,
     <1>14, <1>15, <1>16, <1>17, <1>18, <1>19, <1>20, <1>21, <1>22, <1>23, <1>24,
     <1>25, <1>26, <1>27, <1>28
     DEF Next, Main, Receive, Heartbeat, StopHb

-----------------------------------------------------------------------------
(* The program while the sender keeps the first connection open *)

\* The connection is up and the receive thread serves it.
Up ==
    /\ is_connected_ /\ ~should_stop_ /\ fd
    /\ pc["recv"] \in {"loop", "blocked", "callback"}

\* The heartbeat thread runs.
Beating ==
    heartbeat_running_ /\ connected_ /\ pc["hb"] \in {"loop", "sleep", "send"}

\* Close has begun, and no heartbeat is left to stop.
Down ==
    /\ ~is_connected_ /\ should_stop_
    /\ ~heartbeat_running_ /\ pc["hb"] = "none"
    /\ pc["recv"] \notin {"clearhb", "joinhb"}

\* Where main is tells what the others do, until the sender closes the connection.
Healthy ==
    /\ pc["main"] # "terminated"
    /\ pc["main"] = "spawn" =>
          /\ is_connected_ /\ ~should_stop_ /\ fd /\ pc["recv"] = "none"
          /\ ~heartbeat_running_ /\ pc["hb"] = "none"
    /\ pc["main"] \in {"notify", "starthb"} =>
          Up /\ ~heartbeat_running_ /\ pc["hb"] = "none"
    /\ pc["main"] = "spawnhb" => Up /\ heartbeat_running_ /\ pc["hb"] = "none"
    /\ pc["main"] \in {"starthb", "spawnhb"} => connected_
    /\ pc["main"] \in {"confirm", "request", "idle"} => Up /\ Beating
    /\ InStopHb("main") =>
          \/ ret["main"] = "close" /\ Up /\ pc["main"] # "joinhb" /\ Beating
          \/ ret["main"] = "close" /\ Up /\ pc["main"] = "joinhb"
             /\ ~heartbeat_running_ /\ pc["hb"] # "none"
          \/ pc["main"] = "stophb" /\ ret["main"] # "close" /\ Down /\ ~connected_
    /\ pc["main"] = "close" =>
          \/ closing = "stop" /\ Up /\ ~heartbeat_running_ /\ pc["hb"] = "none"
          \/ closing = "destroy" /\ Down
    /\ pc["main"] \in {"joinrecv", "closenotify"} => Down /\ closing # "timeout"
    /\ pc["main"] \in {"stopped", "exited"} => Down /\ ~connected_

SurviveInv == peerOpen /\ connects = 1 => Healthy
LEMMA InitSurvive == Init => SurviveInv
  BY DEF Init, SurviveInv

LEMMA NextSurvive ==
    IInv /\ UnjoinedInv /\ DescriptorInv /\ SurviveInv /\ [Next]_vars => SurviveInv'
<1> SUFFICES ASSUME IInv, UnjoinedInv, DescriptorInv, SurviveInv, [Next]_vars
             PROVE  SurviveInv'
  OBVIOUS
<1>1. /\ DOMAIN pc = Threads /\ connects \in Nat
      /\ pc["main"] \in MainPcs /\ pc["recv"] \in RecvPcs /\ pc["hb"] \in HbPcs
      /\ InStopHb("recv") => ret["recv"] = "exited"
      /\ ret \in [Threads -> {"idle", "close", "stopped", "exited"}]
      /\ InStopHb("main") /\ ret["main"] = "close" => closing = "stop"
      /\ InStopHb("main") => ret["main"] # "idle"
      /\ connects = 0 => pc["main"] = "idle" /\ ~heartbeat_running_
      /\ connects = 0 => pc["recv"] = "none" /\ pc["hb"] = "none"
      /\ closing \in {"no", "timeout", "stop", "destroy"}
      /\ pc["main"] \in {"close", "joinrecv", "closenotify"} => closing # "no"
  BY DEF IInv, TypeOK, ReturnInv, UnjoinedInv, DescriptorInv
<1> USE DEF SurviveInv, Healthy, Up, Beating, Down, InStopHb, Threads, Goto, Terminate,
       flags, opened, MainPcs, RecvPcs, HbPcs
<1>2. CASE ConnectSucceeds
  BY <1>1, <1>2 DEF ConnectSucceeds
<1>3. CASE ConnectFails
  BY <1>1, <1>3 DEF ConnectFails
<1>4. CASE Disconnect
  BY <1>1, <1>4 DEF Disconnect, CallStopHeartbeat
<1>5. CASE SpawnReceive
  BY <1>1, <1>5 DEF SpawnReceive
<1>6. CASE NotifyConnected
  BY <1>1, <1>6 DEF NotifyConnected
<1>7. CASE StartHeartbeat
  BY <1>1, <1>7 DEF StartHeartbeat
<1>8. CASE SpawnHeartbeat
  BY <1>1, <1>8 DEF SpawnHeartbeat
<1>9. CASE Confirm
  BY <1>1, <1>9 DEF Confirm
<1>10. CASE RequestDeviceList
  BY <1>1, <1>10 DEF RequestDeviceList, Send, GiveUp
<1>11. CASE DestroyClient
  BY <1>1, <1>11 DEF DestroyClient, CallStopHeartbeat
<1>12. CASE Close
  BY <1>1, <1>12 DEF Close
<1>13. CASE CloseJoin
  BY <1>1, <1>13 DEF CloseJoin
<1>14. CASE CloseNotify
  BY <1>1, <1>14 DEF CloseNotify, CallStopHeartbeat, GiveUp
<1>15. CASE ReceiveLoop
  BY <1>1, <1>15 DEF ReceiveLoop
<1>16. CASE ReceiveData
  BY <1>1, <1>16 DEF ReceiveData
<1>17. CASE ReceiveCallback
  BY <1>1, <1>17 DEF ReceiveCallback, Send
<1>18. CASE ReceiveEnd
  BY <1>1, <1>18 DEF ReceiveEnd
<1>19. CASE ReceiveDown
  BY <1>1, <1>19 DEF ReceiveDown
<1>20. CASE ReceiveNotify
  BY <1>1, <1>20 DEF ReceiveNotify, CallStopHeartbeat
<1>21. CASE HeartbeatLoop
  BY <1>1, <1>21 DEF HeartbeatLoop, HeartbeatWanted
<1>22. CASE HeartbeatWake
  BY <1>1, <1>22 DEF HeartbeatWake, HeartbeatWanted
<1>23. CASE HeartbeatSend
  BY <1>1, <1>23 DEF HeartbeatSend, Send
<1>24. CASE PeerCloses
  BY <1>1, <1>24 DEF PeerCloses
<1>25. ASSUME NEW t \in {"main", "recv"}, StopHeartbeat(t) PROVE SurviveInv'
  BY <1>1, <1>25 DEF StopHeartbeat
<1>26. ASSUME NEW t \in {"main", "recv"}, ClearHeartbeat(t) PROVE SurviveInv'
  BY <1>1, <1>26 DEF ClearHeartbeat
<1>27. ASSUME NEW t \in {"main", "recv"}, JoinHeartbeat(t) PROVE SurviveInv'
  BY <1>1, <1>27 DEF JoinHeartbeat
<1>28. CASE UNCHANGED vars
  BY <1>28 DEF vars
<1> QED
  BY <1>2, <1>3, <1>4, <1>5, <1>6, <1>7, <1>8, <1>9, <1>10, <1>11, <1>12, <1>13,
     <1>14, <1>15, <1>16, <1>17, <1>18, <1>19, <1>20, <1>21, <1>22, <1>23, <1>24,
     <1>25, <1>26, <1>27, <1>28
     DEF Next, Main, Receive, Heartbeat, StopHb

\* A program that exits normally has joined its threads, cleared its flags and closed
\* its descriptors but for the one that a reconnection attempt overwrites; and nothing
\* else ends it while the sender keeps the first connection open.
THEOREM EndsAccounted == Spec => []EndIsAccounted
<1> DEFINE All == IInv /\ UnjoinedInv /\ DescriptorInv /\ SurviveInv
<1>1. Init => All
  BY InitInv, InitUnjoined, InitDescriptors, InitSurvive
<1>2. All /\ [Next]_vars => All'
  BY NextInv, NextUnjoined, NextDescriptors, NextSurvive
<1>3. All => EndIsAccounted
  <2> SUFFICES ASSUME All PROVE EndIsAccounted
    OBVIOUS
  <2>1. connects \in Nat
    BY DEF IInv, TypeOK
  <2>2. pc["main"] = "exited" => connects = 1
    BY <2>1 DEF UnjoinedInv, ReconnectionEnds
  <2>3. pc["main"] = "terminated" => connects # 0
    BY DEF UnjoinedInv
  <2>4. pc["main"] = "exited" => descriptors = IF retried THEN 1 ELSE 0
    BY <2>2 DEF IInv, DestroyInv, DescriptorInv
  <2>5. pc["main"] = "terminated" => ~peerOpen \/ connects > 1
    BY <2>1, <2>3 DEF SurviveInv, Healthy
  <2> QED
    BY <2>4, <2>5 DEF IInv, DestroyInv, EndIsAccounted
<1> QED
  BY <1>1, <1>2, <1>3, PTL DEF Spec
=============================================================================
