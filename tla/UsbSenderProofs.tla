-------------------------- MODULE UsbSenderProofs --------------------------
(***************************************************************************)
(* Proofs about UsbSender, for every set of connections, descriptors,      *)
(* requests and devices.                                                   *)
(***************************************************************************)
EXTENDS UsbSender, TLAPS

-----------------------------------------------------------------------------
(* The inductive invariant *)

\* A handler in one of these places has its client_fd still to close.
Live == {"loop", "recv", "handle", "close"}

\* main has walked client_fds_ in Close.
Closed == {"join", "clear", "stopped"}

Held(c) == c = accConn \/ handler[c] \in Live

\* What main has done to the flags and to the listening socket.
PhaseInv ==
    /\ main \in {"closelistener", "closeclients"} \cup Closed => should_stop_
    /\ main \in {"closeclients"} \cup Closed => ~listener
    /\ main = "start" => acc = "none"

\* The accept thread has a connection in hand from accept() to the start of its
\* handler, and a connection with a handler was accepted.
HandInv ==
    /\ accConn # None <=> acc \in {"push", "spawn"}
    /\ accConn # None => handler[accConn] = "none"
    /\ \A c \in Conns : handler[c] # "none" => fdOf[c] # None

\* The descriptor of a connection that is still to be closed refers to it, or to
\* nothing once Close has closed it: the number is not reused in between.
OwnInv ==
    \A c \in Conns : Held(c) =>
        /\ fdOf[c] # None
        /\ Source(c) = c \/ (main \in Closed /\ Source(c) = None)

\* The kernel's table and the threads agree on who holds a descriptor.
TableInv ==
    \A f \in Fds : fdTable[f] # None => fdOf[fdTable[f]] = f /\ Held(fdTable[f])

\* Another connection has, or had, the descriptor number of c.
Reused(c) == \E d \in Conns \ {c} : fdOf[d] = fdOf[c]

\* A registered number is missing from client_fds_ only if it was reused; after
\* Close, only such a handler still waits on an open connection.
ListedInv ==
    /\ main \notin Closed =>
          \A c \in Conns : handler[c] \in Live \/ (c = accConn /\ acc = "spawn") =>
              fdOf[c] \in client_fds_ \/ Reused(c)
    /\ main \in Closed =>
          \A c \in Conns : handler[c] = "recv" /\ Source(c) = c => Reused(c)

IInv == TypeOK /\ PhaseInv /\ HandInv /\ OwnInv /\ TableInv /\ ListedInv

-----------------------------------------------------------------------------
(* Initial states and steps *)

LEMMA InitInv == Init => IInv
<1> SUFFICES ASSUME Init PROVE IInv
  OBVIOUS
<1>1. TypeOK
  BY DEF Init, TypeOK
<1>2. \A c \in Conns : ~Held(c)
  BY NoneAssumption DEF Init, Held, Live
<1> QED
  BY <1>1, <1>2 DEF Init, IInv, PhaseInv, HandInv, OwnInv, TableInv, ListedInv,
     Source, Reused, Live, Closed

\* A step that changes no descriptor, thread or flag.
LEMMA FrameKeeps ==
    ASSUME IInv, TypeOK',
           UNCHANGED <<flags, client_fds_, fdTable, accVars, handler, fdOf, main>>
    PROVE  IInv'
  BY DEF flags, accVars, IInv, PhaseInv, HandInv, OwnInv, TableInv, ListedInv,
     Held, Source, Reused, Live, Closed

\* AcceptThread's test of its flags.
LEMMA AcceptLoopInv ==
    ASSUME IInv, AcceptLoop
    PROVE  IInv'
<1>1. TypeOK'
  BY DEF AcceptLoop, flags, clientVars, accVars, IInv, TypeOK
<1>2. (PhaseInv /\ HandInv)'
  BY <1>1 DEF AcceptLoop, flags, accVars, IInv, PhaseInv, HandInv, TypeOK,
     Closed
<1>3. (OwnInv /\ TableInv /\ ListedInv)'
  BY DEF AcceptLoop, flags, accVars, IInv, PhaseInv, HandInv, OwnInv, TableInv,
     ListedInv, Held, Source, Reused, Live, Closed, TypeOK
<1> QED
  BY <1>1, <1>2, <1>3 DEF IInv

\* accept(): the number is free, so that no thread still has it to close.
LEMMA AcceptInv ==
    ASSUME IInv, NEW c \in Conns, NEW f \in Fds, Accept(c, f)
    PROVE  IInv'
<1>1. TypeOK'
  BY DEF Accept, flags, clientVars, accVars, IInv, TypeOK, Backlog, FreeFds
<1>2. PhaseInv'
  BY DEF Accept, flags, accVars, IInv, PhaseInv, TypeOK, Closed, Backlog,
     FreeFds
<1>3. HandInv'
  BY NoneAssumption DEF Accept, flags, accVars, IInv, HandInv, OwnInv,
     PhaseInv, Held, TypeOK, Live, Backlog, FreeFds
<1>4. OwnInv'
  BY NoneAssumption DEF Accept, flags, accVars, IInv, HandInv, OwnInv,
     PhaseInv, TableInv, Held, Source, TypeOK, Live, Closed, Backlog, FreeFds
<1>5. TableInv'
  BY NoneAssumption DEF Accept, flags, accVars, IInv, HandInv, OwnInv,
     TableInv, PhaseInv, Held, Source, TypeOK, Live, Backlog, FreeFds
<1>6. ListedInv'
  BY NoneAssumption DEF Accept, flags, accVars, IInv, PhaseInv, HandInv,
     OwnInv, TableInv, ListedInv, Held, Source, Reused, Live, Closed, TypeOK,
     Backlog, FreeFds
<1> QED
  BY <1>1, <1>2, <1>3, <1>4, <1>5, <1>6 DEF IInv

\* accept() that fails.
LEMMA AcceptFailsInv ==
    ASSUME IInv, AcceptFails
    PROVE  IInv'
<1>1. TypeOK'
  BY DEF AcceptFails, flags, clientVars, accVars, IInv, TypeOK
<1>2. (PhaseInv /\ HandInv)'
  BY <1>1 DEF AcceptFails, flags, accVars, IInv, PhaseInv, HandInv, TypeOK,
     Closed
<1>3. (OwnInv /\ TableInv /\ ListedInv)'
  BY DEF AcceptFails, flags, accVars, IInv, PhaseInv, HandInv, OwnInv,
     TableInv, ListedInv, Held, Source, Reused, Live, Closed, TypeOK
<1> QED
  BY <1>1, <1>2, <1>3 DEF IInv

\* The number of the connection in hand becomes a member of client_fds_.
LEMMA PushClientInv ==
    ASSUME IInv, PushClient
    PROVE  IInv'
<1> accConn \in Conns /\ fdOf[accConn] \in Fds
  BY DEF PushClient, IInv, HandInv, OwnInv, Held, TypeOK
<1>1. TypeOK'
  BY DEF PushClient, flags, clientVars, accVars, IInv, TypeOK
<1>2. PhaseInv'
  BY DEF PushClient, flags, accVars, IInv, PhaseInv, TypeOK, Closed
<1>3. HandInv'
  BY NoneAssumption DEF PushClient, flags, accVars, IInv, HandInv, OwnInv,
     PhaseInv, Held, TypeOK, Live
<1>4. OwnInv'
  BY NoneAssumption DEF PushClient, flags, accVars, IInv, HandInv, OwnInv,
     PhaseInv, TableInv, Held, Source, TypeOK, Live, Closed
<1>5. TableInv'
  BY NoneAssumption DEF PushClient, flags, accVars, IInv, HandInv, OwnInv,
     TableInv, PhaseInv, Held, Source, TypeOK, Live
<1>6. ListedInv'
  BY NoneAssumption DEF PushClient, flags, accVars, IInv, PhaseInv, HandInv,
     OwnInv, TableInv, ListedInv, Held, Source, Reused, Live, Closed, TypeOK
<1> QED
  BY <1>1, <1>2, <1>3, <1>4, <1>5, <1>6 DEF IInv

\* The accept thread hands the connection over to its handler.
LEMMA SpawnHandlerInv ==
    ASSUME IInv, SpawnHandler
    PROVE  IInv'
<1>1. TypeOK'
  BY DEF SpawnHandler, flags, clientVars, accVars, IInv, TypeOK
<1>2. PhaseInv'
  BY DEF SpawnHandler, flags, accVars, IInv, PhaseInv, TypeOK, Closed
<1>3. HandInv'
  BY NoneAssumption DEF SpawnHandler, flags, accVars, IInv, HandInv, OwnInv,
     PhaseInv, Held, TypeOK, Live
<1>4. OwnInv'
  BY NoneAssumption DEF SpawnHandler, flags, accVars, IInv, HandInv, OwnInv,
     PhaseInv, TableInv, Held, Source, TypeOK, Live, Closed
<1>5. TableInv'
  BY NoneAssumption DEF SpawnHandler, flags, accVars, IInv, HandInv, OwnInv,
     TableInv, PhaseInv, Held, Source, TypeOK, Live
<1>6. ListedInv'
  BY NoneAssumption DEF SpawnHandler, flags, accVars, IInv, PhaseInv, HandInv,
     OwnInv, TableInv, ListedInv, Held, Source, Reused, Live, Closed, TypeOK
<1> QED
  BY <1>1, <1>2, <1>3, <1>4, <1>5, <1>6 DEF IInv

\* A handler's test of should_stop_: once it is set, nobody comes to recv().
LEMMA HandlerLoopInv ==
    ASSUME IInv, NEW c \in Conns, HandlerLoop(c)
    PROVE  IInv'
<1>1. TypeOK'
  BY DEF HandlerLoop, flags, clientVars, accVars, IInv, TypeOK
<1>2. (PhaseInv /\ HandInv)'
  BY <1>1 DEF HandlerLoop, flags, accVars, IInv, PhaseInv, HandInv, TypeOK,
     Closed
<1>3. (OwnInv /\ TableInv /\ ListedInv)'
  BY DEF HandlerLoop, flags, accVars, IInv, PhaseInv, HandInv, OwnInv,
     TableInv, ListedInv, Held, Source, Reused, Live, Closed, TypeOK
<1> QED
  BY <1>1, <1>2, <1>3 DEF IInv

\* A request is read.
LEMMA ReceiveInv ==
    ASSUME IInv, NEW c \in Conns, Receive(c)
    PROVE  IInv'
<1>1. TypeOK'
  <2>1. Source(c) \in Conns
    <3>1. fdOf[c] \in Fds
      BY DEF Receive, IInv, OwnInv, Held, Live, TypeOK
    <3> QED
      BY <3>1 DEF Receive, IInv, TypeOK, Source
  <2>2. request' \in [Conns -> [kind : Requests \cup {None},
                        state : {"none", "sent", "read", "answered", "dropped"}]]
    BY <2>1 DEF Receive, IInv, TypeOK
  <2>3. handler' \in [Conns -> {"none", "loop", "recv", "handle", "close", "erase",
                                "exited"}]
    BY DEF Receive, IInv, TypeOK
  <2> QED
    BY <2>2, <2>3 DEF Receive, flags, clientVars, accVars, IInv, TypeOK
<1>2. (PhaseInv /\ HandInv)'
  BY <1>1 DEF Receive, flags, accVars, IInv, PhaseInv, HandInv, TypeOK, Closed,
     Source
<1>3. (OwnInv /\ TableInv /\ ListedInv)'
  BY DEF Receive, flags, accVars, IInv, PhaseInv, HandInv, OwnInv, TableInv,
     ListedInv, Held, Source, Reused, Live, Closed, TypeOK
<1> QED
  BY <1>1, <1>2, <1>3 DEF IInv

\* A request is handled.
LEMMA OnNetworkMessageInv ==
    ASSUME IInv, NEW c \in Conns, OnNetworkMessage(c)
    PROVE  IInv'
<1>1. TypeOK'
  BY DEF OnNetworkMessage, flags, clientVars, accVars, IInv, TypeOK, CanSend
<1>2. (PhaseInv /\ HandInv)'
  BY <1>1 DEF OnNetworkMessage, flags, accVars, IInv, PhaseInv, HandInv,
     TypeOK, Closed, CanSend
<1>3. (OwnInv /\ TableInv /\ ListedInv)'
  BY DEF OnNetworkMessage, flags, accVars, IInv, PhaseInv, HandInv, OwnInv,
     TableInv, ListedInv, Held, Source, Reused, Live, Closed, TypeOK, CanSend
<1> QED
  BY <1>1, <1>2, <1>3 DEF IInv

\* The stream has ended.
LEMMA ReceiveEndInv ==
    ASSUME IInv, NEW c \in Conns, ReceiveEnd(c)
    PROVE  IInv'
<1>1. TypeOK'
  BY DEF ReceiveEnd, flags, clientVars, accVars, IInv, TypeOK
<1>2. (PhaseInv /\ HandInv)'
  BY <1>1 DEF ReceiveEnd, flags, accVars, IInv, PhaseInv, HandInv, TypeOK,
     Closed
<1>3. (OwnInv /\ TableInv /\ ListedInv)'
  BY DEF ReceiveEnd, flags, accVars, IInv, PhaseInv, HandInv, OwnInv, TableInv,
     ListedInv, Held, Source, Reused, Live, Closed, TypeOK
<1> QED
  BY <1>1, <1>2, <1>3 DEF IInv

\* close(client_fd): the number is the handler's own, or closed already.
LEMMA HandlerCloseInv ==
    ASSUME IInv, NEW c \in Conns, HandlerClose(c)
    PROVE  IInv'
<1>1. TypeOK'
  <2>1. fdTable' \in [Fds -> Conns \cup {None}]
    BY DEF HandlerClose, IInv, TypeOK
  <2>2. handler' \in [Conns -> {"none", "loop", "recv", "handle", "close", "erase",
                                "exited"}]
    BY DEF HandlerClose, IInv, TypeOK
  <2> QED
    BY <2>1, <2>2 DEF HandlerClose, flags, clientVars, accVars, IInv, TypeOK
<1>2. PhaseInv'
  BY DEF HandlerClose, flags, accVars, IInv, PhaseInv, TypeOK, Closed
<1>3. HandInv'
  BY NoneAssumption DEF HandlerClose, flags, accVars, IInv, HandInv, OwnInv,
     PhaseInv, Held, TypeOK, Live
<1>4. OwnInv'
  BY NoneAssumption DEF HandlerClose, flags, accVars, IInv, HandInv, OwnInv,
     PhaseInv, TableInv, Held, Source, TypeOK, Live, Closed
<1>5. TableInv'
  BY NoneAssumption DEF HandlerClose, flags, accVars, IInv, HandInv, OwnInv,
     TableInv, PhaseInv, Held, Source, TypeOK, Live
<1>6. ListedInv'
  BY NoneAssumption DEF HandlerClose, flags, accVars, IInv, PhaseInv, HandInv,
     OwnInv, TableInv, ListedInv, Held, Source, Reused, Live, Closed, TypeOK
<1> QED
  BY <1>1, <1>2, <1>3, <1>4, <1>5, <1>6 DEF IInv

\* The number goes from client_fds_, also for a connection that reuses it.
LEMMA HandlerEraseInv ==
    ASSUME IInv, NEW c \in Conns, HandlerErase(c)
    PROVE  IInv'
<1>1. TypeOK'
  BY DEF HandlerErase, flags, clientVars, accVars, IInv, TypeOK
<1>2. PhaseInv'
  BY DEF HandlerErase, flags, accVars, IInv, PhaseInv, TypeOK, Closed
<1>3. HandInv'
  BY NoneAssumption DEF HandlerErase, flags, accVars, IInv, HandInv, OwnInv,
     PhaseInv, Held, TypeOK, Live
<1>4. OwnInv'
  BY NoneAssumption DEF HandlerErase, flags, accVars, IInv, HandInv, OwnInv,
     PhaseInv, TableInv, Held, Source, TypeOK, Live, Closed
<1>5. TableInv'
  BY NoneAssumption DEF HandlerErase, flags, accVars, IInv, HandInv, OwnInv,
     TableInv, PhaseInv, Held, Source, TypeOK, Live
<1>6. ListedInv'
  BY NoneAssumption DEF HandlerErase, flags, accVars, IInv, PhaseInv, HandInv,
     OwnInv, TableInv, ListedInv, Held, Source, Reused, Live, Closed, TypeOK
<1> QED
  BY <1>1, <1>2, <1>3, <1>4, <1>5, <1>6 DEF IInv

\* Listen comes before any connection.
LEMMA ListenInv ==
    ASSUME IInv, Listen
    PROVE  IInv'
<1>1. TypeOK'
  BY DEF Listen, flags, clientVars, accVars, IInv, TypeOK
<1>2. (PhaseInv /\ HandInv)'
  BY <1>1 DEF Listen, flags, accVars, IInv, PhaseInv, HandInv, TypeOK, Closed
<1>3. (OwnInv /\ TableInv /\ ListedInv)'
  BY DEF Listen, flags, accVars, IInv, PhaseInv, HandInv, OwnInv, TableInv,
     ListedInv, Held, Source, Reused, Live, Closed, TypeOK
<1> QED
  BY <1>1, <1>2, <1>3 DEF IInv

\* Close sets the flags.
LEMMA StopInv ==
    ASSUME IInv, Stop
    PROVE  IInv'
<1>1. TypeOK'
  BY DEF Stop, flags, clientVars, accVars, IInv, TypeOK
<1>2. (PhaseInv /\ HandInv)'
  BY <1>1 DEF Stop, flags, accVars, IInv, PhaseInv, HandInv, TypeOK, Closed
<1>3. (OwnInv /\ TableInv /\ ListedInv)'
  BY DEF Stop, flags, accVars, IInv, PhaseInv, HandInv, OwnInv, TableInv,
     ListedInv, Held, Source, Reused, Live, Closed, TypeOK
<1> QED
  BY <1>1, <1>2, <1>3 DEF IInv

\* The listening socket is closed: no number is given out after this.
LEMMA CloseListenerInv ==
    ASSUME IInv, CloseListener
    PROVE  IInv'
<1>1. TypeOK'
  BY DEF CloseListener, flags, clientVars, accVars, IInv, TypeOK
<1>2. (PhaseInv /\ HandInv)'
  BY <1>1 DEF CloseListener, flags, accVars, IInv, PhaseInv, HandInv, TypeOK,
     Closed
<1>3. (OwnInv /\ TableInv /\ ListedInv)'
  BY DEF CloseListener, flags, accVars, IInv, PhaseInv, HandInv, OwnInv,
     TableInv, ListedInv, Held, Source, Reused, Live, Closed, TypeOK
<1> QED
  BY <1>1, <1>2, <1>3 DEF IInv

\* Close closes every number in client_fds_.
LEMMA CloseClientsInv ==
    ASSUME IInv, CloseClients
    PROVE  IInv'
<1>1. TypeOK'
  BY DEF CloseClients, flags, clientVars, accVars, IInv, TypeOK
<1>2. PhaseInv'
  BY DEF CloseClients, flags, accVars, IInv, PhaseInv, TypeOK, Closed
<1>3. HandInv'
  BY NoneAssumption DEF CloseClients, flags, accVars, IInv, HandInv, OwnInv,
     PhaseInv, Held, TypeOK, Live
<1>4. OwnInv'
  BY NoneAssumption DEF CloseClients, flags, accVars, IInv, HandInv, OwnInv,
     PhaseInv, TableInv, Held, Source, TypeOK, Live, Closed
<1>5. TableInv'
  BY NoneAssumption DEF CloseClients, flags, accVars, IInv, HandInv, OwnInv,
     TableInv, PhaseInv, Held, Source, TypeOK, Live
<1>6. ListedInv'
  BY NoneAssumption DEF CloseClients, flags, accVars, IInv, PhaseInv, HandInv,
     OwnInv, TableInv, ListedInv, Held, Source, Reused, Live, Closed, TypeOK
<1> QED
  BY <1>1, <1>2, <1>3, <1>4, <1>5, <1>6 DEF IInv

\* The accept thread is joined.
LEMMA CloseJoinInv ==
    ASSUME IInv, CloseJoin
    PROVE  IInv'
<1>1. TypeOK'
  BY DEF CloseJoin, flags, clientVars, accVars, IInv, TypeOK
<1>2. (PhaseInv /\ HandInv)'
  BY <1>1 DEF CloseJoin, flags, accVars, IInv, PhaseInv, HandInv, TypeOK,
     Closed
<1>3. (OwnInv /\ TableInv /\ ListedInv)'
  BY DEF CloseJoin, flags, accVars, IInv, PhaseInv, HandInv, OwnInv, TableInv,
     ListedInv, Held, Source, Reused, Live, Closed, TypeOK
<1> QED
  BY <1>1, <1>2, <1>3 DEF IInv

\* The steps that touch no descriptor: those of the clients and those on the
\* devices.
LEMMA OtherInv ==
    ASSUME IInv,
           \/ \E c \in Conns : ClientConnects(c) \/ ClientCloses(c)
           \/ \E c \in Conns, kind \in Requests : ClientAsks(c, kind)
           \/ \E d \in Devices : OnDeviceHotplug(d)
           \/ UNCHANGED vars
    PROVE  IInv'
<1>1. TypeOK'
  <2>1. ASSUME NEW c \in Conns, ClientConnects(c) \/ ClientCloses(c) PROVE TypeOK'
    BY <2>1 DEF ClientConnects, ClientCloses, flags, accVars, IInv, TypeOK
  <2>2. ASSUME NEW c \in Conns, NEW kind \in Requests, ClientAsks(c, kind) PROVE TypeOK'
    BY <2>2 DEF ClientAsks, flags, accVars, IInv, TypeOK
  <2>3. ASSUME NEW d \in Devices, OnDeviceHotplug(d) PROVE TypeOK'
    BY <2>3 DEF OnDeviceHotplug, UbIfWalking, flags, clientVars, accVars, IInv, TypeOK
  <2>4. CASE UNCHANGED vars
    BY <2>4 DEF vars, flags, clientVars, accVars, IInv, TypeOK
  <2> QED
    BY <2>1, <2>2, <2>3, <2>4
<1> QED
  BY <1>1, FrameKeeps DEF ClientConnects, ClientCloses, ClientAsks,
     OnDeviceHotplug, vars, flags, accVars

\* main replaces or clears the vector of devices.
LEMMA DevicesInv ==
    ASSUME IInv,
           ClearDevices \/ \E found \in SUBSET Devices : ScanMassStorageDevices(found)
    PROVE  IInv'
<1>1. TypeOK'
  BY DEF ClearDevices, ScanMassStorageDevices, UbIfWalking, flags, clientVars,
     accVars, IInv, TypeOK
<1> QED
  BY <1>1 DEF ClearDevices, ScanMassStorageDevices, flags, clientVars, accVars,
     IInv, PhaseInv, HandInv, OwnInv, TableInv, ListedInv, Held, Source,
     Reused, Live, Closed

LEMMA NextInv == IInv /\ [Next]_vars => IInv'
<1> SUFFICES ASSUME IInv, [Next]_vars PROVE IInv'
  OBVIOUS
<1>1. CASE AcceptThread
  BY <1>1, AcceptLoopInv, AcceptInv, AcceptFailsInv, PushClientInv,
     SpawnHandlerInv DEF AcceptThread
<1>2. ASSUME NEW c \in Conns, HandleClient(c) PROVE IInv'
  BY <1>2, HandlerLoopInv, ReceiveInv, OnNetworkMessageInv, ReceiveEndInv,
     HandlerCloseInv, HandlerEraseInv DEF HandleClient
<1>3. CASE Listen \/ Stop \/ Close
  BY <1>3, ListenInv, StopInv, CloseListenerInv, CloseClientsInv, CloseJoinInv,
     DevicesInv DEF Close
<1> QED
  BY <1>1, <1>2, <1>3, OtherInv, DevicesInv DEF Next

-----------------------------------------------------------------------------
(* Theorems *)

\* Whatever the clients and the threads do, the members keep their types and the
\* descriptors their owners.
THEOREM Invariance == Spec => []IInv
  BY InitInv, NextInv, PTL DEF Spec

\* The members of TcpSocket and UsbSender keep their types.
THEOREM TypeCorrect == Spec => []TypeOK
<1>1. IInv => TypeOK
  BY DEF IInv
<1> QED
  BY <1>1, Invariance, PTL

\* HandleClient reads from its own client and from no other, although close() and
\* accept() recycle descriptor numbers in other threads.
THEOREM HandlersReadTheirOwn == Spec => []ReadsOwnClient
<1>1. IInv => ReadsOwnClient
  BY DEF IInv, PhaseInv, OwnInv, ReadsOwnClient, Held, Source, Live
<1> QED
  BY <1>1, Invariance, PTL

\* Every open descriptor is held by a thread that will close it, and Close leaves a
\* handler waiting on an open connection only when its number was reused.
THEOREM DescriptorsAreHeld == Spec => []NoDescriptorLeak
<1>1. IInv => NoDescriptorLeak
  <2> SUFFICES ASSUME IInv PROVE NoDescriptorLeak
    OBVIOUS
  <2>1. ASSUME NEW f \in Fds, fdTable[f] # None
        PROVE  /\ fdOf[fdTable[f]] = f
               /\ \/ fdTable[f] = accConn
                  \/ handler[fdTable[f]] \in {"loop", "recv", "handle", "close"}
    BY <2>1 DEF IInv, TableInv, Held, Live
  <2>2. ASSUME main \in {"join", "clear", "stopped"}, NEW c \in Conns,
               handler[c] = "recv", Source(c) = c
        PROVE  \E d \in Conns \ {c} : fdOf[d] = fdOf[c]
    BY <2>2 DEF IInv, ListedInv, Closed, Reused
  <2> QED
    BY <2>1, <2>2, Zenon DEF NoDescriptorLeak
<1> QED
  BY <1>1, Invariance, PTL

\* A step closes the descriptor of a connection only if it is the close() of the
\* connection's own handler, or Close; and accept() takes none that is in use.
ClosesOwn ==
    \A f \in Fds : fdTable[f] # None /\ fdTable'[f] # fdTable[f] =>
        fdTable'[f] = None /\ (HandlerClose(fdTable[f]) \/ CloseClients)

\* HandleClient closes its client_fd without a lock and after others may have closed
\* it and the kernel given it away again; it still never closes another client's.
THEOREM HandlersCloseTheirOwn == Spec => [][ClosesOwn]_vars
<1>1. ASSUME IInv, [Next]_vars PROVE ClosesOwn
  <2> SUFFICES ASSUME NEW f \in Fds, fdTable[f] # None, fdTable'[f] # fdTable[f]
               PROVE  fdTable'[f] = None /\ (HandlerClose(fdTable[f]) \/ CloseClients)
    BY DEF ClosesOwn
  <2>1. fdTable \in [Fds -> Conns \cup {None}] /\ fdTable[f] \in Conns
    BY <1>1 DEF IInv, TypeOK
  <2>2. CASE CloseClients
    BY <2>1, <2>2 DEF CloseClients
  <2>3. ASSUME NEW c \in Conns, HandlerClose(c)
        PROVE  fdTable'[f] = None /\ fdTable[f] = c
    <3>1. Held(c)
      BY <2>3 DEF HandlerClose, Held, Live
    <3>2. Source(c) = c \/ Source(c) = None
      BY <1>1, <3>1 DEF IInv, OwnInv
    <3>3. fdOf[c] \in Fds
      BY <1>1, <3>1 DEF IInv, OwnInv, TypeOK
    <3>4. f = fdOf[c] /\ fdTable'[f] = None
      BY <2>1, <2>3, <3>3 DEF HandlerClose
    <3> QED
      BY <3>2, <3>4 DEF Source
  <2>4. ASSUME NEW c \in Conns, NEW g \in Fds, Accept(c, g) PROVE FALSE
    BY <2>1, <2>4 DEF Accept, FreeFds
  <2>5. CASE UNCHANGED fdTable
    BY <2>5
  <2>6. CASE AcceptLoop \/ AcceptFails \/ PushClient \/ SpawnHandler
    BY <2>5, <2>6 DEF AcceptLoop, AcceptFails, PushClient, SpawnHandler
  <2>7. ASSUME NEW c \in Conns,
               HandlerLoop(c) \/ Receive(c) \/ OnNetworkMessage(c) \/ ReceiveEnd(c)
                  \/ HandlerErase(c)
        PROVE  FALSE
    BY <2>7 DEF HandlerLoop, Receive, OnNetworkMessage, ReceiveEnd, HandlerErase
  <2>8. CASE CloseListener \/ CloseJoin \/ ClearDevices \/ Listen \/ Stop
    BY <2>5, <2>8 DEF CloseListener, CloseJoin, ClearDevices, Listen, Stop
  <2>9. ASSUME NEW c \in Conns, ClientConnects(c) \/ ClientCloses(c) PROVE FALSE
    BY <2>9 DEF ClientConnects, ClientCloses
  <2>10. ASSUME NEW c \in Conns, NEW kind \in Requests, ClientAsks(c, kind) PROVE FALSE
    BY <2>10 DEF ClientAsks
  <2>11. ASSUME NEW found \in SUBSET Devices, ScanMassStorageDevices(found) PROVE FALSE
    BY <2>11 DEF ScanMassStorageDevices
  <2>12. ASSUME NEW d \in Devices, OnDeviceHotplug(d) PROVE FALSE
    BY <2>12 DEF OnDeviceHotplug
  <2>13. CASE UNCHANGED vars
    BY <2>5, <2>13 DEF vars
  <2> QED
    BY <1>1, <2>2, <2>3, <2>4, <2>6, <2>7, <2>8, <2>9, <2>10, <2>11, <2>12, <2>13
       DEF Next, AcceptThread, HandleClient, Close
<1> QED
  BY <1>1, Invariance, PTL DEF Spec
=============================================================================
