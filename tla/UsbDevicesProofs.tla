------------------------- MODULE UsbDevicesProofs -------------------------
(***************************************************************************)
(* Proofs about UsbDevices, for every set of devices.                      *)
(***************************************************************************)
EXTENDS UsbDevices, SequenceTheorems, TLAPS

Events == [kind : {"arrived", "left"}, dev : Devices]

-----------------------------------------------------------------------------
(* The inductive invariant *)

Adding == {"open", "claim", "probe", "push", "add"}

\* The hot-plug thread exists from the end of Start to the join in Stop, and
\* main adds devices only before it.
PhaseInv ==
    /\ pc["main"] \notin {"none", "loop", "events", "return"}
    /\ pc["hotplug"] \in {"none", "loop", "events", "return", "exited"} \cup Adding
    /\ pc["main"] \in {"initialize", "listen", "scan", "startcapture", "register",
                      "monitor"} \cup Adding
          => pc["hotplug"] = "none" /\ ~monitoring_
    /\ pc["main"] \in {"initialize", "listen", "scan", "startcapture", "register"}
                      \cup Adding => ~registered
    /\ pc["main"] \in {"run", "stophotplug"} /\ ~monitoring_
          => pc["hotplug"] = "none" /\ ~registered
    /\ pc["main"] \in {"clear", "destroycapture", "destroymanager", "exited"}
          => pc["hotplug"] = "none" /\ ~registered

\* Who owns objects when, and what the object of a thread has got so far.
OwnerInv ==
    /\ pc["main"] \in {"initialize", "listen", "destroycapture", "destroymanager",
                      "exited"} => mass_storage_devices_ = <<>>
    /\ pc["main"] \in {"initialize", "listen", "destroymanager", "exited"}
          => devices_ = {}
    /\ \/ pc["main"] \in {"scan"} \cup Adding
       \/ pc["hotplug"] \in {"return"} \cup Adding
       \/ locals = {}
    /\ todo # {} => pc["main"] \in {"scan"} \cup Adding
    /\ \A d \in todo : <<d, "main">> \in locals
    /\ context_ = "freed" => pc["main"] = "exited"
    /\ \A t \in Threads :
          /\ pc[t] \in Adding => cur[t] \in locals
          /\ pc[t] \in Adding \ {"open"} => cur[t] \in handle_
          /\ pc[t] \in {"push", "add"} => cur[t] \in initialized_

\* One object at most has claimed a device, and the listed ones have.
ClaimInv ==
    /\ \A o \in claimed_interfaces_ :
          bus[o[1]] = "gone" \/ (bus[o[1]] = "plugged" /\ claimOf[o[1]] = o)
    /\ \A o, q \in claimed_interfaces_ : o[1] = q[1] => o = q
    /\ \A t \in Threads :
          pc[t] \in {"probe", "push", "add"} => cur[t] \in claimed_interfaces_
    /\ Listed \subseteq claimed_interfaces_ \cap initialized_

\* No object is added twice: an arrival is reported once, and the scan tries a
\* device once.
TriedOnce ==
    \A t \in Threads : pc[t] \in Adding =>
        /\ bus[cur[t][1]] # "absent" /\ cur[t][2] = t
        /\ pc[t] # "add" => cur[t] \notin Listed
        /\ t = "main" => cur[t][1] \notin todo

ScannedOnce ==
    \A d \in todo : bus[d] # "absent" /\ <<d, "main">> \notin Listed

ArrivedOnce ==
    /\ \A i \in DOMAIN events : events[i].kind = "arrived" =>
          /\ bus[events[i].dev] # "absent"
          /\ <<events[i].dev, "hotplug">> \notin Listed
          /\ cur["hotplug"] # <<events[i].dev, "hotplug">>
    /\ \A i, j \in DOMAIN events :
          /\ events[i].kind = "arrived" /\ events[j].kind = "arrived"
          /\ events[i].dev = events[j].dev
          => i = j

ListedOnce ==
    \A i, j \in DOMAIN mass_storage_devices_ :
        mass_storage_devices_[i][1] = mass_storage_devices_[j][1] => i = j

OnceInv == TriedOnce /\ ScannedOnce /\ ArrivedOnce /\ ListedOnce

IInv ==
    /\ TypeOK /\ HandlesOwned
    /\ PhaseInv /\ OwnerInv /\ ClaimInv /\ OnceInv

-----------------------------------------------------------------------------
(* Queues and vectors *)

LEMMA AppendOne ==
    ASSUME NEW S, NEW s \in Seq(S), NEW e \in S
    PROVE  /\ Append(s, e) \in Seq(S)
           /\ Len(s) \in Nat /\ DOMAIN s = 1 .. Len(s)
           /\ DOMAIN Append(s, e) = 1 .. Len(s) + 1
           /\ \A i \in 1 .. Len(s) : Append(s, e)[i] = s[i]
           /\ Append(s, e)[Len(s) + 1] = e
           /\ Elements(Append(s, e)) = Elements(s) \cup {e}
<1>1. /\ Append(s, e) \in Seq(S)
      /\ Len(Append(s, e)) = Len(s) + 1
      /\ \A i \in 1 .. Len(s) : Append(s, e)[i] = s[i]
      /\ Append(s, e)[Len(s) + 1] = e
  BY AppendProperties
<1>2. /\ DOMAIN s = 1 .. Len(s) /\ Len(s) \in Nat
      /\ DOMAIN Append(s, e) = 1 .. Len(s) + 1
  BY <1>1, LenProperties
<1>3. 1 .. Len(s) + 1 = 1 .. Len(s) \cup {Len(s) + 1}
  BY <1>2
<1>4. Elements(Append(s, e)) = Elements(s) \cup {e}
  BY <1>1, <1>2, <1>3 DEF Elements
<1> QED
  BY <1>1, <1>2, <1>4

LEMMA TailOne ==
    ASSUME NEW S, NEW s \in Seq(S), s # <<>>
    PROVE  /\ Tail(s) \in Seq(S) /\ Head(s) \in S /\ Head(s) = s[1]
           /\ 1 \in DOMAIN s
           /\ \A i \in DOMAIN Tail(s) :
                 i \in Int /\ i >= 1 /\ i + 1 \in DOMAIN s /\ Tail(s)[i] = s[i + 1]
<1>1. Len(s) \in Nat \ {0} /\ DOMAIN s = 1 .. Len(s)
  BY EmptySeq, LenProperties
<1>2. /\ Tail(s) \in Seq(S) /\ Len(Tail(s)) = Len(s) - 1
      /\ \A i \in 1 .. Len(Tail(s)) : Tail(s)[i] = s[i + 1]
  BY <1>1, HeadTailProperties
<1>3. DOMAIN Tail(s) = 1 .. Len(s) - 1
  BY <1>2, LenProperties
<1>4. Head(s) = s[1] /\ s[1] \in S
  BY <1>1
<1> QED
  BY <1>1, <1>2, <1>3, <1>4

LEMMA NoElements == Elements(<<>>) = {}
BY DEF Elements

LEMMA ElementsType ==
    ASSUME NEW S, NEW s \in Seq(S)
    PROVE  Elements(s) \subseteq S
BY DEF Elements

-----------------------------------------------------------------------------
(* Threads and their objects *)

\* A thread that is adding a device has an object for it, and the other thread
\* is not adding one.
LEMMA ObjectOf ==
    ASSUME IInv, NEW t \in Threads, pc[t] \in Adding
    PROVE  /\ cur[t] \in Objects /\ cur[t] # None /\ cur[t][1] \in Devices
           /\ cur[t] = <<cur[t][1], t>>
           /\ \A u \in Threads : u # t => pc[u] \notin Adding
<1>1. cur[t] # None /\ cur[t] \in Objects
  BY DEF IInv, TypeOK, Adding
<1>2. cur[t][2] = t
  BY DEF IInv, OnceInv, TriedOnce
<1>3. cur[t][1] \in Devices /\ cur[t] = <<cur[t][1], t>>
  BY <1>1, <1>2 DEF Objects
<1>4. \A u \in Threads : u # t => pc[u] \notin Adding
  BY DEF IInv, PhaseInv, Threads, Adding
<1> QED
  BY <1>1, <1>3, <1>4

-----------------------------------------------------------------------------
(* The initial states, and the steps of the bus *)

LEMMA InitInv == Init => IInv
<1> SUFFICES ASSUME Init PROVE IInv
  OBVIOUS
<1>1. Listed = {}
  BY NoElements DEF Init, Listed
<1>2. TypeOK
  <2>1. /\ events \in Seq([kind : {"arrived", "left"}, dev : Devices])
        /\ mass_storage_devices_ \in Seq(Objects)
    BY DEF Init
  <2>2. bus \in [Devices -> {"absent", "plugged", "gone"}]
    BY DEF Init
  <2> QED
    BY <2>1, <2>2, NoneAssumption DEF Init, TypeOK, Threads
<1>3. HandlesOwned /\ PhaseInv
  BY DEF Init, HandlesOwned, PhaseInv, Threads, Adding
<1>4. OwnerInv
  BY DEF Init, OwnerInv, Threads, Adding
<1>5. ClaimInv
  BY <1>1 DEF Init, ClaimInv, Threads
<1>6. OnceInv
  BY <1>1 DEF Init, OnceInv, TriedOnce, ScannedOnce, ArrivedOnce, ListedOnce,
              Threads, Adding
<1> QED
  BY <1>2, <1>3, <1>4, <1>5, <1>6 DEF IInv

LEMMA PlugInv ==
    ASSUME IInv, NEW d \in Devices, Plug(d)
    PROVE  IInv'
<1> USE DEF Plug, libusbVars, threadVars, objVars, listVars
<1> DEFINE e == [kind |-> "arrived", dev |-> d]
<1>1. Listed' = Listed
  BY DEF Listed
<1>2. events \in Seq(Events) /\ e \in Events /\ (events' = events \/ events' = Append(events, e))
  BY DEF IInv, TypeOK, Report, Events
<1>3. TypeOK'
  <2>1. events' \in Seq(Events)
    BY <1>2, AppendOne
  <2> QED
    BY <2>1 DEF IInv, TypeOK, Events
<1>4. HandlesOwned' /\ PhaseInv' /\ OwnerInv'
  BY <1>1 DEF IInv, HandlesOwned, PhaseInv, OwnerInv
<1>5. ClaimInv'
  BY <1>1 DEF IInv, TypeOK, ClaimInv
<1>6. OnceInv'
  <2> USE DEF OnceInv
  <2>1. TypeOK /\ OnceInv /\ ClaimInv
    BY DEF IInv
  <2>2. \A x \in Devices : bus[x] # "absent" => bus'[x] # "absent" /\ x # d
    BY <2>1 DEF TypeOK
  <2>3. TriedOnce' /\ ScannedOnce' /\ ListedOnce'
    BY <1>1, <2>1, <2>2, ObjectOf DEF TriedOnce, ScannedOnce, ListedOnce, TypeOK
  <2>4. <<d, "hotplug">> \notin Listed /\ cur["hotplug"] # <<d, "hotplug">>
    <3>1. <<d, "hotplug">>[1] = d
      OBVIOUS
    <3>2. \A o \in Listed : bus[o[1]] # "absent"
      BY <2>1 DEF ClaimInv
    <3>3. pc["hotplug"] \in Adding => bus[cur["hotplug"][1]] # "absent"
      BY <2>1 DEF TriedOnce, Threads
    <3>4. <<d, "hotplug">> # None
      BY NoneAssumption DEF Objects, Threads
    <3>5. cur["hotplug"] # None => pc["hotplug"] \in Adding
      BY <2>1 DEF TypeOK, Threads, Adding
    <3> QED
      BY <3>1, <3>2, <3>3, <3>4, <3>5
  <2>5. ArrivedOnce'
    <3>1. \A i \in DOMAIN events :
              events[i] \in Events /\ (events[i].kind = "arrived" => events[i].dev # d)
      <4>1. \A i \in DOMAIN events : events[i] \in Events
        BY <1>2
      <4>2. \A i \in DOMAIN events : events[i].dev \in Devices
        BY <4>1 DEF Events
      <4>3. \A i \in DOMAIN events :
                events[i].kind = "arrived" => bus[events[i].dev] # "absent"
        BY <2>1 DEF ArrivedOnce
      <4> QED
        BY <2>2, <4>1, <4>2, <4>3
    <3>2. \A i \in DOMAIN events : events[i].kind = "arrived" =>
              /\ bus'[events[i].dev] # "absent"
              /\ <<events[i].dev, "hotplug">> \notin Listed
              /\ cur["hotplug"] # <<events[i].dev, "hotplug">>
      BY <2>1, <2>2, <3>1 DEF ArrivedOnce, Events
    <3>3. CASE events' = events
      BY <1>1, <2>1, <3>2, <3>3 DEF ArrivedOnce
    <3>4. CASE events' = Append(events, e)
      <4>1. /\ Len(events) \in Nat /\ DOMAIN events = 1 .. Len(events)
            /\ DOMAIN events' = 1 .. Len(events) + 1
            /\ \A i \in 1 .. Len(events) : events'[i] = events[i]
            /\ events'[Len(events) + 1] = e
        BY <1>2, <3>4, AppendOne
      <4>2. bus'[d] # "absent" /\ e.dev = d
        BY <2>1 DEF TypeOK
      <4> HIDE DEF e
      <4>3. \A i \in DOMAIN events' : i \in DOMAIN events \/ i = Len(events) + 1
        BY <4>1
      <4>4. \A i \in DOMAIN events' : events'[i].kind = "arrived" =>
                /\ bus'[events'[i].dev] # "absent"
                /\ <<events'[i].dev, "hotplug">> \notin Listed
                /\ cur["hotplug"] # <<events'[i].dev, "hotplug">>
        BY <2>4, <3>2, <4>1, <4>2, <4>3
      <4>5. \A i, j \in DOMAIN events' :
                /\ events'[i].kind = "arrived" /\ events'[j].kind = "arrived"
                /\ events'[i].dev = events'[j].dev
                => i = j
        BY <2>1, <3>1, <4>1, <4>2, <4>3 DEF ArrivedOnce
      <4> QED
        BY <1>1, <4>4, <4>5 DEF ArrivedOnce
    <3> QED
      BY <1>2, <3>3, <3>4
  <2> QED
    BY <2>3, <2>5
<1> QED
  BY <1>3, <1>4, <1>5, <1>6 DEF IInv

LEMMA UnplugInv ==
    ASSUME IInv, NEW d \in Devices, Unplug(d)
    PROVE  IInv'
<1> USE DEF Unplug, libusbVars, threadVars, objVars, listVars
<1> DEFINE e == [kind |-> "left", dev |-> d]
<1>1. Listed' = Listed
  BY DEF Listed
<1>2. /\ events \in Seq(Events) /\ e \in Events
      /\ events' = events \/ events' = Append(events, e)
  BY DEF IInv, TypeOK, Report, Events
<1>3. TypeOK'
  <2>1. events' \in Seq(Events)
    BY <1>2, AppendOne
  <2> QED
    BY <2>1 DEF IInv, TypeOK, Events
<1>4. HandlesOwned' /\ PhaseInv' /\ OwnerInv'
  BY <1>1 DEF IInv, HandlesOwned, PhaseInv, OwnerInv
<1>5. \A x \in Devices : IF x = d THEN bus'[x] = "gone"
                         ELSE bus'[x] = bus[x] /\ claimOf'[x] = claimOf[x]
  BY DEF IInv, TypeOK
<1>6. ClaimInv'
  <2>1. \A o \in claimed_interfaces_ : o[1] \in Devices
    BY DEF IInv, TypeOK, Objects
  <2> QED
    BY <1>1, <1>5, <2>1 DEF IInv, ClaimInv
<1>7. OnceInv'
  <2> USE DEF OnceInv
  <2>1. TypeOK /\ OnceInv
    BY DEF IInv
  <2>2. \A x \in Devices : bus[x] # "absent" => bus'[x] # "absent"
    BY <1>5
  <2>3. TriedOnce' /\ ScannedOnce' /\ ListedOnce'
    BY <1>1, <2>1, <2>2, ObjectOf DEF TriedOnce, ScannedOnce, ListedOnce, TypeOK
  <2>4. ArrivedOnce'
    <3>1. \A i \in DOMAIN events : events[i] \in Events
      BY <1>2
    <3>2. \A i \in DOMAIN events : events[i].dev \in Devices
      BY <3>1 DEF Events
    <3>3. CASE events' = events
      BY <1>1, <2>1, <2>2, <3>2, <3>3 DEF ArrivedOnce
    <3>4. CASE events' = Append(events, e)
      <4>1. /\ Len(events) \in Nat /\ DOMAIN events = 1 .. Len(events)
            /\ DOMAIN events' = 1 .. Len(events) + 1
            /\ \A i \in 1 .. Len(events) : events'[i] = events[i]
            /\ events'[Len(events) + 1] = e
        BY <1>2, <3>4, AppendOne
      <4>2. \A i \in DOMAIN events' : events'[i].kind = "arrived" =>
                i \in DOMAIN events /\ events'[i] = events[i]
        <5>1. e.kind # "arrived"
          OBVIOUS
        <5>2. \A i \in DOMAIN events' : i \in DOMAIN events \/ i = Len(events) + 1
          BY <4>1
        <5> HIDE DEF e
        <5> QED
          BY <4>1, <5>1, <5>2
      <4> QED
        BY <1>1, <2>1, <2>2, <3>2, <4>2 DEF ArrivedOnce
    <3> QED
      BY <1>2, <3>3, <3>4
  <2> QED
    BY <2>3, <2>4
<1> QED
  BY <1>3, <1>4, <1>6, <1>7 DEF IInv

-----------------------------------------------------------------------------
(* Steps that only move a thread *)

\* What main and the hot-plug thread do outside of the adding of a device, as
\* far as they leave objects and their owners alone.
LEMMA MoveKeeps ==
    ASSUME IInv,
           UNCHANGED <<busVars, cur, todo, locals, handle_, claimed_interfaces_,
                       initialized_, listVars>>,
           \A t \in Threads :
               pc'[t] = pc[t] \/ (pc[t] \notin Adding /\ pc'[t] \notin Adding)
    PROVE  HandlesOwned' /\ ClaimInv' /\ OnceInv'
<1> USE DEF busVars, listVars
<1>1. Listed' = Listed
  BY DEF Listed
<1>2. HandlesOwned'
  BY <1>1 DEF IInv, HandlesOwned
<1>3. ClaimInv'
  BY <1>1 DEF IInv, ClaimInv, Adding
<1>4. TriedOnce'
  BY <1>1 DEF IInv, OnceInv, TriedOnce
<1>5. ScannedOnce' /\ ArrivedOnce' /\ ListedOnce'
  BY <1>1 DEF IInv, OnceInv, ScannedOnce, ArrivedOnce, ListedOnce
<1> QED
  BY <1>2, <1>3, <1>4, <1>5 DEF OnceInv

MainMoves ==
    \/ Initialize \/ StartFails \/ StartCapture \/ RegisterCallback \/ RegisterFails
    \/ StartHotplugThread \/ StopCapture \/ StopHotplugMonitoring \/ JoinHotplug
    \/ DestroyManager

HotplugMoves == HotplugLoop \/ EventsReturn

LEMMA MoveInv ==
    ASSUME IInv, MainMoves \/ HotplugMoves
    PROVE  IInv'
<1> USE DEF Goto, busVars, libusbVars, objVars, listVars,
            IInv, TypeOK, PhaseInv, OwnerInv, Threads, Adding
<1>1. CASE Initialize
  BY <1>1, MoveKeeps DEF Initialize
<1>2. CASE StartFails
  BY <1>2, MoveKeeps DEF StartFails
<1>3. CASE StartCapture
  BY <1>3, MoveKeeps DEF StartCapture
<1>4. CASE RegisterCallback
  BY <1>4, MoveKeeps DEF RegisterCallback
<1>5. CASE RegisterFails
  BY <1>5, MoveKeeps DEF RegisterFails
<1>6. CASE StartHotplugThread
  BY <1>6, MoveKeeps DEF StartHotplugThread
<1>7. CASE StopCapture
  BY <1>7, MoveKeeps DEF StopCapture
<1>8. CASE StopHotplugMonitoring
  BY <1>8, MoveKeeps DEF StopHotplugMonitoring
<1>9. CASE JoinHotplug
  BY <1>9, MoveKeeps DEF JoinHotplug
<1>10. CASE DestroyManager
  BY <1>10, MoveKeeps DEF DestroyManager
<1>11. CASE HotplugLoop
  BY <1>11, MoveKeeps DEF HotplugLoop
<1>12. CASE EventsReturn
  BY <1>12, MoveKeeps DEF EventsReturn
<1> QED
  BY <1>1, <1>2, <1>3, <1>4, <1>5, <1>6, <1>7, <1>8, <1>9, <1>10, <1>11, <1>12
  DEF MainMoves, HotplugMoves
-----------------------------------------------------------------------------
(* Steps that destroy objects *)

\* ~MassStorageDevice and ~UsbDevice of objects that nobody owns any more: the
\* handles of the others stay owned, and the listed objects keep their claims.
LEMMA DestroyKeeps ==
    ASSUME IInv, NEW S, Destroy(S),
           \A t \in Threads : pc[t] \notin Adding /\ pc'[t] \notin Adding,
           UNCHANGED <<bus, events, cur, todo>>,
           mass_storage_devices_' \in {mass_storage_devices_, <<>>},
           S \cap Listed' = {},
           handle_ \ S \subseteq Listed' \cup devices_' \cup locals'
    PROVE  /\ HandlesOwned' /\ ClaimInv' /\ OnceInv'
           /\ claimOf' \in [Devices -> Objects \cup {None}]
           /\ handle_' \subseteq Objects /\ claimed_interfaces_' \subseteq handle_'
           /\ initialized_' \subseteq Objects /\ capturing_' \subseteq initialized_'
           /\ mass_storage_devices_' \in Seq(Objects)
<1> USE DEF Destroy, Close
<1>1. Listed' \subseteq Listed
  BY NoElements DEF Listed
<1>2. HandlesOwned'
  BY DEF HandlesOwned
<1>3. ClaimInv'
  <2>1. \A o \in claimed_interfaces_' : o[1] \in Devices
    BY DEF IInv, TypeOK, Objects
  <2>2. \A o \in claimed_interfaces_' :
            bus'[o[1]] = "gone" \/ (bus'[o[1]] = "plugged" /\ claimOf'[o[1]] = o)
    BY <2>1 DEF IInv, ClaimInv
  <2>3. \A o, q \in claimed_interfaces_' : o[1] = q[1] => o = q
    BY DEF IInv, ClaimInv
  <2>4. Listed' \subseteq claimed_interfaces_' \cap initialized_'
    BY <1>1 DEF IInv, ClaimInv
  <2> QED
    BY <2>2, <2>3, <2>4 DEF ClaimInv, Adding
<1>4. TriedOnce' /\ ScannedOnce' /\ ArrivedOnce'
  BY <1>1 DEF IInv, OnceInv, TriedOnce, ScannedOnce, ArrivedOnce
<1>5. ListedOnce'
  BY DEF IInv, OnceInv, ListedOnce
<1>6. claimOf' \in [Devices -> Objects \cup {None}]
  BY DEF IInv, TypeOK
<1>7. /\ handle_' \subseteq Objects /\ claimed_interfaces_' \subseteq handle_'
      /\ initialized_' \subseteq Objects /\ capturing_' \subseteq initialized_'
  BY DEF IInv, TypeOK
<1>8. mass_storage_devices_' \in Seq(Objects)
  <2>1. <<>> \in Seq(Objects)
    OBVIOUS
  <2> QED
    BY <2>1 DEF IInv, TypeOK
<1> QED
  BY <1>2, <1>3, <1>4, <1>5, <1>6, <1>7, <1>8 DEF OnceInv

LEMMA ScanDoneInv ==
    ASSUME IInv, ScanDone
    PROVE  IInv'
<1> USE DEF ScanDone, Goto, libusbVars, listVars
<1> DEFINE S == locals \ (Listed \cup devices_)
<1>1. Listed' = Listed
  BY DEF Listed
<1>2. /\ pc'["main"] = "startcapture" /\ pc'["hotplug"] = "none"
      /\ pc["hotplug"] = "none" /\ pc["main"] = "scan"
      /\ \A t \in Threads : pc[t] \notin Adding /\ pc'[t] \notin Adding
  BY DEF IInv, TypeOK, PhaseInv, Threads, Adding
<1>3. handle_ \ S \subseteq Listed' \cup devices_' \cup locals'
  BY <1>1 DEF IInv, HandlesOwned
<1>4. /\ HandlesOwned' /\ ClaimInv' /\ OnceInv'
      /\ claimOf' \in [Devices -> Objects \cup {None}]
      /\ handle_' \subseteq Objects /\ claimed_interfaces_' \subseteq handle_'
      /\ initialized_' \subseteq Objects /\ capturing_' \subseteq initialized_'
  BY <1>1, <1>2, <1>3, DestroyKeeps
<1>5. TypeOK'
  BY <1>2, <1>4 DEF IInv, TypeOK, Threads
<1>6. PhaseInv' /\ OwnerInv'
  BY <1>2 DEF IInv, PhaseInv, OwnerInv, Threads, Adding
<1> QED
  BY <1>4, <1>5, <1>6 DEF IInv

LEMMA CallbackReturnsInv ==
    ASSUME IInv, CallbackReturns
    PROVE  IInv'
<1> USE DEF CallbackReturns, Goto, libusbVars, listVars
<1> DEFINE S == locals \ (Listed \cup devices_)
<1>1. Listed' = Listed
  BY DEF Listed
<1>2. /\ pc'["main"] = pc["main"] /\ pc'["hotplug"] = "events"
      /\ pc["hotplug"] = "return"
      /\ \A t \in Threads : pc[t] \notin Adding /\ pc'[t] \notin Adding
  BY DEF IInv, TypeOK, PhaseInv, Threads, Adding
<1>3. handle_ \ S \subseteq Listed' \cup devices_' \cup locals'
  BY <1>1 DEF IInv, HandlesOwned
<1>4. /\ HandlesOwned' /\ ClaimInv' /\ OnceInv'
      /\ claimOf' \in [Devices -> Objects \cup {None}]
      /\ handle_' \subseteq Objects /\ claimed_interfaces_' \subseteq handle_'
      /\ initialized_' \subseteq Objects /\ capturing_' \subseteq initialized_'
  BY <1>1, <1>2, <1>3, DestroyKeeps
<1>5. TypeOK'
  BY <1>2, <1>4 DEF IInv, TypeOK, Threads
<1>6. PhaseInv' /\ OwnerInv'
  BY <1>2 DEF IInv, PhaseInv, OwnerInv, Threads, Adding
<1> QED
  BY <1>4, <1>5, <1>6 DEF IInv

LEMMA ClearDevicesInv ==
    ASSUME IInv, ClearDevices
    PROVE  IInv'
<1> USE DEF ClearDevices, Goto, libusbVars
<1> DEFINE S == Listed \ (devices_ \cup locals)
<1>1. Listed' = {}
  BY NoElements DEF Listed
<1>2. /\ pc["main"] = "clear" /\ pc'["main"] = "destroycapture"
      /\ pc["hotplug"] = "none" /\ pc'["hotplug"] = "none"
      /\ \A t \in Threads : pc[t] \notin Adding /\ pc'[t] \notin Adding
  BY DEF IInv, TypeOK, PhaseInv, Threads, Adding
<1>3. handle_ \ S \subseteq Listed' \cup devices_' \cup locals'
  BY DEF IInv, HandlesOwned
<1>4. /\ HandlesOwned' /\ ClaimInv' /\ OnceInv'
      /\ claimOf' \in [Devices -> Objects \cup {None}]
      /\ handle_' \subseteq Objects /\ claimed_interfaces_' \subseteq handle_'
      /\ initialized_' \subseteq Objects /\ capturing_' \subseteq initialized_'
      /\ mass_storage_devices_' \in Seq(Objects)
  BY <1>1, <1>2, <1>3, DestroyKeeps
<1>5. TypeOK'
  BY <1>2, <1>4 DEF IInv, TypeOK, Threads
<1>6. PhaseInv' /\ OwnerInv'
  BY <1>2 DEF IInv, PhaseInv, OwnerInv, Threads, Adding
<1> QED
  BY <1>4, <1>5, <1>6 DEF IInv

LEMMA DestroyCaptureInv ==
    ASSUME IInv, DestroyCapture
    PROVE  IInv'
<1> USE DEF DestroyCapture, Goto, libusbVars
<1> DEFINE S == devices_ \ (Listed \cup locals)
<1>1. Listed' = Listed
  BY DEF Listed
<1>2. /\ pc["main"] = "destroycapture" /\ pc'["main"] = "destroymanager"
      /\ pc["hotplug"] = "none" /\ pc'["hotplug"] = "none"
      /\ \A t \in Threads : pc[t] \notin Adding /\ pc'[t] \notin Adding
  BY DEF IInv, TypeOK, PhaseInv, Threads, Adding
<1>3. handle_ \ S \subseteq Listed' \cup devices_' \cup locals'
  BY <1>1 DEF IInv, HandlesOwned
<1>4. /\ HandlesOwned' /\ ClaimInv' /\ OnceInv'
      /\ claimOf' \in [Devices -> Objects \cup {None}]
      /\ handle_' \subseteq Objects /\ claimed_interfaces_' \subseteq handle_'
      /\ initialized_' \subseteq Objects /\ capturing_' \subseteq initialized_'
      /\ mass_storage_devices_' \in Seq(Objects)
  BY <1>1, <1>2, <1>3, DestroyKeeps
<1>5. TypeOK'
  BY <1>2, <1>4 DEF IInv, TypeOK, Threads
<1>6. PhaseInv' /\ OwnerInv'
  BY <1>2 DEF IInv, PhaseInv, OwnerInv, Threads, Adding
<1> QED
  BY <1>4, <1>5, <1>6 DEF IInv
-----------------------------------------------------------------------------
(* Steps that add objects *)

LEMMA GetMassStorageDevicesInv ==
    ASSUME IInv, GetMassStorageDevices
    PROVE  IInv'
<1> USE DEF GetMassStorageDevices, Goto, busVars, libusbVars, objVars, listVars
<1>1. Listed = {} /\ Listed' = {}
  BY NoElements DEF Listed, IInv, OwnerInv
<1>2. /\ pc'["main"] = "scan" /\ pc["hotplug"] = "none" /\ pc'["hotplug"] = "none"
      /\ \A t \in Threads : pc[t] \notin Adding /\ pc'[t] \notin Adding
  BY DEF IInv, TypeOK, PhaseInv, Threads, Adding
<1>3. TypeOK'
  <2>1. todo' \X {"main"} \subseteq Objects
    BY DEF Objects, Threads
  <2> QED
    BY <2>1 DEF IInv, TypeOK, Threads
<1>4. HandlesOwned' /\ PhaseInv'
  BY <1>1, <1>2 DEF IInv, HandlesOwned, PhaseInv, Adding
<1>5. OwnerInv'
  BY <1>1, <1>2 DEF IInv, OwnerInv, Adding
<1>6. ClaimInv'
  BY <1>1, <1>2 DEF IInv, ClaimInv, Adding
<1>7. TriedOnce' /\ ScannedOnce'
  BY <1>1, <1>2 DEF TriedOnce, ScannedOnce
<1>8. ArrivedOnce' /\ ListedOnce'
  BY <1>1 DEF IInv, OnceInv, ArrivedOnce, ListedOnce
<1> QED
  BY <1>3, <1>4, <1>5, <1>6, <1>7, <1>8 DEF IInv, OnceInv

LEMMA ScanNextInv ==
    ASSUME IInv, NEW d \in Devices, ScanNext(d)
    PROVE  IInv'
<1> USE DEF ScanNext, Goto, busVars, libusbVars, objVars, listVars
<1>1. Listed' = Listed
  BY DEF Listed
<1>2. /\ pc'["main"] = "open" /\ pc["hotplug"] = "none" /\ pc'["hotplug"] = "none"
      /\ cur'["main"] = <<d, "main">> /\ cur'["hotplug"] = cur["hotplug"]
  BY DEF IInv, TypeOK, PhaseInv, Threads, Adding
<1>3. <<d, "main">> \in Objects /\ <<d, "main">> # None
  BY NoneAssumption DEF Objects, Threads
<1>4. TypeOK'
  BY <1>2, <1>3 DEF IInv, TypeOK, Threads
<1>5. HandlesOwned' /\ PhaseInv'
  BY <1>1, <1>2 DEF IInv, HandlesOwned, PhaseInv, Adding
<1>6. OwnerInv'
  BY <1>2 DEF IInv, OwnerInv, Adding, Threads
<1>7. ClaimInv'
  BY <1>1, <1>2 DEF IInv, ClaimInv, Threads
<1>8. TriedOnce'
  BY <1>1, <1>2 DEF IInv, OnceInv, TriedOnce, ScannedOnce, Threads, Adding
<1>9. ScannedOnce' /\ ArrivedOnce' /\ ListedOnce'
  BY <1>1, <1>2 DEF IInv, OnceInv, ScannedOnce, ArrivedOnce, ListedOnce
<1> QED
  BY <1>4, <1>5, <1>6, <1>7, <1>8, <1>9 DEF IInv, OnceInv

LEMMA OnLeftInv ==
    ASSUME IInv, OnLeft
    PROVE  IInv'
<1> USE DEF OnLeft, libusbVars, threadVars, objVars, listVars
<1>1. Listed' = Listed
  BY DEF Listed
<1>2. /\ events' \in Seq(Events)
      /\ \A i \in DOMAIN events' : /\ i \in Int /\ i + 1 \in DOMAIN events
                                   /\ events'[i] = events[i + 1]
  BY TailOne DEF IInv, TypeOK, Events
<1>3. TypeOK'
  BY <1>2 DEF IInv, TypeOK, Events
<1>4. HandlesOwned' /\ PhaseInv' /\ OwnerInv' /\ ClaimInv'
  BY <1>1 DEF IInv, HandlesOwned, PhaseInv, OwnerInv, ClaimInv
<1>5. TriedOnce' /\ ScannedOnce' /\ ListedOnce'
  BY <1>1 DEF IInv, OnceInv, TriedOnce, ScannedOnce, ListedOnce
<1>6. ArrivedOnce'
  BY <1>1, <1>2 DEF IInv, OnceInv, ArrivedOnce
<1> QED
  BY <1>3, <1>4, <1>5, <1>6 DEF IInv, OnceInv

LEMMA OnArrivedInv ==
    ASSUME IInv, OnArrived
    PROVE  IInv'
<1> USE DEF OnArrived, Goto, libusbVars, objVars, listVars
<1> DEFINE d == Head(events).dev
<1>1. Listed' = Listed
  BY DEF Listed
<1>2. /\ events' \in Seq(Events) /\ d \in Devices
      /\ 1 \in DOMAIN events /\ events[1].kind = "arrived" /\ events[1].dev = d
  <2>1. /\ Tail(events) \in Seq(Events) /\ Head(events) \in Events
        /\ 1 \in DOMAIN events /\ Head(events) = events[1]
    <3>1. events \in Seq(Events) /\ events # <<>>
      BY DEF IInv, TypeOK, Events
    <3> QED
      BY <3>1, TailOne
  <2>2. d \in Devices
    BY <2>1 DEF Events
  <2> QED
    BY <2>1, <2>2
<1>3. \A i \in DOMAIN events' : /\ i \in Int /\ i >= 1 /\ i + 1 \in DOMAIN events
                                /\ events'[i] = events[i + 1]
  BY TailOne DEF IInv, TypeOK, Events
<1>4. /\ pc'["hotplug"] = "open" /\ pc'["main"] = pc["main"]
      /\ pc["main"] \notin {"scan"} \cup Adding
      /\ cur'["hotplug"] = <<d, "hotplug">> /\ cur'["main"] = cur["main"]
      /\ locals' = locals \cup {<<d, "hotplug">>}
  BY DEF IInv, TypeOK, PhaseInv, Threads, Adding
<1> HIDE DEF d
<1>5. <<d, "hotplug">> \in Objects /\ <<d, "hotplug">> # None
  BY <1>2, NoneAssumption DEF Objects, Threads
<1>6. TypeOK'
  <2>1. locals' \subseteq Objects
    BY <1>4, <1>5 DEF IInv, TypeOK
  <2>2. cur' \in [Threads -> Objects \cup {None}]
    BY <1>5 DEF IInv, TypeOK, d
  <2> QED
    BY <1>2, <1>4, <1>5, <2>1, <2>2 DEF IInv, TypeOK, Threads, Events
<1>7. HandlesOwned' /\ PhaseInv'
  BY <1>1, <1>4 DEF IInv, HandlesOwned, PhaseInv, Adding
<1>8. OwnerInv'
  BY <1>4 DEF IInv, PhaseInv, OwnerInv, Adding, Threads
<1>9. ClaimInv'
  BY <1>1, <1>4 DEF IInv, ClaimInv, Threads
<1>10. TriedOnce'
  BY <1>1, <1>2, <1>4 DEF IInv, OnceInv, TriedOnce, ArrivedOnce, Threads, Adding
<1>11. ScannedOnce' /\ ListedOnce'
  BY <1>1 DEF IInv, OnceInv, ScannedOnce, ListedOnce
<1>12. ArrivedOnce'
  <2>1. \A i \in DOMAIN events' : events'[i].kind = "arrived" => events'[i].dev # d
    BY <1>2, <1>3 DEF IInv, OnceInv, ArrivedOnce
  <2>2. \A i \in DOMAIN events' : events'[i].kind = "arrived" =>
            <<d, "hotplug">> # <<events'[i].dev, "hotplug">>
    BY <2>1
  <2> QED
    <3>1. \A i \in DOMAIN events' : events'[i].kind = "arrived" =>
              /\ bus'[events'[i].dev] # "absent"
              /\ <<events'[i].dev, "hotplug">> \notin Listed'
              /\ cur'["hotplug"] # <<events'[i].dev, "hotplug">>
      BY <1>1, <1>3, <1>4, <2>2 DEF IInv, OnceInv, ArrivedOnce
    <3>2. \A i, j \in DOMAIN events' :
              /\ events'[i].kind = "arrived" /\ events'[j].kind = "arrived"
              /\ events'[i].dev = events'[j].dev
              => i = j
      <4> TAKE i, j \in DOMAIN events'
      <4>1. /\ i + 1 \in DOMAIN events /\ events'[i] = events[i + 1]
            /\ j + 1 \in DOMAIN events /\ events'[j] = events[j + 1]
            /\ i \in Int /\ j \in Int
        BY <1>3
      <4>2. i + 1 = j + 1 => i = j
        BY <4>1
      <4> QED
        BY <4>1, <4>2 DEF IInv, OnceInv, ArrivedOnce
    <3> QED
      BY <3>1, <3>2 DEF ArrivedOnce
<1> QED
  BY <1>6, <1>7, <1>8, <1>9, <1>10, <1>11, <1>12 DEF IInv, OnceInv

-----------------------------------------------------------------------------
(* The steps of the adding of a device *)

LEMMA OpenInv ==
    ASSUME IInv, NEW t \in Threads, Open(t)
    PROVE  IInv'
<1> USE DEF Open, Goto, busVars, libusbVars, listVars
<1>1. Listed' = Listed
  BY DEF Listed
<1>2. /\ cur[t] \in Objects /\ cur[t] # None /\ cur[t][1] \in Devices
      /\ \A u \in Threads : u # t => pc[u] \notin Adding
  BY ObjectOf DEF Adding
<1>3. TypeOK'
  BY <1>2 DEF IInv, TypeOK, Threads
<1>4. HandlesOwned' /\ PhaseInv'
  BY <1>1, <1>3 DEF IInv, TypeOK, HandlesOwned, PhaseInv, OwnerInv, Threads, Adding
<1>5. OwnerInv'
  BY DEF IInv, TypeOK, PhaseInv, OwnerInv, Threads, Adding
<1>6. ClaimInv'
  BY <1>1, <1>2 DEF IInv, TypeOK, ClaimInv, Threads
<1>7. OnceInv'
  BY <1>1, <1>2 DEF IInv, TypeOK, OnceInv, TriedOnce, ScannedOnce, ArrivedOnce,
                    ListedOnce, Threads, Adding
<1> QED
  BY <1>3, <1>4, <1>5, <1>6, <1>7 DEF IInv

LEMMA ClaimInterfaceInv ==
    ASSUME IInv, NEW t \in Threads, ClaimInterface(t)
    PROVE  IInv'
<1> USE DEF ClaimInterface, Goto, libusbVars, listVars
<1>1. Listed' = Listed
  BY DEF Listed
<1>2. /\ cur[t] \in Objects /\ cur[t] # None /\ cur[t][1] \in Devices
      /\ \A u \in Threads : u # t => pc[u] \notin Adding
  BY ObjectOf DEF Adding
<1>3. TypeOK'
  BY <1>2 DEF IInv, TypeOK, OwnerInv, Threads, Adding
<1>4. HandlesOwned' /\ PhaseInv'
  BY <1>1, <1>3 DEF IInv, TypeOK, HandlesOwned, PhaseInv, Threads, Adding
<1>5. OwnerInv'
  BY DEF IInv, TypeOK, PhaseInv, OwnerInv, Threads, Adding
<1>6. ClaimInv'
  <2>1. \A o \in claimed_interfaces_ : o \in Objects /\ o[1] \in Devices
    BY DEF IInv, TypeOK, Objects
  <2>2. \A o \in claimed_interfaces_ : o[1] # cur[t][1]
    BY <2>1, NoneAssumption DEF IInv, ClaimInv
  <2>3. /\ claimOf'[cur[t][1]] = cur[t]
        /\ \A x \in Devices : x # cur[t][1] => claimOf'[x] = claimOf[x]
    BY <1>2 DEF IInv, TypeOK
  <2>4. \A o \in claimed_interfaces_' :
            bus'[o[1]] = "gone" \/ (bus'[o[1]] = "plugged" /\ claimOf'[o[1]] = o)
    BY <2>1, <2>2, <2>3 DEF IInv, ClaimInv
  <2>5. \A o, q \in claimed_interfaces_' : o[1] = q[1] => o = q
    BY <2>2 DEF IInv, ClaimInv
  <2>6. \A u \in Threads :
            pc'[u] \in {"probe", "push", "add"} => cur'[u] \in claimed_interfaces_'
    BY <1>2 DEF IInv, TypeOK, ClaimInv, Adding
  <2> QED
    BY <1>1, <2>4, <2>5, <2>6 DEF IInv, ClaimInv
<1>7. OnceInv'
  BY <1>1, <1>2 DEF IInv, TypeOK, OnceInv, TriedOnce, ScannedOnce, ArrivedOnce,
                    ListedOnce, Threads, Adding
<1> QED
  BY <1>3, <1>4, <1>5, <1>6, <1>7 DEF IInv

LEMMA ProbeInv ==
    ASSUME IInv, NEW t \in Threads, Probe(t)
    PROVE  IInv'
<1> USE DEF Probe, Goto, busVars, libusbVars, listVars
<1>1. Listed' = Listed
  BY DEF Listed
<1>2. /\ cur[t] \in Objects /\ cur[t] # None /\ cur[t][1] \in Devices
      /\ \A u \in Threads : u # t => pc[u] \notin Adding
  BY ObjectOf DEF Adding
<1>3. TypeOK'
  BY <1>2 DEF IInv, TypeOK, Threads
<1>4. HandlesOwned' /\ PhaseInv'
  BY <1>1, <1>3 DEF IInv, TypeOK, HandlesOwned, PhaseInv, Threads, Adding
<1>5. OwnerInv'
  BY DEF IInv, TypeOK, PhaseInv, OwnerInv, Threads, Adding
<1>6. ClaimInv'
  BY <1>1, <1>2 DEF IInv, TypeOK, ClaimInv, Threads
<1>7. OnceInv'
  BY <1>1, <1>2 DEF IInv, TypeOK, OnceInv, TriedOnce, ScannedOnce, ArrivedOnce,
                    ListedOnce, Threads, Adding
<1> QED
  BY <1>3, <1>4, <1>5, <1>6, <1>7 DEF IInv

LEMMA PushBackInv ==
    ASSUME IInv, NEW t \in Threads, PushBack(t)
    PROVE  IInv'
<1> USE DEF PushBack, Goto, busVars, libusbVars, objVars
<1> DEFINE v == mass_storage_devices_
<1>1. /\ cur[t] \in Objects /\ cur[t] # None /\ cur[t][1] \in Devices
      /\ cur[t] = <<cur[t][1], t>>
      /\ \A u \in Threads : u # t => pc[u] \notin Adding
  BY ObjectOf DEF Adding
<1>2. v \in Seq(Objects)
  BY DEF IInv, TypeOK
<1>3. /\ v' \in Seq(Objects) /\ Len(v) \in Nat /\ DOMAIN v = 1 .. Len(v)
      /\ DOMAIN v' = 1 .. Len(v) + 1
      /\ \A i \in 1 .. Len(v) : v'[i] = v[i]
      /\ v'[Len(v) + 1] = cur[t]
      /\ Listed' = Listed \cup {cur[t]}
  BY <1>1, <1>2, AppendOne DEF Listed
<1>4. TypeOK'
  BY <1>3 DEF IInv, TypeOK, Threads
<1>5. HandlesOwned' /\ PhaseInv'
  BY <1>3 DEF IInv, TypeOK, HandlesOwned, PhaseInv, Threads, Adding
<1>6. OwnerInv'
  BY DEF IInv, TypeOK, PhaseInv, OwnerInv, Threads, Adding
<1>7. ClaimInv'
  BY <1>1, <1>3 DEF IInv, TypeOK, OwnerInv, ClaimInv, Threads
<1>8. TriedOnce' /\ ScannedOnce'
  <2>1. TriedOnce'
    BY <1>1, <1>3 DEF IInv, TypeOK, OnceInv, TriedOnce, Threads, Adding
  <2>2. \A d \in todo : <<d, "main">> # cur[t]
    BY <1>1 DEF IInv, OnceInv, TriedOnce, Adding
  <2> QED
    BY <1>3, <2>1, <2>2 DEF IInv, OnceInv, ScannedOnce
<1>9. ArrivedOnce'
  <2>1. \A i \in DOMAIN events : events[i].kind = "arrived" =>
            cur[t] # <<events[i].dev, "hotplug">>
    <3>1. CASE t = "hotplug"
      BY <3>1 DEF IInv, OnceInv, ArrivedOnce
    <3>2. CASE t = "main"
      <4>1. cur[t][2] = "main"
        BY <3>2 DEF IInv, OnceInv, TriedOnce, Adding
      <4>2. \A x : <<x, "hotplug">>[2] = "hotplug"
        OBVIOUS
      <4> QED
        BY <4>1, <4>2
    <3> QED
      BY <3>1, <3>2 DEF Threads
  <2> QED
    BY <1>3, <2>1 DEF IInv, OnceInv, ArrivedOnce
<1>10. ListedOnce'
  <2>1. \A o \in Listed : o[1] # cur[t][1]
    BY <1>1 DEF IInv, ClaimInv, OnceInv, TriedOnce, Adding
  <2>2. \A i \in DOMAIN v : v'[i] = v[i] /\ v[i] \in Listed
    BY <1>3 DEF Listed, Elements
  <2>3. \A i \in DOMAIN v' : i \in DOMAIN v \/ i = Len(v) + 1
    BY <1>3
  <2> QED
    BY <1>3, <2>1, <2>2, <2>3 DEF IInv, OnceInv, ListedOnce
<1> QED
  BY <1>4, <1>5, <1>6, <1>7, <1>8, <1>9, <1>10 DEF IInv, OnceInv

\* Initialize fails, or the object has been added: the thread is done with it.
LEMMA LeaveInv ==
    ASSUME IInv, NEW t \in Threads, OpenFails(t) \/ ClaimFails(t) \/ AddDevice(t)
    PROVE  IInv'
<1>1. /\ pc[t] \in Adding /\ Leave(t)
      /\ UNCHANGED <<busVars, libusbVars, todo, locals, objVars, mass_storage_devices_>>
      /\ devices_' = devices_ \/ devices_' = devices_ \cup {cur[t]}
  BY DEF OpenFails, ClaimFails, AddDevice, listVars, Adding
<1> USE <1>1 DEF Leave, Goto, busVars, libusbVars, objVars
<1>2. Listed' = Listed
  BY DEF Listed
<1>3. /\ cur[t] \in Objects /\ cur[t] # None
      /\ \A u \in Threads : u # t => pc[u] \notin Adding
  BY ObjectOf
<1>4. \A u \in Threads :
          /\ pc'[u] \notin Adding
          /\ cur'[u] = cur[u] \/ cur'[u] = None
          /\ u # t => pc'[u] = pc[u] /\ cur'[u] = cur[u]
  BY <1>3 DEF IInv, TypeOK, Adding
<1>5. TypeOK'
  BY <1>3 DEF IInv, TypeOK, Threads
<1>6. HandlesOwned' /\ PhaseInv'
  BY <1>2 DEF IInv, TypeOK, HandlesOwned, PhaseInv, Threads, Adding
<1>7. OwnerInv'
  BY <1>4 DEF IInv, TypeOK, PhaseInv, OwnerInv, Threads, Adding
<1>8. ClaimInv'
  BY <1>2, <1>4 DEF IInv, ClaimInv, Adding
<1>9. TriedOnce' /\ ScannedOnce' /\ ListedOnce'
  BY <1>2, <1>4 DEF IInv, OnceInv, TriedOnce, ScannedOnce, ListedOnce
<1>10. ArrivedOnce'
  <2>1. \A x \in Devices : <<x, "hotplug">> # None
    BY NoneAssumption DEF Objects, Threads
  <2>2. events \in Seq(Events)
    BY DEF IInv, TypeOK, Events
  <2>3. \A i \in DOMAIN events : events[i] \in Events
    BY <2>2
  <2>4. \A i \in DOMAIN events : events[i].dev \in Devices
    BY <2>3 DEF Events
  <2>5. cur'["hotplug"] = cur["hotplug"] \/ cur'["hotplug"] = None
    BY <1>4 DEF Threads
  <2> QED
    BY <1>2, <2>1, <2>4, <2>5 DEF IInv, OnceInv, ArrivedOnce
<1> QED
  BY <1>5, <1>6, <1>7, <1>8, <1>9, <1>10 DEF IInv, OnceInv

-----------------------------------------------------------------------------
(* The theorems *)

LEMMA NextInv ==
    ASSUME IInv, [Next]_vars
    PROVE  IInv'
<1>1. CASE UNCHANGED vars
  <2>1. UNCHANGED <<pc, cur, todo, locals, bus, claimOf, events, context_, registered,
                    monitoring_, handle_, claimed_interfaces_, initialized_,
                    capturing_, mass_storage_devices_, devices_>>
    BY <1>1 DEF vars, busVars, libusbVars, threadVars, objVars, listVars
  <2>2. HandlesOwned' /\ ClaimInv' /\ OnceInv'
    BY <2>1, MoveKeeps DEF busVars, listVars
  <2> QED
    BY <2>1, <2>2 DEF IInv, TypeOK, PhaseInv, OwnerInv
<1>2. ASSUME NEW d \in Devices, Plug(d) \/ Unplug(d)
      PROVE  IInv'
  BY <1>2, PlugInv, UnplugInv
<1>3. ASSUME NEW t \in Threads, AddMassStorage(t)
      PROVE  IInv'
  BY <1>3, OpenInv, ClaimInterfaceInv, ProbeInv, PushBackInv, LeaveInv
  DEF AddMassStorage
<1>4. CASE Start
  <2>1. \/ MainMoves \/ GetMassStorageDevices
        \/ \E d \in Devices : ScanNext(d)
        \/ ScanDone \/ AddMassStorage("main")
    BY <1>4 DEF Start, MainMoves
  <2> QED
    BY <1>3, <2>1, MoveInv, GetMassStorageDevicesInv, ScanNextInv, ScanDoneInv
    DEF Threads
<1>5. CASE HandleEvents
  BY <1>3, <1>5, OnArrivedInv, OnLeftInv, CallbackReturnsInv
  DEF HandleEvents, Threads
<1>6. CASE HotplugLoop \/ EventsReturn \/ StopCapture
  BY <1>6, MoveInv DEF MainMoves, HotplugMoves
<1>7. CASE Stop
  <2>1. MainMoves \/ ClearDevices \/ DestroyCapture
    BY <1>7 DEF Stop, MainMoves
  <2> QED
    BY <2>1, MoveInv, ClearDevicesInv, DestroyCaptureInv
<1> QED
  BY <1>1, <1>2, <1>4, <1>5, <1>6, <1>7 DEF Next

\* The inductive invariant holds in every state of the sender's device handling.
THEOREM Invariance == Spec => []IInv
<1>1. Init => IInv
  BY InitInv
<1>2. IInv /\ [Next]_vars => IInv'
  BY NextInv
<1> QED
  BY <1>1, <1>2, PTL DEF Spec

\* The members of UsbDeviceManager, UsbDevice, UrbCapture and UsbSender keep their
\* types, whatever is plugged and unplugged when.
THEOREM TypeCorrect == Spec => []TypeOK
<1>1. IInv => TypeOK
  BY DEF IInv
<1> QED
  BY <1>1, Invariance, PTL

\* Every open handle has an owner that closes it, also after an Initialize that
\* failed half-way.
THEOREM EveryHandleIsOwned == Spec => []HandlesOwned
<1>1. IInv => HandlesOwned
  BY DEF IInv
<1> QED
  BY <1>1, Invariance, PTL

\* The devices in mass_storage_devices_ are ready, claimed and listed once.
THEOREM ListedDevicesAreReady == Spec => []ListedReady
<1>1. IInv => ListedReady
  <2> SUFFICES ASSUME IInv PROVE ListedReady
    OBVIOUS
  <2>1. \A o \in Listed :
            /\ o \in initialized_ /\ o \in handle_
            /\ bus[o[1]] = "plugged" => claimOf[o[1]] = o
    BY DEF IInv, TypeOK, ClaimInv
  <2> QED
    BY <2>1 DEF IInv, OnceInv, ListedOnce, ListedReady
<1> QED
  BY <1>1, Invariance, PTL

\* No callback runs while Stop and the destructors drop devices, and the libusb
\* context is freed after the last handle.
THEOREM TakeDownIsOrdered == Spec => []TakenDownInOrder
<1>1. IInv => TakenDownInOrder
  <2> SUFFICES ASSUME IInv PROVE TakenDownInOrder
    OBVIOUS
  <2>1. context_ = "freed" => Listed \cup devices_ \cup locals = {}
    BY NoElements DEF IInv, PhaseInv, OwnerInv, Listed, Adding
  <2> QED
    BY <2>1 DEF IInv, PhaseInv, HandlesOwned, TakenDownInOrder
<1> QED
  BY <1>1, Invariance, PTL
=============================================================================
