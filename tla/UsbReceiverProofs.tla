------------------------- MODULE UsbReceiverProofs -------------------------
(***************************************************************************)
(* Proofs about UsbReceiver, for every number of objects, ports, devices   *)
(* and lists.                                                              *)
(***************************************************************************)
EXTENDS UsbReceiver, SequenceTheorems, WellFoundedInduction, TLAPS

-----------------------------------------------------------------------------
(* Ports and vectors *)

\* Every set of natural numbers that is not empty has a least element.
LEMMA LeastNatural ==
    ASSUME NEW T, T \subseteq Nat, T # {}
    PROVE  \E p \in T : \A q \in T : p <= q
<1> DEFINE R == {ss \in Nat \X Nat : ss[1] < ss[2]}
<1>1. IsWellFoundedOn(R, Nat)
  BY NatLessThanWellFounded, Zenon DEF OpToRel
<1> HIDE DEF R
<1>2. PICK p \in T : \A q \in T : ~(<<q, p>> \in R)
  BY <1>1, WFMin
<1>3. \A q \in T : ~(q < p)
  BY <1>2 DEF R
<1>4. \A q \in T : p <= q
  BY <1>3
<1> QED
  BY <1>4

\* GetAvailablePort returns a port that is not taken, if there is one.
LEMMA LowestFree ==
    /\ FreePorts = {} => GetAvailablePort = -1
    /\ FreePorts # {} => GetAvailablePort \in FreePorts
<1>1. FreePorts \subseteq Nat
  BY PortsAssumption DEF FreePorts, Ports
<1>2. FreePorts # {} => \E p \in FreePorts : \A q \in FreePorts : p <= q
  BY <1>1, LeastNatural
<1> QED
  BY <1>2 DEF GetAvailablePort

\* What push_back, pop_back and clear do to the elements of a vector.
LEMMA ElementsAppend ==
    ASSUME NEW S, NEW s \in Seq(S), NEW e \in S
    PROVE  /\ Elements(Append(s, e)) = Elements(s) \cup {e}
           /\ Append(s, e) \in Seq(S)
           /\ Append(s, e)[Len(Append(s, e))] = e
<1>1. /\ Append(s, e) \in Seq(S)
      /\ Len(Append(s, e)) = Len(s) + 1
      /\ \A i \in 1 .. Len(s) : Append(s, e)[i] = s[i]
      /\ Append(s, e)[Len(s) + 1] = e
  BY AppendProperties
<1>2. /\ DOMAIN s = 1 .. Len(s) /\ Len(s) \in Nat
      /\ DOMAIN Append(s, e) = 1 .. Len(s) + 1
  BY <1>1, LenProperties
<1>3. 1 .. Len(s) + 1 = 1 .. Len(s) \cup {Len(s) + 1}
  BY <1>2
<1> QED
  BY <1>1, <1>2, <1>3 DEF Elements

LEMMA ElementsFront ==
    ASSUME NEW S, NEW s \in Seq(S), s # <<>>
    PROVE  /\ SubSeq(s, 1, Len(s) - 1) \in Seq(S)
           /\ Elements(s) = Elements(SubSeq(s, 1, Len(s) - 1)) \cup {s[Len(s)]}
<1> DEFINE t == SubSeq(s, 1, Len(s) - 1)
<1>1. Len(s) \in Nat \ {0} /\ DOMAIN s = 1 .. Len(s)
  BY EmptySeq, LenProperties
<1>2. 1 \in Int /\ Len(s) - 1 \in Int
  BY <1>1
<1>3. \A i \in 1 .. Len(s) - 1 : s[i] \in S
  BY <1>1
<1>4. /\ t \in Seq(S)
      /\ Len(t) = Len(s) - 1
      /\ \A i \in 1 .. Len(s) - 1 : t[i] = s[i]
  BY <1>1, <1>2, <1>3
<1> HIDE DEF t
<1>5. DOMAIN t = 1 .. Len(s) - 1
  BY <1>4, LenProperties
<1>6. 1 .. Len(s) = 1 .. Len(s) - 1 \cup {Len(s)}
  BY <1>1
<1>7. Elements(s) = Elements(t) \cup {s[Len(s)]}
  BY <1>1, <1>4, <1>5, <1>6 DEF Elements
<1> QED
  BY <1>4, <1>7 DEF t

LEMMA ElementsEmpty == Elements(<<>>) = {}
BY DEF Elements

LEMMA ElementsType ==
    ASSUME NEW S, NEW s \in Seq(S)
    PROVE  Elements(s) \subseteq S
BY DEF Elements

-----------------------------------------------------------------------------
(* What the operations of VirtualUsbDevice and UsbipManager preserve *)

\* The part of the invariant that is about devices and ports only.
DevTypeOK ==
    /\ port_usage_ \in [Ports -> BOOLEAN]
    /\ vhci \in [Ports -> Objects \cup {None}]
    /\ created_ \subseteq Objects /\ attached_ \subseteq Objects
    /\ port_number_ \in [Objects -> Ports \cup {-1}]
    /\ busid \in [Objects -> Busids \cup {None}]

DevInv == DevTypeOK /\ PortsExclusive /\ PortAccounting /\ AttachedOnItsPort

\* DetachDevice: a device that stays attached keeps its port.
LEMMA DetachKeeps ==
    ASSUME DevInv, NEW S, Detach(S),
           UNCHANGED <<port_usage_, created_, port_number_, busid>>
    PROVE  DevInv'
<1> USE DEF DevInv
<1> DEFINE going == S \cap attached_
<1>1. PICK kept \in SUBSET going :
          vhci' = [p \in Ports |-> IF vhci[p] \in going \ kept THEN None ELSE vhci[p]]
  BY DEF Detach
<1>2. attached_' = attached_ \ S
  BY DEF Detach
<1>3. DevTypeOK'
  BY <1>1, <1>2 DEF DevTypeOK
<1>4. PortsExclusive' /\ PortAccounting'
  BY DEF PortsExclusive, PortAccounting
<1>5. AttachedOnItsPort'
  <2> SUFFICES ASSUME NEW o \in attached_'
               PROVE  o \in created_' /\ vhci'[port_number_'[o]] = o
    BY DEF AttachedOnItsPort
  <2>1. o \in attached_ /\ o \notin S
    BY <1>2
  <2>2. o \in created_ /\ vhci[port_number_[o]] = o /\ port_number_[o] \in Ports
    BY <2>1 DEF AttachedOnItsPort, PortsExclusive
  <2> QED
    BY <1>1, <2>1, <2>2
<1> QED
  BY <1>3, <1>4, <1>5

\* DestroyDevice gives the ports of its devices back, and no others.
LEMMA DestroyKeeps ==
    ASSUME DevInv, NEW S, DestroyDevice(S)
    PROVE  DevInv' /\ created_' = created_ \ S
<1> USE DEF DevInv
<1> DEFINE going == S \cap attached_
<1> DEFINE freed == {port_number_[o] : o \in S \cap created_}
<1>1. PICK kept \in SUBSET going :
          vhci' = [p \in Ports |-> IF vhci[p] \in going \ kept THEN None ELSE vhci[p]]
  BY DEF DestroyDevice, Detach
<1>2. attached_' = attached_ \ S /\ created_' = created_ \ S
  BY DEF DestroyDevice, Detach, Release
<1>3. /\ port_usage_' = [p \in Ports |-> port_usage_[p] /\ p \notin freed]
      /\ port_number_' = [o \in Objects |-> IF o \in S THEN -1 ELSE port_number_[o]]
      /\ busid' = busid
  BY DEF DestroyDevice, Release
<1>4. DevTypeOK'
  <2>1. vhci' \in [Ports -> Objects \cup {None}]
    BY <1>1 DEF DevTypeOK
  <2>2. port_number_' \in [Objects -> Ports \cup {-1}]
    BY <1>3 DEF DevTypeOK
  <2>3. port_usage_' \in [Ports -> BOOLEAN]
    BY <1>3 DEF DevTypeOK
  <2> QED
    BY <1>2, <1>3, <2>1, <2>2, <2>3 DEF DevTypeOK
<1>5. \A o \in created_' : o \in created_ /\ port_number_'[o] = port_number_[o]
  BY <1>2, <1>3 DEF DevTypeOK
<1>6. PortsExclusive'
  BY <1>5 DEF PortsExclusive
<1>7. PortAccounting'
  <2> SUFFICES ASSUME NEW p \in Ports
               PROVE  port_usage_'[p] <=> \E o \in created_' : port_number_'[o] = p
    BY DEF PortAccounting
  <2>1. port_usage_'[p] <=> port_usage_[p] /\ p \notin freed
    BY <1>3
  <2>2. port_usage_[p] <=> \E o \in created_ : port_number_[o] = p
    BY DEF PortAccounting
  <2>3. ASSUME NEW o \in created_, port_number_[o] = p, p \notin freed
        PROVE  \E a \in created_' : port_number_'[a] = p
    BY <1>2, <1>5, <2>3
  <2>4. ASSUME NEW o \in created_', port_number_'[o] = p
        PROVE  port_usage_[p] /\ p \notin freed
    <3>1. o \in created_ /\ o \notin S /\ port_number_[o] = p
      BY <1>2, <1>5, <2>4
    <3>2. \A a \in S \cap created_ : port_number_[a] # p
      BY <3>1 DEF PortsExclusive
    <3> QED
      BY <2>2, <3>1, <3>2
  <2> QED
    BY <2>1, <2>2, <2>3, <2>4
<1>8. AttachedOnItsPort'
  <2> SUFFICES ASSUME NEW o \in attached_'
               PROVE  o \in created_' /\ vhci'[port_number_'[o]] = o
    BY DEF AttachedOnItsPort
  <2>1. o \in attached_ /\ o \notin S
    BY <1>2
  <2>2. o \in created_ /\ vhci[port_number_[o]] = o /\ port_number_[o] \in Ports
    BY <2>1 DEF AttachedOnItsPort, PortsExclusive
  <2>3. o \in created_' /\ port_number_'[o] = port_number_[o]
    BY <1>2, <1>5, <2>1, <2>2
  <2> QED
    BY <1>1, <2>1, <2>2, <2>3
<1> QED
  BY <1>2, <1>4, <1>6, <1>7, <1>8

\* CreateDevice of an object that is not created takes a port that nobody has.
LEMMA CreateKeeps ==
    ASSUME DevInv, NEW o \in Objects, o \notin created_, NEW b \in Busids,
           CreateDevice(o, b)
    PROVE  /\ DevInv'
           /\ busid' = [busid EXCEPT ![o] = b]
           /\ created_' = IF GetAvailablePort < 0 THEN created_ ELSE created_ \cup {o}
<1> USE DEF DevInv
<1> DEFINE port == GetAvailablePort
<1>1. /\ busid' = [busid EXCEPT ![o] = b]
      /\ port_number_' = [port_number_ EXCEPT ![o] = port]
      /\ port_usage_' = [p \in Ports |-> port_usage_[p] \/ p = port]
      /\ created_' = IF port < 0 THEN created_ ELSE created_ \cup {o}
      /\ vhci' = vhci /\ attached_' = attached_
  BY DEF CreateDevice
<1>2. port = -1 \/ (port \in Ports /\ ~port_usage_[port])
  BY LowestFree DEF FreePorts
<1> HIDE DEF port
<1>3. \A p \in Ports : p \in Nat
  BY PortsAssumption DEF Ports
<1>4. DevTypeOK'
  <2>1. port_usage_' \in [Ports -> BOOLEAN]
    BY <1>1 DEF DevTypeOK
  <2>2. created_' \subseteq Objects
    BY <1>1 DEF DevTypeOK
  <2> QED
    BY <1>1, <1>2, <2>1, <2>2 DEF DevTypeOK
<1>5. \A a \in created_ : a # o /\ port_number_'[a] = port_number_[a]
  BY <1>1 DEF DevTypeOK
<1>6. \A a \in created_ : port_number_[a] # port
  BY <1>2, <1>3 DEF PortsExclusive, PortAccounting
<1>7. port_number_'[o] = port
  BY <1>1 DEF DevTypeOK
<1>8. PortsExclusive'
  BY <1>1, <1>2, <1>3, <1>5, <1>6, <1>7 DEF PortsExclusive
<1>9. PortAccounting'
  <2> SUFFICES ASSUME NEW p \in Ports
               PROVE  port_usage_'[p] <=> \E a \in created_' : port_number_'[a] = p
    BY DEF PortAccounting
  <2>1. port_usage_'[p] <=> port_usage_[p] \/ p = port
    BY <1>1
  <2>2. port_usage_[p] <=> \E a \in created_ : port_number_[a] = p
    BY DEF PortAccounting
  <2>3. CASE port < 0
    BY <1>1, <1>3, <1>5, <2>1, <2>2, <2>3
  <2>4. CASE ~(port < 0)
    <3>1. created_' = created_ \cup {o}
      BY <1>1, <2>4
    <3> QED
      BY <1>5, <1>7, <2>1, <2>2, <3>1
  <2> QED
    BY <2>3, <2>4
<1>10. AttachedOnItsPort'
  <2>1. \A a \in attached_ : a \in created_ /\ vhci[port_number_[a]] = a
    BY DEF AttachedOnItsPort
  <2> QED
    BY <1>1, <1>5, <2>1 DEF AttachedOnItsPort
<1> QED
  BY <1>1, <1>4, <1>8, <1>9, <1>10 DEF port

-----------------------------------------------------------------------------
(* The inductive invariant *)

\* Where the two threads are, what they hold and what they have to do.
ThreadTypeOK ==
    /\ virtual_devices_ \in Seq(Objects)
    /\ connected_ \in BOOLEAN /\ receiving \in BOOLEAN
    /\ recv \in {"idle", "next", "attach", "push", "send", "undodetach",
                 "undodestroy", "undopop"}
    /\ current \in Objects \cup {None}
    /\ todo \in Seq(Busids) /\ lists \in Nat
    /\ main \in {"run", "detach", "disconnect", "join", "cleanup", "stopped"}
    /\ next \in Nat /\ end \in Nat
    /\ ub \in BOOLEAN
    /\ (recv \in {"idle", "next"}) <=> (current = None)

\* The invariant, in the parts the proofs work with.
Parts == DevInv /\ ThreadTypeOK /\ NoPortLeak /\ ConstructedInv /\ ImportInv

LEMMA IInvParts == (IInv <=> Parts) /\ (IInv' <=> Parts')
BY DEF IInv, Parts, DevInv, TypeOK, DevTypeOK, ThreadTypeOK

\* The constructors establish the invariant.
LEMMA InitInv == Init => IInv
<1> SUFFICES ASSUME Init PROVE IInv
  OBVIOUS
<1> USE DEF Init
<1>1. DevInv
  BY DEF DevInv, DevTypeOK, PortsExclusive, PortAccounting, AttachedOnItsPort
<1>2. ThreadTypeOK
  <2>1. connected_ \in BOOLEAN /\ receiving \in BOOLEAN /\ ub \in BOOLEAN
    BY Zenon
  <2> QED
    BY <2>1 DEF ThreadTypeOK
<1>3. NoPortLeak /\ ImportInv
  BY DEF NoPortLeak, ImportInv
<1>4. ConstructedInv
  BY ElementsEmpty DEF ConstructedInv, Owned
<1> QED
  BY <1>1, <1>2, <1>3, <1>4, IInvParts DEF Parts

\* A list of devices is a sequence of bus ids.
LEMMA ListsAreSequences == Lists \subseteq Seq(Busids)
<1> SUFFICES ASSUME NEW n \in 0 .. MaxListLen, NEW f \in [1 .. n -> Busids]
             PROVE  f \in Seq(Busids)
  BY DEF Lists
<1>1. n \in Nat
  BY ListsAssumption
<1> QED
  BY <1>1, SeqDef

\* The receive thread imports.
LEMMA ImportCreateInv ==
    ASSUME IInv, NEW o \in Objects, ImportCreate(o)
    PROVE  IInv'
<1> USE IInvParts DEF ImportCreate, Parts, mainVars
<1> DEFINE b == Head(todo)
<1>1. b \in Busids /\ Tail(todo) \in Seq(Busids)
  BY DEF ThreadTypeOK
<1>2. o \notin created_
  BY DEF ConstructedInv
<1>3. /\ DevInv'
      /\ busid' = [busid EXCEPT ![o] = b]
      /\ created_' = IF GetAvailablePort < 0 THEN created_ ELSE created_ \cup {o}
  BY <1>1, <1>2, CreateKeeps
<1>4. current = None /\ Owned = {}
  BY DEF ThreadTypeOK, Owned
<1>5. o # None /\ b # None
  BY <1>1, NoneAssumption
<1>6. Constructed' = Constructed \cup {o}
  BY <1>3, <1>5 DEF Constructed, DevInv, DevTypeOK
<1>7. \/ /\ recv' = "next" /\ current' = None /\ Owned' = {}
         /\ created_' = created_
      \/ /\ recv' = "attach" /\ current' = o /\ Owned' = {o}
         /\ created_' = created_ \cup {o}
  BY <1>3, <1>5 DEF Owned
<1>8. ThreadTypeOK'
  BY <1>1, <1>5, <1>7 DEF ThreadTypeOK
<1>9. NoPortLeak' /\ ConstructedInv'
  BY <1>4, <1>6, <1>7 DEF NoPortLeak, ConstructedInv
<1>10. ImportInv'
  BY <1>7 DEF ImportInv
<1> QED
  BY <1>3, <1>8, <1>9, <1>10

LEMMA AttachDeviceInv ==
    ASSUME IInv, AttachDevice
    PROVE  IInv'
<1> USE IInvParts DEF AttachDevice, Parts, mainVars
<1> DEFINE port == port_number_[current]
<1>1. current \in created_ /\ current \in Objects /\ current # None
  BY NoneAssumption DEF ImportInv, DevInv, DevTypeOK
<1>2. port \in Ports
  BY <1>1 DEF DevInv, PortsExclusive
<1>3. DevTypeOK' /\ PortsExclusive' /\ PortAccounting'
  BY <1>1, <1>2 DEF DevInv, DevTypeOK, PortsExclusive, PortAccounting
<1>4. AttachedOnItsPort'
  <2> SUFFICES ASSUME NEW a \in attached_'
               PROVE  a \in created_' /\ vhci'[port_number_'[a]] = a
    BY DEF AttachedOnItsPort
  <2>1. CASE a = current
    BY <1>1, <1>2, <2>1 DEF DevInv, DevTypeOK
  <2>2. CASE a # current
    <3>1. a \in attached_
      BY <2>2
    <3>2. a \in created_ /\ vhci[port_number_[a]] = a /\ port_number_[a] \in Ports
      BY <3>1 DEF DevInv, AttachedOnItsPort, PortsExclusive
    <3>3. a # None
      BY <3>1, NoneAssumption DEF DevInv, DevTypeOK
    <3>4. port_number_[a] # port
      BY <3>2, <3>3
    <3> QED
      BY <1>2, <3>2, <3>4 DEF DevInv, DevTypeOK
  <2> QED
    BY <2>1, <2>2
<1>5. ThreadTypeOK' /\ NoPortLeak' /\ ConstructedInv' /\ ImportInv'
  BY <1>1 DEF ThreadTypeOK, NoPortLeak, ConstructedInv, ImportInv, Owned, Constructed,
              Elements
<1> QED
  BY <1>3, <1>4, <1>5 DEF DevInv

LEMMA AttachFailsInv ==
    ASSUME IInv, AttachFails
    PROVE  IInv'
<1> USE IInvParts DEF AttachFails, Parts, mainVars
<1>1. DevInv' /\ created_' = created_ \ {current} /\ busid' = busid
  BY DestroyKeeps DEF DestroyDevice
<1>2. ThreadTypeOK'
  BY DEF ThreadTypeOK
<1>3. NoPortLeak' /\ ConstructedInv'
  BY <1>1 DEF NoPortLeak, ConstructedInv, Owned, Constructed, Elements
<1>4. ImportInv'
  BY DEF ImportInv
<1> QED
  BY <1>1, <1>2, <1>3, <1>4

LEMMA PushBackInv ==
    ASSUME IInv, PushBack
    PROVE  IInv'
<1> USE IInvParts DEF PushBack, Parts, mainVars
<1>1. current \in Objects /\ current # None
  BY DEF ThreadTypeOK
<1>2. /\ Elements(virtual_devices_') = Elements(virtual_devices_) \cup {current}
      /\ virtual_devices_' \in Seq(Objects)
      /\ virtual_devices_'[Len(virtual_devices_')] = current
  BY <1>1, ElementsAppend DEF ThreadTypeOK
<1>3. DevInv'
  BY DEF DevInv, DevTypeOK, PortsExclusive, PortAccounting, AttachedOnItsPort, devVars
<1>4. ThreadTypeOK'
  <2>1. ub' \in BOOLEAN
    BY Zenon
  <2> QED
    BY <1>1, <1>2, <2>1 DEF ThreadTypeOK
<1>5. NoPortLeak' /\ ConstructedInv'
  <2>1. created_' = created_ /\ Constructed' = Constructed /\ Owned' = Owned
    BY DEF Owned, Constructed, devVars
  <2>2. current \in Owned
    BY <1>1 DEF Owned
  <2> HIDE DEF PushBack
  <2> QED
    BY <1>2, <2>1, <2>2 DEF NoPortLeak, ConstructedInv
<1>6. ImportInv'
  BY <1>2 DEF ImportInv
<1> QED
  BY <1>3, <1>4, <1>5, <1>6

\* The import ends, and its device lives on in the vector or is destroyed.
LEMMA ImportSentInv ==
    ASSUME IInv, ImportSent
    PROVE  IInv'
<1> USE IInvParts DEF ImportSent, Parts, mainVars
<1> DEFINE S == Owned \ Elements(virtual_devices_)
<1>1. DevInv' /\ created_' = created_ \ S /\ busid' = busid
  BY DestroyKeeps DEF DestroyDevice
<1>2. ThreadTypeOK'
  BY DEF ThreadTypeOK
<1>3. Owned' = {} /\ Elements(virtual_devices_') = Elements(virtual_devices_)
  BY DEF Owned
<1>4. NoPortLeak' /\ ConstructedInv'
  BY <1>1, <1>3 DEF NoPortLeak, ConstructedInv, Constructed
<1>5. ImportInv'
  BY DEF ImportInv
<1> QED
  BY <1>1, <1>2, <1>4, <1>5

LEMMA UndoDetachInv ==
    ASSUME IInv, UndoDetach
    PROVE  IInv'
<1> USE IInvParts DEF UndoDetach, Parts, mainVars
<1>1. DevInv'
  BY DetachKeeps
<1>2. ThreadTypeOK' /\ ImportInv'
  BY DEF ThreadTypeOK, ImportInv
<1>3. NoPortLeak' /\ ConstructedInv'
  BY DEF NoPortLeak, ConstructedInv, Owned, Constructed, Elements
<1> QED
  BY <1>1, <1>2, <1>3

LEMMA UndoDestroyInv ==
    ASSUME IInv, UndoDestroy
    PROVE  IInv'
<1> USE IInvParts DEF UndoDestroy, Parts, mainVars
<1>1. DevInv' /\ created_' = created_ \ {current} /\ busid' = busid
  BY DestroyKeeps DEF DestroyDevice
<1>2. ThreadTypeOK' /\ ImportInv'
  BY <1>1 DEF ThreadTypeOK, ImportInv
<1>3. NoPortLeak' /\ ConstructedInv'
  BY <1>1 DEF NoPortLeak, ConstructedInv, Owned, Constructed, Elements
<1> QED
  BY <1>1, <1>2, <1>3

\* What is popped is the device of this import, which is destroyed, so that no
\* created device loses its owner.
LEMMA UndoPopInv ==
    ASSUME IInv, UndoPop
    PROVE  IInv'
<1> USE IInvParts DEF UndoPop, Parts, mainVars
<1>1. current \notin created_ /\ Owned = {current} \ {None}
  BY DEF ImportInv, Owned
<1>2. DevInv'
  BY DEF DevInv, DevTypeOK, PortsExclusive, PortAccounting, AttachedOnItsPort, devVars
<1>3. /\ virtual_devices_' \in Seq(Objects)
      /\ Elements(virtual_devices_') \subseteq Elements(virtual_devices_)
      /\ Elements(virtual_devices_) \subseteq Elements(virtual_devices_') \cup {current}
  <2>1. CASE virtual_devices_ = <<>>
    BY <2>1 DEF ThreadTypeOK
  <2>2. CASE virtual_devices_ # <<>>
    <3>1. virtual_devices_[Len(virtual_devices_)] = current
      BY <2>2 DEF ImportInv
    <3>2. virtual_devices_ \in Seq(Objects)
      BY DEF ThreadTypeOK
    <3>3. virtual_devices_' = SubSeq(virtual_devices_, 1, Len(virtual_devices_) - 1)
      BY <2>2
    <3> HIDE DEF UndoPop
    <3>4. /\ virtual_devices_' \in Seq(Objects)
          /\ Elements(virtual_devices_) = Elements(virtual_devices_') \cup {current}
      BY <2>2, <3>1, <3>2, <3>3, ElementsFront
    <3> QED
      BY <3>4
  <2> QED
    BY <2>1, <2>2
<1>4. ThreadTypeOK'
  <2>1. ub' \in BOOLEAN
    <3>1. ub \in BOOLEAN
      BY DEF ThreadTypeOK
    <3> QED
      BY <3>1, Zenon
  <2> QED
    BY <1>3, <2>1 DEF ThreadTypeOK
<1>5. created_' = created_ /\ Constructed' = Constructed /\ Owned' = {}
  BY DEF devVars, Constructed, Owned
<1>6. NoPortLeak' /\ ConstructedInv'
  BY <1>1, <1>3, <1>5 DEF NoPortLeak, ConstructedInv
<1>7. ImportInv'
  BY DEF ImportInv
<1> QED
  BY <1>2, <1>4, <1>6, <1>7

\* Stop's loop and its clear() of the vector.
LEMMA StopDetachInv ==
    ASSUME IInv, StopDetach
    PROVE  IInv'
<1> USE IInvParts DEF StopDetach, Parts, recvVars
<1>1. DevInv'
  <2>1. CASE next > Len(virtual_devices_)
    BY <2>1 DEF DevInv, DevTypeOK, PortsExclusive, PortAccounting, AttachedOnItsPort
  <2>2. CASE ~(next > Len(virtual_devices_))
    BY <2>2, DetachKeeps
  <2> QED
    BY <2>1, <2>2
<1>2. ThreadTypeOK'
  <2>1. ub' \in BOOLEAN
    <3>1. ub \in BOOLEAN
      BY DEF ThreadTypeOK
    <3> QED
      BY <3>1, Zenon
  <2> QED
    BY <2>1 DEF ThreadTypeOK
<1>3. NoPortLeak' /\ ConstructedInv' /\ ImportInv'
  BY DEF NoPortLeak, ConstructedInv, ImportInv, Owned, Constructed, Elements
<1> QED
  BY <1>1, <1>2, <1>3

LEMMA StopClearInv ==
    ASSUME IInv, StopClear
    PROVE  IInv'
<1> USE IInvParts DEF StopClear, Parts, recvVars
<1> DEFINE S == Elements(virtual_devices_) \ Owned
<1>1. DevInv' /\ created_' = created_ \ S /\ busid' = busid
  BY DestroyKeeps DEF DestroyDevice
<1>2. ThreadTypeOK'
  BY DEF ThreadTypeOK
<1>3. Owned' = Owned /\ Elements(virtual_devices_') = {}
  BY ElementsEmpty DEF Owned
<1>4. NoPortLeak' /\ ConstructedInv'
  BY <1>1, <1>3 DEF NoPortLeak, ConstructedInv, Constructed
<1>5. ImportInv'
  BY <1>1 DEF ImportInv, Owned, ThreadTypeOK
<1> QED
  BY <1>1, <1>2, <1>4, <1>5

\* A step that leaves the devices, the vector and the import alone.
LEMMA QuietInv ==
    ASSUME IInv, UNCHANGED <<devVars, virtual_devices_, current>>,
           ThreadTypeOK', ImportInv'
    PROVE  IInv'
<1> USE IInvParts DEF Parts
<1>1. DevInv'
  BY DEF DevInv, DevTypeOK, PortsExclusive, PortAccounting, AttachedOnItsPort, devVars
<1>2. NoPortLeak' /\ ConstructedInv'
  BY DEF NoPortLeak, ConstructedInv, Owned, Constructed, Elements, devVars
<1> QED
  BY <1>1, <1>2

\* No step of either thread breaks the invariant.
LEMMA NextInv == IInv /\ [Next]_vars => IInv'
<1> SUFFICES ASSUME IInv, [Next]_vars PROVE IInv'
  OBVIOUS
<1>0. ThreadTypeOK /\ ImportInv
  BY IInvParts DEF Parts
<1> USE DEF mainVars, recvVars
<1>1. ASSUME NEW list \in Lists, OnDeviceListReceived(list) PROVE IInv'
  <2>1. list \in Seq(Busids)
    BY ListsAreSequences
  <2>2. ThreadTypeOK' /\ ImportInv'
    BY <1>0, <1>1, <2>1 DEF OnDeviceListReceived, ThreadTypeOK, ImportInv
  <2> QED
    BY <1>1, <2>2, QuietInv DEF OnDeviceListReceived
<1>2. CASE ListDone
  <2>1. ThreadTypeOK' /\ ImportInv'
    BY <1>0, <1>2 DEF ListDone, ThreadTypeOK, ImportInv
  <2> QED
    BY <1>2, <2>1, QuietInv DEF ListDone
<1>3. ASSUME NEW o \in Objects, ImportCreate(o) PROVE IInv'
  BY <1>3, ImportCreateInv
<1>4. CASE AttachDevice
  BY <1>4, AttachDeviceInv
<1>5. CASE AttachFails
  BY <1>5, AttachFailsInv
<1>6. CASE PushBack
  BY <1>6, PushBackInv
<1>7. CASE ImportSent
  BY <1>7, ImportSentInv
<1>8. CASE ImportSendFails
  <2>1. ThreadTypeOK' /\ ImportInv'
    BY <1>0, <1>8 DEF ImportSendFails, ThreadTypeOK, ImportInv, devVars
  <2> QED
    BY <1>8, <2>1, QuietInv DEF ImportSendFails
<1>9. CASE UndoDetach
  BY <1>9, UndoDetachInv
<1>10. CASE UndoDestroy
  BY <1>10, UndoDestroyInv
<1>11. CASE UndoPop
  BY <1>11, UndoPopInv
<1>12. CASE ReceiveThreadEnd
  <2>1. ThreadTypeOK' /\ ImportInv'
    BY <1>0, <1>12 DEF ReceiveThreadEnd, ThreadTypeOK, ImportInv, devVars
  <2> QED
    BY <1>12, <2>1, QuietInv DEF ReceiveThreadEnd
<1>13. CASE OnNetworkError
  <2>1. ThreadTypeOK' /\ ImportInv'
    BY <1>0, <1>13 DEF OnNetworkError, ThreadTypeOK, ImportInv, devVars
  <2> QED
    BY <1>13, <2>1, QuietInv DEF OnNetworkError
<1>14. CASE Stop
  <2>1. Len(virtual_devices_) \in Nat
    BY <1>0, LenProperties DEF ThreadTypeOK
  <2>2. ThreadTypeOK' /\ ImportInv'
    BY <1>0, <1>14, <2>1 DEF Stop, ThreadTypeOK, ImportInv, devVars
  <2> QED
    BY <1>14, <2>2, QuietInv DEF Stop
<1>15. CASE StopDetach
  BY <1>15, StopDetachInv
<1>16. CASE StopClear
  BY <1>16, StopClearInv
<1>17. CASE StopDisconnect
  <2>1. ThreadTypeOK' /\ ImportInv'
    BY <1>0, <1>17 DEF StopDisconnect, ThreadTypeOK, ImportInv, devVars
  <2> QED
    BY <1>17, <2>1, QuietInv DEF StopDisconnect
<1>18. CASE StopJoin
  <2>1. ThreadTypeOK' /\ ImportInv'
    BY <1>0, <1>18 DEF StopJoin, ThreadTypeOK, ImportInv, devVars
  <2> QED
    BY <1>18, <2>1, QuietInv DEF StopJoin
<1>19. CASE StopCleanup
  <2>1. ThreadTypeOK' /\ ImportInv'
    BY <1>0, <1>19 DEF StopCleanup, ThreadTypeOK, ImportInv, devVars
  <2> QED
    BY <1>19, <2>1, QuietInv DEF StopCleanup
<1>20. CASE UNCHANGED vars
  <2>1. ThreadTypeOK' /\ ImportInv'
    BY <1>0, <1>20 DEF vars, ThreadTypeOK, ImportInv, devVars
  <2> QED
    BY <1>20, <2>1, QuietInv DEF vars
<1> QED
  BY <1>1, <1>2, <1>3, <1>4, <1>5, <1>6, <1>7, <1>8, <1>9, <1>10, <1>11, <1>12,
     <1>13, <1>14, <1>15, <1>16, <1>17, <1>18, <1>19, <1>20
     DEF Next, ReceiveThread, MainThread

\* The invariant holds in every state the two threads can reach.
THEOREM Invariance == Spec => []IInv
BY InitInv, NextInv, PTL DEF Spec

-----------------------------------------------------------------------------
(* The theorems *)

\* The members of UsbReceiver, VirtualUsbDevice and UsbipManager keep their types.
THEOREM TypeCorrect == Spec => []TypeOK
<1>1. IInv => TypeOK
  BY DEF IInv
<1> QED
  BY <1>1, Invariance, PTL

\* GetAvailablePort never hands out a port that a created device holds.
THEOREM PortsNeverShared == Spec => []PortsExclusive
<1>1. IInv => PortsExclusive
  BY DEF IInv
<1> QED
  BY <1>1, Invariance, PTL

\* A port is marked as taken exactly as long as a created device has it.
THEOREM PortsAccounted == Spec => []PortAccounting
<1>1. IInv => PortAccounting
  BY DEF IInv
<1> QED
  BY <1>1, Invariance, PTL

\* Every created device has an owner that will give its port back.
THEOREM NoPortIsLeaked == Spec => []NoPortLeak
<1>1. IInv => NoPortLeak
  BY DEF IInv
<1> QED
  BY <1>1, Invariance, PTL

\* What a device believes of its attachment is what the kernel has.
THEOREM AttachmentsAgree == Spec => []AttachedOnItsPort
<1>1. IInv => AttachedOnItsPort
  BY DEF IInv
<1> QED
  BY <1>1, Invariance, PTL

-----------------------------------------------------------------------------
(* Stop without an import beside it *)

\* Stop has cleared the vector.
Cleared == main \in {"disconnect", "join", "cleanup", "stopped"}

\* The receive thread imports nothing once Stop has cleared the vector.
Quiet == Cleared => recv = "idle"

\* Then the vector stays empty.
EmptyInv == Cleared => virtual_devices_ = <<>>

LEMMA NextEmpty == Quiet /\ EmptyInv /\ [Next]_vars => EmptyInv'
<1> SUFFICES ASSUME Quiet, EmptyInv, [Next]_vars PROVE EmptyInv'
  OBVIOUS
<1> USE DEF Quiet, EmptyInv, Cleared
<1>1. ASSUME NEW list \in Lists, OnDeviceListReceived(list) PROVE EmptyInv'
  BY <1>1 DEF OnDeviceListReceived, mainVars
<1>2. CASE ListDone
  BY <1>2 DEF ListDone, mainVars
<1>3. ASSUME NEW o \in Objects, ImportCreate(o) PROVE EmptyInv'
  BY <1>3 DEF ImportCreate, mainVars
<1>4. CASE AttachDevice \/ AttachFails \/ ImportSent \/ ImportSendFails
  BY <1>4 DEF AttachDevice, AttachFails, ImportSent, ImportSendFails, mainVars
<1>5. CASE PushBack \/ UndoPop
  BY <1>5 DEF PushBack, UndoPop, mainVars
<1>6. CASE UndoDetach \/ UndoDestroy
  BY <1>6 DEF UndoDetach, UndoDestroy, mainVars
<1>7. CASE ReceiveThreadEnd \/ OnNetworkError
  BY <1>7 DEF ReceiveThreadEnd, OnNetworkError, mainVars
<1>8. CASE Stop \/ StopDetach \/ StopClear
  BY <1>8 DEF Stop, StopDetach, StopClear
<1>9. CASE StopDisconnect \/ StopJoin \/ StopCleanup
  BY <1>9 DEF StopDisconnect, StopJoin, StopCleanup
<1>10. CASE UNCHANGED vars
  BY <1>10 DEF vars, mainVars
<1> QED
  BY <1>1, <1>2, <1>3, <1>4, <1>5, <1>6, <1>7, <1>8, <1>9, <1>10
     DEF Next, ReceiveThread, MainThread

\* What the comment on Stop says (receiver/main.cpp:89) is true of every run in which
\* the receive thread is not importing once Stop has cleared virtual_devices_: the
\* race with an import is the only way to leave a device attached.
THEOREM StopDetachesAtRest == Spec /\ []Quiet => []StopDetachesAll
<1>1. Init => EmptyInv
  BY DEF Init, EmptyInv, Cleared
<1>2. IInv /\ Quiet /\ EmptyInv => StopDetachesAll
  <2> SUFFICES ASSUME IInv, Quiet, EmptyInv, main = "stopped" PROVE attached_ = {}
    BY DEF StopDetachesAll
  <2>1. current = None /\ virtual_devices_ = <<>>
    BY DEF IInv, TypeOK, Quiet, EmptyInv, Cleared
  <2>2. Elements(virtual_devices_) = {} /\ Owned = {}
    BY <2>1, ElementsEmpty DEF Owned
  <2>3. created_ = {}
    BY <2>2 DEF IInv, NoPortLeak
  <2> QED
    BY <2>3 DEF IInv, AttachedOnItsPort
<1> QED
  BY <1>1, <1>2, NextEmpty, Invariance, PTL DEF Spec
=============================================================================
