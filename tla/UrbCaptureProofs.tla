-------------------------- MODULE UrbCaptureProofs --------------------------
(***************************************************************************)
(* Proofs about UrbCapture, for every set of devices, every set of URBs    *)
(* and every bound.                                                        *)
(***************************************************************************)
EXTENDS UrbCapture, SequenceTheorems, FiniteSetTheorems, TLAPS

-----------------------------------------------------------------------------
(* Sequences *)

\* Appending to a queue appends to anything that ends in the queue.
LEMMA ConcatAppend ==
    ASSUME NEW S, NEW s \in Seq(S), NEW t \in Seq(S), NEW e \in S
    PROVE  s \o Append(t, e) = Append(s \o t, e)
<1>1. <<e>> \in Seq(S)
  OBVIOUS
<1>2. Append(t, e) = t \o <<e>>
  BY AppendIsConcat
<1>3. s \o t \in Seq(S)
  BY ConcatProperties
<1>4. Append(s \o t, e) = (s \o t) \o <<e>>
  BY <1>3, AppendIsConcat
<1> QED
  BY <1>1, <1>2, <1>4, ConcatAssociative

\* Popping the head of a queue and holding it loses nothing.
LEMMA HeadThenTail ==
    ASSUME NEW S, NEW q \in Seq(S), q # <<>>
    PROVE  /\ Head(q) \in S /\ Tail(q) \in Seq(S)
           /\ <<Head(q)>> \o Tail(q) = q
<1>1. Head(q) \in S /\ Tail(q) \in Seq(S)
  BY HeadTailProperties
<1>2. Len(q) \in Nat \ {0}
  BY EmptySeq
<1>3. SubSeq(q, 1, Len(q)) = <<q[1]>> \o SubSeq(q, 1 + 1, Len(q))
  BY <1>2, SubSeqRecursiveFirst
<1>4. Tail(q) = SubSeq(q, 2, Len(q))
  BY TailIsSubSeq
<1>5. SubSeq(q, 1, Len(q)) = q
  BY SubSeqFull
<1>6. Head(q) = q[1]
  OBVIOUS
<1> QED
  BY <1>1, <1>3, <1>4, <1>5, <1>6

\* A sequence of length at most one that is not empty is a singleton.
LEMMA Singleton ==
    ASSUME NEW S, NEW h \in Seq(S), Len(h) <= 1, h # <<>>
    PROVE  h = <<Head(h)>> /\ Head(h) \in S
<1>0. Len(h) \in Nat \ {0}
  BY EmptySeq
<1>1. Len(h) = 1
  BY <1>0
<1>2. Head(h) \in S /\ Head(h) = h[1]
  BY HeadTailProperties
<1>3. <<Head(h)>> \in Seq(S) /\ Len(<<Head(h)>>) = 1 /\ <<Head(h)>>[1] = Head(h)
  BY <1>2
<1>4. \A i \in 1 .. Len(h) : h[i] = <<Head(h)>>[i]
  BY <1>1, <1>2, <1>3
<1> QED
  BY <1>1, <1>2, <1>3, <1>4, SeqEqual

\* Head and tail of a queue with an element in front.
LEMMA ConsThenHeadTail ==
    ASSUME NEW S, NEW e \in S, NEW q \in Seq(S)
    PROVE  /\ <<e>> \o q # <<>>
           /\ Head(<<e>> \o q) = e
           /\ Tail(<<e>> \o q) = q
<1>1. <<e>> \in Seq(S) /\ Len(<<e>>) = 1
  OBVIOUS
<1>2. /\ <<e>> \o q \in Seq(S)
      /\ Len(<<e>> \o q) = 1 + Len(q)
      /\ \A i \in 1 .. 1 + Len(q) :
            (<<e>> \o q)[i] = IF i <= 1 THEN <<e>>[i] ELSE q[i - 1]
  BY <1>1, ConcatProperties
<1>3. Len(q) \in Nat
  BY LenProperties
<1>4. <<e>> \o q # <<>>
  BY <1>2, <1>3
<1>5. Head(<<e>> \o q) = e
  BY <1>2, <1>3, <1>4
<1>6. Tail(<<e>> \o q) = q
  <2>1. /\ Tail(<<e>> \o q) \in Seq(S)
        /\ Len(Tail(<<e>> \o q)) = Len(q)
        /\ \A i \in 1 .. Len(q) : Tail(<<e>> \o q)[i] = (<<e>> \o q)[i + 1]
    BY <1>2, <1>3, <1>4, HeadTailProperties
  <2>2. \A i \in 1 .. Len(q) : Tail(<<e>> \o q)[i] = q[i]
    BY <1>2, <1>3, <2>1
  <2> QED
    BY <2>1, <2>2, SeqEqual
<1> QED
  BY <1>4, <1>5, <1>6

-----------------------------------------------------------------------------
(* The inductive invariant *)

\* The constructor establishes the invariant.
LEMMA InitInv == Init => IInv
<1> SUFFICES ASSUME Init PROVE IInv
  OBVIOUS
<1> USE DEF Init
<1>1. TypeOK
  <2>1. ZeroStatistics \in [total_urbs : Nat, urbs : [TransferTypes -> Nat],
                            bytes_transferred : Nat, errors : Nat]
    BY DEF ZeroStatistics
  <2>2. call \in [Producers -> Calls]
    BY DEF Calls
  <2>3. hand \in Seq(Urbs) /\ Len(hand) <= 1
    OBVIOUS
  <2>4. worker \in WorkerPcs /\ owner \in OwnerPcs
    BY DEF WorkerPcs, OwnerPcs
  <2> HIDE DEF Init
  <2>5. /\ urb_queue_ \in Seq(Urbs) /\ accepted \in Seq(Urbs) /\ delivered \in Seq(Urbs)
        /\ devices_ \subseteq Devices /\ hooked \subseteq Devices /\ started \subseteq Devices
        /\ sessions \in Nat /\ counted \in Nat /\ resetAt \in Nat
        /\ statistics_ = ZeroStatistics
    BY DEF Init
  <2>6. capturing_ \in BOOLEAN /\ should_stop_ \in BOOLEAN
    BY Zenon DEF Init
  <2> QED
    BY <2>1, <2>2, <2>3, <2>4, <2>5, <2>6 DEF TypeOK
<1>2. HandInv /\ OwnerInv
  BY DEF HandInv, OwnerInv
<1>3. NothingLost
  BY DEF NothingLost
<1> QED
  BY <1>1, <1>2, <1>3 DEF IInv

\* A producer that is about to push has a URB.
LEMMA PushedUrb ==
    ASSUME TypeOK, NEW p \in Producers, call[p].pc = "push"
    PROVE  call[p].urb \in Urbs
<1>1. call[p] \in Calls
  BY DEF TypeOK
<1>2. call[p] # NoCall /\ call[p] \notin [pc : {"notify"}]
  BY DEF NoCall
<1>3. call[p] \in [pc : {"push"}, urb : Urbs]
  BY <1>1, <1>2 DEF Calls
<1> QED
  BY <1>3

\* A step of the processing thread that only moves it keeps the invariant, if it
\* neither takes nor drops a URB nor creates or ends the thread.
LEMMA MoveInv ==
    ASSUME IInv, NEW from \in WorkerPcs, NEW to \in WorkerPcs,
           MoveWorker(from, to),
           from \notin {"none", "statistics", "callback", "terminate"},
           to \notin {"none", "statistics", "callback", "terminate"}
    PROVE  IInv'
<1> USE DEF IInv, MoveWorker, capVars, flagVars, histVars
<1>1. TypeOK'
  BY DEF TypeOK, Calls, Producers
<1>2. HandInv'
  BY DEF HandInv
<1>3. OwnerInv'
  BY DEF OwnerInv, TypeOK
<1>4. NothingLost'
  BY DEF NothingLost
<1> QED
  BY <1>1, <1>2, <1>3, <1>4

\* Every step of every thread keeps the invariant.
LEMMA NextInv == IInv /\ [Next]_vars => IInv'
<1> SUFFICES ASSUME IInv, [Next]_vars PROVE IInv'
  OBVIOUS
<1> USE DEF IInv, capVars, flagVars, histVars
<1>1. ASSUME NEW d \in Devices, AddDevice(d) \/ RemoveDevice(d)
      PROVE  IInv'
  <2>1. TypeOK'
    BY <1>1 DEF AddDevice, RemoveDevice, TypeOK
  <2>2. UNCHANGED <<flagVars, urb_queue_, worker, hand, owner, histVars>>
    BY <1>1 DEF AddDevice, RemoveDevice
  <2>3. HandInv' /\ OwnerInv' /\ NothingLost'
    BY <2>2 DEF HandInv, OwnerInv, NothingLost
  <2> QED
    BY <2>1, <2>3
<1>2. CASE RemoveAllDevices
  <2>1. TypeOK'
    BY <1>2 DEF RemoveAllDevices, TypeOK
  <2>2. HandInv' /\ OwnerInv' /\ NothingLost'
    BY <1>2 DEF RemoveAllDevices, HandInv, OwnerInv, NothingLost
  <2> QED
    BY <2>1, <2>2
<1>3. CASE StartCapture
  <2>1. TypeOK'
    <3>1. capturing_' \in BOOLEAN /\ should_stop_' \in BOOLEAN
      BY <1>3, Zenon DEF StartCapture
    <3> QED
      BY <1>3, <3>1 DEF StartCapture, TypeOK, OwnerPcs
  <2>2. HandInv' /\ NothingLost'
    BY <1>3 DEF StartCapture, HandInv, NothingLost
  <2>3. OwnerInv'
    BY <1>3 DEF StartCapture, OwnerInv
  <2> QED
    BY <2>1, <2>2, <2>3
<1>4. CASE StartThread
  <2>1. worker = "none"
    BY <1>4 DEF StartThread, OwnerInv
  <2>2. worker' = "loop" /\ owner' = "startdevices"
    BY <1>4, <2>1 DEF StartThread, Joinable
  <2>3. TypeOK'
    BY <1>4, <2>2 DEF StartThread, TypeOK, OwnerPcs, WorkerPcs
  <2>4. HandInv' /\ NothingLost'
    BY <1>4, <2>1, <2>2 DEF StartThread, HandInv, NothingLost
  <2>5. OwnerInv'
    BY <1>4, <2>2 DEF StartThread, OwnerInv
  <2> QED
    BY <2>3, <2>4, <2>5
<1>5. CASE StartDevices \/ StopDevices
  <2>1. TypeOK'
    BY <1>5 DEF StartDevices, StopDevices, TypeOK, OwnerPcs
  <2>2. HandInv' /\ NothingLost'
    BY <1>5 DEF StartDevices, StopDevices, HandInv, NothingLost
  <2>3. OwnerInv'
    BY <1>5 DEF StartDevices, StopDevices, OwnerInv
  <2> QED
    BY <2>1, <2>2, <2>3
<1>6. CASE StopCapture \/ StopCapturing
  <2>1. TypeOK'
    BY <1>6 DEF StopCapture, StopCapturing, TypeOK, OwnerPcs
  <2>2. HandInv' /\ NothingLost'
    BY <1>6 DEF StopCapture, StopCapturing, HandInv, NothingLost
  <2>3. OwnerInv'
    BY <1>6 DEF StopCapture, StopCapturing, OwnerInv
  <2> QED
    BY <2>1, <2>2, <2>3
<1>7. CASE StopNotify
  <2>1. TypeOK'
    BY <1>7 DEF StopNotify, TypeOK, OwnerPcs, WorkerPcs
  <2>2. HandInv' /\ NothingLost'
    BY <1>7 DEF StopNotify, HandInv, NothingLost
  <2>3. OwnerInv'
    BY <1>7 DEF StopNotify, OwnerInv
  <2> QED
    BY <2>1, <2>2, <2>3
<1>8. CASE StopJoin
  <2>1. TypeOK'
    BY <1>8 DEF StopJoin, TypeOK, OwnerPcs, WorkerPcs
  <2>2. HandInv' /\ NothingLost'
    BY <1>8 DEF StopJoin, HandInv, NothingLost
  <2>3. OwnerInv'
    BY <1>8 DEF StopJoin, OwnerInv
  <2> QED
    BY <2>1, <2>2, <2>3
<1>9. ASSUME NEW p \in Producers, NEW u \in Urbs, Enter(p, u)
      PROVE  IInv'
  <2>1. TypeOK'
    <3>1. [pc |-> "push", urb |-> u] \in Calls
      BY DEF Calls
    <3>2. call' \in [Producers -> Calls]
      BY <1>9, <3>1 DEF Enter, TypeOK
    <3> QED
      BY <1>9, <3>2 DEF Enter, TypeOK
  <2>2. HandInv' /\ OwnerInv' /\ NothingLost'
    BY <1>9 DEF Enter, HandInv, OwnerInv, NothingLost
  <2> QED
    BY <2>1, <2>2
<1>10. ASSUME NEW p \in Producers, Push(p)
       PROVE  IInv'
  <2>1. call[p].urb \in Urbs
    BY <1>10, PushedUrb DEF Push
  <2>2. [pc |-> "notify"] \in Calls
    BY DEF Calls
  <2>3. TypeOK'
    BY <1>10, <2>1, <2>2 DEF Push, TypeOK
  <2>4. HandInv' /\ OwnerInv'
    BY <1>10 DEF Push, HandInv, OwnerInv
  <2>5. NothingLost'
    <3>1. delivered \o hand \in Seq(Urbs) /\ urb_queue_ \in Seq(Urbs)
      BY ConcatProperties DEF TypeOK
    <3>2. (delivered \o hand) \o Append(urb_queue_, call[p].urb)
            = Append((delivered \o hand) \o urb_queue_, call[p].urb)
      BY <2>1, <3>1, ConcatAppend
    <3> QED
      BY <1>10, <3>2 DEF Push, NothingLost
  <2> QED
    BY <2>3, <2>4, <2>5
<1>11. ASSUME NEW p \in Producers, NotifyOne(p)
       PROVE  IInv'
  <2>1. TypeOK'
    BY <1>11 DEF NotifyOne, TypeOK, Calls, WorkerPcs
  <2>2. HandInv' /\ NothingLost'
    BY <1>11 DEF NotifyOne, HandInv, NothingLost
  <2>3. OwnerInv'
    BY <1>11 DEF NotifyOne, OwnerInv
  <2> QED
    BY <2>1, <2>2, <2>3
<1>12. CASE LoopTest \/ Lock \/ Predicate \/ Suspend \/ SpuriousWakeup \/ Reacquire
            \/ StopCheck \/ DrainEnd \/ Relock
  <2> USE DEF WorkerPcs
  <2>1. CASE LoopTest
    BY <2>1, MoveInv DEF LoopTest
  <2>2. CASE Lock
    BY <2>2, MoveInv DEF Lock
  <2>3. CASE Predicate
    BY <2>3, MoveInv DEF Predicate
  <2>4. CASE Suspend
    BY <2>4, MoveInv DEF Suspend
  <2>5. CASE SpuriousWakeup
    BY <2>5, MoveInv DEF SpuriousWakeup
  <2>6. CASE Reacquire
    BY <2>6, MoveInv DEF Reacquire
  <2>7. CASE StopCheck
    BY <2>7, MoveInv DEF StopCheck
  <2>8. CASE DrainEnd
    BY <2>8, MoveInv DEF DrainEnd
  <2>9. CASE Relock
    BY <2>9, MoveInv DEF Relock
  <2> QED
    BY <1>12, <2>1, <2>2, <2>3, <2>4, <2>5, <2>6, <2>7, <2>8, <2>9
<1>13. CASE Pop
  <2>1. /\ Head(urb_queue_) \in Urbs /\ Tail(urb_queue_) \in Seq(Urbs)
        /\ <<Head(urb_queue_)>> \o Tail(urb_queue_) = urb_queue_
    BY <1>13, HeadThenTail DEF Pop, TypeOK
  <2>2. hand = <<>>
    BY <1>13 DEF Pop, HandInv
  <2>3. hand' \in Seq(Urbs) /\ Len(hand') = 1 /\ hand' # <<>>
    BY <1>13, <2>1 DEF Pop
  <2>4. TypeOK'
    BY <1>13, <2>1, <2>3 DEF Pop, TypeOK, WorkerPcs
  <2>5. HandInv'
    BY <1>13, <2>3 DEF Pop, HandInv
  <2>6. OwnerInv'
    BY <1>13 DEF Pop, OwnerInv
  <2>7. NothingLost'
    <3>1. accepted = delivered \o urb_queue_
      BY <2>2, ConcatEmptySeq DEF NothingLost, TypeOK
    <3>2. (delivered \o <<Head(urb_queue_)>>) \o Tail(urb_queue_)
            = delivered \o (<<Head(urb_queue_)>> \o Tail(urb_queue_))
      <4>1. <<Head(urb_queue_)>> \in Seq(Urbs) /\ delivered \in Seq(Urbs)
        BY <2>1 DEF TypeOK
      <4> QED
        BY <2>1, <4>1, ConcatAssociative
    <3> QED
      BY <1>13, <2>1, <3>1, <3>2 DEF Pop, NothingLost
  <2> QED
    BY <2>4, <2>5, <2>6, <2>7
<1>14. CASE UpdateStatistics
  <2>1. Head(hand) \in Urbs
    BY <1>14, Singleton DEF UpdateStatistics, HandInv, TypeOK
  <2>2. Head(hand).type \in TransferTypes /\ Head(hand).actual_length \in Nat
    BY <2>1, UrbsAssumption
  <2>3. statistics_' \in [total_urbs : Nat, urbs : [TransferTypes -> Nat],
                          bytes_transferred : Nat, errors : Nat]
    <3> DEFINE st == statistics_
               urb == Head(hand)
    <3>1. /\ st.total_urbs \in Nat /\ st.bytes_transferred \in Nat /\ st.errors \in Nat
          /\ st.urbs \in [TransferTypes -> Nat]
      BY DEF TypeOK
    <3>2. [st.urbs EXCEPT ![urb.type] = @ + 1] \in [TransferTypes -> Nat]
      BY <2>2, <3>1
    <3>3. statistics_' = [total_urbs |-> st.total_urbs + 1,
                          urbs |-> [st.urbs EXCEPT ![urb.type] = @ + 1],
                          bytes_transferred |-> st.bytes_transferred + urb.actual_length,
                          errors |-> IF urb.status # 0 THEN st.errors + 1 ELSE st.errors]
      BY <1>14 DEF UpdateStatistics
    <3> QED
      BY <2>2, <3>1, <3>2, <3>3
  <2>4. TypeOK'
    <3>1. /\ worker' = "callback" /\ counted' = counted + 1
          /\ UNCHANGED <<capVars, flagVars, urb_queue_, call, hand, owner, sessions,
                         accepted, delivered, resetAt>>
      BY <1>14 DEF UpdateStatistics
    <3> QED
      BY <2>3, <3>1 DEF TypeOK, WorkerPcs
  <2>5. HandInv' /\ OwnerInv' /\ NothingLost'
    BY <1>14 DEF UpdateStatistics, HandInv, OwnerInv, NothingLost
  <2> QED
    BY <2>4, <2>5
<1>15. CASE Callback
  <2>1. delivered \o hand \in Seq(Urbs)
    BY ConcatProperties DEF TypeOK
  <2>2. TypeOK'
    BY <1>15, <2>1 DEF Callback, TypeOK, WorkerPcs
  <2>3. HandInv' /\ OwnerInv'
    BY <1>15 DEF Callback, HandInv, OwnerInv
  <2>4. NothingLost'
    <3>1. (delivered \o hand) \o <<>> = delivered \o hand
      BY <2>1, ConcatEmptySeq
    <3> QED
      BY <1>15, <3>1 DEF Callback, NothingLost
  <2> QED
    BY <2>2, <2>3, <2>4
<1>16. CASE ResetStatistics
  <2>1. ZeroStatistics \in [total_urbs : Nat, urbs : [TransferTypes -> Nat],
                            bytes_transferred : Nat, errors : Nat]
    BY DEF ZeroStatistics
  <2>2. TypeOK'
    BY <1>16, <2>1 DEF ResetStatistics, TypeOK
  <2>3. HandInv' /\ OwnerInv' /\ NothingLost'
    BY <1>16 DEF ResetStatistics, HandInv, OwnerInv, NothingLost
  <2> QED
    BY <2>2, <2>3
<1>17. CASE UNCHANGED vars
  <2>1. TypeOK'
    BY <1>17 DEF vars, TypeOK
  <2>2. HandInv' /\ OwnerInv' /\ NothingLost'
    BY <1>17 DEF vars, HandInv, OwnerInv, NothingLost
  <2> QED
    BY <2>1, <2>2
<1>18. ASSUME NEW d \in Devices, NEW u \in Urbs, OnDeviceData(d, u)
       PROVE  IInv'
  BY <1>18, <1>9 DEF OnDeviceData, Producers
<1>19. ASSUME NEW u \in Urbs, InjectUrb(u)
       PROVE  IInv'
  BY <1>19, <1>9 DEF InjectUrb, Producers
<1> HIDE DEF IInv, capVars, flagVars, histVars
<1> QED
  BY <1>1, <1>2, <1>3, <1>4, <1>5, <1>6, <1>7, <1>8, <1>10, <1>11, <1>12, <1>13,
     <1>14, <1>15, <1>16, <1>17, <1>18, <1>19
     DEF Next, Owner, Worker, Producer

\* UrbCapture always satisfies the inductive invariant.
THEOREM Invariance == Spec => []IInv
BY InitInv, NextInv, PTL DEF Spec

\* The members of UrbCapture keep their types.
THEOREM TypeCorrect == Spec => []TypeOK
<1>1. IInv => TypeOK
  BY DEF IInv
<1> QED
  BY <1>1, Invariance, PTL

\* What was delivered, what is in the processing thread's hands and what is
\* queued are, in this order, exactly what the producers pushed.
THEOREM NothingIsLost == Spec => []NothingLost
<1>1. IInv => NothingLost
  BY DEF IInv
<1> QED
  BY <1>1, Invariance, PTL

\* Outside a session there is no processing thread, and StartCapture never
\* assigns to a joinable std::thread.
THEOREM StoppedIsJoined == Spec => []StoppedMeansJoined
<1>1. IInv => StoppedMeansJoined
  BY DEF IInv, OwnerInv, StoppedMeansJoined, Joinable
<1> QED
  BY <1>1, Invariance, PTL

-----------------------------------------------------------------------------
(* Refinement *)

\* The constructor leaves an empty, closed channel.
LEMMA ChannelInit == Init => Channel!Init
<1> SUFFICES ASSUME Init PROVE Channel!Init
  OBVIOUS
<1>1. <<>> \o <<>> = <<>>
  OBVIOUS
<1>2. hand \o urb_queue_ = <<>> /\ delivered = <<>>
  BY <1>1 DEF Init
<1>3. (capturing_ \/ owner # "idle") = FALSE
  BY DEF Init
<1> QED
  BY <1>2, <1>3 DEF Channel!Init

\* Every step of UrbCapture is a step of the channel or invisible to it.
LEMMA ChannelNext == IInv /\ [Next]_vars => [Channel!Next]_(Channel!vars)
<1> SUFFICES ASSUME IInv, [Next]_vars PROVE [Channel!Next]_(Channel!vars)
  OBVIOUS
<1> USE DEF capVars, flagVars, histVars
<1> DEFINE open == capturing_ \/ owner # "idle"
<1> DEFINE pending == hand \o urb_queue_
\* A step that leaves the queue, the hand, the callback and the session alone.
<1>1. ASSUME UNCHANGED <<hand, urb_queue_, delivered>>, open' = open
      PROVE  UNCHANGED Channel!vars
  BY <1>1 DEF Channel!vars
<1>2. ASSUME UNCHANGED <<hand, urb_queue_, delivered, capturing_, owner>>
      PROVE  UNCHANGED Channel!vars
  BY <1>2 DEF Channel!vars
<1>3. CASE \E d \in Devices : AddDevice(d) \/ RemoveDevice(d)
  BY <1>2, <1>3 DEF AddDevice, RemoveDevice
<1>4. CASE RemoveAllDevices \/ ResetStatistics \/ UpdateStatistics
  BY <1>2, <1>4 DEF RemoveAllDevices, ResetStatistics, UpdateStatistics
<1>5. CASE StartCapture
  BY <1>5 DEF StartCapture, Channel!Next, Channel!Open
<1>6. CASE StopJoin
  <2>1. open /\ ~open'
    BY <1>6 DEF StopJoin, IInv, OwnerInv
  <2> QED
    BY <1>6, <2>1 DEF StopJoin, Channel!Next, Channel!Close
<1>7. CASE StartThread \/ StopNotify \/ StopDevices \/ StopCapturing
  <2>1. open = TRUE /\ open' = TRUE
    BY <1>7 DEF StartThread, StopNotify, StopDevices, StopCapturing
  <2> QED
    BY <1>1, <1>7, <2>1 DEF StartThread, StopNotify, StopDevices, StopCapturing
<1>8. CASE StartDevices \/ StopCapture
  <2>1. open = TRUE /\ open' = TRUE
    BY <1>8 DEF StartDevices, StopCapture, IInv, OwnerInv
  <2> QED
    BY <1>1, <1>8, <2>1 DEF StartDevices, StopCapture
<1>9. ASSUME NEW p \in Producers, NEW u \in Urbs, Enter(p, u)
      PROVE  UNCHANGED Channel!vars
  BY <1>2, <1>9 DEF Enter
<1>10. ASSUME NEW p \in Producers, Push(p)
       PROVE  Channel!Next
  <2>1. call[p].urb \in Urbs
    BY <1>10, PushedUrb DEF Push, IInv
  <2>2. hand \o Append(urb_queue_, call[p].urb) = Append(pending, call[p].urb)
    BY <2>1, ConcatAppend DEF IInv, TypeOK
  <2>3. Channel!Accept(call[p].urb)
    BY <1>10, <2>2 DEF Push, Channel!Accept
  <2> QED
    BY <2>1, <2>3 DEF Channel!Next
<1>11. ASSUME NEW p \in Producers, NotifyOne(p)
       PROVE  UNCHANGED Channel!vars
  BY <1>2, <1>11 DEF NotifyOne
<1>12. ASSUME NEW from, NEW to, MoveWorker(from, to)
       PROVE  UNCHANGED Channel!vars
  BY <1>2, <1>12 DEF MoveWorker
<1>13. CASE LoopTest \/ Lock \/ Predicate \/ Suspend \/ SpuriousWakeup \/ Reacquire
            \/ StopCheck \/ DrainEnd \/ Relock
  BY <1>12, <1>13 DEF LoopTest, Lock, Predicate, Suspend, SpuriousWakeup, Reacquire,
                      StopCheck, DrainEnd, Relock
<1>14. CASE Pop
  <2>1. hand = <<>>
    BY <1>14 DEF Pop, IInv, HandInv
  <2>2. <<Head(urb_queue_)>> \o Tail(urb_queue_) = urb_queue_
    BY <1>14, HeadThenTail DEF Pop, IInv, TypeOK
  <2>3. pending = urb_queue_
    BY <2>1, ConcatEmptySeq DEF IInv, TypeOK
  <2>4. pending' = pending
    BY <1>14, <2>2, <2>3 DEF Pop
  <2>5. UNCHANGED <<delivered, capturing_, owner>>
    BY <1>14 DEF Pop
  <2> QED
    BY <2>4, <2>5 DEF Channel!vars
<1>15. CASE Callback
  <2>1. hand # <<>> /\ worker # "none"
    BY <1>15 DEF Callback, IInv, HandInv
  <2>2. open
    BY <2>1 DEF IInv, OwnerInv
  <2>3. hand = <<Head(hand)>> /\ Head(hand) \in Urbs
    BY <2>1, Singleton DEF IInv, TypeOK
  <2>4. urb_queue_ \in Seq(Urbs) /\ delivered \in Seq(Urbs)
    BY DEF IInv, TypeOK
  <2>5. /\ <<Head(hand)>> \o urb_queue_ # <<>>
        /\ Head(<<Head(hand)>> \o urb_queue_) = Head(hand)
        /\ Tail(<<Head(hand)>> \o urb_queue_) = urb_queue_
    BY <2>3, <2>4, ConsThenHeadTail
  <2>6. delivered \o <<Head(hand)>> = Append(delivered, Head(hand))
    BY <2>3, <2>4, AppendIsConcat
  <2>7. <<>> \o urb_queue_ = urb_queue_
    BY <2>4, ConcatEmptySeq
  <2>8. pending # <<>> /\ Head(pending) = Head(hand) /\ Tail(pending) = urb_queue_
    BY <2>3, <2>5
  <2>9. pending' = Tail(pending) /\ delivered' = Append(delivered, Head(pending))
    BY <1>15, <2>3, <2>6, <2>7, <2>8 DEF Callback
  <2>10. UNCHANGED <<capturing_, owner>>
    BY <1>15 DEF Callback
  <2>11. Channel!Deliver
    BY <2>2, <2>8, <2>9, <2>10 DEF Channel!Deliver
  <2> QED
    BY <2>11 DEF Channel!Next
<1>16. CASE UNCHANGED vars
  BY <1>2, <1>16 DEF vars
<1>17. ASSUME NEW d \in Devices, NEW u \in Urbs, OnDeviceData(d, u)
       PROVE  UNCHANGED Channel!vars
  BY <1>9, <1>17 DEF OnDeviceData, Producers
<1>18. ASSUME NEW u \in Urbs, InjectUrb(u)
       PROVE  UNCHANGED Channel!vars
  BY <1>9, <1>18 DEF InjectUrb, Producers
<1> QED
  BY <1>3, <1>4, <1>5, <1>6, <1>7, <1>8, <1>10, <1>11, <1>13, <1>14, <1>15, <1>16,
     <1>17, <1>18 DEF Next, Owner, Worker, Producer

\* UrbCapture implements the first-in first-out channel of UrbChannel: nothing
\* is delivered outside a session, out of order, twice or never pushed.
THEOREM Refinement == Spec => ImplementsChannel
<1>1. Spec => []IInv
  BY Invariance
<1> QED
  BY <1>1, ChannelInit, ChannelNext, PTL DEF Spec, ImplementsChannel, Channel!Spec

-----------------------------------------------------------------------------
(* Statistics *)

\* The elements of s after position r and up to position n that are in S, by
\* their positions after r.
Hits(s, r, n, S) == {i \in 1 .. n - r : s[r + i] \in S}

Failed == {u \in Urbs : u.status # 0}
OfType(t) == {u \in Urbs : u.type = t}

\* What the counters stand for: the URBs between the last reset and the last
\* call of UpdateStatistics, in the order in which they were pushed.
CountInv ==
    /\ counted = Len(delivered) + (IF worker = "callback" THEN 1 ELSE 0)
    /\ resetAt <= counted
    /\ statistics_.total_urbs = counted - resetAt
    /\ statistics_.errors = Cardinality(Hits(accepted, resetAt, counted, Failed))
    /\ \A t \in TransferTypes :
          statistics_.urbs[t] = Cardinality(Hits(accepted, resetAt, counted, OfType(t)))

\* After a reset there is nothing to count.
LEMMA HitsNone ==
    ASSUME NEW s, NEW n \in Nat, NEW S
    PROVE  Cardinality(Hits(s, n, n, S)) = 0
<1>1. Hits(s, n, n, S) = {}
  BY DEF Hits
<1> QED
  BY <1>1, FS_EmptySet

\* An append does not touch what was counted.
LEMMA HitsAppend ==
    ASSUME NEW s \in Seq(Urbs), NEW u \in Urbs, NEW r \in Nat, NEW n \in Nat,
           n <= Len(s), NEW S
    PROVE  Hits(Append(s, u), r, n, S) = Hits(s, r, n, S)
<1>1. Len(s) \in Nat /\ \A i \in 1 .. Len(s) : Append(s, u)[i] = s[i]
  BY AppendProperties
<1>2. \A i \in 1 .. n - r : r + i \in 1 .. Len(s)
  BY <1>1
<1> QED
  BY <1>1, <1>2 DEF Hits

\* One more URB is counted.
LEMMA HitsNext ==
    ASSUME NEW s, NEW r \in Nat, NEW n \in Nat, r <= n, NEW S
    PROVE  /\ Cardinality(Hits(s, r, n, S)) \in Nat
           /\ Cardinality(Hits(s, r, n + 1, S)) =
                 Cardinality(Hits(s, r, n, S)) + (IF s[n + 1] \in S THEN 1 ELSE 0)
<1> DEFINE H == Hits(s, r, n, S)
           k == n + 1 - r
<1>1. IsFiniteSet(H) /\ Cardinality(H) \in Nat
  <2>1. IsFiniteSet(1 .. n - r) /\ H \subseteq 1 .. n - r
    BY FS_Interval DEF Hits
  <2>2. IsFiniteSet(H)
    BY <2>1, FS_Subset
  <2> QED
    BY <2>2, FS_CardinalityType
<1>2. /\ k \in Nat /\ r + k = n + 1 /\ 1 .. n + 1 - r = (1 .. n - r) \cup {k}
      /\ k \notin 1 .. n - r
  OBVIOUS
<1>3. k \notin H
  BY <1>2 DEF Hits
<1>4. CASE s[n + 1] \in S
  <2>1. Hits(s, r, n + 1, S) = H \cup {k}
    BY <1>2, <1>4 DEF Hits
  <2> QED
    BY <1>1, <1>3, <1>4, <2>1, FS_AddElement
<1>5. CASE s[n + 1] \notin S
  <2>1. Hits(s, r, n + 1, S) = H
    BY <1>2, <1>5 DEF Hits
  <2> QED
    BY <1>1, <1>5, <2>1
<1> QED
  BY <1>1, <1>4, <1>5

\* Where the URBs that were delivered and the URB in hand are in accepted.
LEMMA AcceptedParts ==
    ASSUME IInv
    PROVE  /\ Len(delivered) \in Nat /\ Len(hand) \in {0, 1}
           /\ delivered \o hand \in Seq(Urbs)
           /\ Len(delivered \o hand) = Len(delivered) + Len(hand)
           /\ Len(delivered) + Len(hand) <= Len(accepted)
           /\ \A i \in 1 .. Len(delivered) + Len(hand) : accepted[i] = (delivered \o hand)[i]
           /\ worker \in {"statistics", "callback"} =>
                 Len(hand) = 1 /\ Head(hand) = accepted[Len(delivered) + 1]
                 /\ Head(hand) \in Urbs
           /\ worker \notin {"statistics", "callback"} => hand = <<>>
<1> DEFINE l == delivered \o hand
<1>1. /\ delivered \in Seq(Urbs) /\ hand \in Seq(Urbs) /\ urb_queue_ \in Seq(Urbs)
      /\ accepted = l \o urb_queue_ /\ Len(hand) <= 1
  BY DEF IInv, TypeOK, NothingLost
<1>a. hand # <<>> <=> worker \in {"statistics", "callback"}
  BY DEF IInv, HandInv
<1>2. /\ l \in Seq(Urbs) /\ Len(l) = Len(delivered) + Len(hand)
      /\ \A i \in 1 .. Len(hand) : l[Len(delivered) + i] = hand[i]
  <2>1. l \in Seq(Urbs)
    BY <1>1, ConcatProperties
  <2>2. /\ Len(l) = Len(delivered) + Len(hand)
        /\ \A i \in 1 .. Len(hand) : l[Len(delivered) + i] = hand[i]
    BY <1>1
  <2> QED
    BY <2>1, <2>2
<1> HIDE DEF l
<1>3. /\ Len(accepted) = Len(l) + Len(urb_queue_)
      /\ \A i \in 1 .. Len(l) : accepted[i] = l[i]
  BY <1>1, <1>2, ConcatProperties
<1>4. Len(delivered) \in Nat /\ Len(hand) \in {0, 1} /\ Len(urb_queue_) \in Nat
  <2>1. Len(delivered) \in Nat /\ Len(hand) \in Nat /\ Len(urb_queue_) \in Nat
    BY <1>1
  <2> DEFINE h == Len(hand)
  <2>2. h \in Nat /\ h <= 1
    BY <1>1, <2>1
  <2> HIDE DEF h
  <2>3. h = 0 \/ h = 1
    BY <2>2
  <2> QED
    BY <2>1, <2>3 DEF h
<1>5. worker \in {"statistics", "callback"} =>
         Len(hand) = 1 /\ Head(hand) = hand[1] /\ Head(hand) \in Urbs
  BY <1>1, <1>a, <1>4, EmptySeq, Singleton
<1> QED
  BY <1>1, <1>a, <1>2, <1>3, <1>4, <1>5 DEF l

LEMMA CountInit == Init => CountInv
<1> SUFFICES ASSUME Init PROVE CountInv
  OBVIOUS
<1>1. \A S : Cardinality(Hits(accepted, 0, 0, S)) = 0
  BY HitsNone
<1>2. ZeroStatistics.total_urbs = 0 /\ ZeroStatistics.errors = 0
      /\ \A t \in TransferTypes : ZeroStatistics.urbs[t] = 0
  BY DEF ZeroStatistics
<1> QED
  BY <1>1, <1>2 DEF Init, CountInv

LEMMA CountNext == IInv /\ CountInv /\ [Next]_vars => CountInv'
<1> SUFFICES ASSUME IInv, CountInv, [Next]_vars PROVE CountInv'
  OBVIOUS
<1> DEFINE Same == /\ UNCHANGED <<accepted, delivered, counted, resetAt, statistics_>>
                   /\ worker' = "callback" <=> worker = "callback"
<1>0. counted \in Nat /\ resetAt \in Nat
  BY DEF IInv, TypeOK
<1>a. ASSUME Same PROVE CountInv'
  BY <1>a DEF CountInv
<1>1. ASSUME NEW p \in Producers, Push(p) PROVE CountInv'
  <2>1. PICK u \in Urbs : accepted' = Append(accepted, u)
    BY <1>1, PushedUrb DEF Push, IInv
  <2>2. counted <= Len(accepted) /\ accepted \in Seq(Urbs)
    BY <1>0, AcceptedParts DEF CountInv, IInv, TypeOK, HandInv
  <2>3. \A S : Hits(accepted', resetAt, counted, S) = Hits(accepted, resetAt, counted, S)
    BY <1>0, <2>1, <2>2, HitsAppend
  <2> QED
    BY <1>1, <2>3 DEF CountInv, Push
<1>2. CASE UpdateStatistics
  <2> DEFINE u == Head(hand)
  <2>1. u = accepted[counted + 1] /\ u \in Urbs /\ u.type \in TransferTypes
    BY <1>2, AcceptedParts, UrbsAssumption DEF UpdateStatistics, CountInv
  <2> HIDE DEF u
  <2>2. \A S : Cardinality(Hits(accepted, resetAt, counted + 1, S)) =
                  Cardinality(Hits(accepted, resetAt, counted, S))
                    + (IF u \in S THEN 1 ELSE 0)
    <3>1. /\ resetAt \in Nat /\ counted \in Nat /\ resetAt <= counted
          /\ u = accepted[counted + 1]
      BY <1>0, <2>1 DEF CountInv
    <3> QED
      BY <3>1, HitsNext
  <2>3. (u \in Failed <=> u.status # 0) /\ \A t : u \in OfType(t) <=> u.type = t
    BY <2>1 DEF Failed, OfType
  <2>4. /\ statistics_'.total_urbs = statistics_.total_urbs + 1
        /\ statistics_'.errors = statistics_.errors + (IF u.status # 0 THEN 1 ELSE 0)
        /\ \A t \in TransferTypes :
              statistics_'.urbs[t] = statistics_.urbs[t] + (IF u.type = t THEN 1 ELSE 0)
    BY <1>2, <2>1 DEF UpdateStatistics, u, IInv, TypeOK
  <2>5. /\ counted' = counted + 1 /\ worker = "statistics" /\ worker' = "callback"
        /\ UNCHANGED <<accepted, delivered, resetAt>>
    BY <1>2 DEF UpdateStatistics
  <2>6. counted = Len(delivered) /\ resetAt <= counted
    BY <2>5, AcceptedParts DEF CountInv
  <2>7. statistics_'.total_urbs = counted' - resetAt' /\ resetAt' <= counted'
    BY <1>0, <2>4, <2>5, <2>6 DEF CountInv
  <2>8. statistics_'.errors = Cardinality(Hits(accepted, resetAt, counted + 1, Failed))
    BY <2>2, <2>3, <2>4 DEF CountInv
  <2>9. ASSUME NEW t \in TransferTypes
        PROVE  statistics_'.urbs[t]
                 = Cardinality(Hits(accepted, resetAt, counted + 1, OfType(t)))
    BY <2>2, <2>3, <2>4 DEF CountInv
  <2> QED
    BY <2>5, <2>6, <2>7, <2>8, <2>9 DEF CountInv
<1>3. CASE Callback
  <2>1. Len(delivered') = Len(delivered) + 1
    BY <1>3, AcceptedParts DEF Callback
  <2>2. counted = Len(delivered) + 1
    BY <1>3 DEF Callback, CountInv
  <2> QED
    BY <1>3, <2>1, <2>2, AcceptedParts DEF Callback, CountInv
<1>4. CASE ResetStatistics
  <2>1. \A S : Cardinality(Hits(accepted, counted, counted, S)) = 0
    BY <1>0, HitsNone
  <2>2. ZeroStatistics.total_urbs = 0 /\ ZeroStatistics.errors = 0
        /\ \A t \in TransferTypes : ZeroStatistics.urbs[t] = 0
    BY DEF ZeroStatistics
  <2> QED
    BY <1>0, <1>4, <2>1, <2>2 DEF ResetStatistics, CountInv
<1>5. CASE Pop
  BY <1>5, <1>a DEF Pop, histVars
<1>6. ASSUME NEW f, NEW g, f # "callback", g # "callback", MoveWorker(f, g)
      PROVE  CountInv'
  BY <1>6, <1>a DEF MoveWorker, histVars
<1>7. CASE \/ LoopTest \/ Lock \/ Predicate \/ Suspend \/ SpuriousWakeup \/ Reacquire
           \/ StopCheck \/ DrainEnd \/ Relock
  BY <1>6, <1>7 DEF LoopTest, Lock, Predicate, Suspend, SpuriousWakeup, Reacquire,
                    StopCheck, DrainEnd, Relock
<1>8. CASE StartThread
  BY <1>8, <1>a DEF StartThread, histVars, IInv, OwnerInv, Joinable
<1>9. CASE StopNotify \/ StopJoin
  BY <1>9, <1>a DEF StopNotify, StopJoin, histVars
<1>10. ASSUME NEW p \in Producers, NotifyOne(p) PROVE CountInv'
  BY <1>10, <1>a DEF NotifyOne, histVars
<1>11. CASE \/ RemoveAllDevices \/ StartCapture \/ StopCapture \/ StartDevices
            \/ StopCapturing \/ StopDevices \/ UNCHANGED vars
  BY <1>11, <1>a DEF RemoveAllDevices, StartCapture, StopCapture, StartDevices,
                     StopCapturing, StopDevices, histVars, vars
<1>12. ASSUME NEW d \in Devices, AddDevice(d) \/ RemoveDevice(d) PROVE CountInv'
  BY <1>12, <1>a DEF AddDevice, RemoveDevice, histVars
<1>13. ASSUME NEW p, NEW u \in Urbs, Enter(p, u) PROVE CountInv'
  BY <1>13, <1>a DEF Enter, histVars
<1> QED
  BY <1>1, <1>2, <1>3, <1>4, <1>5, <1>7, <1>8, <1>9, <1>10, <1>11, <1>12, <1>13
     DEF Next, Owner, Worker, Producer, OnDeviceData, InjectUrb

\* The counters that the invariant speaks of are those of StatisticsAgree.
LEMMA CountIsAgree ==
    ASSUME IInv, CountInv
    PROVE  StatisticsAgree
<1> DEFINE l == delivered \o hand
           c == SubSeq(l, resetAt + 1, counted)
           n == counted - resetAt
<1>1. counted \in Nat /\ resetAt \in Nat /\ n \in Nat
  BY DEF IInv, TypeOK, CountInv
<1>2. /\ l \in Seq(Urbs) /\ Len(l) = Len(delivered) + Len(hand)
      /\ \A i \in 1 .. Len(l) : accepted[i] = l[i]
      /\ counted \in {Len(delivered), Len(l)} /\ counted <= Len(l)
  BY AcceptedParts DEF CountInv
<1> HIDE DEF l
<1>3. Len(c) = n /\ \A i \in 1 .. n : c[i] = l[resetAt + i]
  <2>1. Len(l) \in Nat
    BY <1>2
  <2>2. \A i \in resetAt + 1 .. counted : l[i] \in Urbs
    BY <1>1, <1>2, <2>1
  <2>3. /\ c \in Seq(Urbs)
        /\ Len(c) = IF resetAt + 1 <= counted THEN counted - (resetAt + 1) + 1 ELSE 0
        /\ \A i \in 1 .. counted - (resetAt + 1) + 1 : c[i] = l[(resetAt + 1) + i - 1]
    BY <1>1, <2>2, SubSeqProperties
  <2> HIDE DEF c
  <2> QED
    BY <1>1, <2>3
<1>4. DOMAIN c = 1 .. n /\ \A i \in 1 .. n : c[i] = accepted[resetAt + i] /\ c[i] \in Urbs
  <2>1. DOMAIN c = 1 .. n
    BY <1>1, <1>3
  <2>2. \A i \in 1 .. n : resetAt + i \in 1 .. Len(l)
    BY <1>1, <1>2
  <2>3. \A i \in 1 .. n : l[resetAt + i] \in Urbs
    BY <1>2, <2>2, ElementOfSeq
  <2> HIDE DEF c, n
  <2> QED
    BY <1>2, <1>3, <2>1, <2>2, <2>3
<1> HIDE DEF c
<1>5. {i \in DOMAIN c : c[i].status # 0} = Hits(accepted, resetAt, counted, Failed)
  BY <1>4 DEF Hits, Failed
<1>6. ASSUME NEW t PROVE {i \in DOMAIN c : c[i].type = t}
                           = Hits(accepted, resetAt, counted, OfType(t))
  BY <1>4 DEF Hits, OfType
<1>7. CountedUrbs = c
  BY DEF CountedUrbs, c, l
<1>8. statistics_.errors = CountIf(CountedUrbs, LAMBDA u : u.status # 0)
  BY <1>5, <1>7 DEF CountIf, CountInv
<1>9. ASSUME NEW t \in TransferTypes
      PROVE  statistics_.urbs[t] = CountIf(CountedUrbs, LAMBDA u : u.type = t)
  BY <1>6, <1>7 DEF CountIf, CountInv
<1> QED
  BY <1>2, <1>8, <1>9 DEF StatisticsAgree, CountInv, l

\* GetStatistics, called between any two steps of any thread, returns counters
\* that agree with one another and with the URBs that UpdateStatistics has seen
\* since the last ResetStatistics.
THEOREM StatisticsAreTrue == Spec => []StatisticsAgree
<1>1. IInv /\ CountInv => StatisticsAgree
  BY CountIsAgree
<1> QED
  BY <1>1, CountInit, CountNext, Invariance, PTL DEF Spec
=============================================================================
