----------------------------- MODULE UrbCapture -----------------------------
(***************************************************************************)
(* sender/capture/urb_capture.cpp, class UrbCapture: device threads push   *)
(* captured URBs into urb_queue_, one processing thread drains it into the *)
(* statistics and the URB callback, and the thread that owns the object    *)
(* starts and stops the capture.                                           *)
(*                                                                         *)
(* Granularity.  A step ends wherever another thread can observe or be     *)
(* observed: at each store to an atomic another thread reads, at each      *)
(* acquisition or release of queue_mutex_ whose critical section is longer *)
(* than one statement, and inside condition_variable::wait between the     *)
(* evaluation of the predicate and the suspension of the thread.  The      *)
(* critical section of a producer is one push, hence one step.             *)
(*                                                                         *)
(* accepted, delivered, counted and resetAt are history variables.         *)
(***************************************************************************)
EXTENDS Integers, Sequences, FiniteSets

CONSTANTS
    Devices,        \* MassStorageDevice objects, each with a thread of its own
    Injector,       \* the thread that calls InjectUrb
    Urbs,           \* URB values
    MaxUrbs,        \* bound: calls of OnDeviceData and InjectUrb that pass the check
    MaxSessions     \* bound: calls of StartCapture that start a session

TransferTypes == {"CONTROL", "BULK", "INTERRUPT", "ISOCHRONOUS"}

ASSUME InjectorAssumption == Injector \notin Devices
ASSUME UrbsAssumption ==
    Urbs \subseteq [type : TransferTypes, status : Int, actual_length : Nat]
ASSUME BoundsAssumption == MaxUrbs \in Nat /\ MaxSessions \in Nat

VARIABLES
    devices_,           \* devices being monitored
    hooked,             \* devices whose data_callback_ calls OnDeviceData
    started,            \* devices whose own capturing_ flag is set
    capturing_,
    should_stop_,
    urb_queue_,
    statistics_,
    call,               \* per producer: where it is in OnDeviceData / InjectUrb
    worker,             \* where processing_thread_ is
    hand,               \* the URB popped and not yet passed to the callback
    owner,              \* where the owner is in StartCapture / StopCapture
    sessions,           \* sessions started so far
    accepted,           \* URBs pushed, in order
    delivered,          \* URBs passed to urb_callback_, in order
    counted,            \* number of URBs UpdateStatistics has seen
    resetAt             \* value of counted at the last ResetStatistics

capVars  == <<devices_, hooked, started>>
flagVars == <<capturing_, should_stop_>>
histVars == <<accepted, delivered, counted, resetAt>>
vars == <<capVars, flagVars, urb_queue_, statistics_, call, worker, hand,
          owner, sessions, histVars>>

Producers == Devices \cup {Injector}

NoCall == [pc |-> "idle"]
Calls  == {NoCall} \cup [pc : {"push"}, urb : Urbs] \cup [pc : {"notify"}]

ZeroStatistics ==
    [total_urbs |-> 0, urbs |-> [t \in TransferTypes |-> 0],
     bytes_transferred |-> 0, errors |-> 0]

(***************************************************************************)
(* queue_mutex_ is only held across steps by the processing thread, so its *)
(* owner is a function of where that thread is.                            *)
(***************************************************************************)
WorkerHoldsLock == worker \in {"predicate", "suspend", "stopcheck", "drain"}

\* The processing thread exists, so std::thread::joinable() is true.
Joinable == worker # "none"

InFlight == Cardinality({p \in Producers : call[p].pc = "push"})

Init ==
    /\ devices_ = {} /\ hooked = {} /\ started = {}
    /\ capturing_ = FALSE /\ should_stop_ = FALSE
    /\ urb_queue_ = <<>>
    /\ statistics_ = ZeroStatistics
    /\ call = [p \in Producers |-> NoCall]
    /\ worker = "none" /\ hand = <<>>
    /\ owner = "idle" /\ sessions = 0
    /\ accepted = <<>> /\ delivered = <<>> /\ counted = 0 /\ resetAt = 0

-----------------------------------------------------------------------------
(* Devices, under devices_mutex_ *)

AddDevice(d) ==
    /\ d \notin devices_
    /\ devices_' = devices_ \cup {d}
    /\ hooked' = hooked \cup {d}
    /\ UNCHANGED <<started, flagVars, urb_queue_, statistics_, call, worker,
                   hand, owner, sessions, histVars>>

\* The data callback of the device is left installed.
RemoveDevice(d) ==
    /\ d \in devices_
    /\ devices_' = devices_ \ {d}
    /\ UNCHANGED <<hooked, started, flagVars, urb_queue_, statistics_, call,
                   worker, hand, owner, sessions, histVars>>

RemoveAllDevices ==
    /\ devices_ # {}
    /\ devices_' = {}
    /\ UNCHANGED <<hooked, started, flagVars, urb_queue_, statistics_, call,
                   worker, hand, owner, sessions, histVars>>

-----------------------------------------------------------------------------
(* StartCapture, by the owner.  should_stop_ is stored with capturing_ in  *)
(* one step: its only reader, the processing thread, does not exist yet.   *)

StartCapture ==
    /\ owner = "idle" /\ ~capturing_
    /\ sessions < MaxSessions
    /\ sessions' = sessions + 1
    /\ should_stop_' = FALSE
    /\ capturing_' = TRUE
    /\ owner' = "spawn"
    /\ UNCHANGED <<capVars, urb_queue_, statistics_, call, worker, hand, histVars>>

\* Assigning to a joinable std::thread terminates the program.
StartThread ==
    /\ owner = "spawn"
    /\ IF Joinable
       THEN worker' = "terminate" /\ owner' = "terminate"
       ELSE worker' = "loop" /\ owner' = "startdevices"
    /\ UNCHANGED <<capVars, flagVars, urb_queue_, statistics_, call, hand,
                   sessions, histVars>>

\* Only initialised devices are ever added, so a device refuses to start only
\* when it is capturing already.
StartDevices ==
    /\ owner = "startdevices"
    /\ started' = started \cup devices_
    /\ owner' = "idle"
    /\ UNCHANGED <<devices_, hooked, flagVars, urb_queue_, statistics_, call,
                   worker, hand, sessions, histVars>>

-----------------------------------------------------------------------------
(* StopCapture, by the owner *)

StopCapture ==
    /\ owner = "idle" /\ capturing_
    /\ should_stop_' = TRUE
    /\ owner' = "stopflag"
    /\ UNCHANGED <<capVars, capturing_, urb_queue_, statistics_, call, worker,
                   hand, sessions, histVars>>

StopCapturing ==
    /\ owner = "stopflag"
    /\ capturing_' = FALSE
    /\ owner' = "stopdevices"
    /\ UNCHANGED <<capVars, should_stop_, urb_queue_, statistics_, call, worker,
                   hand, sessions, histVars>>

StopDevices ==
    /\ owner = "stopdevices"
    /\ started' = started \ devices_
    /\ owner' = "notifyall"
    /\ UNCHANGED <<devices_, hooked, flagVars, urb_queue_, statistics_, call,
                   worker, hand, sessions, histVars>>

\* notify_all wakes the processing thread only if it is already suspended.
StopNotify ==
    /\ owner = "notifyall"
    /\ worker' = IF worker = "waiting" THEN "woken" ELSE worker
    /\ owner' = "join"
    /\ UNCHANGED <<capVars, flagVars, urb_queue_, statistics_, call, hand,
                   sessions, histVars>>

\* Mutant: the thread is not joined.
StopWithoutJoin ==
    /\ owner = "join"
    /\ owner' = "idle"
    /\ UNCHANGED <<capVars, flagVars, urb_queue_, statistics_, call, worker,
                   hand, sessions, histVars>>

StopJoin ==
    /\ owner = "join"
    /\ worker \in {"none", "exited"}
    /\ worker' = "none"
    /\ owner' = "idle"
    /\ UNCHANGED <<capVars, flagVars, urb_queue_, statistics_, call, hand,
                   sessions, histVars>>

-----------------------------------------------------------------------------
(* OnDeviceData, by a device's thread, and InjectUrb, which has the same   *)
(* body: the check of capturing_, the push, the notification.              *)

Enter(p, u) ==
    /\ call[p] = NoCall
    /\ capturing_
    /\ Len(accepted) + InFlight < MaxUrbs
    /\ call' = [call EXCEPT ![p] = [pc |-> "push", urb |-> u]]
    /\ UNCHANGED <<capVars, flagVars, urb_queue_, statistics_, worker, hand,
                   owner, sessions, histVars>>

OnDeviceData(d, u) == d \in hooked /\ Enter(d, u)

InjectUrb(u) == Enter(Injector, u)

\* Mutant: the push does not take queue_mutex_.
PushUnlocked(p) ==
    /\ call[p].pc = "push"
    /\ urb_queue_' = Append(urb_queue_, call[p].urb)
    /\ accepted' = Append(accepted, call[p].urb)
    /\ call' = [call EXCEPT ![p] = [pc |-> "notify"]]
    /\ UNCHANGED <<capVars, flagVars, statistics_, worker, hand, owner,
                   sessions, delivered, counted, resetAt>>

Push(p) ==
    /\ call[p].pc = "push"
    /\ ~WorkerHoldsLock
    /\ urb_queue_' = Append(urb_queue_, call[p].urb)
    /\ accepted' = Append(accepted, call[p].urb)
    /\ call' = [call EXCEPT ![p] = [pc |-> "notify"]]
    /\ UNCHANGED <<capVars, flagVars, statistics_, worker, hand, owner,
                   sessions, delivered, counted, resetAt>>

NotifyOne(p) ==
    /\ call[p].pc = "notify"
    /\ worker' = IF worker = "waiting" THEN "woken" ELSE worker
    /\ call' = [call EXCEPT ![p] = NoCall]
    /\ UNCHANGED <<capVars, flagVars, urb_queue_, statistics_, hand, owner,
                   sessions, histVars>>

-----------------------------------------------------------------------------
(* ProcessingThread *)

\* A step of the processing thread that changes nothing but its own position.
MoveWorker(from, to) ==
    /\ worker = from
    /\ worker' = to
    /\ UNCHANGED <<capVars, flagVars, urb_queue_, statistics_, call, hand,
                   owner, sessions, histVars>>

LoopTest == MoveWorker("loop", IF should_stop_ THEN "exited" ELSE "lock")

\* Nothing else holds queue_mutex_ between two steps, so locking never blocks.
Lock == MoveWorker("lock", "predicate")

Predicate ==
    MoveWorker("predicate",
               IF urb_queue_ # <<>> \/ should_stop_ THEN "stopcheck" ELSE "suspend")

\* wait() joins the waiters and releases queue_mutex_ in one step.
Suspend == MoveWorker("suspend", "waiting")

SpuriousWakeup == MoveWorker("waiting", "woken")

Reacquire == MoveWorker("woken", "predicate")

StopCheck == MoveWorker("stopcheck", IF should_stop_ THEN "exited" ELSE "drain")

\* The end of the inner loop, where the unique_lock goes out of scope.
DrainEnd == urb_queue_ = <<>> /\ MoveWorker("drain", "loop")

\* Mutant: front() without pop().
PopWithoutRemoval ==
    /\ worker = "drain"
    /\ urb_queue_ # <<>>
    /\ hand' = <<Head(urb_queue_)>>
    /\ worker' = "statistics"
    /\ UNCHANGED <<capVars, flagVars, urb_queue_, statistics_, call, owner,
                   sessions, histVars>>

\* Mutant: the whole queue is taken, and handled as one URB.
PopAll ==
    /\ worker = "drain"
    /\ urb_queue_ # <<>>
    /\ hand' = urb_queue_
    /\ urb_queue_' = <<>>
    /\ worker' = "statistics"
    /\ UNCHANGED <<capVars, flagVars, statistics_, call, owner, sessions, histVars>>

Pop ==
    /\ worker = "drain"
    /\ urb_queue_ # <<>>
    /\ hand' = <<Head(urb_queue_)>>
    /\ urb_queue_' = Tail(urb_queue_)
    /\ worker' = "statistics"
    /\ UNCHANGED <<capVars, flagVars, statistics_, call, owner, sessions, histVars>>

UpdateStatistics ==
    /\ worker = "statistics"
    /\ LET urb == Head(hand)
           st  == statistics_
       IN statistics_' =
            [total_urbs |-> st.total_urbs + 1,
             urbs |-> [st.urbs EXCEPT ![urb.type] = @ + 1],
             bytes_transferred |-> st.bytes_transferred + urb.actual_length,
             errors |-> IF urb.status # 0 THEN st.errors + 1 ELSE st.errors]
    /\ counted' = counted + 1
    /\ worker' = "callback"
    /\ UNCHANGED <<capVars, flagVars, urb_queue_, call, hand, owner, sessions,
                   accepted, delivered, resetAt>>

Callback ==
    /\ worker = "callback"
    /\ delivered' = delivered \o hand
    /\ hand' = <<>>
    /\ worker' = "relock"
    /\ UNCHANGED <<capVars, flagVars, urb_queue_, statistics_, call, owner,
                   sessions, accepted, counted, resetAt>>

Relock == MoveWorker("relock", "drain")

-----------------------------------------------------------------------------
(* Under stats_mutex_, by any thread *)

\* Mutant: the per-type counters keep their values.
ResetTotals ==
    /\ statistics_ # ZeroStatistics
    /\ statistics_' = [ZeroStatistics EXCEPT !.urbs = statistics_.urbs]
    /\ resetAt' = counted
    /\ UNCHANGED <<capVars, flagVars, urb_queue_, call, worker, hand, owner,
                   sessions, accepted, delivered, counted>>

ResetStatistics ==
    /\ statistics_ # ZeroStatistics
    /\ statistics_' = ZeroStatistics
    /\ resetAt' = counted
    /\ UNCHANGED <<capVars, flagVars, urb_queue_, call, worker, hand, owner,
                   sessions, accepted, delivered, counted>>

-----------------------------------------------------------------------------

Owner == \/ StartThread \/ StartDevices
         \/ StopCapturing \/ StopDevices \/ StopNotify \/ StopJoin

Worker == \/ LoopTest \/ Lock \/ Predicate \/ Suspend \/ Reacquire \/ StopCheck
          \/ DrainEnd \/ Pop \/ UpdateStatistics \/ Callback \/ Relock

Producer(p) == Push(p) \/ NotifyOne(p)

Next ==
    \/ \E d \in Devices : AddDevice(d) \/ RemoveDevice(d)
    \/ RemoveAllDevices
    \/ StartCapture
    \/ StopCapture
    \/ Owner
    \/ \E d \in Devices, u \in Urbs : OnDeviceData(d, u)
    \/ \E u \in Urbs : InjectUrb(u)
    \/ \E p \in Producers : Producer(p)
    \/ Worker
    \/ SpuriousWakeup
    \/ ResetStatistics

Spec == Init /\ [][Next]_vars

(***************************************************************************)
(* Every thread that is runnable keeps running: the processing thread, a   *)
(* producer inside a call and the owner inside a call.  No call has to be  *)
(* made, and no spurious wakeup has to happen.                             *)
(***************************************************************************)
Fairness ==
    /\ WF_vars(Worker)
    /\ \A p \in Producers : WF_vars(Producer(p))
    /\ WF_vars(Owner)

FairSpec == Spec /\ Fairness

-----------------------------------------------------------------------------
(* Properties *)

WorkerPcs == {"none", "loop", "lock", "predicate", "suspend", "waiting", "woken",
              "stopcheck", "drain", "statistics", "callback", "relock", "exited",
              "terminate"}
OwnerPcs  == {"idle", "spawn", "startdevices", "stopflag", "stopdevices",
              "notifyall", "join", "terminate"}

\* The members of UrbCapture keep their types.
TypeOK ==
    /\ devices_ \subseteq Devices /\ hooked \subseteq Devices /\ started \subseteq Devices
    /\ capturing_ \in BOOLEAN /\ should_stop_ \in BOOLEAN
    /\ urb_queue_ \in Seq(Urbs)
    /\ statistics_ \in [total_urbs : Nat, urbs : [TransferTypes -> Nat],
                        bytes_transferred : Nat, errors : Nat]
    /\ call \in [Producers -> Calls]
    /\ worker \in WorkerPcs /\ owner \in OwnerPcs
    /\ hand \in Seq(Urbs) /\ Len(hand) <= 1
    /\ sessions \in Nat
    /\ accepted \in Seq(Urbs) /\ delivered \in Seq(Urbs)
    /\ counted \in Nat /\ resetAt \in Nat

\* No URB that was pushed is lost, duplicated or reordered, although the
\* processing thread gives up queue_mutex_ between the pop and the callback:
\* what was delivered, what is in its hands and what is queued are, in this
\* order, exactly what the producers pushed.
NothingLost == accepted = delivered \o hand \o urb_queue_

\* A capture that is stopped has no processing thread left, so the assignment
\* to processing_thread_ in the next StartCapture never meets a joinable
\* thread, and the program never reaches std::terminate.
StoppedMeansJoined ==
    /\ owner = "idle" /\ ~capturing_ => ~Joinable
    /\ owner # "terminate"

\* The processing thread has a URB in its hands exactly between the pop and the
\* callback.
HandInv == hand # <<>> <=> worker \in {"statistics", "callback"}

\* Where the owner is determines capturing_, and outside a session there is no
\* processing thread.
OwnerInv ==
    /\ owner \in {"spawn", "startdevices", "stopflag"} => capturing_
    /\ owner \in {"stopdevices", "notifyall", "join"} => ~capturing_
    /\ owner = "spawn" => worker = "none"
    /\ owner = "idle" /\ ~capturing_ => worker = "none"
    /\ owner # "terminate" /\ worker # "terminate"

\* The inductive invariant behind the safety properties: no step of any thread
\* loses track of a URB or of a thread of UrbCapture.
IInv == TypeOK /\ HandInv /\ OwnerInv /\ NothingLost

\* The URBs the statistics stand for: counted since the last reset.
CountedUrbs == SubSeq(delivered \o hand, resetAt + 1, counted)
CountIf(s, Test(_)) == Cardinality({i \in DOMAIN s : Test(s[i])})

\* GetStatistics, called between any two steps, returns totals that agree with
\* one another and with the URBs that went through since the last
\* ResetStatistics, and lag the callback by at most the URB in hand.
StatisticsAgree ==
    /\ counted \in {Len(delivered), Len(delivered \o hand)}
    /\ statistics_.total_urbs = counted - resetAt
    /\ statistics_.errors = CountIf(CountedUrbs, LAMBDA u : u.status # 0)
    /\ \A t \in TransferTypes :
          statistics_.urbs[t] = CountIf(CountedUrbs, LAMBDA u : u.type = t)

\* While no stop is requested, every URB that was pushed reaches the callback:
\* the notification of a producer is never lost by the processing thread,
\* because the push and the evaluation of the predicate exclude each other.
EveryUrbDelivered ==
    \A k \in 1..MaxUrbs :
        (Len(accepted) >= k) ~> (Len(delivered) >= k \/ should_stop_)

\* urb_capture.cpp:103 says of notify_all that it tells the processing thread
\* to exit: StopCapture, which then joins it, returns.
StopReturns == (owner = "join") ~> (owner = "idle")

-----------------------------------------------------------------------------
(* Refinement *)

Channel == INSTANCE UrbChannel
             WITH open    <- capturing_ \/ owner # "idle",
                  pending <- hand \o urb_queue_,
                  out     <- delivered

\* UrbCapture implements a first-in first-out channel that delivers nothing
\* once StopCapture has returned and before StartCapture is called again.
ImplementsChannel == Channel!Spec
=============================================================================
