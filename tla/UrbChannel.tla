----------------------------- MODULE UrbChannel -----------------------------
(***************************************************************************)
(* What UrbCapture promises its callback: a first-in first-out channel     *)
(* that delivers only inside a session.  A session opens when StartCapture *)
(* turns the capture on and closes when StopCapture returns.  A producer   *)
(* that saw the capture on may still push after the session has closed;    *)
(* what it pushed waits for the next session.                              *)
(***************************************************************************)
EXTENDS Sequences

CONSTANT Urbs

VARIABLES open, pending, out

vars == <<open, pending, out>>

Init == open = FALSE /\ pending = <<>> /\ out = <<>>

Open  == ~open /\ open' = TRUE /\ UNCHANGED <<pending, out>>

Close == open /\ open' = FALSE /\ UNCHANGED <<pending, out>>

Accept(u) == pending' = Append(pending, u) /\ UNCHANGED <<open, out>>

Deliver ==
    /\ open /\ pending # <<>>
    /\ out' = Append(out, Head(pending))
    /\ pending' = Tail(pending)
    /\ UNCHANGED open

Next == Open \/ Close \/ Deliver \/ \E u \in Urbs : Accept(u)

Spec == Init /\ [][Next]_vars
=============================================================================
