--------------------------- MODULE MessageChannel ---------------------------
(***************************************************************************)
(* What a connection promises its two ends: whole messages, in the order   *)
(* of the calls of Send, each delivered at most once, and lost only        *)
(* together with all the others that are under way, when the connection    *)
(* ends.                                                                   *)
(***************************************************************************)
EXTENDS Sequences

CONSTANT Messages

VARIABLES pending, out

vars == <<pending, out>>

Init == pending = <<>> /\ out = <<>>

Accept(m) == pending' = Append(pending, m) /\ UNCHANGED out

Deliver ==
    /\ pending # <<>>
    /\ out' = Append(out, Head(pending))
    /\ pending' = Tail(pending)

Lose == pending' = <<>> /\ UNCHANGED out

Next == Deliver \/ Lose \/ \E m \in Messages : Accept(m)

Spec == Init /\ [][Next]_vars
=============================================================================
