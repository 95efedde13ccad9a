---------------------------- MODULE MCUrbCapture ----------------------------
(* Small instances of UrbCapture for TLC. *)
EXTENDS UrbCapture

\* A successful bulk transfer and a failed control transfer.
MCUrbs == {[type |-> "BULK", status |-> 0, actual_length |-> 2],
           [type |-> "CONTROL", status |-> -1, actual_length |-> 0]}

\* URBs that no property tells apart.
MCOneUrb == {[type |-> "BULK", status |-> 0, actual_length |-> 2]}
=============================================================================
