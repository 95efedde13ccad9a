--------------------------- MODULE MCUsbReceiver ---------------------------
(* Small instances of UsbReceiver for TLC. *)
EXTENDS UsbReceiver, TLC

\* Objects that are not constructed yet are interchangeable; so are the bus ids.
MCSymmetry == Permutations(Objects) \cup Permutations(Busids)
=============================================================================
