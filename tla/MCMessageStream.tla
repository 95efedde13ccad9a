-------------------------- MODULE MCMessageStream --------------------------
(* Small instances of MessageStream for TLC: digits 0 .. 3, MAGIC = 2 3. *)
EXTENDS MessageStream

MCMagic == <<2, 3>>

\* An empty heartbeat, a payload that is the magic number, one that is its
\* byte-swapped form, a one-byte payload, and payloads over MAX_MESSAGE_SIZE.
MCMessages ==
    {[tag |-> 0, payload |-> <<>>], [tag |-> 1, payload |-> <<2, 3>>],
     [tag |-> 1, payload |-> <<3, 2>>], [tag |-> 2, payload |-> <<1>>],
     [tag |-> 2, payload |-> <<3, 2, 3>>],
     [tag |-> 2, payload |-> <<2, 3, 2>>]}

MCTwoMessages == {[tag |-> 0, payload |-> <<>>], [tag |-> 1, payload |-> <<1, 2>>]}
=============================================================================
