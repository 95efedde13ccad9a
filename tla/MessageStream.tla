--------------------------- MODULE MessageStream ---------------------------
(***************************************************************************)
(* One direction of a connection: threads that serialize messages and call *)
(* TcpSocket::Send, the byte stream of TCP, and the MessageHandler of the  *)
(* peer (common/network/message_handler.cpp), which cuts the stream back   *)
(* into messages, whatever the sizes of the chunks recv returns.           *)
(*                                                                         *)
(* The stream is scaled down.  A byte is a digit 0 .. Base - 1; the magic  *)
(* number is two digits in network order; the message type and sequence    *)
(* number, the length and the checksum are one digit each, so the header   *)
(* has five; MAX_MESSAGE_SIZE is a length that one digit can exceed.       *)
(*                                                                         *)
(* ProcessReceivedData runs under mutex_: parsing is TRUE while a call is  *)
(* in its loop, and each iteration of the loop is one step.                *)
(*                                                                         *)
(* A connection may end and another one follow: UsbipClient and UsbSender  *)
(* have one MessageHandler for all their connections, whose buffer nobody  *)
(* clears.  Senders are threads that share a connection, or clients whose  *)
(* connections the sender's handler threads feed into the one buffer: both *)
(* mix the bytes in the same ways.                                         *)
(***************************************************************************)
EXTENDS Integers, Sequences, SequencesExt

CONSTANTS
    Senders,            \* threads that call Send on the connection
    Base,               \* number of values of a digit
    MESSAGE_MAGIC,      \* in network order
    MAX_MESSAGE_SIZE,
    Messages,           \* what the senders may send
    MaxMessages,        \* bound: messages sent
    MaxLosses           \* bound: connections that end

Digits == 0 .. Base - 1

HeaderSize == 5

ASSUME BaseAssumption == Base \in Nat \ {0}
ASSUME MagicAssumption ==
    MESSAGE_MAGIC \in Seq(Digits) /\ Len(MESSAGE_MAGIC) = 2
ASSUME SizeAssumption == MAX_MESSAGE_SIZE \in Nat /\ MAX_MESSAGE_SIZE < Base
ASSUME MessagesAssumption ==
    \A m \in Messages : /\ m \in [tag : Digits, payload : Seq(Digits)]
                        /\ Len(m.payload) < Base
ASSUME BoundsAssumption == MaxMessages \in Nat /\ MaxLosses \in Nat

VARIABLES
    unsent,             \* per sender: bytes of its Send not yet given to TCP
    wire,               \* bytes TCP has and the peer has not read
    receive_buffer_,
    parsing,
    sent,               \* history: messages whose Send was called, in order,
                        \* less those that were lost with a connection
    delivered,          \* messages passed to message_callback_, in order
    torn,               \* the last connection ended inside a message
    losses

lossVars == <<torn, losses>>
vars == <<unsent, wire, receive_buffer_, parsing, sent, delivered, lossVars>>

-----------------------------------------------------------------------------
(* SerializeMessage *)

\* Mutant: the sum is wider than the field that holds it.
WideChecksum(payload) == FoldLeft(LAMBDA a, b : a + b, 0, payload)

\* The sum of the bytes, in a variable as wide as the field.
CalculateChecksum(payload) ==
    LET checksum[n \in 0 .. Len(payload)] ==
            IF n = 0 THEN 0 ELSE (checksum[n - 1] + payload[n]) % Base
    IN checksum[Len(payload)]

SerializeMessage(m) ==
    MESSAGE_MAGIC
      \o <<m.tag, Len(m.payload), CalculateChecksum(m.payload)>>
      \o m.payload

-----------------------------------------------------------------------------

Init ==
    /\ unsent = [s \in Senders |-> <<>>]
    /\ wire = <<>> /\ receive_buffer_ = <<>> /\ parsing = FALSE
    /\ sent = <<>> /\ delivered = <<>>
    /\ torn = FALSE /\ losses = 0

\* TcpSocket::Send takes no lock: another thread may be sending.
Send(s, m) ==
    /\ unsent[s] = <<>>
    /\ Len(sent) < MaxMessages
    /\ sent' = Append(sent, m)
    /\ unsent' = [unsent EXCEPT ![s] = SerializeMessage(m)]
    /\ UNCHANGED <<wire, receive_buffer_, parsing, delivered, lossVars>>

\* Mutant: the loop forgets to advance by what was sent.
SendFromStart(s, n) ==
    /\ n \in 1 .. Len(unsent[s])
    /\ wire' = wire \o SubSeq(unsent[s], 1, n)
    /\ unsent' = [unsent EXCEPT ![s] =
                    IF n = Len(unsent[s]) THEN <<>> ELSE SubSeq(@, n, Len(@))]
    /\ UNCHANGED <<receive_buffer_, parsing, sent, delivered, lossVars>>

\* One iteration of its loop: send() takes the first n bytes.
SendSome(s, n) ==
    /\ n \in 1 .. Len(unsent[s])
    /\ wire' = wire \o SubSeq(unsent[s], 1, n)
    /\ unsent' = [unsent EXCEPT ![s] = SubSeq(@, n + 1, Len(@))]
    /\ UNCHANGED <<receive_buffer_, parsing, sent, delivered, lossVars>>

\* recv() returns the first n bytes and ProcessReceivedData appends them.
ReceiveData(n) ==
    /\ ~parsing
    /\ n \in 1 .. Len(wire)
    /\ receive_buffer_' = receive_buffer_ \o SubSeq(wire, 1, n)
    /\ wire' = SubSeq(wire, n + 1, Len(wire))
    /\ parsing' = TRUE
    /\ UNCHANGED <<unsent, sent, delivered, lossVars>>

\* The connection ends: calls of Send fail, what TCP has is lost, and the peer
\* goes on with a new connection and the same receive_buffer_.
ConnectionEnds ==
    /\ ~parsing /\ losses < MaxLosses
    /\ unsent' = [s \in Senders |-> <<>>] /\ wire' = <<>>
    /\ losses' = losses + 1 /\ torn' = (receive_buffer_ # <<>>)
    /\ sent' = delivered
    /\ UNCHANGED <<receive_buffer_, parsing, delivered>>

-----------------------------------------------------------------------------
(* The loop of ProcessReceivedData *)

Erased(n) == SubSeq(receive_buffer_, n + 1, Len(receive_buffer_))

HasHeader == Len(receive_buffer_) >= HeaderSize
HasMagic  == SubSeq(receive_buffer_, 1, 2) = MESSAGE_MAGIC
HeaderTag == receive_buffer_[3]
HeaderLen == receive_buffer_[4]
HeaderSum == receive_buffer_[5]
TotalSize == HeaderSize + HeaderLen
Payload   == SubSeq(receive_buffer_, HeaderSize + 1, TotalSize)

ValidateMessage ==
    IF HeaderLen = 0 THEN HeaderSum = 0
    ELSE CalculateChecksum(Payload) = HeaderSum

\* Fewer bytes than a header: the loop ends.
ParseNoHeader ==
    /\ parsing /\ ~HasHeader
    /\ parsing' = FALSE
    /\ UNCHANGED <<unsent, wire, receive_buffer_, sent, delivered, lossVars>>

\* Where std::search, from position first on, finds the bytes of MESSAGE_MAGIC
\* as they lie in the memory of a little-endian machine.
FoundFrom(first) ==
    {i \in first .. Len(receive_buffer_) - 1 :
        SubSeq(receive_buffer_, i, i + 1) = Reverse(MESSAGE_MAGIC)}

SkipTo(found) ==
    IF found = {} THEN <<>>
    ELSE Erased((CHOOSE i \in found : \A j \in found : i <= j) - 1)

\* Mutant: the search starts at the first byte.
ResyncFromFirst ==
    /\ parsing /\ HasHeader /\ ~HasMagic
    /\ receive_buffer_' = SkipTo(FoundFrom(1))
    /\ UNCHANGED <<unsent, wire, parsing, sent, delivered, lossVars>>

Resync ==
    /\ parsing /\ HasHeader /\ ~HasMagic
    /\ receive_buffer_' = SkipTo(FoundFrom(2))
    /\ UNCHANGED <<unsent, wire, parsing, sent, delivered, lossVars>>

\* Only the header of a message that is too long is dropped.
DropOversized ==
    /\ parsing /\ HasHeader /\ HasMagic
    /\ HeaderLen > MAX_MESSAGE_SIZE
    /\ receive_buffer_' = Erased(HeaderSize)
    /\ UNCHANGED <<unsent, wire, parsing, sent, delivered, lossVars>>

\* Mutant: the loop waits for the rest of a message of any length.
WaitForAny ==
    /\ parsing /\ HasHeader /\ HasMagic
    /\ Len(receive_buffer_) < TotalSize
    /\ parsing' = FALSE
    /\ UNCHANGED <<unsent, wire, receive_buffer_, sent, delivered, lossVars>>

ParseIncomplete ==
    /\ parsing /\ HasHeader /\ HasMagic
    /\ HeaderLen <= MAX_MESSAGE_SIZE
    /\ Len(receive_buffer_) < TotalSize
    /\ parsing' = FALSE
    /\ UNCHANGED <<unsent, wire, receive_buffer_, sent, delivered, lossVars>>

\* Mutant: only the header of the message is removed.
RemoveHeaderOnly ==
    /\ parsing /\ HasHeader /\ HasMagic
    /\ HeaderLen <= MAX_MESSAGE_SIZE
    /\ Len(receive_buffer_) >= TotalSize
    /\ delivered' =
         IF ValidateMessage
         THEN Append(delivered, [tag |-> HeaderTag, payload |-> Payload])
         ELSE delivered
    /\ receive_buffer_' = Erased(HeaderSize)
    /\ UNCHANGED <<unsent, wire, parsing, sent, lossVars>>

\* A complete message: ProcessCompleteMessage if it is valid.
ParseMessage ==
    /\ parsing /\ HasHeader /\ HasMagic
    /\ HeaderLen <= MAX_MESSAGE_SIZE
    /\ Len(receive_buffer_) >= TotalSize
    /\ delivered' =
         IF ValidateMessage
         THEN Append(delivered, [tag |-> HeaderTag, payload |-> Payload])
         ELSE delivered
    /\ receive_buffer_' = Erased(TotalSize)
    /\ UNCHANGED <<unsent, wire, parsing, sent, lossVars>>

ProcessReceivedData ==
    \/ ParseNoHeader \/ Resync \/ DropOversized \/ ParseIncomplete \/ ParseMessage

-----------------------------------------------------------------------------

SomeSent(s) == \E n \in 1 .. Len(unsent[s]) : SendSome(s, n)
SomeReceived == \E n \in 1 .. Len(wire) : ReceiveData(n)

Next ==
    \/ \E s \in Senders, m \in Messages : Send(s, m)
    \/ \E s \in Senders : SomeSent(s)
    \/ SomeReceived
    \/ ProcessReceivedData
    \/ ConnectionEnds

Spec == Init /\ [][Next]_vars

(***************************************************************************)
(* A send that was begun goes on, TCP hands over what it has, and the loop *)
(* of ProcessReceivedData runs.  Nobody has to send a message.             *)
(***************************************************************************)
Fairness ==
    /\ \A s \in Senders : WF_vars(SomeSent(s))
    /\ WF_vars(SomeReceived)
    /\ WF_vars(ProcessReceivedData)

FairSpec == Spec /\ Fairness

-----------------------------------------------------------------------------
(* Properties *)

\* The buffers hold bytes, and messages are messages.
TypeOK ==
    /\ unsent \in [Senders -> Seq(Digits)]
    /\ wire \in Seq(Digits)
    /\ receive_buffer_ \in Seq(Digits)
    /\ parsing \in BOOLEAN
    /\ {sent, delivered} \subseteq Seq([tag : Digits, payload : Seq(Digits)])
    /\ torn \in BOOLEAN /\ losses \in 0 .. MaxLosses

\* Between two calls of ProcessReceivedData the buffer holds less than one
\* message of the maximal size, whatever bytes came in: its memory is bounded.
BufferBounded == ~parsing => Len(receive_buffer_) < HeaderSize + MAX_MESSAGE_SIZE

\* Nothing larger than the receiver accepts was sent.
LegalSizes == \A i \in DOMAIN sent : Len(sent[i].payload) <= MAX_MESSAGE_SIZE

\* With one sending thread and messages of legal size, the messages that come
\* out are the messages that were sent, complete and in order, however send()
\* and recv() cut the stream and although payloads may contain the magic number;
\* and the bytes not yet consumed are the serializations of the messages not yet
\* delivered.  A connection that ends between two messages does no harm to the
\* next one, and puts the parser back in frame whatever came before.
StreamInFrame ==
    LegalSizes /\ ~torn =>
        /\ IsPrefix(delivered, sent)
        /\ \A s \in Senders :
              receive_buffer_ \o wire \o unsent[s] =
                  FlattenSeq([i \in 1 .. Len(sent) - Len(delivered) |->
                                  SerializeMessage(sent[Len(delivered) + i])])

\* Every message of legal size that is sent is delivered (README.md:10, reliable
\* transport), unless its connection ends, or the one before ended inside a
\* message and left its fragment in receive_buffer_.
Delivery ==
    \A k \in 1 .. MaxMessages :
        (Len(sent) >= k)
            ~> (Len(delivered) >= k \/ ~LegalSizes \/ torn \/ Len(sent) < k)

\* The loop of ProcessReceivedData ends on every input, so the receive thread
\* gets back to recv() and mutex_ is released.
ParseEnds == parsing ~> ~parsing

-----------------------------------------------------------------------------
(* The channel that the stream implements *)

\* The messages whose bytes are on their way.
Undelivered == SubSeq(sent, Len(delivered) + 1, Len(sent))

Channel == INSTANCE MessageChannel WITH pending <- Undelivered, out <- delivered
=============================================================================
