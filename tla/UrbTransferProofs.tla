------------------------- MODULE UrbTransferProofs -------------------------
(***************************************************************************)
(* Proofs about UrbTransfer, for every set of URBs and device lists that   *)
(* the sender can make.                                                    *)
(***************************************************************************)
EXTENDS UrbTransfer, SequenceTheorems, WellFoundedInduction, TLAPS

-----------------------------------------------------------------------------
(* Induction, stated for a set instead of a predicate *)

\* Every set of natural numbers that is not empty has a least element.
LEMMA LeastNatural ==
    ASSUME NEW T, T \subseteq Nat, T # {}
    PROVE  \E p \in T : \A q \in T : p <= q
<1> DEFINE R == {ss \in Nat \X Nat : ss[1] < ss[2]}
<1>1. IsWellFoundedOn(R, Nat)
  BY NatLessThanWellFounded, Zenon DEF OpToRel
<1> HIDE DEF R
<1>2. PICK p \in T : \A q \in T : ~(<<q, p>> \in R)
  BY <1>1, WFMin
<1>3. \A q \in T : ~(q < p)
  BY <1>2 DEF R
<1> QED
  BY <1>3

\* A set that holds 0 and the successor of each number it holds has them all.
LEMMA SetInduction ==
    ASSUME NEW T, 0 \in T, \A n \in Nat : n \in T => n + 1 \in T
    PROVE  Nat \subseteq T
<1> DEFINE U == Nat \ T
<1>1. SUFFICES ASSUME U # {} PROVE FALSE
  BY <1>1
<1>2. PICK p \in U : \A q \in U : p <= q
  BY <1>1, LeastNatural
<1>3. p \in Nat /\ p # 0
  BY <1>2
<1>4. p - 1 \in Nat /\ ~(p <= p - 1) /\ (p - 1) + 1 = p
  BY <1>3
<1>5. p - 1 \in T
  BY <1>2, <1>4
<1> QED
  BY <1>2, <1>4, <1>5

-----------------------------------------------------------------------------
(* Sequences *)

\* Concatenation, kept folded where the steps only rewrite.
Cat(a, b) == a \o b

\* b begins with a.
Extends(b, a) == Len(a) <= Len(b) /\ \A j \in 1 .. Len(a) : b[j] = a[j]

Bytes == Seq(Byte)

-----------------------------------------------------------------------------
(* Integers *)

\* ntohl undoes htonl, whatever surrounds the four bytes.
LEMMA NtohlHtonl ==
    ASSUME NEW v \in UInt32, NEW data, NEW o,
           data[o + 1] = htonl(v)[1], data[o + 2] = htonl(v)[2],
           data[o + 3] = htonl(v)[3], data[o + 4] = htonl(v)[4]
    PROVE  ntohl(data, o) = v
<1>1. v \in Nat /\ v \div 16777216 < 256
  BY SMT DEF UInt32
<1> DEFINE a == (v \div 16777216) % 256
           b == (v \div 65536) % 256
           c == (v \div 256) % 256
           d == v % 256
<1>2. /\ data[o + 1] = a /\ data[o + 2] = b /\ data[o + 3] = c /\ data[o + 4] = d
  BY SMT DEF htonl
<1>3. 16777216 * a + 65536 * b + 256 * c + d = v
  BY <1>1, SMT
<1> HIDE DEF a, b, c, d
<1> QED
  BY <1>2, <1>3, SMT DEF ntohl

\* The bytes of an integer are bytes.
LEMMA HtonlBytes ==
    ASSUME NEW v \in UInt32
    PROVE  /\ htonl(v) \in Bytes /\ Len(htonl(v)) = 4
           /\ \A j \in 1..4 : htonl(v)[j] \in Byte
<1>1. v \in Nat
  BY SMT DEF UInt32
<1>2. /\ (v \div 16777216) % 256 \in Byte /\ (v \div 65536) % 256 \in Byte
      /\ (v \div 256) % 256 \in Byte /\ v % 256 \in Byte
  BY <1>1, SMT DEF Byte
<1> QED
  BY <1>2, SMT DEF htonl, Bytes

LEMMA ShortBytes ==
    ASSUME NEW v \in UInt16
    PROVE  /\ htons(v) \in Bytes /\ Len(htons(v)) = 2
           /\ HostShort(v) \in Bytes /\ Len(HostShort(v)) = 2
<1>1. v \in Nat
  BY DEF UInt16
<1>2. (v \div 256) % 256 \in Byte /\ v % 256 \in Byte
  BY <1>1, SMT DEF Byte
<1> QED
  BY <1>2 DEF htons, HostShort, Bytes

\* The same for the two bytes of a uint16_t, converted or not.
LEMMA NtohsHtons ==
    ASSUME NEW v \in UInt16, NEW data, NEW o,
           data[o + 1] = htons(v)[1], data[o + 2] = htons(v)[2]
    PROVE  ntohs(data, o) = v
<1> DEFINE a == (v \div 256) % 256
           b == v % 256
<1>1. data[o + 1] = a /\ data[o + 2] = b
  BY DEF htons
<1>2. 256 * a + b = v
  <2>1. v \in Nat /\ v \div 256 < 256
    BY DEF UInt16
  <2> QED
    BY <2>1, SMT
<1> HIDE DEF a, b
<1> QED
  BY <1>1, <1>2, Zenon DEF ntohs

LEMMA HostShortRead ==
    ASSUME NEW v \in UInt16, NEW data, NEW o,
           data[o + 1] = HostShort(v)[1], data[o + 2] = HostShort(v)[2]
    PROVE  HostShortAt(data, o) = v
<1> DEFINE a == v % 256
           b == (v \div 256) % 256
<1>1. data[o + 1] = a /\ data[o + 2] = b
  BY DEF HostShort
<1>2. a + 256 * b = v
  <2>1. v \in Nat /\ v \div 256 < 256
    BY DEF UInt16
  <2> QED
    BY <2>1, SMT
<1> HIDE DEF a, b
<1> QED
  BY <1>1, <1>2, Zenon DEF HostShortAt

\* A structure of 32-bit fields: four bytes for each.
LEMMA WordsAt ==
    ASSUME NEW fields \in Seq(UInt32)
    PROVE  /\ Words(fields) \in Bytes
           /\ Len(Words(fields)) = 4 * Len(fields)
           /\ \A i \in 1 .. Len(fields) : \A j \in 1..4 :
                 Words(fields)[4 * (i - 1) + j] = htonl(fields[i])[j]
<1> DEFINE n == Len(fields)
           S == [i \in DOMAIN fields |-> htonl(fields[i])]
           w(k) == S[1 + (k - 1) \div 4][1 + ((k - 1) % 4)]
<1>1. n \in Nat /\ DOMAIN fields = 1 .. n
  OBVIOUS
<1>2. DOMAIN S = 1 .. n /\ Len(S) = n /\ \A i \in 1 .. n : S[i] = htonl(fields[i])
  BY <1>1
<1>3. \A i \in 1 .. n : fields[i] \in UInt32
  BY <1>1
<1>4. Words(fields) = [k \in 1 .. 4 * n |-> w(k)]
  BY <1>2 DEF Words, Array
<1> HIDE DEF S, n
<1>5. ASSUME NEW k \in 1 .. 4 * n PROVE w(k) \in Byte
  <2>1. 1 + (k - 1) \div 4 \in 1 .. n /\ 1 + ((k - 1) % 4) \in 1 .. 4
    BY <1>1, SMT
  <2> DEFINE i == 1 + (k - 1) \div 4
             j == 1 + ((k - 1) % 4)
  <2> HIDE DEF i, j
  <2>2. i \in 1 .. n /\ j \in 1 .. 4
    BY <2>1 DEF i, j
  <2>3. S[i][j] \in Byte
    BY <1>2, <1>3, <2>2, HtonlBytes
  <2> QED
    BY <2>3 DEF i, j
<1>6. 4 * n \in Nat
  BY <1>1
<1>7. ASSUME NEW i \in 1 .. n, NEW j \in 1 .. 4
      PROVE  Words(fields)[4 * (i - 1) + j] = htonl(fields[i])[j]
  <2> DEFINE k == 4 * (i - 1) + j
  <2>1. k \in 1 .. 4 * n /\ 1 + (k - 1) \div 4 = i /\ 1 + ((k - 1) % 4) = j
    BY <1>1, SMT
  <2> HIDE DEF k
  <2>2. Words(fields)[k] = w(k)
    BY <1>4, <2>1
  <2> QED
    BY <1>2, <2>1, <2>2 DEF k
<1> HIDE DEF w
<1>8. Words(fields) \in Bytes /\ Len(Words(fields)) = 4 * n
  <2>1. \A k \in 1 .. 4 * n : w(k) \in Byte
    BY <1>5
  <2> QED
    BY <1>4, <1>6, <2>1 DEF Bytes
<1> QED
  BY <1>7, <1>8 DEF n

-----------------------------------------------------------------------------
(* The conversions of a URB *)

Setups == [bmRequestType : Byte, bRequest : Byte, wValue : UInt16,
           wIndex : UInt16, wLength : UInt16]

\* x is a, of m bytes, followed by b, of n bytes.
IsCat(x, a, m, b, n) ==
    /\ x \in Bytes /\ Len(x) = m + n
    /\ \A i \in 1 .. m : x[i] = a[i]
    /\ \A i \in 1 .. n : x[m + i] = b[i]

LEMMA CatIs ==
    ASSUME NEW a \in Bytes, NEW b \in Bytes
    PROVE  IsCat(Cat(a, b), a, Len(a), b, Len(b))
  BY DEF Cat, Bytes, IsCat

\* The eight bytes of a setup packet.
LEMMA SetupBytesAt ==
    ASSUME NEW s \in Setups
    PROVE  /\ SetupBytes(s) \in Bytes /\ Len(SetupBytes(s)) = 8
           /\ SetupBytes(s)[1] = s.bmRequestType /\ SetupBytes(s)[2] = s.bRequest
           /\ \A j \in 1..2 : /\ SetupBytes(s)[2 + j] = HostShort(s.wValue)[j]
                              /\ SetupBytes(s)[4 + j] = HostShort(s.wIndex)[j]
                              /\ SetupBytes(s)[6 + j] = HostShort(s.wLength)[j]
<1> DEFINE h == <<s.bmRequestType, s.bRequest>>
           a == HostShort(s.wValue)
           b == HostShort(s.wIndex)
           c == HostShort(s.wLength)
<1>1. /\ a \in Bytes /\ Len(a) = 2 /\ b \in Bytes /\ Len(b) = 2
      /\ c \in Bytes /\ Len(c) = 2
  BY ShortBytes DEF Setups
<1>2. /\ h \in Bytes /\ Len(h) = 2
      /\ h[1] = s.bmRequestType /\ h[2] = s.bRequest
  BY DEF Setups, Bytes
<1>3. SetupBytes(s) = Cat(Cat(Cat(h, a), b), c)
  BY DEF SetupBytes, Cat
<1> HIDE DEF h, a, b, c
<1> DEFINE x == Cat(h, a)
           y == Cat(x, b)
           z == Cat(y, c)
<1>4. IsCat(x, h, 2, a, 2)
  BY <1>1, <1>2, CatIs, Zenon
<1> HIDE DEF x
<1>5. x \in Bytes /\ Len(x) = 4
  BY <1>4 DEF IsCat
<1>6. IsCat(y, x, 4, b, 2)
  BY <1>1, <1>5, CatIs, Zenon
<1> HIDE DEF y
<1>7. y \in Bytes /\ Len(y) = 6
  BY <1>6 DEF IsCat
<1>8. IsCat(z, y, 6, c, 2)
  BY <1>1, <1>7, CatIs, Zenon
<1>9. SetupBytes(s) = z
  BY <1>3 DEF x, y
<1> HIDE DEF z
<1>10. /\ z \in Bytes /\ Len(z) = 8
       /\ z[1] = h[1] /\ z[2] = h[2]
       /\ \A j \in 1..2 : z[2 + j] = a[j] /\ z[4 + j] = b[j] /\ z[6 + j] = c[j]
  BY <1>4, <1>6, <1>8 DEF IsCat
<1> QED
  BY <1>2, <1>9, <1>10 DEF a, b, c

\* The bytes of the 32-bit fields w lie at o in P, and they are read from there.
Holds(P, o, w) == \A k \in 1 .. 4 * Len(w) : P[o + k] = Words(w)[k]

Reads(P, o, w) == \A i \in 1 .. Len(w) : ntohl(P, o + 4 * (i - 1)) = w[i]

LEMMA ReadWords ==
    ASSUME NEW w \in Seq(UInt32), NEW P, NEW o \in Nat, Holds(P, o, w)
    PROVE  Reads(P, o, w)
<1> DEFINE n == Len(w)
<1>1. n \in Nat
  OBVIOUS
<1>2. \A i \in 1 .. n : \A j \in 1..4 : Words(w)[4 * (i - 1) + j] = htonl(w[i])[j]
  BY WordsAt, Zenon
<1>3. \A i \in 1 .. n : w[i] \in UInt32
  BY ElementOfSeq, Zenon
<1>4. \A k \in 1 .. 4 * n : P[o + k] = Words(w)[k]
  BY Zenon DEF Holds
<1> HIDE DEF n
<1>5. ASSUME NEW i \in 1 .. n PROVE ntohl(P, o + 4 * (i - 1)) = w[i]
  <2> DEFINE a == 4 * (i - 1)
             b == o + a
  <2>1. \A j \in 1..4 : a + j \in 1 .. 4 * n /\ o + (a + j) = b + j
    <3>1. i \in Int /\ 1 <= i /\ i <= n
      BY <1>1
    <3> QED
      BY <1>1, <3>1, SMT
  <2>2. \A j \in 1..4 : Words(w)[a + j] = htonl(w[i])[j]
    BY <1>2, Zenon
  <2> HIDE DEF a, b
  <2>3. \A j \in 1..4 : P[b + j] = htonl(w[i])[j]
    BY <1>4, <2>1, <2>2, Zenon
  <2>4. /\ P[b + 1] = htonl(w[i])[1] /\ P[b + 2] = htonl(w[i])[2]
        /\ P[b + 3] = htonl(w[i])[3] /\ P[b + 4] = htonl(w[i])[4]
    BY <2>3
  <2>5. ntohl(P, b) = w[i]
    <3>1. w[i] \in UInt32
      BY <1>3, Zenon
    <3> QED
      BY <2>4, <3>1, NtohlHtonl, SMT
  <2> QED
    BY <2>5 DEF a, b
<1> QED
  BY <1>5, Zenon DEF n, Reads

\* The ten fields at the start of a UsbipCmdSubmit or a UsbipRetSubmit.
LEMMA ReadHeader ==
    ASSUME NEW w \in Seq(UInt32), Len(w) = 10, NEW P,
           \A k \in 1..40 : P[k] = Words(w)[k]
    PROVE  \A i \in 1..10 : ntohl(P, 4 * (i - 1)) = w[i]
<1>1. \A k \in 1 .. 4 * 10 : 0 + k = k /\ k \in 1..40
  BY SMT
<1>2. \A k \in 1 .. 4 * 10 : P[0 + k] = Words(w)[k]
  BY <1>1, Zenon
<1>3. \A i \in 1..10 : ntohl(P, 0 + 4 * (i - 1)) = w[i]
  <2>1. 0 \in Nat
    OBVIOUS
  <2>2. \A k \in 1 .. 4 * Len(w) : P[0 + k] = Words(w)[k]
    BY <1>2, Zenon
  <2>3. Holds(P, 0, w)
    BY <2>2, Zenon DEF Holds
  <2>4. Reads(P, 0, w)
    BY <2>1, <2>3, ReadWords, Zenon
  <2> QED
    BY <2>4, Zenon DEF Reads
<1>4. \A i \in 1..10 : 0 + 4 * (i - 1) = 4 * (i - 1)
  BY SMT
<1> QED
  BY <1>3, <1>4, Zenon

\* The ten words w, the setup packet s and the data d can be read from P.
ReadsBack(P, w, s, d) ==
    /\ P \in Bytes /\ Len(P) = 48 + Len(d)
    /\ \A i \in 1..10 : ntohl(P, 4 * (i - 1)) = w[i]
    /\ SetupAt(P, 40) = s
    /\ \A k \in 1 .. Len(d) : P[48 + k] = d[k]

\* A USBIP_CMD_SUBMIT comes back with its fields, its setup packet and its data.
LEMMA CmdSubmitRoundTrip ==
    ASSUME NEW w \in Seq(UInt32), Len(w) = 10, NEW s \in Setups, NEW d \in Bytes
    PROVE  ReadsBack(SerializeCmdSubmit([words |-> w, setup |-> s], d), w, s, d)
<1> DEFINE P == SerializeCmdSubmit([words |-> w, setup |-> s], d)
           h == Words(w)
           t == SetupBytes(s)
           x == Cat(h, t)
<1>1. h \in Bytes /\ Len(h) = 40
  <2>1. h \in Bytes /\ Len(h) = 4 * 10
    BY WordsAt, Zenon
  <2> HIDE DEF h
  <2> QED
    BY <2>1
<1>2. t \in Bytes /\ Len(t) = 8
  BY SetupBytesAt
<1>3. P = Cat(x, d)
  BY DEF SerializeCmdSubmit, Cat
<1> HIDE DEF h, t, P
<1>4. IsCat(x, h, 40, t, 8)
  BY <1>1, <1>2, CatIs, Zenon
<1> HIDE DEF x
<1>5. x \in Bytes /\ Len(x) = 48
  BY <1>4 DEF IsCat
<1>a. IsCat(P, x, 48, d, Len(d))
  <2>1. IsCat(Cat(x, d), x, Len(x), d, Len(d))
    BY <1>5, CatIs, Zenon
  <2> QED
    BY <1>3, <1>5, <2>1, Zenon
<1>6. \A i \in 1..10 : ntohl(P, 4 * (i - 1)) = w[i]
  <2>1. \A k \in 1..40 : k \in 1..48
    BY SMT
  <2>2. \A k \in 1..40 : P[k] = Words(w)[k]
    BY <1>4, <1>a, <2>1, Zenon DEF IsCat, h
  <2> QED
    BY <2>2, ReadHeader, Zenon
<1>7. \A j \in 1..8 : P[40 + j] = t[j]
  <2>1. \A j \in 1..8 : 40 + j \in 1..48
    BY SMT
  <2>2. \A j \in 1..8 : x[40 + j] = t[j]
    BY <1>4, Zenon DEF IsCat
  <2> QED
    BY <1>a, <2>1, <2>2, Zenon DEF IsCat
<1>8. /\ P[41] = s.bmRequestType /\ P[42] = s.bRequest
      /\ HostShortAt(P, 42) = s.wValue
      /\ HostShortAt(P, 44) = s.wIndex /\ HostShortAt(P, 46) = s.wLength
  <2>1. /\ t[1] = s.bmRequestType /\ t[2] = s.bRequest
        /\ t[3] = HostShort(s.wValue)[1] /\ t[4] = HostShort(s.wValue)[2]
        /\ t[5] = HostShort(s.wIndex)[1] /\ t[6] = HostShort(s.wIndex)[2]
        /\ t[7] = HostShort(s.wLength)[1] /\ t[8] = HostShort(s.wLength)[2]
    BY SetupBytesAt DEF t
  <2>2. s.wValue \in UInt16 /\ s.wIndex \in UInt16 /\ s.wLength \in UInt16
    BY DEF Setups
  <2>3. /\ P[41] = t[1] /\ P[42] = t[2] /\ P[43] = t[3] /\ P[44] = t[4]
        /\ P[45] = t[5] /\ P[46] = t[6] /\ P[47] = t[7] /\ P[48] = t[8]
    BY <1>7
  <2>4. HostShortAt(P, 42) = s.wValue
    BY <2>1, <2>2, <2>3, HostShortRead
  <2>5. HostShortAt(P, 44) = s.wIndex
    BY <2>1, <2>2, <2>3, HostShortRead
  <2>6. HostShortAt(P, 46) = s.wLength
    BY <2>1, <2>2, <2>3, HostShortRead
  <2> QED
    BY <2>1, <2>3, <2>4, <2>5, <2>6
<1>9. SetupAt(P, 40) = s
  BY <1>8 DEF SetupAt, Setups
<1> QED
  BY <1>6, <1>9, <1>a DEF IsCat, ReadsBack, P

\* The URBs that HandleUrbSubmit makes.
ReceivedUrbs ==
    [type : {"CONTROL", "BULK"}, direction : {OUT, IN_}, endpoint : Byte,
     flags : UInt32, data : Bytes, setup : Setups, status : {0}, actual_length : Nat]

LEMMA ShortFits ==
    ASSUME NEW a \in Byte, NEW b \in Byte
    PROVE  a + 256 * b \in UInt16
<1> DEFINE c == a + 256 * b
<1>1. a \in Int /\ 0 <= a /\ a <= 255 /\ b \in Int /\ 0 <= b /\ b <= 255
  BY DEF Byte
<1>2. c \in Nat /\ c \div 256 < 256
  BY <1>1, SMT
<1> HIDE DEF c
<1>3. c \in UInt16
  BY <1>2 DEF UInt16
<1> QED
  BY <1>3 DEF c

LEMMA ByteFits == \A v \in Byte : v % 256 = v
  BY SMT DEF Byte

\* A setup packet can be read from any bytes.
LEMMA SetupAtType ==
    ASSUME NEW P \in Bytes, Len(P) >= 48
    PROVE  SetupAt(P, 40) \in Setups
<1>1. ASSUME NEW a \in Byte, NEW b \in Byte PROVE a + 256 * b \in UInt16
  BY ShortFits
<1>2. \A i \in 1..48 : P[i] \in Byte
  BY DEF Bytes
<1>3. /\ P[41] \in Byte /\ P[42] \in Byte /\ P[43] \in Byte /\ P[44] \in Byte
      /\ P[45] \in Byte /\ P[46] \in Byte /\ P[47] \in Byte /\ P[48] \in Byte
  BY <1>2
<1>4. /\ HostShortAt(P, 42) = P[43] + 256 * P[44]
      /\ HostShortAt(P, 44) = P[45] + 256 * P[46]
      /\ HostShortAt(P, 46) = P[47] + 256 * P[48]
  BY DEF HostShortAt
<1>5. /\ HostShortAt(P, 42) \in UInt16 /\ HostShortAt(P, 44) \in UInt16
      /\ HostShortAt(P, 46) \in UInt16
  BY <1>1, <1>3, <1>4
<1>6. SetupAt(P, 40) = [bmRequestType |-> P[41], bRequest |-> P[42],
                        wValue |-> HostShortAt(P, 42), wIndex |-> HostShortAt(P, 44),
                        wLength |-> HostShortAt(P, 46)]
  BY DEF SetupAt
<1> QED
  BY <1>3, <1>5, <1>6 DEF Setups

LEMMA NoSetupType == NoSetup \in Setups
  BY SMT DEF NoSetup, Setups, Byte, UInt16

LEMMA UrbDataType ==
    ASSUME NEW P \in Bytes, NEW n \in UInt32
    PROVE  UrbData(P, n) \in Bytes
<1>1. n \in Nat /\ CmdSubmitSize = 48
  BY SMT DEF UInt32, CmdSubmitSize
<1> DEFINE s == SubSeq(P, 49, 48 + n)
<1>2. ASSUME Len(P) >= 48 + n PROVE s \in Bytes
  <2>1. \A i \in 49 .. 48 + n : P[i] \in Byte
    BY <1>1, <1>2 DEF Bytes
  <2> QED
    BY <1>1, <2>1, SubSeqProperties DEF Bytes
<1>3. <<>> \in Bytes
  BY DEF Bytes
<1>4. (UrbData(P, n) = s /\ Len(P) >= 48 + n) \/ UrbData(P, n) = <<>>
  BY <1>1 DEF UrbData
<1> QED
  BY <1>2, <1>3, <1>4

\* What is read from a message whose ten words are w.
LEMMA ParseIs ==
    ASSUME NEW w \in Seq(UInt32), Len(w) = 10, w[4] \in {OUT, IN_}, w[5] \in Byte,
           NEW P \in Bytes, Len(P) >= 48,
           \A i \in 1..10 : ntohl(P, 4 * (i - 1)) = w[i]
    PROVE  /\ ParseUrb(P) \in ReceivedUrbs
           /\ ParseUrb(P).direction = w[4] /\ ParseUrb(P).endpoint = w[5]
           /\ ParseUrb(P).type = (IF w[5] = 0 THEN "CONTROL" ELSE "BULK")
           /\ ParseUrb(P).flags = w[6]
           /\ ParseUrb(P).setup = (IF w[5] = 0 THEN SetupAt(P, 40) ELSE NoSetup)
           /\ ParseUrb(P).data = UrbData(P, w[7])
<1> DEFINE r == ParseCmdSubmit(P).words
           b == UrbData(P, w[7])
           t == IF w[5] = 0 THEN SetupAt(P, 40) ELSE NoSetup
<1>1. r[4] = w[4] /\ r[5] = w[5] /\ r[6] = w[6] /\ r[7] = w[7]
  <2>1. \A i \in 1..10 : r[i] = w[i]
    BY DEF ParseCmdSubmit
  <2> HIDE DEF r
  <2> QED
    BY <2>1
<1>2. ParseCmdSubmit(P).setup = SetupAt(P, 40)
  BY DEF ParseCmdSubmit
<1> HIDE DEF r
<1>3. r[4] % 256 = w[4] /\ r[5] % 256 = w[5]
  <2>1. w[4] \in Byte
    BY SMT DEF OUT, IN_, Byte
  <2>2. w[4] % 256 = w[4] /\ w[5] % 256 = w[5]
    BY <2>1, ByteFits, Zenon
  <2> QED
    BY <1>1, <2>1, <2>2, Zenon
<1>4. ParseUrb(P) =
         [type |-> IF w[5] = 0 THEN "CONTROL" ELSE "BULK",
          direction |-> w[4], endpoint |-> w[5], flags |-> w[6], data |-> b,
          setup |-> t, status |-> 0, actual_length |-> Len(b)]
  <2>1. ParseUrb(P) =
           [type |-> IF r[5] % 256 = 0 THEN "CONTROL" ELSE "BULK",
            direction |-> r[4] % 256, endpoint |-> r[5] % 256, flags |-> r[6],
            data |-> UrbData(P, r[7]),
            setup |-> IF r[5] % 256 = 0 THEN ParseCmdSubmit(P).setup ELSE NoSetup,
            status |-> 0, actual_length |-> Len(UrbData(P, r[7]))]
    BY Zenon DEF ParseUrb, r
  <2> QED
    BY <1>1, <1>2, <1>3, <2>1, Zenon
<1>5. 6 \in 1 .. Len(w) /\ 7 \in 1 .. Len(w)
  BY SMT
<1>6. w[6] \in UInt32 /\ w[7] \in UInt32
  BY <1>5, ElementOfSeq, Zenon
<1>7. b \in Bytes
  BY <1>6, UrbDataType
<1>8. t \in Setups
  BY SetupAtType, NoSetupType
<1>9. Len(b) \in Nat
  BY <1>7 DEF Bytes
<1> HIDE DEF b, t
<1>a. ParseUrb(P) \in ReceivedUrbs
  BY <1>4, <1>6, <1>7, <1>8, <1>9 DEF ReceivedUrbs
<1> QED
  BY <1>4, <1>a DEF b, t

\* The type of the captured URBs, field by field.
LEMMA UrbFields ==
    ASSUME NEW urb \in Urbs
    PROVE  /\ urb.direction \in {OUT, IN_} /\ urb.endpoint \in Byte
           /\ urb.flags \in UInt32 /\ urb.data \in Bytes /\ urb.setup \in Setups
           /\ urb.status \in UInt32 /\ urb.actual_length \in UInt32
           /\ urb.type = (IF urb.endpoint = 0 THEN "CONTROL" ELSE "BULK")
           /\ urb.type = "BULK" => urb.setup = NoSetup
           /\ Len(urb.data) \in UInt32 /\ Len(urb.data) \in Length
<1>1. /\ urb \in UsbUrb /\ Len(urb.data) \in Length
      /\ urb.type = "CONTROL" <=> urb.endpoint = 0
      /\ urb.type = "BULK" => urb.setup = NoSetup
  BY UrbsAssumption
<1>2. /\ urb.direction \in {OUT, IN_} /\ urb.endpoint \in Byte
      /\ urb.flags \in UInt32 /\ urb.data \in Bytes /\ urb.setup \in Setups
      /\ urb.status \in UInt32 /\ urb.actual_length \in UInt32
      /\ urb.type \in {"CONTROL", "BULK"}
  BY <1>1 DEF UsbUrb, Setups, Bytes
<1>3. \A n \in Length : n \in UInt32
  BY SMT DEF Length, UInt32
<1>4. urb.type = (IF urb.endpoint = 0 THEN "CONTROL" ELSE "BULK")
  BY <1>1, <1>2
<1> QED
  BY <1>1, <1>2, <1>3, <1>4

LEMMA SmallWords ==
    /\ 0 \in UInt32 /\ 1 \in UInt32 /\ 3 \in UInt32 /\ 5 \in UInt32
    /\ \A v \in Byte : v \in UInt32
<1>1. \A v \in 0..255 : v \div 16777216 < 256
  BY SMT
<1> QED
  BY <1>1, SMT DEF UInt32, Byte

\* A host-to-device URB is read as it was written.
LEMMA OutRoundTrip ==
    ASSUME NEW urb \in Urbs, IsOut(urb)
    PROVE  /\ Len(ProcessUrb(urb)) >= CmdSubmitSize
           /\ ParseUrb(ProcessUrb(urb)) \in ReceivedUrbs
           /\ Visible(ParseUrb(ProcessUrb(urb))) = Visible(urb)
<1> DEFINE P == ProcessUrb(urb)
           d == urb.data
           n == Len(d)
           w == <<1, 1, 0, urb.direction, urb.endpoint, urb.flags, n, 0, 0, 0>>
<1>1. P = SerializeCmdSubmit([words |-> w, setup |-> urb.setup], d)
  <2>1. (IF urb.type = "CONTROL" THEN urb.setup ELSE NoSetup) = urb.setup
    BY UrbFields
  <2> QED
    BY <2>1 DEF IsOut, ProcessUrb, CreateCmdSubmit
<1>2. w \in Seq(UInt32) /\ Len(w) = 10
  <2>1. /\ urb.direction \in UInt32 /\ urb.endpoint \in UInt32 /\ urb.flags \in UInt32
        /\ n \in UInt32
    BY UrbFields, SmallWords DEF OUT, IN_
  <2> HIDE DEF n
  <2> QED
    BY <2>1, SmallWords
<1>3. w[4] = urb.direction /\ w[5] = urb.endpoint /\ w[6] = urb.flags /\ w[7] = n
  OBVIOUS
<1>4. d \in Bytes /\ urb.setup \in Setups
  BY UrbFields
<1> HIDE DEF P, w
<1>5. /\ P \in Bytes /\ Len(P) = 48 + n
      /\ \A i \in 1..10 : ntohl(P, 4 * (i - 1)) = w[i]
      /\ SetupAt(P, 40) = urb.setup
      /\ \A k \in 1 .. n : P[48 + k] = d[k]
  <2>1. ReadsBack(P, w, urb.setup, d)
    BY <1>1, <1>2, <1>4, CmdSubmitRoundTrip, Zenon
  <2> QED
    BY <2>1, Zenon DEF ReadsBack
<1> HIDE DEF d
<1>6. n \in Nat
  BY <1>4 DEF Bytes
<1>7. Len(P) >= 48
  BY <1>5, <1>6
<1>8. /\ ParseUrb(P) \in ReceivedUrbs
      /\ ParseUrb(P).direction = w[4] /\ ParseUrb(P).endpoint = w[5]
      /\ ParseUrb(P).type = (IF w[5] = 0 THEN "CONTROL" ELSE "BULK")
      /\ ParseUrb(P).flags = w[6]
      /\ ParseUrb(P).setup = (IF w[5] = 0 THEN SetupAt(P, 40) ELSE NoSetup)
      /\ ParseUrb(P).data = UrbData(P, w[7])
  <2>1. w[4] \in {OUT, IN_} /\ w[5] \in Byte
    BY <1>3, UrbFields
  <2> QED
    BY <1>2, <1>5, <1>7, <2>1, ParseIs, Zenon
<1>9. UrbData(P, n) = d
  <2>1. CASE n = 0
    <3>1. d = <<>>
      BY <1>4, <2>1, EmptySeq DEF Bytes
    <3> QED
      BY <2>1, <3>1 DEF UrbData
  <2>2. CASE n # 0
    <3>1. UrbData(P, n) = SubSeq(P, 49, 48 + n)
      <4>1. n \in Length
        BY UrbFields DEF d
      <4> HIDE DEF n
      <4> QED
        BY <1>5, <1>6, <2>2, <4>1 DEF UrbData, CmdSubmitSize
    <3> DEFINE t == SubSeq(P, 49, 48 + n)
    <3>2. t \in Bytes /\ Len(t) = n /\ \A k \in 1 .. n : t[k] = P[48 + k]
      <4> HIDE DEF n
      <4>1. \A i \in 49 .. 48 + n : P[i] \in Byte
        BY <1>5, <1>6 DEF Bytes
      <4> QED
        BY <1>6, <4>1, SubSeqProperties DEF Bytes
    <3> HIDE DEF t
    <3>3. t = d
      BY <1>4, <1>5, <3>2, SeqEqual DEF Bytes
    <3> QED
      BY <3>1, <3>3 DEF t
  <2> QED
    BY <2>1, <2>2
<1>a. ParseUrb(P).type = urb.type /\ ParseUrb(P).setup = urb.setup
  BY <1>3, <1>5, <1>8, UrbFields
<1>b. Visible(ParseUrb(P)) = Visible(urb)
  BY <1>3, <1>8, <1>9, <1>a DEF Visible, d
<1> QED
  BY <1>7, <1>8, <1>b DEF P, CmdSubmitSize

\* Of a device-to-host URB, whose USBIP_RET_SUBMIT is read as the other structure,
\* at least the direction and the endpoint are read as they were written.
LEMMA InRoundTrip ==
    ASSUME NEW urb \in Urbs, ~IsOut(urb), Len(ProcessUrb(urb)) >= CmdSubmitSize
    PROVE  /\ ParseUrb(ProcessUrb(urb)) \in ReceivedUrbs
           /\ ~IsOut(ParseUrb(ProcessUrb(urb)))
           /\ ParseUrb(ProcessUrb(urb)).endpoint = urb.endpoint
           /\ ParseUrb(ProcessUrb(urb)).type = urb.type
<1> DEFINE P == ProcessUrb(urb)
           d == urb.data
           w == <<3, 1, 0, urb.direction, urb.endpoint, urb.status, urb.actual_length,
                  0, 0, 0>>
           h == Words(w)
<1>1. P = Cat(h, d)
  BY DEF IsOut, ProcessUrb, CreateRetSubmit, SerializeRetSubmit, Cat
<1>2. w \in Seq(UInt32) /\ Len(w) = 10
  <2>1. /\ urb.direction \in UInt32 /\ urb.endpoint \in UInt32 /\ urb.status \in UInt32
        /\ urb.actual_length \in UInt32
    BY UrbFields, SmallWords DEF OUT, IN_
  <2> QED
    BY <2>1, SmallWords
<1>3. w[4] = urb.direction /\ w[5] = urb.endpoint
  OBVIOUS
<1>4. d \in Bytes /\ Len(P) >= 48
  BY UrbFields DEF CmdSubmitSize
<1> HIDE DEF P, w, d
<1>5. h \in Bytes /\ Len(h) = 40
  <2>1. h \in Bytes /\ Len(h) = 4 * 10
    BY <1>2, WordsAt, Zenon
  <2> HIDE DEF h
  <2> QED
    BY <2>1
<1>6. IsCat(P, h, 40, d, Len(d))
  BY <1>1, <1>4, <1>5, CatIs, Zenon
<1>7. \A i \in 1..10 : ntohl(P, 4 * (i - 1)) = w[i]
  <2>1. \A k \in 1..40 : P[k] = Words(w)[k]
    BY <1>6, Zenon DEF IsCat
  <2> QED
    BY <1>2, <2>1, ReadHeader, Zenon
<1>8. P \in Bytes
  BY <1>6 DEF IsCat
<1>9. w[4] \in {OUT, IN_} /\ w[5] \in Byte
  BY <1>3, UrbFields
<1>a. /\ ParseUrb(P) \in ReceivedUrbs
      /\ ParseUrb(P).direction = w[4] /\ ParseUrb(P).endpoint = w[5]
      /\ ParseUrb(P).type = (IF w[5] = 0 THEN "CONTROL" ELSE "BULK")
  BY <1>2, <1>4, <1>7, <1>8, <1>9, ParseIs, Zenon
<1>b. ParseUrb(P).type = urb.type
  BY <1>3, <1>a, UrbFields
<1> QED
  BY <1>3, <1>a, <1>b DEF P, IsOut

-----------------------------------------------------------------------------
(* The conversions of a device list *)

\* The bytes of a device list, with its name fields.
Cells == Seq(Byte \cup STRING)

\* x is a, of m cells, followed by b, of n cells.
IsJoin(x, a, m, b, n) ==
    /\ x \in Cells /\ Len(x) = m + n
    /\ \A i \in 1 .. m : x[i] = a[i]
    /\ \A i \in 1 .. n : x[m + i] = b[i]

LEMMA JoinIs ==
    ASSUME NEW a \in Cells, NEW b \in Cells
    PROVE  IsJoin(Cat(a, b), a, Len(a), b, Len(b))
  BY DEF Cat, Cells, IsJoin

LEMMA BytesAreCells == \A b \in Bytes : b \in Cells
  BY DEF Bytes, Cells

\* The three 32-bit fields of a UsbipDeviceInfo.
InfoWords(d) == <<d.busnum, d.devnum, d.speed>>

LEMMA InfoWordsType ==
    ASSUME NEW d \in UsbipDeviceInfo
    PROVE  /\ InfoWords(d) \in Seq(UInt32) /\ Len(InfoWords(d)) = 3
           /\ InfoWords(d)[1] = d.busnum /\ InfoWords(d)[2] = d.devnum
           /\ InfoWords(d)[3] = d.speed
  BY DEF UsbipDeviceInfo, InfoWords

\* Its three 16-bit fields, and its six bytes.
InfoShorts(d) == <<d.idVendor, d.idProduct, d.bcdDevice>>
InfoOctets(d) == <<d.bDeviceClass, d.bDeviceSubClass, d.bDeviceProtocol,
                   d.bConfigurationValue, d.bNumConfigurations, d.bNumInterfaces>>

LEMMA InfoShortsType ==
    ASSUME NEW d \in UsbipDeviceInfo
    PROVE  /\ d.idVendor \in UInt16 /\ d.idProduct \in UInt16 /\ d.bcdDevice \in UInt16
           /\ InfoShorts(d)[1] = d.idVendor /\ InfoShorts(d)[2] = d.idProduct
           /\ InfoShorts(d)[3] = d.bcdDevice
  BY DEF UsbipDeviceInfo, InfoShorts

\* What lies where in a UsbipDeviceInfo.
InfoLayout(B, d) ==
    /\ B \in Cells /\ Len(B) = 26
    /\ B[1] = d.path /\ B[2] = d.busid
    /\ \A k \in 1..12 : B[2 + k] = Words(InfoWords(d))[k]
    /\ \A i \in 1..3 : \A j \in 1..2 :
          B[12 + 2 * i + j] = htons(InfoShorts(d)[i])[j]
    /\ \A k \in 1..6 : B[20 + k] = InfoOctets(d)[k]

LEMMA DeviceInfoAt ==
    ASSUME NEW d \in UsbipDeviceInfo
    PROVE  InfoLayout(DeviceInfoBytes(d), d)
<1> DEFINE a == <<d.path, d.busid>>
           b == Words(InfoWords(d))
           c == htons(d.idVendor)
           e == htons(d.idProduct)
           g == htons(d.bcdDevice)
           f == InfoOctets(d)
<1>1. /\ a \in Cells /\ Len(a) = 2 /\ a[1] = d.path /\ a[2] = d.busid
      /\ f \in Cells /\ Len(f) = 6
  BY DEF UsbipDeviceInfo, InfoOctets, Cells
<1>2. b \in Cells /\ Len(b) = 12
  <2>1. b \in Bytes /\ Len(b) = 4 * 3
    BY InfoWordsType, WordsAt, Zenon
  <2> HIDE DEF b
  <2> QED
    BY <2>1, BytesAreCells
<1>3. /\ c \in Cells /\ Len(c) = 2 /\ e \in Cells /\ Len(e) = 2
      /\ g \in Cells /\ Len(g) = 2
  BY InfoShortsType, ShortBytes, BytesAreCells, Zenon
<1> DEFINE x == Cat(a, b)
           y == Cat(x, c)
           z == Cat(y, e)
           v == Cat(z, g)
           B == Cat(v, f)
<1>4. DeviceInfoBytes(d) = B
  BY DEF DeviceInfoBytes, InfoWords, InfoOctets, Cat
<1>s. InfoShorts(d)[1] = d.idVendor /\ InfoShorts(d)[2] = d.idProduct
      /\ InfoShorts(d)[3] = d.bcdDevice
  BY InfoShortsType
<1> HIDE DEF a, b, c, e, g, f
<1>5. IsJoin(x, a, 2, b, 12)
  BY <1>1, <1>2, JoinIs, Zenon
<1> HIDE DEF x
<1>6. x \in Cells /\ Len(x) = 14
  BY <1>5 DEF IsJoin
<1>7. IsJoin(y, x, 14, c, 2)
  BY <1>3, <1>6, JoinIs, Zenon
<1> HIDE DEF y
<1>8. y \in Cells /\ Len(y) = 16
  BY <1>7 DEF IsJoin
<1>9. IsJoin(z, y, 16, e, 2)
  BY <1>3, <1>8, JoinIs, Zenon
<1> HIDE DEF z
<1>10. z \in Cells /\ Len(z) = 18
  BY <1>9 DEF IsJoin
<1>11. IsJoin(v, z, 18, g, 2)
  BY <1>3, <1>10, JoinIs, Zenon
<1> HIDE DEF v
<1>12. v \in Cells /\ Len(v) = 20
  BY <1>11 DEF IsJoin
<1>13. IsJoin(B, v, 20, f, 6)
  BY <1>1, <1>12, JoinIs, Zenon
<1> HIDE DEF B
<1>14. /\ B \in Cells /\ Len(B) = 26
       /\ \A i \in 1..14 : B[i] = x[i]
       /\ \A j \in 1..2 : B[14 + j] = c[j] /\ B[16 + j] = e[j] /\ B[18 + j] = g[j]
       /\ \A k \in 1..6 : B[20 + k] = f[k]
  BY <1>7, <1>9, <1>11, <1>13 DEF IsJoin
<1>15. B[1] = a[1] /\ B[2] = a[2] /\ \A k \in 1..12 : B[2 + k] = b[k]
  <2>1. \A k \in 1..12 : 2 + k \in 1..14 /\ x[2 + k] = b[k]
    BY <1>5 DEF IsJoin
  <2> QED
    BY <1>5, <1>14, <2>1 DEF IsJoin
<1>16. ASSUME NEW i \in 1..3, NEW j \in 1..2
       PROVE  B[12 + 2 * i + j] = htons(InfoShorts(d)[i])[j]
  <2>1. CASE i = 1
    <3>1. 12 + 2 * i + j = 14 + j
      BY <2>1
    <3>2. B[14 + j] = c[j]
      BY <1>14
    <3> QED
      BY <1>s, <2>1, <3>1, <3>2, Zenon DEF c
  <2>2. CASE i = 2
    <3>1. 12 + 2 * i + j = 16 + j
      BY <2>2
    <3>2. B[16 + j] = e[j]
      BY <1>14
    <3> QED
      BY <1>s, <2>2, <3>1, <3>2, Zenon DEF e
  <2>3. CASE i = 3
    <3>1. 12 + 2 * i + j = 18 + j
      BY <2>3
    <3>2. B[18 + j] = g[j]
      BY <1>14
    <3> QED
      BY <1>s, <2>3, <3>1, <3>2, Zenon DEF g
  <2> QED
    BY <2>1, <2>2, <2>3
<1>17. \A k \in 1..6 : B[20 + k] = InfoOctets(d)[k]
  BY <1>14 DEF f
<1> QED
  BY <1>1, <1>4, <1>14, <1>15, <1>16, <1>17 DEF InfoLayout, b

\* A UsbipDeviceInfo is read as it was written.
LEMMA DeviceInfoRoundTrip ==
    ASSUME NEW d \in UsbipDeviceInfo, NEW P, NEW o \in Nat,
           \A k \in 1..26 : P[o + k] = DeviceInfoBytes(d)[k]
    PROVE  DeviceInfo(P, o) = d
<1> DEFINE B == DeviceInfoBytes(d)
           w == InfoWords(d)
<1>1. InfoLayout(B, d)
  BY DeviceInfoAt
<1> HIDE DEF B
<1>2. \A k \in 1..26 : P[o + k] = B[k]
  BY DEF B
<1>3. P[o + 1] = d.path /\ P[o + 2] = d.busid
  BY <1>1, <1>2 DEF InfoLayout
<1>4. \A i \in 1..3 : ntohl(P, (o + 2) + 4 * (i - 1)) = w[i]
  <2>1. \A k \in 1..12 : 2 + k \in 1..26 /\ o + (2 + k) = (o + 2) + k
    BY SMT
  <2>2. ASSUME NEW k \in 1..12 PROVE P[(o + 2) + k] = Words(w)[k]
    <3>1. P[o + (2 + k)] = B[2 + k]
      BY <1>2, <2>1, Zenon
    <3>2. B[2 + k] = Words(w)[k]
      BY <1>1, Zenon DEF InfoLayout
    <3> QED
      BY <2>1, <3>1, <3>2, Zenon
  <2>3. o + 2 \in Nat
    OBVIOUS
  <2>4. w \in Seq(UInt32) /\ Len(w) = 3
    BY InfoWordsType
  <2> HIDE DEF w
  <2>5. \A k \in 1 .. 4 * Len(w) : P[(o + 2) + k] = Words(w)[k]
    <3>1. 4 * Len(w) = 12
      BY <2>4, SMT
    <3> QED
      BY <2>2, <3>1, Zenon
  <2>6. Holds(P, o + 2, w)
    BY <2>5, Zenon DEF Holds
  <2>7. Reads(P, o + 2, w)
    BY <2>3, <2>4, <2>6, ReadWords, Zenon
  <2> QED
    BY <2>4, <2>7, Zenon DEF Reads
<1>5. /\ ntohl(P, o + 2) = d.busnum /\ ntohl(P, o + 6) = d.devnum
      /\ ntohl(P, o + 10) = d.speed
  <2>1. /\ (o + 2) + 4 * (1 - 1) = o + 2 /\ (o + 2) + 4 * (2 - 1) = o + 6
        /\ (o + 2) + 4 * (3 - 1) = o + 10
    BY SMT
  <2>2. 1 \in 1..3 /\ 2 \in 1..3 /\ 3 \in 1..3
    OBVIOUS
  <2> QED
    BY <1>4, <2>1, <2>2, InfoWordsType, Zenon
<1>6. ASSUME NEW i \in 1..3, InfoShorts(d)[i] \in UInt16
      PROVE  ntohs(P, o + (12 + 2 * i)) = InfoShorts(d)[i]
  <2> DEFINE q == o + (12 + 2 * i)
             h == InfoShorts(d)[i]
  <2>1. \A j \in 1..2 : 12 + 2 * i + j \in 1..26 /\ o + (12 + 2 * i + j) = q + j
    OBVIOUS
  <2>2. q \in Nat /\ 1 \in 1..2 /\ 2 \in 1..2
    OBVIOUS
  <2> HIDE DEF q
  <2>3. ASSUME NEW j \in 1..2 PROVE P[q + j] = htons(h)[j]
    <3>1. B[12 + 2 * i + j] = htons(h)[j]
      BY <1>1, Zenon DEF InfoLayout
    <3>2. P[o + (12 + 2 * i + j)] = B[12 + 2 * i + j]
      BY <1>2, <2>1, Zenon
    <3> QED
      BY <2>1, <3>1, <3>2, Zenon
  <2>4. h \in UInt16
    BY <1>6
  <2> HIDE DEF h
  <2>5. P[q + 1] = htons(h)[1] /\ P[q + 2] = htons(h)[2]
    BY <2>2, <2>3, Zenon
  <2>6. ntohs(P, q) = h
    BY <2>2, <2>4, <2>5, NtohsHtons, SMT
  <2> QED
    BY <2>6 DEF q, h
<1>7. /\ ntohs(P, o + 14) = d.idVendor /\ ntohs(P, o + 16) = d.idProduct
      /\ ntohs(P, o + 18) = d.bcdDevice
  <2>1. /\ o + (12 + 2 * 1) = o + 14 /\ o + (12 + 2 * 2) = o + 16
        /\ o + (12 + 2 * 3) = o + 18
    BY SMT
  <2>2. 1 \in 1..3 /\ 2 \in 1..3 /\ 3 \in 1..3
    OBVIOUS
  <2> QED
    BY <1>6, <2>1, <2>2, InfoShortsType, Zenon
<1>8. /\ P[o + 21] = d.bDeviceClass /\ P[o + 22] = d.bDeviceSubClass
      /\ P[o + 23] = d.bDeviceProtocol /\ P[o + 24] = d.bConfigurationValue
      /\ P[o + 25] = d.bNumConfigurations /\ P[o + 26] = d.bNumInterfaces
  <2>1. \A k \in 1..6 : P[o + (20 + k)] = InfoOctets(d)[k]
    BY <1>1, <1>2 DEF InfoLayout
  <2> QED
    BY <2>1 DEF InfoOctets
<1> QED
  BY <1>3, <1>5, <1>7, <1>8 DEF DeviceInfo, UsbipDeviceInfo

InfoArray(list) == Array([i \in DOMAIN list |-> DeviceInfoBytes(list[i])], DeviceInfoSize)

\* Where the i-th device lies in the array of a list.
LEMMA InfoArrayAt ==
    ASSUME NEW list \in Seq(UsbipDeviceInfo)
    PROVE  /\ InfoArray(list) \in Cells /\ Len(InfoArray(list)) = 26 * Len(list)
           /\ \A i \in 1 .. Len(list) : \A k \in 1..26 :
                 InfoArray(list)[26 * (i - 1) + k] = DeviceInfoBytes(list[i])[k]
<1> DEFINE n == Len(list)
           S == [i \in DOMAIN list |-> DeviceInfoBytes(list[i])]
           c(k) == S[1 + (k - 1) \div 26][1 + ((k - 1) % 26)]
           A == InfoArray(list)
<1>1. n \in Nat /\ DOMAIN list = 1 .. n
  OBVIOUS
<1>2. DOMAIN S = 1 .. n /\ Len(S) = n /\ \A i \in 1 .. n : S[i] = DeviceInfoBytes(list[i])
  BY <1>1
<1>3. \A i \in 1 .. n : list[i] \in UsbipDeviceInfo
  BY ElementOfSeq, Zenon
<1>4. A = [k \in 1 .. 26 * n |-> c(k)]
  BY <1>2 DEF InfoArray, Array, DeviceInfoSize
<1> HIDE DEF S, n
<1>5. ASSUME NEW k \in 1 .. 26 * n PROVE c(k) \in Byte \cup STRING
  <2> DEFINE i == 1 + (k - 1) \div 26
             j == 1 + ((k - 1) % 26)
  <2>1. i \in 1 .. n /\ j \in 1..26
    BY <1>1, SMT
  <2> HIDE DEF i, j
  <2>2. S[i] = DeviceInfoBytes(list[i]) /\ InfoLayout(S[i], list[i])
    BY <1>2, <1>3, <2>1, DeviceInfoAt
  <2>3. S[i] \in Seq(Byte \cup STRING) /\ j \in 1 .. Len(S[i])
    BY <2>1, <2>2, Zenon DEF InfoLayout, Cells
  <2>4. S[i][j] \in Byte \cup STRING
    BY <2>3, ElementOfSeq, Zenon
  <2> QED
    BY <2>4 DEF i, j
<1>6. 26 * n \in Nat
  BY <1>1
<1>7. ASSUME NEW i \in 1 .. n, NEW j \in 1..26
      PROVE  A[26 * (i - 1) + j] = DeviceInfoBytes(list[i])[j]
  <2> DEFINE k == 26 * (i - 1) + j
  <2>1. k \in 1 .. 26 * n /\ 1 + (k - 1) \div 26 = i /\ 1 + ((k - 1) % 26) = j
    BY <1>1, SMT
  <2> HIDE DEF k, A
  <2>2. A[k] = c(k)
    BY <1>4, <2>1
  <2> QED
    BY <1>2, <2>1, <2>2 DEF k
<1> HIDE DEF c, A
<1>8. A \in Cells /\ Len(A) = 26 * n
  <2>1. \A k \in 1 .. 26 * n : c(k) \in Byte \cup STRING
    BY <1>5
  <2> QED
    BY <1>4, <1>6, <2>1 DEF Cells
<1> QED
  BY <1>7, <1>8 DEF n, A

\* A device list is read as it was written.
LEMMA ListRoundTrip ==
    ASSUME NEW list \in DeviceLists
    PROVE  ParseDeviceList(SerializeDeviceList(list)) = list
<1> DEFINE P == SerializeDeviceList(list)
           n == Len(list)
           w == <<5, 0, n>>
           h == Words(w)
           A == InfoArray(list)
<1>1. list \in Seq(UsbipDeviceInfo) /\ n \in UInt32
  BY DeviceListsAssumption
<1>2. P = Cat(h, A)
  BY DEF SerializeDeviceList, Cat, InfoArray
<1>3. n \in Nat
  BY <1>1
<1> HIDE DEF n, A
<1>4. w \in Seq(UInt32) /\ Len(w) = 3 /\ w[3] = n
  BY <1>1, SmallWords
<1> HIDE DEF w
<1>5. h \in Cells /\ Len(h) = 12
  <2>1. h \in Bytes /\ Len(h) = 4 * 3
    BY <1>4, WordsAt, Zenon
  <2> HIDE DEF h
  <2> QED
    BY <2>1, BytesAreCells
<1>6. /\ A \in Cells /\ Len(A) = 26 * n
      /\ \A i \in 1 .. n : \A k \in 1..26 :
            A[26 * (i - 1) + k] = DeviceInfoBytes(list[i])[k]
  BY <1>1, InfoArrayAt, Zenon DEF A, n
<1>7. IsJoin(P, h, 12, A, 26 * n)
  BY <1>2, <1>5, <1>6, JoinIs, Zenon
<1> HIDE DEF P
<1>8. ntohl(P, 8) = n
  <2>1. \A k \in 1..12 : 0 + k = k
    BY SMT
  <2>2. 4 * Len(w) = 12 /\ 0 \in Nat /\ 0 + 4 * (3 - 1) = 8 /\ 3 \in 1 .. 3
    BY <1>4
  <2>3. \A k \in 1..12 : P[0 + k] = Words(w)[k]
    BY <1>7, <2>1, Zenon DEF IsJoin
  <2>4. \A k \in 1 .. 4 * Len(w) : P[0 + k] = Words(w)[k]
    BY <2>2, <2>3, Zenon
  <2>5. Holds(P, 0, w)
    BY <2>4, Zenon DEF Holds
  <2>6. Reads(P, 0, w)
    BY <1>4, <2>2, <2>5, ReadWords, Zenon
  <2> QED
    BY <1>4, <2>2, <2>6, Zenon DEF Reads
<1>9. ASSUME NEW i \in 1 .. n PROVE DeviceInfo(P, 12 + (i - 1) * 26) = list[i]
  <2> DEFINE o == 12 + (i - 1) * 26
  <2>1. i \in Int /\ 1 <= i /\ i <= n
    BY <1>3
  <2>2. /\ o \in Nat
        /\ \A k \in 1..26 : /\ 26 * (i - 1) + k \in 1 .. 26 * n
                            /\ 12 + (26 * (i - 1) + k) = o + k
    BY <1>3, <2>1, SMT
  <2> HIDE DEF o
  <2>3. ASSUME NEW k \in 1..26 PROVE P[o + k] = DeviceInfoBytes(list[i])[k]
    <3>1. P[12 + (26 * (i - 1) + k)] = A[26 * (i - 1) + k]
      BY <1>7, <2>2, Zenon DEF IsJoin
    <3>2. A[26 * (i - 1) + k] = DeviceInfoBytes(list[i])[k]
      BY <1>6, Zenon
    <3> QED
      BY <2>2, <3>1, <3>2, Zenon
  <2>4. list[i] \in UsbipDeviceInfo
    BY <1>1, ElementOfSeq, Zenon DEF n
  <2>5. DeviceInfo(P, o) = list[i]
    BY <2>2, <2>3, <2>4, DeviceInfoRoundTrip, Zenon
  <2> QED
    BY <2>5 DEF o
<1>a. ParseDeviceList(P) = [i \in 1 .. n |-> DeviceInfo(P, 12 + (i - 1) * 26)]
  <2>1. Len(P) = 12 + 26 * n
    BY <1>7, Zenon DEF IsJoin
  <2>2. /\ ~(Len(P) < 12) /\ (Len(P) - 12) \div 26 = n
    BY <1>3, <2>1, SMT
  <2>3. ~(n < n)
    BY <1>3
  <2> QED
    BY <1>8, <2>2, <2>3, Zenon DEF ParseDeviceList, DeviceInfoSize
<1>b. list = [i \in 1 .. n |-> list[i]]
  BY <1>1 DEF n
<1>c. [i \in 1 .. n |-> DeviceInfo(P, 12 + (i - 1) * 26)] = [i \in 1 .. n |-> list[i]]
  BY <1>9, Zenon
<1> QED
  BY <1>a, <1>b, <1>c DEF P

-----------------------------------------------------------------------------
(* Subsequences *)

\* One value of the recursion of Pick.
Picked(F, s, I, i) ==
    IF i = 0 THEN <<>> ELSE IF i \in I THEN Append(F[i - 1], s[i]) ELSE F[i - 1]

\* F[i] is what Pick takes from the first i elements of s.
IsPick(F, s, I) == F = [i \in 0 .. Len(s) |-> Picked(F, s, I, i)]

\* There is such a function.
LEMMA PickExists ==
    ASSUME NEW s, Len(s) \in Nat, NEW I
    PROVE  \E F : IsPick(F, s, I)
<1> DEFINE Step(F, n) == Picked(F, s, I, n)
           T == {k \in Nat : \E F : F = [n \in 0 .. k |-> Step(F, n)]}
<1>1. 0 \in T
  <2> DEFINE Z == [n \in 0 .. 0 |-> <<>>]
  <2>1. Z = [n \in 0 .. 0 |-> Step(Z, n)]
    BY DEF Picked
  <2> HIDE DEF Z, Step
  <2>2. \E F : F = [n \in 0 .. 0 |-> Step(F, n)]
    BY <2>1, Zenon
  <2> QED
    BY <2>2
<1>2. ASSUME NEW k \in Nat, k \in T PROVE k + 1 \in T
  <2> HIDE DEF Step
  <2>1. PICK F : F = [n \in 0 .. k |-> Step(F, n)]
    BY <1>2
  <2> DEFINE G == [n \in 0 .. k + 1 |-> IF n <= k THEN F[n] ELSE Step(F, n)]
  <2>2. ASSUME NEW n \in 0 .. k PROVE F[n] = Step(F, n)
    BY <2>1, Zenon
  <2>3. ASSUME NEW n \in 0 .. k + 1 PROVE Step(G, n) = Step(F, n)
    <3>1. n # 0 => n - 1 \in 0 .. k /\ G[n - 1] = F[n - 1]
      OBVIOUS
    <3> HIDE DEF G
    <3> QED
      BY <3>1, Zenon DEF Step, Picked
  <2>4. ASSUME NEW n \in 0 .. k + 1 PROVE G[n] = Step(G, n)
    BY <2>2, <2>3
  <2>5. DOMAIN G = 0 .. k + 1 /\ G = [n \in DOMAIN G |-> G[n]]
    OBVIOUS
  <2> HIDE DEF G
  <2>6. G = [n \in 0 .. k + 1 |-> Step(G, n)]
    BY <2>4, <2>5
  <2>7. \E K : K = [n \in 0 .. k + 1 |-> Step(K, n)]
    BY <2>6, Zenon
  <2>8. k + 1 \in Nat
    OBVIOUS
  <2> QED
    BY <2>7, <2>8, Zenon
<1>3. Len(s) \in T
  <2> HIDE DEF T
  <2> QED
    BY <1>1, <1>2, SetInduction
<1> QED
  BY <1>3 DEF IsPick

\* F takes its steps up to n.
PicksTo(F, s, I, n) ==
    /\ F[0] = <<>>
    /\ \A i \in 1 .. n : F[i] = IF i \in I THEN Append(F[i - 1], s[i]) ELSE F[i - 1]

LEMMA PickFunction ==
    ASSUME NEW s, Len(s) \in Nat, NEW I
    PROVE  \E F : Pick(s, I) = F[Len(s)] /\ PicksTo(F, s, I, Len(s))
<1> DEFINE C == CHOOSE F : IsPick(F, s, I)
           N == Len(s)
<1>1. IsPick(C, s, I)
  BY PickExists
<1>2. Pick(s, I) = C[N]
  BY DEF Pick, IsPick, Picked
<1> HIDE DEF C
<1>3. \A n \in 0 .. N : C[n] = Picked(C, s, I, n)
  BY <1>1, Zenon DEF IsPick
<1>4. 0 \in 0 .. N /\ \A n \in 1 .. N : n \in 0 .. N /\ n # 0
  OBVIOUS
<1>5. PicksTo(C, s, I, N)
  BY <1>3, <1>4, Zenon DEF PicksTo, Picked
<1> QED
  BY <1>2, <1>5

\* The steps determine the function.
LEMMA PicksSame ==
    ASSUME NEW n \in Nat, NEW s, NEW t, NEW I, NEW J, NEW F, NEW G,
           PicksTo(F, s, I, n), PicksTo(G, t, J, n),
           \A i \in 1 .. n : s[i] = t[i] /\ (i \in I <=> i \in J)
    PROVE  F[n] = G[n]
<1> DEFINE T == {m \in Nat : m <= n => F[m] = G[m]}
<1>1. 0 \in T
  BY DEF PicksTo
<1>2. ASSUME NEW m \in Nat, m \in T PROVE m + 1 \in T
  <2>1. CASE ~(m + 1 <= n)
    BY <2>1
  <2>2. CASE m + 1 <= n
    <3> DEFINE k == m + 1
    <3>1. k \in 1 .. n /\ k - 1 = m /\ m <= n
      BY <2>2
    <3> HIDE DEF k
    <3>2. F[m] = G[m]
      BY <1>2, <3>1
    <3>3. F[k] = G[k]
      BY <3>1, <3>2, Zenon DEF PicksTo
    <3> QED
      BY <3>3 DEF k
  <2> QED
    BY <2>1, <2>2
<1>3. n \in T
  <2> HIDE DEF T
  <2> QED
    BY <1>1, <1>2, SetInduction
<1> QED
  BY <1>3

\* The functions take sequences, each of which extends those before it.
LEMMA PicksType ==
    ASSUME NEW D, NEW s \in Seq(D), NEW I, NEW F, PicksTo(F, s, I, Len(s))
    PROVE  \A n \in 0 .. Len(s) : F[n] \in Seq(D)
<1> DEFINE N == Len(s)
           T == {m \in Nat : m <= N => F[m] \in Seq(D)}
<1>1. N \in Nat
  OBVIOUS
<1>2. 0 \in T
  <2>1. F[0] = <<>> /\ <<>> \in Seq(D)
    BY DEF PicksTo
  <2> QED
    BY <2>1
<1>3. ASSUME NEW m \in Nat, m \in T PROVE m + 1 \in T
  <2>1. CASE ~(m + 1 <= N)
    BY <2>1
  <2>2. CASE m + 1 <= N
    <3> DEFINE k == m + 1
    <3>1. k \in 1 .. N /\ k - 1 = m /\ m <= N
      BY <1>1, <2>2
    <3>2. F[m] \in Seq(D) /\ s[k] \in D
      BY <1>3, <3>1, ElementOfSeq
    <3> HIDE DEF k
    <3>3. F[k] = Append(F[m], s[k]) \/ F[k] = F[m]
      BY <3>1, Zenon DEF PicksTo
    <3>4. F[k] \in Seq(D)
      BY <3>2, <3>3, AppendProperties
    <3> QED
      BY <3>4 DEF k
  <2> QED
    BY <2>1, <2>2
<1> HIDE DEF T
<1>4. Nat \subseteq T
  BY <1>2, <1>3, SetInduction
<1>5. \A n \in 0 .. N : n \in Nat /\ n <= N
  BY <1>1
<1> QED
  BY <1>4, <1>5 DEF T

LEMMA PicksExtend ==
    ASSUME NEW D, NEW s \in Seq(D), NEW I, NEW F, PicksTo(F, s, I, Len(s)),
           NEW n \in 0 .. Len(s)
    PROVE  Extends(F[Len(s)], F[n])
<1> DEFINE N == Len(s)
           T == {m \in Nat : n + m <= N => Extends(F[n + m], F[n])}
<1>1. N \in Nat /\ n \in Nat /\ n <= N
  OBVIOUS
<1>2. \A m \in 0 .. N : F[m] \in Seq(D)
  BY PicksType
<1> HIDE DEF N
<1>3. 0 \in T
  <2>1. n + 0 = n
    BY <1>1
  <2>2. Extends(F[n], F[n])
    BY <1>1, <1>2 DEF Extends
  <2> QED
    BY <2>1, <2>2
<1>4. ASSUME NEW m \in Nat, m \in T PROVE m + 1 \in T
  <2>1. CASE ~(n + (m + 1) <= N)
    BY <2>1
  <2>2. CASE n + (m + 1) <= N
    <3> DEFINE k == n + (m + 1)
               j == n + m
    <3>1. k \in 1 .. N /\ k - 1 = j /\ j \in 0 .. N /\ j <= N
      BY <1>1, <2>2
    <3>2. Extends(F[j], F[n])
      BY <1>4, <3>1
    <3>3. F[j] \in Seq(D) /\ F[n] \in Seq(D) /\ s[k] \in D
      BY <1>1, <1>2, <3>1, ElementOfSeq DEF N
    <3> HIDE DEF k, j
    <3>4. F[k] = Append(F[j], s[k]) \/ F[k] = F[j]
      BY <3>1, Zenon DEF PicksTo, N
    <3>5. Extends(F[k], F[n])
      <4>1. CASE F[k] = F[j]
        BY <3>2, <4>1
      <4>2. CASE F[k] = Append(F[j], s[k])
        BY <3>2, <3>3, <4>2 DEF Extends
      <4> QED
        BY <3>4, <4>1, <4>2
    <3> QED
      BY <3>5 DEF k
  <2> QED
    BY <2>1, <2>2
<1>5. N - n \in T
  <2>1. N - n \in Nat
    BY <1>1
  <2> HIDE DEF T
  <2> QED
    BY <1>3, <1>4, <2>1, SetInduction
<1>6. n + (N - n) = N
  BY <1>1
<1> QED
  BY <1>1, <1>5, <1>6 DEF N

LEMMA PickType ==
    ASSUME NEW D, NEW s \in Seq(D), NEW I
    PROVE  Pick(s, I) \in Seq(D)
<1>1. Len(s) \in Nat /\ Len(s) \in 0 .. Len(s)
  OBVIOUS
<1>2. PICK F : Pick(s, I) = F[Len(s)] /\ PicksTo(F, s, I, Len(s))
  BY <1>1, PickFunction, Zenon
<1> QED
  BY <1>1, <1>2, PicksType, Zenon

LEMMA PickEmpty == \A I : Pick(<<>>, I) = <<>>
<1> TAKE I
<1>1. Len(<<>>) = 0 /\ Len(<<>>) \in Nat
  OBVIOUS
<1>2. PICK F : Pick(<<>>, I) = F[Len(<<>>)] /\ PicksTo(F, <<>>, I, Len(<<>>))
  BY <1>1, PickFunction, Zenon
<1> QED
  BY <1>1, <1>2, Zenon DEF PicksTo

\* What Pick takes from a longer sequence.
LEMMA PickAppend ==
    ASSUME NEW D, NEW s \in Seq(D), NEW u \in D, NEW I, NEW J,
           \A i \in 1 .. Len(s) : i \in I <=> i \in J
    PROVE  Pick(Append(s, u), J) =
              IF Len(s) + 1 \in J THEN Append(Pick(s, I), u) ELSE Pick(s, I)
<1> DEFINE t == Append(s, u)
           n == Len(s)
<1>1. n \in Nat /\ t \in Seq(D) /\ Len(t) = n + 1 /\ t[n + 1] = u
      /\ \A i \in 1 .. n : s[i] = t[i]
  BY AppendProperties
<1>2. n + 1 \in Nat /\ n + 1 \in 1 .. n + 1 /\ (n + 1) - 1 = n
      /\ \A i \in 1 .. n : i \in 1 .. n + 1
  BY <1>1
<1>3. PICK F : Pick(s, I) = F[n] /\ PicksTo(F, s, I, n)
  BY <1>1, PickFunction, Zenon
<1> HIDE DEF t
<1>4. PICK G : Pick(t, J) = G[n + 1] /\ PicksTo(G, t, J, n + 1)
  BY <1>1, <1>2, PickFunction, Zenon
<1>5. PicksTo(G, t, J, n)
  BY <1>2, <1>4, Zenon DEF PicksTo
<1>6. F[n] = G[n]
  <2>1. \A i \in 1 .. n : s[i] = t[i] /\ (i \in I <=> i \in J)
    BY <1>1, <1>2, Zenon
  <2> HIDE DEF n
  <2> QED
    BY <1>1, <1>3, <1>5, <2>1, PicksSame, SMT
<1>7. G[n + 1] = IF n + 1 \in J THEN Append(G[n], u) ELSE G[n]
  BY <1>1, <1>2, <1>4, Zenon DEF PicksTo
<1> QED
  BY <1>3, <1>4, <1>6, <1>7, Zenon DEF t

\* What Pick takes from the beginning of a sequence is a beginning.
LEMMA PickPrefix ==
    ASSUME NEW D, NEW s \in Seq(D), NEW n \in 0 .. Len(s), NEW I, NEW J,
           \A i \in 1 .. n : i \in I <=> i \in J
    PROVE  Extends(Pick(s, I), Pick(SubSeq(s, 1, n), J))
<1> DEFINE t == SubSeq(s, 1, n)
<1>1. n \in Nat /\ Len(s) \in Nat /\ n <= Len(s)
  OBVIOUS
<1>2. Len(t) = n /\ \A i \in 1 .. n : s[i] = t[i]
  <2>1. \A i \in 1 .. n : s[i] \in D
    BY <1>1, ElementOfSeq
  <2> QED
    BY <1>1, <2>1, SubSeqProperties
<1>3. PICK F : Pick(s, I) = F[Len(s)] /\ PicksTo(F, s, I, Len(s))
  BY <1>1, PickFunction, Zenon
<1> HIDE DEF t
<1>4. PICK G : Pick(t, J) = G[n] /\ PicksTo(G, t, J, n)
  BY <1>1, <1>2, PickFunction, Zenon
<1>5. PicksTo(F, s, I, n)
  <2>1. \A i \in 1 .. n : i \in 1 .. Len(s)
    BY <1>1
  <2> QED
    BY <1>3, <2>1, Zenon DEF PicksTo
<1>6. F[n] = G[n]
  <2>1. \A i \in 1 .. n : s[i] = t[i] /\ (i \in I <=> i \in J)
    BY <1>1, <1>2, Zenon
  <2> QED
    BY <1>1, <1>2, <1>4, <1>5, <2>1, PicksSame, SMT
<1>7. Extends(F[Len(s)], F[n])
  BY <1>3, PicksExtend, Zenon
<1> QED
  BY <1>3, <1>4, <1>6, <1>7 DEF t

-----------------------------------------------------------------------------
(* The host-to-device URBs *)

LEMMA OutType ==
    ASSUME NEW D, NEW s \in Seq(D)
    PROVE  /\ Out(s) \in Seq(D) /\ Len(Out(s)) \in Nat
           /\ Len(OutUrbs(s)) = Len(Out(s))
           /\ \A i \in 1 .. Len(Out(s)) : OutUrbs(s)[i] = Visible(Out(s)[i])
<1> DEFINE o == Out(s)
<1>1. o \in Seq(D)
  BY PickType DEF Out
<1> HIDE DEF o
<1>2. OutUrbs(s) = [i \in DOMAIN o |-> Visible(o[i])]
  BY DEF OutUrbs, o
<1>3. Len(o) \in Nat /\ DOMAIN o = 1 .. Len(o)
  BY <1>1
<1>4. Len(OutUrbs(s)) = Len(o) /\ \A i \in 1 .. Len(o) : OutUrbs(s)[i] = Visible(o[i])
  BY <1>2, <1>3
<1> QED
  BY <1>1, <1>3, <1>4 DEF o

LEMMA OutAppend ==
    ASSUME NEW D, NEW s \in Seq(D), NEW u \in D
    PROVE  Out(Append(s, u)) = IF IsOut(u) THEN Append(Out(s), u) ELSE Out(s)
<1> DEFINE t == Append(s, u)
           I == {i \in DOMAIN s : IsOut(s[i])}
           J == {i \in DOMAIN t : IsOut(t[i])}
<1>1. /\ Len(s) \in Nat /\ Len(t) = Len(s) + 1 /\ t[Len(s) + 1] = u
      /\ DOMAIN s = 1 .. Len(s) /\ DOMAIN t = 1 .. Len(s) + 1
      /\ \A i \in 1 .. Len(s) : t[i] = s[i]
  OBVIOUS
<1> HIDE DEF t
<1>2. \A i \in 1 .. Len(s) : i \in I <=> i \in J
  BY <1>1
<1>3. Len(s) + 1 \in J <=> IsOut(u)
  BY <1>1
<1> HIDE DEF I, J
<1>4. Pick(Append(s, u), J) =
         IF Len(s) + 1 \in J THEN Append(Pick(s, I), u) ELSE Pick(s, I)
  BY <1>2, PickAppend, SMT
<1>5. Out(t) = Pick(t, J) /\ Out(s) = Pick(s, I)
  BY DEF Out, I, J
<1> QED
  BY <1>3, <1>4, <1>5, Zenon DEF t

LEMMA OutPrefix ==
    ASSUME NEW D, NEW s \in Seq(D), NEW n \in 0 .. Len(s)
    PROVE  Extends(Out(s), Out(SubSeq(s, 1, n)))
<1> DEFINE t == SubSeq(s, 1, n)
           I == {i \in DOMAIN s : IsOut(s[i])}
           J == {i \in DOMAIN t : IsOut(t[i])}
<1>1. n \in Nat /\ n <= Len(s) /\ DOMAIN s = 1 .. Len(s) /\ Len(s) \in Nat
  OBVIOUS
<1>2. DOMAIN t = 1 .. n /\ \A i \in 1 .. n : t[i] = s[i]
  BY <1>1
<1> HIDE DEF t
<1>3. \A i \in 1 .. n : i \in I <=> i \in J
  BY <1>1, <1>2
<1> HIDE DEF I, J
<1>4. Extends(Pick(s, I), Pick(t, J))
  BY <1>3, PickPrefix, Zenon DEF t
<1> QED
  BY <1>4 DEF Out, I, J, t

\* A longer sequence, seen through Visible.
LEMMA OutUrbsAppend ==
    ASSUME NEW D, NEW s \in Seq(D), NEW u \in D
    PROVE  OutUrbs(Append(s, u)) =
              IF IsOut(u) THEN Append(OutUrbs(s), Visible(u)) ELSE OutUrbs(s)
<1> DEFINE o == Out(s)
<1>1. Out(Append(s, u)) = IF IsOut(u) THEN Append(o, u) ELSE o
  BY OutAppend
<1>2. o \in Seq(D)
  BY OutType
<1> HIDE DEF o
<1>3. CASE ~IsOut(u)
  BY <1>1, <1>3 DEF OutUrbs, o
<1>4. CASE IsOut(u)
  <2> DEFINE p == Append(o, u)
             n == Len(o)
  <2>1. /\ n \in Nat /\ DOMAIN o = 1 .. n /\ DOMAIN p = 1 .. n + 1
        /\ p[n + 1] = u /\ \A i \in 1 .. n : p[i] = o[i]
    BY <1>2
  <2>2. OutUrbs(Append(s, u)) = [i \in 1 .. n + 1 |-> Visible(p[i])]
    BY <1>1, <1>4, <2>1 DEF OutUrbs
  <2>3. OutUrbs(s) = [i \in 1 .. n |-> Visible(o[i])]
    BY <2>1 DEF OutUrbs, o
  <2> HIDE DEF p, n
  <2> DEFINE v == [i \in 1 .. n |-> Visible(o[i])]
             x == [i \in 1 .. n + 1 |-> Visible(p[i])]
             V == {Visible(o[i]) : i \in 1 .. n} \cup {Visible(u)}
  <2>4. v \in Seq(V) /\ Len(v) = n
    BY <2>1
  <2>5. x \in Seq(V) /\ Len(x) = n + 1
    <3>1. ASSUME NEW i \in 1 .. n + 1 PROVE Visible(p[i]) \in V
      <4>1. i \in 1 .. n \/ i = n + 1
        BY <2>1
      <4> QED
        BY <2>1, <4>1
    <3> HIDE DEF V
    <3> QED
      BY <2>1, <3>1
  <2>6. Append(v, Visible(u)) \in Seq(V) /\ Len(Append(v, Visible(u))) = n + 1
    <3>1. Visible(u) \in V
      OBVIOUS
    <3> HIDE DEF v, V
    <3> QED
      BY <2>4, <3>1, AppendProperties
  <2>7. ASSUME NEW i \in 1 .. n + 1 PROVE x[i] = Append(v, Visible(u))[i]
    <3>1. CASE i \in 1 .. n
      <4>1. x[i] = Visible(o[i]) /\ v[i] = Visible(o[i])
        BY <2>1, <3>1
      <4> HIDE DEF v, V, x
      <4> QED
        BY <2>4, <3>1, <4>1, AppendProperties
    <3>2. CASE i = n + 1
      <4>1. x[i] = Visible(u)
        BY <2>1, <3>2
      <4> HIDE DEF v, V, x
      <4> QED
        BY <2>4, <3>2, <4>1, AppendProperties
    <3> QED
      BY <2>1, <3>1, <3>2
  <2> HIDE DEF v, x, V
  <2>8. x = Append(v, Visible(u))
    BY <2>5, <2>6, <2>7, SeqEqual
  <2> QED
    BY <1>4, <2>2, <2>3, <2>8 DEF v, x
<1> QED
  BY <1>3, <1>4

-----------------------------------------------------------------------------
(* The URBs handled so far *)

\* The receiver r has got the host-to-device URBs among the first n of s.
GotFrom(r, s, n) == n \in 0 .. Len(s) /\ OutUrbs(r) = OutUrbs(SubSeq(s, 1, n))

\* Those that it got after its first a URBs.
AskedOf(s, r, a) ==
    SubSeq(Out(s), Len(OutUrbs(SubSeq(r, 1, a))) + 1, Len(OutUrbs(r)))

LEMMA SubSeqNext ==
    ASSUME NEW D, NEW s \in Seq(D), NEW n \in Nat, n < Len(s)
    PROVE  /\ SubSeq(s, 1, n) \in Seq(D) /\ s[n + 1] \in D
           /\ SubSeq(s, 1, n + 1) = Append(SubSeq(s, 1, n), s[n + 1])
<1> DEFINE t == SubSeq(s, 1, n)
           x == SubSeq(s, 1, n + 1)
           y == Append(t, s[n + 1])
<1>1. Len(s) \in Nat /\ n + 1 \in 1 .. Len(s)
  OBVIOUS
<1>2. s[n + 1] \in D /\ \A i \in 1 .. n + 1 : s[i] \in D
  BY <1>1, ElementOfSeq
<1>3. t \in Seq(D) /\ Len(t) = n /\ \A i \in 1 .. n : t[i] = s[i]
  BY <1>2, SubSeqProperties
<1>4. x \in Seq(D) /\ Len(x) = n + 1 /\ \A i \in 1 .. n + 1 : x[i] = s[i]
  BY <1>2, SubSeqProperties
<1> HIDE DEF t, x
<1>5. y \in Seq(D) /\ Len(y) = n + 1 /\ \A i \in 1 .. n + 1 : y[i] = s[i]
  BY <1>2, <1>3, AppendProperties
<1> HIDE DEF y
<1>6. x = y
  BY <1>4, <1>5, SeqEqual
<1> QED
  BY <1>2, <1>3, <1>6 DEF t, x, y

\* A beginning of a longer sequence.
LEMMA SubSeqAppend ==
    ASSUME NEW D, NEW s \in Seq(D), NEW u \in D, NEW n \in 0 .. Len(s)
    PROVE  SubSeq(Append(s, u), 1, n) = SubSeq(s, 1, n)
<1> DEFINE t == Append(s, u)
           x == SubSeq(s, 1, n)
           y == SubSeq(t, 1, n)
<1>1. n \in Nat /\ \A i \in 1 .. n : i \in 1 .. Len(s) /\ s[i] \in D /\ t[i] = s[i]
  BY ElementOfSeq
<1> HIDE DEF t
<1>2. x \in Seq(D) /\ Len(x) = n /\ \A i \in 1 .. n : x[i] = s[i]
  BY <1>1, SubSeqProperties
<1>3. y \in Seq(D) /\ Len(y) = n /\ \A i \in 1 .. n : y[i] = s[i]
  BY <1>1, SubSeqProperties
<1> HIDE DEF x, y
<1>4. x = y
  BY <1>2, <1>3, SeqEqual
<1> QED
  BY <1>4 DEF x, y, t

\* A part of a sequence is a part of those that extend it.
LEMMA SubSeqExtends ==
    ASSUME NEW D, NEW s \in Seq(D), NEW t \in Seq(D), Extends(t, s),
           NEW a \in Nat \ {0}, NEW k \in 0 .. Len(s)
    PROVE  SubSeq(t, a, k) = SubSeq(s, a, k)
<1> DEFINE x == SubSeq(s, a, k)
           y == SubSeq(t, a, k)
<1>1. \A i \in a .. k : s[i] \in D /\ t[i] = s[i]
  <2>1. \A i \in a .. k : i \in 1 .. Len(s)
    OBVIOUS
  <2> QED
    BY <2>1, ElementOfSeq DEF Extends
<1>2. \A i \in 1 .. k - a + 1 : a + i - 1 \in a .. k
  OBVIOUS
<1>3. /\ x \in Seq(D) /\ Len(x) = (IF a <= k THEN k - a + 1 ELSE 0)
      /\ \A i \in 1 .. k - a + 1 : x[i] = s[a + i - 1]
  BY <1>1, SubSeqProperties
<1>4. /\ y \in Seq(D) /\ Len(y) = (IF a <= k THEN k - a + 1 ELSE 0)
      /\ \A i \in 1 .. k - a + 1 : y[i] = t[a + i - 1]
  BY <1>1, SubSeqProperties
<1> HIDE DEF x, y
<1>5. \A i \in 1 .. Len(x) : i \in 1 .. k - a + 1
  BY <1>3
<1>6. \A i \in 1 .. Len(x) : x[i] = y[i]
  BY <1>1, <1>2, <1>3, <1>4, <1>5, Zenon
<1>7. x = y
  BY <1>3, <1>4, <1>6, SeqEqual
<1> QED
  BY <1>7 DEF x, y

\* A part with one more element.
LEMMA SubSeqMore ==
    ASSUME NEW D, NEW s \in Seq(D), NEW a \in Nat, NEW k \in Nat, 1 <= a,
           a <= k + 1, k < Len(s)
    PROVE  SubSeq(s, a, k + 1) = Append(SubSeq(s, a, k), s[k + 1])
<1> DEFINE t == SubSeq(s, a, k)
           x == SubSeq(s, a, k + 1)
           y == Append(t, s[k + 1])
           n == k - a + 1
<1>1. n \in Nat /\ k + 1 - a + 1 = n + 1 /\ (a + (n + 1)) - 1 = k + 1
  OBVIOUS
<1>2. \A i \in a .. k + 1 : s[i] \in D
  BY ElementOfSeq
<1>3. \A i \in a .. k : s[i] \in D
  BY <1>2
<1>4. /\ t \in Seq(D) /\ Len(t) = n /\ \A i \in 1 .. n : t[i] = s[a + i - 1]
  BY <1>3, SubSeqProperties
<1>5. /\ x \in Seq(D) /\ Len(x) = n + 1 /\ \A i \in 1 .. n + 1 : x[i] = s[a + i - 1]
  BY <1>1, <1>2, SubSeqProperties
<1>6. s[k + 1] \in D
  BY <1>2
<1> HIDE DEF t, x, n
<1>7. y \in Seq(D) /\ Len(y) = n + 1 /\ y[n + 1] = s[k + 1] /\ \A i \in 1 .. n : y[i] = t[i]
  BY <1>1, <1>4, <1>6, AppendProperties
<1> HIDE DEF y
<1>8. ASSUME NEW i \in 1 .. n + 1 PROVE x[i] = y[i]
  <2>1. CASE i \in 1 .. n
    BY <1>4, <1>5, <1>7, <2>1
  <2>2. CASE i = n + 1
    <3>1. x[i] = s[a + i - 1] /\ a + i - 1 = k + 1
      BY <1>1, <1>5, <2>2
    <3> QED
      BY <1>7, <2>2, <3>1, Zenon
  <2> QED
    BY <1>1, <2>1, <2>2
<1>9. x = y
  BY <1>5, <1>7, <1>8, SeqEqual
<1> QED
  BY <1>9 DEF x, y, t

\* What the receiver has got is a beginning of what was sent, and what it got with
\* its first a URBs is a beginning of that.
LEMMA GotLengths ==
    ASSUME NEW s \in Seq(Urbs), NEW r \in Seq(ReceivedUrbs), NEW n, GotFrom(r, s, n),
           NEW a \in 0 .. Len(r)
    PROVE  LET b == Len(OutUrbs(SubSeq(r, 1, a)))
               k == Len(OutUrbs(r))
           IN /\ b \in Nat /\ k \in Nat /\ b <= k
              /\ k = Len(Out(SubSeq(s, 1, n))) /\ k <= Len(Out(s))
<1> DEFINE p == SubSeq(r, 1, a)
           d == SubSeq(s, 1, n)
<1>1. n \in 0 .. Len(s) /\ OutUrbs(r) = OutUrbs(d)
  BY DEF GotFrom
<1>2. p \in Seq(ReceivedUrbs)
  <2>1. \A i \in 1 .. a : r[i] \in ReceivedUrbs
    BY ElementOfSeq
  <2> QED
    BY <2>1, SubSeqProperties
<1>3. d \in Seq(Urbs)
  <2>1. n \in Int /\ \A i \in 1 .. n : s[i] \in Urbs
    BY <1>1, ElementOfSeq
  <2> QED
    BY <2>1, SubSeqProperties
<1>4. Extends(Out(r), Out(p)) /\ Extends(Out(s), Out(d))
  BY <1>1, OutPrefix
<1> HIDE DEF p, d
<1>5. /\ Len(Out(p)) \in Nat /\ Len(OutUrbs(p)) = Len(Out(p))
      /\ Len(Out(d)) \in Nat /\ Len(OutUrbs(d)) = Len(Out(d))
      /\ Len(Out(r)) \in Nat /\ Len(OutUrbs(r)) = Len(Out(r))
      /\ Len(Out(s)) \in Nat
  <2>1. Len(Out(p)) \in Nat /\ Len(OutUrbs(p)) = Len(Out(p))
    BY <1>2, OutType, Zenon
  <2>2. Len(Out(d)) \in Nat /\ Len(OutUrbs(d)) = Len(Out(d))
    BY <1>3, OutType, Zenon
  <2>3. Len(Out(r)) \in Nat /\ Len(OutUrbs(r)) = Len(Out(r))
    BY OutType, Zenon
  <2>4. Len(Out(s)) \in Nat
    BY OutType, Zenon
  <2> QED
    BY <2>1, <2>2, <2>3, <2>4
<1>6. Len(Out(p)) <= Len(Out(r)) /\ Len(Out(d)) <= Len(Out(s))
  BY <1>4 DEF Extends
<1> QED
  BY <1>1, <1>5, <1>6 DEF p, d

\* A URB that is captured changes nothing for the receiver.
LEMMA GotCaptured ==
    ASSUME NEW s \in Seq(Urbs), NEW r \in Seq(ReceivedUrbs), NEW n, GotFrom(r, s, n),
           NEW a \in 0 .. Len(r), NEW u \in Urbs
    PROVE  /\ GotFrom(r, Append(s, u), n)
           /\ AskedOf(Append(s, u), r, a) = AskedOf(s, r, a)
<1> DEFINE t == Append(s, u)
           b == Len(OutUrbs(SubSeq(r, 1, a)))
           k == Len(OutUrbs(r))
<1>1. t \in Seq(Urbs) /\ Len(t) = Len(s) + 1 /\ Len(s) \in Nat
  BY AppendProperties
<1>2. n \in 0 .. Len(s) /\ n \in 0 .. Len(t)
  BY <1>1 DEF GotFrom
<1>3. SubSeq(t, 1, n) = SubSeq(s, 1, n)
  BY <1>2, SubSeqAppend
<1>4. b \in Nat /\ k \in Nat /\ k <= Len(Out(s))
  BY GotLengths
<1>5. Out(s) \in Seq(Urbs) /\ Out(t) \in Seq(Urbs)
  BY <1>1, OutType, Zenon
<1>6. Extends(Out(t), Out(s))
  <2>1. Out(t) = IF IsOut(u) THEN Append(Out(s), u) ELSE Out(s)
    BY OutAppend, Zenon
  <2> HIDE DEF t
  <2> QED
    BY <1>5, <2>1 DEF Extends
<1>7. SubSeq(Out(t), b + 1, k) = SubSeq(Out(s), b + 1, k)
  <2>1. b + 1 \in Nat /\ 1 <= b + 1
    BY <1>4
  <2> DEFINE x == Out(s)
             y == Out(t)
             c == b + 1
  <2>2. /\ x \in Seq(Urbs) /\ y \in Seq(Urbs) /\ Extends(y, x)
        /\ c \in Nat \ {0} /\ k \in 0 .. Len(x)
    BY <1>4, <1>5, <1>6, <2>1
  <2> HIDE DEF x, y, c, k
  <2>3. SubSeq(y, c, k) = SubSeq(x, c, k)
    BY <2>2, SubSeqExtends, Zenon
  <2> QED
    BY <2>3 DEF x, y, c
<1> QED
  BY <1>2, <1>3, <1>7 DEF GotFrom, AskedOf

\* The next URB is a host-to-device URB.
LEMMA GotOut ==
    ASSUME NEW s \in Seq(Urbs), NEW r \in Seq(ReceivedUrbs), NEW n, GotFrom(r, s, n),
           NEW a \in 0 .. Len(r), n < Len(s), IsOut(s[n + 1]),
           NEW q \in ReceivedUrbs, Visible(q) = Visible(s[n + 1])
    PROVE  /\ GotFrom(Append(r, q), s, n + 1)
           /\ AskedOf(s, Append(r, q), a) = Append(AskedOf(s, r, a), s[n + 1])
<1> DEFINE p == Append(r, q)
           d == SubSeq(s, 1, n)
           e == SubSeq(s, 1, n + 1)
           u == s[n + 1]
           b == Len(OutUrbs(SubSeq(r, 1, a)))
           k == Len(OutUrbs(r))
<1>1. n \in 0 .. Len(s) /\ n \in Nat /\ OutUrbs(r) = OutUrbs(d)
  BY DEF GotFrom
<1>2. n + 1 \in 0 .. Len(s) /\ n + 1 \in Nat
  BY <1>1
<1>3. d \in Seq(Urbs) /\ u \in Urbs /\ e = Append(d, u)
  BY <1>1, SubSeqNext
<1>4. IsOut(q)
  BY DEF Visible, IsOut
<1>5. OutUrbs(p) = Append(OutUrbs(r), Visible(q))
  BY <1>4, OutUrbsAppend
<1>6. Out(e) = Append(Out(d), u) /\ OutUrbs(e) = Append(OutUrbs(d), Visible(u))
  <2> HIDE DEF d, e, u
  <2>1. IsOut(u)
    BY DEF u
  <2> QED
    BY <1>3, <2>1, OutAppend, OutUrbsAppend
<1>7. GotFrom(p, s, n + 1)
  BY <1>1, <1>2, <1>5, <1>6 DEF GotFrom
<1>8. b \in Nat /\ k \in Nat /\ b <= k /\ k = Len(Out(d)) /\ k <= Len(Out(s))
  BY GotLengths
<1>9. SubSeq(p, 1, a) = SubSeq(r, 1, a)
  BY SubSeqAppend
<1>10. Out(s) \in Seq(Urbs) /\ Out(d) \in Seq(Urbs)
  BY <1>3, OutType, Zenon
<1>11. k < Len(Out(s)) /\ Out(s)[k + 1] = u
  <2>1. Extends(Out(s), Out(e))
    BY <1>2, OutPrefix
  <2> HIDE DEF e, u, d, k
  <2>2. Len(Out(e)) = k + 1 /\ Out(e)[k + 1] = u
    BY <1>3, <1>6, <1>8, <1>10, AppendProperties
  <2>3. k + 1 \in 1 .. k + 1 /\ Len(Out(s)) \in Nat
    BY <1>8, <1>10
  <2> QED
    BY <1>8, <2>1, <2>2, <2>3 DEF Extends
<1>12. Len(OutUrbs(p)) = k + 1
  <2>1. Len(OutUrbs(p)) = Len(Out(e))
    <3>1. GotFrom(p, s, n + 1) /\ p \in Seq(ReceivedUrbs) /\ a \in 0 .. Len(p)
      BY <1>7, AppendProperties
    <3> HIDE DEF p, k, b, d
    <3> QED
      BY <3>1, GotLengths
  <2> HIDE DEF e, u, d, k, p
  <2> QED
    BY <1>3, <1>6, <1>8, <1>10, <2>1, AppendProperties
<1>13. SubSeq(Out(s), b + 1, k + 1) = Append(SubSeq(Out(s), b + 1, k), u)
  <2>1. b + 1 \in Nat /\ 1 <= b + 1 /\ b + 1 <= k + 1
    BY <1>8
  <2> HIDE DEF b, k, u
  <2> QED
    BY <1>8, <1>10, <1>11, <2>1, SubSeqMore
<1> QED
  BY <1>7, <1>9, <1>12, <1>13 DEF AskedOf

\* The next URB is a device-to-host URB, which is received or is too short.
LEMMA GotIn ==
    ASSUME NEW s \in Seq(Urbs), NEW r \in Seq(ReceivedUrbs), NEW n, GotFrom(r, s, n),
           NEW a \in 0 .. Len(r), n < Len(s), ~IsOut(s[n + 1])
    PROVE  /\ GotFrom(r, s, n + 1)
           /\ \A q \in ReceivedUrbs : ~IsOut(q) =>
                 /\ GotFrom(Append(r, q), s, n + 1)
                 /\ AskedOf(s, Append(r, q), a) = AskedOf(s, r, a)
<1> DEFINE d == SubSeq(s, 1, n)
           e == SubSeq(s, 1, n + 1)
           u == s[n + 1]
<1>1. n \in 0 .. Len(s) /\ n \in Nat /\ OutUrbs(r) = OutUrbs(d)
  BY DEF GotFrom
<1>2. n + 1 \in 0 .. Len(s)
  BY <1>1
<1>3. d \in Seq(Urbs) /\ u \in Urbs /\ e = Append(d, u)
  BY <1>1, SubSeqNext
<1>4. OutUrbs(e) = OutUrbs(d)
  <2> HIDE DEF d, e, u
  <2>1. ~IsOut(u)
    BY DEF u
  <2> QED
    BY <1>3, <2>1, OutUrbsAppend
<1>5. GotFrom(r, s, n + 1)
  BY <1>1, <1>2, <1>4 DEF GotFrom
<1>6. ASSUME NEW q \in ReceivedUrbs, ~IsOut(q)
      PROVE  /\ GotFrom(Append(r, q), s, n + 1)
             /\ AskedOf(s, Append(r, q), a) = AskedOf(s, r, a)
  <2>1. OutUrbs(Append(r, q)) = OutUrbs(r)
    BY <1>6, OutUrbsAppend
  <2>2. SubSeq(Append(r, q), 1, a) = SubSeq(r, 1, a)
    BY SubSeqAppend
  <2> QED
    BY <1>5, <2>1, <2>2 DEF GotFrom, AskedOf
<1> QED
  BY <1>5, <1>6

\* Before the first import the receiver has answered nothing.
LEMMA GotNone ==
    ASSUME NEW s \in Seq(Urbs), NEW r \in Seq(ReceivedUrbs), NEW n, GotFrom(r, s, n)
    PROVE  AskedOf(s, r, Len(r)) = <<>>
<1>1. SubSeq(r, 1, Len(r)) = r
  BY SubSeqFull
<1> DEFINE k == Len(OutUrbs(r))
<1>2. k \in Nat
  BY OutType
<1> HIDE DEF k
<1>3. SubSeq(Out(s), k + 1, k) = <<>>
  BY <1>2, SubSeqEmpty
<1> QED
  BY <1>1, <1>3 DEF AskedOf, k

-----------------------------------------------------------------------------
(* The inductive invariant *)

ListMessage(list) == [type |-> "DEVICE_LIST_RESPONSE", payload |-> SerializeDeviceList(list)]

\* U[i] and L[i] say how many URBs and lists were sent when the first i messages of
\* w were: each message is the next URB or the next list.
IsFlow(w, s, l, U, L) ==
    /\ U[Len(w)] = Len(s) /\ L[Len(w)] = Len(l)
    /\ \A i \in 1 .. Len(w) :
          \/ /\ U[i] = U[i - 1] + 1 /\ L[i] = L[i - 1]
             /\ w[i] = CreateUsbipSubmit(s[U[i]])
          \/ /\ U[i] = U[i - 1] /\ L[i] = L[i - 1] + 1
             /\ w[i] = ListMessage(l[L[i]])

\* The wire w holds the messages of the URBs of s after the n-th and of the lists of
\* l after the m-th.
Flow(w, s, n, l, m) ==
    \E U \in [0 .. Len(w) -> 0 .. Len(s)], L \in [0 .. Len(w) -> 0 .. Len(l)] :
        U[0] = n /\ L[0] = m /\ IsFlow(w, s, l, U, L)

Devices == [info : UsbipDeviceInfo, current_configuration_ : Byte]

Responses == {Response(conf, urb) : conf \in Byte, urb \in ReceivedUrbs}

Messages == {CreateUsbipSubmit(urb) : urb \in Urbs} \cup {ListMessage(l) : l \in DeviceLists}

HistoryInv ==
    /\ sent \in Seq(Urbs) /\ received \in Seq(ReceivedUrbs)
    /\ lists \in Seq(DeviceLists) /\ devices \in Seq(DeviceLists)
    /\ wire \in Seq(Messages)
    /\ Len(sent) + Len(lists) <= MaxMessages

DeviceInv ==
    /\ virtual_devices_ \in Seq(Devices) /\ responses \in Seq(Responses)
    /\ unattended \in 0 .. Len(received)
    /\ virtual_devices_ = <<>> => unattended = Len(received)

\* n URBs have left the wire, and as many lists as were given to the callback.
WireInv ==
    /\ \E n \in 0 .. Len(sent) :
          Flow(wire, sent, n, lists, Len(devices)) /\ GotFrom(received, sent, n)
    /\ \A i \in 1 .. Len(devices) : devices[i] = lists[i]

\* The responses among p to host-to-device URBs.
AnswersOf(p) == Pick(p, {i \in DOMAIN p : p[i].direction = IN_})

\* The answer x is the one that the URB u asks for.
Suits(x, u) == x.endpoint = u.endpoint /\ (Unambiguous(u) => x.data.what = Expected(u))

\* AnswersInOrder of the responses p and the URBs o that were asked.
Answered(p, o) ==
    /\ Len(AnswersOf(p)) = Len(o)
    /\ \A i \in 1 .. Len(o) : Suits(AnswersOf(p)[i], o[i])

AnswerInv ==
    /\ Len(responses) = Len(received) - unattended
    /\ Answered(responses, AskedOf(sent, received, unattended))

IInv ==
    HistoryInv /\ DeviceInv /\ WireInv /\ ConfigurationInStep /\ AnswerInv

-----------------------------------------------------------------------------
(* The wire *)

LEMMA FlowEmpty == Flow(<<>>, <<>>, 0, <<>>, 0)
<1> DEFINE Z == [i \in 0 .. 0 |-> 0]
<1>1. Len(<<>>) = 0
  OBVIOUS
<1>2. Z \in [0 .. 0 -> 0 .. 0] /\ Z[0] = 0
  OBVIOUS
<1> HIDE DEF Z
<1>3. IsFlow(<<>>, <<>>, <<>>, Z, Z)
  BY <1>1, <1>2 DEF IsFlow
<1> QED
  BY <1>1, <1>2, <1>3 DEF Flow

\* The bounds of a flow, and what an empty wire means.
LEMMA FlowBounds ==
    ASSUME NEW w, NEW s, NEW n, NEW l, NEW m, Len(w) \in Nat, Flow(w, s, n, l, m)
    PROVE  /\ n \in 0 .. Len(s) /\ m \in 0 .. Len(l)
           /\ Len(w) = 0 => n = Len(s) /\ m = Len(l)
<1>1. PICK U \in [0 .. Len(w) -> 0 .. Len(s)], L \in [0 .. Len(w) -> 0 .. Len(l)] :
         U[0] = n /\ L[0] = m /\ IsFlow(w, s, l, U, L)
  BY Zenon DEF Flow
<1>2. 0 \in 0 .. Len(w)
  OBVIOUS
<1>3. U[0] \in 0 .. Len(s) /\ L[0] \in 0 .. Len(l)
  BY <1>2
<1> QED
  BY <1>1, <1>3 DEF IsFlow

\* A URB is sent.
LEMMA FlowUrb ==
    ASSUME NEW M, NEW w \in Seq(M), NEW s \in Seq(Urbs), NEW l \in Seq(DeviceLists),
           NEW n, NEW m, Flow(w, s, n, l, m), NEW u \in Urbs,
           CreateUsbipSubmit(u) \in M
    PROVE  Flow(Append(w, CreateUsbipSubmit(u)), Append(s, u), n, l, m)
<1> DEFINE msg == CreateUsbipSubmit(u)
           x == Append(w, msg)
           t == Append(s, u)
           k == Len(w)
           p == Len(s)
<1>1. PICK U \in [0 .. k -> 0 .. p], L \in [0 .. k -> 0 .. Len(l)] :
         U[0] = n /\ L[0] = m /\ IsFlow(w, s, l, U, L)
  BY Zenon DEF Flow
<1>2. /\ k \in Nat /\ p \in Nat /\ Len(l) \in Nat
      /\ Len(x) = k + 1 /\ x[k + 1] = msg /\ \A i \in 1 .. k : x[i] = w[i]
      /\ Len(t) = p + 1 /\ t[p + 1] = u /\ \A i \in 1 .. p : t[i] = s[i]
  BY AppendProperties
<1> HIDE DEF k, p, x, t, msg
<1> DEFINE V == [i \in 0 .. k + 1 |-> IF i <= k THEN U[i] ELSE p + 1]
           K == [i \in 0 .. k + 1 |-> IF i <= k THEN L[i] ELSE Len(l)]
<1>3. V \in [0 .. k + 1 -> 0 .. p + 1] /\ K \in [0 .. k + 1 -> 0 .. Len(l)]
  <2>1. ASSUME NEW i \in 0 .. k + 1
        PROVE  /\ (IF i <= k THEN U[i] ELSE p + 1) \in 0 .. p + 1
               /\ (IF i <= k THEN L[i] ELSE Len(l)) \in 0 .. Len(l)
    <3>1. CASE i <= k
      <4>1. U[i] \in 0 .. p /\ L[i] \in 0 .. Len(l)
        BY <1>2, <3>1
      <4> QED
        BY <1>2, <3>1, <4>1
    <3>2. CASE ~(i <= k)
      BY <1>2, <3>2
    <3> QED
      BY <3>1, <3>2
  <2> QED
    BY <2>1
<1>4. /\ V[k + 1] = p + 1 /\ K[k + 1] = Len(l)
      /\ \A i \in 0 .. k : V[i] = U[i] /\ K[i] = L[i]
  BY <1>2
<1> HIDE DEF V, K
<1>5. U[k] = p /\ L[k] = Len(l)
  BY <1>1 DEF IsFlow, k, p
<1>6. ASSUME NEW i \in 1 .. k + 1
      PROVE  \/ /\ V[i] = V[i - 1] + 1 /\ K[i] = K[i - 1]
                /\ x[i] = CreateUsbipSubmit(t[V[i]])
             \/ /\ V[i] = V[i - 1] /\ K[i] = K[i - 1] + 1
                /\ x[i] = ListMessage(l[K[i]])
  <2>1. CASE i = k + 1
    <3>1. i - 1 = k /\ k \in 0 .. k
      BY <1>2, <2>1
    <3> QED
      BY <1>2, <1>4, <1>5, <2>1, <3>1 DEF msg
  <2>2. CASE i \in 1 .. k
    <3>1. i \in 0 .. k /\ i - 1 \in 0 .. k
      BY <1>2, <2>2
    <3>2. V[i] = U[i] /\ V[i - 1] = U[i - 1] /\ K[i] = L[i] /\ K[i - 1] = L[i - 1]
      BY <1>4, <3>1
    <3>3. \/ /\ U[i] = U[i - 1] + 1 /\ L[i] = L[i - 1]
             /\ w[i] = CreateUsbipSubmit(s[U[i]])
          \/ /\ U[i] = U[i - 1] /\ L[i] = L[i - 1] + 1
             /\ w[i] = ListMessage(l[L[i]])
      BY <1>1, <2>2 DEF IsFlow, k
    <3>4. U[i] \in 0 .. p /\ U[i - 1] \in 0 .. p /\ x[i] = w[i]
      BY <1>2, <2>2, <3>1
    <3>5. ASSUME U[i] = U[i - 1] + 1 PROVE t[U[i]] = s[U[i]]
      <4>1. U[i] \in 1 .. p
        BY <1>2, <3>4, <3>5
      <4> QED
        BY <1>2, <4>1
    <3> QED
      BY <3>2, <3>3, <3>4, <3>5
  <2> QED
    BY <1>2, <2>1, <2>2
<1>7. IsFlow(x, t, l, V, K)
  BY <1>2, <1>4, <1>6 DEF IsFlow
<1>8. V[0] = n /\ K[0] = m
  BY <1>1, <1>2, <1>4
<1>9. Flow(x, t, n, l, m)
  BY <1>2, <1>3, <1>7, <1>8 DEF Flow
<1> QED
  BY <1>9 DEF x, t, msg

\* A list is sent.
LEMMA FlowList ==
    ASSUME NEW M, NEW w \in Seq(M), NEW s \in Seq(Urbs), NEW l \in Seq(DeviceLists),
           NEW n, NEW m, Flow(w, s, n, l, m), NEW u \in DeviceLists,
           ListMessage(u) \in M
    PROVE  Flow(Append(w, ListMessage(u)), s, n, Append(l, u), m)
<1> DEFINE msg == ListMessage(u)
           x == Append(w, msg)
           t == Append(l, u)
           k == Len(w)
           p == Len(l)
<1>1. PICK U \in [0 .. k -> 0 .. Len(s)], L \in [0 .. k -> 0 .. p] :
         U[0] = n /\ L[0] = m /\ IsFlow(w, s, l, U, L)
  BY Zenon DEF Flow
<1>2. /\ k \in Nat /\ p \in Nat /\ Len(s) \in Nat
      /\ Len(x) = k + 1 /\ x[k + 1] = msg /\ \A i \in 1 .. k : x[i] = w[i]
      /\ Len(t) = p + 1 /\ t[p + 1] = u /\ \A i \in 1 .. p : t[i] = l[i]
  BY AppendProperties
<1> HIDE DEF k, p, x, t, msg
<1> DEFINE V == [i \in 0 .. k + 1 |-> IF i <= k THEN U[i] ELSE Len(s)]
           K == [i \in 0 .. k + 1 |-> IF i <= k THEN L[i] ELSE p + 1]
<1>3. V \in [0 .. k + 1 -> 0 .. Len(s)] /\ K \in [0 .. k + 1 -> 0 .. p + 1]
  <2>1. ASSUME NEW i \in 0 .. k + 1
        PROVE  /\ (IF i <= k THEN U[i] ELSE Len(s)) \in 0 .. Len(s)
               /\ (IF i <= k THEN L[i] ELSE p + 1) \in 0 .. p + 1
    <3>1. CASE i <= k
      <4>1. U[i] \in 0 .. Len(s) /\ L[i] \in 0 .. p
        BY <1>2, <3>1
      <4> QED
        BY <1>2, <3>1, <4>1
    <3>2. CASE ~(i <= k)
      BY <1>2, <3>2
    <3> QED
      BY <3>1, <3>2
  <2> QED
    BY <2>1
<1>4. /\ V[k + 1] = Len(s) /\ K[k + 1] = p + 1
      /\ \A i \in 0 .. k : V[i] = U[i] /\ K[i] = L[i]
  BY <1>2
<1> HIDE DEF V, K
<1>5. U[k] = Len(s) /\ L[k] = p
  BY <1>1 DEF IsFlow, k, p
<1>6. ASSUME NEW i \in 1 .. k + 1
      PROVE  \/ /\ V[i] = V[i - 1] + 1 /\ K[i] = K[i - 1]
                /\ x[i] = CreateUsbipSubmit(s[V[i]])
             \/ /\ V[i] = V[i - 1] /\ K[i] = K[i - 1] + 1
                /\ x[i] = ListMessage(t[K[i]])
  <2>1. CASE i = k + 1
    <3>1. i - 1 = k /\ k \in 0 .. k
      BY <1>2, <2>1
    <3> QED
      BY <1>2, <1>4, <1>5, <2>1, <3>1 DEF msg
  <2>2. CASE i \in 1 .. k
    <3>1. i \in 0 .. k /\ i - 1 \in 0 .. k
      BY <1>2, <2>2
    <3>2. V[i] = U[i] /\ V[i - 1] = U[i - 1] /\ K[i] = L[i] /\ K[i - 1] = L[i - 1]
      BY <1>4, <3>1
    <3>3. \/ /\ U[i] = U[i - 1] + 1 /\ L[i] = L[i - 1]
             /\ w[i] = CreateUsbipSubmit(s[U[i]])
          \/ /\ U[i] = U[i - 1] /\ L[i] = L[i - 1] + 1
             /\ w[i] = ListMessage(l[L[i]])
      BY <1>1, <2>2 DEF IsFlow, k
    <3>4. L[i] \in 0 .. p /\ L[i - 1] \in 0 .. p /\ x[i] = w[i]
      BY <1>2, <2>2, <3>1
    <3>5. ASSUME L[i] = L[i - 1] + 1 PROVE t[L[i]] = l[L[i]]
      <4>1. L[i] \in 1 .. p
        BY <1>2, <3>4, <3>5
      <4> QED
        BY <1>2, <4>1
    <3> QED
      BY <3>2, <3>3, <3>4, <3>5
  <2> QED
    BY <1>2, <2>1, <2>2
<1>7. IsFlow(x, s, t, V, K)
  BY <1>2, <1>4, <1>6 DEF IsFlow
<1>8. V[0] = n /\ K[0] = m
  BY <1>1, <1>2, <1>4
<1>9. Flow(x, s, n, t, m)
  BY <1>2, <1>3, <1>7, <1>8 DEF Flow
<1> QED
  BY <1>9 DEF x, t, msg

\* A message leaves the wire: it is the next URB or the next list.
LEMMA FlowHead ==
    ASSUME NEW M, NEW w \in Seq(M), w # <<>>, NEW s \in Seq(Urbs),
           NEW l \in Seq(DeviceLists), NEW n, NEW m, Flow(w, s, n, l, m)
    PROVE  \/ /\ n < Len(s) /\ Head(w) = CreateUsbipSubmit(s[n + 1])
              /\ Flow(Tail(w), s, n + 1, l, m)
           \/ /\ m < Len(l) /\ Head(w) = ListMessage(l[m + 1])
              /\ Flow(Tail(w), s, n, l, m + 1)
<1> DEFINE x == Tail(w)
           k == Len(w)
<1>1. PICK U \in [0 .. k -> 0 .. Len(s)], L \in [0 .. k -> 0 .. Len(l)] :
         U[0] = n /\ L[0] = m /\ IsFlow(w, s, l, U, L)
  BY Zenon DEF Flow
<1>2. /\ k \in Nat /\ k >= 1 /\ Len(s) \in Nat /\ Len(l) \in Nat
      /\ Head(w) = w[1] /\ Len(x) = k - 1 /\ \A i \in 1 .. k - 1 : x[i] = w[i + 1]
  BY HeadTailProperties
<1> HIDE DEF k, x
<1> DEFINE V == [i \in 0 .. k - 1 |-> U[i + 1]]
           K == [i \in 0 .. k - 1 |-> L[i + 1]]
<1>3. V \in [0 .. k - 1 -> 0 .. Len(s)] /\ K \in [0 .. k - 1 -> 0 .. Len(l)]
  <2>1. \A i \in 0 .. k - 1 : i + 1 \in 0 .. k
    BY <1>2
  <2> QED
    BY <2>1
<1>4. \A i \in 0 .. k - 1 : V[i] = U[i + 1] /\ K[i] = L[i + 1]
  OBVIOUS
<1> HIDE DEF V, K
<1>5. ASSUME NEW i \in 1 .. k
      PROVE  \/ /\ U[i] = U[i - 1] + 1 /\ L[i] = L[i - 1]
                /\ w[i] = CreateUsbipSubmit(s[U[i]])
             \/ /\ U[i] = U[i - 1] /\ L[i] = L[i - 1] + 1
                /\ w[i] = ListMessage(l[L[i]])
  BY <1>1 DEF IsFlow, k
<1>6. IsFlow(x, s, l, V, K)
  <2>1. V[k - 1] = Len(s) /\ K[k - 1] = Len(l)
    <3>1. k - 1 \in 0 .. k - 1 /\ (k - 1) + 1 = k
      BY <1>2
    <3>2. U[k] = Len(s) /\ L[k] = Len(l)
      BY <1>1 DEF IsFlow, k
    <3> QED
      BY <1>4, <3>1, <3>2
  <2>2. ASSUME NEW i \in 1 .. k - 1
        PROVE  \/ /\ V[i] = V[i - 1] + 1 /\ K[i] = K[i - 1]
                  /\ x[i] = CreateUsbipSubmit(s[V[i]])
               \/ /\ V[i] = V[i - 1] /\ K[i] = K[i - 1] + 1
                  /\ x[i] = ListMessage(l[K[i]])
    <3>1. /\ i + 1 \in 1 .. k /\ i \in 0 .. k - 1 /\ i - 1 \in 0 .. k - 1
          /\ (i - 1) + 1 = i /\ (i + 1) - 1 = i
      BY <1>2
    <3>2. V[i] = U[i + 1] /\ V[i - 1] = U[i] /\ K[i] = L[i + 1] /\ K[i - 1] = L[i]
      BY <1>4, <3>1
    <3>3. x[i] = w[i + 1]
      BY <1>2
    <3>4. \/ /\ U[i + 1] = U[i] + 1 /\ L[i + 1] = L[i]
             /\ w[i + 1] = CreateUsbipSubmit(s[U[i + 1]])
          \/ /\ U[i + 1] = U[i] /\ L[i + 1] = L[i] + 1
             /\ w[i + 1] = ListMessage(l[L[i + 1]])
      BY <1>5, <3>1
    <3> QED
      BY <3>2, <3>3, <3>4
  <2> QED
    BY <1>2, <2>1, <2>2 DEF IsFlow
<1>7. Flow(x, s, V[0], l, K[0])
  BY <1>2, <1>3, <1>6 DEF Flow
<1>8. /\ V[0] = U[1] /\ K[0] = L[1] /\ U[1] \in 0 .. Len(s) /\ L[1] \in 0 .. Len(l)
      /\ n \in 0 .. Len(s) /\ m \in 0 .. Len(l)
  <2>1. 0 \in 0 .. k - 1 /\ 1 \in 0 .. k /\ 0 \in 0 .. k /\ 0 + 1 = 1
    BY <1>2
  <2> QED
    BY <1>1, <1>4, <2>1
<1>9. \/ /\ U[1] = n + 1 /\ L[1] = m /\ w[1] = CreateUsbipSubmit(s[U[1]])
      \/ /\ U[1] = n /\ L[1] = m + 1 /\ w[1] = ListMessage(l[L[1]])
  <2>1. 1 \in 1 .. k /\ 1 - 1 = 0
    BY <1>2
  <2> QED
    BY <1>1, <1>5, <2>1
<1>10. CASE U[1] = n + 1 /\ L[1] = m /\ w[1] = CreateUsbipSubmit(s[U[1]])
  <2>1. n < Len(s)
    BY <1>2, <1>8, <1>10
  <2> QED
    BY <1>2, <1>7, <1>8, <1>10, <2>1 DEF x
<1>11. CASE U[1] = n /\ L[1] = m + 1 /\ w[1] = ListMessage(l[L[1]])
  <2>1. m < Len(l)
    BY <1>2, <1>8, <1>11
  <2> QED
    BY <1>2, <1>7, <1>8, <1>11, <2>1 DEF x
<1> QED
  BY <1>9, <1>10, <1>11

-----------------------------------------------------------------------------
(* The configuration that the device is asked for *)

LEMMA ChosenEmpty == Chosen(<<>>) = 0
<1>1. Pick(<<>>, {i \in DOMAIN <<>> : SetsConfiguration(<<>>[i])}) = <<>>
  BY PickEmpty, Zenon
<1> QED
  BY <1>1, Zenon DEF Chosen

LEMMA ChosenAppend ==
    ASSUME NEW D, NEW s \in Seq(D), NEW u \in D
    PROVE  Chosen(Append(s, u)) =
              IF SetsConfiguration(u) THEN u.setup.wValue % 256 ELSE Chosen(s)
<1> DEFINE t == Append(s, u)
           I == {i \in DOMAIN s : SetsConfiguration(s[i])}
           J == {i \in DOMAIN t : SetsConfiguration(t[i])}
<1>1. /\ Len(s) \in Nat /\ Len(t) = Len(s) + 1 /\ t[Len(s) + 1] = u
      /\ DOMAIN s = 1 .. Len(s) /\ DOMAIN t = 1 .. Len(s) + 1
      /\ \A i \in 1 .. Len(s) : t[i] = s[i]
  OBVIOUS
<1> HIDE DEF t
<1>2. \A i \in 1 .. Len(s) : i \in I <=> i \in J
  BY <1>1
<1>3. Len(s) + 1 \in J <=> SetsConfiguration(u)
  BY <1>1
<1> HIDE DEF I, J
<1>4. Pick(Append(s, u), J) =
         IF Len(s) + 1 \in J THEN Append(Pick(s, I), u) ELSE Pick(s, I)
  BY <1>2, PickAppend, SMT
<1> DEFINE p == Pick(s, I)
           q == Pick(t, J)
<1>5. /\ Chosen(t) = IF q = <<>> THEN 0 ELSE Last(q).setup.wValue % 256
      /\ Chosen(s) = IF p = <<>> THEN 0 ELSE Last(p).setup.wValue % 256
  BY Zenon DEF Chosen, I, J
<1>6. p \in Seq(D)
  BY PickType, Zenon
<1>7. q = IF SetsConfiguration(u) THEN Append(p, u) ELSE p
  BY <1>3, <1>4, Zenon DEF t
<1> HIDE DEF p, q
<1>8. Append(p, u) # <<>> /\ Last(Append(p, u)) = u
  BY <1>6 DEF Last
<1>9. CASE SetsConfiguration(u)
  BY <1>5, <1>7, <1>8, <1>9, Zenon DEF t
<1>10. CASE ~SetsConfiguration(u)
  BY <1>5, <1>7, <1>10, Zenon DEF t
<1> QED
  BY <1>9, <1>10

\* ConfigurationInStep of the devices v, when s was captured, r received and the
\* first a URBs of r came before the first import.
InStep(v, s, r, a) ==
    (\A urb \in Range(r) : urb.type = "CONTROL" => IsOut(urb)) =>
        \A i \in DOMAIN v :
           v[i].current_configuration_ = IF i = 1 THEN Chosen(AskedOf(s, r, a)) ELSE 0

LEMMA InStepNow == ConfigurationInStep <=> InStep(virtual_devices_, sent, received, unattended)
BY DEF ConfigurationInStep, InStep, Asked, AskedOf

\* The devices after an import.
LEMMA InStepImport ==
    ASSUME NEW v \in Seq(Devices), NEW x \in Seq(Devices), NEW s, NEW r, NEW a,
           \A k \in 1 .. Len(x) : x[k].current_configuration_ = 0,
           InStep(v, s, r, a),
           v = <<>> => AskedOf(s, r, a) = <<>>
    PROVE  InStep(v \o x, s, r, a)
<1> SUFFICES ASSUME \A urb \in Range(r) : urb.type = "CONTROL" => IsOut(urb),
                    NEW i \in DOMAIN (v \o x)
             PROVE  (v \o x)[i].current_configuration_ =
                       IF i = 1 THEN Chosen(AskedOf(s, r, a)) ELSE 0
  BY Zenon DEF InStep
<1> DEFINE c == Chosen(AskedOf(s, r, a))
<1>1. \A j \in DOMAIN v : v[j].current_configuration_ = IF j = 1 THEN c ELSE 0
  BY Zenon DEF InStep
<1>2. v = <<>> => c = 0
  BY ChosenEmpty
<1> HIDE DEF c
<1>3. /\ Len(v) \in Nat /\ Len(x) \in Nat /\ i \in 1 .. Len(v) + Len(x)
      /\ DOMAIN v = 1 .. Len(v) /\ (v = <<>> <=> Len(v) = 0)
  OBVIOUS
<1>4. (v \o x)[i] = IF i <= Len(v) THEN v[i] ELSE x[i - Len(v)]
  BY <1>3, ConcatProperties
<1>5. CASE i <= Len(v)
  BY <1>1, <1>3, <1>4, <1>5 DEF c
<1>6. CASE ~(i <= Len(v))
  <2>1. i - Len(v) \in 1 .. Len(x)
    BY <1>3, <1>6
  <2>2. i = 1 => Len(v) = 0
    BY <1>3, <1>6
  <2>3. (v \o x)[i].current_configuration_ = 0
    BY <1>4, <1>6, <2>1
  <2> QED
    BY <1>2, <1>3, <2>2, <2>3 DEF c
<1> QED
  BY <1>5, <1>6

LEMMA AskedType ==
    ASSUME NEW s \in Seq(Urbs), NEW r \in Seq(ReceivedUrbs), NEW n, GotFrom(r, s, n),
           NEW a \in 0 .. Len(r)
    PROVE  AskedOf(s, r, a) \in Seq(Urbs)
<1> DEFINE b == Len(OutUrbs(SubSeq(r, 1, a)))
           k == Len(OutUrbs(r))
           o == Out(s)
<1>1. b \in Nat /\ k \in Nat /\ b <= k /\ k <= Len(o)
  BY GotLengths
<1>2. o \in Seq(Urbs)
  BY OutType, Zenon
<1> HIDE DEF b, k, o
<1>3. \A i \in b + 1 .. k : o[i] \in Urbs
  <2>1. \A i \in b + 1 .. k : i \in 1 .. Len(o)
    BY <1>1, <1>2
  <2> QED
    BY <1>2, <2>1, ElementOfSeq, Zenon
<1>4. SubSeq(o, b + 1, k) \in Seq(Urbs)
  BY <1>1, <1>3, SubSeqProperties
<1> QED
  BY <1>4 DEF AskedOf, b, k, o

\* The configuration and the devices after the first one has seen urb.
NewConf(conf, urb) == IF Configures(urb) THEN SetConfiguration(conf, urb.setup) ELSE conf

Served(v, urb) ==
    [v EXCEPT ![1].current_configuration_ = NewConf(v[1].current_configuration_, urb)]

LEMMA ConfByte ==
    ASSUME NEW conf \in Byte, NEW urb \in ReceivedUrbs
    PROVE  NewConf(conf, urb) \in Byte
<1>1. urb.setup.wValue \in Nat
  BY DEF ReceivedUrbs, Setups, UInt16
<1>2. \A w \in Nat : w % 256 \in 0 .. 255
  OBVIOUS
<1> QED
  BY <1>1, <1>2 DEF NewConf, SetConfiguration, Byte

LEMMA ServedType ==
    ASSUME NEW v \in Seq(Devices), v # <<>>, NEW urb \in ReceivedUrbs
    PROVE  /\ Served(v, urb) \in Seq(Devices)
           /\ Len(Served(v, urb)) = Len(v) /\ DOMAIN Served(v, urb) = DOMAIN v
           /\ 1 \in DOMAIN v /\ v[1].current_configuration_ \in Byte
           /\ \A i \in DOMAIN v : Served(v, urb)[i].current_configuration_ =
                 IF i = 1 THEN NewConf(v[1].current_configuration_, urb)
                 ELSE v[i].current_configuration_
<1> DEFINE c == NewConf(v[1].current_configuration_, urb)
<1>1. Len(v) \in Nat /\ Len(v) >= 1 /\ DOMAIN v = 1 .. Len(v) /\ 1 \in DOMAIN v
  OBVIOUS
<1>2. \A i \in DOMAIN v : v[i] \in Devices
  BY <1>1, ElementOfSeq
<1>3. v[1].current_configuration_ \in Byte
  BY <1>1, <1>2 DEF Devices
<1>4. c \in Byte
  BY <1>3, ConfByte
<1> HIDE DEF c
<1>5. [v[1] EXCEPT !.current_configuration_ = c] \in Devices
  BY <1>1, <1>2, <1>4 DEF Devices
<1>6. [v[1] EXCEPT !.current_configuration_ = c].current_configuration_ = c
  BY <1>1, <1>2 DEF Devices
<1> DEFINE x == [v[1] EXCEPT !.current_configuration_ = c]
<1>7. Served(v, urb) = [v EXCEPT ![1] = x]
  BY DEF Served, c
<1> HIDE DEF x
<1>8. x \in Devices /\ x.current_configuration_ = c
  BY <1>5, <1>6 DEF x
<1> DEFINE y == [v EXCEPT ![1] = x]
<1>9. DOMAIN y = DOMAIN v /\ \A i \in DOMAIN v : y[i] = IF i = 1 THEN x ELSE v[i]
  OBVIOUS
<1>10. y \in Seq(Devices) /\ Len(y) = Len(v)
  BY <1>1, <1>8, ExceptSeq
<1> HIDE DEF y
<1>11. \A i \in DOMAIN v : y[i].current_configuration_ =
                 IF i = 1 THEN c ELSE v[i].current_configuration_
  BY <1>8, <1>9
<1> QED
  BY <1>1, <1>3, <1>7, <1>9, <1>10, <1>11 DEF y, c

\* The first device has seen q, a captured host-to-device URB.
LEMMA InStepOut ==
    ASSUME NEW v \in Seq(Devices), v # <<>>, NEW s, NEW r \in Seq(ReceivedUrbs), NEW a,
           InStep(v, s, r, a), NEW q \in ReceivedUrbs, NEW u \in Urbs,
           Visible(q) = Visible(u), AskedOf(s, r, a) \in Seq(Urbs),
           AskedOf(s, Append(r, q), a) = Append(AskedOf(s, r, a), u)
    PROVE  InStep(Served(v, q), s, Append(r, q), a)
<1> DEFINE c == Chosen(AskedOf(s, r, a))
           e == Chosen(AskedOf(s, Append(r, q), a))
<1> SUFFICES ASSUME \A urb \in Range(Append(r, q)) : urb.type = "CONTROL" => IsOut(urb),
                    NEW i \in DOMAIN Served(v, q)
             PROVE  Served(v, q)[i].current_configuration_ = IF i = 1 THEN e ELSE 0
  BY Zenon DEF InStep
<1>1. \A urb \in Range(r) : urb.type = "CONTROL" => IsOut(urb)
  <2>1. \A j \in DOMAIN r : j \in DOMAIN Append(r, q) /\ Append(r, q)[j] = r[j]
    BY AppendProperties
  <2> QED
    BY <2>1 DEF Range
<1>2. \A j \in DOMAIN v : v[j].current_configuration_ = IF j = 1 THEN c ELSE 0
  BY <1>1, Zenon DEF InStep
<1>3. e = IF SetsConfiguration(u) THEN u.setup.wValue % 256 ELSE c
  <2> DEFINE x == AskedOf(s, r, a)
  <2>1. x \in Seq(Urbs) /\ e = Chosen(Append(x, u))
    OBVIOUS
  <2> HIDE DEF x, e
  <2> QED
    BY <2>1, ChosenAppend, Zenon DEF x
<1> HIDE DEF c, e
<1>4. q.type = u.type /\ q.setup = u.setup
  BY DEF Visible
<1>5. NewConf(c, q) = e
  BY <1>3, <1>4 DEF NewConf, Configures, SetConfiguration, SetsConfiguration
<1> QED
  BY <1>2, <1>5, ServedType

\* It has seen a device-to-host URB, which ConfigurationInStep excludes if it is one
\* of endpoint 0.
LEMMA InStepIn ==
    ASSUME NEW v \in Seq(Devices), v # <<>>, NEW s, NEW r \in Seq(ReceivedUrbs), NEW a,
           InStep(v, s, r, a), NEW q \in ReceivedUrbs, ~IsOut(q),
           AskedOf(s, Append(r, q), a) = AskedOf(s, r, a)
    PROVE  InStep(Served(v, q), s, Append(r, q), a)
<1> DEFINE c == Chosen(AskedOf(s, r, a))
<1> SUFFICES ASSUME \A urb \in Range(Append(r, q)) : urb.type = "CONTROL" => IsOut(urb),
                    NEW i \in DOMAIN Served(v, q)
             PROVE  Served(v, q)[i].current_configuration_ = IF i = 1 THEN c ELSE 0
  BY Zenon DEF InStep
<1>1. (\A urb \in Range(r) : urb.type = "CONTROL" => IsOut(urb)) /\ q \in Range(Append(r, q))
  <2>1. \A j \in DOMAIN r : j \in DOMAIN Append(r, q) /\ Append(r, q)[j] = r[j]
    BY AppendProperties
  <2>2. Len(r) + 1 \in DOMAIN Append(r, q) /\ Append(r, q)[Len(r) + 1] = q
    BY AppendProperties
  <2> QED
    BY <2>1, <2>2 DEF Range
<1>2. \A j \in DOMAIN v : v[j].current_configuration_ = IF j = 1 THEN c ELSE 0
  BY <1>1, Zenon DEF InStep
<1> HIDE DEF c
<1>3. NewConf(c, q) = c
  BY <1>1 DEF NewConf, Configures
<1> QED
  BY <1>2, <1>3, ServedType

-----------------------------------------------------------------------------
(* The answers of the device *)

LEMMA AnswersEmpty == Answered(<<>>, <<>>)
<1>1. AnswersOf(<<>>) = <<>>
  BY PickEmpty, Zenon DEF AnswersOf
<1>2. Len(<<>>) = 0 /\ \A i \in 1 .. 0 : FALSE
  OBVIOUS
<1> QED
  BY <1>1, <1>2 DEF Answered

LEMMA AnswersAppend ==
    ASSUME NEW D, NEW p \in Seq(D), NEW x \in D
    PROVE  /\ AnswersOf(p) \in Seq(D)
           /\ AnswersOf(Append(p, x)) =
                 IF x.direction = IN_ THEN Append(AnswersOf(p), x) ELSE AnswersOf(p)
<1> DEFINE t == Append(p, x)
           I == {i \in DOMAIN p : p[i].direction = IN_}
           J == {i \in DOMAIN t : t[i].direction = IN_}
<1>1. /\ Len(p) \in Nat /\ Len(t) = Len(p) + 1 /\ t[Len(p) + 1] = x
      /\ DOMAIN p = 1 .. Len(p) /\ DOMAIN t = 1 .. Len(p) + 1
      /\ \A i \in 1 .. Len(p) : t[i] = p[i]
  OBVIOUS
<1> HIDE DEF t
<1>2. \A i \in 1 .. Len(p) : i \in I <=> i \in J
  BY <1>1
<1>3. Len(p) + 1 \in J <=> x.direction = IN_
  BY <1>1
<1> HIDE DEF I, J
<1>4. Pick(Append(p, x), J) =
         IF Len(p) + 1 \in J THEN Append(Pick(p, I), x) ELSE Pick(p, I)
  BY <1>2, PickAppend, SMT
<1>5. AnswersOf(t) = Pick(t, J) /\ AnswersOf(p) = Pick(p, I)
  BY DEF AnswersOf, I, J
<1>6. Pick(p, I) \in Seq(D)
  BY PickType, Zenon
<1> QED
  BY <1>3, <1>4, <1>5, <1>6, Zenon DEF t

\* What the device answers to a host-to-device URB and to another one.
LEMMA ResponseSuits ==
    ASSUME NEW conf, NEW q \in ReceivedUrbs, NEW u \in Urbs, Visible(q) = Visible(u), IsOut(q)
    PROVE  Response(conf, q).direction = IN_ /\ Suits(Response(conf, q), u)
<1>1. /\ q.type = u.type /\ q.endpoint = u.endpoint /\ q.data = u.data /\ q.setup = u.setup
      /\ q.direction = OUT
  BY DEF Visible, IsOut
<1>2. Response(conf, q).direction = IN_ /\ Response(conf, q).endpoint = u.endpoint
  BY <1>1 DEF Response, OUT, IN_
<1> DEFINE a == Response(conf, q).data
<1>3. a = IF u.type = "CONTROL" THEN HandleControlUrb(conf, q) ELSE HandleMassStorageUrb(q)
  BY <1>1 DEF Response
<1> HIDE DEF a
<1>4. u.type \in {"CONTROL", "BULK"} /\ u.data \in Seq(Byte) /\ Len(u.data) \in Nat
  BY <1>1 DEF ReceivedUrbs, Bytes
<1>5. ASSUME Unambiguous(u), u.type = "CONTROL" PROVE a.what = Expected(u)
  <2>1. Expected(u) = "empty"
    BY <1>5 DEF Expected
  <2> DEFINE type == (u.setup.bmRequestType \div 32) % 4
             R == u.setup.bRequest
  <2>2. \/ type = 0 /\ R \notin {6, 8}
        \/ type = 1 /\ R # 254
        \/ type = 2
    BY <1>5 DEF Unambiguous
  <2>3. a = CASE type = 0 -> HandleStandardRequest(conf, u.setup)
              [] type = 1 -> HandleClassRequest(u.setup)
              [] type = 2 -> Empty
              [] OTHER -> [what |-> "echo", value |-> Len(u.data)]
    BY <1>1, <1>3, <1>5 DEF HandleControlUrb
  <2>4. R \notin {6, 8} => HandleStandardRequest(conf, u.setup) = Empty
    BY DEF HandleStandardRequest
  <2>5. R # 254 => HandleClassRequest(u.setup) = Empty
    BY DEF HandleClassRequest
  <2> HIDE DEF type, R
  <2>6. a = Empty
    BY <2>2, <2>3, <2>4, <2>5
  <2> QED
    BY <2>1, <2>6 DEF Empty
<1>6. ASSUME Unambiguous(u), u.type = "BULK" PROVE a.what = Expected(u)
  <2> DEFINE n == Len(u.data)
             c == u.data[16]
  <2>1. a = CASE n >= 31 -> ProcessScsiCommand(u.data)
              [] OTHER -> [what |-> "echo", value |-> n]
    BY <1>1, <1>3, <1>6 DEF HandleMassStorageUrb
  <2>2. Expected(u) = CASE n = 31 /\ c = 18 -> "inquiry"
                        [] n = 31 /\ c = 37 -> "capacity"
                        [] n < 31 -> "echo"
                        [] OTHER -> "empty"
    BY <1>6 DEF Expected
  <2>3. ProcessScsiCommand(u.data) = CASE c = 18 -> [what |-> "inquiry", value |-> 36]
                                       [] c = 37 -> [what |-> "capacity", value |-> 1023]
                                       [] OTHER -> [what |-> "empty", value |-> 0]
    BY DEF ProcessScsiCommand, Empty
  <2>4. n > 31 => c \notin {18, 37}
    BY <1>6 DEF Unambiguous
  <2>5. n \in Nat
    BY <1>4
  <2> HIDE DEF n, c
  <2>6. CASE n < 31
    BY <2>1, <2>2, <2>5, <2>6
  <2>7. CASE n = 31
    BY <2>1, <2>2, <2>3, <2>5, <2>7
  <2>8. CASE n > 31
    BY <2>1, <2>2, <2>3, <2>4, <2>5, <2>8
  <2> QED
    BY <2>5, <2>6, <2>7, <2>8
<1> QED
  BY <1>2, <1>4, <1>5, <1>6 DEF Suits, a

LEMMA ResponseIn ==
    ASSUME NEW conf, NEW q \in ReceivedUrbs, ~IsOut(q)
    PROVE  Response(conf, q).direction # IN_
BY DEF ReceivedUrbs, IsOut, Response, OUT, IN_

LEMMA AnsweredOut ==
    ASSUME NEW p \in Seq(Responses), NEW o \in Seq(Urbs), Answered(p, o),
           NEW x \in Responses, NEW u \in Urbs, x.direction = IN_, Suits(x, u)
    PROVE  Answered(Append(p, x), Append(o, u))
<1> DEFINE y == AnswersOf(p)
<1>1. y \in Seq(Responses) /\ AnswersOf(Append(p, x)) = Append(y, x)
  BY AnswersAppend, Zenon
<1>2. Len(y) = Len(o) /\ \A i \in 1 .. Len(o) : Suits(y[i], o[i])
  BY Zenon DEF Answered
<1> HIDE DEF y
<1>3. /\ Len(Append(y, x)) = Len(o) + 1 /\ Append(y, x)[Len(o) + 1] = x
      /\ \A i \in 1 .. Len(o) : Append(y, x)[i] = y[i]
  BY <1>1, <1>2, AppendProperties
<1>4. /\ Len(Append(o, u)) = Len(o) + 1 /\ Append(o, u)[Len(o) + 1] = u
      /\ \A i \in 1 .. Len(o) : Append(o, u)[i] = o[i]
  BY AppendProperties
<1>5. \A i \in 1 .. Len(o) + 1 : i \in 1 .. Len(o) \/ i = Len(o) + 1
  OBVIOUS
<1>6. \A i \in 1 .. Len(o) + 1 : Suits(Append(y, x)[i], Append(o, u)[i])
  BY <1>2, <1>3, <1>4, <1>5, Zenon
<1> QED
  BY <1>1, <1>3, <1>4, <1>6, Zenon DEF Answered

LEMMA AnsweredIn ==
    ASSUME NEW p \in Seq(Responses), NEW o, Answered(p, o),
           NEW x \in Responses, x.direction # IN_
    PROVE  Answered(Append(p, x), o)
<1>1. AnswersOf(Append(p, x)) = AnswersOf(p)
  BY AnswersAppend, Zenon
<1> QED
  BY <1>1 DEF Answered

-----------------------------------------------------------------------------
(* The steps *)

LEMMA InStepNext ==
    ConfigurationInStep' <=> InStep(virtual_devices_', sent', received', unattended')
BY DEF ConfigurationInStep, InStep, Asked, AskedOf

LEMMA InitInv == Init => IInv
<1> SUFFICES ASSUME Init PROVE IInv
  OBVIOUS
<1> USE DEF Init
<1>1. Len(<<>>) = 0 /\ 0 \in Nat /\ DOMAIN <<>> = {}
  OBVIOUS
<1>2. HistoryInv
  <2>1. \A S : <<>> \in Seq(S)
    OBVIOUS
  <2> QED
    BY <1>1, <2>1, MessagesAssumption DEF HistoryInv
<1>3. DeviceInv
  BY <1>1 DEF DeviceInv
<1>4. WireInv
  <2>1. SubSeq(<<>>, 1, 0) = <<>>
    OBVIOUS
  <2>2. GotFrom(<<>>, <<>>, 0)
    <3>1. 0 \in 0 .. 0
      OBVIOUS
    <3> QED
      BY <1>1, <2>1, <3>1, Zenon DEF GotFrom
  <2>3. Flow(<<>>, <<>>, 0, <<>>, Len(<<>>))
    BY <1>1, FlowEmpty
  <2> QED
    BY <1>1, <2>2, <2>3 DEF WireInv
<1>5. ConfigurationInStep
  BY <1>1 DEF ConfigurationInStep
<1>6. AnswerInv
  <2>1. AskedOf(<<>>, <<>>, 0) = <<>>
    <3>1. GotFrom(<<>>, <<>>, 0) /\ <<>> \in Seq(Urbs) /\ <<>> \in Seq(ReceivedUrbs)
      <4>1. 0 \in 0 .. 0 /\ SubSeq(<<>>, 1, 0) = <<>>
        OBVIOUS
      <4>2. \A S : <<>> \in Seq(S)
        OBVIOUS
      <4> QED
        BY <1>1, <4>1, <4>2, Zenon DEF GotFrom
    <3> QED
      BY <1>1, <3>1, GotNone, Zenon
  <2>2. 0 - 0 = 0
    OBVIOUS
  <2> QED
    BY <1>1, <2>1, <2>2, AnswersEmpty, Zenon DEF AnswerInv
<1> QED
  BY <1>2, <1>3, <1>4, <1>5, <1>6 DEF IInv

LEMMA CapturedInv ==
    ASSUME IInv, NEW urb \in Urbs, OnUrbCaptured(urb)
    PROVE  IInv'
<1> USE DEF OnUrbCaptured
<1>1. HistoryInv /\ DeviceInv /\ WireInv /\ ConfigurationInStep /\ AnswerInv
  BY DEF IInv
<1>2. PICK n \in 0 .. Len(sent) :
         Flow(wire, sent, n, lists, Len(devices)) /\ GotFrom(received, sent, n)
  BY <1>1 DEF WireInv
<1>3. CreateUsbipSubmit(urb) \in Messages
  BY DEF Messages
<1>4. HistoryInv'
  <2>1. sent' \in Seq(Urbs) /\ Len(sent') = Len(sent) + 1 /\ Len(sent) \in Nat /\ Len(lists) \in Nat
    BY <1>1, AppendProperties DEF HistoryInv
  <2>2. wire' \in Seq(Messages)
    BY <1>1, <1>3, AppendProperties DEF HistoryInv
  <2>3. Len(sent') + Len(lists') <= MaxMessages
    BY <2>1, MessagesAssumption
  <2> QED
    BY <1>1, <2>1, <2>2, <2>3 DEF HistoryInv
<1>5. DeviceInv'
  BY <1>1 DEF DeviceInv
<1>6. /\ GotFrom(received, Append(sent, urb), n)
      /\ AskedOf(Append(sent, urb), received, unattended) = AskedOf(sent, received, unattended)
  BY <1>1, <1>2, GotCaptured DEF HistoryInv, DeviceInv
<1>7. WireInv'
  <2>1. Flow(wire', sent', n, lists', Len(devices'))
    BY <1>1, <1>2, <1>3, FlowUrb DEF HistoryInv
  <2>2. GotFrom(received', sent', n) /\ n \in 0 .. Len(sent')
    BY <1>6 DEF GotFrom
  <2> QED
    BY <1>1, <2>1, <2>2 DEF WireInv
<1>8. ConfigurationInStep'
  <2>1. InStep(virtual_devices_, sent, received, unattended)
    BY <1>1, InStepNow
  <2>2. InStep(virtual_devices_', sent', received', unattended')
    BY <1>6, <2>1 DEF InStep
  <2> QED
    BY <2>2, InStepNext
<1>9. AnswerInv'
  BY <1>1, <1>6 DEF AnswerInv
<1> QED
  BY <1>4, <1>5, <1>7, <1>8, <1>9 DEF IInv

LEMMA ListRequestInv ==
    ASSUME IInv, NEW list \in DeviceLists, HandleDeviceListRequest(list)
    PROVE  IInv'
<1> USE DEF HandleDeviceListRequest
<1>1. HistoryInv /\ DeviceInv /\ WireInv /\ ConfigurationInStep /\ AnswerInv
  BY DEF IInv
<1>2. PICK n \in 0 .. Len(sent) :
         Flow(wire, sent, n, lists, Len(devices)) /\ GotFrom(received, sent, n)
  BY <1>1 DEF WireInv
<1>3. ListMessage(list) \in Messages /\ wire' = Append(wire, ListMessage(list))
  BY DEF Messages, ListMessage
<1>4. HistoryInv'
  <2>1. /\ lists' \in Seq(DeviceLists) /\ Len(lists') = Len(lists) + 1
        /\ Len(sent) \in Nat /\ Len(lists) \in Nat
    BY <1>1, AppendProperties DEF HistoryInv
  <2>2. wire' \in Seq(Messages)
    BY <1>1, <1>3, AppendProperties DEF HistoryInv
  <2>3. Len(sent') + Len(lists') <= MaxMessages
    BY <2>1, MessagesAssumption
  <2> QED
    BY <1>1, <2>1, <2>2, <2>3 DEF HistoryInv
<1>5. DeviceInv'
  BY <1>1 DEF DeviceInv
<1>6. WireInv'
  <2>1. Flow(wire', sent', n, lists', Len(devices'))
    BY <1>1, <1>2, <1>3, FlowList DEF HistoryInv
  <2>2. Len(devices) \in Nat /\ Len(devices) <= Len(lists)
    <3>1. Len(wire) \in Nat
      BY <1>1 DEF HistoryInv
    <3> QED
      BY <1>2, <3>1, FlowBounds
  <2>3. \A i \in 1 .. Len(devices) : lists'[i] = lists[i]
    <3>1. \A i \in 1 .. Len(devices) : i \in 1 .. Len(lists)
      BY <1>1, <2>2 DEF HistoryInv
    <3> QED
      BY <1>1, <3>1, AppendProperties DEF HistoryInv
  <2> QED
    BY <1>1, <1>2, <2>1, <2>3 DEF WireInv
<1>7. ConfigurationInStep'
  <2>1. InStep(virtual_devices_, sent, received, unattended)
    BY <1>1, InStepNow
  <2>2. InStep(virtual_devices_', sent', received', unattended')
    BY <2>1
  <2> QED
    BY <2>2, InStepNext
<1>8. AnswerInv'
  BY <1>1 DEF AnswerInv
<1> QED
  BY <1>4, <1>5, <1>6, <1>7, <1>8 DEF IInv

\* The receive thread handles a device list.
LEMMA ListInv ==
    ASSUME IInv, OnNetworkMessage, NEW n \in 0 .. Len(sent), GotFrom(received, sent, n),
           Len(devices) < Len(lists),
           Head(wire) = ListMessage(lists[Len(devices) + 1]),
           Flow(Tail(wire), sent, n, lists, Len(devices) + 1)
    PROVE  IInv'
<1> DEFINE list == lists[Len(devices) + 1]
<1>1. HistoryInv /\ DeviceInv /\ WireInv /\ ConfigurationInStep /\ AnswerInv
  BY DEF IInv
<1>2. list \in DeviceLists /\ list \in Seq(UsbipDeviceInfo) /\ Len(devices) \in Nat
  BY <1>1, DeviceListsAssumption, ElementOfSeq DEF HistoryInv
<1> HIDE DEF list
<1>3. HandleDeviceListResponse(SerializeDeviceList(list))
  <2>1. Head(wire).type = "DEVICE_LIST_RESPONSE"
        /\ Head(wire).payload = SerializeDeviceList(list)
    BY DEF ListMessage, list
  <2> QED
    BY <2>1, Zenon DEF OnNetworkMessage
<1>4. wire' = Tail(wire) /\ wire # <<>> /\ sent' = sent /\ lists' = lists
  BY DEF OnNetworkMessage
<1>5. PICK done : virtual_devices_' = virtual_devices_ \o
                     [k \in DOMAIN Pick(list, done) |->
                        [info |-> Pick(list, done)[k], current_configuration_ |-> 0]]
  BY <1>2, <1>3, ListRoundTrip, Zenon DEF HandleDeviceListResponse
<1>6. /\ devices' = Append(devices, list) /\ received' = received
      /\ unattended' = unattended /\ responses' = responses
  BY <1>2, <1>3, ListRoundTrip, Zenon DEF HandleDeviceListResponse
<1> DEFINE p == Pick(list, done)
           x == [k \in DOMAIN p |-> [info |-> p[k], current_configuration_ |-> 0]]
<1>7. p \in Seq(UsbipDeviceInfo)
  BY <1>2, PickType, Zenon
<1>8. x \in Seq(Devices) /\ \A k \in 1 .. Len(x) : x[k].current_configuration_ = 0
  <2> HIDE DEF p
  <2>1. 0 \in Byte
    BY DEF Byte
  <2>2. Len(p) \in Nat /\ DOMAIN p = 1 .. Len(p) /\ \A k \in 1 .. Len(p) : p[k] \in UsbipDeviceInfo
    BY <1>7, ElementOfSeq
  <2>3. \A k \in 1 .. Len(p) : [info |-> p[k], current_configuration_ |-> 0] \in Devices
    BY <2>1, <2>2 DEF Devices
  <2>4. x \in Seq(Devices) /\ Len(x) = Len(p)
    BY <2>2, <2>3
  <2> QED
    BY <2>2, <2>4
<1>9. virtual_devices_' = virtual_devices_ \o x
  BY <1>5
<1> HIDE DEF x, p
<1>10. HistoryInv'
  <2>1. devices' \in Seq(DeviceLists)
    BY <1>1, <1>2, <1>6, AppendProperties DEF HistoryInv
  <2>2. wire' \in Seq(Messages)
    BY <1>1, <1>4, HeadTailProperties DEF HistoryInv
  <2> QED
    BY <1>1, <1>4, <1>6, <2>1, <2>2 DEF HistoryInv
<1>11. DeviceInv'
  <2>1. virtual_devices_' \in Seq(Devices)
    BY <1>1, <1>8, <1>9, ConcatProperties DEF DeviceInv
  <2>2. virtual_devices_' = <<>> => virtual_devices_ = <<>>
    <3> DEFINE v == virtual_devices_
               y == virtual_devices_'
    <3>1. v \in Seq(Devices) /\ x \in Seq(Devices) /\ y = v \o x
      BY <1>1, <1>8, <1>9 DEF DeviceInv
    <3> HIDE DEF v, y
    <3>2. Len(y) = Len(v) + Len(x) /\ Len(v) \in Nat /\ Len(x) \in Nat
      BY <3>1, ConcatProperties
    <3>3. y = <<>> => Len(v) = 0
      BY <3>2
    <3>4. Len(v) = 0 => v = <<>>
      BY <3>1
    <3> QED
      BY <3>3, <3>4 DEF v, y
  <2> QED
    BY <1>1, <1>6, <2>1, <2>2 DEF DeviceInv
<1>12. WireInv'
  <2>1. Len(devices') = Len(devices) + 1 /\ devices'[Len(devices) + 1] = list
        /\ \A i \in 1 .. Len(devices) : devices'[i] = devices[i]
    BY <1>1, <1>2, <1>6, AppendProperties DEF HistoryInv
  <2>2. \A i \in 1 .. Len(devices') : i \in 1 .. Len(devices) \/ i = Len(devices) + 1
    BY <1>2, <2>1
  <2>3. \A i \in 1 .. Len(devices') : devices'[i] = lists'[i]
    BY <1>1, <1>4, <2>1, <2>2 DEF WireInv, list
  <2> QED
    BY <1>4, <1>6, <2>1, <2>3 DEF WireInv
<1>13. ConfigurationInStep'
  <2>1. InStep(virtual_devices_, sent, received, unattended)
    BY <1>1, InStepNow
  <2>2. virtual_devices_ = <<>> => AskedOf(sent, received, unattended) = <<>>
    BY <1>1, GotNone DEF HistoryInv, DeviceInv
  <2>3. virtual_devices_ \in Seq(Devices)
    BY <1>1 DEF DeviceInv
  <2>4. InStep(virtual_devices_ \o x, sent, received, unattended)
    BY <1>8, <2>1, <2>2, <2>3, InStepImport
  <2> QED
    BY <1>4, <1>6, <1>9, <2>4, InStepNext
<1>14. AnswerInv'
  BY <1>1, <1>4, <1>6 DEF AnswerInv
<1> QED
  BY <1>10, <1>11, <1>12, <1>13, <1>14 DEF IInv

\* A URB is given to urb_callback_, which finds a device or none.
LEMMA ReceivedInv ==
    ASSUME IInv, NEW n \in 0 .. Len(sent), NEW q \in ReceivedUrbs,
           wire # <<>>, wire' = Tail(wire),
           received' = Append(received, q), OnUrbReceived(q),
           UNCHANGED <<sent, lists, devices>>,
           GotFrom(Append(received, q), sent, n),
           Flow(Tail(wire), sent, n, lists, Len(devices)),
           virtual_devices_ # <<>> =>
              /\ InStep(Served(virtual_devices_, q), sent, Append(received, q), unattended)
              /\ \A conf \in Byte : Answered(Append(responses, Response(conf, q)),
                                   AskedOf(sent, Append(received, q), unattended))
    PROVE  IInv'
<1>1. HistoryInv /\ DeviceInv /\ WireInv /\ ConfigurationInStep /\ AnswerInv
  BY DEF IInv
<1>2. /\ received' \in Seq(ReceivedUrbs) /\ Len(received') = Len(received) + 1
      /\ Len(received) \in Nat
  BY <1>1, AppendProperties DEF HistoryInv
<1>3. HistoryInv'
  <2>1. wire' \in Seq(Messages)
    BY <1>1, HeadTailProperties DEF HistoryInv
  <2> QED
    BY <1>1, <1>2, <2>1 DEF HistoryInv
<1>4. WireInv'
  BY <1>1 DEF WireInv
<1>5. CASE virtual_devices_ = <<>>
  <2>1. /\ unattended' = unattended + 1 /\ virtual_devices_' = <<>>
        /\ responses' = responses /\ unattended = Len(received)
    BY <1>1, <1>5 DEF OnUrbReceived, DeviceInv
  <2>2. unattended' = Len(received') /\ Len(received') \in 0 .. Len(received')
    BY <1>2, <2>1
  <2>3. DeviceInv'
    BY <1>1, <1>5, <2>1, <2>2 DEF DeviceInv
  <2>4. ConfigurationInStep'
    BY <2>1 DEF ConfigurationInStep
  <2>5. AnswerInv'
    <3>1. AskedOf(sent, received', Len(received')) = <<>>
      BY <1>1, <1>2, GotNone DEF HistoryInv
    <3>2. AskedOf(sent, received, Len(received)) = <<>>
      <4>1. PICK m : GotFrom(received, sent, m)
        BY <1>1 DEF WireInv
      <4> QED
        BY <1>1, <4>1, GotNone DEF HistoryInv
    <3>3. Len(responses) = 0 /\ Answered(responses, <<>>)
      BY <1>1, <1>2, <2>1, <3>2 DEF AnswerInv
    <3>4. Len(responses) = Len(received') - unattended'
      BY <1>2, <2>2, <3>3
    <3> QED
      BY <2>1, <2>2, <3>1, <3>3, <3>4 DEF AnswerInv
  <2> QED
    BY <1>3, <1>4, <2>3, <2>4, <2>5 DEF IInv
<1>6. CASE virtual_devices_ # <<>>
  <2> DEFINE conf == virtual_devices_[1].current_configuration_
  <2>1. /\ responses' = Append(responses, Response(conf, q))
        /\ virtual_devices_' = Served(virtual_devices_, q)
        /\ unattended' = unattended
    BY <1>6, Zenon DEF OnUrbReceived, Served, NewConf
  <2>2. /\ virtual_devices_' \in Seq(Devices) /\ conf \in Byte
        /\ Len(virtual_devices_') = Len(virtual_devices_)
    BY <1>1, <1>6, <2>1, ServedType DEF DeviceInv
  <2> HIDE DEF conf
  <2>3. responses' \in Seq(Responses)
    <3>1. Response(conf, q) \in Responses
      BY <2>2 DEF Responses
    <3> QED
      BY <1>1, <2>1, <3>1, AppendProperties DEF DeviceInv
  <2>4. virtual_devices_' # <<>>
    BY <1>1, <1>6, <2>2 DEF DeviceInv
  <2>5. unattended' \in 0 .. Len(received')
    BY <1>1, <1>2, <2>1 DEF DeviceInv
  <2>6. DeviceInv'
    BY <2>2, <2>3, <2>4, <2>5 DEF DeviceInv
  <2>7. ConfigurationInStep'
    BY <1>6, <2>1, InStepNext
  <2>8. AnswerInv'
    <3>1. Len(responses') = Len(responses) + 1
      BY <1>1, <2>1 DEF DeviceInv
    <3>2. Len(responses) = Len(received) - unattended /\ unattended \in Nat
      BY <1>1 DEF AnswerInv, DeviceInv
    <3>3. Len(responses') = Len(received') - unattended'
      BY <1>2, <2>1, <3>1, <3>2
    <3>4. Answered(responses', AskedOf(sent', received', unattended'))
      BY <1>6, <2>1, <2>2
    <3> QED
      BY <3>3, <3>4 DEF AnswerInv
  <2> QED
    BY <1>3, <1>4, <2>6, <2>7, <2>8 DEF IInv
<1> QED
  BY <1>5, <1>6

\* The receive thread handles a URB.
LEMMA UrbInv ==
    ASSUME IInv, OnNetworkMessage, NEW n \in 0 .. Len(sent), GotFrom(received, sent, n),
           n < Len(sent), Head(wire) = CreateUsbipSubmit(sent[n + 1]),
           Flow(Tail(wire), sent, n + 1, lists, Len(devices))
    PROVE  IInv'
<1> DEFINE u == sent[n + 1]
           P == ProcessUrb(u)
           q == ParseUrb(P)
<1>1. HistoryInv /\ DeviceInv /\ WireInv /\ ConfigurationInStep /\ AnswerInv
  BY DEF IInv
<1>2. u \in Urbs /\ n + 1 \in 0 .. Len(sent)
  BY <1>1, ElementOfSeq DEF HistoryInv
<1>3. HandleUrbSubmit(P)
  <2>1. Head(wire).type = "URB_SUBMIT" /\ Head(wire).payload = P
    BY DEF CreateUsbipSubmit
  <2> QED
    BY <2>1, Zenon DEF OnNetworkMessage
<1>4. wire' = Tail(wire) /\ wire # <<>> /\ sent' = sent /\ lists' = lists /\ devices' = devices
  BY <1>3, Zenon DEF OnNetworkMessage, HandleUrbSubmit
<1>5. InStep(virtual_devices_, sent, received, unattended)
  BY <1>1, InStepNow
<1>6. /\ sent \in Seq(Urbs) /\ received \in Seq(ReceivedUrbs)
      /\ unattended \in 0 .. Len(received) /\ virtual_devices_ \in Seq(Devices)
  BY <1>1 DEF HistoryInv, DeviceInv
<1>7. CASE IsOut(u)
  <2>1. Len(P) >= CmdSubmitSize /\ q \in ReceivedUrbs /\ Visible(q) = Visible(u)
    BY <1>2, <1>7, OutRoundTrip
  <2>2. received' = Append(received, q) /\ OnUrbReceived(q)
    BY <1>3, <2>1 DEF HandleUrbSubmit, CmdSubmitSize
  <2>3. /\ GotFrom(Append(received, q), sent, n + 1)
        /\ AskedOf(sent, Append(received, q), unattended) =
              Append(AskedOf(sent, received, unattended), u)
    BY <1>6, <1>7, <2>1, GotOut
  <2>4. AskedOf(sent, received, unattended) \in Seq(Urbs)
    BY <1>6, AskedType
  <2>5. virtual_devices_ # <<>> =>
           InStep(Served(virtual_devices_, q), sent, Append(received, q), unattended)
    BY <1>2, <1>5, <1>6, <2>1, <2>3, <2>4, InStepOut
  <2>6. ASSUME NEW conf \in Byte
        PROVE  Answered(Append(responses, Response(conf, q)),
                        AskedOf(sent, Append(received, q), unattended))
    <3> DEFINE x == Response(conf, q)
               o == AskedOf(sent, received, unattended)
    <3>1. x.direction = IN_ /\ Suits(x, u)
      <4>1. IsOut(q)
        BY <1>7, <2>1 DEF Visible, IsOut
      <4> QED
        BY <1>2, <2>1, <4>1, ResponseSuits
    <3>2. x \in Responses
      BY <2>1 DEF Responses
    <3>3. responses \in Seq(Responses) /\ Answered(responses, o)
      BY <1>1 DEF DeviceInv, AnswerInv
    <3> HIDE DEF x, o, q, u
    <3>4. Answered(Append(responses, x), Append(o, u))
      BY <1>2, <2>4, <3>1, <3>2, <3>3, AnsweredOut DEF o
    <3> QED
      BY <2>3, <3>4 DEF x, o
  <2> HIDE DEF q
  <2> QED
    BY <1>2, <1>4, <2>1, <2>2, <2>3, <2>5, <2>6, ReceivedInv
<1>8. CASE ~IsOut(u) /\ Len(P) >= CmdSubmitSize
  <2>1. q \in ReceivedUrbs /\ ~IsOut(q)
    BY <1>2, <1>8, InRoundTrip
  <2>2. received' = Append(received, q) /\ OnUrbReceived(q)
    BY <1>3, <1>8 DEF HandleUrbSubmit, CmdSubmitSize
  <2>3. /\ GotFrom(Append(received, q), sent, n + 1)
        /\ AskedOf(sent, Append(received, q), unattended) =
              AskedOf(sent, received, unattended)
    BY <1>6, <1>8, <2>1, GotIn
  <2>4. virtual_devices_ # <<>> =>
           InStep(Served(virtual_devices_, q), sent, Append(received, q), unattended)
    BY <1>5, <1>6, <2>1, <2>3, InStepIn
  <2>5. ASSUME NEW conf \in Byte
        PROVE  Answered(Append(responses, Response(conf, q)),
                        AskedOf(sent, Append(received, q), unattended))
    <3> DEFINE x == Response(conf, q)
               o == AskedOf(sent, received, unattended)
    <3>1. x.direction # IN_ /\ x \in Responses
      BY <2>1, ResponseIn DEF Responses
    <3>2. responses \in Seq(Responses) /\ Answered(responses, o)
      BY <1>1 DEF DeviceInv, AnswerInv
    <3> HIDE DEF x, o, q
    <3>3. Answered(Append(responses, x), o)
      BY <3>1, <3>2, AnsweredIn
    <3> QED
      BY <2>3, <3>3 DEF x, o
  <2> HIDE DEF q
  <2> QED
    BY <1>2, <1>4, <2>1, <2>2, <2>3, <2>4, <2>5, ReceivedInv
<1>9. CASE ~IsOut(u) /\ ~(Len(P) >= CmdSubmitSize)
  <2>1. UNCHANGED <<received, virtual_devices_, unattended, responses>>
    BY <1>3, <1>9 DEF HandleUrbSubmit, CmdSubmitSize
  <2>2. GotFrom(received, sent, n + 1)
    BY <1>6, <1>9, GotIn
  <2>3. wire' \in Seq(Messages)
    BY <1>1, <1>4, HeadTailProperties DEF HistoryInv
  <2>4. HistoryInv' /\ DeviceInv'
    BY <1>1, <1>4, <2>1, <2>3 DEF HistoryInv, DeviceInv
  <2>5. WireInv'
    BY <1>1, <1>2, <1>4, <2>1, <2>2 DEF WireInv
  <2>6. ConfigurationInStep'
    BY <1>4, <1>5, <2>1, InStepNext
  <2>7. AnswerInv'
    BY <1>1, <1>4, <2>1 DEF AnswerInv
  <2> QED
    BY <2>4, <2>5, <2>6, <2>7 DEF IInv
<1> QED
  BY <1>7, <1>8, <1>9

LEMMA NetworkInv ==
    ASSUME IInv, OnNetworkMessage
    PROVE  IInv'
<1>1. HistoryInv /\ WireInv
  BY DEF IInv
<1>2. PICK n \in 0 .. Len(sent) :
         Flow(wire, sent, n, lists, Len(devices)) /\ GotFrom(received, sent, n)
  BY <1>1 DEF WireInv
<1>3. wire \in Seq(Messages) /\ wire # <<>> /\ sent \in Seq(Urbs) /\ lists \in Seq(DeviceLists)
  BY <1>1 DEF HistoryInv, OnNetworkMessage
<1>4. \/ /\ n < Len(sent) /\ Head(wire) = CreateUsbipSubmit(sent[n + 1])
         /\ Flow(Tail(wire), sent, n + 1, lists, Len(devices))
      \/ /\ Len(devices) < Len(lists) /\ Head(wire) = ListMessage(lists[Len(devices) + 1])
         /\ Flow(Tail(wire), sent, n, lists, Len(devices) + 1)
  BY <1>2, <1>3, FlowHead
<1> QED
  BY <1>2, <1>4, UrbInv, ListInv

LEMMA NextInv == IInv /\ [Next]_vars => IInv'
<1> SUFFICES ASSUME IInv, [Next]_vars PROVE IInv'
  OBVIOUS
<1>1. ASSUME NEW urb \in Urbs, OnUrbCaptured(urb) PROVE IInv'
  BY <1>1, CapturedInv
<1>2. ASSUME NEW list \in DeviceLists, HandleDeviceListRequest(list) PROVE IInv'
  BY <1>2, ListRequestInv
<1>3. CASE OnNetworkMessage
  BY <1>3, NetworkInv
<1>4. CASE UNCHANGED vars
  BY <1>4 DEF vars, IInv, HistoryInv, DeviceInv, WireInv, AnswerInv, ConfigurationInStep, Asked
<1> QED
  BY <1>1, <1>2, <1>3, <1>4 DEF Next

\* Everything that UrbProcessor and HandleDeviceListRequest put on the wire and
\* everything that the receive thread made of it fits together: IInv always holds.
THEOREM Invariance == Spec => []IInv
<1> QED
  BY InitInv, NextInv, PTL DEF Spec

-----------------------------------------------------------------------------
(* The theorems *)

LEMMA PrefixOf ==
    ASSUME NEW D, NEW x \in Seq(D), NEW y \in Seq(D), Extends(y, x)
    PROVE  IsPrefix(x, y)
<1>1. Len(x) \in Nat /\ Len(y) \in Nat /\ Len(x) <= Len(y)
      /\ \A i \in 1 .. Len(x) : x[i] = y[i]
  BY DEF Extends
<1>2. SubSeq(x, 1, Len(x)) = SubSeq(y, 1, Len(x))
  BY <1>1
<1> QED
  BY <1>1, <1>2 DEF IsPrefix

LEMMA VisibleExtends ==
    ASSUME NEW D, NEW s \in Seq(D), NEW n \in 0 .. Len(s)
    PROVE  /\ OutUrbs(s) \in Seq({Visible(urb) : urb \in D})
           /\ OutUrbs(SubSeq(s, 1, n)) \in Seq({Visible(urb) : urb \in D})
           /\ Extends(OutUrbs(s), OutUrbs(SubSeq(s, 1, n)))
<1> DEFINE V == {Visible(urb) : urb \in D}
           t == SubSeq(s, 1, n)
<1>1. t \in Seq(D)
  <2>1. n \in Int /\ \A i \in 1 .. n : s[i] \in D
    BY ElementOfSeq
  <2> QED
    BY <2>1, SubSeqProperties
<1>2. Extends(Out(s), Out(t))
  BY OutPrefix
<1> HIDE DEF t
<1> DEFINE a == Out(s)
           b == Out(t)
<1>3. a \in Seq(D) /\ b \in Seq(D)
  BY <1>1, OutType, Zenon
<1>4. /\ OutUrbs(s) = [i \in DOMAIN a |-> Visible(a[i])]
      /\ OutUrbs(t) = [i \in DOMAIN b |-> Visible(b[i])]
  BY DEF OutUrbs
<1> HIDE DEF a, b
<1>5. /\ Len(a) \in Nat /\ DOMAIN a = 1 .. Len(a) /\ Len(b) \in Nat /\ DOMAIN b = 1 .. Len(b)
      /\ (\A i \in 1 .. Len(a) : a[i] \in D) /\ (\A i \in 1 .. Len(b) : b[i] \in D)
  BY <1>3, ElementOfSeq
<1>6. (\A i \in 1 .. Len(a) : Visible(a[i]) \in V) /\ (\A i \in 1 .. Len(b) : Visible(b[i]) \in V)
  BY <1>5
<1> HIDE DEF V
<1>7. /\ OutUrbs(s) \in Seq(V) /\ Len(OutUrbs(s)) = Len(a)
      /\ OutUrbs(t) \in Seq(V) /\ Len(OutUrbs(t)) = Len(b)
  BY <1>4, <1>5, <1>6
<1>8. Extends(OutUrbs(s), OutUrbs(t))
  <2>1. Len(b) <= Len(a) /\ \A i \in 1 .. Len(b) : a[i] = b[i]
    BY <1>2 DEF Extends, a, b
  <2>2. \A i \in 1 .. Len(b) : i \in 1 .. Len(a)
    BY <1>5, <2>1
  <2> QED
    BY <1>4, <1>5, <1>7, <2>1, <2>2 DEF Extends
<1> QED
  BY <1>7, <1>8 DEF V, t

\* Every payload is one of the two kinds, what HandleUrbSubmit makes of one is in
\* range (its direction and endpoint, cut to a byte, and the setup packet), and the
\* configuration of a virtual device stays a byte.
THEOREM TypeCorrect == Spec => []TypeOK
<1>1. IInv => TypeOK
  <2> SUFFICES ASSUME IInv PROVE TypeOK
    OBVIOUS
  <2>1. HistoryInv /\ DeviceInv
    BY DEF IInv
  <2>2. \A m \in Range(wire) : m.type \in {"URB_SUBMIT", "DEVICE_LIST_RESPONSE"}
    <3>1. \A m \in Messages : m.type \in {"URB_SUBMIT", "DEVICE_LIST_RESPONSE"}
      BY DEF Messages, CreateUsbipSubmit, ListMessage
    <3>2. \A i \in DOMAIN wire : wire[i] \in Messages
      BY <2>1, ElementOfSeq DEF HistoryInv
    <3> QED
      BY <3>1, <3>2 DEF Range
  <2>3. \A urb \in Range(received) :
           /\ urb.endpoint \in Byte /\ urb.direction \in {OUT, IN_}
           /\ urb.setup.bRequest \in Byte /\ urb.setup.wValue \in UInt16
    <3>1. \A urb \in ReceivedUrbs :
             /\ urb.endpoint \in Byte /\ urb.direction \in {OUT, IN_}
             /\ urb.setup.bRequest \in Byte /\ urb.setup.wValue \in UInt16
      BY DEF ReceivedUrbs, Setups
    <3>2. \A i \in DOMAIN received : received[i] \in ReceivedUrbs
      BY <2>1, ElementOfSeq DEF HistoryInv
    <3> QED
      BY <3>1, <3>2 DEF Range
  <2>4. \A d \in Range(virtual_devices_) : d.current_configuration_ \in Byte
    <3>1. \A i \in DOMAIN virtual_devices_ : virtual_devices_[i] \in Devices
      BY <2>1, ElementOfSeq DEF DeviceInv
    <3> QED
      BY <3>1 DEF Range, Devices
  <2> QED
    BY <2>1, <2>2, <2>3, <2>4 DEF TypeOK, HistoryInv, DeviceInv
<1> QED
  BY <1>1, Invariance, PTL

\* No host-to-device URB is lost, altered or reordered by SerializeCmdSubmit and
\* HandleUrbSubmit, whatever its setup packet, its data and the lists in between.
THEOREM OutUrbsSafe == Spec => []OutUrbsArrive
<1>1. IInv => OutUrbsArrive
  <2> SUFFICES ASSUME IInv PROVE OutUrbsArrive
    OBVIOUS
  <2>1. HistoryInv /\ WireInv
    BY DEF IInv
  <2>2. PICK n \in 0 .. Len(sent) :
           Flow(wire, sent, n, lists, Len(devices)) /\ GotFrom(received, sent, n)
    BY <2>1 DEF WireInv
  <2>3. sent \in Seq(Urbs) /\ wire \in Seq(Messages)
    BY <2>1 DEF HistoryInv
  <2>4. OutUrbs(received) = OutUrbs(SubSeq(sent, 1, n))
    BY <2>2 DEF GotFrom
  <2>5. IsPrefix(OutUrbs(received), OutUrbs(sent))
    <3> DEFINE V == {Visible(urb) : urb \in Urbs}
               x == OutUrbs(SubSeq(sent, 1, n))
               y == OutUrbs(sent)
    <3>1. x \in Seq(V) /\ y \in Seq(V) /\ Extends(y, x)
      BY <2>3, VisibleExtends, Zenon
    <3> HIDE DEF V, x, y
    <3>2. IsPrefix(x, y)
      BY <3>1, PrefixOf, Zenon
    <3> QED
      BY <2>4, <3>2 DEF x, y
  <2>6. wire = <<>> => OutUrbs(received) = OutUrbs(sent)
    <3>1. Len(wire) \in Nat /\ (wire = <<>> => Len(wire) = 0)
      BY <2>3
    <3>2. wire = <<>> => n = Len(sent)
      BY <2>2, <3>1, FlowBounds
    <3>3. SubSeq(sent, 1, Len(sent)) = sent
      BY <2>3, SubSeqFull
    <3> QED
      BY <2>4, <3>2, <3>3
  <2> QED
    BY <2>5, <2>6 DEF OutUrbsArrive
<1> QED
  BY <1>1, Invariance, PTL

\* No device list, an empty one included, is lost, altered or reordered by
\* SerializeDeviceList and HandleDeviceListResponse.
THEOREM ListsSafe == Spec => []ListsArrive
<1>1. IInv => ListsArrive
  <2> SUFFICES ASSUME IInv PROVE ListsArrive
    OBVIOUS
  <2>1. HistoryInv /\ WireInv
    BY DEF IInv
  <2>2. PICK n \in 0 .. Len(sent) : Flow(wire, sent, n, lists, Len(devices))
    BY <2>1 DEF WireInv
  <2>3. lists \in Seq(DeviceLists) /\ devices \in Seq(DeviceLists) /\ Len(wire) \in Nat
        /\ (wire = <<>> => Len(wire) = 0)
    BY <2>1 DEF HistoryInv
  <2>4. Len(devices) \in 0 .. Len(lists) /\ (wire = <<>> => Len(devices) = Len(lists))
    BY <2>2, <2>3, FlowBounds
  <2>5. \A i \in 1 .. Len(devices) : devices[i] = lists[i]
    BY <2>1 DEF WireInv
  <2>6. IsPrefix(devices, lists)
    <3>1. Extends(lists, devices)
      BY <2>4, <2>5 DEF Extends
    <3> QED
      BY <2>3, <3>1, PrefixOf
  <2>7. wire = <<>> => devices = lists
    BY <2>3, <2>4, <2>5, SeqEqual
  <2> QED
    BY <2>6, <2>7 DEF ListsArrive
<1> QED
  BY <1>1, Invariance, PTL

\* current_configuration_ of the device that OnUrbReceived serves follows the
\* captured SET_CONFIGURATION requests, through the conversion of wValue and its
\* truncation to a byte; imports and further devices do not disturb it.
THEOREM ConfigurationSafe == Spec => []ConfigurationInStep
<1> QED
  BY Invariance, PTL DEF IInv

\* VirtualUsbDevice answers every host-to-device URB that finds it, once and in the
\* order in which they were captured, and a command block with its own data.
THEOREM AnswersSafe == Spec => []AnswersInOrder
<1>1. IInv => AnswersInOrder
  <2> SUFFICES ASSUME IInv PROVE AnswersInOrder
    OBVIOUS
  <2>1. HistoryInv /\ DeviceInv /\ WireInv /\ AnswerInv
    BY DEF IInv
  <2>2. Answers = AnswersOf(responses) /\ Asked = AskedOf(sent, received, unattended)
    BY DEF Answers, AnswersOf, Asked, AskedOf
  <2>3. Answers \in Seq(Responses)
    BY <2>1, <2>2, PickType DEF DeviceInv, AnswersOf
  <2>4. /\ Len(Answers) = Len(Asked)
        /\ \A i \in 1 .. Len(Asked) : Suits(Answers[i], Asked[i])
    BY <2>1, <2>2, Zenon DEF AnswerInv, Answered
  <2>5. DOMAIN Answers = 1 .. Len(Asked)
    BY <2>3, <2>4
  <2> QED
    BY <2>1, <2>4, <2>5 DEF AnswersInOrder, AnswerInv, Suits
<1> QED
  BY <1>1, Invariance, PTL
=============================================================================
