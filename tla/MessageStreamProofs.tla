------------------------ MODULE MessageStreamProofs ------------------------
(***************************************************************************)
(* Proofs about MessageStream, for every base, magic number and maximal    *)
(* size, and all messages.                                                 *)
(***************************************************************************)
EXTENDS MessageStream, SequenceTheorems, WellFoundedInduction, TLAPS

-----------------------------------------------------------------------------
(* Induction, stated for a set instead of a predicate *)

\* Every set of natural numbers that is not empty has a least element.
LEMMA LeastNatural ==
    ASSUME NEW T, T \subseteq Nat, T # {}
    PROVE  \E p \in T : \A q \in T : p <= q
<1> DEFINE R == {ss \in Nat \X Nat : ss[1] < ss[2]}
<1>1. IsWellFoundedOn(R, Nat)
  BY NatLessThanWellFounded, Zenon DEF OpToRel
<1> HIDE DEF R
<1>2. PICK p \in T : \A q \in T : ~(<<q, p>> \in R)
  BY <1>1, WFMin
<1>3. \A q \in T : ~(q < p)
  BY <1>2 DEF R
<1> QED
  BY <1>3

\* A set that holds 0 and the successor of each number it holds has them all.
LEMMA SetInduction ==
    ASSUME NEW T, 0 \in T, \A n \in Nat : n \in T => n + 1 \in T
    PROVE  Nat \subseteq T
<1> DEFINE U == Nat \ T
<1>1. SUFFICES ASSUME U # {} PROVE FALSE
  BY <1>1
<1>2. PICK p \in U : \A q \in U : p <= q
  BY <1>1, LeastNatural
<1>3. p \in Nat /\ p # 0
  BY <1>2
<1>4. p - 1 \in Nat /\ ~(p <= p - 1) /\ (p - 1) + 1 = p
  BY <1>3
<1>5. p - 1 \in T
  BY <1>2, <1>4
<1> QED
  BY <1>2, <1>4, <1>5

\* The same from 1 to a bound.
LEMMA UpTo ==
    ASSUME NEW N \in Nat, NEW T, N # 0 => 1 \in T,
           \A n \in 1 .. N - 1 : n \in T => n + 1 \in T
    PROVE  1 .. N \subseteq T
<1> DEFINE U == {n \in Nat : n + 1 \in 1 .. N => n + 1 \in T}
<1>1. 0 \in U
  OBVIOUS
<1>2. \A n \in Nat : n \in U => n + 1 \in U
  OBVIOUS
<1> HIDE DEF U
<1>3. Nat \subseteq U
  BY <1>1, <1>2, SetInduction
<1>4. \A i \in 1 .. N : i - 1 \in U /\ (i - 1) + 1 = i
  BY <1>3
<1> QED
  BY <1>4 DEF U

-----------------------------------------------------------------------------
(* Concatenation and FlattenSeq (SequencesExt), which joins sequences *)

\* Concatenation, kept folded where the steps only rewrite.
Cat(a, b) == a \o b

LEMMA CatType ==
    ASSUME NEW D, NEW a \in Seq(D), NEW b \in Seq(D)
    PROVE  Cat(a, b) \in Seq(D)
  BY ConcatProperties DEF Cat

LEMMA CatProperties ==
    ASSUME NEW D, NEW a \in Seq(D), NEW b \in Seq(D)
    PROVE  /\ Len(Cat(a, b)) = Len(a) + Len(b)
           /\ \A i \in 1 .. Len(a) : Cat(a, b)[i] = a[i]
           /\ \A i \in 1 .. Len(b) : Cat(a, b)[Len(a) + i] = b[i]
  BY DEF Cat

LEMMA CatCancel ==
    ASSUME NEW D, NEW a \in Seq(D), NEW b \in Seq(D), NEW c \in Seq(D),
           Cat(a, b) = Cat(a, c)
    PROVE  b = c
  BY ConcatSimplifications DEF Cat

LEMMA CatAssociative ==
    ASSUME NEW D, NEW a \in Seq(D), NEW b \in Seq(D), NEW c \in Seq(D)
    PROVE  Cat(Cat(a, b), c) = Cat(a, Cat(b, c))
  BY ConcatAssociative DEF Cat

LEMMA CatEmpty ==
    ASSUME NEW D, NEW a \in Seq(D)
    PROVE  Cat(a, <<>>) = a /\ Cat(<<>>, a) = a
  BY ConcatEmptySeq DEF Cat

\* One value of the recursion of FlattenSeq.
Joined(F, s, i) == IF i = 1 THEN s[i] ELSE Cat(F[i-1], s[i])

\* F[i] is what the first i sequences of s make together.
IsFlat(F, s) == F = [i \in 1 .. Len(s) |-> Joined(F, s, i)]

\* There is such a function.
LEMMA FlatExists ==
    ASSUME NEW S, NEW s \in Seq(S)
    PROVE  \E F : IsFlat(F, s)
<1> DEFINE T == {n \in Nat : \E F : F = [i \in 1 .. n |-> Joined(F, s, i)]}
<1>1. 0 \in T
  <2>1. <<>> = [i \in 1 .. 0 |-> Joined(<<>>, s, i)]
    OBVIOUS
  <2> QED
    BY <2>1
<1>2. ASSUME NEW n \in Nat, n \in T PROVE n + 1 \in T
  <2>1. PICK F : F = [i \in 1 .. n |-> Joined(F, s, i)]
    BY <1>2
  <2> DEFINE G == [i \in 1 .. n + 1 |-> IF i <= n THEN F[i] ELSE Joined(F, s, i)]
  <2>2. ASSUME NEW i \in 1 .. n PROVE F[i] = Joined(F, s, i)
    BY <2>1, Zenon
  <2>3. ASSUME NEW i \in 1 .. n + 1 PROVE Joined(G, s, i) = Joined(F, s, i)
    <3>1. i # 1 => i - 1 \in 1 .. n /\ G[i-1] = F[i-1]
      OBVIOUS
    <3> HIDE DEF G
    <3> QED
      BY <3>1, Zenon DEF Joined
  <2>4. ASSUME NEW i \in 1 .. n + 1 PROVE G[i] = Joined(G, s, i)
    BY <2>2, <2>3
  <2>5. DOMAIN G = 1 .. n + 1 /\ G = [i \in DOMAIN G |-> G[i]]
    OBVIOUS
  <2> HIDE DEF G
  <2>6. G = [i \in 1 .. n + 1 |-> Joined(G, s, i)]
    BY <2>4, <2>5
  <2>7. \E K : K = [i \in 1 .. n + 1 |-> Joined(K, s, i)]
    BY <2>6, Zenon
  <2>8. n + 1 \in Nat
    OBVIOUS
  <2> QED
    BY <2>7, <2>8, Zenon
<1>3. Len(s) \in T
  <2> HIDE DEF T
  <2> QED
    BY <1>1, <1>2, SetInduction
<1> QED
  BY <1>3 DEF IsFlat

\* It is the one that FlattenSeq takes its value from.
LEMMA FlattenDef ==
    ASSUME NEW S, NEW s \in Seq(S), s # <<>>
    PROVE  \E F : IsFlat(F, s) /\ FlattenSeq(s) = F[Len(s)]
<1> DEFINE C == CHOOSE F : IsFlat(F, s)
<1>1. IsFlat(C, s)
  BY FlatExists
<1>2. FlattenSeq(s) = C[Len(s)]
  BY DEF FlattenSeq, IsFlat, Joined, Cat
<1> QED
  BY <1>1, <1>2

LEMMA FlattenEmpty == FlattenSeq(<<>>) = <<>>
<1>1. Len(<<>>) = 0
  OBVIOUS
<1> QED
  BY <1>1, Zenon DEF FlattenSeq

\* The recursion, element by element, with the types of its values.
LEMMA FlatStep ==
    ASSUME NEW D, NEW s \in Seq(Seq(D)), NEW F, IsFlat(F, s)
    PROVE  /\ s # <<>> => F[1] = s[1]
           /\ \A i \in 1 .. Len(s) - 1 : F[i+1] = Cat(F[i], s[i+1])
           /\ \A i \in 1 .. Len(s) : F[i] \in Seq(D)
<1>1. ASSUME NEW i \in 1 .. Len(s) PROVE F[i] = Joined(F, s, i)
  BY Zenon DEF IsFlat
<1>2. s # <<>> => F[1] = s[1]
  BY <1>1 DEF Joined
<1>3. ASSUME NEW i \in 1 .. Len(s) - 1 PROVE F[i+1] = Cat(F[i], s[i+1])
  <2>1. i + 1 \in 1 .. Len(s) /\ i + 1 # 1 /\ (i + 1) - 1 = i
    OBVIOUS
  <2> QED
    BY <1>1, <2>1, Zenon DEF Joined
<1> DEFINE T == {i \in 1 .. Len(s) : F[i] \in Seq(D)}
<1>4. Len(s) # 0 => 1 \in T
  BY <1>2
<1>5. ASSUME NEW i \in 1 .. Len(s) - 1, i \in T PROVE i + 1 \in T
  <2>1. F[i] \in Seq(D) /\ i + 1 \in 1 .. Len(s)
    BY <1>5
  <2>2. s[i+1] \in Seq(D)
    BY <2>1, ElementOfSeq
  <2>3. Cat(F[i], s[i+1]) \in Seq(D)
    BY <2>1, <2>2, CatType
  <2> QED
    BY <2>1, <2>3, <1>3
<1>6. 1 .. Len(s) \subseteq T
  <2> HIDE DEF T
  <2>1. Len(s) \in Nat
    OBVIOUS
  <2> QED
    BY <1>4, <1>5, <2>1, UpTo
<1> QED
  BY <1>2, <1>3, <1>6

LEMMA FlattenType ==
    ASSUME NEW D, NEW s \in Seq(Seq(D))
    PROVE  FlattenSeq(s) \in Seq(D)
<1>1. CASE s = <<>>
  BY <1>1, FlattenEmpty, EmptySeq
<1>2. CASE s # <<>>
  <2>1. PICK F : IsFlat(F, s) /\ FlattenSeq(s) = F[Len(s)]
    BY <1>2, FlattenDef
  <2>2. Len(s) \in 1 .. Len(s)
    BY <1>2
  <2> QED
    BY <2>1, <2>2, FlatStep
<1> QED
  BY <1>1, <1>2

\* A sequence that is added at the end comes at the end of the stream.
LEMMA FlattenAppend ==
    ASSUME NEW D, NEW s \in Seq(Seq(D)), NEW e \in Seq(D)
    PROVE  FlattenSeq(Append(s, e)) = Cat(FlattenSeq(s), e)
<1> DEFINE t == Append(s, e)
<1>1. /\ t \in Seq(Seq(D)) /\ t # <<>> /\ Len(t) = Len(s) + 1
      /\ \A i \in 1 .. Len(s) : t[i] = s[i]
      /\ t[Len(s) + 1] = e
  <2> DEFINE S == Seq(D)
  <2>1. s \in Seq(S) /\ e \in S
    OBVIOUS
  <2> HIDE DEF S
  <2>2. /\ t \in Seq(S) /\ t # <<>> /\ Len(t) = Len(s) + 1
        /\ \A i \in 1 .. Len(s) : t[i] = s[i]
        /\ t[Len(s) + 1] = e
    BY <2>1, AppendProperties
  <2> QED
    BY <2>2 DEF S
<1> HIDE DEF t
<1>2. PICK G : IsFlat(G, t) /\ FlattenSeq(t) = G[Len(t)]
  BY <1>1, FlattenDef
<1>3. /\ G[1] = t[1]
      /\ \A i \in 1 .. Len(t) - 1 : G[i+1] = Cat(G[i], t[i+1])
  <2>1. t \in Seq(Seq(D)) /\ t # <<>> /\ IsFlat(G, t)
    BY <1>1, <1>2, Zenon
  <2> QED
    BY <2>1, FlatStep
<1>4. CASE s = <<>>
  <2>1. FlattenSeq(t) = e
    BY <1>1, <1>2, <1>3, <1>4
  <2> QED
    BY <2>1, <1>4, FlattenEmpty, CatEmpty DEF t
<1>5. CASE s # <<>>
  <2>1. PICK F : IsFlat(F, s) /\ FlattenSeq(s) = F[Len(s)]
    BY <1>5, FlattenDef
  <2>2. /\ F[1] = s[1]
        /\ \A i \in 1 .. Len(s) - 1 : F[i+1] = Cat(F[i], s[i+1])
    BY <1>5, <2>1, FlatStep
  <2> DEFINE T == {i \in 1 .. Len(s) : G[i] = F[i]}
  <2>3. 1 \in T
    BY <1>1, <1>3, <1>5, <2>2
  <2>4. ASSUME NEW i \in 1 .. Len(s) - 1, i \in T PROVE i + 1 \in T
    <3>1. i \in 1 .. Len(t) - 1 /\ i + 1 \in 1 .. Len(s)
      BY <1>1
    <3>2. G[i+1] = Cat(G[i], t[i+1]) /\ F[i+1] = Cat(F[i], s[i+1]) /\ t[i+1] = s[i+1]
      BY <1>1, <1>3, <2>2, <3>1, Zenon
    <3>3. G[i+1] = F[i+1]
      BY <2>4, <3>2
    <3> QED
      BY <3>1, <3>3
  <2>5. 1 .. Len(s) \subseteq T
    <3> HIDE DEF T
    <3>1. Len(s) \in Nat
      OBVIOUS
    <3> QED
      BY <2>3, <2>4, <3>1, UpTo
  <2>6. G[Len(s)] = F[Len(s)]
    <3>1. Len(s) \in 1 .. Len(s)
      BY <1>5, EmptySeq
    <3>2. Len(s) \in T
      BY <2>5, <3>1, Zenon
    <3> QED
      BY <3>2
  <2>7. G[Len(s) + 1] = Cat(G[Len(s)], t[Len(s) + 1])
    BY <1>1, <1>3, <1>5
  <2> QED
    BY <1>1, <1>2, <2>1, <2>6, <2>7 DEF t
<1> QED
  BY <1>4, <1>5

\* The first sequence comes first, and then what the others make together.
LEMMA FlattenHead ==
    ASSUME NEW D, NEW s \in Seq(Seq(D)), s # <<>>
    PROVE  FlattenSeq(s) = Cat(Head(s), FlattenSeq(Tail(s)))
<1> DEFINE t == Tail(s)
<1>1. /\ t \in Seq(Seq(D)) /\ Len(t) = Len(s) - 1 /\ Head(s) = s[1]
      /\ \A i \in 1 .. Len(t) : t[i] = s[i+1]
  BY HeadTailProperties
<1> HIDE DEF t
<1>2. PICK F : IsFlat(F, s) /\ FlattenSeq(s) = F[Len(s)]
  BY FlattenDef
<1>3. /\ F[1] = s[1]
      /\ \A i \in 1 .. Len(s) - 1 : F[i+1] = Cat(F[i], s[i+1])
  BY <1>2, FlatStep
<1>4. CASE t = <<>>
  <2>1. Len(s) = 1 /\ s[1] \in Seq(D)
    BY <1>1, <1>4
  <2>2. FlattenSeq(s) = s[1]
    BY <1>2, <1>3, <2>1
  <2>3. Cat(s[1], <<>>) = s[1]
    BY <2>1, CatEmpty
  <2> QED
    BY <1>1, <1>4, <2>2, <2>3, FlattenEmpty DEF t
<1>5. CASE t # <<>>
  <2>1. PICK G : IsFlat(G, t) /\ FlattenSeq(t) = G[Len(t)]
    BY <1>1, <1>5, FlattenDef
  <2>2. /\ G[1] = t[1]
        /\ \A i \in 1 .. Len(t) - 1 : G[i+1] = Cat(G[i], t[i+1])
        /\ \A i \in 1 .. Len(t) : G[i] \in Seq(D)
    BY <1>1, <1>5, <2>1, FlatStep
  <2> DEFINE T == {i \in 1 .. Len(t) : F[i+1] = Cat(s[1], G[i])}
  <2>3. 1 \in T
    <3>1. F[1+1] = Cat(F[1], s[1+1]) /\ t[1] = s[1+1]
      BY <1>1, <1>3, <1>5
    <3> QED
      BY <1>1, <1>3, <1>5, <2>2, <3>1
  <2>4. ASSUME NEW i \in 1 .. Len(t) - 1, i \in T PROVE i + 1 \in T
    <3>1. /\ i + 1 \in 1 .. Len(t)
          /\ F[(i+1)+1] = Cat(F[i+1], s[(i+1)+1]) /\ t[i+1] = s[(i+1)+1]
          /\ G[i+1] = Cat(G[i], t[i+1])
      <4>1. /\ i \in 1 .. Len(t) /\ i + 1 \in 1 .. Len(t)
            /\ i + 1 \in 1 .. Len(s) - 1
        BY <1>1
      <4> QED
        BY <1>1, <1>3, <2>2, <4>1, Zenon
    <3>2. s[1] \in Seq(D) /\ G[i] \in Seq(D) /\ t[i+1] \in Seq(D)
      <4>1. i \in 1 .. Len(t) /\ 1 \in 1 .. Len(s)
        BY <1>1
      <4>2. G[i] \in Seq(D)
        BY <2>2, <4>1, Zenon
      <4>3. s[1] \in Seq(D) /\ t[i+1] \in Seq(D)
        BY <1>1, <3>1, <4>1, ElementOfSeq, Zenon
      <4> QED
        BY <4>2, <4>3
    <3>3. Cat(Cat(s[1], G[i]), t[i+1]) = Cat(s[1], Cat(G[i], t[i+1]))
      BY <3>2, CatAssociative
    <3>4. F[(i+1)+1] = Cat(s[1], G[i+1])
      BY <2>4, <3>1, <3>3
    <3> QED
      BY <3>1, <3>4
  <2>5. 1 .. Len(t) \subseteq T
    <3> HIDE DEF T
    <3>1. Len(t) \in Nat
      BY <1>1
    <3> QED
      BY <2>3, <2>4, <3>1, UpTo
  <2>6. F[Len(t) + 1] = Cat(s[1], G[Len(t)])
    <3>1. Len(t) \in 1 .. Len(t)
      BY <1>1, <1>5
    <3> QED
      BY <2>5, <3>1
  <2>7. Len(t) + 1 = Len(s)
    BY <1>1
  <2> QED
    BY <1>1, <1>2, <2>1, <2>6, <2>7 DEF t
<1> QED
  BY <1>4, <1>5

-----------------------------------------------------------------------------
(* Messages and bytes *)

Packets == [tag : Digits, payload : Seq(Digits)]

Bytes == Seq(Digits)

\* Two runs of bytes, one after the other.
LEMMA CatBytes ==
    ASSUME NEW a \in Bytes, NEW b \in Bytes
    PROVE  /\ Cat(a, b) \in Bytes
           /\ Len(Cat(a, b)) = Len(a) + Len(b)
           /\ \A i \in 1 .. Len(a) : Cat(a, b)[i] = a[i]
           /\ \A i \in 1 .. Len(b) : Cat(a, b)[Len(a) + i] = b[i]
<1>1. Cat(a, b) \in Bytes
  BY CatType DEF Bytes
<1>2. /\ Len(Cat(a, b)) = Len(a) + Len(b)
      /\ \A i \in 1 .. Len(a) : Cat(a, b)[i] = a[i]
      /\ \A i \in 1 .. Len(b) : Cat(a, b)[Len(a) + i] = b[i]
  BY CatProperties DEF Bytes
<1> QED
  BY <1>1, <1>2

LEMMA BytesAssociative ==
    ASSUME NEW a \in Bytes, NEW b \in Bytes, NEW c \in Bytes
    PROVE  Cat(Cat(a, b), c) = Cat(a, Cat(b, c))
  BY CatAssociative DEF Bytes

\* Bytes that are cut at n.
LEMMA Cut ==
    ASSUME NEW a \in Bytes, NEW n \in 0 .. Len(a)
    PROVE  /\ SubSeq(a, 1, n) \in Bytes /\ Len(SubSeq(a, 1, n)) = n
           /\ SubSeq(a, n + 1, Len(a)) \in Bytes
           /\ Len(SubSeq(a, n + 1, Len(a))) = Len(a) - n
           /\ a = Cat(SubSeq(a, 1, n), SubSeq(a, n + 1, Len(a)))
<1>1. a \in Seq(Digits) /\ Len(a) \in Nat
  BY DEF Bytes
<1>2. \A i \in 1 .. Len(a) : a[i] \in Digits
  BY <1>1, ElementOfSeq
<1>3. SubSeq(a, 1, n) \in Bytes /\ Len(SubSeq(a, 1, n)) = n
  BY <1>1, <1>2, SubSeqProperties DEF Bytes
<1>4. /\ SubSeq(a, n + 1, Len(a)) \in Bytes
      /\ Len(SubSeq(a, n + 1, Len(a))) = Len(a) - n
  BY <1>1, <1>2, SubSeqProperties DEF Bytes
<1>5. SubSeq(a, 1, n) \o SubSeq(a, n + 1, Len(a)) = SubSeq(a, 1, Len(a))
  <2>1. 1 \in 1 .. Len(a) + 1 /\ n \in 1 - 1 .. Len(a) /\ Len(a) \in n .. Len(a)
    BY <1>1
  <2> QED
    BY <1>1, <2>1, ConcatAdjacentSubSeq, Zenon
<1>6. SubSeq(a, 1, Len(a)) = a
  BY <1>1, SubSeqFull
<1> QED
  BY <1>3, <1>4, <1>5, <1>6 DEF Cat

\* Two ways to cut a stream: the shorter front is the beginning of the longer one.
LEMMA SameStream ==
    ASSUME NEW a \in Bytes, NEW b \in Bytes, NEW c \in Bytes, NEW d \in Bytes,
           Cat(a, b) = Cat(c, d), Len(c) <= Len(a)
    PROVE  /\ SubSeq(a, 1, Len(c)) = c
           /\ Cat(SubSeq(a, Len(c) + 1, Len(a)), b) = d
<1> DEFINE x == SubSeq(a, 1, Len(c))
           y == SubSeq(a, Len(c) + 1, Len(a))
<1>1. Len(a) \in Nat /\ Len(c) \in Nat
  BY DEF Bytes
<1>2. x \in Bytes /\ Len(x) = Len(c) /\ y \in Bytes /\ a = Cat(x, y)
  BY <1>1, Cut
<1> HIDE DEF x, y
<1>3. Cat(x, Cat(y, b)) = Cat(c, d)
  BY <1>2, BytesAssociative
<1>4. Cat(y, b) \in Bytes
  BY <1>2, CatBytes
<1>5. ASSUME NEW i \in 1 .. Len(c) PROVE x[i] = c[i]
  <2>1. Cat(x, Cat(y, b))[i] = x[i]
    BY <1>2, <1>4, CatBytes
  <2>2. Cat(c, d)[i] = c[i]
    BY CatBytes
  <2> QED
    BY <1>3, <2>1, <2>2
<1>6. x = c
  BY <1>2, <1>5, SeqEqual DEF Bytes
<1>7. Cat(y, b) = d
  BY <1>3, <1>4, <1>6, CatCancel DEF Bytes
<1> QED
  BY <1>6, <1>7 DEF x, y

-----------------------------------------------------------------------------
(* SerializeMessage *)

\* A solution of the recursion of CalculateChecksum.
IsSum(F, payload) ==
    F = [n \in 0 .. Len(payload) |->
            IF n = 0 THEN 0 ELSE (F[n - 1] + payload[n]) % Base]

LEMMA SumExists ==
    ASSUME NEW payload \in Seq(Digits)
    PROVE  \E F : IsSum(F, payload)
<1> DEFINE Step(F, n) == IF n = 0 THEN 0 ELSE (F[n - 1] + payload[n]) % Base
           T == {k \in Nat : \E F : F = [n \in 0 .. k |-> Step(F, n)]}
<1>1. 0 \in T
  <2> DEFINE Z == [n \in 0 .. 0 |-> 0]
  <2>1. Z = [n \in 0 .. 0 |-> Step(Z, n)]
    OBVIOUS
  <2> HIDE DEF Z, Step
  <2>2. \E F : F = [n \in 0 .. 0 |-> Step(F, n)]
    BY <2>1, Zenon
  <2> QED
    BY <2>2
<1>2. ASSUME NEW k \in Nat, k \in T PROVE k + 1 \in T
  <2> HIDE DEF Step
  <2>1. PICK F : F = [n \in 0 .. k |-> Step(F, n)]
    BY <1>2
  <2> DEFINE G == [n \in 0 .. k + 1 |-> IF n <= k THEN F[n] ELSE Step(F, n)]
  <2>2. ASSUME NEW n \in 0 .. k PROVE F[n] = Step(F, n)
    BY <2>1, Zenon
  <2>3. ASSUME NEW n \in 0 .. k + 1 PROVE Step(G, n) = Step(F, n)
    <3>1. n # 0 => n - 1 \in 0 .. k /\ G[n - 1] = F[n - 1]
      OBVIOUS
    <3> HIDE DEF G
    <3> QED
      BY <3>1, Zenon DEF Step
  <2>4. ASSUME NEW n \in 0 .. k + 1 PROVE G[n] = Step(G, n)
    BY <2>2, <2>3
  <2>5. DOMAIN G = 0 .. k + 1 /\ G = [n \in DOMAIN G |-> G[n]]
    OBVIOUS
  <2> HIDE DEF G
  <2>6. G = [n \in 0 .. k + 1 |-> Step(G, n)]
    BY <2>4, <2>5
  <2>7. \E K : K = [n \in 0 .. k + 1 |-> Step(K, n)]
    BY <2>6, Zenon
  <2>8. k + 1 \in Nat
    OBVIOUS
  <2> QED
    BY <2>7, <2>8, Zenon
<1>3. Len(payload) \in T
  <2> HIDE DEF T
  <2> QED
    BY <1>1, <1>2, SetInduction
<1> QED
  BY <1>3 DEF IsSum

\* The checksum fits in its field, and that of an empty payload is 0, which is
\* what ValidateMessage compares with.
LEMMA ChecksumType ==
    ASSUME NEW payload \in Seq(Digits)
    PROVE  /\ CalculateChecksum(payload) \in Digits
           /\ payload = <<>> => CalculateChecksum(payload) = 0
<1> DEFINE C == CHOOSE F : IsSum(F, payload)
           N == Len(payload)
<1>1. IsSum(C, payload)
  BY SumExists
<1>2. CalculateChecksum(payload) = C[N]
  BY DEF CalculateChecksum, IsSum
<1> HIDE DEF C
<1>3. N \in Nat /\ \A n \in 1 .. N : payload[n] \in Nat
  BY BaseAssumption DEF Digits
<1>4. C[0] = 0 /\ \A n \in 1 .. N : C[n] = (C[n - 1] + payload[n]) % Base
  <2>1. \A n \in 0 .. N :
           C[n] = IF n = 0 THEN 0 ELSE (C[n - 1] + payload[n]) % Base
    BY <1>1, Zenon DEF IsSum
  <2>2. 0 \in 0 .. N /\ \A n \in 1 .. N : n \in 0 .. N /\ n # 0
    BY <1>3
  <2> QED
    BY <2>1, <2>2, Zenon
<1> HIDE DEF N
<1>5. 0 \in Digits
  BY BaseAssumption DEF Digits
<1> DEFINE T == {n \in Nat : n <= N => C[n] \in Digits}
<1>6. 0 \in T
  BY <1>4, <1>5
<1>7. ASSUME NEW n \in Nat, n \in T PROVE n + 1 \in T
  <2>1. CASE n + 1 > N
    BY <2>1, <1>3
  <2>2. CASE n + 1 <= N
    <3>1. n + 1 \in 1 .. N /\ (n + 1) - 1 = n
      BY <1>3, <2>2
    <3>2. C[n + 1] = (C[n] + payload[n + 1]) % Base /\ payload[n + 1] \in Nat
      BY <1>3, <1>4, <3>1
    <3>3. C[n] \in Nat
      BY <1>3, <1>7, <2>2 DEF Digits
    <3>4. C[n + 1] \in Digits
      <4> DEFINE sum == C[n] + payload[n + 1]
      <4>1. sum \in Nat
        BY <3>2, <3>3
      <4> HIDE DEF sum
      <4>2. sum % Base \in 0 .. Base - 1
        BY <4>1, BaseAssumption
      <4> QED
        BY <3>2, <4>2 DEF sum, Digits
    <3> QED
      BY <3>4
  <2> QED
    BY <2>1, <2>2, <1>3
<1>8. C[N] \in Digits
  <2> HIDE DEF T
  <2>1. N \in T
    BY <1>3, <1>6, <1>7, SetInduction
  <2> QED
    BY <2>1, <1>3 DEF T
<1>9. payload = <<>> => C[N] = 0
  BY <1>4 DEF N
<1> QED
  BY <1>2, <1>8, <1>9

\* What SerializeMessage writes, byte by byte.
LEMMA Serialized ==
    ASSUME NEW m \in Packets, Len(m.payload) < Base
    PROVE  LET s == SerializeMessage(m) IN
           /\ s \in Bytes /\ Len(s) = HeaderSize + Len(m.payload)
           /\ s[1] = MESSAGE_MAGIC[1] /\ s[2] = MESSAGE_MAGIC[2]
           /\ s[3] = m.tag /\ s[4] = Len(m.payload)
           /\ s[5] = CalculateChecksum(m.payload)
           /\ \A i \in 1 .. Len(m.payload) : s[HeaderSize + i] = m.payload[i]
<1> DEFINE head == <<m.tag, Len(m.payload), CalculateChecksum(m.payload)>>
           front == Cat(MESSAGE_MAGIC, head)
<1>1. m.tag \in Digits /\ m.payload \in Bytes /\ Len(m.payload) \in Digits
  BY BaseAssumption DEF Packets, Bytes, Digits
<1>2. CalculateChecksum(m.payload) \in Digits
  BY <1>1, ChecksumType DEF Bytes
<1>3. /\ head \in Bytes /\ Len(head) = 3
      /\ head[1] = m.tag /\ head[2] = Len(m.payload)
      /\ head[3] = CalculateChecksum(m.payload)
  BY <1>1, <1>2 DEF Bytes
<1> HIDE DEF head
<1>4. /\ front \in Bytes /\ Len(front) = 5
      /\ \A i \in 1 .. 2 : front[i] = MESSAGE_MAGIC[i]
      /\ \A i \in 1 .. 3 : front[2 + i] = head[i]
  <2>1. MESSAGE_MAGIC \in Bytes /\ Len(MESSAGE_MAGIC) = 2
    BY MagicAssumption DEF Bytes
  <2>2. front \in Bytes
    BY <1>3, <2>1, CatBytes, Zenon
  <2>3. /\ Len(front) = Len(MESSAGE_MAGIC) + Len(head)
        /\ \A i \in 1 .. Len(MESSAGE_MAGIC) : front[i] = MESSAGE_MAGIC[i]
        /\ \A i \in 1 .. Len(head) : front[Len(MESSAGE_MAGIC) + i] = head[i]
    BY <1>3, <2>1, CatBytes, Zenon
  <2> HIDE DEF front
  <2> QED
    BY <1>3, <2>1, <2>2, <2>3
<1> HIDE DEF front
<1>5. SerializeMessage(m) = Cat(front, m.payload)
  BY DEF SerializeMessage, front, head, Cat
<1>6. /\ Cat(front, m.payload) \in Bytes
      /\ Len(Cat(front, m.payload)) = 5 + Len(m.payload)
      /\ \A i \in 1 .. 5 : Cat(front, m.payload)[i] = front[i]
      /\ \A i \in 1 .. Len(m.payload) : Cat(front, m.payload)[5 + i] = m.payload[i]
  <2>1. Cat(front, m.payload) \in Bytes
    BY <1>1, <1>4, CatBytes, Zenon
  <2>2. /\ Len(Cat(front, m.payload)) = Len(front) + Len(m.payload)
        /\ \A i \in 1 .. Len(front) : Cat(front, m.payload)[i] = front[i]
        /\ \A i \in 1 .. Len(m.payload) :
              Cat(front, m.payload)[Len(front) + i] = m.payload[i]
    BY <1>1, <1>4, CatBytes, Zenon
  <2> QED
    BY <1>4, <2>1, <2>2
<1>7. /\ front[1] = MESSAGE_MAGIC[1] /\ front[2] = MESSAGE_MAGIC[2]
      /\ front[2 + 1] = head[1] /\ front[2 + 2] = head[2] /\ front[2 + 3] = head[3]
  BY <1>4
<1> QED
  BY <1>1, <1>3, <1>5, <1>6, <1>7 DEF HeaderSize

-----------------------------------------------------------------------------
(* The inductive invariant *)

\* A message whose length fits in its field.
Fitting == {m \in Packets : Len(m.payload) < Base}

SizesInv == sent \in Seq(Fitting) /\ delivered \in Seq(Fitting)

IInv == TypeOK /\ SizesInv /\ BufferBounded

\* There is one thread that sends.
OneSender == \E s : Senders = {s}

\* What is left of the messages s after the messages d, serialized.
PendingOf(s, d) == [i \in 1 .. Len(s) - Len(d) |-> SerializeMessage(s[Len(d) + i])]

Stream(s) == Cat(Cat(receive_buffer_, wire), unsent[s])

\* StreamInFrame, in the terms of the lemmas.
Framed ==
    /\ IsPrefix(delivered, sent)
    /\ \A s \in Senders : Stream(s) = FlattenSeq(PendingOf(sent, delivered))

LEMMA FramedIs == StreamInFrame <=> (LegalSizes /\ ~torn => Framed)
  BY Zenon DEF StreamInFrame, Framed, Stream, PendingOf, Cat

-----------------------------------------------------------------------------
(* Types and bounds *)

\* What TypeOK says of the byte sequences.
LEMMA BytesOf ==
    ASSUME TypeOK
    PROVE  /\ receive_buffer_ \in Bytes /\ wire \in Bytes
           /\ \A s \in Senders : unsent[s] \in Bytes
  BY DEF TypeOK, Bytes

\* Erasing a front of receive_buffer_.
LEMMA ErasedType ==
    ASSUME TypeOK, NEW n \in 0 .. Len(receive_buffer_)
    PROVE  Erased(n) \in Bytes /\ Len(Erased(n)) = Len(receive_buffer_) - n
  BY BytesOf, Cut DEF Erased

\* The search for the magic number skips at least one byte.
LEMMA SkipToShrinks ==
    ASSUME TypeOK, HasHeader
    PROVE  /\ SkipTo(FoundFrom(2)) \in Bytes
           /\ Len(SkipTo(FoundFrom(2))) < Len(receive_buffer_)
<1> DEFINE found == FoundFrom(2)
           least == CHOOSE i \in found : \A j \in found : i <= j
<1>1. Len(receive_buffer_) \in Nat /\ Len(receive_buffer_) >= 5
  BY DEF TypeOK, HasHeader, HeaderSize
<1>2. found \subseteq 2 .. Len(receive_buffer_) - 1
  BY DEF FoundFrom
<1> HIDE DEF found
<1>3. CASE found = {}
  BY <1>1, <1>3, EmptySeq DEF SkipTo, Bytes, found
<1>4. CASE found # {}
  <2>1. found \subseteq Nat
    BY <1>1, <1>2
  <2>2. least \in found
    BY <1>4, <2>1, LeastNatural
  <2> HIDE DEF least
  <2>3. least - 1 \in 0 .. Len(receive_buffer_) /\ least - 1 > 0
    BY <1>1, <1>2, <2>2
  <2>4. SkipTo(found) = Erased(least - 1)
    BY <1>4 DEF SkipTo, least
  <2> QED
    BY <1>1, <2>3, <2>4, ErasedType DEF found
<1> QED
  BY <1>3, <1>4

\* The digits of a header that has arrived.
LEMMA HeaderType ==
    ASSUME TypeOK, HasHeader
    PROVE  /\ HeaderTag \in Digits /\ HeaderLen \in Digits /\ HeaderSum \in Digits
           /\ HeaderLen \in Nat /\ HeaderLen < Base
<1>1. receive_buffer_ \in Seq(Digits) /\ {3, 4, 5} \subseteq 1 .. Len(receive_buffer_)
  BY DEF TypeOK, HasHeader, HeaderSize
<1>2. HeaderTag \in Digits /\ HeaderLen \in Digits /\ HeaderSum \in Digits
  BY <1>1 DEF HeaderTag, HeaderLen, HeaderSum
<1> QED
  BY <1>2, BaseAssumption DEF Digits

\* The payload of a message that has arrived, and what follows it.
LEMMA PayloadType ==
    ASSUME TypeOK, HasHeader, Len(receive_buffer_) >= TotalSize
    PROVE  /\ Payload \in Bytes /\ Len(Payload) = HeaderLen
           /\ TotalSize \in HeaderSize .. Len(receive_buffer_)
           /\ \A i \in 1 .. HeaderLen : Payload[i] = receive_buffer_[HeaderSize + i]
<1>1. HeaderLen \in Nat /\ Len(receive_buffer_) \in Nat
  BY HeaderType DEF TypeOK
<1>2. TotalSize \in HeaderSize .. Len(receive_buffer_) /\ TotalSize = 5 + HeaderLen
  BY <1>1 DEF TotalSize, HeaderSize
<1>3. receive_buffer_ \in Seq(Digits)
  BY DEF TypeOK
<1>4. \A i \in 1 .. Len(receive_buffer_) : receive_buffer_[i] \in Digits
  BY <1>3, ElementOfSeq
<1>5. \A i \in 6 .. TotalSize : receive_buffer_[i] \in Digits
  BY <1>1, <1>2, <1>4 DEF HeaderSize
<1>6. TotalSize \in Int
  BY <1>1, <1>2
<1> HIDE DEF TotalSize, HeaderLen
<1> DEFINE p == SubSeq(receive_buffer_, 6, TotalSize)
<1>7. /\ p \in Seq(Digits)
      /\ Len(p) = IF 6 <= TotalSize THEN TotalSize - 6 + 1 ELSE 0
      /\ \A i \in 1 .. TotalSize - 6 + 1 : p[i] = receive_buffer_[6 + i - 1]
  BY <1>5, <1>6, SubSeqProperties
<1>8. Payload = p
  BY DEF Payload, HeaderSize
<1> HIDE DEF p
<1>9. Len(p) = HeaderLen /\ \A i \in 1 .. HeaderLen : p[i] = receive_buffer_[5 + i]
  BY <1>1, <1>2, <1>7
<1> QED
  BY <1>2, <1>7, <1>8, <1>9 DEF Bytes, HeaderSize

LEMMA InitInv == Init => IInv /\ StreamInFrame
<1> SUFFICES ASSUME Init PROVE IInv /\ StreamInFrame
  OBVIOUS
<1>1. IInv
  <2>1. <<>> \in Seq(Digits) /\ <<>> \in Seq(Packets) /\ <<>> \in Seq(Fitting)
    BY EmptySeq
  <2>2. TypeOK /\ SizesInv
    <3>1. unsent \in [Senders -> Seq(Digits)]
      BY <2>1 DEF Init
    <3>2. wire \in Seq(Digits) /\ receive_buffer_ \in Seq(Digits)
      BY <2>1, Zenon DEF Init
    <3>3. {sent, delivered} \subseteq Seq(Packets) /\ SizesInv
      BY <2>1, Zenon DEF Init, SizesInv
    <3>4. losses \in 0 .. MaxLosses
      BY BoundsAssumption DEF Init
    <3>5. parsing \in BOOLEAN /\ torn \in BOOLEAN
      BY DEF Init
    <3> QED
      BY <3>1, <3>2, <3>3, <3>4, <3>5 DEF TypeOK, Packets
  <2>3. BufferBounded
    BY SizeAssumption DEF Init, BufferBounded, HeaderSize
  <2> QED
    BY <2>2, <2>3 DEF IInv
<1>2. PendingOf(sent, delivered) = <<>>
  BY DEF Init, PendingOf
<1>3. ASSUME NEW s \in Senders PROVE Stream(s) = <<>>
  BY DEF Init, Stream, Cat
<1>4. IsPrefix(delivered, sent)
  BY DEF Init, IsPrefix
<1> QED
  BY <1>1, <1>2, <1>3, <1>4, FlattenEmpty, FramedIs DEF Framed

LEMMA TypeStep == IInv /\ [Next]_vars => IInv'
<1> SUFFICES ASSUME IInv, [Next]_vars PROVE IInv'
  OBVIOUS
<1>0. /\ TypeOK /\ SizesInv /\ BufferBounded
      /\ receive_buffer_ \in Bytes /\ wire \in Bytes
      /\ \A s \in Senders : unsent[s] \in Bytes
      /\ Len(receive_buffer_) \in Nat /\ Len(wire) \in Nat
  BY BytesOf DEF IInv, TypeOK
<1>1. ASSUME NEW s \in Senders, NEW m \in Messages, Send(s, m) PROVE IInv'
  <2>1. m \in Fitting /\ m \in Packets
    BY MessagesAssumption DEF Fitting, Packets
  <2>2. SerializeMessage(m) \in Bytes
    BY <2>1, Serialized DEF Fitting
  <2>3. Append(sent, m) \in Seq(Fitting) /\ Append(sent, m) \in Seq(Packets)
    BY <1>0, <2>1, AppendProperties DEF SizesInv, TypeOK, Packets
  <2> QED
    BY <1>0, <1>1, <2>2, <2>3
       DEF Send, IInv, TypeOK, SizesInv, BufferBounded, Packets, Bytes, lossVars
<1>2. ASSUME NEW s \in Senders, NEW n \in 1 .. Len(unsent[s]), SendSome(s, n) PROVE IInv'
  <2>1. n \in 0 .. Len(unsent[s])
    BY <1>0 DEF Bytes
  <2>2. /\ SubSeq(unsent[s], 1, n) \in Bytes
        /\ SubSeq(unsent[s], n + 1, Len(unsent[s])) \in Bytes
    BY <1>0, <2>1, Cut
  <2>3. wire \o SubSeq(unsent[s], 1, n) \in Bytes
    BY <1>0, <2>2, CatBytes DEF Cat
  <2> QED
    BY <1>0, <1>2, <2>2, <2>3
       DEF SendSome, IInv, TypeOK, SizesInv, BufferBounded, Bytes, lossVars
<1>3. ASSUME NEW n \in 1 .. Len(wire), ReceiveData(n) PROVE IInv'
  <2>1. SubSeq(wire, 1, n) \in Bytes /\ SubSeq(wire, n + 1, Len(wire)) \in Bytes
    BY <1>0, Cut
  <2>2. receive_buffer_ \o SubSeq(wire, 1, n) \in Bytes
    BY <1>0, <2>1, CatBytes DEF Cat
  <2> QED
    BY <1>0, <1>3, <2>1, <2>2
       DEF ReceiveData, IInv, TypeOK, SizesInv, BufferBounded, Bytes, lossVars
<1>4. CASE ConnectionEnds
  <2>1. <<>> \in Seq(Digits)
    BY EmptySeq
  <2>2. torn' \in BOOLEAN
    BY <1>4, Zenon DEF ConnectionEnds
  <2>3. losses' \in 0 .. MaxLosses
    BY <1>0, <1>4, BoundsAssumption DEF ConnectionEnds, TypeOK
  <2> QED
    BY <1>0, <1>4, <2>1, <2>2, <2>3
       DEF ConnectionEnds, IInv, TypeOK, SizesInv, BufferBounded
<1>5. CASE ParseNoHeader
  <2>1. Len(receive_buffer_) < HeaderSize + MAX_MESSAGE_SIZE
    BY <1>0, <1>5, SizeAssumption DEF ParseNoHeader, HasHeader, HeaderSize
  <2> QED
    BY <1>0, <1>5, <2>1
       DEF ParseNoHeader, IInv, TypeOK, SizesInv, BufferBounded, lossVars
<1>6. CASE Resync
  BY <1>0, <1>6, SkipToShrinks
     DEF Resync, IInv, TypeOK, SizesInv, BufferBounded, Bytes, lossVars
<1>7. CASE DropOversized
  <2>1. Erased(HeaderSize) \in Bytes
    BY <1>0, <1>7, ErasedType DEF DropOversized, HasHeader, HeaderSize
  <2> QED
    BY <1>0, <1>7, <2>1
       DEF DropOversized, IInv, TypeOK, SizesInv, BufferBounded, Bytes, lossVars
<1>8. CASE ParseIncomplete
  <2>1. HeaderLen \in Nat
    BY <1>0, <1>8, HeaderType DEF ParseIncomplete
  <2>2. Len(receive_buffer_) < HeaderSize + MAX_MESSAGE_SIZE
    BY <1>0, <1>8, <2>1, SizeAssumption DEF ParseIncomplete, TotalSize, HeaderSize
  <2> QED
    BY <1>0, <1>8, <2>2
       DEF ParseIncomplete, IInv, TypeOK, SizesInv, BufferBounded, lossVars
<1>9. CASE ParseMessage
  <2> DEFINE m == [tag |-> HeaderTag, payload |-> Payload]
  <2>1. /\ HeaderTag \in Digits /\ HeaderLen < Base
        /\ Payload \in Bytes /\ Len(Payload) = HeaderLen
        /\ TotalSize \in 0 .. Len(receive_buffer_)
    BY <1>0, <1>9, HeaderType, PayloadType DEF ParseMessage, HeaderSize
  <2>2. m \in Fitting /\ m \in Packets
    BY <2>1 DEF Fitting, Packets, Bytes
  <2>3. Append(delivered, m) \in Seq(Fitting) /\ Append(delivered, m) \in Seq(Packets)
    BY <1>0, <2>2, AppendProperties DEF SizesInv, TypeOK, Packets
  <2>4. Erased(TotalSize) \in Bytes
    BY <1>0, <2>1, ErasedType
  <2> QED
    BY <1>0, <1>9, <2>3, <2>4
       DEF ParseMessage, IInv, TypeOK, SizesInv, BufferBounded, Packets, Bytes, lossVars
<1>10. CASE UNCHANGED vars
  BY <1>0, <1>10 DEF vars, lossVars, IInv, TypeOK, SizesInv, BufferBounded
<1> QED
  BY <1>1, <1>2, <1>3, <1>4, <1>5, <1>6, <1>7, <1>8, <1>9, <1>10
     DEF Next, SomeSent, SomeReceived, ProcessReceivedData

-----------------------------------------------------------------------------
(* Framing *)

\* IsPrefix, element by element.
LEMMA PrefixIs ==
    ASSUME NEW d \in Seq(Fitting), NEW s \in Seq(Fitting)
    PROVE  IsPrefix(d, s) <=>
              Len(d) <= Len(s) /\ \A i \in 1 .. Len(d) : d[i] = s[i]
<1>1. SubSeq(d, 1, Len(d)) = d
  BY SubSeqFull
<1>2. CASE ~(Len(d) <= Len(s))
  BY <1>2 DEF IsPrefix
<1>3. CASE Len(d) <= Len(s)
  <2> DEFINE t == SubSeq(s, 1, Len(d))
  <2>1. \A i \in 1 .. Len(d) : s[i] \in Fitting
    BY <1>3
  <2>2. t \in Seq(Fitting) /\ Len(t) = Len(d) /\ \A i \in 1 .. Len(d) : t[i] = s[i]
    BY <2>1, SubSeqProperties
  <2> HIDE DEF t
  <2>3. (\A i \in 1 .. Len(d) : d[i] = t[i]) => d = t
    BY <2>2, SeqEqual
  <2>4. d = t <=> \A i \in 1 .. Len(d) : d[i] = s[i]
    BY <2>2, <2>3
  <2> QED
    BY <1>1, <1>3, <2>4 DEF IsPrefix, t
<1> QED
  BY <1>2, <1>3

LEMMA PendingType ==
    ASSUME NEW s \in Seq(Fitting), NEW d \in Seq(Fitting), Len(d) <= Len(s)
    PROVE  /\ PendingOf(s, d) \in Seq(Bytes)
           /\ Len(PendingOf(s, d)) = Len(s) - Len(d)
           /\ \A i \in 1 .. Len(s) - Len(d) :
                 PendingOf(s, d)[i] = SerializeMessage(s[Len(d) + i])
<1>1. Len(s) \in Nat /\ Len(d) \in Nat
  OBVIOUS
<1> DEFINE n == Len(s) - Len(d)
<1>2. n \in Nat
  BY <1>1
<1>3. ASSUME NEW i \in 1 .. n PROVE SerializeMessage(s[Len(d) + i]) \in Bytes
  <2>1. Len(d) + i \in 1 .. Len(s)
    BY <1>1
  <2>2. s[Len(d) + i] \in Fitting
    BY <2>1, ElementOfSeq
  <2> QED
    BY <2>2, Serialized DEF Fitting
<1>4. PendingOf(s, d) = [i \in 1 .. n |-> SerializeMessage(s[Len(d) + i])]
  BY DEF PendingOf
<1> HIDE DEF n
<1> QED
  BY <1>2, <1>3, <1>4 DEF n

\* A message that is sent joins the end of what is pending.
LEMMA PendingAppend ==
    ASSUME NEW s \in Seq(Fitting), NEW d \in Seq(Fitting), Len(d) <= Len(s),
           NEW m \in Fitting
    PROVE  PendingOf(Append(s, m), d) = Append(PendingOf(s, d), SerializeMessage(m))
<1> DEFINE t == Append(s, m)
           p == PendingOf(s, d)
           q == PendingOf(t, d)
           e == SerializeMessage(m)
<1>1. /\ t \in Seq(Fitting) /\ Len(t) = Len(s) + 1
      /\ \A i \in 1 .. Len(s) : t[i] = s[i]
      /\ t[Len(s) + 1] = m
  BY AppendProperties
<1> HIDE DEF t
<1>2. Len(s) \in Nat /\ Len(d) \in Nat /\ Len(d) <= Len(t)
  BY <1>1
<1>3. /\ p \in Seq(Bytes) /\ Len(p) = Len(s) - Len(d)
      /\ \A i \in 1 .. Len(s) - Len(d) : p[i] = SerializeMessage(s[Len(d) + i])
  BY PendingType
<1>4. /\ q \in Seq(Bytes) /\ Len(q) = Len(t) - Len(d)
      /\ \A i \in 1 .. Len(t) - Len(d) : q[i] = SerializeMessage(t[Len(d) + i])
  BY <1>1, <1>2, PendingType
<1>5. e \in Bytes
  BY Serialized DEF Fitting
<1> HIDE DEF p, q, e
<1>6. /\ Append(p, e) \in Seq(Bytes) /\ Len(Append(p, e)) = Len(p) + 1
      /\ \A i \in 1 .. Len(p) : Append(p, e)[i] = p[i]
      /\ Append(p, e)[Len(p) + 1] = e
  BY <1>3, <1>5, AppendProperties
<1>7. ASSUME NEW i \in 1 .. Len(q) PROVE q[i] = Append(p, e)[i]
  <2>1. CASE i <= Len(p)
    <3>1. i \in 1 .. Len(p) /\ Len(d) + i \in 1 .. Len(s) /\ i \in 1 .. Len(t) - Len(d)
      BY <1>1, <1>2, <1>3, <1>4, <2>1
    <3>2. t[Len(d) + i] = s[Len(d) + i]
      BY <1>1, <3>1
    <3> QED
      BY <1>3, <1>4, <1>6, <3>1, <3>2
  <2>2. CASE i = Len(p) + 1
    <3>1. Len(d) + i = Len(s) + 1 /\ i \in 1 .. Len(t) - Len(d)
      BY <1>1, <1>2, <1>3, <2>2
    <3>2. t[Len(d) + i] = m
      BY <1>1, <3>1
    <3>3. q[i] = e
      BY <1>4, <3>1, <3>2 DEF e
    <3> QED
      BY <1>6, <2>2, <3>3
  <2> QED
    BY <1>1, <1>2, <1>3, <1>4, <2>1, <2>2
<1>8. Len(q) = Len(Append(p, e))
  BY <1>1, <1>2, <1>3, <1>4, <1>6
<1>9. q = Append(p, e)
  BY <1>4, <1>6, <1>7, <1>8, SeqEqual
<1> QED
  BY <1>9 DEF t, p, q, e

\* The message that is delivered was the first of what is pending.
LEMMA PendingTail ==
    ASSUME NEW s \in Seq(Fitting), NEW d \in Seq(Fitting), Len(d) < Len(s)
    PROVE  LET m == s[Len(d) + 1] IN
           /\ m \in Fitting
           /\ PendingOf(s, d) # <<>>
           /\ Head(PendingOf(s, d)) = SerializeMessage(m)
           /\ PendingOf(s, Append(d, m)) = Tail(PendingOf(s, d))
<1> DEFINE m == s[Len(d) + 1]
           f == Append(d, m)
           p == PendingOf(s, d)
           q == PendingOf(s, f)
<1>1. Len(s) \in Nat /\ Len(d) \in Nat /\ Len(d) + 1 \in 1 .. Len(s)
  OBVIOUS
<1>2. m \in Fitting
  BY <1>1, ElementOfSeq
<1> HIDE DEF m
<1>3. f \in Seq(Fitting) /\ Len(f) = Len(d) + 1
  BY <1>2, AppendProperties
<1> HIDE DEF f
<1>4. /\ p \in Seq(Bytes) /\ Len(p) = Len(s) - Len(d)
      /\ \A i \in 1 .. Len(s) - Len(d) : p[i] = SerializeMessage(s[Len(d) + i])
  BY <1>1, PendingType
<1>5. /\ q \in Seq(Bytes) /\ Len(q) = Len(s) - Len(f)
      /\ \A i \in 1 .. Len(s) - Len(f) : q[i] = SerializeMessage(s[Len(f) + i])
  <2>1. Len(f) <= Len(s)
    BY <1>1, <1>3
  <2> QED
    BY <1>3, <2>1, PendingType
<1> HIDE DEF p, q
<1>6. p # <<>>
  BY <1>1, <1>4
<1>7. p[1] = SerializeMessage(m)
  BY <1>1, <1>4 DEF m
<1>8. Head(p) = p[1]
  BY <1>4, <1>6
<1>9. /\ Tail(p) \in Seq(Bytes) /\ Len(Tail(p)) = Len(p) - 1
      /\ \A i \in 1 .. Len(Tail(p)) : Tail(p)[i] = p[i + 1]
  BY <1>4, <1>6, HeadTailProperties
<1>10. ASSUME NEW i \in 1 .. Len(q) PROVE q[i] = Tail(p)[i]
  <2>1. /\ i \in 1 .. Len(s) - Len(f) /\ i \in 1 .. Len(Tail(p))
        /\ i + 1 \in 1 .. Len(s) - Len(d) /\ Len(f) + i = Len(d) + (i + 1)
    BY <1>1, <1>3, <1>4, <1>5, <1>9
  <2> QED
    BY <1>4, <1>5, <1>9, <2>1
<1>11. Len(q) = Len(Tail(p))
  BY <1>1, <1>3, <1>4, <1>5, <1>9
<1>12. q = Tail(p)
  BY <1>5, <1>9, <1>10, <1>11, SeqEqual
<1> QED
  BY <1>2, <1>6, <1>7, <1>8, <1>12 DEF m, f, p, q

\* In frame, the header at the front of receive_buffer_ is that of the first
\* message that is not yet delivered, and the stream goes on with its payload.
LEMMA HeadInFrame ==
    ASSUME IInv, Framed, LegalSizes, HasHeader, NEW s \in Senders
    PROVE  LET m == sent[Len(delivered) + 1] IN
           /\ Len(delivered) < Len(sent)
           /\ m \in Fitting /\ Len(m.payload) <= MAX_MESSAGE_SIZE
           /\ HasMagic
           /\ HeaderTag = m.tag /\ HeaderLen = Len(m.payload)
           /\ HeaderSum = CalculateChecksum(m.payload)
           /\ FlattenSeq(PendingOf(sent, Append(delivered, m))) \in Bytes
           /\ Cat(receive_buffer_, Cat(wire, unsent[s]))
                = Cat(SerializeMessage(m),
                      FlattenSeq(PendingOf(sent, Append(delivered, m))))
<1> DEFINE m == sent[Len(delivered) + 1]
           p == PendingOf(sent, delivered)
           rest == FlattenSeq(PendingOf(sent, Append(delivered, m)))
           tail == Cat(wire, unsent[s])
           ser == SerializeMessage(m)
<1>1. /\ receive_buffer_ \in Bytes /\ wire \in Bytes /\ unsent[s] \in Bytes
      /\ Len(receive_buffer_) \in Nat /\ Len(receive_buffer_) >= 5
  BY BytesOf DEF IInv, Bytes, HasHeader, HeaderSize
<1>2. /\ sent \in Seq(Fitting) /\ delivered \in Seq(Fitting)
      /\ Len(sent) \in Nat /\ Len(delivered) \in Nat
      /\ Len(delivered) <= Len(sent)
  BY PrefixIs DEF IInv, SizesInv, Framed
<1>3. tail \in Bytes
  BY <1>1, CatBytes
<1>4. Cat(receive_buffer_, tail) = FlattenSeq(p)
  BY <1>1, BytesAssociative DEF Framed, Stream
<1> HIDE DEF tail
<1>5. /\ Len(Cat(receive_buffer_, tail)) >= 5
      /\ \A i \in 1 .. 5 : Cat(receive_buffer_, tail)[i] = receive_buffer_[i]
  <2>1. /\ Len(Cat(receive_buffer_, tail)) = Len(receive_buffer_) + Len(tail)
        /\ \A i \in 1 .. Len(receive_buffer_) :
              Cat(receive_buffer_, tail)[i] = receive_buffer_[i]
    BY <1>1, <1>3, CatBytes, Zenon
  <2>2. Len(tail) \in Nat
    BY <1>3 DEF Bytes
  <2> QED
    BY <1>1, <2>1, <2>2
<1>6. p \in Seq(Bytes) /\ Len(p) = Len(sent) - Len(delivered)
  BY <1>2, PendingType
<1>7. Len(delivered) < Len(sent)
  <2>1. p # <<>>
    BY <1>4, <1>5, FlattenEmpty
  <2> HIDE DEF p
  <2> QED
    BY <1>2, <1>6, <2>1, EmptySeq
<1>8. /\ m \in Fitting /\ p # <<>> /\ Head(p) = ser
      /\ PendingOf(sent, Append(delivered, m)) = Tail(p)
  BY <1>2, <1>7, PendingTail
<1> HIDE DEF p
<1>9. Tail(p) \in Seq(Bytes) /\ rest = FlattenSeq(Tail(p))
  BY <1>6, <1>8
<1> HIDE DEF rest, m
<1>10. rest \in Bytes
  BY <1>9, FlattenType DEF Bytes
<1>11. FlattenSeq(p) = Cat(ser, rest)
  BY <1>6, <1>8, <1>9, FlattenHead DEF Bytes
<1>12. /\ ser \in Bytes /\ Len(ser) = 5 + Len(m.payload)
       /\ ser[1] = MESSAGE_MAGIC[1] /\ ser[2] = MESSAGE_MAGIC[2]
       /\ ser[3] = m.tag /\ ser[4] = Len(m.payload)
       /\ ser[5] = CalculateChecksum(m.payload)
  BY <1>8, Serialized DEF Fitting, HeaderSize
<1>13. m.payload \in Seq(Digits) /\ Len(m.payload) \in Nat
  BY <1>8 DEF Fitting, Packets
<1> HIDE DEF ser
<1>14. \A i \in 1 .. 5 : Cat(ser, rest)[i] = ser[i]
  <2>1. \A i \in 1 .. Len(ser) : Cat(ser, rest)[i] = ser[i]
    BY <1>10, <1>12, CatBytes, Zenon
  <2> QED
    BY <1>12, <1>13, <2>1
<1>15. \A i \in 1 .. 5 : receive_buffer_[i] = ser[i]
  BY <1>4, <1>5, <1>11, <1>14
<1>16. HasMagic
  <2> DEFINE b == SubSeq(receive_buffer_, 1, 2)
  <2>1. \A i \in 1 .. 2 : receive_buffer_[i] \in Digits
    BY <1>1 DEF Bytes
  <2>2. b \in Seq(Digits) /\ Len(b) = 2 /\ \A i \in 1 .. 2 : b[i] = receive_buffer_[i]
    BY <2>1, SubSeqProperties
  <2> HIDE DEF b
  <2>3. \A i \in 1 .. 2 : b[i] = MESSAGE_MAGIC[i]
    BY <1>12, <1>15, <2>2
  <2>4. b = MESSAGE_MAGIC
    BY <2>2, <2>3, MagicAssumption, SeqEqual
  <2> QED
    BY <2>4 DEF HasMagic, b
<1>17. /\ HeaderTag = m.tag /\ HeaderLen = Len(m.payload)
       /\ HeaderSum = CalculateChecksum(m.payload)
  BY <1>12, <1>15 DEF HeaderTag, HeaderLen, HeaderSum
<1>18. Len(m.payload) <= MAX_MESSAGE_SIZE
  BY <1>2, <1>7 DEF LegalSizes, m
<1> QED
  BY <1>4, <1>7, <1>8, <1>10, <1>11, <1>16, <1>17, <1>18 DEF m, rest, ser, tail

\* A complete message in frame is the first one that is not yet delivered, and
\* it is valid.
LEMMA MessageInFrame ==
    ASSUME IInv, Framed, LegalSizes, HasHeader, NEW s \in Senders,
           Len(receive_buffer_) >= TotalSize
    PROVE  LET m == sent[Len(delivered) + 1] IN
           /\ ValidateMessage
           /\ [tag |-> HeaderTag, payload |-> Payload] = m
           /\ Cat(Erased(TotalSize), Cat(wire, unsent[s]))
                = FlattenSeq(PendingOf(sent, Append(delivered, m)))
<1> DEFINE m == sent[Len(delivered) + 1]
           rest == FlattenSeq(PendingOf(sent, Append(delivered, m)))
           tail == Cat(wire, unsent[s])
           ser == SerializeMessage(m)
<1>1. /\ m \in Fitting
      /\ HeaderTag = m.tag /\ HeaderLen = Len(m.payload)
      /\ HeaderSum = CalculateChecksum(m.payload)
      /\ rest \in Bytes
      /\ Cat(receive_buffer_, tail) = Cat(ser, rest)
  BY HeadInFrame
<1> HIDE DEF m, rest
<1>2. receive_buffer_ \in Bytes /\ tail \in Bytes /\ Len(receive_buffer_) \in Nat
  <2>1. receive_buffer_ \in Bytes /\ wire \in Bytes /\ unsent[s] \in Bytes
    BY BytesOf DEF IInv
  <2>2. Len(receive_buffer_) \in Nat
    BY <2>1 DEF Bytes
  <2> QED
    BY <2>1, <2>2, CatBytes
<1>3. /\ ser \in Bytes /\ Len(ser) = HeaderSize + Len(m.payload)
      /\ \A i \in 1 .. Len(m.payload) : ser[HeaderSize + i] = m.payload[i]
  BY <1>1, Serialized DEF Fitting
<1>4. m \in Packets /\ m.payload \in Seq(Digits) /\ Len(m.payload) \in Nat
  BY <1>1 DEF Fitting, Packets
<1>5. /\ Payload \in Bytes /\ Len(Payload) = HeaderLen
      /\ \A i \in 1 .. HeaderLen : Payload[i] = receive_buffer_[HeaderSize + i]
  BY PayloadType DEF IInv
<1> HIDE DEF tail, ser
<1>6. Len(ser) = TotalSize
  BY <1>1, <1>3 DEF TotalSize
<1>7. /\ SubSeq(receive_buffer_, 1, Len(ser)) = ser
      /\ Cat(SubSeq(receive_buffer_, Len(ser) + 1, Len(receive_buffer_)), tail) = rest
  BY <1>1, <1>2, <1>3, <1>6, SameStream
<1>8. \A i \in 1 .. Len(ser) : receive_buffer_[i] = ser[i]
  <2>1. Len(ser) \in 0 .. Len(receive_buffer_) /\ Len(ser) \in Nat
    BY <1>2, <1>3, <1>4, <1>6 DEF HeaderSize
  <2>2. \A i \in 1 .. Len(ser) : receive_buffer_[i] \in Digits
    BY <1>2, <2>1 DEF Bytes
  <2>3. \A i \in 1 .. Len(ser) :
           SubSeq(receive_buffer_, 1, Len(ser))[i] = receive_buffer_[i]
    BY <2>1, <2>2, SubSeqProperties
  <2> QED
    BY <1>7, <2>3
<1>9. Payload = m.payload
  <2>1. ASSUME NEW i \in 1 .. Len(m.payload) PROVE Payload[i] = m.payload[i]
    <3>1. HeaderSize + i \in 1 .. Len(ser)
      BY <1>3, <1>4 DEF HeaderSize
    <3> QED
      BY <1>1, <1>3, <1>5, <1>8, <3>1
  <2> QED
    BY <1>1, <1>4, <1>5, <2>1, SeqEqual DEF Bytes
<1>10. [tag |-> HeaderTag, payload |-> Payload] = m
  BY <1>1, <1>4, <1>9 DEF Packets
<1>11. ValidateMessage
  <2>1. Len(m.payload) = 0 => m.payload = <<>>
    BY <1>4, EmptySeq
  <2>2. Len(m.payload) = 0 => CalculateChecksum(m.payload) = 0
    BY <1>4, <2>1, ChecksumType
  <2> QED
    BY <1>1, <1>9, <2>2 DEF ValidateMessage
<1>12. Cat(Erased(TotalSize), tail) = rest
  BY <1>6, <1>7 DEF Erased
<1> QED
  BY <1>10, <1>11, <1>12 DEF m, rest, tail

\* The framing is kept by every step of a connection that has one sender.
LEMMA FrameStep ==
    ASSUME OneSender, IInv, StreamInFrame, [Next]_vars
    PROVE  StreamInFrame'
<1> SUFFICES ASSUME LegalSizes', ~torn' PROVE Framed'
  BY Zenon DEF StreamInFrame, Framed, Stream, PendingOf, Cat
<1>0. PICK o : Senders = {o}
  BY DEF OneSender
<1>a. /\ receive_buffer_ \in Bytes /\ wire \in Bytes /\ unsent[o] \in Bytes
      /\ Len(receive_buffer_) \in Nat /\ Len(wire) \in Nat /\ Len(unsent[o]) \in Nat
      /\ o \in Senders
  <2>1. receive_buffer_ \in Bytes /\ wire \in Bytes /\ unsent[o] \in Bytes /\ o \in Senders
    BY <1>0, BytesOf DEF IInv
  <2> QED
    BY <2>1 DEF Bytes
<1>b. sent \in Seq(Fitting) /\ delivered \in Seq(Fitting)
  BY DEF IInv, SizesInv
<1> DEFINE b == receive_buffer_
           w == wire
           u == unsent[o]
<1>c. ASSUME LegalSizes, ~torn
      PROVE  /\ Framed /\ IsPrefix(delivered, sent)
             /\ Len(delivered) <= Len(sent)
             /\ Cat(Cat(b, w), u) = FlattenSeq(PendingOf(sent, delivered))
  BY <1>a, <1>b, <1>c, FramedIs, PrefixIs DEF Framed, Stream
<1>d. ASSUME UNCHANGED <<sent, torn>> PROVE LegalSizes /\ ~torn
  BY <1>d DEF LegalSizes
<1>e. ASSUME UNCHANGED <<sent, delivered>>, Stream(o)' = Stream(o), LegalSizes, ~torn
      PROVE  Framed'
  BY <1>0, <1>c, <1>e DEF Framed, Stream
<1>1. ASSUME NEW s \in Senders, NEW m \in Messages, Send(s, m) PROVE Framed'
  <2>1. s = o /\ u = <<>> /\ sent' = Append(sent, m) /\ delivered' = delivered
    BY <1>0, <1>1 DEF Send
  <2>2. m \in Fitting /\ SerializeMessage(m) \in Bytes
    BY MessagesAssumption, Serialized DEF Fitting, Packets
  <2>3. LegalSizes /\ ~torn
    <3>1. /\ Len(Append(sent, m)) = Len(sent) + 1
          /\ \A i \in 1 .. Len(sent) : Append(sent, m)[i] = sent[i]
      BY <1>b, <2>2, AppendProperties
    <3>2. torn' = torn
      BY <1>1 DEF Send, lossVars
    <3>3. DOMAIN sent = 1 .. Len(sent) /\ DOMAIN sent' = 1 .. Len(sent) + 1 /\ Len(sent) \in Nat
      BY <1>b, <2>1, <2>2, <3>1
    <3> QED
      BY <2>1, <3>1, <3>2, <3>3 DEF LegalSizes
  <2> DEFINE p == PendingOf(sent, delivered)
             e == SerializeMessage(m)
  <2>4. /\ Len(delivered) <= Len(sent) /\ IsPrefix(delivered, sent)
        /\ Cat(Cat(b, w), u) = FlattenSeq(p)
    BY <1>c, <2>3
  <2>5. p \in Seq(Bytes) /\ PendingOf(sent', delivered') = Append(p, e)
    BY <1>b, <2>1, <2>2, <2>4, PendingType, PendingAppend
  <2>6. IsPrefix(delivered', sent')
    <3>1. /\ Append(sent, m) \in Seq(Fitting)
          /\ Len(Append(sent, m)) = Len(sent) + 1
          /\ \A i \in 1 .. Len(sent) : Append(sent, m)[i] = sent[i]
      BY <1>b, <2>2, AppendProperties
    <3>2. \A i \in 1 .. Len(delivered) : delivered[i] = sent[i]
      BY <1>b, <2>4, PrefixIs
    <3>3. Len(sent) \in Nat /\ Len(delivered) \in Nat
      BY <1>b
    <3>4. /\ Len(delivered) <= Len(Append(sent, m))
          /\ \A i \in 1 .. Len(delivered) : delivered[i] = Append(sent, m)[i]
      BY <2>4, <3>1, <3>2, <3>3
    <3> QED
      BY <1>b, <2>1, <3>1, <3>4, PrefixIs
  <2> HIDE DEF p, e
  <2>7. FlattenSeq(Append(p, e)) = Cat(FlattenSeq(p), e)
    BY <2>2, <2>5, FlattenAppend DEF Bytes, e
  <2>8. FlattenSeq(p) = Cat(b, w)
    <3>1. Cat(b, w) \in Bytes
      BY <1>a, CatBytes
    <3> QED
      BY <2>1, <2>4, <3>1, CatEmpty DEF Bytes
  <2>9. Stream(o)' = Cat(Cat(b, w), e)
    BY <1>a, <1>1, <2>1 DEF Send, Stream, e, IInv, TypeOK
  <2> QED
    BY <1>0, <2>5, <2>6, <2>7, <2>8, <2>9 DEF Framed
<1>2. ASSUME NEW s \in Senders, NEW n \in 1 .. Len(unsent[s]), SendSome(s, n)
      PROVE  Framed'
  <2> DEFINE x == SubSeq(u, 1, n)
             y == SubSeq(u, n + 1, Len(u))
  <2>1. s = o
    BY <1>0
  <2>2. x \in Bytes /\ y \in Bytes /\ u = Cat(x, y)
    <3>1. n \in 0 .. Len(u)
      BY <1>a, <2>1
    <3> QED
      BY <1>a, <3>1, Cut
  <2>3. unsent'[o] = y /\ wire' = Cat(w, x) /\ receive_buffer_' = b
    BY <1>a, <1>2, <2>1 DEF SendSome, Cat, IInv, TypeOK
  <2> HIDE DEF x, y
  <2>4. Cat(b, w) \in Bytes
    BY <1>a, CatBytes
  <2>5. Cat(Cat(b, Cat(w, x)), y) = Cat(Cat(b, w), Cat(x, y))
    BY <1>a, <2>2, <2>4, BytesAssociative
  <2>6. Stream(o)' = Stream(o)
    BY <2>2, <2>3, <2>5 DEF Stream
  <2> QED
    BY <1>2, <1>d, <1>e, <2>6 DEF SendSome, lossVars
<1>3. ASSUME NEW n \in 1 .. Len(wire), ReceiveData(n) PROVE Framed'
  <2> DEFINE x == SubSeq(w, 1, n)
             y == SubSeq(w, n + 1, Len(w))
  <2>1. x \in Bytes /\ y \in Bytes /\ w = Cat(x, y)
    <3>1. n \in 0 .. Len(w)
      BY <1>a
    <3> QED
      BY <1>a, <3>1, Cut
  <2>2. unsent'[o] = u /\ wire' = y /\ receive_buffer_' = Cat(b, x)
    BY <1>3 DEF ReceiveData, Cat
  <2> HIDE DEF x, y
  <2>3. Cat(Cat(b, x), y) = Cat(b, Cat(x, y))
    BY <1>a, <2>1, BytesAssociative
  <2>4. Stream(o)' = Stream(o)
    BY <2>1, <2>2, <2>3 DEF Stream
  <2> QED
    BY <1>3, <1>d, <1>e, <2>4 DEF ReceiveData, lossVars
<1>4. CASE ConnectionEnds
  <2>1. b = <<>>
    BY <1>4, Zenon DEF ConnectionEnds
  <2>2. /\ receive_buffer_' = <<>> /\ wire' = <<>> /\ unsent'[o] = <<>>
        /\ sent' = delivered /\ delivered' = delivered
    BY <1>a, <1>4, <2>1 DEF ConnectionEnds
  <2>3. IsPrefix(delivered', sent')
    BY <1>b, <2>2, PrefixIs
  <2>4. PendingOf(sent', delivered') = <<>>
    BY <1>b, <2>2 DEF PendingOf
  <2>5. Stream(o)' = <<>>
    BY <2>2 DEF Stream, Cat
  <2> QED
    BY <1>0, <2>3, <2>4, <2>5, FlattenEmpty DEF Framed
<1>5. CASE ParseNoHeader \/ ParseIncomplete \/ UNCHANGED vars
  <2>1. UNCHANGED <<receive_buffer_, wire, unsent, sent, delivered, torn>>
    BY <1>5 DEF ParseNoHeader, ParseIncomplete, vars, lossVars
  <2>2. Stream(o)' = Stream(o)
    BY <2>1 DEF Stream
  <2> QED
    BY <1>d, <1>e, <2>1, <2>2
<1>6. CASE Resync \/ DropOversized
  <2>1. HasHeader /\ UNCHANGED <<sent, torn>>
    BY <1>6 DEF Resync, DropOversized, lossVars
  <2>2. LegalSizes /\ Framed
    BY <1>c, <1>d, <2>1
  <2>3. HasMagic /\ HeaderLen <= MAX_MESSAGE_SIZE
    BY <1>a, <2>1, <2>2, HeadInFrame
  <2>4. HeaderLen \in Nat
    BY <2>1, HeaderType DEF IInv
  <2> QED
    BY <1>6, <2>3, <2>4, SizeAssumption DEF Resync, DropOversized
<1>7. CASE ParseMessage
  <2> DEFINE m == sent[Len(delivered) + 1]
  <2>1. /\ HasHeader /\ Len(receive_buffer_) >= TotalSize
        /\ UNCHANGED <<sent, torn, wire, unsent>>
    BY <1>7 DEF ParseMessage, lossVars
  <2>2. LegalSizes /\ Framed /\ IsPrefix(delivered, sent)
    BY <1>c, <1>d, <2>1
  <2>3. /\ ValidateMessage
        /\ [tag |-> HeaderTag, payload |-> Payload] = m
        /\ Cat(Erased(TotalSize), Cat(w, u))
             = FlattenSeq(PendingOf(sent, Append(delivered, m)))
    BY <1>a, <2>1, <2>2, MessageInFrame
  <2>4. m \in Fitting /\ Len(delivered) < Len(sent)
    BY <1>a, <2>1, <2>2, HeadInFrame
  <2> HIDE DEF m
  <2>5. delivered' = Append(delivered, m) /\ receive_buffer_' = Erased(TotalSize)
    BY <1>7, <2>3 DEF ParseMessage
  <2>6. Erased(TotalSize) \in Bytes
    <3>1. TotalSize \in 0 .. Len(receive_buffer_)
      BY <2>1, PayloadType DEF IInv, HeaderSize
    <3> QED
      BY <3>1, ErasedType DEF IInv
  <2>7. Stream(o)' = FlattenSeq(PendingOf(sent', delivered'))
    <3>1. Cat(Cat(Erased(TotalSize), w), u) = Cat(Erased(TotalSize), Cat(w, u))
      BY <1>a, <2>6, BytesAssociative
    <3> QED
      BY <2>1, <2>3, <2>5, <3>1 DEF Stream
  <2>8. IsPrefix(delivered', sent')
    <3> DEFINE f == Append(delivered, m)
    <3>1. /\ f \in Seq(Fitting) /\ Len(f) = Len(delivered) + 1
          /\ \A i \in 1 .. Len(delivered) : f[i] = delivered[i]
          /\ f[Len(delivered) + 1] = m
      BY <1>b, <2>4, AppendProperties
    <3> HIDE DEF f
    <3>2. \A i \in 1 .. Len(delivered) : delivered[i] = sent[i]
      BY <1>b, <2>2, PrefixIs
    <3>3. Len(delivered) \in Nat /\ Len(sent) \in Nat
      BY <1>b
    <3>4. ASSUME NEW i \in 1 .. Len(f) PROVE f[i] = sent[i]
      <4>1. CASE i = Len(delivered) + 1
        BY <3>1, <4>1 DEF m
      <4>2. CASE i \in 1 .. Len(delivered)
        BY <3>1, <3>2, <4>2
      <4> QED
        BY <3>1, <3>3, <4>1, <4>2
    <3>5. Len(f) <= Len(sent)
      BY <2>4, <3>1, <3>3
    <3>6. IsPrefix(f, sent)
      BY <1>b, <3>1, <3>4, <3>5, PrefixIs
    <3> QED
      BY <2>1, <2>5, <3>6 DEF f
  <2> QED
    BY <1>0, <2>7, <2>8 DEF Framed
<1> QED
  BY <1>1, <1>2, <1>3, <1>4, <1>5, <1>6, <1>7
     DEF Next, SomeSent, SomeReceived, ProcessReceivedData

-----------------------------------------------------------------------------

\* The types, the sizes and the bound of the buffer hold together.
THEOREM Invariance == Spec => []IInv
  BY InitInv, TypeStep, PTL DEF Spec

\* The buffers hold bytes whatever is sent and however the stream is cut: the
\* header digits that SerializeMessage writes and what ProcessReceivedData
\* erases, skips and delivers are in their types.
THEOREM TypeCorrect == Spec => []TypeOK
<1>1. IInv => TypeOK
  BY DEF IInv
<1> QED
  BY <1>1, Invariance, PTL

\* Whatever bytes come in, from any number of senders and over any number of
\* connections, ProcessReceivedData returns with less than one maximal message
\* in receive_buffer_.
THEOREM BufferIsBounded == Spec => []BufferBounded
<1>1. IInv => BufferBounded
  BY DEF IInv
<1> QED
  BY <1>1, Invariance, PTL

\* With one sending thread, what ProcessReceivedData delivers is what was sent,
\* complete and in order, and the unconsumed bytes are the messages still to come.
THEOREM StaysInFrame == OneSender => (Spec => []StreamInFrame)
<1> SUFFICES ASSUME OneSender PROVE Spec => []StreamInFrame
  OBVIOUS
<1>1. IInv /\ StreamInFrame /\ [Next]_vars => StreamInFrame'
  BY FrameStep
<1> QED
  BY <1>1, InitInv, Invariance, PTL DEF Spec

\* Every iteration of the loop of ProcessReceivedData that does not end it makes
\* receive_buffer_ shorter, on every input: the bytes left bound the iterations.
LoopShrinks ==
    Resync \/ DropOversized \/ ParseMessage
        => Len(receive_buffer_') < Len(receive_buffer_)

\* No iteration of that loop keeps receive_buffer_ as long as it was: together
\* with the fairness of the loop, which TLC adds, ParseEnds.
THEOREM LoopMakesProgress == Spec => [][LoopShrinks]_vars
<1>1. ASSUME IInv PROVE LoopShrinks
  <2>1. TypeOK /\ Len(receive_buffer_) \in Nat
    BY <1>1 DEF IInv, TypeOK
  <2>2. CASE Resync
    BY <2>1, <2>2, SkipToShrinks DEF Resync, LoopShrinks
  <2>3. CASE DropOversized
    BY <2>1, <2>3, ErasedType DEF DropOversized, HasHeader, HeaderSize, LoopShrinks
  <2>4. CASE ParseMessage
    <3>1. TotalSize \in HeaderSize .. Len(receive_buffer_)
      BY <2>1, <2>4, PayloadType DEF ParseMessage
    <3> QED
      BY <2>1, <2>4, <3>1, ErasedType DEF ParseMessage, HeaderSize, LoopShrinks
  <2> QED
    BY <2>2, <2>3, <2>4 DEF LoopShrinks
<1> QED
  BY <1>1, Invariance, PTL

-----------------------------------------------------------------------------
(* The stream implements MessageChannel *)

\* What is left of s after its first n elements.
LEMMA RestType ==
    ASSUME NEW D, NEW s \in Seq(D), NEW n \in 0 .. Len(s)
    PROVE  LET t == SubSeq(s, n + 1, Len(s))
           IN t \in Seq(D) /\ Len(t) = Len(s) - n /\ \A i \in 1 .. Len(s) - n : t[i] = s[n + i]
<1>1. n \in Nat /\ Len(s) \in Nat /\ n <= Len(s)
  OBVIOUS
<1>2. \A i \in n + 1 .. Len(s) : s[i] \in D
  BY <1>1, ElementOfSeq
<1> DEFINE t == SubSeq(s, n + 1, Len(s))
<1>3. /\ t \in Seq(D)
      /\ Len(t) = (IF n + 1 <= Len(s) THEN Len(s) - (n + 1) + 1 ELSE 0)
      /\ \A i \in 1 .. Len(s) - (n + 1) + 1 : t[i] = s[n + 1 + i - 1]
  BY <1>1, <1>2, SubSeqProperties
<1> HIDE DEF t
<1>4. Len(t) = Len(s) - n
  BY <1>1, <1>3
<1>5. \A i \in 1 .. Len(s) - n : i \in 1 .. Len(s) - (n + 1) + 1 /\ n + 1 + i - 1 = n + i
  BY <1>1
<1> QED
  BY <1>3, <1>4, <1>5 DEF t

LEMMA RestAppend ==
    ASSUME NEW D, NEW s \in Seq(D), NEW m \in D, NEW n \in 0 .. Len(s)
    PROVE  SubSeq(Append(s, m), n + 1, Len(Append(s, m))) =
              Append(SubSeq(s, n + 1, Len(s)), m)
<1> DEFINE x == Append(s, m)
           k == Len(s) - n
           t == SubSeq(s, n + 1, Len(s))
           a == SubSeq(x, n + 1, Len(x))
           b == Append(t, m)
<1>1. /\ x \in Seq(D) /\ Len(x) = Len(s) + 1 /\ x[Len(s) + 1] = m
      /\ \A i \in 1 .. Len(s) : x[i] = s[i]
  BY AppendProperties
<1>2. /\ n \in Nat /\ Len(s) \in Nat /\ k \in Nat /\ Len(s) + 1 - n = k + 1
      /\ n + (k + 1) = Len(s) + 1 /\ \A i \in 1 .. k : n + i \in 1 .. Len(s)
  OBVIOUS
<1>3. t \in Seq(D) /\ Len(t) = k /\ \A i \in 1 .. k : t[i] = s[n + i]
  BY RestType
<1> HIDE DEF x
<1>4. a \in Seq(D) /\ Len(a) = k + 1 /\ \A i \in 1 .. k + 1 : a[i] = x[n + i]
  <2>1. n \in 0 .. Len(x) /\ Len(x) - n = k + 1
    BY <1>1, <1>2
  <2> QED
    BY <1>1, <2>1, RestType
<1> HIDE DEF t, a, k
<1>5. b \in Seq(D) /\ Len(b) = k + 1 /\ b[k + 1] = m /\ \A i \in 1 .. k : b[i] = t[i]
  <2>1. /\ b \in Seq(D) /\ Len(b) = Len(t) + 1 /\ b[Len(t) + 1] = m
        /\ \A i \in 1 .. Len(t) : b[i] = t[i]
    <3>1. t \in Seq(D)
      BY <1>3
    <3> QED
      BY <3>1, AppendProperties
  <2> HIDE DEF b
  <2> QED
    BY <1>2, <1>3, <2>1, Zenon
<1> HIDE DEF b
<1>6. ASSUME NEW i \in 1 .. k + 1 PROVE a[i] = b[i]
  <2>1. CASE i \in 1 .. k
    <3>1. n + i \in 1 .. Len(s) /\ a[i] = x[n + i]
      BY <1>2, <1>4, <2>1
    <3> QED
      BY <1>1, <1>3, <1>5, <2>1, <3>1
  <2>2. CASE i = k + 1
    <3>1. a[i] = x[n + i] /\ n + i = Len(s) + 1
      BY <1>2, <1>4, <2>2
    <3> QED
      BY <1>1, <1>5, <2>2, <3>1, Zenon
  <2> QED
    BY <1>2, <2>1, <2>2
<1>7. a = b
  BY <1>4, <1>5, <1>6, SeqEqual
<1> QED
  BY <1>7 DEF a, b, t, x

LEMMA RestTail ==
    ASSUME NEW D, NEW s \in Seq(D), NEW n \in 0 .. Len(s), n < Len(s)
    PROVE  LET t == SubSeq(s, n + 1, Len(s))
           IN /\ t # <<>> /\ Head(t) = s[n + 1]
              /\ Tail(t) = SubSeq(s, (n + 1) + 1, Len(s))
<1> DEFINE t == SubSeq(s, n + 1, Len(s))
           u == SubSeq(s, (n + 1) + 1, Len(s))
           k == Len(s) - n
           x == Tail(t)
<1>1. /\ n \in Nat /\ Len(s) \in Nat /\ k \in Nat /\ k >= 1 /\ n + 1 \in 0 .. Len(s)
      /\ Len(s) - (n + 1) = k - 1 /\ 1 \in 1 .. k
      /\ \A i \in 1 .. k - 1 : (n + 1) + i = n + (i + 1) /\ i + 1 \in 1 .. k
  OBVIOUS
<1>2. t \in Seq(D) /\ Len(t) = k /\ \A i \in 1 .. k : t[i] = s[n + i]
  BY RestType
<1>3. u \in Seq(D) /\ Len(u) = k - 1 /\ \A i \in 1 .. k - 1 : u[i] = s[(n + 1) + i]
  <2>1. n + 1 \in 0 .. Len(s) /\ Len(s) - (n + 1) = k - 1
    BY <1>1
  <2> HIDE DEF k
  <2>2. /\ u \in Seq(D) /\ Len(u) = Len(s) - (n + 1)
        /\ \A i \in 1 .. Len(s) - (n + 1) : u[i] = s[(n + 1) + i]
    BY <2>1, RestType
  <2> HIDE DEF u
  <2> QED
    BY <2>1, <2>2
<1> HIDE DEF t, u, k
<1>4. t # <<>> /\ Head(t) = t[1]
  BY <1>1, <1>2
<1>5. x \in Seq(D) /\ Len(x) = k - 1 /\ \A i \in 1 .. k - 1 : x[i] = t[i + 1]
  BY <1>1, <1>2, <1>4, HeadTailProperties
<1> HIDE DEF x
<1>6. ASSUME NEW i \in 1 .. k - 1 PROVE x[i] = u[i]
  <2>1. (n + 1) + i = n + (i + 1) /\ i + 1 \in 1 .. k
    BY <1>1, Zenon
  <2>2. t[i + 1] = s[n + (i + 1)]
    BY <1>2, <2>1, Zenon
  <2>3. u[i] = s[(n + 1) + i] /\ x[i] = t[i + 1]
    BY <1>3, <1>5, Zenon
  <2> QED
    BY <2>1, <2>2, <2>3, Zenon
<1>7. x = u
  BY <1>3, <1>5, <1>6, SeqEqual
<1>8. t[1] = s[n + 1]
  BY <1>1, <1>2, Zenon
<1> QED
  BY <1>4, <1>7, <1>8 DEF t, u, x

\* A step of the stream, in a connection that is in frame, is one of the channel.
LEMMA ChannelStep ==
    ASSUME IInv, IInv', StreamInFrame, StreamInFrame', LegalSizes, LegalSizes',
           ~torn, ~torn', [Next]_vars
    PROVE  [Channel!Next]_(Channel!vars)
<1> DEFINE n == Len(delivered)
<1>1. sent \in Seq(Fitting) /\ delivered \in Seq(Fitting) /\ delivered' \in Seq(Fitting)
      /\ sent' \in Seq(Fitting)
  BY DEF IInv, SizesInv
<1>2. n \in 0 .. Len(sent)
  <2>1. IsPrefix(delivered, sent)
    BY DEF StreamInFrame
  <2> QED
    BY <1>1, <2>1, PrefixIs
<1>3. ASSUME UNCHANGED <<sent, delivered>> PROVE UNCHANGED Channel!vars
  BY <1>3 DEF Channel!vars, Undelivered
<1>4. ASSUME NEW s \in Senders, NEW m \in Messages, Send(s, m) PROVE Channel!Next
  <2>1. sent' = Append(sent, m) /\ delivered' = delivered
    BY <1>4 DEF Send
  <2>2. m \in Fitting
    BY MessagesAssumption DEF Fitting, Packets
  <2>3. Undelivered' = Append(Undelivered, m)
    BY <1>1, <1>2, <2>1, <2>2, RestAppend DEF Undelivered
  <2>4. Channel!Accept(m)
    BY <2>1, <2>3 DEF Channel!Accept
  <2> QED
    BY <2>4 DEF Channel!Next
<1>5. CASE ParseMessage
  <2>1. sent' = sent
    BY <1>5 DEF ParseMessage
  <2>2. CASE delivered' = delivered
    BY <1>3, <2>1, <2>2
  <2>3. CASE delivered' # delivered
    <3> DEFINE m == [tag |-> HeaderTag, payload |-> Payload]
    <3>1. delivered' = Append(delivered, m)
      BY <1>5, <2>3 DEF ParseMessage
    <3> HIDE DEF m
    <3>2. Len(delivered') = n + 1 /\ delivered'[n + 1] = m
      BY <1>1, <3>1
    <3>3. IsPrefix(delivered', sent)
      BY <2>1 DEF StreamInFrame
    <3>4. Len(delivered') <= Len(sent) /\ \A i \in 1 .. Len(delivered') : delivered'[i] = sent[i]
      BY <1>1, <3>3, PrefixIs
    <3>5. n < Len(sent) /\ m = sent[n + 1]
      BY <1>1, <1>2, <3>2, <3>4
    <3>6. /\ Undelivered # <<>> /\ Head(Undelivered) = m
          /\ Tail(Undelivered) = SubSeq(sent, (n + 1) + 1, Len(sent))
      BY <1>1, <1>2, <3>5, RestTail DEF Undelivered
    <3>7. Undelivered' = Tail(Undelivered)
      BY <2>1, <3>2, <3>6 DEF Undelivered
    <3> QED
      BY <3>1, <3>6, <3>7 DEF Channel!Next, Channel!Deliver
  <2> QED
    BY <2>2, <2>3
<1>6. CASE ConnectionEnds
  <2>1. sent' = delivered /\ delivered' = delivered
    BY <1>6 DEF ConnectionEnds
  <2>2. Undelivered' = <<>>
    <3>1. n \in Nat
      BY <1>1
    <3> QED
      BY <2>1, <3>1, SubSeqEmpty DEF Undelivered
  <2> QED
    BY <2>1, <2>2 DEF Channel!Next, Channel!Lose
<1>7. CASE (\E s \in Senders : SomeSent(s)) \/ SomeReceived
  BY <1>3, <1>7 DEF SomeSent, SomeReceived, SendSome, ReceiveData
<1>8. CASE ParseNoHeader \/ Resync \/ DropOversized \/ ParseIncomplete
  BY <1>3, <1>8 DEF ParseNoHeader, Resync, DropOversized, ParseIncomplete
<1>9. CASE UNCHANGED vars
  BY <1>3, <1>9 DEF vars
<1> QED
  BY <1>4, <1>5, <1>6, <1>7, <1>8, <1>9 DEF Next, ProcessReceivedData

\* With one sending thread, as long as no message is too long and no connection
\* ends inside a message, TcpSocket::Send, recv() and ProcessReceivedData together
\* are the channel of whole messages that MessageChannel specifies.
THEOREM StreamIsChannel ==
    OneSender => (Spec /\ [](LegalSizes /\ ~torn) => Channel!Spec)
<1> SUFFICES ASSUME OneSender PROVE Spec /\ [](LegalSizes /\ ~torn) => Channel!Spec
  OBVIOUS
<1>1. Init => Channel!Init
  <2>1. SubSeq(<<>>, Len(<<>>) + 1, Len(<<>>)) = <<>>
    OBVIOUS
  <2> QED
    BY <2>1 DEF Init, Channel!Init, Undelivered
<1>2. Spec => []StreamInFrame
  BY StaysInFrame
<1>3. /\ IInv /\ StreamInFrame /\ (LegalSizes /\ ~torn)
      /\ IInv' /\ StreamInFrame' /\ (LegalSizes /\ ~torn)' /\ [Next]_vars
      => [Channel!Next]_(Channel!vars)
  BY ChannelStep
<1> QED
  BY <1>1, <1>2, <1>3, Invariance, PTL DEF Spec, Channel!Spec
=============================================================================
