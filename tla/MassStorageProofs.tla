------------------------- MODULE MassStorageProofs -------------------------
(***************************************************************************)
(* Proofs about MassStorage, for all configurations and media and any      *)
(* number of sessions.                                                     *)
(***************************************************************************)
EXTENDS MassStorage, SequenceTheorems, WellFoundedInduction, TLAPS

-----------------------------------------------------------------------------
(* Induction, stated for a set instead of a predicate *)

\* Every set of natural numbers that is not empty has a least element.
LEMMA LeastNatural ==
    ASSUME NEW T, T \subseteq Nat, T # {}
    PROVE  \E p \in T : \A q \in T : p <= q
<1> DEFINE R == {ss \in Nat \X Nat : ss[1] < ss[2]}
<1>1. IsWellFoundedOn(R, Nat)
  BY NatLessThanWellFounded, Zenon DEF OpToRel
<1> HIDE DEF R
<1>2. PICK p \in T : \A q \in T : ~(<<q, p>> \in R)
  BY <1>1, WFMin
<1>3. \A q \in T : ~(q < p)
  BY <1>2 DEF R
<1> QED
  BY <1>3

\* A set of numbers up to m that is not empty has a greatest element.
LEMMA GreatestUpTo ==
    ASSUME NEW m \in Nat, NEW T, T \subseteq 1 .. m, T # {}
    PROVE  \E p \in T : \A q \in T : q <= p
<1> DEFINE U == {m - q : q \in T}
<1>1. U \subseteq Nat /\ U # {}
  <2>1. \A q \in T : m - q \in Nat
    OBVIOUS
  <2>2. U \subseteq Nat
    BY <2>1, Zenon
  <2>3. PICK q : q \in T
    OBVIOUS
  <2>4. m - q \in U
    BY <2>3
  <2> QED
    BY <2>2, <2>4
<1>2. PICK u \in U : \A v \in U : u <= v
  <2> HIDE DEF U
  <2> QED
    BY <1>1, LeastNatural
<1>3. PICK p \in T : u = m - p
  BY DEF U
<1>4. ASSUME NEW q \in T PROVE q <= p
  <2>1. m - p <= m - q
    BY <1>2, <1>3
  <2>2. p \in Nat /\ q \in Nat
    BY <1>4
  <2> QED
    BY <2>1, <2>2
<1> QED
  BY <1>4

\* A set that holds 0 and the successor of each number it holds has them all.
LEMMA SetInduction ==
    ASSUME NEW T, 0 \in T, \A n \in Nat : n \in T => n + 1 \in T
    PROVE  Nat \subseteq T
<1> DEFINE U == Nat \ T
<1>1. SUFFICES ASSUME U # {} PROVE FALSE
  BY <1>1
<1>2. PICK p \in U : \A q \in U : p <= q
  BY <1>1, LeastNatural
<1>3. p \in Nat /\ p # 0
  BY <1>2
<1>4. p - 1 \in Nat /\ ~(p <= p - 1) /\ (p - 1) + 1 = p
  BY <1>3
<1>5. p - 1 \in T
  BY <1>2, <1>4
<1> QED
  BY <1>2, <1>4, <1>5

\* The same from 1 to a bound.
LEMMA UpTo ==
    ASSUME NEW N \in Nat, NEW T, N # 0 => 1 \in T,
           \A n \in 1 .. N - 1 : n \in T => n + 1 \in T
    PROVE  1 .. N \subseteq T
<1> DEFINE U == {n \in Nat : n + 1 \in 1 .. N => n + 1 \in T}
<1>1. 0 \in U
  OBVIOUS
<1>2. \A n \in Nat : n \in U => n + 1 \in U
  OBVIOUS
<1> HIDE DEF U
<1>3. Nat \subseteq U
  BY <1>1, <1>2, SetInduction
<1>4. \A i \in 1 .. N : i - 1 \in U /\ (i - 1) + 1 = i
  BY <1>3
<1> QED
  BY <1>4 DEF U

-----------------------------------------------------------------------------
(* Concatenation and FlattenSeq (SequencesExt), which joins sequences *)

\* Concatenation, kept folded where the steps only rewrite.
Cat(a, b) == a \o b

LEMMA CatType ==
    ASSUME NEW D, NEW a \in Seq(D), NEW b \in Seq(D)
    PROVE  Cat(a, b) \in Seq(D)
  BY ConcatProperties DEF Cat

\* One value of the recursion of FlattenSeq.
Joined(F, s, i) == IF i = 1 THEN s[i] ELSE Cat(F[i-1], s[i])

\* F[i] is what the first i sequences of s make together.
IsFlat(F, s) == F = [i \in 1 .. Len(s) |-> Joined(F, s, i)]

\* There is such a function.
LEMMA FlatExists ==
    ASSUME NEW S, NEW s \in Seq(S)
    PROVE  \E F : IsFlat(F, s)
<1> DEFINE T == {n \in Nat : \E F : F = [i \in 1 .. n |-> Joined(F, s, i)]}
<1>1. 0 \in T
  <2>1. <<>> = [i \in 1 .. 0 |-> Joined(<<>>, s, i)]
    OBVIOUS
  <2> QED
    BY <2>1
<1>2. ASSUME NEW n \in Nat, n \in T PROVE n + 1 \in T
  <2>1. PICK F : F = [i \in 1 .. n |-> Joined(F, s, i)]
    BY <1>2
  <2> DEFINE G == [i \in 1 .. n + 1 |-> IF i <= n THEN F[i] ELSE Joined(F, s, i)]
  <2>2. ASSUME NEW i \in 1 .. n PROVE F[i] = Joined(F, s, i)
    BY <2>1, Zenon
  <2>3. ASSUME NEW i \in 1 .. n + 1 PROVE Joined(G, s, i) = Joined(F, s, i)
    <3>1. i # 1 => i - 1 \in 1 .. n /\ G[i-1] = F[i-1]
      OBVIOUS
    <3> HIDE DEF G
    <3> QED
      BY <3>1, Zenon DEF Joined
  <2>4. ASSUME NEW i \in 1 .. n + 1 PROVE G[i] = Joined(G, s, i)
    BY <2>2, <2>3
  <2>5. DOMAIN G = 1 .. n + 1 /\ G = [i \in DOMAIN G |-> G[i]]
    OBVIOUS
  <2> HIDE DEF G
  <2>6. G = [i \in 1 .. n + 1 |-> Joined(G, s, i)]
    BY <2>4, <2>5
  <2>7. \E K : K = [i \in 1 .. n + 1 |-> Joined(K, s, i)]
    BY <2>6, Zenon
  <2>8. n + 1 \in Nat
    OBVIOUS
  <2> QED
    BY <2>7, <2>8, Zenon
<1>3. Len(s) \in T
  <2> HIDE DEF T
  <2> QED
    BY <1>1, <1>2, SetInduction
<1> QED
  BY <1>3 DEF IsFlat

\* It is the one that FlattenSeq takes its value from.
LEMMA FlattenDef ==
    ASSUME NEW S, NEW s \in Seq(S), s # <<>>
    PROVE  \E F : IsFlat(F, s) /\ FlattenSeq(s) = F[Len(s)]
<1> DEFINE C == CHOOSE F : IsFlat(F, s)
<1>1. IsFlat(C, s)
  BY FlatExists
<1>2. FlattenSeq(s) = C[Len(s)]
  BY DEF FlattenSeq, IsFlat, Joined, Cat
<1> QED
  BY <1>1, <1>2

LEMMA FlattenEmpty == FlattenSeq(<<>>) = <<>>
<1>1. Len(<<>>) = 0
  OBVIOUS
<1> QED
  BY <1>1, Zenon DEF FlattenSeq

\* The recursion, element by element, with the types of its values.
LEMMA FlatStep ==
    ASSUME NEW D, NEW s \in Seq(Seq(D)), NEW F, IsFlat(F, s)
    PROVE  /\ s # <<>> => F[1] = s[1]
           /\ \A i \in 1 .. Len(s) - 1 : F[i+1] = Cat(F[i], s[i+1])
           /\ \A i \in 1 .. Len(s) : F[i] \in Seq(D)
<1>1. ASSUME NEW i \in 1 .. Len(s) PROVE F[i] = Joined(F, s, i)
  BY Zenon DEF IsFlat
<1>2. s # <<>> => F[1] = s[1]
  BY <1>1 DEF Joined
<1>3. ASSUME NEW i \in 1 .. Len(s) - 1 PROVE F[i+1] = Cat(F[i], s[i+1])
  <2>1. i + 1 \in 1 .. Len(s) /\ i + 1 # 1 /\ (i + 1) - 1 = i
    OBVIOUS
  <2> QED
    BY <1>1, <2>1, Zenon DEF Joined
<1> DEFINE T == {i \in 1 .. Len(s) : F[i] \in Seq(D)}
<1>4. Len(s) # 0 => 1 \in T
  BY <1>2
<1>5. ASSUME NEW i \in 1 .. Len(s) - 1, i \in T PROVE i + 1 \in T
  <2>1. F[i] \in Seq(D) /\ i + 1 \in 1 .. Len(s)
    BY <1>5
  <2>2. s[i+1] \in Seq(D)
    BY <2>1, ElementOfSeq
  <2>3. Cat(F[i], s[i+1]) \in Seq(D)
    BY <2>1, <2>2, CatType
  <2> QED
    BY <2>1, <2>3, <1>3
<1>6. 1 .. Len(s) \subseteq T
  <2> HIDE DEF T
  <2>1. Len(s) \in Nat
    OBVIOUS
  <2> QED
    BY <1>4, <1>5, <2>1, UpTo
<1> QED
  BY <1>2, <1>3, <1>6

LEMMA FlattenType ==
    ASSUME NEW D, NEW s \in Seq(Seq(D))
    PROVE  FlattenSeq(s) \in Seq(D)
<1>1. CASE s = <<>>
  BY <1>1, FlattenEmpty, EmptySeq
<1>2. CASE s # <<>>
  <2>1. PICK F : IsFlat(F, s) /\ FlattenSeq(s) = F[Len(s)]
    BY <1>2, FlattenDef
  <2>2. Len(s) \in 1 .. Len(s)
    BY <1>2
  <2> QED
    BY <2>1, <2>2, FlatStep
<1> QED
  BY <1>1, <1>2

\* O[k] is where the sequence after the first k begins in the stream.
IsOffsets(O, s) ==
    /\ O \in [0 .. Len(s) -> Nat]
    /\ O[0] = 0 /\ O[Len(s)] = Len(FlattenSeq(s))
    /\ \A k \in 0 .. Len(s) : O[k] <= Len(FlattenSeq(s))
    /\ \A k \in 0 .. Len(s) - 1 :
          /\ O[k + 1] = O[k] + Len(s[k + 1])
          /\ \A j \in 1 .. Len(s[k + 1]) : FlattenSeq(s)[O[k] + j] = s[k + 1][j]

\* b begins with a.
Extends(b, a) == Len(a) <= Len(b) /\ \A j \in 1 .. Len(a) : b[j] = a[j]

LEMMA CatExtends ==
    ASSUME NEW D, NEW a \in Seq(D), NEW b \in Seq(D), NEW c \in Seq(D),
           Extends(b, a)
    PROVE  Extends(Cat(b, c), a)
<1>1. Len(Cat(b, c)) = Len(b) + Len(c) /\ \A i \in 1 .. Len(b) : Cat(b, c)[i] = b[i]
  BY DEF Cat
<1>2. Len(a) \in Nat /\ Len(b) \in Nat /\ Len(c) \in Nat
  OBVIOUS
<1>3. \A i \in 1 .. Len(a) : i \in 1 .. Len(b)
  BY <1>2 DEF Extends
<1> QED
  BY <1>1, <1>2, <1>3 DEF Extends

LEMMA FlattenOffsets ==
    ASSUME NEW D, NEW s \in Seq(Seq(D))
    PROVE  \E O : IsOffsets(O, s)
<1> DEFINE n == Len(s)
<1>1. CASE s = <<>>
  <2> DEFINE Z == [k \in 0 .. 0 |-> 0]
  <2>1. n = 0 /\ FlattenSeq(s) = <<>>
    BY <1>1, FlattenEmpty
  <2>2. IsOffsets(Z, s)
    BY <2>1 DEF IsOffsets
  <2> QED
    BY <2>2
<1>2. CASE s # <<>>
  <2>1. PICK F : IsFlat(F, s) /\ FlattenSeq(s) = F[n]
    BY <1>2, FlattenDef
  <2>2. /\ F[1] = s[1]
        /\ \A i \in 1 .. n - 1 : F[i+1] = Cat(F[i], s[i+1])
        /\ \A i \in 1 .. n : F[i] \in Seq(D)
    BY <1>2, <2>1, FlatStep
  <2>3. n \in Nat /\ n > 0
    BY <1>2
  <2>4. \A i \in 1 .. n : s[i] \in Seq(D) /\ Len(s[i]) \in Nat /\ Len(F[i]) \in Nat
    <3>1. \A i \in 1 .. n : s[i] \in Seq(D)
      BY ElementOfSeq
    <3> QED
      BY <2>2, <3>1
  <2> HIDE DEF n
  <2>5. ASSUME NEW i \in 1 .. n PROVE Extends(F[n], F[i])
    <3> DEFINE T == {m \in Nat : i + m <= n => Extends(F[i + m], F[i])}
    <3>1. 0 \in T
      <4>1. i + 0 = i
        OBVIOUS
      <4> QED
        BY <2>4, <4>1 DEF Extends
    <3>2. ASSUME NEW m \in Nat, m \in T PROVE m + 1 \in T
      <4>1. CASE i + (m + 1) <= n
        <5>1. i + m \in 1 .. n - 1 /\ i + m <= n /\ (i + m) + 1 = i + (m + 1)
              /\ i + m \in 1 .. n /\ (i + m) + 1 \in 1 .. n
          BY <2>3, <4>1
        <5>2. F[i + (m + 1)] = Cat(F[i + m], s[(i + m) + 1])
          BY <2>2, <5>1
        <5>3. Extends(F[i + m], F[i])
          BY <3>2, <5>1
        <5>4. F[i] \in Seq(D) /\ F[i + m] \in Seq(D) /\ s[(i + m) + 1] \in Seq(D)
          BY <2>2, <2>4, <5>1
        <5>5. Extends(F[i + (m + 1)], F[i])
          BY <5>2, <5>3, <5>4, CatExtends
        <5> QED
          BY <5>5
      <4>2. CASE ~(i + (m + 1) <= n)
        BY <4>2
      <4> QED
        BY <4>1, <4>2
    <3> HIDE DEF T
    <3>3. n - i \in T
      <4>1. n - i \in Nat
        BY <2>3
      <4> QED
        BY <3>1, <3>2, <4>1, SetInduction
    <3>4. n - i \in Nat /\ i + (n - i) = n
      BY <2>3
    <3> QED
      BY <3>3, <3>4 DEF T
  <2> DEFINE O == [k \in 0 .. n |-> IF k = 0 THEN 0 ELSE Len(F[k])]
  <2>6. O \in [0 .. n -> Nat] /\ O[0] = 0 /\ \A k \in 1 .. n : O[k] = Len(F[k])
    BY <2>3, <2>4
  <2> HIDE DEF O
  <2>7. ASSUME NEW k \in 0 .. n - 1
        PROVE  /\ O[k + 1] = O[k] + Len(s[k + 1])
               /\ \A j \in 1 .. Len(s[k + 1]) : F[n][O[k] + j] = s[k + 1][j]
    <3>1. k + 1 \in 1 .. n /\ Extends(F[n], F[k + 1]) /\ O[k + 1] = Len(F[k + 1])
      BY <2>3, <2>5, <2>6
    <3>2. CASE k = 0
      <4>1. F[k + 1] = s[k + 1] /\ O[k] = 0 /\ Len(s[k + 1]) \in Nat
        BY <2>2, <2>4, <2>6, <3>1, <3>2
      <4> QED
        BY <3>1, <4>1 DEF Extends
    <3>3. CASE k # 0
      <4>1. k \in 1 .. n - 1 /\ k \in 1 .. n
        BY <2>3, <3>3
      <4>2. F[k + 1] = Cat(F[k], s[k + 1]) /\ O[k] = Len(F[k])
        BY <2>2, <2>6, <4>1
      <4>3. /\ F[k] \in Seq(D) /\ s[k + 1] \in Seq(D)
            /\ Len(F[k]) \in Nat /\ Len(s[k + 1]) \in Nat
        BY <2>2, <2>4, <3>1, <4>1
      <4> DEFINE a == F[k]
                 b == s[k + 1]
      <4>a. a \in Seq(D) /\ b \in Seq(D) /\ Len(a) \in Nat /\ Len(b) \in Nat
        BY <4>3
      <4>b. F[k + 1] = Cat(a, b)
        BY <4>2
      <4> HIDE DEF a, b
      <4>c. /\ Len(Cat(a, b)) = Len(a) + Len(b)
            /\ \A j \in 1 .. Len(b) : Cat(a, b)[Len(a) + j] = b[j]
        BY <4>a DEF Cat
      <4>d. \A j \in 1 .. Len(b) : Len(a) + j \in 1 .. Len(Cat(a, b))
        BY <4>a, <4>c
      <4>4. /\ Len(F[k + 1]) = Len(F[k]) + Len(s[k + 1])
            /\ \A j \in 1 .. Len(s[k + 1]) : F[k + 1][Len(F[k]) + j] = s[k + 1][j]
        BY <4>b, <4>c, Zenon DEF a, b
      <4>5. \A j \in 1 .. Len(s[k + 1]) : Len(F[k]) + j \in 1 .. Len(F[k + 1])
        BY <4>b, <4>d, Zenon DEF a, b
      <4> QED
        BY <3>1, <4>2, <4>4, <4>5 DEF Extends
    <3> QED
      BY <3>2, <3>3
  <2>8. O[n] = Len(FlattenSeq(s))
    BY <2>1, <2>3, <2>6
  <2>9. ASSUME NEW k \in 0 .. n PROVE O[k] <= Len(FlattenSeq(s))
    <3>1. Len(FlattenSeq(s)) \in Nat
      BY <2>1, <2>3, <2>4
    <3>2. CASE k = 0
      BY <2>6, <3>1, <3>2
    <3>3. CASE k # 0
      BY <2>1, <2>5, <2>6, <3>3 DEF Extends
    <3> QED
      BY <3>2, <3>3
  <2>10. IsOffsets(O, s)
    BY <2>1, <2>6, <2>7, <2>8, <2>9 DEF IsOffsets, n
  <2> QED
    BY <2>10
<1> QED
  BY <1>1, <1>2

-----------------------------------------------------------------------------
(* The elements of a sequence *)

LEMMA ToSetType ==
    ASSUME NEW D, NEW s \in Seq(D)
    PROVE  ToSet(s) \subseteq D /\ \A i \in 1 .. Len(s) : s[i] \in ToSet(s)
  BY DEF ToSet

LEMMA ToSetEmpty == ToSet(<<>>) = {}
  BY DEF ToSet

LEMMA ToSetAppend ==
    ASSUME NEW D, NEW s \in Seq(D), NEW e \in D
    PROVE  ToSet(Append(s, e)) = ToSet(s) \cup {e}
<1> DEFINE t == Append(s, e)
<1>1. /\ t \in Seq(D) /\ Len(t) = Len(s) + 1 /\ Len(s) \in Nat
      /\ \A i \in 1 .. Len(s) : t[i] = s[i]
      /\ t[Len(s) + 1] = e
  BY AppendProperties
<1>2. DOMAIN t = 1 .. Len(s) + 1 /\ DOMAIN s = 1 .. Len(s)
  BY <1>1
<1> HIDE DEF t
<1>3. ASSUME NEW x \in ToSet(t) PROVE x \in ToSet(s) \cup {e}
  BY <1>1, <1>2 DEF ToSet
<1>4. ASSUME NEW x \in ToSet(s) \cup {e} PROVE x \in ToSet(t)
  BY <1>1, <1>2 DEF ToSet
<1> QED
  BY <1>3, <1>4 DEF t

LEMMA ToSetCat ==
    ASSUME NEW D, NEW a \in Seq(D), NEW b \in Seq(D)
    PROVE  ToSet(Cat(a, b)) = ToSet(a) \cup ToSet(b)
<1> DEFINE t == Cat(a, b)
<1>1. /\ t \in Seq(D) /\ Len(t) = Len(a) + Len(b) /\ Len(a) \in Nat /\ Len(b) \in Nat
      /\ \A i \in 1 .. Len(a) : t[i] = a[i]
      /\ \A i \in 1 .. Len(b) : t[Len(a) + i] = b[i]
  <2>1. t \in Seq(D)
    BY CatType
  <2>2. /\ Len(t) = Len(a) + Len(b)
        /\ \A i \in 1 .. Len(a) : t[i] = a[i]
        /\ \A i \in 1 .. Len(b) : t[Len(a) + i] = b[i]
    BY DEF Cat
  <2> HIDE DEF t
  <2> QED
    BY <2>1, <2>2
<1>2. DOMAIN t = 1 .. Len(t) /\ DOMAIN a = 1 .. Len(a) /\ DOMAIN b = 1 .. Len(b)
  BY <1>1
<1> HIDE DEF t
<1>3. ASSUME NEW i \in DOMAIN t PROVE t[i] \in ToSet(a) \cup ToSet(b)
  <2>1. CASE i <= Len(a)
    BY <1>1, <1>2, <2>1 DEF ToSet
  <2>2. CASE i > Len(a)
    <3>1. i - Len(a) \in 1 .. Len(b) /\ Len(a) + (i - Len(a)) = i
      BY <1>1, <1>2, <2>2
    <3>2. t[i] = b[i - Len(a)]
      BY <1>1, <3>1
    <3> QED
      BY <1>2, <3>1, <3>2 DEF ToSet
  <2> QED
    BY <1>1, <1>2, <2>1, <2>2
<1>4. ASSUME NEW i \in DOMAIN a PROVE a[i] \in ToSet(t)
  BY <1>1, <1>2 DEF ToSet
<1>5. ASSUME NEW i \in DOMAIN b PROVE b[i] \in ToSet(t)
  <2>1. Len(a) + i \in DOMAIN t
    BY <1>1, <1>2
  <2> QED
    BY <1>1, <1>2, <2>1 DEF ToSet
<1>6. ToSet(t) \subseteq ToSet(a) \cup ToSet(b)
  BY <1>3 DEF ToSet
<1>7. ToSet(a) \subseteq ToSet(t) /\ ToSet(b) \subseteq ToSet(t)
  BY <1>4, <1>5 DEF ToSet
<1> QED
  BY <1>6, <1>7 DEF t

LEMMA ToSetTail ==
    ASSUME NEW D, NEW s \in Seq(D), s # <<>>
    PROVE  /\ Head(s) \in ToSet(s) /\ Head(s) \in D /\ Head(s) = s[1]
           /\ Tail(s) \in Seq(D) /\ Len(Tail(s)) = Len(s) - 1
           /\ \A i \in 1 .. Len(Tail(s)) : Tail(s)[i] = s[i + 1]
           /\ ToSet(Tail(s)) \subseteq ToSet(s)
<1>1. /\ Tail(s) \in Seq(D) /\ Len(Tail(s)) = Len(s) - 1
      /\ \A i \in 1 .. Len(Tail(s)) : Tail(s)[i] = s[i + 1]
  BY HeadTailProperties
<1>2. Len(s) \in Nat /\ Len(s) > 0
  OBVIOUS
<1>3. Head(s) = s[1] /\ s[1] \in ToSet(s) /\ s[1] \in D
  BY <1>2, ToSetType
<1>4. ASSUME NEW x \in ToSet(Tail(s)) PROVE x \in ToSet(s)
  <2>1. PICK i \in 1 .. Len(Tail(s)) : x = Tail(s)[i]
    BY <1>1 DEF ToSet
  <2>2. i + 1 \in 1 .. Len(s) /\ x = s[i + 1]
    BY <1>1, <1>2, <2>1
  <2> QED
    BY <2>2, ToSetType
<1> QED
  BY <1>1, <1>3, <1>4

LEMMA AppendPair ==
    ASSUME NEW x, NEW y
    PROVE  Append(<<x>>, y) = <<x, y>>
<1> DEFINE a == Append(<<x>>, y)
           b == <<x, y>>
<1>1. <<x>> \in Seq({x, y}) /\ Len(<<x>>) = 1 /\ <<x>>[1] = x
  OBVIOUS
<1>2. a \in Seq({x, y}) /\ Len(a) = 2 /\ a[1] = x /\ a[2] = y
  BY <1>1, AppendProperties
<1>3. b \in Seq({x, y}) /\ Len(b) = 2 /\ b[1] = x /\ b[2] = y
  OBVIOUS
<1> HIDE DEF a, b
<1>4. \A i \in 1 .. Len(a) : a[i] = b[i]
  BY <1>2, <1>3
<1>5. a = b
  BY <1>2, <1>3, <1>4, SeqEqual
<1> QED
  BY <1>5 DEF a, b

-----------------------------------------------------------------------------
(* The types of the state *)

Commands == [id : Nat, tag : Nat, kind : {10, 16}]

DataPackets ==
    [len : {8, 32}, id : Nat, content : [last : Nat, size : Nat], of : Media]
EmptyPackets == [len : {0}, id : Nat]
CswPackets == [len : {13}, id : Nat, tag : Nat, status : {0, 1}]
Packets == DataPackets \cup EmptyPackets \cup CswPackets

QueueTypes == commands \in Seq(Commands) /\ answers \in Seq(Packets)

\* The data of an answer tell the geometry of the medium they were read from,
\* as far as the command can.
Good(d) ==
    /\ d.content.size = d.of.size
    /\ \/ d.content.last = d.of.last
       \/ d.len = 8 /\ d.of.last > Max10

IsData(a) == a.len = 8 \/ a.len = 32

\* Command id has no status 0, now or later.
Doomed(C, A, id) ==
    /\ \A c \in C : c.id # id
    /\ \A a \in A : a.len = CswLength /\ a.id = id => a.status # 0

\* What the commands C and the answers A have in common, when n were issued.
Queues(C, A, n) ==
    /\ \A c \in C : c.id <= n
    /\ \A a \in A : a.id <= n
    /\ \A c \in C, a \in A : a.len = CswLength => a.id # c.id
    /\ \A a \in A : IsData(a) /\ ~Good(a) => Doomed(C, A, a.id)

C0 == ToSet(commands)
A0 == ToSet(answers)

DistinctIds ==
    \A i, j \in 1 .. Len(commands) : commands[i].id = commands[j].id => i = j

QueueInv == Queues(C0, A0, issued) /\ DistinctIds

\* The data GetCapacity has read, when it waits for the status.
DataInv ==
    host = "status" =>
        /\ capacity_data \in DataPackets
        /\ capacity_data.id <= issued
        /\ capacity_data.len = DataLength(cbw.kind)
        /\ block_size_ = capacity_data.content.size
        /\ ~Good(capacity_data) => Doomed(C0, A0, capacity_data.id)

NoResultYet == host # "initialized" => total_blocks_ = 0

\* In a clean session, the tag of the command in progress and the length of its
\* data tell its answers from those of the command before it.
Told(C, A) ==
    /\ \A c \in C : (c.tag = cbw.tag \/ c.kind = cbw.kind) => c.id = cbw.id
    /\ \A a \in A : a.len = CswLength /\ a.tag = cbw.tag => a.id = cbw.id
    /\ \A a \in A : a.len = DataLength(cbw.kind) => a.id = cbw.id

OldTags(C, A) ==
    /\ \A c \in C : c.tag < next_tag_
    /\ \A a \in A : a.len = CswLength => a.tag < next_tag_

No10(C, A) ==
    /\ \A c \in C : c.kind # 10
    /\ \A a \in A : a.len # 8

CleanInv ==
    clean =>
        /\ host = "send16" => C0 = {} /\ A0 = {}
        /\ host \in {"send10", "data", "status"} => OldTags(C0, A0)
        /\ host \in {"data", "status"} =>
              /\ cbw.tag < next_tag_ /\ cbw.kind \in {10, 16}
              /\ Told(C0, A0)
        /\ host = "send10" => No10(C0, A0)
        /\ host \in {"data", "status"} /\ cbw.kind = 16 => No10(C0, A0)
        /\ host = "status" => capacity_data.id = cbw.id

IInv == TypeOK /\ QueueTypes /\ QueueInv /\ DataInv /\ NoResultYet /\ CleanInv
            /\ CapacityTrue

-----------------------------------------------------------------------------
(* The queues *)

\* What kind of packet a length stands for.
LEMMA PacketKinds ==
    ASSUME NEW a \in Packets
    PROVE  /\ a.len \in {0, 8, 32, 13} /\ a.id \in Nat
           /\ IsData(a) <=> a \in DataPackets
           /\ a.len = CswLength => a.tag \in Nat /\ a.status \in {0, 1}
  BY DEF Packets, DataPackets, EmptyPackets, CswPackets, IsData, CswLength

\* Reading an answer.
LEMMA QueuesRead ==
    ASSUME NEW C, NEW A, NEW B, NEW n, B \subseteq A, Queues(C, A, n)
    PROVE  Queues(C, B, n)
  BY DEF Queues, Doomed

\* Sending a command.
LEMMA QueuesSend ==
    ASSUME NEW C, NEW A, NEW n \in Nat, NEW c,
           C \subseteq Commands, A \subseteq Packets,
           c \in Commands, c.id = n + 1, Queues(C, A, n)
    PROVE  Queues(C \cup {c}, A, n + 1)
<1>1. \A d \in C : d.id \in Nat /\ d.id <= n
  BY DEF Queues, Commands
<1>2. \A a \in A : a.id \in Nat /\ a.id <= n
  BY PacketKinds DEF Queues
<1>3. \A d \in C \cup {c} : d.id <= n + 1
  BY <1>1
<1>4. \A a \in A : a.id <= n + 1 /\ a.id # c.id
  BY <1>2
<1>5. \A d \in C \cup {c}, a \in A : a.len = CswLength => a.id # d.id
  BY <1>4 DEF Queues
<1>6. \A a \in A : IsData(a) /\ ~Good(a) => Doomed(C \cup {c}, A, a.id)
  BY <1>4 DEF Queues, Doomed
<1> QED
  BY <1>3, <1>4, <1>5, <1>6 DEF Queues

\* Answering command c of C with the packets P: data that are good or whose
\* status is not 0, and the status.
LEMMA QueuesAnswer ==
    ASSUME NEW C, NEW A, NEW n, NEW c \in C, NEW D, NEW P,
           D \subseteq C, \A d \in D : d.id # c.id,
           \A p \in P : p.id = c.id,
           \/ \A p \in P : IsData(p) => Good(p)
           \/ \A p \in P : p.len = CswLength => p.status # 0,
           Queues(C, A, n)
    PROVE  Queues(D, A \cup P, n)
<1>1. \A d \in D : d.id <= n
  BY DEF Queues
<1>2. \A a \in A \cup P : a.id <= n
  BY DEF Queues
<1>3. \A d \in D, a \in A \cup P : a.len = CswLength => a.id # d.id
  BY DEF Queues
<1>4. ASSUME NEW a \in A \cup P, IsData(a), ~Good(a)
      PROVE  Doomed(D, A \cup P, a.id)
  <2>1. CASE a \in A
    <3>1. Doomed(C, A, a.id)
      BY <1>4, <2>1 DEF Queues
    <3>2. a.id # c.id
      BY <3>1 DEF Doomed
    <3> QED
      BY <3>1, <3>2 DEF Doomed
  <2>2. CASE a \in P
    <3>1. a.id = c.id /\ \A p \in P : p.len = CswLength => p.status # 0
      BY <1>4, <2>2
    <3>2. \A b \in A : b.len = CswLength => b.id # c.id
      BY DEF Queues
    <3> QED
      BY <3>1, <3>2 DEF Doomed
  <2> QED
    BY <2>1, <2>2
<1> QED
  BY <1>1, <1>2, <1>3, <1>4 DEF Queues

\* Less is left: what is doomed stays doomed.
LEMMA DoomedShrinks ==
    ASSUME NEW C, NEW A, NEW D, NEW B, D \subseteq C, B \subseteq A, NEW id,
           Doomed(C, A, id)
    PROVE  Doomed(D, B, id)
  BY DEF Doomed

\* The first command is taken: no other has its number.
LEMMA TakeCommand ==
    ASSUME commands \in Seq(Commands), commands # <<>>, DistinctIds,
           commands' = Tail(commands)
    PROVE  /\ Head(commands) \in C0 /\ Head(commands) \in Commands
           /\ commands' \in Seq(Commands)
           /\ C0' \subseteq C0
           /\ \A d \in C0' : d.id # Head(commands).id
           /\ DistinctIds'
<1> DEFINE t == Tail(commands)
<1>1. /\ Head(commands) \in C0 /\ Head(commands) \in Commands
      /\ Head(commands) = commands[1]
      /\ t \in Seq(Commands) /\ Len(t) = Len(commands) - 1
      /\ \A i \in 1 .. Len(t) : t[i] = commands[i + 1]
      /\ ToSet(t) \subseteq C0
  BY ToSetTail DEF C0
<1> HIDE DEF t
<1>2. Len(commands) \in Nat /\ Len(t) \in Nat
  BY <1>1
<1>3. ASSUME NEW i \in 1 .. Len(t)
      PROVE  i + 1 \in 1 .. Len(commands) /\ i + 1 # 1 /\ 1 \in 1 .. Len(commands)
  BY <1>1, <1>2
<1>4. ASSUME NEW i \in 1 .. Len(t) PROVE t[i].id # commands[1].id
  BY <1>1, <1>3 DEF DistinctIds
<1>5. \A d \in ToSet(t) : d.id # commands[1].id
  BY <1>1, <1>4 DEF ToSet
<1>6. ASSUME NEW i \in 1 .. Len(t), NEW j \in 1 .. Len(t), t[i].id = t[j].id
      PROVE  i = j
  <2>1. /\ i + 1 \in 1 .. Len(commands) /\ j + 1 \in 1 .. Len(commands)
        /\ commands[i + 1].id = commands[j + 1].id
    BY <1>1, <1>3, <1>6, Zenon
  <2>2. i + 1 = j + 1
    BY <2>1, Zenon DEF DistinctIds
  <2> QED
    BY <1>2, <2>2
<1> QED
  BY <1>1, <1>5, <1>6 DEF t, C0, DistinctIds

\* A command with a new number is appended.
LEMMA AppendCommand ==
    ASSUME commands \in Seq(Commands), NEW c \in Commands, DistinctIds,
           \A d \in C0 : d.id # c.id, commands' = Append(commands, c)
    PROVE  /\ commands' \in Seq(Commands) /\ C0' = C0 \cup {c}
           /\ DistinctIds'
<1> DEFINE t == Append(commands, c)
<1>1. /\ t \in Seq(Commands) /\ Len(t) = Len(commands) + 1
      /\ \A i \in 1 .. Len(commands) : t[i] = commands[i]
      /\ t[Len(commands) + 1] = c
  BY AppendProperties
<1>2. ToSet(t) = C0 \cup {c}
  BY ToSetAppend DEF C0
<1> HIDE DEF t
<1>3. Len(commands) \in Nat
  OBVIOUS
<1>4. \A i \in 1 .. Len(commands) : commands[i].id # c.id
  BY ToSetType DEF C0
<1>5. ASSUME NEW i \in 1 .. Len(t), NEW j \in 1 .. Len(t), t[i].id = t[j].id
      PROVE  i = j
  <2>1. CASE i \in 1 .. Len(commands) /\ j \in 1 .. Len(commands)
    BY <1>1, <1>5, <2>1 DEF DistinctIds
  <2>2. CASE i = Len(commands) + 1 /\ j \in 1 .. Len(commands)
    BY <1>1, <1>4, <1>5, <2>2
  <2>3. CASE i \in 1 .. Len(commands) /\ j = Len(commands) + 1
    BY <1>1, <1>4, <1>5, <2>3
  <2>4. CASE i = Len(commands) + 1 /\ j = Len(commands) + 1
    BY <2>4
  <2> QED
    BY <1>1, <1>3, <2>1, <2>2, <2>3, <2>4
<1> QED
  BY <1>1, <1>2, <1>5 DEF t, C0, DistinctIds

\* An answer is read.
LEMMA ReadAnswer ==
    ASSUME answers \in Seq(Packets), answers # <<>>, answers' = Tail(answers)
    PROVE  /\ Head(answers) \in A0 /\ Head(answers) \in Packets
           /\ answers' \in Seq(Packets) /\ A0' \subseteq A0
  BY ToSetTail DEF A0

-----------------------------------------------------------------------------
(* The search for the endpoints *)

\* A descriptor of length d[o+1] at offset o fits in the bytes d.
LEMMA Fits ==
    ASSUME NEW d \in Seq(0 .. 255), NEW o \in 0 .. Len(d),
           o + 2 <= Len(d), o + d[o + 1] <= Len(d)
    PROVE  /\ d[o + 1] \in Nat
           /\ o + d[o + 1] \in 0 .. Len(d)
           /\ d[o + 1] >= 7 => d[o + 3] \in 0 .. 255
<1>1. Len(d) \in Nat /\ o \in Nat
  OBVIOUS
<1>2. \A i \in 1 .. Len(d) : d[i] \in 0 .. 255
  BY ElementOfSeq
<1>3. d[o + 1] \in 0 .. 255
  BY <1>1, <1>2
<1> DEFINE l == d[o + 1]
           n == Len(d)
<1>4. l \in Nat /\ o + l <= n /\ n \in Nat
  <2>1. 0 .. 255 \subseteq Nat
    OBVIOUS
  <2> QED
    BY <1>1, <1>3, <2>1, Zenon
<1> HIDE DEF l, n
<1>5. (l >= 7 => o + 3 \in 1 .. n) /\ o + l \in 0 .. n
  BY <1>1, <1>4
<1> QED
  BY <1>2, <1>4, <1>5 DEF l, n

\* What HasDescriptor gives: the bytes that the loop looks at are there.
LEMMA DescriptorBytes ==
    ASSUME TypeOK, HasDescriptor
    PROVE  /\ At(1) \in Nat
           /\ offset + At(1) \in 0 .. Len(config_desc)
           /\ At(1) >= 7 => At(3) \in 0 .. 255
<1>1. config \in Seq(Seq(0 .. 255))
  BY ConfigsAssumption DEF TypeOK
<1>2. config_desc \in Seq(0 .. 255)
  BY <1>1, FlattenType DEF config_desc
<1>3. offset \in 0 .. Len(config_desc)
  BY DEF TypeOK
<1>4. offset + 2 <= Len(config_desc)
      /\ offset + config_desc[offset + 1] <= Len(config_desc)
  BY DEF HasDescriptor, At
<1> QED
  BY <1>2, <1>3, <1>4, Fits DEF At

\* The medium in an answer.
LEMMA MediumType ==
    ASSUME TypeOK, NEW kind \in {10, 16}
    PROVE  /\ Content(kind) \in [last : Nat, size : Nat]
           /\ Content(kind).size = medium.size
           /\ \/ Content(kind).last = medium.last
              \/ kind = 10 /\ medium.last > Max10
<1> DEFINE l == medium.last
           k == Min({l, Max10})
<1>1. l \in Nat /\ medium.size \in Nat /\ Max10 \in Nat
  BY MediaAssumption, BoundsAssumption DEF TypeOK
<1> HIDE DEF l
<1>2. \E x \in {l, Max10} : \A y \in {l, Max10} : x <= y
  BY <1>1
<1>3. k \in {l, Max10} /\ k <= l /\ k <= Max10
  BY <1>2 DEF Min
<1> HIDE DEF k
<1>4. k = l \/ l > Max10
  BY <1>1, <1>3
<1>5. Content(kind) = [last |-> IF kind = 10 THEN k ELSE l, size |-> medium.size]
  BY DEF Content, k, l
<1>6. k \in Nat
  BY <1>1, <1>3
<1> QED
  BY <1>1, <1>4, <1>5, <1>6 DEF l

LEMMA InitInv == Init => IInv
<1> SUFFICES ASSUME Init PROVE IInv
  OBVIOUS
<1>1. config \in Configs /\ offset \in 0 .. Len(config_desc)
  <2>1. config \in Seq(Seq(0 .. 255))
    BY ConfigsAssumption DEF Init
  <2>2. config_desc \in Seq(0 .. 255)
    BY <2>1, FlattenType DEF config_desc
  <2>3. Len(config_desc) \in Nat
    BY <2>2
  <2> QED
    BY <2>3 DEF Init
<1>2. TypeOK
  <2>1. \A i \in DOMAIN answers : answers[i].len \in {0, 8, 32, CswLength}
    BY DEF Init
  <2>2. cbw \in [id : Nat, tag : Nat, kind : {0, 10, 16}]
    BY DEF Init, NoCommand
  <2>3. /\ interface_number_ \in Nat \cup {-1}
        /\ bulk_in_endpoint_ \in 0 .. 255 /\ bulk_out_endpoint_ \in 0 .. 255
        /\ next_tag_ \in Nat \ {0} /\ issued \in Nat
        /\ total_blocks_ \in Nat /\ block_size_ \in Nat
    BY DEF Init
  <2>4. /\ host \in {"parse", "noendpoints", "claim", "failed", "reset", "send16",
                     "send10", "data", "status", "initialized"}
        /\ medium \in Media /\ supports16 \in BOOLEAN /\ halted \in BOOLEAN
        /\ clean \in BOOLEAN
    BY DEF Init
  <2> QED
    BY <1>1, <2>1, <2>2, <2>3, <2>4, Zenon DEF TypeOK
<1>3. QueueTypes /\ C0 = {} /\ A0 = {}
  BY ToSetEmpty, EmptySeq DEF Init, QueueTypes, C0, A0
<1>4. QueueInv
  BY <1>3 DEF Init, QueueInv, Queues, DistinctIds
<1>5. DataInv /\ NoResultYet /\ CleanInv /\ CapacityTrue
  BY DEF Init, DataInv, NoResultYet, CleanInv, CapacityTrue
<1> QED
  BY <1>2, <1>3, <1>4, <1>5 DEF IInv

-----------------------------------------------------------------------------
(* Steps that do not touch the queues *)

\* FindEndpoints, ClaimInterface, NewObject and ChangeMedium.
LEMMA QuietStep ==
    ASSUME IInv,
           \/ ParseDescriptor \/ ParseEnd \/ ClaimInterface \/ NewObject
           \/ \E m \in Media : ChangeMedium(m)
           \/ UNCHANGED vars
    PROVE  IInv'
<1>1. TypeOK'
  <2>0. TypeOK
    BY DEF IInv
  <2>1. CASE ParseDescriptor
    <3>1. /\ HasDescriptor
          /\ At(1) \in Nat /\ offset + At(1) \in 0 .. Len(config_desc)
          /\ At(1) >= 7 => At(3) \in 0 .. 255
      BY <2>0, <2>1, DescriptorBytes DEF ParseDescriptor
    <3>3. IsMassStorage \/ IsBulkEndpoint => At(3) \in 0 .. 255
      <4>1. IsMassStorage \/ IsBulkEndpoint => At(1) >= 7
        BY <3>1 DEF IsMassStorage, IsBulkEndpoint
      <4> QED
        BY <3>1, <4>1
    <3>4. config' = config /\ config_desc' = config_desc
      BY <2>1 DEF ParseDescriptor, config_desc
    <3>5. interface_number_' \in Nat \cup {-1}
      <4>1. interface_number_' = interface_number_ \/ interface_number_' \in 0 .. 255
        BY <2>1, <3>3 DEF ParseDescriptor
      <4>2. interface_number_ \in Nat \cup {-1}
        BY <2>0, Zenon DEF TypeOK
      <4>3. 0 .. 255 \subseteq Nat
        OBVIOUS
      <4> QED
        BY <4>1, <4>2, <4>3, Zenon
    <3>6. bulk_in_endpoint_' \in 0 .. 255 /\ bulk_out_endpoint_' \in 0 .. 255
      BY <2>0, <2>1, <3>3 DEF ParseDescriptor, TypeOK
    <3>7. offset' \in 0 .. Len(config_desc')
      BY <2>1, <3>1, <3>4 DEF ParseDescriptor
    <3>8. UNCHANGED <<host, next_tag_, cbw, capacity_data, resultVars, deviceVars,
                      historyVars>>
      BY <2>1 DEF ParseDescriptor
    <3> QED
      BY <2>0, <3>4, <3>5, <3>6, <3>7, <3>8
         DEF TypeOK, resultVars, deviceVars, historyVars
  <2>2. CASE ParseEnd \/ ClaimInterface
    <3>1. host' \in {"noendpoints", "claim", "reset", "failed"}
      BY <2>2 DEF ParseEnd, ClaimInterface
    <3>2. UNCHANGED <<config, parseVars, next_tag_, cbw, capacity_data, resultVars,
                      deviceVars, historyVars>>
      BY <2>2 DEF ParseEnd, ClaimInterface
    <3> QED
      BY <2>0, <3>1, <3>2
         DEF TypeOK, parseVars, resultVars, deviceVars, historyVars, config_desc
  <2>3. CASE NewObject
    BY <2>0, <2>3 DEF NewObject, TypeOK, NoCommand, deviceVars, config_desc
  <2>4. CASE \E m \in Media : ChangeMedium(m)
    BY <2>0, <2>4 DEF ChangeMedium, TypeOK, hostVars, parseVars, resultVars, config_desc
  <2>5. CASE UNCHANGED vars
    BY <2>0, <2>5 DEF vars, TypeOK, hostVars, parseVars, resultVars, deviceVars,
                      historyVars, config_desc
  <2> QED
    BY <2>1, <2>2, <2>3, <2>4, <2>5
<1>2. UNCHANGED <<commands, answers, issued, clean>>
  BY DEF ParseDescriptor, ParseEnd, ClaimInterface, NewObject, ChangeMedium, vars,
         deviceVars, historyVars
<1>3. QueueTypes' /\ QueueInv' /\ C0' = C0 /\ A0' = A0
  BY <1>2 DEF IInv, QueueTypes, QueueInv, C0, A0, DistinctIds
<1>4. CASE NewObject
  BY <1>1, <1>3, <1>4 DEF NewObject, IInv, DataInv, NoResultYet, CleanInv, CapacityTrue
<1>5. CASE ParseDescriptor \/ ParseEnd \/ ClaimInterface
  <2>1. host' \notin {"initialized", "send16", "send10", "data", "status"}
    BY <1>5 DEF ParseDescriptor, ParseEnd, ClaimInterface
  <2>2. total_blocks_' = 0
    BY <1>5 DEF IInv, NoResultYet, ParseDescriptor, ParseEnd, ClaimInterface, resultVars
  <2> QED
    BY <1>1, <1>3, <2>1, <2>2 DEF IInv, DataInv, NoResultYet, CleanInv, CapacityTrue
<1>6. CASE (\E m \in Media : ChangeMedium(m)) \/ UNCHANGED vars
  <2>1. UNCHANGED <<host, next_tag_, cbw, capacity_data, total_blocks_, block_size_>>
    BY <1>6 DEF ChangeMedium, vars, hostVars, resultVars
  <2> QED
    BY <1>1, <1>2, <1>3, <2>1
       DEF IInv, DataInv, NoResultYet, CleanInv, CapacityTrue, Told, OldTags, No10
<1> QED
  BY <1>4, <1>5, <1>6

-----------------------------------------------------------------------------
(* ResetDevice and GetCapacity *)

LEMMA AnswerLengths ==
    ASSUME NEW s \in Seq(Packets)
    PROVE  \A i \in DOMAIN s : s[i].len \in {0, 8, 32, CswLength}
  BY PacketKinds DEF CswLength

\* The sets of commands and answers have their types.
LEMMA QueueSets ==
    ASSUME IInv
    PROVE  /\ C0 \subseteq Commands /\ A0 \subseteq Packets
           /\ \A c \in C0 : c.id \in Nat /\ c.tag \in Nat /\ c.kind \in {10, 16}
           /\ \A a \in A0 : a.len = CswLength => a.tag \in Nat
<1>1. C0 \subseteq Commands /\ A0 \subseteq Packets
  BY ToSetType DEF IInv, QueueTypes, C0, A0
<1> QED
  BY <1>1, PacketKinds DEF Commands

LEMMA ResetStep ==
    ASSUME IInv, ResetDevice \/ ResetFails
    PROVE  IInv'
<1>1. /\ host = "reset" /\ host' = "send16"
      /\ UNCHANGED <<config, parseVars, next_tag_, cbw, capacity_data, resultVars,
                     medium, supports16, halted, issued, sessions, changes>>
      /\ total_blocks_ = 0
  BY DEF ResetDevice, ResetFails, deviceVars, IInv, NoResultYet
<1>2. QueueTypes' /\ QueueInv' /\ (clean' => C0' = {} /\ A0' = {})
  <2>1. CASE ResetDevice
    <3>1. commands' = <<>> /\ answers' = <<>>
      BY <2>1 DEF ResetDevice
    <3>2. C0' = {} /\ A0' = {} /\ QueueTypes'
      BY <3>1, ToSetEmpty, EmptySeq DEF C0, A0, QueueTypes
    <3>3. DistinctIds'
      BY <3>1 DEF DistinctIds
    <3> QED
      BY <3>2, <3>3 DEF QueueInv, Queues
  <2>2. CASE ResetFails
    <3>1. UNCHANGED <<commands, answers, issued>>
      BY <1>1, <2>2 DEF ResetFails, deviceVars
    <3>2. clean' => commands' = <<>> /\ answers' = <<>>
      BY <2>2, <3>1, Zenon DEF ResetFails
    <3> QED
      BY <3>1, <3>2, ToSetEmpty DEF IInv, QueueTypes, QueueInv, DistinctIds, C0, A0
  <2> QED
    BY <2>1, <2>2
<1>3. clean' \in BOOLEAN
  BY Zenon DEF ResetDevice, ResetFails
<1>4. TypeOK'
  <2>1. \A i \in DOMAIN answers' : answers'[i].len \in {0, 8, 32, CswLength}
    BY <1>2, AnswerLengths DEF QueueTypes
  <2> QED
    BY <1>1, <1>3, <2>1 DEF IInv, TypeOK, parseVars, resultVars, config_desc
<1> QED
  BY <1>1, <1>2, <1>4
     DEF IInv, DataInv, NoResultYet, CleanInv, CapacityTrue, resultVars

LEMMA SendStep ==
    ASSUME IInv, SendCBW
    PROVE  IInv'
<1> DEFINE c == [id |-> issued + 1, tag |-> next_tag_, kind |-> Kind]
<1>1. /\ host \in {"send16", "send10"} /\ host' = "data"
      /\ cbw' = c /\ issued' = issued + 1 /\ next_tag_' = next_tag_ + 1
      /\ commands' = Append(commands, c) /\ answers' = answers /\ clean' = clean
      /\ total_blocks_' = 0
  BY DEF SendCBW, IInv, NoResultYet, resultVars
<1>2. issued \in Nat /\ next_tag_ \in Nat /\ next_tag_ > 0
  BY DEF IInv, TypeOK
<1>3. c \in Commands /\ c.id = issued + 1 /\ c.tag = next_tag_ /\ c.kind = Kind
  BY <1>2 DEF Kind, Commands
<1> HIDE DEF c
<1>4. /\ C0 \subseteq Commands /\ A0 \subseteq Packets
      /\ \A d \in C0 : d.id \in Nat /\ d.tag \in Nat /\ d.kind \in {10, 16}
      /\ \A a \in A0 : a.len = CswLength => a.tag \in Nat
  BY QueueSets
<1>5. A0' = A0
  BY <1>1 DEF A0
<1>6. /\ commands' \in Seq(Commands) /\ C0' = C0 \cup {c}
      /\ DistinctIds'
  <2>1. \A d \in C0 : d.id # c.id
    BY <1>2, <1>3, <1>4 DEF IInv, QueueInv, Queues
  <2> QED
    BY <1>1, <1>3, <2>1, AppendCommand DEF IInv, QueueTypes, QueueInv
<1>7. QueueTypes' /\ QueueInv'
  BY <1>1, <1>2, <1>3, <1>4, <1>5, <1>6, QueuesSend DEF IInv, QueueTypes, QueueInv
<1>8. TypeOK'
  <2>1. UNCHANGED <<config, parseVars, block_size_, medium, supports16, halted>>
    BY DEF SendCBW, resultVars
  <2>2. cbw' \in [id : Nat, tag : Nat, kind : {0, 10, 16}]
    BY <1>1, <1>3 DEF Commands
  <2> QED
    BY <1>1, <1>2, <2>1, <2>2 DEF IInv, TypeOK, parseVars, config_desc
<1>9. CleanInv'
  <2> SUFFICES ASSUME clean PROVE CleanInv'
    BY <1>1 DEF CleanInv
  <2>1. OldTags(C0, A0)
    BY <1>1 DEF IInv, CleanInv, OldTags
  <2>2. OldTags(C0, A0)'
    BY <1>1, <1>2, <1>3, <1>4, <1>5, <1>6, <2>1 DEF OldTags
  <2>3. CASE host = "send16"
    <3>1. C0' = {c} /\ A0' = {} /\ c.kind = 16
      BY <1>3, <1>5, <1>6, <2>3 DEF IInv, CleanInv, Kind
    <3>2. Told(C0, A0)' /\ No10(C0, A0)'
      BY <1>1, <3>1 DEF Told, No10
    <3> QED
      BY <1>1, <1>2, <1>3, <2>2, <3>1, <3>2 DEF CleanInv
  <2>4. CASE host = "send10"
    <3>1. No10(C0, A0) /\ c.kind = 10
      BY <1>3, <2>4 DEF IInv, CleanInv, Kind
    <3>2. \A d \in C0 : d.tag # c.tag /\ d.kind # c.kind
      BY <1>2, <1>3, <1>4, <2>1, <3>1 DEF OldTags, No10
    <3>3. \A a \in A0 : a.len = CswLength => a.tag # c.tag
      BY <1>2, <1>3, <1>4, <2>1 DEF OldTags
    <3>4. \A a \in A0 : a.len # DataLength(c.kind)
      BY <3>1 DEF No10, DataLength
    <3>5. Told(C0, A0)'
      BY <1>1, <1>5, <1>6, <3>2, <3>3, <3>4 DEF Told
    <3> QED
      BY <1>1, <1>2, <1>3, <2>2, <3>1, <3>5 DEF CleanInv
  <2> QED
    BY <1>1, <2>3, <2>4
<1> QED
  BY <1>1, <1>7, <1>8, <1>9 DEF IInv, DataInv, NoResultYet, CapacityTrue

LEMMA SendFailsStep ==
    ASSUME IInv, SendCBWFails
    PROVE  IInv'
<1>1. /\ host' = "initialized" /\ total_blocks_' = 0 /\ next_tag_' = next_tag_ + 1
      /\ UNCHANGED <<config, parseVars, capacity_data, resultVars, deviceVars,
                     historyVars>>
  BY DEF SendCBWFails, IInv, NoResultYet, resultVars
<1>2. cbw' \in [id : Nat, tag : Nat, kind : {0, 10, 16}]
  BY DEF SendCBWFails, IInv, TypeOK, Kind
<1>3. TypeOK'
  BY <1>1, <1>2 DEF IInv, TypeOK, parseVars, resultVars, deviceVars, historyVars,
                    config_desc
<1>4. QueueTypes' /\ QueueInv'
  BY <1>1 DEF IInv, QueueTypes, QueueInv, C0, A0, DistinctIds, deviceVars, historyVars
<1> QED
  BY <1>1, <1>3, <1>4 DEF IInv, DataInv, NoResultYet, CleanInv, CapacityTrue

\* A transfer that reads the first answer, or nothing.
LEMMA TransferKeeps ==
    ASSUME IInv, UNCHANGED <<commands, issued>>,
           (answers # <<>> /\ Read) \/ UNCHANGED answers
    PROVE  /\ QueueTypes' /\ QueueInv' /\ C0' = C0 /\ A0' \subseteq A0
           /\ \A i \in DOMAIN answers' : answers'[i].len \in {0, 8, 32, CswLength}
<1>1. answers' \in Seq(Packets) /\ A0' \subseteq A0
  BY ReadAnswer DEF Read, IInv, QueueTypes, A0
<1>2. C0' = C0 /\ DistinctIds'
  BY DEF C0, DistinctIds, IInv, QueueInv
<1>3. Queues(C0', A0', issued')
  BY <1>1, <1>2, QueuesRead DEF IInv, QueueInv
<1> QED
  BY <1>1, <1>2, <1>3, AnswerLengths DEF IInv, QueueTypes, QueueInv

LEMMA TransferStep ==
    ASSUME IInv, TransferData
    PROVE  IInv'
<1> DEFINE a == Head(answers)
<1>1. /\ host = "data" /\ host' = "status" /\ answers # <<>>
      /\ a.len = DataLength(cbw.kind) /\ Read
      /\ capacity_data' = a /\ block_size_' = a.content.size
      /\ UNCHANGED <<config, parseVars, next_tag_, cbw, total_blocks_, medium,
                     supports16, commands, halted, historyVars>>
      /\ total_blocks_' = 0
  BY DEF TransferData, Arrives, IInv, NoResultYet
<1>2. /\ QueueTypes' /\ QueueInv' /\ C0' = C0 /\ A0' \subseteq A0
      /\ \A i \in DOMAIN answers' : answers'[i].len \in {0, 8, 32, CswLength}
  BY <1>1, TransferKeeps DEF historyVars
<1>3. a \in A0 /\ a \in Packets
  BY <1>1, ReadAnswer DEF Read, IInv, QueueTypes
<1> HIDE DEF a
<1>4. IsData(a) /\ a \in DataPackets
  BY <1>1, <1>3, PacketKinds DEF DataLength, IsData
<1>5. a.content.size \in Nat /\ a.id <= issued
  BY <1>3, <1>4 DEF DataPackets, IInv, QueueInv, Queues
<1>6. TypeOK'
  BY <1>1, <1>2, <1>5 DEF IInv, TypeOK, parseVars, historyVars, config_desc
<1>7. DataInv'
  <2>1. ~Good(a) => Doomed(C0', A0', a.id)
    BY <1>2, <1>3, <1>4, DoomedShrinks DEF IInv, QueueInv, Queues
  <2> QED
    BY <1>1, <1>4, <1>5, <2>1 DEF DataInv, historyVars
<1>8. CleanInv'
  <2>1. clean => a.id = cbw.id
    BY <1>1, <1>3 DEF IInv, CleanInv, Told
  <2> QED
    BY <1>1, <1>2, <2>1 DEF IInv, CleanInv, Told, OldTags, No10, historyVars
<1> QED
  BY <1>1, <1>2, <1>6, <1>7, <1>8 DEF IInv, NoResultYet, CapacityTrue

LEMMA TransferFailsStep ==
    ASSUME IInv, TransferFails
    PROVE  IInv'
<1>1. /\ host = "data" /\ total_blocks_' = 0
      /\ host' = IF cbw.kind = 16 THEN "send10" ELSE "initialized"
      /\ UNCHANGED <<config, parseVars, next_tag_, cbw, capacity_data, resultVars,
                     medium, supports16, commands, halted, historyVars>>
      /\ (answers # <<>> /\ Read) \/ UNCHANGED answers
  BY DEF TransferFails, Arrives, IInv, NoResultYet, resultVars
<1>2. /\ QueueTypes' /\ QueueInv' /\ C0' = C0 /\ A0' \subseteq A0
      /\ \A i \in DOMAIN answers' : answers'[i].len \in {0, 8, 32, CswLength}
  BY <1>1, TransferKeeps DEF historyVars
<1>3. TypeOK'
  BY <1>1, <1>2 DEF IInv, TypeOK, parseVars, resultVars, historyVars, config_desc
<1>4. CleanInv'
  BY <1>1, <1>2 DEF IInv, CleanInv, Told, OldTags, No10, historyVars
<1> QED
  BY <1>1, <1>2, <1>3, <1>4 DEF IInv, DataInv, NoResultYet, CapacityTrue

LEMMA StatusFailsStep ==
    ASSUME IInv, ReceiveCSWFails
    PROVE  IInv'
<1>1. /\ host = "status" /\ host' = "initialized" /\ total_blocks_' = 0
      /\ UNCHANGED <<config, parseVars, next_tag_, cbw, capacity_data, resultVars,
                     medium, supports16, commands, halted, historyVars>>
      /\ (answers # <<>> /\ Read) \/ UNCHANGED answers
  BY DEF ReceiveCSWFails, Arrives, IInv, NoResultYet, resultVars
<1>2. /\ QueueTypes' /\ QueueInv'
      /\ \A i \in DOMAIN answers' : answers'[i].len \in {0, 8, 32, CswLength}
  BY <1>1, TransferKeeps DEF historyVars
<1>3. TypeOK'
  BY <1>1, <1>2 DEF IInv, TypeOK, parseVars, resultVars, historyVars, config_desc
<1> QED
  BY <1>1, <1>2, <1>3 DEF IInv, DataInv, NoResultYet, CleanInv, CapacityTrue

\* The status that is accepted is that of the command whose data were read.
LEMMA StatusStep ==
    ASSUME IInv, ReceiveCSW
    PROVE  IInv'
<1> DEFINE a == Head(answers)
<1>1. /\ host = "status" /\ host' = "initialized" /\ answers # <<>>
      /\ a.len = CswLength /\ a.tag = cbw.tag /\ a.status = 0 /\ Read
      /\ total_blocks_' = capacity_data.content.last + 1
      /\ UNCHANGED <<config, parseVars, next_tag_, cbw, capacity_data, block_size_,
                     medium, supports16, commands, halted, historyVars>>
  BY DEF ReceiveCSW, Arrives
<1>2. /\ QueueTypes' /\ QueueInv'
      /\ \A i \in DOMAIN answers' : answers'[i].len \in {0, 8, 32, CswLength}
  BY <1>1, TransferKeeps DEF historyVars
<1>3. a \in A0 /\ a \in Packets
  BY <1>1, ReadAnswer DEF Read, IInv, QueueTypes
<1> HIDE DEF a
<1>4. /\ capacity_data \in DataPackets
      /\ capacity_data.len = DataLength(cbw.kind)
      /\ block_size_ = capacity_data.content.size
      /\ ~Good(capacity_data) => Doomed(C0, A0, capacity_data.id)
  BY <1>1 DEF IInv, DataInv
<1>5. capacity_data.content.last \in Nat
  BY <1>4 DEF DataPackets
<1>6. TypeOK'
  BY <1>1, <1>2, <1>5 DEF IInv, TypeOK, parseVars, historyVars, config_desc
<1>7. CapacityTrue'
  <2> SUFFICES ASSUME clean PROVE CapacityTrue'
    BY <1>1 DEF CapacityTrue, historyVars
  <2>1. a.id = cbw.id /\ capacity_data.id = cbw.id /\ cbw.kind \in {10, 16}
    BY <1>1, <1>3 DEF IInv, CleanInv, Told
  <2>2. Good(capacity_data)
    BY <1>1, <1>3, <1>4, <2>1 DEF Doomed
  <2>3. capacity_data.len = 8 => cbw.kind = 10
    BY <1>4, <2>1 DEF DataLength
  <2> QED
    BY <1>1, <1>4, <2>1, <2>2, <2>3 DEF Good, CapacityTrue
<1> QED
  BY <1>1, <1>2, <1>6, <1>7 DEF IInv, DataInv, NoResultYet, CleanInv

-----------------------------------------------------------------------------
(* The device *)

\* The first command is answered with the packets P.
LEMMA AnswerStep ==
    ASSUME IInv, commands # <<>>, commands' = Tail(commands),
           NEW P \in Seq(Packets), answers' = Cat(answers, P),
           \A p \in ToSet(P) :
              /\ p.id = Head(commands).id
              /\ p.len = CswLength => p.tag = Head(commands).tag
              /\ IsData(p) => p.len = DataLength(Head(commands).kind),
           \/ \A p \in ToSet(P) : IsData(p) => Good(p)
           \/ \A p \in ToSet(P) : p.len = CswLength => p.status # 0,
           halted' \in BOOLEAN,
           UNCHANGED <<config, hostVars, medium, supports16, historyVars>>
    PROVE  IInv'
<1> DEFINE c == Head(commands)
           Q == ToSet(P)
<1>1. /\ c \in C0 /\ c \in Commands /\ commands' \in Seq(Commands)
      /\ C0' \subseteq C0
      /\ \A d \in C0' : d.id # c.id
      /\ DistinctIds'
  BY TakeCommand DEF IInv, QueueTypes, QueueInv
<1>2. answers' \in Seq(Packets) /\ A0' = A0 \cup Q
  <2>1. answers \in Seq(Packets)
    BY DEF IInv, QueueTypes
  <2>2. Cat(answers, P) \in Seq(Packets)
    BY <2>1, CatType, Zenon
  <2>3. ToSet(Cat(answers, P)) = ToSet(answers) \cup ToSet(P)
    BY <2>1, ToSetCat
  <2> QED
    BY <2>2, <2>3 DEF A0
<1>3. /\ \A p \in Q :
            /\ p.id = c.id /\ (p.len = CswLength => p.tag = c.tag)
            /\ IsData(p) => p.len = DataLength(c.kind)
      /\ \/ \A p \in Q : IsData(p) => Good(p)
         \/ \A p \in Q : p.len = CswLength => p.status # 0
  OBVIOUS
<1>4. \A p \in Q : p.len \in {0, 8, 32, 13}
  BY ToSetType, PacketKinds
<1> HIDE DEF c, Q
<1>5. UNCHANGED <<host, next_tag_, cbw, capacity_data, total_blocks_, block_size_,
                  issued, clean>>
  BY DEF hostVars, resultVars, historyVars
<1>6. Queues(C0', A0', issued')
  <2>1. /\ c \in C0 /\ C0' \subseteq C0 /\ \A d \in C0' : d.id # c.id
        /\ \A p \in Q : p.id = c.id
        /\ \/ \A p \in Q : IsData(p) => Good(p)
           \/ \A p \in Q : p.len = CswLength => p.status # 0
        /\ Queues(C0, A0, issued)
    BY <1>1, <1>3, Zenon DEF IInv, QueueInv
  <2>2. Queues(C0', A0 \cup Q, issued)
    BY <2>1, QueuesAnswer, Zenon
  <2> QED
    BY <1>2, <1>5, <2>2
<1>7. QueueTypes' /\ QueueInv'
  BY <1>1, <1>2, <1>6 DEF QueueTypes, QueueInv
<1>8. TypeOK'
  <2>1. \A i \in DOMAIN answers' : answers'[i].len \in {0, 8, 32, CswLength}
    BY <1>2, AnswerLengths
  <2> QED
    BY <1>5, <2>1 DEF IInv, TypeOK, hostVars, parseVars, config_desc
<1>9. DataInv'
  <2> SUFFICES ASSUME host = "status", ~Good(capacity_data)
               PROVE  Doomed(C0', A0', capacity_data.id)
    BY <1>5 DEF IInv, DataInv
  <2>1. Doomed(C0, A0, capacity_data.id)
    BY DEF IInv, DataInv
  <2>2. capacity_data.id # c.id
    BY <1>1, <2>1 DEF Doomed
  <2> QED
    BY <1>1, <1>2, <1>3, <2>1, <2>2 DEF Doomed
<1>10. CleanInv'
  <2> SUFFICES ASSUME clean PROVE CleanInv'
    BY <1>5 DEF CleanInv
  <2>1. host # "send16"
    BY <1>1 DEF IInv, CleanInv
  <2>2. OldTags(C0, A0) => OldTags(C0, A0)'
    BY <1>1, <1>2, <1>3, <1>5 DEF OldTags
  <2>3. No10(C0, A0) => No10(C0, A0)'
    <3> SUFFICES ASSUME No10(C0, A0) PROVE No10(C0, A0)'
      OBVIOUS
    <3>1. DataLength(c.kind) = 32
      BY <1>1 DEF No10, DataLength, Commands
    <3>2. \A p \in Q : p.len # 8
      BY <1>3, <3>1 DEF IsData
    <3> QED
      BY <1>1, <1>2, <3>2 DEF No10
  <2>4. ASSUME Told(C0, A0), cbw.kind \in {10, 16} PROVE Told(C0, A0)'
    <3>1. \A d \in C0' : (d.tag = cbw.tag \/ d.kind = cbw.kind) => d.id = cbw.id
      BY <1>1, <2>4 DEF Told
    <3>2. \A a \in A0' : a.len = CswLength /\ a.tag = cbw.tag => a.id = cbw.id
      BY <1>1, <1>2, <1>3, <2>4 DEF Told
    <3>3. ASSUME NEW p \in Q, p.len = DataLength(cbw.kind) PROVE p.id = cbw.id
      <4>1. IsData(p) /\ p.len = DataLength(c.kind)
        BY <1>3, <3>3 DEF IsData, DataLength
      <4>2. c.kind = cbw.kind
        BY <1>1, <2>4, <3>3, <4>1 DEF DataLength, Commands
      <4> QED
        BY <1>1, <1>3, <2>4, <4>2 DEF Told
    <3>4. \A a \in A0' : a.len = DataLength(cbw.kind) => a.id = cbw.id
      BY <1>2, <2>4, <3>3 DEF Told
    <3> QED
      BY <1>5, <3>1, <3>2, <3>4 DEF Told
  <2> QED
    BY <1>5, <2>1, <2>2, <2>3, <2>4 DEF IInv, CleanInv
<1> QED
  BY <1>5, <1>7, <1>8, <1>9, <1>10 DEF IInv, NoResultYet, CapacityTrue

\* The packets that the device answers with.
LEMMA AnswerPackets ==
    ASSUME TypeOK, NEW c \in Commands, NEW s \in {0, 1},
           NEW content \in [last : Nat, size : Nat]
    PROVE  /\ Csw(c, s) \in Packets
           /\ Csw(c, s).id = c.id /\ Csw(c, s).tag = c.tag /\ Csw(c, s).status = s
           /\ Csw(c, s).len = CswLength
           /\ ~IsData(Csw(c, s))
           /\ Data(c, content) \in Packets
           /\ Data(c, content).id = c.id
           /\ Data(c, content).len = DataLength(c.kind)
           /\ Data(c, content).len # CswLength
           /\ Data(c, content).content = content
           /\ Data(c, content).of = medium
<1>1. Csw(c, s) \in CswPackets
  BY DEF Csw, CswPackets, CswLength, Commands
<1>2. Data(c, content) \in DataPackets
  BY DEF Data, DataPackets, DataLength, Commands, TypeOK
<1> QED
  BY <1>1, <1>2
     DEF Csw, Data, Packets, IsData, CswLength, DataLength

LEMMA ExecuteStep ==
    ASSUME IInv, Execute
    PROVE  IInv'
<1> DEFINE c == Head(commands)
           d == Data(c, Content(c.kind))
           s == Csw(c, 0)
           P == <<d, s>>
<1>1. /\ TypeOK /\ commands # <<>> /\ commands' = Tail(commands)
      /\ answers' = Cat(answers, P)
      /\ halted' \in BOOLEAN
      /\ UNCHANGED <<config, hostVars, medium, supports16, historyVars>>
  BY DEF Execute, IInv, TypeOK, Cat
<1>2. c \in Commands /\ c.kind \in {10, 16}
  BY <1>1, TakeCommand DEF IInv, QueueTypes, QueueInv, Commands
<1>3. /\ Content(c.kind) \in [last : Nat, size : Nat]
      /\ Content(c.kind).size = medium.size
      /\ \/ Content(c.kind).last = medium.last
         \/ c.kind = 10 /\ medium.last > Max10
  BY <1>1, <1>2, MediumType
<1>4. /\ s \in Packets /\ s.id = c.id /\ s.tag = c.tag /\ ~IsData(s)
      /\ d \in Packets /\ d.id = c.id /\ d.len = DataLength(c.kind) /\ d.len # CswLength
      /\ d.content = Content(c.kind) /\ d.of = medium
  BY <1>1, <1>2, <1>3, AnswerPackets
<1>5. Good(d)
  BY <1>3, <1>4 DEF Good, DataLength
<1> HIDE DEF d, s
<1>6. P \in Seq(Packets) /\ ToSet(P) = {d, s}
  BY <1>4 DEF ToSet
<1> HIDE DEF P
<1>7. \A p \in ToSet(P) :
         /\ p.id = c.id
         /\ p.len = CswLength => p.tag = c.tag
         /\ IsData(p) => p.len = DataLength(c.kind)
  BY <1>4, <1>6
<1>8. \A p \in ToSet(P) : IsData(p) => Good(p)
  BY <1>4, <1>5, <1>6
<1> QED
  BY <1>1, <1>6, <1>7, <1>8, AnswerStep

LEMMA RefuseStep ==
    ASSUME IInv, Refuse
    PROVE  IInv'
<1> DEFINE c == Head(commands)
           d == Data(c, [last |-> 0, size |-> 0])
           e == [len |-> 0, id |-> c.id]
           s == Csw(c, 1)
<1>1. /\ TypeOK /\ commands # <<>> /\ commands' = Tail(commands)
      /\ halted' \in BOOLEAN
      /\ UNCHANGED <<config, hostVars, medium, supports16, historyVars>>
  BY DEF Refuse, IInv, TypeOK
<1>2. c \in Commands
  BY <1>1, TakeCommand DEF IInv, QueueTypes, QueueInv
<1>3. /\ s \in Packets /\ s.id = c.id /\ s.tag = c.tag /\ s.status = 1 /\ ~IsData(s)
      /\ d \in Packets /\ d.id = c.id /\ d.len = DataLength(c.kind) /\ d.len # CswLength
  BY <1>1, <1>2, AnswerPackets
<1>4. e \in Packets /\ e.id = c.id /\ e.len # CswLength /\ ~IsData(e)
  BY <1>2 DEF Packets, EmptyPackets, Commands, CswLength, IsData
<1>5. /\ <<d, s>> \in Seq(Packets) /\ ToSet(<<d, s>>) = {d, s}
      /\ <<e, s>> \in Seq(Packets) /\ ToSet(<<e, s>>) = {e, s}
      /\ <<s>> \in Seq(Packets) /\ ToSet(<<s>>) = {s}
  <2> HIDE DEF d, e, s
  <2> QED
    BY <1>3, <1>4 DEF ToSet
<1>6. PICK P \in {<<d, s>>, <<e, s>>, <<s>>} : answers' = Cat(answers, P)
  <2>1. /\ Append(<<d>>, s) = <<d, s>>
        /\ Append(<<e>>, s) = <<e, s>>
        /\ Append(<<>>, s) = <<s>>
    <3> HIDE DEF d, e, s
    <3> QED
      BY AppendPair
  <2>2. \E P \in {Append(<<d>>, s), Append(<<e>>, s), Append(<<>>, s)} :
           answers' = Cat(answers, P)
    BY Zenon DEF Refuse, Cat
  <2> HIDE DEF d, e, s
  <2> QED
    BY <2>1, <2>2
<1> HIDE DEF d, e, s
<1>7. P \in Seq(Packets) /\ ToSet(P) \subseteq {d, e, s}
  <2>1. CASE P = <<d, s>>
    BY <1>5, <2>1
  <2>2. CASE P = <<e, s>>
    BY <1>5, <2>2
  <2>3. CASE P = <<s>>
    BY <1>5, <2>3
  <2> QED
    BY <1>6, <2>1, <2>2, <2>3
<1>8. \A p \in ToSet(P) :
         /\ p.id = c.id
         /\ p.len = CswLength => p.tag = c.tag
         /\ IsData(p) => p.len = DataLength(c.kind)
  BY <1>3, <1>4, <1>7
<1>9. \A p \in ToSet(P) : p.len = CswLength => p.status # 0
  BY <1>3, <1>4, <1>7
<1> QED
  BY <1>1, <1>6, <1>7, <1>8, <1>9, AnswerStep

-----------------------------------------------------------------------------

\* The inductive invariant: the numbers, tags and lengths in the two queues tell
\* the answers to one command from those to another.
THEOREM Invariance == Spec => []IInv
<1>1. IInv /\ [Next]_vars => IInv'
  BY QuietStep, ResetStep, SendStep, SendFailsStep, TransferStep, TransferFailsStep,
     StatusStep, StatusFailsStep, ExecuteStep, RefuseStep
     DEF Next, Initialize, GetCapacity
<1> QED
  BY <1>1, InitInv, PTL DEF Spec

\* The members of MassStorageDevice keep their types, and FindEndpoints never
\* reads beyond the configuration descriptor, whatever bytes it holds.
THEOREM TypeCorrect == Spec => []TypeOK
<1>1. IInv => TypeOK
  BY DEF IInv
<1> QED
  BY <1>1, Invariance, PTL

\* A capacity that GetCapacity reports in a clean session is that of the medium
\* the device read in answer to this very command.
THEOREM CapacityIsTrue == Spec => []CapacityTrue
<1>1. IInv => CapacityTrue
  BY DEF IInv
<1> QED
  BY <1>1, Invariance, PTL

-----------------------------------------------------------------------------
(* FindEndpoints *)

\* Descriptor i of c is there in full.
Full(c, i) == Len(c[i]) = c[i][1]

\* What a device sends: an interface descriptor has at least 9 bytes and an
\* endpoint descriptor at least 7, no address is 0, and a last descriptor whose
\* length is not that of its bytes is cut off or ends the loop.
WellFormed(c) ==
    \A i \in 1 .. Len(c) :
        /\ c[i] # <<>>
        /\ Full(c, i) =>
              /\ Len(c[i]) >= 2
              /\ c[i][2] = INTERFACE => Len(c[i]) >= 9
              /\ c[i][2] = ENDPOINT => Len(c[i]) >= 7 /\ c[i][3] # 0
        /\ ~Full(c, i) => c[i][1] = 0 \/ Len(c[i]) < c[i][1]

\* Where each descriptor begins.
Off == CHOOSE O : IsOffsets(O, config)

Bulk(m, in) ==
    IsA(m, ENDPOINT) /\ config[m][4] % 4 = BULK /\ IsIn(config[m][3]) = in

\* Endpoint m comes somewhere after a mass-storage interface.
After(k, m) == \E d \in 1 .. k : d < m /\ IsDisk(d)

\* What the loop knows after the first k descriptors.
Seen(k) ==
    /\ \/ interface_number_ = -1 /\ \A i \in 1 .. k : ~IsDisk(i)
       \/ \E i \in 1 .. k : IsDisk(i) /\ interface_number_ = config[i][3]
    /\ bulk_in_endpoint_ # 0 =>
          \E m \in 1 .. k : After(k, m) /\ Bulk(m, TRUE) /\ bulk_in_endpoint_ = config[m][3]
    /\ bulk_out_endpoint_ # 0 =>
          \E m \in 1 .. k : After(k, m) /\ Bulk(m, FALSE) /\ bulk_out_endpoint_ = config[m][3]
    /\ \A m \in 1 .. k : After(k, m) /\ Bulk(m, TRUE) => bulk_in_endpoint_ # 0
    /\ \A m \in 1 .. k : After(k, m) /\ Bulk(m, FALSE) => bulk_out_endpoint_ # 0

ParseInv ==
    host = "parse" => \E k \in 0 .. Len(config) : offset = Off[k] /\ Seen(k)

ConfigsWellFormed == \A c \in Configs : WellFormed(c)

\* The lengths and the bytes of the descriptors.
LEMMA ConfigType ==
    ASSUME TypeOK
    PROVE  /\ config \in Seq(Seq(0 .. 255)) /\ Len(config) \in Nat
           /\ \A i \in 1 .. Len(config) :
                 /\ config[i] \in Seq(0 .. 255) /\ Len(config[i]) \in Nat
                 /\ \A j \in 1 .. Len(config[i]) : config[i][j] \in 0 .. 255
           /\ \A i \in 1 .. Len(config) - 1 : Full(config, i)
           /\ IsOffsets(Off, config)
<1>1. config \in Seq(Seq(0 .. 255)) /\ \A i \in 1 .. Len(config) - 1 : Full(config, i)
  BY ConfigsAssumption DEF TypeOK, Full
<1>2. \A i \in 1 .. Len(config) : config[i] \in Seq(0 .. 255)
  BY <1>1, ElementOfSeq
<1>3. \A i \in 1 .. Len(config) :
         /\ Len(config[i]) \in Nat
         /\ \A j \in 1 .. Len(config[i]) : config[i][j] \in 0 .. 255
  BY <1>2, ElementOfSeq
<1>4. IsOffsets(Off, config)
  BY <1>1, FlattenOffsets DEF Off
<1> QED
  BY <1>1, <1>2, <1>3, <1>4

\* At the beginning of a descriptor the loop goes on if it is there in full, and
\* At reads its bytes.
LEMMA Aligned ==
    ASSUME TypeOK, WellFormed(config), NEW k \in 0 .. Len(config), offset = Off[k]
    PROVE  /\ HasDescriptor <=> k < Len(config) /\ Full(config, k + 1)
           /\ HasDescriptor =>
                 /\ offset + At(1) = Off[k + 1]
                 /\ \A j \in 1 .. Len(config[k + 1]) : At(j) = config[k + 1][j]
<1> DEFINE N == Len(config)
           L == Len(config_desc)
           x == config[k + 1]
<1>1. /\ N \in Nat /\ Off \in [0 .. N -> Nat] /\ Off[N] = L
      /\ \A i \in 0 .. N : Off[i] <= L
  BY ConfigType DEF IsOffsets, config_desc
<1>2. ASSUME k < N
      PROVE  /\ k + 1 \in 1 .. N /\ k \in 0 .. N - 1 /\ k + 1 \in 0 .. N
             /\ Len(x) \in Nat /\ x[1] \in Nat /\ Len(x) >= 1
             /\ Off[k + 1] = Off[k] + Len(x)
             /\ \A j \in 1 .. Len(x) : At(j) = x[j]
  <2>1. k + 1 \in 1 .. N /\ k \in 0 .. N - 1 /\ k + 1 \in 0 .. N
    BY <1>1, <1>2
  <2>2. x \in Seq(0 .. 255) /\ Len(x) \in Nat /\ \A j \in 1 .. Len(x) : x[j] \in 0 .. 255
    BY <2>1, ConfigType
  <2>3. x # <<>>
    BY <2>1 DEF WellFormed
  <2>4. /\ Off[k + 1] = Off[k] + Len(x)
        /\ \A j \in 1 .. Len(x) : config_desc[Off[k] + j] = x[j]
    BY <2>1, ConfigType DEF IsOffsets, config_desc
  <2> HIDE DEF x
  <2>5. Len(x) >= 1
    BY <2>2, <2>3, EmptySeq
  <2>6. x[1] \in 0 .. 255
    BY <2>2, <2>5
  <2>7. 0 .. 255 \subseteq Nat
    OBVIOUS
  <2>8. \A j \in 1 .. Len(x) : At(j) = x[j]
    BY <2>4 DEF At
  <2> QED
    BY <2>1, <2>2, <2>4, <2>5, <2>6, <2>7, <2>8
<1>3. L \in Nat /\ Off[k] \in Nat
  BY <1>1
<1> HIDE DEF L
<1>4. ASSUME HasDescriptor PROVE k < N /\ Full(config, k + 1)
  <2>1. offset + 2 <= L /\ At(1) # 0 /\ offset + At(1) <= L
    BY <1>4 DEF HasDescriptor, L
  <2>2. k < N
    BY <1>1, <1>3, <2>1
  <2>3. At(1) = x[1] /\ Len(x) \in Nat /\ x[1] \in Nat /\ Off[k + 1] = Off[k] + Len(x)
    BY <1>2, <2>2
  <2>4. ASSUME ~Full(config, k + 1) PROVE FALSE
    <3>1. k + 1 = N
      <4>1. k + 1 \notin 1 .. N - 1
        BY <2>4, ConfigType
      <4> QED
        BY <1>1, <2>2, <4>1
    <3>2. x[1] = 0 \/ Len(x) < x[1]
      BY <1>2, <2>2, <2>4 DEF WellFormed
    <3>3. L = Off[k] + Len(x)
      BY <1>1, <2>3, <3>1
    <3> HIDE DEF x
    <3> DEFINE a == x[1]
               l == Len(x)
               o == Off[k]
    <3>4. a \in Nat /\ l \in Nat /\ o \in Nat /\ a # 0 /\ (a = 0 \/ l < a)
          /\ L = o + l /\ o + a <= L
      BY <1>3, <2>1, <2>3, <3>2, <3>3
    <3> HIDE DEF a, l, o
    <3> QED
      BY <3>4
  <2> QED
    BY <2>2, <2>4
<1>5. ASSUME k < N, Full(config, k + 1)
      PROVE  /\ HasDescriptor /\ offset + At(1) = Off[k + 1]
             /\ \A j \in 1 .. Len(x) : At(j) = x[j]
  <2>1. /\ k + 1 \in 1 .. N /\ k + 1 \in 0 .. N /\ Len(x) \in Nat /\ Len(x) >= 1
        /\ Off[k + 1] = Off[k] + Len(x)
        /\ \A j \in 1 .. Len(x) : At(j) = x[j]
    BY <1>2, <1>5
  <2>2. x[1] = Len(x) /\ Len(x) >= 2
    BY <1>5, <2>1 DEF WellFormed, Full
  <2>3. At(1) = x[1] /\ Off[k + 1] <= L
    BY <1>1, <2>1
  <2> HIDE DEF x
  <2> DEFINE l == Len(x)
             o == Off[k]
  <2>4. l \in Nat /\ l >= 2 /\ o \in Nat /\ o + l <= L /\ At(1) = l /\ offset = o
    BY <1>3, <2>1, <2>2, <2>3
  <2> HIDE DEF l, o
  <2>5. offset + 2 <= L /\ At(1) # 0 /\ offset + At(1) <= L
    BY <1>3, <2>4
  <2>6. HasDescriptor
    BY <2>5 DEF HasDescriptor, L
  <2> QED
    BY <2>1, <2>4, <2>6 DEF l, o
<1> QED
  BY <1>4, <1>5

\* The bytes of interface and endpoint descriptors that the loop looks at.
LEMMA DescriptorFields ==
    ASSUME TypeOK, WellFormed(config), NEW i \in 1 .. Len(config), Full(config, i)
    PROVE  /\ Len(config[i]) \in Nat /\ Len(config[i]) >= 2
           /\ config[i][2] = INTERFACE =>
                 Len(config[i]) >= 9 /\ config[i][3] \in 0 .. 255
           /\ config[i][2] = ENDPOINT =>
                 /\ Len(config[i]) >= 7 /\ config[i][3] \in 0 .. 255
                 /\ config[i][3] # 0
<1> DEFINE x == config[i]
<1>1. /\ Len(x) \in Nat /\ Len(x) >= 2
      /\ x[2] = INTERFACE => Len(x) >= 9
      /\ x[2] = ENDPOINT => Len(x) >= 7 /\ x[3] # 0
  BY ConfigType DEF WellFormed
<1>2. \A j \in 1 .. Len(x) : x[j] \in 0 .. 255
  BY ConfigType
<1> HIDE DEF x
<1>3. Len(x) >= 7 => 3 \in 1 .. Len(x)
  BY <1>1
<1>4. Len(x) >= 9 => Len(x) >= 7
  BY <1>1
<1> QED
  BY <1>1, <1>2, <1>3, <1>4 DEF x

\* The number of an interface that was found is one.
LEMMA SeenNumber ==
    ASSUME TypeOK, WellFormed(config), NEW k \in 0 .. Len(config), Seen(k)
    PROVE  interface_number_ >= 0 <=> \E i \in 1 .. k : IsDisk(i)
<1>1. ASSUME NEW i \in 1 .. k, IsDisk(i), interface_number_ = config[i][3]
      PROVE  interface_number_ >= 0
  <2>1. i \in 1 .. Len(config) /\ Full(config, i) /\ config[i][2] = INTERFACE
    BY <1>1, ConfigType DEF IsDisk, IsA, Full
  <2>2. config[i][3] \in 0 .. 255
    BY <2>1, DescriptorFields
  <2>3. \A v \in 0 .. 255 : v >= 0
    OBVIOUS
  <2> QED
    BY <1>1, <2>2, <2>3, Zenon
<1>2. interface_number_ = -1 => ~(interface_number_ >= 0)
  OBVIOUS
<1> QED
  BY <1>1, <1>2 DEF Seen

\* One more descriptor.
LEMMA SeenNext ==
    ASSUME TypeOK, WellFormed(config), ParseDescriptor,
           NEW k \in 0 .. Len(config), offset = Off[k], Seen(k)
    PROVE  /\ k + 1 \in 0 .. Len(config) /\ offset' = Off[k + 1]
           /\ Seen(k + 1)'
<1> DEFINE n == k + 1
           x == config[n]
<1>1. /\ k < Len(config) /\ Full(config, n)
      /\ offset + At(1) = Off[n]
      /\ \A j \in 1 .. Len(x) : At(j) = x[j]
  BY Aligned DEF ParseDescriptor
<1>2. n \in 1 .. Len(config) /\ n \in 0 .. Len(config) /\ k \in Nat
  BY <1>1, ConfigType
<1>3. /\ Len(x) \in Nat /\ Len(x) >= 2 /\ x[1] = Len(x)
      /\ x[2] = INTERFACE => Len(x) >= 9
      /\ x[2] = ENDPOINT => Len(x) >= 7 /\ x[3] # 0
  BY <1>1, <1>2, DescriptorFields DEF Full
<1>4. At(1) = x[1] /\ At(2) = x[2]
  BY <1>1, <1>3
<1>5. x[2] = INTERFACE => At(3) = x[3] /\ At(6) = x[6]
  BY <1>1, <1>3
<1>6. x[2] = ENDPOINT => At(3) = x[3] /\ At(4) = x[4]
  BY <1>1, <1>3
<1>7. IsMassStorage <=> IsDisk(n)
  BY <1>1, <1>3, <1>4, <1>5 DEF IsMassStorage, IsDisk, IsA, Full
<1>8. IsBulkEndpoint <=> interface_number_ >= 0 /\ IsA(n, ENDPOINT) /\ x[4] % 4 = BULK
  BY <1>1, <1>3, <1>4, <1>6 DEF IsBulkEndpoint, IsA, Full
<1>9. IsBulkEndpoint => At(3) = x[3] /\ x[3] # 0
  BY <1>3, <1>6, <1>8 DEF IsA
<1>10. IsMassStorage => At(3) = x[3]
  BY <1>5, <1>7 DEF IsDisk, IsA
<1>11. (interface_number_ >= 0) <=> After(n, n)
  <2>1. interface_number_ >= 0 <=> \E i \in 1 .. k : IsDisk(i)
    BY SeenNumber
  <2>2. \A d : d \in 1 .. k <=> d \in 1 .. n /\ d < n
    BY <1>2
  <2> QED
    BY <2>1, <2>2 DEF After
<1>12. \A i : i \in 1 .. n <=> i \in 1 .. k \/ i = n
  BY <1>2
<1>13. \A m \in 1 .. k : After(n, m) <=> After(k, m)
  <2>1. \A m \in 1 .. k : ~(n < m)
    BY <1>2
  <2> QED
    BY <1>12, <2>1 DEF After
<1>14. /\ IsBulkEndpoint /\ IsIn(At(3)) <=> After(n, n) /\ Bulk(n, TRUE)
       /\ IsBulkEndpoint /\ ~IsIn(At(3)) <=> After(n, n) /\ Bulk(n, FALSE)
  BY <1>8, <1>9, <1>11 DEF Bulk, IsIn
<1>15. /\ offset' = offset + At(1) /\ config' = config
       /\ interface_number_' = IF IsDisk(n) THEN x[3] ELSE interface_number_
       /\ bulk_in_endpoint_' = IF After(n, n) /\ Bulk(n, TRUE) THEN x[3]
                               ELSE bulk_in_endpoint_
       /\ bulk_out_endpoint_' = IF After(n, n) /\ Bulk(n, FALSE) THEN x[3]
                                ELSE bulk_out_endpoint_
  BY <1>7, <1>9, <1>10, <1>14 DEF ParseDescriptor
<1>16. \A m, b : Bulk(m, b)' = Bulk(m, b) /\ IsDisk(m)' = IsDisk(m)
                 /\ After(n, m)' = After(n, m)
  BY <1>15 DEF Bulk, IsDisk, IsA, After
<1> HIDE DEF n
<1>17. \/ interface_number_' = -1 /\ \A i \in 1 .. n : ~IsDisk(i)
       \/ \E i \in 1 .. n : IsDisk(i) /\ interface_number_' = config[i][3]
  BY <1>12, <1>15 DEF Seen
<1>18. bulk_in_endpoint_' # 0 =>
          \E m \in 1 .. n : After(n, m) /\ Bulk(m, TRUE) /\ bulk_in_endpoint_' = config[m][3]
  BY <1>12, <1>13, <1>15 DEF Seen
<1>19. bulk_out_endpoint_' # 0 =>
          \E m \in 1 .. n : After(n, m) /\ Bulk(m, FALSE) /\ bulk_out_endpoint_' = config[m][3]
  BY <1>12, <1>13, <1>15 DEF Seen
<1>20. Bulk(n, TRUE) \/ Bulk(n, FALSE) => x[3] # 0
  BY <1>3 DEF Bulk, IsA, n
<1>21. \A m \in 1 .. n : After(n, m) /\ Bulk(m, TRUE) => bulk_in_endpoint_' # 0
  BY <1>12, <1>13, <1>15, <1>20 DEF Seen
<1>22. \A m \in 1 .. n : After(n, m) /\ Bulk(m, FALSE) => bulk_out_endpoint_' # 0
  BY <1>12, <1>13, <1>15, <1>20 DEF Seen
<1>23. Seen(n)'
  BY <1>15, <1>16, <1>17, <1>18, <1>19, <1>21, <1>22 DEF Seen
<1> QED
  BY <1>1, <1>2, <1>15, <1>23 DEF n

\* With one bulk interface, the endpoints that come after it are its own.
LEMMA OwnEndpoint ==
    ASSUME TypeOK, OneBulkInterface, NEW in \in BOOLEAN,
           NEW i \in 1 .. Len(config), IsDisk(i),
           NEW m \in 1 .. Len(config), i < m, Bulk(m, in)
    PROVE  config[m][3] \in EndpointsOf(i, in)
<1>1. Len(config) \in Nat /\ DOMAIN config = 1 .. Len(config)
  BY ConfigType
<1>2. ASSUME NEW j \in 1 .. Len(config), j < m, \A l \in j + 1 .. m : ~IsA(l, INTERFACE)
      PROVE  config[m][3] \in EndpointsOf(j, in)
  <2>1. m \in j + 1 .. Len(config)
    BY <1>1, <1>2
  <2> QED
    BY <1>2, <2>1 DEF EndpointsOf, Bulk
<1> DEFINE J == {l \in i + 1 .. m : IsA(l, INTERFACE)}
<1>3. CASE J = {}
  BY <1>2, <1>3
<1>4. CASE J # {}
  <2>1. J \subseteq 1 .. m /\ m \in Nat
    BY <1>1
  <2>2. PICK j \in J : \A l \in J : l <= j
    <3> HIDE DEF J
    <3> QED
      BY <1>4, <2>1, GreatestUpTo
  <2>3. ~IsA(m, INTERFACE)
    BY DEF Bulk, IsA, INTERFACE, ENDPOINT
  <2>4. j \in 1 .. Len(config) /\ i < j /\ j < m /\ IsA(j, INTERFACE)
    <3>1. j \in i + 1 .. m /\ j # m /\ IsA(j, INTERFACE)
      BY <2>2, <2>3
    <3> QED
      BY <1>1, <3>1
  <2>5. \A l \in j + 1 .. m : ~IsA(l, INTERFACE)
    <3>1. \A l \in j + 1 .. m : l \in i + 1 .. m /\ ~(l <= j)
      BY <1>1, <2>4
    <3> QED
      BY <2>2, <3>1
  <2>6. config[m][3] \in EndpointsOf(j, in)
    BY <1>2, <2>4, <2>5
  <2>7. EndpointsOf(j, TRUE) \cup EndpointsOf(j, FALSE) = {}
    BY <1>1, <2>4 DEF OneBulkInterface
  <2> QED
    BY <2>6, <2>7
<1> QED
  BY <1>3, <1>4

\* The end of the loop: the endpoints of the interface were found if they are
\* there, and nothing else was taken for them.
LEMMA FoundAtEnd ==
    ASSUME TypeOK, WellFormed(config), ~HasDescriptor,
           NEW k \in 0 .. Len(config), offset = Off[k], Seen(k)
    PROVE  IF interface_number_ >= 0 /\ bulk_in_endpoint_ # 0 /\ bulk_out_endpoint_ # 0
           THEN OneBulkInterface => OwnEndpoints
           ELSE ~\E i \in DOMAIN config :
                    IsDisk(i) /\ EndpointsOf(i, TRUE) # {} /\ EndpointsOf(i, FALSE) # {}
<1>1. Len(config) \in Nat /\ DOMAIN config = 1 .. Len(config) /\ k \in Nat
  BY ConfigType
<1>2. 1 .. k \subseteq 1 .. Len(config)
  BY <1>1
<1>3. ASSUME NEW i \in 1 .. Len(config), Full(config, i) PROVE i \in 1 .. k
  <2> DEFINE N == Len(config)
  <2>1. /\ N \in Nat /\ k \in 0 .. N /\ i \in 1 .. N
        /\ k < N => ~Full(config, k + 1)
        /\ \A j \in 1 .. N - 1 : Full(config, j)
    BY <1>1, <1>3, Aligned, ConfigType
  <2> HIDE DEF N
  <2>2. CASE k = N
    BY <2>1, <2>2
  <2>3. CASE k < N
    <3>1. k + 1 \notin 1 .. N - 1 /\ i # k + 1
      BY <1>3, <2>1, <2>3
    <3>2. k + 1 = N
      BY <2>1, <2>3, <3>1
    <3> QED
      BY <2>1, <3>1, <3>2
  <2>4. k = N \/ k < N
    BY <2>1
  <2> QED
    BY <2>2, <2>3, <2>4
<1>4. ASSUME interface_number_ >= 0, bulk_in_endpoint_ # 0, bulk_out_endpoint_ # 0,
             OneBulkInterface
      PROVE  OwnEndpoints
  <2>1. PICK i \in 1 .. k : IsDisk(i) /\ interface_number_ = config[i][3]
    BY <1>4, SeenNumber DEF Seen
  <2>2. ASSUME NEW d \in 1 .. k, IsDisk(d) PROVE d = i
    <3>1. ~(d < i) /\ ~(i < d)
      BY <1>1, <1>2, <1>4, <2>1, <2>2 DEF OneBulkInterface, IsDisk
    <3> QED
      BY <1>1, <3>1
  <2>3. ASSUME NEW m \in 1 .. k, After(k, m), NEW in \in BOOLEAN, Bulk(m, in)
        PROVE  config[m][3] \in EndpointsOf(i, in)
    <3>1. i < m
      BY <2>2, <2>3 DEF After
    <3> QED
      BY <1>2, <1>4, <2>1, <2>3, <3>1, OwnEndpoint
  <2>4. bulk_in_endpoint_ \in EndpointsOf(i, TRUE)
    BY <1>4, <2>3 DEF Seen
  <2>5. bulk_out_endpoint_ \in EndpointsOf(i, FALSE)
    BY <1>4, <2>3 DEF Seen
  <2> QED
    BY <1>1, <1>2, <2>1, <2>4, <2>5 DEF OwnEndpoints
<1>5. ASSUME NEW i \in DOMAIN config, IsDisk(i),
             EndpointsOf(i, TRUE) # {}, EndpointsOf(i, FALSE) # {}
      PROVE  interface_number_ >= 0 /\ bulk_in_endpoint_ # 0 /\ bulk_out_endpoint_ # 0
  <2>1. i \in 1 .. k
    BY <1>1, <1>3, <1>5 DEF IsDisk, IsA, Full
  <2>2. interface_number_ >= 0
    BY <1>5, <2>1, SeenNumber
  <2>3. ASSUME NEW in \in BOOLEAN, EndpointsOf(i, in) # {}
        PROVE  \E m \in 1 .. k : After(k, m) /\ Bulk(m, in)
    <3>1. PICK m \in i + 1 .. Len(config) : Bulk(m, in)
      BY <2>3 DEF EndpointsOf, Bulk
    <3>2. m \in 1 .. Len(config) /\ i < m
      BY <1>1, <2>1, <3>1
    <3>3. m \in 1 .. k
      BY <1>3, <3>1, <3>2 DEF Bulk, IsA, Full
    <3> QED
      BY <1>5, <2>1, <3>1, <3>2, <3>3 DEF After
  <2>4. bulk_in_endpoint_ # 0 /\ bulk_out_endpoint_ # 0
    BY <1>5, <2>3 DEF Seen
  <2> QED
    BY <2>2, <2>4
<1> QED
  BY <1>4, <1>5

\* A new object starts before the first descriptor, and knows nothing.
NothingSeen ==
    /\ offset = 0 /\ interface_number_ = -1
    /\ bulk_in_endpoint_ = 0 /\ bulk_out_endpoint_ = 0

LEMMA SeenNothing == TypeOK /\ NothingSeen => ParseInv
<1> SUFFICES ASSUME TypeOK, NothingSeen PROVE ParseInv
  OBVIOUS
<1>1. 0 \in 0 .. Len(config) /\ Off[0] = 0
  BY ConfigType DEF IsOffsets
<1>2. 1 .. 0 = {}
  OBVIOUS
<1>3. Seen(0)
  BY <1>2 DEF Seen, NothingSeen
<1> QED
  BY <1>1, <1>3 DEF ParseInv, NothingSeen

\* The same, of the state after a step.
LEMMA SeenNothingNext == (TypeOK /\ NothingSeen => ParseInv)'
  BY SeenNothing, PTL

\* A step that keeps the outcome of the search, and is not one of it, keeps what
\* the search has found.
LEMMA FoundStays ==
    ASSUME EndpointsFound, config' = config, parseVars' = parseVars,
           host' # "parse", host' = "noendpoints" => host = "noendpoints",
           host \in {"parse", "noendpoints"} => host' = "noendpoints"
    PROVE  (ParseInv /\ EndpointsFound)'
<1>1. OneBulkInterface' <=> OneBulkInterface
  BY DEF OneBulkInterface, EndpointsOf, IsDisk, IsA
<1>2. OwnEndpoints' <=> OwnEndpoints
  BY DEF OwnEndpoints, EndpointsOf, IsDisk, IsA, parseVars
<1>3. \A i, in : IsDisk(i)' = IsDisk(i) /\ EndpointsOf(i, in)' = EndpointsOf(i, in)
  BY DEF EndpointsOf, IsDisk, IsA
<1> QED
  BY <1>1, <1>2, <1>3 DEF EndpointsFound, ParseInv

\* A step of something else does not touch the search.
LEMMA SearchStays ==
    ASSUME ParseInv, EndpointsFound, config' = config, parseVars' = parseVars,
           host' = host
    PROVE  (ParseInv /\ EndpointsFound)'
<1>1. OneBulkInterface' <=> OneBulkInterface
  BY DEF OneBulkInterface, EndpointsOf, IsDisk, IsA
<1>2. OwnEndpoints' <=> OwnEndpoints
  BY DEF OwnEndpoints, EndpointsOf, IsDisk, IsA, parseVars
<1>3. \A i, in : IsDisk(i)' = IsDisk(i) /\ EndpointsOf(i, in)' = EndpointsOf(i, in)
  BY DEF EndpointsOf, IsDisk, IsA
<1>4. EndpointsFound'
  BY <1>1, <1>2, <1>3 DEF EndpointsFound
<1>5. ASSUME NEW k \in 0 .. Len(config) PROVE Seen(k)' <=> Seen(k)
  BY DEF Seen, After, Bulk, IsDisk, IsA, parseVars
<1>6. Off' = Off
  BY DEF Off
<1> QED
  BY <1>4, <1>5, <1>6 DEF ParseInv, parseVars

\* Every step keeps the search on the boundaries of the descriptors, and its
\* outcome true.
LEMMA ParseStep ==
    ASSUME ConfigsWellFormed, TypeOK, TypeOK', ParseInv, EndpointsFound, [Next]_vars
    PROVE  (ParseInv /\ EndpointsFound)'
<1>1. WellFormed(config)
  BY DEF TypeOK, ConfigsWellFormed
<1>2. CASE ParseDescriptor
  <2>1. PICK k \in 0 .. Len(config) : offset = Off[k] /\ Seen(k)
    BY <1>2 DEF ParseDescriptor, ParseInv
  <2>2. k + 1 \in 0 .. Len(config) /\ offset' = Off[k + 1] /\ Seen(k + 1)'
    BY <1>1, <1>2, <2>1, SeenNext
  <2>3. host' = "parse" /\ config' = config
    BY <1>2 DEF ParseDescriptor
  <2>4. Off' = Off
    BY <2>3 DEF Off
  <2> QED
    BY <2>2, <2>3, <2>4 DEF ParseInv, EndpointsFound
<1>3. CASE ParseEnd
  <2>1. PICK k \in 0 .. Len(config) : offset = Off[k] /\ Seen(k)
    BY <1>3 DEF ParseEnd, ParseInv
  <2> DEFINE found == interface_number_ >= 0 /\ bulk_in_endpoint_ # 0
                      /\ bulk_out_endpoint_ # 0
  <2>2. IF found
        THEN OneBulkInterface => OwnEndpoints
        ELSE ~\E i \in DOMAIN config :
                 IsDisk(i) /\ EndpointsOf(i, TRUE) # {} /\ EndpointsOf(i, FALSE) # {}
    BY <1>1, <1>3, <2>1, FoundAtEnd DEF ParseEnd
  <2>3. /\ host' = IF found THEN "claim" ELSE "noendpoints"
        /\ config' = config /\ parseVars' = parseVars
    BY <1>3 DEF ParseEnd
  <2>4. OneBulkInterface' <=> OneBulkInterface
    BY <2>3 DEF OneBulkInterface, EndpointsOf, IsDisk, IsA
  <2>5. OwnEndpoints' <=> OwnEndpoints
    BY <2>3 DEF OwnEndpoints, EndpointsOf, IsDisk, IsA, parseVars
  <2>6. \A i, in : IsDisk(i)' = IsDisk(i) /\ EndpointsOf(i, in)' = EndpointsOf(i, in)
    BY <2>3 DEF EndpointsOf, IsDisk, IsA
  <2> HIDE DEF found
  <2> QED
    BY <2>2, <2>3, <2>4, <2>5, <2>6 DEF ParseInv, EndpointsFound
<1>4. CASE NewObject
  <2>1. NothingSeen' /\ host' = "parse"
    BY <1>4 DEF NewObject, NothingSeen
  <2>2. ParseInv'
    BY <2>1, SeenNothingNext
  <2> QED
    BY <2>1, <2>2 DEF EndpointsFound
<1>5. CASE ClaimInterface \/ ResetDevice \/ ResetFails \/ GetCapacity
  <2>1. /\ config' = config /\ parseVars' = parseVars
        /\ host \notin {"parse", "noendpoints"}
        /\ host' \notin {"parse", "noendpoints"}
    BY <1>5 DEF ClaimInterface, ResetDevice, ResetFails, GetCapacity, SendCBW,
                SendCBWFails, TransferData, TransferFails, ReceiveCSW, ReceiveCSWFails
  <2> QED
    BY <2>1, FoundStays
<1>6. CASE \/ Execute \/ Refuse \/ \E m \in Media : ChangeMedium(m)
           \/ UNCHANGED vars
  <2>1. config' = config /\ parseVars' = parseVars /\ host' = host
    BY <1>6 DEF Execute, Refuse, ChangeMedium, vars, hostVars
  <2> QED
    BY <2>1, SearchStays
<1> QED
  BY <1>2, <1>3, <1>4, <1>5, <1>6 DEF Next, Initialize

\* Whatever well-formed descriptors a device has, and wherever their bytes are
\* cut off: the endpoints that FindEndpoints settles on are those of the one
\* mass-storage interface, and it finds them if they are there.
THEOREM EndpointsAreFound == ConfigsWellFormed => (Spec => []EndpointsFound)
<1> SUFFICES ASSUME ConfigsWellFormed PROVE Spec => []EndpointsFound
  OBVIOUS
<1>1. Init => ParseInv /\ EndpointsFound
  BY InitInv, SeenNothing DEF Init, IInv, EndpointsFound, NothingSeen
<1>2. IInv /\ IInv' /\ ParseInv /\ EndpointsFound /\ [Next]_vars
      => (ParseInv /\ EndpointsFound)'
  BY ParseStep DEF IInv
<1> QED
  BY <1>1, <1>2, Invariance, PTL DEF Spec
=============================================================================
