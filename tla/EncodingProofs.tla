---------------------------- MODULE EncodingProofs ----------------------------
(* Proofs about Encoding and Sets: a number that fits its bytes is read back    *)
(* from them, the walk over the bytes of a list finds every item where it was   *)
(* written, and each command turns the bytes of a list or a set into those of   *)
(* the list or set that it should leave, and answers for it; on any other bytes *)
(* it leaves bytes, and ends.                                                   *)
EXTENDS Sets, TLAPS, SequenceTheorems, NaturalsInduction, WellFoundedInduction,
        FiniteSetTheorems

-----------------------------------------------------------------------------
(* Induction over the natural numbers, by a least counterexample. *)

LEMMA InductiveSet ==
    ASSUME NEW T, 0 \in T, \A n \in Nat : n \in T => n + 1 \in T
    PROVE  \A n \in Nat : n \in T
<1> SUFFICES ASSUME Nat \ T # {}
             PROVE  FALSE
    OBVIOUS
<1>1. PICK x \in Nat \ T : \A y \in Nat \ T : <<y, x>> \notin OpToRel(<, Nat)
    BY NatLessThanWellFounded, WFMin
<1>2. \A y \in Nat : y < x => y \in T
    BY <1>1 DEF OpToRel
<1>3. x # 0
    OBVIOUS
<1>5. x - 1 \in Nat /\ x - 1 < x /\ (x - 1) + 1 = x
    BY <1>3
<1>4. x - 1 \in T
    BY <1>2, <1>5
<1> QED
    BY <1>4, <1>5

-----------------------------------------------------------------------------
(* Numbers. *)

LEMMA PowerDefined == Power = [k \in Nat |-> IF k = 0 THEN 1 ELSE ByteMod * Power[k - 1]]
<1> DEFINE Times(v, k) == ByteMod * v
           P == CHOOSE g : g = [k \in Nat |-> IF k = 0 THEN 1 ELSE Times(g[k - 1], k)]
<1>1. NatInductiveDefHypothesis(P, 1, Times)
    BY DEF NatInductiveDefHypothesis
<1>2. NatInductiveDefConclusion(P, 1, Times)
    BY <1>1, NatInductiveDef
<1> QED
    BY <1>2 DEF Power, NatInductiveDefConclusion

LEMMA PowerStep == Power[0] = 1 /\ \A k \in Nat : Power[k + 1] = ByteMod * Power[k]
BY PowerDefined

LEMMA PowerType == \A k \in Nat : Power[k] \in Nat \ {0}
<1> DEFINE T == {k \in Nat : Power[k] \in Nat \ {0}}
<1>1. 0 \in T
    BY PowerStep
<1>2. ASSUME NEW k \in Nat, k \in T
      PROVE  k + 1 \in T
    BY <1>2, PowerStep, ByteAssumption
<1>3. \A k \in Nat : k \in T
    <2> HIDE DEF T
    <2> QED
        BY <1>1, <1>2, InductiveSet
<1> QED
    BY <1>3

\* Division by ByteMod, and by a power of it.
LEMMA ByteOf == \A n \in Int : n % ByteMod \in Byte
BY ByteAssumption DEF Byte

LEMMA Quotient ==
    ASSUME NEW n \in Nat, NEW p \in Nat \ {0}
    PROVE  /\ n \div p \in Nat /\ n % p \in 0..(p - 1)
           /\ n = p * (n \div p) + (n % p)
OBVIOUS

LEMMA NextQuotient ==
    ASSUME NEW n \in Nat, NEW p \in Nat \ {0}
    PROVE  n \div (ByteMod * p) = (n \div p) \div ByteMod
BY ByteAssumption

LEMMA NextRemainder ==
    ASSUME NEW n \in Nat, NEW p \in Nat \ {0}
    PROVE  n % (ByteMod * p) = (n % p) + p * ((n \div p) % ByteMod)
<1> DEFINE q == n \div p
           r == n % p
<1>1. q \in Nat /\ r \in Nat /\ n = p * q + r
    BY Quotient
<1>2. /\ q \div ByteMod \in Nat /\ q % ByteMod \in Nat
      /\ q = ByteMod * (q \div ByteMod) + (q % ByteMod)
    BY <1>1, ByteAssumption, Quotient
<1>3. ByteMod * p \in Nat \ {0}
    BY ByteAssumption
<1>4. /\ n % (ByteMod * p) \in Nat
      /\ n = (ByteMod * p) * (q \div ByteMod) + (n % (ByteMod * p))
    <2> DEFINE bp == ByteMod * p
    <2>1. bp \in Nat \ {0}
        BY <1>3
    <2> HIDE DEF bp
    <2>2. n % bp \in Nat /\ n = bp * (n \div bp) + (n % bp)
        BY <2>1, Quotient
    <2>3. n \div bp = q \div ByteMod
        BY NextQuotient DEF bp
    <2> QED
        BY <2>2, <2>3 DEF bp
<1>5. \A x, y \in Nat : p * (ByteMod * x + y) = (ByteMod * p) * x + p * y
    BY ByteAssumption
<1> HIDE DEF q, r
<1>6. p * q = (ByteMod * p) * (q \div ByteMod) + p * (q % ByteMod)
    BY <1>1, <1>2, <1>5
<1>7. /\ (ByteMod * p) * (q \div ByteMod) \in Nat
      /\ p * (q % ByteMod) \in Nat
    BY <1>2, ByteAssumption
<1>8. n % (ByteMod * p) = r + p * (q % ByteMod)
    BY <1>1, <1>4, <1>6, <1>7
<1> QED
    BY <1>8 DEF q, r

LEMMA SmallRemainder ==
    ASSUME NEW n \in Nat, NEW p \in Nat \ {0}, n < p
    PROVE  n % p = n
OBVIOUS

LEMMA PutType ==
    ASSUME NEW n \in Int, NEW w \in Nat
    PROVE  /\ Put(n, w) \in Seq(Byte) /\ Len(Put(n, w)) = w
           /\ \A i \in 1..w : Put(n, w)[i] = (n \div Power[i - 1]) % ByteMod
<1>1. \A i \in 1..w : (n \div Power[i - 1]) % ByteMod \in Byte
    BY PowerType, ByteOf
<1> QED
    BY <1>1 DEF Put

LEMMA NumberDefined ==
    ASSUME NEW s \in Seq(Byte)
    PROVE  \E sum \in [0..Len(s) -> Nat] :
               /\ sum[0] = 0
               /\ \A i \in 1..Len(s) : sum[i] = sum[i - 1] + Power[i - 1] * s[i]
               /\ Number(s) = sum[Len(s)]
<1> DEFINE Plus(v, i) == v + Power[i - 1] * s[i]
           sum == CHOOSE g : g = [i \in 0..Len(s) |-> IF i = 0 THEN 0 ELSE Plus(g[i - 1], i)]
<1>1. FiniteNatInductiveDefHypothesis(sum, 0, Plus, 0, Len(s))
    BY DEF FiniteNatInductiveDefHypothesis
<1>2. Len(s) \in Nat /\ \A i \in 1..Len(s) : s[i] \in Byte
    OBVIOUS
<1>3. FiniteNatInductiveDefConclusion(sum, 0, Plus, 0, Len(s))
    BY <1>1, <1>2, FiniteNatInductiveDef
<1>4. sum = [i \in 0..Len(s) |-> IF i = 0 THEN 0 ELSE sum[i - 1] + Power[i - 1] * s[i]]
    BY <1>3 DEF FiniteNatInductiveDefConclusion
<1>5. sum[0] = 0 /\ \A i \in 1..Len(s) : sum[i] = sum[i - 1] + Power[i - 1] * s[i]
    <2> HIDE DEF sum
    <2> QED
        BY <1>2, <1>4
<1>6. sum \in [0..Len(s) -> Nat]
    <2> DEFINE T == {i \in Nat : i <= Len(s) => sum[i] \in Nat}
    <2> HIDE DEF sum
    <2>1. 0 \in T
        BY <1>5
    <2>2. ASSUME NEW i \in Nat, i \in T
          PROVE  i + 1 \in T
        <3> SUFFICES ASSUME i + 1 <= Len(s)
                     PROVE  sum[i + 1] \in Nat
            OBVIOUS
        <3>1. sum[i + 1] = sum[i] + Power[i] * s[i + 1]
            BY <1>5
        <3>2. sum[i] \in Nat /\ Power[i] \in Nat /\ s[i + 1] \in Nat
            BY <1>2, <2>2, PowerType, ByteAssumption DEF Byte
        <3> QED
            BY <3>1, <3>2
    <2>3. \A i \in Nat : i \in T
        <3> HIDE DEF T
        <3> QED
            BY <2>1, <2>2, InductiveSet
    <2> QED
        BY <1>2, <1>4, <2>3
<1>7. Number(s) = sum[Len(s)]
    BY DEF Number
<1> HIDE DEF sum
<1> QED
    BY <1>5, <1>6, <1>7

LEMMA NumberType == \A s \in Seq(Byte) : Number(s) \in Nat
BY NumberDefined

(***************************************************************************)
(* What is written in w bytes is read back, if it is less than the first   *)
(* number that takes more of them.                                         *)
(***************************************************************************)
THEOREM NumberOfPut ==
    ASSUME NEW w \in Nat, NEW n \in 0..(Power[w] - 1)
    PROVE  Number(Put(n, w)) = n
<1> DEFINE s == Put(n, w)
<1>1. s \in Seq(Byte) /\ Len(s) = w /\ \A i \in 1..w : s[i] = (n \div Power[i - 1]) % ByteMod
    BY PutType
<1> HIDE DEF s
<1>2. PICK sum \in [0..w -> Nat] :
          /\ sum[0] = 0
          /\ \A i \in 1..w : sum[i] = sum[i - 1] + Power[i - 1] * s[i]
          /\ Number(s) = sum[w]
    BY <1>1, NumberDefined
<1> DEFINE T == {i \in Nat : i <= w => sum[i] = n % Power[i]}
<1>9. n \in Nat /\ n < Power[w] /\ Power[w] \in Nat \ {0}
    BY PowerType
<1>3. 0 \in T
    <2>1. n % 1 = 0
        BY <1>9
    <2> QED
        BY <1>2, <2>1, PowerStep
<1>4. ASSUME NEW i \in Nat, i \in T
      PROVE  i + 1 \in T
    <2> SUFFICES ASSUME i + 1 <= w
                 PROVE  sum[i + 1] = n % Power[i + 1]
        OBVIOUS
    <2>1. sum[i] = n % Power[i]
        BY <1>4
    <2>2. sum[i + 1] = sum[i] + Power[i] * s[i + 1] /\ s[i + 1] = (n \div Power[i]) % ByteMod
        BY <1>1, <1>2
    <2>3. n \in Nat /\ Power[i] \in Nat \ {0} /\ Power[i + 1] = ByteMod * Power[i]
        BY <1>9, PowerType, PowerStep
    <2> QED
        BY <2>1, <2>2, <2>3, NextRemainder
<1>5. \A i \in Nat : i \in T
    <2> HIDE DEF T
    <2> QED
        BY <1>3, <1>4, InductiveSet
<1>6. sum[w] = n % Power[w]
    BY <1>5
<1>7. n % Power[w] = n
    BY <1>9, SmallRemainder
<1> QED
    BY <1>2, <1>6, <1>7 DEF s

-----------------------------------------------------------------------------
(* Slices, and the walk over the items. *)

LEMMA SliceType ==
    ASSUME NEW d \in Seq(Byte), NEW from \in Nat, NEW to \in Nat, to <= Len(d)
    PROVE  /\ Slice(d, from, to) \in Seq(Byte)
           /\ Len(Slice(d, from, to)) = IF from <= to THEN to - from ELSE 0
           /\ \A i \in 1..(to - from) : Slice(d, from, to)[i] = d[from + i]
<1>1. \A i \in (from + 1)..to : d[i] \in Byte
    OBVIOUS
<1>2. /\ SubSeq(d, from + 1, to) \in Seq(Byte)
      /\ Len(SubSeq(d, from + 1, to)) = IF from + 1 <= to THEN to - (from + 1) + 1 ELSE 0
      /\ \A i \in 1..(to - (from + 1) + 1) : SubSeq(d, from + 1, to)[i] = d[from + 1 + i - 1]
    BY <1>1, SubSeqProperties
<1> QED
    BY <1>2 DEF Slice

LEMMA BeyondType ==
    ASSUME NEW d \in Seq(Byte), NEW o \in Nat, HasLength(d, o)
    PROVE  Beyond(d, o) \in Nat /\ Beyond(d, o) >= o + LengthSize
<1>1. Number(Slice(d, o, o + LengthSize)) \in Nat
    BY SliceType, NumberType, SizeAssumption DEF HasLength
<1> QED
    BY <1>1, SizeAssumption DEF Beyond

LEMMA ItemAtType ==
    ASSUME NEW d \in Seq(Byte), NEW o \in Nat, Fits(d, o)
    PROVE  ItemAt(d, o) \in Seq(Byte)
<1>1. Beyond(d, o) \in Nat /\ Beyond(d, o) <= Len(d)
    BY BeyondType DEF Fits
<1>2. o + LengthSize \in Nat
    BY SizeAssumption
<1> QED
    BY <1>1, <1>2, SliceType DEF ItemAt

LEMMA StartDefined ==
    ASSUME NEW d, NEW n \in Nat
    PROVE  \E o : /\ o[0] = HeaderSize /\ Start(d, n) = o[n]
                  /\ \A i \in 1..n :
                        o[i] = IF HasLength(d, o[i - 1]) THEN Beyond(d, o[i - 1]) ELSE Len(d) + 1
<1> DEFINE Walk(v, i) == IF HasLength(d, v) THEN Beyond(d, v) ELSE Len(d) + 1
           o == CHOOSE g : g = [i \in 0..n |-> IF i = 0 THEN HeaderSize ELSE Walk(g[i - 1], i)]
<1>1. FiniteNatInductiveDefHypothesis(o, HeaderSize, Walk, 0, n)
    BY DEF FiniteNatInductiveDefHypothesis
<1>2. FiniteNatInductiveDefConclusion(o, HeaderSize, Walk, 0, n)
    BY <1>1, FiniteNatInductiveDef
<1>3. o = [i \in 0..n |-> IF i = 0 THEN HeaderSize ELSE Walk(o[i - 1], i)]
    BY <1>2 DEF FiniteNatInductiveDefConclusion
<1>4. Start(d, n) = o[n]
    BY DEF Start
<1> HIDE DEF o
<1>5. o[0] = HeaderSize /\ \A i \in 1..n : o[i] = Walk(o[i - 1], i)
    BY <1>3
<1> QED
    BY <1>4, <1>5

(***************************************************************************)
(* The walk begins after the header and goes from item to item.            *)
(***************************************************************************)
LEMMA StartStep ==
    ASSUME NEW d
    PROVE  /\ Start(d, 0) = HeaderSize
           /\ \A n \in Nat :
                 Start(d, n + 1) = IF HasLength(d, Start(d, n)) THEN Beyond(d, Start(d, n))
                                   ELSE Len(d) + 1
<1>1. Start(d, 0) = HeaderSize
    BY StartDefined
<1>2. ASSUME NEW n \in Nat
      PROVE  Start(d, n + 1) = IF HasLength(d, Start(d, n)) THEN Beyond(d, Start(d, n))
                               ELSE Len(d) + 1
    <2> DEFINE Walk(v) == IF HasLength(d, v) THEN Beyond(d, v) ELSE Len(d) + 1
    <2>1. PICK o : o[0] = HeaderSize /\ Start(d, n) = o[n] /\ \A i \in 1..n : o[i] = Walk(o[i - 1])
        BY StartDefined
    <2>2. PICK p : /\ p[0] = HeaderSize /\ Start(d, n + 1) = p[n + 1]
                   /\ \A i \in 1..(n + 1) : p[i] = Walk(p[i - 1])
        <3>1. n + 1 \in Nat
            OBVIOUS
        <3> QED
            BY <3>1, StartDefined
    <2> HIDE DEF Walk
    <2> DEFINE T == {i \in Nat : i <= n => o[i] = p[i]}
    <2>3. 0 \in T
        BY <2>1, <2>2
    <2>4. ASSUME NEW i \in Nat, i \in T
          PROVE  i + 1 \in T
        <3> SUFFICES ASSUME i + 1 <= n
                     PROVE  o[i + 1] = p[i + 1]
            OBVIOUS
        <3>1. o[i + 1] = Walk(o[i]) /\ p[i + 1] = Walk(p[i])
            BY <2>1, <2>2
        <3> QED
            BY <2>4, <3>1
    <2>5. \A i \in Nat : i \in T
        <3> HIDE DEF T
        <3> QED
            BY <2>3, <2>4, InductiveSet
    <2>6. o[n] = p[n] /\ p[n + 1] = Walk(p[n])
        BY <2>2, <2>5
    <2> QED
        BY <2>1, <2>2, <2>6 DEF Walk
<1> QED
    BY <1>1, <1>2

LEMMA StartType ==
    ASSUME NEW d \in Seq(Byte)
    PROVE  \A n \in Nat : Start(d, n) \in Nat /\ (HasHeader(d) => Start(d, n) >= HeaderSize)
<1> DEFINE T == {n \in Nat : Start(d, n) \in Nat /\ (HasHeader(d) => Start(d, n) >= HeaderSize)}
<1>1. 0 \in T
    BY StartStep, SizeAssumption
<1>2. ASSUME NEW n \in Nat, n \in T
      PROVE  n + 1 \in T
    <2> DEFINE o == Start(d, n)
    <2>3. o \in Nat /\ (HasHeader(d) => o >= HeaderSize)
        BY <1>2
    <2>4. Start(d, n + 1) = IF HasLength(d, o) THEN Beyond(d, o) ELSE Len(d) + 1
        BY StartStep
    <2>5. Len(d) \in Nat /\ (HasHeader(d) => Len(d) >= HeaderSize)
        BY DEF HasHeader
    <2> HIDE DEF o
    <2>1. CASE HasLength(d, o)
        <3>1. Beyond(d, o) \in Nat /\ Beyond(d, o) >= o
            BY <2>1, <2>3, BeyondType, SizeAssumption
        <3> QED
            BY <2>1, <2>3, <2>4, <3>1, SizeAssumption
    <2>2. CASE ~HasLength(d, o)
        BY <2>2, <2>4, <2>5, SizeAssumption
    <2> QED
        BY <2>1, <2>2
<1>3. \A n \in Nat : n \in T
    <2> HIDE DEF T
    <2> QED
        BY <1>1, <1>2, InductiveSet
<1> QED
    BY <1>3

\* An item that fits comes after items that fit.
LEMMA FitsBefore ==
    ASSUME NEW d \in Seq(Byte), NEW n \in Nat, Fits(d, Start(d, n + 1))
    PROVE  Fits(d, Start(d, n))
<1>1. Start(d, n + 1) + LengthSize <= Len(d) /\ Start(d, n + 1) \in Nat
    <2>1. n + 1 \in Nat
        OBVIOUS
    <2> QED
        BY <2>1, StartType DEF Fits, HasLength
<1>2. HasLength(d, Start(d, n))
    BY <1>1, StartStep, SizeAssumption
<1>3. Beyond(d, Start(d, n)) = Start(d, n + 1)
    BY <1>2, StartStep
<1> QED
    BY <1>1, <1>2, <1>3, SizeAssumption DEF Fits

\* A finite set of naturals without gaps is an interval from 0.
LEMMA NoGaps ==
    ASSUME NEW T \in SUBSET Nat, NEW m \in Nat, \A i \in T : i < m,
           \A i \in Nat : i + 1 \in T => i \in T
    PROVE  /\ IsFiniteSet(T) /\ Cardinality(T) \in Nat
           /\ T = 0..(Cardinality(T) - 1)
<1>1. \E k \in Nat : T = 0..(k - 1)
    <2> SUFFICES ASSUME \A k \in Nat : T # 0..(k - 1)
                 PROVE  FALSE
        OBVIOUS
    <2> DEFINE U == {k \in Nat : 0..(k - 1) \subseteq T}
    <2>1. 0 \in U
        OBVIOUS
    <2>2. ASSUME NEW k \in Nat, k \in U
          PROVE  k + 1 \in U
        <3>1. PICK i \in T : i \notin 0..(k - 1)
            BY <2>2
        <3> DEFINE V == {j \in Nat : k + j \in T => k \in T}
        <3>2. 0 \in V
            OBVIOUS
        <3>3. ASSUME NEW j \in Nat, j \in V
              PROVE  j + 1 \in V
            <4>1. k + j \in Nat /\ k + (j + 1) = (k + j) + 1
                OBVIOUS
            <4> QED
                BY <3>3, <4>1
        <3>4. \A j \in Nat : j \in V
            <4> HIDE DEF V
            <4> QED
                BY <3>2, <3>3, InductiveSet
        <3>5. i - k \in Nat /\ k + (i - k) = i
            BY <3>1
        <3>6. k \in T
            BY <3>1, <3>4, <3>5
        <3> QED
            BY <2>2, <3>6
    <2>3. \A k \in Nat : k \in U
        <3> HIDE DEF U
        <3> QED
            BY <2>1, <2>2, InductiveSet
    <2>4. m + 1 \in U /\ m \in 0..((m + 1) - 1)
        BY <2>3
    <2>5. m \in T
        BY <2>4
    <2> QED
        BY <2>5
<1>2. PICK k \in Nat : T = 0..(k - 1)
    BY <1>1
<1>3. IsFiniteSet(0..(k - 1)) /\ Cardinality(0..(k - 1)) = k
    <2>1. 0 \in Int /\ k - 1 \in Int
        OBVIOUS
    <2>2. /\ IsFiniteSet(0..(k - 1))
          /\ Cardinality(0..(k - 1)) = IF 0 > k - 1 THEN 0 ELSE (k - 1) - 0 + 1
        BY <2>1, FS_Interval
    <2> QED
        BY <2>2
<1> QED
    BY <1>2, <1>3

-----------------------------------------------------------------------------
(* Sequences put together. *)

LEMMA FlattenDefined ==
    ASSUME NEW S, NEW ss \in Seq(Seq(S))
    PROVE  \E f \in [0..Len(ss) -> Seq(S)] :
               /\ f[0] = <<>> /\ FlattenSeq(ss) = f[Len(ss)]
               /\ \A i \in 1..Len(ss) : f[i] = f[i - 1] \o ss[i]
<1>1. CASE ss = <<>>
    <2>1. Len(ss) = 0 /\ FlattenSeq(ss) = <<>>
        BY <1>1 DEF FlattenSeq
    <2> DEFINE f == [i \in 0..0 |-> <<>>]
    <2>2. f \in [0..Len(ss) -> Seq(S)] /\ f[0] = <<>>
        BY <2>1
    <2>3. \A i \in 1..Len(ss) : f[i] = f[i - 1] \o ss[i]
        BY <2>1
    <2> HIDE DEF f
    <2> QED
        BY <2>1, <2>2, <2>3
<1>2. CASE ss # <<>>
    <2> DEFINE n == Len(ss)
               Join(v, i) == v \o ss[i]
               Joined(g) == g = [i \in 1..n |-> IF i = 1 THEN ss[1] ELSE Join(g[i - 1], i)]
               Flat(g) == g = [i \in 1..n |-> IF i = 1 THEN ss[i] ELSE g[i - 1] \o ss[i]]
               g0 == CHOOSE g : g = [i \in 1..n |-> IF i = 1 THEN ss[1] ELSE Join(g[i - 1], i)]
               flatten == CHOOSE g : Flat(g)
    <2>1. n \in Nat /\ n >= 1 /\ 1 \in Nat
        BY <1>2
    <2>2. FiniteNatInductiveDefHypothesis(g0, ss[1], Join, 1, n)
        BY DEF FiniteNatInductiveDefHypothesis
    <2>3. FiniteNatInductiveDefConclusion(g0, ss[1], Join, 1, n)
        <3> HIDE DEF g0, n, Join
        <3> QED
            BY <2>1, <2>2, FiniteNatInductiveDef, Zenon
    <2>4. g0 = [i \in 1..n |-> IF i = 1 THEN ss[1] ELSE Join(g0[i - 1], i)]
        BY <2>3, Zenon DEF FiniteNatInductiveDefConclusion
    <2>5. Flat(g0)
        <3> HIDE DEF g0
        <3> QED
            BY <2>4
    <2>6. Flat(flatten)
        <3> HIDE DEF Flat, g0
        <3> QED
            BY <2>5
    <2>7. FlattenSeq(ss) = flatten[n]
        BY <2>1 DEF FlattenSeq
    <2> HIDE DEF flatten, g0
    <2> DEFINE f == [i \in 0..n |-> IF i = 0 THEN <<>> ELSE flatten[i]]
    <2>8. f[0] = <<>> /\ f[n] = FlattenSeq(ss)
        BY <2>1, <2>7
    <2>9. ASSUME NEW i \in 1..n
          PROVE  f[i] = f[i - 1] \o ss[i]
        <3>1. CASE i = 1
            <4>1. f[i] = ss[1] /\ f[i - 1] = <<>>
                BY <2>1, <2>6, <3>1
            <4>2. ss[1] \in Seq(S)
                BY <2>1
            <4> QED
                BY <3>1, <4>1, <4>2, ConcatEmptySeq
        <3>2. CASE i # 1
            <4>1. i - 1 \in 1..n /\ i - 1 # 0 /\ i # 0
                BY <2>1, <3>2
            <4>2. flatten[i] = flatten[i - 1] \o ss[i]
                BY <2>6, <3>2
            <4>3. f[i] = flatten[i] /\ f[i - 1] = flatten[i - 1]
                BY <2>1, <4>1
            <4> QED
                BY <4>2, <4>3
        <3> QED
            BY <3>1, <3>2
    <2>10. f \in [0..n -> Seq(S)]
        <3> DEFINE T == {i \in Nat : i <= n => f[i] \in Seq(S)}
        <3>5. DOMAIN f = 0..n /\ f = [i \in 0..n |-> f[i]]
            OBVIOUS
        <3> HIDE DEF f
        <3>1. 0 \in T
            BY <2>8, EmptySeq
        <3>2. ASSUME NEW i \in Nat, i \in T
              PROVE  i + 1 \in T
            <4> SUFFICES ASSUME i + 1 <= n
                         PROVE  f[i + 1] \in Seq(S)
                OBVIOUS
            <4>3. i + 1 \in 1..n /\ (i + 1) - 1 = i
                BY <2>1
            <4>1. f[i + 1] = f[i] \o ss[i + 1]
                BY <2>9, <4>3
            <4>2. f[i] \in Seq(S) /\ ss[i + 1] \in Seq(S)
                BY <2>1, <3>2
            <4> QED
                BY <4>1, <4>2, ConcatProperties
        <3>3. \A i \in Nat : i \in T
            <4> HIDE DEF T
            <4> QED
                BY <3>1, <3>2, InductiveSet
        <3> QED
            BY <2>1, <3>3, <3>5
    <2> HIDE DEF f
    <2> QED
        BY <2>8, <2>9, <2>10
<1> QED
    BY <1>1, <1>2

LEMMA FlattenEmpty == FlattenSeq(<<>>) = <<>>
BY DEF FlattenSeq

LEMMA FlattenAppend ==
    ASSUME NEW S, NEW ss \in Seq(Seq(S)), NEW s \in Seq(S)
    PROVE  FlattenSeq(Append(ss, s)) = FlattenSeq(ss) \o s
<1> DEFINE tt == Append(ss, s)
           n == Len(ss)
<1>1. /\ tt \in Seq(Seq(S)) /\ Len(tt) = n + 1 /\ n \in Nat
      /\ tt[n + 1] = s /\ \A i \in 1..n : tt[i] = ss[i]
    BY AppendProperties
<1> HIDE DEF tt, n
<1>2. PICK f : /\ f[0] = <<>> /\ FlattenSeq(ss) = f[n]
               /\ \A i \in 1..n : f[i] = f[i - 1] \o ss[i]
    <2>1. \E f \in [0..Len(ss) -> Seq(S)] :
              /\ f[0] = <<>> /\ FlattenSeq(ss) = f[Len(ss)]
              /\ \A i \in 1..Len(ss) : f[i] = f[i - 1] \o ss[i]
        BY FlattenDefined
    <2> QED
        BY <2>1, Zenon DEF n
<1>3. PICK g : /\ g[0] = <<>> /\ FlattenSeq(tt) = g[n + 1]
               /\ \A i \in 1..(n + 1) : g[i] = g[i - 1] \o tt[i]
    <2>1. tt \in Seq(Seq(S)) /\ Len(tt) = n + 1
        BY <1>1
    <2>2. \E g : /\ g[0] = <<>> /\ FlattenSeq(tt) = g[Len(tt)]
                 /\ \A i \in 1..Len(tt) : g[i] = g[i - 1] \o tt[i]
        <3>1. \E g \in [0..Len(tt) -> Seq(S)] :
                  /\ g[0] = <<>> /\ FlattenSeq(tt) = g[Len(tt)]
                  /\ \A i \in 1..Len(tt) : g[i] = g[i - 1] \o tt[i]
            BY <2>1, FlattenDefined
        <3> QED
            BY <3>1
    <2> QED
        BY <2>1, <2>2
<1> DEFINE T == {i \in Nat : i <= n => f[i] = g[i]}
<1>4. 0 \in T
    BY <1>2, <1>3
<1>5. ASSUME NEW i \in Nat, i \in T
      PROVE  i + 1 \in T
    <2> SUFFICES ASSUME i + 1 <= n
                 PROVE  f[i + 1] = g[i + 1]
        OBVIOUS
    <2>1. i + 1 \in 1..n /\ i + 1 \in 1..(n + 1) /\ (i + 1) - 1 = i
        BY <1>1
    <2>2. f[i + 1] = f[i] \o ss[i + 1] /\ g[i + 1] = g[i] \o tt[i + 1]
        BY <1>2, <1>3, <2>1
    <2>3. tt[i + 1] = ss[i + 1]
        BY <1>1, <2>1
    <2>4. f[i] = g[i]
        <3>1. i <= n
            BY <1>1
        <3> QED
            BY <1>5, <3>1
    <2> QED
        BY <2>2, <2>3, <2>4
<1>6. \A i \in Nat : i \in T
    <2> HIDE DEF T
    <2> QED
        BY <1>4, <1>5, InductiveSet
<1>7. f[n] = g[n]
    BY <1>1, <1>6
<1>8. g[n + 1] = g[n] \o tt[n + 1]
    <2>1. n + 1 \in 1..(n + 1) /\ (n + 1) - 1 = n
        BY <1>1
    <2> QED
        BY <1>3, <2>1
<1> QED
    BY <1>1, <1>2, <1>3, <1>7, <1>8 DEF tt

LEMMA FlattenType ==
    ASSUME NEW S, NEW ss \in Seq(Seq(S))
    PROVE  FlattenSeq(ss) \in Seq(S)
<1>1. PICK f \in [0..Len(ss) -> Seq(S)] : FlattenSeq(ss) = f[Len(ss)]
    BY FlattenDefined
<1>2. Len(ss) \in 0..Len(ss)
    OBVIOUS
<1> QED
    BY <1>1, <1>2

\* A prefix, and one element more.
LEMMA PrefixStep ==
    ASSUME NEW S, NEW s \in Seq(S), NEW i \in Nat, i + 1 <= Len(s)
    PROVE  /\ SubSeq(s, 1, i) \in Seq(S) /\ Len(SubSeq(s, 1, i)) = i
           /\ s[i + 1] \in S
           /\ SubSeq(s, 1, i + 1) = Append(SubSeq(s, 1, i), s[i + 1])
<1>1. \A j \in 1..Len(s) : s[j] \in S
    OBVIOUS
<1>2. /\ SubSeq(s, 1, i) \in Seq(S)
      /\ Len(SubSeq(s, 1, i)) = IF 1 <= i THEN i - 1 + 1 ELSE 0
    BY <1>1, SubSeqProperties
<1>3. i + 1 \in 1..Len(s) /\ 1 \in 1..Len(s) /\ i + 1 \in 1..Len(s) /\ (i + 1) - 1 = i
    OBVIOUS
<1>4. SubSeq(s, 1, i + 1) = SubSeq(s, 1, (i + 1) - 1) \o <<s[i + 1]>>
    BY <1>3, SubSeqRecursiveSecond
<1>5. SubSeq(s, 1, i) \o <<s[i + 1]>> = Append(SubSeq(s, 1, i), s[i + 1])
    BY <1>1, <1>2, <1>3, AppendIsConcat
<1> QED
    BY <1>1, <1>2, <1>3, <1>4, <1>5

LEMMA FlattenConcat ==
    ASSUME NEW S, NEW ss \in Seq(Seq(S)), NEW tt \in Seq(Seq(S))
    PROVE  FlattenSeq(ss \o tt) = FlattenSeq(ss) \o FlattenSeq(tt)
<1> DEFINE start(i) == SubSeq(tt, 1, i)
           T == {i \in Nat : i <= Len(tt) =>
                    FlattenSeq(ss \o start(i)) = FlattenSeq(ss) \o FlattenSeq(start(i))}
<1>1. 0 \in T
    <2>1. start(0) = <<>>
        BY SubSeqEmpty
    <2>2. FlattenSeq(ss) \in Seq(S)
        BY FlattenType
    <2>3. ss \o <<>> = ss
        BY ConcatEmptySeq
    <2>4. FlattenSeq(ss) \o <<>> = FlattenSeq(ss)
        BY <2>2, ConcatEmptySeq
    <2> QED
        BY <2>1, <2>3, <2>4, FlattenEmpty
<1>2. ASSUME NEW i \in Nat, i \in T
      PROVE  i + 1 \in T
    <2> SUFFICES ASSUME i + 1 <= Len(tt)
                 PROVE  FlattenSeq(ss \o start(i + 1)) = FlattenSeq(ss) \o FlattenSeq(start(i + 1))
        OBVIOUS
    <2> DEFINE p == start(i)
               x == tt[i + 1]
    <2>1. p \in Seq(Seq(S)) /\ x \in Seq(S) /\ start(i + 1) = Append(p, x)
        BY PrefixStep
    <2>2. FlattenSeq(ss \o p) = FlattenSeq(ss) \o FlattenSeq(p)
        BY <1>2
    <2> HIDE DEF p, x, start
    <2>3. ss \o p \in Seq(Seq(S))
        BY <2>1, ConcatProperties
    <2>4. ss \o Append(p, x) = Append(ss \o p, x)
        <3>1. Append(p, x) = p \o <<x>>
            BY <2>1, AppendIsConcat
        <3>2. Append(ss \o p, x) = (ss \o p) \o <<x>>
            BY <2>1, <2>3, AppendIsConcat
        <3>3. <<x>> \in Seq(Seq(S))
            BY <2>1
        <3>5. ss \in Seq(Seq(S)) /\ p \in Seq(Seq(S))
            BY <2>1
        <3>4. (ss \o p) \o <<x>> = ss \o (p \o <<x>>)
            BY ONLY <3>3, <3>5, ConcatAssociative
        <3> QED
            BY <3>1, <3>2, <3>4
    <2>5. (FlattenSeq(ss) \o FlattenSeq(p)) \o x = FlattenSeq(ss) \o (FlattenSeq(p) \o x)
        <3>1. FlattenSeq(ss) \in Seq(S) /\ FlattenSeq(p) \in Seq(S) /\ x \in Seq(S)
            BY <2>1, FlattenType
        <3> QED
            BY ONLY <3>1, ConcatAssociative
    <2>6. FlattenSeq(Append(ss \o p, x)) = FlattenSeq(ss \o p) \o x
        BY <2>1, <2>3, FlattenAppend
    <2>7. FlattenSeq(Append(p, x)) = FlattenSeq(p) \o x
        BY <2>1, FlattenAppend
    <2> QED
        BY <2>1, <2>2, <2>4, <2>5, <2>6, <2>7
<1>3. \A i \in Nat : i \in T
    <2> HIDE DEF T
    <2> QED
        BY <1>1, <1>2, InductiveSet
<1>4. start(Len(tt)) = tt
    BY SubSeqFull
<1>5. Len(tt) \in Nat
    OBVIOUS
<1>6. FlattenSeq(ss \o start(Len(tt))) = FlattenSeq(ss) \o FlattenSeq(start(Len(tt)))
    <2> HIDE DEF start
    <2> QED
        BY <1>3, <1>5
<1> QED
    BY <1>4, <1>6

LEMMA Regroup == \A a, b, c \in Seq(Byte) : (a \o b) \o c = a \o (b \o c)
BY ConcatAssociative

\* The middle of three parts.
LEMMA SliceOfConcat ==
    ASSUME NEW a \in Seq(Byte), NEW b \in Seq(Byte), NEW c \in Seq(Byte)
    PROVE  Slice(a \o (b \o c), Len(a), Len(a) + Len(b)) = b
<1> DEFINE d == a \o (b \o c)
           s == Slice(d, Len(a), Len(a) + Len(b))
<1>1. /\ b \o c \in Seq(Byte) /\ Len(b \o c) = Len(b) + Len(c)
      /\ \A i \in 1..(Len(b) + Len(c)) :
            (b \o c)[i] = IF i <= Len(b) THEN b[i] ELSE c[i - Len(b)]
    BY ConcatProperties
<1>2. /\ d \in Seq(Byte) /\ Len(d) = Len(a) + Len(b \o c)
      /\ \A i \in 1..(Len(a) + Len(b \o c)) :
            d[i] = IF i <= Len(a) THEN a[i] ELSE (b \o c)[i - Len(a)]
    BY <1>1, ConcatProperties
<1>3. Len(a) \in Nat /\ Len(b) \in Nat /\ Len(c) \in Nat
    OBVIOUS
<1> HIDE DEF d
<1>4. Len(a) + Len(b) \in Nat /\ Len(a) + Len(b) <= Len(d)
    BY <1>1, <1>2, <1>3
<1>5. /\ s \in Seq(Byte) /\ Len(s) = Len(b)
      /\ \A i \in 1..Len(b) : s[i] = d[Len(a) + i]
    <2> DEFINE m == Len(a) + Len(b)
    <2>1. m \in Nat /\ m <= Len(d) /\ m - Len(a) = Len(b) /\ Len(a) <= m
        BY <1>3, <1>4
    <2> HIDE DEF m
    <2>2. /\ Slice(d, Len(a), m) \in Seq(Byte)
          /\ Len(Slice(d, Len(a), m)) = IF Len(a) <= m THEN m - Len(a) ELSE 0
          /\ \A i \in 1..(m - Len(a)) : Slice(d, Len(a), m)[i] = d[Len(a) + i]
        BY <1>2, <1>3, <2>1, SliceType
    <2> QED
        BY <2>1, <2>2 DEF m
<1> HIDE DEF s
<1>6. ASSUME NEW i \in 1..Len(b)
      PROVE  s[i] = b[i]
    <2>1. /\ Len(a) + i \in 1..(Len(a) + Len(b \o c)) /\ ~(Len(a) + i <= Len(a))
          /\ (Len(a) + i) - Len(a) = i /\ i \in 1..(Len(b) + Len(c)) /\ i <= Len(b)
        BY <1>1, <1>3
    <2>2. d[Len(a) + i] = (b \o c)[i]
        BY <1>2, <2>1
    <2> QED
        BY <1>1, <1>5, <2>1, <2>2
<1> QED
    BY <1>5, <1>6, SeqEqual DEF s, d

-----------------------------------------------------------------------------
(* Items among the bytes. *)

\* An item whose length can be written.
Storable == {x \in Seq(Byte) : Len(x) < Power[LengthSize]}

LEMMA EncodedItemType ==
    ASSUME NEW x \in Seq(Byte)
    PROVE  EncodedItem(x) \in Seq(Byte) /\ Len(EncodedItem(x)) = LengthSize + Len(x)
<1>1. Put(Len(x), LengthSize) \in Seq(Byte) /\ Len(Put(Len(x), LengthSize)) = LengthSize
    BY PutType, SizeAssumption
<1> QED
    BY <1>1, ConcatProperties DEF EncodedItem

(***************************************************************************)
(* An item that was written is found at its place, and the next one after  *)
(* its last byte.                                                          *)
(***************************************************************************)
LEMMA ItemThere ==
    ASSUME NEW a \in Seq(Byte), NEW x \in Storable, NEW b \in Seq(Byte)
    PROVE  LET d == a \o (EncodedItem(x) \o b)
           IN  /\ Beyond(d, Len(a)) = Len(a) + Len(EncodedItem(x))
               /\ Fits(d, Len(a)) /\ HasLength(d, Len(a))
               /\ ItemAt(d, Len(a)) = x
<1> DEFINE d == a \o (EncodedItem(x) \o b)
           n == Put(Len(x), LengthSize)
<1>1. /\ x \in Seq(Byte) /\ Len(x) \in 0..(Power[LengthSize] - 1) /\ Len(x) \in Nat
      /\ LengthSize \in Nat /\ Len(x) \in Int
    BY SizeAssumption, PowerType DEF Storable
<1>2. n \in Seq(Byte) /\ Len(n) = LengthSize
    BY <1>1, PutType
<1>3. Number(n) = Len(x)
    BY <1>1, NumberOfPut
<1>4. EncodedItem(x) = n \o x /\ EncodedItem(x) \in Seq(Byte) /\ Len(EncodedItem(x)) = LengthSize + Len(x)
    BY <1>1, EncodedItemType DEF EncodedItem
<1> HIDE DEF n
<1>5. /\ x \o b \in Seq(Byte) /\ a \o n \in Seq(Byte) /\ EncodedItem(x) \o b \in Seq(Byte)
      /\ Len(a \o n) = Len(a) + LengthSize
    BY <1>1, <1>2, <1>4, ConcatProperties
<1>6. d = a \o (n \o (x \o b)) /\ d = (a \o n) \o (x \o b)
    <2>1. (n \o x) \o b = n \o (x \o b)
        BY <1>1, <1>2, ConcatAssociative
    <2>3. a \in Seq(Byte) /\ n \in Seq(Byte) /\ x \o b \in Seq(Byte)
        BY <1>2, <1>5
    <2>2. (a \o n) \o (x \o b) = a \o (n \o (x \o b))
        BY <2>3, Regroup
    <2> QED
        BY <1>4, <2>1, <2>2
<1>7. Len(d) = Len(a) + LengthSize + Len(x) + Len(b)
    <2>1. Len(EncodedItem(x) \o b) = LengthSize + Len(x) + Len(b)
        BY <1>1, <1>4, ConcatProperties
    <2> QED
        <3>1. Len(a \o (EncodedItem(x) \o b)) = Len(a) + Len(EncodedItem(x) \o b)
            BY <1>5, ConcatProperties
        <3>2. Len(a) \in Nat /\ Len(b) \in Nat
            OBVIOUS
        <3> QED
            BY <1>1, <2>1, <3>1, <3>2
<1> HIDE DEF d
<1>8. Slice(d, Len(a), Len(a) + LengthSize) = n
    <2>1. Slice(a \o (n \o (x \o b)), Len(a), Len(a) + Len(n)) = n
        BY <1>2, <1>5, SliceOfConcat
    <2> QED
        BY <1>2, <1>6, <2>1
<1>9. Beyond(d, Len(a)) = Len(a) + LengthSize + Len(x)
    BY <1>3, <1>8 DEF Beyond
<1>10. Fits(d, Len(a)) /\ HasLength(d, Len(a))
    BY <1>1, <1>7, <1>9 DEF Fits, HasLength
<1>11. Slice(d, Len(a) + LengthSize, Len(a) + LengthSize + Len(x)) = x
    <2>1. Slice((a \o n) \o (x \o b), Len(a \o n), Len(a \o n) + Len(x)) = x
        BY <1>1, <1>5, SliceOfConcat
    <2> QED
        BY <1>5, <1>6, <2>1
<1>12. ItemAt(d, Len(a)) = x
    BY <1>9, <1>11 DEF ItemAt
<1>13. Beyond(d, Len(a)) = Len(a) + Len(EncodedItem(x))
    BY <1>1, <1>4, <1>9
<1> QED
    BY <1>10, <1>12, <1>13 DEF d

LEMMA EncodedItemsEmpty == EncodedItems(<<>>) = <<>>
<1>1. [i \in DOMAIN <<>> |-> EncodedItem(<<>>[i])] = <<>>
    OBVIOUS
<1> QED
    BY <1>1, FlattenEmpty DEF EncodedItems

LEMMA EncodedItemsType ==
    ASSUME NEW xs \in Seq(Seq(Byte))
    PROVE  EncodedItems(xs) \in Seq(Byte)
<1> DEFINE es == [i \in DOMAIN xs |-> EncodedItem(xs[i])]
<1>1. \A i \in 1..Len(xs) : xs[i] \in Seq(Byte)
    OBVIOUS
<1>2. es \in Seq(Seq(Byte))
    <2>1. \A i \in 1..Len(xs) : EncodedItem(xs[i]) \in Seq(Byte)
        BY <1>1, EncodedItemType
    <2>2. DOMAIN xs = 1..Len(xs) /\ Len(xs) \in Nat
        OBVIOUS
    <2> QED
        BY <2>1, <2>2
<1> HIDE DEF es
<1>3. FlattenSeq(es) \in Seq(Byte)
    BY <1>2, FlattenType
<1> QED
    BY <1>3 DEF EncodedItems, es

LEMMA EncodedItemsOne ==
    ASSUME NEW x \in Seq(Byte)
    PROVE  EncodedItems(<<x>>) = EncodedItem(x)
<1> DEFINE e == EncodedItem(x)
<1>1. e \in Seq(Byte)
    BY EncodedItemType
<1>2. [i \in DOMAIN <<x>> |-> EncodedItem(<<x>>[i])] = <<e>>
    OBVIOUS
<1> HIDE DEF e
<1>3. <<e>> = Append(<<>>, e) /\ <<>> \in Seq(Seq(Byte))
    OBVIOUS
<1>4. FlattenSeq(<<e>>) = <<>> \o e
    BY <1>1, <1>3, FlattenAppend, FlattenEmpty
<1>5. <<>> \o e = e
    BY <1>1, ConcatEmptySeq
<1> QED
    BY <1>2, <1>4, <1>5 DEF EncodedItems, e

LEMMA EncodedItemsConcat ==
    ASSUME NEW xs \in Seq(Seq(Byte)), NEW ys \in Seq(Seq(Byte))
    PROVE  EncodedItems(xs \o ys) = EncodedItems(xs) \o EncodedItems(ys)
<1> DEFINE zs == xs \o ys
           es(s) == [i \in DOMAIN s |-> EncodedItem(s[i])]
<1>1. /\ zs \in Seq(Seq(Byte)) /\ Len(zs) = Len(xs) + Len(ys)
      /\ \A i \in 1..(Len(xs) + Len(ys)) :
            zs[i] = IF i <= Len(xs) THEN xs[i] ELSE ys[i - Len(xs)]
    BY ConcatProperties
<1>2. ASSUME NEW s \in Seq(Seq(Byte))
      PROVE  /\ es(s) \in Seq(Seq(Byte)) /\ Len(es(s)) = Len(s)
             /\ \A i \in 1..Len(s) : es(s)[i] = EncodedItem(s[i])
             /\ EncodedItems(s) = FlattenSeq(es(s))
    <2>1. \A i \in 1..Len(s) : s[i] \in Seq(Byte)
        OBVIOUS
    <2>2. DOMAIN s = 1..Len(s) /\ Len(s) \in Nat
        OBVIOUS
    <2>3. \A i \in 1..Len(s) : EncodedItem(s[i]) \in Seq(Byte)
        BY <2>1, EncodedItemType
    <2> QED
        BY <2>2, <2>3 DEF EncodedItems
<1> HIDE DEF zs, es
<1>3. /\ es(xs) \o es(ys) \in Seq(Seq(Byte)) /\ Len(es(xs) \o es(ys)) = Len(es(xs)) + Len(es(ys))
      /\ \A i \in 1..(Len(es(xs)) + Len(es(ys))) :
            (es(xs) \o es(ys))[i] =
                IF i <= Len(es(xs)) THEN es(xs)[i] ELSE es(ys)[i - Len(es(xs))]
    BY <1>2, ConcatProperties
<1>4. /\ es(zs) \in Seq(Seq(Byte)) /\ Len(es(zs)) = Len(xs) + Len(ys)
      /\ Len(es(xs)) = Len(xs) /\ Len(es(ys)) = Len(ys)
      /\ Len(xs) \in Nat /\ Len(ys) \in Nat
    BY <1>1, <1>2
<1>5. ASSUME NEW i \in 1..Len(es(zs))
      PROVE  es(zs)[i] = (es(xs) \o es(ys))[i]
    <2>1. es(zs)[i] = EncodedItem(zs[i]) /\ i \in 1..(Len(xs) + Len(ys))
        BY <1>1, <1>2, <1>4
    <2>2. CASE i <= Len(xs)
        <3>1. i \in 1..Len(xs)
            BY <1>4, <2>2
        <3>2. zs[i] = xs[i] /\ es(xs)[i] = EncodedItem(xs[i])
            BY <1>1, <1>2, <2>1, <2>2, <3>1
        <3>3. (es(xs) \o es(ys))[i] = es(xs)[i]
            BY <1>3, <1>4, <2>1, <2>2
        <3> QED
            BY <2>1, <3>2, <3>3
    <2>3. CASE ~(i <= Len(xs))
        <3>1. i - Len(xs) \in 1..Len(ys)
            BY <1>4, <2>3
        <3>2. zs[i] = ys[i - Len(xs)] /\ es(ys)[i - Len(xs)] = EncodedItem(ys[i - Len(xs)])
            BY <1>1, <1>2, <2>1, <2>3, <3>1
        <3>3. (es(xs) \o es(ys))[i] = es(ys)[i - Len(xs)]
            BY <1>3, <1>4, <2>1, <2>3
        <3> QED
            BY <2>1, <3>2, <3>3
    <2> QED
        BY <2>2, <2>3
<1>6. es(zs) = es(xs) \o es(ys)
    <2>1. Len(es(zs)) = Len(es(xs) \o es(ys))
        BY <1>3, <1>4
    <2> QED
        BY <1>3, <1>4, <1>5, <2>1, SeqEqual
<1>7. FlattenSeq(es(xs) \o es(ys)) = FlattenSeq(es(xs)) \o FlattenSeq(es(ys))
    BY <1>2, FlattenConcat
<1> QED
    BY <1>1, <1>2, <1>6, <1>7 DEF zs

-----------------------------------------------------------------------------
(* The walk over items that were written. *)

LEMMA StorableSeq == \A xs \in Seq(Storable) : xs \in Seq(Seq(Byte))
<1>1. Storable \subseteq Seq(Byte)
    BY DEF Storable
<1> QED
    BY <1>1, SeqMonotonic

\* A sequence is what comes before and after k of its elements.
LEMMA SplitAt ==
    ASSUME NEW S, NEW s \in Seq(S), NEW k \in 0..Len(s)
    PROVE  /\ SubSeq(s, 1, k) \in Seq(S) /\ Len(SubSeq(s, 1, k)) = k
           /\ SubSeq(s, k + 1, Len(s)) \in Seq(S) /\ Len(SubSeq(s, k + 1, Len(s))) = Len(s) - k
           /\ s = SubSeq(s, 1, k) \o SubSeq(s, k + 1, Len(s))
<1>1. \A j \in 1..Len(s) : s[j] \in S
    OBVIOUS
<1>2. k \in Int /\ k + 1 \in Int /\ Len(s) \in Int /\ 1 \in Int
    OBVIOUS
<1>3. SubSeq(s, 1, k) \in Seq(S) /\ Len(SubSeq(s, 1, k)) = IF 1 <= k THEN k - 1 + 1 ELSE 0
    BY <1>1, <1>2, SubSeqProperties
<1>4. /\ SubSeq(s, k + 1, Len(s)) \in Seq(S)
      /\ Len(SubSeq(s, k + 1, Len(s))) =
            IF k + 1 <= Len(s) THEN Len(s) - (k + 1) + 1 ELSE 0
    <2>1. \A j \in (k + 1)..Len(s) : s[j] \in S
        BY <1>1
    <2> QED
        BY <1>2, <2>1, SubSeqProperties
<1>5. SubSeq(s, 1, k) \o SubSeq(s, k + 1, Len(s)) = SubSeq(s, 1, Len(s))
    <2>1. /\ 1 \in 1..(Len(s) + 1) /\ k \in (1 - 1)..Len(s)
          /\ Len(s) \in k..Len(s)
        OBVIOUS
    <2> QED
        BY <2>1, ConcatAdjacentSubSeq, Zenon
<1>6. SubSeq(s, 1, Len(s)) = s
    BY SubSeqFull
<1>7. Len(SubSeq(s, 1, k)) = k
    BY <1>2, <1>3
<1>8. Len(SubSeq(s, k + 1, Len(s))) = Len(s) - k
    BY <1>2, <1>4
<1>9. s = SubSeq(s, 1, k) \o SubSeq(s, k + 1, Len(s))
    BY <1>5, <1>6, Zenon
<1> QED
    BY <1>3, <1>4, <1>7, <1>8, <1>9, Zenon

\* And the first of the elements after it.
LEMMA RestStep ==
    ASSUME NEW S, NEW s \in Seq(S), NEW k \in 0..(Len(s) - 1)
    PROVE  /\ s[k + 1] \in S /\ <<s[k + 1]>> \in Seq(S)
           /\ SubSeq(s, k + 2, Len(s)) \in Seq(S)
           /\ SubSeq(s, k + 1, Len(s)) = <<s[k + 1]>> \o SubSeq(s, k + 2, Len(s))
<1>1. s[k + 1] \in S /\ <<s[k + 1]>> \in Seq(S)
    OBVIOUS
<1>2. SubSeq(s, k + 1, Len(s)) = <<s[k + 1]>> \o SubSeq(s, (k + 1) + 1, Len(s))
    <2>1. k + 1 \in 1..Len(s) /\ Len(s) \in (k + 1)..Len(s)
        OBVIOUS
    <2> QED
        BY <2>1, SubSeqRecursiveFirst
<1>3. SubSeq(s, (k + 1) + 1, Len(s)) \in Seq(S)
    <2>1. k + 1 \in 0..Len(s)
        OBVIOUS
    <2> QED
        BY <2>1, SplitAt
<1>4. (k + 1) + 1 = k + 2
    OBVIOUS
<1> QED
    BY <1>1, <1>2, <1>3, <1>4

LEMMA EncodedSplit ==
    ASSUME NEW xs \in Seq(Seq(Byte)), NEW k \in 0..Len(xs)
    PROVE  /\ EncodedItems(SubSeq(xs, 1, k)) \in Seq(Byte)
           /\ EncodedItems(SubSeq(xs, k + 1, Len(xs))) \in Seq(Byte)
           /\ EncodedItems(xs) =
                 EncodedItems(SubSeq(xs, 1, k)) \o EncodedItems(SubSeq(xs, k + 1, Len(xs)))
<1> DEFINE p == SubSeq(xs, 1, k)
           q == SubSeq(xs, k + 1, Len(xs))
<1>1. p \in Seq(Seq(Byte)) /\ q \in Seq(Seq(Byte)) /\ xs = p \o q
    BY SplitAt
<1> HIDE DEF p, q
<1> QED
    BY <1>1, EncodedItemsConcat, EncodedItemsType DEF p, q

LEMMA EncodedRest ==
    ASSUME NEW xs \in Seq(Seq(Byte)), NEW k \in 0..(Len(xs) - 1)
    PROVE  /\ EncodedItems(SubSeq(xs, k + 2, Len(xs))) \in Seq(Byte)
           /\ EncodedItems(SubSeq(xs, k + 1, Len(xs))) =
                 EncodedItem(xs[k + 1]) \o EncodedItems(SubSeq(xs, k + 2, Len(xs)))
<1> DEFINE q == SubSeq(xs, k + 2, Len(xs))
           x == xs[k + 1]
<1>1. /\ x \in Seq(Byte) /\ <<x>> \in Seq(Seq(Byte)) /\ q \in Seq(Seq(Byte))
      /\ SubSeq(xs, k + 1, Len(xs)) = <<x>> \o q
    BY RestStep
<1> HIDE DEF q, x
<1>2. EncodedItems(<<x>> \o q) = EncodedItems(<<x>>) \o EncodedItems(q)
    BY <1>1, EncodedItemsConcat
<1>3. EncodedItems(<<x>>) = EncodedItem(x) /\ EncodedItems(q) \in Seq(Byte)
    BY <1>1, EncodedItemsOne, EncodedItemsType
<1> QED
    BY <1>1, <1>2, <1>3 DEF q, x

(***************************************************************************)
(* In the bytes that were written for a list, the walk finds the first k   *)
(* items before its k-th stop, the next item there, and the end of the     *)
(* data after the last.                                                    *)
(***************************************************************************)
THEOREM WalkOfEncoded ==
    ASSUME NEW h \in Seq(Byte), Len(h) = HeaderSize, NEW xs \in Seq(Storable)
    PROVE  LET d == h \o EncodedItems(xs)
           IN  \A k \in 0..Len(xs) :
                   /\ Start(d, k) = HeaderSize + Len(EncodedItems(SubSeq(xs, 1, k)))
                   /\ k < Len(xs) => /\ HasLength(d, Start(d, k)) /\ Fits(d, Start(d, k))
                                     /\ ItemAt(d, Start(d, k)) = xs[k + 1]
<1> DEFINE d == h \o EncodedItems(xs)
           before(k) == EncodedItems(SubSeq(xs, 1, k))
           Here(k) == Start(d, k) = HeaderSize + Len(before(k))
           There(k) == /\ HasLength(d, Start(d, k)) /\ Fits(d, Start(d, k))
                       /\ ItemAt(d, Start(d, k)) = xs[k + 1]
           T == {k \in Nat : k <= Len(xs) => Here(k)}
<1>1. xs \in Seq(Seq(Byte)) /\ Len(xs) \in Nat
    BY StorableSeq
<1>2. Here(0)
    <2>1. SubSeq(xs, 1, 0) = <<>> /\ Len(<<>>) = 0
        BY SubSeqEmpty
    <2>2. Len(before(0)) = 0
        BY <2>1, EncodedItemsEmpty
    <2>3. Start(d, 0) = HeaderSize /\ HeaderSize \in Nat
        BY StartStep, SizeAssumption
    <2> HIDE DEF before, d
    <2> QED
        BY <2>2, <2>3
<1>3. ASSUME NEW k \in Nat, k < Len(xs), Here(k)
      PROVE  There(k) /\ Here(k + 1)
    <2> DEFINE a == h \o before(k)
               b == EncodedItems(SubSeq(xs, k + 2, Len(xs)))
               x == xs[k + 1]
    <2>1. k \in 0..Len(xs) /\ k \in 0..(Len(xs) - 1) /\ k + 1 \in 1..Len(xs) /\ k + 1 \in Nat
        BY <1>1, <1>3
    <2>2. x \in Storable /\ x \in Seq(Byte)
        BY <2>1 DEF Storable
    <2>3. /\ before(k) \in Seq(Byte) /\ b \in Seq(Byte)
          /\ EncodedItems(xs) = before(k) \o (EncodedItem(x) \o b)
        BY <1>1, <2>1, EncodedSplit, EncodedRest
    <2>4. EncodedItem(x) \in Seq(Byte) /\ Len(EncodedItem(x)) \in Nat
        BY <2>2, EncodedItemType
    <2>5. a \in Seq(Byte) /\ Len(a) = HeaderSize + Len(before(k))
        BY <2>3, ConcatProperties
    <2>6. d = a \o (EncodedItem(x) \o b)
        <3>1. EncodedItem(x) \o b \in Seq(Byte)
            BY <2>3, <2>4, ConcatProperties
        <3>2. /\ h \in Seq(Byte) /\ before(k) \in Seq(Byte)
              /\ EncodedItem(x) \o b \in Seq(Byte)
            BY <2>3, <3>1
        <3> HIDE DEF x, b, before
        <3>3. (h \o before(k)) \o (EncodedItem(x) \o b) = h \o (before(k) \o (EncodedItem(x) \o b))
            BY <3>2, Regroup
        <3> QED
            BY <2>3, <3>3
    <2>7. before(k + 1) = before(k) \o EncodedItem(x)
        <3> DEFINE p == SubSeq(xs, 1, k)
        <3>1. p \in Seq(Seq(Byte)) /\ SubSeq(xs, 1, k + 1) = Append(p, x)
            BY <1>1, <2>1, PrefixStep
        <3> HIDE DEF p, x
        <3>2. Append(p, x) = p \o <<x>>
            BY <2>2, <3>1, AppendIsConcat
        <3>3. <<x>> \in Seq(Seq(Byte))
            BY <2>2
        <3>4. EncodedItems(p \o <<x>>) = EncodedItems(p) \o EncodedItems(<<x>>)
            BY <3>1, <3>3, EncodedItemsConcat
        <3>5. EncodedItems(<<x>>) = EncodedItem(x)
            BY <2>2, EncodedItemsOne
        <3> QED
            BY <3>1, <3>2, <3>4, <3>5 DEF p
    <2>8. Len(before(k + 1)) = Len(before(k)) + Len(EncodedItem(x))
        BY <2>3, <2>4, <2>7, ConcatProperties
    <2> HIDE DEF a, b, x, d, before
    <2>9. /\ Beyond(d, Len(a)) = Len(a) + Len(EncodedItem(x))
          /\ Fits(d, Len(a)) /\ HasLength(d, Len(a))
          /\ ItemAt(d, Len(a)) = x
        BY <2>2, <2>3, <2>5, <2>6, ItemThere
    <2>10. Start(d, k) = Len(a)
        BY <1>3, <2>5
    <2>11. Start(d, k + 1) = Len(a) + Len(EncodedItem(x))
        BY <2>9, <2>10, StartStep
    <2>12. Here(k + 1)
        <3>1. Len(before(k)) \in Nat /\ HeaderSize \in Nat
            BY <2>3, SizeAssumption
        <3>2. Len(a) \in Nat /\ Len(EncodedItem(x)) \in Nat
            BY <2>4, <2>5, <3>1
        <3>3. Len(a) + Len(EncodedItem(x)) = HeaderSize + (Len(before(k)) + Len(EncodedItem(x)))
            BY <2>5, <3>1, <3>2
        <3>4. Start(d, k + 1) = HeaderSize + Len(before(k + 1))
            BY <2>8, <2>11, <3>3
        <3> QED
            BY <3>4 DEF d, before
    <2> QED
        BY <2>9, <2>10, <2>12 DEF x
<1> HIDE DEF Here, There
<1>4. \A k \in Nat : k \in T
    <2>1. 0 \in T
        BY <1>2
    <2>2. ASSUME NEW k \in Nat, k \in T
          PROVE  k + 1 \in T
        BY <1>1, <1>3, <2>2
    <2> HIDE DEF T
    <2> QED
        BY <2>1, <2>2, InductiveSet
<1>5. ASSUME NEW k \in 0..Len(xs)
      PROVE  Here(k) /\ (k < Len(xs) => There(k))
    BY <1>3, <1>4
<1> QED
    BY <1>5 DEF Here, There

-----------------------------------------------------------------------------
(* The bytes of a list. *)

\* Lists that are short enough for the header and the lengths of their items.
Listable == {xs \in Seq(Storable) : 2 * Len(xs) < Power[HeaderSize]}

Stored(xs) == Header(Len(xs)) \o EncodedItems(xs)

\* The key of an empty list is gone.
Kept(xs) == IF xs = <<>> THEN Absent ELSE Stored(xs)

LEMMA HeaderType ==
    ASSUME NEW n \in Int
    PROVE  Header(n) \in Seq(Byte) /\ Len(Header(n)) = HeaderSize
BY PutType, SizeAssumption DEF Header

LEMMA HeaderOf ==
    ASSUME NEW n \in Int, NEW e \in Seq(Byte)
    PROVE  LET d == Header(n) \o e
           IN  /\ d \in Seq(Byte) /\ Len(d) = HeaderSize + Len(e) /\ HasHeader(d)
               /\ Slice(d, 0, HeaderSize) = Header(n) /\ Slice(d, HeaderSize, Len(d)) = e
<1> DEFINE h == Header(n)
           d == h \o e
<1>1. h \in Seq(Byte) /\ Len(h) = HeaderSize
    BY HeaderType
<1> HIDE DEF h
<1>2. d \in Seq(Byte) /\ Len(d) = HeaderSize + Len(e)
    BY <1>1, ConcatProperties
<1>3. d = <<>> \o (h \o e) /\ d = h \o (e \o <<>>)
    BY <1>1, <1>2, ConcatEmptySeq
<1>4. <<>> \in Seq(Byte) /\ Len(<<>>) = 0
    OBVIOUS
<1> HIDE DEF d
<1>5. Slice(d, 0, HeaderSize) = h
    <2>1. Slice(<<>> \o (h \o e), Len(<<>>), Len(<<>>) + Len(h)) = h
        BY <1>1, <1>4, SliceOfConcat
    <2> QED
        BY <1>1, <1>3, <1>4, <2>1, SizeAssumption
<1>6. Slice(d, HeaderSize, Len(d)) = e
    <2>1. Slice(h \o (e \o <<>>), Len(h), Len(h) + Len(e)) = e
        BY <1>1, <1>4, SliceOfConcat
    <2> QED
        BY <1>1, <1>2, <1>3, <2>1
<1>7. HasHeader(d)
    <2>1. Len(e) \in Nat
        OBVIOUS
    <2> QED
        BY <1>2, <2>1, AbsentAssumption, SizeAssumption DEF HasHeader
<1> QED
    BY <1>2, <1>5, <1>6, <1>7 DEF d, h

LEMMA CountOf ==
    ASSUME NEW n \in Nat, 2 * n < Power[HeaderSize], NEW e \in Seq(Byte)
    PROVE  Count(Header(n) \o e) = n
<1>1. n \in Int /\ HeaderSize \in Nat /\ Power[HeaderSize] \in Nat
    BY SizeAssumption, PowerType
<1>2. n \in 0..(Power[HeaderSize] - 1)
    BY <1>1
<1>3. Number(Header(n)) = n
    BY <1>1, <1>2, NumberOfPut DEF Header
<1>4. Slice(Header(n) \o e, 0, HeaderSize) = Header(n)
    BY <1>1, HeaderOf
<1>5. Signed(n) = n
    BY <1>1 DEF Signed
<1> QED
    BY <1>3, <1>4, <1>5 DEF Count

(***************************************************************************)
(* What every command finds in the bytes of a list: its number of items,   *)
(* each item in its place, and the items before and after each place.      *)
(***************************************************************************)
LEMMA StoredList ==
    ASSUME NEW xs \in Listable
    PROVE  LET d == Stored(xs)
           IN  /\ d \in Seq(Byte) /\ HasHeader(d) /\ Count(d) = Len(xs)
               /\ Slice(d, HeaderSize, Len(d)) = EncodedItems(xs)
               /\ Start(d, Len(xs)) = Len(d)
               /\ \A k \in 0..(Len(xs) - 1) :
                     /\ HasLength(d, Start(d, k)) /\ Fits(d, Start(d, k))
                     /\ ItemAt(d, Start(d, k)) = xs[k + 1]
               /\ \A k \in 0..Len(xs) :
                     /\ Slice(d, HeaderSize, Start(d, k)) = EncodedItems(SubSeq(xs, 1, k))
                     /\ Slice(d, Start(d, k), Len(d)) = EncodedItems(SubSeq(xs, k + 1, Len(xs)))
<1> DEFINE n == Len(xs)
           h == Header(n)
           e == EncodedItems(xs)
           d == Stored(xs)
<1>1. /\ xs \in Seq(Storable) /\ xs \in Seq(Seq(Byte)) /\ n \in Nat /\ n \in Int
      /\ 2 * n < Power[HeaderSize]
    BY StorableSeq DEF Listable
<1>2. h \in Seq(Byte) /\ Len(h) = HeaderSize
    BY <1>1, HeaderType
<1>3. e \in Seq(Byte)
    BY <1>1, EncodedItemsType
<1>4. /\ d \in Seq(Byte) /\ HasHeader(d) /\ Len(d) = HeaderSize + Len(e)
      /\ Slice(d, HeaderSize, Len(d)) = e
    BY <1>1, <1>3, HeaderOf DEF Stored
<1>5. Count(d) = n
    BY <1>1, <1>3, CountOf DEF Stored
<1>6. \A k \in 0..n :
          /\ Start(d, k) = HeaderSize + Len(EncodedItems(SubSeq(xs, 1, k)))
          /\ k < n => /\ HasLength(d, Start(d, k)) /\ Fits(d, Start(d, k))
                      /\ ItemAt(d, Start(d, k)) = xs[k + 1]
    BY <1>1, <1>2, WalkOfEncoded DEF Stored
<1>7. Start(d, n) = Len(d)
    <2>1. n \in 0..n /\ SubSeq(xs, 1, n) = xs
        BY <1>1, SubSeqFull
    <2> QED
        BY <1>4, <1>6, <2>1
<1>8. ASSUME NEW k \in 0..n
      PROVE  /\ Slice(d, HeaderSize, Start(d, k)) = EncodedItems(SubSeq(xs, 1, k))
             /\ Slice(d, Start(d, k), Len(d)) = EncodedItems(SubSeq(xs, k + 1, n))
    <2> DEFINE a == EncodedItems(SubSeq(xs, 1, k))
               b == EncodedItems(SubSeq(xs, k + 1, n))
    <2>1. a \in Seq(Byte) /\ b \in Seq(Byte) /\ e = a \o b
        BY <1>1, EncodedSplit
    <2>2. Start(d, k) = HeaderSize + Len(a)
        BY <1>6
    <2>3. d = h \o e
        BY DEF Stored
    <2> HIDE DEF a, b, d, e, h, n
    <2>4. d = h \o (a \o b) /\ d = (h \o a) \o (b \o <<>>) /\ <<>> \in Seq(Byte)
        <3>1. b \o <<>> = b /\ <<>> \in Seq(Byte)
            BY <2>1, ConcatEmptySeq
        <3>2. (h \o a) \o b = h \o (a \o b)
            BY <1>2, <2>1, Regroup
        <3> QED
            BY <2>1, <2>3, <3>1, <3>2
    <2>5. h \o a \in Seq(Byte) /\ Len(h \o a) = HeaderSize + Len(a) /\ Len(e) = Len(a) + Len(b)
        BY <1>2, <2>1, ConcatProperties
    <2>6. Slice(h \o (a \o b), Len(h), Len(h) + Len(a)) = a
        BY <1>2, <2>1, SliceOfConcat
    <2>7. Slice((h \o a) \o (b \o <<>>), Len(h \o a), Len(h \o a) + Len(b)) = b
        BY <2>1, <2>4, <2>5, SliceOfConcat
    <2>8. Len(d) = (HeaderSize + Len(a)) + Len(b)
        <3>1. Len(a) \in Nat /\ Len(b) \in Nat /\ HeaderSize \in Nat
            BY <2>1, SizeAssumption
        <3> QED
            BY <1>4, <2>5, <3>1
    <2>9. Slice(d, HeaderSize, Start(d, k)) = a
        BY <1>2, <2>2, <2>4, <2>6
    <2>10. Slice(d, Start(d, k), Len(d)) = b
        BY <2>2, <2>4, <2>5, <2>7, <2>8
    <2> QED
        BY <2>9, <2>10 DEF a, b
<1>9. \A k \in 0..(n - 1) : k \in 0..n /\ k < n
    BY <1>1
<1> HIDE DEF d, n
<1> QED
    BY <1>4, <1>5, <1>6, <1>7, <1>8, <1>9 DEF d, n

-----------------------------------------------------------------------------
(* What the operations make of the bytes of a list. *)

LEMMA KeptHeader ==
    ASSUME NEW xs \in Listable
    PROVE  /\ xs \in Seq(Storable) /\ xs \in Seq(Seq(Byte)) /\ Len(xs) \in Nat
           /\ xs = <<>> => Len(xs) = 0 /\ Kept(xs) = Absent /\ ~HasHeader(Kept(xs))
           /\ xs # <<>> => Len(xs) > 0 /\ Kept(xs) = Stored(xs) /\ HasHeader(Kept(xs))
<1>1. xs \in Seq(Storable) /\ xs \in Seq(Seq(Byte)) /\ Len(xs) \in Nat
    BY StorableSeq DEF Listable
<1>2. CASE xs = <<>>
    BY <1>1, <1>2 DEF Kept, HasHeader
<1>3. CASE xs # <<>>
    BY <1>1, <1>3, StoredList, EmptySeq DEF Kept
<1> QED
    BY <1>1, <1>2, <1>3

LEMMA OldOfKept ==
    ASSUME NEW xs \in Listable
    PROVE  OldCount(Kept(xs)) = Len(xs) /\ OldItems(Kept(xs)) = EncodedItems(xs)
<1>1. CASE xs = <<>>
    BY <1>1, KeptHeader, EncodedItemsEmpty DEF OldCount, OldItems
<1>2. CASE xs # <<>>
    BY <1>2, KeptHeader, StoredList DEF OldCount, OldItems
<1> QED
    BY <1>1, <1>2

LEMMA ReverseType ==
    ASSUME NEW S, NEW s \in Seq(S)
    PROVE  Reverse(s) \in Seq(S) /\ Len(Reverse(s)) = Len(s)
<1>1. \A i \in 1..Len(s) : s[(Len(s) - i) + 1] \in S
    <2>1. \A i \in 1..Len(s) : (Len(s) - i) + 1 \in 1..Len(s)
        OBVIOUS
    <2> QED
        BY <2>1, ElementOfSeq
<1> QED
    BY <1>1 DEF Reverse

(***************************************************************************)
(* LPUSH puts the last of its values first, and RPUSH its values last.     *)
(***************************************************************************)
LEMMA LPushKept ==
    ASSUME NEW xs \in Listable, NEW ys \in Seq(Seq(Byte))
    PROVE  LPush(Kept(xs), ys) = Answering(Len(xs) + Len(ys), Stored(Reverse(ys) \o xs))
<1> DEFINE rs == Reverse(ys)
           n == Len(xs) + Len(ys)
<1>1. /\ xs \in Seq(Seq(Byte)) /\ Len(xs) \in Nat
      /\ rs \in Seq(Seq(Byte)) /\ Len(rs) = Len(ys) /\ Len(ys) \in Nat
    BY KeptHeader, ReverseType
<1> HIDE DEF rs
<1>2. Len(rs \o xs) = n
    <2>1. Len(rs \o xs) = Len(rs) + Len(xs)
        BY <1>1, ConcatProperties
    <2> QED
        BY <1>1, <2>1
<1>3. EncodedItems(rs \o xs) = EncodedItems(rs) \o EncodedItems(xs)
    BY <1>1, EncodedItemsConcat
<1>4. /\ Header(n) \in Seq(Byte) /\ EncodedItems(rs) \in Seq(Byte)
      /\ EncodedItems(xs) \in Seq(Byte)
    BY <1>1, HeaderType, EncodedItemsType
<1>5. (Header(n) \o EncodedItems(rs)) \o EncodedItems(xs) = Stored(rs \o xs)
    BY <1>2, <1>3, <1>4, Regroup DEF Stored
<1> QED
    BY <1>5, OldOfKept DEF LPush, rs

LEMMA RPushKept ==
    ASSUME NEW xs \in Listable, NEW ys \in Seq(Seq(Byte))
    PROVE  RPush(Kept(xs), ys) = Answering(Len(xs) + Len(ys), Stored(xs \o ys))
<1> DEFINE n == Len(xs) + Len(ys)
<1>1. xs \in Seq(Seq(Byte)) /\ Len(xs) \in Nat /\ Len(ys) \in Nat
    BY KeptHeader
<1>2. Len(xs \o ys) = n
    BY <1>1, ConcatProperties
<1>3. EncodedItems(xs \o ys) = EncodedItems(xs) \o EncodedItems(ys)
    BY <1>1, EncodedItemsConcat
<1>4. /\ Header(n) \in Seq(Byte) /\ EncodedItems(ys) \in Seq(Byte)
      /\ EncodedItems(xs) \in Seq(Byte)
    BY <1>1, HeaderType, EncodedItemsType
<1>5. (Header(n) \o EncodedItems(xs)) \o EncodedItems(ys) = Stored(xs \o ys)
    BY <1>2, <1>3, <1>4, Regroup DEF Stored
<1> QED
    BY <1>5, OldOfKept DEF RPush

LEMMA ShorterIsListable ==
    ASSUME NEW xs \in Listable, NEW ys \in Seq(Storable), Len(ys) <= Len(xs)
    PROVE  ys \in Listable
<1>1. Len(xs) \in Nat /\ Len(ys) \in Nat /\ 2 * Len(xs) < Power[HeaderSize] /\ Power[HeaderSize] \in Nat
    BY KeptHeader, PowerType, SizeAssumption DEF Listable
<1> QED
    BY <1>1 DEF Listable

(***************************************************************************)
(* LPOP takes the first item of a list, and the key with the last one.     *)
(***************************************************************************)
LEMMA LPopKept ==
    ASSUME NEW xs \in Listable
    PROVE  /\ xs = <<>> => LPop(Kept(xs)) = Answering(NotFound, Kept(xs))
           /\ xs # <<>> => LPop(Kept(xs)) = Answering(xs[1], Kept(Tail(xs)))
<1>1. CASE xs = <<>>
    BY <1>1, KeptHeader DEF LPop
<1>2. CASE xs # <<>>
    <2> DEFINE d == Stored(xs)
               n == Len(xs)
    <2>1. /\ Kept(xs) = d /\ n \in Nat /\ n > 0 /\ xs \in Seq(Storable) /\ xs \in Seq(Seq(Byte))
          /\ d \in Seq(Byte) /\ HasHeader(d) /\ Count(d) = n
        BY <1>2, KeptHeader, StoredList
    <2>2. Start(d, 0) = HeaderSize
        BY StartStep
    <2>3. 0 \in 0..(n - 1) /\ 1 \in 0..n
        BY <2>1
    <2>4. /\ HasLength(d, HeaderSize) /\ Fits(d, HeaderSize) /\ ItemAt(d, HeaderSize) = xs[1]
          /\ Slice(d, Start(d, 1), Len(d)) = EncodedItems(SubSeq(xs, 2, n))
        <3>1. /\ HasLength(d, Start(d, 0)) /\ Fits(d, Start(d, 0)) /\ ItemAt(d, Start(d, 0)) = xs[0 + 1]
            BY <2>3, StoredList
        <3>2. Slice(d, Start(d, 1), Len(d)) = EncodedItems(SubSeq(xs, 1 + 1, n))
            BY <2>3, StoredList
        <3> HIDE DEF d, n
        <3> QED
            BY <2>2, <3>1, <3>2
    <2>5. Start(d, 1) = Beyond(d, HeaderSize)
        <3>1. Start(d, 0 + 1) = IF HasLength(d, Start(d, 0)) THEN Beyond(d, Start(d, 0)) ELSE Len(d) + 1
            BY StartStep
        <3> HIDE DEF d
        <3> QED
            BY <2>2, <2>4, <3>1
    <2>6. SubSeq(xs, 2, n) = Tail(xs) /\ Len(Tail(xs)) = n - 1
        BY <1>2, <2>1, TailIsSubSeq, HeadTailProperties
    <2> HIDE DEF d, n
    <2>7. LPop(d) = Answering(xs[1], IF n = 1 THEN Absent
                                     ELSE Header(n - 1) \o EncodedItems(Tail(xs)))
        <3>1. ~(Count(d) = 0 \/ ~Fits(d, HeaderSize))
            BY <2>1, <2>4
        <3>2. LPop(d) = Answering(ItemAt(d, HeaderSize),
                                  IF Count(d) = 1 THEN Absent
                                  ELSE Header(Count(d) - 1) \o Slice(d, Beyond(d, HeaderSize), Len(d)))
            BY <2>1, <3>1 DEF LPop
        <3>3. Slice(d, Beyond(d, HeaderSize), Len(d)) = EncodedItems(Tail(xs))
            BY <2>4, <2>5, <2>6
        <3> QED
            BY <2>1, <2>4, <3>2, <3>3
    <2>8. Kept(Tail(xs)) = IF n = 1 THEN Absent ELSE Header(n - 1) \o EncodedItems(Tail(xs))
        <3>1. Tail(xs) = <<>> <=> n = 1
            <4>1. Tail(xs) \in Seq(Seq(Byte))
                BY <1>2, <2>1, HeadTailProperties
            <4> DEFINE t == Tail(xs)
            <4>2. t # <<>> => Len(t) \in Nat \ {0}
                BY <4>1, EmptySeq
            <4>3. t = <<>> => Len(t) = 0
                BY EmptySeq
            <4>4. Len(t) = n - 1
                BY <2>6
            <4> HIDE DEF t
            <4>5. t = <<>> <=> n = 1
                BY <2>1, <4>2, <4>3, <4>4
            <4> QED
                BY <4>5 DEF t
        <3> QED
            BY <2>6, <3>1 DEF Kept, Stored
    <2> QED
        BY <1>2, <2>1, <2>7, <2>8
<1> QED
    BY <1>1, <1>2

LEMMA FrontIsSubSeq ==
    ASSUME NEW S, NEW s \in Seq(S), s # <<>>
    PROVE  Front(s) = SubSeq(s, 1, Len(s) - 1)
BY DEF Front

(***************************************************************************)
(* RPOP takes the last one.                                                *)
(***************************************************************************)
LEMMA RPopKept ==
    ASSUME NEW xs \in Listable
    PROVE  /\ xs = <<>> => RPop(Kept(xs)) = Answering(NotFound, Kept(xs))
           /\ xs # <<>> => RPop(Kept(xs)) = Answering(xs[Len(xs)], Kept(Front(xs)))
<1>1. CASE xs = <<>>
    BY <1>1, KeptHeader DEF RPop
<1>2. CASE xs # <<>>
    <2> DEFINE d == Stored(xs)
               n == Len(xs)
               p == SubSeq(xs, 1, n - 1)
               o == Start(d, n - 1)
    <2>1. /\ Kept(xs) = d /\ n \in Nat /\ n > 0 /\ xs \in Seq(Storable) /\ xs \in Seq(Seq(Byte))
          /\ d \in Seq(Byte) /\ HasHeader(d) /\ Count(d) = n
        BY <1>2, KeptHeader, StoredList
    <2>2. n - 1 \in 0..(n - 1) /\ n - 1 \in 0..n /\ (n - 1) + 1 = n
        BY <2>1
    <2>3. Fits(d, o) /\ ItemAt(d, o) = xs[n] /\ Slice(d, HeaderSize, o) = EncodedItems(p)
        <3>1. Fits(d, o) /\ ItemAt(d, o) = xs[(n - 1) + 1]
            BY <2>2, StoredList
        <3>2. Slice(d, HeaderSize, o) = EncodedItems(p)
            BY <2>2, StoredList
        <3> HIDE DEF d, n, o
        <3> QED
            BY <2>2, <3>1, <3>2
    <2>4. Front(xs) = p /\ Len(p) = n - 1 /\ p \in Seq(Seq(Byte))
        BY <1>2, <2>1, <2>2, FrontIsSubSeq, SplitAt
    <2>5. LastStart(d) = o
        BY <2>1 DEF LastStart
    <2> HIDE DEF d, n, o, p
    <2>6. RPop(d) = Answering(xs[n], IF n = 1 THEN Absent ELSE Header(n - 1) \o EncodedItems(p))
        <3>1. ~(Count(d) = 0 \/ ~Fits(d, LastStart(d)))
            BY <2>1, <2>3, <2>5
        <3>2. RPop(d) = Answering(ItemAt(d, LastStart(d)),
                                  IF Count(d) = 1 THEN Absent
                                  ELSE Header(Count(d) - 1) \o Slice(d, HeaderSize, LastStart(d)))
            BY <2>1, <3>1 DEF RPop
        <3> QED
            BY <2>1, <2>3, <2>5, <3>2
    <2>7. Kept(p) = IF n = 1 THEN Absent ELSE Header(n - 1) \o EncodedItems(p)
        <3>1. p = <<>> <=> n = 1
            <4>1. p # <<>> => Len(p) \in Nat \ {0}
                BY <2>4, EmptySeq
            <4>2. p = <<>> => Len(p) = 0
                BY EmptySeq
            <4> QED
                BY <2>1, <2>4, <4>1, <4>2
        <3> QED
            BY <2>4, <3>1 DEF Kept, Stored
    <2> QED
        BY <1>2, <2>1, <2>4, <2>6, <2>7 DEF n
<1> QED
    BY <1>1, <1>2

LEMMA LLenKept ==
    ASSUME NEW xs \in Listable
    PROVE  LLen(Kept(xs)) = Len(xs)
<1>1. CASE xs = <<>>
    BY <1>1, KeptHeader DEF LLen
<1>2. CASE xs # <<>>
    BY <1>2, KeptHeader, StoredList DEF LLen
<1> QED
    BY <1>1, <1>2

(***************************************************************************)
(* LINDEX finds the item of every position that a list has.                *)
(***************************************************************************)
LEMMA LIndexKept ==
    ASSUME NEW xs \in Listable, NEW i \in Int
    PROVE  LIndex(Kept(xs), i) = LET k == Position(i, Len(xs)) + 1
                                 IN  IF k \in 1..Len(xs) THEN xs[k] ELSE NotFound
<1> DEFINE n == Len(xs)
           k == Position(i, n)
<1>1. n \in Nat /\ k \in Int
    BY KeptHeader DEF Position
<1>2. k + 1 \in 1..n <=> ~(k < 0 \/ k >= n)
    BY <1>1
<1>3. CASE xs = <<>>
    BY <1>1, <1>2, <1>3, KeptHeader DEF LIndex
<1>4. CASE xs # <<>>
    <2> DEFINE d == Stored(xs)
    <2>1. Kept(xs) = d /\ HasHeader(d) /\ Count(d) = n
        BY <1>4, KeptHeader, StoredList
    <2>2. ~(k < 0 \/ k >= n) => Fits(d, Start(d, k)) /\ ItemAt(d, Start(d, k)) = xs[k + 1]
        BY <1>1, StoredList
    <2> HIDE DEF d
    <2> QED
        BY <1>2, <2>1, <2>2 DEF LIndex
<1> QED
    BY <1>3, <1>4

(***************************************************************************)
(* LSET replaces the item of every position that a list has, and nothing   *)
(* else.                                                                   *)
(***************************************************************************)
LEMMA LSetKept ==
    ASSUME NEW xs \in Listable, NEW i \in Int, NEW x \in Storable
    PROVE  LET k == Position(i, Len(xs)) + 1
           IN  LSet(Kept(xs), i, x) =
                   IF k \in 1..Len(xs) THEN Answering("OK", Kept([xs EXCEPT ![k] = x]))
                   ELSE Answering(NotFound, Kept(xs))
<1> DEFINE n == Len(xs)
           k == Position(i, n)
<1>1. n \in Nat /\ k \in Int
    BY KeptHeader DEF Position
<1>2. k + 1 \in 1..n <=> ~(k < 0 \/ k >= n)
    BY <1>1
<1>3. CASE xs = <<>>
    BY <1>1, <1>2, <1>3, KeptHeader DEF LSet
<1>4. CASE xs # <<>>
    <2> DEFINE d == Stored(xs)
    <2>1. /\ Kept(xs) = d /\ HasHeader(d) /\ Count(d) = n /\ Start(d, n) = Len(d)
          /\ xs \in Seq(Storable) /\ xs \in Seq(Seq(Byte))
        BY <1>4, KeptHeader, StoredList
    <2>2. \A j \in 0..(n - 1) : HasLength(d, Start(d, j)) /\ Fits(d, Start(d, j))
        BY StoredList
    <2>3. Walks(d, n)
        BY <2>2 DEF Walks
    <2>4. CASE k < 0 \/ k >= n
        <3> HIDE DEF d, n
        <3>1. LSet(d, i, x) = Answering(NotFound, d)
            BY <2>1, <2>4 DEF LSet
        <3> QED
            BY <1>2, <2>1, <2>4, <3>1 DEF n
    <2>5. CASE ~(k < 0 \/ k >= n)
        <3> DEFINE new == [xs EXCEPT ![k + 1] = x]
                   a == EncodedItems(SubSeq(xs, 1, k))
                   b == EncodedItems(SubSeq(xs, k + 2, n))
        <3>1. k \in 0..n /\ k + 1 \in 0..n /\ k \in 0..(n - 1) /\ k + 1 \in 1..n /\ (k + 1) + 1 = k + 2
            BY <1>1, <2>5
        <3>2. Slice(d, HeaderSize, Start(d, k)) = a
            BY <3>1, StoredList
        <3>3. Slice(d, Start(d, k + 1), Start(d, n)) = b
            <4>1. Slice(d, Start(d, k + 1), Len(d)) = EncodedItems(SubSeq(xs, (k + 1) + 1, n))
                BY <3>1, StoredList
            <4> HIDE DEF d, n, k
            <4> QED
                BY <2>1, <3>1, <4>1
        <3>4. LSet(d, i, x) = Answering("OK", Header(n) \o a \o EncodedItem(x) \o b)
            <4> HIDE DEF d, a, b, k, n
            <4>1. ~(\/ k < 0 \/ k >= n \/ ~Walks(d, n)
                    \/ \E j \in 0..(n - 1) : j # k /\ ~Fits(d, Start(d, j)))
                BY <2>2, <2>3, <2>5
            <4> QED
                BY <2>1, <3>2, <3>3, <4>1 DEF LSet, k, n
        <3>5. /\ x \in Seq(Byte) /\ new \in Seq(Seq(Byte)) /\ Len(new) = n
              /\ new[k + 1] = x /\ \A j \in 1..n : j # k + 1 => new[j] = xs[j]
            BY <2>1, <3>1, ExceptSeq DEF Storable
        <3>6. SubSeq(new, 1, k) = SubSeq(xs, 1, k) /\ SubSeq(new, k + 2, n) = SubSeq(xs, k + 2, n)
            <4> HIDE DEF new, n, k
            <4> QED
                BY <1>1, <3>1, <3>5 DEF n
        <3>7. /\ a \in Seq(Byte) /\ b \in Seq(Byte) /\ EncodedItem(x) \in Seq(Byte)
              /\ EncodedItems(new) = a \o (EncodedItem(x) \o b)
            <4>1. /\ a \in Seq(Byte)
                  /\ EncodedItems(new) = a \o EncodedItems(SubSeq(new, k + 1, n))
                BY <3>1, <3>5, <3>6, EncodedSplit
            <4>2. /\ b \in Seq(Byte)
                  /\ EncodedItems(SubSeq(new, k + 1, n)) = EncodedItem(x) \o b
                BY <3>1, <3>5, <3>6, EncodedRest
            <4>3. EncodedItem(x) \in Seq(Byte)
                BY <3>5, EncodedItemType
            <4> HIDE DEF a, b, new, k, n
            <4> QED
                BY <4>1, <4>2, <4>3
        <3>8. ((Header(n) \o a) \o EncodedItem(x)) \o b = Header(n) \o (a \o (EncodedItem(x) \o b))
            <4>1. Header(n) \in Seq(Byte)
                BY <1>1, HeaderType
            <4>2. Header(n) \o a \in Seq(Byte) /\ EncodedItem(x) \o b \in Seq(Byte)
                BY <3>7, <4>1, ConcatProperties
            <4> HIDE DEF a, b, n
            <4>3. ((Header(n) \o a) \o EncodedItem(x)) \o b = (Header(n) \o a) \o (EncodedItem(x) \o b)
                BY <3>7, <4>2, Regroup
            <4>4. (Header(n) \o a) \o (EncodedItem(x) \o b) = Header(n) \o (a \o (EncodedItem(x) \o b))
                BY <3>7, <4>1, <4>2, Regroup
            <4> QED
                BY <4>3, <4>4
        <3>9. new # <<>>
            BY <1>1, <3>1, <3>5
        <3>10. Kept(new) = ((Header(n) \o a) \o EncodedItem(x)) \o b
            <4> HIDE DEF a, b, new, k, n
            <4> QED
                BY <3>5, <3>7, <3>8, <3>9 DEF Kept, Stored
        <3> HIDE DEF a, b, new, d
        <3>11. LSet(Kept(xs), i, x) = Answering("OK", Kept(new))
            BY <2>1, <3>4, <3>10
        <3> QED
            BY <3>1, <3>11 DEF new
    <2> QED
        BY <2>4, <2>5
<1> QED
    BY <1>3, <1>4

(***************************************************************************)
(* LRANGE returns the items of the positions that a list has.              *)
(***************************************************************************)
LEMMA LRangeKept ==
    ASSUME NEW xs \in Listable, NEW a \in Int, NEW b \in Int
    PROVE  LET n == Len(xs)
               from == IF Position(a, n) < 0 THEN 0 ELSE Position(a, n)
               to == IF Position(b, n) >= n THEN n - 1 ELSE Position(b, n)
           IN  LRange(Kept(xs), a, b) =
                   IF from > to THEN <<>> ELSE SubSeq(xs, from + 1, to + 1)
<1> DEFINE n == Len(xs)
           from == IF Position(a, n) < 0 THEN 0 ELSE Position(a, n)
           to == IF Position(b, n) >= n THEN n - 1 ELSE Position(b, n)
<1>1. n \in Nat /\ from \in Nat /\ to \in Int /\ to <= n - 1
    BY KeptHeader DEF Position
<1>2. CASE xs = <<>>
    <2>1. from > to
        BY <1>1, <1>2
    <2> QED
        BY <1>2, <2>1, KeptHeader DEF LRange
<1>3. CASE xs # <<>>
    <2> DEFINE d == Stored(xs)
    <2>1. /\ Kept(xs) = d /\ HasHeader(d) /\ Count(d) = n /\ n > 0
          /\ xs \in Seq(Seq(Byte))
        BY <1>3, KeptHeader, StoredList
    <2>2. \A j \in 0..(n - 1) : /\ HasLength(d, Start(d, j)) /\ Fits(d, Start(d, j))
                               /\ ItemAt(d, Start(d, j)) = xs[j + 1]
        BY StoredList
    <2>3. Walks(d, n)
        BY <2>2 DEF Walks
    <2>4. LRange(d, a, b) =
            IF n = 0 \/ from > to THEN <<>>
            ELSE IF ~Walks(d, n) \/ \E j \in from..to : j < n /\ ~Fits(d, Start(d, j))
            THEN NotFound
            ELSE [j \in 1..(to - from + 1) |-> ItemAt(d, Start(d, from + j - 1))]
        <3> HIDE DEF d
        <3> QED
            BY <2>1 DEF LRange
    <2> HIDE DEF d, from, to
    <2>5. CASE from > to
        BY <2>1, <2>4, <2>5 DEF from, to
    <2>6. CASE ~(from > to)
        <3> HIDE DEF n
        <3>1. \A j \in from..to : j \in 0..(n - 1)
            BY <1>1
        <3>2. LRange(d, a, b) = [j \in 1..(to - from + 1) |-> ItemAt(d, Start(d, from + j - 1))]
            BY <1>1, <2>1, <2>2, <2>3, <2>4, <2>6, <3>1
        <3>3. SubSeq(xs, from + 1, to + 1) = [j \in 1..(to - from + 1) |-> xs[from + j]]
            BY <1>1, <2>6
        <3>4. ASSUME NEW j \in 1..(to - from + 1)
              PROVE  ItemAt(d, Start(d, from + j - 1)) = xs[from + j]
            <4>1. from + j - 1 \in 0..(n - 1) /\ (from + j - 1) + 1 = from + j
                BY <1>1, <2>6
            <4> QED
                BY <2>2, <4>1
        <3>5. LRange(d, a, b) = SubSeq(xs, from + 1, to + 1)
            BY <3>2, <3>3, <3>4
        <3> QED
            BY <2>1, <2>6, <3>5 DEF from, to, n
    <2> QED
        BY <2>5, <2>6
<1> QED
    BY <1>2, <1>3

-----------------------------------------------------------------------------
(* Sets. *)

(***************************************************************************)
(* SADD, SREM, SMEMBERS and SISMEMBER read the items that were written.    *)
(***************************************************************************)
LEMMA ReadItemsKept ==
    ASSUME NEW xs \in Listable
    PROVE  ReadItems(Kept(xs)) = xs
<1>1. CASE xs = <<>>
    BY <1>1, KeptHeader DEF ReadItems
<1>2. CASE xs # <<>>
    <2> DEFINE d == Stored(xs)
               n == Len(xs)
               whole == {i \in 0..(n - 1) : Fits(d, Start(d, i))}
    <2>1. /\ Kept(xs) = d /\ HasHeader(d) /\ Count(d) = n /\ n \in Nat
          /\ xs \in Seq(Seq(Byte))
        BY <1>2, KeptHeader, StoredList
    <2>2. \A i \in 0..(n - 1) : Fits(d, Start(d, i)) /\ ItemAt(d, Start(d, i)) = xs[i + 1]
        BY StoredList
    <2> HIDE DEF d
    <2>3. whole = 0..(n - 1)
        BY <2>2
    <2>4. Cardinality(whole) = n
        <3>1. 0 \in Int /\ n - 1 \in Int
            BY <2>1
        <3>2. Cardinality(0..(n - 1)) = IF 0 > n - 1 THEN 0 ELSE (n - 1) - 0 + 1
            BY <3>1, FS_Interval
        <3> HIDE DEF whole, n
        <3> QED
            BY <2>1, <2>3, <3>2 DEF n
    <2>5. ReadItems(d) = [i \in 1..n |-> ItemAt(d, Start(d, i - 1))]
        <3> HIDE DEF n
        <3>1. ReadItems(d) = [i \in 1..Cardinality(whole) |-> ItemAt(d, Start(d, i - 1))]
            BY <2>1 DEF ReadItems
        <3> QED
            BY <2>4, <3>1
    <2>6. \A i \in 1..n : ItemAt(d, Start(d, i - 1)) = xs[i]
        <3>1. \A i \in 1..n : i - 1 \in 0..(n - 1) /\ (i - 1) + 1 = i
            BY <2>1
        <3> QED
            BY <2>2, <3>1
    <2>7. xs = [i \in 1..n |-> xs[i]]
        BY <2>1
    <2> QED
        BY <2>1, <2>5, <2>6, <2>7
<1> QED
    BY <1>1, <1>2

LEMMA ToSetFinite ==
    ASSUME NEW S, NEW s \in Seq(S)
    PROVE  /\ ToSet(s) \subseteq S /\ IsFiniteSet(ToSet(s)) /\ Cardinality(ToSet(s)) \in Nat
           /\ ToSet(s) = {s[i] : i \in 1..Len(s)}
           /\ IsFiniteSet(DOMAIN s) /\ s \in Surjection(DOMAIN s, ToSet(s))
<1>1. DOMAIN s = 1..Len(s) /\ Len(s) \in Int /\ 1 \in Int /\ \A i \in 1..Len(s) : s[i] \in S
    OBVIOUS
<1>2. ToSet(s) \subseteq S /\ ToSet(s) = {s[i] : i \in 1..Len(s)}
    BY <1>1 DEF ToSet
<1>3. s \in [DOMAIN s -> ToSet(s)]
    BY <1>1 DEF ToSet
<1>4. s \in Surjection(DOMAIN s, ToSet(s))
    BY <1>3 DEF ToSet, Surjection
<1>5. IsFiniteSet(DOMAIN s)
    BY <1>1, FS_Interval
<1>6. IsFiniteSet(ToSet(s))
    BY <1>4, <1>5, FS_Surjection
<1>7. Cardinality(ToSet(s)) \in Nat
    BY <1>6, FS_CardinalityType
<1> QED
    BY <1>2, <1>4, <1>5, <1>6, <1>7

\* A map written in some order: each member once, and no other.
LEMMA OrderOfSet ==
    ASSUME NEW S, IsFiniteSet(S)
    PROVE  /\ \A p \in SetToSeqs(S) :
                 /\ p \in Seq(S) /\ Len(p) = Cardinality(S) /\ ToSet(p) = S /\ IsInjective(p)
           /\ SetToSeq(S) \in SetToSeqs(S)
<1> DEFINE n == Cardinality(S)
<1>1. n \in Nat /\ ExistsBijection(1..n, S)
    BY FS_CardinalityType
<1>2. SetToSeqs(S) = {f \in [1..n -> S] : IsInjective(f)}
    <2>1. \A f \in [1..n -> S] :
              IsInjective(f) <=> \A i, j \in 1..n : i # j => f[i] # f[j]
        BY DEF IsInjective
    <2> QED
        BY <2>1 DEF SetToSeqs
<1>3. ASSUME NEW p \in SetToSeqs(S)
      PROVE  p \in Seq(S) /\ Len(p) = n /\ ToSet(p) = S /\ IsInjective(p)
    <2>1. p \in [1..n -> S] /\ IsInjective(p)
        BY <1>2
    <2>2. p \in Seq(S) /\ Len(p) = n
        BY <1>1, <2>1
    <2>3. p \in Injection(1..n, S)
        BY <2>1 DEF Injection
    <2>4. IsFiniteSet(1..n) /\ Cardinality(1..n) = n
        <3>1. 1 \in Int /\ n \in Int
            BY <1>1
        <3>2. IsFiniteSet(1..n) /\ Cardinality(1..n) = IF 1 > n THEN 0 ELSE n - 1 + 1
            BY <3>1, FS_Interval
        <3> HIDE DEF n
        <3> QED
            BY <1>1, <3>2
    <2>5. p \in Surjection(1..n, S)
        BY <2>3, <2>4, FS_Injection
    <2>6. \A t \in S : \E i \in 1..n : p[i] = t
        BY <2>5 DEF Surjection
    <2>7. DOMAIN p = 1..n /\ \A i \in 1..n : p[i] \in S
        BY <2>1
    <2>8. ToSet(p) = S
        BY <2>6, <2>7 DEF ToSet
    <2> QED
        BY <2>1, <2>2, <2>8
<1>4. SetToSeq(S) \in SetToSeqs(S)
    <2>1. \E f \in [1..n -> S] : IsInjective(f)
        BY <1>1 DEF ExistsBijection, Bijection, Injection
    <2>2. SetToSeq(S) \in [1..n -> S] /\ IsInjective(SetToSeq(S))
        BY <2>1 DEF SetToSeq
    <2> QED
        BY <1>2, <2>2
<1> QED
    BY <1>3, <1>4

(***************************************************************************)
(* SADD writes the members that were there and the new ones, in some       *)
(* order, and counts the new ones.                                         *)
(***************************************************************************)
LEMMA SAddKept ==
    ASSUME NEW xs \in Listable, NEW ys \in Seq(Seq(Byte)), NEW r \in SAdd(Kept(xs), ys)
    PROVE  /\ r.reply = Cardinality(ToSet(ys) \ ToSet(xs))
           /\ IsFiniteSet(ToSet(xs) \cup ToSet(ys))
           /\ \E p \in SetToSeqs(ToSet(xs) \cup ToSet(ys)) : r.value = Stored(p)
<1> DEFINE all == ToSet(xs) \cup ToSet(ys)
<1>1. ReadItems(Kept(xs)) = xs
    BY ReadItemsKept
<1>2. xs \in Seq(Seq(Byte)) /\ IsFiniteSet(ToSet(xs)) /\ IsFiniteSet(ToSet(ys))
    BY KeptHeader, ToSetFinite
<1>3. IsFiniteSet(all)
    BY <1>2, FS_Union
<1>4. PICK e \in StoredSets(all) : r = Answering(Cardinality(all \ ToSet(xs)), e)
    BY <1>1 DEF SAdd
<1>5. PICK p \in SetToSeqs(all) : e = Header(Cardinality(all)) \o EncodedItems(p)
    BY <1>4 DEF StoredSets
<1>6. e = Stored(p)
    BY <1>3, <1>5, OrderOfSet DEF Stored
<1>7. all \ ToSet(xs) = ToSet(ys) \ ToSet(xs)
    OBVIOUS
<1> HIDE DEF all
<1>8. r.reply = Cardinality(ToSet(ys) \ ToSet(xs)) /\ r.value = e
    BY <1>4, <1>7 DEF Answering
<1> QED
    BY <1>3, <1>5, <1>6, <1>8 DEF all

(***************************************************************************)
(* SREM leaves the other members, in some order, and the key only if there *)
(* are any; members that are not there change nothing, not even the order. *)
(***************************************************************************)
LEMMA SRemKept ==
    ASSUME NEW xs \in Listable, NEW ys \in Seq(Seq(Byte)), NEW r \in SRem(Kept(xs), ys)
    PROVE  LET left == ToSet(xs) \ ToSet(ys)
           IN  /\ IsFiniteSet(left)
               /\ left = ToSet(xs) => r = Answering(0, Kept(xs))
               /\ left # ToSet(xs) =>
                     /\ r.reply # 0
                     /\ IF left = {} THEN r.value = Absent
                        ELSE \E p \in SetToSeqs(left) : r.value = Stored(p)
               /\ IsInjective(ys) => r.reply = Cardinality(ToSet(ys) \cap ToSet(xs))
<1> DEFINE left == ToSet(xs) \ ToSet(ys)
           named == {i \in DOMAIN ys : ys[i] \in ToSet(xs)}
<1>1. ReadItems(Kept(xs)) = xs
    BY ReadItemsKept
<1>2. /\ xs \in Seq(Seq(Byte)) /\ IsFiniteSet(ToSet(xs)) /\ IsFiniteSet(DOMAIN ys)
      /\ ToSet(ys) = {ys[i] : i \in DOMAIN ys}
    <2>1. xs \in Seq(Seq(Byte))
        BY KeptHeader
    <2>2. IsFiniteSet(ToSet(xs)) /\ IsFiniteSet(DOMAIN ys)
        BY <2>1, ToSetFinite
    <2> QED
        BY <2>1, <2>2 DEF ToSet
<1>3. IsFiniteSet(left) /\ IsFiniteSet(named)
    BY <1>2, FS_Difference, FS_Subset
<1>4. left = ToSet(xs) <=> named = {}
    BY <1>2
<1>5. SRem(Kept(xs), ys) = IF named = {} THEN {Answering(0, Kept(xs))}
                           ELSE {Answering(Cardinality(named), e) :
                                   e \in IF left = {} THEN {Absent} ELSE StoredSets(left)}
    BY <1>1 DEF SRem
<1>6. IsInjective(ys) => Cardinality(named) = Cardinality(ToSet(ys) \cap ToSet(xs))
    <2> SUFFICES ASSUME IsInjective(ys)
                 PROVE  Cardinality(named) = Cardinality(ToSet(ys) \cap ToSet(xs))
        OBVIOUS
    <2> DEFINE both == ToSet(ys) \cap ToSet(xs)
               f == [i \in named |-> ys[i]]
    <2>1. f \in [named -> both] /\ \A t \in both : \E i \in named : f[i] = t
        BY <1>2
    <2>2. IsInjective(f)
        BY DEF IsInjective
    <2>3. f \in Bijection(named, both)
        BY <2>1, <2>2 DEF Bijection, Injection, Surjection
    <2> QED
        BY <1>3, <2>3, FS_Bijection DEF ExistsBijection
<1>7. Cardinality(named) = 0 <=> named = {}
    BY <1>3, FS_EmptySet
<1>8. named # {} /\ left = {} => r = Answering(Cardinality(named), Absent)
    BY <1>5
<1>9. ASSUME named # {}, left # {}
      PROVE  \E p \in SetToSeqs(left) : r = Answering(Cardinality(named), Stored(p))
    <2>1. PICK e \in StoredSets(left) : r = Answering(Cardinality(named), e)
        BY <1>5, <1>9
    <2>2. PICK p \in SetToSeqs(left) : e = Header(Cardinality(left)) \o EncodedItems(p)
        BY <2>1 DEF StoredSets
    <2>3. e = Stored(p)
        BY <1>3, <2>2, OrderOfSet DEF Stored
    <2> QED
        BY <2>1, <2>2, <2>3
<1>10. named = {} => r = Answering(0, Kept(xs))
    BY <1>5
<1> HIDE DEF left, named
<1>11. r.reply = Cardinality(named)
    BY <1>7, <1>8, <1>9, <1>10 DEF Answering
<1>12. ASSUME named # {}
       PROVE  IF left = {} THEN r.value = Absent
              ELSE \E p \in SetToSeqs(left) : r.value = Stored(p)
    <2>1. CASE left = {}
        BY <1>8, <1>12, <2>1 DEF Answering
    <2>2. CASE left # {}
        BY <1>9, <1>12, <2>2 DEF Answering
    <2> QED
        BY <2>1, <2>2
<1> QED
    BY <1>3, <1>4, <1>6, <1>7, <1>10, <1>11, <1>12 DEF left, named

-----------------------------------------------------------------------------
(* What the operations leave of bytes that may be anything. *)

Bytes == Seq(Byte) \cup {Absent}

LEMMA CountType ==
    ASSUME NEW d \in Bytes, HasHeader(d)
    PROVE  /\ d \in Seq(Byte) /\ Count(d) \in Int /\ Len(d) \in Nat
           /\ HeaderSize <= Len(d) /\ HeaderSize \in Nat
<1>1. d \in Seq(Byte) /\ HeaderSize \in Nat /\ 0 \in Nat /\ HeaderSize <= Len(d)
    BY SizeAssumption DEF HasHeader, Bytes
<1>2. Slice(d, 0, HeaderSize) \in Seq(Byte)
    BY <1>1, SliceType
<1>3. Number(Slice(d, 0, HeaderSize)) \in Nat /\ Power[HeaderSize] \in Nat
    BY <1>1, <1>2, NumberType, PowerType
<1> QED
    BY <1>1, <1>3 DEF Count, Signed

LEMMA PushType ==
    ASSUME NEW d \in Bytes, NEW ys \in Seq(Seq(Byte))
    PROVE  LPush(d, ys).value \in Seq(Byte) /\ RPush(d, ys).value \in Seq(Byte)
<1>1. OldCount(d) \in Int /\ Len(ys) \in Nat
    BY CountType DEF OldCount
<1>2. OldItems(d) \in Seq(Byte)
    <2>1. HasHeader(d) => Slice(d, HeaderSize, Len(d)) \in Seq(Byte)
        BY CountType, SliceType
    <2> QED
        BY <2>1 DEF OldItems
<1>3. OldCount(d) + Len(ys) \in Int
    BY <1>1
<1>4. Header(OldCount(d) + Len(ys)) \in Seq(Byte)
    BY <1>3, HeaderType
<1>5. EncodedItems(ys) \in Seq(Byte) /\ EncodedItems(Reverse(ys)) \in Seq(Byte)
    BY ReverseType, EncodedItemsType
<1>6. (Header(OldCount(d) + Len(ys)) \o EncodedItems(Reverse(ys))) \o OldItems(d) \in Seq(Byte)
    BY <1>2, <1>4, <1>5, ConcatProperties
<1>7. (Header(OldCount(d) + Len(ys)) \o OldItems(d)) \o EncodedItems(ys) \in Seq(Byte)
    BY <1>2, <1>4, <1>5, ConcatProperties
<1> QED
    BY <1>6, <1>7 DEF LPush, RPush, Answering

LEMMA LPopType ==
    ASSUME NEW d \in Bytes
    PROVE  LPop(d).value \in Bytes
<1>1. CASE ~HasHeader(d) \/ Count(d) = 0 \/ ~Fits(d, HeaderSize)
    BY <1>1 DEF LPop, Answering
<1>2. CASE HasHeader(d) /\ ~(Count(d) = 0 \/ ~Fits(d, HeaderSize))
    <2>1. /\ d \in Seq(Byte) /\ Count(d) - 1 \in Int /\ HeaderSize \in Nat /\ Fits(d, HeaderSize)
          /\ Len(d) \in Nat
        BY <1>2, CountType
    <2>2. Beyond(d, HeaderSize) \in Nat
        BY <2>1, BeyondType DEF Fits
    <2>3. Slice(d, Beyond(d, HeaderSize), Len(d)) \in Seq(Byte)
        BY <2>1, <2>2, SliceType
    <2>4. Header(Count(d) - 1) \o Slice(d, Beyond(d, HeaderSize), Len(d)) \in Seq(Byte)
        BY <2>1, <2>3, HeaderType, ConcatProperties
    <2> QED
        BY <1>2, <2>4 DEF LPop, Answering, Bytes
<1> QED
    BY <1>1, <1>2

LEMMA RPopType ==
    ASSUME NEW d \in Bytes
    PROVE  RPop(d).value \in Bytes
<1>1. CASE ~HasHeader(d) \/ Count(d) = 0 \/ ~Fits(d, LastStart(d))
    BY <1>1 DEF RPop, Answering
<1>2. CASE HasHeader(d) /\ ~(Count(d) = 0 \/ ~Fits(d, LastStart(d)))
    <2>1. /\ d \in Seq(Byte) /\ Count(d) \in Int /\ HeaderSize \in Nat /\ Len(d) \in Nat
          /\ Fits(d, LastStart(d))
        BY <1>2, CountType
    <2>2. LastStart(d) \in Nat
        BY <2>1, StartType DEF LastStart
    <2>3. LastStart(d) <= Len(d)
        BY <2>1, <2>2, SizeAssumption DEF Fits, HasLength
    <2>4. Slice(d, HeaderSize, LastStart(d)) \in Seq(Byte)
        BY <2>1, <2>2, <2>3, SliceType
    <2>5. Count(d) - 1 \in Int
        BY <2>1
    <2>6. Header(Count(d) - 1) \o Slice(d, HeaderSize, LastStart(d)) \in Seq(Byte)
        BY <2>4, <2>5, HeaderType, ConcatProperties
    <2> QED
        BY <1>2, <2>6 DEF RPop, Answering, Bytes
<1> QED
    BY <1>1, <1>2

\* Walks that end at an item end within the data.
LEMMA WalkEnds ==
    ASSUME NEW d \in Seq(Byte), HasHeader(d), NEW n \in Nat, NEW k \in 0..(n - 1),
           Walks(d, n), \A j \in 0..(n - 1) : j # k => Fits(d, Start(d, j))
    PROVE  /\ Start(d, k) \in Nat /\ Start(d, k) <= Len(d) /\ Start(d, k + 1) \in Nat
           /\ Start(d, n) \in Nat /\ (k + 1 < n => Start(d, n) <= Len(d))
           /\ k + 1 = n => Start(d, n) = Start(d, k + 1)
<1>1. k \in Nat /\ k + 1 \in Nat /\ n - 1 \in Nat /\ (n - 1) + 1 = n
    OBVIOUS
<1>2. Start(d, k) \in Nat /\ Start(d, k + 1) \in Nat /\ Start(d, n) \in Nat
    BY <1>1, StartType
<1>3. Start(d, k) <= Len(d)
    BY <1>2, SizeAssumption DEF Walks, HasLength
<1>4. ASSUME k + 1 < n
      PROVE  Start(d, n) <= Len(d)
    <2>1. n - 1 \in 0..(n - 1) /\ n - 1 # k
        BY <1>4
    <2>2. Fits(d, Start(d, n - 1))
        BY <2>1
    <2>3. Start(d, n) = Beyond(d, Start(d, n - 1))
        BY <1>1, <2>2, StartStep DEF Fits
    <2> QED
        BY <2>2, <2>3 DEF Fits
<1> QED
    BY <1>2, <1>3, <1>4

LEMMA LSetType ==
    ASSUME NEW d \in Bytes, NEW i \in Int, NEW x \in Seq(Byte)
    PROVE  LSet(d, i, x).value \in Bytes
<1> DEFINE n == Count(d)
           k == Position(i, n)
           bad == \/ k < 0 \/ k >= n \/ ~Walks(d, n)
                  \/ \E j \in 0..(n - 1) : j # k /\ ~Fits(d, Start(d, j))
<1>1. CASE ~HasHeader(d) \/ bad
    BY <1>1 DEF LSet, Answering
<1>2. CASE HasHeader(d) /\ ~bad
    <2>1. d \in Seq(Byte) /\ n \in Int /\ HeaderSize \in Nat /\ Len(d) \in Nat
        BY <1>2, CountType
    <2>2. /\ n \in Nat /\ k \in 0..(n - 1) /\ Walks(d, n)
          /\ \A j \in 0..(n - 1) : j # k => Fits(d, Start(d, j))
        BY <1>2, <2>1 DEF Position
    <2>3. LSet(d, i, x) =
            Answering("OK", Header(n) \o Slice(d, HeaderSize, Start(d, k)) \o EncodedItem(x)
                            \o Slice(d, Start(d, k + 1), Start(d, n)))
        BY <1>2 DEF LSet
    <2> HIDE DEF n, k
    <2>4. /\ Start(d, k) \in Nat /\ Start(d, k) <= Len(d) /\ Start(d, k + 1) \in Nat
          /\ Start(d, n) \in Nat /\ (k + 1 < n => Start(d, n) <= Len(d))
          /\ k + 1 = n => Start(d, n) = Start(d, k + 1)
        BY <1>2, <2>1, <2>2, WalkEnds
    <2>5. Slice(d, HeaderSize, Start(d, k)) \in Seq(Byte)
        BY <2>1, <2>4, SliceType
    <2>6. Slice(d, Start(d, k + 1), Start(d, n)) \in Seq(Byte)
        <3>1. CASE k + 1 < n
            BY <2>1, <2>4, <3>1, SliceType
        <3>2. CASE k + 1 = n
            <4> DEFINE o == Start(d, n)
            <4>1. o \in Nat /\ o < o + 1 /\ o + 1 \in Int /\ o \in Int
                BY <2>4
            <4> HIDE DEF o
            <4>2. Slice(d, o, o) = <<>>
                BY <4>1, SubSeqEmpty DEF Slice
            <4>3. Start(d, k + 1) = o /\ Start(d, n) = o
                BY <2>4, <3>2 DEF o
            <4>4. <<>> \in Seq(Byte)
                OBVIOUS
            <4> QED
                BY <4>2, <4>3, <4>4
        <3> QED
            BY <2>2, <3>1, <3>2
    <2>7. Header(n) \in Seq(Byte) /\ EncodedItem(x) \in Seq(Byte)
        BY <2>2, HeaderType, EncodedItemType
    <2>8. Header(n) \o Slice(d, HeaderSize, Start(d, k)) \o EncodedItem(x)
              \o Slice(d, Start(d, k + 1), Start(d, n)) \in Seq(Byte)
        BY <2>5, <2>6, <2>7, ConcatProperties
    <2> QED
        BY <2>3, <2>8 DEF Answering, Bytes
<1> QED
    BY <1>1, <1>2

LEMMA ReadItemsType ==
    ASSUME NEW d \in Bytes
    PROVE  ReadItems(d) \in Seq(Seq(Byte))
<1>1. CASE ~HasHeader(d)
    BY <1>1 DEF ReadItems
<1>2. CASE HasHeader(d)
    <2> DEFINE n == Count(d)
               whole == {i \in 0..(n - 1) : Fits(d, Start(d, i))}
    <2>1. d \in Seq(Byte) /\ n \in Int
        BY <1>2, CountType
    <2>2. whole \in SUBSET Nat /\ \A i \in whole : i < n
        BY <2>1
    <2>3. \A i \in Nat : i + 1 \in whole => i \in whole
        BY <2>1, FitsBefore
    <2>4. \E m \in Nat : \A i \in whole : i < m
        <3> DEFINE m == IF n >= 0 THEN n ELSE 0
        <3>1. m \in Nat
            BY <2>1
        <3>2. \A i \in whole : i < m
            <4> HIDE DEF n
            <4> QED
                BY <2>1, <2>2
        <3> HIDE DEF m, whole
        <3> QED
            BY <3>1, <3>2
    <2> DEFINE c == Cardinality(whole)
    <2>5. c \in Nat /\ whole = 0..(c - 1)
        <3> HIDE DEF whole
        <3> QED
            BY <2>2, <2>3, <2>4, NoGaps
    <2>6. ReadItems(d) = [i \in 1..c |-> ItemAt(d, Start(d, i - 1))]
        BY <1>2 DEF ReadItems
    <2>7. ASSUME NEW i \in 1..c
          PROVE  ItemAt(d, Start(d, i - 1)) \in Seq(Byte)
        <3>1. i - 1 \in 0..(c - 1) /\ i - 1 \in Nat
            BY <2>5
        <3>2. Fits(d, Start(d, i - 1))
            <4> HIDE DEF c
            <4> QED
                BY <2>5, <3>1
        <3> QED
            BY <2>1, <3>1, <3>2, StartType, ItemAtType
    <2> HIDE DEF c
    <2> QED
        BY <2>5, <2>6, <2>7
<1> QED
    BY <1>1, <1>2

LEMMA StoredSetsType ==
    ASSUME NEW S, S \subseteq Seq(Byte), IsFiniteSet(S), NEW e \in StoredSets(S)
    PROVE  e \in Seq(Byte)
<1>1. PICK p \in SetToSeqs(S) : e = Header(Cardinality(S)) \o EncodedItems(p)
    BY DEF StoredSets
<1>2. Cardinality(S) \in Int
    BY FS_CardinalityType
<1>3. p \in Seq(S)
    BY OrderOfSet
<1>4. p \in Seq(Seq(Byte))
    BY <1>3, SeqMonotonic
<1> QED
    BY <1>1, <1>2, <1>4, HeaderType, EncodedItemsType, ConcatProperties

LEMMA SAddType ==
    ASSUME NEW d \in Bytes, NEW ys \in Seq(Seq(Byte)), NEW r \in SAdd(d, ys)
    PROVE  r.value \in Bytes
<1> DEFINE all == ToSet(ReadItems(d)) \cup ToSet(ys)
<1>1. /\ ToSet(ReadItems(d)) \subseteq Seq(Byte) /\ ToSet(ys) \subseteq Seq(Byte)
      /\ IsFiniteSet(ToSet(ReadItems(d))) /\ IsFiniteSet(ToSet(ys))
    <2>1. ReadItems(d) \in Seq(Seq(Byte))
        BY ReadItemsType
    <2> QED
        BY <2>1, ToSetFinite
<1>2. all \subseteq Seq(Byte) /\ IsFiniteSet(all)
    BY <1>1, FS_Union
<1>3. \E e \in StoredSets(all) : r.value = e
    <2>1. PICK e \in StoredSets(all) :
              r = Answering(Cardinality(all \ ToSet(ReadItems(d))), e)
        BY DEF SAdd
    <2> HIDE DEF all
    <2> QED
        BY <2>1 DEF Answering
<1> HIDE DEF all
<1> QED
    BY <1>2, <1>3, StoredSetsType DEF Bytes

LEMMA SRemType ==
    ASSUME NEW d \in Bytes, NEW ys \in Seq(Seq(Byte)), NEW r \in SRem(d, ys)
    PROVE  r.value \in Bytes
<1> DEFINE left == ToSet(ReadItems(d)) \ ToSet(ys)
<1>1. ToSet(ReadItems(d)) \subseteq Seq(Byte) /\ IsFiniteSet(ToSet(ReadItems(d)))
    <2>1. ReadItems(d) \in Seq(Seq(Byte))
        BY ReadItemsType
    <2> QED
        BY <2>1, ToSetFinite
<1>2. left \subseteq Seq(Byte) /\ IsFiniteSet(left)
    BY <1>1, FS_Difference
<1> DEFINE named == {i \in DOMAIN ys : ys[i] \in ToSet(ReadItems(d))}
           ends == IF left = {} THEN {Absent} ELSE StoredSets(left)
<1>3. r.value = d \/ r.value = Absent \/ \E e \in StoredSets(left) : r.value = e
    <2>1. CASE named = {}
        <3>1. r = Answering(0, d)
            BY <2>1 DEF SRem
        <3> QED
            BY <3>1 DEF Answering
    <2>2. CASE named # {}
        <3>1. PICK e \in ends : r = Answering(Cardinality(named), e)
            BY <2>2 DEF SRem
        <3>2. r.value = e
            BY <3>1 DEF Answering
        <3>3. e = Absent \/ e \in StoredSets(left)
            <4> HIDE DEF left
            <4> QED
                BY <3>1
        <3> HIDE DEF left, named
        <3> QED
            BY <3>2, <3>3
    <2> QED
        BY <2>1, <2>2
<1> HIDE DEF left
<1> QED
    BY <1>2, <1>3, StoredSetsType DEF Bytes

====
