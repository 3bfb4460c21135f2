---------------------------- MODULE RankingProofs -----------------------------
(* Proofs about Ranking and SortedSets: ZADD's comparison is a strict order,    *)
(* and total on the entries whose scores are numbers, so that sort.Slice ranks  *)
(* them whatever the order in which it meets them; and what ZADD writes, ZADD,  *)
(* ZRANGE and ZCOUNT read back.                                                 *)
EXTENDS SortedSets, EncodingProofs

-----------------------------------------------------------------------------
(* Arguments by a least counterexample. *)

LEMMA LeastElement ==
    ASSUME NEW T, T \subseteq Nat, T # {}
    PROVE  \E x \in T : \A y \in T : x <= y
<1>1. PICK x \in T : \A y \in T : <<y, x>> \notin OpToRel(<, Nat)
    BY NatLessThanWellFounded, WFMin
<1>2. \A y \in T : ~(y < x)
    BY <1>1 DEF OpToRel
<1> QED
    BY <1>2

-----------------------------------------------------------------------------
(* Strings. *)

LEMMA StringIrreflexive ==
    ASSUME NEW s \in Seq(Nat)
    PROVE  ~StringLess(s, s)
<1>1. \A n \in 0..Len(s) : n < Len(s) => s[n + 1] \in Nat
    OBVIOUS
<1> QED
    BY <1>1 DEF StringLess, Precedes

LEMMA StringTransitive ==
    ASSUME NEW s \in Seq(Nat), NEW t \in Seq(Nat), NEW u \in Seq(Nat),
           StringLess(s, t), StringLess(t, u)
    PROVE  StringLess(s, u)
<1>1. PICK n \in 0..Len(s) : Precedes(s, t, n)
    BY DEF StringLess
<1>2. PICK m \in 0..Len(t) : Precedes(t, u, m)
    BY DEF StringLess
<1>3. /\ \A k \in 1..Len(s) : s[k] \in Nat
      /\ \A k \in 1..Len(t) : t[k] \in Nat
      /\ \A k \in 1..Len(u) : u[k] \in Nat
      /\ Len(s) \in Nat /\ Len(t) \in Nat /\ Len(u) \in Nat
    OBVIOUS
<1>4. CASE n < m
    <2>1. Precedes(s, u, n)
        BY <1>1, <1>2, <1>3, <1>4 DEF Precedes
    <2> QED
        BY <2>1 DEF StringLess
<1>5. CASE n = m
    <2>1. Precedes(s, u, n)
        BY <1>1, <1>2, <1>3, <1>5 DEF Precedes
    <2> QED
        BY <2>1 DEF StringLess
<1>6. CASE n > m
    <2>1. /\ m \in Nat /\ n \in Nat /\ n <= Len(s) /\ n < Len(t) /\ m < Len(u)
          /\ \A i \in 1..n : s[i] = t[i]
          /\ \A i \in 1..m : t[i] = u[i]
        BY <1>1, <1>2 DEF Precedes
    <2>3. \A i \in 1..m : s[i] = u[i]
        BY <1>6, <2>1
    <2>4. s[m + 1] = t[m + 1] /\ t[m + 1] < u[m + 1]
        BY <1>2, <1>6, <2>1 DEF Precedes
    <2>5. Precedes(s, u, m)
        BY <1>3, <1>6, <2>1, <2>3, <2>4 DEF Precedes
    <2>2. m \in 0..Len(s)
        BY <1>6, <2>1
    <2> QED
        BY <2>2, <2>5 DEF StringLess
<1> QED
    BY <1>4, <1>5, <1>6

LEMMA StringTotal ==
    ASSUME NEW s \in Seq(Nat), NEW t \in Seq(Nat), s # t
    PROVE  StringLess(s, t) \/ StringLess(t, s)
<1> DEFINE Differ == {n \in Nat : ~(n < Len(s) /\ n < Len(t) /\ s[n + 1] = t[n + 1])}
<1>1. Len(s) \in Differ /\ Len(t) \in Differ
    OBVIOUS
<1>2. PICK n \in Differ : \A k \in Differ : n <= k
    BY <1>1, LeastElement
<1>3. n \in Nat /\ n <= Len(s) /\ n <= Len(t)
    BY <1>1, <1>2
<1>4. ASSUME NEW i \in 1..n
      PROVE  s[i] = t[i]
    <2>1. i - 1 \in Nat /\ i - 1 < n
        BY <1>3
    <2>2. i - 1 \notin Differ
        <3> HIDE DEF Differ
        <3> QED
            BY <1>2, <1>3, <2>1
    <2>3. s[(i - 1) + 1] = t[(i - 1) + 1]
        BY <2>1, <2>2
    <2> QED
        BY <2>3
<1>5. n \in 0..Len(s) /\ n \in 0..Len(t)
    BY <1>3
<1>6. CASE n = Len(s)
    <2>1. n # Len(t)
        BY <1>4, <1>6, SeqEqual
    <2>2. Precedes(s, t, n)
        BY <1>3, <1>4, <1>6, <2>1 DEF Precedes
    <2> QED
        BY <1>5, <2>2 DEF StringLess
<1>7. CASE n = Len(t) /\ n < Len(s)
    <2>1. Precedes(t, s, n)
        BY <1>3, <1>4, <1>7 DEF Precedes
    <2> QED
        BY <1>5, <2>1 DEF StringLess
<1>8. CASE n < Len(s) /\ n < Len(t)
    <2>1. s[n + 1] # t[n + 1]
        BY <1>2, <1>8
    <2>2. s[n + 1] \in Nat /\ t[n + 1] \in Nat
        BY <1>3, <1>8, ElementOfSeq
    <2>3. CASE s[n + 1] < t[n + 1]
        <3>1. Precedes(s, t, n)
            BY <1>3, <1>4, <1>8, <2>3 DEF Precedes
        <3> QED
            BY <1>5, <3>1 DEF StringLess
    <2>4. CASE t[n + 1] < s[n + 1]
        <3>1. Precedes(t, s, n)
            BY <1>3, <1>4, <1>8, <2>4 DEF Precedes
        <3> QED
            BY <1>5, <3>1 DEF StringLess
    <2> QED
        BY <2>1, <2>2, <2>3, <2>4
<1> QED
    BY <1>3, <1>6, <1>7, <1>8

-----------------------------------------------------------------------------
(* Entries. *)

LEMMA FloatType == \A b \in DOMAIN Float : Numeric(b) => Float[b] \in Int
BY FloatAssumption DEF Numeric

(***************************************************************************)
(* The function that ZADD sorts with (zadd.go:84) never puts an entry      *)
(* before itself, and is transitive: true even of scores that are no       *)
(* number, which it puts nowhere.                                          *)
(***************************************************************************)
THEOREM LessIsStrictOrder ==
    \A x, y, z \in Entry :
        /\ ~Less(x, x)
        /\ Less(x, y) /\ Less(y, z) => Less(x, z)
<1> SUFFICES ASSUME NEW x \in Entry, NEW y \in Entry, NEW z \in Entry
             PROVE  /\ ~Less(x, x)
                    /\ Less(x, y) /\ Less(y, z) => Less(x, z)
    OBVIOUS
<1>1. /\ x.score \in DOMAIN Float /\ y.score \in DOMAIN Float /\ z.score \in DOMAIN Float
      /\ x.member \in Seq(Nat) /\ y.member \in Seq(Nat) /\ z.member \in Seq(Nat)
    BY DEF Entry
<1>2. ~Less(x, x)
    BY <1>1, StringIrreflexive, FloatType DEF Less, Equal, AtMost
<1>3. ASSUME Less(x, y), Less(y, z)
      PROVE  Less(x, z)
    <2>1. CASE Equal(x.score, y.score) /\ Equal(y.score, z.score)
        <3>1. StringLess(x.member, y.member) /\ StringLess(y.member, z.member)
            BY <1>3, <2>1 DEF Less
        <3>2. StringLess(x.member, z.member)
            BY <1>1, <3>1, StringTransitive
        <3> QED
            BY <2>1, <3>2 DEF Less, Equal
    <2>2. CASE ~(Equal(x.score, y.score) /\ Equal(y.score, z.score))
        <3>1. Numeric(x.score) /\ Numeric(y.score) /\ Numeric(z.score)
            BY <1>3, <2>2 DEF Less, Equal, AtMost, Numeric
        <3>2. Float[x.score] <= Float[y.score] /\ Float[y.score] <= Float[z.score]
            BY <1>1, <1>3, <3>1, FloatType DEF Less, Equal, AtMost
        <3>3. Float[x.score] # Float[z.score]
            BY <1>1, <2>2, <3>1, <3>2, FloatType DEF Equal
        <3> QED
            BY <1>1, <3>1, <3>2, <3>3, FloatType DEF Less, Equal, AtMost
    <2> QED
        BY <2>1, <2>2
<1> QED
    BY <1>2, <1>3

(***************************************************************************)
(* Of two members whose scores are numbers, one comes before the other.    *)
(***************************************************************************)
THEOREM LessIsTotal ==
    \A x, y \in Entry :
        Numeric(x.score) /\ Numeric(y.score) /\ x.member # y.member => Less(x, y) \/ Less(y, x)
<1> SUFFICES ASSUME NEW x \in Entry, NEW y \in Entry,
                    Numeric(x.score), Numeric(y.score), x.member # y.member
             PROVE  Less(x, y) \/ Less(y, x)
    OBVIOUS
<1>1. /\ x.score \in DOMAIN Float /\ y.score \in DOMAIN Float
      /\ x.member \in Seq(Nat) /\ y.member \in Seq(Nat)
    BY DEF Entry
<1>2. CASE Float[x.score] = Float[y.score]
    BY <1>1, <1>2, StringTotal DEF Less, Equal
<1>3. CASE Float[x.score] # Float[y.score]
    BY <1>1, <1>3, FloatType DEF Less, Equal, AtMost
<1> QED
    BY <1>2, <1>3

(***************************************************************************)
(* Whatever order sort.Slice ends with, as long as no entry is less than   *)
(* the one before it, every entry is less than all that follow it: the     *)
(* random order of the map that ZADD sorts does not show, if every score   *)
(* is a number.  With a score that is no number this fails.                *)
(***************************************************************************)
THEOREM SettledIsRanked ==
    ASSUME NEW p \in Seq(Entry), Settled(p),
           \A i \in DOMAIN p : Numeric(p[i].score),
           \A i, j \in DOMAIN p : i # j => p[i].member # p[j].member
    PROVE  Ranked(p)
<1> DEFINE Wrong == {d \in Nat : \E i \in DOMAIN p : i + d \in DOMAIN p /\ d > 0 /\ ~Less(p[i], p[i + d])}
<1>1. \A i \in DOMAIN p : p[i] \in Entry /\ i \in Nat
    OBVIOUS
<1>2. DOMAIN p = 1..Len(p) /\ Len(p) \in Nat
    OBVIOUS
<1>3. Wrong = {}
    <2> SUFFICES ASSUME Wrong # {}
                 PROVE  FALSE
        OBVIOUS
    <2>1. PICK d \in Wrong : \A e \in Wrong : d <= e
        BY LeastElement
    <2>2. PICK i \in DOMAIN p : i + d \in DOMAIN p /\ d > 0 /\ ~Less(p[i], p[i + d])
        BY <2>1
    <2>3. d \in Nat /\ i \in Nat
        BY <1>2
    <2>4. CASE d = 1
        <3>1. i \in 1..(Len(p) - 1)
            BY <1>2, <2>2, <2>3, <2>4
        <3>2. ~Less(p[i + 1], p[i])
            BY <3>1 DEF Settled
        <3>3. i # i + 1 /\ i + 1 \in DOMAIN p
            BY <2>2, <2>3, <2>4
        <3>4. Less(p[i], p[i + 1])
            BY <1>1, <3>2, <3>3, LessIsTotal
        <3> QED
            BY <2>2, <2>4, <3>4
    <2>5. CASE d > 1
        <3>1. d - 1 \in Nat /\ d - 1 \notin Wrong /\ 1 \in Nat /\ 1 \notin Wrong
            BY <2>1, <2>3, <2>5
        <3>2. i + (d - 1) \in DOMAIN p /\ i + (d - 1) + 1 = i + d
            BY <1>2, <2>2, <2>3, <2>5
        <3>3. Less(p[i], p[i + (d - 1)])
            BY <2>5, <3>1, <3>2
        <3>4. Less(p[i + (d - 1)], p[i + (d - 1) + 1])
            BY <2>2, <3>1, <3>2
        <3>5. Less(p[i], p[i + d])
            BY <1>1, <2>2, <3>2, <3>3, <3>4, LessIsStrictOrder
        <3> QED
            BY <2>2, <3>5
    <2> QED
        BY <2>2, <2>3, <2>4, <2>5
<1>4. SUFFICES ASSUME NEW i \in DOMAIN p, NEW j \in DOMAIN p, i < j
               PROVE  Less(p[i], p[j])
    BY DEF Ranked
<1>5. j - i \in Nat /\ j - i > 0 /\ i + (j - i) = j
    BY <1>2, <1>4
<1>6. j - i \notin Wrong
    BY <1>3
<1> QED
    BY <1>4, <1>5, <1>6

-----------------------------------------------------------------------------
(* The entries among the bytes of a sorted set. *)

(***************************************************************************)
(* The walk over the entries begins after the header and goes from entry   *)
(* to entry.                                                               *)
(***************************************************************************)
LEMMA EntryStartDefined ==
    ASSUME NEW d, NEW n \in Nat
    PROVE  \E o : /\ o[0] = HeaderSize /\ EntryStart(d, n) = o[n]
                  /\ \A i \in 1..n :
                        o[i] = IF HasEntry(d, o[i - 1]) THEN Beyond(d, o[i - 1] + ScoreSize)
                               ELSE Len(d) + 1
<1> DEFINE Walk(v, i) == IF HasEntry(d, v) THEN Beyond(d, v + ScoreSize) ELSE Len(d) + 1
           o == CHOOSE g : g = [i \in 0..n |-> IF i = 0 THEN HeaderSize ELSE Walk(g[i - 1], i)]
<1>1. FiniteNatInductiveDefHypothesis(o, HeaderSize, Walk, 0, n)
    BY DEF FiniteNatInductiveDefHypothesis
<1>2. FiniteNatInductiveDefConclusion(o, HeaderSize, Walk, 0, n)
    BY <1>1, FiniteNatInductiveDef
<1>3. o = [i \in 0..n |-> IF i = 0 THEN HeaderSize ELSE Walk(o[i - 1], i)]
    BY <1>2 DEF FiniteNatInductiveDefConclusion
<1>4. EntryStart(d, n) = o[n]
    BY DEF EntryStart
<1> HIDE DEF o
<1>5. o[0] = HeaderSize /\ \A i \in 1..n : o[i] = Walk(o[i - 1], i)
    BY <1>3
<1> QED
    BY <1>4, <1>5

LEMMA EntryStartStep ==
    ASSUME NEW d
    PROVE  /\ EntryStart(d, 0) = HeaderSize
           /\ \A n \in Nat :
                 EntryStart(d, n + 1) =
                     IF HasEntry(d, EntryStart(d, n)) THEN Beyond(d, EntryStart(d, n) + ScoreSize)
                     ELSE Len(d) + 1
<1>1. EntryStart(d, 0) = HeaderSize
    BY EntryStartDefined
<1>2. ASSUME NEW n \in Nat
      PROVE  EntryStart(d, n + 1) =
                 IF HasEntry(d, EntryStart(d, n)) THEN Beyond(d, EntryStart(d, n) + ScoreSize)
                 ELSE Len(d) + 1
    <2> DEFINE Walk(v) == IF HasEntry(d, v) THEN Beyond(d, v + ScoreSize) ELSE Len(d) + 1
    <2>1. PICK o : o[0] = HeaderSize /\ EntryStart(d, n) = o[n] /\ \A i \in 1..n : o[i] = Walk(o[i - 1])
        BY EntryStartDefined
    <2>2. PICK p : /\ p[0] = HeaderSize /\ EntryStart(d, n + 1) = p[n + 1]
                   /\ \A i \in 1..(n + 1) : p[i] = Walk(p[i - 1])
        <3>1. n + 1 \in Nat
            OBVIOUS
        <3> QED
            BY <3>1, EntryStartDefined
    <2> HIDE DEF Walk
    <2> DEFINE T == {i \in Nat : i <= n => o[i] = p[i]}
    <2>3. 0 \in T
        BY <2>1, <2>2
    <2>4. ASSUME NEW i \in Nat, i \in T
          PROVE  i + 1 \in T
        <3> SUFFICES ASSUME i + 1 <= n
                     PROVE  o[i + 1] = p[i + 1]
            OBVIOUS
        <3>1. o[i + 1] = Walk(o[i]) /\ p[i + 1] = Walk(p[i])
            BY <2>1, <2>2
        <3> QED
            BY <2>4, <3>1
    <2>5. \A i \in Nat : i \in T
        <3> HIDE DEF T
        <3> QED
            BY <2>3, <2>4, InductiveSet
    <2>6. o[n] = p[n] /\ p[n + 1] = Walk(p[n])
        BY <2>2, <2>5
    <2> QED
        BY <2>1, <2>2, <2>6 DEF Walk
<1> QED
    BY <1>1, <1>2

LEMMA EntryStartType ==
    ASSUME NEW d \in Seq(Byte)
    PROVE  \A n \in Nat : EntryStart(d, n) \in Nat /\ (HasHeader(d) => EntryStart(d, n) >= HeaderSize)
<1> DEFINE T == {n \in Nat : EntryStart(d, n) \in Nat /\ (HasHeader(d) => EntryStart(d, n) >= HeaderSize)}
<1>1. 0 \in T
    BY EntryStartStep, SizeAssumption
<1>2. ASSUME NEW n \in Nat, n \in T
      PROVE  n + 1 \in T
    <2> DEFINE o == EntryStart(d, n)
    <2>3. o \in Nat /\ (HasHeader(d) => o >= HeaderSize)
        BY <1>2
    <2>4. EntryStart(d, n + 1) = IF HasEntry(d, o) THEN Beyond(d, o + ScoreSize) ELSE Len(d) + 1
        BY EntryStartStep
    <2>5. Len(d) \in Nat /\ (HasHeader(d) => Len(d) >= HeaderSize)
        BY DEF HasHeader
    <2> HIDE DEF o
    <2>1. CASE HasEntry(d, o)
        <3>1. o + ScoreSize \in Nat /\ HasLength(d, o + ScoreSize)
            BY <2>1, <2>3, ScoreAssumption DEF HasEntry, Fits
        <3>2. Beyond(d, o + ScoreSize) \in Nat /\ Beyond(d, o + ScoreSize) >= o + ScoreSize + LengthSize
            BY <3>1, BeyondType
        <3>3. Beyond(d, o + ScoreSize) >= o
            BY <2>3, <3>2, SizeAssumption, ScoreAssumption
        <3> QED
            BY <2>1, <2>3, <2>4, <3>2, <3>3, SizeAssumption
    <2>2. CASE ~HasEntry(d, o)
        BY <2>2, <2>4, <2>5, SizeAssumption
    <2> QED
        BY <2>1, <2>2
<1>3. \A n \in Nat : n \in T
    <2> HIDE DEF T
    <2> QED
        BY <1>1, <1>2, InductiveSet
<1> QED
    BY <1>3

\* An entry that is there comes after entries that are.
LEMMA EntryBefore ==
    ASSUME NEW d \in Seq(Byte), NEW n \in Nat, HasEntry(d, EntryStart(d, n + 1))
    PROVE  HasEntry(d, EntryStart(d, n))
<1>1. EntryStart(d, n + 1) + ScoreSize <= Len(d) /\ EntryStart(d, n + 1) \in Nat
    <2>1. n + 1 \in Nat
        OBVIOUS
    <2> QED
        BY <2>1, EntryStartType DEF HasEntry
<1> QED
    BY <1>1, EntryStartStep, ScoreAssumption

\* What ZADD reads of an entry, whatever the bytes are.
Found == [score : Nat, member : Seq(Byte)]

LEMMA EntryAtType ==
    ASSUME NEW d \in Seq(Byte), NEW o \in Nat, HasEntry(d, o)
    PROVE  EntryAt(d, o) \in Found
<1>1. /\ o + ScoreSize \in Nat /\ o + ScoreSize <= Len(d) /\ Fits(d, o + ScoreSize)
    BY ScoreAssumption DEF HasEntry
<1>2. Slice(d, o, o + ScoreSize) \in Seq(Byte)
    BY <1>1, SliceType
<1>3. Number(Slice(d, o, o + ScoreSize)) \in Nat
    BY <1>2, NumberType
<1>4. ItemAt(d, o + ScoreSize) \in Seq(Byte)
    BY <1>1, ItemAtType
<1> QED
    BY <1>3, <1>4 DEF EntryAt, Found

LEMMA ReadEntriesType ==
    ASSUME NEW d \in Bytes
    PROVE  ReadEntries(d) \in Seq(Found)
<1>1. CASE ~HasHeader(d)
    BY <1>1 DEF ReadEntries
<1>2. CASE HasHeader(d)
    <2> DEFINE n == Count(d)
               whole == {i \in 0..(n - 1) : HasEntry(d, EntryStart(d, i))}
    <2>1. d \in Seq(Byte) /\ n \in Int
        BY <1>2, CountType
    <2>2. whole \in SUBSET Nat /\ \A i \in whole : i < n
        BY <2>1
    <2>3. \A i \in Nat : i + 1 \in whole => i \in whole
        BY <2>1, EntryBefore
    <2>4. \E m \in Nat : \A i \in whole : i < m
        <3> DEFINE m == IF n >= 0 THEN n ELSE 0
        <3>1. m \in Nat
            BY <2>1
        <3>2. \A i \in whole : i < m
            <4> HIDE DEF n
            <4> QED
                BY <2>1, <2>2
        <3> HIDE DEF m, whole
        <3> QED
            BY <3>1, <3>2
    <2> DEFINE c == Cardinality(whole)
    <2>5. c \in Nat /\ whole = 0..(c - 1)
        <3> HIDE DEF whole
        <3> QED
            BY <2>2, <2>3, <2>4, NoGaps
    <2>6. ReadEntries(d) = [i \in 1..c |-> EntryAt(d, EntryStart(d, i - 1))]
        BY <1>2 DEF ReadEntries
    <2>7. ASSUME NEW i \in 1..c
          PROVE  EntryAt(d, EntryStart(d, i - 1)) \in Found
        <3>1. i - 1 \in 0..(c - 1) /\ i - 1 \in Nat
            BY <2>5
        <3>2. HasEntry(d, EntryStart(d, i - 1))
            <4> HIDE DEF c
            <4> QED
                BY <2>5, <3>1
        <3> QED
            BY <2>1, <3>1, <3>2, EntryStartType, EntryAtType
    <2> HIDE DEF c
    <2> QED
        BY <2>5, <2>6, <2>7
<1> QED
    BY <1>1, <1>2

\* Entries that can be written so that they are read again.
Scorable == [score : DOMAIN Float, member : Storable]

LEMMA ScorableFound == \A e \in Scorable : e \in Found /\ e.score \in 0..(Power[ScoreSize] - 1)
BY ScoreAssumption DEF Scorable, Found, Storable

LEMMA ScorableSeq == \A p \in Seq(Scorable) : p \in Seq(Found)
<1>1. Scorable \subseteq Found
    BY ScorableFound
<1> QED
    BY <1>1, SeqMonotonic

LEMMA EncodedEntryType ==
    ASSUME NEW e \in Found
    PROVE  EncodedEntry(e) \in Seq(Byte) /\ Len(EncodedEntry(e)) \in Nat
<1>1. Put(e.score, ScoreSize) \in Seq(Byte)
    BY PutType, ScoreAssumption DEF Found
<1>2. EncodedItem(e.member) \in Seq(Byte)
    BY EncodedItemType DEF Found
<1>3. EncodedEntry(e) \in Seq(Byte)
    BY <1>1, <1>2, ConcatProperties DEF EncodedEntry
<1> QED
    BY <1>3

LEMMA EntryThere ==
    ASSUME NEW a \in Seq(Byte), NEW e \in Scorable, NEW b \in Seq(Byte)
    PROVE  LET d == a \o (EncodedEntry(e) \o b)
           IN  /\ Beyond(d, Len(a) + ScoreSize) = Len(a) + Len(EncodedEntry(e))
               /\ HasEntry(d, Len(a))
               /\ EntryAt(d, Len(a)) = e
<1> DEFINE n == Put(e.score, ScoreSize)
           x == EncodedItem(e.member)
           d == a \o (EncodedEntry(e) \o b)
           h == a \o n
<1>1. /\ e.score \in 0..(Power[ScoreSize] - 1) /\ e.score \in Int /\ e.member \in Storable
      /\ e.member \in Seq(Byte) /\ ScoreSize \in Nat
    BY ScorableFound, ScoreAssumption DEF Scorable, Found
<1>2. n \in Seq(Byte) /\ Len(n) = ScoreSize /\ Number(n) = e.score
    BY <1>1, PutType, NumberOfPut
<1>3. x \in Seq(Byte) /\ Len(x) \in Nat
    <2>1. x \in Seq(Byte)
        BY <1>1, EncodedItemType, Zenon
    <2> HIDE DEF x
    <2> QED
        BY ONLY <2>1
<1>4. EncodedEntry(e) = n \o x
    BY DEF EncodedEntry
<1> HIDE DEF n, x
<1>5. /\ x \o b \in Seq(Byte) /\ h \in Seq(Byte) /\ Len(h) = Len(a) + ScoreSize
      /\ n \o x \in Seq(Byte) /\ Len(n \o x) = ScoreSize + Len(x) /\ Len(a) \in Nat
      /\ Len(x \o b) = Len(x) + Len(b) /\ Len(b) \in Nat
    <2>1. x \o b \in Seq(Byte) /\ Len(x \o b) = Len(x) + Len(b)
        BY <1>3, ConcatProperties
    <2>2. h \in Seq(Byte) /\ Len(h) = Len(a) + Len(n)
        BY <1>2, ConcatProperties
    <2>3. n \o x \in Seq(Byte) /\ Len(n \o x) = Len(n) + Len(x)
        BY <1>2, <1>3, ConcatProperties
    <2>4. Len(a) \in Nat /\ Len(b) \in Nat
        OBVIOUS
    <2> QED
        BY <1>2, <2>1, <2>2, <2>3, <2>4
<1>6. d = a \o (n \o (x \o b)) /\ d = h \o (x \o b)
    <2>1. (n \o x) \o b = n \o (x \o b)
        BY <1>2, <1>3, Regroup
    <2>2. h \o (x \o b) = a \o (n \o (x \o b))
        BY <1>2, <1>5, Regroup
    <2> QED
        BY <1>4, <2>1, <2>2
<1> HIDE DEF d, h
<1>7. Slice(d, Len(a), Len(a) + ScoreSize) = n
    <2>1. Slice(a \o (n \o (x \o b)), Len(a), Len(a) + Len(n)) = n
        BY <1>2, <1>5, SliceOfConcat
    <2> QED
        BY <1>2, <1>6, <2>1
<1>8. /\ Beyond(d, Len(h)) = Len(h) + Len(x) /\ Fits(d, Len(h)) /\ ItemAt(d, Len(h)) = e.member
    <2>1. /\ Beyond(h \o (x \o b), Len(h)) = Len(h) + Len(x)
          /\ Fits(h \o (x \o b), Len(h)) /\ ItemAt(h \o (x \o b), Len(h)) = e.member
        BY <1>1, <1>5, ItemThere DEF x
    <2> QED
        BY <1>6, <2>1
<1>9. Beyond(d, Len(a) + ScoreSize) = Len(a) + Len(EncodedEntry(e))
    BY <1>1, <1>3, <1>4, <1>5, <1>8
<1>10. HasEntry(d, Len(a))
    <2>1. Len(d) = Len(h) + (Len(x) + Len(b)) /\ Len(b) \in Nat
        <3>1. Len(h \o (x \o b)) = Len(h) + Len(x \o b)
            BY <1>5, ConcatProperties
        <3> QED
            BY <1>5, <1>6, <3>1
    <2> QED
        BY <1>1, <1>3, <1>5, <1>8, <2>1 DEF HasEntry
<1>11. EntryAt(d, Len(a)) = e
    <2>1. EntryAt(d, Len(a)) = [score |-> e.score, member |-> e.member]
        BY <1>2, <1>5, <1>7, <1>8 DEF EntryAt
    <2>2. e = [score |-> e.score, member |-> e.member]
        BY DEF Scorable
    <2> QED
        BY <2>1, <2>2
<1> QED
    BY <1>9, <1>10, <1>11 DEF d

LEMMA EncodedEntriesEmpty == EncodedEntries(<<>>) = <<>>
<1>1. [i \in DOMAIN <<>> |-> EncodedEntry(<<>>[i])] = <<>>
    OBVIOUS
<1> QED
    BY <1>1, FlattenEmpty DEF EncodedEntries

LEMMA EncodedEntriesType ==
    ASSUME NEW xs \in Seq(Found)
    PROVE  EncodedEntries(xs) \in Seq(Byte)
<1> DEFINE es == [i \in DOMAIN xs |-> EncodedEntry(xs[i])]
<1>1. \A i \in 1..Len(xs) : xs[i] \in Found
    OBVIOUS
<1>2. es \in Seq(Seq(Byte))
    <2>1. \A i \in 1..Len(xs) : EncodedEntry(xs[i]) \in Seq(Byte)
        BY <1>1, EncodedEntryType
    <2>2. DOMAIN xs = 1..Len(xs) /\ Len(xs) \in Nat
        OBVIOUS
    <2> QED
        BY <2>1, <2>2
<1> HIDE DEF es
<1>3. FlattenSeq(es) \in Seq(Byte)
    BY <1>2, FlattenType
<1> QED
    BY <1>3 DEF EncodedEntries, es

LEMMA EncodedEntriesOne ==
    ASSUME NEW x \in Found
    PROVE  EncodedEntries(<<x>>) = EncodedEntry(x)
<1> DEFINE e == EncodedEntry(x)
<1>1. e \in Seq(Byte)
    BY EncodedEntryType
<1>2. [i \in DOMAIN <<x>> |-> EncodedEntry(<<x>>[i])] = <<e>>
    OBVIOUS
<1> HIDE DEF e
<1>3. <<e>> = Append(<<>>, e) /\ <<>> \in Seq(Seq(Byte))
    OBVIOUS
<1>4. FlattenSeq(<<e>>) = <<>> \o e
    BY <1>1, <1>3, FlattenAppend, FlattenEmpty
<1>5. <<>> \o e = e
    BY <1>1, ConcatEmptySeq
<1> QED
    BY <1>2, <1>4, <1>5 DEF EncodedEntries, e

LEMMA EncodedEntriesConcat ==
    ASSUME NEW xs \in Seq(Found), NEW ys \in Seq(Found)
    PROVE  EncodedEntries(xs \o ys) = EncodedEntries(xs) \o EncodedEntries(ys)
<1> DEFINE zs == xs \o ys
           es(s) == [i \in DOMAIN s |-> EncodedEntry(s[i])]
<1>1. /\ zs \in Seq(Found) /\ Len(zs) = Len(xs) + Len(ys)
      /\ \A i \in 1..(Len(xs) + Len(ys)) :
            zs[i] = IF i <= Len(xs) THEN xs[i] ELSE ys[i - Len(xs)]
    BY ConcatProperties
<1>2. ASSUME NEW s \in Seq(Found)
      PROVE  /\ es(s) \in Seq(Seq(Byte)) /\ Len(es(s)) = Len(s)
             /\ \A i \in 1..Len(s) : es(s)[i] = EncodedEntry(s[i])
             /\ EncodedEntries(s) = FlattenSeq(es(s))
    <2>1. \A i \in 1..Len(s) : s[i] \in Found
        OBVIOUS
    <2>2. DOMAIN s = 1..Len(s) /\ Len(s) \in Nat
        OBVIOUS
    <2>3. \A i \in 1..Len(s) : EncodedEntry(s[i]) \in Seq(Byte)
        BY <2>1, EncodedEntryType
    <2> QED
        BY <2>2, <2>3 DEF EncodedEntries
<1> HIDE DEF zs, es
<1>3. /\ es(xs) \o es(ys) \in Seq(Seq(Byte)) /\ Len(es(xs) \o es(ys)) = Len(es(xs)) + Len(es(ys))
      /\ \A i \in 1..(Len(es(xs)) + Len(es(ys))) :
            (es(xs) \o es(ys))[i] =
                IF i <= Len(es(xs)) THEN es(xs)[i] ELSE es(ys)[i - Len(es(xs))]
    BY <1>2, ConcatProperties
<1>4. /\ es(zs) \in Seq(Seq(Byte)) /\ Len(es(zs)) = Len(xs) + Len(ys)
      /\ Len(es(xs)) = Len(xs) /\ Len(es(ys)) = Len(ys)
      /\ Len(xs) \in Nat /\ Len(ys) \in Nat
    BY <1>1, <1>2
<1>5. ASSUME NEW i \in 1..Len(es(zs))
      PROVE  es(zs)[i] = (es(xs) \o es(ys))[i]
    <2>1. es(zs)[i] = EncodedEntry(zs[i]) /\ i \in 1..(Len(xs) + Len(ys))
        BY <1>1, <1>2, <1>4
    <2>2. CASE i <= Len(xs)
        <3>1. i \in 1..Len(xs)
            BY <1>4, <2>2
        <3>2. zs[i] = xs[i] /\ es(xs)[i] = EncodedEntry(xs[i])
            BY <1>1, <1>2, <2>1, <2>2, <3>1
        <3>3. (es(xs) \o es(ys))[i] = es(xs)[i]
            BY <1>3, <1>4, <2>1, <2>2
        <3> QED
            BY <2>1, <3>2, <3>3
    <2>3. CASE ~(i <= Len(xs))
        <3>1. i - Len(xs) \in 1..Len(ys)
            BY <1>4, <2>3
        <3>2. zs[i] = ys[i - Len(xs)] /\ es(ys)[i - Len(xs)] = EncodedEntry(ys[i - Len(xs)])
            BY <1>1, <1>2, <2>1, <2>3, <3>1
        <3>3. (es(xs) \o es(ys))[i] = es(ys)[i - Len(xs)]
            BY <1>3, <1>4, <2>1, <2>3
        <3> QED
            BY <2>1, <3>2, <3>3
    <2> QED
        BY <2>2, <2>3
<1>6. es(zs) = es(xs) \o es(ys)
    <2>1. Len(es(zs)) = Len(es(xs) \o es(ys))
        BY <1>3, <1>4
    <2> QED
        BY <1>3, <1>4, <1>5, <2>1, SeqEqual
<1>7. FlattenSeq(es(xs) \o es(ys)) = FlattenSeq(es(xs)) \o FlattenSeq(es(ys))
    BY <1>2, FlattenConcat
<1> QED
    BY <1>1, <1>2, <1>6, <1>7 DEF zs

LEMMA EntriesSplit ==
    ASSUME NEW xs \in Seq(Found), NEW k \in 0..Len(xs)
    PROVE  /\ EncodedEntries(SubSeq(xs, 1, k)) \in Seq(Byte)
           /\ EncodedEntries(SubSeq(xs, k + 1, Len(xs))) \in Seq(Byte)
           /\ EncodedEntries(xs) =
                 EncodedEntries(SubSeq(xs, 1, k)) \o EncodedEntries(SubSeq(xs, k + 1, Len(xs)))
<1> DEFINE p == SubSeq(xs, 1, k)
           q == SubSeq(xs, k + 1, Len(xs))
<1>1. p \in Seq(Found) /\ q \in Seq(Found) /\ xs = p \o q
    BY SplitAt
<1> HIDE DEF p, q
<1> QED
    BY <1>1, EncodedEntriesConcat, EncodedEntriesType DEF p, q

LEMMA EntriesRest ==
    ASSUME NEW xs \in Seq(Found), NEW k \in 0..(Len(xs) - 1)
    PROVE  /\ EncodedEntries(SubSeq(xs, k + 2, Len(xs))) \in Seq(Byte)
           /\ EncodedEntries(SubSeq(xs, k + 1, Len(xs))) =
                 EncodedEntry(xs[k + 1]) \o EncodedEntries(SubSeq(xs, k + 2, Len(xs)))
<1> DEFINE q == SubSeq(xs, k + 2, Len(xs))
           x == xs[k + 1]
<1>1. /\ x \in Found /\ <<x>> \in Seq(Found) /\ q \in Seq(Found)
      /\ SubSeq(xs, k + 1, Len(xs)) = <<x>> \o q
    BY RestStep
<1> HIDE DEF q, x
<1>2. EncodedEntries(<<x>> \o q) = EncodedEntries(<<x>>) \o EncodedEntries(q)
    BY <1>1, EncodedEntriesConcat
<1>3. EncodedEntries(<<x>>) = EncodedEntry(x) /\ EncodedEntries(q) \in Seq(Byte)
    BY <1>1, EncodedEntriesOne, EncodedEntriesType
<1> QED
    BY <1>1, <1>2, <1>3 DEF q, x

(***************************************************************************)
(* In the bytes that were written for a sorted set, the walk finds each    *)
(* entry in its place.                                                     *)
(***************************************************************************)
LEMMA WalkOfEntries ==
    ASSUME NEW h \in Seq(Byte), Len(h) = HeaderSize, NEW xs \in Seq(Scorable)
    PROVE  LET d == h \o EncodedEntries(xs)
           IN  \A k \in 0..Len(xs) :
                   /\ EntryStart(d, k) = HeaderSize + Len(EncodedEntries(SubSeq(xs, 1, k)))
                   /\ k < Len(xs) => /\ HasEntry(d, EntryStart(d, k))
                                     /\ EntryAt(d, EntryStart(d, k)) = xs[k + 1]
<1> DEFINE d == h \o EncodedEntries(xs)
           before(k) == EncodedEntries(SubSeq(xs, 1, k))
           Here(k) == EntryStart(d, k) = HeaderSize + Len(before(k))
           There(k) == /\ HasEntry(d, EntryStart(d, k))
                       /\ EntryAt(d, EntryStart(d, k)) = xs[k + 1]
           T == {k \in Nat : k <= Len(xs) => Here(k)}
<1>1. xs \in Seq(Found) /\ Len(xs) \in Nat
    BY ScorableSeq
<1>2. Here(0)
    <2>1. SubSeq(xs, 1, 0) = <<>> /\ Len(<<>>) = 0
        BY SubSeqEmpty
    <2>2. Len(before(0)) = 0
        BY <2>1, EncodedEntriesEmpty
    <2>3. EntryStart(d, 0) = HeaderSize /\ HeaderSize \in Nat
        BY EntryStartStep, SizeAssumption
    <2> HIDE DEF before, d
    <2> QED
        BY <2>2, <2>3
<1>3. ASSUME NEW k \in Nat, k < Len(xs), Here(k)
      PROVE  There(k) /\ Here(k + 1)
    <2> DEFINE a == h \o before(k)
               b == EncodedEntries(SubSeq(xs, k + 2, Len(xs)))
               x == xs[k + 1]
    <2>1. k \in 0..Len(xs) /\ k \in 0..(Len(xs) - 1) /\ k + 1 \in 1..Len(xs) /\ k + 1 \in Nat
        BY <1>1, <1>3
    <2>2. x \in Scorable /\ x \in Found
        <3>1. x \in Scorable
            BY <2>1
        <3> QED
            BY <3>1, ScorableFound
    <2>3. /\ before(k) \in Seq(Byte) /\ b \in Seq(Byte)
          /\ EncodedEntries(xs) = before(k) \o (EncodedEntry(x) \o b)
        BY <1>1, <2>1, EntriesSplit, EntriesRest
    <2>4. EncodedEntry(x) \in Seq(Byte) /\ Len(EncodedEntry(x)) \in Nat
        BY <2>2, EncodedEntryType
    <2>5. a \in Seq(Byte) /\ Len(a) = HeaderSize + Len(before(k))
        BY <2>3, ConcatProperties
    <2>6. d = a \o (EncodedEntry(x) \o b)
        <3>1. EncodedEntry(x) \o b \in Seq(Byte)
            BY <2>3, <2>4, ConcatProperties
        <3>2. /\ h \in Seq(Byte) /\ before(k) \in Seq(Byte)
              /\ EncodedEntry(x) \o b \in Seq(Byte)
            BY <2>3, <3>1
        <3> HIDE DEF x, b, before
        <3>3. (h \o before(k)) \o (EncodedEntry(x) \o b) = h \o (before(k) \o (EncodedEntry(x) \o b))
            BY <3>2, Regroup
        <3> QED
            BY <2>3, <3>3
    <2>7. before(k + 1) = before(k) \o EncodedEntry(x)
        <3> DEFINE p == SubSeq(xs, 1, k)
        <3>1. p \in Seq(Found) /\ SubSeq(xs, 1, k + 1) = Append(p, x)
            BY <1>1, <2>1, PrefixStep
        <3> HIDE DEF p, x
        <3>2. Append(p, x) = p \o <<x>>
            BY <2>2, <3>1, AppendIsConcat
        <3>3. <<x>> \in Seq(Found)
            BY <2>2
        <3>4. EncodedEntries(p \o <<x>>) = EncodedEntries(p) \o EncodedEntries(<<x>>)
            BY <3>1, <3>3, EncodedEntriesConcat
        <3>5. EncodedEntries(<<x>>) = EncodedEntry(x)
            BY <2>2, EncodedEntriesOne
        <3> QED
            BY <3>1, <3>2, <3>4, <3>5 DEF p
    <2>8. Len(before(k + 1)) = Len(before(k)) + Len(EncodedEntry(x))
        BY <2>3, <2>4, <2>7, ConcatProperties
    <2> HIDE DEF a, b, x, d, before
    <2>9. /\ Beyond(d, Len(a) + ScoreSize) = Len(a) + Len(EncodedEntry(x))
          /\ HasEntry(d, Len(a))
          /\ EntryAt(d, Len(a)) = x
        BY <2>2, <2>3, <2>5, <2>6, EntryThere
    <2>10. EntryStart(d, k) = Len(a)
        BY <1>3, <2>5
    <2>11. EntryStart(d, k + 1) = Len(a) + Len(EncodedEntry(x))
        BY <2>9, <2>10, EntryStartStep
    <2>12. Here(k + 1)
        <3>1. Len(before(k)) \in Nat /\ HeaderSize \in Nat
            BY <2>3, SizeAssumption
        <3>2. Len(a) \in Nat /\ Len(EncodedEntry(x)) \in Nat
            BY <2>4, <2>5, <3>1
        <3>3. Len(a) + Len(EncodedEntry(x)) = HeaderSize + (Len(before(k)) + Len(EncodedEntry(x)))
            BY <2>5, <3>1, <3>2
        <3>4. EntryStart(d, k + 1) = HeaderSize + Len(before(k + 1))
            BY <2>8, <2>11, <3>3
        <3> QED
            BY <3>4 DEF d, before
    <2> QED
        BY <2>9, <2>10, <2>12 DEF x
<1> HIDE DEF Here, There
<1>4. \A k \in Nat : k \in T
    <2>1. 0 \in T
        BY <1>2
    <2>2. ASSUME NEW k \in Nat, k \in T
          PROVE  k + 1 \in T
        BY <1>1, <1>3, <2>2
    <2> HIDE DEF T
    <2> QED
        BY <2>1, <2>2, InductiveSet
<1>5. ASSUME NEW k \in 0..Len(xs)
      PROVE  Here(k) /\ (k < Len(xs) => There(k))
    BY <1>3, <1>4
<1> QED
    BY <1>5 DEF Here, There

-----------------------------------------------------------------------------
(* The bytes of a sorted set. *)

LEMMA EntriesRead ==
    ASSUME NEW p \in Seq(Scorable), 2 * Len(p) < Power[HeaderSize]
    PROVE  LET d == Header(Len(p)) \o EncodedEntries(p)
           IN  d \in Seq(Byte) /\ HasHeader(d) /\ Count(d) = Len(p) /\ ReadEntries(d) = p
<1> DEFINE n == Len(p)
           h == Header(n)
           d == h \o EncodedEntries(p)
           whole == {i \in 0..(n - 1) : HasEntry(d, EntryStart(d, i))}
<1>1. n \in Nat /\ n \in Int /\ p \in Seq(Found)
    BY ScorableSeq
<1>2. h \in Seq(Byte) /\ Len(h) = HeaderSize /\ EncodedEntries(p) \in Seq(Byte)
    BY <1>1, HeaderType, EncodedEntriesType
<1>3. d \in Seq(Byte) /\ HasHeader(d) /\ Count(d) = n
    BY <1>1, <1>2, HeaderOf, CountOf
<1>4. \A k \in 0..n : k < n => HasEntry(d, EntryStart(d, k)) /\ EntryAt(d, EntryStart(d, k)) = p[k + 1]
    BY <1>2, WalkOfEntries
<1> HIDE DEF d
<1>5. whole = 0..(n - 1)
    BY <1>1, <1>4
<1>6. Cardinality(whole) = n
    <2>1. 0 \in Int /\ n - 1 \in Int
        BY <1>1
    <2>2. Cardinality(0..(n - 1)) = IF 0 > n - 1 THEN 0 ELSE (n - 1) - 0 + 1
        BY <2>1, FS_Interval
    <2> HIDE DEF whole, n
    <2> QED
        BY <1>1, <1>5, <2>2
<1>7. ReadEntries(d) = [i \in 1..n |-> EntryAt(d, EntryStart(d, i - 1))]
    <2> HIDE DEF n
    <2>1. ReadEntries(d) = [i \in 1..Cardinality(whole) |-> EntryAt(d, EntryStart(d, i - 1))]
        BY <1>3 DEF ReadEntries
    <2> QED
        BY <1>6, <2>1
<1>8. \A i \in 1..n : EntryAt(d, EntryStart(d, i - 1)) = p[i]
    <2>1. \A i \in 1..n : i - 1 \in 0..n /\ i - 1 < n /\ (i - 1) + 1 = i
        BY <1>1
    <2> QED
        BY <1>4, <2>1
<1>9. p = [i \in 1..n |-> p[i]]
    BY <1>1
<1>10. ReadEntries(d) = p
    BY <1>7, <1>8, <1>9
<1> QED
    BY <1>3, <1>10 DEF d

\* The ends of a set of positions.
LEMMA MaxOf ==
    ASSUME NEW n \in Nat, NEW T, T \subseteq 1..n, T # {}
    PROVE  Max(T) \in T /\ \A i \in T : i <= Max(T)
<1> DEFINE U == {k \in Nat : n - k \in T}
<1>1. U \subseteq Nat /\ U # {}
    <2>1. PICK i \in T : TRUE
        OBVIOUS
    <2>2. n - i \in Nat /\ n - (n - i) = i
        BY <2>1
    <2> QED
        BY <2>1, <2>2
<1>2. PICK k \in U : \A j \in U : k <= j
    <2> HIDE DEF U
    <2> QED
        BY <1>1, LeastElement
<1>3. ASSUME NEW i \in T
      PROVE  n - k >= i
    <2>1. n - i \in Nat /\ n - (n - i) = i /\ i \in Nat /\ k \in Nat
        BY <1>2
    <2>2. k <= n - i
        BY <1>2, <2>1
    <2> QED
        BY <2>1, <2>2
<1>4. n - k \in T
    BY <1>2
<1>5. Max(T) \in T /\ \A i \in T : Max(T) >= i
    BY <1>3, <1>4 DEF Max
<1>6. \A i \in T : i \in Nat
    OBVIOUS
<1> QED
    BY <1>5, <1>6

LEMMA MinOf ==
    ASSUME NEW T, T \subseteq Nat, T # {}
    PROVE  Min(T) \in T /\ \A i \in T : Min(T) <= i
<1>1. PICK x \in T : \A y \in T : x <= y
    BY LeastElement
<1> QED
    BY <1>1 DEF Min

\* The map that ZADD reads: a score for each member that there is.
LEMMA ScoresOfType ==
    ASSUME NEW p \in Seq(Found)
    PROVE  /\ DOMAIN ScoresOf(p) = {p[i].member : i \in DOMAIN p}
           /\ IsFiniteSet(DOMAIN ScoresOf(p)) /\ DOMAIN ScoresOf(p) \subseteq Seq(Byte)
           /\ \A m \in DOMAIN ScoresOf(p) : ScoresOf(p)[m] \in Nat
           /\ \A m \in DOMAIN ScoresOf(p) :
                 \E i \in DOMAIN p : p[i].member = m /\ ScoresOf(p)[m] = p[i].score
<1> DEFINE D == {p[i].member : i \in DOMAIN p}
<1>1. DOMAIN p = 1..Len(p) /\ Len(p) \in Nat /\ \A i \in DOMAIN p : p[i] \in Found
    OBVIOUS
<1>2. DOMAIN ScoresOf(p) = D
    BY DEF ScoresOf
<1>3. IsFiniteSet(D)
    <2> DEFINE f == [i \in DOMAIN p |-> p[i].member]
    <2>1. IsFiniteSet(DOMAIN p)
        BY <1>1, FS_Interval
    <2>2. f \in Surjection(DOMAIN p, D)
        BY DEF Surjection
    <2> QED
        BY <2>1, <2>2, FS_Surjection
<1>4. D \subseteq Seq(Byte)
    BY <1>1 DEF Found
<1>5. ASSUME NEW m \in D
      PROVE  \E i \in DOMAIN p : p[i].member = m /\ ScoresOf(p)[m] = p[i].score
    <2> DEFINE T == {i \in DOMAIN p : p[i].member = m}
    <2>1. T \subseteq 1..Len(p) /\ T # {}
        BY <1>1, <1>5
    <2>2. Max(T) \in T
        <3> HIDE DEF T
        <3> QED
            BY <1>1, <2>1, MaxOf
    <2>3. ScoresOf(p)[m] = p[Max(T)].score
        BY DEF ScoresOf
    <2> HIDE DEF T
    <2>4. Max(T) \in DOMAIN p /\ p[Max(T)].member = m
        BY <2>2 DEF T
    <2> QED
        BY <2>3, <2>4
<1>6. \A i \in DOMAIN p : p[i].score \in Nat
    BY <1>1 DEF Found
<1> HIDE DEF D
<1> QED
    BY <1>2, <1>3, <1>4, <1>5, <1>6 DEF D

LEMMA EntriesFinite ==
    ASSUME NEW scores, IsFiniteSet(DOMAIN scores)
    PROVE  /\ IsFiniteSet(EntriesOf(scores)) /\ Cardinality(EntriesOf(scores)) \in Nat
           /\ Cardinality(EntriesOf(scores)) = Cardinality(DOMAIN scores)
<1> DEFINE f == [m \in DOMAIN scores |-> [score |-> scores[m], member |-> m]]
<1>1. f \in Surjection(DOMAIN scores, EntriesOf(scores))
    BY DEF Surjection, EntriesOf
<1>2. f \in Injection(DOMAIN scores, EntriesOf(scores))
    <2>1. f \in [DOMAIN scores -> EntriesOf(scores)]
        BY DEF EntriesOf
    <2>2. ASSUME NEW m \in DOMAIN scores, NEW k \in DOMAIN scores, f[m] = f[k]
          PROVE  m = k
        <3>1. f[m].member = m /\ f[k].member = k
            OBVIOUS
        <3> QED
            BY <2>2, <3>1
    <2> HIDE DEF f
    <2> QED
        BY <2>1, <2>2 DEF Injection, IsInjective
<1> HIDE DEF f
<1> QED
    BY <1>1, <1>2, FS_Surjection, FS_CardinalityType

\* Whatever order sort.Slice ends with, it has each entry once and no other.
LEMMA SortingFacts ==
    ASSUME NEW E, IsFiniteSet(E), NEW p \in Sortings(E)
    PROVE  /\ p \in Seq(E) /\ Len(p) = Cardinality(E) /\ DOMAIN p = 1..Len(p)
           /\ {p[i] : i \in DOMAIN p} = E /\ Settled(p)
           /\ \A i, j \in DOMAIN p : p[i] = p[j] => i = j
<1> DEFINE n == Cardinality(E)
<1>1. n \in Nat
    BY FS_CardinalityType
<1>2. p \in [1..n -> E] /\ Settled(p) /\ \A i, j \in DOMAIN p : p[i] = p[j] => i = j
    BY DEF Sortings
<1> HIDE DEF n
<1>3. p \in Seq(E) /\ Len(p) = n /\ DOMAIN p = 1..n
    BY <1>1, <1>2
<1>4. p \in Injection(1..n, E)
    BY <1>2, <1>3 DEF Injection, IsInjective
<1>5. IsFiniteSet(1..n) /\ Cardinality(1..n) = n
    <2>1. 1 \in Int /\ n \in Int
        BY <1>1
    <2>2. IsFiniteSet(1..n) /\ Cardinality(1..n) = IF 1 > n THEN 0 ELSE n - 1 + 1
        BY <2>1, FS_Interval
    <2> QED
        BY <1>1, <2>2
<1>6. p \in Surjection(1..n, E)
    BY <1>4, <1>5, FS_Injection DEF n
<1>7. {p[i] : i \in DOMAIN p} = E
    BY <1>2, <1>3, <1>6 DEF Surjection
<1> QED
    BY <1>2, <1>3, <1>7 DEF n

\* Scores that can be written so that they are read again.
Rankable(scores) ==
    /\ IsFiniteSet(DOMAIN scores) /\ 2 * Cardinality(DOMAIN scores) < Power[HeaderSize]
    /\ DOMAIN scores \subseteq Storable
    /\ scores \in [DOMAIN scores -> DOMAIN Float]

\* The bytes that stand for these scores, in one of the orders of sort.Slice.
StandsFor(d, scores) ==
    IF DOMAIN scores = {} THEN d = Absent
    ELSE \E p \in Sortings(EntriesOf(scores)) : d = Header(Cardinality(EntriesOf(scores))) \o EncodedEntries(p)

LEMMA SortingScorable ==
    ASSUME NEW scores, Rankable(scores), NEW p \in Sortings(EntriesOf(scores))
    PROVE  /\ p \in Seq(Scorable) /\ p \in Seq(Found)
           /\ Len(p) = Cardinality(DOMAIN scores) /\ 2 * Len(p) < Power[HeaderSize]
           /\ Len(p) = Cardinality(EntriesOf(scores))
           /\ DOMAIN p = 1..Len(p)
           /\ {p[i] : i \in DOMAIN p} = EntriesOf(scores) /\ Settled(p)
           /\ \A i \in DOMAIN p : p[i].member \in DOMAIN scores /\ p[i].score = scores[p[i].member]
           /\ \A m \in DOMAIN scores : \E i \in DOMAIN p : p[i].member = m
           /\ \A i, j \in DOMAIN p : p[i].member = p[j].member => i = j
<1> DEFINE E == EntriesOf(scores)
<1>1. IsFiniteSet(E) /\ Cardinality(E) = Cardinality(DOMAIN scores)
    BY EntriesFinite DEF Rankable
<1>2. E \subseteq Scorable
    BY DEF Rankable, EntriesOf, Scorable
<1>3. \A e \in E : e.member \in DOMAIN scores /\ e.score = scores[e.member]
                    /\ e = [score |-> scores[e.member], member |-> e.member]
    BY DEF EntriesOf
<1>4. ASSUME NEW m \in DOMAIN scores
      PROVE  \E e \in E : e.member = m
    <2> DEFINE e == [score |-> scores[m], member |-> m]
    <2>1. e \in E /\ e.member = m
        BY DEF EntriesOf
    <2> QED
        BY <2>1
<1> HIDE DEF E
<1>5. /\ p \in Seq(E) /\ Len(p) = Cardinality(E) /\ DOMAIN p = 1..Len(p)
      /\ {p[i] : i \in DOMAIN p} = E /\ Settled(p)
      /\ \A i, j \in DOMAIN p : p[i] = p[j] => i = j
    BY <1>1, SortingFacts DEF E
<1>6. p \in Seq(Scorable)
    BY <1>2, <1>5, SeqMonotonic
<1>7. p \in Seq(Found)
    BY <1>6, ScorableSeq
<1>8. \A i \in DOMAIN p : p[i].member \in DOMAIN scores /\ p[i].score = scores[p[i].member]
    BY <1>3, <1>5
<1>9. \A m \in DOMAIN scores : \E i \in DOMAIN p : p[i].member = m
    BY <1>4, <1>5
<1>10. \A i, j \in DOMAIN p : p[i].member = p[j].member => i = j
    <2>1. \A i \in DOMAIN p : p[i] \in E
        BY <1>5
    <2> QED
        BY <1>3, <1>5, <2>1
<1> QED
    BY <1>1, <1>5, <1>6, <1>7, <1>8, <1>9, <1>10 DEF Rankable, E

LEMMA ScoresOfSorting ==
    ASSUME NEW scores, Rankable(scores), NEW p \in Sortings(EntriesOf(scores))
    PROVE  ScoresOf(p) = scores
<1>1. /\ p \in Seq(Found)
      /\ \A i \in DOMAIN p : p[i].member \in DOMAIN scores /\ p[i].score = scores[p[i].member]
      /\ \A m \in DOMAIN scores : \E i \in DOMAIN p : p[i].member = m
    BY SortingScorable
<1>2. /\ DOMAIN ScoresOf(p) = {p[i].member : i \in DOMAIN p}
      /\ \A m \in DOMAIN ScoresOf(p) :
            \E i \in DOMAIN p : p[i].member = m /\ ScoresOf(p)[m] = p[i].score
    BY <1>1, ScoresOfType
<1>3. DOMAIN ScoresOf(p) = DOMAIN scores
    BY <1>1, <1>2
<1>4. ASSUME NEW m \in DOMAIN scores
      PROVE  ScoresOf(p)[m] = scores[m]
    <2>1. PICK i \in DOMAIN p : p[i].member = m /\ ScoresOf(p)[m] = p[i].score
        BY <1>2, <1>3
    <2>2. p[i].score = scores[p[i].member]
        BY <1>1
    <2> QED
        BY <2>1, <2>2
<1>5. ScoresOf(p) = [m \in DOMAIN ScoresOf(p) |-> ScoresOf(p)[m]]
    BY DEF ScoresOf
<1>6. scores = [m \in DOMAIN scores |-> scores[m]]
    BY DEF Rankable
<1> QED
    BY <1>3, <1>4, <1>5, <1>6

(***************************************************************************)
(* ZADD, ZRANGE and ZCOUNT read back what ZADD wrote.                      *)
(***************************************************************************)
THEOREM ReadBack ==
    ASSUME NEW scores, Rankable(scores), NEW d, StandsFor(d, scores)
    PROVE  /\ d \in Bytes /\ ReadEntries(d) \in Sortings(EntriesOf(scores))
           /\ ScoresOf(ReadEntries(d)) = scores
           /\ IF DOMAIN scores = {} THEN ~HasHeader(d)
              ELSE HasHeader(d) /\ Count(d) = Len(ReadEntries(d))
<1>1. CASE DOMAIN scores = {}
    <2>1. d = Absent /\ ~HasHeader(d) /\ ReadEntries(d) = <<>>
        BY <1>1 DEF StandsFor, HasHeader, ReadEntries
    <2>2. EntriesOf(scores) = {} /\ Cardinality({}) = 0
        BY <1>1, FS_EmptySet DEF EntriesOf
    <2>3. <<>> \in Sortings(EntriesOf(scores))
        <3>1. <<>> \in [1..0 -> {}] /\ Len(<<>>) = 0
            OBVIOUS
        <3> QED
            BY <2>2, <3>1 DEF Sortings, Settled
    <2> QED
        BY <1>1, <2>1, <2>3, ScoresOfSorting DEF Bytes
<1>2. CASE DOMAIN scores # {}
    <2>1. PICK p \in Sortings(EntriesOf(scores)) :
              d = Header(Cardinality(EntriesOf(scores))) \o EncodedEntries(p)
        BY <1>2 DEF StandsFor
    <2>2. /\ p \in Seq(Scorable) /\ 2 * Len(p) < Power[HeaderSize]
          /\ Len(p) = Cardinality(EntriesOf(scores))
        BY SortingScorable
    <2>3. d \in Seq(Byte) /\ HasHeader(d) /\ Count(d) = Len(p) /\ ReadEntries(d) = p
        BY <2>1, <2>2, EntriesRead
    <2> QED
        BY <1>2, <2>3, ScoresOfSorting DEF Bytes
<1> QED
    BY <1>1, <1>2

(***************************************************************************)
(* ZADD adds the member or changes its score, keeps the others, and        *)
(* answers 1 for a new member.                                             *)
(***************************************************************************)
LEMMA ZAddRanked ==
    ASSUME NEW scores, Rankable(scores), NEW d, StandsFor(d, scores),
           NEW b, NEW m, m # <<>>, NEW r \in ZAdd(d, b, m)
    PROVE  /\ r.reply = IF m \in DOMAIN scores THEN 0 ELSE 1
           /\ StandsFor(r.value, Scored(scores, m, b))
<1> DEFINE all == EntriesOf(Scored(scores, m, b))
<1>1. ScoresOf(ReadEntries(d)) = scores
    BY ReadBack
<1>2. ZAdd(d, b, m) = {Answering(IF m \in DOMAIN scores THEN 0 ELSE 1,
                                 Header(Cardinality(all)) \o EncodedEntries(p)) : p \in Sortings(all)}
    BY <1>1 DEF ZAdd
<1> HIDE DEF all
<1>3. PICK p \in Sortings(all) :
          r = Answering(IF m \in DOMAIN scores THEN 0 ELSE 1,
                        Header(Cardinality(all)) \o EncodedEntries(p))
    BY <1>2
<1>4. DOMAIN Scored(scores, m, b) # {}
    BY DEF Scored
<1> QED
    BY <1>3, <1>4 DEF Answering, StandsFor, all

LEMMA ZAddType ==
    ASSUME NEW d \in Bytes, NEW b \in DOMAIN Float, NEW m \in Seq(Byte), NEW r \in ZAdd(d, b, m)
    PROVE  r.value \in Bytes
<1> DEFINE old == ScoresOf(ReadEntries(d))
           all == EntriesOf(Scored(old, m, b))
<1>1. CASE m = <<>>
    BY <1>1 DEF ZAdd, Answering
<1>2. CASE m # <<>>
    <2>1. /\ IsFiniteSet(DOMAIN old) /\ DOMAIN old \subseteq Seq(Byte)
          /\ \A x \in DOMAIN old : old[x] \in Nat
        BY ReadEntriesType, ScoresOfType
    <2>2. PICK p \in Sortings(all) : \E k : r = Answering(k, Header(Cardinality(all)) \o EncodedEntries(p))
        BY <1>2 DEF ZAdd
    <2> HIDE DEF old
    <2>3. DOMAIN Scored(old, m, b) = DOMAIN old \cup {m}
        BY DEF Scored
    <2>4. IsFiniteSet(all) /\ Cardinality(all) \in Nat
        <3>1. IsFiniteSet(DOMAIN old \cup {m})
            BY <2>1, FS_AddElement
        <3> QED
            BY <2>3, <3>1, EntriesFinite
    <2>5. all \subseteq Found
        <3>1. b \in Nat
            BY ScoreAssumption, PowerType
        <3>2. \A x \in DOMAIN old \cup {m} : Scored(old, m, b)[x] \in Nat
            BY <2>1, <3>1 DEF Scored
        <3> QED
            BY <2>1, <2>3, <3>2 DEF EntriesOf, Found
    <2> HIDE DEF all
    <2>6. p \in Seq(Found)
        BY <2>4, <2>5, SortingFacts, SeqMonotonic
    <2>7. Cardinality(all) \in Int
        BY <2>4
    <2>8. Header(Cardinality(all)) \o EncodedEntries(p) \in Seq(Byte)
        BY <2>6, <2>7, HeaderType, EncodedEntriesType, ConcatProperties
    <2> QED
        BY <2>2, <2>8 DEF Answering, Bytes
<1> QED
    BY <1>1, <1>2

(***************************************************************************)
(* ZRANGE answers the members of the ranks asked for.                      *)
(***************************************************************************)
LEMMA ZRangeRanked ==
    ASSUME NEW scores, Rankable(scores), NEW d, StandsFor(d, scores), NEW a \in Int, NEW b \in Int
    PROVE  LET p == ReadEntries(d)
               n == Len(p)
               members == [i \in DOMAIN p |-> p[i].member]
               from == IF Position(a, n) < 0 THEN 0 ELSE Position(a, n)
               to == IF Position(b, n) >= n THEN n - 1 ELSE Position(b, n)
           IN  ZRange(d, a, b) = IF from > to THEN <<>> ELSE SubSeq(members, from + 1, to + 1)
<1> DEFINE p == ReadEntries(d)
           n == Len(p)
           members == [i \in DOMAIN p |-> p[i].member]
           from == IF Position(a, n) < 0 THEN 0 ELSE Position(a, n)
           to == IF Position(b, n) >= n THEN n - 1 ELSE Position(b, n)
           last == Min({to + 1, n})
           read == SubSeq(p, from + 1, last)
<1>1. p \in Sortings(EntriesOf(scores))
    BY ReadBack
<1>2. p \in Seq(Found) /\ DOMAIN p = 1..n /\ n \in Nat /\ n = Cardinality(DOMAIN scores)
    BY <1>1, SortingScorable
<1>3. IF DOMAIN scores = {} THEN ~HasHeader(d) ELSE HasHeader(d) /\ Count(d) = n
    BY ReadBack
<1>4. Position(a, n) \in Int /\ Position(b, n) \in Int /\ Position(b, n) >= n => n - 1 \in Int
    BY <1>2 DEF Position
<1> HIDE DEF p
<1>5. from \in Nat /\ to \in Int /\ to <= n - 1
    BY <1>2 DEF Position
<1>6. CASE DOMAIN scores = {}
    <2>1. n = 0
        BY <1>2, <1>6, FS_EmptySet
    <2>2. from > to
        <3> HIDE DEF from, to, n
        <3> QED
            BY <1>5, <2>1
    <2>3. ZRange(d, a, b) = <<>>
        BY <1>3, <1>6 DEF ZRange
    <2> QED
        BY <2>2, <2>3 DEF p
<1>7. CASE DOMAIN scores # {}
    <2>1. /\ HasHeader(d) /\ Count(d) = n
        BY <1>3, <1>7
    <2>2. ZRange(d, a, b) =
              IF n = 0 \/ from > to THEN <<>> ELSE [i \in DOMAIN read |-> read[i].member]
        BY <2>1 DEF ZRange, p
    <2>3. CASE from > to
        BY <2>2, <2>3 DEF p
    <2>4. CASE ~(from > to)
        <3>0. /\ Len(p) = n /\ members \in Seq(Seq(Byte)) /\ Len(members) = n
            <4>1. \A i \in DOMAIN p : p[i] \in Found
                BY <1>2
            <4>2. \A i \in DOMAIN p : p[i].member \in Seq(Byte)
                BY <4>1 DEF Found
            <4> QED
                BY <1>2, <4>2
        <3> HIDE DEF from, to, n
        <3>1. n # 0 /\ from + 1 \in 1..n /\ to + 1 \in 1..n /\ from + 1 <= to + 1
            BY <1>2, <1>5, <2>4
        <3>2. last = to + 1
            <4>1. {to + 1, n} \subseteq Nat /\ to + 1 <= n
                BY <1>2, <3>1
            <4>2. last \in {to + 1, n} /\ \A i \in {to + 1, n} : last <= i
                BY <4>1, MinOf
            <4> QED
                BY <1>2, <4>1, <4>2
        <3>3. read = [i \in 1..((to + 1) - from) |-> p[i + from]]
            <4>1. read = SubSeq(p, from + 1, to + 1)
                BY <3>2
            <4>2. from + 1 \in 1..Len(p) /\ to + 1 \in 1..Len(p)
                BY <3>1, <3>0
            <4> HIDE DEF read
            <4> QED
                BY <1>2, <1>5, <3>1, <4>1, <4>2
        <3>4. SubSeq(members, from + 1, to + 1) = [i \in 1..((to + 1) - from) |-> members[i + from]]
            <4> HIDE DEF members
            <4> QED
                BY <1>2, <1>5, <3>1, <3>0
        <3>5. \A i \in 1..((to + 1) - from) : i + from \in DOMAIN p
            BY <1>2, <1>5, <3>1
        <3> HIDE DEF read
        <3>6. [i \in DOMAIN read |-> read[i].member] = SubSeq(members, from + 1, to + 1)
            BY <3>3, <3>4, <3>5
        <3>7. ZRange(d, a, b) = SubSeq(members, from + 1, to + 1)
            BY <2>2, <2>4, <3>1, <3>6
        <3> QED
            BY <2>4, <3>7 DEF p, n, from, to
    <2> QED
        BY <2>3, <2>4
<1> QED
    BY <1>6, <1>7

(***************************************************************************)
(* ZCOUNT answers the number of members between the scores.                *)
(***************************************************************************)
LEMMA ZCountRanked ==
    ASSUME NEW scores, Rankable(scores), NEW d, StandsFor(d, scores), NEW low, NEW high
    PROVE  ZCount(d, low, high) =
               Cardinality({m \in DOMAIN scores :
                   AtMost(low, scores[m]) /\ AtMost(scores[m], high)})
<1> DEFINE p == ReadEntries(d)
           S == {i \in DOMAIN p : AtMost(low, p[i].score) /\ AtMost(p[i].score, high)}
           T == {m \in DOMAIN scores : AtMost(low, scores[m]) /\ AtMost(scores[m], high)}
           f == [i \in S |-> p[i].member]
<1>1. p \in Sortings(EntriesOf(scores))
    BY ReadBack
<1> HIDE DEF p
<1>2. /\ p \in Seq(Found) /\ DOMAIN p = 1..Len(p) /\ Len(p) \in Int
      /\ \A i \in DOMAIN p : p[i].member \in DOMAIN scores /\ p[i].score = scores[p[i].member]
      /\ \A m \in DOMAIN scores : \E i \in DOMAIN p : p[i].member = m
      /\ \A i, j \in DOMAIN p : p[i].member = p[j].member => i = j
    BY <1>1, SortingScorable
<1>3. IsFiniteSet(S)
    <2>1. IsFiniteSet(DOMAIN p) /\ S \subseteq DOMAIN p
        <3>1. 1 \in Int /\ IsFiniteSet(1..Len(p))
            BY <1>2, FS_Interval
        <3> QED
            BY <1>2, <3>1
    <2> QED
        BY <2>1, FS_Subset
<1>4. f \in [S -> T]
    BY <1>2
<1>5. f \in Surjection(S, T)
    <2>1. ASSUME NEW m \in T
          PROVE  \E i \in S : f[i] = m
        <3>1. PICK i \in DOMAIN p : p[i].member = m
            BY <1>2
        <3>2. p[i].score = scores[m]
            BY <1>2, <3>1
        <3>3. i \in S
            BY <3>2
        <3> QED
            BY <3>1, <3>3
    <2> HIDE DEF f, S, T
    <2> QED
        BY <1>4, <2>1 DEF Surjection
<1>6. f \in Injection(S, T)
    <2>1. \A i, j \in S : f[i] = f[j] => i = j
        BY <1>2
    <2> HIDE DEF f, S, T
    <2> QED
        BY <1>4, <2>1 DEF Injection, IsInjective
<1> HIDE DEF f, S, T
<1>7. Cardinality(T) = Cardinality(S)
    BY <1>3, <1>5, <1>6, FS_Surjection
<1> QED
    BY <1>7 DEF ZCount, S, T, p

(***************************************************************************)
(* What ZADD wrote lists every member once with its score, and if all the  *)
(* scores are numbers in their order.                                      *)
(***************************************************************************)
LEMMA ReadsRanked ==
    ASSUME NEW scores, Rankable(scores), NEW d, StandsFor(d, scores)
    PROVE  LET p == ReadEntries(d)
           IN  /\ Len(p) = Cardinality(DOMAIN scores)
               /\ {p[i] : i \in DOMAIN p} = EntriesOf(scores)
               /\ (\A m \in DOMAIN scores : Numeric(scores[m])) => Ranked(p)
<1> DEFINE p == ReadEntries(d)
<1>1. p \in Sortings(EntriesOf(scores))
    BY ReadBack
<1> HIDE DEF p
<1>2. /\ p \in Seq(Scorable) /\ Len(p) = Cardinality(DOMAIN scores) /\ DOMAIN p = 1..Len(p)
      /\ {p[i] : i \in DOMAIN p} = EntriesOf(scores) /\ Settled(p)
      /\ \A i \in DOMAIN p : p[i].member \in DOMAIN scores /\ p[i].score = scores[p[i].member]
      /\ \A i, j \in DOMAIN p : p[i].member = p[j].member => i = j
    BY <1>1, SortingScorable
<1>3. p \in Seq(Entry)
    <2>1. \A n \in Byte : n \in Nat
        BY ByteAssumption DEF Byte
    <2>2. Seq(Byte) \subseteq Seq(Nat)
        BY <2>1, SeqMonotonic
    <2>3. Scorable \subseteq Entry
        BY <2>2 DEF Scorable, Storable, Entry
    <2> QED
        BY <1>2, <2>3, SeqMonotonic
<1>4. ASSUME \A m \in DOMAIN scores : Numeric(scores[m])
      PROVE  Ranked(p)
    <2>1. \A i \in DOMAIN p : Numeric(p[i].score)
        BY <1>2, <1>4
    <2>2. \A i, j \in DOMAIN p : i # j => p[i].member # p[j].member
        BY <1>2
    <2> QED
        BY <1>2, <1>3, <2>1, <2>2, SettledIsRanked
<1> QED
    BY <1>2, <1>4 DEF p

=============================================================================
