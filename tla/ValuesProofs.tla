----------------------------- MODULE ValuesProofs -----------------------------
(* Proofs about Values: whatever the commands are and in whatever order they    *)
(* come, the bytes of the key are those of the items, or of the scores, that it *)
(* should hold; so every query answers what the items and scores say.           *)
EXTENDS Values, RankingProofs

-----------------------------------------------------------------------------
(* The inductive invariant. *)

\* The bytes of a key that list and set commands made are those of its items.
ItemsKept ==
    IsSequence => /\ value = Kept(Held) /\ Len(Held) <= MaxItems
                  /\ content.type = "set" => IsInjective(Held)

\* The bytes of a key that ZADD made are those of its scores, in an order that
\* sort.Slice can end with.
ScoresKept ==
    IsRanked => /\ StandsFor(value, Scores)
                /\ IsFiniteSet(DOMAIN Scores) /\ Cardinality(DOMAIN Scores) <= MaxItems

IInv == TypeOK /\ ItemsKept /\ ScoresKept

-----------------------------------------------------------------------------
(* What the key holds. *)

LEMMA ItemsStorable == Items \subseteq Storable /\ Items \subseteq Seq(Byte)
BY ItemAssumption, CapacityAssumption DEF Storable

LEMMA ItemsListable ==
    ASSUME NEW xs \in Seq(Items), Len(xs) <= MaxItems
    PROVE  xs \in Listable
<1>1. xs \in Seq(Storable)
    BY ItemsStorable, SeqMonotonic
<1>2. 2 * Len(xs) < Power[HeaderSize]
    <2>1. Power[HeaderSize] \in Nat /\ Len(xs) \in Nat
        BY PowerType, SizeAssumption
    <2> QED
        BY <2>1, CapacityAssumption, IndexAssumption
<1> QED
    BY <1>1, <1>2 DEF Listable

LEMMA ItemsAreBytes == \A xs \in Seq(Items) : xs \in Seq(Seq(Byte))
<1>1. Seq(Items) \subseteq Seq(Seq(Byte))
    BY ItemsStorable, SeqMonotonic
<1> QED
    BY <1>1

LEMMA BatchItems == \A xs \in Batches : xs \in Seq(Items) /\ xs # <<>> /\ xs \in Seq(Seq(Byte))
BY ItemAssumption, ItemsAreBytes

LEMMA ContentFacts ==
    ASSUME TypeOK
    PROVE  /\ content.type \in {"none", "other", "list", "set", "counter", "ranked"}
           /\ content.type = "none" => content = Nothing /\ Held = <<>> /\ Scores = <<>>
           /\ IsSequence => Held \in Seq(Items)
           /\ content.type \in {"list", "set"} => Held # <<>>
           /\ IsRanked => DOMAIN Scores \subseteq Items /\ Scores \in [DOMAIN Scores -> DOMAIN Float]
           /\ value \in Bytes
<1>1. content \in Content /\ value \in Bytes
    BY DEF TypeOK, Bytes
<1>2. CASE content = Nothing
    <2>1. content.type = "none"
        BY <1>2 DEF Nothing
    <2>2. Held = <<>> /\ Scores = <<>>
        BY <2>1 DEF Held, Scores
    <2>3. <<>> \in Seq(Items) /\ <<>> \in [DOMAIN <<>> -> DOMAIN Float] /\ DOMAIN <<>> = {}
        OBVIOUS
    <2> QED
        BY <1>1, <1>2, <2>1, <2>2, <2>3
<1>3. CASE content = Other
    BY <1>1, <1>3 DEF Other, IsSequence, IsRanked
<1>4. CASE content \in [type : {"list", "set"}, items : Seq(Items) \ {<<>>}]
    BY <1>1, <1>4 DEF Held, IsSequence, IsRanked
<1>5. CASE content \in [type : {"counter"}, total : (-MaxTotal)..MaxTotal]
    BY <1>1, <1>5 DEF IsSequence, IsRanked
<1>6. CASE content \in [type : {"ranked"}, scores : UNION {[M -> DOMAIN Float] : M \in (SUBSET Items) \ {{}}}]
    <2>1. content.type = "ranked" /\ Scores = content.scores
        BY <1>6 DEF Scores
    <2>2. PICK M \in (SUBSET Items) \ {{}} : content.scores \in [M -> DOMAIN Float]
        BY <1>6
    <2> QED
        BY <1>1, <2>1, <2>2 DEF IsSequence
<1> QED
    BY <1>1, <1>2, <1>3, <1>4, <1>5, <1>6 DEF Content

LEMMA HeldListable ==
    ASSUME TypeOK, ItemsKept, IsSequence
    PROVE  /\ Held \in Listable /\ Held \in Seq(Items) /\ value = Kept(Held)
           /\ Len(Held) \in Nat
BY ContentFacts, ItemsListable DEF ItemsKept

LEMMA ScoresRankable ==
    ASSUME TypeOK, ScoresKept, IsRanked
    PROVE  Rankable(Scores) /\ StandsFor(value, Scores) /\ DOMAIN Scores \subseteq Items
<1>1. DOMAIN Scores \subseteq Items /\ Scores \in [DOMAIN Scores -> DOMAIN Float]
    BY ContentFacts
<1>2. 2 * Cardinality(DOMAIN Scores) < Power[HeaderSize]
    <2>1. Power[HeaderSize] \in Nat /\ Cardinality(DOMAIN Scores) \in Nat
        BY PowerType, SizeAssumption, FS_CardinalityType DEF ScoresKept
    <2> QED
        BY <2>1, CapacityAssumption, IndexAssumption DEF ScoresKept
<1> QED
    BY <1>1, <1>2, ItemsStorable DEF ScoresKept, Rankable

-----------------------------------------------------------------------------
(* The commands keep the invariant. *)

LEMMA InitHolds == Init => IInv
<1> SUFFICES ASSUME Init
             PROVE  IInv
    OBVIOUS
<1>1. content = Nothing /\ content.type = "none" /\ value = Absent
    BY DEF Init, Nothing
<1>2. TypeOK
    BY <1>1 DEF Init, TypeOK, Content, Push
<1>3. Held = <<>> /\ Scores = <<>> /\ DOMAIN <<>> = {} /\ Len(<<>>) = 0
    BY <1>1 DEF Held, Scores
<1>4. IsFiniteSet({}) /\ Cardinality({}) = 0
    BY FS_EmptySet
<1>5. ItemsKept
    BY <1>1, <1>3, IndexAssumption DEF ItemsKept, Kept
<1>6. ScoresKept
    BY <1>1, <1>3, <1>4, IndexAssumption DEF ScoresKept, StandsFor
<1> QED
    BY <1>2, <1>5, <1>6 DEF IInv

\* A key that is gone, or that holds what nothing is known about.
LEMMA EmptyStep ==
    ASSUME push' \in [Clients -> Push], content' = Nothing, value' = Absent
    PROVE  IInv'
<1>1. content'.type = "none"
    BY DEF Nothing
<1>2. TypeOK'
    BY DEF TypeOK, Content
<1>3. Held' = <<>> /\ Scores' = <<>> /\ DOMAIN <<>> = {} /\ Len(<<>>) = 0
    BY <1>1 DEF Held, Scores
<1>4. IsFiniteSet({}) /\ Cardinality({}) = 0
    BY FS_EmptySet
<1>5. ItemsKept'
    BY <1>1, <1>3, IndexAssumption DEF ItemsKept, Kept
<1>6. ScoresKept'
    BY <1>1, <1>3, <1>4, IndexAssumption DEF ScoresKept, StandsFor
<1> QED
    BY <1>2, <1>5, <1>6 DEF IInv

LEMMA OtherStep ==
    ASSUME push' \in [Clients -> Push], content' = Other, value' \in Bytes
    PROVE  IInv'
<1>1. content'.type = "other"
    BY DEF Other
<1>2. TypeOK'
    BY DEF TypeOK, Content, Bytes
<1>3. ~IsSequence' /\ ~IsRanked'
    BY <1>1 DEF IsSequence, IsRanked
<1> QED
    BY <1>2, <1>3 DEF IInv, ItemsKept, ScoresKept

LEMMA SameStep ==
    ASSUME IInv, push' \in [Clients -> Push], content' = content, value' = value
    PROVE  IInv'
<1>1. TypeOK'
    BY DEF IInv, TypeOK
<1>2. ItemsKept'
    BY DEF IInv, ItemsKept, IsSequence, Held
<1>3. ScoresKept'
    BY DEF IInv, ScoresKept, IsRanked, Scores
<1> QED
    BY <1>1, <1>2, <1>3 DEF IInv

LEMMA MixedStep ==
    ASSUME IInv, push' \in [Clients -> Push], NEW d \in Bytes, value' = d, content' = Mixed(d)
    PROVE  IInv'
<1>1. CASE d = Absent
    BY <1>1, EmptyStep DEF Mixed
<1>2. CASE d # Absent /\ d = value
    BY <1>2, SameStep DEF Mixed
<1>3. CASE d # Absent /\ d # value
    BY <1>3, OtherStep DEF Mixed
<1> QED
    BY <1>1, <1>2, <1>3

LEMMA LeavesItemsStep ==
    ASSUME IInv, push' \in [Clients -> Push], NEW d \in Bytes, NEW t, NEW xs,
           LeavesItems(d, t, xs),
           IsSequence => /\ xs \in Seq(Items) /\ d = Kept(xs)
                         /\ xs # <<>> => t \in {"list", "set"}
                         /\ t = "set" => IsInjective(xs)
    PROVE  IInv'
<1>1. CASE ~IsSequence
    BY <1>1, MixedStep DEF LeavesItems
<1>2. CASE IsSequence /\ xs = <<>>
    BY <1>2, EmptyStep DEF LeavesItems, Sequence, Kept
<1>3. CASE IsSequence /\ xs # <<>>
    <2>1. content' = [type |-> t, items |-> xs] /\ value' = d /\ Len(xs) <= MaxItems
        BY <1>3 DEF LeavesItems, Sequence
    <2>2. content'.type = t /\ t \in {"list", "set"} /\ content'.items = xs
        BY <1>3, <2>1
    <2>3. content' \in Content
        BY <1>3, <2>1, <2>2 DEF Content
    <2>4. TypeOK'
        BY <2>1, <2>3 DEF TypeOK, Bytes
    <2>5. Held' = xs
        BY <2>2 DEF Held
    <2>6. ItemsKept'
        BY <1>3, <2>1, <2>2, <2>5 DEF ItemsKept
    <2>7. ScoresKept'
        BY <2>2 DEF ScoresKept, IsRanked
    <2> QED
        BY <2>4, <2>6, <2>7 DEF IInv
<1> QED
    BY <1>1, <1>2, <1>3

-----------------------------------------------------------------------------
(* LPUSH and RPUSH. *)

LEMMA CheckStep ==
    ASSUME IInv, NEW c \in Clients, NEW side \in {"left", "right"}, NEW xs \in Batches,
           Check(c, side, xs)
    PROVE  IInv'
<1>1. push' \in [Clients -> Push]
    BY DEF Check, IInv, TypeOK, Push
<1> QED
    BY <1>1, SameStep DEF Check

LEMMA RefusedStep ==
    ASSUME IInv, NEW c \in Clients, UpdateFails(c) \/ ReadAgain(c)
    PROVE  IInv'
<1>1. push' \in [Clients -> Push]
    BY DEF UpdateFails, ReadAgain, IInv, TypeOK, Push
<1> QED
    BY <1>1, SameStep DEF UpdateFails, ReadAgain

LEMMA UpdateStep ==
    ASSUME IInv, NEW c \in Clients, Update(c)
    PROVE  IInv'
<1> DEFINE xs == push[c].items
           left == push[c].side = "left"
           result == IF left THEN LPush(value, xs) ELSE RPush(value, xs)
           items == IF left THEN Reverse(xs) \o Held ELSE Held \o xs
<1>1. push' \in [Clients -> Push]
    BY DEF Update, IInv, TypeOK, Push
<1>2. xs \in Batches
    <2>1. push[c] \in Push /\ push[c].at = "update"
        BY DEF Update, IInv, TypeOK
    <2> QED
        BY <2>1 DEF Push, NoPush, Refused
<1>3. xs \in Seq(Items) /\ xs # <<>> /\ xs \in Seq(Seq(Byte))
    BY <1>2, BatchItems
<1>4. value \in Bytes
    BY ContentFacts DEF IInv
<1>5. LeavesItems(result.value, "list", items)
    BY DEF Update
<1> HIDE DEF xs, left
<1>6. result.value \in Bytes
    BY <1>3, <1>4, PushType DEF Bytes
<1>7. ASSUME IsSequence
      PROVE  items \in Seq(Items) /\ items # <<>> /\ result.value = Kept(items)
    <2>1. Held \in Listable /\ Held \in Seq(Items) /\ value = Kept(Held)
        BY <1>7, HeldListable DEF IInv
    <2>2. Reverse(xs) \in Seq(Items) /\ Len(Reverse(xs)) = Len(xs)
        BY <1>3, ReverseType
    <2>3. Len(xs) > 0 /\ Len(Held) \in Nat
        BY <1>3, <2>1, EmptySeq
    <2>4. /\ Reverse(xs) \o Held \in Seq(Items) /\ Len(Reverse(xs) \o Held) = Len(xs) + Len(Held)
          /\ Held \o xs \in Seq(Items) /\ Len(Held \o xs) = Len(Held) + Len(xs)
        <3> DEFINE rx == Reverse(xs)
        <3>1. rx \in Seq(Items) /\ xs \in Seq(Items) /\ Held \in Seq(Items) /\ Len(rx) = Len(xs)
            BY <1>3, <2>1, <2>2
        <3> HIDE DEF rx
        <3>2. rx \o Held \in Seq(Items) /\ Len(rx \o Held) = Len(rx) + Len(Held)
            BY ONLY <3>1, ConcatProperties
        <3>3. Held \o xs \in Seq(Items) /\ Len(Held \o xs) = Len(Held) + Len(xs)
            BY ONLY <3>1, ConcatProperties
        <3> QED
            BY <3>1, <3>2, <3>3 DEF rx
    <2>5. Reverse(xs) \o Held # <<>> /\ Held \o xs # <<>>
        BY <2>3, <2>4
    <2>6. /\ LPush(value, xs).value = Stored(Reverse(xs) \o Held)
          /\ RPush(value, xs).value = Stored(Held \o xs)
        BY <1>3, <2>1, LPushKept, RPushKept DEF Answering
    <2> QED
        BY <2>4, <2>5, <2>6 DEF Kept
<1> HIDE DEF items, result
<1> QED
    BY <1>1, <1>5, <1>6, <1>7, LeavesItemsStep

-----------------------------------------------------------------------------
(* Pops and LSET. *)

LEMMA InjectivePart ==
    ASSUME NEW S, NEW s \in Seq(S), IsInjective(s), s # <<>>
    PROVE  IsInjective(Tail(s)) /\ IsInjective(Front(s))
<1>1. /\ \A i, j \in 1..Len(s) : s[i] = s[j] => i = j
      /\ Len(s) \in Nat /\ Len(s) > 0
    BY EmptySeq DEF IsInjective
<1>2. IsInjective(Tail(s))
    <2>1. DOMAIN Tail(s) = 1..(Len(s) - 1) /\ \A i \in 1..(Len(s) - 1) : Tail(s)[i] = s[i + 1]
        BY <1>1
    <2>2. \A i \in 1..(Len(s) - 1) : i + 1 \in 1..Len(s)
        BY <1>1
    <2> QED
        BY <1>1, <2>1, <2>2 DEF IsInjective
<1>3. IsInjective(Front(s))
    <2>1. DOMAIN Front(s) = 1..(Len(s) - 1) /\ \A i \in 1..(Len(s) - 1) : Front(s)[i] = s[i]
        BY <1>1, FrontIsSubSeq
    <2>2. \A i \in 1..(Len(s) - 1) : i \in 1..Len(s)
        BY <1>1
    <2> QED
        BY <1>1, <2>1, <2>2 DEF IsInjective
<1> QED
    BY <1>2, <1>3

LEMMA PartType ==
    ASSUME NEW S, NEW s \in Seq(S), s # <<>>
    PROVE  Tail(s) \in Seq(S) /\ Front(s) \in Seq(S)
<1>1. Len(s) \in Nat /\ Len(s) > 0
    BY EmptySeq
<1>2. SubSeq(s, 1, Len(s) - 1) \in Seq(S)
    BY <1>1
<1> QED
    BY <1>2, FrontIsSubSeq

LEMMA PopLeftStep ==
    ASSUME IInv, PopLeft
    PROVE  IInv'
<1> DEFINE d == LPop(value).value
           items == IF Held = <<>> THEN <<>> ELSE Tail(Held)
<1>1. push' \in [Clients -> Push]
    BY DEF PopLeft, IInv, TypeOK
<1>2. LeavesItems(d, content.type, items)
    BY DEF PopLeft
<1>3. d \in Bytes
    BY ContentFacts, LPopType DEF IInv
<1>4. ASSUME IsSequence
      PROVE  /\ items \in Seq(Items) /\ d = Kept(items)
             /\ items # <<>> => content.type \in {"list", "set"}
             /\ content.type = "set" => IsInjective(items)
    <2>1. Held \in Listable /\ Held \in Seq(Items) /\ value = Kept(Held)
        BY <1>4, HeldListable DEF IInv
    <2>2. CASE Held = <<>>
        <3>1. d = Kept(<<>>)
            BY <2>1, <2>2, LPopKept DEF Answering
        <3>2. content.type # "set"
            BY <2>2, ContentFacts DEF IInv
        <3> QED
            BY <2>2, <3>1, <3>2
    <2>3. CASE Held # <<>>
        <3>1. d = Kept(Tail(Held))
            BY <2>1, <2>3, LPopKept DEF Answering
        <3>2. content.type \in {"list", "set"}
            BY <1>4, <2>3, ContentFacts DEF IInv, IsSequence
        <3>3. content.type = "set" => IsInjective(Tail(Held))
            BY <1>4, <2>1, <2>3, InjectivePart DEF IInv, ItemsKept
        <3>4. Tail(Held) \in Seq(Items)
            BY <2>1, <2>3, PartType
        <3> QED
            BY <2>3, <3>1, <3>2, <3>3, <3>4
    <2> QED
        BY <2>2, <2>3
<1> HIDE DEF d, items
<1> QED
    BY <1>1, <1>2, <1>3, <1>4, LeavesItemsStep

LEMMA PopRightStep ==
    ASSUME IInv, PopRight
    PROVE  IInv'
<1> DEFINE d == RPop(value).value
           items == IF Held = <<>> THEN <<>> ELSE Front(Held)
<1>1. push' \in [Clients -> Push]
    BY DEF PopRight, IInv, TypeOK
<1>2. LeavesItems(d, content.type, items)
    BY DEF PopRight
<1>3. d \in Bytes
    BY ContentFacts, RPopType DEF IInv
<1>4. ASSUME IsSequence
      PROVE  /\ items \in Seq(Items) /\ d = Kept(items)
             /\ items # <<>> => content.type \in {"list", "set"}
             /\ content.type = "set" => IsInjective(items)
    <2>1. Held \in Listable /\ Held \in Seq(Items) /\ value = Kept(Held)
        BY <1>4, HeldListable DEF IInv
    <2>2. CASE Held = <<>>
        <3>1. d = Kept(<<>>)
            BY <2>1, <2>2, RPopKept DEF Answering
        <3>2. content.type # "set"
            BY <2>2, ContentFacts DEF IInv
        <3> QED
            BY <2>2, <3>1, <3>2
    <2>3. CASE Held # <<>>
        <3>1. d = Kept(Front(Held))
            BY <2>1, <2>3, RPopKept DEF Answering
        <3>2. content.type \in {"list", "set"}
            BY <1>4, <2>3, ContentFacts DEF IInv, IsSequence
        <3>3. content.type = "set" => IsInjective(Front(Held))
            BY <1>4, <2>1, <2>3, InjectivePart DEF IInv, ItemsKept
        <3>4. Front(Held) \in Seq(Items)
            BY <2>1, <2>3, PartType
        <3> QED
            BY <2>3, <3>1, <3>2, <3>3, <3>4
    <2> QED
        BY <2>2, <2>3
<1> HIDE DEF d, items
<1> QED
    BY <1>1, <1>2, <1>3, <1>4, LeavesItemsStep

LEMMA SetItemStep ==
    ASSUME IInv, NEW i \in Indices, NEW x \in Items, SetItem(i, x)
    PROVE  IInv'
<1> DEFINE k == Position(i, Len(Held)) + 1
           d == LSet(value, i, x).value
           t == IF k \in DOMAIN Held THEN "list" ELSE content.type
           items == IF k \in DOMAIN Held THEN [Held EXCEPT ![k] = x] ELSE Held
<1>1. push' \in [Clients -> Push]
    BY DEF SetItem, IInv, TypeOK
<1>2. LeavesItems(d, t, items)
    BY DEF SetItem
<1>3. i \in Int /\ x \in Storable /\ x \in Seq(Byte)
    BY IndexAssumption, ItemsStorable
<1>4. d \in Bytes
    BY <1>3, ContentFacts, LSetType DEF IInv
<1>5. ASSUME IsSequence
      PROVE  /\ items \in Seq(Items) /\ d = Kept(items)
             /\ items # <<>> => t \in {"list", "set"}
             /\ t = "set" => IsInjective(items)
    <2>1. Held \in Listable /\ Held \in Seq(Items) /\ value = Kept(Held)
        BY <1>5, HeldListable DEF IInv
    <2>2. DOMAIN Held = 1..Len(Held)
        BY <2>1
    <2>3. LSet(Kept(Held), i, x) = IF k \in 1..Len(Held) THEN Answering("OK", Kept([Held EXCEPT ![k] = x]))
                                   ELSE Answering(NotFound, Kept(Held))
        BY <1>3, <2>1, LSetKept
    <2> HIDE DEF k
    <2>4. d = Kept(items)
        BY <2>1, <2>2, <2>3 DEF Answering
    <2>5. items \in Seq(Items)
        BY <2>1, <2>2
    <2>6. items # <<>> => t \in {"list", "set"}
        BY <1>5, ContentFacts DEF IInv, IsSequence
    <2>7. t = "set" => IsInjective(items)
        BY <1>5 DEF IInv, ItemsKept
    <2> QED
        BY <2>4, <2>5, <2>6, <2>7
<1> HIDE DEF d, items, t
<1> QED
    BY <1>1, <1>2, <1>4, <1>5, LeavesItemsStep

-----------------------------------------------------------------------------
(* SADD and SREM. *)

\* The order in which a set was written is the order that is read.
LEMMA OrderedType ==
    ASSUME NEW S, S \subseteq Items, IsFiniteSet(S), NEW q
    PROVE  /\ Ordered(S, q) \in SetToSeqs(S)
           /\ Ordered(S, q) \in Seq(Items) /\ IsInjective(Ordered(S, q))
           /\ Len(Ordered(S, q)) = Cardinality(S)
<1>1. Ordered(S, q) \in SetToSeqs(S)
    BY OrderOfSet DEF Ordered
<1>2. Seq(S) \subseteq Seq(Items)
    BY SeqMonotonic
<1> QED
    BY <1>1, <1>2, OrderOfSet

LEMMA OrderedIsRead ==
    ASSUME NEW S, S \subseteq Items, IsFiniteSet(S), S # {}, Cardinality(S) <= MaxItems,
           NEW p \in SetToSeqs(S), NEW d, d = Stored(p)
    PROVE  Ordered(S, ReadItems(d)) = p /\ d = Kept(p) /\ p # <<>>
<1>1. p \in Seq(S) /\ Len(p) = Cardinality(S) /\ ToSet(p) = S
    BY OrderOfSet
<1>2. p \in Seq(Items)
    BY <1>1, SeqMonotonic
<1>3. p \in Listable
    BY <1>1, <1>2, ItemsListable
<1>4. p # <<>>
    <2>1. ToSet(<<>>) = {}
        BY DEF ToSet
    <2> QED
        BY <1>1, <2>1
<1>5. d = Kept(p)
    BY <1>4 DEF Kept
<1>6. ReadItems(d) = p
    BY <1>3, <1>5, ReadItemsKept
<1> QED
    BY <1>4, <1>5, <1>6 DEF Ordered

LEMMA AddMembersStep ==
    ASSUME IInv, NEW xs \in Batches, AddMembers(xs)
    PROVE  IInv'
<1> DEFINE S == ToSet(Held) \cup ToSet(xs)
<1>1. push' \in [Clients -> Push]
    BY DEF AddMembers, IInv, TypeOK
<1>2. PICK r \in SAdd(value, xs) : LeavesItems(r.value, "set", Ordered(S, ReadItems(r.value)))
    BY DEF AddMembers
<1> DEFINE items == Ordered(S, ReadItems(r.value))
<1>3. xs \in Seq(Items) /\ xs # <<>> /\ xs \in Seq(Seq(Byte))
    BY BatchItems
<1>4. r.value \in Bytes
    BY <1>3, ContentFacts, SAddType DEF IInv
<1>5. ASSUME IsSequence
      PROVE  items \in Seq(Items) /\ r.value = Kept(items) /\ IsInjective(items)
    <2>1. Held \in Listable /\ Held \in Seq(Items) /\ value = Kept(Held)
        BY <1>5, HeldListable DEF IInv
    <2>2. PICK p \in SetToSeqs(S) : r.value = Stored(p)
        BY <1>3, <2>1, SAddKept
    <2>3. S \subseteq Items /\ IsFiniteSet(S) /\ S # {}
        <3>1. /\ ToSet(Held) \subseteq Items /\ IsFiniteSet(ToSet(Held))
              /\ ToSet(xs) \subseteq Items /\ IsFiniteSet(ToSet(xs))
              /\ ToSet(xs) = {xs[i] : i \in 1..Len(xs)}
            BY <1>3, <2>1, ToSetFinite
        <3>2. Len(xs) > 0 /\ Len(xs) \in Nat
            BY <1>3, EmptySeq
        <3>3. xs[1] \in ToSet(xs)
            BY <3>1, <3>2
        <3> QED
            BY <3>1, <3>3, FS_Union
    <2> HIDE DEF S
    <2>4. items \in Seq(Items) /\ IsInjective(items) /\ Len(items) = Cardinality(S)
        BY <2>3, OrderedType
    <2>5. Len(items) <= MaxItems
        BY <1>2, <1>5 DEF LeavesItems
    <2>6. items = p /\ r.value = Kept(p)
        BY <2>2, <2>3, <2>4, <2>5, OrderedIsRead
    <2> QED
        BY <2>4, <2>6
<1> HIDE DEF S, items
<1> QED
    BY <1>1, <1>2, <1>4, <1>5, LeavesItemsStep DEF items

LEMMA RemoveMembersStep ==
    ASSUME IInv, NEW xs \in Batches, RemoveMembers(xs)
    PROVE  IInv'
<1> DEFINE left == ToSet(Held) \ ToSet(xs)
           same == left = ToSet(Held)
           t == IF same THEN content.type ELSE "set"
<1>1. push' \in [Clients -> Push]
    BY DEF RemoveMembers, IInv, TypeOK
<1>2. PICK r \in SRem(value, xs) :
          LeavesItems(r.value, t, IF same THEN Held ELSE Ordered(left, ReadItems(r.value)))
    BY DEF RemoveMembers
<1> DEFINE items == IF same THEN Held ELSE Ordered(left, ReadItems(r.value))
<1>3. xs \in Seq(Seq(Byte))
    BY BatchItems
<1>4. r.value \in Bytes
    BY <1>3, ContentFacts, SRemType DEF IInv
<1>5. ASSUME IsSequence
      PROVE  /\ items \in Seq(Items) /\ r.value = Kept(items)
             /\ items # <<>> => t \in {"list", "set"}
             /\ t = "set" => IsInjective(items)
    <2>1. Held \in Listable /\ Held \in Seq(Items) /\ value = Kept(Held)
        BY <1>5, HeldListable DEF IInv
    <2>2. /\ IsFiniteSet(left)
          /\ same => r = Answering(0, Kept(Held))
          /\ ~same => IF left = {} THEN r.value = Absent
                      ELSE \E p \in SetToSeqs(left) : r.value = Stored(p)
        BY <1>3, <2>1, SRemKept
    <2>3. left \subseteq Items
        BY <2>1, ToSetFinite
    <2>4. CASE same
        <3>1. r.value = Kept(Held)
            BY <2>2, <2>4 DEF Answering
        <3>2. Held # <<>> => content.type \in {"list", "set"}
            BY <1>5, ContentFacts DEF IInv, IsSequence
        <3>3. content.type = "set" => IsInjective(Held)
            BY <1>5 DEF IInv, ItemsKept
        <3> QED
            BY <2>1, <2>4, <3>1, <3>2, <3>3
    <2>5. CASE ~same
        <3>1. t = "set" /\ items = Ordered(left, ReadItems(r.value))
            BY <2>5
        <3> HIDE DEF left, same, t
        <3>2. items \in Seq(Items) /\ IsInjective(items) /\ Len(items) = Cardinality(left)
            BY <2>2, <2>3, <3>1, OrderedType
        <3>3. CASE left = {}
            <4>1. Cardinality({}) = 0
                BY FS_EmptySet
            <4>2. items = <<>>
                BY <3>2, <3>3, <4>1, EmptySeq
            <4> QED
                BY <2>2, <2>5, <3>1, <3>2, <3>3, <4>2 DEF Kept
        <3>4. CASE left # {}
            <4>1. PICK p \in SetToSeqs(left) : r.value = Stored(p)
                BY <2>2, <2>5, <3>4
            <4>2. Len(items) <= MaxItems
                BY <1>2, <1>5 DEF LeavesItems
            <4>3. items = p /\ r.value = Kept(p)
                BY <2>2, <2>3, <3>1, <3>2, <3>4, <4>1, <4>2, OrderedIsRead
            <4> QED
                BY <3>1, <3>2, <4>3
        <3> QED
            BY <3>3, <3>4
    <2> QED
        BY <2>4, <2>5
<1> HIDE DEF left, same, t, items
<1> QED
    BY <1>1, <1>2, <1>4, <1>5, LeavesItemsStep DEF items

-----------------------------------------------------------------------------
(* ZADD. *)

LEMMA AddScoredStep ==
    ASSUME IInv, NEW b \in DOMAIN Float, NEW m \in Items, AddScored(b, m)
    PROVE  IInv'
<1>1. push' \in [Clients -> Push]
    BY DEF AddScored, IInv, TypeOK
<1>2. PICK r \in ZAdd(value, b, m) :
          /\ value' = r.value
          /\ IF IsRanked THEN Cardinality(DOMAIN Scores \cup {m}) <= MaxItems
             ELSE Len(r.value) <= MaxBytes
    BY DEF AddScored
<1>3. r.value \in Bytes
    <2>1. value \in Bytes /\ m \in Seq(Byte)
        BY ContentFacts, ItemsStorable DEF IInv
    <2> QED
        BY <2>1, ZAddType
<1>4. CASE ~IsRanked
    <2>1. content' = Mixed(value')
        BY <1>4 DEF AddScored
    <2> QED
        BY <1>1, <1>2, <1>3, <2>1, MixedStep
<1>5. CASE IsRanked
    <2> DEFINE new == Scored(Scores, m, b)
    <2>1. Rankable(Scores) /\ StandsFor(value, Scores) /\ DOMAIN Scores \subseteq Items
        BY <1>5, ScoresRankable DEF IInv
    <2>2. m # <<>> /\ content' = [type |-> "ranked", scores |-> new]
        BY <1>5 DEF AddScored
    <2>3. StandsFor(r.value, new)
        BY <2>1, <2>2, ZAddRanked
    <2>4. DOMAIN new = DOMAIN Scores \cup {m} /\ new \in [DOMAIN Scores \cup {m} -> DOMAIN Float]
        BY <2>1 DEF Scored, Rankable
    <2>5. IsFiniteSet(DOMAIN new)
        BY <2>1, <2>4, FS_AddElement DEF Rankable
    <2> HIDE DEF new
    <2>6. content'.type = "ranked" /\ Scores' = new
        BY <2>2 DEF Scores
    <2>7. content' \in Content
        <3>1. DOMAIN Scores \cup {m} \in (SUBSET Items) \ {{}}
            BY <2>1
        <3>2. new \in UNION {[M -> DOMAIN Float] : M \in (SUBSET Items) \ {{}}}
            BY <2>4, <3>1
        <3> QED
            BY <2>2, <3>2 DEF Content
    <2>8. TypeOK'
        BY <1>1, <1>2, <1>3, <2>7 DEF TypeOK, Bytes
    <2>9. ItemsKept'
        BY <2>6 DEF ItemsKept, IsSequence
    <2>10. ScoresKept'
        BY <1>2, <1>5, <2>3, <2>4, <2>5, <2>6 DEF ScoresKept
    <2> QED
        BY <2>8, <2>9, <2>10 DEF IInv
<1> QED
    BY <1>4, <1>5

-----------------------------------------------------------------------------
(* Counters and strings. *)

LEMMA WrappedIsInt64 == \A n \in Int : Wrapped(n) \in Int64
<1>1. IntMod \div 2 \in Nat /\ 2 * (IntMod \div 2) = IntMod /\ IntMod \in Nat \ {0}
    BY TextAssumption
<1> QED
    BY <1>1 DEF Wrapped, Int64

LEMMA CounterStep ==
    ASSUME IInv, NEW n, NEW r, Counts(r, n),
           \/ r.reply = NotInteger /\ r.value = value
           \/ r.reply # NotInteger /\ \E k \in Int64 : r.value = Text[k]
    PROVE  IInv'
<1>1. push' \in [Clients -> Push]
    BY DEF Counts, IInv, TypeOK
<1>2. CASE r.reply = NotInteger
    BY <1>1, <1>2, SameStep DEF Counts
<1>3. CASE r.reply # NotInteger
    <2>1. content' = [type |-> "counter", total |-> Total + n] /\ Total + n \in (-MaxTotal)..MaxTotal
        BY <1>3 DEF Counts
    <2>2. content'.type = "counter" /\ content' \in Content
        BY <2>1 DEF Content
    <2>3. value' \in Seq(Byte)
        BY <1>3, TextAssumption DEF Counts
    <2>4. TypeOK'
        BY <1>1, <2>2, <2>3 DEF TypeOK
    <2>5. ~IsSequence' /\ ~IsRanked'
        BY <2>2 DEF IsSequence, IsRanked
    <2> QED
        BY <2>4, <2>5 DEF IInv, ItemsKept, ScoresKept
<1> QED
    BY <1>2, <1>3

LEMMA CountStep ==
    ASSUME IInv, NEW n \in Deltas, Increment(n) \/ Decrement(n)
    PROVE  IInv'
<1>1. n \in Int64 /\ n \in Int /\ -n \in Int
    BY IndexAssumption, TextAssumption DEF Int64
<1>2. \A s \in DOMAIN Parse : Parse[s] \in Int64 /\ Parse[s] + n \in Int /\ Parse[s] - n \in Int
    <2>1. \A k \in Int64 : k \in Int
        BY TextAssumption DEF Int64
    <2> QED
        BY <1>1, <2>1, TextAssumption
<1>3. NotInteger \notin Int64
    BY TextAssumption
<1>4. ASSUME NEW r, r = IncrBy(value, n) \/ r = DecrBy(value, n)
      PROVE  \/ r.reply = NotInteger /\ r.value = value
             \/ r.reply # NotInteger /\ \E k \in Int64 : r.value = Text[k]
    <2>1. CASE value = Absent
        <3>1. Wrapped(-n) \in Int64
            BY <1>1, WrappedIsInt64
        <3>2. \E k \in Int64 : r = Answering(k, Text[k])
            BY <1>1, <1>4, <2>1, <3>1 DEF IncrBy, DecrBy
        <3> QED
            BY <1>3, <3>2 DEF Answering
    <2>2. CASE value # Absent /\ value \in DOMAIN Parse
        <3>1. Wrapped(Parse[value] + n) \in Int64 /\ Wrapped(Parse[value] - n) \in Int64
            BY <1>2, <2>2, WrappedIsInt64
        <3> QED
            BY <1>3, <1>4, <2>2, <3>1 DEF IncrBy, DecrBy, Answering
    <2>3. CASE value # Absent /\ value \notin DOMAIN Parse
        BY <1>4, <2>3 DEF IncrBy, DecrBy, Answering
    <2> QED
        BY <2>1, <2>2, <2>3
<1>5. CASE Increment(n)
    BY <1>4, <1>5, CounterStep DEF Increment
<1>6. CASE Decrement(n)
    BY <1>4, <1>6, CounterStep DEF Decrement
<1> QED
    BY <1>5, <1>6

LEMMA StringStep ==
    ASSUME IInv, Del \/ \E s \in Strings : Set(s) \/ AppendString(s)
    PROVE  IInv'
<1>1. push' \in [Clients -> Push]
    BY DEF Del, Set, AppendString, IInv, TypeOK
<1>2. CASE Del
    BY <1>1, <1>2, EmptyStep DEF Del
<1>3. ASSUME NEW s \in Strings, Set(s) \/ AppendString(s)
      PROVE  IInv'
    <2>1. s \in Seq(Byte) /\ value \in Bytes
        BY ItemAssumption, ContentFacts DEF IInv
    <2>2. content' = Other
        BY <1>3 DEF Set, AppendString
    <2>3. value' = s \/ value' = IF value = Absent THEN s ELSE value \o s
        BY <1>3 DEF Set, AppendString
    <2>4. value # Absent => value \o s \in Seq(Byte)
        BY <2>1, ConcatProperties DEF Bytes
    <2>5. value' \in Bytes
        BY <2>1, <2>3, <2>4 DEF Bytes
    <2> QED
        BY <1>1, <2>2, <2>5, OtherStep
<1> QED
    BY <1>2, <1>3

LEMMA NextKeeps == IInv /\ [Next]_vars => IInv'
<1> SUFFICES ASSUME IInv, [Next]_vars
             PROVE  IInv'
    OBVIOUS
<1>1. CASE UNCHANGED vars
    <2>1. push' \in [Clients -> Push] /\ content' = content /\ value' = value
        BY <1>1 DEF vars, IInv, TypeOK
    <2> QED
        BY <2>1, SameStep
<1>2. CASE \E c \in Clients, side \in {"left", "right"}, xs \in Batches : Check(c, side, xs)
    BY <1>2, CheckStep
<1>3. CASE \E c \in Clients : Update(c) \/ UpdateFails(c) \/ ReadAgain(c)
    BY <1>3, UpdateStep, RefusedStep
<1>4. CASE PopLeft \/ PopRight
    BY <1>4, PopLeftStep, PopRightStep
<1>5. CASE \E i \in Indices, x \in Items : SetItem(i, x)
    BY <1>5, SetItemStep
<1>6. CASE \E xs \in Batches : AddMembers(xs) \/ RemoveMembers(xs)
    BY <1>6, AddMembersStep, RemoveMembersStep
<1>7. CASE \E b \in DOMAIN Float, m \in Items : AddScored(b, m)
    BY <1>7, AddScoredStep
<1>8. CASE \E n \in Deltas : Increment(n) \/ Decrement(n)
    BY <1>8, CountStep
<1>9. CASE Del \/ \E s \in Strings : Set(s) \/ AppendString(s)
    BY <1>9, StringStep
<1> QED
    BY <1>1, <1>2, <1>3, <1>4, <1>5, <1>6, <1>7, <1>8, <1>9 DEF Next

LEMMA Invariance == Spec => []IInv
BY InitHolds, NextKeeps, PTL DEF Spec

(***************************************************************************)
(* The key holds bytes or nothing, and its history is one of the contents. *)
(***************************************************************************)
THEOREM TypeCorrect == Spec => []TypeOK
<1>1. IInv => TypeOK
    BY DEF IInv
<1> QED
    BY <1>1, Invariance, PTL

-----------------------------------------------------------------------------
(* What the queries answer. *)

\* The items between two indices, as LRANGE and ZRANGE cut them.
LEMMA BetweenIndices ==
    ASSUME NEW S, NEW s \in Seq(S), NEW a \in Int, NEW b \in Int
    PROVE  LET n == Len(s)
               from == IF Position(a, n) < 0 THEN 0 ELSE Position(a, n)
               to == IF Position(b, n) >= n THEN n - 1 ELSE Position(b, n)
           IN  ItemsBetween(s, a, b) = IF from > to THEN <<>> ELSE SubSeq(s, from + 1, to + 1)
<1> DEFINE n == Len(s)
           i == Position(a, n)
           j == Position(b, n)
           from == IF i < 0 THEN 0 ELSE i
           to == IF j >= n THEN n - 1 ELSE j
           wanted == {k \in DOMAIN s : k > i /\ k <= j + 1}
<1>1. n \in Nat /\ DOMAIN s = 1..n /\ i \in Int /\ j \in Int
    BY DEF Position
<1> HIDE DEF n, i, j
<1>2. from \in Nat /\ to \in Int /\ to <= n - 1
    BY <1>1
<1>3. wanted = (from + 1)..(to + 1)
    <2>1. ASSUME NEW k \in 1..n
          PROVE  k > i /\ k <= j + 1 <=> from + 1 <= k /\ k <= to + 1
        BY <1>1
    <2>2. \A k \in (from + 1)..(to + 1) : k \in 1..n
        BY <1>1, <1>2
    <2> HIDE DEF from, to
    <2>3. \A k \in wanted : k \in 1..n /\ k \in Int /\ from + 1 <= k /\ k <= to + 1
        BY <1>1, <2>1
    <2>4. ASSUME NEW k \in (from + 1)..(to + 1)
          PROVE  k \in wanted
        <3>1. k \in 1..n /\ from + 1 <= k /\ k <= to + 1
            BY <1>2, <2>2
        <3>2. k \in DOMAIN s /\ k > i /\ k <= j + 1
            BY <1>1, <2>1, <3>1
        <3> QED
            BY <3>2
    <2> HIDE DEF wanted
    <2>5. from + 1 \in Int /\ to + 1 \in Int
        BY <1>2
    <2>6. \A k \in wanted : k \in (from + 1)..(to + 1)
        BY <2>3, <2>5
    <2> QED
        BY <2>4, <2>6
<1>4. ItemsBetween(s, a, b) = IF wanted = {} THEN <<>> ELSE SubSeq(s, Min(wanted), Max(wanted))
    BY DEF ItemsBetween, n, i, j
<1> HIDE DEF from, to, wanted
<1>5. CASE from > to
    <2>1. wanted = {}
        BY <1>2, <1>3, <1>5
    <2> QED
        BY <1>4, <1>5, <2>1 DEF from, to, n, i, j
<1>6. CASE ~(from > to)
    <2>1. from + 1 \in wanted /\ to + 1 \in wanted /\ wanted # {}
        <3>1. from + 1 \in (from + 1)..(to + 1) /\ to + 1 \in (from + 1)..(to + 1)
            BY <1>2, <1>6
        <3> QED
            BY <1>3, <3>1
    <2>2. wanted \subseteq Nat /\ wanted \subseteq 1..n
        BY <1>1, <1>2, <1>3
    <2>3. Min(wanted) \in wanted /\ \A k \in wanted : Min(wanted) <= k
        BY <2>1, <2>2, MinOf
    <2>4. Max(wanted) \in wanted /\ \A k \in wanted : k <= Max(wanted)
        BY <1>1, <2>1, <2>2, MaxOf
    <2>5. Min(wanted) = from + 1
        BY <1>2, <1>3, <2>1, <2>3
    <2>6. Max(wanted) = to + 1
        BY <1>2, <1>3, <2>1, <2>4
    <2> QED
        BY <1>4, <1>6, <2>1, <2>5, <2>6 DEF from, to, n, i, j
<1> QED
    BY <1>5, <1>6

LEMMA ItemFound ==
    ASSUME NEW s \in Seq(Items), NEW i \in Int
    PROVE  ItemOf(s, i) = NotFound <=> Position(i, Len(s)) + 1 \notin DOMAIN s
<1>1. \A k \in DOMAIN s : s[k] # NotFound
    <2>1. \A k \in DOMAIN s : s[k] \in Items
        OBVIOUS
    <2> QED
        BY <2>1, ItemsStorable, AbsentAssumption
<1> QED
    BY <1>1 DEF ItemOf

LEMMA ListsAnswer == IInv => ListAnswers
<1> SUFFICES ASSUME IInv, IsSequence
             PROVE  ListAnswers
    BY DEF ListAnswers
<1>1. Held \in Listable /\ Held \in Seq(Items) /\ value = Kept(Held) /\ DOMAIN Held = 1..Len(Held)
      /\ Len(Held) \in Nat
    BY HeldListable DEF IInv
<1>2. LLen(value) = Len(Held)
    BY <1>1, LLenKept
<1>3. LPop(value).reply = ItemOf(Held, 0) /\ RPop(value).reply = ItemOf(Held, -1)
    <2>1. Position(0, Len(Held)) + 1 = 1 /\ Position(-1, Len(Held)) + 1 = Len(Held)
        BY <1>1 DEF Position
    <2>2. CASE Held = <<>>
        <3>1. LPop(value).reply = NotFound /\ RPop(value).reply = NotFound
            BY <1>1, <2>2, LPopKept, RPopKept DEF Answering
        <3>2. DOMAIN Held = {}
            BY <2>2
        <3> QED
            BY <3>1, <3>2 DEF ItemOf
    <2>3. CASE Held # <<>>
        <3>1. 1 \in DOMAIN Held /\ Len(Held) \in DOMAIN Held
            BY <1>1, <2>3, EmptySeq
        <3>2. LPop(value).reply = Held[1] /\ RPop(value).reply = Held[Len(Held)]
            BY <1>1, <2>3, LPopKept, RPopKept DEF Answering
        <3> QED
            BY <2>1, <3>1, <3>2 DEF ItemOf
    <2> QED
        BY <2>2, <2>3
<1>4. ASSUME NEW i \in Indices
      PROVE  /\ LIndex(value, i) = ItemOf(Held, i)
             /\ \A x \in Items :
                   LSet(value, i, x).reply = IF ItemOf(Held, i) = NotFound THEN NotFound ELSE "OK"
    <2> DEFINE k == Position(i, Len(Held)) + 1
    <2>1. i \in Int
        BY IndexAssumption
    <2>2. LIndex(value, i) = IF k \in DOMAIN Held THEN Held[k] ELSE NotFound
        BY <1>1, <2>1, LIndexKept
    <2>3. ASSUME NEW x \in Items
          PROVE  LSet(value, i, x).reply = IF k \in DOMAIN Held THEN "OK" ELSE NotFound
        <3>1. x \in Storable
            BY ItemsStorable
        <3>2. LSet(Kept(Held), i, x) =
                  IF k \in 1..Len(Held) THEN Answering("OK", Kept([Held EXCEPT ![k] = x]))
                  ELSE Answering(NotFound, Kept(Held))
            BY <1>1, <2>1, <3>1, LSetKept
        <3> HIDE DEF k
        <3> QED
            BY <1>1, <3>2 DEF Answering
    <2>4. ItemOf(Held, i) = NotFound <=> k \notin DOMAIN Held
        BY <1>1, <2>1, ItemFound
    <2> QED
        BY <2>2, <2>3, <2>4 DEF ItemOf
<1>5. ASSUME NEW a \in Indices, NEW b \in Indices
      PROVE  LRange(value, a, b) = ItemsBetween(Held, a, b)
    <2> DEFINE n == Len(Held)
               from == IF Position(a, n) < 0 THEN 0 ELSE Position(a, n)
               to == IF Position(b, n) >= n THEN n - 1 ELSE Position(b, n)
               between == IF from > to THEN <<>> ELSE SubSeq(Held, from + 1, to + 1)
    <2>1. a \in Int /\ b \in Int
        BY IndexAssumption
    <2>2. LRange(Kept(Held), a, b) = between
        BY <1>1, <2>1, LRangeKept
    <2>3. ItemsBetween(Held, a, b) = between
        BY <1>1, <2>1, BetweenIndices
    <2> HIDE DEF between
    <2> QED
        BY <1>1, <2>2, <2>3
<1> QED
    BY <1>2, <1>3, <1>4, <1>5 DEF ListAnswers

LEMMA SetsAnswer == IInv => SetAnswers
<1> SUFFICES ASSUME IInv, IsSequence
             PROVE  SetAnswers
    BY DEF SetAnswers
<1>1. Held \in Listable /\ Held \in Seq(Items) /\ value = Kept(Held)
    BY HeldListable DEF IInv
<1>2. ReadItems(value) = Held
    BY <1>1, ReadItemsKept
<1>3. SMembers(value) = Held
    <2>1. CASE Held = <<>>
        BY <1>1, <1>2, <2>1, KeptHeader DEF SMembers
    <2>2. CASE Held # <<>>
        <3>1. value = Stored(Held) /\ Count(value) = Len(Held)
            BY <1>1, <2>2, KeptHeader, StoredList
        <3>2. \A i \in 0..(Len(Held) - 1) : Fits(value, Start(value, i))
            BY <1>1, <3>1, StoredList
        <3> QED
            BY <1>2, <3>1, <3>2 DEF SMembers
    <2> QED
        BY <2>1, <2>2
<1>4. ASSUME NEW x \in Items
      PROVE  SIsMember(value, x) <=> x # <<>> /\ x \in ToSet(Held)
    BY <1>1, <1>2 DEF SIsMember, Contains, ToSet
<1>5. ASSUME NEW xs \in Batches
      PROVE  /\ \A r \in SAdd(value, xs) : r.reply = Cardinality(ToSet(xs) \ ToSet(Held))
             /\ IsInjective(xs) =>
                   \A r \in SRem(value, xs) : r.reply = Cardinality(ToSet(xs) \cap ToSet(Held))
    <2>1. xs \in Seq(Seq(Byte))
        BY BatchItems
    <2> QED
        BY <1>1, <2>1, SAddKept, SRemKept
<1>6. content.type = "set" => IsInjective(Held)
    BY DEF IInv, ItemsKept
<1> QED
    BY <1>3, <1>4, <1>5, <1>6 DEF SetAnswers

LEMMA SortedSetsRanked == IInv => SortedSetRanked
<1> SUFFICES ASSUME IInv, IsRanked
             PROVE  SortedSetRanked
    BY DEF SortedSetRanked
<1>1. Rankable(Scores) /\ StandsFor(value, Scores)
    BY ScoresRankable DEF IInv
<1> QED
    BY <1>1, ReadsRanked DEF SortedSetRanked

LEMMA SortedSetsAnswer == IInv => SortedSetAnswers
<1> SUFFICES ASSUME IInv, IsRanked
             PROVE  SortedSetAnswers
    BY DEF SortedSetAnswers
<1> DEFINE p == ReadEntries(value)
           members == [i \in DOMAIN p |-> p[i].member]
<1>1. Rankable(Scores) /\ StandsFor(value, Scores)
    BY ScoresRankable DEF IInv
<1>2. p \in Seq(Found) /\ DOMAIN p = 1..Len(p)
    BY <1>1, ReadBack, SortingScorable
<1>3. members \in Seq(Seq(Byte)) /\ Len(members) = Len(p)
    <2> HIDE DEF p
    <2>1. \A i \in DOMAIN p : p[i] \in Found
        BY <1>2
    <2>2. \A i \in DOMAIN p : p[i].member \in Seq(Byte)
        BY <2>1 DEF Found
    <2> QED
        BY <1>2, <2>2
<1>4. ASSUME NEW a \in Indices, NEW b \in Indices
      PROVE  ZRange(value, a, b) = ItemsBetween(members, a, b)
    <2>1. a \in Int /\ b \in Int
        BY IndexAssumption
    <2> DEFINE n == Len(p)
               from == IF Position(a, n) < 0 THEN 0 ELSE Position(a, n)
               to == IF Position(b, n) >= n THEN n - 1 ELSE Position(b, n)
    <2>2. ZRange(value, a, b) = IF from > to THEN <<>> ELSE SubSeq(members, from + 1, to + 1)
        BY <1>1, <2>1, ZRangeRanked
    <2> HIDE DEF members
    <2>3. ItemsBetween(members, a, b) = IF from > to THEN <<>> ELSE SubSeq(members, from + 1, to + 1)
        BY <1>3, <2>1, BetweenIndices
    <2> QED
        BY <2>2, <2>3
<1>5. \A low, high \in DOMAIN Float :
          ZCount(value, low, high) =
            Cardinality({m \in DOMAIN Scores :
                AtMost(low, Scores[m]) /\ AtMost(Scores[m], high)})
    BY <1>1, ZCountRanked
<1>6. ASSUME NEW b \in DOMAIN Float, NEW m \in Items, NEW r \in ZAdd(value, b, m)
      PROVE  r.reply = IF m = <<>> \/ m \in DOMAIN Scores THEN 0 ELSE 1
    <2>1. CASE m = <<>>
        BY <2>1 DEF ZAdd, Answering
    <2>2. CASE m # <<>>
        BY <1>1, <2>2, ZAddRanked
    <2> QED
        BY <2>1, <2>2
<1> HIDE DEF p
<1> QED
    BY <1>4, <1>5, <1>6 DEF SortedSetAnswers, p

(***************************************************************************)
(* A key that only list and set commands have touched since it was last    *)
(* gone holds exactly the bytes of its items, whatever these commands are, *)
(* in whatever order and by however many clients.                          *)
(***************************************************************************)
THEOREM ListsAreEncoded == Spec => []ListEncoded
<1>1. IInv => ListEncoded
    BY DEF IInv, ItemsKept, ListEncoded, Kept, Stored
<1> QED
    BY <1>1, Invariance, PTL

(***************************************************************************)
(* On such a key LLEN, LINDEX, LRANGE, the pops and LSET answer what the   *)
(* list of items says, for every index: the walks of llen.go, lindex.go,   *)
(* lrange.go, lpop.go, rpop.go and lset.go find the same items.            *)
(***************************************************************************)
THEOREM ListsAnswerRight == Spec => []ListAnswers
BY ListsAnswer, Invariance, PTL

(***************************************************************************)
(* On such a key SMEMBERS, SISMEMBER, SADD and SREM answer what the items  *)
(* say, and a set that SADD or SREM wrote holds no member twice.           *)
(***************************************************************************)
THEOREM SetsAnswerRight == Spec => []SetAnswers
BY SetsAnswer, Invariance, PTL

(***************************************************************************)
(* A key that only ZADD has touched since it was last gone lists every     *)
(* member once with its last score, and if all scores are numbers in the   *)
(* order of score and member.                                              *)
(***************************************************************************)
THEOREM SortedSetsAreRanked == Spec => []SortedSetRanked
BY SortedSetsRanked, Invariance, PTL

(***************************************************************************)
(* On such a key ZRANGE answers the members of the ranks asked for, ZCOUNT *)
(* counts them between two scores, and ZADD tells a new member.            *)
(***************************************************************************)
THEOREM SortedSetsAnswerRight == Spec => []SortedSetAnswers
BY SortedSetsAnswer, Invariance, PTL

=============================================================================
