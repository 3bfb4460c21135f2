------------------------------ MODULE Encoding -------------------------------
(***************************************************************************)
(* How lists are stored as bytes: internal/storage/utils.go and the byte   *)
(* work of lpush.go, rpush.go, lpop.go, rpop.go, llen.go, lindex.go,       *)
(* lset.go and lrange.go.                                                  *)
(*                                                                         *)
(* A stored list is a header with the number of items, then for each item  *)
(* its length and its bytes, all numbers little-endian.  Nothing says that *)
(* a value is a list: every operation takes the bytes that it finds for    *)
(* one.  The operators below say what each operation answers and leaves,   *)
(* for any bytes.  Offsets count from 0, as in the code.                   *)
(***************************************************************************)
EXTENDS Integers, SequencesExt

CONSTANTS
    ByteMod,      \* 256 in the code
    HeaderSize,   \* bytes of the header: 8 in the code
    LengthSize,   \* bytes of the length of an item: 4 in the code
    Absent,       \* the value of a key that is not stored
    NotFound      \* ErrKeyNotFound

ASSUME ByteAssumption == ByteMod \in Nat \ {0, 1}

ASSUME SizeAssumption == HeaderSize \in Nat \ {0} /\ LengthSize \in Nat \ {0}

Byte == 0..(ByteMod - 1)

ASSUME AbsentAssumption == Absent \notin Seq(Byte) /\ NotFound \notin Seq(Byte)

-----------------------------------------------------------------------------
(* Numbers and items among the bytes. *)

\* What the lowest bit of byte k + 1 stands for.
Power[k \in Nat] == IF k = 0 THEN 1 ELSE ByteMod * Power[k - 1]

\* Variant of Put that does not cut its bytes to their size.
Put_Uncut(n, w) == [i \in 1..w |-> n \div Power[i - 1]]

\* PutUint64 and PutUint32: n in w bytes, the lowest first.
Put(n, w) == [i \in 1..w |-> (n \div Power[i - 1]) % ByteMod]

\* Uint64 and Uint32: the sum of the bytes, from the lowest.
Number(s) ==
    LET sum[i \in 0..Len(s)] == IF i = 0 THEN 0 ELSE sum[i - 1] + Power[i - 1] * s[i]
    IN  sum[Len(s)]

\* The conversion of the header to int64.
Signed(n) == IF 2 * n >= Power[HeaderSize] THEN n - Power[HeaderSize] ELSE n

Slice(d, from, to) == SubSeq(d, from + 1, to)

HasHeader(d) == d # Absent /\ Len(d) >= HeaderSize

Count(d) == Signed(Number(Slice(d, 0, HeaderSize)))

HasLength(d, o) == o + LengthSize <= Len(d)

\* The offset of the item after the one at o.
Beyond(d, o) == o + LengthSize + Number(Slice(d, o, o + LengthSize))

Fits(d, o) == HasLength(d, o) /\ Beyond(d, o) <= Len(d)

ItemAt(d, o) == Slice(d, o + LengthSize, Beyond(d, o))

\* The offset of item n, or one past the end when the walk there runs out of
\* data.
Start(d, n) ==
    LET o[i \in 0..n] ==
          IF i = 0 THEN HeaderSize
          ELSE IF HasLength(d, o[i - 1]) THEN Beyond(d, o[i - 1]) ELSE Len(d) + 1
    IN  o[n]

\* Every item from the first to the one before n has its length.
Walks(d, n) == \A i \in 0..(n - 1) : HasLength(d, Start(d, i))

Header(n) == Put(n, HeaderSize)

EncodedItem(x) == Put(Len(x), LengthSize) \o x

EncodedItems(xs) == FlattenSeq([i \in DOMAIN xs |-> EncodedItem(xs[i])])

\* isListData.
IsListData(d) ==
    HasHeader(d) /\ Count(d) >= 0 /\ Walks(d, Count(d)) /\ Start(d, Count(d)) = Len(d)

-----------------------------------------------------------------------------
(* The operations: what they answer, and the value that they leave. *)

Answering(reply, d) == [reply |-> reply, value |-> d]

\* What a push finds; a value too short for a header is dropped.
OldCount(d) == IF HasHeader(d) THEN Count(d) ELSE 0
OldItems(d) == IF HasHeader(d) THEN Slice(d, HeaderSize, Len(d)) ELSE <<>>

\* Variant of LPush that keeps the order of the values.
LPush_InOrder(d, xs) ==
    Answering(OldCount(d) + Len(xs),
              Header(OldCount(d) + Len(xs)) \o EncodedItems(xs) \o OldItems(d))

LPush(d, xs) ==
    Answering(OldCount(d) + Len(xs),
              Header(OldCount(d) + Len(xs)) \o EncodedItems(Reverse(xs)) \o OldItems(d))

RPush(d, xs) ==
    Answering(OldCount(d) + Len(xs),
              Header(OldCount(d) + Len(xs)) \o OldItems(d) \o EncodedItems(xs))

LPop(d) ==
    IF ~HasHeader(d) THEN Answering(NotFound, d)
    ELSE IF Count(d) = 0 \/ ~Fits(d, HeaderSize) THEN Answering(NotFound, d)
    ELSE Answering(ItemAt(d, HeaderSize),
                   IF Count(d) = 1 THEN Absent
                   ELSE Header(Count(d) - 1)
                        \o Slice(d, Beyond(d, HeaderSize), Len(d)))

\* The last item; the first one if the count is negative.
LastStart(d) == Start(d, IF Count(d) > 0 THEN Count(d) - 1 ELSE 0)

RPop(d) ==
    IF ~HasHeader(d) THEN Answering(NotFound, d)
    ELSE IF Count(d) = 0 \/ ~Fits(d, LastStart(d)) THEN Answering(NotFound, d)
    ELSE Answering(ItemAt(d, LastStart(d)),
                   IF Count(d) = 1 THEN Absent
                   ELSE Header(Count(d) - 1) \o Slice(d, HeaderSize, LastStart(d)))

LLen(d) == IF HasHeader(d) THEN Count(d) ELSE 0

\* A negative index counts from the end.
Position(i, n) == IF i < 0 THEN n + i ELSE i

LIndex(d, i) ==
    IF ~HasHeader(d) THEN NotFound
    ELSE LET k == Position(i, Count(d)) IN
         IF k < 0 \/ k >= Count(d) THEN NotFound
         ELSE IF Fits(d, Start(d, k)) THEN ItemAt(d, Start(d, k)) ELSE NotFound

\* LSet, which does not need the item that it replaces to fit.
LSet(d, i, x) ==
    IF ~HasHeader(d) THEN Answering(NotFound, d)
    ELSE LET n == Count(d)
             k == Position(i, n)
         IN  IF \/ k < 0 \/ k >= n
                \/ ~Walks(d, n)
                \/ \E j \in 0..(n - 1) : j # k /\ ~Fits(d, Start(d, j))
             THEN Answering(NotFound, d)
             ELSE Answering("OK",
                    Header(n) \o Slice(d, HeaderSize, Start(d, k)) \o EncodedItem(x)
                    \o Slice(d, Start(d, k + 1), Start(d, n)))

\* Variant of LRange that forgets that an end beyond the list is the last item.
LRange_Unclamped(d, a, b) ==
    IF ~HasHeader(d) THEN <<>>
    ELSE LET n == Count(d)
             from == IF Position(a, n) < 0 THEN 0 ELSE Position(a, n)
             to == Position(b, n)
         IN  IF n = 0 \/ from > to THEN <<>>
             ELSE IF \/ ~Walks(d, n) \/ to >= n
                     \/ \E j \in from..to : j < n /\ ~Fits(d, Start(d, j)) THEN NotFound
             ELSE [j \in 1..(to - from + 1) |-> ItemAt(d, Start(d, from + j - 1))]

\* LRange, which walks over the whole list whatever part of it is asked for.
LRange(d, a, b) ==
    IF ~HasHeader(d) THEN <<>>
    ELSE LET n == Count(d)
             from == IF Position(a, n) < 0 THEN 0 ELSE Position(a, n)
             to == IF Position(b, n) >= n THEN n - 1 ELSE Position(b, n)
         IN  IF n = 0 \/ from > to THEN <<>>
             ELSE IF ~Walks(d, n) \/ \E j \in from..to : j < n /\ ~Fits(d, Start(d, j))
             THEN NotFound
             ELSE [j \in 1..(to - from + 1) |-> ItemAt(d, Start(d, from + j - 1))]

=============================================================================
