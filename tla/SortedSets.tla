------------------------------ MODULE SortedSets ------------------------------
(***************************************************************************)
(* How sorted sets are stored as bytes: internal/storage/zadd.go,          *)
(* zrange.go and zcount.go.  After the header comes for each member its    *)
(* score, its length and its bytes, in the order of the scores.            *)
(***************************************************************************)
EXTENDS Encoding, Ranking

CONSTANT ScoreSize      \* bytes of a score: 8 in the code

ASSUME ScoreAssumption == ScoreSize \in Nat \ {0} /\ DOMAIN Float = 0..(Power[ScoreSize] - 1)

HasEntry(d, o) == o + ScoreSize <= Len(d) /\ Fits(d, o + ScoreSize)

\* The offset of entry n, or one past the end when the data ends before it.
EntryStart(d, n) ==
    LET o[i \in 0..n] ==
          IF i = 0 THEN HeaderSize
          ELSE IF HasEntry(d, o[i - 1]) THEN Beyond(d, o[i - 1] + ScoreSize) ELSE Len(d) + 1
    IN  o[n]

EntryAt(d, o) ==
    [score |-> Number(Slice(d, o, o + ScoreSize)), member |-> ItemAt(d, o + ScoreSize)]

\* The entries that are read until there are as many as the header says or the
\* data ends.
ReadEntries(d) ==
    IF ~HasHeader(d) THEN <<>>
    ELSE LET whole == {i \in 0..(Count(d) - 1) : HasEntry(d, EntryStart(d, i))}
         IN  [i \in 1..Cardinality(whole) |-> EntryAt(d, EntryStart(d, i - 1))]

EncodedEntry(e) == Put(e.score, ScoreSize) \o EncodedItem(e.member)

EncodedEntries(p) == FlattenSeq([i \in DOMAIN p |-> EncodedEntry(p[i])])

\* The map that ZAdd makes of the entries it reads: the last one of a member
\* counts.
ScoresOf(p) ==
    [m \in {p[i].member : i \in DOMAIN p} |->
        p[Max({i \in DOMAIN p : p[i].member = m})].score]

EntriesOf(scores) == {[score |-> scores[m], member |-> m] : m \in DOMAIN scores}

Scored(scores, m, b) == [x \in DOMAIN scores \cup {m} |-> IF x = m THEN b ELSE scores[x]]

\* ZAdd, which refuses the empty member.
ZAdd(d, b, m) ==
    LET old == ScoresOf(ReadEntries(d))
        all == EntriesOf(Scored(old, m, b))
    IN  IF m = <<>> THEN {Answering(0, d)}
        ELSE {Answering(IF m \in DOMAIN old THEN 0 ELSE 1,
                        Header(Cardinality(all)) \o EncodedEntries(p)) : p \in Sortings(all)}

\* ZRange, which leaves out the ranks that the data does not reach.
ZRange(d, a, b) ==
    IF ~HasHeader(d) THEN <<>>
    ELSE LET n == Count(d)
             from == IF Position(a, n) < 0 THEN 0 ELSE Position(a, n)
             to == IF Position(b, n) >= n THEN n - 1 ELSE Position(b, n)
             p == ReadEntries(d)
             read == SubSeq(p, from + 1, Min({to + 1, Len(p)}))
         IN  IF n = 0 \/ from > to THEN <<>> ELSE [i \in DOMAIN read |-> read[i].member]

\* Variant of ZCount that counts a score unless it is outside of the range.
ZCount_NotOutside(d, low, high) ==
    LET p == ReadEntries(d)
        below(b, c) == AtMost(b, c) /\ ~Equal(b, c)
    IN  Cardinality({i \in DOMAIN p : ~below(p[i].score, low) /\ ~below(high, p[i].score)})

ZCount(d, low, high) ==
    LET p == ReadEntries(d)
    IN  Cardinality({i \in DOMAIN p : AtMost(low, p[i].score) /\ AtMost(p[i].score, high)})

=============================================================================
