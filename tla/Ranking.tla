------------------------------- MODULE Ranking --------------------------------
(***************************************************************************)
(* The order of a sorted set: the comparison that ZADD gives to sort.Slice *)
(* (internal/storage/zadd.go), and what sorting with it can lead to.       *)
(*                                                                         *)
(* A score is the bits of a float64; Float says which number they stand    *)
(* for.  Only the order of numbers matters, so integers stand for floats.  *)
(***************************************************************************)
EXTENDS Integers, FiniteSets, Sequences

CONSTANTS
    Float,      \* the number of each pattern of bits
    NaN         \* of the patterns that are no number

ASSUME FloatAssumption == NaN \notin Int /\ \A b \in DOMAIN Float : Float[b] \in Int \cup {NaN}

Numeric(b) == Float[b] # NaN

\* score <= score and score = score of Go: nothing compares with NaN.
AtMost(b, c) == Numeric(b) /\ Numeric(c) /\ Float[b] <= Float[c]

Equal(b, c) == Numeric(b) /\ Float[b] = Float[c]

Entry == [score : DOMAIN Float, member : Seq(Nat)]

\* The first difference of s and t is at n + 1, or s ends there.
Precedes(s, t, n) ==
    /\ n <= Len(s) /\ n < Len(t)
    /\ \A i \in 1..n : s[i] = t[i]
    /\ n < Len(s) => s[n + 1] < t[n + 1]

\* The comparison of strings in Go.
StringLess(s, t) == \E n \in 0..Len(s) : Precedes(s, t, n)

\* Variant of Less that leaves ties to chance.
Less_ScoreOnly(x, y) == AtMost(x.score, y.score) /\ ~Equal(x.score, y.score)

\* The function that sort.Slice is called with.
Less(x, y) ==
    IF Equal(x.score, y.score) THEN StringLess(x.member, y.member)
    ELSE AtMost(x.score, y.score)

\* No entry is less than the one before it.
Settled(p) == \A i \in 1..(Len(p) - 1) : ~Less(p[i + 1], p[i])

\* What sort.Slice can make of a map's entries.  Up to twelve entries it is an
\* insertion sort, which ends with no entry less than the one before it, and
\* leaves an order like that alone; the random order of the map may be any.
Sortings(E) ==
    {p \in [1..Cardinality(E) -> E] : (\A i, j \in DOMAIN p : p[i] = p[j] => i = j) /\ Settled(p)}

\* Every entry is less than all that follow it.
Ranked(p) == \A i, j \in DOMAIN p : i < j => Less(p[i], p[j])

=============================================================================
