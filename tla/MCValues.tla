------------------------------- MODULE MCValues -------------------------------
(* Small instances of Values: numbers of base 4, a header of two bytes, lengths *)
(* and scores of one, integers of two bits.                                     *)
EXTENDS Values, TLC

CONSTANTS c1, c2

SmallItems == {<<>>, <<2>>, <<2, 0>>, <<3, 1>>}

SmallBatches == {<<<<>>>>, <<<<2>>, <<3, 1>>>>, <<<<2>>, <<2>>>>}

\* The bits 2 stand for a negative score.
SmallFloat == [b \in 0..3 |-> CASE b = 0 -> 0 [] b = 1 -> 1 [] b = 2 -> -1 [] b = 3 -> NaN]

\* The byte 3 is the sign of a negative integer; 2 is that of a positive one,
\* which is parsed and not written.
SmallText == [n \in -2..1 |-> IF n < 0 THEN <<3, -n>> ELSE <<n>>]

SmallParse == [s \in {<<3, 2>>, <<3, 1>>, <<0>>, <<1>>, <<3, 0>>, <<2, 1>>} |->
                IF Len(s) = 1 THEN s[1] ELSE IF s[1] = 3 THEN -s[2] ELSE s[2]]

\* A string too short for a header, one that looks like a list, half a list,
\* one whose count is negative, and an integer in a text of its own.
SomeStrings == {<<>>, <<1, 0, 1, 2>>, <<2, 0, 1, 3>>, <<3, 3, 1, 1>>, <<2, 1>>}

SmallIndices == -3..3

SmallDeltas == -2..1

ClientSymmetry == Permutations({c1, c2})

=============================================================================
