------------------------------- MODULE Counters -------------------------------
(***************************************************************************)
(* INCR, INCRBY, DECR and DECRBY: modifyIntegerBy of internal/storage      *)
(* (utils.go) and the four commands that call it.  The text of an integer  *)
(* is a string of bytes; which text stands for which integer is left to    *)
(* the constants.                                                          *)
(***************************************************************************)
EXTENDS Encoding

CONSTANTS
    IntMod,       \* 2^64 in the code
    Text,         \* strconv.FormatInt: the text of each int64
    Parse,        \* strconv.ParseInt: the int64 of each text that has one
    NotInteger    \* ErrNotInteger

Int64 == (-(IntMod \div 2))..(IntMod \div 2 - 1)

ASSUME TextAssumption ==
    /\ IntMod \in Nat \ {0} /\ IntMod % 2 = 0
    /\ DOMAIN Text = Int64
    /\ \A n \in Int64 : Text[n] \in DOMAIN Parse /\ Parse[Text[n]] = n
    /\ \A s \in DOMAIN Parse : Parse[s] \in Int64
    /\ DOMAIN Parse \subseteq Seq(Byte) /\ NotInteger \notin Int64

\* What is left of a sum in an int64.
Wrapped(n) == ((n + IntMod \div 2) % IntMod) - (IntMod \div 2)

\* Variant of IncrBy that stays at the ends instead of wrapping.
IncrBy_Saturates(d, n) ==
    LET cut(k) == IF k \in Int64 THEN k ELSE IF k < 0 THEN -(IntMod \div 2) ELSE IntMod \div 2 - 1
    IN  IF d = Absent THEN Answering(n, Text[n])
        ELSE IF d \in DOMAIN Parse THEN Answering(cut(Parse[d] + n), Text[cut(Parse[d] + n)])
        ELSE Answering(NotInteger, d)

\* modifyIntegerBy with an addition.
IncrBy(d, n) ==
    IF d = Absent THEN Answering(n, Text[n])
    ELSE IF d \in DOMAIN Parse THEN Answering(Wrapped(Parse[d] + n), Text[Wrapped(Parse[d] + n)])
    ELSE Answering(NotInteger, d)

\* modifyIntegerBy with a subtraction.
DecrBy(d, n) ==
    IF d = Absent THEN Answering(Wrapped(-n), Text[Wrapped(-n)])
    ELSE IF d \in DOMAIN Parse THEN Answering(Wrapped(Parse[d] - n), Text[Wrapped(Parse[d] - n)])
    ELSE Answering(NotInteger, d)

=============================================================================
