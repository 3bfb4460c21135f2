---------------------------- MODULE CountersProofs ----------------------------
(* Proofs about the counters of Values, for every value of its constants: any   *)
(* width of integers, any other commands on the same key, any number of         *)
(* clients.                                                                     *)
EXTENDS Values, TLAPS

-----------------------------------------------------------------------------
(* Arithmetic. *)

LEMMA DivAddMul ==
    ASSUME NEW a \in Int, NEW q \in Int, NEW m \in Nat \ {0}
    PROVE  (a + q * m) \div m = (a \div m) + q
OBVIOUS

LEMMA ModIsRest ==
    ASSUME NEW a \in Int, NEW m \in Nat \ {0}
    PROVE  a % m = a - m * (a \div m) /\ a \div m \in Int /\ a % m \in Int
OBVIOUS

LEMMA ModAddMul ==
    ASSUME NEW a \in Int, NEW q \in Int, NEW m \in Nat \ {0}
    PROVE  (a + q * m) % m = a % m
<1> DEFINE b == a + q * m
<1>1. b \in Int
    OBVIOUS
<1>2. b % m = b - m * (b \div m)
    BY <1>1, ModIsRest
<1>3. b \div m = (a \div m) + q
    BY DivAddMul
<1>4. a % m = a - m * (a \div m) /\ a \div m \in Int
    BY ModIsRest
<1>5. b - m * ((a \div m) + q) = a - m * (a \div m)
    BY <1>4
<1> QED
    BY <1>2, <1>3, <1>4, <1>5

LEMMA ModOfSum ==
    ASSUME NEW a \in Int, NEW b \in Int, NEW m \in Nat \ {0}
    PROVE  ((a % m) + b) % m = (a + b) % m
<1>1. PICK q \in Int : q = a \div m
    BY ModIsRest
<1>2. PICK r \in Int : r = a % m
    BY ModIsRest
<1>3. r = a - m * q
    BY <1>1, <1>2, ModIsRest
<1>4. PICK c \in Int : c = r + b
    OBVIOUS
<1>5. (c + q * m) % m = c % m
    BY ModAddMul
<1>6. c + q * m = a + b
    BY <1>3, <1>4
<1> QED
    BY <1>2, <1>4, <1>5, <1>6

\* Half of the integers are negative.
LEMMA HalfFacts == IntMod \div 2 \in Nat /\ 2 * (IntMod \div 2) = IntMod /\ IntMod \in Nat \ {0}
BY TextAssumption

LEMMA TextFacts ==
    /\ \A n \in Int64 : Text[n] \in DOMAIN Parse /\ Parse[Text[n]] = n
    /\ \A s \in DOMAIN Parse : Parse[s] \in Int64
    /\ Absent \notin DOMAIN Parse /\ NotInteger \notin Int64
BY TextAssumption, AbsentAssumption

LEMMA WrappedType == \A n \in Int : Wrapped(n) \in Int64
BY HalfFacts DEF Wrapped, Int64

LEMMA WrappedFits == \A n \in Int64 : Wrapped(n) = n
BY HalfFacts DEF Wrapped, Int64

\* What wrapped before is as if it had not.
LEMMA WrappedSum == \A a, b \in Int : Wrapped(Wrapped(a) + b) = Wrapped(a + b)
<1> SUFFICES ASSUME NEW a \in Int, NEW b \in Int
             PROVE  Wrapped(Wrapped(a) + b) = Wrapped(a + b)
    OBVIOUS
<1> DEFINE h == IntMod \div 2
<1>1. h \in Nat /\ IntMod \in Nat \ {0}
    BY HalfFacts
<1>2. (a + h) % IntMod \in Int
    BY <1>1
<1>3. Wrapped(Wrapped(a) + b) = ((((a + h) % IntMod) - h + b + h) % IntMod) - h
    BY DEF Wrapped
<1> HIDE DEF h
<1>4. ((a + h) % IntMod) - h + b + h = ((a + h) % IntMod) + b
    BY <1>1, <1>2
<1>8. a + h \in Int
    BY <1>1
<1>5. (((a + h) % IntMod) + b) % IntMod = (a + h + b) % IntMod
    BY <1>1, <1>8, ModOfSum
<1>6. a + h + b = a + b + h
    BY <1>1
<1>7. Wrapped(a + b) = ((a + b + h) % IntMod) - h
    BY DEF Wrapped, h
<1> QED
    BY <1>3, <1>4, <1>5, <1>6, <1>7

-----------------------------------------------------------------------------

\* What is invariant: of a counter, the text and that its sum is an integer.
IInv ==
    content.type = "counter" => content.total \in Int /\ value = Text[Wrapped(content.total)]

LEMMA IInvIsExact == IInv => CounterExact
BY WrappedFits DEF IInv, CounterExact

\* The sum that a counter command starts from is an integer, and the text that
\* it finds is that of the sum.
LEMMA TotalFacts ==
    ASSUME IInv, value \in DOMAIN Parse
    PROVE  Total \in Int /\ Wrapped(Parse[value]) = Wrapped(Total) /\ Parse[value] \in Int64
<1>1. value # Absent /\ Parse[value] \in Int64
    BY TextFacts
<1>2. CASE content.type = "counter"
    <2>1. Wrapped(content.total) \in Int64
        BY <1>2, WrappedType DEF IInv
    <2>2. Parse[value] = Wrapped(content.total)
        BY <1>2, <2>1, TextFacts DEF IInv
    <2> QED
        BY <1>1, <1>2, <2>1, <2>2, WrappedFits DEF Total, IInv
<1>3. CASE content.type # "counter"
    BY <1>1, <1>3, HalfFacts DEF Total, Int64
<1> QED
    BY <1>2, <1>3

\* A sum in the range of int64 and what is below or above it.
LEMMA SumFacts ==
    ASSUME NEW p \in Int, NEW t \in Int, NEW n \in Int, Wrapped(p) = Wrapped(t)
    PROVE  Wrapped(p + n) = Wrapped(t + n)
<1>1. Wrapped(p + n) = Wrapped(Wrapped(p) + n) /\ Wrapped(t + n) = Wrapped(Wrapped(t) + n)
    BY WrappedSum
<1> QED
    BY <1>1

\* Of a counter the value is there, and it is the text of an integer.
LEMMA CounterHasText ==
    ASSUME IInv, content.type = "counter"
    PROVE  value \in DOMAIN Parse /\ value # Absent
<1>1. Wrapped(content.total) \in Int64
    BY WrappedType DEF IInv
<1> QED
    BY <1>1, TextFacts DEF IInv

\* INCR, INCRBY, DECR and DECRBY.
LEMMA CountsStep ==
    ASSUME IInv, NEW n \in Int, NEW r, Counts(r, n),
           \/ r.reply = NotInteger /\ r.value = value
           \/ r.reply # NotInteger /\ value = Absent /\ r.value = Text[Wrapped(n)]
           \/ /\ r.reply # NotInteger
              /\ value \in DOMAIN Parse /\ r.value = Text[Wrapped(Parse[value] + n)]
    PROVE  IInv'
<1>1. value' = r.value
    BY DEF Counts
<1>2. CASE r.reply = NotInteger /\ r.value = value
    BY <1>1, <1>2 DEF Counts, IInv
<1>3. CASE r.reply # NotInteger
    <2>1. content'.type = "counter" /\ content'.total = Total + n
        BY <1>3 DEF Counts
    <2>2. CASE value = Absent /\ r.value = Text[Wrapped(n)]
        <3>1. Total = 0
            BY <2>2, CounterHasText DEF Total
        <3> QED
            BY <1>1, <2>1, <2>2, <3>1 DEF IInv
    <2>3. CASE value \in DOMAIN Parse /\ r.value = Text[Wrapped(Parse[value] + n)]
        <3>1. Total \in Int /\ Wrapped(Parse[value]) = Wrapped(Total) /\ Parse[value] \in Int
            BY <2>3, TotalFacts, HalfFacts DEF Int64
        <3>2. Wrapped(Parse[value] + n) = Wrapped(Total + n)
            BY <3>1, SumFacts
        <3> QED
            BY <1>1, <2>1, <2>3, <3>1, <3>2 DEF IInv
    <2> QED
        BY <1>3, <2>2, <2>3
<1> QED
    BY <1>2, <1>3

LEMMA IncrementStep ==
    ASSUME IInv, NEW n \in Deltas, Increment(n)
    PROVE  IInv'
<1>1. n \in Int64 /\ n \in Int /\ Wrapped(n) = n
    BY IndexAssumption, WrappedFits, HalfFacts DEF Int64
<1>0. n # NotInteger /\ (value \in DOMAIN Parse => Wrapped(Parse[value] + n) # NotInteger)
    BY <1>1, WrappedType, TextFacts, HalfFacts DEF Int64
<1> DEFINE r == IncrBy(value, n)
<1>2. \/ r.reply = NotInteger /\ r.value = value
      \/ r.reply # NotInteger /\ value = Absent /\ r.value = Text[Wrapped(n)]
      \/ /\ r.reply # NotInteger
         /\ value \in DOMAIN Parse /\ r.value = Text[Wrapped(Parse[value] + n)]
    BY <1>0, <1>1 DEF IncrBy, Answering
<1>3. Counts(r, n)
    BY DEF Increment
<1> HIDE DEF r
<1> QED
    BY <1>1, <1>2, <1>3, CountsStep

LEMMA DecrementStep ==
    ASSUME IInv, NEW n \in Deltas, Decrement(n)
    PROVE  IInv'
<1>1. n \in Int /\ -n \in Int
    BY IndexAssumption, HalfFacts DEF Int64
<1> DEFINE r == DecrBy(value, n)
<1>2. value \in DOMAIN Parse => Parse[value] - n = Parse[value] + (-n)
    BY <1>1, TextFacts, HalfFacts DEF Int64
<1>0. /\ Wrapped(-n) # NotInteger
      /\ value \in DOMAIN Parse => Wrapped(Parse[value] - n) # NotInteger
    BY <1>1, WrappedType, TextFacts, HalfFacts DEF Int64
<1>3. \/ r.reply = NotInteger /\ r.value = value
      \/ r.reply # NotInteger /\ value = Absent /\ r.value = Text[Wrapped(-n)]
      \/ /\ r.reply # NotInteger
         /\ value \in DOMAIN Parse /\ r.value = Text[Wrapped(Parse[value] + (-n))]
    BY <1>0, <1>2 DEF DecrBy, Answering
<1>4. Counts(r, -n)
    BY DEF Decrement
<1> HIDE DEF r
<1> QED
    BY <1>1, <1>3, <1>4, CountsStep

\* A list or set command leaves no counter but one that it did not change.
LEMMA ItemsStep ==
    ASSUME IInv, NEW d, NEW t, NEW xs, LeavesItems(d, t, xs),
           IsSequence => t # "counter"
    PROVE  IInv'
<1>1. CASE IsSequence
    BY <1>1 DEF LeavesItems, Sequence, Nothing, IInv
<1>2. CASE ~IsSequence
    BY <1>2 DEF LeavesItems, Mixed, Nothing, Other, IInv
<1> QED
    BY <1>1, <1>2

LEMMA UpdateStep ==
    ASSUME IInv, NEW c \in Clients, Update(c)
    PROVE  IInv'
BY ItemsStep DEF Update

LEMMA PopStep ==
    ASSUME IInv, PopLeft \/ PopRight
    PROVE  IInv'
BY ItemsStep DEF PopLeft, PopRight, IsSequence

LEMMA SetItemStep ==
    ASSUME IInv, NEW i \in Indices, NEW x \in Items, SetItem(i, x)
    PROVE  IInv'
BY ItemsStep DEF SetItem, IsSequence

LEMMA MembersStep ==
    ASSUME IInv, NEW xs \in Batches, AddMembers(xs) \/ RemoveMembers(xs)
    PROVE  IInv'
<1>1. CASE AddMembers(xs)
    BY <1>1, ItemsStep DEF AddMembers
<1>2. CASE RemoveMembers(xs)
    BY <1>2, ItemsStep DEF RemoveMembers, IsSequence
<1> QED
    BY <1>1, <1>2

LEMMA AddScoredStep ==
    ASSUME IInv, NEW b \in DOMAIN Float, NEW m \in Items, AddScored(b, m)
    PROVE  IInv'
BY DEF AddScored, Mixed, Nothing, Other, IInv

LEMMA StringStep ==
    ASSUME IInv, Del \/ \E s \in Strings : Set(s) \/ AppendString(s)
    PROVE  IInv'
BY DEF Del, Set, AppendString, Nothing, Other, IInv

LEMMA NextKeeps == IInv /\ [Next]_vars => IInv'
<1> SUFFICES ASSUME IInv, [Next]_vars
             PROVE  IInv'
    OBVIOUS
<1>1. CASE UNCHANGED vars
    BY <1>1 DEF vars, IInv
<1>2. CASE \E c \in Clients, side \in {"left", "right"}, xs \in Batches : Check(c, side, xs)
    BY <1>2 DEF Check, IInv
<1>3. CASE \E c \in Clients : Update(c)
    BY <1>3, UpdateStep
<1>4. CASE \E c \in Clients : UpdateFails(c) \/ ReadAgain(c)
    BY <1>4 DEF UpdateFails, ReadAgain, IInv
<1>5. CASE PopLeft \/ PopRight
    BY <1>5, PopStep
<1>6. CASE \E i \in Indices, x \in Items : SetItem(i, x)
    BY <1>6, SetItemStep
<1>7. CASE \E xs \in Batches : AddMembers(xs) \/ RemoveMembers(xs)
    BY <1>7, MembersStep
<1>8. CASE \E b \in DOMAIN Float, m \in Items : AddScored(b, m)
    BY <1>8, AddScoredStep
<1>9. CASE \E n \in Deltas : Increment(n) \/ Decrement(n)
    BY <1>9, IncrementStep, DecrementStep
<1>10. CASE Del \/ \E s \in Strings : Set(s) \/ AppendString(s)
    BY <1>10, StringStep
<1> QED
    BY <1>1, <1>2, <1>3, <1>4, <1>5, <1>6, <1>7, <1>8, <1>9, <1>10 DEF Next

(***************************************************************************)
(* Whatever the width of integers, whoever increments and decrements a     *)
(* counter and whatever else is done to the key in between, a counter is   *)
(* the sum of what was added to it and taken from it, wrapped once: no     *)
(* number of overflows on the way makes it differ.  (modifyIntegerBy.)     *)
(***************************************************************************)
THEOREM CounterCorrect == Spec => []CounterExact
<1>1. Init => IInv
    BY DEF Init, Nothing, IInv
<1>2. IInv /\ [Next]_vars => IInv'
    BY NextKeeps
<1>3. IInv => CounterExact
    BY IInvIsExact
<1> QED
    BY <1>1, <1>2, <1>3, PTL DEF Spec

=============================================================================
