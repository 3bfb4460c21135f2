------------------------------- MODULE Values ---------------------------------
(***************************************************************************)
(* The commands on the value of one key: lists, sets, sorted sets,         *)
(* counters and strings, as the transactions of internal/storage and the   *)
(* commands of internal/service around them.  Nothing but LPUSH and RPUSH  *)
(* looks at the type of a value, and nothing stores it: every command      *)
(* takes the bytes that it finds for bytes of its own type.                *)
(*                                                                         *)
(* A command is one transaction of LMDB, except LPUSH and RPUSH: they look *)
(* at the type of the value in a transaction of its own, write in another, *)
(* and a push that answers 0 reads the key once more.  Queries change      *)
(* nothing: the properties say what they answer in every state.            *)
(*                                                                         *)
(* Next to the bytes goes the content that a client expects, kept by the   *)
(* plain definition of each command as long as the commands are of types   *)
(* that go together: list and set commands, which have one encoding, or    *)
(* sorted set commands, or counter commands.                               *)
(***************************************************************************)
EXTENDS Sets, SortedSets, Counters

CONSTANTS
    Clients,    \* goroutines of connections
    Items,      \* items of lists, members of sets and sorted sets
    Batches,    \* the lists of items that a command is called with
    Strings,    \* values that SET stores and APPEND adds
    Indices,    \* integers that indices are
    Deltas,     \* integers that INCRBY and DECRBY are called with
    MaxItems,   \* bound: no push, SADD or ZADD makes a list or sorted set longer
    MaxBytes,   \* bound: no command makes another value longer
    MaxTotal    \* bound on what has been added to a counter

ASSUME ItemAssumption ==
    Items \cup Strings \subseteq Seq(Byte) /\ Batches \subseteq Seq(Items) \ {<<>>}

ASSUME IndexAssumption ==
    /\ Indices \subseteq Int /\ Deltas \subseteq Int64
    /\ MaxItems \in Nat /\ MaxBytes \in Nat /\ MaxTotal \in Nat

\* What fits in the map of LMDB, mapSizeBytes or 2^32 bytes, can be counted in
\* an int64, and its length in four bytes.
ASSUME CapacityAssumption ==
    /\ 2 * MaxItems < Power[HeaderSize]
    /\ \A x \in Items : Len(x) < Power[LengthSize]

VARIABLES
    value,      \* the bytes of the key in LMDB
    content,    \* history: what the key should hold
    push        \* the push that each client has in hand

vars == <<value, content, push>>

-----------------------------------------------------------------------------
(* What the key should hold. *)

Nothing == [type |-> "none"]

\* A value of SET or APPEND, or one that commands of different types wrote.
Other == [type |-> "other"]

\* A set is a list without repetitions, made by SADD or SREM.
Sequence(type, items) == IF items = <<>> THEN Nothing ELSE [type |-> type, items |-> items]

IsSequence == content.type \in {"none", "list", "set"}

Held == IF content.type = "none" THEN <<>> ELSE content.items

IsRanked == content.type \in {"none", "ranked"}

Scores == IF content.type = "none" THEN <<>> ELSE content.scores

\* What was added in sum to a counter that began with the value that is there.
Total ==
    IF content.type = "counter" THEN content.total
    ELSE IF value = Absent THEN 0 ELSE Parse[value]

NoPush == [at |-> "none"]

\* The push is about to answer 0.
Refused == [at |-> "zero"]

Push == {NoPush, Refused} \cup [at : {"update"}, side : {"left", "right"}, items : Batches]

Content ==
    {Nothing, Other}
    \cup [type : {"list", "set"}, items : Seq(Items) \ {<<>>}]
    \cup [type : {"counter"}, total : (-MaxTotal)..MaxTotal]
    \cup [type : {"ranked"}, scores : UNION {[M -> DOMAIN Float] : M \in (SUBSET Items) \ {{}}}]

(***************************************************************************)
(* The key holds bytes or nothing, and its history is one of the contents. *)
(***************************************************************************)
TypeOK ==
    /\ value = Absent \/ value \in Seq(Byte)
    /\ content \in Content
    /\ push \in [Clients -> Push]

Init ==
    /\ value = Absent
    /\ content = Nothing
    /\ push = [c \in Clients |-> NoPush]

\* What is left of a key that did not hold the type of the command.
Mixed(d) == IF d = Absent THEN Nothing ELSE IF d = value THEN content ELSE Other

\* A list or set command leaves the bytes d, and of a list or set these items.
LeavesItems(d, type, items) ==
    /\ value' = d
    /\ content' = IF IsSequence THEN Sequence(type, items) ELSE Mixed(d)
    /\ IF IsSequence THEN Len(items) <= MaxItems ELSE d # Absent => Len(d) <= MaxBytes

-----------------------------------------------------------------------------
(* LPUSH and RPUSH. *)

\* checkKeyType: on a value that is no list the push answers 0 and writes
\* nothing.
Check(c, side, xs) ==
    /\ push[c] = NoPush
    /\ push' = [push EXCEPT ![c] =
                  IF value # Absent => IsListData(value)
                  THEN [at |-> "update", side |-> side, items |-> xs]
                  ELSE Refused]
    /\ UNCHANGED <<value, content>>

\* The transaction that writes, on what the key holds by now.
Update(c) ==
    /\ push[c].at = "update"
    /\ LET xs == push[c].items
           left == push[c].side = "left"
           result == IF left THEN LPush(value, xs) ELSE RPush(value, xs)
       IN  /\ LeavesItems(result.value, "list",
                          IF left THEN Reverse(xs) \o Held ELSE Held \o xs)
           /\ push' = [push EXCEPT ![c] = IF result.reply = 0 THEN Refused ELSE NoPush]

\* The transaction fails, on a full map or a connection that closes.
UpdateFails(c) ==
    /\ push[c].at = "update"
    /\ push' = [push EXCEPT ![c] = Refused]
    /\ UNCHANGED <<value, content>>

\* A length of 0 is taken for a refusal: the command reads the key to choose
\* between 0 and ErrWrongType, and ends.
ReadAgain(c) ==
    /\ push[c] = Refused
    /\ push' = [push EXCEPT ![c] = NoPush]
    /\ UNCHANGED <<value, content>>

-----------------------------------------------------------------------------
(* The commands of one transaction, by a client that has no push in hand. *)

Idle == \E c \in Clients : push[c] = NoPush

\* LPOP and RPOP, which take any value for a list.
PopLeft ==
    /\ LeavesItems(LPop(value).value, content.type, IF Held = <<>> THEN <<>> ELSE Tail(Held))
    /\ UNCHANGED push

PopRight ==
    /\ LeavesItems(RPop(value).value, content.type, IF Held = <<>> THEN <<>> ELSE Front(Held))
    /\ UNCHANGED push

\* LSET, which takes any value for a list too.
SetItem(i, x) ==
    /\ LET k == Position(i, Len(Held)) + 1
       IN  LeavesItems(LSet(value, i, x).value, IF k \in DOMAIN Held THEN "list" ELSE content.type,
                       IF k \in DOMAIN Held THEN [Held EXCEPT ![k] = x] ELSE Held)
    /\ UNCHANGED push

\* The members S in the order of the items p, if these are the members.
Ordered(S, p) == IF p \in SetToSeqs(S) THEN p ELSE SetToSeq(S)

\* SADD and SREM, which take any value for a set.
AddMembers(xs) ==
    /\ \E r \in SAdd(value, xs) :
          LeavesItems(r.value, "set", Ordered(ToSet(Held) \cup ToSet(xs), ReadItems(r.value)))
    /\ UNCHANGED push

RemoveMembers(xs) ==
    /\ \E r \in SRem(value, xs) :
          LET left == ToSet(Held) \ ToSet(xs)
              same == left = ToSet(Held)
          IN  LeavesItems(r.value, IF same THEN content.type ELSE "set",
                          IF same THEN Held ELSE Ordered(left, ReadItems(r.value)))
    /\ UNCHANGED push

\* ZADD of a member that is not empty, which takes any value for a sorted set.
AddScored(b, m) ==
    /\ m # <<>>
    /\ \E r \in ZAdd(value, b, m) :
          /\ value' = r.value
          /\ IF IsRanked THEN Cardinality(DOMAIN Scores \cup {m}) <= MaxItems
             ELSE Len(r.value) <= MaxBytes
    /\ content' = IF IsRanked THEN [type |-> "ranked", scores |-> Scored(Scores, m, b)]
                  ELSE Mixed(value')
    /\ UNCHANGED push

\* INCR and INCRBY, DECR and DECRBY: answer r, after the sum changed by n.
Counts(r, n) ==
    /\ value' = r.value
    /\ IF r.reply = NotInteger THEN UNCHANGED content
       ELSE /\ Total + n \in (-MaxTotal)..MaxTotal
            /\ content' = [type |-> "counter", total |-> Total + n]
    /\ UNCHANGED push

Increment(n) == Counts(IncrBy(value, n), n)

Decrement(n) == Counts(DecrBy(value, n), -n)

Set(s) ==
    /\ value' = s
    /\ content' = Other
    /\ UNCHANGED push

AppendString(s) ==
    /\ value' = IF value = Absent THEN s ELSE value \o s
    /\ Len(value') <= MaxBytes
    /\ content' = Other
    /\ UNCHANGED push

Del ==
    /\ value' = Absent
    /\ content' = Nothing
    /\ UNCHANGED push

-----------------------------------------------------------------------------

Next ==
    \/ \E c \in Clients, side \in {"left", "right"}, xs \in Batches : Check(c, side, xs)
    \/ \E c \in Clients : Update(c) \/ UpdateFails(c) \/ ReadAgain(c)
    \/ Idle /\ (PopLeft \/ PopRight)
    \/ Idle /\ \E i \in Indices, x \in Items : SetItem(i, x)
    \/ Idle /\ \E xs \in Batches : AddMembers(xs) \/ RemoveMembers(xs)
    \/ Idle /\ \E b \in DOMAIN Float, m \in Items : AddScored(b, m)
    \/ Idle /\ \E n \in Deltas : Increment(n) \/ Decrement(n)
    \/ Idle /\ \E s \in Strings : Set(s) \/ AppendString(s)
    \/ Idle /\ Del

Spec == Init /\ [][Next]_vars

-----------------------------------------------------------------------------
(* Properties *)

(***************************************************************************)
(* A key that only list and set commands have touched since it was last    *)
(* gone holds exactly the bytes of its items: no push, pop, LSET, SADD or  *)
(* SREM, in any order and by any clients, loses, repeats or shifts one,    *)
(* and the last item that goes takes the key with it.  (lpush.go,          *)
(* rpush.go, lpop.go, rpop.go, lset.go, sadd.go and srem.go each build     *)
(* the bytes on their own.)                                                *)
(***************************************************************************)
ListEncoded ==
    IsSequence =>
        value = IF Held = <<>> THEN Absent ELSE Header(Len(Held)) \o EncodedItems(Held)

\* The item at index i, and the items whose position is from a to b.
ItemOf(s, i) == LET k == Position(i, Len(s)) + 1 IN IF k \in DOMAIN s THEN s[k] ELSE NotFound

ItemsBetween(s, a, b) ==
    LET wanted == {k \in DOMAIN s : k > Position(a, Len(s)) /\ k <= Position(b, Len(s)) + 1}
    IN  IF wanted = {} THEN <<>> ELSE SubSeq(s, Min(wanted), Max(wanted))

(***************************************************************************)
(* On such a key LLEN, LINDEX and LRANGE answer what the list of items     *)
(* says, for indices of either sign, within the list and beyond it, and    *)
(* LPOP and RPOP would return its ends; LSET refuses exactly the indices   *)
(* that LINDEX does not find.                                              *)
(***************************************************************************)
ListAnswers ==
    IsSequence =>
        /\ LLen(value) = Len(Held)
        /\ LPop(value).reply = ItemOf(Held, 0)
        /\ RPop(value).reply = ItemOf(Held, -1)
        /\ \A i \in Indices :
              /\ LIndex(value, i) = ItemOf(Held, i)
              /\ \A x \in Items :
                    LSet(value, i, x).reply = IF ItemOf(Held, i) = NotFound THEN NotFound ELSE "OK"
        /\ \A a, b \in Indices : LRange(value, a, b) = ItemsBetween(Held, a, b)

(***************************************************************************)
(* On such a key the set commands answer what the items say, whichever     *)
(* commands wrote them: SMEMBERS lists them, SISMEMBER finds every member  *)
(* but the empty one, SADD counts the members that are new and SREM, named *)
(* no member twice, those that were there; and what SADD or SREM wrote and *)
(* pops have shortened holds no member twice.                              *)
(***************************************************************************)
SetAnswers ==
    IsSequence =>
        /\ SMembers(value) = Held
        /\ \A x \in Items : SIsMember(value, x) <=> x # <<>> /\ x \in ToSet(Held)
        /\ \A xs \in Batches :
              /\ \A r \in SAdd(value, xs) : r.reply = Cardinality(ToSet(xs) \ ToSet(Held))
              /\ IsInjective(xs) =>
                    \A r \in SRem(value, xs) :
                        r.reply = Cardinality(ToSet(xs) \cap ToSet(Held))
        /\ content.type = "set" => IsInjective(Held)

(***************************************************************************)
(* A key that only ZADD has touched since it was last gone lists every     *)
(* member once, with its last score, and as long as all scores are numbers *)
(* in the order of score and member.                                       *)
(***************************************************************************)
SortedSetRanked ==
    IsRanked =>
        LET p == ReadEntries(value)
        IN  /\ Len(p) = Cardinality(DOMAIN Scores)
            /\ {p[i] : i \in DOMAIN p} = EntriesOf(Scores)
            /\ (\A m \in DOMAIN Scores : Numeric(Scores[m])) => Ranked(p)

(***************************************************************************)
(* On such a key ZRANGE answers the members of the ranks asked for, with   *)
(* indices of either sign, ZCOUNT the number of members between two        *)
(* scores, never one whose score is no number, and ZADD 1 for a new member *)
(* and 0 for another.                                                      *)
(***************************************************************************)
SortedSetAnswers ==
    IsRanked =>
        LET p == ReadEntries(value)
            members == [i \in DOMAIN p |-> p[i].member]
        IN  /\ \A a, b \in Indices : ZRange(value, a, b) = ItemsBetween(members, a, b)
            /\ \A low, high \in DOMAIN Float :
                  ZCount(value, low, high) =
                    Cardinality({m \in DOMAIN Scores :
                        AtMost(low, Scores[m]) /\ AtMost(Scores[m], high)})
            /\ \A b \in DOMAIN Float, m \in Items : \A r \in ZAdd(value, b, m) :
                  r.reply = IF m = <<>> \/ m \in DOMAIN Scores THEN 0 ELSE 1

(***************************************************************************)
(* A counter holds the text of the sum of all that was added to it and     *)
(* taken from it: increments that leave the range of int64 are not lost,   *)
(* and once the sum is back in the range the counter is exact.             *)
(* (modifyIntegerBy in utils.go does not look for an overflow.)            *)
(***************************************************************************)
CounterExact ==
    content.type = "counter" =>
        /\ value = Text[Wrapped(content.total)]
        /\ content.total \in Int64 => value = Text[content.total]

=============================================================================
