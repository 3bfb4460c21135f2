-------------------------------- MODULE Sets ----------------------------------
(***************************************************************************)
(* How sets are stored as bytes: internal/storage/sadd.go, srem.go,        *)
(* smembers.go and sismember.go.                                           *)
(*                                                                         *)
(* A set has the bytes of a list.  SADD and SREM read what they find into  *)
(* a Go map, leniently, and write the map back in its random order: they   *)
(* are sets of results.                                                    *)
(***************************************************************************)
EXTENDS Encoding

\* The items that are read until there are as many as the header says or the
\* data ends.
ReadItems(d) ==
    IF ~HasHeader(d) THEN <<>>
    ELSE LET whole == {i \in 0..(Count(d) - 1) : Fits(d, Start(d, i))}
         IN  [i \in 1..Cardinality(whole) |-> ItemAt(d, Start(d, i - 1))]

\* The bytes that a map of the members S may be written as.
StoredSets(S) == {Header(Cardinality(S)) \o EncodedItems(p) : p \in SetToSeqs(S)}

\* Variant of SAdd that appends without looking the members up.
SAdd_NoLookup(d, xs) ==
    {Answering(Len(xs), Header(Len(ReadItems(d)) + Len(xs)) \o EncodedItems(ReadItems(d) \o xs))}

SAdd(d, xs) ==
    LET old == ToSet(ReadItems(d))
        all == old \cup ToSet(xs)
    IN  {Answering(Cardinality(all \ old), e) : e \in StoredSets(all)}

\* SRem, which counts a member as often as it is named.
SRem(d, xs) ==
    LET old == ToSet(ReadItems(d))
        named == {i \in DOMAIN xs : xs[i] \in old}
        left == old \ ToSet(xs)
    IN  IF named = {} THEN {Answering(0, d)}
        ELSE {Answering(Cardinality(named), e) :
                e \in IF left = {} THEN {Absent} ELSE StoredSets(left)}

\* SMembers, which is strict where SAdd and SRem are lenient.
SMembers(d) ==
    IF HasHeader(d) /\ \E i \in 0..(Count(d) - 1) : ~Fits(d, Start(d, i))
    THEN NotFound
    ELSE ReadItems(d)

\* SIsMember, which never finds the empty member.
SIsMember(d, x) == x # <<>> /\ Contains(ReadItems(d), x)

=============================================================================
