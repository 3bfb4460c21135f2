------------------------------- MODULE Expiry -------------------------------
(***************************************************************************)
(* Key expiry in internal/storage: the LMDB contents, the in-memory table  *)
(* of TTLs guarded by client.mtx, and the time.AfterFunc timers that       *)
(* delete keys.                                                            *)
(*                                                                         *)
(* A value is abstracted to its presence: `data' is the set of slots       *)
(* (database, key) that LMDB holds.  The clock counts milliseconds; the    *)
(* code reads it in whole seconds.  A storage call is one step, because it *)
(* is one LMDB transaction or one critical section of client.mtx, with the *)
(* exception of storage.Expire: it reads the clock, and then AfterFunc     *)
(* reads it again, so that time may pass in between.  A command of two     *)
(* storage calls (SET with EX or PX) is as many steps, and a timer         *)
(* callback is two: it reads `running' without a lock, then deletes.       *)
(*                                                                         *)
(* A command whose transaction fails changes nothing and may be tried      *)
(* again: that is a stuttering step.  The deletion of a timer, which is    *)
(* tried once, fails in a step of its own.                                 *)
(***************************************************************************)
EXTENDS Integers, FiniteSets

CONSTANTS
    Conns,        \* connections, each served by one goroutine
    Dbs,          \* database numbers
    Keys,
    Timers,       \* identities of TTL structs and of their callbacks, reused
    NoTTL,        \* absence of a table entry
    NoCall,       \* no call of storage.Expire is under way or to come
    ExpireArgs,   \* integers that EXPIRE is called with (0 if unparsable)
    ExArgs,       \* integers that SET key value opt EX is called with
    PxArgs,       \* integers that SET key value opt PX is called with
    MsPerSec,     \* 1000 in the code
    UintMod,      \* 2^32 in the code
    MaxLag,       \* bound on the time that passes between the two readings
                  \* of the clock in one call of Expire, in milliseconds
    MaxTime       \* bound on the clock, in milliseconds

Slots == Dbs \X Keys

ASSUME ArgsAssumption ==
    ExpireArgs \subseteq Int /\ ExArgs \subseteq Int /\ PxArgs \subseteq Int

ASSUME WidthAssumption == MsPerSec \in Nat \ {0} /\ UintMod \in Nat \ {0}

ASSUME LagAssumption == MaxLag \in Nat

\* The Unix time fits 32 bits: the clock stops before 2106.
ASSUME ClockAssumption == MaxTime \in Nat /\ MaxTime \div MsPerSec < UintMod

VARIABLES
    now,          \* the wall clock, in milliseconds
    data,         \* slots present in LMDB
    volatile,     \* history: slots whose present value was given a TTL
    ttl,          \* client.ttl: slot -> TTL struct
    timers,       \* the closures of setTimeout
    pend,         \* per connection, its call of storage.Expire
    stranded      \* history: volatile slots whose deletion has failed

vars == <<now, data, volatile, ttl, timers, pend, stranded>>

-----------------------------------------------------------------------------

Entry == [expire : 0..(UintMod - 1), timer : Timers]

Idle == [phase |-> "idle"]

Timer == {Idle} \cup [phase : {"armed", "firing"}, slot : Slots,
                      deadline : Nat, running : BOOLEAN]

\* The second call of SET ... EX/PX is still due; or a call is inside Expire,
\* with client.mtx locked, and has read the clock at `start'.
Call == [at : {"due"}, slot : Slots, secs : 0..(UintMod - 1)]
        \cup [at : {"inside"}, slot : Slots, secs : 0..(UintMod - 1),
              start : 0..MaxTime]

ASSUME SentinelAssumption == NoTTL \notin Entry /\ NoCall \notin Call

TypeOK ==
    /\ now \in 0..MaxTime
    /\ data \subseteq Slots
    /\ volatile \subseteq data
    /\ ttl \in [Slots -> Entry \cup {NoTTL}]
    /\ timers \in [Timers -> Timer]
    /\ pend \in [Conns -> Call \cup {NoCall}]
    /\ stranded \subseteq volatile

Init ==
    /\ now = 0
    /\ data = {}
    /\ volatile = {}
    /\ ttl = [s \in Slots |-> NoTTL]
    /\ timers = [t \in Timers |-> Idle]
    /\ pend = [c \in Conns |-> NoCall]
    /\ stranded = {}

\* The conversion of an int64 to uint32.
Uint32(n) == n % UintMod

\* Division of int64 as Go does it, truncating toward zero.
Quot(n, d) == IF n >= 0 THEN n \div d ELSE -((-n) \div d)

\* time.Now().Unix(), truncated to uint32, at a time and now.
UnixAt(time) == Uint32(time \div MsPerSec)

Unix == UnixAt(now)

\* Variant of TTL that rounds the last second up.
TTL_RoundedUp(s) ==
    IF ttl[s] = NoTTL \/ ttl[s].expire < Unix THEN 0 ELSE ttl[s].expire - Unix + 1

\* Variant of TTL that takes the second that begins next for expired.
TTL_Early(s) ==
    IF ttl[s] = NoTTL \/ ttl[s].expire <= Unix + 1 THEN 0 ELSE ttl[s].expire - Unix

\* The reply of storage.TTL.
TTL(s) ==
    IF ttl[s] = NoTTL \/ ttl[s].expire <= Unix THEN 0 ELSE ttl[s].expire - Unix

\* The closure that an entry's Cancel would stop has not returned yet.
Live(t) == timers[t].phase # "idle"

\* A timer identity that nothing refers to: a fresh TTL struct.
Unused(t) == ~Live(t) /\ \A s \in Slots : ttl[s] # NoTTL => ttl[s].timer # t

\* TTL.Cancel of the entry of s, if there is one: clears the closure's flag
\* and leaves the runtime timer scheduled.
Cancelled(s) ==
    IF ttl[s] # NoTTL /\ Live(ttl[s].timer)
    THEN [timers EXCEPT ![ttl[s].timer].running = FALSE]
    ELSE timers

\* Connection c is inside storage.Expire, and has client.mtx.
Inside(c) == pend[c] # NoCall /\ pend[c].at = "inside"

Locked == \E c \in Conns : Inside(c)

\* The entry of s is about to be replaced; nobody can look at it meanwhile.
Replaced(s) == \E c \in Conns : Inside(c) /\ pend[c].slot = s

\* Variant of BeginExpire that does not cancel the old timer.
BeginExpire_NoCancel(c, s, secs) ==
    /\ ~Locked
    /\ \E t \in Timers : Unused(t)
    /\ volatile' = volatile \ {s} /\ stranded' = stranded \ {s}
    /\ pend' = [pend EXCEPT ![c] = [at |-> "inside", slot |-> s, secs |-> secs, start |-> now]]
    /\ UNCHANGED <<now, data, ttl, timers>>

\* storage.Expire up to its reading of the clock, whether or not the key exists.
\* From here on the value has no TTL in force until the call ends.
BeginExpire(c, s, secs) ==
    /\ ~Locked
    /\ \E t \in Timers : Unused(t)
    /\ timers' = Cancelled(s)
    /\ volatile' = volatile \ {s} /\ stranded' = stranded \ {s}
    /\ pend' = [pend EXCEPT ![c] = [at |-> "inside", slot |-> s, secs |-> secs, start |-> now]]
    /\ UNCHANGED <<now, data, ttl>>

\* Variants of Arm: the sum is kept wider than the field; the delay is taken
\* for milliseconds.
Arm_Untruncated(c) ==
    /\ Inside(c)
    /\ LET s == pend[c].slot  secs == pend[c].secs IN
        /\ \E t \in Timers :
            /\ Unused(t)
            /\ timers' = [timers EXCEPT
                            ![t] = [phase |-> "armed", slot |-> s, running |-> TRUE,
                                    deadline |-> now + secs * MsPerSec]]
            /\ ttl' = [ttl EXCEPT ![s] = [expire |-> UnixAt(pend[c].start) + secs, timer |-> t]]
        /\ volatile' = volatile \cup ({s} \cap data)
    /\ pend' = [pend EXCEPT ![c] = NoCall]
    /\ UNCHANGED <<now, data, stranded>>

Arm_Milliseconds(c) ==
    /\ Inside(c)
    /\ LET s == pend[c].slot  secs == pend[c].secs IN
        /\ \E t \in Timers :
            /\ Unused(t)
            /\ timers' = [timers EXCEPT
                            ![t] = [phase |-> "armed", slot |-> s, running |-> TRUE,
                                    deadline |-> now + secs]]
            /\ ttl' = [ttl EXCEPT ![s] = [expire |-> Uint32(UnixAt(pend[c].start) + secs), timer |-> t]]
        /\ volatile' = volatile \cup ({s} \cap data)
    /\ pend' = [pend EXCEPT ![c] = NoCall]
    /\ UNCHANGED <<now, data, stranded>>

\* The rest of storage.Expire: setTimeout, with the delay counted from now, and
\* the entry with the second read before.
Arm(c) ==
    /\ Inside(c)
    /\ LET s == pend[c].slot  secs == pend[c].secs IN
        /\ \E t \in Timers :
            /\ Unused(t)
            /\ timers' = [timers EXCEPT
                            ![t] = [phase |-> "armed", slot |-> s, running |-> TRUE,
                                    deadline |-> now + secs * MsPerSec]]
            /\ ttl' = [ttl EXCEPT ![s] = [expire |-> Uint32(UnixAt(pend[c].start) + secs), timer |-> t]]
        /\ volatile' = volatile \cup ({s} \cap data)
    /\ pend' = [pend EXCEPT ![c] = NoCall]
    /\ UNCHANGED <<now, data, stranded>>

\* The transaction that removes the slots S from LMDB.
Remove(S) ==
    /\ data' = data \ S
    /\ volatile' = volatile \ S
    /\ stranded' = stranded \ S

-----------------------------------------------------------------------------
(* Commands of a connection. *)

Free(c) == pend[c] = NoCall

\* storage.Set: overwrites the value and does not look at the table.
Write(s) ==
    /\ data' = data \cup {s}
    /\ volatile' = volatile \ {s} /\ stranded' = stranded \ {s}
    /\ UNCHANGED <<now, ttl, timers>>

\* SET without an option, with one the code ignores (lower case included), or
\* with an EX/PX operand that does not parse: the value is stored all the same.
Set(c, s) == Free(c) /\ Write(s) /\ UNCHANGED pend

SetWithTTL(c, s, secs) ==
    /\ Free(c)
    /\ Write(s)
    /\ pend' = [pend EXCEPT ![c] = [at |-> "due", slot |-> s, secs |-> secs]]

SetEX(c, s, n) == SetWithTTL(c, s, Uint32(n))

SetPX(c, s, n) == SetWithTTL(c, s, Uint32(Quot(n, MsPerSec)))

\* The second storage call of SET ... EX/PX.
FinishSet(c) ==
    /\ pend[c] # NoCall /\ pend[c].at = "due"
    /\ BeginExpire(c, pend[c].slot, pend[c].secs)

\* Commands that read and rewrite a value in one transaction (APPEND, INCR,
\* LPUSH, SADD, ...): the value keeps whatever TTL it has.
Modify(c, s) ==
    /\ Free(c)
    /\ data' = data \cup {s}
    /\ UNCHANGED <<now, volatile, ttl, timers, pend, stranded>>

Expire(c, s, n) == Free(c) /\ BeginExpire(c, s, Uint32(n))

Persist(c, s) ==
    /\ Free(c) /\ ~Locked
    /\ ttl[s] # NoTTL
    /\ timers' = Cancelled(s)
    /\ ttl' = [ttl EXCEPT ![s] = NoTTL]
    /\ volatile' = volatile \ {s} /\ stranded' = stranded \ {s}
    /\ UNCHANGED <<now, data, pend>>

\* DEL of several keys of the connection's database; LPOP, SREM and the like
\* remove a single key in the same way when it becomes empty.
Del(c, d, K) ==
    /\ Free(c)
    /\ Remove({d} \X K)
    /\ UNCHANGED <<now, ttl, timers, pend>>

FlushAll(c, d) ==
    /\ Free(c)
    /\ Remove({d} \X Keys)
    /\ UNCHANGED <<now, ttl, timers, pend>>

-----------------------------------------------------------------------------
(* The runtime: timers, the clock, and the process. *)

\* Variant of TimerCheck with the test of the flag inverted.
TimerCheck_Inverted(t) ==
    /\ timers[t].phase = "armed"
    /\ now >= timers[t].deadline
    /\ timers' = IF timers[t].running
                 THEN [timers EXCEPT ![t] = Idle]
                 ELSE [timers EXCEPT ![t].phase = "firing"]
    /\ UNCHANGED <<now, data, volatile, ttl, pend, stranded>>

\* The callback of setTimeout reads `running' in its own goroutine.
TimerCheck(t) ==
    /\ timers[t].phase = "armed"
    /\ now >= timers[t].deadline
    /\ timers' = IF timers[t].running
                 THEN [timers EXCEPT ![t].phase = "firing"]
                 ELSE [timers EXCEPT ![t] = Idle]
    /\ UNCHANGED <<now, data, volatile, ttl, pend, stranded>>

\* The values with a TTL whose entry has the timer t.
Behind(t) == {s \in volatile : ttl[s] # NoTTL /\ ttl[s].timer = t}

\* Variant of TimerDel that looks in the other databases.
TimerDel_WrongDb(t) ==
    /\ timers[t].phase = "firing"
    /\ \/ Remove((Dbs \ {timers[t].slot[1]}) \X {timers[t].slot[2]})
       \/ stranded' = stranded \cup Behind(t) /\ UNCHANGED <<data, volatile>>
    /\ timers' = [timers EXCEPT ![t] = Idle]
    /\ UNCHANGED <<now, ttl, pend>>

\* ... and then deletes the key in the database of the EXPIRE's context; or
\* fails to, since Del may return an error, which the callback drops.
TimerDel(t) ==
    /\ timers[t].phase = "firing"
    /\ \/ Remove({timers[t].slot})
       \/ stranded' = stranded \cup Behind(t) /\ UNCHANGED <<data, volatile>>
    /\ timers' = [timers EXCEPT ![t] = Idle]
    /\ UNCHANGED <<now, ttl, pend>>

Tick ==
    /\ now < MaxTime
    /\ \A c \in Conns : Inside(c) => now - pend[c].start < MaxLag
    /\ now' = now + 1
    /\ UNCHANGED <<data, volatile, ttl, timers, pend, stranded>>

\* The process ends and starts again: LMDB keeps the data, NewClient makes an
\* empty table.
Restart ==
    /\ volatile' = {} /\ stranded' = {}
    /\ ttl' = [s \in Slots |-> NoTTL]
    /\ timers' = [t \in Timers |-> Idle]
    /\ pend' = [c \in Conns |-> NoCall]
    /\ UNCHANGED <<now, data>>

Command(c) ==
    \/ \E s \in Slots :
        \/ Set(c, s)
        \/ \E n \in ExArgs : SetEX(c, s, n)
        \/ \E n \in PxArgs : SetPX(c, s, n)
        \/ Modify(c, s)
        \/ \E n \in ExpireArgs : Expire(c, s, n)
        \/ Persist(c, s)
    \/ \E d \in Dbs :
        \/ \E K \in SUBSET Keys \ {{}} : Del(c, d, K)
        \/ FlushAll(c, d)

Next ==
    \/ \E c \in Conns : Command(c) \/ FinishSet(c) \/ Arm(c)
    \/ \E t \in Timers : TimerCheck(t) \/ TimerDel(t)
    \/ Tick
    \/ Restart

Spec == Init /\ [][Next]_vars

\* The clock runs, a started command returns, and the Go runtime starts an
\* expired timer's goroutine and lets it run.
Fairness ==
    /\ WF_vars(Tick)
    /\ \A c \in Conns : WF_vars(FinishSet(c)) /\ WF_vars(Arm(c))
    /\ \A t \in Timers : WF_vars(TimerCheck(t)) /\ WF_vars(TimerDel(t))

FairSpec == Spec /\ Fairness

-----------------------------------------------------------------------------
(* Properties. *)

\* The entry e promises the second of the deadline of its timer r, or of a
\* moment up to MaxLag before.
Promises(e, r) ==
    \E lag \in 0..MaxLag :
        lag <= r.deadline /\ e.expire = Uint32((r.deadline - lag) \div MsPerSec)

\* The table and the running timers say the same thing: the timer of an entry,
\* while its callback is outstanding, is for that slot, is cancelled only while
\* Expire replaces the entry, and is due in the second the entry promises or as
\* much later as Expire took to arm it; and every timer that would still delete
\* its key is the one its slot's entry can cancel.  This is what the
\* Cancel-then-replace of Expire and the Cancel-then-delete of Persist are for.
EntriesOwnTimers ==
    \A s \in Slots : ttl[s] # NoTTL /\ Live(ttl[s].timer) =>
        LET r == timers[ttl[s].timer]
        IN  r.slot = s /\ (r.running <=> ~Replaced(s)) /\ Promises(ttl[s], r)

RunningTimersAreOwned ==
    \A t \in Timers : Live(t) /\ timers[t].running =>
        ttl[timers[t].slot] # NoTTL /\ ttl[timers[t].slot].timer = t

TableMatchesTimers == EntriesOwnTimers /\ RunningTimersAreOwned

\* A TTL that clients see as positive is a promise that is still open: the
\* timer behind it has not fired.  An entry outlives its timer (nothing removes
\* it), so this depends on the comparison of seconds in storage.TTL.  The entry
\* that Expire is replacing is not seen: TTL waits for client.mtx.
PositiveTTLMeansArmed ==
    \A s \in Slots : TTL(s) > 0 /\ ~Replaced(s) =>
        timers[ttl[s].timer].phase = "armed" /\ timers[ttl[s].timer].running

\* The reply of TTL never promises as much as a second more than the time really
\* left, in spite of the two truncations to seconds, unless the sum in Expire
\* wrapped; and it falls short of it by less than a second and the time that
\* Expire took between its two readings of the clock.
TTLTellsTimeLeft ==
    \A s \in Slots :
        LET left == timers[ttl[s].timer].deadline - now
        IN  TTL(s) > 0 => TTL(s) * MsPerSec - MsPerSec < left
                       /\ left < TTL(s) * MsPerSec + MsPerSec + MaxLag

\* The other way round, a value that has a TTL of a second or more left does
\* not read as one without: TTL answers 0, which the command turns into -1,
\* only in the last second and for as long before as Expire took between its
\* readings of the clock, or when the second of the deadline does not fit, or
\* when the deletion of the value has failed.
VolatileIsVisible ==
    \A s \in volatile \ stranded :
        LET deadline == timers[ttl[s].timer].deadline
        IN  /\ deadline - now >= MsPerSec + MaxLag
            /\ deadline \div MsPerSec < UintMod
            => TTL(s) > 0

\* Within one run of the process, a value that was given a TTL and not since
\* overwritten or persisted has a timer that will try to delete it, whatever
\* commands and other timers did in between.  It is without one for a single
\* reason, that this very timer has tried and failed; then it still has its
\* entry, and it lives on with a TTL of zero.
VolatileHasTimer ==
    \A s \in volatile :
        /\ ttl[s] # NoTTL
        /\ s \notin stranded => Live(ttl[s].timer) /\ timers[ttl[s].timer].running
        /\ s \in stranded => ~Live(ttl[s].timer) /\ TTL(s) = 0

\* A value with a TTL is gone, renewed, persisted or overwritten in the end, or
\* its deletion has failed, if the TTL ends within the bound on the clock.
Leased(s, t) ==
    /\ s \in volatile \ stranded
    /\ ttl[s].timer = t
    /\ Live(t) => timers[t].deadline <= MaxTime

VolatileExpires ==
    \A s \in Slots, t \in Timers : Leased(s, t) ~> ~Leased(s, t)

\* "should remove TTL without deleting key" (integration_test.go:192): the
\* cancelled timer of a persisted key does not delete it.
PersistedKeySurvives ==
    [][\A t \in Timers :
         /\ timers[t].phase = "firing"
         /\ ttl[timers[t].slot] = NoTTL
         /\ timers'[t] = Idle
         => data \subseteq data']_vars

\* "should return zero TTL for key without TTL" (unit_test.go:315): a value that
\* is stored without a TTL over one that had one has none itself.
SetClearsTTL ==
    [][\A s \in volatile :
         s \in data' \ volatile' /\ ~Replaced(s)' => TTL(s)' = 0]_vars

=============================================================================
