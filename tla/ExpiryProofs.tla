---------------------------- MODULE ExpiryProofs ----------------------------
(* Proofs about Expiry, for every value of its constants. *)
EXTENDS Expiry, TLAPS

-----------------------------------------------------------------------------
(* The inductive invariant. *)

\* No two entries share a timer.
DistinctTimers ==
    \A s1, s2 \in Slots :
        ttl[s1] # NoTTL /\ ttl[s2] # NoTTL /\ ttl[s1].timer = ttl[s2].timer => s1 = s2

\* VolatileHasTimer without the reply of TTL.
VolatileHasEntry ==
    \A s \in volatile :
        /\ ttl[s] # NoTTL
        /\ s \notin stranded => Live(ttl[s].timer) /\ timers[ttl[s].timer].running
        /\ s \in stranded => ~Live(ttl[s].timer)

\* An entry whose timer has fired promises a second that has begun.
SpentEntriesAreDue ==
    \A s \in Slots :
        ttl[s] # NoTTL /\ timers[ttl[s].timer].phase # "armed" => ttl[s].expire <= Unix

\* No timer is due further ahead than a uint32 of seconds.
DelaysFit ==
    \A t \in Timers : Live(t) => timers[t].deadline \div MsPerSec < Unix + UintMod

\* client.mtx: one call at a time is inside storage.Expire.
OneInside == \A c1, c2 \in Conns : Inside(c1) /\ Inside(c2) => c1 = c2

\* A call inside storage.Expire has read the clock at most MaxLag ago, and its
\* value has no TTL in force.
InsideFits ==
    \A c \in Conns : Inside(c) =>
        /\ pend[c].start <= now /\ now - pend[c].start <= MaxLag
        /\ pend[c].slot \notin volatile

IInv ==
    /\ TypeOK
    /\ EntriesOwnTimers
    /\ RunningTimersAreOwned
    /\ DistinctTimers
    /\ VolatileHasEntry
    /\ SpentEntriesAreDue
    /\ DelaysFit
    /\ OneInside
    /\ InsideFits

-----------------------------------------------------------------------------
(* Arithmetic. *)

LEMMA DivMono ==
    ASSUME NEW a \in Int, NEW b \in Int, NEW m \in Nat \ {0}, a <= b
    PROVE  a \div m <= b \div m
OBVIOUS

LEMMA DivAddMul ==
    ASSUME NEW a \in Int, NEW b \in Int, NEW m \in Nat \ {0}
    PROVE  (a + b * m) \div m = a \div m + b
OBVIOUS

LEMMA ModSmall ==
    ASSUME NEW a \in Nat, NEW m \in Nat \ {0}
    PROVE  a % m <= a /\ (a < m => a % m = a)
OBVIOUS

LEMMA Uint32Type == \A n \in Int : Uint32(n) \in 0..(UintMod - 1)
BY WidthAssumption DEF Uint32

LEMMA QuotType == \A n \in Int, d \in Nat \ {0} : Quot(n, d) \in Int
BY DEF Quot

\* Until the clock reaches its bound, its seconds fit in 32 bits.
LEMMA SecondsFit ==
    ASSUME NEW n \in 0..MaxTime
    PROVE  Uint32(n \div MsPerSec) = n \div MsPerSec /\ n \div MsPerSec \in 0..(UintMod - 1)
<1>1. n \div MsPerSec <= MaxTime \div MsPerSec
    BY DivMono, WidthAssumption, ClockAssumption
<1>2. n \div MsPerSec \in Nat
    BY WidthAssumption, ClockAssumption
<1>3. n \div MsPerSec < UintMod
    BY <1>1, <1>2, WidthAssumption, ClockAssumption
<1> QED
    BY <1>2, <1>3, ModSmall, WidthAssumption DEF Uint32

LEMMA UnixExact ==
    ASSUME now \in 0..MaxTime
    PROVE  Unix = now \div MsPerSec /\ Unix \in 0..(UintMod - 1)
BY SecondsFit DEF Unix, UnixAt

-----------------------------------------------------------------------------
(* The operators shared by the actions. *)

\* A promise is about the deadline of the timer only.
LEMMA PromiseOfDeadline ==
    ASSUME NEW e, NEW r1, NEW r2, r1.deadline = r2.deadline, Promises(e, r1)
    PROVE  Promises(e, r2)
BY DEF Promises

\* What is promised for a deadline that has come is due.
LEMMA PromiseDue ==
    ASSUME now \in 0..MaxTime, NEW e, NEW r, r.deadline \in Nat, r.deadline <= now,
           Promises(e, r)
    PROVE  e.expire <= Unix
<1>1. PICK lag \in 0..MaxLag :
        lag <= r.deadline /\ e.expire = Uint32((r.deadline - lag) \div MsPerSec)
    BY DEF Promises
<1>2. lag \in Nat /\ now \in Nat
    BY LagAssumption, ClockAssumption
<1>3. PICK d \in Nat : d = r.deadline - lag
    BY <1>1, <1>2
<1>4. d <= now
    BY <1>2, <1>3
<1>5. d \div MsPerSec <= now \div MsPerSec /\ d \div MsPerSec \in Nat
    BY <1>2, <1>4, DivMono, WidthAssumption
<1>6. Uint32(d \div MsPerSec) <= d \div MsPerSec
    BY <1>5, ModSmall, WidthAssumption DEF Uint32
<1>7. Uint32(d \div MsPerSec) \in Int /\ now \div MsPerSec \in Int
    BY <1>2, <1>5, Uint32Type, WidthAssumption
<1>8. Unix = now \div MsPerSec
    BY UnixExact
<1> QED
    BY <1>1, <1>3, <1>5, <1>6, <1>7, <1>8

\* The types of what an entry and a call refer to.
LEMMA TypeFacts ==
    ASSUME TypeOK
    PROVE  /\ now \in Nat /\ now \in 0..MaxTime
           /\ \A s \in Slots : ttl[s] # NoTTL =>
                ttl[s] \in Entry /\ ttl[s].timer \in Timers /\ ttl[s].expire \in Int
           /\ \A t \in Timers : Live(t) =>
                /\ timers[t] \in [phase : {"armed", "firing"}, slot : Slots,
                                  deadline : Nat, running : BOOLEAN]
                /\ timers[t].slot \in Slots /\ timers[t].deadline \in Nat
                /\ timers[t].running \in BOOLEAN
           /\ \A c \in Conns : Inside(c) =>
                /\ pend[c].slot \in Slots /\ pend[c].secs \in 0..(UintMod - 1)
                /\ pend[c].start \in 0..MaxTime
<1>1. now \in Nat /\ now \in 0..MaxTime
    BY ClockAssumption DEF TypeOK
<1>2. ASSUME NEW s \in Slots, ttl[s] # NoTTL
      PROVE  ttl[s] \in Entry /\ ttl[s].timer \in Timers /\ ttl[s].expire \in Int
    BY <1>2, WidthAssumption DEF TypeOK, Entry
<1>3. ASSUME NEW t \in Timers, Live(t)
      PROVE  timers[t] \in [phase : {"armed", "firing"}, slot : Slots,
                            deadline : Nat, running : BOOLEAN]
    BY <1>3 DEF TypeOK, Timer, Idle, Live
<1>4. ASSUME NEW c \in Conns, Inside(c)
      PROVE  /\ pend[c].slot \in Slots /\ pend[c].secs \in 0..(UintMod - 1)
             /\ pend[c].start \in 0..MaxTime
    BY <1>4 DEF TypeOK, Inside, Call
<1> QED
    BY <1>1, <1>2, <1>3, <1>4

\* Cancelling the entry of s clears the flag of its timer and nothing else.
LEMMA CancelledFacts ==
    ASSUME TypeOK, NEW s \in Slots
    PROVE  /\ Cancelled(s) \in [Timers -> Timer]
           /\ \A t \in Timers :
                /\ Cancelled(s)[t].phase = timers[t].phase
                /\ ~Live(t) => Cancelled(s)[t] = timers[t]
                /\ Live(t) =>
                    /\ Cancelled(s)[t].slot = timers[t].slot
                    /\ Cancelled(s)[t].deadline = timers[t].deadline
                    /\ Cancelled(s)[t].running =
                         (timers[t].running /\ ~(ttl[s] # NoTTL /\ ttl[s].timer = t))
<1>1. timers \in [Timers -> Timer] /\ (ttl[s] # NoTTL => ttl[s].timer \in Timers)
    BY DEF TypeOK, Entry
<1>2. CASE ttl[s] # NoTTL /\ Live(ttl[s].timer)
    <2> DEFINE u == ttl[s].timer
    <2>1. timers[u] \in [phase : {"armed", "firing"}, slot : Slots,
                         deadline : Nat, running : BOOLEAN]
        BY <1>1, <1>2 DEF Timer, Idle, Live
    <2>2. Cancelled(s) = [timers EXCEPT ![u] = [timers[u] EXCEPT !.running = FALSE]]
        BY <1>2 DEF Cancelled
    <2> HIDE DEF u
    <2>3. [timers[u] EXCEPT !.running = FALSE] \in Timer
        BY <2>1 DEF Timer
    <2>4. u \in Timers /\ ttl[s] # NoTTL /\ u = ttl[s].timer
        BY <1>1, <1>2 DEF u
    <2>5. Cancelled(s) \in [Timers -> Timer]
        BY <1>1, <2>2, <2>3, <2>4
    <2>6. ASSUME NEW t \in Timers, t # u
          PROVE  Cancelled(s)[t] = timers[t]
        BY <1>1, <2>2, <2>6
    <2>7. Cancelled(s)[u] = [timers[u] EXCEPT !.running = FALSE]
        BY <1>1, <2>2, <2>4
    <2>8. ASSUME NEW t \in Timers, Live(t)
          PROVE  timers[t].running \in BOOLEAN
        BY <1>1, <2>8 DEF Timer, Idle, Live
    <2> QED
        BY <2>1, <2>4, <2>5, <2>6, <2>7, <2>8 DEF Live
<1>3. CASE ~(ttl[s] # NoTTL /\ Live(ttl[s].timer))
    <2>1. Cancelled(s) = timers
        BY <1>3 DEF Cancelled
    <2>2. ASSUME NEW t \in Timers, Live(t)
          PROVE  timers[t].running \in BOOLEAN
        BY <1>1, <2>2 DEF Timer, Idle, Live
    <2> QED
        BY <1>1, <1>3, <2>1, <2>2
<1> QED
    BY <1>2, <1>3

-----------------------------------------------------------------------------
(* Preservation of IInv, one lemma per kind of step. *)

\* storage.Expire up to its reading of the clock: the old timer is cancelled.
LEMMA BeginStep ==
    ASSUME IInv, NEW c \in Conns, NEW s \in Slots, NEW secs \in 0..(UintMod - 1),
           BeginExpire(c, s, secs)
    PROVE  IInv'
<1>1. /\ ~Locked
      /\ timers' = Cancelled(s)
      /\ volatile' = volatile \ {s} /\ stranded' = stranded \ {s}
      /\ pend' = [pend EXCEPT ![c] = [at |-> "inside", slot |-> s, secs |-> secs, start |-> now]]
      /\ UNCHANGED <<now, data, ttl>>
    BY DEF BeginExpire
<1>2. TypeOK
    BY DEF IInv
<1>3. Unix' = Unix
    BY <1>1 DEF Unix, UnixAt
<1>4. \A u \in Timers :
        /\ timers'[u].phase = timers[u].phase
        /\ Live(u)' <=> Live(u)
        /\ Live(u) =>
            /\ timers'[u].slot = timers[u].slot
            /\ timers'[u].deadline = timers[u].deadline
            /\ timers'[u].running =
                 (timers[u].running /\ ~(ttl[s] # NoTTL /\ ttl[s].timer = u))
    BY <1>1, <1>2, CancelledFacts DEF Live
<1>5. \A r \in Slots : r # s /\ ttl[r] # NoTTL =>
        ~(ttl[s] # NoTTL /\ ttl[s].timer = ttl[r].timer)
    BY DEF IInv, DistinctTimers
<1>6. \A d \in Conns : Inside(d)' <=> d = c
    <2>1. pend'[c] = [at |-> "inside", slot |-> s, secs |-> secs, start |-> now]
        BY <1>1, <1>2 DEF TypeOK
    <2>2. pend'[c] \in Call
        BY <1>2, <2>1 DEF Call, TypeOK
    <2>3. \A d \in Conns : d # c => pend'[d] = pend[d] /\ ~Inside(d)
        BY <1>1, <1>2 DEF TypeOK, Locked
    <2> QED
        BY <2>1, <2>2, <2>3, SentinelAssumption DEF Inside
<1>7. pend'[c].slot = s /\ pend'[c].start = now /\ pend' \in [Conns -> Call \cup {NoCall}]
    <2>1. [at |-> "inside", slot |-> s, secs |-> secs, start |-> now] \in Call
        BY <1>2 DEF Call, TypeOK
    <2> QED
        BY <1>1, <1>2, <2>1 DEF TypeOK
<1>8. \A r \in Slots : ~Replaced(r) /\ (Replaced(r)' <=> r = s)
    BY <1>1, <1>6, <1>7 DEF Replaced, Locked
<1>9. TypeOK'
    <2>1. timers' \in [Timers -> Timer]
        BY <1>1, <1>2, CancelledFacts
    <2> QED
        BY <1>1, <1>2, <1>7, <2>1 DEF TypeOK
<1>10. EntriesOwnTimers'
    <2> SUFFICES ASSUME NEW r \in Slots, ttl'[r] # NoTTL,
                        timers'[ttl'[r].timer].phase # "idle"
                 PROVE  /\ timers'[ttl'[r].timer].slot = r
                        /\ timers'[ttl'[r].timer].running <=> ~Replaced(r)'
                        /\ Promises(ttl'[r], timers'[ttl'[r].timer])
        BY DEF EntriesOwnTimers, Live
    <2>1. ttl'[r] = ttl[r] /\ ttl[r] # NoTTL /\ ttl[r].timer \in Timers /\ Live(ttl[r].timer)
        BY <1>1, <1>2, <1>4, TypeFacts DEF Live
    <2>2. /\ timers[ttl[r].timer].slot = r
          /\ timers[ttl[r].timer].running
          /\ Promises(ttl[r], timers[ttl[r].timer])
        BY <1>8, <2>1 DEF IInv, EntriesOwnTimers
    <2>3. Promises(ttl[r], timers'[ttl[r].timer])
        BY <1>4, <2>1, <2>2, PromiseOfDeadline
    <2>4. timers'[ttl[r].timer].running <=> ~Replaced(r)'
        BY <1>4, <1>5, <1>8, <2>1, <2>2
    <2> QED
        BY <1>4, <2>1, <2>2, <2>3, <2>4
<1>11. RunningTimersAreOwned'
    BY <1>1, <1>4 DEF IInv, RunningTimersAreOwned
<1>12. DistinctTimers'
    BY <1>1 DEF IInv, DistinctTimers
<1>13. VolatileHasEntry'
    <2> SUFFICES ASSUME NEW r \in volatile'
                 PROVE  /\ ttl'[r] # NoTTL
                        /\ r \notin stranded' =>
                             (/\ timers'[ttl'[r].timer].phase # "idle"
                              /\ timers'[ttl'[r].timer].running)
                        /\ r \in stranded' => timers'[ttl'[r].timer].phase = "idle"
        BY DEF VolatileHasEntry, Live
    <2>1. r \in volatile /\ r \in Slots /\ r # s /\ (r \in stranded' <=> r \in stranded)
        BY <1>1, <1>2 DEF TypeOK
    <2>2. ttl[r] # NoTTL /\ ttl'[r] = ttl[r] /\ ttl[r].timer \in Timers
        BY <1>1, <1>2, <2>1, TypeFacts DEF IInv, VolatileHasEntry
    <2>3. /\ timers'[ttl[r].timer].phase = timers[ttl[r].timer].phase
          /\ Live(ttl[r].timer) =>
                timers'[ttl[r].timer].running = timers[ttl[r].timer].running
        BY <1>2, <1>4, <1>5, <2>1, <2>2, TypeFacts
    <2> QED
        BY <2>1, <2>2, <2>3 DEF IInv, VolatileHasEntry, Live
<1>14. SpentEntriesAreDue'
    BY <1>1, <1>2, <1>3, <1>4, TypeFacts DEF IInv, SpentEntriesAreDue
<1>15. DelaysFit'
    BY <1>3, <1>4 DEF IInv, DelaysFit
<1>16. OneInside'
    BY <1>6 DEF OneInside
<1>17. InsideFits'
    BY <1>1, <1>2, <1>6, <1>7, TypeFacts, LagAssumption DEF InsideFits
<1> QED
    BY <1>9, <1>10, <1>11, <1>12, <1>13, <1>14, <1>15, <1>16, <1>17 DEF IInv

\* The rest of storage.Expire: the timer is set and the entry replaced.
LEMMA ArmStep ==
    ASSUME IInv, NEW c \in Conns, Arm(c)
    PROVE  IInv'
<1> DEFINE s == pend[c].slot
           secs == pend[c].secs
           start == pend[c].start
           new == [phase |-> "armed", slot |-> s, running |-> TRUE,
                   deadline |-> now + secs * MsPerSec]
           entry(t) == [expire |-> Uint32(UnixAt(start) + secs), timer |-> t]
<1>1. PICK t \in Timers :
        /\ Inside(c)
        /\ Unused(t)
        /\ timers' = [timers EXCEPT ![t] = new]
        /\ ttl' = [ttl EXCEPT ![s] = entry(t)]
        /\ volatile' = volatile \cup ({s} \cap data)
        /\ pend' = [pend EXCEPT ![c] = NoCall]
        /\ UNCHANGED <<now, data, stranded>>
    BY DEF Arm
<1>2. TypeOK
    BY DEF IInv
<1>3. /\ now \in 0..MaxTime /\ now \in Nat
      /\ s \in Slots /\ secs \in 0..(UintMod - 1) /\ secs \in Nat
      /\ start \in 0..MaxTime /\ start \in Nat
    BY <1>1, <1>2, TypeFacts, WidthAssumption, ClockAssumption
<1>4. start <= now /\ now - start <= MaxLag /\ s \notin volatile
    BY <1>1 DEF IInv, InsideFits
<1>5. Unix = now \div MsPerSec /\ Unix \in 0..(UintMod - 1) /\ Unix' = Unix
    BY <1>1, <1>3, UnixExact DEF Unix
<1>6. new \in Timer
    <2>1. secs * MsPerSec \in Nat
        BY <1>3, WidthAssumption
    <2> QED
        BY <1>3, <2>1 DEF Timer
<1>7. entry(t) \in Entry /\ entry(t) # NoTTL
    <2>1. start \div MsPerSec \in Int
        BY <1>3, WidthAssumption
    <2>2. UnixAt(start) + secs \in Int
        BY <1>3, <2>1, Uint32Type, WidthAssumption DEF UnixAt
    <2> QED
        BY <2>2, Uint32Type, SentinelAssumption DEF Entry
<1>8. timers'[t] = new /\ \A u \in Timers : u # t => timers'[u] = timers[u]
    BY <1>1, <1>2 DEF TypeOK
<1>9. ttl'[s] = entry(t) /\ \A r \in Slots : r # s => ttl'[r] = ttl[r]
    BY <1>1, <1>2, <1>3 DEF TypeOK
<1>10. \A r \in Slots : r # s /\ ttl[r] # NoTTL => ttl[r].timer \in Timers \ {t}
    BY <1>1, <1>2, TypeFacts DEF Unused
<1>11. ~Live(t) /\ \A u \in Timers : u # t => (Live(u)' <=> Live(u))
    BY <1>1, <1>8 DEF Live, Unused
<1>12. /\ Live(t)' /\ timers'[t].phase = "armed" /\ timers'[t].slot = s
       /\ timers'[t].running
    BY <1>8 DEF Live
<1>13. \A d \in Conns : (Inside(d) => d = c) /\ ~Inside(d)'
    BY <1>1, <1>2 DEF IInv, OneInside, Inside, TypeOK
<1>14. \A r \in Slots : ~Replaced(r)' /\ (Replaced(r) <=> r = s)
    BY <1>1, <1>13 DEF Replaced
<1>15. timers'[t].deadline \div MsPerSec = Unix + secs
    <2>1. timers'[t].deadline = now + secs * MsPerSec
        BY <1>8
    <2>2. now \in Int /\ secs \in Int /\ MsPerSec \in Nat \ {0}
        BY <1>3, WidthAssumption
    <2> QED
        BY <1>5, <2>1, <2>2, DivAddMul
<1>16. Promises(ttl'[s], timers'[t])
    <2>1. timers'[t].deadline = now + secs * MsPerSec
        BY <1>8
    <2>2. ttl'[s].expire = Uint32(UnixAt(start) + secs)
        BY <1>9
    <2> HIDE DEF s, secs, start
    <2>3. PICK lag \in 0..MaxLag : lag = now - start
        BY <1>3, <1>4, LagAssumption
    <2>4. PICK p \in Nat : p = secs * MsPerSec
        BY <1>3, WidthAssumption
    <2>5. lag <= now + p /\ (now + p) - lag = start + p
        BY <1>3, <1>4, <2>3, <2>4
    <2>6. (start + secs * MsPerSec) \div MsPerSec = start \div MsPerSec + secs
        <3>1. start \in Int /\ secs \in Int /\ MsPerSec \in Nat \ {0}
            BY <1>3, WidthAssumption
        <3> QED
            BY <3>1, DivAddMul
    <2>7. UnixAt(start) = start \div MsPerSec
        BY <1>3, SecondsFit DEF UnixAt
    <2> QED
        BY <2>1, <2>2, <2>3, <2>4, <2>5, <2>6, <2>7 DEF Promises
<1> HIDE DEF s, secs, start, new, entry
<1>17. TypeOK'
    <2>1. timers' \in [Timers -> Timer]
        BY <1>1, <1>2, <1>6 DEF TypeOK
    <2>2. ttl' \in [Slots -> Entry \cup {NoTTL}]
        BY <1>1, <1>2, <1>7 DEF TypeOK
    <2>3. pend' \in [Conns -> Call \cup {NoCall}]
        BY <1>1, <1>2 DEF TypeOK
    <2> QED
        BY <1>1, <1>2, <2>1, <2>2, <2>3 DEF TypeOK
<1>18. EntriesOwnTimers'
    <2> SUFFICES ASSUME NEW r \in Slots, ttl'[r] # NoTTL,
                        timers'[ttl'[r].timer].phase # "idle"
                 PROVE  /\ timers'[ttl'[r].timer].slot = r
                        /\ timers'[ttl'[r].timer].running <=> ~Replaced(r)'
                        /\ Promises(ttl'[r], timers'[ttl'[r].timer])
        BY DEF EntriesOwnTimers, Live
    <2>1. CASE r = s
        BY <1>9, <1>12, <1>14, <1>16, <2>1 DEF entry
    <2>2. CASE r # s
        <3>1. ttl'[r] = ttl[r] /\ ttl[r] # NoTTL /\ ttl[r].timer \in Timers \ {t}
            BY <1>9, <1>10, <2>2
        <3>2. Live(ttl[r].timer)
            BY <1>11, <3>1 DEF Live
        <3>3. /\ timers[ttl[r].timer].slot = r
              /\ timers[ttl[r].timer].running
              /\ Promises(ttl[r], timers[ttl[r].timer])
            BY <1>14, <2>2, <3>1, <3>2 DEF IInv, EntriesOwnTimers
        <3> QED
            BY <1>8, <1>14, <3>1, <3>3
    <2> QED
        BY <2>1, <2>2
<1>19. RunningTimersAreOwned'
    <2> SUFFICES ASSUME NEW u \in Timers, Live(u)', timers'[u].running
                 PROVE  ttl'[timers'[u].slot] # NoTTL /\ ttl'[timers'[u].slot].timer = u
        BY DEF RunningTimersAreOwned
    <2>1. CASE u = t
        BY <1>7, <1>9, <1>12, <2>1 DEF entry
    <2>2. CASE u # t
        <3>1. Live(u) /\ timers[u].running /\ timers'[u] = timers[u]
            BY <1>8, <1>11, <2>2
        <3>2. ttl[timers[u].slot] # NoTTL /\ ttl[timers[u].slot].timer = u
            BY <3>1 DEF IInv, RunningTimersAreOwned
        <3>3. timers[u].slot \in Slots
            BY <1>2, <3>1, TypeFacts
        <3>4. timers[u].slot # s
            BY <1>3, <1>14, <3>1, <3>2 DEF IInv, EntriesOwnTimers
        <3> QED
            BY <1>9, <3>1, <3>2, <3>3, <3>4
    <2> QED
        BY <2>1, <2>2
<1>20. DistinctTimers'
    BY <1>7, <1>9, <1>10 DEF IInv, DistinctTimers, entry
<1>21. VolatileHasEntry'
    <2> SUFFICES ASSUME NEW r \in volatile'
                 PROVE  /\ ttl'[r] # NoTTL
                        /\ r \notin stranded' =>
                             (/\ timers'[ttl'[r].timer].phase # "idle"
                              /\ timers'[ttl'[r].timer].running)
                        /\ r \in stranded' => timers'[ttl'[r].timer].phase = "idle"
        BY DEF VolatileHasEntry, Live
    <2>1. CASE r = s
        <3>1. r \notin stranded'
            BY <1>1, <1>2, <1>4, <2>1 DEF TypeOK
        <3> QED
            BY <1>7, <1>9, <1>12, <2>1, <3>1 DEF entry, Live
    <2>2. CASE r # s
        <3>1. r \in volatile /\ r \in Slots
            BY <1>1, <1>2, <2>2 DEF TypeOK
        <3>2. ttl'[r] = ttl[r] /\ ttl[r] # NoTTL /\ ttl[r].timer \in Timers \ {t}
            BY <1>9, <1>10, <2>2, <3>1 DEF IInv, VolatileHasEntry
        <3>3. timers'[ttl[r].timer] = timers[ttl[r].timer]
              /\ (Live(ttl[r].timer)' <=> Live(ttl[r].timer))
            BY <1>8, <1>11, <3>2
        <3> QED
            BY <1>1, <3>1, <3>2, <3>3 DEF IInv, VolatileHasEntry, Live
    <2> QED
        BY <2>1, <2>2
<1>22. SpentEntriesAreDue'
    <2> SUFFICES ASSUME NEW r \in Slots, ttl'[r] # NoTTL,
                        timers'[ttl'[r].timer].phase # "armed"
                 PROVE  ttl'[r].expire <= Unix'
        BY DEF SpentEntriesAreDue
    <2>1. r # s
        BY <1>9, <1>12 DEF entry
    <2>2. ttl'[r] = ttl[r] /\ ttl[r] # NoTTL /\ ttl[r].timer \in Timers \ {t}
        BY <1>9, <1>10, <2>1
    <2> QED
        BY <1>5, <1>8, <2>2 DEF IInv, SpentEntriesAreDue
<1>23. DelaysFit'
    <2> SUFFICES ASSUME NEW u \in Timers, Live(u)'
                 PROVE  timers'[u].deadline \div MsPerSec < Unix + UintMod
        BY <1>5 DEF DelaysFit
    <2>1. CASE u = t
        BY <1>3, <1>5, <1>15, <2>1, WidthAssumption
    <2>2. CASE u # t
        BY <1>8, <1>11, <2>2 DEF IInv, DelaysFit
    <2> QED
        BY <2>1, <2>2
<1>24. OneInside' /\ InsideFits'
    BY <1>13 DEF OneInside, InsideFits
<1> QED
    BY <1>17, <1>18, <1>19, <1>20, <1>21, <1>22, <1>23, <1>24 DEF IInv

\* Commands that only write or delete values, with Expire elsewhere as it is.
LEMMA DataStep ==
    ASSUME IInv, UNCHANGED <<now, ttl, timers>>,
           data' \subseteq Slots, volatile' \subseteq volatile, volatile' \subseteq data',
           stranded' = stranded \cap volatile',
           pend' \in [Conns -> Call \cup {NoCall}],
           \A c \in Conns : (Inside(c)' <=> Inside(c)) /\ (Inside(c) => pend'[c] = pend[c])
    PROVE  IInv'
<1>1. TypeOK'
    BY DEF IInv, TypeOK
<1>2. \A s \in Slots : Replaced(s)' <=> Replaced(s)
    BY DEF Replaced
<1>3. EntriesOwnTimers' /\ RunningTimersAreOwned' /\ DistinctTimers'
    BY <1>2 DEF IInv, EntriesOwnTimers, RunningTimersAreOwned, DistinctTimers, Live
<1>4. VolatileHasEntry'
    BY DEF IInv, VolatileHasEntry, Live
<1>5. SpentEntriesAreDue'
    BY DEF IInv, SpentEntriesAreDue, Unix, UnixAt
<1>6. DelaysFit'
    BY DEF IInv, DelaysFit, Unix, UnixAt, Live
<1>7. OneInside' /\ InsideFits'
    BY DEF IInv, OneInside, InsideFits
<1> QED
    BY <1>1, <1>3, <1>4, <1>5, <1>6, <1>7 DEF IInv

LEMMA PersistStep ==
    ASSUME IInv, NEW c \in Conns, NEW s \in Slots, Persist(c, s)
    PROVE  IInv'
<1>1. /\ ~Locked
      /\ ttl[s] # NoTTL
      /\ timers' = Cancelled(s)
      /\ ttl' = [ttl EXCEPT ![s] = NoTTL]
      /\ volatile' = volatile \ {s} /\ stranded' = stranded \ {s}
      /\ UNCHANGED <<now, data, pend>>
    BY DEF Persist
<1>2. TypeOK
    BY DEF IInv
<1>3. \A u \in Timers :
        /\ timers'[u].phase = timers[u].phase
        /\ Live(u)' <=> Live(u)
        /\ Live(u) =>
            /\ timers'[u].slot = timers[u].slot
            /\ timers'[u].deadline = timers[u].deadline
            /\ timers'[u].running = (timers[u].running /\ ttl[s].timer # u)
    BY <1>1, <1>2, CancelledFacts DEF Live
<1>4. ttl'[s] = NoTTL /\ \A r \in Slots : r # s => ttl'[r] = ttl[r]
    BY <1>1, <1>2 DEF TypeOK
<1>5. \A r \in Slots : r # s /\ ttl[r] # NoTTL =>
        ttl[r].timer \in Timers /\ ttl[s].timer # ttl[r].timer
    BY <1>1, <1>2, TypeFacts DEF IInv, DistinctTimers
<1>6. /\ \A d \in Conns : ~Inside(d) /\ ~Inside(d)'
      /\ \A r \in Slots : ~Replaced(r) /\ ~Replaced(r)'
    BY <1>1 DEF Replaced, Locked, Inside
<1>7. TypeOK'
    BY <1>1, <1>2, CancelledFacts DEF TypeOK
<1>8. EntriesOwnTimers'
    <2> SUFFICES ASSUME NEW r \in Slots, ttl'[r] # NoTTL,
                        timers'[ttl'[r].timer].phase # "idle"
                 PROVE  /\ timers'[ttl'[r].timer].slot = r
                        /\ timers'[ttl'[r].timer].running
                        /\ Promises(ttl'[r], timers'[ttl'[r].timer])
        BY <1>6 DEF EntriesOwnTimers, Live
    <2>1. r # s /\ ttl'[r] = ttl[r] /\ ttl[r] # NoTTL /\ ttl[r].timer \in Timers
        BY <1>4, <1>5
    <2>2. Live(ttl[r].timer)
        BY <1>3, <2>1 DEF Live
    <2>3. /\ timers[ttl[r].timer].slot = r
          /\ timers[ttl[r].timer].running
          /\ Promises(ttl[r], timers[ttl[r].timer])
        BY <1>6, <2>1, <2>2 DEF IInv, EntriesOwnTimers
    <2>4. Promises(ttl[r], timers'[ttl[r].timer])
        BY <1>3, <2>1, <2>2, <2>3, PromiseOfDeadline
    <2> QED
        BY <1>3, <1>5, <2>1, <2>2, <2>3, <2>4
<1>9. RunningTimersAreOwned'
    <2> SUFFICES ASSUME NEW u \in Timers, Live(u)', timers'[u].running
                 PROVE  ttl'[timers'[u].slot] # NoTTL /\ ttl'[timers'[u].slot].timer = u
        BY DEF RunningTimersAreOwned
    <2>1. /\ Live(u) /\ timers[u].running /\ timers'[u].slot = timers[u].slot
          /\ ttl[s].timer # u
        BY <1>3
    <2>2. ttl[timers[u].slot] # NoTTL /\ ttl[timers[u].slot].timer = u
        BY <2>1 DEF IInv, RunningTimersAreOwned
    <2>3. timers[u].slot \in Slots
        BY <1>2, <2>1, TypeFacts
    <2> QED
        BY <1>4, <2>1, <2>2, <2>3
<1>10. DistinctTimers'
    BY <1>4 DEF IInv, DistinctTimers
<1>11. VolatileHasEntry'
    <2> SUFFICES ASSUME NEW r \in volatile'
                 PROVE  /\ ttl'[r] # NoTTL
                        /\ r \notin stranded' =>
                             (/\ timers'[ttl'[r].timer].phase # "idle"
                              /\ timers'[ttl'[r].timer].running)
                        /\ r \in stranded' => timers'[ttl'[r].timer].phase = "idle"
        BY DEF VolatileHasEntry, Live
    <2>1. r \in volatile /\ r \in Slots /\ r # s /\ (r \in stranded' <=> r \in stranded)
        BY <1>1, <1>2 DEF TypeOK
    <2>2. ttl[r] # NoTTL /\ ttl'[r] = ttl[r] /\ ttl[r].timer \in Timers
        BY <1>4, <1>5, <2>1 DEF IInv, VolatileHasEntry
    <2>3. /\ timers'[ttl[r].timer].phase = timers[ttl[r].timer].phase
          /\ Live(ttl[r].timer) =>
                timers'[ttl[r].timer].running = timers[ttl[r].timer].running
        BY <1>2, <1>3, <1>5, <2>1, <2>2, TypeFacts
    <2> QED
        BY <2>1, <2>2, <2>3 DEF IInv, VolatileHasEntry, Live
<1>12. SpentEntriesAreDue'
    <2> SUFFICES ASSUME NEW r \in Slots, ttl'[r] # NoTTL,
                        timers'[ttl'[r].timer].phase # "armed"
                 PROVE  ttl'[r].expire <= Unix'
        BY DEF SpentEntriesAreDue
    <2>1. r # s /\ ttl'[r] = ttl[r] /\ ttl[r] # NoTTL /\ ttl[r].timer \in Timers
        BY <1>4, <1>5
    <2>2. Unix' = Unix
        BY <1>1 DEF Unix, UnixAt
    <2> QED
        BY <1>3, <2>1, <2>2 DEF IInv, SpentEntriesAreDue
<1>13. DelaysFit'
    BY <1>1, <1>3 DEF IInv, DelaysFit, Unix, UnixAt
<1>14. OneInside' /\ InsideFits'
    BY <1>6 DEF OneInside, InsideFits
<1> QED
    BY <1>7, <1>8, <1>9, <1>10, <1>11, <1>12, <1>13, <1>14 DEF IInv

\* The callback finds its flag set and goes on to delete the key.
LEMMA FireStep ==
    ASSUME IInv, NEW t \in Timers, TimerCheck(t), timers[t].running
    PROVE  IInv'
<1>1. /\ timers[t].phase = "armed" /\ Live(t)
      /\ now >= timers[t].deadline
      /\ timers' = [timers EXCEPT ![t].phase = "firing"]
      /\ UNCHANGED <<now, data, volatile, ttl, pend, stranded>>
    BY DEF TimerCheck, Live
<1>2. TypeOK
    BY DEF IInv
<1>3. timers[t] \in [phase : {"armed", "firing"}, slot : Slots,
                     deadline : Nat, running : BOOLEAN]
    BY <1>1, <1>2, TypeFacts
<1>4. timers' = [timers EXCEPT ![t] = [timers[t] EXCEPT !.phase = "firing"]]
    BY <1>1
<1>5. timers'[t] = [timers[t] EXCEPT !.phase = "firing"]
    BY <1>2, <1>4 DEF TypeOK
<1>6. /\ timers'[t].phase = "firing"
      /\ timers'[t].slot = timers[t].slot
      /\ timers'[t].deadline = timers[t].deadline
      /\ timers'[t].running = timers[t].running
    BY <1>3, <1>5
<1>7. \A u \in Timers : u # t => timers'[u] = timers[u]
    BY <1>2, <1>4 DEF TypeOK
<1>8. \A u \in Timers :
        /\ Live(u)' <=> Live(u)
        /\ timers'[u].slot = timers[u].slot
        /\ timers'[u].deadline = timers[u].deadline
        /\ timers'[u].running = timers[u].running
    BY <1>1, <1>6, <1>7 DEF Live
<1>9. \A r \in Slots : ttl[r] # NoTTL => ttl[r].timer \in Timers
    BY <1>2, TypeFacts
<1>10. \A r \in Slots : Replaced(r)' <=> Replaced(r)
    BY <1>1 DEF Replaced, Inside
<1>11. TypeOK'
    <2>1. [timers[t] EXCEPT !.phase = "firing"] \in Timer
        BY <1>3 DEF Timer
    <2>2. timers' \in [Timers -> Timer]
        BY <1>2, <1>4, <2>1 DEF TypeOK
    <2> QED
        BY <1>1, <1>2, <2>2 DEF TypeOK
<1>12. EntriesOwnTimers'
    <2> SUFFICES ASSUME NEW r \in Slots, ttl[r] # NoTTL,
                        timers'[ttl[r].timer].phase # "idle"
                 PROVE  /\ timers'[ttl[r].timer].slot = r
                        /\ timers'[ttl[r].timer].running <=> ~Replaced(r)
                        /\ Promises(ttl[r], timers'[ttl[r].timer])
        BY <1>1, <1>10 DEF EntriesOwnTimers, Live
    <2>1. ttl[r].timer \in Timers /\ Live(ttl[r].timer)
        BY <1>8, <1>9 DEF Live
    <2>2. Promises(ttl[r], timers'[ttl[r].timer])
        BY <1>8, <2>1, PromiseOfDeadline DEF IInv, EntriesOwnTimers
    <2> QED
        BY <1>8, <2>1, <2>2 DEF IInv, EntriesOwnTimers
<1>13. RunningTimersAreOwned'
    BY <1>1, <1>8 DEF IInv, RunningTimersAreOwned
<1>14. DistinctTimers'
    BY <1>1 DEF IInv, DistinctTimers
<1>15. VolatileHasEntry'
    BY <1>1, <1>2, <1>8, <1>9 DEF IInv, VolatileHasEntry, Live, TypeOK
<1>16. SpentEntriesAreDue'
    <2> SUFFICES ASSUME NEW r \in Slots, ttl[r] # NoTTL,
                        timers'[ttl[r].timer].phase # "armed"
                 PROVE  ttl[r].expire <= Unix
        BY <1>1 DEF SpentEntriesAreDue, Unix, UnixAt
    <2>1. CASE ttl[r].timer = t
        BY <1>1, <1>2, <2>1, TypeFacts, PromiseDue DEF IInv, EntriesOwnTimers
    <2>2. CASE ttl[r].timer # t
        BY <1>7, <1>9, <2>2 DEF IInv, SpentEntriesAreDue
    <2> QED
        BY <2>1, <2>2
<1>17. DelaysFit'
    BY <1>1, <1>8 DEF IInv, DelaysFit, Unix, UnixAt
<1>18. OneInside' /\ InsideFits'
    BY <1>1 DEF IInv, OneInside, InsideFits, Inside
<1> QED
    BY <1>11, <1>12, <1>13, <1>14, <1>15, <1>16, <1>17, <1>18 DEF IInv

\* A callback returns: it was cancelled, or it has deleted its key or failed to.
LEMMA ReturnStep ==
    ASSUME IInv, NEW t \in Timers, timers' = [timers EXCEPT ![t] = Idle],
           UNCHANGED <<now, ttl, pend>>,
           \/ /\ timers[t].phase = "armed" /\ ~timers[t].running /\ timers[t].deadline <= now
              /\ UNCHANGED <<data, volatile, stranded>>
           \/ timers[t].phase = "firing" /\ Remove({timers[t].slot})
           \/ /\ timers[t].phase = "firing" /\ UNCHANGED <<data, volatile>>
              /\ stranded' = stranded \cup Behind(t)
    PROVE  IInv'
<1>1. TypeOK
    BY DEF IInv
<1>2. timers'[t].phase = "idle" /\ \A u \in Timers : u # t => timers'[u] = timers[u]
    BY <1>1 DEF Idle, TypeOK
<1>3. \A r \in Slots : ttl[r] # NoTTL => ttl[r].timer \in Timers
    BY <1>1, TypeFacts
<1>4. Live(t)
    BY DEF Live
<1>5. /\ volatile' \subseteq volatile /\ volatile' \subseteq data'
      /\ stranded' \subseteq volatile' /\ data' \subseteq Slots /\ volatile \subseteq Slots
    BY <1>1 DEF Remove, Behind, TypeOK
<1>6. \A r \in Slots : Replaced(r)' <=> Replaced(r)
    BY DEF Replaced, Inside
<1>7. TypeOK'
    <2>1. timers' \in [Timers -> Timer]
        BY <1>1 DEF Timer, TypeOK
    <2> QED
        BY <1>1, <1>5, <2>1 DEF TypeOK
<1>8. EntriesOwnTimers'
    <2> SUFFICES ASSUME NEW r \in Slots, ttl[r] # NoTTL,
                        timers'[ttl[r].timer].phase # "idle"
                 PROVE  /\ timers'[ttl[r].timer].slot = r
                        /\ timers'[ttl[r].timer].running <=> ~Replaced(r)
                        /\ Promises(ttl[r], timers'[ttl[r].timer])
        BY <1>6 DEF EntriesOwnTimers, Live
    <2>1. timers'[ttl[r].timer] = timers[ttl[r].timer]
        BY <1>2, <1>3
    <2> QED
        BY <2>1 DEF IInv, EntriesOwnTimers, Live
<1>9. RunningTimersAreOwned'
    <2> SUFFICES ASSUME NEW u \in Timers, Live(u)', timers'[u].running
                 PROVE  ttl[timers'[u].slot] # NoTTL /\ ttl[timers'[u].slot].timer = u
        BY DEF RunningTimersAreOwned
    <2>1. timers'[u] = timers[u]
        BY <1>2 DEF Live
    <2> QED
        BY <2>1 DEF IInv, RunningTimersAreOwned, Live
<1>10. DistinctTimers'
    BY DEF IInv, DistinctTimers
<1>11. VolatileHasEntry'
    <2> SUFFICES ASSUME NEW r \in volatile'
                 PROVE  /\ ttl[r] # NoTTL
                        /\ r \notin stranded' =>
                             (/\ timers'[ttl[r].timer].phase # "idle"
                              /\ timers'[ttl[r].timer].running)
                        /\ r \in stranded' => timers'[ttl[r].timer].phase = "idle"
        BY DEF VolatileHasEntry, Live
    <2>1. r \in volatile /\ r \in Slots
        BY <1>5
    <2>2. /\ ttl[r] # NoTTL
          /\ r \notin stranded => Live(ttl[r].timer) /\ timers[ttl[r].timer].running
          /\ r \in stranded => ~Live(ttl[r].timer)
        BY <2>1 DEF IInv, VolatileHasEntry
    <2>3. ttl[r].timer # t =>
            timers'[ttl[r].timer] = timers[ttl[r].timer] /\ r \notin Behind(t)
        BY <1>2, <1>3, <2>1, <2>2 DEF Behind
    <2>4. CASE r \in stranded
        <3>1. ttl[r].timer # t /\ r \in stranded'
            BY <1>4, <2>2, <2>4 DEF Remove
        <3> QED
            BY <2>2, <2>3, <2>4, <3>1 DEF Live
    <2>5. CASE r \notin stranded /\ ttl[r].timer # t
        <3>1. r \notin stranded'
            BY <2>3, <2>5 DEF Remove
        <3> QED
            BY <2>2, <2>3, <2>5, <3>1 DEF Live
    <2>6. CASE r \notin stranded /\ ttl[r].timer = t
        <3>1. timers[t].slot = r /\ timers[t].running
            BY <1>4, <2>1, <2>2, <2>6 DEF IInv, EntriesOwnTimers
        <3>2. stranded' = stranded \cup Behind(t)
            BY <3>1 DEF Remove
        <3>3. r \in stranded'
            BY <2>1, <2>2, <2>6, <3>2 DEF Behind
        <3> QED
            BY <1>2, <2>2, <2>6, <3>3
    <2> QED
        BY <2>4, <2>5, <2>6
<1>12. SpentEntriesAreDue'
    <2> SUFFICES ASSUME NEW r \in Slots, ttl[r] # NoTTL,
                        timers'[ttl[r].timer].phase # "armed"
                 PROVE  ttl[r].expire <= Unix
        BY DEF SpentEntriesAreDue, Unix, UnixAt
    <2>1. CASE timers[ttl[r].timer].phase # "armed"
        BY <2>1 DEF IInv, SpentEntriesAreDue
    <2>2. CASE timers[ttl[r].timer].phase = "armed"
        <3>1. ttl[r].timer = t /\ timers[t].deadline <= now
            BY <1>2, <1>3, <2>2
        <3> QED
            BY <1>1, <1>4, <3>1, TypeFacts, PromiseDue DEF IInv, EntriesOwnTimers
    <2> QED
        BY <2>1, <2>2
<1>13. DelaysFit'
    BY <1>2 DEF IInv, DelaysFit, Unix, UnixAt, Live
<1>14. OneInside' /\ InsideFits'
    BY <1>5 DEF IInv, OneInside, InsideFits, Inside
<1> QED
    BY <1>7, <1>8, <1>9, <1>10, <1>11, <1>12, <1>13, <1>14 DEF IInv

LEMMA TickStep ==
    ASSUME IInv, Tick
    PROVE  IInv'
<1>1. /\ now' = now + 1 /\ now < MaxTime
      /\ \A c \in Conns : Inside(c) => now - pend[c].start < MaxLag
      /\ UNCHANGED <<data, volatile, ttl, timers, pend, stranded>>
    BY DEF Tick
<1>2. now \in 0..MaxTime /\ now' \in 0..MaxTime
    BY <1>1, ClockAssumption DEF IInv, TypeOK
<1>3. TypeOK'
    BY <1>1, <1>2 DEF IInv, TypeOK
<1>4. EntriesOwnTimers' /\ RunningTimersAreOwned' /\ DistinctTimers' /\ VolatileHasEntry'
    BY <1>1 DEF IInv, EntriesOwnTimers, RunningTimersAreOwned, DistinctTimers,
                VolatileHasEntry, Live, Replaced, Inside
<1>5. Unix <= Unix' /\ Unix \in Int /\ Unix' \in Int
    <2>1. now \in Int /\ now' \in Int /\ now <= now' /\ MsPerSec \in Nat \ {0}
        BY <1>1, <1>2, WidthAssumption, ClockAssumption
    <2>2. now \div MsPerSec <= now' \div MsPerSec
        BY <2>1, DivMono
    <2>3. Unix = now \div MsPerSec /\ Unix \in Int
        BY <1>2, UnixExact, WidthAssumption
    <2>4. Unix' = now' \div MsPerSec /\ Unix' \in Int
        BY <1>2, SecondsFit, WidthAssumption DEF Unix, UnixAt
    <2> QED
        BY <2>2, <2>3, <2>4
<1>6. SpentEntriesAreDue'
    <2> SUFFICES ASSUME NEW r \in Slots, ttl[r] # NoTTL,
                        timers[ttl[r].timer].phase # "armed"
                 PROVE  ttl[r].expire <= Unix'
        BY <1>1 DEF SpentEntriesAreDue
    <2>1. ttl[r].expire <= Unix /\ ttl[r].expire \in Int
        BY WidthAssumption DEF IInv, SpentEntriesAreDue, TypeOK, Entry
    <2> QED
        BY <1>5, <2>1
<1>7. DelaysFit'
    <2> SUFFICES ASSUME NEW u \in Timers, Live(u)
                 PROVE  timers[u].deadline \div MsPerSec < Unix' + UintMod
        BY <1>1 DEF DelaysFit, Live
    <2>1. timers[u].deadline \div MsPerSec < Unix + UintMod
        BY DEF IInv, DelaysFit
    <2>2. timers[u].deadline \in Nat
        BY DEF IInv, TypeOK, Timer, Idle, Live
    <2>3. timers[u].deadline \div MsPerSec \in Nat
        BY <2>2, WidthAssumption
    <2> QED
        BY <1>5, <2>1, <2>3, WidthAssumption
<1>8. OneInside'
    BY <1>1 DEF IInv, OneInside, Inside
<1>9. InsideFits'
    <2>1. ASSUME NEW c \in Conns, Inside(c)
          PROVE  pend[c].start <= now' /\ now' - pend[c].start <= MaxLag
        <3>1. now \in Int /\ pend[c].start \in Int /\ MaxLag \in Int
            BY <2>1, TypeFacts, ClockAssumption, LagAssumption DEF IInv
        <3>2. pend[c].start <= now /\ now - pend[c].start < MaxLag
            BY <1>1, <2>1 DEF IInv, InsideFits
        <3> QED
            BY <1>1, <3>1, <3>2
    <2>2. pend' = pend /\ volatile' = volatile /\ \A c \in Conns : Inside(c)' <=> Inside(c)
        BY <1>1 DEF Inside
    <2> QED
        BY <2>1, <2>2 DEF IInv, InsideFits
<1> QED
    BY <1>3, <1>4, <1>6, <1>7, <1>8, <1>9 DEF IInv

\* Both Init and Restart begin with an empty table and no timers.
LEMMA EmptyTable ==
    ASSUME now \in 0..MaxTime, data \subseteq Slots, volatile = {}, stranded = {},
           ttl = [s \in Slots |-> NoTTL], timers = [t \in Timers |-> Idle],
           pend = [c \in Conns |-> NoCall]
    PROVE  IInv
BY DEF IInv, TypeOK, EntriesOwnTimers, RunningTimersAreOwned, DistinctTimers,
       VolatileHasEntry, SpentEntriesAreDue, DelaysFit, OneInside, InsideFits, Inside,
       Timer, Idle, Live

-----------------------------------------------------------------------------
(* The theorems. *)

LEMMA InitEstablishesIInv == Init => IInv
BY EmptyTable, ClockAssumption DEF Init

LEMMA NextPreservesIInv ==
    ASSUME IInv, [Next]_vars
    PROVE  IInv'
<1>1. TypeOK /\ data \subseteq Slots /\ volatile \subseteq data /\ stranded \subseteq volatile
      /\ pend \in [Conns -> Call \cup {NoCall}]
    BY DEF IInv, TypeOK
<1>2. ASSUME NEW c \in Conns, NEW s \in Slots, Set(c, s)
      PROVE  IInv'
    BY <1>1, <1>2, DataStep DEF Set, Write, Inside
<1>3. ASSUME NEW c \in Conns, NEW s \in Slots, NEW secs \in 0..(UintMod - 1),
             SetWithTTL(c, s, secs)
      PROVE  IInv'
    <2>1. pend' \in [Conns -> Call \cup {NoCall}]
        BY <1>1, <1>3 DEF SetWithTTL, Call
    <2>2. \A d \in Conns : (Inside(d)' <=> Inside(d)) /\ (Inside(d) => pend'[d] = pend[d])
        BY <1>1, <1>3 DEF SetWithTTL, Free, Inside
    <2> QED
        BY <1>1, <1>3, <2>1, <2>2, DataStep DEF SetWithTTL, Write
<1>4. ASSUME NEW c \in Conns, NEW s \in Slots, NEW n \in ExArgs, SetEX(c, s, n)
      PROVE  IInv'
    BY <1>3, <1>4, Uint32Type, ArgsAssumption DEF SetEX
<1>5. ASSUME NEW c \in Conns, NEW s \in Slots, NEW n \in PxArgs, SetPX(c, s, n)
      PROVE  IInv'
    <2>1. Uint32(Quot(n, MsPerSec)) \in 0..(UintMod - 1)
        BY Uint32Type, QuotType, ArgsAssumption, WidthAssumption
    <2> QED
        BY <1>3, <1>5, <2>1 DEF SetPX
<1>6. ASSUME NEW c \in Conns, NEW s \in Slots, Modify(c, s)
      PROVE  IInv'
    BY <1>1, <1>6, DataStep DEF Modify, Inside
<1>7. ASSUME NEW c \in Conns, NEW s \in Slots, NEW n \in ExpireArgs, Expire(c, s, n)
      PROVE  IInv'
    BY <1>7, BeginStep, Uint32Type, ArgsAssumption DEF Expire
<1>8. ASSUME NEW c \in Conns, NEW d \in Dbs, NEW K \in SUBSET Keys, Del(c, d, K)
      PROVE  IInv'
    BY <1>1, <1>8, DataStep DEF Del, Remove, Inside
<1>9. ASSUME NEW c \in Conns, NEW d \in Dbs, FlushAll(c, d)
      PROVE  IInv'
    BY <1>1, <1>9, DataStep DEF FlushAll, Remove, Inside
<1>10. ASSUME NEW c \in Conns, Command(c)
       PROVE  IInv'
    BY <1>2, <1>4, <1>5, <1>6, <1>7, <1>8, <1>9, <1>10, PersistStep DEF Command
<1>11. ASSUME NEW c \in Conns, FinishSet(c)
       PROVE  IInv'
    <2>1. pend[c].slot \in Slots /\ pend[c].secs \in 0..(UintMod - 1)
        BY <1>1, <1>11 DEF FinishSet, Call
    <2> QED
        BY <1>11, <2>1, BeginStep DEF FinishSet
<1>12. ASSUME NEW t \in Timers, TimerCheck(t)
       PROVE  IInv'
    <2>1. CASE timers[t].running
        BY <1>12, <2>1, FireStep
    <2>2. CASE ~timers[t].running
        <3>1. timers[t].deadline <= now
            BY <1>1, <1>12, TypeFacts DEF TimerCheck, Live
        <3> QED
            BY <1>12, <2>2, <3>1, ReturnStep DEF TimerCheck
    <2> QED
        BY <2>1, <2>2
<1>13. ASSUME NEW t \in Timers, TimerDel(t)
       PROVE  IInv'
    BY <1>13, ReturnStep DEF TimerDel
<1>14. ASSUME Restart
       PROVE  IInv'
    <2>1. /\ now' \in 0..MaxTime /\ data' \subseteq Slots /\ volatile' = {} /\ stranded' = {}
          /\ ttl' = [s \in Slots |-> NoTTL]
          /\ timers' = [t \in Timers |-> Idle]
          /\ pend' = [c \in Conns |-> NoCall]
        BY <1>1, <1>14 DEF Restart, TypeOK
    <2> QED
        BY <2>1 DEF IInv, TypeOK, EntriesOwnTimers, RunningTimersAreOwned,
                    DistinctTimers, VolatileHasEntry, SpentEntriesAreDue, DelaysFit,
                    OneInside, InsideFits, Inside, Timer, Idle, Live
<1>15. CASE UNCHANGED vars
    BY <1>1, <1>15, DataStep DEF vars, Inside
<1> QED
    BY <1>10, <1>11, <1>12, <1>13, <1>14, <1>15, ArmStep, TickStep DEF Next

LEMMA IInvAlways == Spec => []IInv
<1>1. IInv /\ [Next]_vars => IInv'
    BY NextPreservesIInv
<1> QED
    BY InitEstablishesIInv, <1>1, PTL DEF Spec

\* The state of the storage client is always well typed.
THEOREM TypeCorrect == Spec => []TypeOK
BY IInvAlways, PTL DEF IInv

\* The table that client.mtx guards and the timers, which run outside it, agree
\* (storage.Expire and storage.Persist).
THEOREM TableCorrect == Spec => []TableMatchesTimers
<1>1. IInv => TableMatchesTimers
    BY DEF IInv, TableMatchesTimers
<1> QED
    BY IInvAlways, <1>1, PTL

\* A value with a TTL keeps a timer that will try to delete it, until the value
\* is overwritten, persisted or removed, or until that deletion fails.
THEOREM VolatileCorrect == Spec => []VolatileHasTimer
<1>1. ASSUME IInv
      PROVE  VolatileHasTimer
    <2> SUFFICES ASSUME NEW s \in volatile
                 PROVE  s \in stranded => TTL(s) = 0
        BY <1>1 DEF VolatileHasTimer, IInv, VolatileHasEntry
    <2>1. s \in Slots /\ (s \in stranded => ttl[s] # NoTTL /\ ~Live(ttl[s].timer))
        BY <1>1 DEF IInv, TypeOK, VolatileHasEntry
    <2>2. s \in stranded => ttl[s].expire <= Unix
        BY <1>1, <2>1 DEF IInv, SpentEntriesAreDue, Live
    <2> QED
        BY <2>2 DEF TTL
<1> QED
    BY IInvAlways, <1>1, PTL

\* A positive reply of storage.TTL means that the timer has not fired.
THEOREM PositiveTTLCorrect == Spec => []PositiveTTLMeansArmed
<1>1. ASSUME IInv
      PROVE  PositiveTTLMeansArmed
    <2> SUFFICES ASSUME NEW s \in Slots, TTL(s) > 0, ~Replaced(s)
                 PROVE  /\ timers[ttl[s].timer].phase = "armed"
                        /\ timers[ttl[s].timer].running
        BY DEF PositiveTTLMeansArmed
    <2>1. Unix \in Int
        BY <1>1, UnixExact, WidthAssumption DEF IInv, TypeOK
    <2>2. ttl[s] # NoTTL /\ ~(ttl[s].expire <= Unix)
        BY DEF TTL
    <2>3. timers[ttl[s].timer].phase = "armed"
        BY <1>1, <2>2 DEF IInv, SpentEntriesAreDue
    <2>4. timers[ttl[s].timer].running
        BY <1>1, <2>2, <2>3 DEF IInv, EntriesOwnTimers, Live
    <2> QED
        BY <2>3, <2>4
<1> QED
    BY IInvAlways, <1>1, PTL

\* What an entry promises of a timer that is still outstanding: the quotient q
\* that was cut to 32 bits, and the time by which the deadline is later.
LEMMA PromiseFacts ==
    ASSUME IInv, NEW s \in Slots, ttl[s] # NoTTL, Live(ttl[s].timer)
    PROVE  LET D == timers[ttl[s].timer].deadline
           IN  /\ D \in Nat
               /\ \E lag, q \in Nat :
                    /\ lag <= MaxLag /\ lag <= D /\ q = (D - lag) \div MsPerSec
                    /\ ttl[s].expire = Uint32(q)
                    /\ q <= D \div MsPerSec /\ q < Unix + UintMod
                    /\ q * MsPerSec + lag <= D /\ D < q * MsPerSec + MsPerSec + lag
<1> DEFINE D == timers[ttl[s].timer].deadline
<1>1. D \in Nat /\ Unix \in Int
    BY TypeFacts, UnixExact, WidthAssumption DEF IInv
<1>2. PICK lag \in 0..MaxLag : lag <= D /\ ttl[s].expire = Uint32((D - lag) \div MsPerSec)
    BY DEF IInv, EntriesOwnTimers, Promises
<1>3. D \div MsPerSec < Unix + UintMod
    BY TypeFacts DEF IInv, DelaysFit
<1> HIDE DEF D
<1>4. lag \in Nat /\ lag <= MaxLag
    BY LagAssumption
<1>5. PICK d \in Nat : d = D - lag /\ d <= D
    BY <1>1, <1>2, <1>4
<1>6. PICK q \in Nat : /\ q = d \div MsPerSec
                       /\ q * MsPerSec <= d /\ d < q * MsPerSec + MsPerSec
    BY <1>5, WidthAssumption
<1>7. q <= D \div MsPerSec /\ D \div MsPerSec \in Int
    <2>1. d \in Int /\ D \in Int /\ MsPerSec \in Nat \ {0} /\ d <= D
        BY <1>1, <1>5, WidthAssumption
    <2>2. d \div MsPerSec <= D \div MsPerSec /\ D \div MsPerSec \in Int
        BY <2>1, DivMono
    <2> QED
        BY <1>6, <2>2
<1>8. q < Unix + UintMod
    BY <1>1, <1>3, <1>6, <1>7, WidthAssumption
<1>9. PICK m \in Nat : m = q * MsPerSec
    BY <1>6, WidthAssumption
<1>10. q * MsPerSec + lag <= D /\ D < q * MsPerSec + MsPerSec + lag
    BY <1>1, <1>4, <1>5, <1>6, <1>9, WidthAssumption
<1>11. \E l, p \in Nat :
          /\ l <= MaxLag /\ l <= D /\ p = (D - l) \div MsPerSec
          /\ ttl[s].expire = Uint32(p)
          /\ p <= D \div MsPerSec /\ p < Unix + UintMod
          /\ p * MsPerSec + l <= D /\ D < p * MsPerSec + MsPerSec + l
    BY <1>2, <1>4, <1>5, <1>6, <1>7, <1>8, <1>10
<1> QED
    BY <1>1, <1>11 DEF D

\* A value with a second or more to live, and the time Expire took to arm its
\* timer, has a positive TTL, unless its deadline is beyond 32 bits of seconds
\* (storage.TTL and storage.Expire).
THEOREM VisibleCorrect == Spec => []VolatileIsVisible
<1>1. ASSUME IInv
      PROVE  VolatileIsVisible
    <2> SUFFICES ASSUME NEW s \in volatile \ stranded,
                        timers[ttl[s].timer].deadline - now >= MsPerSec + MaxLag,
                        timers[ttl[s].timer].deadline \div MsPerSec < UintMod
                 PROVE  TTL(s) > 0
        BY DEF VolatileIsVisible
    <2> DEFINE D == timers[ttl[s].timer].deadline
    <2>1. now \in Nat /\ Unix = now \div MsPerSec /\ Unix \in Int
        BY <1>1, UnixExact, ClockAssumption, WidthAssumption DEF IInv, TypeOK
    <2>2. s \in Slots /\ ttl[s] # NoTTL /\ Live(ttl[s].timer)
        BY <1>1 DEF IInv, VolatileHasEntry, TypeOK
    <2>3. D - now >= MsPerSec + MaxLag /\ D \div MsPerSec < UintMod
        OBVIOUS
    <2>4. D \in Nat
        BY <1>1, <2>2, PromiseFacts
    <2>5. PICK lag, q \in Nat :
            /\ lag <= MaxLag /\ lag <= D /\ q = (D - lag) \div MsPerSec
            /\ ttl[s].expire = Uint32(q) /\ q <= D \div MsPerSec
        BY <1>1, <2>2, PromiseFacts
    <2> HIDE DEF D
    <2>6. Uint32(q) = q
        <3>1. q < UintMod
            BY <2>3, <2>4, <2>5, WidthAssumption
        <3> QED
            BY <3>1, ModSmall, WidthAssumption DEF Uint32
    <2>7. (now \div MsPerSec) + 1 <= q
        <3>1. PICK next \in Int : next = now + MsPerSec
            BY <2>1, WidthAssumption
        <3>2. PICK d \in Int : d = D - lag /\ next <= d
            BY <2>1, <2>3, <2>4, <2>5, <3>1, WidthAssumption, LagAssumption
        <3>3. next \div MsPerSec = (now \div MsPerSec) + 1
            BY <2>1, <3>1, WidthAssumption
        <3>4. next \div MsPerSec <= d \div MsPerSec
            BY <3>2, DivMono, WidthAssumption
        <3> QED
            BY <2>5, <3>2, <3>3, <3>4
    <2> QED
        BY <2>1, <2>2, <2>5, <2>6, <2>7 DEF TTL
<1> QED
    BY IInvAlways, <1>1, PTL

\* A positive reply of storage.TTL is less than a second above the time left, and
\* less than a second and the time Expire took below it.
THEOREM TTLAccurate == Spec => []TTLTellsTimeLeft
<1>1. ASSUME IInv
      PROVE  TTLTellsTimeLeft
    <2> SUFFICES ASSUME NEW s \in Slots, TTL(s) > 0
                 PROVE  LET left == timers[ttl[s].timer].deadline - now
                        IN  /\ TTL(s) * MsPerSec - MsPerSec < left
                            /\ left < TTL(s) * MsPerSec + MsPerSec + MaxLag
        BY DEF TTLTellsTimeLeft
    <2> DEFINE D == timers[ttl[s].timer].deadline
               u == now \div MsPerSec
    <2>1. now \in 0..MaxTime /\ now \in Nat
        BY <1>1, ClockAssumption DEF IInv, TypeOK
    <2>2. Unix = u /\ u \in 0..(UintMod - 1)
        BY <2>1, UnixExact
    <2>3. ttl[s] # NoTTL /\ ~(ttl[s].expire <= Unix) /\ TTL(s) = ttl[s].expire - Unix
        BY DEF TTL
    <2>4. Live(ttl[s].timer)
        BY <1>1, <2>3 DEF IInv, SpentEntriesAreDue, Live
    <2>5. D \in Nat
        BY <1>1, <2>3, <2>4, PromiseFacts
    <2>6. PICK lag, q \in Nat :
            /\ lag <= MaxLag /\ ttl[s].expire = Uint32(q) /\ q < Unix + UintMod
            /\ q * MsPerSec + lag <= D /\ D < q * MsPerSec + MsPerSec + lag
        BY <1>1, <2>3, <2>4, PromiseFacts
    <2>7. u * MsPerSec <= now /\ now < u * MsPerSec + MsPerSec
        BY <2>1, WidthAssumption
    <2> HIDE DEF D, u
    <2>8. Uint32(q) = q
        <3>1. CASE q < UintMod
            BY <3>1, ModSmall, WidthAssumption DEF Uint32
        <3>2. CASE q >= UintMod
            <4>1. q = (q - UintMod) + 1 * UintMod /\ q - UintMod < u
                BY <2>2, <2>6, WidthAssumption
            <4>2. Uint32(q) = q - UintMod
                BY <2>2, <3>2, <4>1, WidthAssumption DEF Uint32
            <4> QED
                BY <2>2, <2>3, <2>6, <4>1, <4>2, WidthAssumption
        <3> QED
            BY <3>1, <3>2, WidthAssumption
    <2>9. TTL(s) = q - u
        BY <2>2, <2>3, <2>6, <2>8
    <2>10. (q - u) * MsPerSec = q * MsPerSec - u * MsPerSec
        BY <2>2, WidthAssumption
    <2>11. /\ TTL(s) * MsPerSec - MsPerSec < D - now
           /\ D - now < TTL(s) * MsPerSec + MsPerSec + MaxLag
        <3>1. PICK a, b \in Int : a = q * MsPerSec /\ b = u * MsPerSec
            BY <2>2, WidthAssumption
        <3>2. TTL(s) * MsPerSec = a - b
            BY <2>9, <2>10, <3>1
        <3>3. a + lag <= D /\ D < a + MsPerSec + lag /\ b <= now /\ now < b + MsPerSec
            BY <2>6, <2>7, <3>1
        <3> QED
            BY <2>1, <2>5, <2>6, <3>2, <3>3, WidthAssumption, LagAssumption
    <2> QED
        BY <2>11 DEF D
<1> QED
    BY IInvAlways, <1>1, PTL

=============================================================================
