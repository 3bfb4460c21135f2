-------------------------- MODULE ExpiryLeasesProofs --------------------------
(* Proof that Expiry implements Leases, for every value of the constants.    *)
EXTENDS ExpiryLeases, ExpiryProofs

-----------------------------------------------------------------------------
(* What the steps of Expiry do to the leases and to the strikes. *)

\* storage.Expire first ends the lease of its slot, if it has one.
LEMMA BeginMaps ==
    ASSUME IInv, NEW c \in Conns, NEW s \in Slots, NEW secs \in 0..(UintMod - 1),
           BeginExpire(c, s, secs)
    PROVE  /\ DeadlineOf' = [DeadlineOf EXCEPT ![s] = NoTTL]
           /\ Fired' = Fired
<1>1. timers' = Cancelled(s) /\ ttl' = ttl
    BY DEF BeginExpire
<1>2. TypeOK
    BY DEF IInv
<1>3. \A r \in Slots : ttl[r] # NoTTL => ttl[r].timer \in Timers
    BY <1>2, TypeFacts
<1>4. \A u \in Timers :
        /\ timers'[u].phase = timers[u].phase
        /\ Live(u) =>
            /\ timers'[u].slot = timers[u].slot /\ timers'[u].deadline = timers[u].deadline
            /\ timers'[u].running =
                 (timers[u].running /\ ~(ttl[s] # NoTTL /\ ttl[s].timer = u))
    BY <1>1, <1>2, CancelledFacts
<1>5. \A r \in Slots : r # s /\ ttl[r] # NoTTL =>
        ~(ttl[s] # NoTTL /\ ttl[s].timer = ttl[r].timer)
    BY DEF IInv, DistinctTimers
<1>6. ASSUME NEW r \in Slots
      PROVE  DeadlineOf'[r] = IF r = s THEN NoTTL ELSE DeadlineOf[r]
    <2>1. Waiting(r)' <=> (r # s /\ Waiting(r))
        BY <1>1, <1>3, <1>4, <1>5 DEF Waiting, Live
    <2>2. Waiting(r) => timers'[ttl[r].timer].deadline = timers[ttl[r].timer].deadline
        BY <1>3, <1>4 DEF Waiting, Live
    <2> QED
        BY <1>1, <2>1, <2>2 DEF DeadlineOf
<1>7. DeadlineOf' = [DeadlineOf EXCEPT ![s] = NoTTL]
    BY <1>6 DEF DeadlineOf
<1>8. Fired' = Fired
    BY <1>4 DEF Fired, Live
<1> QED
    BY <1>7, <1>8

\* Then it grants the lease that is due after the seconds it was called with.
LEMMA ArmMaps ==
    ASSUME IInv, NEW c \in Conns, Arm(c)
    PROVE  LET s == pend[c].slot
           IN  /\ s \in Slots /\ pend[c].secs \in 0..(UintMod - 1)
               /\ DeadlineOf' = [DeadlineOf EXCEPT ![s] = now + pend[c].secs * MsPerSec]
               /\ Fired' = Fired
<1> DEFINE s == pend[c].slot
           due == now + pend[c].secs * MsPerSec
           new == [phase |-> "armed", slot |-> s, running |-> TRUE, deadline |-> due]
           entry(t) == [expire |-> Uint32(UnixAt(pend[c].start) + pend[c].secs), timer |-> t]
<1>1. PICK t \in Timers :
        /\ Inside(c)
        /\ Unused(t)
        /\ timers' = [timers EXCEPT ![t] = new]
        /\ ttl' = [ttl EXCEPT ![s] = entry(t)]
    BY DEF Arm
<1>2. TypeOK /\ timers \in [Timers -> Timer] /\ ttl \in [Slots -> Entry \cup {NoTTL}]
    BY DEF IInv, TypeOK
<1>3. s \in Slots /\ pend[c].secs \in 0..(UintMod - 1) /\ pend[c].start \in 0..MaxTime
    BY <1>1, <1>2, TypeFacts
<1>4. entry(t) \in Entry /\ entry(t) # NoTTL /\ entry(t).timer = t
    <2>1. UnixAt(pend[c].start) + pend[c].secs \in Int
        BY <1>3, SecondsFit, WidthAssumption DEF UnixAt
    <2> QED
        BY <2>1, Uint32Type, SentinelAssumption DEF Entry
<1>5. timers'[t] = new /\ \A u \in Timers : u # t => timers'[u] = timers[u]
    BY <1>1, <1>2
<1>6. ttl'[s] = entry(t) /\ \A r \in Slots : r # s => ttl'[r] = ttl[r]
    BY <1>1, <1>2, <1>3
<1>7. \A r \in Slots : r # s /\ ttl[r] # NoTTL => ttl[r].timer \in Timers \ {t}
    BY <1>1, <1>2, TypeFacts DEF Unused
<1> HIDE DEF entry, due, s
<1>8. ASSUME NEW r \in Slots
      PROVE  DeadlineOf'[r] = IF r = s THEN due ELSE DeadlineOf[r]
    <2>1. CASE r = s
        BY <1>4, <1>5, <1>6, <2>1 DEF DeadlineOf, Waiting
    <2>2. CASE r # s
        BY <1>5, <1>6, <1>7, <2>2 DEF DeadlineOf, Waiting
    <2> QED
        BY <2>1, <2>2
<1>9. DeadlineOf' = [DeadlineOf EXCEPT ![s] = due]
    BY <1>8 DEF DeadlineOf
<1>10. \A u \in Timers : timers'[u].phase = "firing" <=> timers[u].phase = "firing"
    BY <1>1, <1>5 DEF Unused, Live
<1>11. \A u \in Timers : timers[u].phase = "firing" => timers'[u].slot = timers[u].slot
    BY <1>1, <1>5 DEF Unused, Live
<1>12. Fired' = Fired
    BY <1>10, <1>11 DEF Fired
<1> QED
    BY <1>3, <1>9, <1>12 DEF s, due

\* PERSIST ends the lease of its slot, if it has one.
LEMMA PersistMaps ==
    ASSUME IInv, NEW c \in Conns, NEW s \in Slots, Persist(c, s)
    PROVE  /\ DeadlineOf' = [DeadlineOf EXCEPT ![s] = NoTTL]
           /\ Fired' = Fired
<1>1. timers' = Cancelled(s) /\ ttl' = [ttl EXCEPT ![s] = NoTTL]
    BY DEF Persist
<1>2. TypeOK
    BY DEF IInv
<1>3. ttl \in [Slots -> Entry \cup {NoTTL}]
    BY <1>2 DEF TypeOK
<1>4. \A u \in Timers :
        /\ timers'[u].phase = timers[u].phase
        /\ Live(u) =>
            /\ timers'[u].slot = timers[u].slot /\ timers'[u].deadline = timers[u].deadline
            /\ timers'[u].running =
                 (timers[u].running /\ ~(ttl[s] # NoTTL /\ ttl[s].timer = u))
    BY <1>1, <1>2, CancelledFacts
<1>5. ttl'[s] = NoTTL /\ \A r \in Slots : r # s => ttl'[r] = ttl[r]
    BY <1>1, <1>3
<1>6. \A r \in Slots : ttl[r] # NoTTL => ttl[r].timer \in Timers
    BY <1>3 DEF Entry
<1>7. \A r \in Slots : DeadlineOf'[r] = IF r = s THEN NoTTL ELSE DeadlineOf[r]
    <2> SUFFICES ASSUME NEW r \in Slots
                 PROVE  DeadlineOf'[r] = IF r = s THEN NoTTL ELSE DeadlineOf[r]
        OBVIOUS
    <2>1. r # s /\ ttl[r] # NoTTL => ~(ttl[s] # NoTTL /\ ttl[s].timer = ttl[r].timer)
        BY DEF IInv, DistinctTimers
    <2>2. Waiting(r)' <=> (r # s /\ Waiting(r))
        <3>1. CASE r = s
            BY <1>5, <3>1 DEF Waiting
        <3>2. CASE r # s /\ ttl[r] = NoTTL
            BY <1>5, <3>2 DEF Waiting
        <3>3. CASE r # s /\ ttl[r] # NoTTL
            <4> DEFINE u == ttl[r].timer
            <4>1. ttl'[r] = ttl[r] /\ u \in Timers
                BY <1>5, <1>6, <3>3
            <4>2. timers'[u].phase = timers[u].phase
                BY <1>4, <4>1
            <4>3. timers[u].phase = "armed" => (timers'[u].running <=> timers[u].running)
                <5>1. ~(ttl[s] # NoTTL /\ ttl[s].timer = u)
                    BY <2>1, <3>3
                <5>2. timers[u].phase = "armed" => Live(u)
                    BY DEF Live
                <5>3. Live(u) => timers'[u].running =
                        (timers[u].running /\ ~(ttl[s] # NoTTL /\ ttl[s].timer = u))
                    BY <1>4, <4>1
                <5>4. timers[u].phase = "armed" => timers'[u].running = (timers[u].running /\ TRUE)
                    BY <5>1, <5>2, <5>3, Zenon
                <5> QED
                    BY <5>4
            <4> HIDE DEF u
            <4>4. Waiting(r) <=> timers[u].phase = "armed" /\ timers[u].running
                BY <3>3 DEF Waiting, u
            <4>5. Waiting(r)' <=> timers'[u].phase = "armed" /\ timers'[u].running
                BY <3>3, <4>1 DEF Waiting, u
            <4> QED
                BY <3>3, <4>2, <4>3, <4>4, <4>5
        <3> QED
            BY <3>1, <3>2, <3>3
    <2>3. r # s /\ Waiting(r) => /\ ttl'[r] = ttl[r]
                                /\ timers'[ttl[r].timer].deadline = timers[ttl[r].timer].deadline
        BY <1>4, <1>5, <1>6 DEF Waiting, Live
    <2> QED
        BY <2>2, <2>3 DEF DeadlineOf
<1>8. DeadlineOf' = [DeadlineOf EXCEPT ![s] = NoTTL]
    BY <1>7 DEF DeadlineOf
<1>9. Fired' = Fired
    BY <1>4 DEF Fired, Live
<1> QED
    BY <1>8, <1>9

\* A timer that finds its flag set ends the lease of its slot, and strikes.
LEMMA FireMaps ==
    ASSUME IInv, NEW t \in Timers, TimerCheck(t), timers[t].running
    PROVE  LET s == timers[t].slot
           IN  /\ s \in Slots
               /\ DeadlineOf[s] # NoTTL /\ DeadlineOf[s] <= now
               /\ \A r \in Slots : <<t, r>> \notin Fired
               /\ DeadlineOf' = [DeadlineOf EXCEPT ![s] = NoTTL]
               /\ Fired' = Fired \cup {<<t, s>>}
<1> DEFINE s == timers[t].slot
<1>1. /\ timers[t].phase = "armed"
      /\ now >= timers[t].deadline
      /\ timers' = [timers EXCEPT ![t].phase = "firing"]
      /\ ttl' = ttl
    BY DEF TimerCheck
<1>2. /\ timers \in [Timers -> Timer]
      /\ ttl \in [Slots -> Entry \cup {NoTTL}]
      /\ now \in 0..MaxTime
    BY DEF IInv, TypeOK
<1>3. timers[t] \in [phase : {"armed", "firing"}, slot : Slots,
                     deadline : Nat, running : BOOLEAN]
    BY <1>1, <1>2 DEF Timer, Idle
<1>4. /\ timers'[t].phase = "firing" /\ timers'[t].slot = s
      /\ \A u \in Timers : u # t => timers'[u] = timers[u]
    BY <1>1, <1>2, <1>3
<1>5. s \in Slots /\ timers[t].deadline \in Nat
    BY <1>3
<1>6. ttl[s] # NoTTL /\ ttl[s].timer = t
    BY <1>1 DEF IInv, RunningTimersAreOwned, Live
<1>7. \A r \in Slots : r # s /\ ttl[r] # NoTTL => ttl[r].timer \in Timers \ {t}
    BY <1>2, <1>5, <1>6 DEF IInv, DistinctTimers, Entry
<1> HIDE DEF s
<1>8. DeadlineOf[s] = timers[t].deadline
    BY <1>1, <1>5, <1>6 DEF DeadlineOf, Waiting
<1>9. \A r \in Slots : DeadlineOf'[r] = IF r = s THEN NoTTL ELSE DeadlineOf[r]
    BY <1>1, <1>4, <1>6, <1>7 DEF DeadlineOf, Waiting
<1>10. DeadlineOf' = [DeadlineOf EXCEPT ![s] = NoTTL]
    BY <1>9 DEF DeadlineOf
<1>11. \A r \in Slots : <<t, r>> \notin Fired
    BY <1>1 DEF Fired
<1>12. Fired' = Fired \cup {<<t, s>>}
    <2>2. \A u \in Timers : timers[u].phase = "firing" => u # t
        BY <1>1
    <2>3. ASSUME NEW p \in Fired'
          PROVE  p \in Fired \cup {<<t, s>>}
        <3>1. PICK u \in Timers : timers'[u].phase = "firing" /\ p = <<u, timers'[u].slot>>
            BY DEF Fired
        <3> QED
            BY <1>4, <3>1 DEF Fired
    <2>4. ASSUME NEW p \in Fired \cup {<<t, s>>}
          PROVE  p \in Fired'
        BY <1>4, <2>2 DEF Fired
    <2> QED
        BY <2>3, <2>4
<1>13. DeadlineOf[s] # NoTTL /\ DeadlineOf[s] <= now
    BY <1>1, <1>2, <1>5, <1>8, LeaseAssumption, ClockAssumption
<1> QED
    BY <1>5, <1>10, <1>11, <1>12, <1>13 DEF s

\* A cancelled timer that returns was nobody's lease, and no strike.
LEMMA ReturnMaps ==
    ASSUME IInv, NEW t \in Timers, TimerCheck(t), ~timers[t].running
    PROVE  DeadlineOf' = DeadlineOf /\ Fired' = Fired
<1>1. timers[t].phase = "armed" /\ timers' = [timers EXCEPT ![t] = Idle] /\ ttl' = ttl
    BY DEF TimerCheck
<1>2. timers \in [Timers -> Timer] /\ ttl \in [Slots -> Entry \cup {NoTTL}]
    BY DEF IInv, TypeOK
<1>3. timers'[t].phase = "idle" /\ \A u \in Timers : u # t => timers'[u] = timers[u]
    BY <1>1, <1>2 DEF Idle
<1>4. \A r \in Slots : ttl[r] # NoTTL => ttl[r].timer \in Timers
    BY <1>2 DEF Entry
<1>5. DeadlineOf' = DeadlineOf
    <2>1. ASSUME NEW r \in Slots
          PROVE  DeadlineOf'[r] = DeadlineOf[r]
        BY <1>1, <1>3, <1>4 DEF DeadlineOf, Waiting
    <2> QED
        BY <2>1 DEF DeadlineOf
<1>6. Fired' = Fired
    BY <1>1, <1>3 DEF Fired
<1> QED
    BY <1>5, <1>6

\* A strike lands or is lost; its lease had ended before.
LEMMA StrikeMaps ==
    ASSUME IInv, NEW t \in Timers, TimerDel(t)
    PROVE  LET s == timers[t].slot
           IN  /\ s \in Slots
               /\ <<t, s>> \in Fired
               /\ Fired' = Fired \ {<<t, s>>}
               /\ DeadlineOf' = DeadlineOf
<1> DEFINE s == timers[t].slot
<1>1. timers[t].phase = "firing" /\ timers' = [timers EXCEPT ![t] = Idle] /\ ttl' = ttl
    BY DEF TimerDel
<1>2. timers \in [Timers -> Timer] /\ ttl \in [Slots -> Entry \cup {NoTTL}]
    BY DEF IInv, TypeOK
<1>3. timers'[t].phase = "idle" /\ \A u \in Timers : u # t => timers'[u] = timers[u]
    BY <1>1, <1>2 DEF Idle
<1>4. s \in Slots
    BY <1>1, <1>2 DEF Timer, Idle
<1>5. \A r \in Slots : ttl[r] # NoTTL => ttl[r].timer \in Timers
    BY <1>2 DEF Entry
<1>6. \A r \in Slots : DeadlineOf'[r] = DeadlineOf[r]
    BY <1>1, <1>3, <1>5 DEF DeadlineOf, Waiting
<1>7. DeadlineOf' = DeadlineOf
    BY <1>6 DEF DeadlineOf
<1>8. <<t, s>> \in Fired
    BY <1>1 DEF Fired
<1>9. Fired' = Fired \ {<<t, s>>}
    BY <1>1, <1>3 DEF Fired
<1> QED
    BY <1>4, <1>7, <1>8, <1>9

-----------------------------------------------------------------------------
(* The refinement. *)

LEMMA InitMaps == Init => Abstract!Init
BY DEF Init, Abstract!Init, DeadlineOf, Waiting, Fired, Idle

\* What changes neither the table nor a timer changes no lease and no strike.
LEMMA TableUnchanged ==
    ASSUME UNCHANGED <<ttl, timers>>
    PROVE  DeadlineOf' = DeadlineOf /\ Fired' = Fired
BY DEF DeadlineOf, Waiting, Fired

LEMMA StoreMaps ==
    ASSUME NEW s \in Slots, data' = data \cup {s}, UNCHANGED <<now, ttl, timers>>
    PROVE  Abstract!Next
<1>1. Abstract!Store(s)
    BY TableUnchanged DEF Abstract!Store
<1> QED
    BY <1>1 DEF Abstract!Next

LEMMA RemoveMaps ==
    ASSUME NEW S \in SUBSET Slots, Remove(S), UNCHANGED <<now, ttl, timers>>
    PROVE  Abstract!Next
<1>1. Abstract!Remove(S)
    BY TableUnchanged DEF Remove, Abstract!Remove
<1> QED
    BY <1>1 DEF Abstract!Next

LEMMA GrantMaps ==
    ASSUME IInv, NEW c \in Conns, Arm(c)
    PROVE  Abstract!Next
<1>1. pend[c].slot \in Slots /\ pend[c].secs * MsPerSec \in WholeSeconds
    BY ArmMaps DEF WholeSeconds
<1>2. Abstract!Grant(pend[c].slot, pend[c].secs * MsPerSec)
    BY ArmMaps DEF Arm, Abstract!Grant
<1> QED
    BY <1>1, <1>2 DEF Abstract!Next

LEMMA ReleaseMaps ==
    ASSUME IInv, NEW c \in Conns, NEW s \in Slots, NEW secs \in 0..(UintMod - 1),
           BeginExpire(c, s, secs)
    PROVE  Abstract!Next
<1>1. Abstract!Release(s)
    BY BeginMaps DEF BeginExpire, Abstract!Release
<1> QED
    BY <1>1 DEF Abstract!Next

LEMMA CommandMaps ==
    ASSUME IInv, NEW c \in Conns, Command(c)
    PROVE  Abstract!Next
<1>1. ASSUME NEW s \in Slots,
             \/ Set(c, s) \/ Modify(c, s)
             \/ \E n \in ExArgs : SetEX(c, s, n)
             \/ \E n \in PxArgs : SetPX(c, s, n)
      PROVE  Abstract!Next
    BY <1>1, StoreMaps DEF Set, Modify, SetEX, SetPX, SetWithTTL, Write
<1>2. ASSUME NEW s \in Slots, NEW n \in ExpireArgs, Expire(c, s, n)
      PROVE  Abstract!Next
    BY <1>2, ReleaseMaps, Uint32Type, ArgsAssumption DEF Expire
<1>3. ASSUME NEW s \in Slots, Persist(c, s)
      PROVE  Abstract!Next
    <2>1. Abstract!Release(s)
        BY <1>3, PersistMaps DEF Persist, Abstract!Release
    <2> QED
        BY <2>1 DEF Abstract!Next
<1>4. ASSUME NEW d \in Dbs, NEW K \in SUBSET Keys, Del(c, d, K)
      PROVE  Abstract!Next
    <2>1. {d} \X K \in SUBSET Slots
        BY DEF Slots
    <2> QED
        BY <1>4, <2>1, RemoveMaps DEF Del
<1>5. ASSUME NEW d \in Dbs, FlushAll(c, d)
      PROVE  Abstract!Next
    <2>1. {d} \X Keys \in SUBSET Slots
        BY DEF Slots
    <2> QED
        BY <1>5, <2>1, RemoveMaps DEF FlushAll
<1> QED
    BY <1>1, <1>2, <1>3, <1>4, <1>5 DEF Command

LEMMA TimerMaps ==
    ASSUME IInv, NEW t \in Timers, TimerCheck(t) \/ TimerDel(t)
    PROVE  Abstract!Next \/ UNCHANGED Abstract!vars
<1>1. CASE TimerCheck(t) /\ timers[t].running
    <2>1. timers[t].slot \in Slots /\ Abstract!Begin(t, timers[t].slot)
        BY <1>1, FireMaps DEF TimerCheck, Abstract!Begin
    <2> QED
        BY <2>1 DEF Abstract!Next
<1>2. CASE TimerCheck(t) /\ ~timers[t].running
    BY <1>2, ReturnMaps DEF TimerCheck, Abstract!vars
<1>3. CASE TimerDel(t)
    <2>1. /\ timers[t].slot \in Slots
          /\ Abstract!Land(t, timers[t].slot) \/ Abstract!Miss(t, timers[t].slot)
        BY <1>3, StrikeMaps DEF TimerDel, Remove, Abstract!Land, Abstract!Miss
    <2> QED
        BY <2>1 DEF Abstract!Next
<1> QED
    BY <1>1, <1>2, <1>3

LEMMA StepMaps ==
    ASSUME IInv, [Next]_vars
    PROVE  [Abstract!Next]_(Abstract!vars)
<1>1. CASE \E c \in Conns : Command(c)
    BY <1>1, CommandMaps
<1>2. ASSUME NEW c \in Conns, FinishSet(c)
      PROVE  Abstract!Next
    <2>1. pend[c].slot \in Slots /\ pend[c].secs \in 0..(UintMod - 1)
        BY <1>2 DEF FinishSet, Call, IInv, TypeOK
    <2> QED
        BY <1>2, <2>1, ReleaseMaps DEF FinishSet
<1>3. CASE \E t \in Timers : TimerCheck(t) \/ TimerDel(t)
    BY <1>3, TimerMaps
<1>4. CASE Tick
    <2>1. Abstract!Tick
        BY <1>4, TableUnchanged DEF Tick, Abstract!Tick
    <2> QED
        BY <2>1 DEF Abstract!Next
<1>5. CASE Restart
    <2>1. DeadlineOf' = [s \in Slots |-> NoTTL] /\ Fired' = {}
        BY <1>5 DEF Restart, DeadlineOf, Waiting, Fired, Idle
    <2>2. Abstract!Crash
        BY <1>5, <2>1 DEF Restart, Abstract!Crash
    <2> QED
        BY <2>2 DEF Abstract!Next
<1>6. CASE UNCHANGED vars
    BY <1>6, TableUnchanged DEF vars, Abstract!vars
<1> QED
    BY <1>1, <1>2, <1>3, <1>4, <1>5, <1>6, GrantMaps DEF Next

(***************************************************************************)
(* The table of TTLs and the timers of storage.Expire, Persist and         *)
(* setTimeout implement leases, for any numbers of connections, keys and   *)
(* timers: what was cancelled never strikes, what was granted and not      *)
(* taken back strikes once, to land or to miss, and never before its time. *)
(***************************************************************************)
THEOREM ExpiryImplementsLeases == Spec => LeasesImplemented
<1>1. IInv /\ [Next]_vars => [Abstract!Next]_(Abstract!vars)
    BY StepMaps
<1> QED
    BY <1>1, InitMaps, IInvAlways, PTL DEF Spec, LeasesImplemented, Abstract!Spec

=============================================================================
