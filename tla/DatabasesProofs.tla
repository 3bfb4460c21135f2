--------------------------- MODULE DatabasesProofs ---------------------------
(* Proofs about Databases, for every value of its constants. *)
EXTENDS DatabasesCatalogue, TLAPS

-----------------------------------------------------------------------------
(* The inductive invariant. *)

DbOperation == [kind : {"write", "read"}, db : Dbs]

\* Where goroutines are that have the lock of client.mtx for themselves.
Inside == {"table", "begin", "opendbi", "store", "commit", "unlock"}

Kept ==
    \A p \in Procs :
        /\ pc[p] \in {"lock", "drain"} => op[p] \in Operation
        /\ pc[p] \notin {"idle", "lock", "drain", "table"} => op[p] \in DbOperation

LockerIsHere == \A p \in Procs : pc[p] \in Inside \cup {"drain"} => locker = p

ReadersAreHere ==
    \A p \in Procs :
        /\ pc[p] = "has" => p \in readers
        /\ pc[p] \in Inside => readers = {}

Writing(p) == pc[p] \in {"opendbi", "store", "commit"}
              \/ (pc[p] = "act" /\ op[p].kind = "write")

WriterIsHere == \A p \in Procs : Writing(p) => writer = p

Locking == Kept /\ LockerIsHere /\ ReadersAreHere /\ WriterIsHere

\* The slot of the transaction in progress is the one its goroutine holds.
FreshIsHeld ==
    fresh # None => \E p \in Procs :
        pc[p] \in {"store", "commit"} /\ handle[p] = fresh /\ open[fresh] = op[p].db

OneSlotEach == \A s, t \in Slots : open[s] = open[t] /\ open[s] # None => s = t

\* What openDB is about to store: the slot of the database, or nothing valid if
\* it is not open.
StoredIsTrue ==
    \A p \in Procs : pc[p] = "store" =>
        \/ handle[p] \in Slots /\ open[handle[p]] = op[p].db
        \/ handle[p] = Bad /\ \A s \in Slots : open[s] # op[p].db

HeldIsOwn ==
    \A p \in Procs :
        pc[p] \in {"store", "commit", "txn", "act"} /\ handle[p] \in Slots
          /\ op[p].db \notin spoiled
            => open[handle[p]] = op[p].db

MapIsOwn == \A d \in Dbs \ spoiled : dbi[d] \in Slots => open[dbi[d]] = d

Naming == FreshIsHeld /\ OneSlotEach /\ StoredIsTrue /\ HeldIsOwn /\ MapIsOwn

IInv == TypeOK /\ Locking /\ Naming

-----------------------------------------------------------------------------
(* Type correctness and the locks. *)

LEMMA OperationKinds ==
    /\ \A o \in Operation : o.kind # "table" => o \in DbOperation
    /\ \A o \in DbOperation : o \in Operation /\ o.db \in Dbs /\ o.kind \in {"write", "read"}
BY DEF Operation, DbOperation

LEMMA MovedTo ==
    ASSUME TypeOK, NEW p \in Procs, NEW from, NEW to, Moves(p, from, to)
    PROVE  /\ pc[p] = from /\ pc'[p] = to
           /\ \A q \in Procs : q # p => pc'[q] = pc[q]
BY DEF TypeOK, Moves

LEMMA TypeStep == IInv /\ [Next]_vars => TypeOK'
<1> SUFFICES ASSUME IInv, [Next]_vars PROVE TypeOK'
    OBVIOUS
<1>0. TypeOK /\ Kept
    BY DEF IInv, Locking
<1>1. CASE UNCHANGED vars
    BY <1>0, <1>1 DEF TypeOK, vars, locks, lmdb
<1>2. CASE Finished
    BY <1>0, <1>2 DEF Finished, TypeOK, vars, locks, lmdb
<1>3. ASSUME NEW p \in Procs, NEW o \in Operation, Begin(p, o)
      PROVE  TypeOK'
    BY <1>0, <1>3, OpsAssumption DEF Begin, Moves, TypeOK, locks, lmdb
<1>4. ASSUME NEW p \in Procs, Step(p)
      PROVE  TypeOK'
    <2>1. CASE RLock(p) \/ HasDB(p)
        BY <1>0, <2>1 DEF RLock, HasDB, Moves, TypeOK, lmdb
    <2>2. CASE Lock(p) \/ Enter(p)
        BY <1>0, <2>2 DEF Lock, Enter, Moves, TypeOK, locks, lmdb
    <2>3. CASE Table(p) \/ Act(p) \/ GetError(p) \/ WriteFails(p)
        BY <1>0, <2>3 DEF Table, Act, GetError, WriteFails, Returns, Moves, Handles, TypeOK, locks, lmdb
    <2>4. CASE BeginOpen(p) \/ OpenFails(p) \/ BeginWrite(p) \/ Unlock(p)
        BY <1>0, <2>4 DEF BeginOpen, OpenFails, BeginWrite, Unlock, Moves, TypeOK, locks, lmdb
    <2>5. CASE OpenDBI(p)
        <3>1. op[p].db \in Dbs
            BY <1>0, <2>5, OperationKinds DEF OpenDBI, Moves, Kept
        <3>2. pc' = [pc EXCEPT ![p] = "store"] /\ UNCHANGED <<process, locks, op, dbi, spoiled, ops>>
            BY <2>5 DEF OpenDBI, Moves
        <3>3. \/ \E s \in Slots : handle' = [handle EXCEPT ![p] = s]
              \/ handle' = [handle EXCEPT ![p] = Bad]
            BY <2>5 DEF OpenDBI
        <3>4. failed' = failed \/ failed' = [failed EXCEPT ![p] = TRUE]
            BY <2>5 DEF OpenDBI
        <3>5. \/ UNCHANGED <<open, fresh>>
              \/ \E s \in Slots : open' = [open EXCEPT ![s] = op[p].db] /\ fresh' = s
            BY <2>5 DEF OpenDBI
        <3>6. handle' \in [Procs -> Handles]
            BY <1>0, <3>3 DEF Handles, TypeOK
        <3>7. open' \in [Slots -> Dbs \cup {None}] /\ fresh' \in Slots \cup {None}
            BY <1>0, <3>1, <3>5 DEF TypeOK
        <3> QED
            BY <1>0, <3>2, <3>4, <3>6, <3>7 DEF TypeOK, locks
    <2>6. CASE Store(p)
        BY <1>0, <2>6 DEF Store, Moves, Handles, TypeOK, locks, lmdb
    <2>7. CASE Commit(p)
        <3>1. op[p].db \in Dbs
            BY <1>0, <2>7, OperationKinds DEF Commit, Moves, Kept
        <3> QED
            BY <1>0, <2>7, <3>1 DEF Commit, Moves, TypeOK
    <2>8. CASE Get(p)
        <3>1. op[p].db \in Dbs
            BY <1>0, <2>8, OperationKinds DEF Get, Moves, Kept
        <3> QED
            BY <1>0, <2>8, <3>1 DEF Get, Moves, Handles, TypeOK, locks, lmdb
    <2>9. CASE GetDies(p)
        BY <1>0, <2>9 DEF GetDies, Moves, TypeOK, locks, lmdb
    <2> QED
        BY <1>4, <2>1, <2>2, <2>3, <2>4, <2>5, <2>6, <2>7, <2>8, <2>9 DEF Step
<1> QED
    BY <1>1, <1>2, <1>3, <1>4 DEF Next

LEMMA LockingStep == IInv /\ [Next]_vars => Locking'
<1> SUFFICES ASSUME IInv, [Next]_vars PROVE Locking'
    OBVIOUS
<1>0. TypeOK /\ Kept /\ LockerIsHere /\ ReadersAreHere /\ WriterIsHere
    BY DEF IInv, Locking
<1> USE <1>0, NoneAssumption DEF Inside
<1>1. CASE UNCHANGED <<readers, locker, writer, pc, op>>
    BY <1>1 DEF Locking, Kept, LockerIsHere, ReadersAreHere, WriterIsHere, Writing
<1>3. ASSUME NEW p \in Procs, NEW o \in Operation, Begin(p, o)
      PROVE  Locking'
    <2>1. pc[p] = "idle" /\ pc'[p] = (IF o.kind = "table" THEN "lock" ELSE "rlock")
          /\ (\A q \in Procs : q # p => pc'[q] = pc[q] /\ op'[q] = op[q])
          /\ op'[p] = o /\ UNCHANGED locks
        BY <1>3, MovedTo DEF Begin, TypeOK
    <2>2. Kept'
        BY <2>1, OperationKinds DEF Kept
    <2>3. LockerIsHere' /\ ReadersAreHere' /\ WriterIsHere'
        BY <2>1 DEF LockerIsHere, ReadersAreHere, WriterIsHere, Writing, locks
    <2> QED
        BY <2>2, <2>3 DEF Locking
<1>4. ASSUME NEW p \in Procs, Step(p), UNCHANGED op
      PROVE  Kept'
    <2>1. CASE Lock(p) \/ HasDB(p)
        BY <1>4, <2>1, MovedTo, OperationKinds DEF Lock, HasDB, Kept
    <2>2. CASE Enter(p)
        BY <1>4, <2>2, MovedTo, OperationKinds DEF Enter, Kept
    <2>3. CASE RLock(p) \/ BeginOpen(p) \/ OpenFails(p) \/ OpenDBI(p) \/ Store(p) \/ Commit(p)
               \/ Unlock(p) \/ GetDies(p) \/ BeginWrite(p)
        BY <1>4, <2>3, MovedTo DEF RLock, BeginOpen, OpenFails, OpenDBI, Store, Commit, Unlock,
                                   GetDies, BeginWrite, Kept
    <2>4. CASE Get(p)
        BY <1>4, <2>4, MovedTo DEF Get, Kept
    <2>5. CASE Table(p) \/ GetError(p) \/ WriteFails(p) \/ Act(p)
        BY <1>4, <2>5, MovedTo DEF Table, GetError, WriteFails, Act, Returns, Kept
    <2> QED
        BY <1>4, <2>1, <2>2, <2>3, <2>4, <2>5 DEF Step
<1>5. ASSUME NEW p \in Procs, Table(p) \/ GetError(p) \/ WriteFails(p) \/ Act(p)
      PROVE  Locking'
    <2>1. /\ pc[p] \in {"table", "get", "txn", "act"} /\ pc'[p] = "idle"
          /\ \A q \in Procs : q # p => pc'[q] = pc[q] /\ op'[q] = op[q]
          /\ readers' = readers
          /\ locker' = IF pc[p] = "table" THEN None ELSE locker
          /\ writer' = IF pc[p] = "act" /\ op[p].kind = "write" THEN None ELSE writer
        BY <1>5, MovedTo DEF Table, GetError, WriteFails, Act, Returns, TypeOK, locks
    <2>2. Kept'
        BY <2>1 DEF Kept
    <2>3. LockerIsHere'
        BY <2>1 DEF LockerIsHere
    <2>4. ReadersAreHere'
        BY <2>1 DEF ReadersAreHere
    <2>5. WriterIsHere'
        BY <2>1 DEF WriterIsHere, Writing
    <2> QED
        BY <2>2, <2>3, <2>4, <2>5 DEF Locking
<1>6. ASSUME NEW p \in Procs, RLock(p) \/ HasDB(p)
      PROVE  Locking'
    <2>1. UNCHANGED <<locker, writer, op>>
        BY <1>6 DEF RLock, HasDB
    <2>2. /\ pc[p] \in {"rlock", "has"} /\ pc'[p] \in {"has", "get", "lock"}
          /\ \A q \in Procs : q # p => pc'[q] = pc[q]
          /\ pc'[p] = "has" => locker = None /\ p \in readers'
          /\ readers \ {p} \subseteq readers'
          /\ locker # None => readers' \subseteq readers
        BY <1>6, MovedTo DEF RLock, HasDB
    <2>3. Kept'
        BY <1>4, <1>6, <2>1 DEF Step
    <2>4. LockerIsHere' /\ WriterIsHere'
        BY <2>1, <2>2 DEF LockerIsHere, WriterIsHere, Writing
    <2>5. ReadersAreHere'
        BY <2>1, <2>2 DEF ReadersAreHere, LockerIsHere
    <2> QED
        BY <2>3, <2>4, <2>5 DEF Locking
<1>7. ASSUME NEW p \in Procs, Lock(p) \/ Enter(p) \/ Unlock(p)
      PROVE  Locking'
    <2>1. /\ pc[p] \in {"lock", "drain", "unlock"} /\ pc'[p] \in {"drain", "table", "begin", "get"}
          /\ \A q \in Procs : q # p => pc'[q] = pc[q]
          /\ UNCHANGED <<readers, writer, op>>
          /\ pc'[p] = "drain" => locker = None /\ locker' = p
          /\ pc'[p] \in {"table", "begin"} => pc[p] = "drain" /\ readers = {} /\ locker' = locker
          /\ pc'[p] = "get" => pc[p] = "unlock" /\ locker' = None
        BY <1>7, MovedTo DEF Lock, Enter, Unlock, locks
    <2>2. Kept'
        BY <1>4, <1>7, <2>1 DEF Step
    <2>3. LockerIsHere'
        BY <2>1 DEF LockerIsHere
    <2>4. ReadersAreHere'
        BY <2>1 DEF ReadersAreHere
    <2>5. WriterIsHere'
        BY <2>1 DEF WriterIsHere, Writing
    <2> QED
        BY <2>2, <2>3, <2>4, <2>5 DEF Locking
<1>8. ASSUME NEW p \in Procs,
             BeginOpen(p) \/ OpenFails(p) \/ OpenDBI(p) \/ Store(p) \/ Commit(p) \/ Get(p)
               \/ GetDies(p) \/ BeginWrite(p)
      PROVE  Locking'
    <2>1. /\ pc[p] \in {"begin", "opendbi", "store", "commit", "get", "txn"}
          /\ pc'[p] \in {"opendbi", "store", "commit", "unlock", "get", "txn", "act"}
          /\ pc'[p] \in Inside => pc[p] \in Inside
          /\ \A q \in Procs : q # p => pc'[q] = pc[q]
          /\ UNCHANGED <<readers, locker, op>>
        BY <1>8, MovedTo DEF BeginOpen, OpenFails, OpenDBI, Store, Commit, Get, GetDies, BeginWrite,
                             locks
    <2>2. /\ writer' # writer => writer = None \/ (pc[p] = "commit" /\ pc'[p] = "unlock")
          /\ Writing(p)' => \/ writer' = p
                            \/ Writing(p) /\ writer' = writer
        BY <1>8, <2>1, MovedTo DEF BeginOpen, OpenFails, OpenDBI, Store, Commit, Get, GetDies,
                                   BeginWrite, Writing, locks
    <2>3. Kept'
        BY <1>4, <1>8, <2>1 DEF Step
    <2>4. LockerIsHere'
        BY <2>1 DEF LockerIsHere
    <2>5. ReadersAreHere'
        BY <2>1 DEF ReadersAreHere
    <2>6. WriterIsHere'
        BY <2>1, <2>2 DEF WriterIsHere, Writing
    <2> QED
        BY <2>3, <2>4, <2>5, <2>6 DEF Locking
<1> QED
    BY <1>1, <1>3, <1>5, <1>6, <1>7, <1>8 DEF Next, Step, Finished, vars, locks

-----------------------------------------------------------------------------
(* The handles. *)

\* A step of p that leaves LMDB and client.dbi alone, and takes p to a place
\* where it has no handle, or the same handle as before.
LEMMA QuietStep ==
    ASSUME IInv, NEW p \in Procs,
           \A q \in Procs : q # p =>
              pc'[q] = pc[q] /\ op'[q] = op[q] /\ handle'[q] = handle[q],
           UNCHANGED <<dbi, open, fresh, spoiled>>,
           pc[p] \notin {"store", "commit"}, pc'[p] \notin {"store", "commit"},
           pc'[p] \in {"txn", "act"} =>
              /\ op'[p] = op[p]
              /\ handle'[p] \in Slots /\ op[p].db \notin spoiled => open[handle'[p]] = op[p].db
    PROVE  Naming'
<1>1. FreshIsHeld'
    BY DEF IInv, Naming, FreshIsHeld
<1>2. OneSlotEach' /\ MapIsOwn'
    BY DEF IInv, Naming, OneSlotEach, MapIsOwn
<1>3. StoredIsTrue'
    BY DEF IInv, Naming, StoredIsTrue
<1>4. HeldIsOwn'
    BY DEF IInv, Naming, HeldIsOwn
<1> QED
    BY <1>1, <1>2, <1>3, <1>4 DEF Naming

\* While p is opening a database, no other goroutine is.
LEMMA OneOpener ==
    ASSUME IInv, NEW p \in Procs, NEW q \in Procs,
           pc[p] \in {"opendbi", "store", "commit"}, pc[q] \in {"opendbi", "store", "commit"}
    PROVE  p = q
BY DEF IInv, Locking, LockerIsHere, Inside

LEMMA OpenDBIStep ==
    ASSUME IInv, NEW p \in Procs, OpenDBI(p)
    PROVE  Naming'
<1> DEFINE d == op[p].db
<1>1. /\ pc[p] = "opendbi" /\ pc'[p] = "store"
      /\ (\A q \in Procs : q # p => pc'[q] = pc[q])
      /\ UNCHANGED <<op, dbi, spoiled>> /\ TypeOK
    BY MovedTo DEF OpenDBI, IInv
<1>2. d \in Dbs /\ d # None
    BY <1>1, OperationKinds, NoneAssumption DEF IInv, Locking, Kept
<1>3. fresh = None
    BY <1>1, OneOpener DEF IInv, Naming, FreshIsHeld
<1>4. \A q \in Procs : q # p => handle'[q] = handle[q] /\ pc'[q] \notin {"store", "commit"}
    BY <1>1, OneOpener DEF OpenDBI, TypeOK
<1>5. CASE \/ /\ \E s \in Slots : open[s] = d /\ handle' = [handle EXCEPT ![p] = s]
              /\ UNCHANGED <<open, fresh, failed>>
           \/ /\ ~IsOpen(d) /\ handle' = [handle EXCEPT ![p] = Bad]
              /\ UNCHANGED <<open, fresh>>
    <2>1. UNCHANGED <<open, fresh>>
        BY <1>5
    <2>2. \/ handle'[p] \in Slots /\ open[handle'[p]] = d
          \/ handle'[p] = Bad /\ \A s \in Slots : open[s] # d
        BY <1>1, <1>5 DEF IsOpen, TypeOK
    <2>3. FreshIsHeld'
        BY <1>3, <2>1 DEF FreshIsHeld
    <2>4. OneSlotEach' /\ MapIsOwn'
        BY <1>1, <2>1 DEF IInv, Naming, OneSlotEach, MapIsOwn
    <2>5. StoredIsTrue'
        BY <1>1, <1>4, <2>1, <2>2 DEF StoredIsTrue
    <2>6. HeldIsOwn'
        BY <1>1, <1>4, <2>1, <2>2, SlotAssumption DEF IInv, Naming, HeldIsOwn
    <2> QED
        BY <2>3, <2>4, <2>5, <2>6 DEF Naming
<1>6. ASSUME NEW s \in Slots, ~IsOpen(d), open[s] = None,
             handle' = [handle EXCEPT ![p] = s], open' = [open EXCEPT ![s] = d], fresh' = s
      PROVE  Naming'
    <2>1. handle'[p] = s /\ open'[s] = d /\ \A t \in Slots : t # s => open'[t] = open[t]
        BY <1>1, <1>6 DEF TypeOK
    <2>2. \A t \in Slots : open[t] # d
        BY <1>6 DEF IsOpen
    <2>3. FreshIsHeld'
        BY <1>1, <1>6, <2>1 DEF FreshIsHeld
    <2>4. OneSlotEach'
        BY <2>1, <2>2 DEF IInv, Naming, OneSlotEach
    <2>5. StoredIsTrue'
        BY <1>1, <1>4, <2>1 DEF StoredIsTrue
    <2>6. MapIsOwn'
        <3> SUFFICES ASSUME NEW e \in Dbs \ spoiled, dbi[e] \in Slots
                     PROVE  open'[dbi[e]] = e
            BY <1>1 DEF MapIsOwn
        <3>1. open[dbi[e]] = e /\ e # None
            BY NoneAssumption DEF IInv, Naming, MapIsOwn
        <3> QED
            BY <1>6, <2>1, <3>1
    <2>7. HeldIsOwn'
        <3> SUFFICES ASSUME NEW q \in Procs, pc'[q] \in {"store", "commit", "txn", "act"},
                            handle'[q] \in Slots, op[q].db \notin spoiled
                     PROVE  open'[handle'[q]] = op[q].db
            BY <1>1 DEF HeldIsOwn
        <3>1. CASE q = p
            BY <2>1, <3>1
        <3>2. CASE q # p
            <4>1. handle'[q] = handle[q] /\ pc[q] = pc'[q]
                BY <1>1, <1>4, <3>2
            <4>2. open[handle[q]] = op[q].db
                BY <4>1 DEF IInv, Naming, HeldIsOwn
            <4>3. op[q].db \in Dbs
                BY <4>1, OperationKinds DEF IInv, Locking, Kept
            <4> QED
                BY <1>6, <2>1, <4>1, <4>2, <4>3, NoneAssumption
        <3> QED
            BY <3>1, <3>2
    <2> QED
        BY <2>3, <2>4, <2>5, <2>6, <2>7 DEF Naming
<1> QED
    BY <1>5, <1>6 DEF OpenDBI, FreeSlot

LEMMA StoreStep ==
    ASSUME IInv, NEW p \in Procs, Store(p)
    PROVE  Naming'
<1> DEFINE d == op[p].db
<1>1. /\ pc[p] = "store" /\ pc'[p] = "commit"
      /\ (\A q \in Procs : q # p => pc'[q] = pc[q])
      /\ UNCHANGED <<op, handle, open, fresh, spoiled>> /\ TypeOK
    BY MovedTo DEF Store, IInv, lmdb
<1>2. d \in Dbs
    BY <1>1, OperationKinds DEF IInv, Locking, Kept
<1>3. dbi'[d] = handle[p] /\ \A e \in Dbs : e # d => dbi'[e] = dbi[e]
    BY <1>1, <1>2 DEF Store, TypeOK
<1>4. MapIsOwn'
    BY <1>1, <1>3 DEF IInv, Naming, MapIsOwn, HeldIsOwn
<1>5. FreshIsHeld' /\ OneSlotEach' /\ StoredIsTrue' /\ HeldIsOwn'
    BY <1>1 DEF IInv, Naming, FreshIsHeld, OneSlotEach, StoredIsTrue, HeldIsOwn
<1> QED
    BY <1>4, <1>5 DEF Naming

LEMMA CommitStep ==
    ASSUME IInv, NEW p \in Procs, Commit(p)
    PROVE  Naming'
<1> DEFINE d == op[p].db
<1>1. /\ pc[p] = "commit" /\ pc'[p] = "unlock"
      /\ (\A q \in Procs : q # p => pc'[q] = pc[q])
      /\ UNCHANGED <<op, handle, dbi>> /\ fresh' = None /\ TypeOK
    BY MovedTo DEF Commit, IInv
<1>2. \A q \in Procs : q # p => pc[q] \notin {"opendbi", "store", "commit"}
    BY <1>1, OneOpener
<1>3. FreshIsHeld' /\ StoredIsTrue'
    BY <1>1, <1>2 DEF FreshIsHeld, StoredIsTrue
<1>4. CASE UNCHANGED <<open, spoiled>>
    BY <1>1, <1>3, <1>4 DEF IInv, Naming, OneSlotEach, MapIsOwn, HeldIsOwn
<1>5. CASE /\ fresh # None /\ open' = [open EXCEPT ![fresh] = None]
           /\ spoiled' = spoiled \cup {d}
    <2>1. fresh \in Slots /\ open[fresh] = d
        BY <1>1, <1>2, <1>5 DEF IInv, Naming, FreshIsHeld, TypeOK
    <2>2. open'[fresh] = None /\ \A t \in Slots : t # fresh => open'[t] = open[t]
        BY <1>1, <1>5, <2>1 DEF TypeOK
    <2>3. OneSlotEach'
        BY <2>2 DEF IInv, Naming, OneSlotEach
    <2>4. MapIsOwn'
        BY <1>1, <1>5, <2>1, <2>2 DEF IInv, Naming, MapIsOwn
    <2>5. HeldIsOwn'
        BY <1>1, <1>5, <2>1, <2>2 DEF IInv, Naming, HeldIsOwn
    <2> QED
        BY <1>3, <2>3, <2>4, <2>5 DEF Naming
<1> QED
    BY <1>4, <1>5 DEF Commit

LEMMA NamingStep == IInv /\ [Next]_vars => Naming'
<1> SUFFICES ASSUME IInv, [Next]_vars PROVE Naming'
    OBVIOUS
<1>1. TypeOK /\ Kept /\ MapIsOwn /\ HeldIsOwn
    BY DEF IInv, Locking, Naming
<1>2. CASE UNCHANGED vars
    BY <1>2 DEF IInv, Naming, FreshIsHeld, OneSlotEach, StoredIsTrue, HeldIsOwn, MapIsOwn,
                vars, locks, lmdb
<1>3. ASSUME NEW p \in Procs, NEW o \in Operation, Begin(p, o)
      PROVE  Naming'
    <2>1. /\ pc[p] = "idle" /\ pc'[p] \in {"lock", "rlock"}
          /\ \A q \in Procs : q # p => pc'[q] = pc[q] /\ op'[q] = op[q]
          /\ UNCHANGED <<handle, dbi, open, fresh, spoiled>>
        BY <1>1, <1>3, MovedTo DEF Begin, TypeOK, lmdb
    <2> QED
        BY <2>1, QuietStep
<1>4. ASSUME NEW p \in Procs, Table(p) \/ GetError(p) \/ WriteFails(p) \/ Act(p)
      PROVE  Naming'
    <2>1. /\ pc[p] \in {"table", "get", "txn", "act"} /\ pc'[p] = "idle"
          /\ \A q \in Procs : q # p => pc'[q] = pc[q] /\ op'[q] = op[q] /\ handle'[q] = handle[q]
          /\ UNCHANGED <<dbi, open, fresh, spoiled>>
        BY <1>1, <1>4, MovedTo DEF Table, GetError, WriteFails, Act, Returns, TypeOK, lmdb
    <2> QED
        BY <2>1, QuietStep
<1>5. ASSUME NEW p \in Procs,
             RLock(p) \/ HasDB(p) \/ Lock(p) \/ Enter(p) \/ BeginOpen(p) \/ OpenFails(p)
               \/ Unlock(p) \/ GetDies(p)
      PROVE  Naming'
    <2>1. /\ pc[p] \in {"rlock", "has", "lock", "drain", "begin", "unlock", "get"}
          /\ pc'[p] \notin {"store", "commit", "txn", "act"}
          /\ \A q \in Procs : q # p => pc'[q] = pc[q]
          /\ UNCHANGED <<op, handle, dbi, open, fresh, spoiled>>
        BY <1>1, <1>5, MovedTo DEF RLock, HasDB, Lock, Enter, BeginOpen, OpenFails, Unlock, GetDies,
                                   lmdb
    <2> QED
        BY <2>1, QuietStep
<1>6. ASSUME NEW p \in Procs, BeginWrite(p)
      PROVE  Naming'
    <2>1. /\ pc[p] = "txn" /\ pc'[p] = "act"
          /\ \A q \in Procs : q # p => pc'[q] = pc[q]
          /\ UNCHANGED <<op, handle, dbi, open, fresh, spoiled>>
        BY <1>1, <1>6, MovedTo DEF BeginWrite, lmdb
    <2> QED
        BY <1>1, <2>1, QuietStep DEF HeldIsOwn
<1>7. ASSUME NEW p \in Procs, Get(p)
      PROVE  Naming'
    <2>1. /\ pc[p] = "get" /\ pc'[p] \in {"txn", "act"}
          /\ \A q \in Procs : q # p => pc'[q] = pc[q] /\ handle'[q] = handle[q]
          /\ UNCHANGED <<op, dbi, open, fresh, spoiled>>
          /\ handle'[p] \in {dbi[op[p].db], Bad}
        BY <1>1, <1>7, MovedTo DEF Get, TypeOK, lmdb
    <2>2. op[p].db \in Dbs
        BY <1>1, <2>1, OperationKinds DEF Kept
    <2>3. handle'[p] \in Slots /\ op[p].db \notin spoiled => open[handle'[p]] = op[p].db
        BY <1>1, <2>1, <2>2, SlotAssumption DEF MapIsOwn
    <2> QED
        BY <2>1, <2>3, QuietStep
<1> QED
    BY <1>2, <1>3, <1>4, <1>5, <1>6, <1>7, OpenDBIStep, StoreStep, CommitStep
       DEF Next, Step, Finished

-----------------------------------------------------------------------------
(* The invariant and the theorems. *)

LEMMA InitIInv == Init => IInv
<1> SUFFICES ASSUME Init PROVE IInv
    OBVIOUS
<1>1. TypeOK
    BY OpsAssumption DEF Init, TypeOK, Handles
<1>2. Locking
    BY DEF Init, Locking, Kept, LockerIsHere, ReadersAreHere, WriterIsHere, Writing, Inside
<1>3. Naming
    BY SlotAssumption DEF Init, Naming, FreshIsHeld, OneSlotEach, StoredIsTrue, HeldIsOwn, MapIsOwn
<1> QED
    BY <1>1, <1>2, <1>3 DEF IInv

LEMMA IInvAlways == Spec => []IInv
<1>1. IInv /\ [Next]_vars => IInv'
    BY TypeStep, LockingStep, NamingStep DEF IInv
<1> QED
    BY InitIInv, <1>1, PTL DEF Spec

\* The types of the variables: in particular client.dbi holds valid slots of
\* LMDB and failed handles only (sel.go).
THEOREM TypeCorrect == Spec => []TypeOK
<1>1. IInv => TypeOK
    BY DEF IInv
<1> QED
    BY <1>1, IInvAlways, PTL

\* client.mtx keeps hasDB, openDB, Expire and Persist apart for any number of
\* goroutines; so the read of line 20 is the only one that races (sel.go).
THEOREM TableGuarded == Spec => []TableIsGuarded
<1>1. IInv => TableIsGuarded
    BY DEF IInv, Locking, LockerIsHere, ReadersAreHere, Inside, TableIsGuarded
<1> QED
    BY <1>1, IInvAlways, PTL

\* Whatever the order in which goroutines open databases and fail to, an
\* operation reaches no database but its own, unless LMDB did not commit the
\* creation of that database (sel.go).
THEOREM OperationsStayHome == Spec => []OwnDatabase
<1>1. IInv => OwnDatabase
    BY DEF IInv, Naming, HeldIsOwn, OwnDatabase
<1> QED
    BY <1>1, IInvAlways, PTL

\* A handle that works is not replaced by the goroutines that open the same
\* database later (sel.go).
THEOREM HandlesAreStable == Spec => HandlesStay
<1> DEFINE A == \A d \in Dbs : dbi[d] \in Slots /\ open[dbi[d]] = d => dbi'[d] = dbi[d]
<1>1. ASSUME IInv, Next, NEW d \in Dbs, dbi[d] \in Slots, open[dbi[d]] = d
      PROVE  dbi'[d] = dbi[d]
    <2>1. ASSUME NEW p \in Procs, Store(p)
          PROVE  dbi'[d] = dbi[d]
        <3>1. pc[p] = "store" /\ dbi' = [dbi EXCEPT ![op[p].db] = handle[p]]
            BY <2>1 DEF Store, Moves
        <3>2. dbi \in [Dbs -> Handles]
            BY <1>1 DEF IInv, TypeOK
        <3>3. d = op[p].db => handle[p] = dbi[d]
            BY <1>1, <3>1, NoneAssumption DEF IInv, Naming, StoredIsTrue, OneSlotEach
        <3> QED
            BY <3>1, <3>2, <3>3
    <2>2. CASE dbi' = dbi
        BY <2>2
    <2>3. dbi' = dbi \/ \E p \in Procs : Store(p)
        BY <1>1 DEF Next, Step, Finished, vars, Begin, RLock, HasDB, Lock, Enter, Table, BeginOpen,
                    OpenFails, OpenDBI, Commit, Unlock, GetError, Get, GetDies, BeginWrite,
                    WriteFails, Act
    <2> QED
        BY <2>1, <2>2, <2>3
<1>2. IInv /\ [Next]_vars => [A]_vars
    BY <1>1
<1> QED
    BY <1>2, IInvAlways, PTL DEF Spec, HandlesStay

-----------------------------------------------------------------------------
(* Who holds a lock is where it will give it back. *)

LockerIsIn == locker # None => locker \in Procs /\ pc[locker] \in Inside \cup {"drain"}

ReadersAreIn == \A p \in readers : pc[p] = "has"

WriterIsIn == writer # None => writer \in Procs /\ Writing(writer)

WritersBegin == \A p \in Procs : pc[p] = "txn" => op[p].kind = "write"

LocksAreHeld == LockerIsIn /\ ReadersAreIn /\ WriterIsIn /\ WritersBegin

LEMMA LocksAreHeldStep == IInv /\ LocksAreHeld /\ [Next]_vars => LocksAreHeld'
<1> SUFFICES ASSUME IInv, LocksAreHeld, [Next]_vars
             PROVE  LocksAreHeld'
    OBVIOUS
<1>0. /\ TypeOK /\ LockerIsHere /\ ReadersAreHere /\ WriterIsHere
      /\ LockerIsIn /\ ReadersAreIn /\ WriterIsIn /\ WritersBegin
    BY DEF IInv, Locking, LocksAreHeld
<1> USE <1>0, NoneAssumption DEF Inside
<1>1. CASE UNCHANGED <<readers, locker, writer, pc, op>>
    BY <1>1 DEF LocksAreHeld, LockerIsIn, ReadersAreIn, WriterIsIn, WritersBegin, Writing
<1>2. ASSUME NEW p \in Procs, NEW o \in Operation, Begin(p, o)
      PROVE  LocksAreHeld'
    <2>1. pc[p] = "idle" /\ pc'[p] \in {"lock", "rlock"}
          /\ (\A q \in Procs : q # p => pc'[q] = pc[q] /\ op'[q] = op[q])
          /\ UNCHANGED locks
        BY <1>2, MovedTo DEF Begin, TypeOK
    <2>2. LockerIsIn' /\ ReadersAreIn'
        BY <2>1 DEF LockerIsIn, ReadersAreIn, locks, TypeOK
    <2>3. WriterIsIn' /\ WritersBegin'
        BY <2>1 DEF WriterIsIn, WritersBegin, Writing, locks, TypeOK
    <2> QED
        BY <2>2, <2>3 DEF LocksAreHeld
<1>3. ASSUME NEW p \in Procs, Table(p) \/ GetError(p) \/ WriteFails(p) \/ Act(p)
      PROVE  LocksAreHeld'
    <2>1. /\ pc[p] \in {"table", "get", "txn", "act"} /\ pc'[p] = "idle"
          /\ \A q \in Procs : q # p => pc'[q] = pc[q] /\ op'[q] = op[q]
          /\ readers' = readers
          /\ locker' = (IF pc[p] = "table" THEN None ELSE locker)
          /\ writer' = (IF pc[p] = "act" /\ op[p].kind = "write" THEN None ELSE writer)
        BY <1>3, MovedTo DEF Table, GetError, WriteFails, Act, Returns, TypeOK, locks
    <2>2. LockerIsIn'
        BY <2>1 DEF LockerIsIn, TypeOK
    <2>3. ReadersAreIn' /\ WritersBegin'
        BY <2>1 DEF ReadersAreIn, WritersBegin, TypeOK
    <2>4. WriterIsIn'
        BY <2>1 DEF WriterIsIn, Writing, TypeOK
    <2> QED
        BY <2>2, <2>3, <2>4 DEF LocksAreHeld
<1>4. ASSUME NEW p \in Procs, RLock(p) \/ HasDB(p)
      PROVE  LocksAreHeld'
    <2>1. /\ pc[p] \in {"rlock", "has"} /\ pc'[p] \in {"has", "get", "lock"}
          /\ \A q \in Procs : q # p => pc'[q] = pc[q]
          /\ UNCHANGED <<locker, writer, op>>
          /\ \/ pc'[p] = "has" /\ readers' = readers \cup {p}
             \/ readers' = readers \ {p}
        BY <1>4, MovedTo DEF RLock, HasDB
    <2>2. LockerIsIn'
        BY <2>1 DEF LockerIsIn, TypeOK
    <2>3. ReadersAreIn' /\ WritersBegin'
        BY <2>1 DEF ReadersAreIn, WritersBegin, TypeOK
    <2>4. WriterIsIn'
        BY <2>1 DEF WriterIsIn, Writing, TypeOK
    <2> QED
        BY <2>2, <2>3, <2>4 DEF LocksAreHeld
<1>5. ASSUME NEW p \in Procs, Lock(p) \/ Enter(p) \/ Unlock(p)
      PROVE  LocksAreHeld'
    <2>1. /\ pc[p] \in {"lock", "drain", "unlock"}
          /\ pc'[p] \in {"drain", "table", "begin", "get"}
          /\ \A q \in Procs : q # p => pc'[q] = pc[q]
          /\ UNCHANGED <<readers, writer, op>>
          /\ \/ pc[p] = "lock" /\ pc'[p] = "drain" /\ locker' = p
             \/ pc'[p] \in {"table", "begin"} /\ locker' = locker
             \/ locker' = None
        BY <1>5, MovedTo DEF Lock, Enter, Unlock, locks
    <2>2. LockerIsIn'
        BY <2>1 DEF LockerIsIn, TypeOK
    <2>3. ReadersAreIn' /\ WritersBegin'
        BY <2>1 DEF ReadersAreIn, WritersBegin, TypeOK
    <2>4. WriterIsIn'
        BY <2>1 DEF WriterIsIn, Writing, TypeOK
    <2> QED
        BY <2>2, <2>3, <2>4 DEF LocksAreHeld
<1>6. ASSUME NEW p \in Procs,
             BeginOpen(p) \/ OpenFails(p) \/ OpenDBI(p) \/ Store(p) \/ Commit(p) \/ Get(p)
               \/ GetDies(p)
      PROVE  LocksAreHeld'
    <2>1. /\ pc[p] \in {"begin", "opendbi", "store", "commit", "get"}
          /\ pc[p] \in Inside => pc'[p] \in Inside
          /\ \A q \in Procs : q # p => pc'[q] = pc[q]
          /\ UNCHANGED <<readers, locker, op>>
          /\ pc'[p] = "txn" => op[p].kind = "write"
          /\ \/ writer' = None
             \/ writer' = p /\ pc'[p] = "opendbi"
             \/ writer' = writer /\ (pc'[p] \in {"opendbi", "store", "commit"} \/ pc[p] = "get")
        BY <1>6, MovedTo DEF BeginOpen, OpenFails, OpenDBI, Store, Commit, Get, GetDies, locks
    <2>2. LockerIsIn'
        BY <2>1 DEF LockerIsIn, TypeOK
    <2>3. ReadersAreIn' /\ WritersBegin'
        BY <2>1 DEF ReadersAreIn, WritersBegin, TypeOK
    <2>4. WriterIsIn'
        BY <2>1 DEF WriterIsIn, Writing, TypeOK
    <2> QED
        BY <2>2, <2>3, <2>4 DEF LocksAreHeld
<1>7. ASSUME NEW p \in Procs, BeginWrite(p)
      PROVE  LocksAreHeld'
    <2>1. /\ pc[p] = "txn" /\ pc'[p] = "act"
          /\ \A q \in Procs : q # p => pc'[q] = pc[q]
          /\ UNCHANGED <<readers, locker, op>> /\ writer' = p
        BY <1>7, MovedTo DEF BeginWrite
    <2>2. LockerIsIn' /\ ReadersAreIn' /\ WritersBegin'
        BY <2>1 DEF LockerIsIn, ReadersAreIn, WritersBegin, TypeOK
    <2>3. op[p].kind = "write"
        BY <2>1 DEF WritersBegin
    <2>4. WriterIsIn'
        BY <2>1, <2>3 DEF WriterIsIn, Writing
    <2> QED
        BY <2>2, <2>4 DEF LocksAreHeld
<1> QED
    BY <1>1, <1>2, <1>3, <1>4, <1>5, <1>6, <1>7 DEF Next, Step, Finished, vars, locks

LEMMA LocksAreHeldAlways == Spec => []LocksAreHeld
<1>1. Init => LocksAreHeld
    BY DEF Init, LocksAreHeld, LockerIsIn, ReadersAreIn, WriterIsIn, WritersBegin
<1> QED
    BY <1>1, LocksAreHeldStep, IInvAlways, PTL DEF Spec

(***************************************************************************)
(* For any number of goroutines: as long as an operation is under way, one *)
(* is not waiting for a lock.  A goroutine waits for the one in openDB,    *)
(* that one for readers or for the write transaction, and those who have   *)
(* these wait for nobody (sel.go).                                         *)
(***************************************************************************)
THEOREM SomebodyGoesOn == Spec => []NoCircularWait
<1>1. ASSUME IInv, LocksAreHeld, NEW p \in Procs, pc[p] # "idle", Blocked(p)
      PROVE  \E q \in Procs : pc[q] # "idle" /\ ~Blocked(q)
    <2> USE <1>1 DEF LocksAreHeld
    <2>1. CASE readers # {}
        <3>1. PICK q \in readers : q \in Procs
            BY <2>1 DEF IInv, TypeOK
        <3>2. pc[q] = "has"
            BY DEF ReadersAreIn
        <3> QED
            BY <3>1, <3>2 DEF Blocked
    <2>2. CASE writer # None
        <3>1. writer \in Procs /\ pc[writer] \in {"opendbi", "store", "commit", "act"}
            BY <2>2 DEF WriterIsIn, Writing
        <3> QED
            BY <3>1 DEF Blocked
    <2>3. CASE readers = {} /\ writer = None
        <3>1. locker \in Procs /\ pc[locker] \in Inside \cup {"drain"}
            BY <2>3 DEF Blocked, LockerIsIn
        <3>2. pc[locker] # "idle" /\ ~Blocked(locker)
            BY <2>3, <3>1 DEF Blocked, Inside
        <3> QED
            BY <3>1, <3>2
    <2> QED
        BY <2>1, <2>2, <2>3
<1>2. IInv /\ LocksAreHeld => NoCircularWait
    BY <1>1 DEF NoCircularWait
<1> QED
    BY <1>2, IInvAlways, LocksAreHeldAlways, PTL

-----------------------------------------------------------------------------
(* What the refinement needs to know of the handles besides: what is open in    *)
(* LMDB is in client.dbi, who has passed hasDB or openDB without an error finds *)
(* an entry there, and a goroutine has an error only in openDB and on its way   *)
(* out of sel.                                                                  *)

OpenIsStored ==
    /\ \A p \in Procs : pc[p] = "commit" => dbi[op[p].db] = handle[p]
    /\ \A s \in Slots : open[s] # None /\ s # fresh => dbi[open[s]] = s

HasEntry ==
    \A p \in Procs :
        pc[p] \in {"commit", "unlock", "get"} /\ ~failed[p] => dbi[op[p].db] # None

ErrorIsOfOpening ==
    \A p \in Procs :
        /\ failed[p] => pc[p] \in {"store", "commit", "unlock", "get"}
        /\ pc[p] \in {"store", "commit"} => (failed[p] <=> handle[p] = Bad)

TablesOnly == \A p \in Procs : pc[p] = "table" => op[p].kind = "table"

Entries == OpenIsStored /\ HasEntry /\ ErrorIsOfOpening /\ TablesOnly

LEMMA TypesAndKinds ==
    ASSUME IInv
    PROVE  /\ TypeOK
           /\ \A p \in Procs : pc[p] \notin {"idle", "lock", "drain", "table"} =>
                /\ op[p] \in DbOperation /\ op[p].db \in Dbs
                /\ op[p].kind \in {"write", "read"}
BY OperationKinds DEF IInv, Locking, Kept

LEMMA OpenDBIEntries ==
    ASSUME IInv, Entries, NEW p \in Procs, OpenDBI(p)
    PROVE  Entries'
<1>1. /\ pc[p] = "opendbi" /\ pc'[p] = "store" /\ TypeOK
      /\ (\A q \in Procs : q # p => pc'[q] = pc[q]) /\ UNCHANGED <<op, dbi>>
    BY MovedTo, TypesAndKinds DEF OpenDBI
<1>2. \A q \in Procs : q # p => handle'[q] = handle[q] /\ failed'[q] = failed[q]
    BY <1>1 DEF OpenDBI, TypeOK
<1>3. fresh = None /\ ~failed[p]
    BY <1>1, OneOpener DEF IInv, Naming, FreshIsHeld, Entries, ErrorIsOfOpening
<1>4. \A s \in Slots : open'[s] # None /\ s # fresh' => open'[s] = open[s] /\ s # fresh
    BY <1>1, <1>3, SlotAssumption DEF OpenDBI, TypeOK
<1>5. failed'[p] <=> handle'[p] = Bad
    BY <1>1, <1>3, SlotAssumption DEF OpenDBI, TypeOK
<1>6. OpenIsStored'
    BY <1>1, <1>2, <1>4 DEF Entries, OpenIsStored
<1>7. HasEntry' /\ ErrorIsOfOpening' /\ TablesOnly'
    BY <1>1, <1>2, <1>5 DEF Entries, HasEntry, ErrorIsOfOpening, TablesOnly
<1> QED
    BY <1>6, <1>7 DEF Entries

LEMMA StoreEntries ==
    ASSUME IInv, Entries, NEW p \in Procs, Store(p)
    PROVE  Entries'
<1> DEFINE d == op[p].db
<1>1. /\ pc[p] = "store" /\ pc'[p] = "commit" /\ TypeOK
      /\ \A q \in Procs : q # p => pc'[q] = pc[q]
      /\ UNCHANGED <<op, handle, failed, open, fresh>>
    BY MovedTo, TypesAndKinds DEF Store, lmdb
<1>2. d \in Dbs /\ \A q \in Procs : q # p => pc[q] # "commit"
    BY <1>1, TypesAndKinds, OneOpener
<1>3. dbi'[d] = handle[p] /\ \A e \in Dbs : e # d => dbi'[e] = dbi[e]
    BY <1>1, <1>2 DEF Store, TypeOK
<1>4. handle[p] # None
    BY <1>1, SlotAssumption, NoneAssumption DEF IInv, Naming, StoredIsTrue
<1>5. ASSUME NEW s \in Slots, open[s] # None, s # fresh
      PROVE  dbi'[open[s]] = s
    <2>1. open[s] \in Dbs /\ dbi[open[s]] = s
        BY <1>1, <1>5 DEF TypeOK, Entries, OpenIsStored
    <2>2. open[s] = d => handle[p] = s
        BY <1>1, <1>5 DEF IInv, Naming, StoredIsTrue, OneSlotEach
    <2> QED
        BY <1>3, <2>1, <2>2
<1>6. OpenIsStored'
    BY <1>1, <1>2, <1>3, <1>5 DEF OpenIsStored
<1>7. HasEntry'
    <2> SUFFICES ASSUME NEW q \in Procs, pc'[q] \in {"commit", "unlock", "get"}, ~failed[q]
                 PROVE  dbi'[op[q].db] # None
        BY <1>1 DEF HasEntry
    <2>1. CASE q = p
        BY <1>3, <1>4, <2>1
    <2>2. CASE q # p
        <3>1. op[q].db \in Dbs /\ dbi[op[q].db] # None
            BY <1>1, <2>2, TypesAndKinds DEF Entries, HasEntry
        <3> QED
            BY <1>3, <1>4, <3>1
    <2> QED
        BY <2>1, <2>2
<1>8. ErrorIsOfOpening' /\ TablesOnly'
    BY <1>1 DEF Entries, ErrorIsOfOpening, TablesOnly
<1> QED
    BY <1>6, <1>7, <1>8 DEF Entries

\* The slot that the transaction in progress has opened is that of its goroutine.
LEMMA FreshIsMine ==
    ASSUME IInv, Entries, NEW p \in Procs, pc[p] = "commit", fresh # None
    PROVE  /\ fresh \in Slots /\ handle[p] = fresh /\ open[fresh] = op[p].db
           /\ dbi[op[p].db] = fresh /\ ~failed[p]
<1>1. PICK q \in Procs : pc[q] \in {"store", "commit"} /\ handle[q] = fresh /\ open[fresh] = op[q].db
    BY DEF IInv, Naming, FreshIsHeld
<1>2. q = p
    BY <1>1, OneOpener
<1>3. fresh \in Slots
    BY DEF IInv, TypeOK
<1> QED
    BY <1>1, <1>2, <1>3, SlotAssumption DEF Entries, OpenIsStored, ErrorIsOfOpening

LEMMA CommitEntries ==
    ASSUME IInv, Entries, NEW p \in Procs, Commit(p)
    PROVE  Entries'
<1>1. /\ pc[p] = "commit" /\ pc'[p] = "unlock" /\ TypeOK
      /\ (\A q \in Procs : q # p => pc'[q] = pc[q])
      /\ UNCHANGED <<op, handle, dbi>> /\ fresh' = None
    BY MovedTo, TypesAndKinds DEF Commit
<1>2. /\ \A q \in Procs : q # p => failed'[q] = failed[q]
      /\ failed[p] => failed'[p]
    BY <1>1 DEF Commit, TypeOK
<1>3. \A s \in Slots : open'[s] # None => open'[s] = open[s] /\ (s # fresh \/ open'[fresh] = open[fresh])
    BY <1>1 DEF Commit, TypeOK
<1>4. \A s \in Slots : open'[s] # None => dbi[open'[s]] = s
    BY <1>1, <1>3, FreshIsMine, SlotAssumption DEF Entries, OpenIsStored
<1>5. OpenIsStored'
    BY <1>1, <1>4 DEF Entries, OpenIsStored
<1>6. HasEntry' /\ ErrorIsOfOpening' /\ TablesOnly'
    BY <1>1, <1>2 DEF Entries, HasEntry, ErrorIsOfOpening, TablesOnly
<1> QED
    BY <1>5, <1>6 DEF Entries

LEMMA EntriesStep == IInv /\ Entries /\ [Next]_vars => Entries'
<1> SUFFICES ASSUME IInv, Entries, [Next]_vars
             PROVE  Entries'
    OBVIOUS
<1>1. TypeOK /\ OpenIsStored /\ HasEntry /\ ErrorIsOfOpening /\ TablesOnly
    BY DEF IInv, Entries
<1>2. CASE UNCHANGED vars
    BY <1>1, <1>2 DEF Entries, OpenIsStored, HasEntry, ErrorIsOfOpening, TablesOnly, vars, locks, lmdb
\* A step of p that opens and stores nothing.
<1>3. ASSUME NEW p \in Procs, UNCHANGED <<dbi, open, fresh>>,
             \A q \in Procs : q # p =>
                 pc'[q] = pc[q] /\ op'[q] = op[q] /\ handle'[q] = handle[q] /\ failed'[q] = failed[q],
             pc'[p] \notin {"store", "commit"},
             pc'[p] \in {"unlock", "get"} /\ ~failed'[p] => dbi[op'[p].db] # None,
             failed'[p] => pc'[p] \in {"unlock", "get"},
             pc'[p] = "table" => op'[p].kind = "table"
      PROVE  Entries'
    <2>1. OpenIsStored'
        BY <1>1, <1>3 DEF OpenIsStored
    <2>2. HasEntry' /\ ErrorIsOfOpening' /\ TablesOnly'
        BY <1>1, <1>3 DEF HasEntry, ErrorIsOfOpening, TablesOnly
    <2> QED
        BY <2>1, <2>2 DEF Entries
<1>4. ASSUME NEW p \in Procs, NEW o \in Operation, Begin(p, o)
      PROVE  Entries'
    <2>1. /\ pc[p] = "idle" /\ pc'[p] \in {"lock", "rlock"}
          /\ \A q \in Procs : q # p => pc'[q] = pc[q] /\ op'[q] = op[q]
          /\ UNCHANGED <<handle, failed, dbi, open, fresh>>
        BY <1>1, <1>4, MovedTo DEF Begin, TypeOK, lmdb
    <2> QED
        BY <1>1, <1>3, <2>1 DEF ErrorIsOfOpening
<1>5. ASSUME NEW p \in Procs, Table(p) \/ GetError(p) \/ WriteFails(p) \/ Act(p)
      PROVE  Entries'
    <2>1. /\ pc'[p] = "idle" /\ ~failed'[p]
          /\ \A q \in Procs : q # p =>
                pc'[q] = pc[q] /\ op'[q] = op[q] /\ handle'[q] = handle[q] /\ failed'[q] = failed[q]
          /\ UNCHANGED <<dbi, open, fresh>>
        BY <1>1, <1>5, MovedTo DEF Table, GetError, WriteFails, Act, Returns, TypeOK, lmdb
    <2> QED
        BY <1>3, <2>1
<1>6. ASSUME NEW p \in Procs,
             RLock(p) \/ HasDB(p) \/ Lock(p) \/ Enter(p) \/ BeginOpen(p) \/ Unlock(p) \/ GetDies(p)
               \/ BeginWrite(p) \/ Get(p)
      PROVE  Entries'
    <2>1. /\ pc[p] \in {"rlock", "has", "lock", "drain", "begin", "unlock", "get", "txn"}
          /\ pc'[p] \notin {"store", "commit", "unlock"}
          /\ pc'[p] = "get" => \/ pc[p] = "has" /\ dbi[op[p].db] # None
                               \/ pc[p] \in {"unlock", "get"}
          /\ pc[p] = "get" /\ pc'[p] # "get" => ~failed[p]
          /\ pc[p] = "unlock" => pc'[p] = "get"
          /\ pc'[p] = "table" => op[p].kind = "table"
          /\ \A q \in Procs : q # p => pc'[q] = pc[q] /\ handle'[q] = handle[q]
          /\ UNCHANGED <<op, failed, dbi, open, fresh>>
        BY <1>1, <1>6, MovedTo DEF RLock, HasDB, Lock, Enter, BeginOpen, Unlock, GetDies, BeginWrite,
                                   Get, TypeOK, lmdb
    <2>2. /\ pc'[p] \in {"unlock", "get"} /\ ~failed'[p] => dbi[op'[p].db] # None
          /\ failed'[p] => pc'[p] \in {"unlock", "get"}
        BY <1>1, <2>1 DEF HasEntry, ErrorIsOfOpening
    <2> QED
        BY <1>3, <2>1, <2>2
<1>7. ASSUME NEW p \in Procs, OpenFails(p)
      PROVE  Entries'
    <2>1. /\ pc[p] = "begin" /\ pc'[p] = "unlock" /\ failed'[p]
          /\ \A q \in Procs : q # p => pc'[q] = pc[q] /\ failed'[q] = failed[q]
          /\ UNCHANGED <<op, handle, dbi, open, fresh>>
        BY <1>1, <1>7, MovedTo DEF OpenFails, TypeOK, lmdb
    <2> QED
        BY <1>3, <2>1
<1> QED
    BY <1>2, <1>4, <1>5, <1>6, <1>7, OpenDBIEntries, StoreEntries, CommitEntries DEF Next, Step, Finished

-----------------------------------------------------------------------------
(* The refinement: how the catalogue sees a goroutine and a database. *)

LEMMA CallNow ==
    \A p \in Procs :
        CallOf[p] = IF pc[p] = "idle" THEN [at |-> "idle"]
                    ELSE IF pc[p] \in {"txn", "act"}
                    THEN [at |-> IF pc[p] = "txn" THEN "reached" ELSE "acting",
                          op |-> op[p], reach |-> ReachOf(p)]
                    ELSE [at |-> IF failed[p] THEN "refused" ELSE "asked", op |-> op[p]]
BY DEF CallOf

LEMMA CallNext ==
    \A p \in Procs :
        CallOf'[p] = IF pc'[p] = "idle" THEN [at |-> "idle"]
                     ELSE IF pc'[p] \in {"txn", "act"}
                     THEN [at |-> IF pc'[p] = "txn" THEN "reached" ELSE "acting",
                           op |-> op'[p], reach |-> ReachOf(p)']
                     ELSE [at |-> IF failed'[p] THEN "refused" ELSE "asked", op |-> op'[p]]
BY DEF CallOf

LEMMA CallOfOne ==
    ASSUME NEW p \in Procs, NEW x, CallOf'[p] = x,
           \A q \in Procs : q # p => CallOf'[q] = CallOf[q]
    PROVE  CallOf' = [CallOf EXCEPT ![p] = x]
BY DEF CallOf

LEMMA CallSame ==
    ASSUME \A q \in Procs : CallOf'[q] = CallOf[q]
    PROVE  CallOf' = CallOf
BY DEF CallOf

LEMMA CallKept ==
    ASSUME NEW q \in Procs, pc'[q] = pc[q], op'[q] = op[q], failed'[q] = failed[q],
           pc[q] \in {"txn", "act"} => ReachOf(q)' = ReachOf(q)
    PROVE  CallOf'[q] = CallOf[q]
BY CallNow, CallNext

\* A goroutine that is left alone, while nothing changes in LMDB.
LEMMA CallLeft ==
    ASSUME NEW q \in Procs, pc'[q] = pc[q], op'[q] = op[q], failed'[q] = failed[q],
           handle'[q] = handle[q], open' = open, spoiled' = spoiled
    PROVE  CallOf'[q] = CallOf[q]
<1>1. ReachOf(q)' = ReachOf(q)
    BY DEF ReachOf
<1> QED
    BY <1>1, CallKept

LEMMA CallSeeks ==
    ASSUME IInv, NEW p \in Procs, pc[p] \notin {"idle", "table", "lock", "drain", "txn", "act"}
    PROVE  /\ Abstract!Seeking(p) /\ CallOf[p].op = op[p]
           /\ CallOf[p] = [at |-> IF failed[p] THEN "refused" ELSE "asked", op |-> op[p]]
           /\ ~failed[p] => Abstract!Asking(p)
<1>1. CallOf[p] = [at |-> IF failed[p] THEN "refused" ELSE "asked", op |-> op[p]]
    BY CallNow
<1>2. op[p].kind # "table"
    BY TypesAndKinds
<1> QED
    BY <1>1, <1>2 DEF Abstract!Seeking, Abstract!Asking

LEMMA CallInside ==
    ASSUME NEW q \in Procs, Abstract!Inside(q)
    PROVE  /\ pc[q] \in {"txn", "act"} /\ CallOf[q].op = op[q]
           /\ CallOf[q].at = "acting" => pc[q] = "act"
<1>1. CASE pc[q] = "idle"
    <2>1. CallOf[q] = [at |-> "idle"]
        BY <1>1, CallNow
    <2> QED
        BY <2>1 DEF Abstract!Inside
<1>2. CASE pc[q] = "txn"
    <2>1. CallOf[q] = [at |-> "reached", op |-> op[q], reach |-> ReachOf(q)]
        BY <1>2, CallNow
    <2> QED
        BY <1>2, <2>1
<1>3. CASE pc[q] = "act"
    <2>1. CallOf[q] = [at |-> "acting", op |-> op[q], reach |-> ReachOf(q)]
        BY <1>3, CallNow
    <2> QED
        BY <1>3, <2>1
<1>4. CASE pc[q] \notin {"idle", "txn", "act"}
    <2>1. CallOf[q] = [at |-> IF failed[q] THEN "refused" ELSE "asked", op |-> op[q]]
        BY <1>4, CallNow
    <2>2. CallOf[q].at \in {"refused", "asked"}
        BY <2>1
    <2> QED
        BY <2>2 DEF Abstract!Inside
<1> QED
    BY <1>1, <1>2, <1>3, <1>4

LEMMA KnownNow ==
    ASSUME IInv, NEW d \in Dbs
    PROVE  /\ d \in spoiled => KnownOf[d] = "lost"
           /\ d \notin spoiled /\ dbi[d] = None => KnownOf[d] = "new"
           /\ d \notin spoiled /\ dbi[d] = Bad => KnownOf[d] = "broken"
           /\ d \notin spoiled /\ dbi[d] \in Slots =>
                KnownOf[d] = IF dbi[d] = fresh THEN "opening" ELSE "ready"
           /\ dbi[d] = None \/ dbi[d] = Bad \/ dbi[d] \in Slots
<1>1. dbi[d] = None \/ dbi[d] = Bad \/ dbi[d] \in Slots
    BY DEF IInv, TypeOK, Handles
<1> QED
    BY <1>1, SlotAssumption, NoneAssumption DEF KnownOf

LEMMA KnownNext ==
    ASSUME NEW d \in Dbs
    PROVE  /\ d \in spoiled' => KnownOf'[d] = "lost"
           /\ d \notin spoiled' /\ dbi'[d] = None => KnownOf'[d] = "new"
           /\ d \notin spoiled' /\ dbi'[d] = Bad => KnownOf'[d] = "broken"
           /\ d \notin spoiled' /\ dbi'[d] \in Slots =>
                KnownOf'[d] = IF dbi'[d] = fresh' THEN "opening" ELSE "ready"
BY SlotAssumption, NoneAssumption DEF KnownOf

LEMMA KnownSame ==
    ASSUME UNCHANGED <<dbi, fresh, spoiled>>
    PROVE  KnownOf' = KnownOf
BY DEF KnownOf

LEMMA KnownKept ==
    ASSUME \A e \in Dbs : KnownOf'[e] = KnownOf[e]
    PROVE  KnownOf' = KnownOf
BY DEF KnownOf

LEMMA KnownOfOne ==
    ASSUME NEW d \in Dbs, NEW x, KnownOf'[d] = x,
           \A e \in Dbs : e # d => KnownOf'[e] = KnownOf[e]
    PROVE  KnownOf' = [KnownOf EXCEPT ![d] = x]
BY DEF KnownOf

-----------------------------------------------------------------------------
(* One lemma per step. *)

LEMMA BeginMaps ==
    ASSUME IInv, Entries, NEW p \in Procs, NEW o \in Operation, Begin(p, o)
    PROVE  Abstract!Ask(p, o)
<1>1. /\ pc[p] = "idle" /\ pc'[p] \in {"lock", "rlock"} /\ op'[p] = o
      /\ \A q \in Procs : q # p => pc'[q] = pc[q] /\ op'[q] = op[q]
      /\ UNCHANGED <<process, handle, failed, dbi, open, fresh, spoiled>>
    BY MovedTo, TypesAndKinds DEF Begin, TypeOK, lmdb
<1>2. ~failed[p]
    BY <1>1 DEF Entries, ErrorIsOfOpening
<1>3. CallOf[p] = Abstract!Idle /\ CallOf'[p] = [at |-> "asked", op |-> o]
    BY <1>1, <1>2, CallNow, CallNext DEF Abstract!Idle
<1>4. CallOf' = [CallOf EXCEPT ![p] = [at |-> "asked", op |-> o]]
    BY <1>1, <1>3, CallLeft, CallOfOne
<1> QED
    BY <1>1, <1>3, <1>4, KnownSame DEF Abstract!Ask

LEMMA QuietMaps ==
    ASSUME IInv, Entries, NEW p \in Procs,
           RLock(p) \/ HasDB(p) \/ Lock(p) \/ Enter(p) \/ BeginOpen(p) \/ Unlock(p)
    PROVE  UNCHANGED Abstract!vars
<1>1. /\ pc[p] \in {"rlock", "has", "lock", "drain", "begin", "unlock"}
      /\ pc'[p] \in {"has", "get", "lock", "drain", "table", "begin", "opendbi"}
      /\ \A q \in Procs : q # p => pc'[q] = pc[q]
      /\ UNCHANGED <<process, op, handle, failed, dbi, open, fresh, spoiled>>
    BY MovedTo, TypesAndKinds DEF RLock, HasDB, Lock, Enter, BeginOpen, Unlock, lmdb
<1>2. CallOf'[p] = CallOf[p]
    BY <1>1, CallNow, CallNext
<1>3. CallOf' = CallOf
    BY <1>1, <1>2, CallLeft, CallSame
<1> QED
    BY <1>1, <1>3, KnownSame DEF Abstract!vars

LEMMA ReturnMaps ==
    ASSUME IInv, Entries, NEW p \in Procs, Table(p) \/ GetError(p) \/ WriteFails(p) \/ Act(p)
    PROVE  Abstract!End(p)
<1>1. /\ pc[p] \in {"table", "get", "txn", "act"} /\ pc'[p] = "idle"
      /\ pc[p] = "get" => failed[p]
      /\ \A q \in Procs : q # p =>
            pc'[q] = pc[q] /\ op'[q] = op[q] /\ handle'[q] = handle[q] /\ failed'[q] = failed[q]
      /\ UNCHANGED <<process, dbi, open, fresh, spoiled>>
    BY MovedTo, TypesAndKinds DEF Table, GetError, WriteFails, Act, Returns, TypeOK, lmdb
<1>2. CallOf'[p] = Abstract!Idle
    BY <1>1, CallNext DEF Abstract!Idle
<1>3. CallOf' = [CallOf EXCEPT ![p] = Abstract!Idle]
    BY <1>1, <1>2, CallLeft, CallOfOne
<1>4. CASE pc[p] = "table"
    <2>1. CallOf[p] = [at |-> "asked", op |-> op[p]]
        BY <1>4, CallNow DEF Entries, ErrorIsOfOpening
    <2>2. op[p].kind = "table"
        BY <1>4 DEF Entries, TablesOnly
    <2> QED
        BY <1>1, <1>3, <2>1, <2>2, KnownSame DEF Abstract!End
<1>5. CASE pc[p] \in {"get", "txn", "act"}
    <2>1. CallOf[p].at \in {"refused", "reached", "acting"}
        <3>1. pc[p] = "get" => CallOf[p] = [at |-> "refused", op |-> op[p]]
            BY <1>1, CallNow
        <3>2. pc[p] = "act" => CallOf[p] = [at |-> "acting", op |-> op[p], reach |-> ReachOf(p)]
            BY CallNow
        <3>3. pc[p] = "txn" => CallOf[p] = [at |-> "reached", op |-> op[p], reach |-> ReachOf(p)]
            BY CallNow
        <3> QED
            BY <1>5, <3>1, <3>2, <3>3
    <2> QED
        BY <1>1, <1>3, <2>1, KnownSame DEF Abstract!End
<1> QED
    BY <1>1, <1>4, <1>5

\* The goroutine has what it may touch.
LEMMA WithinFacts ==
    ASSUME IInv, NEW q \in Procs, pc[q] \in {"txn", "act"}, op[q].db \notin spoiled,
           handle[q] \in Slots
    PROVE  open[handle[q]] = op[q].db /\ op[q].db # None /\ op[q].db \in Dbs
<1>1. op[q].db \in Dbs /\ op[q].db # None
    BY TypesAndKinds, NoneAssumption
<1> QED
    BY <1>1 DEF IInv, Naming, HeldIsOwn

LEMMA OpenFailsMaps ==
    ASSUME IInv, Entries, NEW p \in Procs, OpenFails(p)
    PROVE  Abstract!Refuse(p)
<1> DEFINE d == op[p].db
<1>1. /\ pc[p] = "begin" /\ pc'[p] = "unlock" /\ failed'[p] /\ writer = None
      /\ \A q \in Procs : q # p => pc'[q] = pc[q] /\ failed'[q] = failed[q]
      /\ UNCHANGED <<process, op, handle, dbi, open, fresh, spoiled>>
    BY MovedTo, TypesAndKinds DEF OpenFails, TypeOK, lmdb
<1>2. ~failed[p] /\ d \in Dbs
    BY <1>1, TypesAndKinds DEF Entries, ErrorIsOfOpening
\* Nobody is in a transaction, so no database is being opened.
<1>3. fresh = None
    BY <1>1, NoneAssumption DEF IInv, Locking, WriterIsHere, Writing, Naming, FreshIsHeld
<1>4. KnownOf[d] \in {"new", "broken", "ready", "lost"}
    BY <1>2, <1>3, SlotAssumption, KnownNow
<1>5. CallOf[p] = [at |-> "asked", op |-> op[p]] /\ Abstract!Asking(p)
    BY <1>1, <1>2, CallSeeks
<1>6. CallOf'[p] = [at |-> "refused", op |-> op[p]]
    BY <1>1, CallNext
<1>7. CallOf' = [CallOf EXCEPT ![p] = [at |-> "refused", op |-> op[p]]]
    BY <1>1, <1>6, CallLeft, CallOfOne
<1>8. CallOf' = [CallOf EXCEPT ![p].at = "refused"]
    <2>1. [CallOf[p] EXCEPT !.at = "refused"] = [at |-> "refused", op |-> op[p]]
        BY <1>5
    <2> QED
        BY <1>7, <2>1
<1> QED
    BY <1>1, <1>4, <1>5, <1>8, KnownSame DEF Abstract!Refuse, Abstract!Wants

LEMMA OpenDBIMaps ==
    ASSUME IInv, Entries, NEW p \in Procs, OpenDBI(p)
    PROVE  Abstract!Refuse(p) \/ UNCHANGED Abstract!vars
<1> DEFINE d == op[p].db
<1>1. /\ pc[p] = "opendbi" /\ pc'[p] = "store" /\ TypeOK
      /\ (\A q \in Procs : q # p => pc'[q] = pc[q])
      /\ UNCHANGED <<process, op, dbi, spoiled>>
    BY MovedTo, TypesAndKinds DEF OpenDBI
<1>2. \A q \in Procs : q # p => handle'[q] = handle[q] /\ failed'[q] = failed[q]
    BY <1>1 DEF OpenDBI, TypeOK
<1>3. fresh = None /\ ~failed[p] /\ d \in Dbs
    BY <1>1, OneOpener, TypesAndKinds DEF IInv, Naming, FreshIsHeld, Entries, ErrorIsOfOpening
<1>4. CASE UNCHANGED <<open, fresh, failed>>
    <2>1. CallOf'[p] = CallOf[p]
        BY <1>1, <1>4, CallNow, CallNext
    <2>2. CallOf' = CallOf
        BY <1>1, <1>2, <1>4, <2>1, CallLeft, CallSame
    <2> QED
        BY <1>1, <1>4, <2>2, KnownSame DEF Abstract!vars
<1>5. ASSUME ~IsOpen(d), failed' = [failed EXCEPT ![p] = TRUE], UNCHANGED <<open, fresh>>
      PROVE  Abstract!Refuse(p)
    <2>1. CallOf[p] = [at |-> "asked", op |-> op[p]] /\ Abstract!Asking(p)
        BY <1>1, <1>3, CallSeeks
    <2>2. CallOf'[p] = [at |-> "refused", op |-> op[p]]
        BY <1>1, <1>5, CallNext DEF TypeOK
    <2>3. CallOf' = [CallOf EXCEPT ![p] = [at |-> "refused", op |-> op[p]]]
        BY <1>1, <1>2, <1>5, <2>2, CallLeft, CallOfOne
    <2>4. CallOf' = [CallOf EXCEPT ![p].at = "refused"]
        <3>1. [CallOf[p] EXCEPT !.at = "refused"] = [at |-> "refused", op |-> op[p]]
            BY <2>1
        <3> QED
            BY <2>3, <3>1
    <2>5. d \in spoiled \/ dbi[d] \notin Slots
        BY <1>3, <1>5 DEF IsOpen, IInv, Naming, MapIsOwn
    <2>6. KnownOf[d] \in {"new", "broken", "ready", "lost"}
        BY <1>3, <2>5, KnownNow
    <2> QED
        BY <1>1, <1>5, <2>1, <2>4, <2>6, KnownSame DEF Abstract!Refuse, Abstract!Wants
<1>6. ASSUME NEW s \in Slots, open[s] = None, open' = [open EXCEPT ![s] = d], fresh' = s,
             UNCHANGED failed
      PROVE  UNCHANGED Abstract!vars
    <2>1. \A t \in Slots : t # s => open'[t] = open[t]
        BY <1>1, <1>6 DEF TypeOK
    <2>2. ASSUME NEW q \in Procs, q # p, pc[q] \in {"txn", "act"}
          PROVE  ReachOf(q)' = ReachOf(q)
        <3>1. op[q].db \notin spoiled /\ handle[q] \in Slots => handle[q] # s
            BY <1>6, <2>2, WithinFacts
        <3> QED
            BY <1>1, <1>2, <2>1, <2>2, <3>1 DEF ReachOf
    <2>3. CallOf'[p] = CallOf[p]
        BY <1>1, <1>6, CallNow, CallNext
    <2>4. CallOf' = CallOf
        BY <1>1, <1>2, <1>6, <2>2, <2>3, CallKept, CallSame
    <2>5. ASSUME NEW e \in Dbs
          PROVE  KnownOf'[e] = KnownOf[e]
        <3>1. e \notin spoiled /\ dbi[e] \in Slots => dbi[e] # s /\ dbi[e] # fresh
            BY <1>3, <1>6, SlotAssumption, NoneAssumption DEF IInv, Naming, MapIsOwn
        <3>2. dbi[e] = None \/ dbi[e] = Bad \/ dbi[e] \in Slots
            BY KnownNow
        <3> QED
            BY <1>1, <1>6, <3>1, <3>2, KnownNow, KnownNext
    <2> QED
        BY <1>1, <2>4, <2>5, KnownKept DEF Abstract!vars
<1> QED
    BY <1>4, <1>5, <1>6 DEF OpenDBI, FreeSlot

LEMMA StoreMaps ==
    ASSUME IInv, Entries, NEW p \in Procs, Store(p)
    PROVE  Abstract!Open(p) \/ Abstract!Break(p) \/ UNCHANGED Abstract!vars
<1> DEFINE d == op[p].db
<1>1. /\ pc[p] = "store" /\ pc'[p] = "commit" /\ TypeOK
      /\ (\A q \in Procs : q # p => pc'[q] = pc[q])
      /\ UNCHANGED <<process, op, handle, failed, open, fresh, spoiled>>
    BY MovedTo, TypesAndKinds DEF Store, lmdb
<1>2. d \in Dbs /\ d # None
    BY <1>1, TypesAndKinds, NoneAssumption
<1>3. dbi'[d] = handle[p] /\ \A e \in Dbs : e # d => dbi'[e] = dbi[e]
    BY <1>1, <1>2 DEF Store, TypeOK
<1>4. CallOf'[p] = CallOf[p]
    BY <1>1, CallNow, CallNext
<1>5. CallOf' = CallOf
    BY <1>1, <1>4, CallLeft, CallSame
<1>6. ASSUME NEW e \in Dbs, e # d
      PROVE  KnownOf'[e] = KnownOf[e]
    BY <1>1, <1>3, <1>6, KnownNow, KnownNext
<1>7. /\ Abstract!Seeking(p) /\ CallOf[p].op = op[p]
      /\ CallOf[p] = [at |-> IF failed[p] THEN "refused" ELSE "asked", op |-> op[p]]
      /\ ~failed[p] => Abstract!Asking(p)
    BY <1>1, CallSeeks
<1>8. CASE KnownOf'[d] = KnownOf[d]
    <2>1. KnownOf' = KnownOf
        BY <1>6, <1>8, KnownKept
    <2> QED
        BY <1>1, <1>5, <2>1 DEF Abstract!vars
<1>9. CASE d \in spoiled
    BY <1>1, <1>2, <1>8, <1>9, KnownNow, KnownNext
<1>10. CASE d \notin spoiled /\ failed[p]
    <2>1. handle[p] = Bad /\ \A s \in Slots : open[s] # d
        BY <1>1, <1>10, SlotAssumption DEF Entries, ErrorIsOfOpening, IInv, Naming, StoredIsTrue
    <2>2. dbi[d] \notin Slots
        BY <1>2, <1>10, <2>1 DEF IInv, Naming, MapIsOwn
    <2>3. KnownOf[d] \in {"new", "broken"}
        BY <1>2, <1>10, <2>2, KnownNow
    <2>4. KnownOf'[d] = "broken"
        BY <1>1, <1>2, <1>3, <1>10, <2>1, KnownNext
    <2>5. KnownOf' = [KnownOf EXCEPT ![d] = "broken"]
        BY <1>2, <1>6, <2>4, KnownOfOne
    <2> QED
        BY <1>1, <1>5, <1>7, <1>10, <2>3, <2>5
           DEF Abstract!Break, Abstract!Wants, Abstract!Becomes
<1>11. CASE d \notin spoiled /\ ~failed[p]
    <2>1. handle[p] \in Slots /\ open[handle[p]] = d
        BY <1>1, <1>11 DEF Entries, ErrorIsOfOpening, IInv, Naming, StoredIsTrue
    <2>2. CASE dbi[d] \in Slots
        <3>1. dbi[d] = handle[p]
            BY <1>2, <1>11, <2>1, <2>2 DEF IInv, Naming, MapIsOwn, OneSlotEach
        <3> QED
            BY <1>1, <1>2, <1>3, <1>8, <1>11, <2>2, <3>1, KnownNow, KnownNext
    <2>3. CASE dbi[d] \notin Slots
        <3>1. KnownOf[d] \in {"new", "broken"}
            BY <1>2, <1>11, <2>3, KnownNow
        <3>2. handle[p] = fresh
            BY <1>2, <2>1, <2>3 DEF Entries, OpenIsStored
        <3>3. KnownOf'[d] = "opening"
            BY <1>1, <1>2, <1>3, <1>11, <2>1, <3>2, KnownNext
        <3>4. KnownOf' = [KnownOf EXCEPT ![d] = "opening"]
            BY <1>2, <1>6, <3>3, KnownOfOne
        <3> QED
            BY <1>1, <1>5, <1>7, <1>11, <3>1, <3>4
               DEF Abstract!Open, Abstract!Wants, Abstract!Becomes
    <2> QED
        BY <2>2, <2>3
<1> QED
    BY <1>9, <1>10, <1>11

LEMMA CommitMaps ==
    ASSUME IInv, Entries, NEW p \in Procs, Commit(p)
    PROVE  Abstract!Confirm(p) \/ Abstract!Lose(p) \/ UNCHANGED Abstract!vars
<1> DEFINE d == op[p].db
<1>1. /\ pc[p] = "commit" /\ pc'[p] = "unlock" /\ TypeOK
      /\ (\A q \in Procs : q # p => pc'[q] = pc[q])
      /\ UNCHANGED <<process, op, handle, dbi>> /\ fresh' = None
    BY MovedTo, TypesAndKinds DEF Commit
<1>2. d \in Dbs /\ d # None
    BY <1>1, TypesAndKinds, NoneAssumption
<1>3. fresh # None => /\ fresh \in Slots /\ handle[p] = fresh /\ open[fresh] = d
                      /\ dbi[d] = fresh /\ ~failed[p]
    BY <1>1, FreshIsMine
<1>4. ASSUME NEW e \in Dbs, e # d, e \in spoiled' <=> e \in spoiled
      PROVE  KnownOf'[e] = KnownOf[e]
    <2>1. e \notin spoiled /\ dbi[e] \in Slots => dbi[e] # fresh /\ dbi[e] # fresh'
        BY <1>1, <1>2, <1>3, <1>4, SlotAssumption DEF IInv, Naming, MapIsOwn
    <2>2. dbi[e] = None \/ dbi[e] = Bad \/ dbi[e] \in Slots
        BY KnownNow
    <2> QED
        BY <1>1, <1>4, <2>1, <2>2, KnownNow, KnownNext
<1>5. /\ Abstract!Seeking(p) /\ CallOf[p].op = op[p]
      /\ CallOf[p] = [at |-> IF failed[p] THEN "refused" ELSE "asked", op |-> op[p]]
      /\ ~failed[p] => Abstract!Asking(p)
    BY <1>1, CallSeeks
<1>6. CASE UNCHANGED <<open, failed, spoiled>>
    <2>1. CallOf'[p] = CallOf[p]
        BY <1>1, <1>6, CallNow, CallNext
    <2>2. CallOf' = CallOf
        BY <1>1, <1>6, <2>1, CallLeft, CallSame
    <2>3. CASE fresh = None
        BY <1>1, <1>6, <2>2, <2>3, KnownSame DEF Abstract!vars
    <2>4. CASE fresh # None /\ d \in spoiled
        <3>1. KnownOf'[d] = KnownOf[d]
            BY <1>2, <1>6, <2>4, KnownNow, KnownNext
        <3>2. KnownOf' = KnownOf
            BY <1>4, <1>6, <3>1, KnownKept
        <3> QED
            BY <1>1, <2>2, <3>2 DEF Abstract!vars
    <2>5. CASE fresh # None /\ d \notin spoiled
        <3>1. KnownOf[d] = "opening"
            BY <1>2, <1>3, <2>5, KnownNow
        <3>2. KnownOf'[d] = "ready"
            BY <1>1, <1>2, <1>3, <1>6, <2>5, SlotAssumption, KnownNext
        <3>3. KnownOf' = [KnownOf EXCEPT ![d] = "ready"]
            BY <1>2, <1>4, <1>6, <3>2, KnownOfOne
        <3> QED
            BY <1>1, <1>3, <1>5, <2>2, <2>5, <3>1, <3>3
               DEF Abstract!Confirm, Abstract!Wants, Abstract!Becomes
    <2> QED
        BY <2>3, <2>4, <2>5
<1>7. ASSUME fresh # None, open' = [open EXCEPT ![fresh] = None],
             failed' = [failed EXCEPT ![p] = TRUE], spoiled' = spoiled \cup {d}
      PROVE  Abstract!Lose(p)
    <2>1. /\ \A t \in Slots : t # fresh => open'[t] = open[t]
          /\ \A q \in Procs : q # p => failed'[q] = failed[q]
          /\ failed'[p]
        BY <1>1, <1>7 DEF TypeOK
    <2>2. KnownOf[d] \in {"opening", "lost"}
        BY <1>2, <1>3, <1>7, KnownNow
    <2>3. KnownOf'[d] = "lost"
        BY <1>2, <1>7, KnownNext
    <2>4. KnownOf' = [KnownOf EXCEPT ![d] = "lost"]
        BY <1>2, <1>4, <1>7, <2>3, KnownOfOne
    <2>5. CallOf'[p] = [CallOf[p] EXCEPT !.at = "refused"]
        <3>1. CallOf[p] = [at |-> "asked", op |-> op[p]]
            BY <1>3, <1>5, <1>7
        <3>2. CallOf'[p] = [at |-> "refused", op |-> op[p]]
            BY <1>1, <2>1, CallNext
        <3> QED
            BY <3>1, <3>2
    <2>6. ASSUME NEW q \in Procs, q # p, Abstract!Inside(q), CallOf[q].op.db = d
          PROVE  CallOf'[q] = [CallOf[q] EXCEPT !.reach = Dbs]
        <3>1. pc[q] \in {"txn", "act"}
            BY <2>6, CallInside
        <3>2. CallOf[q] = [at |-> IF pc[q] = "txn" THEN "reached" ELSE "acting",
                           op |-> op[q], reach |-> ReachOf(q)]
            BY <3>1, CallNow
        <3>3. ReachOf(q)' = Dbs
            BY <1>1, <1>7, <2>6, <3>2 DEF ReachOf
        <3>4. CallOf'[q] = [at |-> IF pc[q] = "txn" THEN "reached" ELSE "acting",
                            op |-> op[q], reach |-> Dbs]
            BY <1>1, <2>6, <3>1, <3>3, CallNext
        <3> QED
            BY <3>2, <3>4
    <2>7. ASSUME NEW q \in Procs, q # p, ~(Abstract!Inside(q) /\ CallOf[q].op.db = d)
          PROVE  CallOf'[q] = CallOf[q]
        <3>1. ASSUME pc[q] \in {"txn", "act"}
              PROVE  ReachOf(q)' = ReachOf(q)
            <4>1. CallOf[q] = [at |-> IF pc[q] = "txn" THEN "reached" ELSE "acting",
                               op |-> op[q], reach |-> ReachOf(q)]
                BY <3>1, CallNow
            <4>2. op[q].db # d
                BY <2>7, <4>1 DEF Abstract!Inside
            <4>3. op[q].db \notin spoiled /\ handle[q] \in Slots => handle[q] # fresh
                BY <1>3, <1>7, <3>1, <4>2, WithinFacts
            <4> QED
                BY <1>1, <1>7, <2>1, <4>2, <4>3 DEF ReachOf
        <3> QED
            BY <1>1, <2>1, <2>7, <3>1, CallKept
    <2>8. CallOf' = [q \in Procs |->
                       IF q = p THEN [CallOf[p] EXCEPT !.at = "refused"]
                       ELSE IF Abstract!Inside(q) /\ CallOf[q].op.db = CallOf[p].op.db
                       THEN [CallOf[q] EXCEPT !.reach = Dbs]
                       ELSE CallOf[q]]
        <3>1. \A q \in Procs :
                 CallOf'[q] = IF q = p THEN [CallOf[p] EXCEPT !.at = "refused"]
                              ELSE IF Abstract!Inside(q) /\ CallOf[q].op.db = CallOf[p].op.db
                              THEN [CallOf[q] EXCEPT !.reach = Dbs]
                              ELSE CallOf[q]
            BY <1>5, <2>5, <2>6, <2>7
        <3>2. CallOf' = [q \in Procs |-> CallOf'[q]]
            BY DEF CallOf
        <3> QED
            BY <3>1, <3>2
    <2> QED
        BY <1>1, <1>3, <1>5, <1>7, <2>2, <2>4, <2>8
           DEF Abstract!Lose, Abstract!Wants, Abstract!Becomes
<1> QED
    BY <1>6, <1>7 DEF Commit

\* The one that stores is another, and on the way to a database too.
LEMMA StoringIsCompany ==
    ASSUME IInv, NEW p \in Procs, pc[p] = "get", Storing
    PROVE  Abstract!Accompanied(p)
<1>1. PICK q \in Procs : pc[q] = "store"
    BY DEF Storing
<1>2. q # p /\ Abstract!Seeking(q)
    BY <1>1, CallSeeks
<1> QED
    BY <1>2 DEF Abstract!Accompanied

LEMMA GetMaps ==
    ASSUME IInv, Entries, NEW p \in Procs, Get(p)
    PROVE  Abstract!Reach(p)
<1> DEFINE d == op[p].db
           x == [at |-> IF op[p].kind = "write" THEN "reached" ELSE "acting",
                 op |-> op[p], reach |-> ReachOf(p)']
<1>1. /\ pc[p] = "get" /\ pc'[p] = (IF op[p].kind = "write" THEN "txn" ELSE "act") /\ ~failed[p]
      /\ \A q \in Procs : q # p => pc'[q] = pc[q] /\ handle'[q] = handle[q]
      /\ UNCHANGED <<process, op, failed, dbi, open, fresh, spoiled>>
      /\ \/ handle'[p] = dbi[d]
         \/ Storing /\ handle'[p] = Bad
    BY MovedTo, TypesAndKinds DEF Get, TypeOK, lmdb
<1>2. d \in Dbs /\ dbi[d] # None
    BY <1>1, TypesAndKinds DEF Entries, HasEntry
<1>3. Abstract!Asking(p) /\ CallOf[p].op = op[p]
    BY <1>1, CallSeeks
<1>4. CallOf'[p] = x
    BY <1>1, CallNext
<1>5. CallOf' = [CallOf EXCEPT ![p] = x]
    BY <1>1, <1>4, CallLeft, CallOfOne
<1>6. Abstract!Gets(p, ReachOf(p)') /\ ReachOf(p)' \in SUBSET Dbs
    <2>1. CASE d \in spoiled
        <3>1. ReachOf(p)' = Dbs /\ KnownOf[d] = "lost"
            BY <1>1, <1>2, <2>1, KnownNow DEF ReachOf
        <3> QED
            BY <1>3, <3>1 DEF Abstract!Gets, Abstract!Wants
    <2>2. CASE d \notin spoiled /\ dbi[d] = Bad
        <3>1. ReachOf(p)' = {} /\ KnownOf[d] = "broken"
            BY <1>1, <1>2, <2>2, SlotAssumption, KnownNow DEF ReachOf
        <3> QED
            BY <1>3, <3>1 DEF Abstract!Gets, Abstract!Wants
    <2>3. CASE d \notin spoiled /\ dbi[d] \in Slots
        <3>1. KnownOf[d] \in {"opening", "ready"} /\ open[dbi[d]] = d
            BY <1>2, <2>3, KnownNow DEF IInv, Naming, MapIsOwn
        <3>2. CASE handle'[p] = dbi[d]
            <4>1. ReachOf(p)' = {d}
                BY <1>1, <2>3, <3>1, <3>2 DEF ReachOf
            <4> QED
                BY <1>2, <1>3, <3>1, <4>1 DEF Abstract!Gets, Abstract!Wants
        <3>3. CASE Storing /\ handle'[p] = Bad
            <4>1. ReachOf(p)' = {}
                BY <1>1, <2>3, <3>3, SlotAssumption DEF ReachOf
            <4> QED
                BY <1>1, <1>3, <3>1, <3>3, <4>1, StoringIsCompany DEF Abstract!Gets, Abstract!Wants
        <3> QED
            BY <1>1, <3>2, <3>3
    <2> QED
        BY <1>2, <2>1, <2>2, <2>3, KnownNow
<1> QED
    BY <1>1, <1>3, <1>5, <1>6, KnownSame DEF Abstract!Reach

LEMMA GetDiesMaps ==
    ASSUME IInv, Entries, NEW p \in Procs, GetDies(p)
    PROVE  Abstract!Die(p)
<1>1. /\ pc[p] = "get" /\ pc'[p] = "get" /\ Storing /\ process' = "dead"
      /\ \A q \in Procs : q # p => pc'[q] = pc[q]
      /\ UNCHANGED <<op, handle, failed, dbi, open, fresh, spoiled>>
    BY MovedTo, TypesAndKinds DEF GetDies, lmdb
<1>2. CallOf' = CallOf
    BY <1>1, CallLeft, CallSame
<1>3. Abstract!Seeking(p) /\ Abstract!Accompanied(p)
    BY <1>1, CallSeeks, StoringIsCompany
<1> QED
    BY <1>1, <1>2, <1>3, KnownSame DEF Abstract!Die

LEMMA BeginWriteMaps ==
    ASSUME IInv, Entries, NEW p \in Procs, BeginWrite(p)
    PROVE  Abstract!Begin(p)
<1>1. /\ pc[p] = "txn" /\ pc'[p] = "act" /\ writer = None
      /\ \A q \in Procs : q # p => pc'[q] = pc[q]
      /\ UNCHANGED <<process, op, handle, failed, dbi, open, fresh, spoiled>>
    BY MovedTo, TypesAndKinds DEF BeginWrite, lmdb
<1>2. ReachOf(p)' = ReachOf(p)
    BY <1>1 DEF ReachOf
<1>3. /\ CallOf[p] = [at |-> "reached", op |-> op[p], reach |-> ReachOf(p)]
      /\ CallOf'[p] = [at |-> "acting", op |-> op[p], reach |-> ReachOf(p)]
    BY <1>1, <1>2, CallNow, CallNext
<1>4. CallOf' = [CallOf EXCEPT ![p] = [at |-> "acting", op |-> op[p], reach |-> ReachOf(p)]]
    BY <1>1, <1>3, CallLeft, CallOfOne
<1>5. CallOf' = [CallOf EXCEPT ![p].at = "acting"]
    <2>1. [CallOf[p] EXCEPT !.at = "acting"] = [at |-> "acting", op |-> op[p], reach |-> ReachOf(p)]
        BY <1>3
    <2> QED
        BY <1>4, <2>1
<1>6. ASSUME NEW q \in Procs, CallOf[q].at = "acting", CallOf[q].op.kind = "write"
      PROVE  FALSE
    <2>1. pc[q] = "act" /\ op[q].kind = "write"
        BY <1>6, CallInside DEF Abstract!Inside
    <2> QED
        BY <1>1, <2>1, NoneAssumption DEF IInv, Locking, WriterIsHere, Writing
<1> QED
    BY <1>1, <1>3, <1>5, <1>6, KnownSame DEF Abstract!Begin

LEMMA StepMaps == IInv /\ Entries /\ [Next]_vars => [Abstract!Next]_(Abstract!vars)
<1> SUFFICES ASSUME IInv, Entries, [Next]_vars
             PROVE  Abstract!Next \/ UNCHANGED Abstract!vars
    OBVIOUS
<1>1. CASE UNCHANGED vars
    <2>1. CallOf' = CallOf
        BY <1>1 DEF vars, lmdb, CallOf, ReachOf
    <2>2. KnownOf' = KnownOf
        BY <1>1, KnownSame DEF vars, lmdb
    <2> QED
        BY <1>1, <2>1, <2>2 DEF vars, Abstract!vars
<1>2. ASSUME NEW p \in Procs, NEW o \in Operation, Begin(p, o)
      PROVE  Abstract!Next
    BY <1>2, BeginMaps DEF Begin, Moves, Abstract!Next
<1>3. ASSUME NEW p \in Procs, Step(p)
      PROVE  Abstract!Next \/ UNCHANGED Abstract!vars
    <2>1. process = "up"
        BY <1>3 DEF Step, RLock, HasDB, Lock, Enter, Table, BeginOpen, OpenFails, OpenDBI, Store,
                    Commit, Unlock, GetError, Get, GetDies, BeginWrite, WriteFails, Act, Returns,
                    Moves
    <2>2. CASE RLock(p) \/ HasDB(p) \/ Lock(p) \/ Enter(p) \/ BeginOpen(p) \/ Unlock(p)
        BY <2>2, QuietMaps
    <2>3. CASE Table(p) \/ GetError(p) \/ WriteFails(p) \/ Act(p)
        BY <2>1, <2>3, ReturnMaps DEF Abstract!Next
    <2>4. CASE OpenFails(p) \/ OpenDBI(p) \/ Store(p) \/ Commit(p)
        BY <2>1, <2>4, OpenFailsMaps, OpenDBIMaps, StoreMaps, CommitMaps DEF Abstract!Next
    <2>5. CASE Get(p) \/ GetDies(p) \/ BeginWrite(p)
        BY <2>1, <2>5, GetMaps, GetDiesMaps, BeginWriteMaps DEF Abstract!Next
    <2> QED
        BY <1>3, <2>2, <2>3, <2>4, <2>5 DEF Step
<1> QED
    BY <1>1, <1>2, <1>3 DEF Next, Finished

(***************************************************************************)
(* For any numbers of goroutines, databases and slots, sel and its locks   *)
(* implement a catalogue in which each database is opened once: every step *)
(* of sel, hasDB, openDB and the transactions is a step of the catalogue   *)
(* or does not show in it (sel.go, client.go).                             *)
(***************************************************************************)
THEOREM SelImplementsCatalogue == Spec => CatalogueImplemented
<1>1. Init => Abstract!Init /\ Entries
    <2> SUFFICES ASSUME Init
                 PROVE  Abstract!Init /\ Entries
        OBVIOUS
    <2>1. Entries
        BY NoneAssumption DEF Init, Entries, OpenIsStored, HasEntry, ErrorIsOfOpening, TablesOnly
    <2>2. CallOf = [p \in Procs |-> Abstract!Idle]
        BY DEF Init, CallOf, Abstract!Idle
    <2>3. KnownOf = [d \in Dbs |-> "new"]
        BY DEF Init, KnownOf
    <2> QED
        BY <2>1, <2>2, <2>3 DEF Init, Abstract!Init
<1> QED
    BY <1>1, IInvAlways, EntriesStep, StepMaps, PTL DEF Spec, CatalogueImplemented, Abstract!Spec

=============================================================================
