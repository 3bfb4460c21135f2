------------------------------ MODULE Databases ------------------------------
(***************************************************************************)
(* The handles of the databases of LMDB, and the locks that every storage  *)
(* operation takes: internal/storage/sel.go, and how the other files of    *)
(* that package use client.mtx and transactions.                           *)
(*                                                                         *)
(* An operation first calls sel, which looks its database up in the map    *)
(* client.dbi and opens it if it is missing, then runs a transaction with  *)
(* the handle.  The goroutines of the connections and of the timers do so  *)
(* at the same time.  sel takes client.mtx to look whether the database is *)
(* in the map and to put it there, but not for its last read of the map    *)
(* (line 20), which may meet the write of another goroutine (line 37): in  *)
(* Go that is a data race, which ends the process when the run-time system *)
(* notices it and may else miss the entry.                                 *)
(*                                                                         *)
(* What an operation does to the keys is not modelled here.                *)
(***************************************************************************)
EXTENDS Integers, FiniteSets

CONSTANTS
    Procs,     \* goroutines of connections and of timers
    Dbs,       \* numbers of databases that are used: a uint8 in the code
    MaxDbs,    \* databases that LMDB may have open: 101 in the code
    MaxOps,    \* bound: operations of each goroutine
    None,      \* nobody, no handle, no database
    Bad        \* a handle that is never valid: what a failed OpenDBI returns

Slots == 1..MaxDbs

ASSUME SlotAssumption == MaxDbs \in Nat \ {0} /\ None \notin Slots /\ Bad \notin Slots

ASSUME NoneAssumption == None \notin Procs /\ None \notin Dbs /\ None # Bad

ASSUME OpsAssumption == MaxOps \in Nat

VARIABLES
    process,   \* "up", or "dead" of the data race
    readers,   \* goroutines that hold client.mtx for reading
    locker,    \* who holds client.mtx, or waits for the readers to leave
    writer,    \* who has the write transaction of LMDB
    pc,        \* where each goroutine is in its operation
    op,        \* that operation and its database, None when idle
    handle,    \* the local handle of each goroutine
    failed,    \* whether the error of sel is set
    dbi,       \* client.dbi as a total function
    open,      \* in LMDB: the database that each slot is open for
    fresh,     \* in LMDB: the slot opened by the write transaction
    spoiled,   \* history: databases whose creation was not committed
    ops        \* operations begun by each goroutine

locks == <<readers, locker, writer>>
lmdb == <<open, fresh, spoiled>>
vars == <<process, locks, pc, op, handle, failed, dbi, lmdb, ops>>

\* A write is Set, Del and every other Update, a read is a View; Expire and
\* Persist touch the table of expirations only, under client.mtx.
Operation == [kind : {"write", "read"}, db : Dbs] \cup [kind : {"table"}]

Handles == Slots \cup {Bad, None}

TypeOK ==
    /\ process \in {"up", "dead"}
    /\ readers \subseteq Procs
    /\ locker \in Procs \cup {None} /\ writer \in Procs \cup {None}
    /\ pc \in [Procs -> {"idle", "rlock", "has", "lock", "drain", "table", "begin",
                         "opendbi", "store", "commit", "unlock", "get", "txn", "act"}]
    /\ op \in [Procs -> Operation \cup {None}]
    /\ handle \in [Procs -> Handles]
    /\ failed \in [Procs -> BOOLEAN]
    /\ dbi \in [Dbs -> Handles]
    /\ open \in [Slots -> Dbs \cup {None}]
    /\ fresh \in Slots \cup {None}
    /\ spoiled \subseteq Dbs
    /\ ops \in [Procs -> 0..MaxOps]

Init ==
    /\ process = "up"
    /\ readers = {} /\ locker = None /\ writer = None
    /\ pc = [p \in Procs |-> "idle"]
    /\ op = [p \in Procs |-> None]
    /\ handle = [p \in Procs |-> None]
    /\ failed = [p \in Procs |-> FALSE]
    /\ dbi = [d \in Dbs |-> None]
    /\ open = [s \in Slots |-> None] /\ fresh = None /\ spoiled = {}
    /\ ops = [p \in Procs |-> 0]

\* Goroutine p goes from one place to another.
Moves(p, from, to) == process = "up" /\ pc[p] = from /\ pc' = [pc EXCEPT ![p] = to]

\* ... or to the end of its operation, where its local variables are gone.
Returns(p, from) ==
    /\ Moves(p, from, "idle")
    /\ op' = [op EXCEPT ![p] = None]
    /\ handle' = [handle EXCEPT ![p] = None]
    /\ failed' = [failed EXCEPT ![p] = FALSE]

-----------------------------------------------------------------------------
(* hasDB. *)

Begin(p, o) ==
    /\ Moves(p, "idle", IF o.kind = "table" THEN "lock" ELSE "rlock")
    /\ ops[p] < MaxOps
    /\ op' = [op EXCEPT ![p] = o]
    /\ ops' = [ops EXCEPT ![p] = @ + 1]
    /\ UNCHANGED <<process, locks, handle, failed, dbi, lmdb>>

\* A reader of the RWMutex waits for a writer that is in or that waits.
RLock(p) ==
    /\ Moves(p, "rlock", "has")
    /\ locker = None
    /\ readers' = readers \cup {p}
    /\ UNCHANGED <<process, locker, writer, op, handle, failed, dbi, lmdb, ops>>

\* Variant of HasDB that looks whether any database is in the map.
HasDB_Any(p) ==
    /\ Moves(p, "has", IF \E d \in Dbs : dbi[d] # None THEN "get" ELSE "lock")
    /\ readers' = readers \ {p}
    /\ UNCHANGED <<process, locker, writer, op, handle, failed, dbi, lmdb, ops>>

HasDB(p) ==
    /\ Moves(p, "has", IF dbi[op[p].db] # None THEN "get" ELSE "lock")
    /\ readers' = readers \ {p}
    /\ UNCHANGED <<process, locker, writer, op, handle, failed, dbi, lmdb, ops>>

-----------------------------------------------------------------------------
(* openDB, and the lock of Expire and Persist. *)

\* Lock shuts new readers out ...
Lock(p) ==
    /\ Moves(p, "lock", "drain")
    /\ locker = None /\ locker' = p
    /\ UNCHANGED <<process, readers, writer, op, handle, failed, dbi, lmdb, ops>>

\* Variant of Enter that does not wait, as if openDB took RLock.
Enter_Shared(p) ==
    /\ Moves(p, "drain", IF op[p].kind = "table" THEN "table" ELSE "begin")
    /\ UNCHANGED <<process, locks, op, handle, failed, dbi, lmdb, ops>>

\* ... and waits for those that are in.
Enter(p) ==
    /\ Moves(p, "drain", IF op[p].kind = "table" THEN "table" ELSE "begin")
    /\ readers = {}
    /\ UNCHANGED <<process, locks, op, handle, failed, dbi, lmdb, ops>>

\* Expire and Persist return.
Table(p) ==
    /\ Returns(p, "table")
    /\ locker' = None
    /\ UNCHANGED <<process, readers, writer, dbi, lmdb, ops>>

\* env.Update in openDB, with client.mtx held.
BeginOpen(p) ==
    /\ Moves(p, "begin", "opendbi")
    /\ writer = None /\ writer' = p
    /\ UNCHANGED <<process, readers, locker, op, handle, failed, dbi, lmdb, ops>>

\* env.Update in openDB fails to begin its transaction: nothing is stored.  Who
\* waits for another's transaction fails only after that.
OpenFails(p) ==
    /\ Moves(p, "begin", "unlock")
    /\ writer = None
    /\ failed' = [failed EXCEPT ![p] = TRUE]
    /\ UNCHANGED <<process, locks, op, handle, dbi, lmdb, ops>>

IsOpen(d) == \E s \in Slots : open[s] = d

\* The slot that LMDB takes: the first free one.
FreeSlot(s) == open[s] = None /\ \A t \in Slots : t < s => open[t] # None

\* Variant of OpenDBI that opens a database beyond the last slot where it
\* should fail.
OpenDBI_NoLimit(p) ==
    /\ Moves(p, "opendbi", "store")
    /\ LET d == op[p].db IN
        \/ /\ \E s \in Slots : open[s] = d /\ handle' = [handle EXCEPT ![p] = s]
           /\ UNCHANGED <<open, fresh, failed>>
        \/ /\ ~IsOpen(d)
           /\ \E s \in Slots : /\ FreeSlot(s)
                               /\ handle' = [handle EXCEPT ![p] = s]
                               /\ open' = [open EXCEPT ![s] = d]
                               /\ fresh' = s
           /\ UNCHANGED failed
        \/ /\ ~IsOpen(d)
           /\ handle' = [handle EXCEPT ![p] = MaxDbs + 1]
           /\ UNCHANGED <<open, fresh, failed>>
    /\ UNCHANGED <<process, locks, op, dbi, spoiled, ops>>

\* Variant of OpenDBI that may fail even if the database is open already.
OpenDBI_FailsAnyTime(p) ==
    /\ Moves(p, "opendbi", "store")
    /\ LET d == op[p].db IN
        \/ /\ ~IsOpen(d)
           /\ \E s \in Slots : /\ FreeSlot(s)
                               /\ handle' = [handle EXCEPT ![p] = s]
                               /\ open' = [open EXCEPT ![s] = d]
                               /\ fresh' = s
           /\ UNCHANGED failed
        \/ /\ handle' = [handle EXCEPT ![p] = Bad]
           /\ failed' = [failed EXCEPT ![p] = TRUE]
           /\ UNCHANGED <<open, fresh>>
    /\ UNCHANGED <<process, locks, op, dbi, spoiled, ops>>

\* txn.OpenDBI.  A database that is open already keeps its slot.  Opening may
\* fail, for want of a slot or of room in the file.
OpenDBI(p) ==
    /\ Moves(p, "opendbi", "store")
    /\ LET d == op[p].db IN
        \/ /\ \E s \in Slots : open[s] = d /\ handle' = [handle EXCEPT ![p] = s]
           /\ UNCHANGED <<open, fresh, failed>>
        \/ /\ ~IsOpen(d)
           /\ \E s \in Slots : /\ FreeSlot(s)
                               /\ handle' = [handle EXCEPT ![p] = s]
                               /\ open' = [open EXCEPT ![s] = d]
                               /\ fresh' = s
           /\ UNCHANGED failed
        \/ /\ ~IsOpen(d)
           /\ handle' = [handle EXCEPT ![p] = Bad]
           /\ failed' = [failed EXCEPT ![p] = TRUE]
           /\ UNCHANGED <<open, fresh>>
    /\ UNCHANGED <<process, locks, op, dbi, spoiled, ops>>

\* Variant of Store with the number of the database in the client instead of
\* the context, where the next operation overwrites it.
Store_SharedDb(p) ==
    /\ Moves(p, "store", "commit")
    /\ \E q \in Procs :
        /\ pc[q] # "idle" /\ op[q].kind # "table"
        /\ dbi' = [dbi EXCEPT ![op[q].db] = handle[p]]
    /\ UNCHANGED <<process, locks, op, handle, failed, lmdb, ops>>

\* client.dbi[db] = dbi ends: also after an error, and before the commit.
Store(p) ==
    /\ Moves(p, "store", "commit")
    /\ dbi' = [dbi EXCEPT ![op[p].db] = handle[p]]
    /\ UNCHANGED <<process, locks, op, handle, failed, lmdb, ops>>

\* The end of env.Update in openDB: the transaction is aborted if OpenDBI
\* failed, and the commit of a new database may fail; LMDB then takes its slot
\* back.
Commit(p) ==
    /\ Moves(p, "commit", "unlock")
    /\ writer' = None /\ fresh' = None
    /\ \/ UNCHANGED <<open, failed, spoiled>>
       \/ /\ fresh # None
          /\ open' = [open EXCEPT ![fresh] = None]
          /\ failed' = [failed EXCEPT ![p] = TRUE]
          /\ spoiled' = spoiled \cup {op[p].db}
    /\ UNCHANGED <<process, readers, locker, op, handle, dbi, ops>>

\* Variant of Unlock that returns from an error with client.mtx locked.
Unlock_NotAfterError(p) ==
    /\ Moves(p, "unlock", "get")
    /\ locker' = IF failed[p] THEN locker ELSE None
    /\ UNCHANGED <<process, readers, writer, op, handle, failed, dbi, lmdb, ops>>

Unlock(p) ==
    /\ Moves(p, "unlock", "get")
    /\ locker' = None
    /\ UNCHANGED <<process, readers, writer, op, handle, failed, dbi, lmdb, ops>>

-----------------------------------------------------------------------------
(* The rest of sel, and the operation itself. *)

\* A goroutine is writing to client.dbi.
Storing == \E q \in Procs : pc[q] = "store"

\* Variant of GetError that opens the database again until it succeeds.
GetError_Retries(p) ==
    /\ failed[p]
    /\ Moves(p, "get", "lock")
    /\ failed' = [failed EXCEPT ![p] = FALSE]
    /\ UNCHANGED <<process, locks, op, handle, dbi, lmdb, ops>>

\* sel with the error of openDB: the operation stops.
GetError(p) ==
    /\ failed[p]
    /\ Returns(p, "get")
    /\ UNCHANGED <<process, locks, dbi, lmdb, ops>>

\* client.dbi[db], without a lock.
Get(p) ==
    /\ ~failed[p]
    /\ Moves(p, "get", IF op[p].kind = "write" THEN "txn" ELSE "act")
    /\ \/ handle' = [handle EXCEPT ![p] = dbi[op[p].db]]
       \/ Storing /\ handle' = [handle EXCEPT ![p] = Bad]
    /\ UNCHANGED <<process, locks, op, failed, dbi, lmdb, ops>>

\* The same read, when the run-time system notices the race.
GetDies(p) ==
    /\ Moves(p, "get", "get")
    /\ Storing
    /\ process' = "dead"
    /\ UNCHANGED <<locks, op, handle, failed, dbi, lmdb, ops>>

\* env.Update of a write.
BeginWrite(p) ==
    /\ Moves(p, "txn", "act")
    /\ writer = None /\ writer' = p
    /\ UNCHANGED <<process, readers, locker, op, handle, failed, dbi, lmdb, ops>>

\* ... which fails to begin.
WriteFails(p) ==
    /\ Returns(p, "txn")
    /\ writer = None
    /\ UNCHANGED <<process, locks, dbi, lmdb, ops>>

\* The transaction with the handle, to its end; a read that fails to begin does
\* not differ.
Act(p) ==
    /\ Returns(p, "act")
    /\ writer' = IF op[p].kind = "write" THEN None ELSE writer
    /\ UNCHANGED <<process, readers, locker, dbi, lmdb, ops>>

Step(p) ==
    \/ RLock(p) \/ HasDB(p)
    \/ Lock(p) \/ Enter(p) \/ Table(p)
    \/ BeginOpen(p) \/ OpenFails(p) \/ OpenDBI(p) \/ Store(p) \/ Commit(p) \/ Unlock(p)
    \/ GetError(p) \/ Get(p) \/ GetDies(p)
    \/ BeginWrite(p) \/ WriteFails(p) \/ Act(p)

\* Nothing is left to do.
Finished ==
    /\ process = "dead" \/ \A p \in Procs : pc[p] = "idle" /\ ops[p] = MaxOps
    /\ UNCHANGED vars

Next ==
    \/ \E p \in Procs :
        \/ \E o \in Operation : Begin(p, o)
        \/ Step(p)
    \/ Finished

Spec == Init /\ [][Next]_vars

\* The scheduler of Go runs every goroutine that is not blocked.
FairSpec == Spec /\ \A p \in Procs : WF_vars(Step(p))

-----------------------------------------------------------------------------
(* Properties. *)

\* hasDB never looks into client.dbi while openDB writes to it, and two openDB
\* never write at once: the lookups under client.mtx, unlike the one without,
\* do not race.
TableIsGuarded ==
    \A p, q \in Procs : pc[p] = "store" /\ pc[q] \in {"has", "store", "table"} => p = q

\* A transaction reaches the database that was selected for its operation or
\* none, whatever was opened, failed to open or ran out of slots meanwhile,
\* except when the creation of this very database was not committed: its handle
\* stays in client.dbi and may come to mean another one.
OwnDatabase ==
    \A p \in Procs :
        pc[p] \in {"txn", "act"} /\ handle[p] \in Slots /\ op[p].db \notin spoiled
            => open[handle[p]] = op[p].db

\* Goroutines that find a database missing at the same time and open it one
\* after the other do not take it from each other: a handle that works stays.
HandlesStay ==
    [][\A d \in Dbs :
         dbi[d] \in Slots /\ open[dbi[d]] = d => dbi'[d] = dbi[d]]_vars

\* Goroutine p waits for a lock.
Blocked(p) ==
    \/ pc[p] \in {"rlock", "lock"} /\ locker # None
    \/ pc[p] = "drain" /\ readers # {}
    \/ pc[p] \in {"begin", "txn"} /\ writer # None

\* While operations are under way, one of them can go on: client.mtx, which
\* openDB keeps while it waits for the write transaction of LMDB, and that
\* transaction are not waited for in a circle, and no error leaves one of them
\* taken.
NoCircularWait ==
    process = "up" /\ (\E p \in Procs : pc[p] # "idle")
        => \E p \in Procs : pc[p] # "idle" /\ ~Blocked(p)

\* Every operation ends: client.mtx and the write transaction of LMDB are never
\* waited for in a circle, nor kept after an error.
OperationsEnd ==
    \A p \in Procs : pc[p] # "idle" ~> pc[p] = "idle" \/ process = "dead"

\* "Validation: Thread-safety, TTL, timeout and context cancellation"
\* (TESTS.md:59): concurrent operations do not end the process.
ThreadSafe == process = "up"

=============================================================================
