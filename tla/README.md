# A verification of keyp in TLA+

keyp is a server of the Redis protocol in Go that keeps its data in LMDB. This
directory models it in TLA+, checks the models with TLC and proves the main
results with TLAPS. Paths below are relative to `src/`.

## 1. The system

| Part | Where | State | Operations |
|---|---|---|---|
| Expiry of keys | `internal/storage/{expire,ttl,persist,set,del,flushall}.go`, `setTimeout` in `utils.go`, `internal/service/{set,expire,persist}.go` | `client.ttl` (database, key -> TTL struct), the closures of `time.AfterFunc`, the keys in LMDB | SET with EX or PX, EXPIRE, TTL, PERSIST, DEL, FLUSHALL, the timers |
| Server, handlers, transactions | `internal/app/server.go`, `internal/service/{handler,apply,exec,do,pool,clear,sel}.go` | the map of handlers, the `sync.Pool`, in each handler its context, its MULTI flag and its queue | OnAccept, OnClosed, OnHandler, Close, under `server.mutex` and in part under a mutex of redcon; MULTI, DISCARD, EXEC, SEL, DO |
| Database handles and locks | `internal/storage/sel.go`, `client.go` | `client.dbi`, `client.mtx`, the open databases and the write transaction of LMDB | `sel` at the start of every storage operation |
| Lists | `internal/storage/{lpush,rpush,lpop,rpop,llen,lindex,lset,lrange}.go`, `checkKeyType`, `isListData` | the bytes of a value | the list commands |
| Sets | `internal/storage/{sadd,srem,smembers,sismember}.go` | the bytes of a value, those of a list | the set commands |
| Sorted sets | `internal/storage/{zadd,zrange,zcount}.go` | the bytes of a value, with scores | the sorted set commands |
| Counters | `internal/storage/{incr,incrby,decr,decrby}.go`, `modifyIntegerBy` | the text of an integer | INCR, INCRBY, DECR, DECRBY |
| Replies | `internal/app/server.go`, `internal/service/utils.go` | none | the form of an answer on the wire |

redcon calls OnAccept from its accept loop, and OnHandler and OnClosed from one
goroutine per connection. OnHandler looks its handler up under `server.mutex`,
and then uses it without a lock; redcon calls OnClosed with a mutex of its own held,
which its Close takes too. The handler calls storage operations with its
context, which carries the number of the database. Every storage operation calls
`sel` and runs one LMDB transaction, or changes `client.ttl` under `client.mtx`.
Timers run in goroutines of their own and call `Del`.

What is hard here: timers that fire while their key is overwritten, persisted or
given a new TTL, and that try to delete once only; a clock that one call reads twice
and that is cut to seconds, around a delay in nanoseconds, in 32 bits; handlers that
go from one connection to the next through a pool and that Close clears, field by
field, under a running request; two mutexes that Close and OnClosed take in opposite
orders; a transaction queue that outlives its transaction; databases that several goroutines open at once, and handles that
fail or are not committed; values whose type nothing records, so that every command
may meet the bytes of another type; code that walks over raw bytes in fifteen
files; maps written back in random order; an integer that overflows and a score
that is no number. `PROJECT.json` lists each hazard at its
line, with the properties that would catch it.

## 2. The modules

| Module | Models | Checked by | Proved in |
|---|---|---|---|
| `Expiry` | expiry | `expiry`, `expiry_live`, `expiry_persist`, `expiry_plain` | `ExpiryProofs` |
| `Leases`, `ExpiryLeases` | what expiry promises; how `Expiry` implements it | `expiry_live` | `ExpiryLeasesProofs` |
| `Session` | server, handlers, transactions | `session`, `session_live`, `session_replay`, `session_close`, `session_shutdown` | `SessionProofs` |
| `Dialogues`, `SessionDialogues` | what the server promises to a connection; how `Session` implements it | `session` | `SessionProofs` |
| `Databases` | handles and locks | `databases`, `databases_race` | `DatabasesProofs` |
| `Catalogue`, `DatabasesCatalogue` | what `sel` promises to an operation; how `Databases` implements it | `databases` | `DatabasesProofs` |
| `Encoding`, `Sets` | lists and sets, from the bytes up | `values` | `EncodingProofs` |
| `Ranking`, `SortedSets` | the order of scores; sorted sets, from the bytes up | `values` | `RankingProofs` |
| `Counters` | integers in a text | `values` | `CountersProofs` |
| `Values` | all of these on one key | `values` | `ValuesProofs`, `CountersProofs` (the counter) |

`MCExpiry`, `MCSession`, `MCDatabases` and `MCValues` give the constants their
small values. Operators that end in a name after an underscore (`Get_KeepsContext`)
are wrong variants of the operator before the underscore; no specification uses
them. They show what a property would catch, and `PROJECT.json` says which.

### Expiry

`data` is the set of slots (database, key) in LMDB; values do not matter. `ttl` is
`client.ttl`, with the struct's `Cancel` as the identity of a timer; `timers` are
the closures of `setTimeout`: armed, firing (after the test of `running`, before
the deletion), or done. `pend` holds what a connection has begun: a SET ... EX or PX
between its `Set` and its `Expire`, or a call inside `storage.Expire`. Two history
variables: `volatile`, the slots whose present value was given a TTL, and `stranded`,
those of them whose deletion has failed.

An action is one storage call, because it is one LMDB transaction or one critical
section, with one exception. `storage.Expire` reads the clock for the entry
(`expire.go:28`), and `time.AfterFunc` reads it again for the timer (`utils.go:116`).
`BeginExpire` is the call up to its first reading, with the cancellation of the old
timer, and `Arm` the rest; the clock may go on in between, by up to `MaxLag`, while the
connection is `Inside` with `client.mtx`, so that nobody else is and nobody sees the
entry. In the theorems `MaxLag` is any natural number, and from `MaxTime` on it bounds
nothing. One clock stands for the two that Go has: the wall clock, which the seconds
come from, is assumed to go with the monotonic one, which timers use.

`Write` is `storage.Set`; the commands `SetEX`, `SetPX`, `Expire` are the callers of
these, with the conversion to uint32 and the truncating division of PX. `TimerCheck` and
`TimerDel` are the two halves of the callback. The callback drops the error of `Del`,
so `TimerDel` removes the key or leaves it, and is over in either case. The failure of a
command is a stuttering step: it changes nothing, and its client learns of it. `Modify`
stands for the commands that rewrite a value and leave its entry alone, `Restart` for the
end and the next start of the process. The clock counts milliseconds and the code sees
seconds.

Properties: `TableMatchesTimers` (every entry has its own timer, due in the second
that the entry promises or as much later as `Expire` took between its readings; every
timer that would delete is one that its slot's entry can cancel), `PositiveTTLMeansArmed`,
`TTLTellsTimeLeft` (never a second too much, and too little by less than a second and
that time), `VolatileIsVisible` (TTL does not call a volatile key one without a TTL while a
second, and that time, is left), `VolatileHasTimer` (a volatile value is without a timer for one
reason only, that its timer tried and failed, and then TTL is 0), and the liveness
property `VolatileExpires`, with the same exception. So an EXPIRE of one second may read
as no TTL at all as soon as it returns, if a second begins inside it: the properties
allow that, as the code does. Two statements of the tests fail: `PersistedKeySurvives`
and `SetClearsTTL`.

### Leases

`Leases` says what expiry promises without a table, timers or flags. A slot may have
a lease, until a time. EXPIRE and the second half of SET grant one (`Grant`), and
release the one before; PERSIST takes it back (`Release`); when it is due, and not
before, it ends and a strike leaves for the slot (`Begin`); the strike lands, and the
slot is emptied (`Land`), or misses, and is not repeated (`Miss`). A lease ends in no
other way, short of the end of the process, and no key goes in any other way but by a
command. The promise is a modest one where the code is: a lease belongs to the slot and
not to the value, so that it survives DEL and SET, nobody can call a strike back once
it has left, and there is one strike for a lease.

`ExpiryLeases` is the refinement mapping. The lease of a slot is the deadline of the
timer of its entry while that timer waits and is not cancelled; the strikes are the
callbacks that have read their flag. Hidden are entries whose timers have fired, timers
that were cancelled and still fire, and a SET or an Expire that is half way. Both modules are
a specification, not a translation of code, and "map" does not name them. The
promise is of safety only: EXPIRE of a waiting slot may replace its lease for ever.

### Session

A request is a lookup (up to `Tries` turns of the loop in OnHandler), a dispatch
(one `Apply...` action per branch of `Handler.Apply`) and, for EXEC, one
`ExecNext` per queued command and an `ExecEnd` that writes the replies. The
commands themselves are reduced to the fact that they run (`ran`), except SEL,
which changes the context, and DO, which calls itself until the process dies. GET
stands for the storage commands of two or more words, FLUSHALL for those of one,
which `do` refuses inside EXEC, BAD for what Apply rejects.

`handlers` is `server.handlers`, `pool` the `sync.Pool`, which may give a new
handler although it has one, `hnd` the fields of the handlers. A connection stands
for its ID, which is the wall clock in nanoseconds: redcon accepts connections one
after the other, and a clock that stands still is not modelled.

`Close` may begin at any moment, also between `Arrive` and `Accept` of a connection and
between the steps of a request. It holds `server.mutex` (`closer`) from there to its end,
and is a step for each thing it does: the three writes of `Clear` for each handler, in
the order of `clear.go` (`ClearFlag`, `ClearQueue`, `ClearContext`), handler after handler
in any order, as a Go map is walked over; the new map (`Forget`); and the call of redcon's Close
(`CloseRedcon`), which the first Close only makes. Requests that have their handler
go on beside it; `Lookup`, `Accept` and `Closed` wait for the mutex. redcon holds a
mutex of its own while it calls OnClosed (from `Leave` to `Closed`), and its Close takes it.
So there is a deadlock, which the model has too: `CloseRedcon` waits for `Closed`, and
`Closed` for `CloseRedcon`.

A dispatch reads the flag of its handler, and then its queue or its context. Between the
flag and the append to the queue there is a step (`ApplyQueue`, `QueueAppend`): Close
may empty the queue there, and the append may be to the old one or the new one. The other
dispatches are one step, at the moment of their last read. Clear writes in the order in
which they read, so what counts is whether the context was still there: a flag that was read
as off stays off, because only MULTI of the same connection turns it on; if the context was
nil by then, the process dies (`Die`); EXEC with the flag on and its queue gone runs nothing,
as EXEC with the flag off does; SEL, which reads the context and writes one, may bring it back
after Clear (`Runs`, `Selecting`). What is torn in the memory of one field is not modelled: a
slice or an interface read while it is written may be half of each, which in Go is
undefined. After a handler was cleared no new request finds it, so that at most one
request of a connection runs beside a Close.

Properties: `HandlersExclusive`, `SessionContext`, `QueueBelongsToSession`,
`DiscardedNeverRuns`, and the liveness property `RequestsEnd`, which excepts a lookup behind
that deadlock. Three statements of the documents fail: `RunsOnce`, `GracefulClose` and
`CloseReturns`. A fourth is not checked by a run: EXEC writes a reply for each of its
commands, and none if there are none (`server.go:77`), where Redis writes one array
(`TESTS.md:27` claims full compatibility).

### Dialogues

`Dialogues` says what the server promises without handlers, a pool or a map. Each
connection has a session: a context, a MULTI flag and a queue. It is fresh when the
connection opens (`Open`) and gone when it ends (`End`). A request is asked (`Ask`) and then
refused, noted in the session, or run (`Refuse`, `Note`, `Do`); EXEC takes the queue
as it is then, and runs it one command after the other (`Exec`, `ExecNext`, `ExecEnd`). A step
of a connection reads and changes its own session only. Close is the exception: from
`Shutdown` to `Finish` it takes the sessions away one after the other (`Take`), and no
connection opens or ends meanwhile. A request in hand without a session is refused,
runs and leaves nothing behind, or ends the process (`Fail`); one that still has its
session goes on in it, also while others have lost theirs.

`SessionDialogues` is the refinement mapping: the session of a connection is the handler
that the map has for it, with all fields, until Close begins to clear that handler
(`Owned`). Hidden are which handler that is, the pool, the turns of the lookup, the
reference to the handler that a goroutine holds after the lookup, the three writes of
Clear and both mutexes. So the code may implement it only if no two connections ever reach one
handler, if a handler from the pool is as good as new, and if a handler that Close clears
under a request, and whatever that request leaves in it, is never seen by another. Both modules are a
specification, not a translation of code, and "map" does not name them. Like the code, they
let EXEC leave its queue where it is, which `session_replay` is about.

### Databases

`sel` is followed line by line: `RLock` and `HasDB` (hasDB), `Lock`, `Enter`,
`BeginOpen`, `OpenDBI`, `Store`, `Commit`, `Unlock` (openDB), then `GetError` or
`Get` (the last line), then the transaction of the operation, `BeginWrite` and
`Act`. A transaction may fail to begin, in openDB (`OpenFails`: nothing is stored,
and the operation is refused, also if another has opened the database meanwhile) and in
the operation (`WriteFails`). `Lock` and `Enter` are the two phases of `RWMutex.Lock`: it shuts new readers
out and then waits for the others. EXPIRE and PERSIST are operations of the kind
"table", which take `client.mtx` only. TTL, which takes it for reading, excludes
less than hasDB does and is left out.

LMDB is external: `open` says which database each slot is open for, a database that
is open keeps its slot, a new one gets the first free slot, and loses it if its
transaction is not committed. The read on line 20 takes no lock: if another
goroutine is at its write to the map, it may see its entry, miss it (the handle 0,
never a handle of a named database), or end the process (`GetDies`). A commit that
fails leaves the handle of a database that does not exist in `client.dbi`;
`spoiled` remembers for which, because there the handle may come to name another
database, and no property can hold. A failure to begin is a step only when the write
transaction is free, so that no goroutine escapes by it from waiting for another: a
failure that comes earlier makes no lock be waited for longer.

Properties: `TableIsGuarded`, `OwnDatabase`, `HandlesStay`, `NoCircularWait` (while
operations are under way, one of them waits for no lock), and the liveness
property `OperationsEnd`. One statement of the documents fails: `ThreadSafe`.

### Catalogue

`Catalogue` says what `sel` promises without locks, slots, handles or a table. A
database is new, then being opened, then ready, and ready for good; an opening may
break, and be tried again, or be lost at its commit. An operation asks (`Ask`), is refused with an
error, or goes on with the set of databases that it may touch (`Reach`): its own; none, if the
database is broken, or if another goroutine was opening one just then; any, if its own
was lost. It never goes on with a database that nobody has tried to open, no failure
shows in operations on another database, and writes come one at a time (`Begin`).

`DatabasesCatalogue` is the refinement mapping: the state of a database is what its entry
in `client.dbi` says, and the set that an operation may touch is the database that its
handle is open for in LMDB. Hidden are both locks, the slots, the handles, and the
steps of `sel`. Both modules are a specification, not a translation of code, and "map"
does not name them.

### Values, from the bytes up

`Encoding`, `Sets`, `SortedSets` and `Counters` have one operator per storage
function, on sequences of bytes: what it answers and the bytes that it leaves, for
any bytes, as nearly every command takes any value for one of its own type. The
sizes of headers, lengths and scores and the number of values of a byte are
constants. Where the code returns early because the data ends, so does the
operator; a slice beyond the end would be an error of TLC, as it would be a panic
in Go, and there is none on any value that is reached.

- `Sets`: a set has the bytes of a list. SADD and SREM read them leniently into a Go
  map and write the map back in its random order, so that they are sets of
  results; SMEMBERS is strict.
- `Ranking`: the comparison that ZADD sorts by. A score is a pattern of bits and
  `Float` says which number it stands for, if one; two patterns may be the same
  number, as the two zeros are. `Sortings` are the orders that `sort.Slice` may leave:
  with up to twelve entries it is an insertion sort, which ends with no entry less
  than the one before it. With NaN that is not yet an order by score.
- `SortedSets`: reading and writing the entries, ZADD, ZRANGE, ZCOUNT.
- `Counters`: int64 that wraps, on the text of an integer. Which text is written for
  which integer (`Text`) and which texts are read (`Parse`) are constants, with texts
  that are read and never written.

`Values` runs all commands on one key. LPUSH and RPUSH are two transactions
(`Check`, `Update`, or `UpdateFails`) and a third when they answer 0 (`ReadAgain`, whose
answer is left out); every other command is one. `content` is a history variable:
what a client expects of the key, kept by the plain definition of each command as
long as the commands are of types that go together (a list, a set, a sorted
set, a counter), and otherwise only that it is something else. Queries change nothing,
so the properties ask all of them in every state. Indices and scores are numbers:
the parsing of their text is left out. An index that does not parse is 0.

Properties: `ListEncoded` (the bytes are the encoding of the items, whichever list
and set commands ran, in whatever order), `ListAnswers`, `SetAnswers` (with what
SREM does with a member named twice, which it counts twice, left open, and the
empty member, which SISMEMBER never finds), `SortedSetRanked`, `SortedSetAnswers` (ZADD
refuses the empty member) and `CounterExact` (sums that leave the range of int64
and come back are exact again).

## 3. The runs

| Run | Bounds | Result |
|---|---|---|
| `expiry` | 2 connections, 2 databases, 1 key, 3 timers, seconds of 2 ms, uint of 2 bits, clock up to 3 ms, SET with EX 2, up to 1 ms between the readings of the clock | holds, 2.8 million states |
| `expiry_live` | the same with 1 database, EX 1, and up to 2 ms | holds, 0.6 million states; also that `Expiry` implements `Leases` |
| `expiry_persist` | 2 connections, 1 database, 2 timers | violated |
| `expiry_plain` | the same | violated |
| `session` | 2 connections with 5 requests and none, 2 handlers, 2 databases, 2 tries | holds, 2.1 million states; also that `Session` implements `Dialogues` |
| `session_live` | 2 connections with 2 requests and 1 | holds, 0.6 million states |
| `session_replay` | as `session` | violated |
| `session_close`, `session_shutdown` | 2 connections with 3 requests and 1 | violated |
| `databases` | 3 goroutines with an operation each, 2 databases, 2 slots | holds, 0.4 million states; also that `Databases` implements `Catalogue` |
| `databases_race` | 2 goroutines | violated |
| `values` | 2 clients, 4 items of 0 to 2 bytes, 3 batches of them, lists, sets and sorted sets of up to 3, other values of up to 6 bytes, indices from -3 to 3, integers of 2 bits, sums from -5 to 5, scores -1, 0, 1 and NaN, numbers of base 4 | holds, 16 thousand states |

Why the bounds are enough. Expiry: with three timers one can fire, one be cancelled and
one be new; -1 makes the largest uint, so the sum with the Unix time wraps; a PX of 1 is
cut to no second; seconds of two ticks make both roundings visible; one tick inside
Expire may be the beginning of a second, two are that with a tick to spare; after two
seconds with a tick lost in Expire more than one second is left, as `VolatileIsVisible`
wants; the second database shows a timer that deletes elsewhere, the second connection
an EXPIRE inside a SET ... EX. Session: five requests are MULTI, a command, DISCARD,
MULTI, EXEC, the shortest history in which something dropped could run; the second
connection takes over the handler of the first from the pool, or comes and goes beside
it, with whatever that leaves in the handler; in `session_live`, where sharing a handler
and waiting for a lock matter, both send requests. One SEL, whose argument does not fit
two databases, shows its truncation.
Databases: three goroutines are two that open the same database and one that opens
another; failures of OpenDBI are possible at any first opening, so that two slots
stand for 101. Values: three items have a first, a middle and a last one, indices reach beyond both
ends; the strings are an empty one, one that is a list, one that breaks off, one
with a negative count and an integer in a text that INCR would not write; one
batch names a member twice and one is of the empty item; sums leave the integers
at both ends and come back; of three scores two may tie and one be no number.
The refinements are checked on the smaller instances and proved for any.

Deadlock is checked in Expiry, Databases and Values. `Finished` in Databases is the
end of all operations within `MaxOps`. In Session it is not checked: the connections
may all have gone, or the process died.

Symmetry is used in `expiry`, `session` and `values` only, which check invariants and
properties of steps, but no liveness. In `session` it is the exchange of the handlers.

### Fairness

`Expiry`: the clock goes on, a command that is half way returns, and a timer that
is due gets its goroutine. No command is assumed to be called. `Session`: the
goroutine of a request that is being served gets to run, and so do those of OnClosed and
of a Close that has begun. For `Serve` the fairness is strong, because a lookup may find
`server.mutex` taken by one Close after another: a `RWMutex` lets waiting readers in
before the next writer. Nothing is assumed of clients, nor that anybody calls Close. `Databases`: a goroutine that can go on
does; nothing is assumed of the order in which locks are given, and since each
goroutine ends within `MaxOps` operations, weak fairness suffices there. All of it
is what the scheduler of Go provides.

### What the violated runs show

- `expiry_persist`: a timer tests `running`, PERSIST cancels it and answers 1, the
  timer deletes the key (`storage/utils.go:117`).
- `expiry_plain`: SET over a value with a TTL leaves its entry, so that TTL answers
  the old time for a value that was stored without one; the timer, which is left too, will
  delete it (`storage/set.go:25`).
- `session_replay`: EXEC, EXEC runs the queue twice (`service/exec.go:6`).
- `session_close`: Close between the lookup and the command leaves it a nil context
  (`app/server.go:148`). Close is for whoever runs the server: `main` only defers it,
  and `log.Fatal` skips the deferred call.
- `session_shutdown`: a connection ends, and redcon calls OnClosed with its mutex held;
  Close, with `server.mutex` held, waits for redcon's, and OnClosed for `server.mutex`
  (`app/server.go:154`). From then on no request finds its handler.
- `databases_race`: two operations on different new databases
  (`storage/sel.go:20`).

## 4. The proofs

For every value of the constants that meets the named assumptions, TLAPS proves
every invariant and every action property that the passing runs check, that
`Expiry` implements `Leases`, `Session` implements `Dialogues` and `Databases`
implements `Catalogue`. The shape is the same everywhere: an inductive `IInv`, a
lemma that Init establishes it, a lemma per kind of step, a lemma that it always
holds, and the theorems from it.

- `ExpiryProofs`: `TableMatchesTimers` alone is not inductive. A timer identity
  might belong to two entries (`DistinctTimers`); two calls might be inside Expire, or one
  might have begun longer ago than `MaxLag` (`OneInside`, `InsideFits`), and the entry would
  not be the second of the first reading; a value with a TTL has an entry (`VolatileHasEntry`);
  and for the answers of TTL one must know that an entry whose timer has fired is due
  (`SpentEntriesAreDue`) and that delays fit the width of the field (`DelaysFit`), so that
  the truncated second determines the deadline. `TTLAccurate` then is arithmetic: two
  truncations are off by less than a second in either direction, and the entry is behind its
  timer by no more than `MaxLag`. Assumptions: `WidthAssumption`, `LagAssumption`,
  `ClockAssumption` (the Unix time fits 32 bits), `ArgsAssumption`, `SentinelAssumption`.
- `ExpiryLeasesProofs`: `ExpiryImplementsLeases`, one lemma per kind of step (`ArmMaps`,
  `PersistMaps`, `FireMaps`, ...), under the invariant of `ExpiryProofs`. It is needed:
  to arm a slot must not change the lease of another (`EntriesOwnTimers`,
  `DistinctTimers`), and a timer that fires with its flag set must be the one of its
  slot's entry, or a lease that was replaced would strike (`RunningTimersAreOwned`).
  Assumption besides those: `LeaseAssumption`, that no entry is not a time.
- `SessionProofs`: `HandlersExclusive` needs that the handler a goroutine holds is
  still the one in the map, or that Close has thrown the map away (`HeldIsMapped`): this
  is why Close must not return handlers to the pool. While a Close is under way, `CloserOK`
  says which handler it is at and which it has not come to. For each connection, `ContextOf` and
  `QueuesOf` say what its handler holds while it is `Owned`, and what at most afterwards;
  `QueueBelongsToSession` needs clean handlers in the pool (`PoolIsClean`), that what is queued
  was sent before the request in hand, and that an append which read its queue before
  Close emptied it brings back nothing else (`AppendOf`); `DiscardedNeverRuns` that no
  discarded request is queued, or waits in an EXEC or an append (`DiscardedIsOver`).
  Assumptions: `DbAssumption`, `BoundAssumption`, `NoneAssumption`.
  `ServerImplementsDialogues` has one lemma per action. Besides that invariant it needs what a
  handler may still be when a request holds it and Close has begun to clear it (`FlagOf`, `OrphanOf`): no step
  that the request makes through it shows in a session. Assumption besides those:
  `SessionAssumption`, that no session is not a session.
- `DatabasesProofs`: `Locking` says who is where with which lock, `Naming` that a
  handle in hand, in the table or about to be stored names its database; the slot
  of an open transaction is the one that its goroutine holds (`FreshIsHeld`), and
  no two slots are of the same database (`OneSlotEach`). `SomebodyGoesOn`, that no
  number of goroutines waits in a circle, needs the converse of `Locking`: a lock that
  is taken has a holder at a place from where it gives it back (`LocksAreHeld`). It is
  the safe half of `OperationsEnd`, for any number of goroutines; `Blocked` names what the
  actions wait for, since ENABLED is out of the prover's reach, and TLC's check for
  deadlock agrees with it. `SelImplementsCatalogue` needs besides that what is open in
  LMDB is in `client.dbi`, that who is past `hasDB` or `openDB` finds an entry
  there unless it has an error, and that while a handle is being stored an error is set exactly
  when it failed to open (`Entries`).
  Assumptions: `SlotAssumption`, `NoneAssumption`, `OpsAssumption`.
- `EncodingProofs`: what lists and sets are as bytes. A number that fits w bytes is read
  back from the w bytes it is put in (`NumberOfPut`); from where item k begins, the walk
  finds item k and goes on to where item k + 1 begins (`WalkOfEncoded`); so for
  each command there is a lemma that it turns the bytes of a list (`Kept(xs)`) into those of the list
  that its plain definition leaves, and answers for it (`LPushKept`, `RPopKept`, `LSetKept`,
  `SAddKept`, ...), and one that on any other bytes it leaves bytes. Assumptions:
  `ByteAssumption`, `SizeAssumption`, `AbsentAssumption` (no value is not a value).
- `RankingProofs`: `Less` is a strict order on all entries, also those whose
  score is no number (`LessIsStrictOrder`), total on those with numbers
  (`LessIsTotal`), and a sequence of these where no entry is less than the one before
  it is in order from end to end (`SettledIsRanked`, by a pair of least distance that
  is not): this is why the insertion sort is right without NaN, and what fails
  with one. Then the bytes of a sorted set: whatever order the sort leaves, the
  scores read from what ZADD wrote are those that it wrote (`ReadBack`), and ZADD,
  ZRANGE and ZCOUNT do what the scores say. Assumptions besides those of `EncodingProofs`:
  `FloatAssumption`, `ScoreAssumption` (every pattern of bits is a score).
- `ValuesProofs`: the invariants of `Values` over all commands, from those lemmas. `ListEncoded`
  alone is not inductive: a command reads the items back only if their number fits the header,
  and SADD and SREM leave a set only if no item is there twice (`ItemsKept`); and for sorted sets
  the invariant says that the bytes are those of the scores in
  some order that the sort may leave (`ScoresKept`), which also holds with NaN, where
  `SortedSetRanked` promises nothing. `TypeOK` is part of it, since a command may
  meet the bytes of any other type. Assumptions besides those: `ItemAssumption`,
  `IndexAssumption`, `CapacityAssumption` (what LMDB has room for can be counted in the header
  and in a length).
- `CountersProofs`: `CounterCorrect`, from the invariant that the text of a counter is
  that of the wrapped sum and that the sum may be wrapped early or late
  (`Wrapped(Wrapped(a) + b) = Wrapped(a + b)`). Assumption: `TextAssumption`, besides
  those of `ValuesProofs`.

`Number`, `Start`, `Power` and the flattening of a sequence are recursive functions; facts about
them for every length are proved by a least counterexample (`InductiveSet`),
with the library's theorems on inductive definitions, because its induction
theorems take an operator as a parameter.

Model-checked only: the liveness properties (`VolatileExpires`, `RequestsEnd`,
`OperationsEnd`), as the prover has no rule for fairness and ENABLED that it could
use here. The statements of the violated runs are refuted by TLC and have no proof.

## 5. What is not modelled

- Values in Expiry, and the effect of commands in Session. In `Session`, commands of
  other connections come between those of an EXEC; only a composition would show
  what they do to its data.
- TTL and EXISTS of several keys, which are several storage calls: they read only, and
  no document says what their answer means when something happens in between.
- A push, SADD or ZADD whose read of the value fails for another reason than that there
  is none: the code tells no error from another (`lpush.go:37`, `sadd.go:31`,
  `zadd.go:38`) and writes the new members over the value as if there were none, if the
  write then succeeds. `Values` has reads that find a value or none, and no other.
- The bytes of replies: OnHandler writes a value that begins with an asterisk raw,
  and an empty one as null. `Session` counts replies, `Values` says what they hold.
- Scores and indices as text, and sorted sets of more than twelve members in the
  presence of NaN, where `sort.Slice` is no insertion sort any more.
- Loss of transactions on a crash of the machine (LMDB runs with NoSync): it is a
  property of LMDB and the file system. `Restart` keeps the data.
- Sockets and parsing, which are redcon's; `main`, which wires the parts.

## 6. Plan

Done: `Expiry` with its abstract specification `Leases`, `Session` with `Dialogues`,
`Databases` with `Catalogue`, and the values of one key, with the proofs of section 4. What
is left, in order of worth:

1. Statements of the tests that the models refute and no run repeats: a push that
   finds no value, and writes over a string that was stored since its check
   (`redis_integration_test.go:569`); TTL of a slot that is empty (`unit_test.go:308`).
2. The composition of Session with a store: what EXEC may interleave with.
3. Proofs: an abstract specification of `Values`, a key that holds a list, a set, a
   sorted set, a counter or a string and no bytes, and its refinement.
4. TTL in two steps, once it is stated what its answer should mean.
5. The form of replies, with the array of EXEC and values that begin with an
   asterisk.
