------------------------------ MODULE Session -------------------------------
(***************************************************************************)
(* Connections, handlers and transactions: internal/app/server.go and the  *)
(* dispatching half of internal/service.                                   *)
(*                                                                         *)
(* The redcon library (not in the repository) calls OnAccept from its      *)
(* accept loop, and OnHandler and OnClosed from the goroutine of the       *)
(* connection, one after the other; OnClosed with its own mutex held.      *)
(* server.mutex guards the map of handlers only: a handler, once looked    *)
(* up, is used without a lock, while Server.Close clears it, field after   *)
(* field.  So a request is a lookup, a dispatch, and for EXEC one more     *)
(* step per queued command; and Close is a step for each of its writes     *)
(* and one for its call of redcon, with server.mutex held throughout.      *)
(*                                                                         *)
(* A dispatch reads the flag, and then the queue or the context, at        *)
(* different moments.  Between the flag and the append to the queue there  *)
(* is a step.  Elsewhere the later read is what counts: Clear writes in    *)
(* the order in which a dispatch reads, and leaves nothing to execute and  *)
(* a flag that nobody else turns on again.                                 *)
(*                                                                         *)
(* What a storage command does to the data is not modelled here, only that *)
(* it runs, for which connection and in which database.                    *)
(***************************************************************************)
EXTENDS Integers, Sequences

CONSTANTS
    Conns,        \* connections; each is accepted at most once, so that a
                  \* connection stands for its generated ID too
    Handlers,     \* identities of Handler objects, reused when unreferenced
    None,         \* no handler, no context, no connection
    SelArgs,      \* integers that SEL is called with (0 if unparsable)
    DbMod,        \* 256 in the code: SEL truncates its argument to uint8
    Tries,        \* 10 in the code: attempts to find the handler
    MaxRequests   \* bound: requests that each connection sends

Dbs == 0..(DbMod - 1)

ASSUME DbAssumption == DbMod \in Nat \ {0} /\ SelArgs \subseteq Int

ASSUME BoundAssumption == Tries \in Nat \ {0} /\ MaxRequests \in [Conns -> Nat]

ASSUME NoneAssumption == None \notin Handlers /\ None \notin Conns

VARIABLES
    process,      \* "serving", "closed" by Server.Close, or "dead" of a panic
    closer,       \* the call of Server.Close, which has server.mutex
    conn,         \* the life of each connection in redcon
    handlers,     \* server.handlers, as a total function
    pool,         \* handlers inside the sync.Pool
    hnd,          \* the fields of the Handler objects
    task,         \* what the goroutine of each connection is doing
    sent,         \* requests sent so far, the last being the one in hand
    ran,          \* history: the requests whose command was run, in order
    replies,      \* history: replies written to each connection
    selected,     \* history: database of the last SEL run, 0 before
    discarded     \* history: requests that a DISCARD dropped

vars == <<process, closer, conn, handlers, pool, hnd, task, sent, ran, replies, selected, discarded>>

history == <<sent, ran, replies, selected, discarded>>

-----------------------------------------------------------------------------
(* Requests.  GET stands for every storage command of two or more words,   *)
(* FLUSHALL for the commands of one word, BAD for whatever Apply rejects   *)
(* (an unknown name, a wrong number of words), DO for the DO command.      *)

Request == [name : {"MULTI", "DISCARD", "EXEC", "GET", "FLUSHALL", "BAD", "DO"}]
           \cup [name : {"SEL"}, arg : SelArgs]

\* A queued request remembers who sent it, and as which of its requests.
Entry == [conn : Conns, n : Nat, req : Request]

\* A handler made by NewHandler has a context of its own, with no connection.
Context == [conn : Conns \cup {None}, db : Dbs]

Handler == [ctx : Context \cup {None}, mult : BOOLEAN, queue : Seq(Entry)]

Resting == [at |-> "rest"]

Task == {Resting}
        \cup [at : {"lookup"}, req : Request, tries : 0..(Tries - 1)]
        \cup [at : {"apply"}, req : Request, h : Handlers]
        \cup [at : {"append"}, req : Request, h : Handlers, queue : Seq(Entry)]
        \cup [at : {"exec"}, h : Handlers, todo : Seq(Entry), results : Nat]

\* What Close does next: write a field of h, go on to a handler in todo or to
\* the map, or call redcon; and the handlers it has not come to.
Closer == [at : {"idle", "flag", "queue", "context", "redcon"},
           h : Handlers \cup {None}, todo : SUBSET Handlers]

TypeOK ==
    /\ process \in {"serving", "closed", "dead"}
    /\ closer \in Closer
    /\ conn \in [Conns -> {"new", "accepting", "open", "closing", "gone"}]
    /\ handlers \in [Conns -> Handlers \cup {None}]
    /\ pool \subseteq Handlers
    /\ hnd \in [Handlers -> Handler]
    /\ task \in [Conns -> Task]
    /\ sent \in [Conns -> Nat]
    /\ ran \in [Conns -> Seq(Nat)]
    /\ replies \in [Conns -> Nat]
    /\ selected \in [Conns -> Dbs]
    /\ discarded \in [Conns -> SUBSET Nat]

\* NewHandler.
New == [ctx |-> [conn |-> None, db |-> 0], mult |-> FALSE, queue |-> <<>>]

\* Handler.Clear, called by Free: nobody else has the handler then.
Cleared == [ctx |-> None, mult |-> FALSE, queue |-> <<>>]

\* No call of Close is under way, and server.mutex is free.
Quiet == [at |-> "idle", h |-> None, todo |-> {}]

Init ==
    /\ process = "serving"
    /\ closer = Quiet
    /\ conn = [c \in Conns |-> "new"]
    /\ handlers = [c \in Conns |-> None]
    /\ pool = {}
    /\ hnd = [h \in Handlers |-> New]
    /\ task = [c \in Conns |-> Resting]
    /\ sent = [c \in Conns |-> 0]
    /\ ran = [c \in Conns |-> <<>>]
    /\ replies = [c \in Conns |-> 0]
    /\ selected = [c \in Conns |-> 0]
    /\ discarded = [c \in Conns |-> {}]

-----------------------------------------------------------------------------
(* The life of a connection. *)

\* The goroutine of c has h in a local variable.
Holds(c, h) == task[c].at \in {"apply", "append", "exec"} /\ task[c].h = h

Unreferenced(h) == h \notin pool /\ \A c \in Conns : handlers[c] # h /\ ~Holds(c, h)

\* The goroutine of a connection has redcon's mutex, while it calls OnClosed.
RedconLocked == \E c \in Conns : conn[c] = "closing"

\* The accept loop of redcon takes one connection at a time, and lists it under
\* its mutex.
Arrive(c) ==
    /\ process = "serving" /\ ~RedconLocked
    /\ conn[c] = "new"
    /\ \A o \in Conns : conn[o] # "accepting"
    /\ conn' = [conn EXCEPT ![c] = "accepting"]
    /\ UNCHANGED <<process, closer, handlers, pool, hnd, task, history>>

\* Variant of Get that does not set the context of a pooled handler.
Get_KeepsContext(ctx, h) ==
    \/ h \in pool /\ pool' = pool \ {h} /\ UNCHANGED hnd
    \/ /\ Unreferenced(h)
       /\ pool' = pool
       /\ hnd' = [hnd EXCEPT ![h] = [New EXCEPT !.ctx = ctx]]

\* Pool.Get: a handler from the sync.Pool, which may keep it for another
\* processor, or a new one; either gets the context.
Get(ctx, h) ==
    \/ /\ h \in pool
       /\ pool' = pool \ {h}
       /\ hnd' = [hnd EXCEPT ![h].ctx = ctx]
    \/ /\ Unreferenced(h)
       /\ pool' = pool
       /\ hnd' = [hnd EXCEPT ![h] = [New EXCEPT !.ctx = ctx]]

\* OnAccept.  A connection that was arriving while Server.Close held the mutex
\* is still accepted.
Accept(c) ==
    /\ process # "dead" /\ closer = Quiet
    /\ conn[c] = "accepting"
    /\ \E h \in Handlers :
        /\ Get([conn |-> c, db |-> 0], h)
        /\ handlers' = [handlers EXCEPT ![c] = h]
    /\ conn' = [conn EXCEPT ![c] = "open"]
    /\ UNCHANGED <<process, closer, task, history>>

\* Variant of Free that forgets to empty the queue.
Free_KeepsQueue(h) ==
    /\ hnd' = [hnd EXCEPT ![h].ctx = None, ![h].mult = FALSE]
    /\ pool' = pool \cup {h}

\* Pool.Free.
Free(h) ==
    /\ hnd' = [hnd EXCEPT ![h] = Cleared]
    /\ pool' = pool \cup {h}

\* The connection is over, which its goroutine finds when it has no request in
\* hand: it takes redcon's mutex and calls OnClosed.
Leave(c) ==
    /\ process # "dead" /\ ~RedconLocked
    /\ conn[c] = "open" /\ task[c] = Resting
    /\ conn' = [conn EXCEPT ![c] = "closing"]
    /\ UNCHANGED <<process, closer, handlers, pool, hnd, task, history>>

\* OnClosed, once it has server.mutex.
Closed(c) ==
    /\ process # "dead" /\ closer = Quiet
    /\ conn[c] = "closing"
    /\ conn' = [conn EXCEPT ![c] = "gone"]
    /\ IF handlers[c] = None
       THEN UNCHANGED <<handlers, pool, hnd>>
       ELSE handlers' = [handlers EXCEPT ![c] = None] /\ Free(handlers[c])
    /\ UNCHANGED <<process, closer, task, history>>

-----------------------------------------------------------------------------
(* Server.Close: it clears the handlers of all connections, whatever they   *)
(* are doing, forgets them without returning them to the pool, and closes   *)
(* redcon.                                                                  *)

Mapped == {handlers[c] : c \in Conns} \ {None}

Close ==
    /\ process # "dead" /\ closer = Quiet
    /\ closer' = [at |-> "flag", h |-> None, todo |-> Mapped]
    /\ UNCHANGED <<process, conn, handlers, pool, hnd, task, history>>

\* The three writes of Handler.Clear, for a handler that the range has next.
ClearFlag(h) ==
    /\ process # "dead" /\ closer.at = "flag" /\ h \in closer.todo
    /\ closer' = [at |-> "queue", h |-> h, todo |-> closer.todo \ {h}]
    /\ hnd' = [hnd EXCEPT ![h].mult = FALSE]
    /\ UNCHANGED <<process, conn, handlers, pool, task, history>>

ClearQueue ==
    /\ process # "dead" /\ closer.at = "queue"
    /\ closer' = [closer EXCEPT !.at = "context"]
    /\ hnd' = [hnd EXCEPT ![closer.h].queue = <<>>]
    /\ UNCHANGED <<process, conn, handlers, pool, task, history>>

ClearContext ==
    /\ process # "dead" /\ closer.at = "context"
    /\ closer' = [closer EXCEPT !.at = "flag", !.h = None]
    /\ hnd' = [hnd EXCEPT ![closer.h].ctx = None]
    /\ UNCHANGED <<process, conn, handlers, pool, task, history>>

\* Variant of Forget that returns the handlers to the pool, as OnClosed does.
Forget_Frees ==
    /\ process # "dead" /\ closer.at = "flag" /\ closer.todo = {}
    /\ closer' = [closer EXCEPT !.at = "redcon"]
    /\ handlers' = [c \in Conns |-> None]
    /\ pool' = pool \cup Mapped
    /\ UNCHANGED <<process, conn, hnd, task, history>>

\* A new map takes the place of the old one.
Forget ==
    /\ process # "dead" /\ closer.at = "flag" /\ closer.todo = {}
    /\ closer' = [closer EXCEPT !.at = "redcon"]
    /\ handlers' = [c \in Conns |-> None]
    /\ UNCHANGED <<process, conn, pool, hnd, task, history>>

\* The first Close closes redcon, which takes redcon's mutex; then server.mutex
\* is given back.
CloseRedcon ==
    /\ process # "dead" /\ closer.at = "redcon"
    /\ process = "serving" => ~RedconLocked
    /\ process' = "closed"
    /\ closer' = Quiet
    /\ UNCHANGED <<conn, handlers, pool, hnd, task, history>>

Closing ==
    \/ \E h \in Handlers : ClearFlag(h)
    \/ ClearQueue \/ ClearContext \/ Forget \/ CloseRedcon

-----------------------------------------------------------------------------
(* One request. *)

\* A request that has been answered with n replies.
Answer(c, n) ==
    /\ task' = [task EXCEPT ![c] = Resting]
    /\ replies' = [replies EXCEPT ![c] = @ + n]

\* redcon reads a request and calls OnHandler.
Receive(c, req) ==
    /\ process # "dead"
    /\ conn[c] = "open" /\ task[c] = Resting
    /\ sent[c] < MaxRequests[c]
    /\ sent' = [sent EXCEPT ![c] = @ + 1]
    /\ task' = [task EXCEPT ![c] = [at |-> "lookup", req |-> req, tries |-> 0]]
    /\ UNCHANGED <<process, closer, conn, handlers, pool, hnd, ran, replies, selected, discarded>>

\* Variant of Lookup without the bound on the attempts.
Lookup_Forever(c) ==
    /\ process # "dead" /\ closer = Quiet
    /\ task[c].at = "lookup"
    /\ \/ /\ handlers[c] # None
          /\ task' = [task EXCEPT ![c] =
                        [at |-> "apply", req |-> task[c].req, h |-> handlers[c]]]
       \/ handlers[c] = None /\ UNCHANGED task
    /\ UNCHANGED <<process, closer, conn, handlers, pool, hnd, history>>

\* One turn of the loop of OnHandler around getHandler, which reads the map
\* under server.mutex.
Lookup(c) ==
    /\ process # "dead" /\ closer = Quiet
    /\ task[c].at = "lookup"
    /\ \/ /\ handlers[c] # None
          /\ task' = [task EXCEPT ![c] =
                        [at |-> "apply", req |-> task[c].req, h |-> handlers[c]]]
          /\ UNCHANGED replies
       \/ /\ handlers[c] = None /\ task[c].tries < Tries - 1
          /\ task' = [task EXCEPT ![c].tries = @ + 1]
          /\ UNCHANGED replies
       \/ /\ handlers[c] = None /\ task[c].tries = Tries - 1
          /\ Answer(c, 1)
    /\ UNCHANGED <<process, closer, conn, handlers, pool, hnd, sent, ran, selected, discarded>>

\* The command uses a nil context; or it is DO, whose function calls itself
\* until the stack overflows, since the command it looks up is DO again.
Fatal(h, req) == hnd[h].ctx = None \/ req.name = "DO"

\* The command finds a context.  SEL reads it and later writes a new one: it may
\* have read it before Close cleared it, and then brings it back.
Runs(h, req) == req.name # "DO" /\ (hnd[h].ctx # None \/ req.name = "SEL")

\* The context that SEL of c makes of ctx.
Selecting(c, ctx, db) == IF ctx = None THEN [conn |-> c, db |-> db] ELSE [ctx EXCEPT !.db = db]

\* Variant of Run in which SEL does not truncate its argument.
Run_WideDb(c, h, n, req) ==
    /\ Runs(h, req)
    /\ ran' = [ran EXCEPT ![c] = Append(@, n)]
    /\ IF req.name = "SEL"
       THEN /\ hnd' = [hnd EXCEPT ![h].ctx = Selecting(c, @, req.arg)]
            /\ selected' = [selected EXCEPT ![c] = req.arg % DbMod]
       ELSE UNCHANGED <<hnd, selected>>
    /\ UNCHANGED process

\* The command of the n-th request of c runs on handler h.
Run(c, h, n, req) ==
    /\ Runs(h, req)
    /\ ran' = [ran EXCEPT ![c] = Append(@, n)]
    /\ IF req.name = "SEL"
       THEN /\ hnd' = [hnd EXCEPT ![h].ctx = Selecting(c, @, req.arg % DbMod)]
            /\ selected' = [selected EXCEPT ![c] = req.arg % DbMod]
       ELSE UNCHANGED <<hnd, selected>>
    /\ UNCHANGED process

Die(h, req) ==
    /\ Fatal(h, req)
    /\ process' = "dead"
    /\ UNCHANGED <<closer, conn, handlers, pool, hnd, task, history>>

Applying(c, names) ==
    /\ process # "dead"
    /\ task[c].at = "apply"
    /\ task[c].req.name \in names

ApplyMulti(c) ==
    /\ Applying(c, {"MULTI"})
    /\ hnd' = [hnd EXCEPT ![task[c].h].mult = TRUE]
    /\ Answer(c, 1)
    /\ UNCHANGED <<process, closer, conn, handlers, pool, sent, ran, selected, discarded>>

\* Variant of ApplyDiscard that resets the flag only.
ApplyDiscard_KeepsQueue(c) ==
    /\ Applying(c, {"DISCARD"})
    /\ LET h == task[c].h IN
        /\ hnd' = [hnd EXCEPT ![h].mult = FALSE]
        /\ discarded' = [discarded EXCEPT ![c] =
                            @ \cup {hnd[h].queue[i].n : i \in DOMAIN hnd[h].queue}]
    /\ Answer(c, 1)
    /\ UNCHANGED <<process, closer, conn, handlers, pool, sent, ran, selected>>

\* Variant of ApplyDiscard that drops the queue and stays in the transaction.
ApplyDiscard_KeepsFlag(c) ==
    /\ Applying(c, {"DISCARD"})
    /\ LET h == task[c].h IN
        /\ hnd' = [hnd EXCEPT ![h].queue = <<>>]
        /\ discarded' = [discarded EXCEPT ![c] =
                            @ \cup {hnd[h].queue[i].n : i \in DOMAIN hnd[h].queue}]
    /\ Answer(c, 1)
    /\ UNCHANGED <<process, closer, conn, handlers, pool, sent, ran, selected>>

ApplyDiscard(c) ==
    /\ Applying(c, {"DISCARD"})
    /\ LET h == task[c].h IN
        /\ hnd' = [hnd EXCEPT ![h] = [ctx |-> @.ctx, mult |-> FALSE, queue |-> <<>>]]
        /\ discarded' = [discarded EXCEPT ![c] =
                            @ \cup {hnd[h].queue[i].n : i \in DOMAIN hnd[h].queue}]
    /\ Answer(c, 1)
    /\ UNCHANGED <<process, closer, conn, handlers, pool, sent, ran, selected>>

\* EXEC walks over the queue as it is now; it resets neither the queue nor the
\* flag.
ApplyExec(c) ==
    /\ Applying(c, {"EXEC"})
    /\ LET h == task[c].h IN
        task' = [task EXCEPT ![c] =
                   [at |-> "exec", h |-> h, results |-> 0,
                    todo |-> IF hnd[h].mult THEN hnd[h].queue ELSE <<>>]]
    /\ UNCHANGED <<process, closer, conn, handlers, pool, hnd, history>>

ApplyBad(c) ==
    /\ Applying(c, {"BAD"})
    /\ Answer(c, 1)
    /\ UNCHANGED <<process, closer, conn, handlers, pool, hnd, sent, ran, selected, discarded>>

Commands == {"GET", "FLUSHALL", "SEL", "DO"}

\* The flag is on, and the command is going to be queued.
ApplyQueue(c) ==
    /\ Applying(c, Commands)
    /\ LET h == task[c].h IN
        /\ hnd[h].mult
        /\ task' = [task EXCEPT ![c] =
                      [at |-> "append", req |-> @.req, h |-> h, queue |-> hnd[h].queue]]
    /\ UNCHANGED <<process, closer, conn, handlers, pool, hnd, history>>

\* It is appended to the queue as it was then, or as Close has left it.
QueueAppend(c) ==
    /\ process # "dead"
    /\ task[c].at = "append"
    /\ LET h == task[c].h IN
        \E q \in {task[c].queue, hnd[h].queue} :
            hnd' = [hnd EXCEPT ![h].queue =
                      Append(q, [conn |-> c, n |-> sent[c], req |-> task[c].req])]
    /\ Answer(c, 1)
    /\ UNCHANGED <<process, closer, conn, handlers, pool, sent, ran, selected, discarded>>

ApplyRun(c) ==
    /\ Applying(c, Commands)
    /\ ~hnd[task[c].h].mult
    /\ \/ /\ Run(c, task[c].h, sent[c], task[c].req)
          /\ Answer(c, 1)
          /\ UNCHANGED <<closer, conn, handlers, pool, sent, discarded>>
       \/ Die(task[c].h, task[c].req)

\* The next queued command, through `do', which answers a command of one word
\* with an error instead of running it.
ExecNext(c) ==
    /\ process # "dead"
    /\ task[c].at = "exec" /\ task[c].todo # <<>>
    /\ LET e == Head(task[c].todo) IN
        \/ /\ IF e.req.name = "FLUSHALL"
              THEN UNCHANGED <<process, hnd, ran, selected>>
              ELSE Run(c, task[c].h, e.n, e.req)
           /\ task' = [task EXCEPT ![c].todo = Tail(@), ![c].results = @ + 1]
           /\ UNCHANGED <<closer, conn, handlers, pool, sent, replies, discarded>>
        \/ e.req.name # "FLUSHALL" /\ Die(task[c].h, e.req)

\* OnHandler writes one reply per result, and no array header.
ExecEnd(c) ==
    /\ process # "dead"
    /\ task[c].at = "exec" /\ task[c].todo = <<>>
    /\ Answer(c, task[c].results)
    /\ UNCHANGED <<process, closer, conn, handlers, pool, hnd, sent, ran, selected, discarded>>

Serve(c) ==
    \/ Lookup(c)
    \/ ApplyMulti(c) \/ ApplyDiscard(c) \/ ApplyExec(c)
    \/ ApplyBad(c) \/ ApplyQueue(c) \/ QueueAppend(c) \/ ApplyRun(c)
    \/ ExecNext(c) \/ ExecEnd(c)

Next ==
    \/ \E c \in Conns :
        \/ Arrive(c) \/ Accept(c) \/ Leave(c) \/ Closed(c)
        \/ \E req \in Request : Receive(c, req)
        \/ Serve(c)
    \/ Close \/ Closing

Spec == Init /\ [][Next]_vars

\* The goroutines of a request, of a connection that is over and of Close are run
\* by the scheduler.  A request that finds server.mutex taken, again and again,
\* gets it in the end: a RWMutex lets the waiting readers in after each writer.
FairSpec ==
    /\ Spec
    /\ WF_vars(Closing)
    /\ \A c \in Conns : SF_vars(Serve(c)) /\ WF_vars(Closed(c))

-----------------------------------------------------------------------------
(* Properties. *)

Uses(c, h) == handlers[c] = h \/ Holds(c, h)

\* A handler serves one connection at a time: no two connections reach the same
\* one, by the map or by a goroutine that looked it up, and the pool gives out
\* none that is still reachable.  Handlers have no lock of their own.
HandlersExclusive ==
    \A h \in Handlers, c1, c2 \in Conns :
        Uses(c1, h) => h \notin pool /\ (Uses(c2, h) => c1 = c2)

\* The handler of c is in the map, and no call of Close has begun to clear it.
Owned(c) == handlers[c] # None /\ (closer = Quiet \/ handlers[c] \in closer.todo)

\* A handler in the map works for its own connection, in the database that this
\* connection selected last, even when the handler comes from the pool; only
\* Close takes its context away, just before it takes it from the map.
SessionContext ==
    \A c \in Conns : handlers[c] # None =>
        \/ hnd[handlers[c]].ctx = [conn |-> c, db |-> selected[c]]
        \/ ~Owned(c) /\ hnd[handlers[c]].ctx = None

\* A transaction holds requests of its own connection, in the order in which
\* they were sent and without repetition; there is none outside MULTI, unless
\* Close has begun to clear the handler.  Nothing of an earlier user of the
\* handler is left in it.
QueueBelongsToSession ==
    \A c \in Conns : handlers[c] # None =>
        LET q == hnd[handlers[c]].queue IN
        /\ Owned(c) /\ ~hnd[handlers[c]].mult => q = <<>>
        /\ \A i \in DOMAIN q :
            /\ q[i].conn = c /\ q[i].n <= sent[c]
            /\ \A j \in DOMAIN q : i < j => q[i].n < q[j].n

\* A request that DISCARD dropped is not run afterwards, by a later EXEC or
\* otherwise.
DiscardedNeverRuns ==
    [][\A c \in Conns : ran'[c] # ran[c] => ran'[c][Len(ran'[c])] \notin discarded[c]]_vars

\* Close waits for redcon's mutex with server.mutex, and OnClosed the other way.
Deadlocked == process = "serving" /\ closer.at = "redcon" /\ RedconLocked

\* Every request comes to an end, also when Close takes its handler away, unless
\* the process dies; or Close and OnClosed wait for each other, and then it is a
\* lookup that never ends.
RequestsEnd ==
    \A c \in Conns :
        task[c] # Resting ~>
            \/ task[c] = Resting \/ process = "dead"
            \/ Deadlocked /\ task[c].at = "lookup"

\* "Graceful shutdown support" (ARCHITECTURE.md:212), "should handle server shutdown
\* with active connections" (utils_test.go:81): a call of Close returns, unless the
\* process dies first.
CloseReturns == closer # Quiet ~> closer = Quiet \/ process = "dead"

\* "Transaction support (MULTI/EXEC pattern)" (ARCHITECTURE.md:79): the command
\* of a request runs at most once.
RunsOnce ==
    \A c \in Conns : \A i, j \in DOMAIN ran[c] : i # j => ran[c][i] # ran[c][j]

\* "Graceful shutdown support" (ARCHITECTURE.md:212): the process does not die of
\* the context that Close takes away from a request in hand; only DO kills it.
GracefulClose ==
    [][process' = "dead" /\ process # "dead" =>
         \E c \in Conns :
            \/ task[c].at = "apply" /\ task[c].req.name = "DO"
            \/ task[c].at = "exec" /\ task[c].todo # <<>>
                 /\ Head(task[c].todo).req.name = "DO"]_vars

=============================================================================
