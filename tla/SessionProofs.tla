---------------------------- MODULE SessionProofs ---------------------------
(* Proofs about Session, for every value of its constants. *)
EXTENDS SessionDialogues, TLAPS

-----------------------------------------------------------------------------
(* The inductive invariant. *)

InHand(c) == task[c].at \in {"lookup", "apply", "append"}

\* A connection not accepted yet has no handler, no request and no database.
YoungIsEmpty(c) ==
    conn[c] \in {"new", "accepting"} =>
        handlers[c] = None /\ task[c] = Resting /\ selected[c] = 0

LeavingRests(c) == conn[c] = "closing" => task[c] = Resting

\* The handler that a goroutine looked up stays its connection's, unless Close
\* has emptied the map.
HeldIsMapped(c) == \A h \in Handlers : Holds(c, h) => handlers[c] \in {h, None}

ContextOf(c) ==
    handlers[c] # None =>
        \/ hnd[handlers[c]].ctx = [conn |-> c, db |-> selected[c]]
        \/ ~Owned(c) /\ hnd[handlers[c]].ctx = None

\* Of the requests of c, n is past: sent, and not the one still to be dispatched.
Past(c, n) == n <= sent[c] /\ (InHand(c) => n < sent[c])

OwnRequests(c, q) ==
    \A i \in DOMAIN q :
        /\ q[i].conn = c /\ Past(c, q[i].n) /\ q[i].n \notin discarded[c]
        /\ \A j \in DOMAIN q : i < j => q[i].n < q[j].n

\* The same, when no request is still to be dispatched and D are discarded.
Queued(c, q, D) ==
    \A i \in DOMAIN q :
        /\ q[i].conn = c /\ q[i].n <= sent[c] /\ q[i].n \notin D
        /\ \A j \in DOMAIN q : i < j => q[i].n < q[j].n

QueuesOf(c) == \A h \in Handlers : Uses(c, h) => OwnRequests(c, hnd[h].queue)

FlagOf(c) == Owned(c) /\ ~hnd[handlers[c]].mult => hnd[handlers[c]].queue = <<>>

\* The queue that an append starts from is the handler's, until Close clears it.
AppendOf(c) ==
    task[c].at = "append" =>
        /\ task[c].req.name \in Commands /\ OwnRequests(c, task[c].queue)
        /\ Owned(c) => hnd[task[c].h].mult /\ hnd[task[c].h].queue = task[c].queue

\* A dispatch under Close finds no transaction.
OrphanOf(c) == task[c].at = "apply" /\ ~Owned(c) => ~hnd[task[c].h].mult

DiscardedIsOver(c) ==
    /\ \A n \in discarded[c] : Past(c, n)
    /\ task[c].at = "exec" =>
         \A i \in DOMAIN task[c].todo : task[c].todo[i].n \notin discarded[c]

Sound(c) ==
    /\ YoungIsEmpty(c) /\ LeavingRests(c) /\ HeldIsMapped(c)
    /\ ContextOf(c) /\ QueuesOf(c) /\ FlagOf(c)
    /\ AppendOf(c) /\ OrphanOf(c) /\ DiscardedIsOver(c)

PoolIsClean ==
    \A h \in pool : ~hnd[h].mult /\ hnd[h].queue = <<>>

\* What Close has still to clear is in the map, and what it is clearing it has
\* begun to clear.
CloserOK ==
    /\ closer.at = "idle" => closer = Quiet
    /\ closer.at \in {"queue", "context"} => closer.h \in Handlers \ closer.todo
    /\ closer.at = "redcon" => \A c \in Conns : handlers[c] = None
    /\ \A h \in closer.todo : \E c \in Conns : handlers[c] = h

IInv ==
    /\ TypeOK
    /\ HandlersExclusive
    /\ CloserOK
    /\ PoolIsClean
    /\ \A c \in Conns : Sound(c)

\* What is said of a connection depends on what is its own.
LEMMA Frame ==
    ASSUME TypeOK, NEW c \in Conns, Sound(c),
           conn'[c] = conn[c], handlers'[c] = handlers[c], task'[c] = task[c],
           sent'[c] = sent[c], selected'[c] = selected[c], discarded'[c] = discarded[c],
           Owned(c)' <=> Owned(c),
           \A h \in Handlers : Uses(c, h) => hnd'[h] = hnd[h]
    PROVE  Sound(c)'
<1>1. \A h \in Handlers : (Holds(c, h)' <=> Holds(c, h)) /\ (Uses(c, h)' <=> Uses(c, h))
    BY DEF Holds, Uses
<1>2. \A n : Past(c, n)' <=> Past(c, n)
    BY DEF Past, InHand
<1>3. \A q : OwnRequests(c, q)' <=> OwnRequests(c, q)
    BY <1>2 DEF OwnRequests
<1>4. handlers[c] # None => hnd'[handlers[c]] = hnd[handlers[c]]
    BY DEF TypeOK, Uses
<1>5. task[c].at \in {"apply", "append"} => hnd'[task[c].h] = hnd[task[c].h]
    <2>1. task[c] \in Task
        BY DEF TypeOK
    <2>2. task[c].at \in {"apply", "append"} => task[c].h \in Handlers
        BY <2>1 DEF Task, Resting
    <2> QED
        BY <2>2 DEF Uses, Holds
<1>6. YoungIsEmpty(c)' /\ LeavingRests(c)' /\ HeldIsMapped(c)'
    BY <1>1 DEF Sound, YoungIsEmpty, LeavingRests, HeldIsMapped
<1>7. ContextOf(c)' /\ FlagOf(c)'
    BY <1>4 DEF Sound, ContextOf, FlagOf, Owned
<1>8. QueuesOf(c)'
    BY <1>1, <1>3 DEF Sound, QueuesOf
<1>9. AppendOf(c)' /\ OrphanOf(c)'
    BY <1>3, <1>5 DEF Sound, AppendOf, OrphanOf
<1>10. DiscardedIsOver(c)'
    BY <1>2 DEF Sound, DiscardedIsOver
<1> QED
    BY <1>6, <1>7, <1>8, <1>9, <1>10 DEF Sound

-----------------------------------------------------------------------------
(* Steps of a connection that is serving a request. *)

LEMMA RestingTask == Resting \in Task /\ Resting.at = "rest"
BY DEF Task, Resting

LEMMA HeldTask ==
    ASSUME TypeOK, NEW c \in Conns, task[c].at \in {"apply", "append", "exec"}
    PROVE  task[c].h \in Handlers /\ Holds(c, task[c].h) /\ task[c] # Resting
<1>1. task[c] \in Task /\ task[c] # Resting
    BY DEF TypeOK, Resting
<1>2. task[c].h \in Handlers
    BY <1>1 DEF Task, Resting
<1> QED
    BY <1>1, <1>2 DEF Holds

\* The step of c touches its own handlers and histories only, and keeps what is
\* said of c: then it keeps IInv.
LEMMA ServeStep ==
    ASSUME IInv, NEW c \in Conns,
           NEW x \in Task, task' = [task EXCEPT ![c] = x],
           \A h \in Handlers : x.at \in {"apply", "append", "exec"} /\ x.h = h => Uses(c, h),
           UNCHANGED <<closer, conn, handlers, pool, sent>>,
           process' \in {"serving", "closed", "dead"},
           ran' \in [Conns -> Seq(Nat)], replies' \in [Conns -> Nat],
           hnd' \in [Handlers -> Handler],
           \A h \in Handlers : ~Uses(c, h) => hnd'[h] = hnd[h],
           selected' \in [Conns -> Dbs],
           discarded' \in [Conns -> SUBSET Nat],
           \A o \in Conns \ {c} :
              selected'[o] = selected[o] /\ discarded'[o] = discarded[o],
           Sound(c)'
    PROVE  IInv'
<1>1. TypeOK /\ task \in [Conns -> Task] /\ pool \subseteq Handlers
    BY DEF IInv, TypeOK
<1>2. task'[c] = x /\ \A o \in Conns : o # c => task'[o] = task[o]
    BY <1>1
<1>3. TypeOK'
    BY <1>1 DEF TypeOK
<1>4. \A o \in Conns, h \in Handlers : Uses(o, h)' => Uses(o, h)
    BY <1>2 DEF Uses, Holds
<1>5. \A h \in Handlers, o \in Conns : o # c /\ Uses(o, h) => ~Uses(c, h) /\ hnd'[h] = hnd[h]
    BY DEF IInv, HandlersExclusive
<1>6. HandlersExclusive'
    BY <1>4 DEF IInv, HandlersExclusive
<1>7. CloserOK'
    BY DEF IInv, CloserOK, Quiet
<1>8. PoolIsClean'
    <2> SUFFICES ASSUME NEW h \in pool
                 PROVE  ~hnd'[h].mult /\ hnd'[h].queue = <<>>
        BY DEF PoolIsClean
    <2>1. h \in Handlers /\ ~Uses(c, h)
        BY <1>1 DEF IInv, HandlersExclusive
    <2> QED
        BY <2>1 DEF IInv, PoolIsClean
<1>9. \A o \in Conns : Sound(o)'
    <2> SUFFICES ASSUME NEW o \in Conns, o # c
                 PROVE  Sound(o)'
        OBVIOUS
    <2>1. Owned(o)' <=> Owned(o)
        BY DEF Owned, Quiet
    <2>2. Sound(o)
        BY DEF IInv
    <2> QED
        BY <1>1, <1>2, <1>5, <2>1, <2>2, Frame
<1> QED
    BY <1>3, <1>6, <1>7, <1>8, <1>9 DEF IInv

\* What is known of c when it holds a handler.
LEMMA HolderFacts ==
    ASSUME IInv, NEW c \in Conns, task[c].at \in {"apply", "append", "exec"}
    PROVE  /\ task[c].h \in Handlers /\ Holds(c, task[c].h) /\ Uses(c, task[c].h)
           /\ task[c] # Resting
           /\ handlers[c] \in {task[c].h, None}
           /\ \A h \in Handlers : Uses(c, h) => h = task[c].h
           /\ OwnRequests(c, hnd[task[c].h].queue)
           /\ hnd[task[c].h] \in Handler
           /\ conn[c] \notin {"new", "accepting", "closing"}
           /\ \A n \in discarded[c] : Past(c, n)
           /\ Sound(c)
<1>0. Sound(c) /\ TypeOK
    BY DEF IInv
<1>1. task[c].h \in Handlers /\ Holds(c, task[c].h) /\ task[c] # Resting
    BY <1>0, HeldTask
<1>2. handlers[c] \in {task[c].h, None}
    BY <1>0, <1>1 DEF Sound, HeldIsMapped
<1>3. \A h \in Handlers : Uses(c, h) => h = task[c].h
    BY <1>2, NoneAssumption DEF Uses, Holds
<1>4. OwnRequests(c, hnd[task[c].h].queue) /\ \A n \in discarded[c] : Past(c, n)
    BY <1>0, <1>1 DEF Sound, QueuesOf, DiscardedIsOver, Uses
<1>5. conn[c] \notin {"new", "accepting", "closing"}
    BY <1>0, <1>1 DEF Sound, YoungIsEmpty, LeavingRests
<1> QED
    BY <1>0, <1>1, <1>2, <1>3, <1>4, <1>5 DEF Uses, TypeOK

\* The parts of Sound(c) that the histories and the handlers do not matter for.
LEMMA HoldingOn ==
    ASSUME IInv, NEW c \in Conns, task[c].at \in {"apply", "append", "exec"},
           UNCHANGED <<closer, conn, handlers>>,
           \A h \in Handlers : Holds(c, h)' => h = task[c].h
    PROVE  /\ YoungIsEmpty(c)' /\ LeavingRests(c)' /\ HeldIsMapped(c)'
           /\ Owned(c)' <=> Owned(c)
<1>1. Owned(c)' <=> Owned(c)
    BY DEF Owned, Quiet
<1> QED
    BY <1>1, HolderFacts DEF YoungIsEmpty, LeavingRests, HeldIsMapped

\* A request that ends with n replies, having changed at most its own handler.
LEMMA AnswerStep ==
    ASSUME IInv, NEW c \in Conns, task[c].at \in {"apply", "append", "exec"},
           NEW h \in Handlers, h = task[c].h, NEW n \in Nat, Answer(c, n),
           UNCHANGED <<closer, conn, handlers, pool, sent>>,
           process' \in {"serving", "closed", "dead"}, ran' \in [Conns -> Seq(Nat)],
           NEW f \in Handler, hnd' = [hnd EXCEPT ![h] = f],
           selected' \in [Conns -> Dbs],
           discarded' \in [Conns -> SUBSET Nat],
           \A o \in Conns \ {c} :
              selected'[o] = selected[o] /\ discarded'[o] = discarded[o],
           handlers[c] = h =>
              f.ctx = [conn |-> c, db |-> selected'[c]] \/ (~Owned(c) /\ f.ctx = None),
           Owned(c) => f.mult \/ f.queue = <<>>,
           Queued(c, f.queue, discarded'[c]),
           \A m \in discarded'[c] : m <= sent[c]
    PROVE  IInv'
<1>1. /\ handlers[c] \in {h, None} /\ Uses(c, h) /\ \A k \in Handlers : Uses(c, k) => k = h
    BY HolderFacts
<1>2. task' = [task EXCEPT ![c] = Resting] /\ replies' \in [Conns -> Nat]
    BY DEF Answer, IInv, TypeOK
<1>3. hnd' \in [Handlers -> Handler] /\ hnd'[h] = f /\ \A k \in Handlers : k # h => hnd'[k] = hnd[k]
    BY DEF IInv, TypeOK
<1>4. task'[c] = Resting /\ task'[c].at = "rest"
    BY <1>2, RestingTask DEF IInv, TypeOK
<1>5. \A k \in Handlers : ~Holds(c, k)'
    BY <1>4 DEF Holds
<1>6. /\ YoungIsEmpty(c)' /\ LeavingRests(c)' /\ HeldIsMapped(c)'
      /\ Owned(c)' <=> Owned(c)
    BY <1>5, HoldingOn
<1>7. ContextOf(c)' /\ FlagOf(c)'
    BY <1>1, <1>3, <1>6 DEF ContextOf, FlagOf, Owned
<1>8. QueuesOf(c)'
    <2>1. OwnRequests(c, hnd[h].queue)'
        BY <1>3, <1>4 DEF OwnRequests, Queued, Past, InHand
    <2> QED
        BY <1>1, <1>5, <2>1 DEF QueuesOf, Uses
<1>9. AppendOf(c)' /\ OrphanOf(c)' /\ DiscardedIsOver(c)'
    BY <1>4 DEF AppendOf, OrphanOf, DiscardedIsOver, Past, InHand
<1>10. Sound(c)'
    BY <1>6, <1>7, <1>8, <1>9 DEF Sound
<1>11. \A k \in Handlers : ~Uses(c, k) => hnd'[k] = hnd[k]
    BY <1>1, <1>3
<1> QED
    BY <1>2, <1>3, <1>10, <1>11, RestingTask, ServeStep

LEMMA LookupStep ==
    ASSUME IInv, NEW c \in Conns, Lookup(c)
    PROVE  IInv'
<1>1. /\ TypeOK /\ task \in [Conns -> Task] /\ task[c] \in Task
      /\ task[c].at = "lookup" /\ task[c] # Resting
      /\ replies \in [Conns -> Nat] /\ Sound(c) /\ closer = Quiet
      /\ handlers[c] \in Handlers \cup {None}
      /\ UNCHANGED <<process, closer, conn, handlers, pool, hnd, sent, ran, selected, discarded>>
    BY DEF IInv, TypeOK, Lookup, Resting
<1>2. task[c] \in [at : {"lookup"}, req : Request, tries : 0..(Tries - 1)]
    BY <1>1 DEF Task, Resting
<1>3. ASSUME NEW x \in Task, task' = [task EXCEPT ![c] = x],
             x.at \in {"rest", "lookup", "apply"},
             x.at = "apply" => x.h = handlers[c] /\ handlers[c] # None,
             replies' \in [Conns -> Nat]
      PROVE  IInv'
    <2>1. task'[c] = x
        BY <1>1, <1>3
    <2>2. \A h \in Handlers : (Holds(c, h)' => handlers[c] = h) /\ (Uses(c, h)' => Uses(c, h))
        BY <1>1, <1>3, <2>1 DEF Holds, Uses
    <2>3. \A n : Past(c, n) => Past(c, n)'
        BY <1>1 DEF Past, InHand
    <2>4. Owned(c)' <=> Owned(c)
        BY <1>1 DEF Owned, Quiet
    <2>5. YoungIsEmpty(c)' /\ LeavingRests(c)' /\ HeldIsMapped(c)'
        BY <1>1, <2>2 DEF Sound, YoungIsEmpty, LeavingRests, HeldIsMapped
    <2>6. ContextOf(c)' /\ FlagOf(c)'
        BY <1>1, <2>4 DEF Sound, ContextOf, FlagOf
    <2>7. QueuesOf(c)'
        BY <1>1, <2>2, <2>3 DEF Sound, QueuesOf, OwnRequests
    <2>8. AppendOf(c)' /\ OrphanOf(c)'
        BY <1>1, <1>3, <2>1 DEF AppendOf, OrphanOf, Owned
    <2>9. DiscardedIsOver(c)'
        BY <1>1, <1>3, <2>1, <2>3 DEF Sound, DiscardedIsOver
    <2>10. Sound(c)'
        BY <2>5, <2>6, <2>7, <2>8, <2>9 DEF Sound
    <2>11. \A h \in Handlers : x.at \in {"apply", "append", "exec"} /\ x.h = h => Uses(c, h)
        BY <1>3 DEF Uses
    <2>12. /\ process' \in {"serving", "closed", "dead"} /\ ran' \in [Conns -> Seq(Nat)]
           /\ hnd' \in [Handlers -> Handler] /\ selected' \in [Conns -> Dbs]
           /\ discarded' \in [Conns -> SUBSET Nat]
        BY <1>1 DEF TypeOK
    <2> QED
        BY <1>1, <1>3, <2>10, <2>11, <2>12, ServeStep
<1>4. CASE handlers[c] # None /\ UNCHANGED replies
           /\ task' = [task EXCEPT ![c] = [at |-> "apply", req |-> task[c].req, h |-> handlers[c]]]
    <2> DEFINE x == [at |-> "apply", req |-> task[c].req, h |-> handlers[c]]
    <2>1. x \in Task
        BY <1>1, <1>2, <1>4 DEF Task
    <2> QED
        BY <1>1, <1>3, <1>4, <2>1
<1>5. CASE task[c].tries < Tries - 1 /\ UNCHANGED replies
           /\ task' = [task EXCEPT ![c].tries = @ + 1]
    <2> DEFINE x == [task[c] EXCEPT !.tries = @ + 1]
    <2>1. task' = [task EXCEPT ![c] = x]
        BY <1>5
    <2>2. x \in [at : {"lookup"}, req : Request, tries : 0..(Tries - 1)]
        BY <1>2, <1>5, BoundAssumption
    <2>3. x \in Task /\ x.at = "lookup"
        BY <2>2 DEF Task
    <2> HIDE DEF x
    <2> QED
        BY <1>1, <1>3, <1>5, <2>1, <2>3
<1>6. CASE Answer(c, 1)
    <2>1. task' = [task EXCEPT ![c] = Resting] /\ replies' \in [Conns -> Nat]
        BY <1>1, <1>6 DEF Answer
    <2> QED
        BY <1>3, <2>1, RestingTask
<1> QED
    BY <1>4, <1>5, <1>6 DEF Lookup

LEMMA ApplyMultiStep ==
    ASSUME IInv, NEW c \in Conns, ApplyMulti(c)
    PROVE  IInv'
<1> DEFINE h == task[c].h
           f == [hnd[h] EXCEPT !.mult = TRUE]
<1>1. /\ task[c].at = "apply" /\ Answer(c, 1)
      /\ hnd' = [hnd EXCEPT ![h] = f]
      /\ UNCHANGED <<process, closer, conn, handlers, pool, sent, ran, selected, discarded>>
    BY DEF ApplyMulti, Applying
<1>2. /\ h \in Handlers /\ hnd[h] \in Handler /\ OwnRequests(c, hnd[h].queue)
      /\ \A n \in discarded[c] : Past(c, n)
      /\ Sound(c)
    BY <1>1, HolderFacts
<1>3. f \in Handler /\ f.ctx = hnd[h].ctx /\ f.queue = hnd[h].queue /\ f.mult
    BY <1>2 DEF Handler
<1>4. /\ process' \in {"serving", "closed", "dead"} /\ ran' \in [Conns -> Seq(Nat)]
      /\ selected' \in [Conns -> Dbs] /\ discarded' \in [Conns -> SUBSET Nat]
      /\ sent[c] \in Nat /\ task \in [Conns -> Task]
    BY <1>1 DEF IInv, TypeOK
<1>5. PICK g \in Handlers : g = h
    BY <1>2
<1> HIDE DEF f
<1>7. Queued(c, f.queue, discarded'[c])
    BY <1>1, <1>2, <1>3 DEF OwnRequests, Past, Queued
<1>8. handlers[c] = g =>
         f.ctx = [conn |-> c, db |-> selected'[c]] \/ (~Owned(c) /\ f.ctx = None)
    BY <1>1, <1>2, <1>3, <1>5, NoneAssumption DEF Sound, ContextOf
<1>9. \A m \in discarded'[c] : m <= sent[c]
    BY <1>1, <1>2 DEF Past
<1> QED
    BY <1>1, <1>3, <1>4, <1>5, <1>7, <1>8, <1>9, AnswerStep

LEMMA ApplyDiscardStep ==
    ASSUME IInv, NEW c \in Conns, ApplyDiscard(c)
    PROVE  IInv'
<1> DEFINE h == task[c].h
           f == [ctx |-> hnd[h].ctx, mult |-> FALSE, queue |-> <<>>]
           D == {hnd[h].queue[i].n : i \in DOMAIN hnd[h].queue}
<1>1. /\ task[c].at = "apply" /\ Answer(c, 1)
      /\ hnd' = [hnd EXCEPT ![h] = f]
      /\ discarded' = [discarded EXCEPT ![c] = @ \cup D]
      /\ UNCHANGED <<process, closer, conn, handlers, pool, sent, ran, selected>>
    BY DEF ApplyDiscard, Applying
<1>2. /\ h \in Handlers /\ hnd[h] \in Handler /\ OwnRequests(c, hnd[h].queue)
      /\ \A n \in discarded[c] : Past(c, n)
      /\ Sound(c)
    BY <1>1, HolderFacts
<1>3. f \in Handler /\ f.ctx = hnd[h].ctx /\ f.queue = <<>>
    <2>1. <<>> \in Seq(Entry)
        OBVIOUS
    <2>2. hnd[h] \in [ctx : Context \cup {None}, mult : BOOLEAN, queue : Seq(Entry)]
        BY <1>2 DEF Handler
    <2> QED
        BY <2>1, <2>2 DEF Handler
<1>4. /\ process' \in {"serving", "closed", "dead"} /\ ran' \in [Conns -> Seq(Nat)]
      /\ selected' \in [Conns -> Dbs] /\ discarded \in [Conns -> SUBSET Nat]
      /\ sent[c] \in Nat
    BY <1>1 DEF IInv, TypeOK
<1>5. PICK g \in Handlers : g = h
    BY <1>2
<1>6. D \subseteq Nat /\ \A m \in D : m <= sent[c]
    <2> DEFINE q == hnd[h].queue
    <2>0. q \in Seq(Entry)
        BY <1>2 DEF Handler
    <2> HIDE DEF q
    <2>1. \A i \in DOMAIN q : q[i] \in Entry
        BY <2>0
    <2> USE DEF q
    <2> QED
        BY <1>2, <2>1 DEF OwnRequests, Past, Entry
<1> HIDE DEF f, D
<1>7. Queued(c, f.queue, discarded'[c])
    BY <1>3 DEF Queued
<1>8. handlers[c] = g =>
         f.ctx = [conn |-> c, db |-> selected'[c]] \/ (~Owned(c) /\ f.ctx = None)
    BY <1>1, <1>2, <1>3, <1>5, NoneAssumption DEF Sound, ContextOf
<1>9. /\ discarded' \in [Conns -> SUBSET Nat]
      /\ \A m \in discarded'[c] : m <= sent[c]
      /\ \A o \in Conns \ {c} : discarded'[o] = discarded[o]
    BY <1>1, <1>2, <1>4, <1>6 DEF Past
<1> QED
    BY <1>1, <1>3, <1>4, <1>5, <1>7, <1>8, <1>9, AnswerStep

\* A request that ends without touching the handler.
LEMMA PlainAnswerStep ==
    ASSUME IInv, NEW c \in Conns, task[c].at \in {"apply", "exec"},
           NEW n \in Nat, Answer(c, n),
           UNCHANGED <<process, closer, conn, handlers, pool, hnd, sent, ran, selected, discarded>>
    PROVE  IInv'
<1> DEFINE h == task[c].h
<1>1. /\ h \in Handlers /\ hnd[h] \in Handler /\ OwnRequests(c, hnd[h].queue)
      /\ \A m \in discarded[c] : Past(c, m)
      /\ Sound(c) /\ handlers[c] \in {h, None}
    BY HolderFacts
<1>2. /\ process' \in {"serving", "closed", "dead"} /\ ran' \in [Conns -> Seq(Nat)]
      /\ selected' \in [Conns -> Dbs] /\ discarded' \in [Conns -> SUBSET Nat]
      /\ hnd \in [Handlers -> Handler] /\ task \in [Conns -> Task]
    BY DEF IInv, TypeOK
<1>3. PICK g \in Handlers : g = h
    BY <1>1
<1>4. hnd' = [hnd EXCEPT ![g] = hnd[g]]
    BY <1>2
<1>6. Queued(c, hnd[g].queue, discarded'[c])
    BY <1>1, <1>3 DEF OwnRequests, Past, Queued
<1>7. handlers[c] = g =>
         hnd[g].ctx = [conn |-> c, db |-> selected'[c]] \/ (~Owned(c) /\ hnd[g].ctx = None)
    BY <1>1, NoneAssumption DEF Sound, ContextOf
<1>8. Owned(c) => hnd[g].mult \/ hnd[g].queue = <<>>
    BY <1>1, <1>3 DEF Sound, FlagOf, Owned
<1>9. \A m \in discarded'[c] : m <= sent[c]
    BY <1>1 DEF Past
<1>10. hnd[g] \in Handler
    BY <1>2
<1> QED
    BY <1>2, <1>3, <1>4, <1>6, <1>7, <1>8, <1>9, <1>10, AnswerStep

LEMMA ApplyBadStep ==
    ASSUME IInv, NEW c \in Conns, ApplyBad(c)
    PROVE  IInv'
BY PlainAnswerStep DEF ApplyBad, Applying

LEMMA ExecEndStep ==
    ASSUME IInv, NEW c \in Conns, ExecEnd(c)
    PROVE  IInv'
<1>1. task[c].at = "exec" /\ task[c] \in Task
    BY DEF ExecEnd, IInv, TypeOK
<1>2. task[c].results \in Nat
    BY <1>1 DEF Task, Resting
<1> QED
    BY <1>1, <1>2, PlainAnswerStep DEF ExecEnd

\* A request that goes on, and has read its handler only.
LEMMA ReadStep ==
    ASSUME IInv, NEW c \in Conns, task[c].at = "apply",
           NEW x \in Task, task' = [task EXCEPT ![c] = x],
           x.at \in {"append", "exec"}, x.h = task[c].h,
           UNCHANGED <<process, closer, conn, handlers, pool, hnd, history>>,
           x.at = "append" => /\ hnd[task[c].h].mult /\ x.queue = hnd[task[c].h].queue
                              /\ x.req.name \in Commands,
           x.at = "exec" => \A i \in DOMAIN x.todo : x.todo[i].n \notin discarded[c]
    PROVE  IInv'
<1>1. TypeOK /\ task'[c] = x
    BY DEF IInv, TypeOK
<1>2. /\ OwnRequests(c, hnd[task[c].h].queue) /\ Sound(c) /\ Uses(c, task[c].h)
      /\ \A k \in Handlers : Uses(c, k) => k = task[c].h
      /\ handlers[c] \in {task[c].h, None}
    BY HolderFacts
<1>3. \A n : Past(c, n) => Past(c, n)'
    BY <1>1 DEF Past, InHand, history
<1>4. \A h \in Handlers : Holds(c, h)' => h = task[c].h
    BY <1>1 DEF Holds
<1>5. /\ YoungIsEmpty(c)' /\ LeavingRests(c)' /\ HeldIsMapped(c)'
      /\ Owned(c)' <=> Owned(c)
    BY <1>4, HoldingOn
<1>6. \A q : OwnRequests(c, q) => OwnRequests(c, q)'
    BY <1>3 DEF OwnRequests, history
<1>7. ContextOf(c)' /\ FlagOf(c)'
    BY <1>2, <1>5 DEF Sound, ContextOf, FlagOf, history
<1>8. QueuesOf(c)'
    <2>1. \A h \in Handlers : Uses(c, h)' => h = task[c].h
        BY <1>2, <1>4, NoneAssumption DEF Uses
    <2> QED
        BY <1>2, <1>6, <2>1 DEF QueuesOf
<1>9. AppendOf(c)' /\ OrphanOf(c)'
    BY <1>1, <1>2, <1>6 DEF AppendOf, OrphanOf
<1>10. DiscardedIsOver(c)'
    BY <1>1, <1>2, <1>3 DEF Sound, DiscardedIsOver, history
<1>11. Sound(c)'
    BY <1>5, <1>7, <1>8, <1>9, <1>10 DEF Sound
<1>12. /\ process' \in {"serving", "closed", "dead"} /\ ran' \in [Conns -> Seq(Nat)]
       /\ replies' \in [Conns -> Nat] /\ hnd' \in [Handlers -> Handler]
       /\ selected' \in [Conns -> Dbs] /\ discarded' \in [Conns -> SUBSET Nat]
    BY <1>1 DEF TypeOK, history
<1>13. \A k \in Handlers : x.at \in {"apply", "append", "exec"} /\ x.h = k => Uses(c, k)
    BY <1>2
<1> QED
    BY <1>11, <1>12, <1>13, ServeStep DEF history

LEMMA ApplyExecStep ==
    ASSUME IInv, NEW c \in Conns, ApplyExec(c)
    PROVE  IInv'
<1> DEFINE h == task[c].h
           q == IF hnd[h].mult THEN hnd[h].queue ELSE <<>>
           x == [at |-> "exec", h |-> h, results |-> 0, todo |-> q]
<1>1. /\ task[c].at = "apply" /\ task' = [task EXCEPT ![c] = x]
      /\ UNCHANGED <<process, closer, conn, handlers, pool, hnd, history>>
    BY DEF ApplyExec, Applying
<1>2. h \in Handlers /\ hnd[h] \in Handler /\ OwnRequests(c, hnd[h].queue)
    BY <1>1, HolderFacts
<1>3. q \in Seq(Entry)
    BY <1>2 DEF Handler
<1>4. x \in Task
    BY <1>2, <1>3 DEF Task
<1>5. \A i \in DOMAIN q : q[i].n \notin discarded[c]
    BY <1>2 DEF OwnRequests
<1> HIDE DEF q
<1>6. x.at = "exec" /\ x.todo = q /\ x.h = h
    OBVIOUS
<1> HIDE DEF x
<1> QED
    BY <1>1, <1>4, <1>5, <1>6, ReadStep

LEMMA ApplyQueueStep ==
    ASSUME IInv, NEW c \in Conns, ApplyQueue(c)
    PROVE  IInv'
<1> DEFINE h == task[c].h
           q == hnd[h].queue
           x == [at |-> "append", req |-> task[c].req, h |-> h, queue |-> q]
<1>1. /\ task[c].at = "apply" /\ task' = [task EXCEPT ![c] = x] /\ hnd[h].mult
      /\ task[c].req.name \in Commands
      /\ UNCHANGED <<process, closer, conn, handlers, pool, hnd, history>>
      /\ task[c] \in Task
    BY DEF ApplyQueue, Applying, IInv, TypeOK
<1>2. h \in Handlers /\ hnd[h] \in Handler
    BY <1>1, HolderFacts
<1>3. q \in Seq(Entry) /\ task[c].req \in Request
    BY <1>1, <1>2 DEF Handler, Task, Resting
<1> HIDE DEF q
<1>4. x \in Task
    BY <1>2, <1>3 DEF Task
<1>5. x.at = "append" /\ x.queue = q /\ x.h = h /\ x.req = task[c].req
    OBVIOUS
<1> HIDE DEF x
<1> QED
    BY <1>1, <1>4, <1>5, ReadStep DEF q

LEMMA QueueAppendStep ==
    ASSUME IInv, NEW c \in Conns, QueueAppend(c)
    PROVE  IInv'
<1> DEFINE h == task[c].h
           e == [conn |-> c, n |-> sent[c], req |-> task[c].req]
<1>1. /\ task[c].at = "append" /\ Answer(c, 1)
      /\ UNCHANGED <<process, closer, conn, handlers, pool, sent, ran, selected, discarded>>
    BY DEF QueueAppend
<1>2. PICK q \in {task[c].queue, hnd[h].queue} :
          hnd' = [hnd EXCEPT ![h].queue = Append(q, e)]
    BY DEF QueueAppend
<1> DEFINE f == [hnd[h] EXCEPT !.queue = Append(q, e)]
<1>3. /\ h \in Handlers /\ hnd[h] \in Handler /\ OwnRequests(c, hnd[h].queue)
      /\ \A n \in discarded[c] : Past(c, n)
      /\ Sound(c) /\ handlers[c] \in {h, None}
    BY <1>1, HolderFacts
<1>4. /\ process' \in {"serving", "closed", "dead"} /\ ran' \in [Conns -> Seq(Nat)]
      /\ selected' \in [Conns -> Dbs] /\ discarded' \in [Conns -> SUBSET Nat]
      /\ sent[c] \in Nat /\ hnd \in [Handlers -> Handler]
      /\ task \in [Conns -> Task] /\ task[c] \in Task
    BY <1>1 DEF IInv, TypeOK
<1>5. task[c].req \in Request /\ task[c].queue \in Seq(Entry)
    BY <1>1, <1>4 DEF Task, Resting
<1>6. e \in Entry
    BY <1>4, <1>5 DEF Entry
<1>7. q \in Seq(Entry) /\ OwnRequests(c, q)
    BY <1>1, <1>3, <1>5 DEF Handler, Sound, AppendOf
<1>8. f.ctx = hnd[h].ctx /\ f.mult = hnd[h].mult /\ f.queue = Append(q, e)
      /\ f = [ctx |-> f.ctx, mult |-> f.mult, queue |-> f.queue]
    <2> DEFINE r == Append(q, e)
    <2>1. hnd[h] \in [ctx : Context \cup {None}, mult : BOOLEAN, queue : Seq(Entry)]
        BY <1>3 DEF Handler
    <2>2. f = [hnd[h] EXCEPT !.queue = r]
        OBVIOUS
    <2> HIDE DEF r, f, e
    <2>3. f.ctx = hnd[h].ctx /\ f.mult = hnd[h].mult /\ f.queue = r
        BY <2>1, <2>2
    <2>4. f = [ctx |-> f.ctx, mult |-> f.mult, queue |-> f.queue]
        BY <2>1, <2>2
    <2> QED
        BY <2>3, <2>4 DEF r
<1>9. e.conn = c /\ e.n = sent[c]
    OBVIOUS
<1>10. hnd' = [hnd EXCEPT ![h] = f]
    BY <1>2
<1> HIDE DEF e, f
<1>11. f \in Handler
    <2>1. Append(q, e) \in Seq(Entry)
        BY <1>6, <1>7
    <2>2. f.ctx \in Context \cup {None} /\ f.mult \in BOOLEAN /\ f.queue \in Seq(Entry)
        BY <1>3, <1>8, <2>1 DEF Handler
    <2> QED
        BY <1>8, <2>2 DEF Handler
<1>12. PICK g \in Handlers : g = h
    BY <1>3
<1>13. InHand(c)
    BY <1>1 DEF InHand
<1>14. Queued(c, f.queue, discarded'[c])
    <2> DEFINE r == Append(q, e)
    <2>1. /\ \A i \in DOMAIN q :
               /\ q[i].conn = c /\ q[i].n < sent[c] /\ q[i].n <= sent[c]
               /\ q[i].n \notin discarded[c]
               /\ \A j \in DOMAIN q : i < j => q[i].n < q[j].n
          /\ sent[c] \notin discarded[c]
        BY <1>3, <1>4, <1>7, <1>13 DEF OwnRequests, Past
    <2>2. /\ DOMAIN r = 1..(Len(q) + 1) /\ DOMAIN q = 1..Len(q) /\ Len(q) \in Nat
          /\ r[Len(q) + 1] = e
          /\ \A i \in DOMAIN q : r[i] = q[i]
        BY <1>6, <1>7
    <2> HIDE DEF r
    <2>5. \A i \in DOMAIN r : i \in DOMAIN q \/ i = Len(q) + 1
        BY <2>2
    <2>6. \A i \in DOMAIN q : r[i].conn = c /\ r[i].n < sent[c] /\ r[i].n <= sent[c]
                              /\ r[i].n \notin discarded[c]
        BY <2>1, <2>2
    <2>7. r[Len(q) + 1].conn = c /\ r[Len(q) + 1].n = sent[c]
        BY <1>9, <2>2
    <2>8. \A i \in DOMAIN r : r[i].conn = c /\ r[i].n <= sent[c] /\ r[i].n \notin discarded[c]
        BY <1>4, <2>1, <2>5, <2>6, <2>7
    <2>9. ASSUME NEW i \in DOMAIN r, NEW j \in DOMAIN r, i < j
          PROVE  r[i].n < r[j].n
        <3>1. i \in DOMAIN q
            BY <2>2, <2>5, <2>9
        <3>2. CASE j \in DOMAIN q
            BY <2>1, <2>2, <2>9, <3>1, <3>2
        <3>3. CASE j = Len(q) + 1
            BY <2>6, <2>7, <3>1, <3>3
        <3> QED
            BY <2>5, <3>2, <3>3
    <2>3. \A i \in DOMAIN r :
            /\ r[i].conn = c /\ r[i].n <= sent[c] /\ r[i].n \notin discarded[c]
            /\ \A j \in DOMAIN r : i < j => r[i].n < r[j].n
        BY <2>8, <2>9
    <2>4. Queued(c, r, discarded'[c])
        BY <1>1, <2>3 DEF Queued
    <2> QED
        BY <1>8, <2>4 DEF r
<1>15. handlers[c] = g =>
         f.ctx = [conn |-> c, db |-> selected'[c]] \/ (~Owned(c) /\ f.ctx = None)
    BY <1>1, <1>3, <1>8, <1>12, NoneAssumption DEF Sound, ContextOf
<1>16. Owned(c) => f.mult
    BY <1>1, <1>3, <1>8 DEF Sound, AppendOf
<1>17. \A m \in discarded'[c] : m <= sent[c]
    BY <1>1, <1>3 DEF Past
<1> QED
    BY <1>1, <1>4, <1>10, <1>11, <1>12, <1>14, <1>15, <1>16, <1>17, AnswerStep

\* What running a command does to the handler of its connection.
LEMMA RunFacts ==
    ASSUME TypeOK, NEW c \in Conns, NEW h \in Handlers, NEW n \in Nat, NEW req \in Request,
           Run(c, h, n, req)
    PROVE  /\ process' = process
           /\ ran' \in [Conns -> Seq(Nat)]
           /\ ran'[c] = Append(ran[c], n) /\ \A o \in Conns \ {c} : ran'[o] = ran[o]
           /\ selected' \in [Conns -> Dbs] /\ \A o \in Conns \ {c} : selected'[o] = selected[o]
           /\ \E f \in Handler :
                /\ hnd' = [hnd EXCEPT ![h] = f]
                /\ f.mult = hnd[h].mult /\ f.queue = hnd[h].queue
                /\ hnd[h].ctx \in {[conn |-> c, db |-> selected[c]], None}
                     => \/ f.ctx = [conn |-> c, db |-> selected'[c]]
                        \/ hnd[h].ctx = None /\ f.ctx = None
<1>1. /\ hnd \in [Handlers -> Handler] /\ hnd[h] \in Handler
      /\ selected \in [Conns -> Dbs] /\ ran \in [Conns -> Seq(Nat)] /\ ran[c] \in Seq(Nat)
    BY DEF TypeOK
<1>2. process' = process /\ ran' = [ran EXCEPT ![c] = Append(ran[c], n)]
    BY DEF Run
<1>3. Append(ran[c], n) \in Seq(Nat)
    BY <1>1
<1>4. hnd[h] \in [ctx : Context \cup {None}, mult : BOOLEAN, queue : Seq(Entry)]
    BY <1>1 DEF Handler
<1>5. CASE req.name = "SEL"
    <2> DEFINE d == req.arg % DbMod
               x == Selecting(c, hnd[h].ctx, d)
               f == [hnd[h] EXCEPT !.ctx = x]
    <2>1. req.arg \in SelArgs
        BY <1>5 DEF Request
    <2>2. d \in Dbs
        <3>1. req.arg \in Int /\ DbMod \in Nat \ {0}
            BY <2>1, DbAssumption
        <3>2. \A a \in Int, m \in Nat \ {0} : a % m \in 0..(m - 1)
            OBVIOUS
        <3> QED
            BY <3>1, <3>2 DEF Dbs
    <2>3. hnd' = [hnd EXCEPT ![h] = f] /\ selected' = [selected EXCEPT ![c] = d]
        BY <1>5 DEF Run
    <2> HIDE DEF d
    <2>4. /\ x \in Context
          /\ hnd[h].ctx \in {[conn |-> c, db |-> selected[c]], None}
               => x = [conn |-> c, db |-> d]
        <3>1. CASE hnd[h].ctx = None
            BY <2>2, <3>1 DEF Selecting, Context
        <3>2. CASE hnd[h].ctx # None
            <4>1. hnd[h].ctx \in [conn : Conns \cup {None}, db : Dbs]
                BY <1>4, <3>2 DEF Context
            <4>2. x = [conn |-> hnd[h].ctx.conn, db |-> d] /\ x \in Context
                BY <2>2, <3>2, <4>1 DEF Context, Selecting
            <4> QED
                BY <3>2, <4>2
        <3> QED
            BY <3>1, <3>2
    <2> HIDE DEF x
    <2>6. f.mult = hnd[h].mult /\ f.queue = hnd[h].queue /\ f.ctx = x
          /\ f = [ctx |-> x, mult |-> hnd[h].mult, queue |-> hnd[h].queue]
        BY <1>4
    <2>7. f \in Handler
        BY <1>4, <2>4, <2>6 DEF Handler
    <2>8. selected'[c] = d /\ selected' \in [Conns -> Dbs]
        BY <1>1, <2>2, <2>3
    <2>9. hnd[h].ctx \in {[conn |-> c, db |-> selected[c]], None}
             => f.ctx = [conn |-> c, db |-> selected'[c]]
        BY <2>4, <2>6, <2>8
    <2> HIDE DEF f
    <2> QED
        BY <1>1, <1>2, <1>3, <2>3, <2>6, <2>7, <2>8, <2>9
<1>6. CASE req.name # "SEL"
    <2>1. hnd' = hnd /\ selected' = selected
        BY <1>6 DEF Run
    <2>2. hnd' = [hnd EXCEPT ![h] = hnd[h]]
        BY <1>1, <2>1
    <2> QED
        BY <1>1, <1>2, <1>3, <2>1, <2>2
<1> QED
    BY <1>5, <1>6

LEMMA DieStep ==
    ASSUME IInv, NEW h, NEW req, Die(h, req)
    PROVE  IInv'
<1>1. process' = "dead" /\ UNCHANGED <<closer, conn, handlers, pool, hnd, task, sent, ran,
                                       replies, selected, discarded>>
    BY DEF Die, history
<1>2. TypeOK'
    BY <1>1 DEF IInv, TypeOK
<1>3. HandlersExclusive' /\ PoolIsClean' /\ CloserOK'
    BY <1>1 DEF IInv, HandlersExclusive, PoolIsClean, CloserOK, Uses, Holds, Quiet
<1>4. \A c \in Conns : Sound(c)'
    BY <1>1, Frame DEF IInv, Owned, Quiet
<1> QED
    BY <1>2, <1>3, <1>4 DEF IInv

LEMMA ApplyRunStep ==
    ASSUME IInv, NEW c \in Conns, ApplyRun(c)
    PROVE  IInv'
<1>1. /\ task[c].at = "apply" /\ TypeOK
      /\ \/ Run(c, task[c].h, sent[c], task[c].req) /\ Answer(c, 1)
            /\ UNCHANGED <<closer, conn, handlers, pool, sent, discarded>>
         \/ Die(task[c].h, task[c].req)
    BY DEF ApplyRun, Applying, IInv
<1>2. CASE Die(task[c].h, task[c].req)
    BY <1>2, DieStep
<1>3. CASE Run(c, task[c].h, sent[c], task[c].req) /\ Answer(c, 1)
           /\ UNCHANGED <<closer, conn, handlers, pool, sent, discarded>>
    <2>1. /\ task[c].h \in Handlers /\ handlers[c] \in {task[c].h, None} /\ Sound(c)
          /\ OwnRequests(c, hnd[task[c].h].queue) /\ \A n \in discarded[c] : Past(c, n)
        BY <1>1, HolderFacts
    <2>2. PICK h \in Handlers : h = task[c].h
        BY <2>1
    <2>3. task[c].req \in Request /\ sent[c] \in Nat
        <3>1. task[c] \in Task /\ sent[c] \in Nat
            BY <1>1 DEF TypeOK
        <3> QED
            BY <1>1, <3>1 DEF Task, Resting
    <2>4. Run(c, h, sent[c], task[c].req)
        BY <1>3, <2>2
    <2>5. /\ process' = process /\ ran' \in [Conns -> Seq(Nat)]
          /\ selected' \in [Conns -> Dbs] /\ \A o \in Conns \ {c} : selected'[o] = selected[o]
        BY <1>1, <2>3, <2>4, RunFacts
    <2>6. PICK f \in Handler :
                /\ hnd' = [hnd EXCEPT ![h] = f]
                /\ f.mult = hnd[h].mult /\ f.queue = hnd[h].queue
                /\ hnd[h].ctx \in {[conn |-> c, db |-> selected[c]], None}
                     => \/ f.ctx = [conn |-> c, db |-> selected'[c]]
                        \/ hnd[h].ctx = None /\ f.ctx = None
        BY <1>1, <2>3, <2>4, RunFacts
    <2>7. Queued(c, f.queue, discarded'[c])
        BY <1>3, <2>1, <2>2, <2>6 DEF OwnRequests, Queued, Past
    <2>8. handlers[c] = h =>
             f.ctx = [conn |-> c, db |-> selected'[c]] \/ (~Owned(c) /\ f.ctx = None)
        <3> SUFFICES ASSUME handlers[c] = h
                     PROVE  f.ctx = [conn |-> c, db |-> selected'[c]] \/ (~Owned(c) /\ f.ctx = None)
            OBVIOUS
        <3>1. \/ hnd[h].ctx = [conn |-> c, db |-> selected[c]]
              \/ ~Owned(c) /\ hnd[h].ctx = None
            BY <2>1, NoneAssumption DEF Sound, ContextOf
        <3>2. [conn |-> c, db |-> selected[c]] # None
            <4>1. [conn |-> c, db |-> selected[c]] \in Context
                BY <1>1 DEF TypeOK, Context
            <4> QED
                BY <4>1, SessionAssumption
        <3> QED
            BY <2>6, <3>1, <3>2
    <2>9. Owned(c) => f.mult \/ f.queue = <<>>
        BY <2>1, <2>2, <2>6 DEF Sound, FlagOf, Owned
    <2>10. \A m \in discarded'[c] : m <= sent[c]
        BY <1>3, <2>1 DEF Past
    <2>11. process' \in {"serving", "closed", "dead"} /\ discarded' \in [Conns -> SUBSET Nat]
        BY <1>1, <1>3, <2>5 DEF TypeOK
    <2> QED
        BY <1>1, <1>3, <2>2, <2>5, <2>6, <2>7, <2>8, <2>9, <2>10, <2>11, AnswerStep
<1> QED
    BY <1>1, <1>2, <1>3

\* The task of EXEC when a queued command has been dealt with.
LEMMA ExecTask ==
    ASSUME TypeOK, NEW c \in Conns, task[c].at = "exec", task[c].todo # <<>>
    PROVE  /\ Head(task[c].todo) \in Entry
           /\ \E x \in Task :
                /\ [task EXCEPT ![c].todo = Tail(@), ![c].results = @ + 1]
                     = [task EXCEPT ![c] = x]
                /\ x.at = "exec" /\ x.h = task[c].h /\ x.todo = Tail(task[c].todo)
                /\ \A i \in DOMAIN x.todo : \E j \in DOMAIN task[c].todo :
                      x.todo[i] = task[c].todo[j]
<1> DEFINE t == task[c]
           x == [t EXCEPT !.todo = Tail(@), !.results = @ + 1]
<1>1. t \in [at : {"exec"}, h : Handlers, todo : Seq(Entry), results : Nat]
    BY DEF TypeOK, Task, Resting
<1> DEFINE s == t.todo
<1>2. s \in Seq(Entry) /\ s # <<>>
    BY <1>1
<1>3. [task EXCEPT ![c].todo = Tail(@), ![c].results = @ + 1] = [task EXCEPT ![c] = x]
    OBVIOUS
<1> HIDE DEF t
<1>4. x.at = "exec" /\ x.h = t.h /\ x.todo = Tail(s) /\ x.results = t.results + 1
    BY <1>1
<1>5. x = [at |-> x.at, h |-> x.h, todo |-> x.todo, results |-> x.results]
    <2> DEFINE u == Tail(t.todo)
               v == t.results + 1
               y == [t EXCEPT !.todo = u]
               z == [y EXCEPT !.results = v]
    <2>1. x = z
        OBVIOUS
    <2> HIDE DEF u, v, x
    <2>2. y \in [at : {"exec"}, h : Handlers, todo : {u}, results : Nat]
        BY <1>1
    <2> HIDE DEF y
    <2>3. z \in [at : {"exec"}, h : Handlers, todo : {u}, results : {v}]
        BY <2>2
    <2> HIDE DEF z
    <2> QED
        BY <2>1, <2>3
<1> HIDE DEF x, s
<1>6. /\ Head(s) \in Entry /\ Tail(s) \in Seq(Entry)
      /\ \A i \in DOMAIN Tail(s) : i + 1 \in DOMAIN s /\ Tail(s)[i] = s[i + 1]
    BY <1>2
<1>7. t.h \in Handlers /\ t.results + 1 \in Nat
    BY <1>1
<1>8. x.at = "exec" /\ x.h \in Handlers /\ x.todo \in Seq(Entry) /\ x.results \in Nat
    BY <1>4, <1>6, <1>7
<1>9. x \in [at : {"exec"}, h : Handlers, todo : Seq(Entry), results : Nat]
    BY <1>5, <1>8
<1>10. x \in Task
    BY <1>9 DEF Task
<1>11. \A i \in DOMAIN x.todo : \E j \in DOMAIN s : x.todo[i] = s[j]
    BY <1>4, <1>6
<1> QED
    BY <1>3, <1>4, <1>6, <1>10, <1>11 DEF t, s

LEMMA ExecNextStep ==
    ASSUME IInv, NEW c \in Conns, ExecNext(c)
    PROVE  IInv'
<1> DEFINE e == Head(task[c].todo)
<1>1. /\ task[c].at = "exec" /\ task[c].todo # <<>> /\ TypeOK
      /\ task \in [Conns -> Task]
    BY DEF ExecNext, IInv, TypeOK
<1>2. CASE Die(task[c].h, e.req)
    BY <1>2, DieStep
<1>3. CASE /\ IF e.req.name = "FLUSHALL"
              THEN UNCHANGED <<process, hnd, ran, selected>>
              ELSE Run(c, task[c].h, e.n, e.req)
           /\ task' = [task EXCEPT ![c].todo = Tail(@), ![c].results = @ + 1]
           /\ UNCHANGED <<closer, conn, handlers, pool, sent, replies, discarded>>
    <2>1. /\ task[c].h \in Handlers /\ handlers[c] \in {task[c].h, None} /\ Sound(c)
          /\ OwnRequests(c, hnd[task[c].h].queue) /\ \A n \in discarded[c] : Past(c, n)
          /\ \A k \in Handlers : Uses(c, k) => k = task[c].h
          /\ Uses(c, task[c].h)
        BY <1>1, HolderFacts
    <2>2. PICK h \in Handlers : h = task[c].h
        BY <2>1
    <2>3. PICK x \in Task :
                /\ task' = [task EXCEPT ![c] = x]
                /\ x.at = "exec" /\ x.h = task[c].h /\ x.todo = Tail(task[c].todo)
                /\ \A i \in DOMAIN x.todo : \E j \in DOMAIN task[c].todo :
                      x.todo[i] = task[c].todo[j]
        BY <1>1, <1>3, ExecTask
    <2>4. e.n \in Nat /\ e.req \in Request
        <3>1. e \in Entry
            BY <1>1, ExecTask
        <3> QED
            BY <3>1 DEF Entry
    <2>5. /\ process' = process /\ ran' \in [Conns -> Seq(Nat)]
          /\ selected' \in [Conns -> Dbs] /\ \A o \in Conns \ {c} : selected'[o] = selected[o]
          /\ \E f \in Handler :
                /\ hnd' = [hnd EXCEPT ![h] = f]
                /\ f.mult = hnd[h].mult /\ f.queue = hnd[h].queue
                /\ hnd[h].ctx \in {[conn |-> c, db |-> selected[c]], None}
                     => \/ f.ctx = [conn |-> c, db |-> selected'[c]]
                        \/ hnd[h].ctx = None /\ f.ctx = None
        <3>1. CASE e.req.name = "FLUSHALL"
            <4>1. UNCHANGED <<process, hnd, ran, selected>>
                BY <1>3, <3>1
            <4>2. hnd[h] \in Handler /\ hnd' = [hnd EXCEPT ![h] = hnd[h]]
                BY <1>1, <4>1 DEF TypeOK
            <4> QED
                BY <1>1, <4>1, <4>2 DEF TypeOK
        <3>2. CASE e.req.name # "FLUSHALL"
            <4>1. Run(c, h, e.n, e.req)
                BY <1>3, <2>2, <3>2
            <4> HIDE DEF e
            <4> QED
                BY <1>1, <2>4, <4>1, RunFacts
        <3> QED
            BY <3>1, <3>2
    <2> HIDE DEF e
    <2>6. PICK f \in Handler :
                /\ hnd' = [hnd EXCEPT ![h] = f]
                /\ f.mult = hnd[h].mult /\ f.queue = hnd[h].queue
                /\ hnd[h].ctx \in {[conn |-> c, db |-> selected[c]], None}
                     => \/ f.ctx = [conn |-> c, db |-> selected'[c]]
                        \/ hnd[h].ctx = None /\ f.ctx = None
        BY <2>5
    <2>7. /\ hnd' \in [Handlers -> Handler] /\ hnd'[h] = f
          /\ \A k \in Handlers : k # h => hnd'[k] = hnd[k]
        BY <1>1, <2>6 DEF TypeOK
    <2>8. task'[c] = x /\ ~InHand(c)'
        BY <1>1, <2>3 DEF InHand
    <2>9. \A k \in Handlers : Holds(c, k)' => k = task[c].h
        BY <2>3, <2>8 DEF Holds
    <2>10. /\ YoungIsEmpty(c)' /\ LeavingRests(c)' /\ HeldIsMapped(c)'
           /\ Owned(c)' <=> Owned(c)
        BY <1>1, <1>3, <2>9, HoldingOn
    <2>11. ContextOf(c)'
        <3> SUFFICES ASSUME handlers[c] = h
                     PROVE  f.ctx = [conn |-> c, db |-> selected'[c]] \/ (~Owned(c) /\ f.ctx = None)
            BY <1>3, <2>1, <2>2, <2>7, <2>10 DEF ContextOf
        <3>1. \/ hnd[h].ctx = [conn |-> c, db |-> selected[c]]
              \/ ~Owned(c) /\ hnd[h].ctx = None
            BY <2>1, NoneAssumption DEF Sound, ContextOf
        <3>2. [conn |-> c, db |-> selected[c]] # None
            <4>1. [conn |-> c, db |-> selected[c]] \in Context
                BY <1>1 DEF TypeOK, Context
            <4> QED
                BY <4>1, SessionAssumption
        <3> QED
            BY <2>6, <3>1, <3>2
    <2>12. FlagOf(c)'
        <3>1. Owned(c) => hnd[h].mult \/ hnd[h].queue = <<>>
            BY <2>1, <2>2 DEF Sound, FlagOf, Owned
        <3> QED
            BY <1>3, <2>1, <2>2, <2>6, <2>7, <2>10, <3>1 DEF FlagOf, Owned
    <2>13. QueuesOf(c)'
        <3>1. OwnRequests(c, hnd[h].queue)
            BY <2>1, <2>2
        <3>2. OwnRequests(c, hnd[h].queue)'
            BY <1>3, <2>6, <2>7, <2>8, <3>1 DEF OwnRequests, Past
        <3>3. \A k \in Handlers : Uses(c, k)' => k = h
            BY <1>3, <2>1, <2>2, <2>9 DEF Uses
        <3> QED
            BY <3>2, <3>3 DEF QueuesOf
    <2>14. AppendOf(c)' /\ OrphanOf(c)'
        BY <2>3, <2>8 DEF AppendOf, OrphanOf
    <2>15. DiscardedIsOver(c)'
        <3>1. \A i \in DOMAIN task[c].todo : task[c].todo[i].n \notin discarded[c]
            BY <1>1, <2>1 DEF Sound, DiscardedIsOver
        <3>2. \A i \in DOMAIN x.todo : x.todo[i].n \notin discarded[c]
            BY <2>3, <3>1
        <3> QED
            BY <1>3, <2>1, <2>8, <3>2 DEF DiscardedIsOver, Past
    <2>16. Sound(c)'
        BY <2>10, <2>11, <2>12, <2>13, <2>14, <2>15 DEF Sound
    <2>17. \A k \in Handlers : ~Uses(c, k) => hnd'[k] = hnd[k]
        BY <2>1, <2>2, <2>7
    <2>18. \A k \in Handlers : x.at \in {"apply", "append", "exec"} /\ x.h = k => Uses(c, k)
        BY <2>1, <2>3
    <2>19. /\ process' \in {"serving", "closed", "dead"} /\ discarded' \in [Conns -> SUBSET Nat]
           /\ replies' \in [Conns -> Nat] /\ UNCHANGED <<closer, conn, handlers, pool, sent>>
           /\ \A o \in Conns \ {c} :
                selected'[o] = selected[o] /\ discarded'[o] = discarded[o]
           /\ ran' \in [Conns -> Seq(Nat)] /\ selected' \in [Conns -> Dbs]
        BY <1>1, <1>3, <2>5 DEF TypeOK
    <2> QED
        BY <2>3, <2>7, <2>16, <2>17, <2>18, <2>19, ServeStep
<1> QED
    BY <1>2, <1>3 DEF ExecNext

-----------------------------------------------------------------------------
(* The steps of connections that serve no request. *)

LEMMA ReceiveStep ==
    ASSUME IInv, NEW c \in Conns, NEW req \in Request, Receive(c, req)
    PROVE  IInv'
<1> DEFINE x == [at |-> "lookup", req |-> req, tries |-> 0]
<1>1. /\ task[c] = Resting /\ task' = [task EXCEPT ![c] = x] /\ conn[c] = "open"
      /\ sent' = [sent EXCEPT ![c] = sent[c] + 1] /\ TypeOK
      /\ UNCHANGED <<process, closer, conn, handlers, pool, hnd, ran, replies, selected, discarded>>
      /\ Sound(c)
    BY DEF Receive, IInv
<1>2. x \in Task /\ x.at = "lookup"
    BY BoundAssumption DEF Task
<1> HIDE DEF x
<1>3. task'[c] = x /\ \A o \in Conns \ {c} : task'[o] = task[o] /\ sent'[o] = sent[o]
    BY <1>1 DEF TypeOK
<1>4. sent'[c] = sent[c] + 1 /\ sent[c] \in Nat /\ sent' \in [Conns -> Nat]
    BY <1>1 DEF TypeOK
<1>5. TypeOK'
    BY <1>1, <1>2, <1>4 DEF TypeOK
<1>6. \A h \in Handlers : ~Holds(c, h) /\ ~Holds(c, h)'
    BY <1>1, <1>2, <1>3, RestingTask DEF Holds
<1>7. \A o \in Conns, h \in Handlers : Uses(o, h)' <=> Uses(o, h)
    BY <1>1, <1>3, <1>6 DEF Uses, Holds
<1>8. HandlersExclusive' /\ PoolIsClean' /\ CloserOK'
    BY <1>1, <1>7 DEF IInv, HandlersExclusive, PoolIsClean, CloserOK, Quiet
<1>9. \A n \in Nat : Past(c, n) => Past(c, n)'
    BY <1>4 DEF Past
<1>10. YoungIsEmpty(c)' /\ LeavingRests(c)' /\ HeldIsMapped(c)'
    BY <1>1, <1>6 DEF YoungIsEmpty, LeavingRests, HeldIsMapped
<1>11. ContextOf(c)' /\ FlagOf(c)'
    BY <1>1 DEF Sound, ContextOf, FlagOf, Owned, Quiet
<1>12. QueuesOf(c)'
    <2> SUFFICES ASSUME NEW h \in Handlers, Uses(c, h)
                 PROVE  OwnRequests(c, hnd[h].queue)'
        BY <1>7 DEF QueuesOf
    <2>1. OwnRequests(c, hnd[h].queue) /\ hnd[h].queue \in Seq(Entry)
        BY <1>1 DEF Sound, QueuesOf, TypeOK, Handler
    <2>2. \A q \in Seq(Entry) : \A i \in DOMAIN q : q[i].n \in Nat
        <3>1. \A q \in Seq(Entry) : \A i \in DOMAIN q : q[i] \in Entry
            OBVIOUS
        <3> QED
            BY <3>1 DEF Entry
    <2> QED
        BY <1>1, <1>9, <2>1, <2>2 DEF OwnRequests
<1>13. AppendOf(c)' /\ OrphanOf(c)'
    BY <1>2, <1>3 DEF AppendOf, OrphanOf
<1>14. DiscardedIsOver(c)'
    <2>1. discarded[c] \subseteq Nat
        BY <1>1 DEF TypeOK
    <2> QED
        BY <1>1, <1>2, <1>3, <1>9, <2>1 DEF Sound, DiscardedIsOver
<1>15. Sound(c)'
    BY <1>10, <1>11, <1>12, <1>13, <1>14 DEF Sound
<1>16. \A o \in Conns \ {c} : Sound(o)'
    BY <1>1, <1>3, Frame DEF IInv, Owned, Quiet
<1> QED
    BY <1>5, <1>8, <1>15, <1>16 DEF IInv

LEMMA ArriveStep ==
    ASSUME IInv, NEW c \in Conns, Arrive(c)
    PROVE  IInv'
<1>1. /\ conn[c] = "new" /\ conn' = [conn EXCEPT ![c] = "accepting"] /\ TypeOK
      /\ UNCHANGED <<process, closer, handlers, pool, hnd, task, sent, ran, replies, selected,
                     discarded>>
    BY DEF Arrive, history, IInv
<1>2. TypeOK' /\ conn'[c] = "accepting" /\ \A o \in Conns \ {c} : conn'[o] = conn[o]
    BY <1>1 DEF TypeOK
<1>3. HandlersExclusive' /\ PoolIsClean' /\ CloserOK'
    BY <1>1 DEF IInv, HandlersExclusive, PoolIsClean, CloserOK, Uses, Holds, Quiet
<1>4. \A o \in Conns \ {c} : Sound(o)'
    BY <1>1, <1>2, Frame DEF IInv, Owned, Quiet
<1>5. Sound(c)'
    <2>1. Sound(c)
        BY DEF IInv
    <2>2. YoungIsEmpty(c)' /\ LeavingRests(c)'
        BY <1>1, <1>2, <2>1 DEF Sound, YoungIsEmpty, LeavingRests
    <2>3. HeldIsMapped(c)' /\ ContextOf(c)' /\ FlagOf(c)'
        BY <1>1, <2>1 DEF Sound, HeldIsMapped, ContextOf, FlagOf, Holds, Owned, Quiet
    <2>4. QueuesOf(c)' /\ AppendOf(c)' /\ OrphanOf(c)' /\ DiscardedIsOver(c)'
        BY <1>1, <2>1 DEF Sound, QueuesOf, AppendOf, OrphanOf, DiscardedIsOver, OwnRequests,
                          Past, InHand, Uses, Holds, Owned, Quiet
    <2> QED
        BY <2>2, <2>3, <2>4 DEF Sound
<1> QED
    BY <1>2, <1>3, <1>4, <1>5 DEF IInv

LEMMA LeaveStep ==
    ASSUME IInv, NEW c \in Conns, Leave(c)
    PROVE  IInv'
<1>1. /\ conn' = [conn EXCEPT ![c] = "closing"] /\ task[c] = Resting /\ TypeOK
      /\ UNCHANGED <<process, closer, handlers, pool, hnd, task, sent, ran, replies, selected,
                     discarded>>
    BY DEF Leave, history, IInv
<1>2. TypeOK' /\ conn'[c] = "closing" /\ \A o \in Conns \ {c} : conn'[o] = conn[o]
    BY <1>1 DEF TypeOK
<1>3. HandlersExclusive' /\ PoolIsClean' /\ CloserOK'
    BY <1>1 DEF IInv, HandlersExclusive, PoolIsClean, CloserOK, Uses, Holds, Quiet
<1>4. \A o \in Conns \ {c} : Sound(o)'
    BY <1>1, <1>2, Frame DEF IInv, Owned, Quiet
<1>5. Sound(c)'
    <2>1. Sound(c)
        BY DEF IInv
    <2>2. YoungIsEmpty(c)' /\ LeavingRests(c)'
        BY <1>1, <1>2 DEF YoungIsEmpty, LeavingRests
    <2>3. HeldIsMapped(c)' /\ ContextOf(c)' /\ FlagOf(c)'
        BY <1>1, <2>1 DEF Sound, HeldIsMapped, ContextOf, FlagOf, Holds, Owned, Quiet
    <2>4. QueuesOf(c)' /\ AppendOf(c)' /\ OrphanOf(c)' /\ DiscardedIsOver(c)'
        BY <1>1, <2>1 DEF Sound, QueuesOf, AppendOf, OrphanOf, DiscardedIsOver, OwnRequests,
                          Past, InHand, Uses, Holds, Owned, Quiet
    <2> QED
        BY <2>2, <2>3, <2>4 DEF Sound
<1> QED
    BY <1>2, <1>3, <1>4, <1>5 DEF IInv

LEMMA NewIsClean == New \in Handler /\ New.mult = FALSE /\ New.queue = <<>>
<1>1. [conn |-> None, db |-> 0] \in Context
    BY DbAssumption DEF Context, Dbs
<1> QED
    BY <1>1 DEF New, Handler

\* A handler that is given a context keeps the rest.
LEMMA WithContext ==
    ASSUME NEW g \in Handler, NEW x \in Context
    PROVE  \E f \in Handler :
              f = [g EXCEPT !.ctx = x] /\ f.ctx = x /\ f.mult = g.mult /\ f.queue = g.queue
<1> DEFINE f == [g EXCEPT !.ctx = x]
<1>1. g \in [ctx : Context \cup {None}, mult : BOOLEAN, queue : Seq(Entry)]
    BY DEF Handler
<1>2. f.ctx = x /\ f.mult = g.mult /\ f.queue = g.queue
    BY <1>1
<1>3. f = [ctx |-> f.ctx, mult |-> f.mult, queue |-> f.queue]
    BY <1>1
<1> HIDE DEF f
<1>4. f \in Handler
    BY <1>1, <1>2, <1>3 DEF Handler
<1> QED
    BY <1>2, <1>4 DEF f

LEMMA AcceptStep ==
    ASSUME IInv, NEW c \in Conns, Accept(c)
    PROVE  IInv'
<1> DEFINE x == [conn |-> c, db |-> 0]
<1>1. PICK h \in Handlers : Get(x, h) /\ handlers' = [handlers EXCEPT ![c] = h]
    BY DEF Accept
<1>2. /\ conn[c] = "accepting" /\ conn' = [conn EXCEPT ![c] = "open"] /\ TypeOK
      /\ closer = Quiet /\ Sound(c)
      /\ UNCHANGED <<process, closer, task, sent, ran, replies, selected, discarded>>
    BY DEF Accept, IInv, history
<1>3. handlers[c] = None /\ task[c] = Resting /\ selected[c] = 0
    BY <1>2 DEF Sound, YoungIsEmpty
<1>4. hnd \in [Handlers -> Handler] /\ hnd[h] \in Handler
    BY <1>2 DEF TypeOK
<1>5. x \in Context
    BY DbAssumption DEF Context, Dbs
<1> HIDE DEF x
<1>6. /\ pool' = pool \ {h} /\ \A o \in Conns : ~Uses(o, h)
      /\ \E f \in Handler :
            /\ hnd' = [hnd EXCEPT ![h] = f]
            /\ f.ctx = x /\ ~f.mult /\ f.queue = <<>>
    <2>1. CASE h \in pool /\ pool' = pool \ {h} /\ hnd' = [hnd EXCEPT ![h].ctx = x]
        <3>1. PICK f \in Handler :
                 /\ f = [hnd[h] EXCEPT !.ctx = x]
                 /\ f.ctx = x /\ f.mult = hnd[h].mult /\ f.queue = hnd[h].queue
            BY <1>4, <1>5, WithContext
        <3>2. hnd' = [hnd EXCEPT ![h] = f]
            BY <2>1, <3>1
        <3>3. ~f.mult /\ f.queue = <<>>
            BY <2>1, <3>1 DEF IInv, PoolIsClean
        <3>4. \A o \in Conns : ~Uses(o, h)
            BY <2>1 DEF IInv, HandlersExclusive
        <3> QED
            BY <2>1, <3>1, <3>2, <3>3, <3>4
    <2>2. CASE Unreferenced(h) /\ pool' = pool /\ hnd' = [hnd EXCEPT ![h] = [New EXCEPT !.ctx = x]]
        <3>1. PICK f \in Handler :
                 /\ f = [New EXCEPT !.ctx = x]
                 /\ f.ctx = x /\ f.mult = New.mult /\ f.queue = New.queue
            BY <1>5, NewIsClean, WithContext
        <3>2. pool' = pool \ {h} /\ \A o \in Conns : ~Uses(o, h)
            BY <2>2 DEF Unreferenced, Uses
        <3> QED
            BY <2>2, <3>1, <3>2, NewIsClean
    <2> QED
        BY <1>1, <2>1, <2>2 DEF Get
<1>7. PICK f \in Handler :
            /\ hnd' = [hnd EXCEPT ![h] = f]
            /\ f.ctx = x /\ ~f.mult /\ f.queue = <<>>
    BY <1>6
<1>8. /\ hnd' \in [Handlers -> Handler] /\ hnd'[h] = f
      /\ \A k \in Handlers : k # h => hnd'[k] = hnd[k]
    BY <1>4, <1>7
<1>9. /\ handlers' \in [Conns -> Handlers \cup {None}] /\ handlers'[c] = h
      /\ \A o \in Conns : o # c => handlers'[o] = handlers[o]
    BY <1>1, <1>2 DEF TypeOK
<1>10. TypeOK' /\ conn'[c] = "open" /\ \A o \in Conns \ {c} : conn'[o] = conn[o]
    BY <1>2, <1>6, <1>8, <1>9 DEF TypeOK
<1>11. \A o \in Conns, k \in Handlers :
          Uses(o, k)' => \/ o = c /\ k = h
                         \/ Uses(o, k) /\ k # h
    <2> SUFFICES ASSUME NEW o \in Conns, NEW k \in Handlers, Uses(o, k)'
                 PROVE  (o = c /\ k = h) \/ (Uses(o, k) /\ k # h)
        OBVIOUS
    <2>1. Holds(o, k)' <=> Holds(o, k)
        BY <1>2 DEF Holds
    <2>2. CASE Holds(o, k)
        BY <1>6, <2>2 DEF Uses
    <2>3. CASE handlers'[o] = k
        BY <1>6, <1>9, <2>3 DEF Uses
    <2> QED
        BY <2>1, <2>2, <2>3 DEF Uses
<1>12. HandlersExclusive'
    BY <1>6, <1>11 DEF IInv, HandlersExclusive
<1>13. CloserOK'
    BY <1>2 DEF CloserOK, Quiet
<1>14. PoolIsClean'
    BY <1>2, <1>6, <1>8 DEF IInv, PoolIsClean, TypeOK
<1>15. \A o \in Conns \ {c} : Sound(o)'
    <2> SUFFICES ASSUME NEW o \in Conns \ {c}
                 PROVE  Sound(o)'
        OBVIOUS
    <2>1. Sound(o) /\ (Owned(o)' <=> Owned(o))
        BY <1>2, <1>9 DEF IInv, Owned, Quiet
    <2>2. \A k \in Handlers : Uses(o, k) => hnd'[k] = hnd[k]
        BY <1>6, <1>8
    <2> QED
        BY <1>2, <1>9, <1>10, <2>1, <2>2, Frame
<1>16. Sound(c)'
    <2>1. \A k \in Handlers : ~Holds(c, k)' /\ (Uses(c, k)' => k = h)
        BY <1>2, <1>3, <1>9, RestingTask DEF Holds, Uses
    <2>2. YoungIsEmpty(c)' /\ LeavingRests(c)' /\ HeldIsMapped(c)'
        BY <1>10, <2>1 DEF YoungIsEmpty, LeavingRests, HeldIsMapped
    <2>3. ContextOf(c)' /\ FlagOf(c)'
        BY <1>2, <1>3, <1>7, <1>8, <1>9 DEF ContextOf, FlagOf, x
    <2>4. QueuesOf(c)'
        BY <1>7, <1>8, <2>1 DEF QueuesOf, OwnRequests
    <2>5. AppendOf(c)' /\ OrphanOf(c)'
        BY <1>2, <1>3, RestingTask DEF AppendOf, OrphanOf
    <2>6. DiscardedIsOver(c)'
        BY <1>2 DEF Sound, DiscardedIsOver, Past, InHand
    <2> QED
        BY <2>2, <2>3, <2>4, <2>5, <2>6 DEF Sound
<1> QED
    BY <1>10, <1>12, <1>13, <1>14, <1>15, <1>16 DEF IInv

LEMMA ClosedStep ==
    ASSUME IInv, NEW c \in Conns, Closed(c)
    PROVE  IInv'
<1>1. /\ conn[c] = "closing" /\ conn' = [conn EXCEPT ![c] = "gone"] /\ TypeOK
      /\ closer = Quiet /\ Sound(c)
      /\ UNCHANGED <<process, closer, task, sent, ran, replies, selected, discarded>>
    BY DEF Closed, IInv, history
<1>2. /\ conn' \in [Conns -> {"new", "accepting", "open", "closing", "gone"}]
      /\ conn'[c] = "gone" /\ \A o \in Conns \ {c} : conn'[o] = conn[o]
    BY <1>1 DEF TypeOK
<1>3. task[c] = Resting /\ \A k \in Handlers : ~Holds(c, k)
    BY <1>1, RestingTask DEF Sound, LeavingRests, Holds
<1>4. /\ handlers' = [handlers EXCEPT ![c] = None]
      /\ handlers' \in [Conns -> Handlers \cup {None}] /\ handlers'[c] = None
      /\ \A o \in Conns : o # c => handlers'[o] = handlers[o]
    BY <1>1 DEF Closed, TypeOK
<1>5. \A o \in Conns, k \in Handlers : Uses(o, k)' => Uses(o, k) /\ o # c /\ k # handlers[c]
    <2> SUFFICES ASSUME NEW o \in Conns, NEW k \in Handlers, Uses(o, k)'
                 PROVE  Uses(o, k) /\ o # c /\ k # handlers[c]
        OBVIOUS
    <2>1. Holds(o, k)' <=> Holds(o, k)
        BY <1>1 DEF Holds
    <2>2. Uses(o, k) /\ o # c
        BY <1>3, <1>4, <2>1, NoneAssumption DEF Uses
    <2> QED
        BY <2>2 DEF IInv, HandlersExclusive, Uses
<1>6. /\ hnd' \in [Handlers -> Handler] /\ pool' \subseteq Handlers
      /\ \A k \in Handlers : k # handlers[c] => hnd'[k] = hnd[k]
      /\ \A k \in pool' : k \in pool \/ (k = handlers[c] /\ hnd'[k] = Cleared)
    <2>1. Cleared \in Handler
        BY DEF Cleared, Handler
    <2>2. CASE handlers[c] = None
        BY <1>1, <2>2 DEF Closed, TypeOK
    <2>3. CASE handlers[c] # None
        <3>1. handlers[c] \in Handlers /\ Free(handlers[c])
            BY <1>1, <2>3 DEF Closed, TypeOK
        <3> QED
            BY <1>1, <2>1, <3>1 DEF Free, TypeOK
    <2> QED
        BY <2>2, <2>3
<1>7. TypeOK'
    BY <1>1, <1>2, <1>4, <1>6 DEF TypeOK
<1>8. HandlersExclusive'
    BY <1>5, <1>6 DEF IInv, HandlersExclusive
<1>9. CloserOK'
    BY <1>1 DEF CloserOK, Quiet
<1>10. PoolIsClean'
    <2> SUFFICES ASSUME NEW k \in pool'
                 PROVE  ~hnd'[k].mult /\ hnd'[k].queue = <<>>
        BY DEF PoolIsClean
    <2>1. CASE k = handlers[c] /\ hnd'[k] = Cleared
        BY <2>1 DEF Cleared
    <2>2. CASE k \in pool /\ k # handlers[c]
        BY <1>1, <1>6, <2>2 DEF IInv, PoolIsClean, TypeOK
    <2>3. k \in pool => k # handlers[c]
        BY <1>6 DEF IInv, HandlersExclusive, Uses
    <2> QED
        BY <1>6, <2>1, <2>2, <2>3
<1>11. \A o \in Conns \ {c} : Sound(o)'
    <2> SUFFICES ASSUME NEW o \in Conns \ {c}
                 PROVE  Sound(o)'
        OBVIOUS
    <2>1. Sound(o) /\ (Owned(o)' <=> Owned(o))
        BY <1>1, <1>4 DEF IInv, Owned, Quiet
    <2>2. \A k \in Handlers : Uses(o, k) => hnd'[k] = hnd[k]
        <3>1. \A k \in Handlers : Uses(o, k) => k # handlers[c]
            BY DEF IInv, HandlersExclusive, Uses
        <3> QED
            BY <1>6, <3>1
    <2> QED
        BY <1>1, <1>2, <1>4, <2>1, <2>2, Frame
<1>12. Sound(c)'
    <2>1. YoungIsEmpty(c)' /\ LeavingRests(c)'
        BY <1>2 DEF YoungIsEmpty, LeavingRests
    <2>2. HeldIsMapped(c)' /\ QueuesOf(c)'
        BY <1>5 DEF HeldIsMapped, QueuesOf, Uses
    <2>3. ContextOf(c)' /\ FlagOf(c)'
        BY <1>4 DEF ContextOf, FlagOf, Owned
    <2>4. AppendOf(c)' /\ OrphanOf(c)'
        BY <1>1, <1>3, RestingTask DEF AppendOf, OrphanOf
    <2>5. DiscardedIsOver(c)'
        BY <1>1 DEF Sound, DiscardedIsOver, Past, InHand
    <2> QED
        BY <2>1, <2>2, <2>3, <2>4, <2>5 DEF Sound
<1> QED
    BY <1>7, <1>8, <1>9, <1>10, <1>11, <1>12 DEF IInv

-----------------------------------------------------------------------------
(* The steps of Server.Close. *)

LEMMA NotQuiet == closer.at # "idle" => closer # Quiet
BY DEF Quiet

LEMMA CloseStep ==
    ASSUME IInv, Close
    PROVE  IInv'
<1>1. /\ closer = Quiet /\ closer' = [at |-> "flag", h |-> None, todo |-> Mapped] /\ TypeOK
      /\ UNCHANGED <<process, conn, handlers, pool, hnd, task, sent, ran, replies, selected,
                     discarded>>
    BY DEF Close, IInv, history
<1>2. Mapped \subseteq Handlers /\ \A c \in Conns : handlers[c] # None => handlers[c] \in Mapped
    BY <1>1 DEF Mapped, TypeOK
<1>3. TypeOK'
    BY <1>1, <1>2 DEF TypeOK, Closer
<1>4. HandlersExclusive' /\ PoolIsClean'
    BY <1>1 DEF IInv, HandlersExclusive, PoolIsClean, Uses, Holds
<1>5. CloserOK'
    BY <1>1 DEF CloserOK, Mapped
<1>6. \A c \in Conns : Owned(c)' <=> Owned(c)
    BY <1>1, <1>2 DEF Owned, Quiet
<1>7. \A c \in Conns : Sound(c)'
    BY <1>1, <1>6, Frame DEF IInv
<1> QED
    BY <1>3, <1>4, <1>5, <1>7 DEF IInv

\* A write of Clear to a handler that Close is clearing.
LEMMA ClearStep ==
    ASSUME IInv, NEW h \in Handlers, NEW f \in Handler, hnd' = [hnd EXCEPT ![h] = f],
           closer.at # "idle", closer'.at # "idle", closer' \in Closer,
           closer'.todo = closer.todo \ {h}, CloserOK',
           \A c \in Conns : Uses(c, h) => handlers[c] \in {h, None},
           f.ctx \in {hnd[h].ctx, None}, f.queue \in {hnd[h].queue, <<>>},
           ~f.mult \/ (h \notin closer.todo /\ f.mult = hnd[h].mult),
           UNCHANGED <<process, conn, handlers, pool, task, sent, ran, replies, selected,
                       discarded>>
    PROVE  IInv'
<1>1. TypeOK /\ closer # Quiet /\ closer' # Quiet
    BY NotQuiet DEF IInv, Quiet
<1>2. hnd' \in [Handlers -> Handler] /\ hnd'[h] = f /\ \A k \in Handlers \ {h} : hnd'[k] = hnd[k]
    BY <1>1 DEF TypeOK
<1>3. TypeOK'
    BY <1>1, <1>2 DEF TypeOK
<1>4. \A c \in Conns, k \in Handlers : (Uses(c, k)' <=> Uses(c, k)) /\ (Holds(c, k)' <=> Holds(c, k))
    BY DEF Uses, Holds
<1>5. HandlersExclusive'
    BY <1>4 DEF IInv, HandlersExclusive
<1>6. PoolIsClean'
    <2> SUFFICES ASSUME NEW k \in pool
                 PROVE  ~hnd'[k].mult /\ hnd'[k].queue = <<>>
        BY DEF PoolIsClean
    <2>1. k \in Handlers /\ ~hnd[k].mult /\ hnd[k].queue = <<>>
        BY <1>1 DEF IInv, PoolIsClean, TypeOK
    <2> QED
        BY <1>2, <2>1
<1>7. \A c \in Conns : ~Uses(c, h) => Sound(c)'
    <2> SUFFICES ASSUME NEW c \in Conns, ~Uses(c, h)
                 PROVE  Sound(c)'
        OBVIOUS
    <2>1. Sound(c) /\ (Owned(c)' <=> Owned(c))
        BY <1>1 DEF IInv, Owned, Uses
    <2>2. \A k \in Handlers : Uses(c, k) => hnd'[k] = hnd[k]
        BY <1>2
    <2> QED
        BY <1>1, <2>1, <2>2, Frame
<1>8. \A c \in Conns : Uses(c, h) => Sound(c)'
    <2> SUFFICES ASSUME NEW c \in Conns, Uses(c, h)
                 PROVE  Sound(c)'
        OBVIOUS
    <2>1. Sound(c) /\ ~Owned(c)' /\ handlers[c] \in {h, None}
        BY <1>1 DEF IInv, Owned
    <2>2. YoungIsEmpty(c)' /\ LeavingRests(c)' /\ HeldIsMapped(c)'
        BY <1>4, <2>1 DEF Sound, YoungIsEmpty, LeavingRests, HeldIsMapped
    <2>3. ContextOf(c)' /\ FlagOf(c)'
        BY <1>2, <2>1 DEF Sound, ContextOf, FlagOf, Owned
    <2>4. \A q : OwnRequests(c, q)' <=> OwnRequests(c, q)
        BY DEF OwnRequests, Past, InHand
    <2>5. QueuesOf(c)'
        <3> SUFFICES ASSUME NEW k \in Handlers, Uses(c, k)
                     PROVE  OwnRequests(c, hnd[k].queue)'
            BY <1>4 DEF QueuesOf
        <3>1. OwnRequests(c, hnd[k].queue)
            BY <2>1 DEF Sound, QueuesOf
        <3>2. hnd'[k].queue \in {hnd[k].queue, <<>>}
            BY <1>2
        <3> QED
            BY <3>1, <3>2 DEF OwnRequests, Past, InHand
    <2>6. AppendOf(c)'
        BY <2>1, <2>4 DEF Sound, AppendOf
    <2>7. OrphanOf(c)'
        <3> SUFFICES ASSUME task[c].at = "apply"
                     PROVE  ~hnd'[task[c].h].mult
            BY DEF OrphanOf
        <3>1. /\ task[c].h \in Handlers /\ \A k \in Handlers : Uses(c, k) => k = task[c].h
            BY HolderFacts
        <3>2. task[c].h = h
            BY <3>1
        <3>3. h \notin closer.todo => ~Owned(c)
            BY <1>1, <2>1 DEF Owned
        <3>4. h \notin closer.todo => ~hnd[h].mult
            BY <2>1, <3>2, <3>3 DEF Sound, OrphanOf
        <3> QED
            BY <1>2, <3>2, <3>4
    <2>8. DiscardedIsOver(c)'
        BY <2>1 DEF Sound, DiscardedIsOver, Past, InHand
    <2> QED
        BY <2>2, <2>3, <2>5, <2>6, <2>7, <2>8 DEF Sound
<1> QED
    BY <1>3, <1>5, <1>6, <1>7, <1>8 DEF IInv

\* A handler with one of its fields reset.
LEMMA ResetField ==
    ASSUME NEW g \in Handler
    PROVE  /\ \E f \in Handler : f = [g EXCEPT !.mult = FALSE] /\ f.ctx = g.ctx
                                 /\ f.queue = g.queue /\ f.mult = FALSE
           /\ \E f \in Handler : f = [g EXCEPT !.queue = <<>>] /\ f.ctx = g.ctx
                                 /\ f.queue = <<>> /\ f.mult = g.mult
           /\ \E f \in Handler : f = [g EXCEPT !.ctx = None] /\ f.ctx = None
                                 /\ f.queue = g.queue /\ f.mult = g.mult
<1>1. g \in [ctx : Context \cup {None}, mult : BOOLEAN, queue : Seq(Entry)]
    BY DEF Handler
<1>2. <<>> \in Seq(Entry)
    OBVIOUS
<1>3. /\ [g EXCEPT !.mult = FALSE] \in Handler
      /\ [g EXCEPT !.queue = <<>>] \in Handler
      /\ [g EXCEPT !.ctx = None] \in Handler
    BY <1>1, <1>2 DEF Handler
<1> QED
    BY <1>1, <1>3

\* Who uses a handler that Close is clearing has lost it, or is about to.
LEMMA ClearingFacts ==
    ASSUME IInv, NEW h \in Handlers, NEW c \in Conns, Uses(c, h)
    PROVE  handlers[c] \in {h, None}
BY DEF IInv, Sound, HeldIsMapped, Uses

LEMMA ClearFlagStep ==
    ASSUME IInv, NEW h \in Handlers, ClearFlag(h)
    PROVE  IInv'
<1>1. /\ closer.at = "flag" /\ h \in closer.todo /\ TypeOK /\ CloserOK
      /\ closer' = [at |-> "queue", h |-> h, todo |-> closer.todo \ {h}]
      /\ hnd' = [hnd EXCEPT ![h].mult = FALSE]
      /\ UNCHANGED <<process, conn, handlers, pool, task, sent, ran, replies, selected,
                     discarded>>
    BY DEF ClearFlag, IInv, history
<1>2. hnd[h] \in Handler /\ closer.todo \subseteq Handlers
    BY <1>1 DEF TypeOK, Closer
<1>3. closer' \in Closer /\ CloserOK'
    BY <1>1, <1>2 DEF Closer, CloserOK
<1>4. PICK f \in Handler : f = [hnd[h] EXCEPT !.mult = FALSE] /\ f.ctx = hnd[h].ctx
                           /\ f.queue = hnd[h].queue /\ f.mult = FALSE
    BY <1>2, ResetField
<1>5. hnd' = [hnd EXCEPT ![h] = f]
    BY <1>1, <1>4
<1> QED
    BY <1>1, <1>3, <1>4, <1>5, ClearingFacts, ClearStep

\* What Close is at, after the flag.
LEMMA CloserFacts ==
    ASSUME IInv, closer.at \in {"queue", "context"}
    PROVE  /\ closer.h \in Handlers \ closer.todo /\ hnd[closer.h] \in Handler
           /\ closer \in Closer /\ CloserOK /\ closer.todo \subseteq Handlers
BY DEF IInv, TypeOK, CloserOK, Closer

LEMMA ClearQueueStep ==
    ASSUME IInv, ClearQueue
    PROVE  IInv'
<1>1. /\ closer.at = "queue" /\ closer' = [closer EXCEPT !.at = "context"]
      /\ hnd' = [hnd EXCEPT ![closer.h].queue = <<>>]
      /\ UNCHANGED <<process, conn, handlers, pool, task, sent, ran, replies, selected,
                     discarded>>
    BY DEF ClearQueue, history
<1>2. /\ closer.h \in Handlers \ closer.todo /\ hnd[closer.h] \in Handler
      /\ closer \in Closer /\ CloserOK
    BY <1>1, CloserFacts
<1>3. /\ closer'.at = "context" /\ closer'.h = closer.h /\ closer'.todo = closer.todo
      /\ closer' \in Closer
    BY <1>1, <1>2 DEF Closer
<1>4. CloserOK'
    BY <1>1, <1>2, <1>3 DEF CloserOK
<1>5. PICK h \in Handlers : h = closer.h
    BY <1>2
<1>6. PICK f \in Handler : f = [hnd[h] EXCEPT !.queue = <<>>] /\ f.ctx = hnd[h].ctx
                           /\ f.queue = <<>> /\ f.mult = hnd[h].mult
    BY <1>2, <1>5, ResetField
<1>7. hnd' = [hnd EXCEPT ![h] = f] /\ closer'.todo = closer.todo \ {h} /\ h \notin closer.todo
    BY <1>1, <1>2, <1>3, <1>5, <1>6
<1> QED
    BY <1>1, <1>3, <1>4, <1>6, <1>7, ClearingFacts, ClearStep

LEMMA ClearContextStep ==
    ASSUME IInv, ClearContext
    PROVE  IInv'
<1>1. /\ closer.at = "context" /\ closer' = [closer EXCEPT !.at = "flag", !.h = None]
      /\ hnd' = [hnd EXCEPT ![closer.h].ctx = None]
      /\ UNCHANGED <<process, conn, handlers, pool, task, sent, ran, replies, selected,
                     discarded>>
    BY DEF ClearContext, history
<1>2. /\ closer.h \in Handlers \ closer.todo /\ hnd[closer.h] \in Handler
      /\ closer \in Closer /\ CloserOK
    BY <1>1, CloserFacts
<1>3. /\ closer'.at = "flag" /\ closer'.todo = closer.todo /\ closer' \in Closer
    BY <1>1, <1>2 DEF Closer
<1>4. CloserOK'
    BY <1>1, <1>2, <1>3 DEF CloserOK
<1>5. PICK h \in Handlers : h = closer.h
    BY <1>2
<1>6. PICK f \in Handler : f = [hnd[h] EXCEPT !.ctx = None] /\ f.ctx = None
                           /\ f.queue = hnd[h].queue /\ f.mult = hnd[h].mult
    BY <1>2, <1>5, ResetField
<1>7. hnd' = [hnd EXCEPT ![h] = f] /\ closer'.todo = closer.todo \ {h} /\ h \notin closer.todo
    BY <1>1, <1>2, <1>3, <1>5, <1>6
<1> QED
    BY <1>1, <1>3, <1>4, <1>6, <1>7, ClearingFacts, ClearStep

LEMMA ForgetStep ==
    ASSUME IInv, Forget
    PROVE  IInv'
<1>1. /\ closer.at = "flag" /\ closer.todo = {} /\ TypeOK
      /\ closer' = [closer EXCEPT !.at = "redcon"]
      /\ handlers' = [c \in Conns |-> None]
      /\ UNCHANGED <<process, conn, pool, hnd, task, sent, ran, replies, selected, discarded>>
    BY DEF Forget, IInv, history
<1>2. closer' \in Closer /\ closer'.at = "redcon" /\ closer'.todo = {}
    BY <1>1 DEF TypeOK, Closer
<1>3. TypeOK'
    BY <1>1, <1>2 DEF TypeOK
<1>4. \A c \in Conns : handlers'[c] = None /\ ~Owned(c) /\ ~Owned(c)'
    BY <1>1, NotQuiet DEF Owned
<1>5. \A c \in Conns, h \in Handlers : Uses(c, h)' => Uses(c, h)
    BY <1>1, <1>4, NoneAssumption DEF Uses, Holds
<1>6. HandlersExclusive' /\ PoolIsClean'
    BY <1>1, <1>5 DEF IInv, HandlersExclusive, PoolIsClean
<1>7. CloserOK'
    BY <1>2, <1>4 DEF CloserOK
<1>8. \A c \in Conns : Sound(c)'
    <2> SUFFICES ASSUME NEW c \in Conns
                 PROVE  Sound(c)'
        OBVIOUS
    <2>1. Sound(c)
        BY DEF IInv
    <2>2. \A q : OwnRequests(c, q)' <=> OwnRequests(c, q)
        BY <1>1 DEF OwnRequests, Past, InHand
    <2>3. YoungIsEmpty(c)' /\ LeavingRests(c)' /\ HeldIsMapped(c)'
        BY <1>1, <1>4, <2>1 DEF Sound, YoungIsEmpty, LeavingRests, HeldIsMapped
    <2>4. ContextOf(c)' /\ FlagOf(c)'
        BY <1>4 DEF ContextOf, FlagOf
    <2>5. QueuesOf(c)'
        BY <1>1, <1>5, <2>1, <2>2 DEF Sound, QueuesOf
    <2>6. AppendOf(c)' /\ OrphanOf(c)'
        BY <1>1, <1>4, <2>1, <2>2 DEF Sound, AppendOf, OrphanOf
    <2>7. DiscardedIsOver(c)'
        BY <1>1, <2>1 DEF Sound, DiscardedIsOver, Past, InHand
    <2> QED
        BY <2>3, <2>4, <2>5, <2>6, <2>7 DEF Sound
<1> QED
    BY <1>3, <1>6, <1>7, <1>8 DEF IInv

LEMMA CloseRedconStep ==
    ASSUME IInv, CloseRedcon
    PROVE  IInv'
<1>1. /\ closer.at = "redcon" /\ closer' = Quiet /\ process' = "closed" /\ TypeOK
      /\ UNCHANGED <<conn, handlers, pool, hnd, task, sent, ran, replies, selected, discarded>>
    BY DEF CloseRedcon, IInv, history
<1>2. Quiet \in Closer
    BY DEF Quiet, Closer
<1>3. TypeOK'
    BY <1>1, <1>2 DEF TypeOK
<1>4. HandlersExclusive' /\ PoolIsClean'
    BY <1>1 DEF IInv, HandlersExclusive, PoolIsClean, Uses, Holds
<1>5. CloserOK'
    BY <1>1 DEF CloserOK, Quiet
<1>6. \A c \in Conns : handlers[c] = None
    BY <1>1 DEF IInv, CloserOK
<1>7. \A c \in Conns : Owned(c)' <=> Owned(c)
    BY <1>1, <1>6 DEF Owned
<1>8. \A c \in Conns : Sound(c)'
    BY <1>1, <1>7, Frame DEF IInv
<1> QED
    BY <1>3, <1>4, <1>5, <1>8 DEF IInv

-----------------------------------------------------------------------------
(* The invariant and the theorems. *)

LEMMA InitIInv == Init => IInv
<1> SUFFICES ASSUME Init PROVE IInv
    OBVIOUS
<1>1. Quiet \in Closer
    BY DEF Quiet, Closer
<1>2. TypeOK
    <2>1. <<>> \in Seq(Nat) /\ 0 \in Dbs
        BY DbAssumption DEF Dbs
    <2> QED
        BY <1>1, NewIsClean, <2>1, RestingTask DEF Init, TypeOK
<1>3. \A c \in Conns : handlers[c] = None /\ task[c] = Resting /\ selected[c] = 0
                       /\ discarded[c] = {} /\ conn[c] = "new"
    BY DEF Init
<1>4. \A c \in Conns, h \in Handlers : ~Uses(c, h) /\ ~Holds(c, h)
    BY <1>3, RestingTask, NoneAssumption DEF Uses, Holds
<1>5. HandlersExclusive
    BY <1>4 DEF HandlersExclusive
<1>6. PoolIsClean /\ CloserOK
    BY DEF Init, PoolIsClean, CloserOK, Quiet
<1>7. \A c \in Conns : Sound(c)
    BY <1>3, <1>4, RestingTask DEF Sound, YoungIsEmpty, LeavingRests, HeldIsMapped, ContextOf,
                                   QueuesOf, FlagOf, Owned, AppendOf, OrphanOf, DiscardedIsOver
<1> QED
    BY <1>2, <1>5, <1>6, <1>7 DEF IInv

LEMMA NextKeepsIInv == IInv /\ [Next]_vars => IInv'
<1> SUFFICES ASSUME IInv, [Next]_vars PROVE IInv'
    OBVIOUS
<1>1. CASE Close \/ Closing
    BY <1>1, CloseStep, ClearFlagStep, ClearQueueStep, ClearContextStep, ForgetStep,
       CloseRedconStep DEF Closing
<1>2. ASSUME NEW c \in Conns,
             \/ Arrive(c) \/ Accept(c) \/ Leave(c) \/ Closed(c)
             \/ \E req \in Request : Receive(c, req)
      PROVE  IInv'
    BY <1>2, ArriveStep, AcceptStep, LeaveStep, ClosedStep, ReceiveStep
<1>3. ASSUME NEW c \in Conns, Serve(c)
      PROVE  IInv'
    BY <1>3, LookupStep, ApplyMultiStep, ApplyDiscardStep, ApplyExecStep, ApplyBadStep,
       ApplyQueueStep, QueueAppendStep, ApplyRunStep, ExecNextStep, ExecEndStep DEF Serve
<1>4. CASE UNCHANGED vars
    <2>1. TypeOK'
        BY <1>4 DEF IInv, TypeOK, vars
    <2>2. HandlersExclusive' /\ PoolIsClean' /\ CloserOK'
        BY <1>4 DEF IInv, HandlersExclusive, PoolIsClean, CloserOK, Uses, Holds, Quiet, vars
    <2>3. \A c \in Conns : Sound(c)'
        BY <1>4, Frame DEF IInv, Owned, Quiet, vars
    <2> QED
        BY <2>1, <2>2, <2>3 DEF IInv
<1> QED
    BY <1>1, <1>2, <1>3, <1>4 DEF Next

LEMMA IInvAlways == Spec => []IInv
BY InitIInv, NextKeepsIInv, PTL DEF Spec

\* The types of the variables of the sessions: in particular a context never
\* names a database beyond the 256 that a uint8 can number (sel.go).
THEOREM TypeCorrect == Spec => []TypeOK
<1>1. IInv => TypeOK
    BY DEF IInv
<1> QED
    BY <1>1, IInvAlways, PTL

\* A handler serves one connection at a time, whatever the interleaving of
\* accepts, requests, closed connections and Server.Close (pool.go, server.go).
THEOREM HandlersAreExclusive == Spec => []HandlersExclusive
<1>1. IInv => HandlersExclusive
    BY DEF IInv
<1> QED
    BY <1>1, IInvAlways, PTL

\* A handler in the map carries the connection and the database of its own
\* session, however many sessions used it before, until Close has begun to
\* clear it (pool.go, sel.go, clear.go).
THEOREM ContextCorrect == Spec => []SessionContext
<1>1. IInv => SessionContext
    BY DEF IInv, Sound, ContextOf, SessionContext
<1> QED
    BY <1>1, IInvAlways, PTL

\* A transaction holds requests of its own connection, in the order sent, also
\* when Close empties it at any moment of an append (apply.go, clear.go); and
\* none outside MULTI.
THEOREM QueueCorrect == Spec => []QueueBelongsToSession
<1>1. IInv => QueueBelongsToSession
    <2> SUFFICES ASSUME IInv, NEW c \in Conns, handlers[c] # None,
                        NEW h \in Handlers, h = handlers[c]
                 PROVE  LET q == hnd[h].queue IN
                        /\ Owned(c) /\ ~hnd[h].mult => q = <<>>
                        /\ \A i \in DOMAIN q :
                            /\ q[i].conn = c /\ q[i].n <= sent[c]
                            /\ \A j \in DOMAIN q : i < j => q[i].n < q[j].n
        BY DEF QueueBelongsToSession, IInv, TypeOK
    <2>1. Sound(c)
        BY DEF IInv
    <2>2. OwnRequests(c, hnd[h].queue)
        BY <2>1 DEF Sound, QueuesOf, Uses
    <2>3. Owned(c) /\ ~hnd[h].mult => hnd[h].queue = <<>>
        BY <2>1 DEF Sound, FlagOf
    <2> QED
        BY <2>2, <2>3 DEF OwnRequests, Past
<1> QED
    BY <1>1, IInvAlways, PTL

\* The last entry that a step adds to the history of runs.
LEMMA LastRun ==
    ASSUME TypeOK, NEW c \in Conns, NEW h \in Handlers, NEW n \in Nat, NEW req \in Request,
           Run(c, h, n, req)
    PROVE  /\ \A o \in Conns \ {c} : ran'[o] = ran[o]
           /\ ran'[c][Len(ran'[c])] = n
<1>1. /\ ran'[c] = Append(ran[c], n)
      /\ \A o \in Conns \ {c} : ran'[o] = ran[o]
    BY DEF Run, TypeOK
<1>2. ran[c] \in Seq(Nat)
    BY DEF TypeOK
<1> QED
    BY <1>1, <1>2

LEMMA DiscardedStep ==
    ASSUME IInv, Next, NEW o \in Conns, ran'[o] # ran[o]
    PROVE  ran'[o][Len(ran'[o])] \notin discarded[o]
<1>1. TypeOK
    BY DEF IInv
<1>2. PICK c \in Conns : ApplyRun(c) \/ ExecNext(c)
    <2>1. ~Close /\ ~Closing
        BY DEF Close, Closing, ClearFlag, ClearQueue, ClearContext, Forget, CloseRedcon, history
    <2>2. \A c \in Conns : ~Arrive(c) /\ ~Accept(c) /\ ~Leave(c) /\ ~Closed(c)
                           /\ \A req \in Request : ~Receive(c, req)
        BY DEF Arrive, Accept, Leave, Closed, Receive, history
    <2>3. \A c \in Conns : ~Lookup(c) /\ ~ApplyMulti(c) /\ ~ApplyDiscard(c) /\ ~ApplyExec(c)
                           /\ ~ApplyBad(c) /\ ~ApplyQueue(c) /\ ~QueueAppend(c) /\ ~ExecEnd(c)
        BY DEF Lookup, ApplyMulti, ApplyDiscard, ApplyExec, ApplyBad, ApplyQueue, QueueAppend,
               ExecEnd, history
    <2> QED
        BY <2>1, <2>2, <2>3 DEF Next, Serve
<1>3. \A h, req : ~Die(h, req)
    BY DEF Die, history
<1>4. CASE ApplyRun(c)
    <2>1. /\ task[c].at = "apply" /\ Run(c, task[c].h, sent[c], task[c].req)
        BY <1>3, <1>4 DEF ApplyRun, Applying
    <2>2. task[c] \in Task /\ sent[c] \in Nat
        BY <1>1 DEF TypeOK
    <2>3. task[c].h \in Handlers /\ task[c].req \in Request
        BY <2>1, <2>2 DEF Task, Resting
    <2>4. o = c /\ ran'[c][Len(ran'[c])] = sent[c]
        BY <1>1, <2>1, <2>2, <2>3, LastRun
    <2>5. \A n \in discarded[c] : n < sent[c]
        BY <2>1 DEF IInv, Sound, DiscardedIsOver, Past, InHand
    <2> QED
        BY <2>2, <2>4, <2>5
<1>5. CASE ExecNext(c)
    <2> DEFINE e == Head(task[c].todo)
    <2>1. /\ task[c].at = "exec" /\ task[c].todo # <<>> /\ Run(c, task[c].h, e.n, e.req)
        BY <1>3, <1>5 DEF ExecNext
    <2>2. task[c] \in Task
        BY <1>1 DEF TypeOK
    <2>3. task[c].h \in Handlers /\ task[c].todo \in Seq(Entry)
        BY <2>1, <2>2 DEF Task, Resting
    <2>4. e \in Entry
        BY <1>1, <2>1, ExecTask
    <2>5. e = task[c].todo[1] /\ 1 \in DOMAIN task[c].todo
        BY <2>1, <2>3
    <2>6. e.n \notin discarded[c]
        BY <2>1, <2>5 DEF IInv, Sound, DiscardedIsOver
    <2> HIDE DEF e
    <2>7. o = c /\ ran'[c][Len(ran'[c])] = e.n
        BY <1>1, <2>1, <2>3, <2>4, LastRun DEF Entry
    <2> QED
        BY <2>6, <2>7
<1> QED
    BY <1>2, <1>4, <1>5

\* What DISCARD dropped is never run: not by the request in hand, and not by an
\* EXEC, even though EXEC leaves its queue in place (apply.go, exec.go).
THEOREM DiscardIsFinal == Spec => DiscardedNeverRuns
<1> DEFINE A == \A c \in Conns :
                  ran'[c] # ran[c] => ran'[c][Len(ran'[c])] \notin discarded[c]
<1>1. IInv /\ [Next]_vars => [A]_vars
    BY DiscardedStep
<1> QED
    BY <1>1, IInvAlways, PTL DEF Spec, DiscardedNeverRuns

-----------------------------------------------------------------------------
(* The refinement: the server implements Dialogues. *)

\* What c has in hand, seen as a dialogue, depends on its own task only.
LEMMA HandMaps ==
    ASSUME task \in [Conns -> Task], NEW c \in Conns, NEW x, task' = [task EXCEPT ![c] = x]
    PROVE  HandOf' = [HandOf EXCEPT ![c] = HandAs(x)]
<1>1. \A o \in Conns : HandOf'[o] = IF o = c THEN HandAs(x) ELSE HandOf[o]
    BY DEF HandOf, HandAs
<1> QED
    BY <1>1 DEF HandOf

LEMMA HandFacts ==
    ASSUME NEW c \in Conns
    PROVE  /\ task[c].at \in {"lookup", "apply", "append"} =>
                 HandOf[c].at = "asked" /\ HandOf[c].req = task[c].req
           /\ task[c].at = "exec" =>
                 /\ HandOf[c].at = "exec"
                 /\ HandOf[c].todo = task[c].todo /\ HandOf[c].results = task[c].results
           /\ task[c] = Resting => HandOf[c] = Resting
BY DEF HandOf, HandAs, Resting

LEMMA AnswerMaps ==
    ASSUME task \in [Conns -> Task], NEW c \in Conns, NEW n, Answer(c, n)
    PROVE  Abstract!Reply(c, n)
<1>1. HandAs(Resting) = Abstract!Idle
    BY DEF HandAs, Resting, Abstract!Idle
<1>2. HandOf' = [HandOf EXCEPT ![c] = Abstract!Idle]
    BY <1>1, HandMaps DEF Answer
<1> QED
    BY <1>2 DEF Answer, Abstract!Reply

\* A connection has a session as long as the map has a handler for it that Close
\* has not begun to clear, and it is that handler.
LEMMA SessionFacts ==
    ASSUME TypeOK, NEW c \in Conns
    PROVE  /\ Abstract!Live(c) <=> Owned(c)
           /\ Owned(c) => SessionOf[c] = hnd[handlers[c]]
           /\ ~Owned(c) => SessionOf[c] = None
<1>1. Owned(c) => hnd[handlers[c]] \in Handler
    BY DEF TypeOK, Owned
<1> QED
    BY <1>1, SessionAssumption DEF SessionOf, Abstract!Live

\* The sessions change where their handlers do, or where they end.
LEMMA SessionsBut ==
    ASSUME NEW c \in Conns, NEW x,
           Owned(c)' => hnd'[handlers'[c]] = x,
           ~Owned(c)' => x = None,
           \A o \in Conns \ {c} :
              /\ Owned(o)' <=> Owned(o)
              /\ Owned(o) => hnd'[handlers'[o]] = hnd[handlers[o]]
    PROVE  SessionOf' = [SessionOf EXCEPT ![c] = x]
<1>1. \A o \in Conns : SessionOf'[o] = IF o = c THEN x ELSE SessionOf[o]
    BY DEF SessionOf
<1> QED
    BY <1>1 DEF SessionOf

\* A request that changes its own handler changes its own session, if it has one.
LEMMA SessionMaps ==
    ASSUME IInv, NEW c \in Conns, task[c].at \in {"apply", "append", "exec"},
           NEW g \in Handlers, g = task[c].h, UNCHANGED <<handlers, closer>>,
           NEW f, hnd' = [hnd EXCEPT ![g] = f]
    PROVE  /\ ~Owned(c) => SessionOf' = SessionOf
           /\ Owned(c) => /\ handlers[c] = g /\ SessionOf[c] = hnd[g]
                          /\ SessionOf' = [SessionOf EXCEPT ![c] = f]
<1>1. hnd'[g] = f /\ \A h \in Handlers \ {g} : hnd'[h] = hnd[h]
    BY DEF IInv, TypeOK
<1>2. handlers[c] \in {g, None}
    BY HolderFacts
<1>3. \A o \in Conns \ {c} : handlers[o] # g
    <2>1. Uses(c, g)
        BY HolderFacts
    <2> QED
        BY <2>1 DEF Uses, IInv, HandlersExclusive
<1>4. \A o \in Conns : (Owned(o)' <=> Owned(o)) /\ (Owned(o) => handlers[o] \in Handlers)
    BY DEF IInv, TypeOK, Owned, Quiet
<1>5. \A o \in Conns \ {c} : Owned(o) => hnd'[handlers'[o]] = hnd[handlers[o]]
    BY <1>1, <1>3, <1>4
<1>6. CASE ~Owned(c)
    <2>1. SessionOf' = [SessionOf EXCEPT ![c] = None]
        BY <1>4, <1>5, <1>6, SessionsBut
    <2> QED
        BY <1>6, <2>1 DEF SessionOf
<1>7. CASE Owned(c)
    <2>1. handlers[c] = g /\ SessionOf[c] = hnd[g]
        BY <1>2, <1>7 DEF Owned, SessionOf
    <2>2. SessionOf' = [SessionOf EXCEPT ![c] = f]
        BY <1>1, <1>4, <1>5, <1>7, <2>1, SessionsBut
    <2> QED
        BY <1>7, <2>1, <2>2
<1> QED
    BY <1>6, <1>7

LEMMA SameSessions ==
    ASSUME UNCHANGED <<hnd, handlers, closer>>
    PROVE  SessionOf' = SessionOf
BY DEF SessionOf, Owned, Quiet

LEMMA SamePhases ==
    ASSUME conn' = conn
    PROVE  PhaseOf' = PhaseOf
BY DEF PhaseOf

LEMMA SameProcess ==
    ASSUME UNCHANGED <<process, closer>>
    PROVE  ProcessOf' = ProcessOf
BY DEF ProcessOf, Quiet

LEMMA ProcessFacts ==
    ASSUME TypeOK
    PROVE  /\ process # "dead" => ProcessOf # "dead"
           /\ closer = Quiet => ProcessOf # "closing"
BY DEF ProcessOf, TypeOK

LEMMA InitMaps == Init => Abstract!Init
<1> SUFFICES ASSUME Init PROVE Abstract!Init
    OBVIOUS
<1>1. ProcessOf = "serving"
    BY DEF Init, ProcessOf
<1>2. SessionOf = [c \in Conns |-> None]
    BY DEF Init, SessionOf, Owned
<1>3. PhaseOf = [c \in Conns |-> "before"] /\ HandOf = [c \in Conns |-> Abstract!Idle]
    BY RestingTask DEF Init, PhaseOf, HandOf, HandAs, Resting, Abstract!Idle
<1> QED
    BY <1>1, <1>2, <1>3 DEF Init, Abstract!Init

LEMMA ArriveMaps ==
    ASSUME IInv, NEW c \in Conns, Arrive(c) \/ Leave(c)
    PROVE  UNCHANGED Abstract!vars
<1>1. PhaseOf' = PhaseOf
    <2>1. conn \in [Conns -> {"new", "accepting", "open", "closing", "gone"}]
        BY DEF IInv, TypeOK
    <2>2. \A o \in Conns : PhaseOf'[o] = PhaseOf[o]
        BY <2>1 DEF Arrive, Leave, PhaseOf
    <2> QED
        BY <2>2 DEF PhaseOf
<1>2. HandOf' = HandOf /\ UNCHANGED <<process, closer, handlers, hnd>>
    BY DEF Arrive, Leave, HandOf
<1> QED
    BY <1>1, <1>2, SameSessions, SameProcess DEF Arrive, Leave, history, Abstract!vars

LEMMA PhaseMaps ==
    ASSUME TypeOK, NEW c \in Conns, NEW x \in {"open", "gone"}, conn' = [conn EXCEPT ![c] = x]
    PROVE  PhaseOf' = [PhaseOf EXCEPT ![c] = IF x = "open" THEN "open" ELSE "after"]
<1>1. conn \in [Conns -> {"new", "accepting", "open", "closing", "gone"}]
    BY DEF TypeOK
<1>2. \A o \in Conns : PhaseOf'[o] = IF o = c THEN IF x = "open" THEN "open" ELSE "after"
                                              ELSE PhaseOf[o]
    BY <1>1 DEF PhaseOf
<1> QED
    BY <1>2 DEF PhaseOf

\* A clean handler that is given a context is a fresh session.
LEMMA CleanWithContext ==
    ASSUME NEW g \in Handler, g.mult = FALSE, g.queue = <<>>, NEW x
    PROVE  [g EXCEPT !.ctx = x] = [ctx |-> x, mult |-> FALSE, queue |-> <<>>]
<1> DEFINE f == [g EXCEPT !.ctx = x]
<1>1. g \in [ctx : Context \cup {None}, mult : BOOLEAN, queue : Seq(Entry)]
    BY DEF Handler
<1>2. f.ctx = x /\ f.mult = g.mult /\ f.queue = g.queue
    BY <1>1
<1>3. f = [ctx |-> f.ctx, mult |-> f.mult, queue |-> f.queue]
    BY <1>1
<1> HIDE DEF f
<1>4. f = [ctx |-> x, mult |-> FALSE, queue |-> <<>>]
    BY <1>2, <1>3
<1> QED
    BY <1>4 DEF f

LEMMA AcceptMaps ==
    ASSUME IInv, NEW c \in Conns, Accept(c)
    PROVE  Abstract!Open(c)
<1> DEFINE ctx == [conn |-> c, db |-> 0]
<1>1. PICK g \in Handlers : Get(ctx, g) /\ handlers' = [handlers EXCEPT ![c] = g]
    BY DEF Accept
<1>2. /\ hnd \in [Handlers -> Handler] /\ handlers \in [Conns -> Handlers \cup {None}]
      /\ task' = task /\ conn[c] = "accepting" /\ conn' = [conn EXCEPT ![c] = "open"]
      /\ closer = Quiet /\ TypeOK /\ UNCHANGED <<process, closer>>
    BY DEF Accept, IInv, TypeOK
<1>3. hnd'[g] = Abstract!Fresh(c)
    <2>1. CASE g \in pool /\ hnd' = [hnd EXCEPT ![g].ctx = ctx]
        <3>1. hnd[g] \in Handler /\ hnd[g].mult \in BOOLEAN
            BY <1>2 DEF Handler
        <3>2. hnd[g].mult = FALSE /\ hnd[g].queue = <<>>
            BY <2>1, <3>1 DEF IInv, PoolIsClean
        <3>3. hnd'[g] = [hnd[g] EXCEPT !.ctx = ctx]
            BY <1>2, <2>1
        <3> HIDE DEF ctx
        <3>4. [hnd[g] EXCEPT !.ctx = ctx] = [ctx |-> ctx, mult |-> FALSE, queue |-> <<>>]
            BY <3>1, <3>2, CleanWithContext
        <3> QED
            BY <3>3, <3>4 DEF Abstract!Fresh, ctx
    <2>2. CASE hnd' = [hnd EXCEPT ![g] = [New EXCEPT !.ctx = ctx]]
        <3>1. hnd'[g] = [New EXCEPT !.ctx = ctx]
            BY <1>2, <2>2
        <3> HIDE DEF ctx
        <3>2. [New EXCEPT !.ctx = ctx] = [ctx |-> ctx, mult |-> FALSE, queue |-> <<>>]
            BY NewIsClean, CleanWithContext
        <3> QED
            BY <3>1, <3>2 DEF Abstract!Fresh, ctx
    <2> QED
        BY <1>1, <2>1, <2>2 DEF Get
<1>4. \A h \in Handlers \ {g} : hnd'[h] = hnd[h]
    BY <1>1, <1>2 DEF Get
<1>5. \A o \in Conns : handlers[o] # g
    BY <1>1 DEF Get, Unreferenced, Uses, IInv, HandlersExclusive
<1>6. \A o \in Conns : handlers'[o] = IF o = c THEN g ELSE handlers[o]
    BY <1>1, <1>2
<1>7. SessionOf' = [SessionOf EXCEPT ![c] = Abstract!Fresh(c)]
    <2>1. Owned(c)' /\ \A o \in Conns \ {c} : Owned(o)' <=> Owned(o)
        BY <1>2, <1>6, NoneAssumption DEF Owned, Quiet
    <2>2. \A o \in Conns \ {c} : Owned(o) => hnd'[handlers'[o]] = hnd[handlers[o]]
        BY <1>2, <1>4, <1>5, <1>6 DEF Owned
    <2> QED
        BY <1>3, <1>6, <2>1, <2>2, SessionsBut
<1>8. PhaseOf[c] = "before" /\ PhaseOf' = [PhaseOf EXCEPT ![c] = "open"]
    BY <1>2, PhaseMaps DEF PhaseOf, IInv
<1>9. HandOf' = HandOf
    BY <1>2 DEF HandOf
<1> QED
    BY <1>2, <1>7, <1>8, <1>9, SameProcess, ProcessFacts DEF Accept, history, Abstract!Open

LEMMA ClosedMaps ==
    ASSUME IInv, NEW c \in Conns, Closed(c)
    PROVE  Abstract!End(c)
<1>1. /\ hnd \in [Handlers -> Handler] /\ handlers \in [Conns -> Handlers \cup {None}]
      /\ task' = task /\ closer = Quiet /\ TypeOK /\ UNCHANGED <<process, closer>>
      /\ conn[c] = "closing" /\ conn' = [conn EXCEPT ![c] = "gone"]
    BY DEF Closed, IInv, TypeOK
<1>2. PhaseOf[c] = "open" /\ PhaseOf' = [PhaseOf EXCEPT ![c] = "after"]
    BY <1>1, PhaseMaps DEF PhaseOf, IInv
<1>3. task[c] = Resting
    BY <1>1 DEF IInv, Sound, LeavingRests
<1>4. HandOf' = HandOf /\ HandOf[c] = Abstract!Idle
    BY <1>1, <1>3, HandFacts DEF HandOf, Resting, Abstract!Idle
<1>5. handlers' = [handlers EXCEPT ![c] = None]
    BY <1>1 DEF Closed
<1>6. \A o \in Conns \ {c} : handlers[o] # None => hnd'[handlers[o]] = hnd[handlers[o]]
    <2>1. \A o \in Conns \ {c} : handlers[o] # None => handlers[o] # handlers[c]
        BY <1>1 DEF IInv, HandlersExclusive, Uses
    <2> QED
        BY <1>1, <2>1 DEF Closed, Free
<1>7. ~Owned(c)' /\ \A o \in Conns \ {c} : Owned(o)' <=> Owned(o)
    BY <1>1, <1>5 DEF Owned, Quiet
<1>8. \A o \in Conns \ {c} : Owned(o) => hnd'[handlers'[o]] = hnd[handlers[o]]
    BY <1>1, <1>5, <1>6 DEF Owned
<1>9. SessionOf' = [SessionOf EXCEPT ![c] = None]
    BY <1>7, <1>8, SessionsBut
<1> QED
    BY <1>1, <1>2, <1>4, <1>9, SameProcess, ProcessFacts DEF Closed, history, Abstract!End

\* While Close is under way, and the process lives, the dialogues are closing.
LEMMA ClosingProcess ==
    ASSUME process # "dead", closer.at # "idle"
    PROVE  ProcessOf = "closing"
BY NotQuiet DEF ProcessOf

LEMMA CloseMaps ==
    ASSUME IInv, Close
    PROVE  Abstract!Shutdown
<1>1. /\ closer = Quiet /\ closer' = [at |-> "flag", h |-> None, todo |-> Mapped] /\ TypeOK
      /\ process # "dead"
      /\ UNCHANGED <<process, conn, handlers, pool, hnd, task, sent, ran, replies>>
    BY DEF Close, IInv, history
<1>2. ProcessOf # "closing" /\ ProcessOf' = "closing"
    <2>1. closer' # Quiet
        BY <1>1 DEF Quiet
    <2> QED
        BY <1>1, <2>1, ProcessFacts DEF ProcessOf
<1>3. \A c \in Conns : Owned(c)' <=> Owned(c)
    BY <1>1 DEF Owned, Quiet, Mapped
<1>4. SessionOf' = SessionOf
    BY <1>1, <1>3 DEF SessionOf
<1>5. PhaseOf' = PhaseOf /\ HandOf' = HandOf
    BY <1>1 DEF PhaseOf, HandOf
<1> QED
    BY <1>1, <1>2, <1>4, <1>5 DEF Abstract!Shutdown

\* The first write of Clear ends the session.
LEMMA ClearFlagMaps ==
    ASSUME IInv, NEW h \in Handlers, ClearFlag(h)
    PROVE  \E c \in Conns : Abstract!Take(c)
<1>1. /\ closer.at = "flag" /\ h \in closer.todo /\ TypeOK /\ CloserOK
      /\ closer' = [at |-> "queue", h |-> h, todo |-> closer.todo \ {h}]
      /\ hnd' = [hnd EXCEPT ![h].mult = FALSE] /\ process # "dead"
      /\ UNCHANGED <<process, conn, handlers, pool, task, sent, ran, replies>>
    BY DEF ClearFlag, IInv, history
<1>2. closer # Quiet /\ closer' # Quiet
    BY <1>1 DEF Quiet
<1>3. PICK c \in Conns : handlers[c] = h
    BY <1>1 DEF CloserOK
<1>4. \A o \in Conns \ {c} : handlers[o] # h
    BY <1>3 DEF IInv, HandlersExclusive, Uses
<1>5. Owned(c) /\ ~Owned(c)' /\ \A o \in Conns \ {c} : Owned(o)' <=> Owned(o)
    BY <1>1, <1>2, <1>3, <1>4, NoneAssumption DEF Owned
<1>6. \A o \in Conns \ {c} : Owned(o) => hnd'[handlers'[o]] = hnd[handlers[o]]
    <2>1. \A k \in Handlers \ {h} : hnd'[k] = hnd[k]
        BY <1>1 DEF TypeOK
    <2> QED
        BY <1>1, <1>4, <2>1 DEF TypeOK, Owned
<1>7. SessionOf' = [SessionOf EXCEPT ![c] = None]
    BY <1>5, <1>6, SessionsBut
<1>8. Abstract!Live(c)
    BY <1>1, <1>5, SessionFacts
<1>9. ProcessOf = "closing" /\ ProcessOf' = "closing"
    BY <1>1, <1>2 DEF ProcessOf
<1>10. PhaseOf' = PhaseOf /\ HandOf' = HandOf
    BY <1>1 DEF PhaseOf, HandOf
<1> QED
    BY <1>1, <1>7, <1>8, <1>9, <1>10 DEF Abstract!Take

\* The others touch no session, and the new map has none.
LEMMA ClearRestMaps ==
    ASSUME IInv, ClearQueue \/ ClearContext \/ Forget
    PROVE  UNCHANGED Abstract!vars
<1>1. /\ closer.at # "idle" /\ closer'.at # "idle" /\ process # "dead" /\ TypeOK
      /\ UNCHANGED <<process, conn, pool, task, sent, ran, replies>>
    BY DEF ClearQueue, ClearContext, Forget, history, IInv, TypeOK, Closer
<1>2. closer # Quiet /\ closer' # Quiet
    BY <1>1 DEF Quiet
<1>3. ProcessOf' = ProcessOf
    BY <1>1, <1>2 DEF ProcessOf
<1>4. PhaseOf' = PhaseOf /\ HandOf' = HandOf
    BY <1>1 DEF PhaseOf, HandOf
<1>5. CASE ClearQueue \/ ClearContext
    <2>1. /\ closer.h \in Handlers \ closer.todo /\ closer'.todo = closer.todo
          /\ handlers' = handlers
        BY <1>5, CloserFacts DEF ClearQueue, ClearContext, Closer
    <2>2. \A k \in Handlers \ {closer.h} : hnd'[k] = hnd[k]
        BY <1>1, <1>5 DEF ClearQueue, ClearContext, TypeOK
    <2>3. \A o \in Conns : Owned(o)' <=> Owned(o)
        BY <1>2, <2>1 DEF Owned
    <2>4. \A o \in Conns : Owned(o) => hnd'[handlers'[o]] = hnd[handlers[o]]
        BY <1>1, <1>2, <2>1, <2>2 DEF Owned, TypeOK
    <2>5. SessionOf' = SessionOf
        BY <2>3, <2>4 DEF SessionOf
    <2> QED
        BY <1>1, <1>3, <1>4, <2>5 DEF Abstract!vars
<1>6. CASE Forget
    <2>1. \A o \in Conns : ~Owned(o) /\ ~Owned(o)'
        BY <1>2, <1>6 DEF Forget, Owned
    <2>2. SessionOf' = SessionOf
        BY <2>1 DEF SessionOf
    <2> QED
        BY <1>1, <1>3, <1>4, <2>2 DEF Abstract!vars
<1> QED
    BY <1>5, <1>6

LEMMA CloseRedconMaps ==
    ASSUME IInv, CloseRedcon
    PROVE  Abstract!Finish
<1>1. /\ closer.at = "redcon" /\ closer' = Quiet /\ process' = "closed" /\ process # "dead"
      /\ UNCHANGED <<conn, handlers, pool, hnd, task, sent, ran, replies>> /\ TypeOK
    BY DEF CloseRedcon, history, IInv
<1>2. \A c \in Conns : handlers[c] = None
    BY <1>1 DEF IInv, CloserOK
<1>3. \A c \in Conns : ~Owned(c) /\ ~Owned(c)'
    BY <1>1, <1>2 DEF Owned
<1>4. SessionOf' = SessionOf /\ \A c \in Conns : ~Abstract!Live(c)
    BY <1>1, <1>3, SessionFacts DEF SessionOf
<1>5. ProcessOf = "closing" /\ ProcessOf' = "closed"
    BY <1>1, ClosingProcess DEF ProcessOf
<1>6. PhaseOf' = PhaseOf /\ HandOf' = HandOf
    BY <1>1 DEF PhaseOf, HandOf
<1> QED
    BY <1>1, <1>4, <1>5, <1>6 DEF Abstract!Finish

LEMMA ReceiveMaps ==
    ASSUME IInv, NEW c \in Conns, NEW req \in Request, Receive(c, req)
    PROVE  Abstract!Ask(c, req)
<1> DEFINE x == [at |-> "lookup", req |-> req, tries |-> 0]
<1>1. /\ task \in [Conns -> Task] /\ task' = [task EXCEPT ![c] = x]
      /\ conn[c] = "open" /\ task[c] = Resting
      /\ UNCHANGED <<process, closer, conn, handlers, pool, hnd, ran, replies>>
    BY DEF Receive, IInv, TypeOK
<1>2. HandAs(x) = [at |-> "asked", req |-> req]
    BY DEF HandAs
<1> HIDE DEF x
<1>3. HandOf' = [HandOf EXCEPT ![c] = [at |-> "asked", req |-> req]]
    BY <1>1, <1>2, HandMaps
<1>4. PhaseOf[c] = "open" /\ HandOf[c] = Abstract!Idle
    BY <1>1, HandFacts DEF PhaseOf, Resting, Abstract!Idle
<1> QED
    BY <1>1, <1>3, <1>4, SameSessions, SamePhases, SameProcess DEF Receive, Abstract!Ask

\* The turns of the loop are hidden; the last of them, without a handler, is a
\* refusal.
LEMMA LookupMaps ==
    ASSUME IInv, NEW c \in Conns, Lookup(c)
    PROVE  Abstract!Refuse(c) \/ UNCHANGED Abstract!vars
<1>1. /\ task \in [Conns -> Task] /\ task[c].at = "lookup" /\ TypeOK
      /\ UNCHANGED <<process, closer, conn, handlers, pool, hnd, sent, ran>>
    BY DEF Lookup, IInv, TypeOK
<1>2. task[c] \in [at : {"lookup"}, req : Request, tries : 0..(Tries - 1)]
    BY <1>1 DEF Task, Resting
<1>3. ASSUME NEW x, task' = [task EXCEPT ![c] = x], x.at \in {"lookup", "apply"},
             x.req = task[c].req, replies' = replies
      PROVE  UNCHANGED Abstract!vars
    <2>1. HandAs(x) = HandOf[c]
        BY <1>1, <1>3 DEF HandAs, HandOf
    <2>2. HandOf' = HandOf
        BY <1>1, <1>3, <2>1, HandMaps DEF HandOf
    <2> QED
        BY <1>1, <1>3, <2>2, SameSessions, SamePhases, SameProcess DEF Abstract!vars
<1>4. CASE UNCHANGED replies
           /\ task' = [task EXCEPT ![c] = [at |-> "apply", req |-> task[c].req, h |-> handlers[c]]]
    BY <1>3, <1>4
<1>5. CASE UNCHANGED replies /\ task' = [task EXCEPT ![c].tries = @ + 1]
    <2> DEFINE x == [task[c] EXCEPT !.tries = @ + 1]
    <2>1. task' = [task EXCEPT ![c] = x] /\ x.at = "lookup" /\ x.req = task[c].req
        BY <1>2, <1>5
    <2> HIDE DEF x
    <2> QED
        BY <1>3, <1>5, <2>1
<1>6. CASE handlers[c] = None /\ Answer(c, 1)
    <2>1. HandOf[c].at = "asked" /\ ~Abstract!Live(c) /\ Abstract!Reply(c, 1)
        BY <1>1, <1>6, HandFacts, SessionFacts, AnswerMaps DEF Owned
    <2> QED
        BY <1>1, <2>1, SameSessions, SamePhases, SameProcess DEF Abstract!Refuse
<1> QED
    BY <1>4, <1>5, <1>6 DEF Lookup

\* A request that c answers without running a command is a refusal, or notes
\* something in the session, if it has one.
LEMMA NoteMaps ==
    ASSUME IInv, NEW c \in Conns, task[c].at \in {"apply", "append"}, Answer(c, 1),
           UNCHANGED <<process, closer, conn, handlers, sent, ran>>,
           NEW g \in Handlers, g = task[c].h, NEW f, hnd' = [hnd EXCEPT ![g] = f],
           Owned(c) =>
              \/ task[c].req.name = "MULTI" /\ f = [hnd[g] EXCEPT !.mult = TRUE]
              \/ /\ task[c].req.name = "DISCARD"
                 /\ f = [ctx |-> hnd[g].ctx, mult |-> FALSE, queue |-> <<>>]
              \/ /\ task[c].req.name \in Commands /\ hnd[g].mult
                 /\ f = [hnd[g] EXCEPT !.queue =
                           Append(@, [conn |-> c, n |-> sent[c], req |-> task[c].req])]
    PROVE  Abstract!Refuse(c) \/ Abstract!Note(c)
<1>1. /\ Abstract!Reply(c, 1) /\ PhaseOf' = PhaseOf /\ ProcessOf' = ProcessOf
      /\ TypeOK /\ UNCHANGED <<sent, ran>>
    BY AnswerMaps, SamePhases, SameProcess DEF IInv, TypeOK
<1>2. /\ HandOf[c].at = "asked" /\ HandOf[c].req = task[c].req
      /\ \A names : Abstract!Asked(c, names) <=> task[c].req.name \in names
    BY HandFacts DEF Abstract!Asked
<1>3. CASE ~Owned(c)
    BY <1>1, <1>2, <1>3, SessionFacts, SessionMaps DEF Abstract!Refuse
<1>4. CASE Owned(c)
    <2>1. Abstract!Live(c)
        BY <1>1, <1>4, SessionFacts
    <2>2. SessionOf[c] = hnd[g] /\ SessionOf' = [SessionOf EXCEPT ![c] = f]
        BY <1>4, SessionMaps
    <2>3. CASE task[c].req.name = "MULTI" /\ f = [hnd[g] EXCEPT !.mult = TRUE]
        <3>1. SessionOf' = [SessionOf EXCEPT ![c].mult = TRUE]
            BY <2>2, <2>3
        <3> QED
            BY <1>1, <1>2, <2>1, <2>3, <3>1 DEF Abstract!Note
    <2>4. CASE /\ task[c].req.name = "DISCARD"
               /\ f = [ctx |-> hnd[g].ctx, mult |-> FALSE, queue |-> <<>>]
        <3>1. SessionOf' = [SessionOf EXCEPT ![c] =
                              [ctx |-> SessionOf[c].ctx, mult |-> FALSE, queue |-> <<>>]]
            BY <2>2, <2>4
        <3> QED
            BY <1>1, <1>2, <2>1, <2>4, <3>1 DEF Abstract!Note
    <2>5. CASE /\ task[c].req.name \in Commands /\ hnd[g].mult
               /\ f = [hnd[g] EXCEPT !.queue =
                         Append(@, [conn |-> c, n |-> sent[c], req |-> task[c].req])]
        <3>1. SessionOf' = [SessionOf EXCEPT ![c].queue =
                              Append(@, [conn |-> c, n |-> sent[c], req |-> HandOf[c].req])]
            BY <1>2, <2>2, <2>5
        <3>2. SessionOf[c].mult
            BY <2>2, <2>5
        <3> QED
            BY <1>1, <1>2, <2>1, <2>5, <3>1, <3>2 DEF Abstract!Note
    <2> QED
        BY <1>4, <2>3, <2>4, <2>5
<1> QED
    BY <1>3, <1>4

LEMMA ApplyMultiMaps ==
    ASSUME IInv, NEW c \in Conns, ApplyMulti(c)
    PROVE  Abstract!Refuse(c) \/ Abstract!Note(c)
<1>1. /\ task[c].at = "apply" /\ task[c].req.name = "MULTI" /\ Answer(c, 1)
      /\ UNCHANGED <<process, closer, conn, handlers, sent, ran>>
    BY DEF ApplyMulti, Applying
<1>2. PICK g \in Handlers : g = task[c].h
    BY <1>1, HolderFacts
<1> DEFINE f == [hnd[g] EXCEPT !.mult = TRUE]
<1>3. hnd' = [hnd EXCEPT ![g] = f]
    BY <1>2 DEF ApplyMulti
<1>4. f = [hnd[g] EXCEPT !.mult = TRUE]
    OBVIOUS
<1> HIDE DEF f
<1> QED
    BY <1>1, <1>2, <1>3, <1>4, NoteMaps

LEMMA ApplyDiscardMaps ==
    ASSUME IInv, NEW c \in Conns, ApplyDiscard(c)
    PROVE  Abstract!Refuse(c) \/ Abstract!Note(c)
<1>1. /\ task[c].at = "apply" /\ task[c].req.name = "DISCARD" /\ Answer(c, 1)
      /\ UNCHANGED <<process, closer, conn, handlers, sent, ran>>
    BY DEF ApplyDiscard, Applying
<1>2. PICK g \in Handlers : g = task[c].h
    BY <1>1, HolderFacts
<1> DEFINE f == [ctx |-> hnd[g].ctx, mult |-> FALSE, queue |-> <<>>]
<1>3. hnd' = [hnd EXCEPT ![g] = f]
    BY <1>2 DEF ApplyDiscard
<1>4. f = [ctx |-> hnd[g].ctx, mult |-> FALSE, queue |-> <<>>]
    OBVIOUS
<1> HIDE DEF f
<1> QED
    BY <1>1, <1>2, <1>3, <1>4, NoteMaps

\* The command has read that it is to be queued: nothing to be seen yet.
LEMMA ApplyQueueMaps ==
    ASSUME IInv, NEW c \in Conns, ApplyQueue(c)
    PROVE  UNCHANGED Abstract!vars
<1> DEFINE x == [at |-> "append", req |-> task[c].req, h |-> task[c].h,
                 queue |-> hnd[task[c].h].queue]
<1>1. /\ task[c].at = "apply" /\ task' = [task EXCEPT ![c] = x] /\ task \in [Conns -> Task]
      /\ UNCHANGED <<process, closer, conn, handlers, pool, hnd, history>>
    BY DEF ApplyQueue, Applying, IInv, TypeOK
<1>2. HandAs(x) = HandOf[c]
    BY <1>1 DEF HandAs, HandOf
<1> HIDE DEF x
<1>3. HandOf' = HandOf
    BY <1>1, <1>2, HandMaps DEF HandOf
<1> QED
    BY <1>1, <1>3, SameSessions, SamePhases, SameProcess DEF history, Abstract!vars

\* The append goes to the queue of the session as it is: before Close clears the
\* handler nobody else writes to it, and afterwards there is no session.
LEMMA QueueAppendMaps ==
    ASSUME IInv, NEW c \in Conns, QueueAppend(c)
    PROVE  Abstract!Refuse(c) \/ Abstract!Note(c)
<1>1. /\ task[c].at = "append" /\ Answer(c, 1)
      /\ UNCHANGED <<process, closer, conn, handlers, sent, ran>>
    BY DEF QueueAppend
<1>2. PICK g \in Handlers : g = task[c].h
    BY <1>1, HolderFacts
<1> DEFINE e == [conn |-> c, n |-> sent[c], req |-> task[c].req]
<1>3. PICK q \in {task[c].queue, hnd[g].queue} :
          hnd' = [hnd EXCEPT ![g].queue = Append(q, e)]
    BY <1>2 DEF QueueAppend
<1> DEFINE f == [hnd[g] EXCEPT !.queue = Append(q, e)]
<1>4. hnd' = [hnd EXCEPT ![g] = f]
    BY <1>3
<1>5. Owned(c) => hnd[g].mult /\ q = hnd[g].queue
    BY <1>1, <1>2, <1>3, HolderFacts DEF Sound, AppendOf
<1>6. task[c].req.name \in Commands
    BY <1>1 DEF IInv, Sound, AppendOf
<1>7. Owned(c) => f = [hnd[g] EXCEPT !.queue = Append(@, e)]
    BY <1>5
<1> HIDE DEF f
<1> QED
    BY <1>1, <1>2, <1>4, <1>5, <1>6, <1>7, NoteMaps

\* The request that c is about to dispatch, and its handler.
LEMMA ApplyingFacts ==
    ASSUME IInv, NEW c \in Conns, NEW names, Applying(c, names)
    PROVE  /\ task \in [Conns -> Task] /\ hnd \in [Handlers -> Handler] /\ TypeOK
           /\ task[c].at = "apply" /\ task[c].h \in Handlers
           /\ Owned(c) => handlers[c] = task[c].h
           /\ HandOf[c].at = "asked" /\ HandOf[c].req = task[c].req
           /\ Abstract!Asked(c, names)
<1>1. task[c].at = "apply" /\ task[c].req.name \in names
    BY DEF Applying
<1> QED
    BY <1>1, HolderFacts, HandFacts DEF IInv, TypeOK, Owned, Abstract!Asked

LEMMA ApplyBadMaps ==
    ASSUME IInv, NEW c \in Conns, ApplyBad(c)
    PROVE  Abstract!Refuse(c)
<1>1. /\ Applying(c, {"BAD"}) /\ Answer(c, 1)
      /\ UNCHANGED <<process, closer, conn, handlers, pool, hnd, sent, ran, selected, discarded>>
    BY DEF ApplyBad
<1> QED
    BY <1>1, ApplyingFacts, AnswerMaps, SameSessions, SamePhases, SameProcess DEF Abstract!Refuse

\* EXEC under Close finds no flag, as that of a connection without a session.
LEMMA ApplyExecMaps ==
    ASSUME IInv, NEW c \in Conns, ApplyExec(c)
    PROVE  Abstract!Exec(c)
<1>1. Applying(c, {"EXEC"}) /\ UNCHANGED <<process, closer, conn, handlers, pool, hnd, history>>
    BY DEF ApplyExec
<1>2. PICK g \in Handlers : g = task[c].h
    BY <1>1, ApplyingFacts
<1> DEFINE q == IF hnd[g].mult THEN hnd[g].queue ELSE <<>>
           x == [at |-> "exec", h |-> g, results |-> 0, todo |-> q]
<1>3. task' = [task EXCEPT ![c] = x]
    BY <1>2 DEF ApplyExec
<1>4. q = IF Abstract!Live(c) /\ SessionOf[c].mult THEN SessionOf[c].queue ELSE <<>>
    <2>1. CASE ~Owned(c)
        <3>1. ~hnd[g].mult /\ ~Abstract!Live(c)
            BY <1>1, <1>2, <2>1, ApplyingFacts, SessionFacts DEF IInv, Sound, OrphanOf
        <3> QED
            BY <3>1
    <2>2. CASE Owned(c)
        BY <1>1, <1>2, <2>2, ApplyingFacts, SessionFacts
    <2> QED
        BY <2>1, <2>2
<1> HIDE DEF q
<1>5. HandAs(x) = [at |-> "exec", results |-> 0, todo |-> q]
    BY DEF HandAs
<1> HIDE DEF x
<1>6. HandOf' = [HandOf EXCEPT ![c] = [at |-> "exec", results |-> 0, todo |-> q]]
    <2>1. task \in [Conns -> Task]
        BY <1>1, ApplyingFacts
    <2> QED
        BY <1>3, <1>5, <2>1, HandMaps
<1>7. /\ SessionOf' = SessionOf /\ PhaseOf' = PhaseOf /\ ProcessOf' = ProcessOf
      /\ Abstract!Asked(c, {"EXEC"})
    BY <1>1, ApplyingFacts, SameSessions, SamePhases, SameProcess
<1> QED
    BY <1>1, <1>4, <1>6, <1>7 DEF history, Abstract!Exec

\* A connection whose session is live has a context.
LEMMA LiveContext ==
    ASSUME IInv, NEW c \in Conns, Owned(c)
    PROVE  hnd[handlers[c]].ctx # None
<1>1. hnd[handlers[c]].ctx = [conn |-> c, db |-> selected[c]]
    BY DEF IInv, Sound, ContextOf, Owned
<1>2. [conn |-> c, db |-> selected[c]] \in Context
    BY DEF IInv, TypeOK, Context
<1> QED
    BY <1>1, <1>2, SessionAssumption

\* A command that runs moves its own session, if there is one, and no other.
LEMMA RunMaps ==
    ASSUME IInv, NEW c \in Conns, task[c].at \in {"apply", "exec"},
           NEW g \in Handlers, g = task[c].h, NEW n, NEW req, Run(c, g, n, req),
           UNCHANGED <<closer, conn, handlers, sent>>
    PROVE  Abstract!Effect(c, n, req)
<1>1. req.name # "DO" /\ ran' = [ran EXCEPT ![c] = Append(@, n)] /\ process' = process /\ TypeOK
    BY DEF Run, Runs, IInv
<1>2. SessionOf' = IF req.name = "SEL" /\ Abstract!Live(c)
                   THEN [SessionOf EXCEPT ![c].ctx.db = req.arg % DbMod]
                   ELSE SessionOf
    <2>1. CASE req.name = "SEL"
        <3> DEFINE d == req.arg % DbMod
                   x == Selecting(c, hnd[g].ctx, d)
                   f == [hnd[g] EXCEPT !.ctx = x]
        <3>1. hnd' = [hnd EXCEPT ![g] = f]
            BY <2>1 DEF Run
        <3>2. f = [hnd[g] EXCEPT !.ctx = x]
            OBVIOUS
        <3>3. hnd[g].ctx # None => x = [hnd[g].ctx EXCEPT !.db = d]
            BY DEF Selecting
        <3> HIDE DEF f
        <3>4. CASE ~Owned(c)
            BY <1>1, <3>1, <3>4, SessionFacts, SessionMaps
        <3>5. CASE Owned(c)
            <4>1. /\ handlers[c] = g /\ SessionOf[c] = hnd[g] /\ Abstract!Live(c)
                  /\ SessionOf' = [SessionOf EXCEPT ![c] = f]
                BY <1>1, <3>1, <3>5, SessionFacts, SessionMaps
            <4>2. x = [hnd[g].ctx EXCEPT !.db = d]
                BY <3>3, <3>5, <4>1, LiveContext
            <4> HIDE DEF x
            <4>3. f = [hnd[g] EXCEPT !.ctx.db = d]
                BY <3>2, <4>2
            <4> QED
                BY <2>1, <4>1, <4>3
        <3> QED
            BY <3>4, <3>5
    <2>2. CASE req.name # "SEL"
        <3>1. hnd' = hnd
            BY <2>2 DEF Run
        <3> QED
            BY <2>2, <3>1, SameSessions
    <2> QED
        BY <2>1, <2>2
<1> QED
    BY <1>1, <1>2, SamePhases, SameProcess DEF Abstract!Effect

\* A command kills the process only if it is DO or has lost its session.
LEMMA DieMaps ==
    ASSUME IInv, NEW c \in Conns, task[c].at \in {"apply", "exec"},
           NEW req, Die(task[c].h, req)
    PROVE  /\ ~Abstract!Live(c) \/ req.name = "DO"
           /\ ProcessOf' = "dead"
           /\ UNCHANGED <<PhaseOf, SessionOf, HandOf, sent, ran, replies>>
<1>1. /\ process' = "dead"
      /\ UNCHANGED <<closer, conn, handlers, pool, hnd, task, history>>
    BY DEF Die
<1>2. Owned(c) => hnd[task[c].h].ctx # None
    BY HolderFacts, LiveContext DEF Owned
<1>3. ~Abstract!Live(c) \/ req.name = "DO"
    BY <1>2, SessionFacts DEF Die, Fatal, IInv
<1>4. HandOf' = HandOf /\ ProcessOf' = "dead"
    BY <1>1 DEF HandOf, ProcessOf
<1> QED
    BY <1>1, <1>3, <1>4, SameSessions, SamePhases DEF history

LEMMA ApplyRunMaps ==
    ASSUME IInv, NEW c \in Conns, ApplyRun(c)
    PROVE  Abstract!Do(c) \/ Abstract!Fail(c)
<1>1. Applying(c, Commands) /\ ~hnd[task[c].h].mult
    BY DEF ApplyRun
<1>2. PICK g \in Handlers : g = task[c].h
    BY <1>1, ApplyingFacts
<1>3. HandOf[c].req = task[c].req /\ Abstract!Asked(c, Commands)
    BY <1>1, ApplyingFacts
<1>4. CASE Run(c, task[c].h, sent[c], task[c].req) /\ Answer(c, 1)
           /\ UNCHANGED <<closer, conn, handlers, pool, sent, discarded>>
    <2>1. Abstract!Effect(c, sent[c], task[c].req)
        BY <1>1, <1>2, <1>4, ApplyingFacts, RunMaps
    <2>2. Abstract!Live(c) => ~SessionOf[c].mult
        BY <1>1, ApplyingFacts, SessionFacts
    <2>3. Abstract!Reply(c, 1)
        BY <1>1, <1>4, ApplyingFacts, AnswerMaps
    <2> QED
        BY <1>3, <2>1, <2>2, <2>3 DEF Abstract!Do
<1>5. CASE Die(task[c].h, task[c].req)
    BY <1>1, <1>3, <1>5, ApplyingFacts, DieMaps DEF Abstract!Fail
<1> QED
    BY <1>4, <1>5 DEF ApplyRun

LEMMA ExecNextMaps ==
    ASSUME IInv, NEW c \in Conns, ExecNext(c)
    PROVE  Abstract!ExecNext(c) \/ Abstract!Fail(c)
<1> DEFINE e == Head(task[c].todo)
<1>1. /\ task[c].at = "exec" /\ task[c].todo # <<>> /\ task \in [Conns -> Task] /\ TypeOK
      /\ task[c].h \in Handlers
    BY HolderFacts DEF ExecNext, IInv, TypeOK
<1>2. PICK g \in Handlers : g = task[c].h
    BY <1>1
<1>3. HandOf[c].todo = task[c].todo /\ Abstract!Executing(c)
    BY <1>1, HandFacts DEF Abstract!Executing
<1>4. CASE /\ IF e.req.name = "FLUSHALL"
              THEN UNCHANGED <<process, hnd, ran, selected>>
              ELSE Run(c, task[c].h, e.n, e.req)
           /\ task' = [task EXCEPT ![c].todo = Tail(@), ![c].results = @ + 1]
           /\ UNCHANGED <<closer, conn, handlers, pool, sent, replies, discarded>>
    <2> HIDE DEF e
    <2>1. IF e.req.name = "FLUSHALL"
          THEN UNCHANGED <<ProcessOf, PhaseOf, SessionOf, sent, ran>>
          ELSE Abstract!Effect(c, e.n, e.req)
        BY <1>1, <1>2, <1>4, RunMaps, SameSessions, SamePhases, SameProcess
    <2> DEFINE t == task[c]
               x == [t EXCEPT !.todo = Tail(@), !.results = @ + 1]
               z == HandOf[c]
    <2>2. task' = [task EXCEPT ![c] = x]
        BY <1>4
    <2>3. t \in [at : {"exec"}, h : Handlers, todo : Seq(Entry), results : Nat]
        BY <1>1 DEF Task, Resting
    <2>4. x.at = "exec" /\ x.todo = Tail(t.todo) /\ x.results = t.results + 1
        <3> HIDE DEF t
        <3> QED
            BY <2>3
    <2>5. z = [at |-> "exec", results |-> t.results, todo |-> t.todo]
        BY <1>1 DEF HandOf, HandAs
    <2>6. HandAs(x) = [at |-> "exec", results |-> t.results + 1, todo |-> Tail(t.todo)]
        <3> HIDE DEF x, t
        <3> QED
            BY <2>4 DEF HandAs
    <2>7. HandOf' = [HandOf EXCEPT ![c] = HandAs(x)]
        <3> HIDE DEF x
        <3> QED
            BY <1>1, <2>2, HandMaps
    <2>8. [z EXCEPT !.todo = Tail(@), !.results = @ + 1]
             = [at |-> "exec", results |-> t.results + 1, todo |-> Tail(t.todo)]
        <3> DEFINE todo == Tail(t.todo)
                   results == t.results + 1
                   y == [z EXCEPT !.todo = todo]
        <3>1. [z EXCEPT !.todo = Tail(@), !.results = @ + 1] = [y EXCEPT !.results = results]
            BY <2>5
        <3> HIDE DEF z, t, todo, results
        <3>2. y = [at |-> "exec", results |-> t.results, todo |-> todo]
            BY <2>5
        <3> HIDE DEF y
        <3>3. [y EXCEPT !.results = results] = [at |-> "exec", results |-> results, todo |-> todo]
            BY <3>2
        <3> QED
            BY <3>1, <3>3 DEF todo, results
    <2>9. HandOf' = [HandOf EXCEPT ![c].todo = Tail(@), ![c].results = @ + 1]
        <3>1. [HandOf EXCEPT ![c].todo = Tail(@), ![c].results = @ + 1]
                = [HandOf EXCEPT ![c] = [z EXCEPT !.todo = Tail(@), !.results = @ + 1]]
            OBVIOUS
        <3> HIDE DEF z, x
        <3> QED
            BY <2>6, <2>7, <2>8, <3>1
    <2>10. e = Head(HandOf[c].todo)
        BY <1>3 DEF e
    <2> HIDE DEF z, x, t
    <2> QED
        BY <1>3, <1>4, <2>1, <2>9, <2>10 DEF Abstract!ExecNext
<1>5. CASE Die(task[c].h, e.req)
    BY <1>1, <1>3, <1>5, DieMaps DEF Abstract!Fail
<1> QED
    BY <1>4, <1>5 DEF ExecNext

LEMMA ExecEndMaps ==
    ASSUME IInv, NEW c \in Conns, ExecEnd(c)
    PROVE  Abstract!ExecEnd(c)
<1>1. /\ task[c].at = "exec" /\ task[c].todo = <<>> /\ Answer(c, task[c].results)
      /\ UNCHANGED <<process, closer, conn, handlers, pool, hnd, sent, ran, selected, discarded>>
      /\ task \in [Conns -> Task]
    BY DEF ExecEnd, IInv, TypeOK
<1>2. HandOf[c].at = "exec" /\ HandOf[c].todo = <<>> /\ HandOf[c].results = task[c].results
    BY <1>1, HandFacts
<1>3. Abstract!Reply(c, HandOf[c].results)
    BY <1>1, <1>2, AnswerMaps
<1> QED
    BY <1>1, <1>2, <1>3, SameSessions, SamePhases, SameProcess DEF Abstract!ExecEnd

\* Nothing happens to a process that is dead.
LEMMA NextIsAlive == Next => process # "dead"
<1> SUFFICES ASSUME Next PROVE process # "dead"
    OBVIOUS
<1>1. CASE Close \/ Closing
    BY <1>1 DEF Close, Closing, ClearFlag, ClearQueue, ClearContext, Forget, CloseRedcon
<1>2. ASSUME NEW c \in Conns,
             \/ Arrive(c) \/ Accept(c) \/ Leave(c) \/ Closed(c)
             \/ \E req \in Request : Receive(c, req)
      PROVE  process # "dead"
    BY <1>2 DEF Arrive, Accept, Leave, Closed, Receive
<1>3. ASSUME NEW c \in Conns, Serve(c)
      PROVE  process # "dead"
    <2>1. CASE Lookup(c) \/ QueueAppend(c) \/ ExecNext(c) \/ ExecEnd(c)
        BY <2>1 DEF Lookup, QueueAppend, ExecNext, ExecEnd
    <2>2. CASE ApplyMulti(c) \/ ApplyDiscard(c) \/ ApplyExec(c)
        BY <2>2 DEF ApplyMulti, ApplyDiscard, ApplyExec, Applying
    <2>3. CASE ApplyBad(c) \/ ApplyQueue(c) \/ ApplyRun(c)
        BY <2>3 DEF ApplyBad, ApplyQueue, ApplyRun, Applying
    <2> QED
        BY <1>3, <2>1, <2>2, <2>3 DEF Serve
<1> QED
    BY <1>1, <1>2, <1>3 DEF Next

LEMMA StepMaps ==
    ASSUME IInv, [Next]_vars
    PROVE  [Abstract!Next]_(Abstract!vars)
<1>1. CASE UNCHANGED vars
    <2>1. HandOf' = HandOf
        BY <1>1 DEF vars, HandOf
    <2> QED
        BY <1>1, <2>1, SameSessions, SamePhases, SameProcess DEF vars, history, Abstract!vars
<1> SUFFICES ASSUME Next
             PROVE  Abstract!Next \/ UNCHANGED Abstract!vars
    BY <1>1
<1>2. ProcessOf # "dead"
    BY NextIsAlive, ProcessFacts DEF IInv
<1>3. CASE Close \/ Closing
    BY <1>2, <1>3, CloseMaps, ClearFlagMaps, ClearRestMaps, CloseRedconMaps
       DEF Closing, Abstract!Next
<1>4. ASSUME NEW c \in Conns,
             \/ Arrive(c) \/ Accept(c) \/ Leave(c) \/ Closed(c)
             \/ \E req \in Request : Receive(c, req)
      PROVE  Abstract!Next \/ UNCHANGED Abstract!vars
    BY <1>2, <1>4, ArriveMaps, AcceptMaps, ClosedMaps, ReceiveMaps DEF Abstract!Next
<1>5. ASSUME NEW c \in Conns, Serve(c)
      PROVE  Abstract!Next \/ UNCHANGED Abstract!vars
    <2>1. \/ Abstract!Refuse(c) \/ Abstract!Note(c) \/ Abstract!Do(c) \/ Abstract!Exec(c)
          \/ Abstract!ExecNext(c) \/ Abstract!ExecEnd(c) \/ Abstract!Fail(c)
          \/ UNCHANGED Abstract!vars
        BY <1>5, LookupMaps, ApplyMultiMaps, ApplyDiscardMaps, ApplyExecMaps, ApplyBadMaps,
           ApplyQueueMaps, QueueAppendMaps, ApplyRunMaps, ExecNextMaps, ExecEndMaps DEF Serve
    <2> QED
        BY <1>2, <2>1 DEF Abstract!Next
<1> QED
    BY <1>3, <1>4, <1>5 DEF Next

(***************************************************************************)
(* The server implements private sessions, for any numbers of connections, *)
(* handlers and requests: OnAccept, OnHandler, OnClosed, Close, the pool   *)
(* and Apply together are, for each connection, a session that begins      *)
(* fresh, that its own requests alone change, and that the first write of  *)
(* Clear ends, at whatever moment of a request it comes.                   *)
(***************************************************************************)
THEOREM ServerImplementsDialogues == Spec => SessionsArePrivate
<1>1. IInv /\ [Next]_vars => [Abstract!Next]_(Abstract!vars)
    BY StepMaps
<1> QED
    BY <1>1, InitMaps, IInvAlways, PTL DEF Spec, SessionsArePrivate, Abstract!Spec

=============================================================================
