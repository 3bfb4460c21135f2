------------------------------- MODULE Dialogues ------------------------------
(***************************************************************************)
(* What the server promises to its connections, without handlers, a pool   *)
(* or a map: every connection has a session of its own, new when it is     *)
(* accepted and gone when it ends, and its requests see and change nothing *)
(* but that session.  The one exception is the end of the server, which    *)
(* takes the sessions away one after the other, also from under a request  *)
(* in hand: such a request is refused, or runs outside of any session, or  *)
(* kills the process.                                                      *)
(***************************************************************************)
EXTENDS Integers, Sequences

CONSTANTS
    Conns,
    Requests,
    Plain,        \* the names of the commands that MULTI queues
    DbMod,
    NoSession

VARIABLES
    process,      \* "serving", "closing", "closed" or "dead"
    phase,        \* of each connection: "before", "open" or "after"
    session,      \* context, MULTI flag and queue, or NoSession
    hand,         \* the request in hand
    sent,
    ran,          \* the requests that were run, in order
    replies

vars == <<process, phase, session, hand, sent, ran, replies>>

Idle == [at |-> "rest"]

Fresh(c) == [ctx |-> [conn |-> c, db |-> 0], mult |-> FALSE, queue |-> <<>>]

Init ==
    /\ process = "serving"
    /\ phase = [c \in Conns |-> "before"]
    /\ session = [c \in Conns |-> NoSession]
    /\ hand = [c \in Conns |-> Idle]
    /\ sent = [c \in Conns |-> 0]
    /\ ran = [c \in Conns |-> <<>>]
    /\ replies = [c \in Conns |-> 0]

-----------------------------------------------------------------------------
(* Sessions. *)

Live(c) == session[c] # NoSession

Open(c) ==
    /\ process # "closing"
    /\ phase[c] = "before"
    /\ phase' = [phase EXCEPT ![c] = "open"]
    /\ session' = [session EXCEPT ![c] = Fresh(c)]
    /\ UNCHANGED <<process, hand, sent, ran, replies>>

End(c) ==
    /\ process # "closing"
    /\ phase[c] = "open" /\ hand[c] = Idle
    /\ phase' = [phase EXCEPT ![c] = "after"]
    /\ session' = [session EXCEPT ![c] = NoSession]
    /\ UNCHANGED <<process, hand, sent, ran, replies>>

\* The end of the server.
Shutdown ==
    /\ process # "closing"
    /\ process' = "closing"
    /\ UNCHANGED <<phase, session, hand, sent, ran, replies>>

Take(c) ==
    /\ process = "closing" /\ Live(c)
    /\ session' = [session EXCEPT ![c] = NoSession]
    /\ UNCHANGED <<process, phase, hand, sent, ran, replies>>

Finish ==
    /\ process = "closing" /\ \A c \in Conns : ~Live(c)
    /\ process' = "closed"
    /\ UNCHANGED <<phase, session, hand, sent, ran, replies>>

-----------------------------------------------------------------------------
(* Requests. *)

Ask(c, req) ==
    /\ phase[c] = "open" /\ hand[c] = Idle
    /\ hand' = [hand EXCEPT ![c] = [at |-> "asked", req |-> req]]
    /\ sent' = [sent EXCEPT ![c] = @ + 1]
    /\ UNCHANGED <<process, phase, session, ran, replies>>

Asked(c, names) == hand[c].at = "asked" /\ hand[c].req.name \in names

Reply(c, n) ==
    /\ hand' = [hand EXCEPT ![c] = Idle]
    /\ replies' = [replies EXCEPT ![c] = @ + n]

\* Answered without an effect: the session is gone, or the request is no good.
Refuse(c) ==
    /\ hand[c].at = "asked"
    /\ ~Live(c) \/ Asked(c, {"BAD"})
    /\ Reply(c, 1)
    /\ UNCHANGED <<process, phase, session, sent, ran>>

\* MULTI, DISCARD, or a command in a transaction.
Note(c) ==
    /\ Live(c)
    /\ LET s == session[c] IN
        \/ Asked(c, {"MULTI"}) /\ session' = [session EXCEPT ![c].mult = TRUE]
        \/ /\ Asked(c, {"DISCARD"})
           /\ session' = [session EXCEPT ![c] = [ctx |-> s.ctx, mult |-> FALSE, queue |-> <<>>]]
        \/ /\ Asked(c, Plain) /\ s.mult
           /\ session' = [session EXCEPT ![c].queue =
                            Append(@, [conn |-> c, n |-> sent[c], req |-> hand[c].req])]
    /\ Reply(c, 1)
    /\ UNCHANGED <<process, phase, sent, ran>>

\* The n-th request of c runs: SEL moves its session, and nothing else does.
Effect(c, n, req) ==
    /\ req.name # "DO"
    /\ ran' = [ran EXCEPT ![c] = Append(@, n)]
    /\ session' = IF req.name = "SEL" /\ Live(c)
                  THEN [session EXCEPT ![c].ctx.db = req.arg % DbMod]
                  ELSE session
    /\ UNCHANGED <<process, phase, sent>>

Do(c) ==
    /\ Asked(c, Plain)
    /\ Live(c) => ~session[c].mult
    /\ Effect(c, sent[c], hand[c].req)
    /\ Reply(c, 1)

\* EXEC takes the queue as it is, and leaves it there.
Exec(c) ==
    /\ Asked(c, {"EXEC"})
    /\ hand' = [hand EXCEPT ![c] =
                  [at |-> "exec", results |-> 0,
                   todo |-> IF Live(c) /\ session[c].mult THEN session[c].queue ELSE <<>>]]
    /\ UNCHANGED <<process, phase, session, sent, ran, replies>>

Executing(c) == hand[c].at = "exec" /\ hand[c].todo # <<>>

ExecNext(c) ==
    /\ Executing(c)
    /\ LET e == Head(hand[c].todo) IN
        IF e.req.name = "FLUSHALL"
        THEN UNCHANGED <<process, phase, session, sent, ran>>
        ELSE Effect(c, e.n, e.req)
    /\ hand' = [hand EXCEPT ![c].todo = Tail(@), ![c].results = @ + 1]
    /\ UNCHANGED replies

ExecEnd(c) ==
    /\ hand[c].at = "exec" /\ hand[c].todo = <<>>
    /\ Reply(c, hand[c].results)
    /\ UNCHANGED <<process, phase, session, sent, ran>>

\* DO, or a command whose session the end of the server took away.
Fail(c) ==
    /\ \/ Asked(c, Plain) /\ (~Live(c) \/ hand[c].req.name = "DO")
       \/ Executing(c) /\ (~Live(c) \/ Head(hand[c].todo).req.name = "DO")
    /\ process' = "dead"
    /\ UNCHANGED <<phase, session, hand, sent, ran, replies>>

Next ==
    /\ process # "dead"
    /\ \/ \E c \in Conns :
            \/ Open(c) \/ End(c) \/ Take(c) \/ Refuse(c) \/ Note(c) \/ Do(c)
            \/ Exec(c) \/ ExecNext(c) \/ ExecEnd(c) \/ Fail(c)
            \/ \E req \in Requests : Ask(c, req)
       \/ Shutdown \/ Finish

Spec == Init /\ [][Next]_vars

=============================================================================
