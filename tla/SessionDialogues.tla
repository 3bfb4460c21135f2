--------------------------- MODULE SessionDialogues ---------------------------
(***************************************************************************)
(* The server of Session, seen as Dialogues: the session of a connection   *)
(* is the handler that the map has for it, with all its fields, until      *)
(* Close begins to clear it.  Hidden are which handler that is, the pool,  *)
(* the turns of the loop that looks it up, the goroutine's own reference   *)
(* to it and the writes of Clear.                                          *)
(***************************************************************************)
EXTENDS Session

\* No context is not a context, and no session is not one.
ASSUME SessionAssumption == None \notin Context /\ None \notin Handler

ProcessOf == IF process # "dead" /\ closer # Quiet THEN "closing" ELSE process

PhaseOf ==
    [c \in Conns |-> CASE conn[c] \in {"open", "closing"} -> "open"
                       [] conn[c] = "gone" -> "after"
                       [] OTHER            -> "before"]

SessionOf == [c \in Conns |-> IF Owned(c) THEN hnd[handlers[c]] ELSE None]

HandAs(t) ==
    IF t.at \in {"lookup", "apply", "append"} THEN [at |-> "asked", req |-> t.req]
    ELSE IF t.at = "exec" THEN [at |-> "exec", results |-> t.results, todo |-> t.todo]
    ELSE Resting

HandOf == [c \in Conns |-> HandAs(task[c])]

Abstract == INSTANCE Dialogues WITH
    Requests <- Request, Plain <- Commands, NoSession <- None,
    process <- ProcessOf, phase <- PhaseOf, session <- SessionOf, hand <- HandOf

(***************************************************************************)
(* The server implements private sessions: whatever handlers the pool      *)
(* hands from one connection to the next, and whenever Close clears them,  *)
(* a connection meets in its session only what its own requests left       *)
(* there.  (OnAccept, OnHandler, OnClosed and Close of server.go, Apply    *)
(* and exec of internal/service.)                                          *)
(***************************************************************************)
SessionsArePrivate == Abstract!Spec

=============================================================================
