------------------------------- MODULE Catalogue ------------------------------
(***************************************************************************)
(* What sel promises to the storage operations, without locks, slots,      *)
(* handles or the table of handles: there is a catalogue of databases, and *)
(* an operation that has asked for one either is refused, or gets it, or   *)
(* gets nothing, and then runs its transaction on what it got.             *)
(*                                                                         *)
(* A database is new until somebody asks for it, then being opened, and    *)
(* then ready for good.  The exceptions are the code's: an opening may     *)
(* break, which may be tried again, or be lost at the last moment, and     *)
(* then what operations on that one database touch is anybody's guess; and *)
(* an operation that looks while another is opening a database may miss    *)
(* its own, or end the process.                                            *)
(***************************************************************************)

CONSTANTS
    Procs,
    Dbs,
    Operations      \* with a kind: "write", "read" (and a db), or "table"

VARIABLES
    process,
    known,      \* of each database: "new", "broken", "opening", "ready" or "lost"
    call        \* of each goroutine: its operation, and the databases it may touch

vars == <<process, known, call>>

Idle == [at |-> "idle"]

Init ==
    /\ process = "up"
    /\ known = [d \in Dbs |-> "new"]
    /\ call = [p \in Procs |-> Idle]

-----------------------------------------------------------------------------
(* Finding a database. *)

Ask(p, o) ==
    /\ call[p] = Idle
    /\ call' = [call EXCEPT ![p] = [at |-> "asked", op |-> o]]
    /\ UNCHANGED <<process, known>>

Seeking(p) == call[p].at \in {"asked", "refused"} /\ call[p].op.kind # "table"

Asking(p) == Seeking(p) /\ call[p].at = "asked"

\* The operation of p is on a database that is in one of these states.
Wants(p, states) == known[call[p].op.db] \in states

Becomes(p, state) == known' = [known EXCEPT ![call[p].op.db] = state]

Open(p) ==
    /\ Asking(p) /\ Wants(p, {"new", "broken"})
    /\ Becomes(p, "opening")
    /\ UNCHANGED <<process, call>>

Confirm(p) ==
    /\ Asking(p) /\ Wants(p, {"opening"})
    /\ Becomes(p, "ready")
    /\ UNCHANGED <<process, call>>

\* Also when another has opened the database meanwhile.
Refuse(p) ==
    /\ Asking(p) /\ Wants(p, {"new", "broken", "ready", "lost"})
    /\ call' = [call EXCEPT ![p].at = "refused"]
    /\ UNCHANGED <<process, known>>

Break(p) ==
    /\ call[p].at = "refused" /\ Wants(p, {"new", "broken"})
    /\ Becomes(p, "broken")
    /\ UNCHANGED <<process, call>>

Inside(p) == call[p].at \in {"reached", "acting"}

\* The opening comes to nothing after others may have got the database.
Lose(p) ==
    /\ Asking(p) /\ Wants(p, {"opening", "lost"})
    /\ Becomes(p, "lost")
    /\ call' = [q \in Procs |->
                  IF q = p THEN [call[p] EXCEPT !.at = "refused"]
                  ELSE IF Inside(q) /\ call[q].op.db = call[p].op.db
                  THEN [call[q] EXCEPT !.reach = Dbs]
                  ELSE call[q]]
    /\ UNCHANGED process

-----------------------------------------------------------------------------
(* Using it. *)

Accompanied(p) == \E q \in Procs \ {p} : Seeking(q)

\* The databases that p may touch from now on.
Gets(p, reach) ==
    \/ Wants(p, {"opening", "ready"}) /\ reach = {call[p].op.db}
    \/ Wants(p, {"opening", "ready"}) /\ Accompanied(p) /\ reach = {}
    \/ Wants(p, {"broken"}) /\ reach = {}
    \/ Wants(p, {"lost"}) /\ reach = Dbs

Reach(p) ==
    /\ Asking(p)
    /\ \E reach \in SUBSET Dbs :
        /\ Gets(p, reach)
        /\ call' = [call EXCEPT ![p] =
                      [at |-> IF call[p].op.kind = "write" THEN "reached" ELSE "acting",
                       op |-> call[p].op, reach |-> reach]]
    /\ UNCHANGED <<process, known>>

\* One write at a time.
Begin(p) ==
    /\ call[p].at = "reached"
    /\ ~ \E q \in Procs : call[q].at = "acting" /\ call[q].op.kind = "write"
    /\ call' = [call EXCEPT ![p].at = "acting"]
    /\ UNCHANGED <<process, known>>

End(p) ==
    /\ \/ call[p].at \in {"refused", "reached", "acting"}
       \/ call[p].at = "asked" /\ call[p].op.kind = "table"
    /\ call' = [call EXCEPT ![p] = Idle]
    /\ UNCHANGED <<process, known>>

Die(p) ==
    /\ Seeking(p) /\ Accompanied(p)
    /\ process' = "dead"
    /\ UNCHANGED <<known, call>>

Next ==
    /\ process = "up"
    /\ \E p \in Procs :
        \/ \E o \in Operations : Ask(p, o)
        \/ Open(p) \/ Confirm(p) \/ Refuse(p) \/ Break(p) \/ Lose(p)
        \/ Reach(p) \/ Begin(p) \/ End(p) \/ Die(p)

Spec == Init /\ [][Next]_vars

=============================================================================
