-------------------------------- MODULE Leases --------------------------------
(***************************************************************************)
(* What the expiry of keys promises, without a table, timers or flags:     *)
(* EXPIRE gives a slot a lease, a later EXPIRE replaces it, PERSIST takes  *)
(* it back, and when a lease is due a strike leaves for its slot.  From    *)
(* then on neither EXPIRE nor PERSIST nor SET can call the strike back.    *)
(* When it lands, the slot is emptied; a strike may also miss, and is not  *)
(* repeated.                                                               *)
(*                                                                         *)
(* A lease is the slot's and not the value's: it survives DEL and SET.  A  *)
(* lease ends in no other way than these, and nothing but a strike or a    *)
(* command empties a slot.                                                 *)
(***************************************************************************)
EXTENDS Naturals

CONSTANTS
    Slots,
    Terms,      \* how long leases may be, in the unit of the clock
    Strikers,   \* identities of strikes
    NoLease

VARIABLES
    now,
    data,       \* the slots that hold a value
    lease,      \* when the slot is due, or NoLease
    strikes     \* the strikes under way: their identity and their slot

vars == <<now, data, lease, strikes>>

Init ==
    /\ now = 0
    /\ data = {}
    /\ lease = [s \in Slots |-> NoLease]
    /\ strikes = {}

-----------------------------------------------------------------------------

\* A command stores a value, or removes values.
Store(s) ==
    /\ data' = data \cup {s}
    /\ UNCHANGED <<now, lease, strikes>>

Remove(S) ==
    /\ data' = data \ S
    /\ UNCHANGED <<now, lease, strikes>>

\* EXPIRE, or the second half of SET with EX or PX, whatever the slot holds; it
\* releases the lease of before first.
Grant(s, term) ==
    /\ UNCHANGED <<now, data, strikes>>
    /\ lease' = [lease EXCEPT ![s] = now + term]

\* PERSIST.
Release(s) ==
    /\ UNCHANGED <<now, data, strikes>>
    /\ lease' = [lease EXCEPT ![s] = NoLease]

\* The lease of s is due: it ends, and a strike leaves.
Begin(id, s) ==
    /\ UNCHANGED <<now, data>>
    /\ lease[s] # NoLease /\ lease[s] <= now
    /\ \A r \in Slots : <<id, r>> \notin strikes
    /\ lease' = [lease EXCEPT ![s] = NoLease]
    /\ strikes' = strikes \cup {<<id, s>>}

\* The strike lands on whatever the slot holds by now.
Land(id, s) ==
    /\ <<id, s>> \in strikes
    /\ strikes' = strikes \ {<<id, s>>}
    /\ data' = data \ {s}
    /\ UNCHANGED <<now, lease>>

\* The strike is lost: the slot keeps what it holds.
Miss(id, s) ==
    /\ <<id, s>> \in strikes
    /\ strikes' = strikes \ {<<id, s>>}
    /\ UNCHANGED <<now, data, lease>>

Tick ==
    /\ now' = now + 1
    /\ UNCHANGED <<data, lease, strikes>>

\* The process ends: all leases are forgotten, all strikes are off.
Crash ==
    /\ UNCHANGED <<now, data>>
    /\ strikes' = {}
    /\ lease' = [s \in Slots |-> NoLease]

Next ==
    \/ \E s \in Slots : Store(s) \/ Release(s) \/ \E term \in Terms : Grant(s, term)
    \/ \E S \in SUBSET Slots : Remove(S)
    \/ \E id \in Strikers, s \in Slots : Begin(id, s) \/ Land(id, s) \/ Miss(id, s)
    \/ Tick
    \/ Crash

Spec == Init /\ [][Next]_vars

=============================================================================
