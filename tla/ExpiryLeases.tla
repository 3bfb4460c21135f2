----------------------------- MODULE ExpiryLeases -----------------------------
(***************************************************************************)
(* The storage client of Expiry, seen as Leases: the lease of a slot is    *)
(* the deadline of the timer of its entry, as long as that timer waits and *)
(* is not cancelled, and the callbacks that have read their flag are the   *)
(* strikes.  Hidden are the entries whose timers have fired, the timers    *)
(* that were cancelled, which stay scheduled, and the calls of Expire that *)
(* are due or half way.                                                    *)
(***************************************************************************)
EXTENDS Expiry

\* An absent entry is no time.
ASSUME LeaseAssumption == NoTTL \notin Nat

Waiting(s) ==
    /\ ttl[s] # NoTTL
    /\ timers[ttl[s].timer].phase = "armed" /\ timers[ttl[s].timer].running

DeadlineOf == [s \in Slots |-> IF Waiting(s) THEN timers[ttl[s].timer].deadline ELSE NoTTL]

Fired == {<<t, timers[t].slot>> : t \in {u \in Timers : timers[u].phase = "firing"}}

WholeSeconds == {n * MsPerSec : n \in 0..(UintMod - 1)}

Abstract == INSTANCE Leases WITH
    Terms <- WholeSeconds, Strikers <- Timers, NoLease <- NoTTL,
    lease <- DeadlineOf, strikes <- Fired

(***************************************************************************)
(* The table and the timers implement leases: the lease last granted is    *)
(* the one that ends a key, at its time and not before; a lease that was   *)
(* replaced or taken back never strikes, though its timer still fires; and *)
(* every lease that is due gets one strike, whatever became of the key,    *)
(* which may miss.  (Expire, Persist and setTimeout of internal/storage.)  *)
(***************************************************************************)
LeasesImplemented == Abstract!Spec

=============================================================================
