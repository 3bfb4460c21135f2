------------------------------ MODULE MCExpiry ------------------------------
(* Instances of Expiry and ExpiryLeases for TLC. *)
EXTENDS ExpiryLeases, TLC

\* -1 becomes the largest uint32, so that the sum in Expire wraps; 0 is what an
\* operand that does not parse becomes.
MCExpireArgs == {-1, 0, 1}

MCExArgs == {1}

\* Of two seconds more than one is left when Expire has taken its time.
MCLongExArgs == {2}

\* A PX below one second is truncated to zero seconds.
MCPxArgs == {1}

Symmetry == Permutations(Timers) \cup Permutations(Conns) \cup Permutations(Dbs)
=============================================================================
