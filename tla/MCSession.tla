----------------------------- MODULE MCSession ------------------------------
(* Instances of Session for TLC. *)
EXTENDS SessionDialogues, TLC

MCConns == {1, 2}

MCSelArgs == {3}

\* One connection sends enough for MULTI, a command, DISCARD, MULTI, EXEC; the
\* other comes and goes beside it, and takes over its handler.
MCLong == <<5, 0>>

\* Both send requests.
MCShort == <<3, 1>>

MCBoth == <<2, 1>>

MCSymmetry == Permutations(Handlers)
=============================================================================
