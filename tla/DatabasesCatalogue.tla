-------------------------- MODULE DatabasesCatalogue --------------------------
(***************************************************************************)
(* The goroutines of Databases, seen as Catalogue.  A database is what its *)
(* entry in client.dbi says, and an operation may touch the database that  *)
(* its handle is open for in LMDB.  Hidden are both locks, the slots, the  *)
(* handles and the steps of sel.                                           *)
(***************************************************************************)
EXTENDS Databases

KnownOf ==
    [d \in Dbs |-> IF d \in spoiled THEN "lost"
                   ELSE IF dbi[d] = None THEN "new"
                   ELSE IF dbi[d] = Bad THEN "broken"
                   ELSE IF dbi[d] = fresh THEN "opening"
                   ELSE "ready"]

ReachOf(p) ==
    IF op[p].db \in spoiled THEN Dbs
    ELSE IF handle[p] \in Slots THEN {open[handle[p]]}
    ELSE {}

CallOf ==
    [p \in Procs |->
        IF pc[p] = "idle" THEN [at |-> "idle"]
        ELSE IF pc[p] \in {"txn", "act"}
        THEN [at |-> IF pc[p] = "txn" THEN "reached" ELSE "acting",
              op |-> op[p], reach |-> ReachOf(p)]
        ELSE [at |-> IF failed[p] THEN "refused" ELSE "asked", op |-> op[p]]]

Abstract == INSTANCE Catalogue WITH Operations <- Operation, known <- KnownOf, call <- CallOf

(***************************************************************************)
(* sel and its locks implement a catalogue: whoever opens what, fails to   *)
(* or runs out of slots meanwhile, a database that was opened once stays,  *)
(* one that could not be opened affects no operation on another, an        *)
(* operation goes on only with a database that somebody tried to open, and *)
(* writes come one at a time.  (sel, hasDB and openDB of internal/storage, *)
(* and the transactions of the operations.)                                *)
(***************************************************************************)
CatalogueImplemented == Abstract!Spec

=============================================================================
