----------------------------- MODULE MCDatabases -----------------------------
(* Instances of Databases for TLC. *)
EXTENDS DatabasesCatalogue

CONSTANTS p1, p2, p3, a, b
=============================================================================
