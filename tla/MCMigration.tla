------------------------------ MODULE MCMigration ------------------------------
(* StorageMigration for TLC: graphs and rows are interchangeable. *)
EXTENDS StorageMigration, TLC

Symmetry == Permutations(Graphs) \cup Permutations(Rows)
=============================================================================
