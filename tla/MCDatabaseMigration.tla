------------------------ MODULE MCDatabaseMigration ------------------------
(* Instances of DatabaseMigration for TLC. *)
EXTENDS DatabaseMigration, TLC

\* The hosts are interchangeable: no action names one of them.
Symmetry == Permutations(Replicas)
=============================================================================
