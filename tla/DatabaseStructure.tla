-------------------------- MODULE DatabaseStructure --------------------------
(***************************************************************************)
(* What the coordination of database migration promises: the first replica *)
(* publishes its tables and becomes a member in one step, every other one  *)
(* joins, and joining changes no published table.  A structure is whole    *)
(* from its publication on, and a whole structure has a member; one that   *)
(* is being deleted is broken, may lose any part of itself, and is not     *)
(* published again before it is gone.  DatabaseMigration implements it     *)
(* when the server has SYSTEM RESTORE DATABASE REPLICA.                    *)
(***************************************************************************)
CONSTANTS Replicas, Tables, ZkRow, NoTable

VARIABLES
    phase,      \* "none", "whole" or "broken"
    members,    \* the replicas registered in ZooKeeper
    tables      \* what ZooKeeper knows of each table

Unpublished == [t \in Tables |-> NoTable]
Published == [Tables -> ZkRow \cup {NoTable}]

Publish(r) ==
    /\ phase = "none"
    /\ phase' = "whole"
    /\ members' = {r}
    /\ tables' \in Published

Join(r) ==
    /\ phase = "whole" => members # {}
    /\ phase # "none"
    /\ members' = members \cup {r}
    /\ UNCHANGED <<phase, tables>>

\* CREATE or ALTER TABLE on a member.
Define(t, row) ==
    /\ members # {}
    /\ tables' = [tables EXCEPT ![t] = row]
    /\ UNCHANGED <<phase, members>>

\* Some of the database is deleted from ZooKeeper.
Erase ==
    /\ phase # "none"
    /\ phase' = "broken"
    /\ members' \subseteq members
    /\ \E gone \in SUBSET Tables :
          tables' = [t \in Tables |-> IF t \in gone THEN NoTable ELSE tables[t]]

\* The database is gone from ZooKeeper.
Drop ==
    /\ phase' = "none"
    /\ members' = {}
    /\ tables' = Unpublished

Init == \/ phase = "none" /\ members = {} /\ tables = Unpublished
        \/ phase = "whole" /\ members = Replicas /\ tables \in Published

Next == \/ \E r \in Replicas : Publish(r) \/ Join(r)
        \/ \E t \in Tables, row \in ZkRow : Define(t, row)
        \/ Erase
        \/ Drop

Spec == Init /\ [][Next]_<<phase, members, tables>>
=============================================================================
