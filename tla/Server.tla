------------------------------- MODULE Server -------------------------------
(***************************************************************************)
(* One command on parts, partitions, tables, replicas or files, and the    *)
(* server next to it: the modules that it is composed of, each of which    *)
(* has the commands of its kinds.                                          *)
(***************************************************************************)
EXTENDS ServerFiles

ASSUME ItemsAssumption ==
    Part \cup Partition \cup TableRow \cup FileRow \subseteq Items

Init == LoopInit /\ PartsInit /\ TablesInit /\ ReplicasInit /\ FilesInit

Next ==
    \/ PartsNext /\ UNCHANGED <<tableVars, replicaVars, fileVars>>
    \/ TablesNext /\ UNCHANGED <<replicaVars, fileVars>>
    \/ ReplicasNext /\ UNCHANGED fileVars
    \/ FilesNext

vars == <<loopVars, partVars, tableVars, replicaVars, fileVars>>

Spec == Init /\ [][Next]_vars
=============================================================================
