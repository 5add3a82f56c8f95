------------------------------ MODULE Replicas ------------------------------
(***************************************************************************)
(* replica restart and replica restore (cli/replica_group.py,              *)
(* internal/table_replica.py): the replica of a table has lost its nodes in *)
(* ZooKeeper, and the table is readonly.  SYSTEM RESTORE REPLICA detaches  *)
(* the parts, creates the nodes and attaches the parts again, and may stop *)
(* anywhere; the command attaches what the server has left detached.  The  *)
(* tables are tasks of a pool.                                             *)
(***************************************************************************)
EXTENDS Tables

CONSTANT InitNodes      \* the replicas before the command, see Nodes

VARIABLES
    nodes,      \* for each table, its nodes in ZooKeeper and whether it is readonly
    dump,       \* RESTORE_STATE_FILE_PATH: the parts of a table
    refused     \* the parts that the server refused to attach

replicaVars == <<nodes, dump, refused>>

\* The node replicas of the table, the replica's own node, whether both were
\* created by the same transaction, and whether the server has the table readonly.
Nodes == [replicas : BOOLEAN, mine : BOOLEAN, first : BOOLEAN, readonly : BOOLEAN]

ReplicaKinds == {"restart_replicas", "restore_replicas"}

ASSUME NodesAssumption == InitNodes \subseteq [Tables -> Nodes]

ActiveOf(t) == {p \in parts : p.table = t /\ p.state = "active"}

\* list_table_replicas; the restore takes those that are readonly.
ListReplicas ==
    {t \in Attached \cap cmd.tables :
        Engine[t] = "replicated" /\ (cmd.kind = "restore_replicas" => nodes[t].readonly)}

ListReplicaRows ==
    /\ cmd.kind \in ReplicaKinds
    /\ Listing({{Row(t, {}) : t \in ListReplicas}})
    /\ UNCHANGED <<partVars, tableVars, replicaVars>>

Unchanged == UNCHANGED <<partVars, tableVars, refused>>

\* SYSTEM RESTART REPLICA reads the nodes again.
Restarted(t) == [nodes EXCEPT ![t].readonly = ~nodes[t].mine]

RestartReplica(r) ==
    /\ cmd.kind = "restart_replicas"
    /\ MayBegin(r)
    /\ \/ Succeeds(r) /\ nodes' = (IF cmd.dry THEN nodes ELSE Restarted(r.name)) /\ UNCHANGED faults
       \/ Fails(r) /\ ~cmd.dry /\ nodes' \in {nodes, Restarted(r.name)} /\ Fault
    /\ UNCHANGED <<dump>>
    /\ Unchanged

---------------------------------------------------------------------------
(* restore_replica, a task of the pool *)

ListActiveParts(r) ==
    /\ cmd.kind = "restore_replicas"
    /\ \/ Begin(r, [step |-> "restore", parts |-> ActiveOf(r.name), left |-> ActiveOf(r.name)]) /\ UNCHANGED faults
       \/ MayBegin(r) /\ Fails(r) /\ Fault
    /\ UNCHANGED <<nodes, dump>>
    /\ Unchanged

Created(t) == [nodes EXCEPT ![t] = [replicas |-> TRUE, mine |-> TRUE,
                                    first |-> ~nodes[t].replicas, readonly |-> TRUE]]

Restored(t) == [Created(t) EXCEPT ![t].readonly = FALSE]

\* The server refuses a table that is not readonly or has its nodes (BAD_ARGUMENTS).
\* Otherwise the query may fail anywhere: with some parts detached, before or after
\* the nodes are created, or when all is done.  The client sees the loss of
\* ZooKeeper, another error of the server, or no answer, which nothing catches.
RestoreReplica(r) ==
    LET t == r.name
        bad == ~nodes[t].readonly \/ nodes[t].mine
        to(step) == GoTo(r, [at[r] EXCEPT !.step = step])
    IN  /\ IsAt(r, "restore")
        /\ \/ cmd.dry /\ Succeeds(r) /\ UNCHANGED <<parts, nodes, faults>>
           \/ ~cmd.dry /\ bad /\ to("restart_only") /\ UNCHANGED <<parts, nodes, faults>>
           \/ ~cmd.dry /\ ~bad /\ Succeeds(r) /\ nodes' = Restored(t) /\ UNCHANGED <<parts, faults>>
           \/ /\ ~cmd.dry /\ Fault
              /\ to("dump") \/ to("is_first") \/ Fails(r)
              /\ nodes' \in IF bad THEN {nodes} ELSE {nodes, Created(t), Restored(t)}
              /\ \E off \in SUBSET (IF bad \/ ~nodes'[t].readonly THEN {} ELSE ActiveOf(t)) :
                    parts' = (parts \ off) \cup {[p EXCEPT !.state = "detached"] : p \in off}
        /\ UNCHANGED <<snapshot, reported, touched, took, served, tableVars, dump, refused>>

RestartOnly(r) ==
    /\ IsAt(r, "restart_only")
    /\ \/ Succeeds(r) /\ nodes' = Restarted(r.name) /\ UNCHANGED faults
       \/ Fails(r) /\ UNCHANGED nodes /\ Fault
    /\ UNCHANGED dump
    /\ Unchanged

\* is_first_replica compares the transactions of two nodes, and raises if one of
\* them is not there; the other replicas fetch their parts.
IsFirstReplica(r) ==
    /\ IsAt(r, "is_first")
    /\ IF nodes[r.name].mine /\ nodes[r.name].first
       THEN GoTo(r, [at[r] EXCEPT !.step = "restart"]) ELSE Fails(r)
    /\ UNCHANGED <<nodes, dump, faults>>
    /\ Unchanged

RestartToAttach(r) ==
    /\ IsAt(r, "restart")
    /\ \/ /\ nodes' = Restarted(r.name) /\ UNCHANGED faults
          /\ GoTo(r, [at[r] EXCEPT !.step = IF nodes'[r.name].readonly THEN "dump" ELSE "attach"])
       \/ Fails(r) /\ UNCHANGED nodes /\ Fault
    /\ UNCHANGED dump
    /\ Unchanged

\* Mutated: the parts after one that the server refused are not tried.
LeftOrNone(left, p, ok) == IF ok THEN left \ {p} ELSE {}

\* A part that cannot be attached is skipped.
Left(left, p, ok) == left \ {p}

\* attach_part for every part that was active; most of them still are, and the
\* server refuses those.
AttachParts(r) ==
    /\ IsAt(r, "attach")
    /\ \E p \in at[r].left :
        LET off == [p EXCEPT !.state = "detached"]
            next(ok) == GoTo(r, [at[r] EXCEPT !.left = Left(@, p, ok)])
        IN  \/ /\ off \in parts /\ parts' = (parts \ {off}) \cup {p}
               /\ next(TRUE) /\ UNCHANGED <<refused, faults>>
            \/ off \notin parts /\ next(FALSE) /\ UNCHANGED <<parts, refused, faults>>
            \/ /\ off \in parts /\ Fault /\ UNCHANGED parts
               /\ \/ next(FALSE) /\ refused' = refused \cup {p}
                  \/ /\ GoTo(r, [at[r] EXCEPT !.step = "dump"]) \/ Fails(r)
                     /\ UNCHANGED refused
    /\ UNCHANGED <<snapshot, reported, touched, took, served, tableVars, nodes, dump>>

AttachedParts(r) ==
    /\ IsAt(r, "attach") /\ at[r].left = {}
    /\ Succeeds(r)
    /\ UNCHANGED <<nodes, dump, faults>>
    /\ Unchanged

\* Mutated: the parts are listed when the file is written.
DumpedNow(r) == ActiveOf(r.name)

Dumped(r) == at[r].parts

\* _dump_json_with_parts: every task writes the same file.
DumpParts(r) ==
    /\ IsAt(r, "dump")
    /\ dump' = Dumped(r)
    /\ Fails(r)
    /\ UNCHANGED <<nodes, faults>>
    /\ Unchanged

FinishReplicas ==
    /\ cmd.kind \in ReplicaKinds
    /\ Finish \/ Kill
    /\ UNCHANGED <<partVars, tableVars, replicaVars>>

ReplicasInit ==
    /\ nodes \in InitNodes
    /\ dump = {} /\ refused = {}

ReplicaStep(r) ==
    \/ RestartReplica(r) \/ ListActiveParts(r) \/ RestoreReplica(r) \/ RestartOnly(r)
    \/ IsFirstReplica(r) \/ RestartToAttach(r) \/ AttachParts(r) \/ AttachedParts(r)
    \/ DumpParts(r)

ReplicasNext ==
    \/ ListReplicaRows \/ FinishReplicas
    \/ cmd.kind \in ReplicaKinds /\ \E r \in listed : ReplicaStep(r)

---------------------------------------------------------------------------
(* Properties *)

\* Every variable keeps its type; of the rows, only replicas are at work together.
ServerTypeOK ==
    /\ PartsTypeOK /\ TablesTypeOK
    /\ nodes \in [Tables -> Nodes]
    /\ dump \subseteq Part /\ refused \subseteq Part
    /\ cmd.kind = "restore_replicas" => \A r \in DOMAIN at : at[r].left \subseteq at[r].parts

\* A table that the command says is restored has all the parts that were active
\* before, except those that the server refused to attach one by one
\* (table_replica.py:290).
RestoredHaveTheirParts ==
    cmd.kind = "restore_replicas" =>
        \A r \in done : \A p \in snapshot :
            p.table = r.name /\ p.state = "active" => p \in parts \/ p \in refused

\* The file has every part of some table that the failed restore left detached, so
\* that part attach can be given the file.  There is one file: of several tables
\* that failed at the same time it has the parts of one (table_replica.py:303).
DumpHasWhatIsDetached ==
    dump # {} => \E r \in failed :
        LET before == {p \in snapshot : p.table = r.name /\ p.state = "active"}
        IN  dump \subseteq before /\ before \ parts \subseteq dump
=============================================================================
