---------------------------- MODULE ServerProofs ----------------------------
(***************************************************************************)
(* Theorems about Server, for every number of tables, parts, rows, files,  *)
(* failures, kills and restarts, and every command line: first about its   *)
(* loop, which implements BulkCommand whatever a command does at its rows, *)
(* then about what the commands leave of the parts, tables, replicas and   *)
(* files, with the invariants that make those properties inductive.        *)
(***************************************************************************)
EXTENDS Server, FiniteSetTheorems, SequenceTheorems, TLAPS

-----------------------------------------------------------------------------
(* The loop: every action of Parts, Tables and Replicas on a row is one of *)
(* the steps of LoopNext and something that is done to the server.         *)

\* The steps of a row: it is finished at once, or begun, or it goes on.
RowNext(r) ==
    \/ MayBegin(r) /\ (Succeeds(r) \/ Fails(r))
    \/ \E step : Begin(r, step)
    \/ /\ phase = "run" /\ r \in DOMAIN at
       /\ Succeeds(r) \/ Fails(r) \/ \E step : GoTo(r, step)

LoopNext ==
    \/ Listing(SUBSET Items) \/ ListingFails \/ Finish \/ Kill
    \/ \E r \in listed : RowNext(r)

LoopSpec == LoopInit /\ [][LoopNext]_loopVars

\* What the rows at work need so that each of their steps is one of the abstract
\* loop: they are not processed, and the limit of errors was not reached before
\* they began, nor since, because only a pool has several rows at work.
LoopInv ==
    /\ phase \in {"start", "run", "ok", "error", "killed"}
    /\ phase = "start" => DOMAIN at = {} /\ done \cup failed = {}
    /\ done \cup failed \subseteq listed
    /\ cmd \in Commands
    /\ IsFiniteSet(DOMAIN at)
    /\ DOMAIN at \subseteq Pending
    /\ ~Pool => \A q, r \in DOMAIN at : q = r
    /\ phase = "run" /\ DOMAIN at # {} => ~LimitOfErrorsReached

\* The two modules count with the same operator.
LEMMA SameCardinality == \A S : Bulk!Cardinality(S) = Cardinality(S)
BY DEF Bulk!Cardinality, Cardinality

\* The loop begins as the abstract one does.
LEMMA LoopInitEstablishes == LoopInit => LoopInv /\ Bulk!BulkInit
<1> SUFFICES ASSUME LoopInit PROVE LoopInv /\ Bulk!BulkInit
    OBVIOUS
<1>1. DOMAIN at = {}
    BY DEF LoopInit
<1>2. LoopInv
    BY <1>1, FS_EmptySet DEF LoopInit, LoopInv
<1>3. Bulk!BulkInit
    BY CommandsAssumption DEF LoopInit, Bulk!BulkInit, Bulk!Options, Pool
<1> QED BY <1>2, <1>3

\* A row that begins is the only one at work, or there is a pool.
LEMMA BeginsAlone ==
    ASSUME LoopInv, NEW r, MayBegin(r), ~Pool
    PROVE  DOMAIN at = {}
<1>1. Cardinality(DOMAIN at) \in Nat
    BY FS_CardinalityType DEF LoopInv
<1>2. Cardinality(DOMAIN at) < 1
    BY DEF MayBegin
<1>3. Cardinality(DOMAIN at) = 0
    BY <1>1, <1>2
<1> QED BY <1>3, FS_EmptySet DEF LoopInv

\* Without a pool no other row is at work when a row fails; with a pool there is no
\* limit that the failure could reach.
LEMMA FailureEndsWork ==
    ASSUME LoopInv, NEW r, Fails(r), ~Pool => DOMAIN at \subseteq {r}
    PROVE  DOMAIN at' # {} => ~LimitOfErrorsReached'
<1>1. CASE Pool
    BY <1>1, CommandsAssumption DEF Fails, LoopInv, Pool, LimitOfErrorsReached
<1>2. CASE ~Pool
    BY <1>2 DEF Fails, Leave, Restrict
<1> QED BY <1>1, <1>2

\* Every step of the loop keeps what its rows at work need.
LEMMA LoopStepPreserves == LoopInv /\ [LoopNext]_loopVars => LoopInv'
<1> SUFFICES ASSUME LoopInv, [LoopNext]_loopVars PROVE LoopInv'
    OBVIOUS
<1>1. ASSUME NEW r \in listed, MayBegin(r) \/ r \in DOMAIN at, phase = "run",
             Succeeds(r) \/ Fails(r)
      PROVE  LoopInv'
    <2>1. DOMAIN at' = DOMAIN at \ {r}
        BY <1>1 DEF Succeeds, Fails, Leave, Restrict
    <2>2. IsFiniteSet(DOMAIN at')
        BY <2>1, FS_Difference DEF LoopInv
    <2>3. ~Pool => DOMAIN at \subseteq {r}
        BY <1>1, BeginsAlone DEF LoopInv
    <2>4. phase' = "run" /\ DOMAIN at' # {} => ~LimitOfErrorsReached'
        <3>1. CASE Fails(r)
            BY <3>1, <2>3, FailureEndsWork
        <3>2. CASE Succeeds(r)
            BY <1>1, <3>2, <2>1 DEF Succeeds, LoopInv, LimitOfErrorsReached
        <3> QED BY <1>1, <3>1, <3>2
    <2> QED
        BY <1>1, <2>1, <2>2, <2>3, <2>4 DEF LoopInv, Succeeds, Fails, AfterFailure, MayBegin, Pending, Pool
<1>2. ASSUME NEW r \in listed, NEW step, Begin(r, step)
      PROVE  LoopInv'
    <2>1. DOMAIN at' = DOMAIN at \cup {r}
        BY <1>2 DEF Begin
    <2>2. IsFiniteSet(DOMAIN at')
        BY <2>1, FS_AddElement DEF LoopInv
    <2>3. ~Pool => DOMAIN at' = {r}
        BY <1>2, <2>1, BeginsAlone DEF Begin
    <2> QED
        BY <1>2, <2>1, <2>2, <2>3 DEF LoopInv, Begin, MayBegin, Pending, Pool, LimitOfErrorsReached
<1>3. ASSUME NEW r \in DOMAIN at, NEW step, GoTo(r, step)
      PROVE  LoopInv'
    BY <1>3 DEF GoTo, LoopInv, Pending, Pool, LimitOfErrorsReached
<1>4. CASE Listing(SUBSET Items)
    BY <1>4 DEF Listing, LoopInv, Pending, Pool, LimitOfErrorsReached
<1>5. CASE ListingFails \/ Finish \/ Kill
    BY <1>5 DEF ListingFails, Finish, Kill, LoopInv, Pending, Pool, LimitOfErrorsReached
<1>6. CASE UNCHANGED loopVars
    BY <1>6 DEF loopVars, LoopInv, Pending, Pool, LimitOfErrorsReached
<1> QED
    BY <1>1, <1>2, <1>3, <1>4, <1>5, <1>6 DEF LoopNext, RowNext, MayBegin

\* Every step of the loop is one of the abstract loop, or none.
LEMMA LoopStepIsBulkStep == LoopInv /\ [LoopNext]_loopVars => [Bulk!BulkNext]_(Bulk!bulkVars)
<1> SUFFICES ASSUME LoopInv, [LoopNext]_loopVars PROVE [Bulk!BulkNext]_(Bulk!bulkVars)
    OBVIOUS
<1> USE DEF Bulk!bulkVars, Pool
<1>1. ASSUME NEW r \in listed, MayBegin(r) \/ r \in DOMAIN at, phase = "run",
             Succeeds(r) \/ Fails(r)
      PROVE  Bulk!BulkProcess
    <2>1. r \in listed \ Bulk!Processed
        BY <1>1 DEF LoopInv, MayBegin, Pending, Bulk!Processed
    <2>2. ~Bulk!LimitReached
        BY <1>1, SameCardinality DEF LoopInv, MayBegin, LimitOfErrorsReached, Bulk!LimitReached
    <2>3. Bulk!BulkSucceed(r) \/ Bulk!BulkFail(r)
        BY <1>1 DEF Succeeds, Fails, AfterFailure, KeepGoing, Bulk!BulkSucceed, Bulk!BulkFail
    <2> QED
        BY <1>1, <2>1, <2>2, <2>3 DEF Bulk!BulkProcess, Succeeds, Fails
<1>2. CASE Listing(SUBSET Items)
    BY <1>2 DEF Listing, Bulk!BulkNext, Bulk!BulkList
<1>3. CASE ListingFails \/ Kill
    BY <1>3 DEF ListingFails, Kill, Ended, LoopInv, Bulk!BulkNext, Bulk!BulkStop
<1>4. CASE Finish
    BY <1>4, SameCardinality DEF LoopInv, Finish, Pending, KeepGoing, LimitOfErrorsReached, Bulk!BulkNext, Bulk!BulkEnd,
                Bulk!Processed, Bulk!LimitReached
<1>5. ASSUME NEW r, NEW step, Begin(r, step) \/ GoTo(r, step)
      PROVE  UNCHANGED Bulk!bulkVars
    BY <1>5 DEF Begin, GoTo
<1>6. CASE UNCHANGED loopVars
    BY <1>6 DEF loopVars
<1> QED
    BY <1>1, <1>2, <1>3, <1>4, <1>5, <1>6 DEF LoopNext, RowNext, MayBegin, Bulk!BulkNext

\* The loop with try, except, --keep-going, the limit of errors and the pool keeps
\* the promises of BulkCommand, for every command line and list.
THEOREM LoopImplementsBulk == LoopSpec => ImplementsBulk
<1> QED
    BY LoopInitEstablishes, LoopStepPreserves, LoopStepIsBulkStep, PTL DEF LoopSpec, ImplementsBulk, Bulk!BulkSpec

-----------------------------------------------------------------------------
(* The steps of a command are steps of its loop *)

\* No kind belongs to two modules.
LEMMA KindsAreDisjoint ==
    /\ PartsKinds \cap TableKinds = {} /\ PartsKinds \cap ReplicaKinds = {}
    /\ PartsKinds \cap FileKinds = {} /\ TableKinds \cap ReplicaKinds = {}
    /\ TableKinds \cap FileKinds = {} /\ ReplicaKinds \cap FileKinds = {}
  BY DEF PartsKinds, PartKinds, PartitionKinds, TableKinds, LoopKinds, OneTableKinds,
         ReplicaKinds, FileKinds

\* The steps of the rows, where they take place.
LEMMA RowQueryIsRowStep ==
    ASSUME NEW kind, NEW r, NEW effects, RowQuery(kind, r, effects)
    PROVE  RowNext(r) /\ cmd.kind = kind /\ MayBegin(r)
  BY DEF RowQuery, RowNext

PartsStep(r) ==
    \/ attach_parts_command(r) \/ detach_parts_command(r) \/ delete_parts_command(r)
    \/ move_parts_command(r) \/ remove_detached_part_prefix(r) \/ check_parts_command(r)
    \/ attach_partitions_command(r) \/ detach_partitions_command(r)
    \/ delete_partitions_command(r) \/ optimize_partitions_command(r)
    \/ materialize_ttl_command(r) \/ check_partitions_command(r)
    \/ move_partitions_command(r) \/ ReattachDetach(r) \/ ReattachAttach(r)
    \/ DetectBroken(r) \/ DetectAttach(r)

\* A query about a part or a partition.
LEMMA PartsStepIsRowStep ==
    ASSUME NEW r, PartsStep(r)
    PROVE  RowNext(r) /\ cmd.kind \in PartsKinds
<1>1. CASE attach_parts_command(r)
  BY <1>1, RowQueryIsRowStep DEF attach_parts_command, PartsKinds, PartKinds, PartitionKinds
<1>2. CASE detach_parts_command(r)
  BY <1>2, RowQueryIsRowStep DEF detach_parts_command, PartsKinds, PartKinds, PartitionKinds
<1>3. CASE delete_parts_command(r)
  BY <1>3, RowQueryIsRowStep DEF delete_parts_command, PartsKinds, PartKinds, PartitionKinds
<1>4. CASE move_parts_command(r)
  BY <1>4, RowQueryIsRowStep DEF move_parts_command, PartsKinds, PartKinds, PartitionKinds
<1>5. CASE remove_detached_part_prefix(r)
  BY <1>5, RowQueryIsRowStep DEF remove_detached_part_prefix, PartsKinds, PartKinds, PartitionKinds
<1>6. CASE check_parts_command(r)
  BY <1>6, RowQueryIsRowStep DEF check_parts_command, PartsKinds, PartKinds, PartitionKinds
<1>7. CASE attach_partitions_command(r)
  BY <1>7, RowQueryIsRowStep DEF attach_partitions_command, PartsKinds, PartKinds, PartitionKinds
<1>8. CASE detach_partitions_command(r)
  BY <1>8, RowQueryIsRowStep DEF detach_partitions_command, PartsKinds, PartKinds, PartitionKinds
<1>9. CASE delete_partitions_command(r)
  BY <1>9, RowQueryIsRowStep DEF delete_partitions_command, PartsKinds, PartKinds, PartitionKinds
<1>10. CASE optimize_partitions_command(r)
  BY <1>10, RowQueryIsRowStep DEF optimize_partitions_command, PartsKinds, PartKinds, PartitionKinds
<1>11. CASE materialize_ttl_command(r)
  BY <1>11, RowQueryIsRowStep DEF materialize_ttl_command, PartsKinds, PartKinds, PartitionKinds
<1>12. CASE check_partitions_command(r)
  BY <1>12, RowQueryIsRowStep DEF check_partitions_command, PartsKinds, PartKinds, PartitionKinds
<1>13. CASE move_partitions_command(r)
  BY <1>13, RowQueryIsRowStep DEF move_partitions_command, PartsKinds, PartKinds, PartitionKinds
<1>14. CASE ReattachDetach(r)
  BY <1>14 DEF ReattachDetach, RowNext, IsAt, PartsKinds, PartitionKinds, Begin
<1>15. CASE ReattachAttach(r)
  BY <1>15 DEF ReattachAttach, RowNext, IsAt, PartsKinds, PartitionKinds, Begin
<1>16. CASE DetectBroken(r)
  BY <1>16 DEF DetectBroken, RowNext, IsAt, PartsKinds, PartitionKinds, Begin
<1>17. CASE DetectAttach(r)
  BY <1>17 DEF DetectAttach, RowNext, IsAt, PartsKinds, PartitionKinds, Begin
<1>18. QED
  BY <1>1, <1>2, <1>3, <1>4, <1>5, <1>6, <1>7, <1>8, <1>9, <1>10, <1>11,
     <1>12, <1>13, <1>14, <1>15, <1>16, <1>17
     DEF PartsStep

\* A step at a table.
LEMMA TableStepIsRowStep ==
    ASSUME NEW r, TableStep(r)
    PROVE  RowNext(r) /\ cmd.kind \in TableKinds
<1>1. CASE DeleteTable(r)
  BY <1>1 DEF DeleteTable, First, Step, Do, IsAt, RowNext, TableKinds, LoopKinds, OneTableKinds
<1>2. CASE DetachTable(r)
  BY <1>2 DEF DetachTable, First, Step, Do, IsAt, RowNext, TableKinds, LoopKinds, OneTableKinds
<1>3. CASE AttachTable(r)
  BY <1>3 DEF AttachTable, First, Step, Do, IsAt, RowNext, TableKinds, LoopKinds, OneTableKinds
<1>4. CASE MaterializeTtl(r)
  BY <1>4 DEF MaterializeTtl, First, Step, Do, IsAt, RowNext, TableKinds, LoopKinds, OneTableKinds
<1>5. CASE SetFlag(r)
  BY <1>5 DEF SetFlag, First, Step, Do, IsAt, RowNext, TableKinds, LoopKinds, OneTableKinds
<1>6. CASE CheckTable(r)
  BY <1>6 DEF CheckTable, First, Step, Do, IsAt, RowNext, TableKinds, LoopKinds, OneTableKinds
<1>7. CASE CheckDryRun(r)
  BY <1>7 DEF CheckDryRun, RowNext, TableKinds, LoopKinds, OneTableKinds
<1>8. CASE Recreate(r)
  BY <1>8 DEF Recreate, First, Step, Do, IsAt, RowNext, TableKinds, LoopKinds, OneTableKinds
<1>9. CASE Reattach(r)
  BY <1>9 DEF Reattach, First, Step, Do, IsAt, RowNext, TableKinds, LoopKinds, OneTableKinds
<1>10. CASE QueueDelete(r)
  BY <1>10 DEF QueueDelete, First, Step, Do, IsAt, RowNext, TableKinds, LoopKinds, OneTableKinds
<1>11. CASE ReadUuid(r)
  BY <1>11 DEF ReadUuid, RowNext, TableKinds, LoopKinds, OneTableKinds
<1>12. CASE DetachToChange(r)
  BY <1>12 DEF DetachToChange, First, Step, Do, IsAt, RowNext, TableKinds, LoopKinds, OneTableKinds
<1>13. CASE UpdateUuid(r)
  BY <1>13 DEF UpdateUuid, First, Step, Do, IsAt, RowNext, TableKinds, LoopKinds, OneTableKinds
<1>14. CASE MoveTableStore(r)
  BY <1>14 DEF MoveTableStore, First, Step, Do, IsAt, RowNext, TableKinds, LoopKinds, OneTableKinds
<1>15. CASE CheckDetached(r)
  BY <1>15 DEF CheckDetached, First, Step, Do, IsAt, RowNext, TableKinds, LoopKinds, OneTableKinds
<1>16. CASE RemoveNext(r)
  BY <1>16 DEF RemoveNext, IsAt, RowNext, TableKinds, LoopKinds, OneTableKinds
<1>17. QED
  BY <1>1, <1>2, <1>3, <1>4, <1>5, <1>6, <1>7, <1>8, <1>9, <1>10, <1>11,
     <1>12, <1>13, <1>14, <1>15, <1>16
     DEF TableStep

\* A step at a replica.
LEMMA ReplicaStepIsRowStep ==
    ASSUME NEW r, ReplicaStep(r)
    PROVE  RowNext(r)
<1>1. CASE RestartReplica(r)
  BY <1>1 DEF RestartReplica, IsAt, RowNext
<1>2. CASE ListActiveParts(r)
  BY <1>2 DEF ListActiveParts, IsAt, RowNext
<1>3. CASE RestoreReplica(r)
  BY <1>3 DEF RestoreReplica, IsAt, RowNext
<1>4. CASE RestartOnly(r)
  BY <1>4 DEF RestartOnly, IsAt, RowNext
<1>5. CASE IsFirstReplica(r)
  BY <1>5 DEF IsFirstReplica, IsAt, RowNext
<1>6. CASE RestartToAttach(r)
  BY <1>6 DEF RestartToAttach, IsAt, RowNext
<1>7. CASE AttachParts(r)
  BY <1>7 DEF AttachParts, IsAt, RowNext
<1>8. CASE AttachedParts(r)
  BY <1>8 DEF AttachedParts, IsAt, RowNext
<1>9. CASE DumpParts(r)
  BY <1>9 DEF DumpParts, IsAt, RowNext
<1>10. QED
  BY <1>1, <1>2, <1>3, <1>4, <1>5, <1>6, <1>7, <1>8, <1>9
     DEF ReplicaStep

\* A step at a file or a directory.
LEMMA FileStepIsRowStep ==
    ASSUME NEW r, FileStep(r)
    PROVE  RowNext(r)
<1>1. CASE ProcessPath(r)
  BY <1>1 DEF ProcessPath, IsAt, RowNext
<1>2. CASE RemoveData(r)
  BY <1>2 DEF RemoveData, IsAt, RowNext
<1>3. CASE RemoveOrphanedObject(r)
  BY <1>3 DEF RemoveOrphanedObject, IsAt, RowNext
<1>4. CASE GenerateDdl(r)
  BY <1>4 DEF GenerateDdl, IsAt, RowNext
<1>5. CASE CreateDictionary(r)
  BY <1>5 DEF CreateDictionary, IsAt, RowNext
<1>6. CASE Unlink(r)
  BY <1>6 DEF Unlink, IsAt, RowNext
<1>7. QED
  BY <1>1, <1>2, <1>3, <1>4, <1>5, <1>6
     DEF FileStep

\* Every step is one of the module whose kind the command has, and at a row or at
\* the whole list.
LEMMA StepIsOfKind ==
    /\ PartsNext => cmd.kind \in PartsKinds
    /\ TablesNext => cmd.kind \in TableKinds
    /\ ReplicasNext => cmd.kind \in ReplicaKinds
    /\ FilesNext => cmd.kind \in FileKinds
<1>1. PartsNext => cmd.kind \in PartsKinds
  BY PartsStepIsRowStep DEF PartsNext, PartsStep, ListRows, ListRowsFails, FinishParts,
     KillParts, Merge, RemoveOutdated, Insert, Background
<1>2. TablesNext => cmd.kind \in TableKinds
  <2>1. Restart => cmd.kind \in TableKinds
    BY DEF Restart
  <2>2. ExecuteTask => cmd.kind \in TableKinds
    BY DEF ExecuteTask, TableKinds, LoopKinds
  <2>3. QED
    BY <2>1, <2>2, TableStepIsRowStep DEF TablesNext, ListTableRows, ListTableRowsFails,
       FinishTables, KillTables
<1>3. ReplicasNext => cmd.kind \in ReplicaKinds
  BY DEF ReplicasNext, ListReplicaRows, FinishReplicas
<1>4. FilesNext => cmd.kind \in FileKinds
  BY DEF FilesNext, ListFiles, ListFilesFails, FinishFiles, CreateTable, FileKinds
<1>5. QED
  BY <1>1, <1>2, <1>3, <1>4

-----------------------------------------------------------------------------
(* Type correctness *)

\* What the rows at work have noted.
ChangeSteps == [step : {"detach", "file", "move"}, old : Uuids \cup {NoUuid}, new : Uuids]
RemoveSteps == [step : {"remove"}, n : 1..5, uuid : Uuids, disks : SUBSET Disks]
QueueSteps == [step : {"tasks"}, left : SUBSET Tasks]
RestoreNames == {"restore", "restart_only", "dump", "is_first", "restart", "attach"}
RestoreSteps ==
    {x \in [step : RestoreNames, parts : SUBSET Part, left : SUBSET Part] : x.left \subseteq x.parts}
RemoveDataSteps == [step : {"rmtree"}]
CreateSteps == [step : {"create"}, left : Seq(DOMAIN Definition)]

StepTypes ==
    /\ cmd.kind = "change_uuid" => \A r \in DOMAIN at : at[r] \in ChangeSteps
    /\ cmd.kind = "delete_detached_table" => \A r \in DOMAIN at : at[r] \in RemoveSteps
    /\ cmd.kind = "queue_delete" => \A r \in DOMAIN at : at[r] \in QueueSteps
    /\ cmd.kind = "restore_replicas" => \A r \in DOMAIN at : at[r] \in RestoreSteps
    /\ cmd.kind = "clean_orphaned_tables" => \A r \in DOMAIN at : at[r] \in RemoveDataSteps
    /\ cmd.kind = "migrate_dictionaries" => \A r \in DOMAIN at : at[r] \in CreateSteps
    /\ cmd.kind \in {"restart_replicas", "cleanup_data_dir"} => DOMAIN at = {}

\* The rows of the lists that ServerTypeOK does not have, and what is left of the
\* files of no table.
FileTypes ==
    /\ cmd.kind \in ReplicaKinds => listed \subseteq TableRow
    /\ cmd.kind \in FileKinds => listed \subseteq FileRow
    /\ cmd.kind = "migrate_dictionaries" => listed \subseteq [file : Configs]
    /\ orphans \subseteq OrphanDirs /\ links \subseteq OrphanLinks /\ configs \subseteq Configs

TypeInv == LoopInv /\ ServerTypeOK /\ StepTypes /\ FileTypes

\* What a limit leaves of a list is in the list.
LEMMA LimitedIsPart == \A S : \A s \in Limited(S) : s \subseteq S
  BY DEF Limited, kSubset

\* The lists of the commands on parts and partitions.
LEMMA PartLists ==
    ASSUME LoopInv, PartsTypeOK
    PROVE  /\ cmd.kind \in PartKinds => Selected \subseteq Part /\ FromFile \subseteq Part
           /\ cmd.kind \in PartitionKinds => Selected \subseteq Partition /\ FromFile \subseteq Partition
<1>1. parts \subseteq Part /\ snapshot \subseteq Part /\ cmd.tables \subseteq Tables
      /\ cmd.partitions \subseteq Partitions
  BY PartsAssumption DEF LoopInv, PartsTypeOK
<1>2. \A p \in Part : PartitionOf(p) \in Partition
  BY DEF Part, Partition, PartitionOf
<1>3. /\ \A states : ListParts(states) \subseteq Part
      /\ \A reason : ListDetached(reason) \subseteq Part
  BY <1>1 DEF ListParts, ListDetached
<1>4. \A reason : DetachedPartitions(reason) \subseteq Partition
  BY <1>1, <1>2 DEF DetachedPartitions
<1>5. PartitionsOfParts \subseteq Partition
  BY <1>1 DEF PartitionsOfParts, Partition
<1>6. /\ cmd.kind \in PartKinds => FromFile \subseteq Part
      /\ cmd.kind \in PartitionKinds => FromFile \subseteq Partition
  BY <1>1, <1>2 DEF FromFile, PartKinds, PartitionKinds
<1>7. cmd.kind \in PartKinds => Selected \subseteq Part
  BY <1>3 DEF Selected, PartKinds
<1>8. cmd.kind \in PartitionKinds => Selected \subseteq Partition
  BY <1>4, <1>5 DEF Selected, PartitionKinds
<1>9. QED
  BY <1>6, <1>7, <1>8

\* The lists of the commands on tables, replicas and files.
LEMMA TableLists ==
    ASSUME TypeInv
    PROVE  /\ cmd.kind \in TableKinds => TableRows \subseteq TableRow
           /\ {Row(t, {}) : t \in ListReplicas} \subseteq TableRow
<1>1. queue \in [Tables -> SUBSET Tasks] /\ cmd.tables \subseteq Tables
  BY PartsAssumption DEF TypeInv, ServerTypeOK, TablesTypeOK, LoopInv
<1>2. \A t \in Tables : \A tasks \in SUBSET Tasks : Row(t, tasks) \in TableRow
  BY DEF Row, TableRow
<1>3. \A t \in Tables : Row(t, {}) \in TableRow /\ Row(t, queue[t]) \in TableRow
  BY <1>1, <1>2
<1>4. ListReplicas \subseteq Tables /\ \A e : ListTables(e) \subseteq Tables
  BY <1>1 DEF ListReplicas, ListTables
<1>5. TableRows \subseteq TableRow
  BY <1>1, <1>3, <1>4 DEF TableRows, Attached
<1>6. QED
  BY <1>3, <1>4, <1>5

\* Directories, names and files.
LEMMA FileLists ==
    ASSUME TypeInv, cmd.kind \in FileKinds
    PROVE  /\ FilesFound \subseteq FileRow
           /\ cmd.kind = "migrate_dictionaries" => FilesFound \subseteq [file : Configs]
<1>1. /\ tables \in [Tables -> Table] /\ orphans \subseteq OrphanDirs
      /\ links \subseteq OrphanLinks /\ configs \subseteq Configs
  BY DEF TypeInv, ServerTypeOK, TablesTypeOK, FileTypes
<1>2. Directories \subseteq Uuids \cup OrphanDirs
  BY <1>1, TablesAssumption DEF Directories, Local, Table
<1>3. \A u \in Directories : Prefix[u] \in Range(Prefix)
  BY <1>2, FilesAssumption DEF Range
<1>4. QED
  BY <1>1, <1>3 DEF FilesFound, FileRow, FileKinds

\* So the loop of CommandLoop is what every command does, whatever it does at the
\* rows.
LEMMA NextIsLoopStep ==
    ASSUME TypeInv, [Next]_vars
    PROVE  [LoopNext]_loopVars
<1>0. Part \cup Partition \cup TableRow \cup FileRow \subseteq Items
  BY ItemsAssumption
<1>l. ASSUME NEW rows, rows \subseteq SUBSET Items, Listing(rows) PROVE LoopNext
  BY <1>l DEF Listing, LoopNext
<1>1. CASE PartsNext
  <2>1. CASE ListRows
    <3>1. cmd.kind \in PartsKinds /\ Listing(IF cmd.json THEN {FromFile} ELSE Limited(Selected))
      BY <2>1 DEF ListRows
    <3>2. {FromFile} \cup Limited(Selected) \subseteq SUBSET Items
      BY <1>0, <3>1, PartLists, LimitedIsPart
         DEF TypeInv, ServerTypeOK, PartsKinds
    <3>3. QED
      BY <1>l, <3>1, <3>2
  <2>2. CASE ListRowsFails \/ FinishParts \/ KillParts
    BY <2>2 DEF ListRowsFails, FinishParts, KillParts, LoopNext
  <2>3. ASSUME NEW r \in listed, PartsStep(r) PROVE LoopNext
    BY <2>3, PartsStepIsRowStep DEF LoopNext
  <2>4. CASE Merge \/ RemoveOutdated \/ Insert
    BY <2>4 DEF Merge, RemoveOutdated, Insert, Background
  <2>5. QED
    BY <1>1, <2>1, <2>2, <2>3, <2>4 DEF PartsNext, PartsStep
<1>2. CASE TablesNext
  <2>1. CASE ListTableRows
    <3>1. cmd.kind \in TableKinds /\ Listing({TableRows})
      BY <2>1 DEF ListTableRows
    <3>2. {TableRows} \subseteq SUBSET Items
      BY <1>0, <3>1, TableLists
    <3>3. QED
      BY <1>l, <3>1, <3>2
  <2>2. CASE ListTableRowsFails \/ FinishTables \/ KillTables
    BY <2>2 DEF ListTableRowsFails, FinishTables, KillTables, LoopNext
  <2>3. ASSUME NEW r \in listed, TableStep(r) PROVE LoopNext
    BY <2>3, TableStepIsRowStep DEF LoopNext
  <2>4. CASE Restart \/ ExecuteTask
    BY <2>4 DEF Restart, ExecuteTask
  <2>5. QED
    BY <1>2, <2>1, <2>2, <2>3, <2>4 DEF TablesNext
<1>3. CASE ReplicasNext
  <2>1. CASE ListReplicaRows
    <3>1. Listing({{Row(t, {}) : t \in ListReplicas}})
      BY <2>1 DEF ListReplicaRows
    <3>2. {{Row(t, {}) : t \in ListReplicas}} \subseteq SUBSET Items
      BY <1>0, TableLists
    <3>3. QED
      BY <1>l, <3>1, <3>2
  <2>2. CASE FinishReplicas
    BY <2>2 DEF FinishReplicas, LoopNext
  <2>3. ASSUME NEW r \in listed, ReplicaStep(r) PROVE LoopNext
    BY <2>3, ReplicaStepIsRowStep DEF LoopNext
  <2>4. QED
    BY <1>3, <2>1, <2>2, <2>3 DEF ReplicasNext
<1>4. CASE FilesNext
  <2>1. CASE ListFiles
    <3>1. cmd.kind \in FileKinds /\ Listing(Limited(FilesFound))
      BY <2>1 DEF ListFiles
    <3>2. Limited(FilesFound) \subseteq SUBSET Items
      BY <1>0, <3>1, FileLists, LimitedIsPart
    <3>3. QED
      BY <1>l, <3>1, <3>2
  <2>2. CASE ListFilesFails \/ FinishFiles
    BY <2>2 DEF ListFilesFails, FinishFiles, LoopNext
  <2>3. ASSUME NEW r \in listed, FileStep(r) PROVE LoopNext
    BY <2>3, FileStepIsRowStep DEF LoopNext
  <2>4. CASE CreateTable
    BY <2>4 DEF CreateTable
  <2>5. QED
    BY <1>4, <2>1, <2>2, <2>3, <2>4 DEF FilesNext
<1>5. CASE UNCHANGED vars
  BY <1>5 DEF vars, loopVars
<1>6. QED
  BY <1>1, <1>2, <1>3, <1>4, <1>5 DEF Next

\* A set with no two elements.
LEMMA AtMostOne ==
    ASSUME NEW S, \A q, r \in S : q = r
    PROVE  Cardinality(S) <= 1
<1>1. CASE S = {}
  BY <1>1, FS_EmptySet
<1>2. ASSUME NEW r \in S PROVE Cardinality(S) <= 1
  <2>1. S = {r}
    BY <1>2
  <2>2. QED
    BY <2>1, FS_Singleton
<1>3. QED
  BY <1>1, <1>2

\* A query that fails when it has attached some of the parts.
AttachSome(some) == Become(some, {[p EXCEPT !.state = "active"] : p \in some})

\* What the server makes of its parts are parts.
LEMMA EffectsAreParts ==
    ASSUME PartsTypeOK
    PROVE  /\ \A p : /\ AttachPart(p) \subseteq SUBSET Part
                    /\ DetachPart(p) \subseteq SUBSET Part
                    /\ DropPart(p) \subseteq SUBSET Part
                    /\ DropDetachedPart(p) \subseteq SUBSET Part
                    /\ DropDetachedPartFromDisk(p) \subseteq SUBSET Part
                    /\ RemovePrefix(p) \subseteq SUBSET Part
                    /\ \A d \in Disks : MovePart(p, d) \subseteq SUBSET Part
           /\ \A q : /\ AttachPartition(q) \subseteq SUBSET Part
                    /\ DetachPartition(q) \subseteq SUBSET Part
                    /\ DropPartition(q) \subseteq SUBSET Part
                    /\ OptimizePartition(q) \subseteq SUBSET Part
                    /\ \A t \in Tables : MovePartition(q, t) \subseteq SUBSET Part
           /\ \A q : \A some \in SUBSET Attachable(q) : AttachSome(some) \subseteq SUBSET Part
           /\ {parts} \subseteq SUBSET Part
<1>1. parts \subseteq Part
  BY DEF PartsTypeOK
<1>2. \A old, new : new \subseteq Part => Become(old, new) \subseteq SUBSET Part
  BY <1>1 DEF Become
<1>3. \A p \in Part : /\ [p EXCEPT !.state = "active"] \in Part
                      /\ [p EXCEPT !.state = "detached"] \in Part
                      /\ [p EXCEPT !.state = "outdated"] \in Part
                      /\ [p EXCEPT !.reason = ""] \in Part
                      /\ \A d \in Disks : [p EXCEPT !.disk = d] \in Part
                      /\ \A t \in Tables : [p EXCEPT !.table = t] \in Part
                      /\ \A rows \in SUBSET Rows : [p EXCEPT !.rows = rows] \in Part
  BY DEF Part
<1>4. \A q, state : In(q, state) \subseteq Part
  BY <1>1 DEF In
<1>5. ASSUME NEW p
      PROVE  /\ AttachPart(p) \subseteq SUBSET Part
             /\ DetachPart(p) \subseteq SUBSET Part
             /\ DropPart(p) \subseteq SUBSET Part
             /\ DropDetachedPart(p) \subseteq SUBSET Part
             /\ DropDetachedPartFromDisk(p) \subseteq SUBSET Part
             /\ RemovePrefix(p) \subseteq SUBSET Part
             /\ \A d \in Disks : MovePart(p, d) \subseteq SUBSET Part
  <2>1. CASE p \in parts
    <3>1. /\ Become({p}, {[p EXCEPT !.state = "active"]}) \subseteq SUBSET Part
          /\ Become({p}, {[p EXCEPT !.state = "detached"]}) \subseteq SUBSET Part
          /\ Become({p}, {[p EXCEPT !.reason = ""]}) \subseteq SUBSET Part
          /\ Become({p}, {}) \subseteq SUBSET Part
          /\ \A d \in Disks : Become({p}, {[p EXCEPT !.disk = d]}) \subseteq SUBSET Part
      <4>1. p \in Part
        BY <1>1, <2>1
      <4>2. /\ {[p EXCEPT !.state = "active"]} \subseteq Part
            /\ {[p EXCEPT !.state = "detached"]} \subseteq Part
            /\ {[p EXCEPT !.reason = ""]} \subseteq Part
            /\ {} \subseteq Part
            /\ \A d \in Disks : {[p EXCEPT !.disk = d]} \subseteq Part
        BY <1>3, <4>1
      <4>3. QED
        BY <1>2, <4>2
    <3>2. QED
      BY <1>1, <3>1 DEF AttachPart, DetachPart, DropPart, DropDetachedPart,
         DropDetachedPartFromDisk, RemovePrefix, MovePart
  <2>2. CASE p \notin parts
    <3>1. Become({p}, {}) = {parts}
      BY <2>2 DEF Become
    <3>2. QED
      BY <1>1, <2>2, <3>1 DEF AttachPart, DetachPart, DropPart, DropDetachedPart,
         DropDetachedPartFromDisk, RemovePrefix, MovePart
  <2>3. QED
    BY <2>1, <2>2
<1>6. ASSUME NEW q
      PROVE  /\ AttachPartition(q) \subseteq SUBSET Part
             /\ DetachPartition(q) \subseteq SUBSET Part
             /\ DropPartition(q) \subseteq SUBSET Part
             /\ \A t \in Tables : MovePartition(q, t) \subseteq SUBSET Part
             /\ \A some \in SUBSET Attachable(q) :
                   AttachSome(some) \subseteq SUBSET Part
  <2>1. Attachable(q) \subseteq Part
    BY <1>4 DEF Attachable
  <2>2. \A some \in SUBSET Attachable(q) : {[p EXCEPT !.state = "active"] : p \in some} \subseteq Part
    BY <1>3, <2>1
  <2>3. {[p EXCEPT !.state = "detached"] : p \in In(q, "active")} \subseteq Part
    BY <1>3, <1>4
  <2>4. \A t \in Tables : {[p EXCEPT !.table = t] : p \in In(q, "active")} \subseteq Part
    BY <1>3, <1>4
  <2>5. QED
    BY <1>2, <2>2, <2>3, <2>4 DEF AttachPartition, DetachPartition, DropPartition, MovePartition,
       AttachSome
<1>7. ASSUME NEW q PROVE OptimizePartition(q) \subseteq SUBSET Part
  <2>1. UNION {p.rows : p \in In(q, "active")} \subseteq Rows
    <3>1. \A p \in In(q, "active") : p.rows \subseteq Rows
      <4>1. In(q, "active") \subseteq Part
        BY <1>4
      <4>2. QED
        BY <4>1 DEF Part
    <3>2. ASSUME NEW x \in UNION {p.rows : p \in In(q, "active")} PROVE x \in Rows
      <4>1. PICK p \in In(q, "active") : x \in p.rows
        BY <3>2
      <4>2. QED
        BY <3>1, <4>1
    <3>3. QED
      BY <3>2
  <2>2. \A l \in In(q, "active") :
            [l EXCEPT !.rows = UNION {p.rows : p \in In(q, "active")}] \in Part
    BY <1>3, <1>4, <2>1
  <2>3. {[p EXCEPT !.state = "outdated"] : p \in In(q, "active")} \subseteq Part
    BY <1>3, <1>4
  <2>4. QED
    BY <1>1, <2>2, <2>3 DEF OptimizePartition
<1>8. {parts} \subseteq SUBSET Part
  BY <1>1
<1>9. QED
  BY <1>5, <1>6, <1>7, <1>8

\* A change of the parts is one to parts, and notes parts.
LEMMA ChangeKeepsParts ==
    ASSUME PartsTypeOK, NEW effects, effects \subseteq SUBSET Part, Change(effects)
    PROVE  parts' \subseteq Part /\ touched' \subseteq Part
  BY DEF PartsTypeOK, Change

\* A command with one query per row leaves parts, and has no row between two queries.
LEMMA RowQueryTypes ==
    ASSUME PartsTypeOK, NEW kind, NEW r, NEW effects, effects \subseteq SUBSET Part,
           RowQuery(kind, r, effects)
    PROVE  /\ parts' \subseteq Part /\ touched' \subseteq Part
           /\ UNCHANGED <<snapshot, reported, took>>
           /\ at = <<>> => at' = <<>>
<1>1. PICK some : Change(some) /\ some \in {Query(effects), {parts}, {parts} \cup effects}
  BY DEF RowQuery
<1>2. some \subseteq SUBSET Part
  BY <1>1 DEF Query, PartsTypeOK
<1>3. parts' \subseteq Part /\ touched' \subseteq Part
  BY <1>1, <1>2, ChangeKeepsParts
<1>4. at = <<>> => at' = <<>>
  BY DEF RowQuery, Succeeds, Fails, Leave, Restrict
<1>5. QED
  BY <1>3, <1>4 DEF RowQuery

\* Every query about a part or a partition leaves parts.
LEMMA PartsStepTypes ==
    ASSUME PartsTypeOK, cmd \in Commands, NEW r, PartsStep(r)
    PROVE  /\ parts' \subseteq Part /\ touched' \subseteq Part
           /\ snapshot' = snapshot /\ took' \subseteq Rows /\ reported' \subseteq Partition
           /\ cmd.kind \notin {"reattach_partitions", "detect_broken"} =>
                (at = <<>> => at' = <<>>)
<1>0. took \subseteq Rows /\ reported \subseteq Partition /\ parts \subseteq Part
  BY DEF PartsTypeOK
<1>q. ASSUME NEW kind, NEW effects, effects \subseteq SUBSET Part, RowQuery(kind, r, effects)
      PROVE  /\ parts' \subseteq Part /\ touched' \subseteq Part
             /\ UNCHANGED <<snapshot, reported, took>>
             /\ at = <<>> => at' = <<>>
  BY <1>q, RowQueryTypes
<1>t. ASSUME NEW old, old \subseteq Part PROVE UNION {p.rows : p \in {d \in old : d.state = "active"}} \subseteq Rows
  BY <1>t DEF Part
<1>1. CASE attach_parts_command(r)
  BY <1>1, <1>q, <1>0, EffectsAreParts DEF attach_parts_command
<1>2. CASE detach_parts_command(r)
  BY <1>2, <1>q, <1>0, EffectsAreParts DEF detach_parts_command
<1>3. CASE delete_parts_command(r)
  BY <1>3, <1>q, <1>0, EffectsAreParts DEF delete_parts_command
<1>4. CASE move_parts_command(r)
  <2>1. cmd.to \in Disks
    BY <1>4, PartsAssumption DEF move_parts_command, RowQuery
  <2>2. MovePart(r, cmd.to) \subseteq SUBSET Part
    BY <2>1, EffectsAreParts
  <2>3. QED
    BY <1>4, <2>2, <1>q, <1>0 DEF move_parts_command
<1>5. CASE remove_detached_part_prefix(r)
  BY <1>5, <1>q, <1>0, EffectsAreParts DEF remove_detached_part_prefix
<1>6. CASE check_parts_command(r)
  BY <1>6, <1>q, <1>0, EffectsAreParts DEF check_parts_command
<1>7. CASE attach_partitions_command(r)
  BY <1>7, <1>q, <1>0, EffectsAreParts DEF attach_partitions_command
<1>8. CASE detach_partitions_command(r)
  BY <1>8, <1>q, <1>0, EffectsAreParts DEF detach_partitions_command
<1>9. CASE delete_partitions_command(r)
  BY <1>9, <1>q, <1>0, EffectsAreParts DEF delete_partitions_command
<1>10. CASE optimize_partitions_command(r)
  BY <1>10, <1>q, <1>0, EffectsAreParts DEF optimize_partitions_command
<1>11. CASE materialize_ttl_command(r)
  BY <1>11, <1>q, <1>0, EffectsAreParts DEF materialize_ttl_command
<1>12. CASE check_partitions_command(r)
  BY <1>12, <1>q, <1>0, EffectsAreParts DEF check_partitions_command
<1>13. CASE move_partitions_command(r)
  <2>1. cmd.to \in Tables
    BY <1>13, PartsAssumption DEF move_partitions_command, RowQuery
  <2>2. MovePartition(r, cmd.to) \subseteq SUBSET Part
    BY <2>1, EffectsAreParts
  <2>3. QED
    BY <1>13, <2>2, <1>q, <1>0 DEF move_partitions_command
<1>14. CASE ReattachDetach(r)
  <2>1. PICK some : Change(some) /\ some \in {{parts}, DetachPartition(r), {parts} \cup DetachPartition(r)}
    BY <1>14 DEF ReattachDetach
  <2>2. some \subseteq SUBSET Part
    BY <2>1, EffectsAreParts
  <2>3. UNION {p.rows : p \in {d \in parts \ parts' : d.state = "active"}} \subseteq Rows
    BY <1>0, <1>t
  <2>4. QED
    BY <1>14, <1>0, <2>1, <2>2, <2>3, ChangeKeepsParts DEF ReattachDetach
<1>15. CASE ReattachAttach(r)
  <2>1. PICK effects : Change(effects) /\ effects \subseteq SUBSET Part
    <3>1. CASE Change(IF cmd.dry THEN {parts} ELSE AttachPartition(r))
      <4>1. (IF cmd.dry THEN {parts} ELSE AttachPartition(r)) \subseteq SUBSET Part
        BY EffectsAreParts
      <4>2. QED
        BY <3>1, <4>1
    <3>2. ASSUME NEW some \in SUBSET Attachable(r), Change(AttachSome(some))
          PROVE  \E effects : Change(effects) /\ effects \subseteq SUBSET Part
      <4>1. AttachSome(some) \subseteq SUBSET Part
        BY <3>2, EffectsAreParts, Zenon
      <4>2. QED
        BY <3>2, <4>1
    <3>3. QED
      BY <1>15, <3>1, <3>2 DEF ReattachAttach, AttachSome
  <2>2. QED
    BY <1>15, <1>0, <2>1, ChangeKeepsParts DEF ReattachAttach
<1>16. CASE DetectBroken(r)
  <2>1. PICK some : Change(some) /\ some \in {{parts}, DetachPartition(r), {parts} \cup DetachPartition(r)}
    BY <1>16 DEF DetectBroken
  <2>2. some \subseteq SUBSET Part
    BY <2>1, EffectsAreParts
  <2>3. UNION {p.rows : p \in {d \in parts \ parts' : d.state = "active"}} \subseteq Rows
    BY <1>0, <1>t
  <2>4. \A p \in parts : PartitionOf(p) \in Partition
    BY <1>0 DEF Part, Partition, PartitionOf
  <2>5. BrokenParts(r) # {} => r \in Partition
    BY <2>4 DEF BrokenParts, In
  <2>6. reported' \subseteq Partition
    BY <1>16, <1>0, <2>5 DEF DetectBroken
  <2>7. QED
    BY <1>16, <1>0, <2>1, <2>2, <2>3, <2>6, ChangeKeepsParts DEF DetectBroken
<1>17. CASE DetectAttach(r)
  <2>1. PICK effects : Change(effects) /\ effects \subseteq SUBSET Part
    <3>1. CASE Change(AttachPartition(r))
      BY <3>1, EffectsAreParts
    <3>2. ASSUME NEW some \in SUBSET Attachable(r), Change(AttachSome(some))
          PROVE  \E effects : Change(effects) /\ effects \subseteq SUBSET Part
      <4>1. AttachSome(some) \subseteq SUBSET Part
        BY <3>2, EffectsAreParts, Zenon
      <4>2. QED
        BY <3>2, <4>1
    <3>3. QED
      BY <1>17, <3>1, <3>2 DEF DetectAttach, AttachSome
  <2>2. QED
    BY <1>17, <1>0, <2>1, ChangeKeepsParts DEF DetectAttach
<1>18. QED
  BY <1>1, <1>2, <1>3, <1>4, <1>5, <1>6, <1>7, <1>8, <1>9, <1>10, <1>11, <1>12, <1>13, <1>14,
     <1>15, <1>16, <1>17 DEF PartsStep

-----------------------------------------------------------------------------
(* Types: the tables *)

\* A row notes something of the right type, or is done with.
LEMMA NotesStayIn ==
    ASSUME NEW S, \A q \in DOMAIN at : at[q] \in S, NEW r,
           \/ Succeeds(r) \/ Fails(r)
           \/ \E step \in S : Begin(r, step) \/ GoTo(r, step)
    PROVE  \A q \in DOMAIN at' : at'[q] \in S
<1>1. CASE Succeeds(r) \/ Fails(r)
  BY <1>1 DEF Succeeds, Fails, Leave, Restrict
<1>2. ASSUME NEW step \in S, Begin(r, step) PROVE \A q \in DOMAIN at' : at'[q] \in S
  BY <1>2 DEF Begin
<1>3. ASSUME NEW step \in S, GoTo(r, step) PROVE \A q \in DOMAIN at' : at'[q] \in S
  BY <1>3 DEF GoTo
<1>4. QED
  BY <1>1, <1>2, <1>3

\* A query leaves a table of the right type, and the row goes on or fails.
LEMMA DoTypes ==
    ASSUME tables \in [Tables -> Table], NEW r \in TableRow, NEW possible, NEW new \in Table,
           NEW next, Do(r, possible, new, next)
    PROVE  tables' \in [Tables -> Table] /\ (next \/ Fails(r))
<1>1. r.name \in Tables
  BY DEF TableRow
<1>2. QED
  BY <1>1 DEF Do, Update

\* The tables that the queries make.
LEMMA NewTables ==
    ASSUME tables \in [Tables -> Table], NEW t \in Tables
    PROVE  /\ NoTable \in Table /\ Detached(t) \in Table /\ AttachedAgain(t) \in Table
           /\ tables[t] \in Table
           /\ \A u \in Uuids : [tables[t] EXCEPT !.meta = u] \in Table
           /\ \A u \in Uuids : [tables[t] EXCEPT !.dirs["local"] = u] \in Table
           /\ \A d \in Disks : [tables[t] EXCEPT !.dirs[d] = NoUuid] \in Table
           /\ \A what \in {"zk", "link", "flag", "file"} : Without(tables[t], what) \in Table
           /\ \A u \in Uuids : \A b \in BOOLEAN :
                [attached |-> TRUE, meta |-> u, flag |-> FALSE, link |-> TRUE,
                 dirs |-> [d \in Disks |-> IF d = "local" THEN u ELSE NoUuid],
                 replica |-> b] \in Table
<1>1. tables[t] \in Table
  OBVIOUS
<1>2. tables[t].dirs \in [Disks -> Uuids \cup {NoUuid}]
  BY <1>1 DEF Table
<1>3. \A dirs \in [Disks -> Uuids \cup {NoUuid}] : [tables[t] EXCEPT !.dirs = dirs] \in Table
  BY <1>1 DEF Table
<1>4. \A d \in Disks : \A u \in Uuids \cup {NoUuid} :
        /\ [tables[t].dirs EXCEPT ![d] = u] \in [Disks -> Uuids \cup {NoUuid}]
        /\ [tables[t] EXCEPT !.dirs[d] = u] = [tables[t] EXCEPT !.dirs = [tables[t].dirs EXCEPT ![d] = u]]
  BY <1>1, <1>2 DEF Table
<1>5. NoTable \in Table
  BY DEF NoTable, Table
<1>6. Detached(t) \in Table /\ AttachedAgain(t) \in Table
  BY <1>1 DEF Detached, AttachedAgain, Table
<1>7. \A u \in Uuids : [tables[t] EXCEPT !.meta = u] \in Table
  BY <1>1 DEF Table
<1>8. /\ \A u \in Uuids : [tables[t] EXCEPT !.dirs["local"] = u] \in Table
      /\ \A d \in Disks : [tables[t] EXCEPT !.dirs[d] = NoUuid] \in Table
  <2>1. "local" \in Disks
    BY TablesAssumption
  <2>2. \A d \in Disks : \A u \in Uuids \cup {NoUuid} : [tables[t] EXCEPT !.dirs[d] = u] \in Table
    BY <1>3, <1>4
  <2>3. QED
    BY <2>1, <2>2
<1>9. \A what \in {"zk", "link", "flag", "file"} : Without(tables[t], what) \in Table
  BY <1>1 DEF Without, Table
<1>10. \A u \in Uuids : \A b \in BOOLEAN :
                [attached |-> TRUE, meta |-> u, flag |-> FALSE, link |-> TRUE,
                 dirs |-> [d \in Disks |-> IF d = "local" THEN u ELSE NoUuid],
                 replica |-> b] \in Table
  BY DEF Table
<1>11. QED
  BY <1>1, <1>5, <1>6, <1>7, <1>8, <1>9, <1>10

\* delete_detached_table goes through at most five steps.
LEMMA RemovalHasFiveSteps ==
    /\ Len(Removal) = 5
    /\ Removal[1] = "data" /\ Removal[2] = "zk" /\ Removal[3] = "link" /\ Removal[4] = "flag"
    /\ Removal[5] = "file"
  BY DEF Removal

\* A step at a table keeps the types, and says so of what it notes.
TableStepTypesOf ==
    /\ tables' \in [Tables -> Table] /\ queue' \in [Tables -> SUBSET Tasks]
    /\ UNCHANGED partVars /\ cmd' = cmd
    /\ cmd.kind = "change_uuid" => \A r \in DOMAIN at' : at'[r] \in ChangeSteps
    /\ cmd.kind = "delete_detached_table" => \A r \in DOMAIN at' : at'[r] \in RemoveSteps
    /\ cmd.kind = "queue_delete" => \A r \in DOMAIN at' : at'[r] \in QueueSteps

\* Every step at a table leaves tables and queues, and notes what its kind notes.
LEMMA TableStepTypes ==
    ASSUME TypeInv, NEW r \in listed, TableStep(r)
    PROVE  TableStepTypesOf
<1>k. cmd.kind \in TableKinds /\ RowNext(r)
  BY TableStepIsRowStep
<1>0. /\ tables \in [Tables -> Table] /\ queue \in [Tables -> SUBSET Tasks]
      /\ r \in TableRow /\ r.name \in Tables /\ r.tasks \subseteq Tasks /\ cmd \in Commands
      /\ cmd.kind = "change_uuid" => \A q \in DOMAIN at : at[q] \in ChangeSteps
      /\ cmd.kind = "delete_detached_table" => \A q \in DOMAIN at : at[q] \in RemoveSteps
      /\ cmd.kind = "queue_delete" => \A q \in DOMAIN at : at[q] \in QueueSteps
  BY <1>k DEF TypeInv, ServerTypeOK, TablesTypeOK, StepTypes, TableRow, LoopInv
<1>c. cmd' = cmd
  BY <1>k DEF RowNext, Succeeds, Fails, Begin, GoTo
<1>n. /\ TableAt(r) \in Table /\ NoTable \in Table /\ Detached(r.name) \in Table
      /\ AttachedAgain(r.name) \in Table
  BY <1>0, NewTables DEF TableAt
<1>d. /\ cmd.uuid \in Uuids \cup {NoUuid} /\ SharedId \in [Tables -> Uuids]
      /\ cmd.kind \in NoDryRun => ~cmd.dry
  BY <1>0, TablesAssumption
<1>f. ASSUME NEW new \in Table, tables' \in {tables, [tables EXCEPT ![r.name] = new]},
             UNCHANGED <<partVars, queue>>
      PROVE  /\ tables' \in [Tables -> Table] /\ queue' \in [Tables -> SUBSET Tasks]
             /\ UNCHANGED partVars
  BY <1>0, <1>f
<1>s. ASSUME Succeeds(r) \/ Fails(r),
             tables' \in [Tables -> Table] /\ queue' \in [Tables -> SUBSET Tasks],
             UNCHANGED partVars
      PROVE  TableStepTypesOf
  <2>1. cmd.kind = "change_uuid" => \A q \in DOMAIN at' : at'[q] \in ChangeSteps
    BY <1>0, <1>s, NotesStayIn
  <2>2. cmd.kind = "delete_detached_table" => \A q \in DOMAIN at' : at'[q] \in RemoveSteps
    BY <1>0, <1>s, NotesStayIn
  <2>3. cmd.kind = "queue_delete" => \A q \in DOMAIN at' : at'[q] \in QueueSteps
    BY <1>0, <1>s, NotesStayIn
  <2>4. QED
    BY <1>c, <1>s, <2>1, <2>2, <2>3 DEF TableStepTypesOf
<1>1. CASE DetachTable(r)
  <2>1. /\ tables' \in {tables, [tables EXCEPT ![r.name] = Detached(r.name)]}
        /\ UNCHANGED <<partVars, queue>> /\ (Succeeds(r) \/ Fails(r))
    BY <1>1 DEF DetachTable, First, Step, Do, Update
  <2>2. QED
    BY <2>1, <1>f, <1>n, <1>s
<1>2. CASE AttachTable(r)
  <2>1. /\ tables' \in {tables, [tables EXCEPT ![r.name] = AttachedAgain(r.name)]}
        /\ UNCHANGED <<partVars, queue>> /\ (Succeeds(r) \/ Fails(r))
    BY <1>2 DEF AttachTable, First, Step, Do, Update
  <2>2. QED
    BY <2>1, <1>f, <1>n, <1>s
<1>3. CASE MaterializeTtl(r)
  <2>1. /\ tables' \in {tables, [tables EXCEPT ![r.name] = TableAt(r)]}
        /\ UNCHANGED <<partVars, queue>> /\ (Succeeds(r) \/ Fails(r))
    BY <1>3 DEF MaterializeTtl, First, Step, Do, Update
  <2>2. QED
    BY <2>1, <1>f, <1>n, <1>s
<1>4. CASE SetFlag(r)
  <2>1. /\ tables' \in {tables, [tables EXCEPT ![r.name] = TableAt(r)]}
        /\ UNCHANGED <<partVars, queue>> /\ (Succeeds(r) \/ Fails(r))
    BY <1>4 DEF SetFlag, First, Step, Do, Update
  <2>2. QED
    BY <2>1, <1>f, <1>n, <1>s
<1>5. CASE CheckTable(r)
  <2>1. /\ tables' \in {tables, [tables EXCEPT ![r.name] = TableAt(r)]}
        /\ UNCHANGED <<partVars, queue>> /\ (Succeeds(r) \/ Fails(r))
    BY <1>5 DEF CheckTable, First, Step, Do, Update
  <2>2. QED
    BY <2>1, <1>f, <1>n, <1>s
<1>6. CASE DeleteTable(r)
  <2>1. /\ tables' \in {tables, [tables EXCEPT ![r.name] = NoTable]}
        /\ UNCHANGED <<partVars, queue>> /\ (Succeeds(r) \/ Fails(r))
    BY <1>6 DEF DeleteTable, First, Step, Do, Update
  <2>2. QED
    BY <2>1, <1>f, <1>n, <1>s
<1>7. CASE CheckDryRun(r)
  BY <1>7, <1>0, <1>s DEF CheckDryRun, tableVars
<1>8. CASE Recreate(r)
  <2>1. CASE First(r, "recreate", TRUE, NoTable, Begin(r, [step |-> "create"]))
    <3>0. tables' \in {tables, [tables EXCEPT ![r.name] = NoTable]} /\ UNCHANGED <<partVars, queue>> /\ cmd.kind = "recreate"
      BY <2>1 DEF First, Do, Update
    <3>1. /\ tables' \in [Tables -> Table] /\ queue' \in [Tables -> SUBSET Tasks]
          /\ UNCHANGED partVars /\ cmd.kind = "recreate"
      BY <3>0, <1>f, <1>n
    <3>2. QED
      BY <3>1, <1>c DEF TableStepTypesOf
  <2>2. ASSUME NEW u \in Uuids,
               Step(r, "recreate", "create", TableAt(r).meta = NoUuid,
                    [attached |-> TRUE, meta |-> u, flag |-> FALSE, link |-> TRUE,
                     dirs |-> [d \in Disks |-> IF d = "local" THEN u ELSE NoUuid],
                     replica |-> Engine[r.name] = "replicated"], Succeeds(r))
        PROVE  TableStepTypesOf
    <3>1. (Engine[r.name] = "replicated") \in BOOLEAN
      OBVIOUS
    <3>2. [attached |-> TRUE, meta |-> u, flag |-> FALSE, link |-> TRUE,
           dirs |-> [d \in Disks |-> IF d = "local" THEN u ELSE NoUuid],
           replica |-> Engine[r.name] = "replicated"] \in Table
      BY <1>0, <3>1, NewTables
    <3>2a. tables' \in {tables, [tables EXCEPT ![r.name] = [attached |-> TRUE, meta |-> u, flag |-> FALSE, link |-> TRUE,
           dirs |-> [d \in Disks |-> IF d = "local" THEN u ELSE NoUuid],
           replica |-> Engine[r.name] = "replicated"]]} /\ UNCHANGED <<partVars, queue>> /\ (Succeeds(r) \/ Fails(r))
      BY <2>2 DEF Step, Do, Update
    <3>3. QED
      BY <3>2, <3>2a, <1>f, <1>s
  <2>3. QED
    BY <1>8, <2>1, <2>2 DEF Recreate
<1>9. CASE Reattach(r)
  <2>1. CASE First(r, "reattach_tables", TableAt(r).attached, Detached(r.name),
                   Begin(r, [step |-> "attach"]))
    <3>0. tables' \in {tables, [tables EXCEPT ![r.name] = Detached(r.name)]} /\ UNCHANGED <<partVars, queue>> /\ cmd.kind = "reattach_tables"
      BY <2>1 DEF First, Do, Update
    <3>1. /\ tables' \in [Tables -> Table] /\ queue' \in [Tables -> SUBSET Tasks]
          /\ UNCHANGED partVars /\ cmd.kind = "reattach_tables"
      BY <3>0, <1>f, <1>n
    <3>2. QED
      BY <3>1, <1>c DEF TableStepTypesOf
  <2>2. CASE Step(r, "reattach_tables", "attach", CanAttach(r.name), AttachedAgain(r.name), Succeeds(r))
    <3>0. tables' \in {tables, [tables EXCEPT ![r.name] = AttachedAgain(r.name)]} /\ UNCHANGED <<partVars, queue>> /\ (Succeeds(r) \/ Fails(r))
      BY <2>2 DEF Step, Do, Update
    <3>1. QED
      BY <3>0, <1>f, <1>n, <1>s
  <2>3. QED
    BY <1>9, <2>1, <2>2 DEF Reattach
<1>10. CASE QueueDelete(r)
  <2>k. cmd.kind = "queue_delete"
    BY <1>10 DEF QueueDelete, First, Step
  <2>q. ASSUME NEW step \in QueueSteps, Begin(r, step) \/ GoTo(r, step)
        PROVE  \A q \in DOMAIN at' : at'[q] \in QueueSteps
    BY <2>k, <2>q, <1>0, NotesStayIn
  <2>t. \A task : [queue EXCEPT ![r.name] = @ \ {task}] \in [Tables -> SUBSET Tasks]
    BY <1>0
  <2>1. CASE First(r, "queue_delete", TableAt(r).attached, Detached(r.name),
                   Begin(r, [step |-> "tasks", left |-> r.tasks]))
    <3>0. tables' \in {tables, [tables EXCEPT ![r.name] = Detached(r.name)]} /\ UNCHANGED <<partVars, queue>>
      BY <2>1 DEF First, Do, Update
    <3>1. /\ tables' \in [Tables -> Table] /\ queue' \in [Tables -> SUBSET Tasks]
          /\ UNCHANGED partVars
          /\ Begin(r, [step |-> "tasks", left |-> r.tasks]) \/ Fails(r)
      BY <2>1, <3>0, <1>f, <1>n DEF First, Do
    <3>2. [step |-> "tasks", left |-> r.tasks] \in QueueSteps
      BY <1>0 DEF QueueSteps
    <3>3. CASE Begin(r, [step |-> "tasks", left |-> r.tasks])
      BY <2>k, <2>q, <3>1, <3>2, <3>3, <1>c DEF TableStepTypesOf
    <3>4. QED
      BY <3>1, <3>3, <1>s
  <2>2. ASSUME IsAt(r, "tasks"), UNCHANGED <<partVars, tables, restarts>>,
               NEW task \in at[r].left,
               \/ /\ GoTo(r, [at[r] EXCEPT !.left = @ \ {task}])
                  /\ queue' = [queue EXCEPT ![r.name] = @ \ {task}]
               \/ /\ Fails(r)
                  /\ queue' \in {queue, [queue EXCEPT ![r.name] = @ \ {task}]}
        PROVE  TableStepTypesOf
    <3>1. at[r] \in QueueSteps
      BY <2>2, <2>k, <1>0 DEF IsAt
    <3>2. [at[r] EXCEPT !.left = @ \ {task}] \in QueueSteps
      BY <3>1 DEF QueueSteps
    <3>3. queue' \in [Tables -> SUBSET Tasks] /\ tables' \in [Tables -> Table] /\ UNCHANGED partVars
      BY <2>2, <2>t, <1>0
    <3>4. CASE GoTo(r, [at[r] EXCEPT !.left = @ \ {task}])
      BY <2>k, <2>q, <3>2, <3>3, <3>4, <1>c DEF TableStepTypesOf
    <3>5. QED
      BY <2>2, <3>3, <3>4, <1>s
  <2>3. CASE Step(r, "queue_delete", "tasks", CanAttach(r.name), AttachedAgain(r.name), Succeeds(r))
    <3>0. tables' \in {tables, [tables EXCEPT ![r.name] = AttachedAgain(r.name)]} /\ UNCHANGED <<partVars, queue>> /\ (Succeeds(r) \/ Fails(r))
      BY <2>3 DEF Step, Do, Update
    <3>1. QED
      BY <3>0, <1>f, <1>n, <1>s
  <2>4. QED
    BY <1>10, <2>1, <2>2, <2>3 DEF QueueDelete
<1>11. CASE ReadUuid(r)
  <2>1. cmd.kind = "change_uuid" /\ UNCHANGED <<partVars, tableVars>>
    BY <1>11 DEF ReadUuid
  <2>2. tables' \in [Tables -> Table] /\ queue' \in [Tables -> SUBSET Tasks] /\ UNCHANGED partVars
    BY <1>0, <2>1 DEF tableVars
  <2>3. CASE Succeeds(r) \/ Fails(r)
    BY <2>2, <2>3, <1>s
  <2>4. ASSUME NEW step \in {"file", "detach"},
               Begin(r, [step |-> step, old |-> tables[r.name].meta, new |-> NewUuid(r.name)])
        PROVE  TableStepTypesOf
    <3>1. tables[r.name].meta \in Uuids \cup {NoUuid}
      BY <1>n DEF TableAt, Table
    <3>2. NewUuid(r.name) \in Uuids
      BY <1>0, <1>d DEF NewUuid
    <3>3. [step |-> step, old |-> tables[r.name].meta, new |-> NewUuid(r.name)] \in ChangeSteps
      BY <3>1, <3>2 DEF ChangeSteps
    <3>4. \A q \in DOMAIN at' : at'[q] \in ChangeSteps
      BY <2>1, <2>4, <3>3, <1>0, NotesStayIn
    <3>5. QED
      BY <2>1, <2>2, <3>4, <1>c DEF TableStepTypesOf
  <2>5. QED
    BY <1>11, <2>3, <2>4 DEF ReadUuid
<1>12. CASE DetachToChange(r)
  <2>0. tables' \in {tables, [tables EXCEPT ![r.name] = Detached(r.name)]} /\ UNCHANGED <<partVars, queue>>
    BY <1>12 DEF DetachToChange, Step, Do, Update
  <2>1. /\ tables' \in [Tables -> Table] /\ queue' \in [Tables -> SUBSET Tasks]
        /\ UNCHANGED partVars /\ cmd.kind = "change_uuid"
        /\ GoTo(r, [at[r] EXCEPT !.step = "file"]) \/ Fails(r)
    BY <1>12, <2>0, <1>f, <1>n DEF DetachToChange, Step, Do
  <2>2. r \in DOMAIN at
    BY <1>12 DEF DetachToChange, Step, IsAt
  <2>3. [at[r] EXCEPT !.step = "file"] \in ChangeSteps
    BY <2>1, <2>2, <1>0 DEF ChangeSteps
  <2>4. CASE GoTo(r, [at[r] EXCEPT !.step = "file"])
    <3>1. \A q \in DOMAIN at' : at'[q] \in ChangeSteps
      BY <2>1, <2>3, <2>4, <1>0, NotesStayIn
    <3>2. QED
      BY <2>1, <3>1, <1>c DEF TableStepTypesOf
  <2>5. QED
    BY <2>1, <2>4, <1>s
<1>13. CASE UpdateUuid(r)
  <2>1. r \in DOMAIN at /\ cmd.kind = "change_uuid"
    BY <1>13 DEF UpdateUuid, Step, IsAt
  <2>2. at[r] \in ChangeSteps
    BY <2>1, <1>0
  <2>3. at[r].new \in Uuids /\ [at[r] EXCEPT !.step = "move"] \in ChangeSteps
    BY <2>2 DEF ChangeSteps
  <2>4. [TableAt(r) EXCEPT !.meta = at[r].new] \in Table
    BY <2>3, <1>0, NewTables DEF TableAt
  <2>0. tables' \in {tables, [tables EXCEPT ![r.name] = [TableAt(r) EXCEPT !.meta = at[r].new]]} /\ UNCHANGED <<partVars, queue>>
    BY <1>13 DEF UpdateUuid, Step, Do, Update
  <2>5. /\ tables' \in [Tables -> Table] /\ queue' \in [Tables -> SUBSET Tasks]
        /\ UNCHANGED partVars
        /\ \/ IF IsTableEngine(r.name) THEN GoTo(r, [at[r] EXCEPT !.step = "move"]) ELSE Succeeds(r)
           \/ Fails(r)
    BY <1>13, <2>4, <2>0, <1>f DEF UpdateUuid, Step, Do
  <2>6. CASE GoTo(r, [at[r] EXCEPT !.step = "move"])
    <3>1. \A q \in DOMAIN at' : at'[q] \in ChangeSteps
      BY <2>1, <2>3, <2>6, <1>0, NotesStayIn
    <3>2. QED
      BY <2>1, <2>5, <3>1, <1>c DEF TableStepTypesOf
  <2>7. QED
    BY <2>5, <2>6, <1>s
<1>14. CASE MoveTableStore(r)
  <2>1. r \in DOMAIN at /\ cmd.kind = "change_uuid"
    BY <1>14 DEF MoveTableStore, Step, IsAt
  <2>2. at[r].new \in Uuids
    BY <2>1, <1>0 DEF ChangeSteps
  <2>3. [TableAt(r) EXCEPT !.dirs["local"] = at[r].new] \in Table
    BY <2>2, <1>0, NewTables DEF TableAt
  <2>0. tables' \in {tables, [tables EXCEPT ![r.name] = [TableAt(r) EXCEPT !.dirs["local"] = at[r].new]]} /\ UNCHANGED <<partVars, queue>> /\ (Succeeds(r) \/ Fails(r))
    BY <1>14 DEF MoveTableStore, Step, Do, Update
  <2>4. QED
    BY <2>3, <2>0, <1>f, <1>s
<1>15. CASE CheckDetached(r)
  <2>k. cmd.kind = "delete_detached_table" /\ ~cmd.dry
    BY <1>15, <1>d DEF CheckDetached, First, NoDryRun
  <2>0. tables' \in {tables, [tables EXCEPT ![r.name] = TableAt(r)]} /\ UNCHANGED <<partVars, queue>>
    BY <1>15 DEF CheckDetached, First, Do, Update
  <2>1. /\ tables' \in [Tables -> Table] /\ queue' \in [Tables -> SUBSET Tasks]
        /\ UNCHANGED partVars
        /\ \/ Begin(r, [step |-> "remove", n |-> 1, uuid |-> TableAt(r).meta, disks |-> Disks])
           \/ Fails(r)
    BY <1>15, <2>0, <1>f, <1>n DEF CheckDetached, First, Do
  <2>2. CASE Begin(r, [step |-> "remove", n |-> 1, uuid |-> TableAt(r).meta, disks |-> Disks])
    <3>1. Fails(r) \/ TableAt(r).meta # NoUuid
      BY <1>15, <2>k DEF CheckDetached, First, Do
    <3>2. CASE TableAt(r).meta # NoUuid
      <4>1. TableAt(r).meta \in Uuids
        BY <3>2, <1>n DEF Table
      <4>2. [step |-> "remove", n |-> 1, uuid |-> TableAt(r).meta, disks |-> Disks] \in RemoveSteps
        BY <4>1 DEF RemoveSteps
      <4>3. \A q \in DOMAIN at' : at'[q] \in RemoveSteps
        BY <2>k, <2>2, <4>2, <1>0, NotesStayIn
      <4>4. QED
        BY <2>k, <2>1, <4>3, <1>c DEF TableStepTypesOf
    <3>3. QED
      BY <2>1, <3>1, <3>2, <1>s
  <2>3. QED
    BY <2>1, <2>2, <1>s
<1>16. CASE RemoveNext(r)
  <2> DEFINE here == at[r]
             what == Removal[here.n]
  <2>1. cmd.kind = "delete_detached_table" /\ r \in DOMAIN at /\ UNCHANGED <<partVars, queue>>
    BY <1>16 DEF RemoveNext, IsAt
  <2>2. here \in RemoveSteps
    BY <2>1, <1>0
  <2>3. here.n \in 1..5 /\ here.uuid \in Uuids /\ here.disks \subseteq Disks
    BY <2>2 DEF RemoveSteps
  <2>4. what \in {"data", "zk", "link", "flag", "file"}
    BY <2>3, RemovalHasFiveSteps
  <2>5. PICK d \in (IF what = "data" THEN here.disks ELSE {"local"}) :
            LET after == IF what = "data" THEN RemoveDir(here.uuid, d)
                         ELSE [tables EXCEPT ![r.name] = Without(@, what)]
                then == IF what = "data" /\ Cardinality(here.disks) > 1 THEN here.n ELSE here.n + 1
            IN  \/ /\ tables' = after
                   /\ IF here.n = Len(Removal) THEN Succeeds(r)
                      ELSE GoTo(r, [here EXCEPT !.n = then, !.disks = @ \ {d}])
                \/ tables' \in {tables, after} /\ Fails(r)
    BY <1>16 DEF RemoveNext
  <2> DEFINE then == IF what = "data" /\ Cardinality(here.disks) > 1 THEN here.n ELSE here.n + 1
  <2>6. d \in Disks
    BY <2>3, <2>5, TablesAssumption
  <2>7. RemoveDir(here.uuid, d) \in [Tables -> Table]
    BY <2>6, <1>0, NewTables DEF RemoveDir
  <2>8. what # "data" => [tables EXCEPT ![r.name] = Without(@, what)] \in [Tables -> Table]
    BY <2>4, <1>0, NewTables
  <2>9. tables' \in [Tables -> Table] /\ queue' \in [Tables -> SUBSET Tasks] /\ UNCHANGED partVars
    BY <2>1, <2>5, <2>7, <2>8, <1>0
  <2>10. CASE here.n # 5 /\ GoTo(r, [here EXCEPT !.n = then, !.disks = @ \ {d}])
    <3>1. then \in 1..5
      BY <2>3, <2>10
    <3> HIDE DEF then, what
    <3>2. [here EXCEPT !.n = then, !.disks = @ \ {d}] \in RemoveSteps
      BY <2>2, <3>1 DEF RemoveSteps
    <3> HIDE DEF here
    <3>3. \A q \in DOMAIN at' : at'[q] \in RemoveSteps
      BY <2>1, <2>10, <3>2, <1>0, NotesStayIn
    <3>4. QED
      BY <2>1, <2>9, <3>3, <1>c DEF TableStepTypesOf
  <2>11. QED
    BY <2>5, <2>9, <2>10, <1>s, RemovalHasFiveSteps
<1>17. QED
  BY <1>1, <1>2, <1>3, <1>4, <1>5, <1>6, <1>7, <1>8, <1>9, <1>10, <1>11, <1>12, <1>13, <1>14,
     <1>15, <1>16 DEF TableStep

-----------------------------------------------------------------------------
(* Types: the replicas and the files *)

\* A step at a replica keeps the types.
ReplicaStepTypesOf ==
    /\ parts' \subseteq Part /\ nodes' \in [Tables -> Nodes]
    /\ dump' \subseteq Part /\ refused' \subseteq Part
    /\ UNCHANGED <<snapshot, reported, touched, took, tables, queue>> /\ cmd' = cmd
    /\ cmd.kind = "restore_replicas" => \A r \in DOMAIN at' : at'[r] \in RestoreSteps
    /\ cmd.kind = "restart_replicas" => DOMAIN at' = {}

\* Every step at a replica leaves nodes and parts, and notes what its kind notes.
LEMMA ReplicaStepTypes ==
    ASSUME TypeInv, NEW r \in listed, ReplicaStep(r), cmd.kind \in ReplicaKinds
    PROVE  ReplicaStepTypesOf
<1>0. /\ parts \subseteq Part /\ nodes \in [Tables -> Nodes]
      /\ dump \subseteq Part /\ refused \subseteq Part
      /\ r \in TableRow /\ r.name \in Tables
      /\ cmd.kind = "restore_replicas" => \A q \in DOMAIN at : at[q] \in RestoreSteps
      /\ cmd.kind = "restart_replicas" => DOMAIN at = {}
  BY DEF TypeInv, ServerTypeOK, PartsTypeOK, StepTypes, FileTypes, TableRow
<1>c. cmd' = cmd
  BY ReplicaStepIsRowStep DEF RowNext, Succeeds, Fails, Begin, GoTo
<1>a. ActiveOf(r.name) \subseteq Part
  BY <1>0 DEF ActiveOf
<1>n. /\ Restarted(r.name) \in [Tables -> Nodes] /\ Created(r.name) \in [Tables -> Nodes]
      /\ Restored(r.name) \in [Tables -> Nodes]
  <2>1. nodes[r.name] \in Nodes
    BY <1>0
  <2>2. [replicas |-> TRUE, mine |-> TRUE, first |-> ~nodes[r.name].replicas, readonly |-> TRUE] \in Nodes
    BY <2>1 DEF Nodes
  <2>3. Created(r.name) \in [Tables -> Nodes]
    BY <1>0, <2>2 DEF Created
  <2>4. [nodes[r.name] EXCEPT !.readonly = ~nodes[r.name].mine] \in Nodes
    BY <2>1 DEF Nodes
  <2>5. [Created(r.name)[r.name] EXCEPT !.readonly = FALSE] \in Nodes
    BY <1>0, <2>3 DEF Nodes
  <2>6. QED
    BY <1>0, <2>3, <2>4, <2>5 DEF Restarted, Restored
<1>r. r \in DOMAIN at => cmd.kind = "restore_replicas" /\ at[r] \in RestoreSteps
  BY <1>0 DEF ReplicaKinds
<1>t. ASSUME UNCHANGED <<snapshot, reported, touched, took, tables, queue>>,
             parts' \subseteq Part, dump' \subseteq Part, refused' \subseteq Part,
             nodes' \in {nodes, Restarted(r.name), Created(r.name), Restored(r.name)},
             \/ Succeeds(r) \/ Fails(r)
             \/ cmd.kind = "restore_replicas" /\ \E step \in RestoreSteps : Begin(r, step) \/ GoTo(r, step)
      PROVE  ReplicaStepTypesOf
  <2>1. nodes' \in [Tables -> Nodes]
    BY <1>0, <1>n, <1>t
  <2>2. cmd.kind = "restore_replicas" => \A q \in DOMAIN at' : at'[q] \in RestoreSteps
    BY <1>0, <1>t, NotesStayIn
  <2>3. cmd.kind = "restart_replicas" => DOMAIN at' = {}
    BY <1>0, <1>t DEF Succeeds, Fails, Leave, Restrict
  <2>4. QED
    BY <1>t, <1>c, <2>1, <2>2, <2>3 DEF ReplicaStepTypesOf
<1>u. ASSUME Unchanged PROVE /\ UNCHANGED <<snapshot, reported, touched, took, tables, queue>>
                             /\ parts' \subseteq Part /\ refused' \subseteq Part
  BY <1>u, <1>0 DEF Unchanged, partVars, tableVars
<1>1. CASE RestartReplica(r)
  BY <1>1, <1>0, <1>t, <1>u DEF RestartReplica
<1>2. CASE ListActiveParts(r)
  <2>1. [step |-> "restore", parts |-> ActiveOf(r.name), left |-> ActiveOf(r.name)] \in RestoreSteps
    BY <1>a DEF RestoreSteps, RestoreNames
  <2>2. QED
    BY <1>2, <1>0, <1>t, <1>u, <2>1 DEF ListActiveParts
<1>3. CASE RestoreReplica(r)
  <2>0. r \in DOMAIN at
    BY <1>3 DEF RestoreReplica, IsAt
  <2>1. \A step \in RestoreNames : [at[r] EXCEPT !.step = step] \in RestoreSteps
    BY <1>r, <2>0 DEF RestoreSteps
  <2>2. /\ UNCHANGED <<snapshot, reported, touched, took, tables, queue, dump, refused>>
        /\ nodes' \in {nodes, Created(r.name), Restored(r.name)}
        /\ \/ Succeeds(r) \/ Fails(r)
           \/ \E step \in RestoreNames : GoTo(r, [at[r] EXCEPT !.step = step])
    BY <1>3 DEF RestoreReplica, tableVars, RestoreNames
  <2>3. parts' \subseteq Part
    <3>1. parts' = parts \/ \E off \in SUBSET ActiveOf(r.name) :
             parts' = (parts \ off) \cup {[p EXCEPT !.state = "detached"] : p \in off}
      BY <1>3 DEF RestoreReplica
    <3>2. \A p \in Part : [p EXCEPT !.state = "detached"] \in Part
      BY DEF Part
    <3>3. QED
      BY <1>0, <1>a, <3>1, <3>2
  <2>4. \/ Succeeds(r) \/ Fails(r)
        \/ cmd.kind = "restore_replicas" /\ \E step \in RestoreSteps : Begin(r, step) \/ GoTo(r, step)
    BY <1>r, <2>0, <2>1, <2>2
  <2>5. QED
    BY <1>0, <1>t, <2>2, <2>3, <2>4
<1>4. CASE RestartOnly(r)
  BY <1>4, <1>0, <1>t, <1>u DEF RestartOnly
<1>5. CASE IsFirstReplica(r)
  <2>1. r \in DOMAIN at
    BY <1>5 DEF IsFirstReplica, IsAt
  <2>2. cmd.kind = "restore_replicas" /\ [at[r] EXCEPT !.step = "restart"] \in RestoreSteps
    BY <1>r, <2>1 DEF RestoreSteps, RestoreNames
  <2>3. QED
    BY <1>5, <1>0, <1>t, <1>u, <2>2 DEF IsFirstReplica
<1>6. CASE RestartToAttach(r)
  <2>1. r \in DOMAIN at
    BY <1>6 DEF RestartToAttach, IsAt
  <2>2. cmd.kind = "restore_replicas" /\ \A step \in RestoreNames : [at[r] EXCEPT !.step = step] \in RestoreSteps
    BY <1>r, <2>1 DEF RestoreSteps
  <2>3. (IF nodes'[r.name].readonly THEN "dump" ELSE "attach") \in RestoreNames
    BY DEF RestoreNames
  <2>4. QED
    BY <1>6, <1>0, <1>t, <1>u, <2>2, <2>3 DEF RestartToAttach
<1>7. CASE AttachParts(r)
  <2>1. r \in DOMAIN at
    BY <1>7 DEF AttachParts, IsAt
  <2>2. /\ cmd.kind = "restore_replicas" /\ at[r].left \subseteq Part
        /\ [at[r] EXCEPT !.step = "dump"] \in RestoreSteps
        /\ \A p : [at[r] EXCEPT !.left = @ \ {p}] \in RestoreSteps
    BY <1>r, <2>1 DEF RestoreSteps, RestoreNames
  <2>3. PICK p \in at[r].left :
          /\ parts' = parts \/ parts' = (parts \ {[p EXCEPT !.state = "detached"]}) \cup {p}
          /\ refused' \in {refused, refused \cup {p}}
          /\ \/ GoTo(r, [at[r] EXCEPT !.left = @ \ {p}])
             \/ GoTo(r, [at[r] EXCEPT !.step = "dump"]) \/ Fails(r)
    BY <1>7 DEF AttachParts, Left
  <2>4. UNCHANGED <<snapshot, reported, touched, took, tables, queue, nodes, dump>>
    BY <1>7 DEF AttachParts, tableVars
  <2>5. parts' \subseteq Part /\ refused' \subseteq Part
    BY <1>0, <2>2, <2>3
  <2>6. \/ Fails(r)
        \/ cmd.kind = "restore_replicas" /\ \E step \in RestoreSteps : Begin(r, step) \/ GoTo(r, step)
    BY <2>2, <2>3
  <2>7. QED
    BY <1>0, <1>t, <2>4, <2>5, <2>6
<1>8. CASE AttachedParts(r)
  BY <1>8, <1>0, <1>t, <1>u DEF AttachedParts
<1>9. CASE DumpParts(r)
  <2>1. r \in DOMAIN at
    BY <1>9 DEF DumpParts, IsAt
  <2>2. at[r].parts \subseteq Part
    BY <1>r, <2>1 DEF RestoreSteps
  <2>3. QED
    BY <1>9, <1>0, <1>t, <1>u, <2>2 DEF DumpParts, Dumped
<1>10. QED
  BY <1>1, <1>2, <1>3, <1>4, <1>5, <1>6, <1>7, <1>8, <1>9 DEF ReplicaStep

\* A step at a file or a directory keeps the types.
FileStepTypesOf ==
    /\ tables' \in [Tables -> Table]
    /\ orphans' \subseteq orphans /\ links' \subseteq links /\ configs' \subseteq configs
    /\ UNCHANGED <<partVars, queue, replicaVars>> /\ cmd' = cmd
    /\ cmd.kind = "clean_orphaned_tables" => \A r \in DOMAIN at' : at'[r] \in RemoveDataSteps
    /\ cmd.kind = "migrate_dictionaries" => \A r \in DOMAIN at' : at'[r] \in CreateSteps
    /\ cmd.kind = "cleanup_data_dir" => DOMAIN at' = {}

\* Every step at a file leaves tables, and notes what its kind notes.
LEMMA FileStepTypes ==
    ASSUME TypeInv, NEW r \in listed, FileStep(r), cmd.kind \in FileKinds
    PROVE  FileStepTypesOf
<1>0. /\ tables \in [Tables -> Table]
      /\ cmd.kind = "clean_orphaned_tables" => \A q \in DOMAIN at : at[q] \in RemoveDataSteps
      /\ cmd.kind = "migrate_dictionaries" =>
            r \in [file : Configs] /\ \A q \in DOMAIN at : at[q] \in CreateSteps
      /\ cmd.kind = "cleanup_data_dir" => DOMAIN at = {}
  BY DEF TypeInv, ServerTypeOK, TablesTypeOK, StepTypes, FileTypes
<1>c. cmd' = cmd
  BY FileStepIsRowStep DEF RowNext, Succeeds, Fails, Begin, GoTo
<1>r. r \in DOMAIN at /\ at[r].step = "create" =>
        cmd.kind = "migrate_dictionaries" /\ at[r] \in CreateSteps
  BY <1>0 DEF FileKinds, RemoveDataSteps
<1>t. ASSUME tables' \in [Tables -> Table], UNCHANGED <<partVars, queue, replicaVars>>,
             orphans' \subseteq orphans, links' \subseteq links, configs' \subseteq configs,
             \/ Succeeds(r) \/ Fails(r)
             \/ /\ cmd.kind = "clean_orphaned_tables"
                /\ \E step \in RemoveDataSteps : Begin(r, step) \/ GoTo(r, step)
             \/ /\ cmd.kind = "migrate_dictionaries"
                /\ \E step \in CreateSteps : Begin(r, step) \/ GoTo(r, step)
      PROVE  FileStepTypesOf
  <2>1. cmd.kind = "clean_orphaned_tables" => \A q \in DOMAIN at' : at'[q] \in RemoveDataSteps
    BY <1>0, <1>t, NotesStayIn
  <2>2. cmd.kind = "migrate_dictionaries" => \A q \in DOMAIN at' : at'[q] \in CreateSteps
    BY <1>0, <1>t, NotesStayIn
  <2>3. cmd.kind = "cleanup_data_dir" => DOMAIN at' = {}
    BY <1>0, <1>t DEF Succeeds, Fails, Leave, Restrict
  <2>4. QED
    BY <1>t, <1>c, <2>1, <2>2, <2>3 DEF FileStepTypesOf
<1>d. \A t \in Tables : [tables[t] EXCEPT !.dirs["local"] = NoUuid] \in Table
  BY <1>0, NewTables, TablesAssumption
<1>l. \A t \in Tables : [tables[t] EXCEPT !.link = FALSE] \in Table
  BY <1>0 DEF Table
<1>1. CASE ProcessPath(r)
  <2>1. [step |-> "rmtree"] \in RemoveDataSteps
    BY DEF RemoveDataSteps
  <2>2. UNCHANGED <<partVars, tableVars, replicaVars, fileVars>>
    BY <1>1 DEF ProcessPath
  <2>3. /\ UNCHANGED <<partVars, queue, replicaVars>> /\ tables' = tables
        /\ orphans' = orphans /\ links' = links /\ configs' = configs
    BY <2>2 DEF tableVars, fileVars
  <2>4. QED
    BY <1>1, <1>0, <1>t, <2>1, <2>3 DEF ProcessPath
<1>2. CASE RemoveData(r)
  <2>1. PICK gone : tables' = [t \in Tables |-> IF Local(t) \in gone
                                       THEN [tables[t] EXCEPT !.dirs["local"] = NoUuid]
                                       ELSE tables[t]]
                    /\ orphans' = orphans \ gone
    BY <1>2 DEF RemoveData
  <2>2. tables' \in [Tables -> Table]
    BY <1>0, <1>d, <2>1
  <2>3. QED
    BY <1>2, <1>t, <2>1, <2>2 DEF RemoveData
<1>3. CASE RemoveOrphanedObject(r)
  <2>1. tables' \in [Tables -> Table]
    BY <1>3, <1>0, <1>l DEF RemoveOrphanedObject
  <2>2. QED
    BY <1>3, <1>t, <2>1 DEF RemoveOrphanedObject
<1>4. CASE GenerateDdl(r)
  <2>1. cmd.kind = "migrate_dictionaries" /\ UNCHANGED <<partVars, tableVars, replicaVars, fileVars>>
    BY <1>4 DEF GenerateDdl
  <2>2. DictionariesOf[r.file] \in Seq(DOMAIN Definition)
    BY <1>0, <2>1, FilesAssumption
  <2>3. [step |-> "create", left |-> DictionariesOf[r.file]] \in CreateSteps
    BY <2>2 DEF CreateSteps
  <2>4. /\ UNCHANGED <<partVars, queue, replicaVars>> /\ tables' = tables
        /\ orphans' = orphans /\ links' = links /\ configs' = configs
    BY <2>1 DEF tableVars, fileVars
  <2>5. QED
    BY <1>4, <1>0, <1>t, <2>1, <2>3, <2>4 DEF GenerateDdl
<1>5. CASE CreateDictionary(r)
  <2>1. cmd.kind = "migrate_dictionaries" /\ at[r] \in CreateSteps /\ at[r].left # <<>>
    BY <1>5, <1>r DEF CreateDictionary, IsAt
  <2>2. Tail(at[r].left) \in Seq(DOMAIN Definition)
    <3>1. at[r].left \in Seq(DOMAIN Definition)
      BY <2>1 DEF CreateSteps
    <3>2. QED
      BY <2>1, <3>1, HeadTailProperties
  <2>3. [at[r] EXCEPT !.left = Tail(@)] \in CreateSteps
    BY <2>1, <2>2 DEF CreateSteps
  <2>4. /\ UNCHANGED <<partVars, queue, replicaVars>> /\ tables' = tables
        /\ orphans' = orphans /\ links' = links /\ configs' = configs
    BY <1>5 DEF CreateDictionary, tableVars
  <2>5. GoTo(r, [at[r] EXCEPT !.left = Tail(@)]) \/ Fails(r)
    BY <1>5 DEF CreateDictionary
  <2>6. QED
    BY <1>0, <1>t, <2>1, <2>3, <2>4, <2>5
<1>6. CASE Unlink(r)
  <2>1. /\ UNCHANGED <<partVars, queue, replicaVars>> /\ tables' = tables
        /\ orphans' = orphans /\ links' = links /\ configs' \subseteq configs
    BY <1>6 DEF Unlink, tableVars
  <2>2. QED
    BY <1>6, <1>0, <1>t, <2>1 DEF Unlink
<1>7. QED
  BY <1>1, <1>2, <1>3, <1>4, <1>5, <1>6 DEF FileStep

-----------------------------------------------------------------------------
(* Types: every step *)

\* The variables have their types before the command.
LEMMA InitType == Init => TypeInv
<1> SUFFICES ASSUME Init PROVE TypeInv
  OBVIOUS
<1>1. LoopInv /\ at = <<>> /\ listed = {} /\ DOMAIN at = {}
  BY LoopInitEstablishes DEF Init, LoopInit
<1>2. PartsTypeOK
  BY <1>1, PartsAssumption DEF Init, PartsInit, PartsTypeOK
<1>3. TablesTypeOK
  <2>1. tables \in [Tables -> Table] /\ queue \in [Tables -> SUBSET Tasks]
    BY TablesAssumption DEF Init, TablesInit
  <2>2. Cardinality(DOMAIN at) <= 1
    BY <1>1, FS_EmptySet
  <2>3. QED
    BY <1>1, <2>1, <2>2 DEF TablesTypeOK
<1>4. ServerTypeOK
  BY <1>1, <1>2, <1>3, NodesAssumption DEF Init, ReplicasInit, ServerTypeOK
<1>5. StepTypes
  BY <1>1 DEF StepTypes
<1>6. FileTypes
  BY <1>1 DEF Init, FilesInit, FileTypes
<1>7. QED
  BY <1>1, <1>4, <1>5, <1>6 DEF TypeInv

\* The command line stays.
LEMMA CommandStays == [LoopNext]_loopVars => cmd' = cmd
  BY DEF LoopNext, loopVars, RowNext, Succeeds, Fails, Begin, GoTo, Listing, ListingFails,
     Finish, Kill

\* The commands on parts keep the types.
LEMMA PartsNextType ==
    ASSUME TypeInv, PartsNext, UNCHANGED <<tableVars, replicaVars, fileVars>>, LoopInv', cmd' = cmd
    PROVE  TypeInv'
<1>k. cmd.kind \in PartsKinds /\ cmd \in Commands
  BY StepIsOfKind DEF TypeInv, LoopInv
<1>o. /\ cmd.kind \notin TableKinds \cup ReplicaKinds \cup FileKinds
      /\ cmd.kind \notin {"change_uuid", "delete_detached_table", "queue_delete", "restore_replicas",
                          "migrate_dictionaries", "clean_orphaned_tables", "restart_replicas",
                          "cleanup_data_dir"}
  BY <1>k, KindsAreDisjoint DEF TableKinds, LoopKinds, OneTableKinds, ReplicaKinds, FileKinds
<1>u. /\ UNCHANGED <<tables, queue, nodes, dump, refused, orphans, links, configs>>
  BY DEF tableVars, replicaVars, fileVars
<1>0. PartsTypeOK
  BY DEF TypeInv, ServerTypeOK
<1>1. PartsTypeOK'
  <2>s. ASSUME UNCHANGED <<listed, at>>, parts' \subseteq Part, touched' \subseteq Part,
               reported' \subseteq Partition, UNCHANGED <<snapshot, took>>
        PROVE  PartsTypeOK'
    BY <2>s, <1>0 DEF PartsTypeOK
  <2>1. CASE ListRows
    <3>1. PartsTypeOK /\ UNCHANGED <<at, cmd, parts, snapshot, touched, took, reported>>
          /\ listed' \in (IF cmd.json THEN {FromFile} ELSE Limited(Selected))
      BY <2>1, <1>0 DEF ListRows, Listing, partVars
    <3>2. /\ cmd.kind \in PartKinds => listed' \subseteq Part
          /\ cmd.kind \in PartitionKinds => listed' \subseteq Partition
      BY <1>0, <3>1, PartLists, LimitedIsPart DEF TypeInv
    <3>3. QED
      BY <3>1, <3>2 DEF PartsTypeOK
  <2>2. CASE ListRowsFails \/ KillParts
    BY <2>2, <2>s, <1>0 DEF ListRowsFails, ListingFails, KillParts, Kill, partVars, PartsTypeOK
  <2>3. CASE FinishParts
    <3>1. failed \subseteq listed
      BY DEF TypeInv, LoopInv
    <3>2. cmd.kind = "reattach_partitions" => listed \subseteq Partition
      BY <1>0 DEF PartsTypeOK, PartitionKinds
    <3>3. reported' \subseteq Partition
      BY <2>3, <3>1, <3>2, <1>0 DEF FinishParts, Reported, PartsTypeOK
    <3>4. QED
      BY <2>3, <2>s, <3>3, <1>0 DEF FinishParts, Finish, PartsTypeOK
  <2>4. ASSUME NEW r \in listed, PartsStep(r) PROVE PartsTypeOK'
    <3>1. /\ parts' \subseteq Part /\ touched' \subseteq Part
          /\ snapshot' = snapshot /\ took' \subseteq Rows /\ reported' \subseteq Partition
          /\ cmd.kind \notin {"reattach_partitions", "detect_broken"} =>
                (at = <<>> => at' = <<>>)
      BY <2>4, <1>0, <1>k, PartsStepTypes
    <3>2. listed' = listed
      BY <2>4, PartsStepIsRowStep DEF RowNext, Succeeds, Fails, Begin, GoTo
    <3>3. cmd.kind \in PartKinds =>
            listed \subseteq Part /\ at = <<>> /\ cmd.kind \notin {"reattach_partitions", "detect_broken"}
      BY <1>0 DEF PartsTypeOK, PartKinds
    <3>4. QED
      BY <1>0, <3>1, <3>2, <3>3 DEF PartsTypeOK
  <2>5. CASE Merge \/ RemoveOutdated \/ Insert
    <3>1. UNCHANGED <<loopVars, snapshot, reported, touched, took>>
      BY <2>5 DEF Merge, RemoveOutdated, Insert, Background
    <3>2. parts' \subseteq Part
      <4>1. CASE Merge
        BY <4>1, <1>0, EffectsAreParts DEF Merge
      <4>2. CASE RemoveOutdated
        BY <4>2, <1>0 DEF RemoveOutdated, PartsTypeOK
      <4>3. CASE Insert
        <5>1. \A p \in snapshot : p.table \in Tables
          BY <1>0 DEF PartsTypeOK, Part
        <5>2. PICK r \in Rows, q \in [table : {p.table : p \in snapshot}, partition : Partitions],
                   d \in Disks :
                parts' = parts \cup {[table |-> q.table, partition |-> q.partition, rows |-> {r},
                              disk |-> d, state |-> "active", reason |-> "", try |-> 0]}
          BY <4>3 DEF Insert
        <5>3. q.table \in Tables /\ q.partition \in Partitions
          BY <5>1
        <5>4. [table |-> q.table, partition |-> q.partition, rows |-> {r},
                              disk |-> d, state |-> "active", reason |-> "", try |-> 0] \in Part
          BY <5>3 DEF Part
        <5>5. QED
          BY <1>0, <5>2, <5>4 DEF PartsTypeOK
      <4>4. QED
        BY <2>5, <4>1, <4>2, <4>3
    <3>3. QED
      BY <2>s, <3>1, <3>2, <1>0 DEF loopVars, PartsTypeOK
  <2>6. QED
    BY <2>1, <2>2, <2>3, <2>4, <2>5 DEF PartsNext, PartsStep
<1>2. ServerTypeOK'
  BY <1>1, <1>o, <1>u DEF TypeInv, ServerTypeOK, TablesTypeOK
<1>3. StepTypes' /\ FileTypes'
  BY <1>o, <1>u DEF TypeInv, StepTypes, FileTypes
<1>4. QED
  BY <1>2, <1>3 DEF TypeInv

\* The commands on tables keep the types.
LEMMA TablesNextType ==
    ASSUME TypeInv, TablesNext, UNCHANGED <<replicaVars, fileVars>>, LoopInv', cmd' = cmd
    PROVE  TypeInv'
<1>k. cmd.kind \in TableKinds /\ cmd \in Commands
  BY StepIsOfKind DEF TypeInv, LoopInv
<1>o. /\ cmd.kind \notin PartKinds \cup PartitionKinds \cup ReplicaKinds \cup FileKinds
      /\ cmd.kind \notin {"restore_replicas", "migrate_dictionaries", "clean_orphaned_tables",
                          "restart_replicas", "cleanup_data_dir"}
  BY <1>k, KindsAreDisjoint DEF PartsKinds, ReplicaKinds, FileKinds
<1>u. /\ UNCHANGED <<nodes, dump, refused, orphans, links, configs>>
  BY DEF replicaVars, fileVars
<1>0. tables \in [Tables -> Table] /\ queue \in [Tables -> SUBSET Tasks] /\ listed \subseteq TableRow
  BY <1>k DEF TypeInv, ServerTypeOK, TablesTypeOK
<1>s. ASSUME TableStepTypesOf, listed' \subseteq TableRow
      PROVE  TypeInv'
  <2>1. PartsTypeOK'
    BY <1>o, <1>s DEF TypeInv, ServerTypeOK, PartsTypeOK, TableStepTypesOf, partVars
  <2>2. TablesTypeOK'
    <3>1. cmd'.kind \in TableKinds
      BY <1>k
    <3>2. Cardinality(DOMAIN at') <= 1
      <4>1. ~Pool'
        BY <3>1 DEF Pool, PoolKinds, TableKinds, LoopKinds, OneTableKinds
      <4>2. \A q, r \in DOMAIN at' : q = r
        BY <4>1 DEF LoopInv
      <4>3. QED
        BY <4>2, AtMostOne
    <3>3. QED
      BY <1>s, <3>2 DEF TablesTypeOK, TableStepTypesOf
  <2>3. ServerTypeOK'
    BY <2>1, <2>2, <1>o, <1>u DEF TypeInv, ServerTypeOK
  <2>4. StepTypes' /\ FileTypes'
    BY <1>o, <1>u, <1>s DEF TypeInv, StepTypes, FileTypes, TableStepTypesOf
  <2>5. QED
    BY <2>3, <2>4 DEF TypeInv
<1>t. ASSUME UNCHANGED <<at, partVars>>, tables' \in [Tables -> Table], queue' \in [Tables -> SUBSET Tasks]
      PROVE  TableStepTypesOf
  BY <1>t DEF TypeInv, StepTypes, TableStepTypesOf
<1>1. CASE ListTableRows
  <2>1. UNCHANGED <<at, partVars, tables, queue>> /\ listed' = TableRows
    BY <1>1 DEF ListTableRows, Listing, tableVars
  <2>2. QED
    BY <1>k, <1>0, <1>s, <1>t, <2>1, TableLists
<1>2. CASE ListTableRowsFails \/ FinishTables \/ KillTables
  BY <1>2, <1>0, <1>s, <1>t DEF ListTableRowsFails, FinishTables, KillTables, ListingFails, Finish,
     Kill, tableVars
<1>3. ASSUME NEW r \in listed, TableStep(r) PROVE TypeInv'
  <2>1. listed' = listed
    BY <1>3, TableStepIsRowStep DEF RowNext, Succeeds, Fails, Begin, GoTo
  <2>2. QED
    BY <1>0, <1>3, <1>s, <2>1, TableStepTypes
<1>4. CASE Restart
  <2>1. \A t \in Tables : \A b \in BOOLEAN : [tables[t] EXCEPT !.attached = b] \in Table
    BY <1>0 DEF Table
  <2>2. \A t \in Tables : (tables[t].meta # NoUuid /\ ~tables[t].flag) \in BOOLEAN
    OBVIOUS
  <2>3. tables' \in [Tables -> Table]
    BY <1>4, <2>1, <2>2 DEF Restart
  <2>4. QED
    BY <1>4, <2>3, <1>0, <1>s, <1>t DEF Restart, loopVars
<1>5. CASE ExecuteTask
  <2>1. queue' \in [Tables -> SUBSET Tasks]
    BY <1>5, <1>0 DEF ExecuteTask, Attached
  <2>2. QED
    BY <1>5, <2>1, <1>0, <1>s, <1>t DEF ExecuteTask, loopVars
<1>6. QED
  BY <1>1, <1>2, <1>3, <1>4, <1>5 DEF TablesNext

\* The commands on replicas keep the types.
LEMMA ReplicasNextType ==
    ASSUME TypeInv, ReplicasNext, UNCHANGED fileVars, LoopInv', cmd' = cmd
    PROVE  TypeInv'
<1>k. cmd.kind \in ReplicaKinds /\ cmd \in Commands
  BY StepIsOfKind DEF TypeInv, LoopInv
<1>o. /\ cmd.kind \notin PartKinds \cup PartitionKinds \cup TableKinds \cup FileKinds
      /\ cmd.kind \notin {"migrate_dictionaries", "clean_orphaned_tables", "cleanup_data_dir",
                          "change_uuid", "delete_detached_table", "queue_delete"}
  BY <1>k, KindsAreDisjoint DEF PartsKinds, FileKinds, TableKinds, LoopKinds, OneTableKinds
<1>u. UNCHANGED <<orphans, links, configs>>
  BY DEF fileVars
<1>0. listed \subseteq TableRow
  BY <1>k DEF TypeInv, FileTypes
<1>s. ASSUME ReplicaStepTypesOf, listed' \subseteq TableRow
      PROVE  TypeInv'
  <2>1. PartsTypeOK'
    BY <1>o, <1>s DEF TypeInv, ServerTypeOK, PartsTypeOK, ReplicaStepTypesOf
  <2>2. TablesTypeOK'
    BY <1>o, <1>s DEF TypeInv, ServerTypeOK, TablesTypeOK, ReplicaStepTypesOf
  <2>3. ServerTypeOK'
    BY <2>1, <2>2, <1>s DEF ServerTypeOK, ReplicaStepTypesOf, RestoreSteps
  <2>4. StepTypes' /\ FileTypes'
    BY <1>o, <1>u, <1>s DEF TypeInv, StepTypes, FileTypes, ReplicaStepTypesOf
  <2>5. QED
    BY <2>3, <2>4 DEF TypeInv
<1>t. ASSUME UNCHANGED <<at, partVars, tableVars, replicaVars>>
      PROVE  ReplicaStepTypesOf
  BY <1>t DEF TypeInv, ServerTypeOK, PartsTypeOK, StepTypes, ReplicaStepTypesOf, partVars,
     tableVars,
     replicaVars
<1>1. CASE ListReplicaRows
  <2>1. /\ UNCHANGED <<at, partVars, tableVars, replicaVars>>
        /\ listed' = {Row(t, {}) : t \in ListReplicas}
    BY <1>1 DEF ListReplicaRows, Listing
  <2>2. QED
    BY <1>s, <1>t, <2>1, TableLists
<1>2. CASE FinishReplicas
  BY <1>2, <1>0, <1>s, <1>t DEF FinishReplicas, Finish, Kill
<1>3. ASSUME NEW r \in listed, ReplicaStep(r) PROVE TypeInv'
  <2>1. listed' = listed
    BY <1>3, ReplicaStepIsRowStep DEF RowNext, Succeeds, Fails, Begin, GoTo
  <2>2. QED
    BY <1>0, <1>3, <1>k, <1>s, <2>1, ReplicaStepTypes
<1>4. QED
  BY <1>1, <1>2, <1>3 DEF ReplicasNext

\* The commands on files keep the types.
LEMMA FilesNextType ==
    ASSUME TypeInv, FilesNext, LoopInv', cmd' = cmd
    PROVE  TypeInv'
<1>k. cmd.kind \in FileKinds /\ cmd \in Commands
  BY StepIsOfKind DEF TypeInv, LoopInv
<1>o. /\ cmd.kind \notin PartKinds \cup PartitionKinds \cup TableKinds \cup ReplicaKinds
      /\ cmd.kind \notin {"change_uuid", "delete_detached_table", "queue_delete", "restore_replicas",
                          "restart_replicas"}
  BY <1>k, KindsAreDisjoint DEF PartsKinds, ReplicaKinds, TableKinds, LoopKinds, OneTableKinds
<1>0. /\ tables \in [Tables -> Table] /\ listed \subseteq FileRow
      /\ cmd.kind = "migrate_dictionaries" => listed \subseteq [file : Configs]
  BY <1>k DEF TypeInv, ServerTypeOK, TablesTypeOK, FileTypes
<1>s. ASSUME FileStepTypesOf, listed' \subseteq FileRow,
             cmd.kind = "migrate_dictionaries" => listed' \subseteq [file : Configs]
      PROVE  TypeInv'
  <2>1. PartsTypeOK'
    BY <1>o, <1>s DEF TypeInv, ServerTypeOK, PartsTypeOK, FileStepTypesOf, partVars
  <2>2. TablesTypeOK'
    BY <1>o, <1>s DEF TypeInv, ServerTypeOK, TablesTypeOK, FileStepTypesOf
  <2>3. ServerTypeOK'
    BY <2>1, <2>2, <1>o, <1>s DEF TypeInv, ServerTypeOK, FileStepTypesOf, replicaVars
  <2>4. StepTypes'
    BY <1>o, <1>s DEF StepTypes, FileStepTypesOf
  <2>5. FileTypes'
    BY <1>o, <1>s DEF TypeInv, FileTypes, FileStepTypesOf
  <2>6. QED
    BY <2>3, <2>4, <2>5 DEF TypeInv
<1>t. ASSUME UNCHANGED <<at, partVars, queue, replicaVars, orphans, links, configs>>,
             tables' \in [Tables -> Table]
      PROVE  FileStepTypesOf
  BY <1>t DEF TypeInv, StepTypes, FileStepTypesOf
<1>1. CASE ListFiles
  <2>1. /\ UNCHANGED <<at, partVars, queue, replicaVars, orphans, links, configs, tables>>
        /\ listed' \in Limited(FilesFound)
    BY <1>1 DEF ListFiles, Listing, tableVars, fileVars
  <2>2. QED
    BY <1>k, <1>0, <1>s, <1>t, <2>1, FileLists, LimitedIsPart
<1>2. CASE ListFilesFails \/ FinishFiles
  BY <1>2, <1>0, <1>s, <1>t DEF ListFilesFails, ListingFails, FinishFiles, Finish, Kill, tableVars,
     fileVars
<1>3. ASSUME NEW r \in listed, FileStep(r) PROVE TypeInv'
  <2>1. listed' = listed
    BY <1>3, FileStepIsRowStep DEF RowNext, Succeeds, Fails, Begin, GoTo
  <2>2. QED
    BY <1>0, <1>3, <1>k, <1>s, <2>1, FileStepTypes
<1>4. CASE CreateTable
  <2>1. \A u \in Uuids : [NoTable EXCEPT !.attached = TRUE, !.meta = u, !.link = TRUE,
                                        !.dirs["local"] = u] \in Table
    BY TablesAssumption DEF NoTable, Table
  <2>2. tables' \in [Tables -> Table]
    BY <1>4, <1>0, <2>1 DEF CreateTable
  <2>3. QED
    BY <1>4, <2>2, <1>0, <1>s, <1>t DEF CreateTable, loopVars, fileVars
<1>5. QED
  BY <1>1, <1>2, <1>3, <1>4 DEF FilesNext

\* Every step keeps the types.
LEMMA NextType == TypeInv /\ [Next]_vars => TypeInv'
<1> SUFFICES ASSUME TypeInv, [Next]_vars PROVE TypeInv'
  OBVIOUS
<1>1. LoopInv' /\ cmd' = cmd
  BY NextIsLoopStep, LoopStepPreserves, CommandStays DEF TypeInv
<1>2. CASE UNCHANGED vars
  <2>1. UNCHANGED <<loopVars, partVars, tableVars, replicaVars, fileVars>>
    BY <1>2 DEF vars
  <2>2. PartsTypeOK' /\ TablesTypeOK'
    BY <2>1 DEF TypeInv, ServerTypeOK, PartsTypeOK, TablesTypeOK, loopVars, partVars, tableVars
  <2>3. ServerTypeOK'
    BY <2>1, <2>2 DEF TypeInv, ServerTypeOK, loopVars, replicaVars
  <2>4. StepTypes' /\ FileTypes'
    BY <2>1 DEF TypeInv, StepTypes, FileTypes, loopVars, fileVars
  <2>5. QED
    BY <1>1, <2>3, <2>4 DEF TypeInv
<1>3. QED
  BY <1>1, <1>2, PartsNextType, TablesNextType, ReplicasNextType, FilesNextType DEF Next

\* The types, over all behaviours.
LEMMA TypeIsInvariant == Spec => []TypeInv
  BY InitType, NextType, PTL DEF Spec

\* Whatever the commands do, and the server and the failures next to them, every
\* variable keeps its type, and no command on tables has two of them at work.
THEOREM ServerTypeCorrect == Spec => []ServerTypeOK
<1>1. TypeInv => ServerTypeOK
  BY DEF TypeInv
<1>2. QED
  BY <1>1, TypeIsInvariant, PTL

\* Every command on parts, partitions, tables, replicas and files works through its
\* list as BulkCommand promises: a step at one of its rows, or of the server, is a
\* step of the abstract loop or none.
THEOREM ServerImplementsBulk == Spec => ImplementsBulk
<1>1. Init => Bulk!BulkInit
  BY LoopInitEstablishes DEF Init
<1>2. TypeInv /\ [Next]_vars => [Bulk!BulkNext]_(Bulk!bulkVars)
  BY NextIsLoopStep, LoopStepIsBulkStep DEF TypeInv
<1>3. QED
  BY <1>1, <1>2, TypeIsInvariant, PTL DEF Spec, ImplementsBulk, Bulk!BulkSpec

-----------------------------------------------------------------------------
(* Invariants: the files *)

\* What was there before the command was a server's tables.
BeforeWasThere ==
    \A t \in Tables :
        /\ before[t].meta = NoUuid => before[t] = NoTable
        /\ \A d \in Disks : before[t].dirs[d] \in {NoUuid, before[t].meta}

TablesAreKept == \A t \in Tables : before[t] # NoTable => tables[t] = before[t]

\* What is about to be removed belongs to no table that was there before.
OrphansAreListed ==
    /\ cmd.kind = "clean_orphaned_tables" =>
        \A r \in DOMAIN at : \A t \in Tables :
            before[t] # NoTable => Prefix[before[t].meta] # r.file
    /\ cmd.kind = "cleanup_data_dir" =>
        \A r \in listed : r.file \in Tables => before[r.file] = NoTable

NamesCreated == {d.name : d \in dictionaries}

\* The dictionaries of a file at work are there, or still to be created.
DictionariesAreThere ==
    cmd.kind = "migrate_dictionaries" =>
        /\ ~cmd.dry => \A r \in DOMAIN at :
            Range(DictionariesOf[r.file]) \subseteq NamesCreated \cup Range(at[r].left)
        /\ \A c \in Configs \ configs : Range(DictionariesOf[c]) \subseteq NamesCreated

FilesInv ==
    /\ before \in [Tables -> Table]
    /\ cmd.kind \notin FileKinds => \A t \in Tables : before[t] = NoTable
    /\ BeforeWasThere /\ TablesAreKept /\ OrphansAreListed /\ DictionariesAreThere

-----------------------------------------------------------------------------
(* Invariants: the tables *)

\* The rows that are at work or have failed.
Touched == failed \cup DOMAIN at

\* No command on tables goes on after an error, and every table has one row.
OneRowAtATime ==
    cmd.kind \in TableKinds =>
        /\ phase \in {"start", "run"} => failed = {}
        /\ \A q, r \in Touched : q = r
        /\ \A q, r \in listed : q.name = r.name => q = r

\* A table that is attached will be attached after a restart.
AttachedStay ==
    cmd.kind \in {"reattach_tables", "queue_delete", "recreate"} =>
        \A t \in Tables : tables[t].attached => tables[t].meta # NoUuid /\ ~tables[t].flag

\* The other rows are as the command should leave them.
OthersAreWhole ==
    /\ cmd.kind \in {"reattach_tables", "queue_delete", "recreate"} =>
        \A r \in listed : cmd.dry \/ r \notin Touched => ~Broken(r)
    /\ cmd.kind = "change_uuid" =>
        \A t \in Tables : (\A r \in Touched : r.name # t) =>
            tables[t].dirs["local"] \in {NoUuid, tables[t].meta}

\* The uuid of a table is in its metadata file before its data is moved, and a view
\* has no data.
ChangeIsUnderWay ==
    cmd.kind = "change_uuid" =>
        /\ \A t \in Tables : ~IsTableEngine(t) => tables[t].dirs["local"] = NoUuid
        /\ \A r \in DOMAIN at : at[r].step = "move" =>
            IsTableEngine(r.name) /\ tables[r.name].meta = at[r].new

\* What of a table is removed already, when it is removed.
RemovalIsUnderWay ==
    cmd.kind = "delete_detached_table" =>
        /\ \A t \in Tables : \A d \in Disks : tables[t].dirs[d] \in {NoUuid, tables[t].meta}
        /\ \A r \in DOMAIN at :
            LET t == tables[r.name]
            IN  /\ t.meta = at[r].uuid
                /\ \A d \in Disks : at[r].n > 1 \/ d \notin at[r].disks => t.dirs[d] = NoUuid
                /\ at[r].n > 2 => ~t.replica
                /\ at[r].n > 3 => ~t.link
                /\ at[r].n > 4 => ~t.flag

TablesInv ==
    /\ MetadataIsRemovedLast /\ OneRowAtATime /\ AttachedStay /\ OthersAreWhole
    /\ ChangeIsUnderWay /\ RemovalIsUnderWay

-----------------------------------------------------------------------------
(* Invariants: the replicas *)

\* The parts of a table that were active before the command, and their names when
\* they are detached.
WereActive(t) == {p \in snapshot : p.table = t /\ p.state = "active"}
OffOf(p) == [p EXCEPT !.state = "detached"]

\* A replica that the command has not begun with has its parts.
OthersHaveTheirParts ==
    \A t \in Tables : (\A r \in done \cup Touched : r.name # t) => ActiveOf(t) = WereActive(t)

\* The parts of a replica at work are attached or detached, and those that are not
\* left to be attached are attached or were refused.
UnderWay(r) ==
    /\ at[r].parts = WereActive(r.name)
    /\ \A p \in WereActive(r.name) : p \in parts \/ OffOf(p) \in parts
    /\ at[r].step \in {"restore", "restart_only"} => WereActive(r.name) \subseteq parts
    /\ at[r].step \notin {"attach", "dump"} => at[r].left = at[r].parts
    /\ WereActive(r.name) \ at[r].left \subseteq parts \cup refused

RestoreIsUnderWay == \A r \in DOMAIN at : UnderWay(r)

DumpIsOfOneReplica == dump = {} \/ \E r \in failed : dump = WereActive(r.name)

ReplicasInv ==
    /\ DumpIsOfOneReplica
    /\ cmd.kind \in ReplicaKinds => \A q, r \in listed : q.name = r.name => q = r
    /\ cmd.kind = "restore_replicas" => OthersHaveTheirParts /\ RestoreIsUnderWay
    /\ RestoredHaveTheirParts

-----------------------------------------------------------------------------
(* Invariants: the parts *)

\* Only the names of detached parts have a reason or an attempt in them.
NamesAreClean == \A p \in parts : p.state # "detached" => p.reason = "" /\ p.try = 0

\* What the command has detached can be attached again.
TookCanBeAttached ==
    \A p \in parts : p.state = "detached" /\ p.rows \cap took # {} => p.reason = "" /\ p.try = 0

PartsInv ==
    /\ snapshot \in InitParts
    /\ phase = "start" => listed = {}
    /\ NamesAreClean /\ TookCanBeAttached
    /\ cmd.kind \notin PartsKinds \/ cmd.dry => took = {}
    /\ RowsAreKept /\ LeftDetachedIsReported

-----------------------------------------------------------------------------
(* The files *)

\* No command has removed a file yet.
LEMMA InitFiles == Init => FilesInv
<1> SUFFICES ASSUME Init PROVE FilesInv
  OBVIOUS
<1>1. /\ DOMAIN at = {} /\ listed = {} /\ tables \in InitTables
      /\ cmd.kind \in FileKinds => before = tables
      /\ cmd.kind \notin FileKinds => before = [t \in Tables |-> NoTable]
      /\ cmd.kind = "migrate_dictionaries" => configs = Configs
  BY DEF Init, LoopInit, TablesInit, FilesInit
<1>2. NoTable \in Table /\ NoTable.meta = NoUuid /\ \A d \in Disks : NoTable.dirs[d] = NoUuid
  BY DEF NoTable, Table
<1>3. /\ tables \in [Tables -> Table]
      /\ \A t \in Tables : /\ tables[t].meta = NoUuid => tables[t] = NoTable
                           /\ \A d \in Disks : tables[t].dirs[d] \in {NoUuid, tables[t].meta}
  BY <1>1, TablesAssumption
<1>4. before \in [Tables -> Table] /\ (cmd.kind \notin FileKinds => \A t \in Tables : before[t] = NoTable)
  BY <1>1, <1>2, <1>3
<1>5. BeforeWasThere
  BY <1>1, <1>2, <1>3 DEF BeforeWasThere
<1>6. TablesAreKept
  BY <1>1 DEF TablesAreKept
<1>7. OrphansAreListed /\ DictionariesAreThere
  BY <1>1 DEF OrphansAreListed, DictionariesAreThere
<1>8. QED
  BY <1>4, <1>5, <1>6, <1>7 DEF FilesInv

\* A command that is not on files removes none.
LEMMA OthersKeepFiles ==
    ASSUME FilesInv, cmd' = cmd, cmd.kind \notin FileKinds, UNCHANGED fileVars
    PROVE  FilesInv'
<1>1. before' = before
  BY DEF fileVars
<1>2. \A t \in Tables : before[t] = NoTable
  BY DEF FilesInv
<1>3. BeforeWasThere'
  BY <1>1 DEF FilesInv, BeforeWasThere
<1>4. TablesAreKept'
  BY <1>1, <1>2 DEF TablesAreKept
<1>5. (OrphansAreListed /\ DictionariesAreThere)'
  BY DEF OrphansAreListed, DictionariesAreThere, FileKinds
<1>6. QED
  BY <1>1, <1>2, <1>3, <1>4, <1>5 DEF FilesInv

\* What a table keeps its files under.
LEMMA KeptHasUuid ==
    ASSUME FilesInv, TypeInv, NEW t \in Tables, before[t] # NoTable
    PROVE  /\ tables[t] = before[t] /\ before[t].meta \in Uuids /\ before[t].meta # NoUuid
           /\ Local(t) \in {NoUuid, before[t].meta}
<1>1. before[t] \in Table
  BY DEF FilesInv
<1>2. before[t].meta # NoUuid /\ tables[t] = before[t]
  BY DEF FilesInv, BeforeWasThere, TablesAreKept
<1>3. before[t].meta \in Uuids
  BY <1>1, <1>2 DEF Table
<1>4. before[t].dirs["local"] \in {NoUuid, before[t].meta}
  BY TablesAssumption DEF FilesInv, BeforeWasThere
<1>5. QED
  BY <1>2, <1>3, <1>4 DEF Local

\* The rest of a sequence has what its head is not.
LEMMA RangeOfTail ==
    ASSUME NEW S, NEW seq \in Seq(S), seq # <<>>
    PROVE  Range(seq) \subseteq {Head(seq)} \cup Range(Tail(seq))
<1>1. /\ Len(Tail(seq)) = Len(seq) - 1 /\ Tail(seq) \in Seq(S)
      /\ \A i \in 1 .. Len(Tail(seq)) : Tail(seq)[i] = seq[i+1]
  BY HeadTailProperties
<1>2. DOMAIN seq = 1 .. Len(seq) /\ DOMAIN Tail(seq) = 1 .. Len(Tail(seq)) /\ Len(seq) \in Nat
  BY <1>1
<1>3. Head(seq) = seq[1]
  OBVIOUS
<1>4. ASSUME NEW i \in DOMAIN seq PROVE seq[i] \in {Head(seq)} \cup Range(Tail(seq))
  <2>1. CASE i = 1
    BY <2>1, <1>3
  <2>2. CASE i # 1
    <3>1. i - 1 \in DOMAIN Tail(seq) /\ Tail(seq)[i - 1] = seq[i]
      BY <1>1, <1>2, <2>2
    <3>2. QED
      BY <3>1 DEF Range
  <2>3. QED
    BY <2>1, <2>2
<1>5. QED
  BY <1>4 DEF Range

\* The commands on files keep what they have to: they remove what was no table's
\* before.
LEMMA FilesNextKeeps ==
    ASSUME FilesInv, TypeInv, FilesNext, cmd' = cmd
    PROVE  FilesInv'
<1>k. cmd.kind \in FileKinds
  BY StepIsOfKind
<1>0. /\ before \in [Tables -> Table] /\ BeforeWasThere /\ TablesAreKept /\ OrphansAreListed
      /\ DictionariesAreThere
  BY DEF FilesInv
<1>i. ASSUME before' = before, TablesAreKept', OrphansAreListed', DictionariesAreThere' PROVE FilesInv'
  BY <1>i, <1>k, <1>0 DEF FilesInv, BeforeWasThere
\* The steps that remove nothing.
<1>q. ASSUME UNCHANGED <<tables, fileVars>>, DOMAIN at' \subseteq DOMAIN at,
             \A r \in DOMAIN at' : at'[r] = at[r],
             cmd.kind = "cleanup_data_dir" => listed' \subseteq listed
      PROVE  FilesInv'
  <2>1. UNCHANGED <<configs, dictionaries, before>>
    BY <1>q DEF fileVars
  <2>2. TablesAreKept'
    BY <1>q, <1>0, <2>1 DEF TablesAreKept
  <2>3. OrphansAreListed'
    BY <1>q, <1>0, <2>1 DEF OrphansAreListed
  <2>4. DictionariesAreThere'
    BY <1>q, <1>0, <2>1 DEF DictionariesAreThere, NamesCreated
  <2>5. QED
    BY <1>i, <2>1, <2>2, <2>3, <2>4
<1>e. ASSUME NEW r, Succeeds(r) \/ Fails(r)
      PROVE  DOMAIN at' = DOMAIN at \ {r} /\ (\A q \in DOMAIN at' : at'[q] = at[q]) /\ listed' = listed
  BY <1>e DEF Succeeds, Fails, Leave, Restrict
<1>1. CASE ListFiles
  <2>1. UNCHANGED <<tables, fileVars, at>> /\ listed' \in Limited(FilesFound)
    BY <1>1 DEF ListFiles, Listing, tableVars
  <2>2. ASSUME cmd.kind = "cleanup_data_dir", NEW r \in FilesFound, r.file \in Tables
        PROVE  before[r.file] = NoTable
    <3>1. tables[r.file].meta = NoUuid
      BY <2>2 DEF FilesFound
    <3>2. QED
      BY <2>2, <3>1, KeptHasUuid
  <2>3. OrphansAreListed'
    <3>1. before' = before
      BY <2>1 DEF fileVars
    <3>2. listed' \subseteq FilesFound
      BY <2>1, LimitedIsPart
    <3>3. QED
      BY <1>0, <2>1, <2>2, <3>1, <3>2 DEF OrphansAreListed
  <2>4. UNCHANGED <<configs, dictionaries, before>>
    BY <2>1 DEF fileVars
  <2>5. TablesAreKept' /\ DictionariesAreThere'
    BY <1>0, <2>1, <2>4 DEF TablesAreKept, DictionariesAreThere, NamesCreated
  <2>6. QED
    BY <1>i, <2>3, <2>4, <2>5
<1>2. CASE ListFilesFails \/ FinishFiles
  BY <1>2, <1>q DEF ListFilesFails, ListingFails, FinishFiles, Finish, Kill, tableVars
<1>3. ASSUME NEW r \in listed, ProcessPath(r) PROVE FilesInv'
  <2>1. UNCHANGED <<tables, fileVars>> /\ cmd.kind = "clean_orphaned_tables"
    BY <1>3 DEF ProcessPath, tableVars
  <2>2. CASE Succeeds(r) \/ Fails(r)
    BY <2>1, <2>2, <1>q, <1>e
  <2>3. CASE ~IsUsed(r.file) /\ Begin(r, [step |-> "rmtree"])
    <3>1. UNCHANGED <<configs, dictionaries, before>>
      BY <2>1 DEF fileVars
    <3>2. \A t \in Tables : before[t] # NoTable => Prefix[before[t].meta] # r.file
      BY <2>3, KeptHasUuid DEF IsUsed
    <3>3. OrphansAreListed'
      BY <1>0, <2>1, <2>3, <3>1, <3>2 DEF OrphansAreListed, Begin
    <3>4. TablesAreKept' /\ DictionariesAreThere'
      BY <1>0, <2>1, <3>1 DEF TablesAreKept, DictionariesAreThere
    <3>5. QED
      BY <1>i, <3>1, <3>3, <3>4
  <2>4. QED
    BY <1>3, <2>2, <2>3 DEF ProcessPath
<1>4. ASSUME NEW r \in listed, RemoveData(r) PROVE FilesInv'
  <2>1. PICK gone \in SUBSET Under(r.file) :
            /\ Succeeds(r) \/ Fails(r)
            /\ tables' = [t \in Tables |-> IF Local(t) \in gone
                                       THEN [tables[t] EXCEPT !.dirs["local"] = NoUuid]
                                       ELSE tables[t]]
    BY <1>4 DEF RemoveData
  <2>2. cmd.kind = "clean_orphaned_tables" /\ r \in DOMAIN at /\ UNCHANGED before
    BY <1>4 DEF RemoveData, IsAt
  <2>3. TablesAreKept'
    <3>1. ASSUME NEW t \in Tables, before[t] # NoTable PROVE tables'[t] = before[t]
      <4>1. Local(t) \in {NoUuid, before[t].meta} /\ tables[t] = before[t]
        BY <3>1, KeptHasUuid
      <4>2. Prefix[before[t].meta] # r.file
        BY <1>0, <2>2, <3>1 DEF OrphansAreListed
      <4>3. Local(t) \notin gone
        BY <2>1, <4>1, <4>2 DEF Under, Directories
      <4>4. QED
        BY <2>1, <4>1, <4>3
    <3>2. QED
      BY <2>2, <3>1 DEF TablesAreKept
  <2>4. OrphansAreListed' /\ DictionariesAreThere'
    BY <1>0, <1>e, <2>1, <2>2 DEF OrphansAreListed, DictionariesAreThere
  <2>5. QED
    BY <1>i, <2>2, <2>3, <2>4
<1>5. ASSUME NEW r \in listed, RemoveOrphanedObject(r) PROVE FilesInv'
  <2>1. /\ cmd.kind = "cleanup_data_dir" /\ UNCHANGED before /\ listed' = listed
        /\ \/ tables' = tables
           \/ tables' = [t \in Tables |-> IF t = r.file THEN [tables[t] EXCEPT !.link = FALSE]
                                         ELSE tables[t]]
    BY <1>5, <1>e DEF RemoveOrphanedObject
  <2>2. r.file \in Tables => before[r.file] = NoTable
    BY <1>0, <2>1 DEF OrphansAreListed
  <2>3. TablesAreKept'
    BY <1>0, <2>1, <2>2 DEF TablesAreKept
  <2>4. OrphansAreListed' /\ DictionariesAreThere'
    BY <1>0, <2>1 DEF OrphansAreListed, DictionariesAreThere
  <2>5. QED
    BY <1>i, <2>1, <2>3, <2>4
<1>6. ASSUME NEW r \in listed, GenerateDdl(r) PROVE FilesInv'
  <2>1. UNCHANGED <<tables, fileVars>> /\ cmd.kind = "migrate_dictionaries"
    BY <1>6 DEF GenerateDdl, tableVars
  <2>2. CASE Fails(r)
    BY <2>1, <2>2, <1>q, <1>e
  <2>3. CASE Begin(r, [step |-> "create", left |-> DictionariesOf[r.file]])
    <3>1. UNCHANGED <<configs, dictionaries, before>>
      BY <2>1 DEF fileVars
    <3>2. TablesAreKept' /\ OrphansAreListed'
      BY <1>0, <2>1, <3>1 DEF TablesAreKept, OrphansAreListed
    <3>3. ASSUME ~cmd.dry, NEW q \in DOMAIN at'
          PROVE  Range(DictionariesOf[q.file]) \subseteq NamesCreated \cup Range(at'[q].left)
      BY <1>0, <2>1, <2>3, <3>3 DEF DictionariesAreThere, Begin
    <3>4. DictionariesAreThere'
      BY <1>0, <2>1, <3>1, <3>3 DEF DictionariesAreThere, NamesCreated
    <3>5. QED
      BY <1>i, <3>1, <3>2, <3>4
  <2>4. QED
    BY <1>6, <2>2, <2>3 DEF GenerateDdl
<1>7. ASSUME NEW r \in listed, CreateDictionary(r) PROVE FilesInv'
  <2> DEFINE name == Head(at[r].left)
  <2>1. /\ UNCHANGED <<tables, before, configs>> /\ dictionaries \subseteq dictionaries'
        /\ r \in DOMAIN at /\ at[r].left # <<>> /\ at[r].step = "create"
        /\ \/ Fails(r)
           \/ /\ GoTo(r, [at[r] EXCEPT !.left = Tail(@)])
              /\ ~cmd.dry => name \in {d.name : d \in dictionaries'}
    BY <1>7 DEF CreateDictionary, IsAt, tableVars
  <2>2. cmd.kind = "migrate_dictionaries"
    BY <1>k, <2>1 DEF FileKinds, TypeInv, StepTypes, RemoveDataSteps
  <2>3. at[r].left \in Seq(DOMAIN Definition)
    BY <2>1, <2>2 DEF TypeInv, StepTypes, CreateSteps
  <2>4. Range(at[r].left) \subseteq {name} \cup Range(Tail(at[r].left))
    BY <2>1, <2>3, RangeOfTail
  <2>5. TablesAreKept' /\ OrphansAreListed'
    BY <1>0, <2>1, <2>2 DEF TablesAreKept, OrphansAreListed
  <2>6. NamesCreated \subseteq NamesCreated'
    BY <2>1 DEF NamesCreated
  <2>7. ASSUME ~cmd.dry, NEW q \in DOMAIN at'
        PROVE  Range(DictionariesOf[q.file]) \subseteq NamesCreated' \cup Range(at'[q].left)
    <3>1. q \in DOMAIN at
      BY <2>1, <1>e, <2>7 DEF GoTo
    <3>2. Range(DictionariesOf[q.file]) \subseteq NamesCreated \cup Range(at[q].left)
      BY <1>0, <2>2, <2>7, <3>1 DEF DictionariesAreThere
    <3>3. CASE at'[q] = at[q]
      BY <2>6, <3>2, <3>3
    <3>4. CASE GoTo(r, [at[r] EXCEPT !.left = Tail(@)]) /\ q = r
      <4>1. at'[r].left = Tail(at[r].left)
        <5>1. at[r] \in CreateSteps
          BY <2>1, <2>2 DEF TypeInv, StepTypes
        <5>2. at'[r] = [at[r] EXCEPT !.left = Tail(@)]
          BY <3>1, <3>4 DEF GoTo
        <5>3. QED
          BY <5>1, <5>2 DEF CreateSteps
      <4>2. name \in NamesCreated'
        BY <1>e, <2>1, <2>7, <3>4 DEF NamesCreated
      <4>3. QED
        BY <2>4, <2>6, <3>2, <3>4, <4>1, <4>2
    <3>5. QED
      BY <2>1, <1>e, <2>7, <3>3, <3>4 DEF GoTo
  <2>8. DictionariesAreThere'
    BY <1>0, <2>1, <2>2, <2>6, <2>7 DEF DictionariesAreThere
  <2>9. QED
    BY <1>i, <2>1, <2>5, <2>8
<1>8. ASSUME NEW r \in listed, Unlink(r) PROVE FilesInv'
  <2>1. /\ UNCHANGED <<tables, before, dictionaries>>
        /\ Succeeds(r) \/ Fails(r)
        /\ r \in DOMAIN at /\ at[r].left = <<>> /\ at[r].step = "create"
        /\ configs' = configs \/ (~cmd.dry /\ configs' = configs \ {r.file})
    BY <1>8 DEF Unlink, IsAt, tableVars
  <2>2. cmd.kind = "migrate_dictionaries"
    BY <1>k, <2>1 DEF FileKinds, TypeInv, StepTypes, RemoveDataSteps
  <2>3. TablesAreKept' /\ OrphansAreListed'
    BY <1>0, <2>1, <2>2 DEF TablesAreKept, OrphansAreListed
  <2>4. ~cmd.dry => Range(DictionariesOf[r.file]) \subseteq NamesCreated
    <3>1. Range(at[r].left) = {}
      BY <2>1 DEF Range
    <3>2. QED
      BY <1>0, <2>1, <2>2, <3>1 DEF DictionariesAreThere
  <2>5. DictionariesAreThere'
    BY <1>0, <1>e, <2>1, <2>2, <2>4 DEF DictionariesAreThere, NamesCreated
  <2>6. QED
    BY <1>i, <2>1, <2>3, <2>5
<1>9. CASE CreateTable
  <2>1. PICK t \in Tables : tables[t] = NoTable /\ \E new : tables' = [tables EXCEPT ![t] = new]
    BY <1>9 DEF CreateTable
  <2>2. UNCHANGED <<loopVars, fileVars>>
    BY <1>9 DEF CreateTable
  <2>3. UNCHANGED <<at, listed, before, configs, dictionaries>>
    BY <2>2 DEF loopVars, fileVars
  <2>4. TablesAreKept'
    BY <1>0, <2>1, <2>3 DEF TablesAreKept
  <2>5. OrphansAreListed' /\ DictionariesAreThere'
    BY <1>0, <2>3 DEF OrphansAreListed, DictionariesAreThere, NamesCreated
  <2>6. QED
    BY <1>i, <2>3, <2>4, <2>5
<1>10. QED
  BY <1>1, <1>2, <1>3, <1>4, <1>5, <1>6, <1>7, <1>8, <1>9 DEF FilesNext, FileStep

\* Every step keeps the invariant of the files.
LEMMA NextFiles == FilesInv /\ TypeInv /\ [Next]_vars => FilesInv'
<1> SUFFICES ASSUME FilesInv, TypeInv, [Next]_vars PROVE FilesInv'
  OBVIOUS
<1>1. cmd' = cmd
  BY NextIsLoopStep, CommandStays
<1>2. CASE UNCHANGED vars
  <2>1. UNCHANGED <<loopVars, tableVars, fileVars>>
    BY <1>2 DEF vars
  <2>2. UNCHANGED <<at, listed, tables, before, configs, dictionaries>>
    BY <2>1 DEF loopVars, tableVars, fileVars
  <2>3. QED
    BY <1>1, <2>2 DEF FilesInv, BeforeWasThere, TablesAreKept, OrphansAreListed,
       DictionariesAreThere, NamesCreated
<1>3. CASE FilesNext
  BY <1>1, <1>3, FilesNextKeeps
<1>4. CASE PartsNext /\ UNCHANGED fileVars
  BY <1>1, <1>4, StepIsOfKind, KindsAreDisjoint, OthersKeepFiles
<1>5. CASE TablesNext /\ UNCHANGED fileVars
  BY <1>1, <1>5, StepIsOfKind, KindsAreDisjoint, OthersKeepFiles
<1>6. CASE ReplicasNext /\ UNCHANGED fileVars
  BY <1>1, <1>6, StepIsOfKind, KindsAreDisjoint, OthersKeepFiles
<1>7. QED
  BY <1>2, <1>3, <1>4, <1>5, <1>6 DEF Next

\* The commands that remove files remove no directory and no link of a table that was
\* there before them, and no configuration file whose dictionaries were not all
\* created, whatever fails, is killed, or is created meanwhile.
THEOREM NeededFilesAreKept == Spec => []RemovedIsNotNeeded
<1>1. FilesInv => RemovedIsNotNeeded
  BY DEF FilesInv, TablesAreKept, DictionariesAreThere, NamesCreated, RemovedIsNotNeeded
<1>2. QED
  BY <1>1, InitFiles, NextFiles, TypeIsInvariant, PTL DEF Spec

-----------------------------------------------------------------------------
(* The tables: a step at a row *)

\* A table without a metadata file has nothing else.
Clean(x) == x.meta = NoUuid => [x EXCEPT !.attached = FALSE] = NoTable

\* MetadataIsRemovedLast, table by table.
LEMMA CleanTables == MetadataIsRemovedLast <=> \A t \in Tables : Clean(tables[t])
  BY DEF MetadataIsRemovedLast, Clean

\* A query that changes one table into a clean one.
LEMMA StaysClean ==
    ASSUME tables \in [Tables -> Table], MetadataIsRemovedLast, NEW t \in Tables, NEW new, Clean(new),
           tables' \in {tables, [tables EXCEPT ![t] = new]}
    PROVE  MetadataIsRemovedLast'
<1>1. \A q \in Tables : Clean(tables[q])
  BY CleanTables
<1>2. \A q \in Tables : Clean(tables'[q])
  BY <1>1
<1>3. QED
  BY <1>2 DEF MetadataIsRemovedLast, Clean

\* The new forms of a clean table.
LEMMA NewAreClean ==
    ASSUME tables \in [Tables -> Table], MetadataIsRemovedLast, NEW t \in Tables
    PROVE  /\ Clean(NoTable) /\ Clean(tables[t]) /\ Clean(Detached(t))
           /\ tables[t].meta # NoUuid => Clean(AttachedAgain(t))
           /\ \A u \in Uuids : Clean([tables[t] EXCEPT !.meta = u])
           /\ tables[t].meta # NoUuid => \A u : Clean([tables[t] EXCEPT !.dirs["local"] = u])
<1>1. tables[t] \in Table /\ Clean(tables[t]) /\ NoTable \in Table
  BY CleanTables DEF NoTable, Table
<1>2. Clean(NoTable)
  <2>1. NoTable.attached = FALSE
    BY DEF NoTable
  <2>2. [NoTable EXCEPT !.attached = FALSE] = NoTable
    BY <1>1, <2>1 DEF Table
  <2>3. QED
    BY <2>2 DEF Clean
<1>3. Clean(Detached(t))
  BY <1>1 DEF Clean, Detached, Table, NoTable
<1>4. tables[t].meta # NoUuid => Clean(AttachedAgain(t))
  BY <1>1 DEF Clean, AttachedAgain, Table
<1>5. \A u \in Uuids : Clean([tables[t] EXCEPT !.meta = u])
  BY <1>1, TablesAssumption DEF Clean, Table
<1>6. tables[t].meta # NoUuid => \A u : Clean([tables[t] EXCEPT !.dirs["local"] = u])
  BY <1>1 DEF Clean, Table
<1>7. QED
  BY <1>1, <1>2, <1>3, <1>4, <1>5, <1>6

\* A row of a command on tables is at work alone, and the first that fails is the last.
LEMMA RowIsAlone ==
    ASSUME TypeInv, OneRowAtATime, cmd.kind \in TableKinds, NEW r, RowNext(r)
    PROVE  /\ phase = "run" /\ failed = {} /\ DOMAIN at \subseteq {r}
           /\ Touched' \subseteq {r}
           /\ MayBegin(r) => DOMAIN at = {}
           /\ Fails(r) \/ (\E step : Begin(r, step) \/ GoTo(r, step)) => r \in Touched'
           /\ listed' = listed
<1>1. ~Pool /\ LoopInv
  BY DEF TypeInv, Pool, PoolKinds, TableKinds, LoopKinds, OneTableKinds
<1>2. phase = "run" /\ failed = {}
  BY DEF RowNext, MayBegin, Begin, OneRowAtATime
<1>3. MayBegin(r) => DOMAIN at = {}
  BY <1>1, BeginsAlone
<1>4. MayBegin(r) \/ r \in DOMAIN at
  BY DEF RowNext, Begin
<1>5. DOMAIN at \subseteq {r}
  BY <1>1, <1>3, <1>4 DEF LoopInv
<1>6. /\ listed' = listed
      /\ failed' \subseteq failed \cup {r} /\ DOMAIN at' \subseteq DOMAIN at \cup {r}
  BY DEF RowNext, Succeeds, Fails, Begin, GoTo, Leave, Restrict
<1>7. GoTo(r, at'[r]) => DOMAIN at' = DOMAIN at
  BY DEF GoTo
<1>8. Fails(r) \/ (\E step : Begin(r, step) \/ GoTo(r, step)) => r \in Touched'
  <2>1. CASE Fails(r)
    BY <2>1 DEF Fails, Touched
  <2>2. ASSUME NEW step, Begin(r, step) PROVE r \in Touched'
    BY <2>2 DEF Begin, Touched
  <2>3. ASSUME NEW step, GoTo(r, step) PROVE r \in Touched'
    <3>1. CASE r \in DOMAIN at
      BY <2>3, <3>1 DEF GoTo, Touched
    <3>2. CASE MayBegin(r)
      <4>1. r \notin DOMAIN at /\ done' = done /\ failed' = failed /\ DOMAIN at' = DOMAIN at
        BY <2>3, <3>2 DEF GoTo, MayBegin
      <4>2. r \notin done /\ r \notin failed
        BY <3>2 DEF MayBegin, Pending
      <4>3. FALSE
        <5>1. CASE Succeeds(r)
          BY <5>1, <4>1, <4>2 DEF Succeeds
        <5>2. CASE Fails(r)
          BY <5>2, <4>1, <4>2 DEF Fails
        <5>3. CASE \E any : Begin(r, any)
          BY <5>3, <4>1 DEF Begin
        <5>4. QED
          BY <4>1, <5>1, <5>2, <5>3 DEF RowNext
      <4>4. QED
        BY <4>3
    <3>3. QED
      BY <1>4, <3>1, <3>2
  <2>4. QED
    BY <2>1, <2>2, <2>3
<1>9. QED
  BY <1>2, <1>3, <1>5, <1>6, <1>8 DEF Touched

\* A step at a row keeps one row at work.
LEMMA RowKeepsOne ==
    ASSUME TypeInv, OneRowAtATime, cmd.kind \in TableKinds, NEW r, RowNext(r), cmd' = cmd
    PROVE  OneRowAtATime'
<1>1. ~Pool /\ AfterFailure = "error"
  <2>1. ~Pool
    BY DEF Pool, PoolKinds, TableKinds, LoopKinds, OneTableKinds
  <2>2. ~cmd.keepGoing
    BY TablesAssumption DEF TypeInv, LoopInv
  <2>3. QED
    BY <2>1, <2>2 DEF AfterFailure, KeepGoing
<1>2. failed = {} /\ Touched' \subseteq {r} /\ listed' = listed
  BY RowIsAlone
<1>3. phase' \in {"start", "run"} => failed' = {}
  BY <1>1, <1>2 DEF RowNext, Succeeds, Fails, Begin, GoTo
<1>4. QED
  BY <1>2, <1>3 DEF OneRowAtATime

\* What a step at a row has to show of its own table.
LEMMA RowKeepsOthers ==
    ASSUME TypeInv, TablesInv, NEW r \in listed, RowNext(r), cmd' = cmd,
           cmd.kind \in {"reattach_tables", "queue_delete", "recreate"},
           NEW new \in Table, tables' \in {tables, [tables EXCEPT ![r.name] = new]},
           cmd.dry => tables' = tables, Clean(new),
           new.attached => new.meta # NoUuid /\ ~new.flag,
           \/ r \in Touched' \/ cmd.dry
           \/ /\ tables' = [tables EXCEPT ![r.name] = new]
              /\ IF cmd.kind = "recreate" THEN new.meta # NoUuid ELSE new.attached
    PROVE  TablesInv'
<1>k. cmd.kind \in TableKinds /\ cmd.kind \notin {"change_uuid", "delete_detached_table"}
  BY DEF TableKinds, LoopKinds
<1>0. /\ tables \in [Tables -> Table] /\ r \in TableRow /\ r.name \in Tables
      /\ listed \subseteq TableRow
      /\ OneRowAtATime /\ MetadataIsRemovedLast /\ AttachedStay /\ OthersAreWhole
  BY <1>k DEF TypeInv, ServerTypeOK, TablesTypeOK, TablesInv, TableRow
<1>1. MetadataIsRemovedLast'
  BY <1>0, StaysClean
<1>2. OneRowAtATime'
  BY <1>0, <1>k, RowKeepsOne
<1>3. AttachedStay'
  BY <1>0 DEF AttachedStay
<1>4. Touched \subseteq {r} /\ Touched' \subseteq {r} /\ listed' = listed
  BY <1>0, <1>k, RowIsAlone DEF Touched
<1>5. ASSUME NEW q \in listed, cmd.dry \/ q \notin Touched' PROVE ~Broken(q)'
  <2>1. CASE q # r
    <3>1. q.name # r.name /\ q.name \in Tables
      BY <1>0, <1>k, <2>1 DEF OneRowAtATime, TableRow
    <3>2. tables'[q.name] = tables[q.name]
      BY <1>0, <3>1
    <3>3. ~Broken(q)
      BY <1>0, <1>4, <1>5, <2>1 DEF OthersAreWhole
    <3>4. QED
      BY <3>2, <3>3, <1>k DEF Broken, TableAt
  <2>2. CASE q = r /\ cmd.dry
    <3>1. ~Broken(r)
      BY <1>0, <2>2 DEF OthersAreWhole
    <3>2. QED
      BY <2>2, <3>1, <1>k DEF Broken, TableAt
  <2>3. CASE q = r /\ ~cmd.dry
    <3>1. /\ tables'[r.name] = new
          /\ IF cmd.kind = "recreate" THEN new.meta # NoUuid ELSE new.attached
      BY <1>0, <1>5, <2>3
    <3>2. QED
      BY <2>3, <3>1 DEF Broken, TableAt
  <2>4. QED
    BY <2>1, <2>2, <2>3
<1>6. OthersAreWhole'
  BY <1>4, <1>5, <1>k DEF OthersAreWhole
<1>7. QED
  BY <1>1, <1>2, <1>3, <1>6, <1>k DEF TablesInv, ChangeIsUnderWay, RemovalIsUnderWay

\* A command with one query at a row, of which nothing more is known than that it
\* leaves a clean table.
LEMMA SimpleRowKeeps ==
    ASSUME TypeInv, TablesInv, NEW r \in listed, RowNext(r), cmd' = cmd,
           cmd.kind \in TableKinds,
           cmd.kind \notin {"reattach_tables", "queue_delete", "recreate", "change_uuid",
                            "delete_detached_table"},
           NEW new, Clean(new), tables' \in {tables, [tables EXCEPT ![r.name] = new]}
    PROVE  TablesInv'
<1>1. tables \in [Tables -> Table] /\ r.name \in Tables /\ OneRowAtATime /\ MetadataIsRemovedLast
  BY DEF TypeInv, ServerTypeOK, TablesTypeOK, TablesInv, TableRow
<1>2. MetadataIsRemovedLast' /\ OneRowAtATime'
  BY <1>1, StaysClean, RowKeepsOne
<1>3. QED
  BY <1>2 DEF TablesInv, AttachedStay, OthersAreWhole, ChangeIsUnderWay, RemovalIsUnderWay

\* The tables that a query makes of the ones of the commands that attach or create.
LEMMA NewStay ==
    ASSUME TypeInv, TablesInv, NEW t \in Tables,
           cmd.kind \in {"reattach_tables", "queue_delete", "recreate"}
    PROVE  /\ \A x \in {NoTable, Detached(t)} :
                x \in Table /\ Clean(x) /\ (x.attached => x.meta # NoUuid /\ ~x.flag)
           /\ tables[t].meta # NoUuid =>
                LET x == AttachedAgain(t)
                IN  x \in Table /\ Clean(x) /\ x.attached /\ x.meta # NoUuid /\ ~x.flag
<1>1. tables \in [Tables -> Table] /\ MetadataIsRemovedLast
  BY DEF TypeInv, ServerTypeOK, TablesTypeOK, TablesInv
<1>2. /\ NoTable \in Table /\ Detached(t) \in Table /\ AttachedAgain(t) \in Table
      /\ Clean(NoTable) /\ Clean(Detached(t)) /\ (tables[t].meta # NoUuid => Clean(AttachedAgain(t)))
  BY <1>1, NewTables, NewAreClean
<1>3. ~NoTable.attached /\ ~Detached(t).attached
  BY <1>1 DEF NoTable, Detached, Table
<1>4. /\ AttachedAgain(t).attached /\ AttachedAgain(t).meta = tables[t].meta
      /\ ~AttachedAgain(t).flag
  BY <1>1 DEF AttachedAgain, Table
<1>5. QED
  BY <1>2, <1>3, <1>4

\* table recreate keeps the invariant of the tables.
LEMMA RecreateKeeps ==
    ASSUME TypeInv, TablesInv, NEW r \in listed, RowNext(r), cmd' = cmd, Recreate(r)
    PROVE  TablesInv'
<1>k. cmd.kind = "recreate" /\ cmd.kind \in TableKinds
  BY DEF Recreate, First, Step, TableKinds, LoopKinds
<1>0. tables \in [Tables -> Table] /\ r.name \in Tables /\ OneRowAtATime
  BY <1>k DEF TypeInv, ServerTypeOK, TablesTypeOK, TablesInv, TableRow
<1>1. CASE First(r, "recreate", TRUE, NoTable, Begin(r, [step |-> "create"]))
  <2>1. /\ tables' \in {tables, [tables EXCEPT ![r.name] = NoTable]}
        /\ cmd.dry => tables' = tables
        /\ Begin(r, [step |-> "create"]) \/ Fails(r)
    BY <1>1 DEF First, Do, Update
  <2>2. r \in Touched'
    BY <1>0, <1>k, <2>1, RowIsAlone
  <2>3. NoTable \in Table /\ Clean(NoTable) /\ (NoTable.attached => NoTable.meta # NoUuid /\ ~NoTable.flag)
    BY <1>0, <1>k, NewStay
  <2>4. QED
    BY <1>k, <2>1, <2>2, <2>3, RowKeepsOthers
<1>2. ASSUME NEW u \in Uuids,
             Step(r, "recreate", "create", TableAt(r).meta = NoUuid,
                    [attached |-> TRUE, meta |-> u, flag |-> FALSE, link |-> TRUE,
                     dirs |-> [d \in Disks |-> IF d = "local" THEN u ELSE NoUuid],
                     replica |-> Engine[r.name] = "replicated"], Succeeds(r))
      PROVE  TablesInv'
  <2> DEFINE new == [attached |-> TRUE, meta |-> u, flag |-> FALSE, link |-> TRUE,
                     dirs |-> [d \in Disks |-> IF d = "local" THEN u ELSE NoUuid],
                     replica |-> Engine[r.name] = "replicated"]
  <2>1. /\ tables' \in {tables, [tables EXCEPT ![r.name] = new]}
        /\ cmd.dry => tables' = tables
        /\ Fails(r) \/ cmd.dry \/ tables' = [tables EXCEPT ![r.name] = new]
    BY <1>2 DEF Step, Do, Update
  <2>2. Fails(r) => r \in Touched'
    BY <1>0, <1>k, RowIsAlone
  <2>3. (Engine[r.name] = "replicated") \in BOOLEAN
    OBVIOUS
  <2>4. new \in Table
    BY <1>0, <2>3, NewTables
  <2>5. new.meta # NoUuid /\ ~new.flag
    BY TablesAssumption
  <2> HIDE DEF new
  <2>6. Clean(new)
    BY <2>5 DEF Clean
  <2>7. QED
    BY <1>k, <2>1, <2>2, <2>4, <2>5, <2>6, RowKeepsOthers
<1>3. QED
  BY <1>1, <1>2 DEF Recreate

\* table reattach keeps the invariant of the tables.
LEMMA ReattachKeeps ==
    ASSUME TypeInv, TablesInv, NEW r \in listed, RowNext(r), cmd' = cmd, Reattach(r)
    PROVE  TablesInv'
<1>k. cmd.kind = "reattach_tables" /\ cmd.kind \in TableKinds
  BY DEF Reattach, First, Step, TableKinds, LoopKinds
<1>0. tables \in [Tables -> Table] /\ r.name \in Tables /\ OneRowAtATime
  BY <1>k DEF TypeInv, ServerTypeOK, TablesTypeOK, TablesInv, TableRow
<1>n. tables \in [Tables -> Table] /\ Detached(r.name) \in Table /\ Clean(Detached(r.name))
      /\ (Detached(r.name).attached => Detached(r.name).meta # NoUuid /\ ~Detached(r.name).flag)
  BY <1>0, <1>k, NewStay
<1>1. CASE First(r, "reattach_tables", TableAt(r).attached, Detached(r.name), Begin(r, [step |-> "attach"]))
  <2>1. /\ tables' \in {tables, [tables EXCEPT ![r.name] = Detached(r.name)]}
        /\ cmd.dry => tables' = tables
        /\ Begin(r, [step |-> "attach"]) \/ Fails(r)
    BY <1>1 DEF First, Do, Update
  <2>2. r \in Touched'
    BY <1>0, <1>k, <2>1, RowIsAlone
  <2>3. QED
    BY <1>k, <1>n, <2>1, <2>2, RowKeepsOthers
<1>2. CASE Step(r, "reattach_tables", "attach", CanAttach(r.name), AttachedAgain(r.name), Succeeds(r))
  <2>1. /\ \/ tables' = tables
           \/ CanAttach(r.name) /\ tables' = [tables EXCEPT ![r.name] = AttachedAgain(r.name)]
        /\ cmd.dry => tables' = tables
        /\ \/ Fails(r) \/ cmd.dry
           \/ CanAttach(r.name) /\ tables' = [tables EXCEPT ![r.name] = AttachedAgain(r.name)]
    BY <1>2 DEF Step, Do, Update
  <2>2. Fails(r) => r \in Touched'
    BY <1>0, <1>k, RowIsAlone
  <2>3. CASE CanAttach(r.name)
    <3>1. LET x == AttachedAgain(r.name)
          IN  x \in Table /\ Clean(x) /\ x.attached /\ x.meta # NoUuid /\ ~x.flag
      BY <1>0, <1>k, <2>3, NewStay DEF CanAttach
    <3>2. QED
      BY <1>k, <2>1, <2>2, <3>1, RowKeepsOthers
  <2>4. CASE ~CanAttach(r.name)
    BY <1>k, <1>n, <2>1, <2>2, <2>4, RowKeepsOthers
  <2>5. QED
    BY <2>3, <2>4
<1>3. QED
  BY <1>1, <1>2 DEF Reattach

\* table queue delete keeps the invariant of the tables.
LEMMA QueueDeleteKeeps ==
    ASSUME TypeInv, TablesInv, NEW r \in listed, RowNext(r), cmd' = cmd, QueueDelete(r)
    PROVE  TablesInv'
<1>k. cmd.kind = "queue_delete" /\ cmd.kind \in TableKinds
  BY DEF QueueDelete, First, Step, TableKinds, LoopKinds
<1>0. tables \in [Tables -> Table] /\ r.name \in Tables /\ OneRowAtATime
  BY <1>k DEF TypeInv, ServerTypeOK, TablesTypeOK, TablesInv, TableRow
<1>n. tables \in [Tables -> Table] /\ Detached(r.name) \in Table /\ Clean(Detached(r.name))
      /\ (Detached(r.name).attached => Detached(r.name).meta # NoUuid /\ ~Detached(r.name).flag)
  BY <1>0, <1>k, NewStay
<1>1. CASE First(r, "queue_delete", TableAt(r).attached, Detached(r.name),
                 Begin(r, [step |-> "tasks", left |-> r.tasks]))
  <2>1. /\ tables' \in {tables, [tables EXCEPT ![r.name] = Detached(r.name)]}
        /\ cmd.dry => tables' = tables
        /\ Begin(r, [step |-> "tasks", left |-> r.tasks]) \/ Fails(r)
    BY <1>1 DEF First, Do, Update
  <2>2. r \in Touched'
    BY <1>0, <1>k, <2>1, RowIsAlone
  <2>3. QED
    BY <1>k, <1>n, <2>1, <2>2, RowKeepsOthers
<1>2. ASSUME UNCHANGED tables, NEW step, GoTo(r, step) \/ Fails(r)
      PROVE  TablesInv'
  <2>1. r \in Touched'
    BY <1>0, <1>k, <1>2, RowIsAlone
  <2>2. QED
    BY <1>k, <1>n, <1>2, <2>1, RowKeepsOthers
<1>3. CASE Step(r, "queue_delete", "tasks", CanAttach(r.name), AttachedAgain(r.name), Succeeds(r))
  <2>1. /\ \/ tables' = tables
           \/ CanAttach(r.name) /\ tables' = [tables EXCEPT ![r.name] = AttachedAgain(r.name)]
        /\ cmd.dry => tables' = tables
        /\ \/ Fails(r) \/ cmd.dry
           \/ CanAttach(r.name) /\ tables' = [tables EXCEPT ![r.name] = AttachedAgain(r.name)]
    BY <1>3 DEF Step, Do, Update
  <2>2. Fails(r) => r \in Touched'
    BY <1>0, <1>k, RowIsAlone
  <2>3. CASE CanAttach(r.name)
    <3>1. LET x == AttachedAgain(r.name)
          IN  x \in Table /\ Clean(x) /\ x.attached /\ x.meta # NoUuid /\ ~x.flag
      BY <1>0, <1>k, <2>3, NewStay DEF CanAttach
    <3>2. QED
      BY <1>k, <2>1, <2>2, <3>1, RowKeepsOthers
  <2>4. CASE ~CanAttach(r.name)
    BY <1>k, <1>n, <2>1, <2>2, <2>4, RowKeepsOthers
  <2>5. QED
    BY <2>3, <2>4
<1>4. QED
  BY <1>1, <1>2, <1>3 DEF QueueDelete

\* The commands with one query at a row.
SimpleStep(r) ==
    \/ DeleteTable(r) \/ DetachTable(r) \/ AttachTable(r)
    \/ MaterializeTtl(r) \/ SetFlag(r) \/ CheckTable(r) \/ CheckDryRun(r)

\* Every command with one query per table keeps the invariant of the tables.
LEMMA SimpleStepKeeps ==
    ASSUME TypeInv, TablesInv, NEW r \in listed, RowNext(r), cmd' = cmd, SimpleStep(r)
    PROVE  TablesInv'
<1>k. /\ cmd.kind \in TableKinds
      /\ cmd.kind \notin {"reattach_tables", "queue_delete", "recreate", "change_uuid",
                          "delete_detached_table"}
  BY DEF SimpleStep, DeleteTable, DetachTable, AttachTable, MaterializeTtl, SetFlag, CheckTable,
         CheckDryRun, First, TableKinds, LoopKinds, OneTableKinds
<1>0. tables \in [Tables -> Table] /\ r.name \in Tables /\ MetadataIsRemovedLast
  BY <1>k DEF TypeInv, ServerTypeOK, TablesTypeOK, TablesInv, TableRow
<1>n. /\ Clean(NoTable) /\ Clean(TableAt(r)) /\ Clean(Detached(r.name))
      /\ tables[r.name].meta # NoUuid => Clean(AttachedAgain(r.name))
  BY <1>0, NewAreClean DEF TableAt
<1>1. CASE DeleteTable(r)
  <2>1. tables' \in {tables, [tables EXCEPT ![r.name] = NoTable]}
    BY <1>1 DEF DeleteTable, First, Do, Update
  <2>2. QED
    BY <1>k, <1>n, <2>1, SimpleRowKeeps
<1>2. CASE DetachTable(r)
  <2>1. tables' \in {tables, [tables EXCEPT ![r.name] = Detached(r.name)]}
    BY <1>2 DEF DetachTable, First, Do, Update
  <2>2. QED
    BY <1>k, <1>n, <2>1, SimpleRowKeeps
<1>3. CASE AttachTable(r)
  <2>1. \/ tables' = tables
        \/ CanAttach(r.name) /\ tables' = [tables EXCEPT ![r.name] = AttachedAgain(r.name)]
    BY <1>3 DEF AttachTable, First, Do, Update
  <2>2. CASE tables' = tables
    BY <1>k, <1>n, <2>2, SimpleRowKeeps
  <2>3. CASE CanAttach(r.name) /\ tables' = [tables EXCEPT ![r.name] = AttachedAgain(r.name)]
    <3>1. Clean(AttachedAgain(r.name))
      BY <1>n, <2>3 DEF CanAttach
    <3>2. QED
      BY <1>k, <2>3, <3>1, SimpleRowKeeps
  <2>4. QED
    BY <2>1, <2>2, <2>3
<1>4. CASE MaterializeTtl(r) \/ SetFlag(r) \/ CheckTable(r) \/ CheckDryRun(r)
  <2>1. tables' \in {tables, [tables EXCEPT ![r.name] = TableAt(r)]}
    BY <1>4 DEF MaterializeTtl, SetFlag, CheckTable, CheckDryRun, First, Do, Update, tableVars
  <2>2. QED
    BY <1>k, <1>n, <2>1, SimpleRowKeeps
<1>5. QED
  BY <1>1, <1>2, <1>3, <1>4 DEF SimpleStep

-----------------------------------------------------------------------------
(* The tables: change_uuid *)

\* What a step of change_uuid has to show: the other tables are left alone, and the
\* uuid of the row's own is that of its data, unless the row is still at work.
LEMMA ChangeKeepsOthers ==
    ASSUME TypeInv, TablesInv, NEW r \in listed, RowNext(r), cmd' = cmd,
           cmd.kind = "change_uuid",
           NEW new \in Table, tables' \in {tables, [tables EXCEPT ![r.name] = new]}, Clean(new),
           tables' = tables \/ (~IsTableEngine(r.name) => new.dirs["local"] = NoUuid),
           r \notin Touched' =>
                tables'[r.name].dirs["local"] \in {NoUuid, tables'[r.name].meta},
           \A q \in DOMAIN at' : at'[q].step = "move" =>
                q = r /\ IsTableEngine(r.name) /\ tables'[r.name].meta = at'[r].new
    PROVE  TablesInv'
<1>k. cmd.kind \in TableKinds
  BY DEF TableKinds, LoopKinds
<1>0. /\ tables \in [Tables -> Table] /\ r.name \in Tables
      /\ OneRowAtATime /\ MetadataIsRemovedLast /\ OthersAreWhole /\ ChangeIsUnderWay
  BY <1>k DEF TypeInv, ServerTypeOK, TablesTypeOK, TablesInv, TableRow
<1>1. MetadataIsRemovedLast' /\ OneRowAtATime'
  BY <1>0, <1>k, StaysClean, RowKeepsOne
<1>2. Touched \subseteq {r} /\ Touched' \subseteq {r}
  BY <1>0, <1>k, RowIsAlone DEF Touched
<1>3. ASSUME NEW t \in Tables, \A q \in Touched' : q.name # t
      PROVE  tables'[t].dirs["local"] \in {NoUuid, tables'[t].meta}
  <2>1. CASE t = r.name
    <3>1. r \notin Touched'
      BY <1>3, <2>1
    <3>2. QED
      BY <2>1, <3>1
  <2>2. CASE t # r.name
    <3>1. tables'[t] = tables[t]
      BY <1>0, <2>2
    <3>2. \A q \in Touched : q.name # t
      BY <1>2, <2>2
    <3>3. QED
      BY <1>0, <3>1, <3>2 DEF OthersAreWhole
  <2>3. QED
    BY <2>1, <2>2
<1>4. OthersAreWhole'
  BY <1>3 DEF OthersAreWhole
<1>5. ASSUME NEW t \in Tables, ~IsTableEngine(t)
      PROVE  tables'[t].dirs["local"] = NoUuid
  <2>1. tables[t].dirs["local"] = NoUuid
    BY <1>0, <1>5 DEF ChangeIsUnderWay
  <2>2. CASE tables' = tables
    BY <2>1, <2>2
  <2>3. CASE tables' # tables /\ t = r.name
    BY <1>0, <1>5, <2>3
  <2>4. CASE tables' # tables /\ t # r.name
    BY <1>0, <2>1, <2>4
  <2>5. QED
    BY <2>2, <2>3, <2>4
<1>6. ChangeIsUnderWay'
  BY <1>5 DEF ChangeIsUnderWay, IsTableEngine
<1>7. QED
  BY <1>1, <1>4, <1>6 DEF TablesInv, AttachedStay, RemovalIsUnderWay

\* A row at work alone is the only one that can be at work after its step.
LEMMA AloneAfter ==
    ASSUME TypeInv, OneRowAtATime, cmd.kind \in TableKinds, NEW r, RowNext(r)
    PROVE  /\ \A q \in DOMAIN at' : q = r
           /\ Succeeds(r) \/ Fails(r) => DOMAIN at' = {}
           /\ \A step : Begin(r, step) => r \in DOMAIN at' /\ at'[r] = step
           /\ \A step : r \in DOMAIN at /\ GoTo(r, step) => r \in DOMAIN at' /\ at'[r] = step
<1>1. Touched' \subseteq {r} /\ DOMAIN at \subseteq {r}
  BY RowIsAlone
<1>2. Succeeds(r) \/ Fails(r) => DOMAIN at' = {}
  BY <1>1 DEF Succeeds, Fails, Leave, Restrict
<1>3. \A step : Begin(r, step) => r \in DOMAIN at' /\ at'[r] = step
  BY DEF Begin
<1>4. \A step : r \in DOMAIN at /\ GoTo(r, step) => r \in DOMAIN at' /\ at'[r] = step
  BY DEF GoTo
<1>5. QED
  BY <1>1, <1>2, <1>3, <1>4 DEF Touched

\* The steps of change_uuid.
ChangeStep(r) == ReadUuid(r) \/ DetachToChange(r) \/ UpdateUuid(r) \/ MoveTableStore(r)

\* table change-uuid keeps the invariant of the tables, step by step.
LEMMA ChangeStepKeeps ==
    ASSUME TypeInv, TablesInv, NEW r \in listed, RowNext(r), cmd' = cmd, ChangeStep(r)
    PROVE  TablesInv'
<1>k. cmd.kind = "change_uuid" /\ cmd.kind \in TableKinds
  BY DEF ChangeStep, ReadUuid, DetachToChange, UpdateUuid, MoveTableStore, First, Step,
         TableKinds, LoopKinds
<1>d. ~cmd.dry
  BY <1>k, TablesAssumption DEF TypeInv, LoopInv, NoDryRun
<1>0. /\ tables \in [Tables -> Table] /\ r.name \in Tables /\ tables[r.name] \in Table
      /\ OneRowAtATime /\ MetadataIsRemovedLast /\ OthersAreWhole /\ ChangeIsUnderWay
      /\ \A q \in DOMAIN at : at[q] \in ChangeSteps
  BY <1>k DEF TypeInv, ServerTypeOK, TablesTypeOK, TablesInv, TableRow, StepTypes
<1>a. /\ \A q \in DOMAIN at' : q = r
      /\ Succeeds(r) \/ Fails(r) => DOMAIN at' = {}
      /\ \A step : Begin(r, step) => r \in DOMAIN at' /\ at'[r] = step
      /\ \A step : r \in DOMAIN at /\ GoTo(r, step) => r \in DOMAIN at' /\ at'[r] = step
  BY <1>0, <1>k, AloneAfter
<1>b. /\ MayBegin(r) => DOMAIN at = {} /\ failed = {}
      /\ Fails(r) \/ (\E step : Begin(r, step) \/ GoTo(r, step)) => r \in Touched'
  BY <1>0, <1>k, RowIsAlone
<1>c. /\ Clean(tables[r.name]) /\ Clean(Detached(r.name)) /\ Detached(r.name) \in Table
      /\ \A u \in Uuids : LET x == [tables[r.name] EXCEPT !.meta = u]
                          IN  Clean(x) /\ x \in Table
      /\ \A u \in Uuids : [tables[r.name] EXCEPT !.dirs["local"] = u] \in Table
      /\ tables[r.name].meta # NoUuid =>
            \A u : Clean([tables[r.name] EXCEPT !.dirs["local"] = u])
  BY <1>0, NewAreClean, NewTables
<1>e. ~IsTableEngine(r.name) => tables[r.name].dirs["local"] = NoUuid
  BY <1>0, <1>k DEF ChangeIsUnderWay
<1>1. CASE ReadUuid(r)
  <2>1. tables' = tables /\ MayBegin(r)
    BY <1>1 DEF ReadUuid, tableVars
  <2>2. \/ Succeeds(r) \/ Fails(r)
        \/ Begin(r, [step |-> IF Engine[r.name] = "view" THEN "file" ELSE "detach",
                     old |-> tables[r.name].meta, new |-> NewUuid(r.name)])
    BY <1>1 DEF ReadUuid
  <2>3. \A q \in DOMAIN at' : at'[q].step # "move"
    BY <1>a, <2>2
  <2>4. r \notin Touched' => tables'[r.name].dirs["local"] \in {NoUuid, tables'[r.name].meta}
    <3>1. Touched = {}
      BY <1>b, <2>1 DEF Touched
    <3>2. QED
      BY <1>0, <1>k, <2>1, <3>1 DEF OthersAreWhole
  <2>5. QED
    BY <1>0, <1>c, <1>k, <2>1, <2>3, <2>4, ChangeKeepsOthers
<1>2. CASE DetachToChange(r)
  <2>1. /\ tables' \in {tables, [tables EXCEPT ![r.name] = Detached(r.name)]}
        /\ r \in DOMAIN at
        /\ GoTo(r, [at[r] EXCEPT !.step = "file"]) \/ Fails(r)
    BY <1>2 DEF DetachToChange, Step, Do, Update, IsAt
  <2>2. [at[r] EXCEPT !.step = "file"].step = "file"
    BY <1>0, <2>1 DEF ChangeSteps
  <2>3. \A q \in DOMAIN at' : at'[q].step # "move"
    BY <1>a, <2>1, <2>2
  <2>4. r \in Touched'
    BY <1>b, <2>1
  <2>5. Detached(r.name).dirs = tables[r.name].dirs
    BY <1>0 DEF Detached, Table
  <2>6. QED
    BY <1>0, <1>c, <1>e, <1>k, <2>1, <2>3, <2>4, <2>5, ChangeKeepsOthers
<1>3. CASE UpdateUuid(r)
  <2> DEFINE new == [tables[r.name] EXCEPT !.meta = at[r].new]
  <2>1. /\ r \in DOMAIN at
        /\ \/ /\ tables' = [tables EXCEPT ![r.name] = new]
              /\ \/ IsTableEngine(r.name) /\ GoTo(r, [at[r] EXCEPT !.step = "move"])
                 \/ ~IsTableEngine(r.name) /\ Succeeds(r)
           \/ tables' \in {tables, [tables EXCEPT ![r.name] = new]} /\ Fails(r)
    BY <1>3, <1>d DEF UpdateUuid, Step, Do, Update, IsAt, TableAt
  <2>2. at[r].new \in Uuids
    BY <1>0, <2>1 DEF ChangeSteps
  <2>3. new \in Table /\ Clean(new)
    BY <1>c, <2>2
  <2>4. new.dirs = tables[r.name].dirs /\ new.meta = at[r].new
    BY <1>0 DEF Table
  <2>5. LET x == [at[r] EXCEPT !.step = "move"] IN x.new = at[r].new
    BY <1>0, <2>1 DEF ChangeSteps
  <2> HIDE DEF new
  <2>6. CASE /\ tables' = [tables EXCEPT ![r.name] = new]
             /\ IsTableEngine(r.name) /\ GoTo(r, [at[r] EXCEPT !.step = "move"])
    <3>1. r \in Touched' /\ at'[r].new = at[r].new /\ tables'[r.name] = new
      BY <1>0, <1>a, <1>b, <2>1, <2>5, <2>6
    <3>2. QED
      BY <1>0, <1>a, <1>k, <2>3, <2>4, <2>6, <3>1, ChangeKeepsOthers
  <2>7. CASE /\ tables' = [tables EXCEPT ![r.name] = new]
             /\ ~IsTableEngine(r.name) /\ Succeeds(r)
    <3>1. tables'[r.name] = new /\ DOMAIN at' = {} /\ new.dirs["local"] = NoUuid
      BY <1>0, <1>a, <1>e, <2>4, <2>7
    <3>2. QED
      BY <1>0, <1>a, <1>k, <2>3, <2>7, <3>1, ChangeKeepsOthers
  <2>8. CASE tables' \in {tables, [tables EXCEPT ![r.name] = new]} /\ Fails(r)
    <3>1. r \in Touched' /\ DOMAIN at' = {}
      BY <1>a, <1>b, <2>8
    <3>2. QED
      BY <1>0, <1>a, <1>e, <1>k, <2>3, <2>4, <2>8, <3>1, ChangeKeepsOthers
  <2>9. QED
    BY <2>1, <2>6, <2>7, <2>8
<1>4. CASE MoveTableStore(r)
  <2> DEFINE new == [tables[r.name] EXCEPT !.dirs["local"] = at[r].new]
  <2>1. /\ r \in DOMAIN at /\ at[r].step = "move"
        /\ \/ tables' = [tables EXCEPT ![r.name] = new] /\ Succeeds(r)
           \/ tables' \in {tables, [tables EXCEPT ![r.name] = new]} /\ Fails(r)
    BY <1>4, <1>d DEF MoveTableStore, Step, Do, Update, IsAt, TableAt
  <2>2. at[r].new \in Uuids /\ IsTableEngine(r.name) /\ tables[r.name].meta = at[r].new
    BY <1>0, <1>k, <2>1 DEF ChangeSteps, ChangeIsUnderWay
  <2>3. new \in Table /\ Clean(new)
    BY <1>c, <2>2, TablesAssumption
  <2>4. new.dirs["local"] = new.meta
    BY <1>0, <2>2, TablesAssumption DEF Table
  <2>5. DOMAIN at' = {} /\ (Fails(r) => r \in Touched')
    BY <1>a, <1>b, <2>1
  <2> HIDE DEF new
  <2>6. CASE tables' = [tables EXCEPT ![r.name] = new] /\ Succeeds(r)
    <3>1. tables'[r.name] = new
      BY <1>0, <2>6
    <3>2. QED
      BY <1>0, <1>k, <2>2, <2>3, <2>4, <2>5, <2>6, <3>1, ChangeKeepsOthers
  <2>7. CASE tables' \in {tables, [tables EXCEPT ![r.name] = new]} /\ Fails(r)
    BY <1>0, <1>k, <2>2, <2>3, <2>5, <2>7, ChangeKeepsOthers
  <2>8. QED
    BY <2>1, <2>6, <2>7
<1>5. QED
  BY <1>1, <1>2, <1>3, <1>4 DEF ChangeStep

-----------------------------------------------------------------------------
(* The tables: delete_detached_table *)

\* The directories of a table that is removed are named after its uuid, or gone.
DirsFollowMeta(t) == \A d \in Disks : tables[t].dirs[d] \in {NoUuid, tables[t].meta}

\* What is gone of table x when the removal is at step n with the disks left.
GoneOf(x, n, disks) ==
    /\ \A d \in Disks : n > 1 \/ d \notin disks => x.dirs[d] = NoUuid
    /\ n > 2 => ~x.replica
    /\ n > 3 => ~x.link
    /\ n > 4 => ~x.flag

\* The removal of a directory changes only directories, and that of the uuid.
LEMMA RemoveDirChanges ==
    ASSUME tables \in [Tables -> Table], NEW u, NEW d \in Disks, NEW t \in Tables
    PROVE  LET x == RemoveDir(u, d)[t]
           IN  /\ x \in Table
               /\ x.meta = tables[t].meta /\ x.replica = tables[t].replica
               /\ x.link = tables[t].link /\ x.flag = tables[t].flag
               /\ \A e \in Disks : x.dirs[e] = tables[t].dirs[e] \/ (e = d /\ x.dirs[e] = NoUuid)
               /\ tables[t].dirs[d] = u => x.dirs[d] = NoUuid
               /\ Clean(tables[t]) => Clean(x)
<1>1. tables[t] \in Table
  OBVIOUS
<1>2. RemoveDir(u, d)[t] = IF tables[t].dirs[d] = u THEN [tables[t] EXCEPT !.dirs[d] = NoUuid]
                           ELSE tables[t]
  BY DEF RemoveDir
<1>3. CASE tables[t].dirs[d] # u
  BY <1>1, <1>2, <1>3
<1>4. CASE tables[t].dirs[d] = u
  <2> DEFINE x == [tables[t] EXCEPT !.dirs[d] = NoUuid]
  <2>1. x \in Table
    BY <1>1 DEF Table
  <2>2. /\ x.meta = tables[t].meta /\ x.replica = tables[t].replica
        /\ x.link = tables[t].link /\ x.flag = tables[t].flag /\ x.attached = tables[t].attached
        /\ x.dirs = [tables[t].dirs EXCEPT ![d] = NoUuid]
    BY <1>1 DEF Table
  <2>3. \A e \in Disks : x.dirs[e] = IF e = d THEN NoUuid ELSE tables[t].dirs[e]
    BY <1>1, <2>2 DEF Table
  <2>4. Clean(tables[t]) => Clean(x)
    <3>1. SUFFICES ASSUME Clean(tables[t]), x.meta = NoUuid
                   PROVE  [x EXCEPT !.attached = FALSE] = NoTable
      BY DEF Clean
    <3>2. [tables[t] EXCEPT !.attached = FALSE] = NoTable
      BY <2>2, <3>1 DEF Clean
    <3>3. tables[t].dirs = NoTable.dirs
      BY <1>1, <3>2 DEF Table
    <3>4. x.dirs = tables[t].dirs
      BY <2>2, <3>3 DEF NoTable
    <3>5. x = tables[t]
      BY <1>1, <2>1, <2>2, <3>4 DEF Table
    <3>6. QED
      BY <3>2, <3>5
  <2>5. RemoveDir(u, d)[t] = x
    BY <1>2, <1>4
  <2> HIDE DEF x
  <2>6. QED
    BY <2>1, <2>2, <2>3, <2>4, <2>5
<1>5. QED
  BY <1>3, <1>4

\* The removal of what is not a directory, in the order of Removal.
LEMMA WithoutChanges ==
    ASSUME NEW x \in Table, NEW n \in 1..5, NEW disks \in SUBSET Disks, n > 1, GoneOf(x, n, disks)
    PROVE  LET y == Without(x, Removal[n])
           IN  /\ y \in Table
               /\ n < 5 => y.meta = x.meta /\ GoneOf(y, n + 1, disks)
               /\ \A d \in Disks : y.dirs[d] = NoUuid
               /\ n = 5 => [y EXCEPT !.attached = FALSE] = NoTable
               /\ Clean(x) => Clean(y)
<1> DEFINE y == Without(x, Removal[n])
<1>0. /\ \A d \in Disks : x.dirs[d] = NoUuid
      /\ n \in {2, 3, 4, 5}
  BY DEF GoneOf
<1>1. CASE n = 2
  <2>1. y = [x EXCEPT !.replica = FALSE]
    BY <1>1, RemovalHasFiveSteps DEF Without
  <2>2. /\ y \in Table /\ y.meta = x.meta /\ y.dirs = x.dirs /\ ~y.replica
        /\ y.link = x.link /\ y.flag = x.flag
    BY <2>1 DEF Table
  <2>3. Clean(x) => Clean(y)
    BY <2>1 DEF Clean, Table, NoTable
  <2>4. QED
    BY <1>0, <1>1, <2>2, <2>3 DEF GoneOf
<1>2. CASE n = 3
  <2>1. y = [x EXCEPT !.link = FALSE]
    BY <1>2, RemovalHasFiveSteps DEF Without
  <2>2. /\ y \in Table /\ y.meta = x.meta /\ y.dirs = x.dirs /\ ~y.link
        /\ y.replica = x.replica /\ y.flag = x.flag
    BY <2>1 DEF Table
  <2>3. Clean(x) => Clean(y)
    BY <2>1 DEF Clean, Table, NoTable
  <2>4. QED
    BY <1>0, <1>2, <2>2, <2>3 DEF GoneOf
<1>3. CASE n = 4
  <2>1. y = [x EXCEPT !.flag = FALSE]
    BY <1>3, RemovalHasFiveSteps DEF Without
  <2>2. /\ y \in Table /\ y.meta = x.meta /\ y.dirs = x.dirs /\ ~y.flag
        /\ y.replica = x.replica /\ y.link = x.link
    BY <2>1 DEF Table
  <2>3. Clean(x) => Clean(y)
    BY <2>1 DEF Clean, Table, NoTable
  <2>4. QED
    BY <1>0, <1>3, <2>2, <2>3 DEF GoneOf
<1>4. CASE n = 5
  <2>1. y = [x EXCEPT !.meta = NoUuid]
    BY <1>4, RemovalHasFiveSteps DEF Without
  <2>2. y \in Table /\ y.dirs = x.dirs
    BY <2>1 DEF Table
  <2>3. x.dirs = NoTable.dirs
    BY <1>0 DEF Table, NoTable
  <2> DEFINE z == [y EXCEPT !.attached = FALSE]
  <2>4. /\ ~x.replica /\ ~x.link /\ ~x.flag
        /\ y.meta = NoUuid /\ y.replica = x.replica /\ y.link = x.link /\ y.flag = x.flag
    BY <1>4, <2>1 DEF GoneOf, Table
  <2>5. z = NoTable
    <3>1. /\ z \in Table /\ ~z.attached /\ z.meta = y.meta /\ z.replica = y.replica
          /\ z.link = y.link /\ z.flag = y.flag /\ z.dirs = y.dirs
      BY <2>2 DEF Table
    <3>2. /\ NoTable \in Table /\ ~NoTable.attached /\ NoTable.meta = NoUuid /\ ~NoTable.replica
          /\ ~NoTable.link /\ ~NoTable.flag
      BY DEF NoTable, Table
    <3> HIDE DEF z, y
    <3>3. QED
      BY <2>2, <2>3, <2>4, <3>1, <3>2 DEF Table
  <2>6. QED
    BY <1>0, <1>4, <2>2, <2>5 DEF Clean
<1>5. QED
  BY <1>0, <1>1, <1>2, <1>3, <1>4

\* What a step of delete_detached_table has to show.
LEMMA RemovalKeeps ==
    ASSUME TypeInv, TablesInv, NEW r \in listed, RowNext(r), cmd' = cmd,
           cmd.kind = "delete_detached_table",
           \A t \in Tables : Clean(tables'[t]) /\ DirsFollowMeta(t)',
           \A q \in DOMAIN at' : /\ tables'[q.name].meta = at'[q].uuid
                                 /\ GoneOf(tables'[q.name], at'[q].n, at'[q].disks)
    PROVE  TablesInv'
<1>k. cmd.kind \in TableKinds
  BY DEF TableKinds, OneTableKinds
<1>1. OneRowAtATime'
  BY <1>k, RowKeepsOne DEF TablesInv
<1>2. MetadataIsRemovedLast'
  BY DEF MetadataIsRemovedLast, Clean
<1>3. RemovalIsUnderWay'
  BY DEF RemovalIsUnderWay, DirsFollowMeta, GoneOf
<1>4. QED
  BY <1>1, <1>2, <1>3 DEF TablesInv, AttachedStay, OthersAreWhole, ChangeIsUnderWay

\* The checks before a detached table is deleted keep the invariant of the tables.
LEMMA CheckDetachedKeeps ==
    ASSUME TypeInv, TablesInv, NEW r \in listed, RowNext(r), cmd' = cmd, CheckDetached(r)
    PROVE  TablesInv'
<1>k. cmd.kind = "delete_detached_table" /\ cmd.kind \in TableKinds
  BY DEF CheckDetached, First, TableKinds, OneTableKinds
<1>d. ~cmd.dry
  BY <1>k, TablesAssumption DEF TypeInv, LoopInv, NoDryRun
<1>0. /\ tables \in [Tables -> Table] /\ r.name \in Tables /\ tables[r.name] \in Table
      /\ OneRowAtATime /\ RemovalIsUnderWay
      /\ \A t \in Tables : Clean(tables[t])
  BY <1>k, CleanTables DEF TypeInv, ServerTypeOK, TablesTypeOK, TablesInv, TableRow
<1>a. /\ \A q \in DOMAIN at' : q = r
      /\ Succeeds(r) \/ Fails(r) => DOMAIN at' = {}
      /\ \A step : Begin(r, step) => r \in DOMAIN at' /\ at'[r] = step
  BY <1>0, <1>k, AloneAfter
<1>1. /\ tables' \in {tables, [tables EXCEPT ![r.name] = tables[r.name]]}
      /\ \/ Fails(r)
         \/ Begin(r, [step |-> "remove", n |-> 1, uuid |-> tables[r.name].meta, disks |-> Disks])
  BY <1>d DEF CheckDetached, First, Do, Update, TableAt
<1>2. tables' = tables
  BY <1>0, <1>1
<1>3. \A t \in Tables : Clean(tables'[t]) /\ DirsFollowMeta(t)'
  BY <1>0, <1>2, <1>k DEF RemovalIsUnderWay, DirsFollowMeta
<1>4. CASE Fails(r)
  BY <1>3, <1>4, <1>a, <1>k, RemovalKeeps
<1>5. CASE Begin(r, [step |-> "remove", n |-> 1, uuid |-> tables[r.name].meta, disks |-> Disks])
  <2>1. at'[r].n = 1 /\ at'[r].uuid = tables[r.name].meta /\ at'[r].disks = Disks
    BY <1>5, <1>a
  <2>2. GoneOf(tables'[r.name], 1, Disks)
    BY DEF GoneOf
  <2>3. QED
    BY <1>2, <1>3, <1>a, <1>k, <2>1, <2>2, RemovalKeeps
<1>6. QED
  BY <1>1, <1>4, <1>5

\* The removal of a directory from one of the disks that are left.
LEMMA RemoveDirGoes ==
    ASSUME tables \in [Tables -> Table], NEW t \in Tables, NEW u \in Uuids, NEW d \in Disks,
           NEW disks \in SUBSET Disks, d \in disks,
           \A q \in Tables : Clean(tables[q]) /\ DirsFollowMeta(q),
           tables[t].meta = u, GoneOf(tables[t], 1, disks)
    PROVE  /\ \A q \in Tables :
                /\ Clean(RemoveDir(u, d)[q])
                /\ \A e \in Disks : RemoveDir(u, d)[q].dirs[e] \in {NoUuid, RemoveDir(u, d)[q].meta}
           /\ RemoveDir(u, d)[t].meta = u
           /\ GoneOf(RemoveDir(u, d)[t], 1, disks \ {d})
           /\ ~(Cardinality(disks) > 1) => GoneOf(RemoveDir(u, d)[t], 2, disks \ {d})
<1> DEFINE new == RemoveDir(u, d)
<1>1. \A q \in Tables :
        /\ new[q].meta = tables[q].meta
        /\ \A e \in Disks : new[q].dirs[e] = tables[q].dirs[e] \/ (e = d /\ new[q].dirs[e] = NoUuid)
        /\ tables[q].dirs[d] = u => new[q].dirs[d] = NoUuid
        /\ Clean(tables[q]) => Clean(new[q])
  BY RemoveDirChanges
<1> HIDE DEF new
<1>2. \A q \in Tables : Clean(new[q]) /\ \A e \in Disks : new[q].dirs[e] \in {NoUuid, new[q].meta}
  BY <1>1 DEF DirsFollowMeta
<1>3. new[t].dirs[d] = NoUuid
  <2>1. tables[t].dirs[d] \in {NoUuid, u}
    BY DEF DirsFollowMeta
  <2>2. QED
    BY <1>1, <2>1
<1>4. \A e \in Disks : e \notin disks \ {d} => new[t].dirs[e] = NoUuid
  BY <1>1, <1>3 DEF GoneOf
<1>5. ~(Cardinality(disks) > 1) => disks \ {d} = {}
  <2>1. IsFiniteSet(disks) /\ IsFiniteSet(disks \ {d})
    BY TablesAssumption, FS_Subset
  <2>2. Cardinality(disks) = Cardinality(disks \ {d}) + 1 /\ Cardinality(disks \ {d}) \in Nat
    BY <2>1, FS_RemoveElement, FS_CardinalityType
  <2>3. ~(Cardinality(disks) > 1) => Cardinality(disks \ {d}) = 0
    BY <2>2
  <2>4. QED
    BY <2>1, <2>3, FS_EmptySet
<1>6. QED
  BY <1>1, <1>2, <1>4, <1>5 DEF GoneOf, new

\* Each directory that is removed with a detached table, and its metadata at the end.
LEMMA RemoveNextKeeps ==
    ASSUME TypeInv, TablesInv, NEW r \in listed, RowNext(r), cmd' = cmd, RemoveNext(r)
    PROVE  TablesInv'
<1> DEFINE here == at[r]
<1>k. cmd.kind = "delete_detached_table" /\ cmd.kind \in TableKinds
  BY DEF RemoveNext, TableKinds, OneTableKinds
<1>0. /\ tables \in [Tables -> Table] /\ r.name \in Tables /\ tables[r.name] \in Table
      /\ OneRowAtATime /\ RemovalIsUnderWay
      /\ r \in DOMAIN at /\ here \in RemoveSteps
  BY <1>k DEF TypeInv, ServerTypeOK, TablesTypeOK, TablesInv, TableRow, StepTypes, RemoveNext, IsAt
<1>t. here.n \in 1..5 /\ here.uuid \in Uuids /\ here.disks \in SUBSET Disks
  BY <1>0 DEF RemoveSteps
<1>c. \A t \in Tables : Clean(tables[t]) /\ DirsFollowMeta(t)
  BY <1>0, <1>k, CleanTables DEF TablesInv, RemovalIsUnderWay, DirsFollowMeta
<1>g. tables[r.name].meta = here.uuid /\ GoneOf(tables[r.name], here.n, here.disks)
  BY <1>0, <1>k DEF RemovalIsUnderWay, GoneOf
<1>a. /\ \A q \in DOMAIN at' : q = r
      /\ Succeeds(r) \/ Fails(r) => DOMAIN at' = {}
      /\ \A step : GoTo(r, step) => at'[r] = step
  BY <1>0, <1>k, AloneAfter
<1>f. ASSUME UNCHANGED tables, Fails(r) PROVE TablesInv'
  <2>1. \A t \in Tables : Clean(tables'[t]) /\ DirsFollowMeta(t)'
    BY <1>c, <1>f DEF DirsFollowMeta
  <2>2. QED
    BY <1>a, <1>f, <1>k, <2>1, RemovalKeeps
<1> DEFINE what == Removal[here.n]
           after(d) == IF what = "data" THEN RemoveDir(here.uuid, d)
                       ELSE [tables EXCEPT ![r.name] = Without(@, what)]
           then == IF what = "data" /\ Cardinality(here.disks) > 1 THEN here.n ELSE here.n + 1
<1>p. PICK d \in (IF what = "data" THEN here.disks ELSE {"local"}) :
          \/ /\ tables' = after(d)
             /\ IF here.n = Len(Removal) THEN Succeeds(r)
                ELSE GoTo(r, [here EXCEPT !.n = then, !.disks = @ \ {d}])
          \/ tables' \in {tables, after(d)} /\ Fails(r)
  BY DEF RemoveNext
<1>n. /\ here.n = 1 <=> what = "data"
      /\ here.n = Len(Removal) <=> here.n = 5
  BY <1>t, RemovalHasFiveSteps
<1>q. GoTo(r, [here EXCEPT !.n = then, !.disks = @ \ {d}]) =>
        at'[r].n = then /\ at'[r].uuid = here.uuid /\ at'[r].disks = here.disks \ {d}
  <2> HIDE DEF then
  <2>1. LET x == [here EXCEPT !.n = then, !.disks = @ \ {d}]
        IN  x.n = then /\ x.uuid = here.uuid /\ x.disks = here.disks \ {d}
    BY <1>0 DEF RemoveSteps
  <2>2. QED
    BY <1>a, <2>1
<1>1. CASE here.n = 1
  <2> DEFINE new == RemoveDir(here.uuid, d)
  <2>1. /\ d \in here.disks
        /\ tables' \in {tables, new}
        /\ Fails(r) \/ (tables' = new /\ GoTo(r, [here EXCEPT !.n = then, !.disks = @ \ {d}]))
    BY <1>1, <1>n, <1>p
  <2>2. /\ \A q \in Tables : Clean(new[q]) /\ \A e \in Disks : new[q].dirs[e] \in {NoUuid, new[q].meta}
        /\ new[r.name].meta = here.uuid
        /\ GoneOf(new[r.name], 1, here.disks \ {d})
        /\ ~(Cardinality(here.disks) > 1) => GoneOf(new[r.name], 2, here.disks \ {d})
    <3>1. d \in Disks /\ GoneOf(tables[r.name], 1, here.disks)
      BY <1>1, <1>t, <1>g, <2>1
    <3> HIDE DEF here
    <3>2. QED
      BY <1>0, <1>c, <1>g, <1>t, <2>1, <3>1, RemoveDirGoes
  <2>3. then = IF Cardinality(here.disks) > 1 THEN 1 ELSE 2
    BY <1>1, <1>n
  <2> HIDE DEF new, then
  <2>4. ASSUME tables' = new PROVE \A t \in Tables : Clean(tables'[t]) /\ DirsFollowMeta(t)'
    BY <2>2, <2>4 DEF DirsFollowMeta
  <2>5. CASE tables' = new /\ Fails(r)
    BY <1>a, <1>k, <2>4, <2>5, RemovalKeeps
  <2>6. CASE tables' = new /\ GoTo(r, [here EXCEPT !.n = then, !.disks = @ \ {d}])
    <3>1. GoneOf(tables'[r.name], at'[r].n, at'[r].disks) /\ tables'[r.name].meta = at'[r].uuid
      BY <1>q, <2>2, <2>3, <2>6
    <3>2. QED
      BY <1>a, <1>k, <2>4, <2>6, <3>1, RemovalKeeps
  <2>7. QED
    BY <1>f, <2>1, <2>5, <2>6
<1>2. CASE here.n > 1
  <2> DEFINE y == Without(tables[r.name], what)
             new == [tables EXCEPT ![r.name] = y]
  <2>1. /\ y \in Table
        /\ here.n < 5 => y.meta = tables[r.name].meta /\ GoneOf(y, here.n + 1, here.disks)
        /\ \A e \in Disks : y.dirs[e] = NoUuid
        /\ Clean(y)
    BY <1>0, <1>2, <1>c, <1>g, <1>t, WithoutChanges
  <2>2. /\ tables' \in {tables, new}
        /\ \/ Fails(r)
           \/ here.n = 5 /\ tables' = new /\ Succeeds(r)
           \/ here.n # 5 /\ tables' = new /\ GoTo(r, [here EXCEPT !.n = then, !.disks = @ \ {d}])
    BY <1>2, <1>n, <1>p
  <2>3. then = here.n + 1
    BY <1>2, <1>n
  <2> HIDE DEF y, then
  <2>4. /\ new[r.name] = y
        /\ \A t \in Tables : t # r.name => new[t] = tables[t]
    BY <1>0
  <2> HIDE DEF new
  <2>5. ASSUME tables' = new PROVE \A t \in Tables : Clean(tables'[t]) /\ DirsFollowMeta(t)'
    BY <1>c, <2>1, <2>4, <2>5 DEF DirsFollowMeta
  <2>6. CASE tables' = new /\ (Succeeds(r) \/ Fails(r))
    BY <1>a, <1>k, <2>5, <2>6, RemovalKeeps
  <2>7. CASE tables' = new /\ here.n # 5 /\ GoTo(r, [here EXCEPT !.n = then, !.disks = @ \ {d}])
    <3>1. at'[r].n = here.n + 1 /\ at'[r].uuid = here.uuid /\ here.n < 5
      BY <1>q, <1>t, <2>3, <2>7
    <3>2. GoneOf(y, here.n + 1, at'[r].disks)
      BY <1>t, <2>1, <3>1 DEF GoneOf
    <3>3. tables'[r.name] = y /\ y.meta = here.uuid
      BY <1>g, <2>1, <2>4, <2>7, <3>1
    <3>4. QED
      BY <1>a, <1>k, <2>5, <2>7, <3>1, <3>2, <3>3, RemovalKeeps
  <2>8. QED
    BY <1>f, <2>2, <2>6, <2>7
<1>3. QED
  BY <1>1, <1>2, <1>t

-----------------------------------------------------------------------------
(* The tables: the other steps *)

\* A step at a row, whatever the command on tables.
LEMMA TableStepKeeps ==
    ASSUME TypeInv, TablesInv, NEW r \in listed, TableStep(r), cmd' = cmd
    PROVE  TablesInv'
<1>1. RowNext(r)
  BY TableStepIsRowStep
<1>2. CASE SimpleStep(r)
  BY <1>1, <1>2, SimpleStepKeeps
<1>3. CASE Recreate(r)
  BY <1>1, <1>3, RecreateKeeps
<1>4. CASE Reattach(r)
  BY <1>1, <1>4, ReattachKeeps
<1>5. CASE QueueDelete(r)
  BY <1>1, <1>5, QueueDeleteKeeps
<1>6. CASE ChangeStep(r)
  BY <1>1, <1>6, ChangeStepKeeps
<1>7. CASE CheckDetached(r)
  BY <1>1, <1>7, CheckDetachedKeeps
<1>8. CASE RemoveNext(r)
  BY <1>1, <1>8, RemoveNextKeeps
<1>9. QED
  BY <1>2, <1>3, <1>4, <1>5, <1>6, <1>7, <1>8 DEF TableStep, SimpleStep, ChangeStep

\* The list of a command on tables has one row for each of them; the tables that are
\* detached or dropped for a while are attached when they are listed.
LEMMA TableRowsAreWhole ==
    ASSUME TypeInv, AttachedStay, NEW r \in TableRows, cmd.kind \in TableKinds
    PROVE  /\ \A q \in TableRows : q.name = r.name => q = r
           /\ cmd.kind \in {"reattach_tables", "queue_delete", "recreate"} => ~Broken(r)
<1>0. cmd.tables \subseteq Tables
  BY PartsAssumption DEF TypeInv, LoopInv
<1>1. CASE cmd.kind = "queue_delete"
  <2>1. ASSUME NEW q \in TableRows
        PROVE  \E t \in Attached \cap cmd.tables : q = Row(t, queue[t])
    BY <1>1, <2>1, SMTT(30) DEF TableRows, OneTableKinds
  <2>2. \A q \in TableRows : q = Row(q.name, queue[q.name]) /\ q.name \in Attached
    BY <2>1 DEF Row
  <2>3. QED
    BY <1>1, <2>2 DEF Broken, TableAt, Attached
<1>2. CASE cmd.kind # "queue_delete"
  <2>1. \A q \in TableRows : q = Row(q.name, {})
    BY <1>2 DEF TableRows, Row
  <2>2. ASSUME cmd.kind \in {"reattach_tables", "recreate"} PROVE ~Broken(r)
    <3>1. TableRows = {Row(t, {}) : t \in ListTables(Engines)}
      BY <2>2 DEF TableRows, OneTableKinds
    <3>2. r.name \in Tables /\ tables[r.name].attached
      BY <3>1 DEF Row, ListTables, Attached
    <3>3. tables[r.name].meta # NoUuid
      BY <2>2, <3>2 DEF AttachedStay
    <3>4. QED
      BY <2>2, <3>2, <3>3 DEF Broken, TableAt
  <2>3. QED
    BY <1>2, <2>1, <2>2
<1>3. QED
  BY <1>1, <1>2

\* The list of the tables has each of them once.
LEMMA ListTableRowsKeeps ==
    ASSUME TypeInv, TablesInv, ListTableRows, cmd' = cmd
    PROVE  TablesInv'
<1>1. /\ cmd.kind \in TableKinds /\ phase = "start" /\ listed' = TableRows
      /\ UNCHANGED <<at, done, failed, tables>>
  BY DEF ListTableRows, Listing, tableVars
<1>2. DOMAIN at = {} /\ failed = {}
  BY <1>1 DEF TypeInv, LoopInv
<1>3. Touched = {} /\ Touched' = {}
  BY <1>1, <1>2 DEF Touched
<1>4. /\ \A q, r \in TableRows : q.name = r.name => q = r
      /\ cmd.kind \in {"reattach_tables", "queue_delete", "recreate"} =>
            \A r \in TableRows : ~Broken(r)
  BY <1>1, TableRowsAreWhole DEF TablesInv
<1>5. OneRowAtATime'
  BY <1>1, <1>2, <1>3, <1>4 DEF OneRowAtATime
<1>6. \A r : Broken(r)' <=> Broken(r)
  BY <1>1 DEF Broken, TableAt
<1>7. OthersAreWhole'
  <2>1. OthersAreWhole
    BY DEF TablesInv
  <2>2. ASSUME cmd.kind = "change_uuid", NEW t \in Tables
        PROVE  tables'[t].dirs["local"] \in {NoUuid, tables'[t].meta}
    BY <1>1, <1>3, <2>1, <2>2 DEF OthersAreWhole
  <2>3. QED
    BY <1>1, <1>4, <1>6, <2>2 DEF OthersAreWhole
<1>8. (MetadataIsRemovedLast /\ AttachedStay /\ ChangeIsUnderWay /\ RemovalIsUnderWay)'
  BY <1>1, <1>2 DEF TablesInv, MetadataIsRemovedLast, AttachedStay, ChangeIsUnderWay,
     RemovalIsUnderWay
<1>9. QED
  BY <1>5, <1>7, <1>8 DEF TablesInv

\* What the invariant says of the tables stays true when neither the tables nor the
\* rows change, and the command does not begin anew.
LEMMA TablesInvStays ==
    ASSUME TablesInv, UNCHANGED <<cmd, listed, at, failed, tables>>,
           phase' \in {"start", "run"} => phase \in {"start", "run"}
    PROVE  TablesInv'
<1>1. \A r : Broken(r)' <=> Broken(r)
  BY DEF Broken, TableAt
<1>2. OthersAreWhole'
  BY <1>1 DEF TablesInv, OthersAreWhole, Touched
<1>3. (MetadataIsRemovedLast /\ AttachedStay /\ ChangeIsUnderWay /\ RemovalIsUnderWay)'
  BY DEF TablesInv, MetadataIsRemovedLast, AttachedStay, ChangeIsUnderWay, RemovalIsUnderWay
<1>4. OneRowAtATime'
  BY DEF TablesInv, OneRowAtATime, Touched
<1>5. QED
  BY <1>2, <1>3, <1>4 DEF TablesInv

\* A restart attaches the tables that have no flag.
LEMMA RestartKeeps ==
    ASSUME TypeInv, TablesInv, Restart
    PROVE  TablesInv'
<1>0. /\ tables \in [Tables -> Table]
      /\ cmd.kind \in TableKinds => listed \subseteq TableRow
      /\ UNCHANGED <<cmd, phase, listed, at, failed>>
  BY DEF TypeInv, ServerTypeOK, TablesTypeOK, Restart, loopVars
<1>1. ASSUME NEW t \in Tables
      PROVE  LET x == tables'[t]
             IN  /\ x.attached = (tables[t].meta # NoUuid /\ ~tables[t].flag)
                 /\ x.meta = tables[t].meta /\ x.flag = tables[t].flag /\ x.link = tables[t].link
                 /\ x.dirs = tables[t].dirs /\ x.replica = tables[t].replica
                 /\ Clean(tables[t]) => Clean(x)
  <2> DEFINE b == tables[t].meta # NoUuid /\ ~tables[t].flag
  <2>1. tables'[t] = [tables[t] EXCEPT !.attached = b]
    BY DEF Restart
  <2>2. tables[t] \in Table
    BY <1>0
  <2> HIDE DEF b
  <2>3. QED
    BY <2>1, <2>2 DEF Clean, Table, b
<1>2. MetadataIsRemovedLast'
  BY <1>1, CleanTables DEF TablesInv, MetadataIsRemovedLast, Clean
<1>3. OneRowAtATime' /\ Touched' = Touched
  BY <1>0 DEF TablesInv, OneRowAtATime, Touched
<1>4. AttachedStay'
  BY <1>0, <1>1 DEF AttachedStay
<1>5. ASSUME NEW r \in listed, ~Broken(r),
             cmd.kind \in {"reattach_tables", "queue_delete", "recreate"}
      PROVE  ~Broken(r)'
  <2>1. r.name \in Tables
    BY <1>0, <1>5 DEF TableRow, TableKinds, LoopKinds
  <2>2. CASE cmd.kind = "recreate"
    BY <1>0, <1>1, <1>5, <2>1, <2>2 DEF Broken, TableAt
  <2>3. CASE cmd.kind \in {"reattach_tables", "queue_delete"}
    <3>1. tables[r.name].attached
      BY <1>5, <2>3 DEF Broken, TableAt
    <3>2. tables[r.name].meta # NoUuid /\ ~tables[r.name].flag
      BY <1>5, <2>1, <3>1 DEF TablesInv, AttachedStay
    <3>3. tables'[r.name].attached
      BY <1>1, <2>1, <3>2
    <3>4. QED
      BY <1>0, <2>3, <3>3 DEF Broken, TableAt
  <2>4. QED
    BY <1>5, <2>2, <2>3
<1>6. OthersAreWhole'
  BY <1>0, <1>1, <1>3, <1>5 DEF TablesInv, OthersAreWhole
<1>7. ChangeIsUnderWay'
  <2>1. ASSUME cmd.kind = "change_uuid", NEW r \in DOMAIN at, at[r].step = "move"
        PROVE  IsTableEngine(r.name) /\ tables'[r.name].meta = at[r].new
    <3>1. r \in TableRow
      BY <1>0, <2>1 DEF TypeInv, LoopInv, Pending, TableKinds, LoopKinds
    <3>2. r.name \in Tables
      BY <3>1 DEF TableRow
    <3>3. QED
      BY <1>1, <2>1, <3>2 DEF TablesInv, ChangeIsUnderWay
  <2>2. ASSUME cmd.kind = "change_uuid", NEW t \in Tables, ~IsTableEngine(t)
        PROVE  tables'[t].dirs["local"] = NoUuid
    BY <1>1, <2>2 DEF TablesInv, ChangeIsUnderWay
  <2>3. QED
    BY <1>0, <2>1, <2>2 DEF ChangeIsUnderWay
<1>8. RemovalIsUnderWay'
  <2>1. ASSUME cmd.kind = "delete_detached_table", NEW r \in DOMAIN at
        PROVE  r.name \in Tables
    BY <1>0, <2>1 DEF TypeInv, LoopInv, Pending, TableKinds, OneTableKinds, TableRow
  <2>2. QED
    BY <1>0, <1>1, <2>1 DEF TablesInv, RemovalIsUnderWay
<1>9. QED
  BY <1>2, <1>3, <1>4, <1>6, <1>7, <1>8 DEF TablesInv

\* The commands on tables keep the invariant of the tables.
LEMMA TablesNextKeeps ==
    ASSUME TypeInv, TablesInv, TablesNext, cmd' = cmd
    PROVE  TablesInv'
<1>1. CASE ListTableRows
  BY <1>1, ListTableRowsKeeps
<1>2. CASE ListTableRowsFails \/ FinishTables \/ KillTables \/ ExecuteTask
  <2>1. /\ UNCHANGED <<cmd, listed, at, failed, tables>>
        /\ phase' \in {"start", "run"} => phase \in {"start", "run"}
    BY <1>2 DEF ListTableRowsFails, FinishTables, KillTables, ExecuteTask, ListingFails, Finish,
                Kill, tableVars, loopVars
  <2>2. QED
    BY <2>1, TablesInvStays
<1>3. CASE \E r \in listed : TableStep(r)
  BY <1>3, TableStepKeeps
<1>4. CASE Restart
  BY <1>4, RestartKeeps
<1>5. QED
  BY <1>1, <1>2, <1>3, <1>4 DEF TablesNext

\* The commands of the other modules say nothing of tables, but leave them clean.
LEMMA OthersKeepTables ==
    ASSUME cmd.kind \notin TableKinds, cmd' = cmd, MetadataIsRemovedLast'
    PROVE  TablesInv'
  BY DEF TablesInv, OneRowAtATime, AttachedStay, OthersAreWhole, ChangeIsUnderWay,
         RemovalIsUnderWay, TableKinds, LoopKinds, OneTableKinds

\* The directories and the links that are removed, and the tables that are created.
LEMMA FilesNextLeavesClean ==
    ASSUME TypeInv, MetadataIsRemovedLast, FilesNext
    PROVE  MetadataIsRemovedLast'
<1>0. tables \in [Tables -> Table] /\ \A t \in Tables : Clean(tables[t])
  BY CleanTables DEF TypeInv, ServerTypeOK, TablesTypeOK
<1>1. SUFFICES ASSUME NEW t \in Tables PROVE Clean(tables'[t])
  BY DEF MetadataIsRemovedLast, Clean
<1>u. ASSUME UNCHANGED tables PROVE Clean(tables'[t])
  BY <1>0, <1>u
<1>2. ASSUME NEW r \in listed, RemoveData(r) PROVE Clean(tables'[t])
  <2>1. tables'[t] = tables[t] \/ tables'[t] = [tables[t] EXCEPT !.dirs["local"] = NoUuid]
    BY <1>2 DEF RemoveData
  <2>2. RemoveDir(tables[t].dirs["local"], "local")[t] = [tables[t] EXCEPT !.dirs["local"] = NoUuid]
    BY DEF RemoveDir
  <2>3. Clean(RemoveDir(tables[t].dirs["local"], "local")[t])
    BY <1>0, RemoveDirChanges, TablesAssumption
  <2>4. QED
    BY <1>0, <2>1, <2>2, <2>3
<1>3. ASSUME NEW r \in listed, RemoveOrphanedObject(r) PROVE Clean(tables'[t])
  <2>1. tables'[t] = tables[t] \/ tables'[t] = [tables[t] EXCEPT !.link = FALSE]
    BY <1>3 DEF RemoveOrphanedObject
  <2>2. tables[t] \in Table /\ Clean(tables[t])
    BY <1>0
  <2>3. Clean([tables[t] EXCEPT !.link = FALSE])
    BY <2>2 DEF Clean, Table, NoTable
  <2>4. QED
    BY <2>1, <2>2, <2>3
<1>4. CASE CreateTable
  <2>1. PICK q \in Tables, u \in Uuids :
            tables' = [tables EXCEPT ![q] =
                [NoTable EXCEPT !.attached = TRUE, !.meta = u, !.link = TRUE, !.dirs["local"] = u]]
    BY <1>4 DEF CreateTable
  <2>2. CASE q # t
    BY <1>0, <2>1, <2>2
  <2>3. CASE q = t
    <3>1. tables'[t].meta = u
      BY <1>0, <2>1, <2>3 DEF NoTable
    <3>2. u # NoUuid
      BY TablesAssumption
    <3>3. QED
      BY <3>1, <3>2 DEF Clean
  <2>4. QED
    BY <2>2, <2>3
<1>5. CASE ListFiles \/ ListFilesFails \/ FinishFiles
  BY <1>5, <1>u DEF ListFiles, ListFilesFails, FinishFiles, tableVars
<1>6. ASSUME NEW r \in listed, ProcessPath(r) \/ GenerateDdl(r) \/ CreateDictionary(r) \/ Unlink(r)
      PROVE  Clean(tables'[t])
  BY <1>6, <1>u DEF ProcessPath, GenerateDdl, CreateDictionary, Unlink, tableVars
<1>7. QED
  BY <1>2, <1>3, <1>4, <1>5, <1>6 DEF FilesNext, FileStep

\* The tables before the command are as the assumption says.
LEMMA InitTablesInv == Init => TablesInv
<1> SUFFICES ASSUME Init PROVE TablesInv
  OBVIOUS
<1>1. DOMAIN at = {} /\ listed = {} /\ failed = {} /\ tables \in InitTables
  BY DEF Init, LoopInit, TablesInit
<1>2. /\ tables \in [Tables -> Table]
      /\ \A t \in Tables :
            /\ tables[t].meta = NoUuid => tables[t] = NoTable
            /\ \A d \in Disks : tables[t].dirs[d] \in {NoUuid, tables[t].meta}
            /\ ~IsTableEngine(t) => tables[t].dirs = NoTable.dirs
            /\ tables[t].flag => ~tables[t].attached
  BY <1>1, TablesAssumption DEF IsTableEngine
<1>3. ~NoTable.attached /\ [NoTable EXCEPT !.attached = FALSE] = NoTable
      /\ NoTable.dirs["local"] = NoUuid
  <2>1. NoTable \in Table /\ ~NoTable.attached
    BY DEF NoTable, Table
  <2>2. [NoTable EXCEPT !.attached = FALSE] = NoTable
    BY <2>1 DEF Table
  <2>3. NoTable.dirs["local"] = NoUuid
    BY TablesAssumption DEF NoTable
  <2>4. QED
    BY <2>1, <2>2, <2>3
<1>4. MetadataIsRemovedLast
  BY <1>2, <1>3 DEF MetadataIsRemovedLast
<1>5. OneRowAtATime
  BY <1>1 DEF OneRowAtATime, Touched
<1>6. AttachedStay
  BY <1>2, <1>3 DEF AttachedStay
<1>7. OthersAreWhole
  BY <1>1, <1>2, TablesAssumption DEF OthersAreWhole
<1>8. ChangeIsUnderWay /\ RemovalIsUnderWay
  BY <1>1, <1>2, <1>3 DEF ChangeIsUnderWay, RemovalIsUnderWay
<1>9. QED
  BY <1>4, <1>5, <1>6, <1>7, <1>8 DEF TablesInv

\* Every step keeps the invariant of the tables.
LEMMA NextTables == TypeInv /\ TablesInv /\ [Next]_vars => TablesInv'
<1> SUFFICES ASSUME TypeInv, TablesInv, [Next]_vars PROVE TablesInv'
  OBVIOUS
<1>1. cmd' = cmd
  BY NextIsLoopStep, CommandStays
<1>2. CASE UNCHANGED vars
  BY <1>2, TablesInvStays DEF vars, loopVars, tableVars
<1>3. CASE TablesNext
  BY <1>1, <1>3, TablesNextKeeps
<1>4. CASE FilesNext
  <2>1. cmd.kind \notin TableKinds
    BY <1>4, StepIsOfKind, KindsAreDisjoint
  <2>2. MetadataIsRemovedLast'
    BY <1>4, FilesNextLeavesClean DEF TablesInv
  <2>3. QED
    BY <1>1, <2>1, <2>2, OthersKeepTables
<1>5. CASE PartsNext /\ UNCHANGED tableVars
  <2>1. cmd.kind \notin TableKinds
    BY <1>5, StepIsOfKind, KindsAreDisjoint
  <2>2. MetadataIsRemovedLast'
    BY <1>5 DEF TablesInv, MetadataIsRemovedLast, tableVars
  <2>3. QED
    BY <1>1, <2>1, <2>2, OthersKeepTables
<1>6. CASE ReplicasNext
  <2>1. cmd.kind \notin TableKinds
    BY <1>6, StepIsOfKind, KindsAreDisjoint
  <2>2. UNCHANGED tables
    BY <1>6 DEF ReplicasNext, ListReplicaRows, FinishReplicas, ReplicaStep, RestartReplica,
                ListActiveParts, RestoreReplica, RestartOnly, IsFirstReplica, RestartToAttach,
                AttachParts, AttachedParts, DumpParts, Unchanged, tableVars
  <2>3. MetadataIsRemovedLast'
    BY <2>2 DEF TablesInv, MetadataIsRemovedLast
  <2>4. QED
    BY <1>1, <2>1, <2>3, OthersKeepTables
<1>7. QED
  BY <1>2, <1>3, <1>4, <1>5, <1>6 DEF Next

\* A table whose metadata file is gone has left nothing behind, wherever the removal
\* or another command fails or is killed, and whatever the server is restarted with.
THEOREM MetadataGoesLast == Spec => []MetadataIsRemovedLast
<1>1. TablesInv => MetadataIsRemovedLast
  BY DEF TablesInv
<1>2. QED
  BY <1>1, InitTablesInv, NextTables, TypeIsInvariant, PTL DEF Spec

\* However many tables a command is given, at most one of them is left detached, not
\* created again, or without its data, and the command was at it or failed with it.
THEOREM OneTableIsBroken == Spec => []OneTableAtATime
<1>1. TypeInv /\ TablesInv => OneTableAtATime
  <2> SUFFICES ASSUME TypeInv, TablesInv PROVE OneTableAtATime
    OBVIOUS
  <2>1. ASSUME NEW r \in listed, Broken(r) PROVE r \in Touched
    <3>1. cmd.kind \in {"reattach_tables", "queue_delete", "recreate", "change_uuid"}
      BY <2>1 DEF Broken
    <3>2. CASE cmd.kind # "change_uuid"
      BY <2>1, <3>1, <3>2 DEF TablesInv, OthersAreWhole
    <3>3. CASE cmd.kind = "change_uuid"
      <4>0. cmd.kind \in TableKinds
        BY <3>3 DEF TableKinds, LoopKinds
      <4>1. r.name \in Tables
        BY <4>0 DEF TypeInv, ServerTypeOK, TablesTypeOK, TableRow
      <4>2. tables[r.name].dirs["local"] \notin {NoUuid, tables[r.name].meta}
        BY <2>1, <3>3 DEF Broken, TableAt
      <4>3. PICK q \in Touched : q.name = r.name
        BY <3>3, <4>1, <4>2 DEF TablesInv, OthersAreWhole
      <4>4. q \in listed
        BY DEF Touched, TypeInv, LoopInv, Pending
      <4>5. QED
        BY <4>0, <4>3, <4>4 DEF TablesInv, OneRowAtATime
    <3>4. QED
      BY <3>2, <3>3
  <2>2. ASSUME NEW q \in listed, NEW r \in listed, Broken(q), Broken(r) PROVE q = r
    <3>1. cmd.kind \in TableKinds
      BY <2>2 DEF Broken, TableKinds, LoopKinds
    <3>2. QED
      BY <2>1, <2>2, <3>1 DEF TablesInv, OneRowAtATime
  <2> DEFINE broken == {r \in listed : Broken(r)}
  <2>3. \A q, r \in broken : q = r
    BY <2>2
  <2> HIDE DEF broken
  <2>4. Cardinality(broken) <= 1
    BY <2>3, AtMostOne
  <2>5. QED
    BY <2>1, <2>4 DEF OneTableAtATime, Touched, broken
<1>2. QED
  BY <1>1, InitTablesInv, NextTables, TypeIsInvariant, PTL DEF Spec

-----------------------------------------------------------------------------
(* The replicas *)

\* A step at a row leaves the other rows where they are.
LEMMA OtherRowsStay ==
    ASSUME NEW r, RowNext(r)
    PROVE  /\ \A q \in DOMAIN at' : q # r => q \in DOMAIN at /\ at'[q] = at[q]
           /\ done' \subseteq done \cup {r} /\ failed \subseteq failed'
           /\ done \cup Touched \cup {r} \subseteq done' \cup Touched'
           /\ listed' = listed
           /\ r \notin done' \/ Succeeds(r) \/ r \in done
<1>1. CASE Succeeds(r)
  BY <1>1 DEF Succeeds, Leave, Restrict, Touched
<1>2. CASE Fails(r)
  BY <1>2 DEF Fails, Leave, Restrict, Touched
<1>3. ASSUME NEW step, Begin(r, step) PROVE r \in DOMAIN at' /\ DOMAIN at' = DOMAIN at \cup {r}
                                            /\ \A q \in DOMAIN at : q # r => at'[q] = at[q]
  BY <1>3 DEF Begin
<1>4. ASSUME NEW step, r \in DOMAIN at, GoTo(r, step)
      PROVE  DOMAIN at' = DOMAIN at /\ \A q \in DOMAIN at : q # r => at'[q] = at[q]
  BY <1>4 DEF GoTo
<1>5. CASE \E step : Begin(r, step)
  BY <1>3, <1>5 DEF Begin, Touched
<1>6. CASE r \in DOMAIN at /\ \E step : GoTo(r, step)
  BY <1>4, <1>6 DEF GoTo, Touched
<1>7. QED
  BY <1>1, <1>2, <1>5, <1>6 DEF RowNext

\* What a step of a restore has to show of its own replica: it changes no parts of
\* other tables.
LEMMA RestoreKeepsOthers ==
    ASSUME TypeInv, ReplicasInv, NEW r \in listed, RowNext(r), cmd' = cmd, snapshot' = snapshot,
           cmd.kind = "restore_replicas", r \notin done,
           \A p \in Part : p.table # r.name => (p \in parts' <=> p \in parts),
           parts' \subseteq Part, refused \subseteq refused',
           \/ dump' = dump
           \/ r \in failed' /\ dump' = WereActive(r.name),
           r \in DOMAIN at' => UnderWay(r)',
           Succeeds(r) => WereActive(r.name) \subseteq parts' \cup refused'
    PROVE  ReplicasInv'
<1>0. /\ \A q \in DOMAIN at' : q # r => q \in DOMAIN at /\ at'[q] = at[q]
      /\ done' \subseteq done \cup {r} /\ failed \subseteq failed'
      /\ done \cup Touched \cup {r} \subseteq done' \cup Touched'
      /\ listed' = listed /\ (r \in done' => Succeeds(r))
  BY OtherRowsStay
<1>1. /\ parts \subseteq Part /\ snapshot \subseteq Part
      /\ \A q, s \in listed : q.name = s.name => q = s
      /\ OthersHaveTheirParts /\ RestoreIsUnderWay
      /\ done \subseteq listed /\ DOMAIN at \subseteq listed
  BY DEF TypeInv, ServerTypeOK, PartsTypeOK, LoopInv, Pending, ReplicasInv, ReplicaKinds
<1>2. \A t : /\ WereActive(t)' = WereActive(t)
             /\ \A p \in WereActive(t) : /\ p \in Part /\ p.table = t /\ p.state = "active"
                                         /\ OffOf(p) \in Part /\ OffOf(p).table = t
  BY <1>1 DEF WereActive, OffOf, Part
<1>3. DumpIsOfOneReplica'
  BY <1>0, <1>2 DEF ReplicasInv, DumpIsOfOneReplica
<1>4. ASSUME NEW t \in Tables, \A q \in done' \cup Touched' : q.name # t
      PROVE  ActiveOf(t)' = WereActive(t)
  <2>1. t # r.name /\ \A q \in done \cup Touched : q.name # t
    BY <1>0, <1>4
  <2>2. ActiveOf(t) = WereActive(t)
    BY <1>1, <2>1 DEF OthersHaveTheirParts
  <2>3. \A p : p \in ActiveOf(t)' <=> p \in ActiveOf(t)
    BY <1>1, <2>1 DEF ActiveOf
  <2>4. QED
    BY <2>2, <2>3
<1>5. OthersHaveTheirParts'
  BY <1>2, <1>4 DEF OthersHaveTheirParts
<1>6. ASSUME NEW q \in DOMAIN at', q # r PROVE UnderWay(q)'
  <2>1. q \in DOMAIN at /\ at'[q] = at[q] /\ q.name # r.name
    BY <1>0, <1>1, <1>6
  <2>2. \A p \in WereActive(q.name) : /\ p \in parts' <=> p \in parts
                                      /\ OffOf(p) \in parts' <=> OffOf(p) \in parts
    BY <1>2, <2>1
  <2>3. UnderWay(q)
    BY <1>1, <2>1 DEF RestoreIsUnderWay
  <2>4. WereActive(q.name)' = WereActive(q.name) /\ \A p : OffOf(p)' = OffOf(p)
    BY <1>2 DEF OffOf
  <2>5. QED
    BY <2>1, <2>2, <2>3, <2>4 DEF UnderWay
<1>7. RestoreIsUnderWay'
  BY <1>6 DEF RestoreIsUnderWay
<1>8. ASSUME NEW q \in done', NEW p \in snapshot, p.table = q.name, p.state = "active"
      PROVE  p \in parts' \/ p \in refused'
  <2>1. CASE q = r
    BY <1>0, <1>8, <2>1 DEF WereActive
  <2>2. CASE q # r
    <3>1. q \in done /\ q.name # r.name
      BY <1>0, <1>1, <2>2
    <3>2. p \in parts \/ p \in refused
      BY <1>8, <3>1 DEF ReplicasInv, RestoredHaveTheirParts
    <3>3. QED
      BY <1>1, <1>8, <3>1, <3>2
  <2>3. QED
    BY <2>1, <2>2
<1>9. RestoredHaveTheirParts'
  BY <1>8 DEF RestoredHaveTheirParts
<1>10. QED
  BY <1>0, <1>1, <1>3, <1>5, <1>7, <1>9 DEF ReplicasInv

\* A row at work stays at work, or leaves it.
LEMMA RowAtWork ==
    ASSUME NEW r
    PROVE  /\ Succeeds(r) \/ Fails(r) => r \notin DOMAIN at'
           /\ Fails(r) => r \in failed' /\ ~(r \notin done /\ Succeeds(r))
           /\ \A step : r \in DOMAIN at /\ GoTo(r, step) =>
                at'[r] = step /\ (r \notin done => ~Succeeds(r))
           /\ \A step : Begin(r, step) => at'[r] = step /\ ~Succeeds(r)
<1>1. Succeeds(r) \/ Fails(r) => r \notin DOMAIN at'
  BY DEF Succeeds, Fails, Leave, Restrict
<1>2. Fails(r) => r \in failed' /\ ~(r \notin done /\ Succeeds(r))
  BY DEF Succeeds, Fails
<1>3. \A step : r \in DOMAIN at /\ GoTo(r, step) => at'[r] = step /\ (r \notin done => ~Succeeds(r))
  BY DEF GoTo, Succeeds
<1>4. \A step : Begin(r, step) => at'[r] = step /\ ~Succeeds(r)
  BY DEF Begin, MayBegin, Pending, Succeeds
<1>5. QED
  BY <1>1, <1>2, <1>3, <1>4

\* The steps that change no part: those at a row that is at work with its parts.
LEMMA QuietStepKeeps ==
    ASSUME TypeInv, ReplicasInv, NEW r \in listed, RowNext(r), cmd' = cmd,
           cmd.kind = "restore_replicas", r \in DOMAIN at,
           UNCHANGED <<parts, snapshot, refused>>,
           \/ dump' = dump
           \/ r \in failed' /\ dump' = at[r].parts,
           \/ Fails(r)
           \/ /\ Succeeds(r)
              /\ at[r].step \in {"restore", "restart_only"} \/ at[r].left = {}
           \/ \E step \in RestoreNames :
                /\ GoTo(r, [at[r] EXCEPT !.step = step])
                /\ at[r].step \notin {"attach", "dump"}
                /\ step = "restart_only" => at[r].step = "restore"
                /\ step # "restore"
    PROVE  ReplicasInv'
<1>0. /\ UnderWay(r) /\ r \notin done /\ at[r] \in RestoreSteps
      /\ parts \subseteq Part /\ refused \subseteq Part
  BY DEF TypeInv, ServerTypeOK, PartsTypeOK, StepTypes, LoopInv, Pending, ReplicasInv,
     RestoreIsUnderWay
<1>1. WereActive(r.name)' = WereActive(r.name) /\ \A p : OffOf(p)' = OffOf(p)
  BY DEF WereActive, OffOf
<1>2. dump' = dump \/ (r \in failed' /\ dump' = WereActive(r.name))
  BY <1>0 DEF UnderWay
<1>3. CASE Fails(r)
  BY <1>0, <1>2, <1>3, RowAtWork, RestoreKeepsOthers
<1>4. CASE Succeeds(r) /\ (at[r].step \in {"restore", "restart_only"} \/ at[r].left = {})
  <2>1. WereActive(r.name) \subseteq parts' \cup refused'
    BY <1>0, <1>4 DEF UnderWay
  <2>2. QED
    BY <1>0, <1>2, <1>4, <2>1, RowAtWork, RestoreKeepsOthers
<1>5. ASSUME NEW step \in RestoreNames, GoTo(r, [at[r] EXCEPT !.step = step]),
             at[r].step \notin {"attach", "dump"}, step = "restart_only" => at[r].step = "restore",
             step # "restore"
      PROVE  ReplicasInv'
  <2>1. at'[r] = [at[r] EXCEPT !.step = step] /\ ~Succeeds(r)
    BY <1>0, <1>5, RowAtWork
  <2>2. at'[r].parts = at[r].parts /\ at'[r].left = at[r].left /\ at'[r].step = step
    BY <1>0, <2>1 DEF RestoreSteps
  <2>3. UnderWay(r)'
    BY <1>0, <1>1, <1>5, <2>2 DEF UnderWay
  <2>4. QED
    BY <1>0, <1>2, <2>1, <2>3, RestoreKeepsOthers
<1>6. QED
  BY <1>3, <1>4, <1>5

\* A restore begins with the parts that are active.
LEMMA ListActivePartsKeeps ==
    ASSUME TypeInv, ReplicasInv, NEW r \in listed, RowNext(r), cmd' = cmd, ListActiveParts(r),
           cmd.kind \in ReplicaKinds
    PROVE  ReplicasInv'
<1>k. cmd.kind = "restore_replicas"
  BY DEF ListActiveParts
<1>0. /\ MayBegin(r) /\ UNCHANGED <<parts, snapshot, refused, dump>>
      /\ r \notin done \cup Touched
      /\ parts \subseteq Part
      /\ \/ Fails(r)
         \/ Begin(r, [step |-> "restore", parts |-> ActiveOf(r.name), left |-> ActiveOf(r.name)])
  BY DEF ListActiveParts, Unchanged, partVars, Begin, MayBegin, Pending, Touched, TypeInv,
         ServerTypeOK, PartsTypeOK
<1>1. ActiveOf(r.name) = WereActive(r.name)
  <2>1. r.name \in Tables
    BY <1>k DEF TypeInv, FileTypes, ReplicaKinds, TableRow
  <2>2. done \cup Touched \subseteq listed
    BY DEF TypeInv, LoopInv, Pending, Touched
  <2>3. \A q \in done \cup Touched : q.name # r.name
    BY <1>0, <2>2 DEF ReplicasInv
  <2>4. QED
    BY <1>k, <2>1, <2>3 DEF ReplicasInv, OthersHaveTheirParts
<1>2. WereActive(r.name) \subseteq parts
  BY <1>1 DEF ActiveOf
<1>3. WereActive(r.name)' = WereActive(r.name) /\ \A p : OffOf(p)' = OffOf(p)
  BY <1>0 DEF WereActive, OffOf
<1>4. CASE Fails(r)
  BY <1>0, <1>4, <1>k, RowAtWork, RestoreKeepsOthers DEF Touched
<1>5. CASE Begin(r, [step |-> "restore", parts |-> ActiveOf(r.name), left |-> ActiveOf(r.name)])
  <2>1. /\ at'[r] = [step |-> "restore", parts |-> ActiveOf(r.name), left |-> ActiveOf(r.name)]
        /\ ~Succeeds(r)
    BY <1>5, RowAtWork
  <2>2. UnderWay(r)'
    BY <1>0, <1>1, <1>2, <1>3, <2>1 DEF UnderWay
  <2>3. QED
    BY <1>0, <1>k, <2>1, <2>2, RestoreKeepsOthers
<1>6. QED
  BY <1>0, <1>4, <1>5

\* SYSTEM RESTORE REPLICA leaves some of the active parts detached.
LEMMA RestoreReplicaKeeps ==
    ASSUME TypeInv, ReplicasInv, NEW r \in listed, RowNext(r), cmd' = cmd, RestoreReplica(r),
           cmd.kind = "restore_replicas"
    PROVE  ReplicasInv'
<1>0. /\ r \in DOMAIN at /\ at[r].step = "restore" /\ at[r] \in RestoreSteps
      /\ r \notin done /\ UnderWay(r)
      /\ UNCHANGED <<snapshot, dump, refused>>
      /\ parts \subseteq Part /\ refused \subseteq Part
  BY DEF RestoreReplica, IsAt, TypeInv, ServerTypeOK, PartsTypeOK, StepTypes, LoopInv, Pending,
         ReplicasInv, RestoreIsUnderWay
<1>1. CASE UNCHANGED parts /\ (Succeeds(r) \/ GoTo(r, [at[r] EXCEPT !.step = "restart_only"]))
  BY <1>0, <1>1, QuietStepKeeps DEF RestoreNames
<1>2. ASSUME NEW off \in SUBSET ActiveOf(r.name),
             parts' = (parts \ off) \cup {[p EXCEPT !.state = "detached"] : p \in off},
             \/ Fails(r)
             \/ \E step \in {"dump", "is_first"} : GoTo(r, [at[r] EXCEPT !.step = step])
      PROVE  ReplicasInv'
  <2>1. \A p \in off : p \in parts /\ p.table = r.name /\ p.state = "active" /\ p \in Part
    BY <1>0, <1>2 DEF ActiveOf
  <2>2. \A p \in off : [p EXCEPT !.state = "detached"] = OffOf(p) /\ OffOf(p) \in Part
                       /\ OffOf(p).table = r.name
    BY <2>1 DEF OffOf, Part
  <2>3. parts' \subseteq Part
    BY <1>0, <1>2, <2>2
  <2>4. \A p \in Part : p.table # r.name => (p \in parts' <=> p \in parts)
    BY <1>2, <2>1, <2>2
  <2>5. \A p \in WereActive(r.name) : p \in parts' \/ OffOf(p) \in parts'
    BY <1>0, <1>2, <2>2 DEF UnderWay
  <2>6. WereActive(r.name)' = WereActive(r.name) /\ \A p : OffOf(p)' = OffOf(p)
    BY <1>0 DEF WereActive, OffOf
  <2>7. CASE Fails(r)
    BY <1>0, <2>3, <2>4, <2>7, RowAtWork, RestoreKeepsOthers
  <2>8. ASSUME NEW step \in {"dump", "is_first"}, GoTo(r, [at[r] EXCEPT !.step = step])
        PROVE  ReplicasInv'
    <3>1. at'[r] = [at[r] EXCEPT !.step = step] /\ ~Succeeds(r)
      BY <1>0, <2>8, RowAtWork
    <3>2. at'[r].parts = at[r].parts /\ at'[r].left = at[r].left /\ at'[r].step = step
      BY <1>0, <3>1 DEF RestoreSteps
    <3>3. UnderWay(r)'
      BY <1>0, <2>5, <2>6, <3>2 DEF UnderWay
    <3>4. QED
      BY <1>0, <2>3, <2>4, <3>1, <3>3, RestoreKeepsOthers
  <2>9. QED
    BY <1>2, <2>7, <2>8
<1>3. \/ UNCHANGED parts /\ (Succeeds(r) \/ GoTo(r, [at[r] EXCEPT !.step = "restart_only"]))
      \/ /\ \E off \in SUBSET ActiveOf(r.name) :
                parts' = (parts \ off) \cup {[p EXCEPT !.state = "detached"] : p \in off}
         /\ \/ Fails(r)
            \/ \E step \in {"dump", "is_first"} : GoTo(r, [at[r] EXCEPT !.step = step])
  BY DEF RestoreReplica
<1>4. QED
  BY <1>1, <1>2, <1>3

\* A part is what its fields say.
LEMMA PartIsItsFields ==
    ASSUME NEW p \in Part, NEW q \in Part,
           p.table = q.table, p.partition = q.partition, p.rows = q.rows, p.disk = q.disk,
           p.state = q.state, p.reason = q.reason, p.try = q.try
    PROVE  p = q
<1>1. \A A, B, C, D, E, F, G :
        \A x, y \in [table : A, partition : B, rows : C, disk : D, state : E, reason : F, try : G] :
            /\ x.table = y.table /\ x.partition = y.partition /\ x.rows = y.rows
            /\ x.disk = y.disk /\ x.state = y.state /\ x.reason = y.reason /\ x.try = y.try
            => x = y
  OBVIOUS
<1>2. QED
  BY <1>1, Zenon DEF Part

\* The parts that are left detached are attached one by one, or refused.
LEMMA AttachPartsKeeps ==
    ASSUME TypeInv, ReplicasInv, NEW r \in listed, RowNext(r), cmd' = cmd, AttachParts(r),
           cmd.kind = "restore_replicas"
    PROVE  ReplicasInv'
<1>0. /\ r \in DOMAIN at /\ at[r].step = "attach" /\ at[r] \in RestoreSteps
      /\ r \notin done /\ UnderWay(r)
      /\ UNCHANGED <<snapshot, dump>>
      /\ parts \subseteq Part /\ refused \subseteq Part
  BY DEF AttachParts, IsAt, TypeInv, ServerTypeOK, PartsTypeOK, StepTypes, LoopInv, Pending,
         ReplicasInv, RestoreIsUnderWay
<1>1. /\ WereActive(r.name)' = WereActive(r.name) /\ \A p : OffOf(p)' = OffOf(p)
      /\ \A p \in WereActive(r.name) : p \in Part /\ p.table = r.name /\ p.state = "active"
  BY <1>0 DEF WereActive, OffOf, TypeInv, ServerTypeOK, PartsTypeOK
<1>2. \A p \in WereActive(r.name) :
        /\ OffOf(p) \in Part /\ OffOf(p).table = r.name /\ OffOf(p).state = "detached"
        /\ \A q \in WereActive(r.name) : OffOf(q) = OffOf(p) => q = p
  <2> DEFINE On(x) == [x EXCEPT !.state = "active"]
  <2>1. ASSUME NEW p \in Part, p.table = r.name, p.state = "active"
        PROVE  /\ OffOf(p) \in Part /\ OffOf(p).table = r.name
               /\ OffOf(p).state = "detached" /\ p = On(OffOf(p))
    <3> DEFINE off == OffOf(p)
               on == On(off)
    <3>1. off \in Part /\ off.table = r.name /\ off.state = "detached"
      BY <2>1 DEF OffOf, Part
    <3>2. /\ off.partition = p.partition /\ off.rows = p.rows /\ off.disk = p.disk
          /\ off.reason = p.reason /\ off.try = p.try /\ off.table = p.table
      BY <2>1 DEF OffOf, Part
    <3> HIDE DEF off
    <3>3. /\ on \in Part /\ on.state = p.state /\ on.table = p.table
          /\ on.partition = p.partition /\ on.rows = p.rows /\ on.disk = p.disk
          /\ on.reason = p.reason /\ on.try = p.try
      BY <2>1, <3>1, <3>2 DEF Part
    <3> HIDE DEF on, On
    <3>4. on = p
      BY <2>1, <3>3, PartIsItsFields
    <3>5. QED
      BY <3>1, <3>4 DEF off, on
  <2> HIDE DEF On
  <2>2. \A p \in WereActive(r.name) : /\ OffOf(p) \in Part /\ OffOf(p).table = r.name
                                      /\ OffOf(p).state = "detached" /\ p = On(OffOf(p))
    BY <1>1, <2>1
  <2>3. ASSUME NEW p \in WereActive(r.name), NEW q \in WereActive(r.name), OffOf(q) = OffOf(p)
        PROVE  q = p
    BY <2>2, <2>3
  <2>4. QED
    BY <2>2, <2>3
<1>3. PICK p \in at[r].left :
        \/ /\ OffOf(p) \in parts /\ parts' = (parts \ {OffOf(p)}) \cup {p}
           /\ GoTo(r, [at[r] EXCEPT !.left = @ \ {p}]) /\ UNCHANGED refused
        \/ OffOf(p) \notin parts /\ GoTo(r, [at[r] EXCEPT !.left = @ \ {p}])
           /\ UNCHANGED <<parts, refused>>
        \/ UNCHANGED parts /\ GoTo(r, [at[r] EXCEPT !.left = @ \ {p}]) /\ refused' = refused \cup {p}
        \/ UNCHANGED <<parts, refused>> /\ (GoTo(r, [at[r] EXCEPT !.step = "dump"]) \/ Fails(r))
  BY DEF AttachParts, Left, OffOf
<1>4. p \in WereActive(r.name)
  BY <1>0 DEF UnderWay, RestoreSteps
<1>5. LET x == [at[r] EXCEPT !.left = @ \ {p}]
      IN  x.parts = at[r].parts /\ x.left = at[r].left \ {p} /\ x.step = "attach"
  BY <1>0 DEF RestoreSteps
<1>6. ASSUME GoTo(r, [at[r] EXCEPT !.left = @ \ {p}])
      PROVE  /\ at'[r].parts = at[r].parts /\ at'[r].left = at[r].left \ {p}
             /\ at'[r].step = "attach" /\ ~Succeeds(r)
  BY <1>0, <1>5, <1>6, RowAtWork
<1>7. CASE /\ OffOf(p) \in parts /\ parts' = (parts \ {OffOf(p)}) \cup {p}
           /\ GoTo(r, [at[r] EXCEPT !.left = @ \ {p}]) /\ UNCHANGED refused
  <2>1. parts' \subseteq Part /\ \A q \in Part : q.table # r.name => (q \in parts' <=> q \in parts)
    BY <1>0, <1>1, <1>2, <1>4, <1>7
  <2>2. \A q \in WereActive(r.name) : /\ q \in parts => q \in parts'
                                      /\ OffOf(q) \in parts => OffOf(q) \in parts' \/ q = p
    BY <1>1, <1>2, <1>4, <1>7
  <2>3. UnderWay(r)'
    <3>1. \A q \in WereActive(r.name) : q \in parts' \/ OffOf(q) \in parts'
      BY <1>0, <1>7, <2>2 DEF UnderWay
    <3>2. WereActive(r.name) \ at'[r].left \subseteq parts' \cup refused'
      BY <1>0, <1>6, <1>7, <2>2 DEF UnderWay
    <3>3. QED
      BY <1>0, <1>1, <1>6, <1>7, <3>1, <3>2 DEF UnderWay
  <2>4. QED
    BY <1>0, <1>6, <1>7, <2>1, <2>3, RestoreKeepsOthers
<1>8. CASE /\ UNCHANGED parts /\ GoTo(r, [at[r] EXCEPT !.left = @ \ {p}])
           /\ \/ OffOf(p) \notin parts /\ UNCHANGED refused
              \/ refused' = refused \cup {p}
  <2>1. p \in parts' \cup refused'
    BY <1>0, <1>4, <1>8 DEF UnderWay
  <2>2. UnderWay(r)'
    BY <1>0, <1>1, <1>6, <1>8, <2>1 DEF UnderWay
  <2>3. QED
    BY <1>0, <1>6, <1>8, <2>2, RestoreKeepsOthers
<1>9. CASE UNCHANGED <<parts, refused>> /\ GoTo(r, [at[r] EXCEPT !.step = "dump"])
  <2>1. at'[r] = [at[r] EXCEPT !.step = "dump"] /\ ~Succeeds(r)
    BY <1>0, <1>9, RowAtWork
  <2>2. at'[r].parts = at[r].parts /\ at'[r].left = at[r].left /\ at'[r].step = "dump"
    BY <1>0, <2>1 DEF RestoreSteps
  <2>3. UnderWay(r)'
    BY <1>0, <1>1, <1>9, <2>2 DEF UnderWay
  <2>4. QED
    BY <1>0, <1>9, <2>1, <2>3, RestoreKeepsOthers
<1>10. CASE UNCHANGED <<parts, refused>> /\ Fails(r)
  BY <1>0, <1>10, RowAtWork, RestoreKeepsOthers
<1>11. QED
  BY <1>3, <1>7, <1>8, <1>9, <1>10

\* The rest of the steps of a restore change no part.
LEMMA QuietRestoreKeeps ==
    ASSUME TypeInv, ReplicasInv, NEW r \in listed, RowNext(r), cmd' = cmd,
           cmd.kind = "restore_replicas",
           RestartOnly(r) \/ IsFirstReplica(r) \/ RestartToAttach(r) \/ AttachedParts(r) \/ DumpParts(r)
    PROVE  ReplicasInv'
<1>1. r \in DOMAIN at
  BY DEF RestartOnly, IsFirstReplica, RestartToAttach, AttachedParts, DumpParts, IsAt
<1>2. UNCHANGED <<parts, snapshot, refused>>
  BY DEF RestartOnly, IsFirstReplica, RestartToAttach, AttachedParts, DumpParts, Unchanged, partVars
<1>3. CASE RestartOnly(r)
  <2>1. at[r].step = "restart_only" /\ dump' = dump /\ (Fails(r) \/ Succeeds(r))
    BY <1>3 DEF RestartOnly, IsAt
  <2>2. QED
    BY <1>1, <1>2, <2>1, QuietStepKeeps
<1>4. CASE IsFirstReplica(r)
  <2>1. /\ at[r].step = "is_first" /\ dump' = dump
        /\ Fails(r) \/ GoTo(r, [at[r] EXCEPT !.step = "restart"])
    BY <1>4 DEF IsFirstReplica, IsAt
  <2>2. QED
    BY <1>1, <1>2, <2>1, QuietStepKeeps DEF RestoreNames
<1>5. CASE RestartToAttach(r)
  <2>1. /\ at[r].step = "restart" /\ dump' = dump
        /\ \/ Fails(r) \/ GoTo(r, [at[r] EXCEPT !.step = "dump"])
           \/ GoTo(r, [at[r] EXCEPT !.step = "attach"])
    BY <1>5 DEF RestartToAttach, IsAt
  <2>2. QED
    BY <1>1, <1>2, <2>1, QuietStepKeeps DEF RestoreNames
<1>6. CASE AttachedParts(r)
  <2>1. at[r].left = {} /\ dump' = dump /\ Succeeds(r)
    BY <1>6 DEF AttachedParts
  <2>2. QED
    BY <1>1, <1>2, <2>1, QuietStepKeeps
<1>7. CASE DumpParts(r)
  BY <1>1, <1>2, <1>7, RowAtWork, QuietStepKeeps DEF DumpParts, Dumped
<1>8. QED
  BY <1>3, <1>4, <1>5, <1>6, <1>7

\* The invariant stays true when neither the parts nor the rows change.
LEMMA ReplicasInvStays ==
    ASSUME ReplicasInv, UNCHANGED <<cmd, at, done, failed, parts, snapshot, dump, refused>>,
           cmd.kind \in ReplicaKinds => \A q, r \in listed' : q.name = r.name => q = r
    PROVE  ReplicasInv'
<1>1. \A t : WereActive(t)' = WereActive(t) /\ ActiveOf(t)' = ActiveOf(t)
  BY DEF WereActive, ActiveOf
<1>2. \A r : UnderWay(r) => UnderWay(r)'
  BY <1>1 DEF UnderWay, OffOf
<1>3. DumpIsOfOneReplica'
  BY <1>1 DEF ReplicasInv, DumpIsOfOneReplica
<1>4. RestoredHaveTheirParts'
  BY DEF ReplicasInv, RestoredHaveTheirParts
<1>5. ASSUME cmd.kind = "restore_replicas" PROVE (OthersHaveTheirParts /\ RestoreIsUnderWay)'
  BY <1>1, <1>2, <1>5 DEF ReplicasInv, OthersHaveTheirParts, RestoreIsUnderWay, Touched
<1>6. QED
  BY <1>3, <1>4, <1>5 DEF ReplicasInv

\* The other commands write no file of parts.
LEMMA OthersKeepReplicas ==
    ASSUME ReplicasInv, cmd' = cmd, snapshot' = snapshot, dump' = dump, failed \subseteq failed',
           \/ cmd.kind \notin ReplicaKinds
           \/ cmd.kind = "restart_replicas" /\ listed' = listed
    PROVE  ReplicasInv'
<1>1. DumpIsOfOneReplica'
  BY DEF ReplicasInv, DumpIsOfOneReplica, WereActive
<1>2. QED
  BY <1>1 DEF ReplicasInv, RestoredHaveTheirParts, ReplicaKinds

\* The failures of a command are not forgotten.
LEMMA FailuresStay ==
    ASSUME TypeInv, [Next]_vars
    PROVE  cmd' = cmd /\ failed \subseteq failed'
<1>1. [LoopNext]_loopVars
  BY NextIsLoopStep
<1>2. failed \subseteq failed'
  <2>1. CASE UNCHANGED loopVars
    BY <2>1 DEF loopVars
  <2>2. CASE Listing(SUBSET Items) \/ ListingFails \/ Finish \/ Kill
    BY <2>2 DEF Listing, ListingFails, Finish, Kill
  <2>3. ASSUME NEW r \in listed, RowNext(r) PROVE failed \subseteq failed'
    BY <2>3, OtherRowsStay
  <2>4. QED
    BY <1>1, <2>1, <2>2, <2>3 DEF LoopNext
<1>3. QED
  BY <1>1, <1>2, CommandStays

\* The commands on replicas keep the invariant of the replicas.
LEMMA ReplicasNextKeeps ==
    ASSUME TypeInv, ReplicasInv, ReplicasNext, cmd' = cmd, failed \subseteq failed'
    PROVE  ReplicasInv'
<1>k. cmd.kind \in ReplicaKinds
  BY StepIsOfKind
<1>1. CASE ListReplicaRows
  <2>1. /\ listed' = {Row(t, {}) : t \in ListReplicas}
        /\ UNCHANGED <<at, done, failed, parts, snapshot, dump, refused>>
    BY <1>1 DEF ListReplicaRows, Listing, partVars, replicaVars
  <2>2. \A q, r \in listed' : q.name = r.name => q = r
    BY <2>1 DEF Row
  <2>3. QED
    BY <2>1, <2>2, ReplicasInvStays
<1>2. CASE FinishReplicas
  <2>1. UNCHANGED <<listed, at, done, failed, parts, snapshot, dump, refused>>
    BY <1>2 DEF FinishReplicas, Finish, Kill, partVars, replicaVars
  <2>2. QED
    BY <2>1, ReplicasInvStays DEF ReplicasInv
<1>3. ASSUME NEW r \in listed, ReplicaStep(r) PROVE ReplicasInv'
  <2>1. RowNext(r)
    BY <1>3, ReplicaStepIsRowStep
  <2>2. CASE RestartReplica(r)
    <3>1. cmd.kind = "restart_replicas" /\ snapshot' = snapshot /\ dump' = dump
      BY <2>2 DEF RestartReplica, Unchanged, partVars
    <3>2. listed' = listed
      BY <2>1, OtherRowsStay
    <3>3. QED
      BY <3>1, <3>2, OthersKeepReplicas
  <2>3. CASE ListActiveParts(r)
    BY <1>k, <2>1, <2>3, ListActivePartsKeeps
  <2>4. CASE ~RestartReplica(r) /\ ~ListActiveParts(r)
    <3>1. r \in DOMAIN at
      BY <1>3, <2>4 DEF ReplicaStep, RestoreReplica, RestartOnly, IsFirstReplica, RestartToAttach,
                        AttachParts, AttachedParts, DumpParts, IsAt
    <3>2. cmd.kind = "restore_replicas"
      BY <1>k, <3>1 DEF ReplicaKinds, TypeInv, StepTypes
    <3>3. QED
      BY <1>3, <2>1, <2>4, <3>2, RestoreReplicaKeeps, AttachPartsKeeps, QuietRestoreKeeps
         DEF ReplicaStep
  <2>5. QED
    BY <2>2, <2>3, <2>4
<1>4. QED
  BY <1>1, <1>2, <1>3 DEF ReplicasNext

\* No replica is at work before the command.
LEMMA InitReplicasInv == Init => ReplicasInv
<1> SUFFICES ASSUME Init PROVE ReplicasInv
  OBVIOUS
<1>1. dump = {} /\ DOMAIN at = {} /\ done = {} /\ listed = {} /\ snapshot = parts
  BY DEF Init, LoopInit, PartsInit, ReplicasInit
<1>2. QED
  BY <1>1 DEF ReplicasInv, DumpIsOfOneReplica, OthersHaveTheirParts, WereActive, ActiveOf,
              RestoreIsUnderWay, RestoredHaveTheirParts

\* The other modules leave the parts, and the file of a failed restore.
LEMMA OthersLeaveParts ==
    ASSUME TypeInv
    PROVE  /\ PartsNext => snapshot' = snapshot
           /\ TablesNext => UNCHANGED partVars
           /\ FilesNext => UNCHANGED partVars /\ dump' = dump
<1>1. ASSUME PartsNext PROVE snapshot' = snapshot
  <2>1. PartsTypeOK /\ cmd \in Commands
    BY DEF TypeInv, ServerTypeOK, LoopInv
  <2>2. ASSUME NEW r, PartsStep(r) PROVE snapshot' = snapshot
    BY <2>1, <2>2, PartsStepTypes
  <2>3. CASE ListRows \/ ListRowsFails \/ FinishParts \/ KillParts
    BY <2>3 DEF ListRows, ListRowsFails, FinishParts, KillParts, partVars
  <2>4. CASE Merge \/ RemoveOutdated \/ Insert
    BY <2>4 DEF Merge, RemoveOutdated, Insert, Background
  <2>5. QED
    BY <1>1, <2>2, <2>3, <2>4 DEF PartsNext, PartsStep
<1>2. ASSUME TablesNext PROVE UNCHANGED partVars
  <2>1. ASSUME NEW r \in listed, TableStep(r) PROVE UNCHANGED partVars
    BY <2>1, TableStepTypes DEF TableStepTypesOf
  <2>2. QED
    BY <1>2, <2>1 DEF TablesNext, ListTableRows, ListTableRowsFails, FinishTables, KillTables,
       Restart,
                     ExecuteTask
<1>3. ASSUME FilesNext PROVE UNCHANGED partVars /\ dump' = dump
  <2>1. ASSUME NEW r \in listed, FileStep(r), cmd.kind \in FileKinds
        PROVE  UNCHANGED partVars /\ dump' = dump
    BY <2>1, FileStepTypes DEF FileStepTypesOf, replicaVars
  <2>2. QED
    BY <1>3, <2>1 DEF FilesNext, ListFiles, ListFilesFails, FinishFiles, CreateTable, replicaVars
<1>4. QED
  BY <1>1, <1>2, <1>3

\* Every step keeps the invariant of the replicas.
LEMMA NextReplicas == TypeInv /\ ReplicasInv /\ [Next]_vars => ReplicasInv'
<1> SUFFICES ASSUME TypeInv, ReplicasInv, [Next]_vars PROVE ReplicasInv'
  OBVIOUS
<1>1. cmd' = cmd /\ failed \subseteq failed'
  BY FailuresStay
<1>2. CASE UNCHANGED vars
  <2>1. UNCHANGED <<cmd, listed, at, done, failed, parts, snapshot, dump, refused>>
    BY <1>2 DEF vars, loopVars, partVars, replicaVars
  <2>2. QED
    BY <2>1, ReplicasInvStays DEF ReplicasInv
<1>3. CASE ReplicasNext
  BY <1>1, <1>3, ReplicasNextKeeps
<1>4. CASE (PartsNext \/ TablesNext) /\ UNCHANGED replicaVars
  <2>1. cmd.kind \notin ReplicaKinds /\ snapshot' = snapshot /\ dump' = dump
    BY <1>4, StepIsOfKind, KindsAreDisjoint, OthersLeaveParts DEF replicaVars, partVars
  <2>2. QED
    BY <1>1, <2>1, OthersKeepReplicas
<1>5. CASE FilesNext
  <2>1. cmd.kind \notin ReplicaKinds /\ snapshot' = snapshot /\ dump' = dump
    BY <1>5, StepIsOfKind, KindsAreDisjoint, OthersLeaveParts DEF partVars
  <2>2. QED
    BY <1>1, <2>1, OthersKeepReplicas
<1>6. QED
  BY <1>2, <1>3, <1>4, <1>5 DEF Next

\* A replica that the restore says is restored has every part that it had before, or
\* the server refused the part when it was attached on its own.
THEOREM RestoredKeepTheirParts == Spec => []RestoredHaveTheirParts
<1>1. ReplicasInv => RestoredHaveTheirParts
  BY DEF ReplicasInv
<1>2. QED
  BY <1>1, InitReplicasInv, NextReplicas, TypeIsInvariant, PTL DEF Spec

\* The file that a failed restore leaves has all the parts of one failed replica that
\* are not attached, and no part of another table.
THEOREM DumpIsEnough == Spec => []DumpHasWhatIsDetached
<1>1. ReplicasInv => DumpHasWhatIsDetached
  BY DEF ReplicasInv, DumpIsOfOneReplica, WereActive, DumpHasWhatIsDetached
<1>2. QED
  BY <1>1, InitReplicasInv, NextReplicas, TypeIsInvariant, PTL DEF Spec

-----------------------------------------------------------------------------
(* The parts: what a query does to the rows *)

LiveOf(S) == {p \in S : p.state # "outdated"}
LiveRows(S) == RowsOf(LiveOf(S))
OwnRows(S) == \A p, q \in LiveOf(S) : p # q => p.rows \cap q.rows = {}
CleanName(p) == p.reason = "" /\ p.try = 0
CleanNames(S) == \A p \in S : p.state # "detached" => CleanName(p)

\* The parts T have the rows of S, each in one part.
KeepsRows(S, T) ==
    /\ OwnRows(T) /\ CleanNames(T)
    /\ LiveRows(T) = LiveRows(S) /\ RowsOf(T) \subseteq RowsOf(S)

\* A detached part of T is one of S, or can be attached, or has lost its prefix.
DetachedFrom(S, T) ==
    \A p \in T : p.state = "detached" =>
        \/ p \in S
        \/ CleanName(p)
        \/ \E o \in S : o.state = "detached" /\ o.rows = p.rows /\ ~CleanName(o)

\* A row of some parts is in one of them.
LEMMA InRows == \A S, r : r \in RowsOf(S) <=> \E p \in S : r \in p.rows
  BY DEF RowsOf

\* Nothing is done.
LEMMA NothingKeepsRows ==
    ASSUME NEW S, OwnRows(S), CleanNames(S)
    PROVE  KeepsRows(S, S) /\ DetachedFrom(S, S)
  BY DEF KeepsRows, DetachedFrom

\* Parts are replaced by parts that have their rows.
LEMMA ReplacedKeepRows ==
    ASSUME NEW S, OwnRows(S), CleanNames(S), NEW old, old \subseteq LiveOf(S), NEW new,
           OwnRows(new), CleanNames(new), LiveRows(new) = RowsOf(old), RowsOf(new) \subseteq RowsOf(old),
           NEW T, T = (S \ old) \cup new
    PROVE  KeepsRows(S, T)
<1>1. LiveOf(T) = (LiveOf(S) \ old) \cup LiveOf(new)
  BY DEF LiveOf
<1>2. OwnRows(T)
  <2>1. ASSUME NEW p \in LiveOf(S) \ old, NEW n \in LiveOf(new) PROVE p.rows \cap n.rows = {}
    <3>1. SUFFICES ASSUME NEW r, r \in p.rows, r \in n.rows PROVE FALSE
      OBVIOUS
    <3>2. PICK q \in old : r \in q.rows
      BY <3>1, InRows DEF LiveRows
    <3>3. QED
      BY <3>1, <3>2 DEF OwnRows
  <2>2. QED
    BY <1>1, <2>1 DEF OwnRows
<1>3. CleanNames(T)
  BY DEF CleanNames
<1>4. LiveRows(T) \subseteq LiveRows(S)
  <2>1. ASSUME NEW r \in LiveRows(T) PROVE r \in LiveRows(S)
    <3>1. PICK p \in LiveOf(T) : r \in p.rows
      BY <2>1, InRows DEF LiveRows
    <3>2. CASE p \in LiveOf(S)
      BY <3>1, <3>2, InRows DEF LiveRows
    <3>3. CASE p \in LiveOf(new)
      BY <3>1, <3>3, InRows DEF LiveRows
    <3>4. QED
      BY <1>1, <3>1, <3>2, <3>3
  <2>2. QED
    BY <2>1
<1>5. LiveRows(S) \subseteq LiveRows(T)
  <2>1. ASSUME NEW r \in LiveRows(S) PROVE r \in LiveRows(T)
    <3>1. PICK p \in LiveOf(S) : r \in p.rows
      BY <2>1, InRows DEF LiveRows
    <3>2. CASE p \in old
      <4>1. r \in LiveRows(new)
        BY <3>1, <3>2, InRows
      <4>2. QED
        BY <1>1, <4>1, InRows DEF LiveRows
    <3>3. CASE p \notin old
      BY <1>1, <3>1, <3>3, InRows DEF LiveRows
    <3>4. QED
      BY <3>2, <3>3
  <2>2. QED
    BY <2>1
<1>6. RowsOf(T) \subseteq RowsOf(S)
  <2>1. RowsOf(old) \subseteq RowsOf(S)
    BY InRows DEF LiveOf
  <2>2. ASSUME NEW r \in RowsOf(T) PROVE r \in RowsOf(S)
    <3>1. PICK p \in T : r \in p.rows
      BY <2>2, InRows
    <3>2. CASE p \in S
      BY <3>1, <3>2, InRows
    <3>3. CASE p \in new
      BY <2>1, <3>1, <3>3, InRows
    <3>4. QED
      BY <3>1, <3>2, <3>3
  <2>3. QED
    BY <2>2
<1>7. QED
  BY <1>2, <1>3, <1>4, <1>5, <1>6 DEF KeepsRows

\* A part is replaced.
LEMMA ReplacedKeepsRows ==
    ASSUME NEW S, OwnRows(S), CleanNames(S), NEW p \in LiveOf(S), NEW n,
           n.rows = p.rows, n.state # "outdated", n.state # "detached" => CleanName(n),
           NEW T, T = (S \ {p}) \cup {n}
    PROVE  KeepsRows(S, T)
<1> DEFINE new == {n}
<1>1. OwnRows(new) /\ CleanNames(new) /\ LiveOf(new) = new
  BY DEF OwnRows, CleanNames, LiveOf
<1>2. LiveRows(new) = RowsOf({p}) /\ RowsOf(new) = RowsOf({p})
  BY <1>1, InRows DEF LiveRows
<1>3. QED
  BY <1>1, <1>2, ReplacedKeepRows

\* Parts become active, or detached.
LEMMA NewStateKeepsRows ==
    ASSUME NEW S \in SUBSET Part, OwnRows(S), CleanNames(S), NEW old \in SUBSET LiveOf(S),
           NEW state \in {"active", "detached"}, \A p \in old : CleanName(p),
           NEW T, T = (S \ old) \cup {[p EXCEPT !.state = state] : p \in old}
    PROVE  KeepsRows(S, T) /\ DetachedFrom(S, T)
<1> DEFINE n(p) == [p EXCEPT !.state = state]
           new == {n(p) : p \in old}
<1>1. \A p \in old : n(p).rows = p.rows /\ n(p).state = state /\ CleanName(n(p))
  BY DEF LiveOf, Part, CleanName
<1>t. T = (S \ old) \cup new
  OBVIOUS
<1>n. \A m \in new : \E p \in old : m = n(p)
  OBVIOUS
<1>o. \A p \in old : n(p) \in new
  OBVIOUS
<1> HIDE DEF n, new
<1>2. LiveOf(new) = new /\ CleanNames(new)
  BY <1>1, <1>n DEF LiveOf, CleanNames
<1>3. OwnRows(new)
  BY <1>1, <1>2, <1>n DEF OwnRows
<1>4. RowsOf(new) = RowsOf(old)
  <2>1. \A r : (\E m \in new : r \in m.rows) <=> (\E p \in old : r \in p.rows)
    BY <1>1, <1>n, <1>o
  <2>2. \A r : r \in RowsOf(new) <=> r \in RowsOf(old)
    BY <2>1, InRows, Zenon
  <2>3. QED
    BY <2>2
<1>5. KeepsRows(S, T)
  BY <1>2, <1>3, <1>4, <1>t, ReplacedKeepRows DEF LiveRows
<1>6. DetachedFrom(S, T)
  BY <1>1, <1>n, <1>t DEF DetachedFrom
<1>7. QED
  BY <1>5, <1>6

\* Outdated parts go away.
LEMMA OutdatedKeepRows ==
    ASSUME NEW S, OwnRows(S), CleanNames(S), NEW T, T \subseteq S, LiveOf(S) \subseteq T
    PROVE  KeepsRows(S, T) /\ DetachedFrom(S, T)
<1>1. LiveOf(T) = LiveOf(S)
  BY DEF LiveOf
<1>2. QED
  BY <1>1 DEF KeepsRows, DetachedFrom, OwnRows, CleanNames, LiveRows, RowsOf

\* Two steps that keep the rows keep them.
LEMMA KeepsRowsTwice ==
    ASSUME NEW S, NEW T, NEW U, KeepsRows(S, T), KeepsRows(T, U)
    PROVE  KeepsRows(S, U)
  BY DEF KeepsRows


\* The parts T have the rows of S, and nothing is detached under a name that cannot be
\* attached.
Keeps(S, T) == KeepsRows(S, T) /\ DetachedFrom(S, T)

\* The queries about one part that keep its rows.
LEMMA PartQueriesKeepRows ==
    ASSUME PartsTypeOK, OwnRows(parts), CleanNames(parts), NEW p,
           NEW T, \/ T \in AttachPart(p) \cup DetachPart(p) \cup RemovePrefix(p)
                  \/ \E d \in Disks : T \in MovePart(p, d)
    PROVE  Keeps(parts, T)
<1>0. parts \in SUBSET Part
  BY DEF PartsTypeOK
<1>s. ASSUME p \in LiveOf(parts), CleanName(p), NEW state \in {"active", "detached"},
             T = (parts \ {p}) \cup {[p EXCEPT !.state = state]}
      PROVE  Keeps(parts, T)
  <2>1. {[x EXCEPT !.state = state] : x \in {p}} = {[p EXCEPT !.state = state]}
    OBVIOUS
  <2>2. {p} \in SUBSET LiveOf(parts) /\ \A x \in {p} : CleanName(x)
    BY <1>s
  <2>3. T = (parts \ {p}) \cup {[x EXCEPT !.state = state] : x \in {p}}
    BY <1>s, <2>1
  <2>4. QED
    BY <1>0, <1>s, <2>2, <2>3, NewStateKeepsRows DEF Keeps
<1>1. CASE T \in AttachPart(p)
  <2>1. p \in LiveOf(parts) /\ CleanName(p) /\ T = (parts \ {p}) \cup {[p EXCEPT !.state = "active"]}
    BY <1>1 DEF AttachPart, Become, LiveOf, CleanName
  <2>2. QED
    BY <1>s, <2>1
<1>2. CASE T \in DetachPart(p)
  <2>1. p \in LiveOf(parts) /\ CleanName(p) /\ T = (parts \ {p}) \cup {[p EXCEPT !.state = "detached"]}
    BY <1>2 DEF DetachPart, Become, LiveOf, CleanNames
  <2>2. QED
    BY <1>s, <2>1
<1>3. CASE T \in RemovePrefix(p)
  <2> DEFINE n == [p EXCEPT !.reason = ""]
  <2>1. /\ p \in parts /\ p \in Part /\ p.reason # ""
        /\ T = (parts \ {p}) \cup {n}
    BY <1>0, <1>3 DEF RemovePrefix, HasPrefix, Become
  <2>2. p.state = "detached" /\ ~CleanName(p) /\ p \in LiveOf(parts)
    BY <2>1 DEF CleanNames, CleanName, LiveOf
  <2>3. n.rows = p.rows /\ n.state = p.state
    BY <2>1 DEF Part
  <2> HIDE DEF n
  <2>4. KeepsRows(parts, T)
    BY <2>1, <2>2, <2>3, ReplacedKeepsRows
  <2>5. DetachedFrom(parts, T)
    BY <2>1, <2>2, <2>3 DEF DetachedFrom
  <2>6. QED
    BY <2>4, <2>5 DEF Keeps
<1>4. ASSUME NEW d \in Disks, T \in MovePart(p, d) PROVE Keeps(parts, T)
  <2> DEFINE n == [p EXCEPT !.disk = d]
  <2>1. \/ T = parts
        \/ /\ p \in parts /\ p \in Part /\ p.state = "active"
           /\ T = (parts \ {p}) \cup {n}
    BY <1>0, <1>4 DEF MovePart, Become
  <2>2. CASE T = parts
    BY <2>2, NothingKeepsRows DEF Keeps
  <2>3. CASE T # parts
    <3>1. p \in LiveOf(parts) /\ CleanName(p)
      BY <2>1, <2>3 DEF LiveOf, CleanNames
    <3>2. n.rows = p.rows /\ n.state = "active" /\ CleanName(n)
      BY <2>1, <2>3, <3>1 DEF Part, CleanName
    <3> HIDE DEF n
    <3>3. KeepsRows(parts, T)
      BY <2>1, <2>3, <3>1, <3>2, ReplacedKeepsRows
    <3>4. DetachedFrom(parts, T)
      BY <2>1, <2>3, <3>2 DEF DetachedFrom
    <3>5. QED
      BY <3>3, <3>4 DEF Keeps
  <2>4. QED
    BY <2>2, <2>3
<1>5. QED
  BY <1>1, <1>2, <1>3, <1>4

\* ATTACH PARTITION, also one that stops halfway, and DETACH PARTITION.
LEMMA AttachKeepsRows ==
    ASSUME PartsTypeOK, OwnRows(parts), CleanNames(parts), NEW q, NEW some \in SUBSET Attachable(q),
           NEW T, T \in AttachSome(some)
    PROVE  /\ Keeps(parts, T)
           /\ \A p \in T : p.state = "detached" => p \in parts \ some
<1>0. parts \in SUBSET Part
  BY DEF PartsTypeOK
<1>1. \A p \in some : p \in LiveOf(parts) /\ p \in Part /\ CleanName(p)
  BY <1>0 DEF Attachable, In, LiveOf, CleanName
<1>2. T = (parts \ some) \cup {[p EXCEPT !.state = "active"] : p \in some}
  BY DEF AttachSome, Become
<1>3. some \in SUBSET LiveOf(parts)
  BY <1>1
<1>4. Keeps(parts, T)
  BY <1>0, <1>1, <1>2, <1>3, NewStateKeepsRows DEF Keeps
<1>5. \A p \in some : [p EXCEPT !.state = "active"].state = "active"
  BY <1>1 DEF Part
<1>6. QED
  BY <1>2, <1>4, <1>5

\* ATTACH PARTITION is done when every part is attached.
LEMMA AttachPartitionIsAttachSome ==
    ASSUME NEW q PROVE AttachPartition(q) = AttachSome(Attachable(q))
  BY DEF AttachPartition, AttachSome

\* DETACH PARTITION drops the outdated parts, and detaches the active ones.
LEMMA DetachKeepsRows ==
    ASSUME PartsTypeOK, OwnRows(parts), CleanNames(parts), NEW q, NEW T, T \in DetachPartition(q)
    PROVE  /\ Keeps(parts, T)
           /\ \A p \in T : p.state = "detached" => p \in parts \/ PartitionOf(p) = q
<1> DEFINE act == In(q, "active")
           S == parts \ In(q, "outdated")
<1>0. parts \in SUBSET Part
  BY DEF PartsTypeOK
<1>1. LiveOf(parts) \subseteq S /\ S \subseteq parts /\ act \subseteq LiveOf(S)
  BY DEF LiveOf, In
<1>2. Keeps(parts, S)
  BY <1>1, OutdatedKeepRows DEF Keeps
<1>3. \A p \in act : p \in Part /\ CleanName(p) /\ p.state = "active" /\ PartitionOf(p) = q
  BY <1>0 DEF In, CleanNames
<1>4. T = (S \ act) \cup {[p EXCEPT !.state = "detached"] : p \in act}
  BY DEF DetachPartition, Become
<1> HIDE DEF act, S
<1>5. Keeps(S, T)
  <2>1. OwnRows(S) /\ CleanNames(S) /\ S \in SUBSET Part /\ act \in SUBSET LiveOf(S)
    BY <1>0, <1>1, <1>2 DEF Keeps, KeepsRows
  <2>2. QED
    BY <1>3, <1>4, <2>1, NewStateKeepsRows DEF Keeps
<1>6. Keeps(parts, T)
  <2>1. KeepsRows(parts, T)
    BY <1>2, <1>5, KeepsRowsTwice DEF Keeps
  <2>2. QED
    BY <1>1, <1>5, <2>1 DEF Keeps, DetachedFrom
<1>7. \A p \in act : PartitionOf([p EXCEPT !.state = "detached"]) = q
  BY <1>3 DEF PartitionOf, Part
<1>8. QED
  BY <1>1, <1>4, <1>6, <1>7


\* A merge: one part has the rows of those that it makes obsolete.
LEMMA OptimizeKeepsRows ==
    ASSUME PartsTypeOK, OwnRows(parts), CleanNames(parts), NEW q, NEW T, T \in OptimizePartition(q)
    PROVE  Keeps(parts, T) /\ \A p \in T : p.state = "detached" => p \in parts
<1> DEFINE act == In(q, "active")
           copies == {[p EXCEPT !.state = "outdated"] : p \in act}
<1>0. parts \in SUBSET Part
  BY DEF PartsTypeOK
<1>1. CASE T = parts
  BY <1>1, NothingKeepsRows DEF Keeps
<1>2. CASE T # parts
  <2>1. PICK l \in act : T = (parts \ act) \cup copies \cup {[l EXCEPT !.rows = RowsOf(act)]}
    BY <1>2 DEF OptimizePartition, RowsOf
  <2> DEFINE m == [l EXCEPT !.rows = RowsOf(act)]
             new == copies \cup {m}
  <2>2. \A p \in act : p \in Part /\ CleanName(p) /\ p.state = "active" /\ p \in LiveOf(parts)
    BY <1>0 DEF In, CleanNames, LiveOf
  <2>3. m.rows = RowsOf(act) /\ m.state = "active" /\ CleanName(m)
    BY <2>2 DEF Part, CleanName
  <2>4. \A c \in copies : \E p \in act : c.rows = p.rows /\ c.state = "outdated" /\ CleanName(c)
    BY <2>2 DEF Part, CleanName
  <2>t. T = (parts \ act) \cup new
    BY <2>1
  <2> HIDE DEF m, copies, act
  <2>5. LiveOf(new) = {m}
    BY <2>3, <2>4 DEF LiveOf
  <2>6. OwnRows(new) /\ CleanNames(new)
    BY <2>3, <2>4, <2>5 DEF OwnRows, CleanNames
  <2>7. LiveRows(new) = RowsOf(act)
    <3>1. \A r : r \in RowsOf(LiveOf(new)) <=> r \in m.rows
      BY <2>5, InRows
    <3>2. \A r : r \in LiveRows(new) <=> r \in RowsOf(act)
      BY <2>3, <3>1 DEF LiveRows
    <3>3. QED
      BY <3>2
  <2>8. RowsOf(new) \subseteq RowsOf(act)
    <3>1. ASSUME NEW r \in RowsOf(new) PROVE r \in RowsOf(act)
      <4>1. PICK n \in new : r \in n.rows
        BY <3>1, InRows
      <4>2. CASE n = m
        BY <2>3, <4>1, <4>2
      <4>3. CASE n \in copies
        BY <2>4, <4>1, <4>3, InRows
      <4>4. QED
        BY <4>1, <4>2, <4>3
    <3>2. QED
      BY <3>1
  <2>9. act \subseteq LiveOf(parts)
    BY <2>2
  <2> HIDE DEF new
  <2>10. KeepsRows(parts, T)
    BY <2>6, <2>7, <2>8, <2>9, <2>t, ReplacedKeepRows
  <2>11. \A p \in new : p.state # "detached"
    BY <2>3, <2>4 DEF new
  <2>12. \A p \in T : p.state = "detached" => p \in parts
    BY <2>11, <2>t
  <2>13. QED
    BY <2>10, <2>12 DEF Keeps, DetachedFrom
<1>3. QED
  BY <1>1, <1>2

\* The parts of a partition are moved to another table.
LEMMA MoveKeepsRows ==
    ASSUME PartsTypeOK, OwnRows(parts), CleanNames(parts), NEW q, NEW table \in Tables,
           NEW T, T \in MovePartition(q, table)
    PROVE  Keeps(parts, T)
<1> DEFINE act == In(q, "active")
           n(p) == [p EXCEPT !.table = table]
           new == {n(p) : p \in act}
<1>0. parts \in SUBSET Part
  BY DEF PartsTypeOK
<1>1. \A p \in act : p \in Part /\ CleanName(p) /\ p.state = "active" /\ p \in LiveOf(parts)
  BY <1>0 DEF In, CleanNames, LiveOf
<1>2. \A p \in act : n(p).rows = p.rows /\ n(p).state = "active" /\ CleanName(n(p))
  BY <1>1 DEF Part, CleanName
<1>t. T = (parts \ act) \cup new
  BY DEF MovePartition, Become
<1>n. (\A m \in new : \E p \in act : m = n(p)) /\ \A p \in act : n(p) \in new
  OBVIOUS
<1> HIDE DEF n, new, act
<1>3. LiveOf(new) = new /\ CleanNames(new)
  BY <1>2, <1>n DEF LiveOf, CleanNames
<1>4. OwnRows(new)
  BY <1>1, <1>2, <1>3, <1>n DEF OwnRows
<1>5. RowsOf(new) = RowsOf(act)
  <2>1. \A r : (\E m \in new : r \in m.rows) <=> (\E p \in act : r \in p.rows)
    BY <1>2, <1>n
  <2>2. \A r : r \in RowsOf(new) <=> r \in RowsOf(act)
    BY <2>1, InRows, Zenon
  <2>3. QED
    BY <2>2
<1>6. KeepsRows(parts, T)
  <2>1. act \subseteq LiveOf(parts)
    BY <1>1
  <2>2. QED
    BY <1>3, <1>4, <1>5, <1>t, <2>1, ReplacedKeepRows DEF LiveRows
<1>7. DetachedFrom(parts, T)
  BY <1>2, <1>n, <1>t DEF DetachedFrom
<1>8. QED
  BY <1>6, <1>7 DEF Keeps

-----------------------------------------------------------------------------
(* The parts: what a step keeps of the invariant *)

\* The rows in no live part were removed by a command that deletes.
LEMMA LostRows ==
    ASSUME RowsAreKept, cmd' = cmd, snapshot' = snapshot, listed \subseteq listed' \/ listed = {},
           touched \subseteq touched', touched' \subseteq touched \cup parts,
           OwnRows(parts'), RowsOf(parts') \subseteq RowsOf(parts) \cup LiveRows(parts'),
           \A r \in LiveRows(parts) \ LiveRows(parts') :
              /\ cmd.kind \in DeleteKinds /\ ~cmd.dry
              /\ \E x \in listed' :
                  IF cmd.kind \in PartKinds THEN r \in x.rows
                  ELSE \E p \in touched' : r \in p.rows /\ PartitionOf(p) = x
    PROVE  RowsAreKept'
<1>1. Live = LiveOf(parts) /\ Live' = LiveOf(parts')
  BY DEF Live, LiveOf
<1>2. \A p, q \in Live' : p # q => p.rows \cap q.rows = {}
  BY <1>1 DEF OwnRows
<1>3. ASSUME NEW r \in Lost'
      PROVE  /\ cmd.kind \in DeleteKinds /\ ~cmd.dry
             /\ \E x \in listed' :
                  IF cmd.kind \in PartKinds THEN r \in x.rows
                  ELSE \E p \in touched' : r \in p.rows /\ PartitionOf(p) = x
  <2>1. r \notin LiveRows(parts') /\ r \in RowsOf(snapshot' \cup parts' \cup touched')
    BY <1>1, <1>3 DEF Lost, LiveRows
  <2>2. r \in RowsOf(snapshot \cup parts \cup touched)
    <3>1. PICK p \in snapshot' \cup parts' \cup touched' : r \in p.rows
      BY <2>1, InRows
    <3>2. CASE p \in parts'
      <4>1. r \in RowsOf(parts)
        BY <2>1, <3>1, <3>2, InRows
      <4>2. QED
        BY <4>1, InRows
    <3>3. CASE p \notin parts'
      BY <3>1, <3>3, InRows
    <3>4. QED
      BY <3>2, <3>3
  <2>3. CASE r \in LiveRows(parts)
    BY <2>1, <2>3
  <2>4. CASE r \notin LiveRows(parts)
    <3>1. r \in Lost
      BY <1>1, <2>2, <2>4 DEF Lost, LiveRows
    <3>2. /\ cmd.kind \in DeleteKinds /\ ~cmd.dry
          /\ \E x \in listed :
                IF cmd.kind \in PartKinds THEN r \in x.rows
                ELSE \E p \in touched : r \in p.rows /\ PartitionOf(p) = x
      BY <3>1 DEF RowsAreKept
    <3>3. QED
      BY <3>2
  <2>5. QED
    BY <2>3, <2>4
<1>4. QED
  BY <1>2, <1>3 DEF RowsAreKept, PartitionOf

\* A step that keeps the rows and detaches nothing for good keeps the invariant, but
\* for what is reported.
LEMMA KeptRowsKeepInv ==
    ASSUME PartsInv, cmd' = cmd, snapshot' = snapshot, took' = took,
           listed' = listed \/ listed = {}, phase' = "start" => listed' = {},
           touched \subseteq touched', touched' \subseteq touched \cup parts,
           Keeps(parts, parts'), LeftDetachedIsReported'
    PROVE  PartsInv'
<1>1. RowsAreKept'
  <2>1. /\ OwnRows(parts') /\ RowsOf(parts') \subseteq RowsOf(parts)
        /\ LiveRows(parts') = LiveRows(parts) /\ RowsAreKept
    BY DEF Keeps, KeepsRows, PartsInv
  <2>2. QED
    BY <2>1, LostRows
<1>2. NamesAreClean'
  BY DEF Keeps, KeepsRows, CleanNames, CleanName, NamesAreClean
<1>3. TookCanBeAttached'
  BY DEF PartsInv, TookCanBeAttached, Keeps, DetachedFrom, CleanName
<1>4. QED
  BY <1>1, <1>2, <1>3 DEF PartsInv

\* The parts have their own rows, and clean names.
LEMMA PartsAreWellFormed ==
    ASSUME TypeInv, PartsInv
    PROVE  PartsTypeOK /\ OwnRows(parts) /\ CleanNames(parts)
  BY DEF TypeInv, ServerTypeOK, PartsInv, RowsAreKept, OwnRows, Live, LiveOf, NamesAreClean,
         CleanNames, CleanName


-----------------------------------------------------------------------------
(* The parts: one query per row *)

\* A row is ended only by Finish.
LEMMA RowStepsGoOn ==
    ASSUME NEW r, RowNext(r), phase = "run"
    PROVE  phase' \notin {"start", "ok"} /\ listed' = listed
  BY DEF RowNext, Succeeds, Fails, AfterFailure, Begin, GoTo

\* What a query does.
LEMMA RowQueryDoes ==
    ASSUME NEW kind, NEW r, NEW effects, RowQuery(kind, r, effects)
    PROVE  /\ cmd.kind = kind
           /\ UNCHANGED <<snapshot, reported, took>>
           /\ parts' = parts \/ (parts' \in effects /\ ~cmd.dry)
           /\ touched' = touched \cup (parts \ parts')
           /\ listed' = listed /\ phase' \notin {"start", "ok"}
<1>1. RowNext(r) /\ phase = "run"
  BY RowQueryIsRowStep DEF MayBegin
<1>2. \/ Change(Query(effects))
      \/ Change({parts})
      \/ ~cmd.dry /\ Change({parts} \cup effects)
  BY DEF RowQuery
<1>3. /\ parts' = parts \/ (parts' \in effects /\ ~cmd.dry)
      /\ touched' = touched \cup (parts \ parts')
  BY <1>2 DEF Change, Query
<1>4. phase' \notin {"start", "ok"} /\ listed' = listed
  BY <1>1, RowStepsGoOn
<1>5. QED
  BY <1>3, <1>4 DEF RowQuery

\* A query that keeps the rows.
LEMMA RowQueryKeeps ==
    ASSUME TypeInv, PartsInv, cmd' = cmd, NEW kind, NEW r, NEW effects, RowQuery(kind, r, effects),
           kind \notin {"reattach_partitions", "detect_broken"},
           \A T \in effects : Keeps(parts, T)
    PROVE  PartsInv'
<1>1. /\ cmd.kind = kind
      /\ UNCHANGED <<snapshot, took, listed>>
      /\ parts' = parts \/ parts' \in effects
      /\ touched' = touched \cup (parts \ parts')
      /\ phase' # "start"
  BY RowQueryDoes
<1>2. Keeps(parts, parts)
  BY PartsAreWellFormed, NothingKeepsRows DEF Keeps
<1>3. Keeps(parts, parts')
  BY <1>1, <1>2
<1>4. LeftDetachedIsReported'
  BY <1>1 DEF LeftDetachedIsReported
<1>5. touched \subseteq touched' /\ touched' \subseteq touched \cup parts
  BY <1>1
<1>6. QED
  BY <1>1, <1>3, <1>4, <1>5, KeptRowsKeepInv

\* Parts are removed: those of the list, or those of the partitions of the list.
LEMMA DroppedKeepInv ==
    ASSUME TypeInv, PartsInv, cmd' = cmd, cmd.kind \in DeleteKinds, ~cmd.dry, parts' \subseteq parts,
           UNCHANGED <<snapshot, reported, took, listed>>, phase' # "start",
           touched' = touched \cup (parts \ parts'),
           NEW x \in listed,
           \A p \in LiveOf(parts) \ parts' :
                IF cmd.kind \in PartKinds THEN p = x ELSE PartitionOf(p) = x
    PROVE  PartsInv'
<1>1. OwnRows(parts) /\ CleanNames(parts)
  BY PartsAreWellFormed
<1>2. OwnRows(parts') /\ CleanNames(parts')
  BY <1>1 DEF OwnRows, CleanNames, LiveOf
<1>3. RowsOf(parts') \subseteq RowsOf(parts)
  BY InRows
<1>4. ASSUME NEW r \in LiveRows(parts) \ LiveRows(parts')
      PROVE  IF cmd.kind \in PartKinds THEN r \in x.rows
             ELSE \E p \in touched' : r \in p.rows /\ PartitionOf(p) = x
  <2>1. PICK p \in LiveOf(parts) : r \in p.rows
    BY <1>4, InRows DEF LiveRows
  <2>2. p \notin parts'
    <3>1. SUFFICES ASSUME p \in parts' PROVE FALSE
      OBVIOUS
    <3>2. p \in LiveOf(parts')
      BY <3>1 DEF LiveOf
    <3>3. QED
      BY <1>4, <2>1, <3>2, InRows DEF LiveRows
  <2>3. p \in touched'
    BY <2>2 DEF LiveOf
  <2>4. QED
    BY <2>1, <2>2, <2>3
<1>5. RowsAreKept'
  <2>1. RowsAreKept /\ touched \subseteq touched' /\ touched' \subseteq touched \cup parts
    BY DEF PartsInv
  <2>2. \A r \in LiveRows(parts) \ LiveRows(parts') :
              /\ cmd.kind \in DeleteKinds /\ ~cmd.dry
              /\ \E y \in listed' :
                  IF cmd.kind \in PartKinds THEN r \in y.rows
                  ELSE \E p \in touched' : r \in p.rows /\ PartitionOf(p) = y
    BY <1>4
  <2>3. QED
    BY <1>2, <1>3, <2>1, <2>2, LostRows
<1>6. NamesAreClean' /\ TookCanBeAttached'
  BY DEF PartsInv, NamesAreClean, TookCanBeAttached
<1>7. LeftDetachedIsReported'
  BY DEF LeftDetachedIsReported, DeleteKinds
<1>8. QED
  BY <1>5, <1>6, <1>7 DEF PartsInv

\* The commands that delete.
LEMMA DeleteKeeps ==
    ASSUME TypeInv, PartsInv, cmd' = cmd, NEW r \in listed,
           delete_parts_command(r) \/ delete_partitions_command(r)
    PROVE  PartsInv'
<1>1. PICK kind, effects :
        /\ kind \in DeleteKinds
        /\ RowQuery(kind, r, effects)
        /\ \/ kind \in PartKinds /\ effects \subseteq {parts, parts \ {r}}
           \/ /\ kind \notin PartKinds
              /\ effects = {parts \ (In(r, "active") \cup In(r, "outdated"))}
  BY DEF delete_parts_command, delete_partitions_command, DeleteKinds, PartKinds, DropPart,
         DropDetachedPart, DropDetachedPartFromDisk, DropPartition, Become
<1>2. /\ cmd.kind = kind
      /\ UNCHANGED <<snapshot, reported, took, listed>>
      /\ parts' = parts \/ (parts' \in effects /\ ~cmd.dry)
      /\ touched' = touched \cup (parts \ parts')
      /\ phase' # "start"
  BY <1>1, RowQueryDoes
<1>3. CASE parts' = parts
  <2>1. Keeps(parts, parts')
    BY <1>3, PartsAreWellFormed, NothingKeepsRows DEF Keeps
  <2>2. LeftDetachedIsReported'
    BY <1>1, <1>2 DEF LeftDetachedIsReported, DeleteKinds
  <2>3. touched \subseteq touched' /\ touched' \subseteq touched \cup parts
    BY <1>2
  <2>4. QED
    BY <1>2, <2>1, <2>2, <2>3, KeptRowsKeepInv
<1>4. CASE parts' \in effects /\ ~cmd.dry
  <2>1. parts' \subseteq parts
    BY <1>1, <1>4
  <2>2. ASSUME NEW p \in LiveOf(parts) \ parts'
        PROVE  IF cmd.kind \in PartKinds THEN p = r ELSE PartitionOf(p) = r
    BY <1>1, <1>2, <1>4, <2>2 DEF In, LiveOf
  <2>3. QED
    BY <1>1, <1>2, <1>4, <2>1, <2>2, DroppedKeepInv
<1>5. QED
  BY <1>2, <1>3, <1>4


\* Every command with one query per row keeps the invariant.
LEMMA OneQueryKeeps ==
    ASSUME TypeInv, PartsInv, cmd' = cmd, NEW r \in listed, PartsStep(r),
           cmd.kind \notin {"reattach_partitions", "detect_broken"}
    PROVE  PartsInv'
<1>0. PartsTypeOK /\ OwnRows(parts) /\ CleanNames(parts) /\ cmd \in Commands
  BY PartsAreWellFormed DEF TypeInv, LoopInv
<1>q. ASSUME NEW kind, NEW effects, RowQuery(kind, r, effects),
             \A T \in effects : Keeps(parts, T)
      PROVE  PartsInv'
  <2>1. cmd.kind = kind
    BY <1>q DEF RowQuery
  <2>2. QED
    BY <1>q, <2>1, RowQueryKeeps
<1>n. \A T \in {parts} : Keeps(parts, T)
  BY <1>0, NothingKeepsRows DEF Keeps
<1>1. CASE attach_parts_command(r)
  <2>1. \A T \in AttachPart(r) : Keeps(parts, T)
    BY <1>0, PartQueriesKeepRows
  <2>2. QED
    BY <1>1, <1>q, <2>1 DEF attach_parts_command
<1>2. CASE detach_parts_command(r)
  <2>1. \A T \in DetachPart(r) : Keeps(parts, T)
    BY <1>0, PartQueriesKeepRows
  <2>2. QED
    BY <1>2, <1>q, <2>1 DEF detach_parts_command
<1>3. CASE move_parts_command(r)
  <2>1. cmd.to \in Disks
    BY <1>0, <1>3, PartsAssumption DEF move_parts_command, RowQuery
  <2>2. \A T \in MovePart(r, cmd.to) : Keeps(parts, T)
    BY <1>0, <2>1, PartQueriesKeepRows
  <2>3. QED
    BY <1>3, <1>q, <2>2 DEF move_parts_command
<1>4. CASE remove_detached_part_prefix(r)
  <2>1. \A T \in RemovePrefix(r) : Keeps(parts, T)
    BY <1>0, PartQueriesKeepRows
  <2>2. QED
    BY <1>4, <1>q, <2>1 DEF remove_detached_part_prefix
<1>5. CASE check_parts_command(r) \/ materialize_ttl_command(r) \/ check_partitions_command(r)
  BY <1>5, <1>q, <1>n DEF check_parts_command, materialize_ttl_command, check_partitions_command
<1>6. CASE attach_partitions_command(r)
  <2>1. \A T \in AttachPartition(r) : Keeps(parts, T)
    BY <1>0, AttachPartitionIsAttachSome, AttachKeepsRows
  <2>2. QED
    BY <1>6, <1>q, <2>1 DEF attach_partitions_command
<1>7. CASE detach_partitions_command(r)
  <2>1. \A T \in DetachPartition(r) : Keeps(parts, T)
    BY <1>0, DetachKeepsRows
  <2>2. QED
    BY <1>7, <1>q, <2>1 DEF detach_partitions_command
<1>8. CASE optimize_partitions_command(r)
  <2>1. \A T \in OptimizePartition(r) : Keeps(parts, T)
    BY <1>0, OptimizeKeepsRows
  <2>2. QED
    BY <1>8, <1>q, <2>1 DEF optimize_partitions_command
<1>9. CASE move_partitions_command(r)
  <2>1. cmd.to \in Tables
    BY <1>0, <1>9, PartsAssumption DEF move_partitions_command, RowQuery
  <2>2. \A T \in MovePartition(r, cmd.to) : Keeps(parts, T)
    BY <1>0, <2>1, MoveKeepsRows
  <2>3. QED
    BY <1>9, <1>q, <2>2 DEF move_partitions_command
<1>10. CASE delete_parts_command(r) \/ delete_partitions_command(r)
  BY <1>10, DeleteKeeps
<1>11. ~ReattachDetach(r) /\ ~ReattachAttach(r) /\ ~DetectBroken(r) /\ ~DetectAttach(r)
  BY DEF ReattachDetach, ReattachAttach, DetectBroken, DetectAttach
<1>12. QED
  BY <1>1, <1>2, <1>3, <1>4, <1>5, <1>6, <1>7, <1>8, <1>9, <1>10, <1>11 DEF PartsStep

-----------------------------------------------------------------------------
(* The parts: detach and attach again *)

\* The parts of the partition, and no others, are detached, and the command notes
\* their rows; what is left detached afterwards was so before, or is this partition.
LEMMA DetachKeepsInv ==
    ASSUME TypeInv, PartsInv, cmd' = cmd, NEW q,
           parts' = parts \/ parts' \in DetachPartition(q),
           took' = took \cup UNION {p.rows : p \in {d \in parts \ parts' : d.state = "active"}},
           touched' = touched \cup (parts \ parts'), snapshot' = snapshot, listed' = listed,
           phase' # "start", cmd.kind \in PartsKinds, cmd.dry => parts' = parts
    PROVE  /\ LeftDetached' \subseteq LeftDetached \cup {q}
           /\ LeftDetachedIsReported' => PartsInv'
<1>0. PartsTypeOK /\ OwnRows(parts) /\ CleanNames(parts)
  BY PartsAreWellFormed
<1>1. /\ Keeps(parts, parts')
      /\ \A p \in parts' : p.state = "detached" => p \in parts \/ PartitionOf(p) = q
  BY <1>0, NothingKeepsRows, DetachKeepsRows DEF Keeps
<1>2. \A r : r \in took' => r \in took \/ \E d \in parts \ parts' : d.state = "active" /\ r \in d.rows
  OBVIOUS
<1>3. ASSUME NEW p \in parts, p.state = "detached", p.rows \cap took' # {}
      PROVE  p.rows \cap took # {}
  <2>1. PICK r \in p.rows : r \in took'
    BY <1>3
  <2>2. ASSUME NEW d \in parts \ parts', d.state = "active", r \in d.rows PROVE FALSE
    BY <1>0, <1>3, <2>1, <2>2 DEF OwnRows, LiveOf
  <2>3. QED
    BY <1>2, <2>1, <2>2
<1>5. LeftDetached' \subseteq LeftDetached \cup {q}
  <2>1. SUFFICES ASSUME NEW p \in parts', p.state = "detached", p.rows \cap took' # {}
                 PROVE  PartitionOf(p) \in LeftDetached \cup {q}
    BY DEF LeftDetached, PartitionOf
  <2>2. CASE p \in parts
    BY <1>3, <2>1, <2>2 DEF LeftDetached
  <2>3. CASE p \notin parts
    BY <1>1, <2>1, <2>3
  <2>4. QED
    BY <2>2, <2>3
<1>6. RowsAreKept'
  <2>1. /\ OwnRows(parts') /\ RowsOf(parts') \subseteq RowsOf(parts)
        /\ LiveRows(parts') = LiveRows(parts) /\ RowsAreKept
    BY <1>1 DEF Keeps, KeepsRows, PartsInv
  <2>2. touched \subseteq touched' /\ touched' \subseteq touched \cup parts
    OBVIOUS
  <2>3. QED
    BY <2>1, <2>2, LostRows
<1>7. NamesAreClean'
  BY <1>1 DEF Keeps, KeepsRows, CleanNames, CleanName, NamesAreClean
<1>8. TookCanBeAttached'
  <2>1. SUFFICES ASSUME NEW p \in parts', p.state = "detached", p.rows \cap took' # {}
                 PROVE  p.reason = "" /\ p.try = 0
    BY DEF TookCanBeAttached
  <2>2. CASE p \in parts
    BY <1>3, <2>1, <2>2 DEF PartsInv, TookCanBeAttached
  <2>3. CASE CleanName(p)
    BY <2>3 DEF CleanName
  <2>4. ASSUME NEW o \in parts, o.state = "detached", o.rows = p.rows, ~CleanName(o)
        PROVE  FALSE
    BY <1>3, <2>1, <2>4 DEF PartsInv, TookCanBeAttached, CleanName
  <2>5. QED
    BY <1>1, <2>1, <2>2, <2>3, <2>4 DEF Keeps, DetachedFrom
<1>9. cmd.dry => took' = {}
  BY DEF PartsInv
<1>10. QED
  BY <1>5, <1>6, <1>7, <1>8, <1>9 DEF PartsInv

\* Some of the detached parts of a partition are attached.
LEMMA AttachKeepsInv ==
    ASSUME TypeInv, PartsInv, cmd' = cmd, NEW q, NEW some \in SUBSET Attachable(q),
           parts' \in AttachSome(some),
           touched' = touched \cup (parts \ parts'), UNCHANGED <<snapshot, listed, took>>,
           phase' # "start"
    PROVE  /\ LeftDetached' \subseteq LeftDetached
           /\ some = Attachable(q) => q \notin LeftDetached'
           /\ LeftDetachedIsReported' => PartsInv'
<1>0. PartsTypeOK /\ OwnRows(parts) /\ CleanNames(parts)
  BY PartsAreWellFormed
<1>1. /\ Keeps(parts, parts')
      /\ \A p \in parts' : p.state = "detached" => p \in parts \ some
  BY <1>0, AttachKeepsRows
<1>2. LeftDetached' \subseteq LeftDetached
  <2>1. SUFFICES ASSUME NEW p \in parts', p.state = "detached", p.rows \cap took # {}
                 PROVE  PartitionOf(p) \in LeftDetached
    BY DEF LeftDetached, PartitionOf
  <2>2. QED
    BY <1>1, <2>1 DEF LeftDetached
<1>3. ASSUME some = Attachable(q) PROVE q \notin LeftDetached'
  <2>1. SUFFICES ASSUME NEW p \in parts', p.state = "detached", p.rows \cap took # {}, PartitionOf(p) = q
                 PROVE  FALSE
    BY DEF LeftDetached, PartitionOf
  <2>2. p \in parts /\ p \notin Attachable(q)
    BY <1>1, <1>3, <2>1
  <2>3. p.reason = "" /\ p.try = 0
    BY <2>1, <2>2 DEF PartsInv, TookCanBeAttached
  <2>4. QED
    BY <2>1, <2>2, <2>3 DEF Attachable, In
<1>4. touched \subseteq touched' /\ touched' \subseteq touched \cup parts
  OBVIOUS
<1>5. QED
  BY <1>1, <1>2, <1>3, <1>4, KeptRowsKeepInv


\* A row that begins, or is at work, or is left, is not ended; where it is then.
LEMMA RowIsLeftOrFailed ==
    ASSUME NEW r, phase = "run"
    PROVE  /\ Succeeds(r) => /\ failed' = failed /\ DOMAIN at' = DOMAIN at \ {r}
                             /\ phase' = "run" /\ listed' = listed
           /\ Fails(r) => /\ failed' = failed \cup {r} /\ DOMAIN at' = DOMAIN at \ {r}
                          /\ phase' \in {"run", "error"} /\ listed' = listed
           /\ \A step : Begin(r, step) => /\ failed' = failed /\ DOMAIN at' = DOMAIN at \cup {r}
                                          /\ phase' = "run" /\ listed' = listed
<1>1. Succeeds(r) => /\ failed' = failed /\ DOMAIN at' = DOMAIN at \ {r}
                     /\ phase' = "run" /\ listed' = listed
  BY DEF Succeeds, Leave, Restrict
<1>2. Fails(r) => /\ failed' = failed \cup {r} /\ DOMAIN at' = DOMAIN at \ {r}
                  /\ phase' \in {"run", "error"} /\ listed' = listed
  BY DEF Fails, Leave, Restrict, AfterFailure
<1>3. ASSUME NEW step, Begin(r, step)
      PROVE  /\ failed' = failed /\ DOMAIN at' = DOMAIN at \cup {r}
             /\ phase' = "run" /\ listed' = listed
  BY <1>3 DEF Begin
<1>4. QED
  BY <1>1, <1>2, <1>3

\* reattach_partitions_command, both its queries.
LEMMA ReattachPartitionKeeps ==
    ASSUME TypeInv, PartsInv, cmd' = cmd, NEW q, ReattachDetach(q) \/ ReattachAttach(q)
    PROVE  PartsInv'
<1>0. /\ phase = "run" /\ cmd.kind = "reattach_partitions" /\ cmd.kind \in PartsKinds
      /\ snapshot' = snapshot /\ reported' = reported
      /\ LeftDetached \subseteq failed \cup DOMAIN at
  BY DEF ReattachDetach, ReattachAttach, MayBegin, IsAt, PartsKinds, PartitionKinds, PartsInv,
         LeftDetachedIsReported
<1>1. ASSUME LeftDetached' \subseteq failed' \cup DOMAIN at', phase' # "ok"
      PROVE  LeftDetachedIsReported'
  BY <1>0, <1>1 DEF LeftDetachedIsReported
<1>2. CASE ReattachDetach(q)
  <2>1. /\ Begin(q, [step |-> "attach"]) \/ Fails(q)
        /\ took' = took \cup UNION {p.rows : p \in {d \in parts \ parts' : d.state = "active"}}
    BY <1>2 DEF ReattachDetach
  <2>2. /\ parts' = parts \/ parts' \in DetachPartition(q)
        /\ touched' = touched \cup (parts \ parts')
        /\ cmd.dry => parts' = parts
    BY <1>2 DEF ReattachDetach, Change
  <2>3. /\ failed \cup DOMAIN at \cup {q} \subseteq failed' \cup DOMAIN at'
        /\ phase' \notin {"start", "ok"} /\ listed' = listed
    BY <1>0, <2>1, RowIsLeftOrFailed
  <2>4. /\ LeftDetached' \subseteq LeftDetached \cup {q}
        /\ LeftDetachedIsReported' => PartsInv'
    BY <1>0, <2>1, <2>2, <2>3, DetachKeepsInv
  <2>5. QED
    BY <1>0, <1>1, <2>3, <2>4
<1>3. CASE ReattachAttach(q)
  <2>0. took' = took /\ q \in DOMAIN at
    BY <1>3 DEF ReattachAttach, IsAt
  <2>1. CASE cmd.dry /\ Change({parts}) /\ Succeeds(q)
    <3>1. parts' = parts /\ touched' = touched /\ took' = {} /\ took = {}
      BY <2>0, <2>1 DEF Change, PartsInv
    <3>2. phase' = "run" /\ listed' = listed
      BY <1>0, <2>1, RowIsLeftOrFailed
    <3>l. LeftDetached' = {}
      BY <3>1 DEF LeftDetached
    <3>3. Keeps(parts, parts')
      BY <3>1, PartsAreWellFormed, NothingKeepsRows DEF Keeps
    <3>4. LeftDetachedIsReported'
      BY <1>1, <3>2, <3>l
    <3>5. QED
      BY <1>0, <2>0, <3>1, <3>2, <3>3, <3>4, KeptRowsKeepInv
  <2>2. CASE Change(AttachPartition(q)) /\ Succeeds(q)
    <3>1. parts' \in AttachSome(Attachable(q)) /\ touched' = touched \cup (parts \ parts')
      BY <2>2, AttachPartitionIsAttachSome DEF Change
    <3>2. failed' = failed /\ DOMAIN at' = DOMAIN at \ {q} /\ phase' = "run" /\ listed' = listed
      BY <1>0, <2>2, RowIsLeftOrFailed
    <3>3. /\ LeftDetached' \subseteq LeftDetached /\ q \notin LeftDetached'
          /\ LeftDetachedIsReported' => PartsInv'
      BY <1>0, <2>0, <3>1, <3>2, AttachKeepsInv
    <3>4. QED
      BY <1>0, <1>1, <3>2, <3>3
  <2>3. ASSUME NEW some \in SUBSET Attachable(q), Change(AttachSome(some)), Fails(q)
        PROVE  PartsInv'
    <3>1. parts' \in AttachSome(some) /\ touched' = touched \cup (parts \ parts')
      BY <2>3 DEF Change
    <3>2. /\ failed' = failed \cup {q} /\ DOMAIN at' = DOMAIN at \ {q}
          /\ phase' \in {"run", "error"} /\ listed' = listed
      BY <1>0, <2>3, RowIsLeftOrFailed
    <3>3. /\ LeftDetached' \subseteq LeftDetached
          /\ LeftDetachedIsReported' => PartsInv'
      BY <1>0, <2>0, <2>3, <3>1, <3>2, AttachKeepsInv
    <3>4. QED
      BY <1>0, <1>1, <3>2, <3>3
  <2>4. QED
    BY <1>3, <2>1, <2>2, <2>3 DEF ReattachAttach, AttachSome
<1>4. QED
  BY <1>2, <1>3

\* detect_broken_partitions, both its queries: the partition is noted before.
LEMMA DetectPartitionKeeps ==
    ASSUME TypeInv, PartsInv, cmd' = cmd, NEW q, DetectBroken(q) \/ DetectAttach(q)
    PROVE  PartsInv'
<1>0. /\ phase = "run" /\ cmd.kind = "detect_broken" /\ cmd.kind \in PartsKinds
      /\ snapshot' = snapshot /\ LeftDetached \subseteq reported
      /\ reported \subseteq reported'
  BY DEF DetectBroken, DetectAttach, MayBegin, IsAt, PartsKinds, PartitionKinds, PartsInv,
         LeftDetachedIsReported
<1>1. ASSUME LeftDetached' \subseteq reported' PROVE LeftDetachedIsReported'
  BY <1>0, <1>1 DEF LeftDetachedIsReported
<1>2. CASE DetectBroken(q)
  <2>0. /\ took' = took \cup UNION {p.rows : p \in {d \in parts \ parts' : d.state = "active"}}
    BY <1>2 DEF DetectBroken
  <2>1. Succeeds(q) \/ Fails(q) \/ Begin(q, [step |-> "attach"])
    BY <1>2 DEF DetectBroken
  <2>2. phase' # "start" /\ listed' = listed
    BY <1>0, <2>1, RowIsLeftOrFailed
  <2>3. touched' = touched \cup (parts \ parts')
    BY <1>2 DEF DetectBroken, Change
  <2>4. CASE parts' = parts
    <3>1. took' = took /\ touched' = touched
      BY <2>0, <2>3, <2>4
    <3>2. LeftDetached' = LeftDetached
      BY <2>4, <3>1 DEF LeftDetached, PartitionOf
    <3>3. Keeps(parts, parts')
      BY <2>4, PartsAreWellFormed, NothingKeepsRows DEF Keeps
    <3>4. LeftDetachedIsReported'
      BY <1>0, <1>1, <3>2
    <3>5. QED
      BY <1>0, <2>2, <3>1, <3>3, <3>4, KeptRowsKeepInv
  <2>5. CASE parts' # parts
    <3>1. ~cmd.dry /\ parts' \in DetachPartition(q)
      BY <1>2, <2>5 DEF DetectBroken, Change
    <3>3. reported' = reported \cup {q}
      BY <1>2, <2>5 DEF DetectBroken, Change
    <3>4. /\ LeftDetached' \subseteq LeftDetached \cup {q}
          /\ LeftDetachedIsReported' => PartsInv'
      BY <1>0, <2>0, <2>2, <2>3, <3>1, DetachKeepsInv
    <3>5. QED
      BY <1>0, <1>1, <3>3, <3>4
  <2>6. QED
    BY <2>4, <2>5
<1>3. CASE DetectAttach(q)
  <2>1. took' = took /\ reported' = reported /\ Succeeds(q)
    BY <1>3 DEF DetectAttach
  <2>2. PICK some \in SUBSET Attachable(q) : Change(AttachSome(some))
    <3>1. Change(AttachPartition(q)) \/ \E some \in SUBSET Attachable(q) : Change(AttachSome(some))
      BY <1>3 DEF DetectAttach, AttachSome
    <3>2. QED
      BY <3>1, AttachPartitionIsAttachSome
  <2>3. parts' \in AttachSome(some) /\ touched' = touched \cup (parts \ parts')
    BY <2>2 DEF Change
  <2>4. phase' = "run" /\ listed' = listed
    BY <1>0, <2>1, RowIsLeftOrFailed
  <2>5. /\ LeftDetached' \subseteq LeftDetached
        /\ LeftDetachedIsReported' => PartsInv'
    BY <1>0, <2>1, <2>3, <2>4, AttachKeepsInv
  <2>6. QED
    BY <1>0, <1>1, <2>1, <2>5
<1>4. QED
  BY <1>2, <1>3


-----------------------------------------------------------------------------
(* The parts: the other steps *)

\* The list is made once, and phase is never again the first.
LEMMA ListsAreMadeOnce ==
    ASSUME [LoopNext]_loopVars, phase = "start" => listed = {}
    PROVE  /\ listed' = listed \/ listed = {}
           /\ phase' = "start" => listed' = {}
<1>1. CASE UNCHANGED loopVars
  BY <1>1 DEF loopVars
<1>2. CASE Listing(SUBSET Items) \/ ListingFails \/ Finish \/ Kill
  BY <1>2 DEF Listing, ListingFails, Finish, Kill
<1>3. ASSUME NEW r \in listed, RowNext(r)
      PROVE  listed' = listed /\ phase' # "start"
  BY <1>3 DEF RowNext, Succeeds, Fails, AfterFailure, Begin, GoTo
<1>4. QED
  BY <1>1, <1>2, <1>3 DEF LoopNext

\* A step that leaves the parts as they are, and names no less.
LEMMA QuietStepKeepsParts ==
    ASSUME TypeInv, PartsInv, cmd' = cmd, UNCHANGED <<parts, snapshot, touched, took>>,
           listed' = listed \/ listed = {}, phase' = "start" => listed' = {},
           cmd.kind \in {"reattach_partitions", "detect_broken"} =>
                /\ UNCHANGED <<failed, at>> /\ reported \subseteq reported'
                /\ phase' = "ok" => LeftDetached \subseteq reported'
    PROVE  PartsInv'
<1>1. Keeps(parts, parts')
  BY PartsAreWellFormed, NothingKeepsRows DEF Keeps
<1>2. LeftDetached' = LeftDetached
  BY DEF LeftDetached, PartitionOf
<1>3. LeftDetachedIsReported'
  BY <1>2 DEF LeftDetachedIsReported, PartsInv
<1>4. QED
  BY <1>1, <1>3, KeptRowsKeepInv

\* The server on its own.
LEMMA BackgroundKeepsParts ==
    ASSUME TypeInv, PartsInv, cmd' = cmd, Merge \/ RemoveOutdated \/ Insert
    PROVE  PartsInv'
<1>0. /\ PartsTypeOK /\ OwnRows(parts) /\ CleanNames(parts)
      /\ UNCHANGED <<phase, listed, failed, at, snapshot, reported, touched, took>>
      /\ phase # "ok"
  BY PartsAreWellFormed DEF Merge, RemoveOutdated, Insert, Background, loopVars, Ended
<1>l. ASSUME \A p \in parts' : p.state = "detached" => p \in parts
      PROVE  LeftDetachedIsReported'
  <2>1. LeftDetached' \subseteq LeftDetached
    BY <1>0, <1>l DEF LeftDetached, PartitionOf
  <2>2. QED
    BY <1>0, <2>1 DEF LeftDetachedIsReported, PartsInv
<1>1. ASSUME Keeps(parts, parts'), \A p \in parts' : p.state = "detached" => p \in parts
      PROVE  PartsInv'
  BY <1>0, <1>1, <1>l, KeptRowsKeepInv DEF PartsInv
<1>2. CASE Merge
  <2>1. PICK q \in Partition : parts' \in OptimizePartition(q)
    BY <1>2 DEF Merge
  <2>2. QED
    BY <1>0, <1>1, <2>1, OptimizeKeepsRows
<1>3. CASE RemoveOutdated
  <2>1. PICK p \in parts : p.state = "outdated" /\ parts' = parts \ {p}
    BY <1>3 DEF RemoveOutdated
  <2>2. parts' \subseteq parts /\ LiveOf(parts) \subseteq parts'
    BY <2>1 DEF LiveOf
  <2>3. Keeps(parts, parts')
    BY <1>0, <2>2, OutdatedKeepRows DEF Keeps
  <2>4. QED
    BY <1>1, <2>2, <2>3
<1>4. CASE Insert
  <2>1. PICK r \in Rows \ UNION {p.rows : p \in parts \cup touched} :
            \E t, c, d :
               parts' = parts \cup {[table |-> t, partition |-> c, rows |-> {r},
                                     disk |-> d, state |-> "active", reason |-> "", try |-> 0]}
    BY <1>4 DEF Insert
  <2>p. PICK t, c, d :
            parts' = parts \cup {[table |-> t, partition |-> c, rows |-> {r},
                                  disk |-> d, state |-> "active", reason |-> "", try |-> 0]}
    BY <2>1
  <2> DEFINE n == [table |-> t, partition |-> c, rows |-> {r},
                   disk |-> d, state |-> "active", reason |-> "", try |-> 0]
  <2>2. parts' = parts \cup {n} /\ n.rows = {r} /\ n.state = "active" /\ CleanName(n)
    BY <2>p DEF CleanName
  <2>3. \A p \in parts : r \notin p.rows
    BY <2>1
  <2> HIDE DEF n
  <2>4. LiveOf(parts') = LiveOf(parts) \cup {n}
    BY <2>2 DEF LiveOf
  <2>5. OwnRows(parts') /\ CleanNames(parts')
    BY <1>0, <2>2, <2>3, <2>4 DEF OwnRows, CleanNames, LiveOf
  <2>6. ASSUME NEW x \in RowsOf(parts') PROVE x \in RowsOf(parts) \cup LiveRows(parts')
    <3>1. PICK p \in parts' : x \in p.rows
      BY <2>6, InRows
    <3>2. CASE p \in parts
      BY <3>1, <3>2, InRows
    <3>3. CASE p = n
      BY <2>4, <3>1, <3>3, InRows DEF LiveRows
    <3>4. QED
      BY <2>2, <3>1, <3>2, <3>3
  <2>7. ASSUME NEW x \in LiveRows(parts) PROVE x \in LiveRows(parts')
    BY <2>4, <2>7, InRows DEF LiveRows
  <2>8. RowsAreKept'
    BY <1>0, <2>5, <2>6, <2>7, LostRows DEF PartsInv
  <2>9. \A p \in parts' : p.state = "detached" => p \in parts
    BY <2>2
  <2>10. NamesAreClean' /\ TookCanBeAttached'
    BY <1>0, <2>2, <2>9 DEF PartsInv, NamesAreClean, TookCanBeAttached, CleanName
  <2>11. QED
    BY <1>0, <1>l, <2>8, <2>9, <2>10 DEF PartsInv
<1>5. QED
  BY <1>2, <1>3, <1>4

\* The commands on parts, and the server next to them.
LEMMA PartsNextKeepsParts ==
    ASSUME TypeInv, PartsInv, cmd' = cmd, PartsNext,
           listed' = listed \/ listed = {}, phase' = "start" => listed' = {}
    PROVE  PartsInv'
<1>1. CASE ListRows
  <2>1. UNCHANGED <<failed, at, parts, snapshot, reported, touched, took>> /\ phase' = "run"
    BY <1>1 DEF ListRows, Listing, partVars
  <2>2. QED
    BY <2>1, QuietStepKeepsParts
<1>2. CASE ListRowsFails \/ KillParts
  <2>1. UNCHANGED <<failed, at, parts, snapshot, reported, touched, took>> /\ phase' # "ok"
    BY <1>2 DEF ListRowsFails, ListingFails, KillParts, Kill, partVars
  <2>2. QED
    BY <2>1, QuietStepKeepsParts
<1>3. CASE FinishParts
  <2>1. /\ UNCHANGED <<failed, at, parts, snapshot, touched, took>>
        /\ DOMAIN at = {}
    BY <1>3 DEF FinishParts, Finish
  <2>2. CASE cmd.kind = "reattach_partitions"
    <3>1. reported' = failed
      BY <1>3, <2>2 DEF FinishParts, Reported
    <3>2. LeftDetached \subseteq failed
      BY <2>1, <2>2 DEF PartsInv, LeftDetachedIsReported
    <3>3. LeftDetached' = LeftDetached
      BY <2>1 DEF LeftDetached, PartitionOf
    <3>4. LeftDetachedIsReported'
      BY <2>1, <2>2, <3>1, <3>2, <3>3 DEF LeftDetachedIsReported
    <3>5. Keeps(parts, parts')
      BY <2>1, PartsAreWellFormed, NothingKeepsRows DEF Keeps
    <3>6. QED
      BY <2>1, <3>4, <3>5, KeptRowsKeepInv
  <2>3. CASE cmd.kind = "detect_broken"
    <3>1. reported' = reported /\ LeftDetached \subseteq reported
      BY <1>3, <2>3 DEF FinishParts, PartsInv, LeftDetachedIsReported
    <3>2. QED
      BY <2>1, <2>3, <3>1, QuietStepKeepsParts
  <2>4. CASE cmd.kind \notin {"reattach_partitions", "detect_broken"}
    BY <2>1, <2>4, QuietStepKeepsParts
  <2>5. QED
    BY <2>2, <2>3, <2>4
<1>4. ASSUME NEW r \in listed, PartsStep(r) PROVE PartsInv'
  <2>1. CASE cmd.kind \notin {"reattach_partitions", "detect_broken"}
    BY <1>4, <2>1, OneQueryKeeps
  <2>2. CASE cmd.kind \in {"reattach_partitions", "detect_broken"}
    <3>1. ReattachDetach(r) \/ ReattachAttach(r) \/ DetectBroken(r) \/ DetectAttach(r)
      BY <1>4, <2>2 DEF PartsStep, RowQuery, attach_parts_command, detach_parts_command,
         delete_parts_command, move_parts_command, remove_detached_part_prefix,
         check_parts_command, attach_partitions_command, detach_partitions_command,
         delete_partitions_command, optimize_partitions_command, materialize_ttl_command,
         check_partitions_command, move_partitions_command
    <3>2. QED
      BY <3>1, ReattachPartitionKeeps, DetectPartitionKeeps
  <2>3. QED
    BY <2>1, <2>2
<1>5. CASE Merge \/ RemoveOutdated \/ Insert
  BY <1>5, BackgroundKeepsParts
<1>6. QED
  BY <1>1, <1>2, <1>3, <1>4, <1>5 DEF PartsNext, PartsStep

\* A restore detaches active parts, and attaches them again.
LEMMA ReplicasNextKeepsParts ==
    ASSUME TypeInv, PartsInv, ReplicasInv, cmd' = cmd, ReplicasNext,
           listed' = listed \/ listed = {}, phase' = "start" => listed' = {}
    PROVE  PartsInv'
<1>k. cmd.kind \in ReplicaKinds /\ cmd.kind \notin {"reattach_partitions", "detect_broken"}
  BY StepIsOfKind DEF ReplicaKinds
<1>0. PartsTypeOK /\ OwnRows(parts) /\ CleanNames(parts) /\ parts \in SUBSET Part
  BY PartsAreWellFormed DEF PartsTypeOK
<1>1. ASSUME UNCHANGED <<snapshot, touched, took>>, Keeps(parts, parts') PROVE PartsInv'
  <2>1. LeftDetachedIsReported'
    BY <1>k DEF LeftDetachedIsReported
  <2>2. QED
    BY <1>1, <2>1, KeptRowsKeepInv
<1>2. CASE UNCHANGED <<parts, snapshot, touched, took>>
  BY <1>0, <1>1, <1>2, NothingKeepsRows DEF Keeps
<1>3. ASSUME NEW r \in listed, RestoreReplica(r) PROVE PartsInv'
  <2>1. UNCHANGED <<snapshot, touched, took>>
    BY <1>3 DEF RestoreReplica
  <2>2. UNCHANGED parts \/ \E off \in SUBSET ActiveOf(r.name) :
                parts' = (parts \ off) \cup {[p EXCEPT !.state = "detached"] : p \in off}
    BY <1>3 DEF RestoreReplica
  <2>3. ASSUME NEW off \in SUBSET ActiveOf(r.name),
               parts' = (parts \ off) \cup {[p EXCEPT !.state = "detached"] : p \in off}
        PROVE  PartsInv'
    <3>1. off \in SUBSET LiveOf(parts) /\ \A p \in off : CleanName(p)
      BY <1>0 DEF ActiveOf, LiveOf, CleanNames
    <3>2. Keeps(parts, parts')
      BY <1>0, <2>3, <3>1, NewStateKeepsRows DEF Keeps
    <3>3. QED
      BY <1>1, <2>1, <3>2
  <2>4. QED
    BY <1>2, <2>1, <2>2, <2>3
<1>4. ASSUME NEW r \in listed, AttachParts(r) PROVE PartsInv'
  <2>1. UNCHANGED <<snapshot, touched, took>> /\ r \in DOMAIN at
    BY <1>4 DEF AttachParts, IsAt
  <2>2. cmd.kind = "restore_replicas" /\ at[r] \in RestoreSteps
    BY <1>k, <2>1 DEF ReplicaKinds, TypeInv, StepTypes
  <2>3. at[r].left \subseteq WereActive(r.name)
    BY <2>1, <2>2 DEF ReplicasInv, RestoreIsUnderWay, UnderWay, RestoreSteps
  <2>4. PICK p \in WereActive(r.name) :
            \/ UNCHANGED parts
            \/ OffOf(p) \in parts /\ parts' = (parts \ {OffOf(p)}) \cup {p}
    BY <1>4, <2>3 DEF AttachParts, OffOf
  <2>5. CASE UNCHANGED parts
    BY <1>2, <2>1, <2>5
  <2>6. CASE OffOf(p) \in parts /\ parts' = (parts \ {OffOf(p)}) \cup {p}
    <3>1. p \in Part /\ p.state = "active" /\ p \in snapshot
      BY <1>0 DEF WereActive, PartsTypeOK
    <3>2. CleanName(p)
      BY <3>1, PartsAssumption DEF PartsInv, CleanName
    <3>3. OffOf(p).rows = p.rows /\ OffOf(p).state = "detached"
      BY <3>1 DEF OffOf, Part
    <3>4. KeepsRows(parts, parts')
      <4>1. OffOf(p) \in LiveOf(parts)
        BY <2>6, <3>3 DEF LiveOf
      <4>2. QED
        BY <1>0, <2>6, <3>1, <3>2, <3>3, <4>1, ReplacedKeepsRows
    <3>5. DetachedFrom(parts, parts')
      BY <2>6, <3>1 DEF DetachedFrom
    <3>6. QED
      BY <1>1, <2>1, <3>4, <3>5 DEF Keeps
  <2>7. QED
    BY <2>4, <2>5, <2>6
<1>5. ASSUME NEW r, RestartReplica(r) \/ ListActiveParts(r) \/ RestartOnly(r) \/ IsFirstReplica(r)
                    \/ RestartToAttach(r) \/ AttachedParts(r) \/ DumpParts(r)
      PROVE  UNCHANGED <<parts, snapshot, touched, took>>
  BY <1>5 DEF RestartReplica, ListActiveParts, RestartOnly, IsFirstReplica, RestartToAttach,
              AttachedParts, DumpParts, Unchanged, partVars
<1>6. CASE ListReplicaRows \/ FinishReplicas
  BY <1>2, <1>6 DEF ListReplicaRows, FinishReplicas, partVars
<1>7. QED
  BY <1>2, <1>3, <1>4, <1>5, <1>6 DEF ReplicasNext, ReplicaStep

\* The parts before the command are as the assumption says.
LEMMA InitPartsInv == Init => PartsInv
<1> SUFFICES ASSUME Init PROVE PartsInv
  OBVIOUS
<1>1. /\ parts \in InitParts /\ snapshot = parts /\ touched = {} /\ took = {}
      /\ phase = "start" /\ listed = {}
  BY DEF Init, LoopInit, PartsInit
<1>2. /\ \A p, q \in parts : "outdated" \notin {p.state, q.state} /\ p # q => p.rows \cap q.rows = {}
      /\ \A p \in parts : \A r \in p.rows : \E q \in parts : q.state # "outdated" /\ r \in q.rows
      /\ \A p \in parts : p.state # "detached" => p.reason = "" /\ p.try = 0
  BY <1>1, PartsAssumption
<1>3. Lost = {}
  <2>1. Lost = RowsOf(parts) \ RowsOf(Live)
    BY <1>1 DEF Lost
  <2>2. ASSUME NEW r \in RowsOf(parts) PROVE r \in RowsOf(Live)
    <3>1. PICK p \in parts : r \in p.rows
      BY <2>2, InRows
    <3>2. PICK q \in parts : q.state # "outdated" /\ r \in q.rows
      BY <1>2, <3>1
    <3>3. q \in Live
      BY <3>2 DEF Live
    <3>4. QED
      BY <3>2, <3>3, InRows
  <2>3. QED
    BY <2>1, <2>2
<1>4. RowsAreKept
  BY <1>2, <1>3 DEF RowsAreKept, Live
<1>5. NamesAreClean /\ TookCanBeAttached
  BY <1>1, <1>2 DEF NamesAreClean, TookCanBeAttached
<1>6. LeftDetachedIsReported
  <2>1. LeftDetached = {}
    BY <1>1 DEF LeftDetached
  <2>2. QED
    BY <2>1 DEF LeftDetachedIsReported
<1>7. QED
  BY <1>1, <1>4, <1>5, <1>6 DEF PartsInv

\* A command on parts, or any other, keeps the invariant.
LEMMA NextParts == TypeInv /\ ReplicasInv /\ PartsInv /\ [Next]_vars => PartsInv'
<1> SUFFICES ASSUME TypeInv, ReplicasInv, PartsInv, [Next]_vars PROVE PartsInv'
  OBVIOUS
<1>1. cmd' = cmd
  BY FailuresStay
<1>2. (listed' = listed \/ listed = {}) /\ (phase' = "start" => listed' = {})
  BY NextIsLoopStep, ListsAreMadeOnce DEF PartsInv
<1>3. CASE UNCHANGED vars
  <2>1. UNCHANGED <<parts, snapshot, touched, took, failed, at, reported, phase>>
    BY <1>3 DEF vars, loopVars, partVars
  <2>2. cmd.kind \in {"reattach_partitions", "detect_broken"} /\ phase = "ok"
            => LeftDetached \subseteq reported
    BY DEF PartsInv, LeftDetachedIsReported
  <2>3. QED
    BY <1>1, <1>2, <2>1, <2>2, QuietStepKeepsParts
<1>4. CASE PartsNext
  BY <1>1, <1>2, <1>4, PartsNextKeepsParts
<1>5. CASE ReplicasNext
  BY <1>1, <1>2, <1>5, ReplicasNextKeepsParts
<1>6. CASE TablesNext \/ FilesNext
  <2>1. cmd.kind \notin {"reattach_partitions", "detect_broken"}
    BY <1>6, StepIsOfKind DEF TableKinds, LoopKinds, OneTableKinds, FileKinds
  <2>2. UNCHANGED <<parts, snapshot, touched, took>>
    BY <1>6, OthersLeaveParts DEF partVars
  <2>3. QED
    BY <1>1, <1>2, <2>1, <2>2, QuietStepKeepsParts
<1>7. QED
  BY <1>3, <1>4, <1>5, <1>6 DEF Next

\* The parts, over all behaviours.
LEMMA PartsInvIsInvariant == Spec => []PartsInv
  BY InitPartsInv, NextParts, InitReplicasInv, NextReplicas, TypeIsInvariant, PTL DEF Spec

\* Every row of the parts that were there, are there or were changed is in one part
\* that is active or detached, and in no second one, whatever the server merges and
\* whichever query fails after it was done; only what a delete command has in its
\* list may be gone.
THEOREM NoRowIsLost == Spec => []RowsAreKept
<1>1. PartsInv => RowsAreKept
  BY DEF PartsInv
<1>2. QED
  BY <1>1, PartsInvIsInvariant, PTL

\* A partition that reattach or detect-broken-partitions leaves detached is one that it
\* noted, or failed, or was at work when the command was killed; and a command that
\* ends without an exception prints it.
THEOREM NoneIsLeftDetachedUnnoted == Spec => []LeftDetachedIsReported
<1>1. PartsInv => LeftDetachedIsReported
  BY DEF PartsInv
<1>2. QED
  BY <1>1, PartsInvIsInvariant, PTL
=============================================================================
