------------------------------- MODULE Parts -------------------------------
(***************************************************************************)
(* The commands on data parts and partitions (cli/part_group.py,           *)
(* cli/partition_group.py, internal/part.py, internal/partition.py).  A    *)
(* command makes a list with one query, or reads it from a file, and works *)
(* through it with one query per row (two to reattach), while the server   *)
(* inserts, merges and drops the parts that merges made obsolete.          *)
(* A part is its table, its partition, the rows in it and where it is; its *)
(* size is the number of its rows.                                         *)
(***************************************************************************)
EXTENDS CommandLoop

CONSTANTS
    Tables, Partitions, Disks, Rows,
    InitParts,      \* the parts before the command
    BrokenRows,     \* rows whose blobs are missing in the object storage
    MaxServer       \* bound: steps of the server on its own

VARIABLES
    parts,      \* the parts, also the outdated and the detached ones
    snapshot,   \* what the parts were when the file of the list was written
    reported,   \* the partitions to print: not reattached, or broken and repaired
    touched,    \* the parts that the command changed, as they were before
    took,       \* the rows that the command detached
    served      \* steps of the server on its own

partVars == <<parts, snapshot, reported, touched, took, served>>

Part == [table : Tables, partition : Partitions, rows : SUBSET Rows, disk : Disks,
         state : {"active", "outdated", "detached"}, reason : {"", "broken-on-start"},
         try : 0..10]
Partition == [table : Tables, partition : Partitions]

PartKinds == {"attach_parts", "detach_parts", "delete_parts", "delete_detached_parts",
              "move_parts", "remove_prefix", "check_parts"}
PartitionKinds == {"attach_partitions", "detach_partitions", "reattach_partitions",
                   "delete_partitions", "optimize_partitions", "materialize_ttl",
                   "check_partitions", "move_partitions", "detect_broken"}
PartsKinds == PartKinds \cup PartitionKinds
DeleteKinds == {"delete_parts", "delete_detached_parts", "delete_partitions"}

PartCommand == [kind : PartsKinds, keepGoing : BOOLEAN, dry : BOOLEAN,
                json : BOOLEAN, tables : SUBSET Tables, partitions : SUBSET Partitions,
                disk : Disks \cup {NoFilter}, minSize : Nat, reason : {NoFilter, "", "broken-on-start"},
                limit : Nat, limitErrors : Nat, workers : Nat, sync : BOOLEAN,
                to : Disks \cup Tables \cup {NoFilter}, attach : BOOLEAN]

PartitionOf(p) == [table |-> p.table, partition |-> p.partition]

In(q, state) == {p \in parts : PartitionOf(p) = q /\ p.state = state}

\* The parts of a server, and the arguments of a command.  A row is in one part, apart
\* from those that a merge has replaced; only the names of detached parts have a
\* reason or an attempt in them.
ASSUME PartsAssumption ==
    /\ InitParts \subseteq SUBSET Part
    /\ \A ps \in InitParts :
        /\ \A p, q \in ps : "outdated" \notin {p.state, q.state} /\ p # q => p.rows \cap q.rows = {}
        /\ \A p \in ps : \A r \in p.rows : \E q \in ps : q.state # "outdated" /\ r \in q.rows
        /\ \A p \in ps : p.state # "detached" => p.reason = "" /\ p.try = 0
    /\ \A c \in Commands :
        /\ c.dry \in BOOLEAN /\ c.tables \subseteq Tables /\ c.partitions \subseteq Partitions
        /\ c.kind = "move_parts" => c.to \in Disks
        /\ c.kind = "move_partitions" => c.to \in Tables

---------------------------------------------------------------------------
(* The lists *)

\* list_parts: the outdated parts are in it unless active is asked for.
ListParts(states) ==
    {p \in parts :
        /\ p.state \in states
        /\ p.table \in cmd.tables /\ p.partition \in cmd.partitions
        /\ cmd.disk \in {NoFilter, p.disk}
        /\ Cardinality(p.rows) >= cmd.minSize}

\* list_detached_parts: the server cannot parse a name that ends in _tryN, and
\* gives no partition and no reason for it.
ListDetached(reason) ==
    {p \in parts :
        /\ p.state = "detached"
        /\ p.table \in cmd.tables
        /\ cmd.disk \in {NoFilter, p.disk}
        /\ cmd.partitions # Partitions => p.try = 0 /\ p.partition \in cmd.partitions
        /\ reason # NoFilter => p.try = 0 /\ p.reason = reason}

\* get_partitions with detached: the disk is not part of the query.
DetachedPartitions(reason) ==
    {PartitionOf(p) : p \in {d \in parts :
        /\ d.state = "detached" /\ d.try = 0
        /\ reason \in {NoFilter, d.reason}
        /\ d.table \in cmd.tables /\ d.partition \in cmd.partitions}}

\* get_partitions: a partition with some part on the disk is in the list.
PartitionsOfParts ==
    {q \in [table : cmd.tables, partition : cmd.partitions] :
        \E p \in In(q, "active") \cup In(q, "outdated") : cmd.disk \in {NoFilter, p.disk}}

\* detect_broken_partitions (cli/data_store_group.py) walks over the directories of
\* the parts, and looks for those in system.parts that miss a blob.
BrokenParts(q) ==
    {b \in In(q, "active") \cup In(q, "outdated") :
        b.disk = cmd.disk /\ b.rows \cap BrokenRows # {}}

Selected ==
    CASE cmd.kind = "attach_parts" -> ListDetached("")
      [] cmd.kind \in {"delete_detached_parts", "remove_prefix"} -> ListDetached(cmd.reason)
      [] cmd.kind = "move_parts" -> ListParts({"active"})
      [] cmd.kind \in {"detach_parts", "delete_parts", "check_parts"} ->
            ListParts({"active", "outdated"})
      [] cmd.kind = "attach_partitions" -> DetachedPartitions("")
      [] cmd.kind = "detect_broken" -> Partition
      [] OTHER -> PartitionsOfParts

\* The rows of the file are what a query returned some time ago; whatever the
\* other options are, they are not applied to it.
FromFile ==
    LET of == {p \in snapshot : p.state = "detached" <=>
                    cmd.kind \in {"attach_parts", "delete_detached_parts", "remove_prefix",
                                  "attach_partitions"}}
    IN  IF cmd.kind \in PartKinds THEN of ELSE {PartitionOf(p) : p \in of}

ListRows ==
    /\ cmd.kind \in PartsKinds
    /\ Listing(IF cmd.json THEN {FromFile} ELSE Limited(Selected))
    /\ UNCHANGED partVars

\* The query fails, or the file is not a list of such rows ("partition_id" and
\* "partition" may stand for each other, but only one of them is used).
ListRowsFails ==
    /\ cmd.kind \in PartsKinds
    /\ ListingFails
    /\ IF cmd.json THEN UNCHANGED faults ELSE Fault
    /\ UNCHANGED partVars

---------------------------------------------------------------------------
(* What the server does with a query: the sets of parts that may result, none *)
(* if it refuses the query.                                                   *)

Become(old, new) == {(parts \ old) \cup new}

AttachPart(p) ==
    IF p \in parts /\ p.state = "detached" /\ p.reason = "" /\ p.try = 0
    THEN Become({p}, {[p EXCEPT !.state = "active"]}) ELSE {}

DetachPart(p) ==
    IF p \in parts /\ p.state = "active"
    THEN Become({p}, {[p EXCEPT !.state = "detached"]}) ELSE {}

DropPart(p) == IF p \in parts /\ p.state = "active" THEN Become({p}, {}) ELSE {}

DropDetachedPart(p) == IF p \in parts /\ p.try = 0 THEN Become({p}, {}) ELSE {}

\* remove_from_ch_disk removes the directory, whatever its name is, or does not:
\* nobody reads its return code.
DropDetachedPartFromDisk(p) == {parts} \cup Become({p}, {})

HasSuffix(p) == p.try \in 1..9

\* With --async the query returns before the part is moved, if it ever is.
MovePart(p, disk) ==
    IF p \in parts /\ p.state = "active" /\ p.disk # disk
    THEN Become({p}, {[p EXCEPT !.disk = disk]}) \cup (IF cmd.sync THEN {} ELSE {parts})
    ELSE {}

HasPrefix(p) == p.reason = cmd.reason /\ p.reason # ""

\* The directory is renamed under the server; a prefix that is not there, and a
\* directory that is gone, raise.
RemovePrefix(p) ==
    IF p \in parts /\ HasPrefix(p)
    THEN Become({p}, {[p EXCEPT !.reason = ""]}) ELSE {}

\* ATTACH PARTITION takes every part that its name allows, also those that were
\* detached before the command.
Attachable(q) == {p \in In(q, "detached") : p.reason = "" /\ p.try = 0}

AttachPartition(q) ==
    Become(Attachable(q), {[p EXCEPT !.state = "active"] : p \in Attachable(q)})

DetachPartition(q) ==
    Become(In(q, "active") \cup In(q, "outdated"),
           {[p EXCEPT !.state = "detached"] : p \in In(q, "active")})

DropPartition(q) == Become(In(q, "active") \cup In(q, "outdated"), {})

OptimizePartition(q) ==
    {parts} \cup {(parts \ In(q, "active")) \cup
        {[p EXCEPT !.state = "outdated"] : p \in In(q, "active")} \cup
        {[l EXCEPT !.rows = UNION {p.rows : p \in In(q, "active")}]} :
            l \in {p \in In(q, "active") : Cardinality(In(q, "active")) > 1}}

\* Mutated: the part is moved to the table instead of the disk.
MovePartitionToDisk(q, table) ==
    IF q.table = table THEN {}
    ELSE Become(In(q, "active"), {[p EXCEPT !.disk = table] : p \in In(q, "active")})

MovePartition(q, table) ==
    IF q.table = table THEN {}
    ELSE Become(In(q, "active"), {[p EXCEPT !.table = table] : p \in In(q, "active")})

---------------------------------------------------------------------------
(* The rows of the list *)

Change(effects) ==
    /\ parts' \in effects
    /\ touched' = touched \cup (parts \ parts')

\* What raises in a dry run too: check_table reads the rows of the answer, and there is
\* none; and the prefix of a directory is looked at before anything is renamed.
DryRunRaises(r) ==
    cmd.dry /\ \/ cmd.kind \in {"check_parts", "check_partitions"}
               \/ cmd.kind = "remove_prefix" /\ ~HasPrefix(r)

\* Mutated: --dry-run is not passed on to the queries that delete.
QueryOrDelete(effects) == IF cmd.dry /\ cmd.kind \notin DeleteKinds THEN {parts} ELSE effects

\* With --dry-run the query is printed instead.
Query(effects) == IF cmd.dry THEN {parts} ELSE effects

\* Row r of a command with one query per row: the query is done, or refused, or
\* fails as far as the client can see.
RowQuery(kind, r, effects) ==
    /\ cmd.kind = kind
    /\ MayBegin(r)
    /\ \/ ~DryRunRaises(r) /\ Change(Query(effects)) /\ Succeeds(r) /\ UNCHANGED faults
       \/ (Query(effects) = {} \/ DryRunRaises(r)) /\ Change({parts}) /\ Fails(r) /\ UNCHANGED faults
       \/ ~cmd.dry /\ Change({parts} \cup effects) /\ Fails(r) /\ Fault
    /\ UNCHANGED <<snapshot, reported, took, served>>

attach_parts_command(p) == RowQuery("attach_parts", p, AttachPart(p))
detach_parts_command(p) == RowQuery("detach_parts", p, DetachPart(p))
delete_parts_command(p) ==
    \/ RowQuery("delete_parts", p, DropPart(p))
    \/ RowQuery("delete_detached_parts", p,
                IF HasSuffix(p) THEN DropDetachedPartFromDisk(p) ELSE DropDetachedPart(p))
move_parts_command(p) == RowQuery("move_parts", p, MovePart(p, cmd.to))
remove_detached_part_prefix(p) == RowQuery("remove_prefix", p, RemovePrefix(p))
check_parts_command(p) == RowQuery("check_parts", p, {parts})

attach_partitions_command(q) == RowQuery("attach_partitions", q, AttachPartition(q))
detach_partitions_command(q) == RowQuery("detach_partitions", q, DetachPartition(q))
delete_partitions_command(q) == RowQuery("delete_partitions", q, DropPartition(q))
optimize_partitions_command(q) == RowQuery("optimize_partitions", q, OptimizePartition(q))
materialize_ttl_command(q) == RowQuery("materialize_ttl", q, {parts})
check_partitions_command(q) == RowQuery("check_partitions", q, {parts})
move_partitions_command(q) == RowQuery("move_partitions", q, MovePartition(q, cmd.to))

\* reattach_partitions_command: DETACH PARTITION ...
ReattachDetach(q) ==
    LET effects == IF cmd.dry THEN {parts} ELSE DetachPartition(q)
    IN  /\ cmd.kind = "reattach_partitions"
        /\ MayBegin(q)
        /\ \/ Change(effects) /\ Begin(q, [step |-> "attach"]) /\ UNCHANGED faults
           \/ ~cmd.dry /\ Change({parts} \cup effects) /\ Fails(q) /\ Fault
        /\ took' = took \cup UNION {p.rows : p \in {d \in parts \ parts' : d.state = "active"}}
        /\ UNCHANGED <<snapshot, reported, served>>

\* ... and then ATTACH PARTITION, which may fail when some parts are attached.
ReattachAttach(q) ==
    /\ cmd.kind = "reattach_partitions"
    /\ IsAt(q, "attach")
    /\ \/ /\ Change(IF cmd.dry THEN {parts} ELSE AttachPartition(q))
          /\ Succeeds(q)
          /\ UNCHANGED faults
       \/ /\ ~cmd.dry /\ Fault
          /\ \E some \in SUBSET Attachable(q) :
                Change(Become(some, {[p EXCEPT !.state = "active"] : p \in some}))
          /\ Fails(q)
    /\ UNCHANGED <<snapshot, reported, took, served>>

\* detect_broken_partitions: the walk goes on while the server changes the parts, so
\* that it may miss a part that came after it began; a part that is gone is skipped;
\* without --detach and --reattach the partition is only printed.  The request for a
\* blob and the query for the partition may raise, but nobody looks at whether the
\* ten attempts to detach were in vain.
DetectBroken(q) ==
    /\ cmd.kind = "detect_broken"
    /\ MayBegin(q)
    /\ \/ /\ BrokenParts(q) \cap snapshot = {}
          /\ Change({parts}) /\ Succeeds(q) /\ UNCHANGED <<faults, reported>>
       \/ Change({parts}) /\ Fails(q) /\ Fault /\ UNCHANGED reported
       \/ /\ BrokenParts(q) # {}
          /\ reported' = reported \cup {q}
          /\ IF cmd.dry
             THEN Change({parts}) /\ Succeeds(q) /\ UNCHANGED faults
             ELSE /\ \/ Change(DetachPartition(q)) /\ UNCHANGED faults
                     \/ Change({parts} \cup DetachPartition(q)) /\ Fault
                  /\ IF cmd.attach THEN Begin(q, [step |-> "attach"]) ELSE Succeeds(q)
    /\ took' = took \cup UNION {p.rows : p \in {d \in parts \ parts' : d.state = "active"}}
    /\ UNCHANGED <<snapshot, served>>

\* ... nor at the twenty attempts to attach.
DetectAttach(q) ==
    /\ cmd.kind = "detect_broken"
    /\ IsAt(q, "attach")
    /\ \/ Change(AttachPartition(q)) /\ UNCHANGED faults
       \/ \E some \in SUBSET Attachable(q) :
            Change(Become(some, {[p EXCEPT !.state = "active"] : p \in some})) /\ Fault
    /\ Succeeds(q)
    /\ UNCHANGED <<snapshot, reported, took, served>>

\* Mutated: the partitions that failed are printed when the loop was left early.
ReportedOfLimit == IF LimitOfErrorsReached THEN failed ELSE {}

\* The partitions that failed are printed, unless an exception leaves the loop.
Reported == failed

FinishParts ==
    /\ cmd.kind \in PartsKinds
    /\ Finish
    /\ reported' = CASE cmd.kind = "reattach_partitions" -> Reported
                     [] cmd.kind = "detect_broken" -> reported
                     [] OTHER -> {}
    /\ UNCHANGED <<parts, snapshot, touched, took, served>>

KillParts ==
    /\ cmd.kind \in PartsKinds
    /\ Kill
    /\ UNCHANGED partVars

---------------------------------------------------------------------------
(* The server on its own *)

Background ==
    /\ cmd.kind \in PartsKinds /\ ~Ended
    /\ served < MaxServer
    /\ served' = served + 1
    /\ UNCHANGED <<loopVars, snapshot, reported, touched, took>>

Merge ==
    /\ Background
    /\ \E q \in Partition :
        /\ Cardinality(In(q, "active")) > 1
        /\ parts' \in OptimizePartition(q) \ {parts}

\* The parts that a merge made obsolete are removed some time later.
RemoveOutdated ==
    /\ Background
    /\ \E p \in parts : p.state = "outdated" /\ parts' = parts \ {p}

Insert ==
    /\ Background
    /\ \E r \in Rows \ UNION {p.rows : p \in parts \cup touched},
          q \in [table : {p.table : p \in snapshot}, partition : Partitions], d \in Disks :
        parts' = parts \cup {[table |-> q.table, partition |-> q.partition, rows |-> {r},
                              disk |-> d, state |-> "active", reason |-> "", try |-> 0]}

PartsInit ==
    /\ parts \in InitParts
    /\ snapshot = parts
    /\ reported = {} /\ touched = {} /\ took = {}
    /\ served = 0

PartsNext ==
    \/ ListRows \/ ListRowsFails \/ FinishParts \/ KillParts
    \/ \E r \in listed :
        \/ attach_parts_command(r) \/ detach_parts_command(r) \/ delete_parts_command(r)
        \/ move_parts_command(r) \/ remove_detached_part_prefix(r) \/ check_parts_command(r)
        \/ attach_partitions_command(r) \/ detach_partitions_command(r)
        \/ delete_partitions_command(r) \/ optimize_partitions_command(r)
        \/ materialize_ttl_command(r) \/ check_partitions_command(r)
        \/ move_partitions_command(r) \/ ReattachDetach(r) \/ ReattachAttach(r)
        \/ DetectBroken(r) \/ DetectAttach(r)
    \/ Merge \/ RemoveOutdated \/ Insert
---------------------------------------------------------------------------
(* Properties *)

\* Every variable keeps its type: a row of the list is a part or a partition, and
\* only the commands that reattach are ever between two queries of a row.
PartsTypeOK ==
    /\ parts \subseteq Part /\ snapshot \subseteq Part /\ touched \subseteq Part
    /\ took \subseteq Rows /\ reported \subseteq Partition
    /\ cmd.kind \in PartKinds => listed \subseteq Part /\ at = <<>>
    /\ cmd.kind \in PartitionKinds =>
        listed \subseteq Partition /\ (at # <<>> => cmd.kind \in {"reattach_partitions", "detect_broken"})

Live == {p \in parts : p.state # "outdated"}
RowsOf(ps) == UNION {p.rows : p \in ps}
Lost == RowsOf(snapshot \cup parts \cup touched) \ RowsOf(Live)

\* No command loses or duplicates data, whatever the server merges and whichever
\* query fails after it was done, except what a delete command has in its list:
\* the rows of its parts, or all rows of its partitions (partition_group.py:653,
\* part_group.py:444).
RowsAreKept ==
    /\ \A p, q \in Live : p # q => p.rows \cap q.rows = {}
    /\ \A r \in Lost :
        /\ cmd.kind \in DeleteKinds /\ ~cmd.dry
        /\ \E x \in listed :
            IF cmd.kind \in PartKinds THEN r \in x.rows
            ELSE \E p \in touched : r \in p.rows /\ PartitionOf(p) = x

LeftDetached ==
    {PartitionOf(p) : p \in {d \in parts : d.state = "detached" /\ d.rows \cap took # {}}}

\* A partition that was detached to be attached again is attached, or it is the one
\* at work when the command is killed, or it failed; and a command that ends without
\* an exception names all of those (partition_group.py:552).  detect-broken-partitions
\* does not know whether it failed, and has noted the partition before.
LeftDetachedIsReported ==
    cmd.kind \in {"reattach_partitions", "detect_broken"} =>
        /\ LeftDetached \subseteq
                IF cmd.kind = "detect_broken" THEN reported ELSE failed \cup DOMAIN at
        /\ phase = "ok" => LeftDetached \subseteq reported
=============================================================================
