------------------------------- MODULE Tables -------------------------------
(***************************************************************************)
(* The commands on tables (cli/table_group.py, internal/table.py,          *)
(* internal/table_metadata_manager.py) and the deletion of replication     *)
(* queue tasks (cli/replication_queue_group.py), which take a table off    *)
(* the server, or its files, in several steps.  None of them goes on after *)
(* an error.  The server may be restarted between two steps.               *)
(***************************************************************************)
EXTENDS Parts, Sequences

CONSTANTS
    Uuids, NoUuid,
    Tasks,          \* tasks of the replication queue
    Engine,         \* "replicated", "plain", "view", "mview" for each table
    SharedId,       \* table_shared_id in ZooKeeper, for each table
    UuidInPath,     \* the replicated tables with {uuid} in their replica path
    InitTables,     \* the tables before the command
    MaxRestarts     \* bound: restarts of the server

VARIABLES
    tables,     \* the tables, see Table
    queue,      \* the tasks in ZooKeeper, for each table
    restarts

tableVars == <<tables, queue, restarts>>

\* A table as the server has it (attached) and as it is on the disks: the uuid in
\* its metadata file (NoUuid: there is no file), the flag of a permanent DETACH,
\* the link in data/, the directories store/<uuid>, and its replica in ZooKeeper.
Table == [attached : BOOLEAN, meta : Uuids \cup {NoUuid}, flag : BOOLEAN, link : BOOLEAN,
          dirs : [Disks -> Uuids \cup {NoUuid}], replica : BOOLEAN]

LoopKinds == {"delete_tables", "recreate", "detach_tables", "reattach_tables",
              "materialize_ttl_tables", "set_flag", "change_uuid", "queue_delete",
              "check_tables"}
OneTableKinds == {"attach_table", "delete_detached_table"}
TableKinds == LoopKinds \cup OneTableKinds
NoDryRun == {"change_uuid", "set_flag", "queue_delete", "delete_detached_table"}

TableRow == [name : Tables, tasks : SUBSET Tasks]
Row(t, tasks) == [name |-> t, tasks |-> tasks]

Attached == {t \in Tables : tables[t].attached}
NoTable == [attached |-> FALSE, meta |-> NoUuid, flag |-> FALSE, link |-> FALSE,
            dirs |-> [d \in Disks |-> NoUuid], replica |-> FALSE]

\* A table that has no metadata file is not there, or is being removed; every
\* directory of the others is named after their uuid, and views have none.  The
\* server does not start with a table that was detached permanently.  None of the
\* commands has --keep-going, and some have no --dry-run.
ASSUME TablesAssumption ==
    /\ NoUuid \notin Uuids /\ IsFiniteSet(Disks) /\ "local" \in Disks
    /\ SharedId \in [Tables -> Uuids]
    /\ InitTables \subseteq [Tables -> Table]
    /\ \A ts \in InitTables : \A t \in Tables :
        /\ ts[t].meta = NoUuid => ts[t] = NoTable
        /\ \A d \in Disks : ts[t].dirs[d] \in {NoUuid, ts[t].meta}
        /\ Engine[t] \notin {"replicated", "plain"} => ts[t].dirs = NoTable.dirs
        /\ ts[t].flag => ~ts[t].attached
    /\ \A c \in Commands :
        /\ c.uuid \in Uuids \cup {NoUuid} /\ c.all \in BOOLEAN
        /\ c.kind \in TableKinds => ~c.keepGoing
        /\ c.kind \in NoDryRun => ~c.dry

Update(t, new) == tables' = [tables EXCEPT ![t] = new]
TableAt(r) == tables[r.name]

---------------------------------------------------------------------------
(* The lists *)

\* list_tables with the names and patterns of the command.
ListTables(engines) == {t \in Attached \cap cmd.tables : Engine[t] \in engines}

Engines == {"replicated", "plain", "view", "mview"}

TableRows ==
    CASE cmd.kind = "queue_delete" ->
            {Row(t, queue[t]) : t \in {a \in Attached \cap cmd.tables : queue[a] # {}}}
      [] cmd.kind \in OneTableKinds -> {Row(t, {}) : t \in cmd.tables}
      [] cmd.kind = "check_tables" \/ (cmd.kind = "change_uuid" /\ cmd.all) ->
            {Row(t, {}) : t \in ListTables({"replicated", "plain"})}
      [] cmd.kind = "change_uuid" -> {Row(t, {}) : t \in cmd.tables}
      [] OTHER -> {Row(t, {}) : t \in ListTables(Engines)}

\* set_flag_command takes the first data path of every table, and views have none.
NoDataPath == cmd.kind = "set_flag" /\ ListTables({"view"}) # {}

ListTableRows ==
    /\ cmd.kind \in TableKinds
    /\ ~NoDataPath
    /\ Listing({TableRows})
    /\ UNCHANGED <<partVars, tableVars>>

ListTableRowsFails ==
    /\ cmd.kind \in TableKinds
    /\ ListingFails
    /\ IF NoDataPath THEN UNCHANGED faults ELSE Fault
    /\ UNCHANGED <<partVars, tableVars>>

---------------------------------------------------------------------------
(* The queries: a step of row r that the server does, refuses, or does although *)
(* the client gets no answer.                                                   *)

\* The step from the state where possible holds; Then(r) follows it.
Do(r, possible, new, next) ==
    \/ /\ cmd.dry \/ possible
       /\ IF cmd.dry THEN UNCHANGED tables ELSE Update(r.name, new)
       /\ next
       /\ UNCHANGED faults
    \/ /\ ~cmd.dry /\ ~possible
       /\ Fails(r)
       /\ UNCHANGED <<tables, faults>>
    \/ /\ ~cmd.dry /\ possible /\ Fault
       /\ Update(r.name, new) \/ UNCHANGED tables
       /\ Fails(r)

Detached(t) == [tables[t] EXCEPT !.attached = FALSE]
AttachedAgain(t) == [tables[t] EXCEPT !.attached = TRUE, !.flag = FALSE]
CanAttach(t) == ~tables[t].attached /\ tables[t].meta # NoUuid

\* The first step of a row of a command with a single query, or with several.
First(r, kind, possible, new, next) ==
    /\ cmd.kind = kind
    /\ MayBegin(r)
    /\ Do(r, possible, new, next)
    /\ UNCHANGED <<partVars, queue, restarts>>

Step(r, kind, step, possible, new, next) ==
    /\ cmd.kind = kind
    /\ IsAt(r, step)
    /\ Do(r, possible, new, next)
    /\ UNCHANGED <<partVars, queue, restarts>>

\* delete_table: DROP TABLE IF EXISTS.
DeleteTable(r) == First(r, "delete_tables", TRUE, NoTable, Succeeds(r))

DetachTable(r) == First(r, "detach_tables", TableAt(r).attached, Detached(r.name), Succeeds(r))

AttachTable(r) == First(r, "attach_table", CanAttach(r.name), AttachedAgain(r.name), Succeeds(r))

HasData(t) == tables[t].attached /\ Engine[t] # "view"

\* ALTER TABLE MATERIALIZE TTL.
MaterializeTtl(r) ==
    First(r, "materialize_ttl_tables", HasData(r.name), TableAt(r), Succeeds(r))

\* The flag file in the first data path of the table.
SetFlag(r) == First(r, "set_flag", HasData(r.name), TableAt(r), Succeeds(r))

\* CHECK TABLE, whose answer check_table reads in a dry run as well, where there is
\* none.
CheckTable(r) ==
    ~cmd.dry /\ First(r, "check_tables", HasData(r.name), TableAt(r), Succeeds(r))

CheckDryRun(r) ==
    /\ cmd.kind = "check_tables" /\ cmd.dry
    /\ MayBegin(r) /\ Fails(r)
    /\ UNCHANGED <<partVars, tableVars, faults>>

\* recreate_command: the table is dropped, and created with the statement that was
\* read with the list.
Recreate(r) ==
    \/ First(r, "recreate", TRUE, NoTable, Begin(r, [step |-> "create"]))
    \/ \E u \in Uuids \ UNION {{tables[t].meta} \cup Range(tables[t].dirs) : t \in Tables} :
        Step(r, "recreate", "create", TableAt(r).meta = NoUuid,
              [attached |-> TRUE, meta |-> u, flag |-> FALSE, link |-> TRUE,
               dirs |-> [d \in Disks |-> IF d = "local" THEN u ELSE NoUuid],
               replica |-> Engine[r.name] = "replicated"], Succeeds(r))

\* reattach_command.
Reattach(r) ==
    \/ First(r, "reattach_tables", TableAt(r).attached, Detached(r.name),
             Begin(r, [step |-> "attach"]))
    \/ Step(r, "reattach_tables", "attach", CanAttach(r.name), AttachedAgain(r.name), Succeeds(r))

\* delete_command of the replication queue: the tasks that were listed before the
\* table is detached are deleted one by one.
QueueDelete(r) ==
    \/ First(r, "queue_delete", TableAt(r).attached, Detached(r.name),
             Begin(r, [step |-> "tasks", left |-> r.tasks]))
    \/ /\ cmd.kind = "queue_delete"
       /\ IsAt(r, "tasks") /\ at[r].left # {}
       /\ \E task \in at[r].left :
            \/ /\ GoTo(r, [at[r] EXCEPT !.left = @ \ {task}])
               /\ queue' = [queue EXCEPT ![r.name] = @ \ {task}]
               /\ UNCHANGED faults
            \/ /\ Fails(r) /\ Fault
               /\ queue' \in {queue, [queue EXCEPT ![r.name] = @ \ {task}]}
       /\ UNCHANGED <<partVars, tables, restarts>>
    \/ /\ IsAt(r, "tasks") /\ at[r].left = {}
       /\ Step(r, "queue_delete", "tasks", CanAttach(r.name), AttachedAgain(r.name), Succeeds(r))

---------------------------------------------------------------------------
(* change_uuid_command and TableMetadataManager.change_uuid *)

IsTableEngine(t) == Engine[t] \in {"replicated", "plain"}

\* The uuid given, or the one that the other replicas share.
NewUuid(t) == IF cmd.uuid = NoUuid THEN SharedId[t] ELSE cmd.uuid

\* _verify_possible_change_uuid.
PossibleChange(t) == t \notin UuidInPath

\* The information on the table is read; no uuid can be read for a table that is
\* not replicated, and a table that has the uuid is left alone.
ReadUuid(r) ==
    LET t == r.name
        known == tables[t].attached /\ PossibleChange(t)
                 /\ (cmd.uuid = NoUuid => Engine[t] = "replicated")
    IN  /\ cmd.kind = "change_uuid"
        /\ MayBegin(r)
        /\ \/ /\ known
              /\ IF IsTableEngine(t) /\ tables[t].meta = NewUuid(t) THEN Succeeds(r)
                 ELSE Begin(r, [step |-> IF Engine[t] = "view" THEN "file" ELSE "detach",
                                old |-> tables[t].meta, new |-> NewUuid(t)])
              /\ UNCHANGED faults
           \/ ~known /\ Fails(r) /\ UNCHANGED faults
           \/ known /\ Fails(r) /\ Fault
        /\ UNCHANGED <<partVars, tableVars>>

DetachToChange(r) ==
    Step(r, "change_uuid", "detach", TableAt(r).attached, Detached(r.name),
          GoTo(r, [at[r] EXCEPT !.step = "file"]))

\* update_uuid, which is all there is to do for a view.
UpdateUuid(r) ==
    /\ IsAt(r, "file")
    /\ Step(r, "change_uuid", "file", TableAt(r).meta # NoUuid,
             [TableAt(r) EXCEPT !.meta = at[r].new],
             IF IsTableEngine(r.name) THEN GoTo(r, [at[r] EXCEPT !.step = "move"]) ELSE Succeeds(r))

\* move_table_store renames the directory of the local disk, and no other.
MoveTableStore(r) ==
    /\ IsAt(r, "move")
    /\ Step(r, "change_uuid", "move",
             /\ TableAt(r).dirs["local"] = at[r].old
             /\ \A t \in Tables : tables[t].dirs["local"] # at[r].new,
             [TableAt(r) EXCEPT !.dirs["local"] = at[r].new], Succeeds(r))

---------------------------------------------------------------------------
(* delete_detached_table *)

\* Mutated: the metadata file is removed first.
RemovalStartsWithFile == <<"file", "data", "zk", "link", "flag">>

Removal == <<"data", "zk", "link", "flag", "file">>

\* check_table_dettached asks the server, and nobody keeps it from attaching the table
\* afterwards.
IsDetached(t) == ~tables[t].attached

\* The table is not attached, and its metadata file is there and can be parsed.
CheckDetached(r) ==
    LET t == TableAt(r)
    IN  /\ First(r, "delete_detached_table",
                 IsDetached(r.name) /\ t.meta # NoUuid /\ IsTableEngine(r.name), t,
                 Begin(r, [step |-> "remove", n |-> 1, uuid |-> t.meta, disks |-> Disks]))

\* What is left of the tables when something is removed.
RemoveDir(u, d) ==
    [t \in Tables |-> IF tables[t].dirs[d] = u THEN [tables[t] EXCEPT !.dirs[d] = NoUuid]
                      ELSE tables[t]]
Without(t, what) ==
    CASE what = "zk" -> [t EXCEPT !.replica = FALSE]
      [] what = "link" -> [t EXCEPT !.link = FALSE]
      [] what = "flag" -> [t EXCEPT !.flag = FALSE]
      [] what = "file" -> [t EXCEPT !.meta = NoUuid]

\* clickhouse-disks removes the directory from one disk after the other, then
\* clean_zk_metadata_for_hosts the replica, and then the files are removed.
RemoveNext(r) ==
    LET here == at[r]
        what == Removal[here.n]
        data == what = "data"
        last == here.n = Len(Removal)
        then == IF data /\ Cardinality(here.disks) > 1 THEN here.n ELSE here.n + 1
    IN  /\ cmd.kind = "delete_detached_table"
        /\ IsAt(r, "remove")
        /\ \E d \in (IF data THEN here.disks ELSE {"local"}) :
            LET after == IF data THEN RemoveDir(here.uuid, d)
                         ELSE [tables EXCEPT ![r.name] = Without(@, what)]
            IN  \/ /\ tables' = after
                   /\ IF last THEN Succeeds(r)
                      ELSE GoTo(r, [here EXCEPT !.n = then, !.disks = @ \ {d}])
                   /\ UNCHANGED faults
                \/ tables' \in {tables, after} /\ Fails(r) /\ Fault
        /\ UNCHANGED <<partVars, queue, restarts>>

---------------------------------------------------------------------------
FinishTables ==
    /\ cmd.kind \in TableKinds
    /\ Finish
    /\ UNCHANGED <<partVars, tableVars>>

KillTables ==
    /\ cmd.kind \in TableKinds
    /\ Kill
    /\ UNCHANGED <<partVars, tableVars>>

\* The server starts with every table that has a metadata file and no flag.
Restart ==
    /\ cmd.kind \in TableKinds
    /\ restarts < MaxRestarts
    /\ restarts' = restarts + 1
    /\ tables' = [t \in Tables |-> [tables[t] EXCEPT
                    !.attached = tables[t].meta # NoUuid /\ ~tables[t].flag]]
    /\ UNCHANGED <<loopVars, partVars, queue>>

\* A task of the queue is executed, which removes its node.
ExecuteTask ==
    /\ cmd.kind = "queue_delete" /\ ~Ended
    /\ \E t \in Attached : \E task \in queue[t] : queue' = [queue EXCEPT ![t] = @ \ {task}]
    /\ UNCHANGED <<loopVars, partVars, tables, restarts>>

TablesInit ==
    /\ tables \in InitTables
    /\ queue = [t \in Tables |-> IF cmd.kind = "queue_delete" THEN Tasks ELSE {}]
    /\ restarts = 0

TableStep(r) ==
    \/ DeleteTable(r) \/ DetachTable(r) \/ AttachTable(r)
    \/ MaterializeTtl(r) \/ SetFlag(r) \/ CheckTable(r) \/ CheckDryRun(r)
    \/ Recreate(r) \/ Reattach(r) \/ QueueDelete(r)
    \/ ReadUuid(r) \/ DetachToChange(r) \/ UpdateUuid(r) \/ MoveTableStore(r)
    \/ CheckDetached(r) \/ RemoveNext(r)

TablesNext ==
    \/ ListTableRows \/ ListTableRowsFails \/ FinishTables \/ KillTables
    \/ \E r \in listed : TableStep(r)
    \/ Restart \/ ExecuteTask

---------------------------------------------------------------------------
(* Properties *)

TablesTypeOK ==
    /\ tables \in [Tables -> Table]
    /\ queue \in [Tables -> SUBSET Tasks]
    /\ cmd.kind \in TableKinds => listed \subseteq TableRow /\ Cardinality(DOMAIN at) <= 1

\* A table whose metadata file is gone has left nothing behind: no directory, no
\* replica in ZooKeeper, no link, no flag.  delete --detached removes the file last
\* (table.py:506), so that it can be run again after it failed or was killed.
MetadataIsRemovedLast ==
    \A t \in Tables : tables[t].meta = NoUuid =>
        [tables[t] EXCEPT !.attached = FALSE] = NoTable

\* A row whose table is not as the command should leave it: still detached, not
\* created again, or with a uuid under which the local disk has no data.
Broken(r) ==
    LET t == TableAt(r)
    IN  CASE cmd.kind \in {"reattach_tables", "queue_delete"} -> ~t.attached
          [] cmd.kind = "recreate" -> t.meta = NoUuid
          [] cmd.kind = "change_uuid" -> t.dirs["local"] \notin {NoUuid, t.meta}
          [] OTHER -> FALSE

\* However a command ends, at most one of its tables is broken, and it is the one
\* that was at work or that the error is about (table_group.py:428, 650,
\* replication_queue_group.py:166, table_metadata_manager.py:219).
OneTableAtATime ==
    /\ {r \in listed : Broken(r)} \subseteq failed \cup DOMAIN at
    /\ Cardinality({r \in listed : Broken(r)}) <= 1

\* When the uuid of a table is changed, all its data is moved to the new uuid
\* (table_metadata_manager.py:166: "Change table UUID in metadata and move table
\* store").  It does not hold: only the local directory is moved.
ChangeMovesAllData ==
    cmd.kind = "change_uuid" =>
        \A r \in done : \A d \in Disks : TableAt(r).dirs[d] \in {NoUuid, TableAt(r).meta}
=============================================================================
