-------------------------- MODULE DatabaseMigration --------------------------
(***************************************************************************)
(* `chadmin database migrate` and `chadmin database restore-replica` on    *)
(* the hosts of one database: DatabaseMigrator and AttacherContext         *)
(* (database_migration.py), change_uuid (table_metadata_manager.py),       *)
(* the metadata file (database_metadata.py), and the fallback for servers  *)
(* that have no SYSTEM RESTORE DATABASE REPLICA (database_replica.py).     *)
(* The hosts share ZooKeeper and run concurrently; a command may be killed *)
(* at any step; queries and file operations may fail, and a request to the *)
(* server or to ZooKeeper may fail after it had its effect; DDL may change *)
(* tables while a command runs.                                            *)
(***************************************************************************)
EXTENDS DatabaseLock, Naturals, FiniteSets

CONSTANTS
    Tables, NoTable,
    Views,        \* the tables that own no directory under store/
    Pinned,       \* replicated tables with {uuid} in their replica path
    Schemas,
    Common,       \* the uuid a table has on every host when it was created
                  \* ON CLUSTER or by the Replicated database
    HasRestore,   \* ClickHouse 25.8 or later
    Commands,     \* which commands are run
    Forces,       \* the values of --force-remove-lock that are used
    InitEngines,  \* the engines the database may start with
    MaxCommands, MaxCrashes, MaxDdl

ASSUME MigrationAssumption ==
    /\ IsFiniteSet(Replicas) /\ Replicas # {}
    /\ NoTable \notin Tables
    /\ Views \subseteq Tables
    /\ Pinned \subseteq Tables \ Views
    /\ HasRestore \in BOOLEAN
    /\ Commands \subseteq {"to_replicated", "to_atomic", "to_atomic_clean",
                           "restore_replica"}
    /\ Forces \subseteq BOOLEAN
    /\ InitEngines \subseteq {"Atomic", "Replicated"}
    /\ MaxCommands \in Nat /\ MaxCrashes \in Nat /\ MaxDdl \in Nat

Uuids == Replicas \cup {Common}
\* A table on a host: the uuid in its metadata file, the uuid its directory
\* under store/ is named after, and its schema.
Row == [uuid: Uuids, store: Uuids, schema: Schemas]
\* A table in ZooKeeper: the CREATE TABLE statement under metadata/.
ZkRow == [uuid: Uuids, schema: Schemas]
NoRow == NoTable

\* No row of a table is the absence of one.
ASSUME RowAssumption == NoRow \notin Row \cup ZkRow

VARIABLES
    zkTab,      \* the nodes of metadata/ in ZooKeeper
    digest,     \* the digest node of each replica: "absent", "zero" or "set"
    seq,        \* the sequence number the next node of counter/ gets
    firstLog,   \* whether log/query-0000000001 exists
    engine,     \* the ENGINE line of each host's database metadata file
    attached,   \* whether the server of each host has the database attached
    tab,        \* the tables of each host
    cmd,        \* the command each host runs, or ran last
    ticket,     \* what _generate_counter returned to each command
    todo,       \* tables _sync_table_uuids still has to look at
    moving,     \* the table change_uuid is moving, with its old uuid
    changed,    \* was_changed of _sync_table_uuids
    suspect,    \* history: the tables of the host may have changed after they
                \* were compared with ZooKeeper, or a command was cut short
                \* after it made the database Replicated
    damaged,    \* history: --clean-zookeeper has deleted some of the
                \* database from ZooKeeper, and not yet its node
    spent       \* commands started, kills and DDL statements so far

zkVars == <<zkTab, digest, seq, firstLog>>
hostVars == <<engine, attached, tab>>
procVars == <<cmd, ticket, todo, moving, changed>>
historyVars == <<suspect, damaged, spent>>
vars == <<lockVars, zkVars, hostVars, procVars, historyVars>>

-----------------------------------------------------------------------------
(* What the commands check *)

LocalTables(r) == {t \in Tables : tab[r][t] # NoRow}
\* The statement that is written to metadata/.  A mutant: as it is on disk.
AsOnDisk(row) == row
AsZkRow(row) == IF row = NoRow THEN NoRow
                ELSE [uuid |-> row.uuid, schema |-> row.schema]

\* _check_schemas_in_cluster_for_first_replica (views are not compared)
SchemasEqualInCluster(r) ==
    zkRoot \/ \A t \in LocalTables(r) \ Views : \A s \in Replicas :
                 tab[s][t] # NoRow => tab[s][t].schema = tab[r][t].schema

\* _check_replica_digest
DigestUnused(r) == digest[r] # "set"

\* _check_tables_consistency
TablesMatchZk(r) ==
    zkRoot => \A t \in LocalTables(r) :
                 zkTab[t] # NoRow /\ zkTab[t].schema = tab[r][t].schema

\* _run_pre_migration_checks before the lock is taken.  The dry run of
\* _sync_table_uuids fails only where _check_tables_consistency fails too.
PreChecks(r, c) ==
    IF c = "to_replicated"
    THEN /\ engine[r] = "Atomic" /\ HasRestore
         /\ SchemasEqualInCluster(r) /\ DigestUnused(r) /\ TablesMatchZk(r)
    ELSE engine[r] = "Replicated"

-----------------------------------------------------------------------------
(* The commands *)

\* The command starts: the database must be known to the server, and the
\* checks that precede the lock must pass.  A command that does not pass
\* them changes nothing and is not shown.
Start(r, c, force) ==
    /\ pc[r] = "idle" /\ spent.commands < MaxCommands
    /\ attached[r] /\ PreChecks(r, c)
    /\ cmd' = [cmd EXCEPT ![r] = c]
    /\ Goto(r, IF c \in {"to_atomic", "to_atomic_clean"} THEN "detach"
               ELSE IF force THEN "force" ELSE "acquire")
    /\ exc' = [exc EXCEPT ![r] = FALSE]
    /\ ticket' = [ticket EXCEPT ![r] = 0]
    /\ todo' = [todo EXCEPT ![r] = {}]
    /\ moving' = [moving EXCEPT ![r] = NoTable]
    /\ changed' = [changed EXCEPT ![r] = FALSE]
    /\ spent' = [spent EXCEPT !.commands = @ + 1]
    /\ UNCHANGED <<lock, zkParent, zkRoot, first, zkVars, hostVars, suspect,
                   damaged>>

\* __enter__ and __exit__ of the lock.  Only an Atomic database has no path
\* of its own, so only migrate makes sure that the parent exists.
TakeLock(r) ==
    /\ Enter(r, cmd[r] = "to_replicated")
    /\ UNCHANGED <<zkVars, hostVars, procVars, historyVars>>

Finish(r) ==
    /\ Exit(r)
    /\ suspect' = [suspect EXCEPT ![r] =
          @ \/ (exc[r] /\ cmd[r] = "to_replicated" /\ engine[r] = "Replicated")]
    /\ UNCHANGED <<zkVars, hostVars, procVars, damaged, spent>>

\* Mutant: restore-replica always takes the fallback.
NeverUsesRestore == FALSE
UsesRestore == HasRestore

\* The body of each command, inside the lock.  migrate repeats the digest
\* and consistency checks and remembers the tables it saw.  The queries
\* before that may fail.
Body(r) ==
    /\ pc[r] = "body"
    /\ \/ /\ cmd[r] = "to_replicated"
          /\ DigestUnused(r) /\ TablesMatchZk(r)
          /\ todo' = [todo EXCEPT ![r] = LocalTables(r)]
          /\ suspect' = [suspect EXCEPT ![r] = FALSE]
          /\ Goto(r, "detach") /\ UNCHANGED exc
       \/ /\ cmd[r] # "to_replicated"
          /\ Goto(r, IF UsesRestore THEN "restore"
                     ELSE IF first[r] THEN "structure" ELSE "counter")
          /\ UNCHANGED <<todo, suspect, exc>>
       \/ Raise(r, "unlock") /\ UNCHANGED <<todo, suspect>>
    /\ UNCHANGED <<lock, zkParent, zkRoot, first, zkVars, hostVars,
                   cmd, ticket, moving, changed, damaged, spent>>

\* DETACH and ATTACH DATABASE: the query fails without or after its effect,
\* or succeeds and the command goes on at `label`.
SetAttached(r, is, label, failed) ==
    \/ /\ attached' = [attached EXCEPT ![r] = is]
       /\ Goto(r, label) /\ UNCHANGED exc
    \/ /\ attached' \in {attached, [attached EXCEPT ![r] = is]}
       /\ Raise(r, failed)

\* AttacherContext.__enter__: if it raises, __exit__ does not run.
Detach(r) ==
    /\ pc[r] = "detach"
    /\ SetAttached(r, FALSE, "rewrite", "unlock")
    /\ UNCHANGED <<lock, zkParent, zkRoot, first, zkVars, engine, tab,
                   procVars, historyVars>>

\* set_replicated and set_atomic.  A replica that is not the first goes on to
\* _sync_table_uuids, which does nothing when the database node is missing.
Rewrite(r) ==
    /\ pc[r] = "rewrite"
    /\ \/ /\ cmd[r] = "to_replicated"
          /\ engine' = [engine EXCEPT ![r] = "Replicated"]
          /\ Goto(r, IF first[r] \/ ~zkRoot THEN "attach" ELSE "sync")
          /\ UNCHANGED exc
       \/ /\ cmd[r] # "to_replicated"
          /\ engine' = [engine EXCEPT ![r] = "Atomic"]
          /\ Goto(r, IF cmd[r] = "to_atomic_clean" THEN "clean" ELSE "attach")
          /\ UNCHANGED exc
       \/ Raise(r, "attach") /\ UNCHANGED engine
    /\ UNCHANGED <<lock, zkParent, zkRoot, first, zkVars, attached, tab,
                   procVars, historyVars>>

\* delete_zk_node on the database path, for --clean-zookeeper.  It lists the
\* nodes and deletes them in transactions, children first; one that fails,
\* because a replica has changed the subtree meanwhile, is done again node by
\* node, with what is below.  So a step deletes some of what is there, and the
\* database node only when nothing is left below it.  (The directories between
\* count as part of the database node: without them the steps of others fail.)
\* It ends when the node is gone, or with an error, which is only logged.
Clean(r) ==
    /\ pc[r] = "clean"
    /\ \E gone \in SUBSET Tables :
          zkTab' = [t \in Tables |-> IF t \in gone THEN NoRow ELSE zkTab[t]]
    /\ \E gone \in SUBSET Replicas :
          digest' = [s \in Replicas |->
                        IF s \in gone THEN "absent" ELSE digest[s]]
    /\ firstLog' \in {firstLog, FALSE}
    /\ \/ /\ zkRoot' = FALSE /\ seq' = 0 /\ damaged' = FALSE
          /\ \A t \in Tables : zkTab'[t] = NoRow
          /\ \A s \in Replicas : digest'[s] = "absent"
          /\ ~firstLog'
          /\ Goto(r, "attach")
       \/ /\ UNCHANGED <<zkRoot, seq>>
          /\ damaged' = (\/ damaged \/ zkTab' # zkTab \/ digest' # digest
                         \/ firstLog' # firstLog)
          /\ pc' \in {pc, [pc EXCEPT ![r] = "attach"]}
    /\ UNCHANGED <<lock, zkParent, first, exc, hostVars, procVars, suspect,
                   spent>>

\* One turn of the loop of _sync_table_uuids, up to update_uuid of
\* change_uuid.  A table missing in ZooKeeper and a pinned table raise, and so
\* does a request that fails.
SyncTable(r, t) ==
    /\ pc[r] = "sync" /\ t \in todo[r]
    /\ todo' = [todo EXCEPT ![r] = @ \ {t}]
    /\ LET old == tab[r][t].uuid IN
       \/ /\ zkTab[t] # NoRow /\ zkTab[t].uuid = old
          /\ UNCHANGED <<tab, pc, exc, moving, changed>>
       \/ /\ zkTab[t] # NoRow /\ zkTab[t].uuid # old /\ t \notin Pinned
          /\ tab' = [tab EXCEPT ![r][t].uuid = zkTab[t].uuid]
          /\ changed' = [changed EXCEPT ![r] = TRUE]
          /\ IF t \in Views
             THEN UNCHANGED <<pc, moving>>
             ELSE /\ moving' = [moving EXCEPT ![r] = [table |-> t, old |-> old]]
                  /\ Goto(r, "move")
          /\ UNCHANGED exc
       \/ Raise(r, "attach") /\ UNCHANGED <<tab, moving, changed>>
    /\ UNCHANGED <<lock, zkParent, zkRoot, first, zkVars, engine, attached,
                   cmd, ticket, historyVars>>

\* Mutants of MoveStore: an error is only logged; an error is not seen by
\* AttacherContext.
MoveStoreAndGoOn(r) ==
    /\ pc[r] = "move"
    /\ Goto(r, "sync")
    /\ moving' = [moving EXCEPT ![r] = NoTable]
    /\ UNCHANGED <<lock, zkParent, zkRoot, first, exc, zkVars, hostVars,
                   cmd, ticket, todo, changed, historyVars>>
MoveStoreOutside(r) ==
    /\ pc[r] = "move"
    /\ Raise(r, "unlock")
    /\ moving' = [moving EXCEPT ![r] = NoTable]
    /\ UNCHANGED <<lock, zkParent, zkRoot, first, zkVars, hostVars,
                   cmd, ticket, todo, changed, historyVars>>

\* move_table_store: the directory must still be named after the old uuid.
\* On an error the new uuid stays in the metadata file.
MoveStore(r) ==
    /\ pc[r] = "move"
    /\ LET t == moving[r].table IN
       \/ /\ tab[r][t].store = moving[r].old
          /\ tab' = [tab EXCEPT ![r][t].store = tab[r][t].uuid]
          /\ Goto(r, "sync") /\ UNCHANGED exc
       \/ Raise(r, "attach") /\ UNCHANGED tab
    /\ moving' = [moving EXCEPT ![r] = NoTable]
    /\ UNCHANGED <<lock, zkParent, zkRoot, first, zkVars, engine, attached,
                   cmd, ticket, todo, changed, historyVars>>

\* A mutant of SyncDone: the loop ends after the first table.
SyncOne(r) ==
    /\ pc[r] = "sync" /\ todo[r] # LocalTables(r)
    /\ Goto(r, IF changed[r] THEN "restart" ELSE "attach")
    /\ UNCHANGED <<lock, zkParent, zkRoot, first, exc, zkVars, hostVars,
                   procVars, historyVars>>

\* The loop of _sync_table_uuids ends; request_restart when a uuid changed.
SyncDone(r) ==
    /\ pc[r] = "sync" /\ todo[r] = {}
    /\ Goto(r, IF changed[r] THEN "restart" ELSE "attach")
    /\ UNCHANGED <<lock, zkParent, zkRoot, first, exc, zkVars, hostVars,
                   procVars, historyVars>>

\* AttacherContext.__exit__: attach, also when an exception is pending.
Attach(r) ==
    /\ pc[r] = "attach"
    /\ SetAttached(r, TRUE,
          IF exc[r] \/ cmd[r] # "to_replicated" THEN "unlock" ELSE "restore",
          "unlock")
    /\ UNCHANGED <<lock, zkParent, zkRoot, first, zkVars, engine, tab,
                   procVars, historyVars>>

\* AttacherContext.__exit__ after request_restart.  A restarted server
\* attaches every database whose metadata file it finds.
Restart(r) ==
    /\ pc[r] = "restart"
    /\ SetAttached(r, TRUE, "restore", "unlock")
    /\ UNCHANGED <<lock, zkParent, zkRoot, first, zkVars, engine, tab,
                   procVars, historyVars>>

\* A request has had its effect: the command goes on at `label`, or gets an
\* error all the same (a timeout, a lost connection).
Answered(r, label) == \/ Goto(r, label) /\ UNCHANGED exc
                      \/ Raise(r, "unlock")

\* SYSTEM RESTORE DATABASE REPLICA (ClickHouse).  A server that finds no
\* database node creates it from its own tables.
Restore(r) ==
    /\ pc[r] = "restore"
    /\ \/ /\ digest[r] = "absent"
          /\ zkRoot' = TRUE /\ zkParent' = TRUE
          /\ zkTab' = IF zkRoot THEN zkTab
                      ELSE [t \in Tables |-> AsZkRow(tab[r][t])]
          /\ digest' = [digest EXCEPT ![r] = "zero"]
          /\ Answered(r, "unlock") /\ UNCHANGED <<seq, firstLog>>
       \/ Raise(r, "unlock") /\ UNCHANGED <<zkRoot, zkParent, zkVars>>
    /\ UNCHANGED <<lock, first, hostVars, procVars, historyVars>>

-----------------------------------------------------------------------------
(* _restore_replica_fallback, for servers before 25.8 *)

\* create_database_structure: one transaction.
CreateStructure(r) ==
    /\ pc[r] = "structure"
    /\ \/ /\ ~zkRoot /\ zkParent
          /\ zkRoot' = TRUE /\ seq' = 1
          /\ Answered(r, "counter")
       \/ Raise(r, "unlock") /\ UNCHANGED <<zkRoot, seq>>
    /\ UNCHANGED <<lock, zkParent, first, zkTab, digest, firstLog, hostVars,
                   procVars, historyVars>>

\* _generate_counter: a sequential node of its own, outside the transaction.
GenerateCounter(r) ==
    /\ pc[r] = "counter"
    /\ \/ /\ zkRoot
          /\ ticket' = [ticket EXCEPT ![r] = seq]
          /\ seq' = seq + 1
          /\ Answered(r, "nodes")
       \/ Raise(r, "unlock") /\ UNCHANGED <<ticket, seq>>
    /\ UNCHANGED <<lock, zkParent, zkRoot, first, zkTab, digest, firstLog,
                   hostVars, cmd, todo, moving, changed, historyVars>>

\* Every replica marks query-0000000001 as finished, so that node must exist
\* or be the one made here.
LogIsThere(r) == firstLog \/ ticket[r] = 1

\* Only the first replica writes metadata/.  A mutant: every replica does.
PublishedByAll(r) == [t \in Tables |-> AsZkRow(tab[r][t])]
Published(r) == IF first[r] THEN [t \in Tables |-> AsZkRow(tab[r][t])]
                ELSE zkTab

\* The transaction of create_replica_nodes.
CreateReplicaNodes(r) ==
    /\ pc[r] = "nodes"
    /\ \/ /\ zkRoot /\ digest[r] = "absent"
          /\ LogIsThere(r)
          /\ firstLog' = (firstLog \/ ticket[r] = 1)
          /\ digest' = [digest EXCEPT ![r] = "zero"]
          /\ zkTab' = Published(r)
          /\ Answered(r, "redetach")
       \/ Raise(r, "unlock") /\ UNCHANGED <<zkTab, digest, firstLog>>
    /\ UNCHANGED <<lock, zkParent, zkRoot, first, seq, hostVars, procVars,
                   historyVars>>

\* detach_database and attach_database at the end of the fallback.
Reattach(r) ==
    /\ \/ /\ pc[r] = "redetach"
          /\ SetAttached(r, FALSE, "reattach", "unlock")
       \/ /\ pc[r] = "reattach"
          /\ SetAttached(r, TRUE, "unlock", "unlock")
    /\ UNCHANGED <<lock, zkParent, zkRoot, first, zkVars, engine, tab,
                   procVars, historyVars>>

-----------------------------------------------------------------------------
(* The environment *)

\* The command is killed.  What it did stays, its lock node included.
Crash(r) ==
    /\ pc[r] # "idle" /\ spent.crashes < MaxCrashes
    /\ Goto(r, "idle")
    /\ first' = [first EXCEPT ![r] = FALSE]
    /\ suspect' = [suspect EXCEPT ![r] =
          @ \/ (cmd[r] = "to_replicated" /\ engine[r] = "Replicated")]
    /\ spent' = [spent EXCEPT !.crashes = @ + 1]
    /\ UNCHANGED <<lock, zkParent, zkRoot, exc, zkVars, hostVars, procVars,
                   damaged>>

\* An operator attaches a database that a failed command left detached.
OperatorAttach(r) ==
    /\ pc[r] = "idle" /\ ~attached[r]
    /\ attached' = [attached EXCEPT ![r] = TRUE]
    /\ UNCHANGED <<lockVars, zkVars, engine, tab, procVars, historyVars>>

\* The server of a registered replica starts and writes its digest.
WorkerDigest(r) ==
    /\ attached[r] /\ engine[r] = "Replicated" /\ digest[r] = "zero"
    /\ digest' = [digest EXCEPT ![r] = "set"]
    /\ UNCHANGED <<lockVars, zkTab, seq, firstLog, hostVars, procVars,
                   historyVars>>

Registered(r) == engine[r] = "Replicated" /\ digest[r] # "absent"

\* A command has compared the tables of the host and has not registered it.
Compared(r) == pc[r] \in {"detach", "rewrite", "clean", "sync", "move",
                          "restart", "attach", "restore"}

\* CREATE or ALTER TABLE.  An Atomic database changes on one host and gives a
\* new table a uuid of its own; a Replicated one changes in ZooKeeper and on
\* every registered replica, which all have to answer.
Ddl(r, t, s) ==
    /\ attached[r] /\ spent.ddl < MaxDdl
    /\ \/ /\ engine[r] = "Atomic"
          /\ tab' = [tab EXCEPT ![r][t] =
                IF @ = NoRow THEN [uuid |-> r, store |-> r, schema |-> s]
                             ELSE [@ EXCEPT !.schema = s]]
          /\ UNCHANGED zkTab
       \/ /\ Registered(r)
          /\ \A q \in Replicas : Registered(q) => attached[q]
          /\ LET uuid == IF zkTab[t] = NoRow THEN Common ELSE zkTab[t].uuid IN
             /\ zkTab' = [zkTab EXCEPT ![t] = [uuid |-> uuid, schema |-> s]]
             /\ tab' = [q \in Replicas |->
                  IF ~Registered(q) THEN tab[q]
                  ELSE [tab[q] EXCEPT ![t] =
                     IF @ = NoRow
                     THEN [uuid |-> uuid, store |-> uuid, schema |-> s]
                     ELSE [@ EXCEPT !.schema = s]]]
    /\ suspect' = [q \in Replicas |-> \/ suspect[q] \/ Compared(q)
                                      \/ engine[q] = "Replicated" /\ ~Registered(q)]
    /\ spent' = [spent EXCEPT !.ddl = @ + 1]
    /\ UNCHANGED <<lockVars, digest, seq, firstLog, engine, attached,
                   procVars, damaged>>

-----------------------------------------------------------------------------

TabsOf(r) == [Tables -> {NoRow} \cup
                {row \in Row : row.uuid \in {r, Common} /\ row.store = row.uuid}]

\* Either the database is Atomic on every host and unknown to ZooKeeper, each
\* host with tables of its own; or it is Replicated and registered; or it is
\* Replicated and its ZooKeeper nodes were lost.
Init ==
    /\ lock = NoLock
    /\ pc = [r \in Replicas |-> "idle"]
    /\ first = [r \in Replicas |-> FALSE] /\ exc = first
    /\ \E e \in InitEngines : engine = [r \in Replicas |-> e]
    /\ attached = [r \in Replicas |-> TRUE]
    /\ tab \in {f \in [Replicas -> UNION {TabsOf(r) : r \in Replicas}] :
                   \A r \in Replicas : f[r] \in TabsOf(r)}
    /\ zkParent \in BOOLEAN /\ zkRoot \in BOOLEAN
    /\ zkRoot => zkParent /\ "Replicated" \in {engine[r] : r \in Replicas}
    /\ \A r, s \in Replicas : engine[r] = "Replicated" => tab[r] = tab[s]
    /\ zkTab = [t \in Tables |->
                  IF zkRoot THEN AsZkRow(tab[CHOOSE r \in Replicas : TRUE][t])
                  ELSE NoRow]
    /\ digest = [r \in Replicas |-> IF zkRoot THEN "set" ELSE "absent"]
    /\ seq = IF zkRoot THEN Cardinality(Replicas) + 1 ELSE 0
    /\ firstLog = zkRoot
    /\ cmd = [r \in Replicas |-> "none"]
    /\ ticket = [r \in Replicas |-> 0]
    /\ todo = [r \in Replicas |-> {}]
    /\ moving = [r \in Replicas |-> NoTable]
    /\ changed = first /\ suspect = first /\ damaged = FALSE
    /\ spent = [commands |-> 0, crashes |-> 0, ddl |-> 0]

\* A step of the command that runs on r.
Step(r) ==
    \/ TakeLock(r) \/ Body(r)
    \/ Detach(r) \/ Rewrite(r) \/ Clean(r)
    \/ \E t \in Tables : SyncTable(r, t)
    \/ MoveStore(r) \/ SyncDone(r)
    \/ Attach(r) \/ Restart(r) \/ Restore(r)
    \/ CreateStructure(r) \/ GenerateCounter(r) \/ CreateReplicaNodes(r)
    \/ Reattach(r)
    \/ Finish(r)

Environment(r) ==
    \/ Crash(r) \/ OperatorAttach(r) \/ WorkerDigest(r)
    \/ \E t \in Tables, s \in Schemas : Ddl(r, t, s)

Next == \E r \in Replicas :
    \/ \E c \in Commands, force \in Forces : Start(r, c, force)
    \/ Step(r)
    \/ Environment(r)

Spec == Init /\ [][Next]_vars

\* A command that was started keeps running until it ends or is killed: its
\* queries have timeouts, and so has the wait for the lock.
FairSpec == Spec /\ \A r \in Replicas : WF_vars(Step(r))

-----------------------------------------------------------------------------
(* Properties *)

Labels == Entering \cup
    {"idle", "body", "detach", "rewrite", "clean", "sync", "move", "restart",
     "attach", "restore", "structure", "counter", "nodes", "redetach",
     "reattach", "unlock"}
CommandNames == {"to_replicated", "to_atomic", "to_atomic_clean",
                 "restore_replica"}

LockType ==
    /\ lock \in Replicas \cup {NoLock}
    /\ zkParent \in BOOLEAN /\ zkRoot \in BOOLEAN
    /\ pc \in [Replicas -> Labels]
    /\ first \in [Replicas -> BOOLEAN]
    /\ exc \in [Replicas -> BOOLEAN]

ZkType ==
    /\ zkTab \in [Tables -> ZkRow \cup {NoRow}]
    /\ digest \in [Replicas -> {"absent", "zero", "set"}]
    /\ seq \in Nat
    /\ firstLog \in BOOLEAN

HostType ==
    /\ engine \in [Replicas -> {"Atomic", "Replicated"}]
    /\ attached \in [Replicas -> BOOLEAN]
    /\ tab \in [Replicas -> [Tables -> Row \cup {NoRow}]]

ProcType ==
    /\ cmd \in [Replicas -> CommandNames \cup {"none"}]
    /\ ticket \in [Replicas -> Nat]
    /\ todo \in [Replicas -> SUBSET Tables]
    /\ moving \in [Replicas -> [table : Tables, old : Uuids] \cup {NoTable}]
    /\ changed \in [Replicas -> BOOLEAN]

HistoryType ==
    /\ suspect \in [Replicas -> BOOLEAN]
    /\ damaged \in BOOLEAN
    /\ spent \in [commands : Nat, crashes : Nat, ddl : Nat]

\* Every variable has its type.
TypeOK == LockType /\ ZkType /\ HostType /\ ProcType /\ HistoryType

\* As long as nobody forces the lock, at most one command acts as the first
\* replica, and the lock node is the one it created (is_first_replica and
\* __exit__ of DatabaseLockManager).
OneFirst ==
    \A r \in Replicas : first[r] => lock = r

\* As long as nobody forces the lock and nobody deletes the ZooKeeper nodes,
\* a command that is past the lock and is not the first finds the database
\* node, so that it compares its tables with it and takes the uuids from it
\* (_check_tables_consistency and _sync_table_uuids skip a missing node).
JoinersSeeRoot ==
    \A r \in Replicas :
        /\ pc[r] \notin Entering \cup {"idle", "unlock"} /\ ~first[r]
        /\ cmd[r] \in {"to_replicated", "restore_replica"}
        => zkRoot

\* A host that has registered itself in ZooKeeper has every local table there,
\* with the uuid and the schema of its local metadata file, unless DDL or a
\* command cut short came in between (the order of __enter__, the repeated
\* checks and _sync_table_uuids in _migrate_to_replicated).
RegisteredAgree ==
    \A r \in Replicas : Registered(r) /\ ~suspect[r] =>
        \A t \in LocalTables(r) : zkTab[t] = AsZkRow(tab[r][t])

\* As long as nobody forces the lock and nobody deletes the ZooKeeper nodes,
\* the command of the fallback that publishes the tables also makes the first
\* entry of the DDL log, which every other replica marks as finished: nobody
\* draws the counter between its create_database_structure and its own
\* _generate_counter, which are two requests.
PublisherMakesTheLog ==
    \A r \in Replicas : first[r] =>
        /\ pc[r] = "counter" => seq = 1
        /\ pc[r] = "nodes" => ticket[r] = 1

\* A registered replica finds the metadata of its tables in ZooKeeper, unless
\* DDL came in between: "Subsequent replicas will read metadata from
\* ZooKeeper during recovery" (_create_table_metadata_nodes).  It does not hold when the
\* counter of the first replica is lost.
MetadataIsThere ==
    \A r \in Replicas : digest[r] # "absent" /\ ~suspect[r] =>
        \A t \in LocalTables(r) : zkTab[t] # NoRow

\* A migration to Replicated that ends without an error leaves the database
\* attached, registered, and with the directory of every table named after
\* the uuid that ZooKeeper has for it.
MigratedCompletely ==
    [][\A r \in Replicas :
         /\ pc[r] = "unlock" /\ pc'[r] = "idle" /\ first'[r] = FALSE
         /\ cmd[r] = "to_replicated" /\ ~exc[r]
         => /\ Registered(r) /\ attached[r]
            /\ \A t \in LocalTables(r) \ Views :
                  tab[r][t].store = tab[r][t].uuid]_vars

\* A command goes on to release the lock while the database is detached only
\* with an error of one of four requests: the DETACH, which was executed all
\* the same, the ATTACH, or the restart.  No other error in between skips the
\* attach (AttacherContext, and the end of _restore_replica_fallback).
AttachIsTried ==
    [][\A r \in Replicas :
         pc[r] # "unlock" /\ pc'[r] = "unlock" /\ ~attached'[r]
         => /\ exc'[r]
            /\ pc[r] \in {"detach", "attach", "restart", "redetach", "reattach"}]_vars

\* Tables that are published in ZooKeeper are only changed by DDL: no command
\* publishes over the tables of another one, even when both act as the first
\* replica (the transactions of create_database_structure and
\* create_replica_nodes).
PublishedOnce ==
    [][zkTab' # zkTab /\ spent'.ddl = spent.ddl
       => zkTab = [t \in Tables |-> NoRow]]_vars

\* A command does not release a lock it does not hold: between the creation
\* of the lock node and the end of that command nobody removes the node.
LockIsReleasedByOwner ==
    [][lock # NoLock /\ lock' # lock => first[lock] /\ pc[lock] = "unlock"]_vars

\* A command that knows that it holds the lock releases it, whichever error it
\* runs into, unless a command is killed, and as long as removals do not fail.
\* (A command whose lock transaction was committed and not answered does not
\* know it: that lock stays until --force-remove-lock.)
LockIsReleased ==
    \A r \in Replicas : first[r] ~> lock # r \/ spent.crashes > 0

\* The migration implements the publication protocol: a member is a replica
\* with a digest node (system_restore_database_replica), and a structure that
\* --clean-zookeeper has begun to delete is broken until its node is gone.
Structure == INSTANCE DatabaseStructure WITH
    phase <- IF ~zkRoot THEN "none" ELSE IF damaged THEN "broken" ELSE "whole",
    members <- {r \in Replicas : digest[r] # "absent"}, tables <- zkTab
StructureSpec == Structure!Spec
=============================================================================
