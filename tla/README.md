# A verification development for ch-tools

ch-tools is a set of command-line tools for the operation of ClickHouse
(`chadmin`) and of monitoring checks (`ch-monitoring`, `keeper-monitoring`).
Most commands build one query and print its result.  A few change state that
several hosts share, in many steps, any of which may fail: these are what the
modules here are about.

## 1. Inventory

| Component | Source (`src/ch_tools/...`) | State it keeps | Operations |
|---|---|---|---|
| Database lock | `chadmin/internal/database_replica.py` | the lock node of a database in ZooKeeper | acquire, wait, release, remove by force |
| Database migration | `chadmin/internal/database_migration.py`, `database_replica.py`, `chadmin/cli/database_group.py`, `database_metadata.py` | database nodes in ZooKeeper, the metadata file and `store/` of each host, whether the server has the database attached | `database migrate` in both directions, `database restore-replica` |
| Table metadata | `chadmin/internal/table_metadata_manager.py`, `table_metadata_parser.py` | the uuid of a table in its metadata file, its directory | change the uuid, move the directory |
| ZooKeeper access | `chadmin/internal/zookeeper.py` | none | transactions, create, update, recursive delete, find |
| Object storage clean | `common/commands/object_storage.py`, `chadmin/internal/object_storage/*`, `common/backup.py` | the bucket, three service tables, the saved state | `object-storage clean` |
| Space usage | the same, `chadmin/cli/object_storage_group.py` | the space usage table | `collect-info`, `space-usage` |
| Deduplicate | `chadmin/internal/deduplicate.py`, `common/process_pool.py` | settings and partitions of tables, `deduplication/` in ZooKeeper | `object-storage deduplicate` |
| Clean-up of removed hosts | `chadmin/internal/zookeeper_clean.py`, `chadmin/cli/zookeeper_group.py`, `replica_group.py` | replicas and DDL queue in ZooKeeper | `zookeeper cleanup-removed-hosts-metadata`, `remove-hosts-from-table`, `delete`, `delete-ddl-task`, `replica drop` |
| Zero-copy locks | `chadmin/internal/zero_copy.py`, `zookeeper_clean.py` | lock nodes of parts | `create-zero-copy-locks`, `cleanup-zero-copy-locks` |
| Parts and partitions | `chadmin/cli/part_group.py`, `partition_group.py`, `chadmin/internal/{part,partition}.py` | the parts of the server, active, outdated or detached | attach, detach, reattach, delete, move, optimize, check, materialize TTL |
| Tables and replicas | `chadmin/cli/table_group.py`, `replica_group.py`, `replication_queue_group.py`, `chadmin/internal/{table,table_replica}.py` | metadata file, flag, link, directories, replica and queue of a table; the dump file of a restore | delete (also detached), recreate, detach, attach, reattach, change uuid, restart, restore, delete queue tasks |
| Command loop | `common/process_pool.py` and the loop in each of these commands | the list, what is done, what failed | one row after the other, or one task per row |
| Data store | `chadmin/cli/data_store_group.py` | directories under `store/`, names under `data/` | `clean-orphaned-tables`, `cleanup-data-dir`, `detect-broken-partitions` |
| Dictionary migration | `chadmin/internal/dictionary_migration.py` | config files, DDL dictionaries | `dictionary migrate` |
| Wait group, replication lag | `chadmin/cli/wait_group.py`, `common/commands/replication_lag.py` | none | wait until the server is ready, compute a status |
| Queries and processes | `chadmin/internal/process.py`, `chadmin/cli/{process,mutation,merge,move}_group.py` | none | list, kill |
| Monitoring checks | `monrun_checks*/` | none | read once, map to a status |
| Client, configuration, formatting, diagnostics | `common/`, `chadmin/internal/diagnostics/` | none | I/O, text |

How they interact.  The commands run on the hosts of a cluster, each in a
process of its own; what they share is ZooKeeper, the object storage, and the
ClickHouse servers (a command asks its own server, and through `clusterAllReplicas`
or a loop over the shard all others).  `database migrate` and `restore-replica`
run their body inside `DatabaseLockManager`; the body runs part of its steps inside
`AttacherContext`, which detaches the database and attaches it again.  `clean`
uses service tables on its own server and asks `ch-backup`.  `deduplicate` runs
one task per table in a pool of threads that share a ZooKeeper client.  The
commands on parts, tables, replicas and files share one scheme: a list made once (or
read from a file that an earlier command wrote), a loop or a pool over it, one or
several queries per row, and flags (`--dry-run`, `--keep-going`, `--limit`,
`--limit-errors`) that mean the same everywhere; nearly all deletions in ZooKeeper end in one
function, `delete_recursive`.

Which behaviours are hard.  Two commands in between each other's steps (the
lock, the shared listing table); servers that go on working between two steps of
a command (objects, tables); a step that fails inside nested context managers;
a kill that leaves a persistent node, a saved partition or a half-done table; a
retry that trusts what an earlier run left.  `PROJECT.json` lists these hazards
one by one, each at its line and with the properties for it.

What makes each component correct:

* lock: at most one first replica; the node is released by its creator and by
  nobody else; who is not first finds the database;
* migration: a registered host agrees with ZooKeeper on every table; metadata
  is published once; a detached database gets attached again, unless the DETACH or ATTACH itself fails;
* clean: nothing referenced is deleted, nothing younger than the guard interval,
  never more than the limit, nothing if the deletion looks suspicious;
* ZooKeeper: what a command was asked to delete is gone when it ends, and nothing
  else ever goes, whatever servers do meanwhile; a lock is created only for a part
  that is there;
* the loop: no row twice, no failure reported as success, no row left out;
* parts: no row of data is lost or doubled, except by a delete that lists it; what
  could not be attached again is reported;
* tables and replicas: however a command ends, one table at most is left half-way,
  and what is left can be repaired by running a command again;
* files: nothing is removed that a table or a dictionary still needs;
* deduplicate: what a retry skips is done; what ends well is done; few
  partitions are lost to failures; the command ends.

## 2. Modules

| Module | Models | Notes |
|---|---|---|
| `DatabaseLock` | `DatabaseLockManager` and the transaction result of `ZKTransactionBuilder` | one action per step of `__enter__` and `__exit__`; `pc`, `first`, `exc` stand for the Python frame of each host's command |
| `DatabaseMigration` | the commands inside the lock, the ClickHouse servers and DDL around them | EXTENDS `DatabaseLock`; `todo`, `moving`, `changed`, `ticket` are locals of the code; `suspect` and `damaged` are history variables |
| `DatabaseStructure` | what the coordination promises, without locks and steps: publishing, joining, DDL, deletion bit by bit | abstract specification; `DatabaseMigration` implements it (`StructureSpec`) |
| `DatabaseMigrationProofs` | theorems about `DatabaseMigration` | checked by TLAPS |
| `ObjectStorageClean` | `clean()` with ClickHouse, backups, and the object storage around it | `remote`, `local`, `orphans` are the three service tables, `list` the table that `--keep-paths` leaves, `todo` the iterator |
| `Deduplicate` | `deduplicate()`, its tasks, and `execute_tasks_in_parallel` | `task` is where each thread is, `saved` and `done` are the ZooKeeper state, `asked` is a history variable |
| `ZooKeeperTree` | the tree, `remove_subpaths`, `delete_recursive` and `delete_nodes_transaction` | used by the two below; `del` is the deletion in progress, `fresh` a history variable |
| `ZooKeeperCleanup` | the tree inspector and the commands that delete from ZooKeeper | EXTENDS `ZooKeeperTree`; `pc`, `inspector`, `objects`, `tasks`, `ddl`, `walk` are the locals of the functions, `env` counts what servers and operators did |
| `ZeroCopyLocks` | `create-zero-copy-locks` and its tasks | EXTENDS `ZooKeeperCleanup`, whose steps it conjoins (`Beside`) |
| `BulkCommand` | what a command on a list promises | abstract specification |
| `CommandLoop` | the loop or pool around the queries of such a command | `CommandLoop` implements `BulkCommand` |
| `Parts` | the commands on parts and partitions, inserts and merges | EXTENDS `CommandLoop` |
| `Tables` | the commands on tables, the replication queue, restarts | EXTENDS `Parts` |
| `Replicas` | `replica restart`, `replica restore` | EXTENDS `Tables` (a restore detaches and attaches parts) |
| `ServerFiles` | `clean-orphaned-tables`, `cleanup-data-dir`, `dictionary migrate`, new tables | EXTENDS `Replicas`; `before` is a history variable |
| `Server` | one command of any of these four modules, and the server next to it | composes them: `Init`, `Next`, `Spec` |
| `BulkCommandProofs` | theorems about `BulkCommand` | checked by TLAPS |
| `ObjectStorageCleanProofs`, `DeduplicateProofs` | theorems about `ObjectStorageClean` and `Deduplicate` | checked by TLAPS |
| `ServerProofs` | the loop of `CommandLoop`, types of `Server`, that both implement `BulkCommand`, and the safety properties of parts, tables, replicas and files | checked by TLAPS |
| `ZeroCopyLocksProofs` | theorems about `ZeroCopyLocks` | checked by TLAPS |
| `ZooKeeperCleanupProofs` | that the clean-up deletes no more than it is asked to | EXTENDS `ZeroCopyLocksProofs`, with whose tasks the commands run in `LocksSpec` |
| `ZooKeeperEndedProofs` | that it deletes no less | EXTENDS `ZooKeeperCleanupProofs` |
| `MC...` | instances for TLC | symmetry sets, sizes, option sets |

Correspondence.  A step of a model is the code between two points where another
process can see or change shared state: a query, a ZooKeeper request, a file
operation.  Python-level control (guards, early returns, exceptions, `finally`)
is kept, as the label a command goes to.  A ZooKeeper transaction is one step.
An exception is `exc`, unwinding goes through the `__exit__` of each context
manager that is open at that point.  A query that fails has no effect where the
code's queries are single statements that the server rejects; where a request
can fail after it had its effect (DETACH and ATTACH of a database or a partition, saving the
partition, the restart, a ZooKeeper transaction whose answer is lost) the model allows both.

### DatabaseLock, DatabaseMigration

`Start` is a command that passes its pre-checks; a command that does not changes nothing.
`TakeLock` (`ForceRemove`, `Acquire`, `Classify`, `Wait`, `Released`, `PollTimeout`) is `__enter__`.
`Acquire` keeps how kazoo reports a failed transaction: the operations in front of the failing one
report `RolledBackError`, and `_check_result_txn` raises the first exception of the list.  A lost
answer is its third outcome: the lock node is there, `__enter__` raises, and since `lock_acquired`
is not set, no `__exit__` removes the node.  `Body`, `Detach`, `Rewrite`, `SyncTable`, `MoveStore`,
`SyncDone`, `Attach`, `Restart`, `Restore` follow `_migrate_to_replicated`; `Clean` is
`--clean-zookeeper`; `CreateStructure`, `GenerateCounter`, `CreateReplicaNodes`, `Reattach` are the
fallback for servers before 25.8; `Finish` is `__exit__`.  The environment kills commands, attaches
databases that stayed detached, lets the server write its digest, and runs CREATE and ALTER TABLE.

A table is a uuid, the uuid its directory is named after, and a schema.
`Pinned` tables have `{uuid}` in their replica path and refuse a new one.
`SetAttached` is a DETACH or ATTACH DATABASE that is done, refused, or done without an answer;
when the DETACH of `AttacherContext.__enter__` raises, its `__exit__` does not run.
`Clean` is one step of a recursive deletion that others may disturb: each deletes any part of the
structure, the database node last, and the deletion may end with an error, which the code only
logs.  (Where a transaction of `delete_recursive` succeeds, it is one such step.)  `damaged`
remembers that something is missing.

### ObjectStorageClean

An object is written (`Upload`), gets its local metadata within `UploadWindow`
or never (`EndUpload`), is shared by zero-copy replication (`Fetch`), and is
dropped (`Release`).  A backup references what its host had (`Backup`), first
through the shadow directory and then, when that is lost, only through the backup
itself.  The command lists the bucket (`CreateList`, `FillList`, or `ReuseList`),
then each host (`ReadHost`) and the backups that are not in its own shadow
directory (`ReadBackups`), joins the lists (`Antijoin`), checks (`SanityCheck`),
and deletes batch by batch (`DeleteBatch`).  Any of these may fail (`Fail`), and
`SaveState` is the `finally` block.

Assumptions, each a constant or a restriction of the actions: the clocks of the
storage and the host agree; an object is committed within `UploadWindow < Guard`
(the default guard interval is 24 hours); `RefsMove = FALSE`, an object does not
move from a host that is not read yet to one that is, while a command reads the
hosts; ClickHouse is 24.3 or later, so that `system.remote_data_paths` shows the
shadow directory; verification is switched on (its default).  `backups = FALSE` in the options is
a run with `--ignore-missing-cloud-storage-backups`, or with a ch-backup that cannot tell what a backup
holds; `ignored` remembers what such runs deleted, since that is what they are asked to do.

### Deduplicate

`Main` is the main thread, `Task(t)` the task of a table.  The two settings are
changed on all replicas of the shard one after the other (`"partial"` in
between).  A partition has data of its own (`own`) after it was attached while
both settings were on.  `ListPartitions` lets parts of a detached partition
still show in `system.parts`, as outdated ones do.  One command runs at a time.

The options of a run are the tables, the first partition, the other partitions, `--ignore-saved-state`
and `--dry-run`.  A run trusts what an earlier one saved, whatever that one was asked for, so that
the properties about what is skipped say "what every run since the saved state of the table was
last empty was asked for": `asked` keeps that, `AskedBy` is what one command line asks for.  That a run does
what it alone was asked for is `RunDoesWhatItIsAsked`, which does not hold (section 3).

### ZooKeeperTree, ZooKeeperCleanup, ZeroCopyLocks

A path is a sequence of names.  The code sorts paths as strings, which is not the
order of the sequences: `Names` lists the names in their order, and `LowExtends` the pairs
in which one name is another one followed by a character below the slash.
A deletion lists the subtrees breadth first, one `get_children` a step
(`DeleteLists`, `DeleteListed`), deletes chunk by chunk in transactions
(`DeleteTransaction`), and after a failed one node by node (`DeleteSingle`,
`DeleteBelow`, which goes round again as long as a node has new children).

`Inspect` is one turn of the tree iterator: it takes from the queue of replies, fills the active
queue from the pending one, and hands out a node; `ZooKeeperReplies` answers any request in flight.
`Collect` reads the replicas of what was found; `DropReplica` are the tasks of the pool (with `old`,
ClickHouse before 23.1, databases are left out); `DdlList` to `DdlDeleted` follow
`mark_finished_ddl_query`; `CleanLocks`, `WalkVisit`, `WalkLeave`, `WalkDeleted`, `FindPaths`,
`PathsFound` are the two ways of `delete_zero_copy_locks`.  `CommandFails` stops the command at any
step, `Rerun` starts it again, and `Server` creates and deletes nodes. A task of
`create-zero-copy-locks` is in `creators`: it looks at the locks and parts (`TaskLooks`), at the
value to copy and at the parents, and sends one transaction (`TaskCommits`), up to `MaxAttempts`
times.  It is tried again after `NoNodeError` and `NodeExistsError` only: when a server has written
the node of a part since the look (`ServerWrites`, `stale`), `check()` fails with `BadVersionError`,
and the task has failed.  A replica that is given twice (`twice`) makes each transaction fail.

`AskedFor` is the reading of a command line that `SurvivorsAreKept` and `EndedIsClean` compare the
tree with.  It only looks at the tree before the command and at what servers deleted since
(`env.dropped`): the nodes below the paths of `delete`; the locks whose table, part and replica have
exactly the names given and whose blob begins with the prefix (`LockAsked`), and the directories all
of whose locks do; the replicas of removed hosts, in the objects that the traversal is meant to find
(`InScope`), and an object when its last replica goes; the DDL tasks that name a removed host.  It
knows nothing of queues, batches or the order of steps.  The ASSUMEs of the module say what the
trees of ClickHouse are like: a path leads through the replicas of one object, no lock and no DDL
task lies in an object, the tasks are the children of `DdlPath`, servers create locks and finished
marks.

### CommandLoop, Parts, Tables, Replicas, ServerFiles, Server

`cmd` is the command line; `listed` the rows; `at[r]` says between which two queries row
`r` is; `done` and `failed` are what came of the others.  `Listing` makes the list,
`Begin`, `GoTo`, `Succeeds`, `Fails` move a row, `Finish` ends the command, `Kill`
stops it anywhere.  `Pool` and `KeepGoing` tell the commands apart.  Every query has
three outcomes: the server does it; it refuses it (the effect's set is empty, or the
condition does not hold); or the client sees an error whether or not it was done (`Fault`).

A part is its table, partition, disk, state and the rows in it; every row of data has a name of its
own, so that losing or doubling data is visible.  A dry run still looks at the prefix of a directory
and raises; the return code of `clickhouse-disks` is not read, so that a removal that failed counts
as done; `detect-broken-partitions` looks at each partition when its walk gets there.  `Merge`,
`Insert` and `RemoveOutdated` are the server on its own.  A table (`Tables`) is what the server and
the disks have of it; `Restart` attaches what has a metadata file and no flag.  In `Replicas`,
`RestoreReplica` may stop with any set of parts detached, before or after the nodes are created.  In
`ServerFiles`, a directory belongs to a prefix that it may share with others, and `CreateTable` may
come between the look and the removal.  XML definitions are records of what decides whether a
statement can be made (`Translated`).

`Server` is the disjunction of the four: a command is of one kind, and a step of one module
leaves alone what only the others know of.

The filters on dates, levels, merges and replication tasks are abstracted to those on
table, partition, disk, size and reason; ON CLUSTER is not modelled.

## 3. What TLC checks

| Run | Specification | Bounds | Shows |
|---|---|---|---|
| `agree` | `FairSpec` | 2 hosts, a table and a view, 3 commands, 1 kill, 1 DDL, lost answers | `OneFirst`, `JoinersSeeRoot`, `RegisteredAgree`, `MigratedCompletely`, `LockIsReleasedByOwner`, `LockIsReleased` |
| `structure` | `Spec` | 2 hosts, 1 table, all commands, forced locks, failing removals | `AttachIsTried`, and the refinement `StructureSpec` |
| `fallback` | `Spec` | 2 hosts, 2 tables, 4 commands, server before 25.8 | `PublisherMakesTheLog`, `PublishedOnce` |
| `safe` | `Spec` | 2 hosts, 2 objects, times 0..2 with a guard of 2, 1 kill, 2 backups, runs with and without them | `ReferencedAreStored` |
| `limits` | `SpecInUse` | 1 host, 4 objects of sizes 1..4, batches of 2, 2 runs with the kept table, 1 kill, 1 backup | `SizeLimitIsKept`, `OnlyTheLimitSpares`, `SanityIsKept`, `ReferencedAreStored`, `YoungAreKept` |
| `resume` | `FairSpec` | 2 tables, 2 partitions, 2 threads, 2 runs, 1 kill; each run for everything, for partition 1 of one table, from partition 2 without the saved state, or dry | `DoneIsDeduplicated`, `SavedSkipsOnlyDeduplicated`, `CompletedIsDeduplicated`, `OnePartitionPerFailure`, `DoneHasNoSettings`, `CommandEnds` |
| `cleanup` | `FairLocksSpec` | 16 commands, 2 tables, 1 database, 2 DDL tasks, locks of 2 tables, 1 step of the servers, 2 runs, transactions of 2 | `SurvivorsAreKept`, `EndedIsClean`, `AttemptsSuffice`, `CreatedLocksHaveParts`, `CommandEnds` |
| `server` | `MCSpec` | every command of section 2 with its flags, 5 rows of data, 4 tables, 2 failing queries, 1 kill, 1 restart, 2 steps of the server | `MetadataIsRemovedLast`, `OneTableAtATime`, `RowsAreKept`, `LeftDetachedIsReported`, `RestoredHaveTheirParts`, `DumpHasWhatIsDetached`, `RemovedIsNotNeeded`, and the refinement `ImplementsBulk` |

`SpecInUse` is `Spec` of `ObjectStorageClean` from later states: three objects were written at time
0, the host still has any of them, and it is time 1.  `MCSpec` is `Spec` of `Server` from fewer
initial states: parts are only there for commands on parts, nodes in ZooKeeper only vary for
commands on replicas.  Each module's type invariant is checked once more beside these.  Four further
runs (`wider_retry`, `left_detached`, `lock_names`, `replica_drop`) end in a violation, see below.

Why the bounds are enough for what they ask.  Two hosts are the smallest number with a first
replica, a joiner and a race; three commands are two that race (or one that fails) and one that
comes later.  One table that changes its uuid and one view are the two paths of `change_uuid`; a
third kind, pinned, is in the actions and adds only a failing path.  In `safe`, an object must be
written, referenced, backed up, lose its shadow directory and its last part, and become as old as
the guard, before a command that runs on either host may delete it: two time steps and two backups
allow it.  In `limits`, sizes, limit and threshold are chosen so that a batch is cut, a second batch
is refused, and a run is rejected for a bad key alone; the second run may use the table that the
first one left when it ended, failed or was killed, with the guard counted from another time.  A dry
run is in no run of this module, only in the theorems: it asks for nothing.  In `resume`, the first
run may fail in each table at each partition, and the second one starts from every state this
leaves, with wider or narrower options than the first.  In `cleanup`, names that are prefixes of
others (`h1`, `h10`; `t1`, `t1.bak`) and a tree of a few levels are what the sorting and matching of
paths can confuse; one step of the servers at every point is enough to make a transaction fail, and
a second run starts from every half-done first one; three tasks and three attempts make the parents
they share collide.  In `server`, the lists have two or three rows: one before, one with and one
after the fault; two faults let a repair fail as well, and two steps of the server let it insert and
then merge between a list and its use.  The prefixes are shared by an orphan and a table that is
detached, and by an orphan and the table that is created meanwhile.

Fairness.  `FairSpec` of `DatabaseMigration` asks weak fairness of each
command's own next step: queries and ZooKeeper requests have timeouts and
`_wait_for_lock_release` gives up after its own, so a command that is not killed
reaches its end; the environment and the start of commands have none.  `FairSpec`
of `Deduplicate` asks it of the process: some thread that can go on does.
`FairLocksSpec` asks it of the command and the ZooKeeper replies it waits for, and
nothing of the servers: `CommandEnds` holds although a node may get new children while it is
being deleted, because servers take finitely many steps (`MaxServer`) below a node whose
table is gone.  `LockIsReleased`
is about commands that know that they hold the lock (`first`), and excepts behaviours with a kill:
nothing but `--force-remove-lock` removes the lock of a killed command, or one that a
command took by a transaction whose answer was lost.

Deadlock checking is off everywhere: bounds on commands, runs and DDL let every
model stop, as the commands do.

### Deviations between code and documentation

Four runs expect a violation.

* `wider_retry` (`RunDoesWhatItIsAsked`): a run with `--min-partition` fails and saves its position; a run
  without the option starts there (`deduplicate.py:203`), skips the partitions before it, ends well and
  deletes the saved state.  Done markers of restricted runs hide whole tables in the same way.
* `lock_names` (`SurvivorsAreKept`): the replica and the part of a lock are matched with `re.match`, which
  accepts a longer name (`zookeeper_clean.py:617`, `584`): the clean-up for `h1` deletes the locks
  of `h10`, the one for `all_0_0_0` those of `all_0_0_0_1`.
* `left_detached` (`NothingIsLeftDetached`): after a failed ATTACH the retry does
  not see the detached partition, ends well, and deletes the saved state.
* `replica_drop` (`SkippedCleaningKeepsLocks`): `replica drop` of the last replica
  finds no `table_shared_id` any more, says that the cleaning is skipped, and deletes
  the zero-copy locks of the replica for all tables.

More were met while modelling and have no run of their own; the first five are definitions of the
modules that do not hold.

* `MetadataIsThere` (`DatabaseMigration`): `create_replica_nodes` draws its counter outside the transaction
  (`database_replica.py:489`).  If the first replica fails after it created the structure, the next
  one finds the database node, is not the first, and registers in a
  database that has no table metadata; with `HasRestore = FALSE`, `RegisteredAgree` fails too.
* `MacroIsIncluded` (`ZeroCopyLocks`): a replica given by `--replicas` and, with
  `--include-replica-macro`, by the macro is created twice in one transaction
  (`zero_copy.py:282`), and all three attempts fail.
* `ChangeMovesAllData` (`Tables`): `table change` moves the directory under
  `/var/lib/clickhouse/store` and not the one on the object storage disk, which keeps the old
  uuid, against its docstring "and move table store".
* `FoundIsReported` (`ObjectStorageClean`): a run that raises stores the state
  "0 bytes, no error" for the monitoring.
* `ReferencedAreStored` with `RefsMove = TRUE`: hosts are read one after another, and a
  part that is fetched by a host already read and dropped by one not yet read is seen on
  neither, so that a referenced object is deleted.
* The replica that loses the race while the first one has not created the database node yet fails
  with `RolledBackError` instead of waiting, against the docstring of `DatabaseLockManager`.
* A lock transaction that was committed and lost its answer leaves the lock behind, and
  a DETACH DATABASE that was executed and lost its answer leaves the database detached: in both cases
  `__enter__` raises and `__exit__` does not run.
* A migration that failed in `move_table_store` leaves the table with the new uuid and the old
  directory.  After `migrate` back to Atomic, the next `migrate` finds the uuids
  equal, moves nothing and ends well: `MigratedCompletely` fails when `"to_atomic"` is
  among the commands.  `set_atomic` leaves the digest node, so that a host that is
  migrated again before its server has written the digest is registered from
  `set_replicated` on, before its uuids are synchronised: `RegisteredAgree` fails too.
* With `--keep-paths` the listing table is shared by the hosts of a shard, and
  `_object_list_generator` takes a new `now` (`object_storage.py:825`): with two
  hosts and the options `Keep` and `Reuse`, `YoungAreKept` fails.
* `_get_min_partition_to_deduplicate` takes the minimum of `--min-partition` and
  the saved partition (`deduplicate.py:202`), so that a retry with the same option
  starts over.

ZooKeeper:

* `cleanup-removed-hosts-metadata` and `remove-hosts-from-table` pass no disk type, and look for
  locks under `zero_copy_None` (`zero_copy.py:171`, `zookeeper_clean.py:687`).
* A directory all of whose children matched is deleted recursively, with a lock that was
  created in it meanwhile.  After a run that failed in between, empty directories never match again.
* `--part-id` finds the directory of the part, then counts the children of the table's directory, and deletes
  that one when there is only one (`zookeeper_clean.py:590`).  When a server removes the locks of the part
  in between, the one child is another part, and loses its locks: with the directory of a part in
  `ServerDrops`, TLC finds `SurvivorsAreKept` violated.
* An object nested in another one is not found (`zookeeper_clean.py:242`); a DDL task that is not
  finished after the last poll is deleted all the same; a `finished` node that somebody
  else created between the look and `zk.create` (`zookeeper_clean.py:545`) raises.
* The comment at `zookeeper.py:355` is not true of string order (`/a`, `/a-b`, `/a/b`), but
  the deletion only lists a subtree twice.

Parts, tables, replicas:

* `get_partitions` with `--detached` ignores `--disk`, and `part delete --detached` ignores the
  sizes; a list from a file ignores all other filters.
* `part detach` and `part delete` list outdated parts as well, and fail on the first of them without
  `--keep-going`.  Names that end in `_try10` do not match `_try[1-9]$`.
* ATTACH PARTITION brings back whatever was detached from the partition before.
* `os.rename` of a missing directory raises, though the comment calls it fine (`part.py:405`).
* A pool without `--keep-going` still runs every task before it raises.
* `check` in a dry run reads an answer that there is not.
* `delete --detached` looks once whether the table is attached; a restart afterwards attaches a
  table whose files are going away.
* A change of uuid to one that another table has leaves both metadata files with it when the
  move fails; `recreate` has the CREATE statement in memory only.
* The tasks of a restore overwrite one dump file; `is_first_replica` raises `AttributeError`
  when a node is missing, and a query without an answer is not caught: both leave parts
  detached and no dump.  The retry then gets BAD_ARGUMENTS.

Files:

* The error handler of `remove_data` joins what are not strings, so that a file that
  cannot be removed raises `TypeError`.
* The walk over the metadata files is not atomic: a table that is created or renamed during it
  may lose its directory.  `RemovedIsNotNeeded` is about the tables that were there before.
* An orphan that shares its prefix with a table is never removed.
* `detect-broken-partitions` ignores that DETACH or ATTACH failed.
* `CREATE DICTIONARY IF NOT EXISTS` for a name that is in two files keeps one definition, and
  `--remove` deletes both files.

## 4. What TLAPS proves

`DatabaseMigrationProofs` holds for every finite set of hosts, any tables,
schemas, bounds, and with every fault of the model.

* `TypeCorrect`: `Spec => []TypeOK`.  The types alone are not inductive: the
  assignments to `tab[r][t].uuid` and `.store` keep their type only if the row
  exists.  The strengthening is `SyncsLocalTables` (what is in `todo` and
  `moving` is a table of the host), which in turn needs that nothing removes a
  row (`RowsStay`).
* `OnlyOneFirst`: `Spec => []OneFirst` if `Forces \subseteq {FALSE}`.  It is
  inductive with `NeverForced` (no command is at the step that removes a lock by
  force), over `TypeOK`.
* `OwnerReleasesTheLock`: `Spec => LockIsReleasedByOwner`, an action property, from
  the same invariant: `__enter__` only creates the node, and by `OneFirst` the
  command in `__exit__` that holds `first` is its creator.
* `JoinersFindTheDatabase`: `Spec => []JoinersSeeRoot` if moreover
  `"to_atomic_clean" \notin Commands`.  A joiner has found the database node,
  or has seen the lock gone when it looked again; `WaitersSeeRoot` says that who
  waits had found the node, and that nobody is deleting it.
* `DatabaseIsAttachedAgain`: `Spec => AttachIsTried`, from `AttachedWhereUsed` (where a
  command still has the database attached, or has it again).  Nothing is assumed of the queries:
  each may be refused or lose its answer, the DETACH of `__enter__` included.
* `ThePublisherMakesTheLog`: `Spec => []PublisherMakesTheLog`, without `--force-remove-lock` and
  `--clean-zookeeper`.  Between the structure and the counter of the publisher there are two requests; that
  nobody else draws a counter in between needs that all others wait for the lock
  (`PublisherIsAlone`).
* `MigrationImplementsStructure`: `Spec => StructureSpec` if `HasRestore`, with every command
  and with `--force-remove-lock`.  Each step is one of `DatabaseStructure`, or a stutter
  (`StepIsStructureStep`).  `Clean` deletes any part of the structure in any number of steps, and hosts join
  what is half deleted: an undamaged structure has a member (`RootHasMember`), a damaged one is not
  published again before it is gone.  Of the fallback, which makes the node first, this is not true.
* `TablesArePublishedOnce`: `Spec => PublishedOnce`, without `--force-remove-lock` and
  `--clean-zookeeper`.  The first replica of the fallback publishes two requests after it has
  created the node; `PublisherIsAlone` says that meanwhile nobody else is inside the lock
  or registered, and that nothing is published.
* `EndedMigrationsAreComplete`: `Spec => MigratedCompletely` for `Commands \subseteq
  {"to_replicated", "restore_replica"}`.  `MigrationsAreUnderWay` says what is true of the
  command at each of its labels, `AllStoresFollow` that every directory is named after the uuid of its
  table but for the one that `change_uuid` has in hand.
* `RegisteredHostsAgree`: `Spec => []RegisteredAgree`, the main one, for `HasRestore`, the same
  commands, and no `--force-remove-lock`.  `AllAgreeSoFar` follows a migration: the same schemas
  after the comparison (`SameSchemas`), the same uuids for what `_sync_table_uuids` has looked at
  (`SameUuids`), everything the same when it registers (`Agrees`); a Replicated
  database that lost its nodes is the same on all hosts until one of them publishes
  (`SameEverywhere`).  It needs that the first replica publishes before anyone else compares
  (`FirstsAreInside`, `JoinersSeeRoot`), and that a host is registered last (`RegistersLast`).

The last two exclude the way back to Atomic because it is needed: with `"to_atomic"` TLC
finds both properties violated by four commands (section 3).

`BulkCommandProofs` and the loop in `ServerProofs` hold for every list, every command line and
every number of workers.

* `ReportIsTrue`: a behaviour of `BulkSpec` processes nothing twice and nothing outside
  of its list; "ok" means that all of it is done, but for failures under `--keep-going` and
  what is beyond the limit of errors; without `--keep-going` and pool the first failure is the
  last; with a pool an error is reported when everything was tried.  `BulkInv` adds the
  types, and that a command in its loop without `--keep-going` has not failed yet.
* `LoopImplementsBulk`: `LoopSpec => Bulk!BulkSpec` under the refinement mapping that
  keeps `phase`, `listed`, `done`, `failed` and reads the options off `cmd`.  `LoopInv` says
  that the rows at work are in the list and in nothing else, and that outside of a pool there is one:
  without it a second row could still fail after the error.  `LoopSpec` lets rows be any
  values and take any steps.

`ServerProofs` holds for every server, command line, number of failures, kills, restarts and
steps of the server.

* `ServerTypeCorrect`: `Spec => []ServerTypeOK`.  The types of the variables need more than
  themselves: `TypeInv` adds `LoopInv`, what a row at work has at each of its steps
  (`StepTypes`: the parts, the uuid, the disks or the statements that are left), and what the
  files are (`FileTypes`).
* `ServerImplementsBulk`: `Spec => ImplementsBulk`.  Every step of the actual commands is one of
  `LoopSpec`, or of the server, which leaves the loop alone (`NextIsLoopStep`); the refinement
  then follows from the lemmas about the loop.  With `ReportIsTrue`, what any of these
  commands reports is true of it.

The rest has one invariant for each of the four modules, over `TypeInv`.  None of them
needs another, as the commands are of different kinds.

* `NoRowIsLost` (`RowsAreKept`) and `NoneIsLeftDetachedUnnoted` (`LeftDetachedIsReported`), from
  `PartsInv`.  What a query does to the rows is said once (`KeepsRows`: the rows stay, each in
  one part that is not outdated; `DetachedFrom`: what is detached was so before or can be
  attached again), and each query is shown to do that, the server's merges and inserts included.
  `NamesAreClean` and `TookCanBeAttached` are what `LeftDetachedIsReported` rests on: only names
  of detached parts have a reason or an attempt in them, and no command detaches
  what ATTACH would not take back.
* `MetadataGoesLast` (`MetadataIsRemovedLast`) and `OneTableIsBroken` (`OneTableAtATime`), from
  `TablesInv`: one row at a time is at work or has failed (`OneRowAtATime`, from `LoopInv`),
  every other table is as the command should leave it (`OthersAreWhole`), the server attaches at
  a restart what was attached (`AttachedStay`), and what is gone of a table follows from the step of
  its removal or of its new uuid (`RemovalIsUnderWay`, `ChangeIsUnderWay`).
* `RestoredKeepTheirParts` (`RestoredHaveTheirParts`) and `DumpIsEnough` (`DumpHasWhatIsDetached`),
  from `ReplicasInv`: a replica at work has every part attached or detached, and those it
  need not attach any more are attached or were refused (`UnderWay`); the others have their
  parts (`OthersHaveTheirParts`); the dump is of one replica that failed.
* `NeededFilesAreKept` (`RemovedIsNotNeeded`), from `FilesInv`: no table that was there is
  changed, no prefix and no name of one is listed, and a dictionary of a file at work is
  there or still to be created.

`DeduplicateProofs` holds for any tables, partitions, threads, options, runs, failures and kills.

* `TypeCorrect`: `Spec => []TypeOK`, with `Positions`, what the position of a task
  says of its other variables: without it `Min` of an empty list could be saved.
* `DoneTablesAreClean` (`DoneHasNoSettings`), with `Settings`: where a task works under the
  settings, and that it has reset them where it adds its table to the done ones.
* `FewAreLeftDetached` (`OnePartitionPerFailure`), with `Failures`: one more than the failures is
  detached only while a partition is in hand.
* `DoneTablesAreCopied` (`DoneIsDeduplicated`), `SkippedPartitionsAreCopied`
  (`SavedSkipsOnlyDeduplicated`) and `CompletedRunsHaveCopied` (`CompletedIsDeduplicated`, an action
  property), from `Copies`: what of a table still shares its data is in the list of its task
  (`WorkIsListed`), and nothing of what a later run would skip shares it (`SkippedIsCopied`).  All three are
  about `asked`, for any sequence of options: of what a run alone was asked for they are false (run
  `wider_retry`).

`ObjectStorageCleanProofs` holds for any hosts, objects, sizes, limits, runs, backups, kills.

* `TypeCorrect`: `Spec => []TypeOK`, with `ListIsThere`.
* `ReferencedObjectsAreKept` (`ReferencedAreStored`), the main one, from `Safe`: what a command has
  listed was there and older than the guard interval (`ListedAreOld`), writes are younger
  (`WritesAreYoung`), and each reference to a listed object is one the command has read or is
  going to read (`ReferencesAreRead`): new references only come from hosts that have the object.  Backups
  count but for what runs without them asked to delete (`ignored`).  It
  assumes `RefsMove = FALSE`, see section 3, and `ListIsNotShared`: no `--keep-paths`, or one host.
* `YoungObjectsAreKept` (`YoungAreKept`), from `Ages`, under `ListIsNotShared`, without which TLC
  finds a counterexample (section 3).
* `LimitsAreKept` (`SizeLimitIsKept`), `NothingSuspiciousIsAsked` (`SanityIsKept`) and `OrphansAreAskedFor`
  (`OnlyTheLimitSpares`), from `Counts`, `Checked` and `Covers`.  The size of a set is a fold of a library
  module; that it adds up is proved with a least counterexample (`SumsExist`, `SizeOfIsFold`).

`ZeroCopyLocksProofs` holds for any tree, parts, replicas, options, number of workers, servers,
starts of the command, and beside any of the commands that clean up.

* `ThreeAttemptsSuffice`: `LocksSpec => []AttemptsSuffice`.  Tasks can only meet in the directories they
  share (`SharedDirs`): a lock and the directory of its part belong to one task.  `Undisturbed` follows a
  task through its attempts, as long as only tasks write: what it read as missing was missing with all
  that is below (`PrefixClosed`), so that its transaction can fail for nothing but a shared directory that was
  created since.  Whoever created it created the root of the locks as well; the second
  attempt can fail for the directory of the table only, and the third for nothing (`FailedCommitFacts`).
  With two attempts TLC finds a task that fails.  A command that names a replica twice is excepted: there
  each transaction fails by itself (section 3).
* `LocksComeWithParts`: `LocksSpec => CreatedLocksHaveParts`, from `TaskShape` (each lock a task
  wants comes with the check of its own part) and `OneCommand` (nothing else of chadmin writes
  meanwhile).

`ZooKeeperCleanupProofs` holds for any tree, command line, excluded paths, sizes of batches and
transactions, replies, failures, kills, starts, and steps of servers.

* `CleanInvariant`: `LocksSpec => []CleanInv`, the inductive invariant.  Its idea is one predicate,
  `MayGo(p)`: whatever of the first tree is left at `p` and below was asked to be deleted.  Everything that
  a command keeps between two requests is of this kind: the queue, the nodes and the chunk of a deletion
  (`DelInv`), the paths that the walk or the search found (`WalkInv`), the DDL tasks to remove (`DdlInv`), and the
  objects of the replicas to drop (`TasksInv`; `InspectorInv` for the requests they come from).  A
  deletion preserves `LostInv`, since it only removes what may go, and everything else, since servers
  that delete more only make `MayGo` weaker to satisfy (`MayGoGrows`, `ScopeGrows`).  The hard part is the
  walk over the locks: a directory is yielded when as many children matched as it had when it was read,
  so a count must stand for sets.  `FrameSets` keeps, for each directory of the stack, the set of
  children it had and those of them that were yielded, which the code does not have; the counts are their
  cardinalities, children that were not read are gone or new, and the path of the next frame is one of those
  that were not visited (`Busy`).  TLC checked `CleanInv` on the instance of `cleanup` before.
* `CleanupTypes` (`TypeOK`).  That `UpdateActive` and `UpdatePending` keep the limit of requests needs
  the recursive function of the queue to exist, which is shown for each length (`MovesExist`).
* `Survivors`: `LocksSpec => [](command.dry \/ (RaceFree(command) /\ NamesApart) => SurvivorsAreKept)`, the
  main one.  `SurvivorsAreKept` takes the names of replica, table and part exactly, and the code does not:
  `NamesApart` says that no lock in the tree is of a replica or a part whose name only begins with one
  asked for; the run `lock_names` shows what happens otherwise.
  `RaceFree` is about two kinds of command lines only.  One is the clean-up of a single part, when servers may
  delete directories of parts, of tables or above (section 3).  The other is `replica drop`
  without `--table-uuid`, unless a replica and the node `table_shared_id` stay (`TableStays`): the run
  `replica_drop` is the counterexample.  For all other commands `NamesApart` is the only hypothesis.

`ZooKeeperEndedProofs` holds for the same constants.

* `EndedCommandsCleaned`: `LocksSpec => [](RemovedStayAway(command) => EndedIsClean)`.  `CleanInv` bounds what
  is deleted from above; this needs a bound from below, `LeftInv`: what the command line asks for and is
  still there is still to come.  It has one conjunct for each thing that a command line can ask for.
  * `PathsLeft`: a node below a path to delete is in the deletion, which covers it in each of its
    phases (`DelCovers`): below a path to list, among the nodes, or in the chunk whose
    transaction failed.
  * `ReplicasLeft`: a removed replica is found.  Its object is collected or, if not, a request or an answer of
    the traversal leads there (`Leading`: an answer without `"replicas"` has the next name of the
    path among its children); afterwards its drop is to do or has failed.  `ReplicaNodeLeft` is the
    same of `replica drop`.
  * `ObjectsLeft`: an object whose replicas are all dropped goes with the last one.
  * `TasksLeft`: a DDL task that names a removed host is in the queue, in hand, to be removed, or in
    the deletion.
  * `LocksLeft`: for each template, a lock that matches is below a directory that is
    still to be visited in a frame of the stack (`StackCovers`), below a path that was found
    (`FoundCovers`) or is being deleted, on the way of the search for one part (`QueueCovers`), or its
    host is still to come (`Later`).

  `Added` says what a step may put into the tree (nothing in an object, nothing below a lock, but for
  the marks of DDL tasks), so that no old lock gets children that would hide it from the walk.
  The hypothesis `RemovedStayAway` excludes that a server drops one of the removed replicas out of an
  object that stays: the command then finds no replica to drop, and an object whose other replicas
  it dropped before is left without any.  It is a condition on `ServerDrops` only, and all
  the commands of both runs satisfy it, where the servers drop an object of the command.

The assumptions on constants are the named ASSUMEs of the modules, which TLC evaluates in every run.
They say what the values are, and what the code and ClickHouse make true of them: a row of a table
is not the absence of one (`RowAssumption`); the guard interval is longer than an upload
(`CleanAssumption`); each row of data is in one part that is not outdated when a command starts
(`PartsAssumption` of `Parts`); one server holds one replica of a table, and a part name once in it
(`PartsAssumption` of `ZeroCopyLocks`); the retry makes three attempts (`AttemptsAssumption`);
ZooKeeper has the parents of every node (`InitTreeAssumption`); the trees of ClickHouse are as
section 2 says (`TreeAssumption`, `DdlAssumption`, `ServersAssumption`), `--part-id` comes with a
table and `replica drop` with the path of one (`CommandsAssumption`); only the commands about
removed hosts are given hosts, only `cleanup-removed-hosts-metadata` has `--clean-ddl-queue`, and
`replica drop` names a replica (`OptionsAssumption`); the root of ZooKeeper is no table, the locks
lie outside of the DDL queue, and servers create nothing below a lock (`PlacesAssumption`); commands
on tables have no `--keep-going`, some no `--dry-run`, and the directories of a table are named
after its uuid (`TablesAssumption`).

Only model-checked: liveness (`LockIsReleased`, `CommandEnds`), which is out of the prover's reach.

## 5. Plan

In this order; each step keeps what is above.

1. *(done)* `DatabaseLock`, `DatabaseMigration`, `DatabaseStructure`, the first
   proofs; `ObjectStorageClean`; `Deduplicate`.
2. *(done)* `ZooKeeperTree`, `ZooKeeperCleanup`, `ZeroCopyLocks`; `BulkCommand` and
   `CommandLoop` with their proofs; `Parts`, `Tables`, `Replicas`, `ServerFiles`.
3. Proofs.  *(done)* `DatabaseMigration`, `Deduplicate`, `ObjectStorageClean`, `Server` with its
   four modules, `ZeroCopyLocks`, `ZooKeeperCleanup`: every safety property that a passing run checks.
4. `SpaceUsage`: the classification of an object by its references, against a
   reference definition, and the truncate-and-insert of the result.
5. Unfreezing and removing backups (`chs3-backup`); killing queries and waiting for them.
6. Pure algorithms in one module and one run: replication lag, the deadline of the
   wait group, the backup check, name escaping.

## 6. Not modelled

Formatting of output, logging, parsing of configuration and of CREATE statements,
the ClickHouse client and its retries (a query succeeds, fails, or fails after its
effect), schema comparison and diagnostics (text), commands that only list, and monitoring
checks that compare one number with a
threshold.  Inside the modelled components: the named pipe through which the tar
files of backups are streamed, the removal of old service tables at the start of
`clean` (it concerns other runs on the same host, and one command runs on a host
at a time), and the statistics by period.  Space usage, the
wait group, replication lag, unfreezing of backups, and processes are in the plan and
have no module yet.
