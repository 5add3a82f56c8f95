------------------------- MODULE ZooKeeperCleanup -------------------------
(***************************************************************************)
(* The commands that clean ZooKeeper up after hosts, tables and parts that *)
(* are gone (internal/zookeeper_clean.py, cli/zookeeper_group.py):         *)
(*   hosts        cleanup-removed-hosts-metadata                           *)
(*   table_hosts  remove-hosts-from-table                                  *)
(*   locks        cleanup-zero-copy-locks                                  *)
(*   drop         replica drop                                             *)
(*   delete       delete, delete-ddl-task                                  *)
(*   create       create-zero-copy-locks, in the module ZeroCopyLocks      *)
(* A command reads the tree node by node, and the servers, the DDL workers *)
(* and the replies of ZooKeeper run in between.                            *)
(***************************************************************************)
EXTENDS ZooKeeperTree

CONSTANTS
    Commands,       \* the command lines that may be run, and whether ClickHouse is
                    \* older than 23.1 (old), see Command
    InitTree,       \* the tree before the command
    Databases,      \* the paths of InitTree that are Replicated databases
    ReplicaHost,    \* the host in the name shard|host of a database replica
    Excluded,       \* excluded_paths of the configuration
    TableUuid,      \* what table_shared_id of a table holds, by its path
    DdlPath,        \* the queue of distributed DDL
    DdlHosts,       \* the hosts named in a DDL task, by its path
    ZeroCopy,       \* the directory of the zero-copy locks
    StartsWith,     \* pairs <<a, b>> of different names: b starts with a
    ActiveHosts,    \* the removed hosts whose replicas are active all the same
    MaxActive,      \* max_parrallel_tasks of the traversal
    MaxPolls,       \* max_attemps of the wait for DDL tasks
    DdlChunk,       \* how many DDL tasks are waited for and deleted at once
    LockBatch,      \* ZERO_COPY_LOCKS_TO_DELETE_BATCH
    ServerLocks,    \* the locks that servers may create
    ServerDrops,    \* the subtrees that servers may delete
    MaxServer,      \* bound: steps of the servers
    MaxRuns         \* bound: how often the command is started

VARIABLES
    command,    \* the command that runs
    pc,         \* where it is
    inspector,  \* ZookeeperTreeInspector: its three queues
    objects,    \* the replicated objects found
    tasks,      \* the drop queries: [path, replica] -> their state
    ddl,        \* the DDL tasks to look at, the one at hand, and those to remove
    walk,       \* find_leafs_and_nodes: its stack, and the paths it yielded
    whose,      \* the hosts, or the table, whose locks are still to be cleaned
    env         \* steps of the servers, starts of the command, what servers deleted

cleanVars == <<command, pc, inspector, objects, tasks, ddl, walk, whose, env>>
vars == <<treeVars, cleanVars>>

Command == [kind : {"hosts", "table_hosts", "locks", "drop", "delete", "create"},
            hosts : Seq(STRING), table : STRING, part : STRING, prefix : STRING,
            replica : STRING, root : Seq(STRING), disk : STRING,
            paths : SUBSET Seq(STRING), ddl : BOOLEAN, old : BOOLEAN, dry : BOOLEAN]

Removed == Range(command.hosts)

\* --part-id requires --table-uuid; the other commands have no such option.  replica
\* drop is given the path of a table.
ASSUME CommandsAssumption ==
    \A c \in Commands :
        /\ c \in Command /\ IsFiniteSet(c.paths)
        /\ c.part # "" => c.kind = "locks" /\ c.table # ""
        /\ c.kind = "drop" => TableUuid[c.root] \in STRING

\* ZooKeeper keeps the parents of every node.
ASSUME InitTreeAssumption == \A n \in InitTree : WithParents(n) \subseteq InitTree

\* A path leads through the replicas of one object, and neither the locks nor the
\* queue of distributed DDL lie in an object, or in one another.
ASSUME TreeAssumption ==
    /\ IsFiniteSet(InitTree) /\ InitTree \subseteq Seq(STRING) \ {<<>>}
    /\ ZeroCopy \in Seq(STRING) /\ DdlPath \in Seq(STRING) /\ ~IsPrefix(ZeroCopy, DdlPath)
    /\ \A n \in InitTree : \A i, j \in 1..Len(n) :
          n[i] = "replicas" /\ n[j] = "replicas" => i = j
    /\ \A n \in InitTree : IsPrefix(ZeroCopy, n) \/ IsPrefix(DdlPath, n) =>
          "replicas" \notin Range(n)

ASSUME DdlAssumption ==
    /\ DOMAIN DdlHosts = Children(InitTree, DdlPath)
    /\ \A q \in DOMAIN DdlHosts : DdlHosts[q] \subseteq STRING \ {"replicas"}

\* Servers create locks and the marks of finished DDL tasks.
ASSUME ServersAssumption ==
    \A p \in ServerLocks :
        p \in Seq(STRING) /\ "replicas" \notin Range(p) /\ ~IsPrefix(DdlPath, p)

\* What the options of the commands are: hosts, the flag for the DDL tasks, and the
\* replica to drop.
ASSUME OptionsAssumption ==
    \A c \in Commands :
        /\ c.hosts # <<>> => c.kind \in {"hosts", "table_hosts"}
        /\ c.ddl => c.kind = "hosts"
        /\ c.kind = "drop" => c.replica # ""

\* The root of ZooKeeper is no table, the locks do not lie in the queue of distributed
\* DDL, and nothing lies below a lock.
ASSUME PlacesAssumption ==
    /\ <<"replicas">> \notin InitTree
    /\ ~IsPrefix(DdlPath, ZeroCopy)
    /\ Excluded \subseteq Seq(STRING)
    /\ \A p \in ServerLocks : IsPrefix(ZeroCopy, p) => Len(p) <= Len(ZeroCopy) + 5

ASSUME LimitsAssumption ==
    /\ MaxActive \in Nat \ {0} /\ DdlChunk \in Nat \ {0} /\ LockBatch \in Nat \ {0}
    /\ MaxPolls \in Nat

---------------------------------------------------------------------------
(* ZookeeperTreeInspector *)

Tasks(i) == Len(i.pending) + Len(i.active) + Len(i.finished)

\* Mutated: all pending requests are sent.
SendAll(i) ==
    LET sent == [k \in DOMAIN i.pending |-> [path |-> i.pending[k], ready |-> FALSE,
                                              exists |-> FALSE, children |-> {}]]
    IN  [i EXCEPT !.pending = <<>>, !.active = @ \o sent]

\* _update_pending_queue: requests are sent while there is room.
UpdatePending(i) ==
    LET room == MaxActive - Len(i.active)
        n == IF Len(i.pending) < room THEN Len(i.pending) ELSE room
        sent == [k \in 1..n |-> [path |-> i.pending[k], ready |-> FALSE,
                                 exists |-> FALSE, children |-> {}]]
    IN  [i EXCEPT !.pending = SubSeq(@, n + 1, Len(@)), !.active = @ \o sent]

\* A turn of the loop of _update_active_queue: an answered request at the head moves
\* on; a node that somebody deleted is ignored.
MoveAnswered(i) ==
    IF i.active = <<>> \/ ~Head(i.active).ready THEN i
    ELSE [i EXCEPT !.active = Tail(@),
                   !.finished = IF Head(i.active).exists THEN Append(@, Head(i.active)) ELSE @]

UpdateActive(i) ==
    LET after[k \in 0..Len(i.active)] == IF k = 0 THEN i ELSE MoveAnswered(after[k - 1])
    IN  after[Len(i.active)]

UpdateQueues(i) == UpdatePending(UpdateActive(i))

InspectorAdd(i, paths) == UpdateQueues([i EXCEPT !.pending = @ \o paths])

NoInspector == [pending |-> <<>>, active |-> <<>>, finished |-> <<>>]

\* ZooKeeper answers the requests of a session in the order they were sent.
ZooKeeperReplies ==
    /\ pc = "inspect"
    /\ \E k \in DOMAIN inspector.active :
        /\ ~inspector.active[k].ready
        /\ \A j \in 1..(k - 1) : inspector.active[j].ready
        /\ LET p == inspector.active[k].path
           IN  inspector' = [inspector EXCEPT !.active[k] =
                   [path |-> p, ready |-> TRUE, exists |-> p = <<>> \/ p \in tree,
                    children |-> {Last(c) : c \in Children(tree, p)}]]
    /\ UNCHANGED <<treeVars, command, pc, objects, tasks, ddl, walk, whose, env>>

\* tree_iterator: the next node with its children.  A node with "replicas" is an
\* object, and is not descended into.
Inspect ==
    /\ pc = "inspect"
    /\ LET i == UpdateQueues(inspector)
           node == Head(i.finished)
           rest == [i EXCEPT !.finished = Tail(@)]
           below == {c \in {Append(node.path, n) : n \in node.children} :
                        ~\E e \in Excluded : IsPrefix(e, c)}
       IN  \/ /\ i.finished # <<>> /\ "replicas" \in node.children
              /\ inspector' = rest /\ objects' = Append(objects, node.path)
              /\ UNCHANGED pc
           \/ /\ i.finished # <<>> /\ "replicas" \notin node.children
              /\ inspector' = InspectorAdd(rest, SetToSeq(below))
              /\ UNCHANGED <<pc, objects>>
           \/ /\ Tasks(i) = 0
              /\ inspector' = i /\ pc' = "collect" /\ UNCHANGED objects
    /\ UNCHANGED <<treeVars, command, tasks, ddl, walk, whose, env>>

---------------------------------------------------------------------------
(* clean_zk_metadata_for_hosts: the replicas of tables and databases *)

\* In a database a replica is named shard|host; the code compares the host.  Before
\* ClickHouse 23.1 the databases are skipped, with a warning.
HostOf(r) ==
    IF SubSeq(r, 1, Len(r) - 2) \in Databases THEN ReplicaHost[Last(r)] ELSE Last(r)

Collect ==
    /\ pc = "collect"
    /\ IF objects = <<>> THEN pc' = "drop" /\ UNCHANGED <<objects, tasks>>
       ELSE LET o == Head(objects)
                found == IF \/ o \notin tree
                            \/ o \in Databases /\ (command.kind = "table_hosts" \/ command.old)
                         THEN {}
                         ELSE {r \in Children(tree, Append(o, "replicas")) :
                                  HostOf(r) \in Removed}
            IN  /\ tasks' = [r \in DOMAIN tasks \cup found |->
                                IF r \in found THEN "todo" ELSE tasks[r]]
                /\ objects' = Tail(objects) /\ UNCHANGED pc
    /\ UNCHANGED <<treeVars, command, inspector, ddl, walk, whose, env>>

\* SYSTEM DROP REPLICA removes the node of the replica, and the object with its
\* last replica; it is refused (and retried in vain) while the replica is active,
\* and it may fail on a replica that is gone.
DropReplica(r) ==
    /\ pc = "drop" /\ tasks[r] = "todo"
    /\ LET object == SubSeq(r, 1, Len(r) - 2)
           gone == IF Children(tree, Front(r)) = {r} THEN object ELSE r
       IN  \/ /\ command.dry
              /\ tasks' = [tasks EXCEPT ![r] = "done"] /\ UNCHANGED tree
           \/ /\ ~command.dry /\ HostOf(r) \notin ActiveHosts
              /\ tasks' = [tasks EXCEPT ![r] = "done"]
              /\ tree' = tree \ Subtree(tree, gone)
           \/ /\ ~command.dry /\ (HostOf(r) \in ActiveHosts \/ r \notin tree)
              /\ tasks' = [tasks EXCEPT ![r] = "failed"] /\ UNCHANGED tree
    /\ UNCHANGED <<del, fresh, command, pc, inspector, objects, ddl, walk, whose, env>>

\* All the queries run, and the first failure is raised after them.
Dropped ==
    /\ pc = "drop" /\ \A r \in DOMAIN tasks : tasks[r] # "todo"
    /\ pc' = IF \E r \in DOMAIN tasks : tasks[r] = "failed" THEN "failed"
             ELSE IF command.kind = "hosts" /\ command.ddl THEN "ddl_list" ELSE "locks"
    /\ UNCHANGED <<treeVars, command, inspector, objects, tasks, ddl, walk, whose, env>>

\* replica drop: the query of the command itself, with the same outcomes.  Without
\* --table-uuid the command then reads table_shared_id, which is gone with the last
\* replica of the table: it says that it skips the locks, and goes on without a
\* table.
ReplicaNode == command.root \o <<"replicas", command.replica>>

DropOne ==
    /\ pc = "replica"
    /\ LET gone == IF Children(tree, Front(ReplicaNode)) = {ReplicaNode}
                   THEN command.root ELSE ReplicaNode
       IN  \/ command.dry /\ pc' = "shared_id" /\ UNCHANGED tree
           \/ /\ ~command.dry /\ command.replica \notin ActiveHosts
              /\ tree' = tree \ Subtree(tree, gone) /\ pc' = "shared_id"
           \/ /\ ~command.dry /\ (command.replica \in ActiveHosts \/ ReplicaNode \notin tree)
              /\ pc' = "failed" /\ UNCHANGED tree
    /\ UNCHANGED <<del, fresh, command, inspector, objects, tasks, ddl, walk, whose, env>>

SharedIdRead ==
    /\ pc = "shared_id"
    /\ whose' = [whose EXCEPT !.table =
                    IF @ # "" THEN @
                    ELSE IF Append(command.root, "table_shared_id") \in tree
                    THEN TableUuid[command.root] ELSE ""]
    /\ pc' = "locks"
    /\ UNCHANGED <<treeVars, command, inspector, objects, tasks, ddl, walk, env>>

---------------------------------------------------------------------------
(* mark_finished_ddl_query *)

NoDdl == [queue |-> <<>>, todo |-> <<>>, task |-> <<>>, remove |-> <<>>, polls |-> 0]

Finished(q, h) == q \o <<"finished", h>>

DdlList ==
    /\ pc = "ddl_list"
    /\ ddl' = [NoDdl EXCEPT !.queue = SetToSeq(Children(tree, DdlPath))]
    /\ pc' = "ddl"
    /\ UNCHANGED <<treeVars, command, inspector, objects, tasks, walk, whose, env>>

\* _get_hosts_from_ddl reads the task once; a task that is gone names nobody.  The
\* removed hosts are then looked at one by one.
DdlNext ==
    /\ pc = "ddl" /\ ddl.todo = <<>>
    /\ IF ddl.queue = <<>> THEN pc' = "ddl_wait" /\ UNCHANGED ddl
       ELSE LET q == Head(ddl.queue)
                named == q \in tree /\ DdlHosts[q] \cap Removed # {}
            IN  /\ ddl' = [ddl EXCEPT !.queue = Tail(@), !.task = q,
                              !.todo = IF named THEN command.hosts ELSE <<>>,
                              !.remove = IF named THEN Append(@, q) ELSE @]
                /\ UNCHANGED pc
    /\ UNCHANGED <<treeVars, command, inspector, objects, tasks, walk, whose, env>>

DdlLook ==
    /\ pc = "ddl" /\ ddl.todo # <<>>
    /\ LET h == Head(ddl.todo)
       IN  IF h \notin DdlHosts[ddl.task] \/ Finished(ddl.task, h) \in tree \/ command.dry
           THEN ddl' = [ddl EXCEPT !.todo = Tail(@)] /\ UNCHANGED pc
           ELSE pc' = "ddl_mark" /\ UNCHANGED ddl
    /\ UNCHANGED <<treeVars, command, inspector, objects, tasks, walk, whose, env>>

\* zk.create raises when the node was created meanwhile, or its parent deleted.
DdlMark ==
    /\ pc = "ddl_mark"
    /\ LET node == Finished(ddl.task, Head(ddl.todo))
       IN  IF node \in tree \/ Front(node) \notin tree
           THEN pc' = "failed" /\ UNCHANGED <<tree, ddl>>
           ELSE /\ tree' = tree \cup {node}
                /\ ddl' = [ddl EXCEPT !.todo = Tail(@)] /\ pc' = "ddl"
    /\ UNCHANGED <<del, fresh, command, inspector, objects, tasks, walk, whose, env>>

\* _is_ddl_task_finished
DdlFinished(q) ==
    q \notin tree \/ Cardinality(Children(tree, Append(q, "finished"))) = Cardinality(DdlHosts[q])

\* _wait_ddl_tasks_finished waits for the chunk; then the chunk is deleted, even
\* when it is not finished.
DdlWait ==
    /\ pc = "ddl_wait"
    /\ LET n == IF Len(ddl.remove) < DdlChunk THEN Len(ddl.remove) ELSE DdlChunk
           chunk == {ddl.remove[k] : k \in 1..n}
       IN  IF chunk = {} THEN pc' = "locks" /\ UNCHANGED <<ddl, del>>
           ELSE IF command.dry \/ (\A q \in chunk : DdlFinished(q)) \/ ddl.polls = MaxPolls
           THEN /\ del' \in StartedDelete(chunk) /\ pc' = "ddl_delete"
                /\ ddl' = [ddl EXCEPT !.remove = SubSeq(@, n + 1, Len(@)), !.polls = 0]
           ELSE ddl' = [ddl EXCEPT !.polls = @ + 1] /\ UNCHANGED <<pc, del>>
    /\ UNCHANGED <<tree, fresh, command, inspector, objects, tasks, walk, whose, env>>

DdlDeleted ==
    /\ pc = "ddl_delete" /\ del.phase = "done"
    /\ del' = NoDelete /\ pc' = "ddl_wait"
    /\ UNCHANGED <<tree, fresh, command, inspector, objects, tasks, ddl, walk, whose, env>>

---------------------------------------------------------------------------
(* delete_zero_copy_locks *)

\* _get_zero_copy_zookeeper_path_for_disk_type: f"zero_copy_{disk_type}".  The
\* commands that clean up after hosts give no disk type: it is None.
LockRoot ==
    Append(ZeroCopy, IF command.kind \in {"locks", "drop"} THEN command.disk ELSE "zero_copy_None")

Filter ==
    IF command.kind \in {"locks", "drop"}
    THEN [table |-> whose.table, part |-> command.part,
          prefix |-> command.prefix, replica |-> command.replica]
    ELSE [table |-> "", part |-> "", prefix |-> "", replica |-> Head(whose.hosts)]

Starts(a, b) == a = "" \/ a = b \/ <<a, b>> \in StartsWith

\* re.match anchors the template at its start only: the replica asked for also
\* matches the replicas whose names begin with it.
Matches(f, p) ==
    LET q == SubSeq(p, Len(LockRoot) + 1, Len(p))
    IN  /\ Len(q) = 4
        /\ f.table \in {"", q[1]} /\ f.part \in {"", q[2]}
        /\ Starts(f.prefix, q[3]) /\ Starts(f.replica, q[4])

NoWalk == [stack |-> <<>>, queue |-> <<>>, found |-> {}]

Frame(p) == LET c == Children(tree, p)
            IN  [path |-> p, todo |-> c, total |-> Cardinality(c), matched |-> 0]

\* delete_zero_copy_locks for the command, or for the next of the removed hosts.
CleanLocks ==
    /\ pc = "locks"
    /\ IF command.kind \notin {"locks", "drop"} /\ whose.hosts = <<>>
       THEN pc' = "ended" /\ UNCHANGED <<walk, del>>
       ELSE IF Filter.replica # "" \/ Filter.prefix # ""
       THEN /\ walk' = [NoWalk EXCEPT !.stack = <<Frame(LockRoot)>>]
            /\ pc' = "walk" /\ UNCHANGED del
       ELSE IF Filter.part # ""
       THEN walk' = [NoWalk EXCEPT !.queue = <<LockRoot>>] /\ pc' = "find" /\ UNCHANGED del
       ELSE /\ del' \in StartedDelete(IF Filter.table = "" THEN {}
                                     ELSE {Append(LockRoot, Filter.table)})
            /\ pc' = "delete" /\ UNCHANGED walk
    /\ UNCHANGED <<tree, fresh, command, inspector, objects, tasks, ddl, whose, env>>

\* A path that find_leafs_and_nodes yields: it counts for its parent, the root is
\* not deleted, and a full batch is deleted before the walk goes on.
Yield(stack, p) ==
    LET up == [stack EXCEPT ![Len(stack)].matched = @ + 1]
        found == walk.found \cup {p}
    IN  IF Cardinality(found) >= LockBatch
        THEN /\ walk' = [walk EXCEPT !.stack = up, !.found = {}]
             /\ del' \in StartedDelete(found) /\ pc' = "walk_delete"
        ELSE walk' = [walk EXCEPT !.stack = up, !.found = found] /\ UNCHANGED <<del, pc>>

WalkVisit ==
    /\ pc = "walk" /\ walk.stack # <<>>
    /\ LET top == Last(walk.stack)
           child == CHOOSE c \in top.todo : TRUE
           stack == [walk.stack EXCEPT ![Len(walk.stack)].todo = @ \ {child}]
       IN  /\ top.todo # {}
           /\ IF Children(tree, child) # {}
              THEN /\ walk' = [walk EXCEPT !.stack = Append(stack, Frame(child))]
                   /\ UNCHANGED <<del, pc>>
              ELSE IF Matches(Filter, child) THEN Yield(stack, child)
              ELSE walk' = [walk EXCEPT !.stack = stack] /\ UNCHANGED <<del, pc>>
    /\ UNCHANGED <<tree, fresh, command, inspector, objects, tasks, ddl, whose, env>>

\* Whether the children of a directory all matched, so that it is yielded too.
\* Mutated: some of them did.
SomeMatched(frame) == frame.matched > 0 /\ frame.path # LockRoot

AllMatched(frame) ==
    frame.total > 0 /\ frame.matched = frame.total /\ frame.path # LockRoot

WalkLeave ==
    /\ pc = "walk" /\ walk.stack # <<>>
    /\ LET top == Last(walk.stack)
       IN  /\ top.todo = {}
           /\ IF AllMatched(top)
              THEN Yield(Front(walk.stack), top.path)
              ELSE walk' = [walk EXCEPT !.stack = Front(@)] /\ UNCHANGED <<del, pc>>
    /\ UNCHANGED <<tree, fresh, command, inspector, objects, tasks, ddl, whose, env>>

WalkDeleted ==
    /\ pc = "walk_delete" /\ del.phase = "done"
    /\ del' = NoDelete /\ pc' = "walk"
    /\ UNCHANGED <<tree, fresh, command, inspector, objects, tasks, ddl, walk, whose, env>>

WalkEnds ==
    /\ pc = "walk" /\ walk.stack = <<>>
    /\ del' \in StartedDelete(walk.found) /\ walk' = NoWalk /\ pc' = "delete"
    /\ UNCHANGED <<tree, fresh, command, inspector, objects, tasks, ddl, whose, env>>

\* find_paths(zk, root, [root/table/part]): the template is not anchored at its
\* end either, and a path that matches is not descended into.
FindPaths ==
    /\ pc = "find" /\ walk.queue # <<>>
    /\ LET below == Children(tree, Head(walk.queue))
           match == {c \in below : /\ Len(c) = Len(LockRoot) + 2
                                   /\ c[Len(c) - 1] = Filter.table
                                   /\ Starts(Filter.part, Last(c))}
       IN  walk' = [walk EXCEPT !.queue = Tail(@) \o SetToSeq(below \ match),
                                !.found = @ \cup match]
    /\ UNCHANGED <<treeVars, command, pc, inspector, objects, tasks, ddl, whose, env>>

\* When the table has one part, its own directory is deleted instead.
PathsFound ==
    /\ pc = "find" /\ walk.queue = <<>>
    /\ LET table == Append(LockRoot, Filter.table)
       IN  IF walk.found = {} THEN pc' = "ended" /\ UNCHANGED del
           ELSE /\ del' \in StartedDelete(IF Cardinality(Children(tree, table)) = 1
                                          THEN {table} ELSE walk.found)
                /\ pc' = "delete"
    /\ UNCHANGED <<tree, fresh, command, inspector, objects, tasks, ddl, walk, whose, env>>

Deleted ==
    /\ pc = "delete" /\ del.phase = "done"
    /\ del' = NoDelete
    /\ whose' = IF whose.hosts = <<>> THEN whose ELSE [whose EXCEPT !.hosts = Tail(@)]
    /\ pc' = IF command.kind \in {"hosts", "table_hosts"} THEN "locks" ELSE "ended"
    /\ UNCHANGED <<tree, fresh, command, inspector, objects, tasks, ddl, walk, env>>

---------------------------------------------------------------------------
(* The command line *)

StartPc(c) == CASE c.kind = "delete" -> "delete" [] c.kind = "locks" -> "locks"
                [] c.kind = "create" -> "create" [] c.kind = "drop" -> "replica" [] OTHER -> "inspect"

Begun(c) ==
    [del |-> IF c.kind = "delete" THEN StartedDelete(c.paths) ELSE {NoDelete},
     whose |-> [hosts |-> c.hosts, table |-> c.table],
     inspector |-> IF StartPc(c) = "inspect" THEN InspectorAdd(NoInspector, <<c.root>>)
                   ELSE NoInspector]

\* An exception or a kill ends the command at any point.
CommandFails ==
    /\ pc \notin {"ended", "failed"} /\ env.runs < MaxRuns
    /\ pc' = "failed" /\ del' = NoDelete
    /\ UNCHANGED <<tree, fresh, command, inspector, objects, tasks, ddl, walk, whose, env>>

Rerun ==
    /\ pc = "failed" /\ env.runs < MaxRuns
    /\ env' = [env EXCEPT !.runs = @ + 1]
    /\ pc' = StartPc(command) /\ del' \in Begun(command).del
    /\ inspector' = Begun(command).inspector
    /\ objects' = <<>> /\ tasks' = [r \in {} |-> ""] /\ ddl' = NoDdl /\ walk' = NoWalk
    /\ whose' = Begun(command).whose
    /\ UNCHANGED <<tree, fresh, command>>

---------------------------------------------------------------------------
(* The servers of the cluster *)

Server ==
    /\ pc \notin {"ended", "failed"} /\ env.steps < MaxServer
    /\ \/ \E p \in ServerLocks \ tree :
            ServerCreates(p) /\ env' = [env EXCEPT !.steps = @ + 1]
       \/ \E p \in ServerDrops :
            /\ ServerDeletes(p)
            /\ env' = [env EXCEPT !.steps = @ + 1, !.dropped = @ \cup Subtree(tree, p)]
       \/ \E q \in DOMAIN DdlHosts : \E h \in DdlHosts[q] :
            /\ Append(q, "finished") \in tree /\ Finished(q, h) \notin tree
            /\ ServerCreates(Finished(q, h)) /\ env' = [env EXCEPT !.steps = @ + 1]
    /\ UNCHANGED <<del, command, pc, inspector, objects, tasks, ddl, walk, whose>>

Deletes == DeleteStep(command.dry) /\ UNCHANGED cleanVars

Init ==
    /\ tree = InitTree /\ fresh = {}
    /\ command \in Commands
    /\ pc = StartPc(command)
    /\ del \in Begun(command).del /\ inspector = Begun(command).inspector
    /\ objects = <<>> /\ tasks = [r \in {} |-> ""] /\ ddl = NoDdl /\ walk = NoWalk
    /\ whose = Begun(command).whose
    /\ env = [steps |-> 0, runs |-> 1, dropped |-> {}]

CommandStep ==
    \/ Inspect \/ Collect \/ (\E r \in DOMAIN tasks : DropReplica(r)) \/ Dropped
    \/ DropOne \/ SharedIdRead \/ DdlList \/ DdlNext \/ DdlLook \/ DdlMark \/ DdlWait \/ DdlDeleted
    \/ CleanLocks \/ WalkVisit \/ WalkLeave \/ WalkDeleted \/ WalkEnds
    \/ FindPaths \/ PathsFound \/ Deleted \/ Deletes

Next == CommandStep \/ ZooKeeperReplies \/ CommandFails \/ Rerun \/ Server

Spec == Init /\ [][Next]_vars

\* The command and ZooKeeper go on; nothing is asked of the servers.
FairSpec == Spec /\ WF_vars(CommandStep) /\ WF_vars(ZooKeeperReplies)

---------------------------------------------------------------------------
(* Properties *)

\* The phases and queues keep their shape, the traversal never has more requests
\* in flight than its limit, and a deletion runs only while its caller waits.
TypeOK ==
    /\ command \in Commands
    /\ pc \in {"inspect", "collect", "drop", "ddl_list", "ddl", "ddl_mark", "ddl_wait",
              "ddl_delete", "locks", "walk", "walk_delete", "find", "delete",
              "create", "replica", "shared_id", "ended", "failed"}
    /\ Len(inspector.active) <= MaxActive
    /\ \A r \in DOMAIN tasks : tasks[r] \in {"todo", "done", "failed"}
    /\ del.phase # "none" <=> pc \in {"ddl_delete", "walk_delete", "delete"}
    /\ ddl.polls \in 0..MaxPolls
    /\ \A i \in DOMAIN walk.stack : walk.stack[i].matched <= walk.stack[i].total

Objects == {SubSeq(r, 1, Len(r) - 1) : r \in {n \in InitTree : Last(n) = "replicas"}}

Replicas(o) == Children(InitTree, Append(o, "replicas"))

RemovedReplicas(o) == {r \in Replicas(o) : HostOf(r) \in Removed}

\* The objects the traversal is meant to find: an object in an excluded directory, or
\* inside another one whose replicas are not in "lost", is not.
InScope(o, lost) ==
    /\ IsPrefix(command.root, o)
    /\ o = command.root \/ ~\E e \in Excluded : IsPrefix(e, o)
    /\ ~\E o2 \in Objects : /\ Append(o2, "replicas") \notin lost
                            /\ IsStrictPrefix(o2, o) /\ IsPrefix(command.root, o2)
    /\ o \in Databases => command.kind = "hosts" /\ ~command.old

\* The table whose locks the command line names: replica drop reads the uuid of the
\* table at its root when none is given.
AskedTable ==
    IF command.kind = "drop" /\ command.table = "" THEN TableUuid[command.root]
    ELSE command.table

\* What the locks are compared with: once, or once for each removed host.
Filters ==
    IF command.kind \in {"locks", "drop"}
    THEN {[table |-> AskedTable, part |-> command.part,
           prefix |-> command.prefix, replica |-> command.replica]}
    ELSE {[table |-> "", part |-> "", prefix |-> "", replica |-> h] : h \in Removed}

\* disk/table/part/blob/replica
IsLock(l) == Len(l) = Len(LockRoot) + 4 /\ IsPrefix(LockRoot, l)

\* The lock is of the table, the part and the replica named, and of a blob that begins
\* with the prefix; an option that is not given asks for all, but not all the options.
LockAsked(f, l) ==
    LET q == SubSeq(l, Len(LockRoot) + 1, Len(l))
    IN  /\ f.table # "" \/ f.prefix # "" \/ f.replica # ""
        /\ f.table \in {"", q[1]} /\ f.part \in {"", q[2]}
        /\ Starts(f.prefix, q[3]) /\ f.replica \in {"", q[4]}

\* No lock of the tree is of a part or a replica whose name only begins with the name
\* asked for.
NamesApart ==
    \A f \in Filters : \A l \in InitTree :
        LET q == SubSeq(l, Len(LockRoot) + 1, Len(l))
        IN  IsLock(l) => /\ Starts(f.part, q[2]) => f.part \in {"", q[2]}
                         /\ Starts(f.replica, q[4]) => f.replica \in {"", q[4]}

\* A directory of locks goes with its last lock, and what is below a lock with it; the
\* locks in "lost" do not count.
LocksAsked(n, lost) ==
    /\ IsStrictPrefix(LockRoot, n)
    /\ \A l \in InitTree \ lost :
          IsLock(l) /\ (IsPrefix(n, l) \/ IsPrefix(l, n)) => \E f \in Filters : LockAsked(f, l)

\* Whether the command line asks to delete n, stated on the tree before it: the nodes
\* in "lost" were deleted by others.  An object goes with its last replica.
AskedFor(n, lost) ==
    CASE command.kind = "delete" -> \E p \in command.paths : IsPrefix(p, n)
      [] command.kind = "locks" -> LocksAsked(n, lost)
      [] command.kind = "drop" ->
            \/ /\ command.replica \notin ActiveHosts
               /\ \/ IsPrefix(ReplicaNode, n)
                  \/ /\ IsPrefix(command.root, n) /\ ReplicaNode \in InitTree
                     /\ Replicas(command.root) \ lost \subseteq {ReplicaNode}
            \/ LocksAsked(n, lost)
      [] OTHER ->
            \/ \E o \in Objects :
                  /\ IsPrefix(o, n) /\ InScope(o, lost)
                  /\ \/ \E r \in RemovedReplicas(o) : IsPrefix(r, n)
                     \/ /\ RemovedReplicas(o) # {}
                        /\ Replicas(o) \ lost \subseteq RemovedReplicas(o)
            \/ \E q \in DOMAIN DdlHosts :
                  command.ddl /\ IsPrefix(q, n) /\ DdlHosts[q] \cap Removed # {}
            \/ LocksAsked(n, lost)

Asked(n, lost) == ~command.dry /\ AskedFor(n, lost)

\* No node is lost that was there before the command and that it was not asked to
\* delete, in whatever order the batches, the transactions and their retries meet
\* the servers' steps: no replica of another host, and no lock of another replica,
\* table or part than the options name; a dry run loses nothing.
SurvivorsAreKept == \A n \in (InitTree \ tree) \ env.dropped : Asked(n, env.dropped)

\* What the command was asked to delete is gone when it ends without an error,
\* also after runs that failed half-way; what servers created meanwhile may stay, and
\* so may the directories of locks that never held a lock.
EndedIsClean ==
    pc = "ended" /\ ~command.dry =>
        \A n \in (InitTree \cap tree) \ fresh :
            /\ Children(InitTree, n) = {}
            /\ command.kind # "delete" /\ IsStrictPrefix(LockRoot, n) => IsLock(n)
            => ~Asked(n, {})

\* When replica drop finds no table_shared_id, "cleaning is skipped": no lock is
\* deleted.
SkippedCleaningKeepsLocks ==
    command.kind = "drop" /\ whose.table = "" /\ pc \in {"locks", "walk", "delete", "ended"} =>
        Subtree(InitTree, ZeroCopy) \subseteq tree \cup env.dropped

\* The command ends, although the fallback of a failed transaction repeats the
\* deletion of a node as long as servers create children below it.
CommandEnds == <>[](pc \in {"ended", "failed"})

===========================================================================
