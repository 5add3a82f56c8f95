---------------------------- MODULE Deduplicate ----------------------------
(***************************************************************************)
(* `chadmin object-storage deduplicate`                                    *)
(* (ch_tools/chadmin/internal/deduplicate.py, common/process_pool.py):     *)
(* every partition of the replicated tables on the disk is detached and    *)
(* attached again under two table settings that make ClickHouse copy its   *)
(* zero-copy parts.  A pool of threads works on the tables; what is left   *)
(* to do after an error is saved in ZooKeeper for the next run.            *)
(*                                                                         *)
(* One command runs on a shard at a time.  Any query and any request to    *)
(* ZooKeeper may fail, a query that fails may have had its effect, and     *)
(* the command may be killed between two steps.                            *)
(***************************************************************************)
EXTENDS Integers, FiniteSets, FiniteSetsExt

CONSTANTS
    Tables,
    Partitions,     \* the partition ids; they are compared, 0 is none
    Options,        \* the combinations of options the command is run with
    MaxWorkers,     \* --max-workers
    Faults,         \* TRUE if queries and requests may fail
    MaxRuns, MaxKills

\* tables: what --database and --table let through; min: --min-partition;
\* only: what the other partition options let through;
\* ignore: --ignore-saved-state; dry: --dry-run
OptionType == [tables : SUBSET Tables, min : Partitions \cup {0},
               only : SUBSET Partitions, ignore : BOOLEAN, dry : BOOLEAN]

ASSUME DeduplicateAssumption ==
    /\ IsFiniteSet(Tables) /\ IsFiniteSet(Partitions)
    /\ Partitions \subseteq Nat \ {0}
    /\ Options \subseteq OptionType
    /\ MaxWorkers \in Nat \ {0}
    /\ Faults \in BOOLEAN
    /\ MaxRuns \in Nat /\ MaxKills \in Nat

VARIABLES
    own,        \* the partitions of each table with data of their own
    detached,   \* the partitions of each table that are not attached
    settings,   \* both settings of each table, on all replicas of the shard
    saved,      \* the partition saved in ZooKeeper for each table
    done,       \* the children of deduplication/done in ZooKeeper
    doneNode,   \* whether that node exists
    pc, opt,    \* the main thread
    task,       \* where the task of each table is
    todo,       \* the partitions a task still has to reattach
    exc,        \* whether a task is unwinding an exception
    asked,      \* history: what every run since the saved state of a table
                \* was last empty asked for
    errors,     \* history: the tasks of each table that failed or were killed
    spent       \* runs and kills so far

clickhouse == <<own, detached, settings>>
zookeeper == <<saved, done, doneNode>>
vars == <<clickhouse, zookeeper, pc, opt, task, todo, exc, asked, errors, spent>>

Ended == {"none", "done", "failed"}
Running(t) == task[t] \notin Ended \cup {"queued"}
Goto(t, label) == task' = [task EXCEPT ![t] = label]

\* The threads are gone, and what they had in memory.
NoTasks ==
    /\ task' = [t \in Tables |-> "none"]
    /\ todo' = [t \in Tables |-> {}]
    /\ exc' = [t \in Tables |-> FALSE]

-----------------------------------------------------------------------------
(* The main thread *)

\* The partitions of each table that a run with the options o is asked for.
AskedBy(o) == [t \in Tables |-> {p \in Partitions : /\ t \in o.tables
                                                    /\ p \in o.only /\ p >= o.min}]

\* Nothing is saved about a table.
NothingSaved(t) == t \notin done /\ saved[t] = 0

Start(o) ==
    /\ pc = "idle" /\ spent.runs < MaxRuns
    /\ opt' = o
    /\ pc' = IF o.ignore THEN "ignore" ELSE "select"
    /\ asked' = [t \in Tables |-> IF o.dry THEN asked[t]
                                  ELSE IF NothingSaved(t) THEN AskedBy(o)[t]
                                  ELSE asked[t] \cap AskedBy(o)[t]]
    /\ spent' = [spent EXCEPT !.runs = @ + 1]
    /\ UNCHANGED <<clickhouse, zookeeper, task, todo, exc, errors>>

\* delete_zk_node of the root "deduplication", where all the state is
DeleteRoot ==
    IF opt.dry THEN UNCHANGED zookeeper
    ELSE /\ saved' = [t \in Tables |-> 0]
         /\ done' = {} /\ doneNode' = FALSE

IgnoreState ==
    /\ pc = "ignore"
    /\ DeleteRoot
    /\ asked' = IF opt.dry THEN asked ELSE AskedBy(opt)
    /\ pc' = "select"
    /\ UNCHANGED <<clickhouse, opt, task, todo, exc, errors, spent>>

\* has_data_on_disk looks at active parts
HasData(t) == Partitions \ detached[t] # {}

\* The tables to work on, and the node for those that are ready.
SelectTables ==
    /\ pc = "select"
    /\ task' = [t \in Tables |->
                   IF t \in opt.tables /\ HasData(t) /\ t \notin done
                   THEN "queued" ELSE "none"]
    /\ doneNode' = (doneNode \/ ~opt.dry)
    /\ pc' = "run"
    /\ UNCHANGED <<clickhouse, saved, done, opt, todo, exc, asked, errors, spent>>

\* Whether a future has an exception.  A mutant: the pool keeps going and
\* only logs it.
KeepGoing == FALSE
SomeFailed == \E t \in Tables : task[t] = "failed"

\* Every future is there.  A mutant: a failed task has none.
AllDone == \A t \in Tables : task[t] \in {"none", "done"}
AllEnded == \A t \in Tables : task[t] \in Ended

\* execute_tasks_in_parallel: the first exception that as_completed meets is
\* raised when the executor has waited for all tasks, the queued ones as well.
CollectResults ==
    /\ pc = "run"
    /\ AllEnded
    /\ pc' = IF SomeFailed THEN "idle" ELSE "forget"
    /\ NoTasks
    /\ UNCHANGED <<clickhouse, zookeeper, opt, asked, errors, spent>>

\* All went well: the saved state is deleted.
ForgetState ==
    /\ pc = "forget"
    /\ DeleteRoot
    /\ pc' = "idle"
    /\ UNCHANGED <<clickhouse, opt, task, todo, exc, asked, errors, spent>>

\* The main thread raises.  delete_zk_node lists the nodes and deletes them
\* in transactions, or one by one: it may have deleted some of them.
Abort ==
    /\ Faults /\ pc \in {"ignore", "select", "forget"}
    /\ IF pc = "select" \/ opt.dry THEN UNCHANGED zookeeper
       ELSE /\ \E gone \in SUBSET Tables :
                  saved' = [t \in Tables |-> IF t \in gone THEN 0 ELSE saved[t]]
            /\ done' \in SUBSET done
            /\ doneNode' \in {doneNode, FALSE} /\ (done' # {} => doneNode')
    /\ pc' = "idle"
    /\ UNCHANGED <<clickhouse, opt, task, todo, exc, asked, errors, spent>>

Main == IgnoreState \/ SelectTables \/ CollectResults \/ ForgetState \/ Abort

-----------------------------------------------------------------------------
(* The task of a table *)

\* A thread of the executor is free.
FreeWorker == Cardinality({u \in Tables : Running(u)}) < MaxWorkers

TakeTask(t) ==
    /\ pc = "run" /\ task[t] = "queued"
    /\ FreeWorker
    /\ Goto(t, IF opt.dry THEN "list" ELSE "enable")
    /\ UNCHANGED <<clickhouse, zookeeper, pc, opt, todo, exc, asked, errors, spent>>

\* The task ends with an exception, or it runs the finally block of
\* _set_deduplication_settings first.
EndFailed(t) ==
    /\ Goto(t, "failed")
    /\ errors' = [errors EXCEPT ![t] = @ + 1]
    /\ exc' = [exc EXCEPT ![t] = FALSE]
Unwind(t) ==
    /\ exc' = [exc EXCEPT ![t] = TRUE]
    /\ todo' = [todo EXCEPT ![t] = {}]
    /\ Goto(t, IF opt.dry THEN "restored" ELSE "disable")
    /\ UNCHANGED errors

\* Two settings on several replicas are changed one after the other, outside
\* the try block when they are enabled.
Enable(t) ==
    /\ task[t] \in {"enable", "enabling"}
    /\ \/ /\ task[t] = "enable"
          /\ settings' = [settings EXCEPT ![t] = IF @ = "on" THEN @ ELSE "partial"]
          /\ Goto(t, "enabling") /\ UNCHANGED <<exc, errors>>
       \/ /\ task[t] = "enabling"
          /\ settings' = [settings EXCEPT ![t] = "on"]
          /\ Goto(t, "list") /\ UNCHANGED <<exc, errors>>
       \/ Faults /\ EndFailed(t) /\ UNCHANGED settings
    /\ UNCHANGED <<own, detached, zookeeper, pc, opt, todo, asked, spent>>

\* _get_min_partition_to_deduplicate
MinPartition(t) ==
    IF opt.min # 0 /\ saved[t] # 0 THEN Min({opt.min, saved[t]})
    ELSE Max({opt.min, saved[t]})

\* get_partitions reads system.parts, where the parts of a detached partition
\* stay for a while.
ListPartitions(t) ==
    /\ task[t] = "list"
    /\ \/ /\ \E outdated \in SUBSET detached[t] :
                todo' = [todo EXCEPT ![t] =
                   {p \in (Partitions \ detached[t]) \cup outdated :
                       p \in opt.only /\ p >= MinPartition(t)}]
          /\ Goto(t, "clear") /\ UNCHANGED <<exc, errors>>
       \/ Faults /\ Unwind(t)
    /\ UNCHANGED <<clickhouse, zookeeper, pc, opt, asked, spent>>

\* The saved partition is deleted before its partition is reattached.
ClearSaved(t) ==
    /\ task[t] = "clear"
    /\ \/ /\ saved' = IF opt.dry THEN saved ELSE [saved EXCEPT ![t] = 0]
          /\ Goto(t, "detach") /\ UNCHANGED <<todo, exc, errors>>
       \/ Faults /\ Unwind(t) /\ UNCHANGED saved
    /\ UNCHANGED <<clickhouse, done, doneNode, pc, opt, asked, spent>>

\* detach_partition of the next partition in order.
Detach(t) ==
    /\ task[t] = "detach" /\ todo[t] # {}
    /\ IF opt.dry
       THEN /\ todo' = [todo EXCEPT ![t] = @ \ {Min(@)}]
            /\ UNCHANGED <<task, detached>>
       ELSE LET after == [detached EXCEPT ![t] = @ \cup {Min(todo[t])}] IN
            /\ UNCHANGED todo
            /\ \/ detached' = after /\ Goto(t, "attach")
               \/ Faults /\ detached' \in {detached, after} /\ Goto(t, "save")
    /\ UNCHANGED <<own, settings, zookeeper, pc, opt, exc, asked, errors, spent>>

\* attach_partition; the data is copied if the settings are in force.
Attach(t) ==
    /\ task[t] = "attach"
    /\ LET p == Min(todo[t])
           attaches ==
              /\ detached' = [detached EXCEPT ![t] = @ \ {p}]
              /\ own' = IF settings[t] = "on"
                        THEN [own EXCEPT ![t] = @ \cup {p}] ELSE own
       IN \/ /\ attaches
             /\ todo' = [todo EXCEPT ![t] = @ \ {p}]
             /\ Goto(t, "detach")
          \/ /\ Faults
             /\ attaches \/ UNCHANGED <<detached, own>>
             /\ Goto(t, "save") /\ UNCHANGED todo
    /\ UNCHANGED <<settings, zookeeper, pc, opt, exc, asked, errors, spent>>

\* What the except block saves.  A mutant: the partition after it.
NextPartition(t) == Min(todo[t]) + 1
FailedPartition(t) == Min(todo[t])

\* A mutant of SavePartition: the loop goes on with the next partition.
SaveAndGoOn(t) ==
    /\ task[t] = "save"
    /\ saved' = [saved EXCEPT ![t] = FailedPartition(t)]
    /\ todo' = [todo EXCEPT ![t] = @ \ {FailedPartition(t)}]
    /\ Goto(t, "detach")
    /\ UNCHANGED <<clickhouse, done, doneNode, pc, opt, exc, asked, errors, spent>>

\* The except block: the partition that failed is saved for the next run.
SavePartition(t) ==
    /\ task[t] = "save"
    /\ saved' \in {saved, [saved EXCEPT ![t] = FailedPartition(t)]}
    /\ Unwind(t)
    /\ UNCHANGED <<clickhouse, done, doneNode, pc, opt, asked, spent>>

\* A mutant of SyncReplicas: the table is marked as done inside the block.
SyncAndMark(t) ==
    /\ task[t] = "detach" /\ todo[t] = {}
    /\ done' = IF opt.dry THEN done ELSE done \cup {t}
    /\ Goto(t, IF opt.dry THEN "restored" ELSE "disable")
    /\ UNCHANGED <<clickhouse, saved, doneNode, pc, opt, todo, exc, asked, errors,
                   spent>>

\* SYSTEM SYNC REPLICA, at the end of the with block.
SyncReplicas(t) ==
    /\ task[t] = "detach" /\ todo[t] = {}
    /\ \/ /\ Goto(t, IF opt.dry THEN "restored" ELSE "disable")
          /\ UNCHANGED <<todo, exc, errors>>
       \/ Faults /\ ~opt.dry /\ Unwind(t)
    /\ UNCHANGED <<clickhouse, zookeeper, pc, opt, asked, spent>>

\* The finally block of _set_deduplication_settings.
Disable(t) ==
    /\ task[t] \in {"disable", "disabling"}
    /\ \/ /\ task[t] = "disable"
          /\ settings' = [settings EXCEPT ![t] = "partial"]
          /\ Goto(t, "disabling") /\ UNCHANGED <<exc, errors>>
       \/ /\ task[t] = "disabling"
          /\ settings' = [settings EXCEPT ![t] = "off"]
          /\ Goto(t, "restored") /\ UNCHANGED <<exc, errors>>
       \/ Faults /\ EndFailed(t) /\ UNCHANGED settings
    /\ UNCHANGED <<own, detached, zookeeper, pc, opt, todo, asked, spent>>

\* The block ended without an exception.  A mutant: it does not matter.
EndedAnyway(t) == TRUE
EndedWell(t) == ~exc[t]

\* The end of the task: its table is done, unless an exception is pending.
MarkDone(t) ==
    /\ task[t] = "restored"
    /\ \/ /\ EndedWell(t)
          /\ done' = IF opt.dry THEN done ELSE done \cup {t}
          /\ Goto(t, "done") /\ UNCHANGED <<exc, errors>>
       \/ /\ exc[t] \/ (Faults /\ ~opt.dry)
          /\ EndFailed(t) /\ UNCHANGED done
    /\ UNCHANGED <<clickhouse, saved, doneNode, pc, opt, todo, asked, spent>>

Task(t) ==
    \/ TakeTask(t) \/ Enable(t) \/ ListPartitions(t) \/ ClearSaved(t)
    \/ Detach(t) \/ Attach(t) \/ SavePartition(t) \/ SyncReplicas(t)
    \/ Disable(t) \/ MarkDone(t)

-----------------------------------------------------------------------------

\* The command is killed with all of its threads.
Kill ==
    /\ pc # "idle" /\ spent.kills < MaxKills
    /\ pc' = "idle"
    /\ NoTasks
    /\ errors' = [t \in Tables |-> errors[t] + IF Running(t) THEN 1 ELSE 0]
    /\ spent' = [spent EXCEPT !.kills = @ + 1]
    /\ UNCHANGED <<clickhouse, zookeeper, opt, asked>>

Init ==
    /\ own = [t \in Tables |-> {}]
    /\ detached = own /\ todo = own
    /\ settings = [t \in Tables |-> "off"]
    /\ saved = [t \in Tables |-> 0] /\ errors = saved
    /\ asked = own
    /\ done = {} /\ doneNode = FALSE
    /\ pc = "idle" /\ opt \in Options
    /\ task = [t \in Tables |-> "none"]
    /\ exc = [t \in Tables |-> FALSE]
    /\ spent = [runs |-> 0, kills |-> 0]

Next ==
    \/ \E o \in Options : Start(o)
    \/ Main
    \/ \E t \in Tables : Task(t)
    \/ Kill

Spec == Init /\ [][Next]_vars

\* The threads of a command that is not killed keep running: every query has
\* a timeout.
FairSpec == Spec /\ WF_vars(Main \/ \E t \in Tables : Task(t))

-----------------------------------------------------------------------------
(* Properties *)

TaskLabels == Ended \cup
    {"queued", "enable", "enabling", "list", "clear", "detach", "attach",
     "save", "disable", "disabling", "restored"}

\* Every variable has its type.
TypeOK ==
    /\ own \in [Tables -> SUBSET Partitions]
    /\ detached \in [Tables -> SUBSET Partitions]
    /\ settings \in [Tables -> {"off", "partial", "on"}]
    /\ saved \in [Tables -> Partitions \cup {0}]
    /\ done \subseteq Tables /\ doneNode \in BOOLEAN
    /\ pc \in {"idle", "ignore", "select", "run", "forget"}
    /\ opt \in Options
    /\ task \in [Tables -> TaskLabels]
    /\ todo \in [Tables -> SUBSET Partitions]
    /\ exc \in [Tables -> BOOLEAN]
    /\ asked \in [Tables -> SUBSET Partitions]
    /\ errors \in [Tables -> Nat]
    /\ spent \in [runs : Nat, kills : Nat]

\* What is said about a table rests on the runs that made its saved state.

\* A table that the next run will skip has nothing left to do of what these
\* runs were asked for, whatever went wrong in them (the "done" nodes).
DoneIsDeduplicated ==
    \A t \in done : asked[t] \ detached[t] \subseteq own[t]

\* The same for what the next run will skip because of a saved partition.
SavedSkipsOnlyDeduplicated ==
    \A t \in Tables : saved[t] # 0 =>
        {p \in asked[t] \ detached[t] : p < saved[t]} \subseteq own[t]

\* When a run ends without an error, what it and the runs it goes on from were
\* asked for is deduplicated.
CompletedIsDeduplicated ==
    [][pc = "forget" /\ doneNode /\ ~doneNode' =>
         \A t \in Tables : asked[t] \ detached[t] \subseteq own[t]]_vars

\* When a run ends without an error, all it was asked for is deduplicated: its
\* partitions are reattached, and "in case of errors" it "saves state in ZK to
\* use it on retry" (deduplicate_command).
RunDoesWhatItIsAsked ==
    [][pc = "forget" /\ doneNode /\ ~doneNode' =>
         \A t \in Tables : AskedBy(opt)[t] \ detached[t] \subseteq own[t]]_vars

\* Every failure leaves at most one partition of a table detached: tasks go
\* through their partitions one by one and stop at the first error.
OnePartitionPerFailure ==
    \A t \in Tables :
        Cardinality(detached[t]) <=
            errors[t] + IF exc[t] \/ task[t] \in {"attach", "save"} THEN 1 ELSE 0

\* A table that is done has no settings left on it.
DoneHasNoSettings == \A t \in done : settings[t] = "off"

\* A command that is not killed ends: a failing task does not keep the others
\* from running, nor the pool from ending.
CommandEnds == pc # "idle" ~> pc = "idle"

\* A run that ends without an error leaves no partition detached.
NothingIsLeftDetached ==
    [][pc = "forget" /\ doneNode /\ ~doneNode' =>
         \A t \in Tables : detached[t] = {}]_vars
=============================================================================
