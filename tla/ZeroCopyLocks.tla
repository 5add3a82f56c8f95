--------------------------- MODULE ZeroCopyLocks ---------------------------
(***************************************************************************)
(* create-zero-copy-locks (cli/zookeeper_group.py, internal/zero_copy.py): *)
(* one task per part, run by a pool of workers over one ZooKeeper client.  *)
(* A task looks at the locks and the parts of its replicas, collects the   *)
(* parents that are missing, and creates everything in one transaction,    *)
(* which it starts anew when a node is missing or already there.  The      *)
(* cleanup commands and the servers are those of ZooKeeperCleanup.         *)
(***************************************************************************)
EXTENDS ZooKeeperCleanup

CONSTANTS
    Parts,          \* the parts on the disk: [uuid, table, part, blob]
    SharedId,       \* the tables whose table_shared_id can be read
    SystemReplicas, \* the replicas in system.replicas, in its order
    Macro,          \* the macro "replica", "" when there is none
    LockOptions,    \* the command lines, see Options
    NewRoot,        \* the directory the locks are created in
    OldRoot,        \* --zero-copy-path-old, or the directory of the server
    MaxWorkers,     \* --max-workers
    MaxAttempts     \* max_attempts of the retry

VARIABLES
    options,    \* the command line
    creators,   \* the tasks
    valued      \* the part nodes that hold a list of hardlinked files

lockVars == <<options, creators, valued>>
allVars == <<vars, lockVars>>

Options == [replicas : Seq(STRING), all : BOOLEAN, macro : BOOLEAN, check : BOOLEAN,
            copy : BOOLEAN, keepGoing : BOOLEAN, dry : BOOLEAN]

\* One server holds one replica of a table, and system.parts has a part name once
\* in it.
ASSUME PartsAssumption ==
    /\ Parts \subseteq [uuid : STRING, table : Seq(STRING), part : STRING, blob : STRING]
    /\ \A k, j \in Parts : k.uuid = j.uuid /\ k.part = j.part => k = j

\* The column replica_is_active is a map: its keys differ.
ASSUME LockOptionsAssumption ==
    /\ LockOptions \subseteq Options
    /\ NewRoot \in Seq(STRING)
    /\ IsInjective(SystemReplicas)
    /\ SystemReplicas \in Seq(STRING) /\ Macro \in STRING

\* The code makes three attempts.
ASSUME AttemptsAssumption == MaxAttempts \in Nat /\ MaxAttempts >= 3

\* _get_replicas_and_zk_path: <<>> stands for the errors it raises.
ReplicasToLock ==
    LET macro == IF options.replicas = <<>> \/ options.macro THEN <<Macro>> ELSE <<>>
        chosen == options.replicas \o macro
    IN  IF options.all THEN SystemReplicas
        ELSE IF "" \in Range(chosen) THEN <<>>
        ELSE IF options.check /\ ~(Range(chosen) \subseteq Range(SystemReplicas)) THEN <<>>
        ELSE chosen

\* _get_zero_copy_lock_info and _get_part_path_in_zk
PartNode(k) == NewRoot \o <<k.uuid, k.part>>
OldNode(k) == OldRoot \o <<k.uuid, k.part>>
LockPath(k, r) == PartNode(k) \o <<k.blob, r>>
PartPath(k, r) == k.table \o <<"replicas", r, "parts", k.part>>

\* twice: a lock is listed two times; stale: the checked parts written since the look.
NewTask == [pc |-> "new", left |-> <<>>, want |-> {}, twice |-> FALSE, checks |-> {},
            stale |-> {}, parents |-> {}, value |-> FALSE, attempt |-> 1]

\* generate_zero_copy_lock_tasks: a table without table_shared_id is skipped.
NewCreators == [k \in {k \in Parts : k.uuid \in SharedId} |-> NewTask]

Running == {k \in DOMAIN creators : creators[k].pc \notin {"new", "done", "failed"}}

Looking(k) == [creators[k] EXCEPT !.pc = "look", !.left = ReplicasToLock,
                                  !.want = {}, !.twice = FALSE, !.checks = {}, !.stale = {}]

Change(k, c) == creators' = [creators EXCEPT ![k] = c] /\ UNCHANGED options

TaskStarts(k) ==
    /\ creators[k].pc = "new" /\ Cardinality(Running) < MaxWorkers
    /\ Change(k, Looking(k)) /\ UNCHANGED <<vars, valued>>

\* One replica: is its lock there, and is its part still there?  A replica that is
\* named again is looked at again, and its lock listed again.
TaskLooks(k) ==
    /\ creators[k].pc = "look" /\ creators[k].left # <<>>
    /\ LET r == Head(creators[k].left)
           c == [creators[k] EXCEPT !.left = Tail(@)]
       IN  Change(k, IF \/ LockPath(k, r) \in tree
                        \/ options.check /\ PartPath(k, r) \notin tree
                     THEN c
                     ELSE [c EXCEPT !.want = @ \cup {LockPath(k, r)},
                                    !.twice = @ \/ LockPath(k, r) \in c.want,
                                    !.checks = @ \cup IF options.check
                                                      THEN {PartPath(k, r)} ELSE {}])
    /\ UNCHANGED <<vars, valued>>

\* The value to copy is read when the old and the new directory differ; a dry run
\* ends here.
TaskReadsValue(k) ==
    /\ creators[k].pc = "look" /\ creators[k].left = <<>>
    /\ Change(k, [creators[k] EXCEPT
                    !.pc = IF creators[k].want = {} \/ options.dry THEN "done" ELSE "parents",
                    !.value = options.copy /\ NewRoot # OldRoot
                              /\ OldNode(k) \in tree /\ OldNode(k) \in valued])
    /\ UNCHANGED <<vars, valued>>

\* _get_parent_paths_to_create: below the first missing one, all are missing.
MissingParents(l) ==
    {SubSeq(l, 1, j) : j \in {i \in 1..(Len(l) - 1) : \E h \in 1..i : SubSeq(l, 1, h) \notin tree}}

TaskReadsParents(k) ==
    /\ creators[k].pc = "parents"
    /\ Change(k, [creators[k] EXCEPT !.pc = "commit",
                    !.parents = UNION {MissingParents(l) : l \in creators[k].want}])
    /\ UNCHANGED <<vars, valued>>

\* Mutated: the transaction without the checks of the parts.
CommitsUnchecked(k) ==
    LET new == creators[k].parents \cup creators[k].want
    IN  /\ ~creators[k].twice
        /\ new \cap tree = {} /\ \A n \in new : Len(n) = 1 \/ Front(n) \in tree \cup new

\* The checks of the transaction and the nodes it creates; one that fails undoes
\* them all.
Commits(k) ==
    LET c == creators[k]
        new == c.parents \cup c.want
    IN  /\ c.checks \subseteq tree \ c.stale
        /\ ~c.twice /\ new \cap tree = {}
        /\ \A n \in new : Len(n) = 1 \/ Front(n) \in tree \cup new

\* Mutated: the first attempt counts twice.
RetriesLess(k) == creators[k].attempt + 1 < MaxAttempts

\* check() fails with NoNodeError for a part that is gone and with BadVersionError for
\* one that was written; the checks come first in the transaction, and the first that
\* fails decides.  All other failures are NoNodeError or NodeExistsError.
NoNode(k) == ~(creators[k].checks \subseteq tree)
BadVersion(k) == creators[k].stale \cap tree # {}

\* max_attempts
Retries(k) == creators[k].attempt < MaxAttempts

TaskCommits(k) ==
    /\ creators[k].pc = "commit"
    /\ LET c == creators[k]
       IN  IF Commits(k)
           THEN /\ tree' = tree \cup c.parents \cup c.want
                /\ valued' = IF c.value /\ PartNode(k) \in c.parents
                             THEN valued \cup {PartNode(k)} ELSE valued
                /\ Change(k, [c EXCEPT !.pc = "done"])
           ELSE /\ \/ /\ NoNode(k) \/ ~BadVersion(k)
                      /\ Change(k, IF Retries(k)
                                   THEN [Looking(k) EXCEPT !.attempt = c.attempt + 1]
                                   ELSE [c EXCEPT !.pc = "failed"])
                   \/ BadVersion(k) /\ Change(k, [c EXCEPT !.pc = "failed"])
                /\ UNCHANGED <<tree, valued>>
    /\ UNCHANGED <<del, fresh, cleanVars>>

\* A server writes the node of a part that tasks have looked at.
ServerWrites ==
    /\ pc = "create" /\ env.steps < MaxServer
    /\ \E p \in tree :
        /\ \E k \in Running : p \in creators[k].checks \ creators[k].stale
        /\ creators' = [k \in DOMAIN creators |->
                           [creators[k] EXCEPT !.stale = @ \cup ({p} \cap creators[k].checks)]]
    /\ env' = [env EXCEPT !.steps = @ + 1]
    /\ UNCHANGED <<treeVars, command, pc, inspector, objects, tasks, ddl, walk, whose,
                   options, valued>>

TaskStep(k) ==
    \/ TaskStarts(k) \/ TaskLooks(k) \/ TaskReadsValue(k)
    \/ TaskReadsParents(k) \/ TaskCommits(k)

\* The command ends when all tasks ended; no replicas mean an error before them.
CreateEnds ==
    /\ pc = "create"
    /\ ReplicasToLock = <<>> \/ \A k \in DOMAIN creators : creators[k].pc \in {"done", "failed"}
    /\ pc' = IF \/ ReplicasToLock = <<>>
                \/ ~options.keepGoing /\ \E k \in DOMAIN creators : creators[k].pc = "failed"
             THEN "failed" ELSE "ended"
    /\ UNCHANGED <<treeVars, command, inspector, objects, tasks, ddl, walk, whose, env, lockVars>>

Create == pc = "create" /\ ReplicasToLock # <<>> /\ \E k \in DOMAIN creators : TaskStep(k)

LocksInit ==
    /\ Init
    /\ options \in LockOptions
    /\ command.kind # "create" => options = CHOOSE o \in LockOptions : TRUE
    /\ creators = NewCreators
    /\ valued = {n \in InitTree : Len(n) = Len(OldRoot) + 2 /\ IsPrefix(OldRoot, n)}

\* A step of the module ZooKeeperCleanup; a new start makes new tasks.
Beside(Step) ==
    /\ Step
    /\ creators' = IF pc = "failed" THEN NewCreators ELSE creators
    /\ valued' = valued \cap tree'
    /\ UNCHANGED options

LocksNext == Beside(Next) \/ Create \/ CreateEnds \/ ServerWrites

LocksSpec == LocksInit /\ [][LocksNext]_allVars

\* The command and the replies it waits for go on.
Progress == Beside(CommandStep) \/ Beside(ZooKeeperReplies) \/ Create \/ CreateEnds

FairLocksSpec == LocksSpec /\ WF_allVars(Progress)

---------------------------------------------------------------------------
(* Properties *)

\* A lock is created only while the part of its replica is there: a part that is
\* removed between the look and the transaction takes its lock with it.
CreatedLocksHaveParts ==
    [][\A k \in DOMAIN creators :
        pc = "create" /\ options.check =>
            \A r \in Range(ReplicasToLock) :
                LockPath(k, r) \in tree' \ (tree \cup fresh') => PartPath(k, r) \in tree']_allVars

\* The three attempts are enough for the tasks of one command: they disturb each
\* other only by creating the parents they share, so a task that fails met the
\* steps of somebody else, unless the command names a replica twice.
AttemptsSuffice ==
    \A k \in DOMAIN creators :
        creators[k].pc = "failed" => env.steps > 0 \/ ~IsInjective(ReplicasToLock)

\* --include-replica-macro includes the replica of the macro "even if --replicas is
\* specified": a task fails only when a server changed the tree under it.
\* It does not hold when --replicas names the replica of the macro.
MacroIsIncluded ==
    options.macro => \A k \in DOMAIN creators : creators[k].pc = "failed" => env.steps > 0

===========================================================================
