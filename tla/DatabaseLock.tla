---------------------------- MODULE DatabaseLock ----------------------------
(***************************************************************************)
(* DatabaseLockManager (ch_tools/chadmin/internal/database_replica.py):    *)
(* the ZooKeeper lock that elects the replica which creates the ZooKeeper  *)
(* structure of a Replicated database.  `chadmin database migrate` and     *)
(* `chadmin database restore-replica` both run inside it.                  *)
(*                                                                         *)
(* The lock is a persistent, empty node: `lock` remembers who created it,  *)
(* which the code does not, and no guard reads more of it than whether it  *)
(* exists.  DatabaseMigration composes these actions with the bodies that  *)
(* run between __enter__ and __exit__.                                     *)
(***************************************************************************)

CONSTANTS
    Replicas,   \* the hosts; one chadmin command runs on a host at a time
    NoLock,     \* the value of `lock` when the lock node does not exist
    ZkFaults    \* TRUE when removing the lock node may fail

ASSUME LockAssumption ==
    /\ NoLock \notin Replicas
    /\ ZkFaults \in BOOLEAN

VARIABLES
    lock,       \* the creator of the lock node, or NoLock
    zkParent,   \* whether the parent of the database node exists
    zkRoot,     \* whether the database node exists
    pc,         \* where the command of each host is
    first,      \* is_first_replica (= lock_acquired) of each command
    exc         \* whether the command of each host is unwinding an exception

lockVars == <<lock, zkParent, zkRoot, pc, first, exc>>

\* Where a command is before it runs its body: the steps of __enter__.
Entering == {"force", "acquire", "classify", "wait", "poll"}

Goto(r, label) == pc' = [pc EXCEPT ![r] = label]

\* An exception is raised: the command continues at `label` with it pending.
Raise(r, label) ==
    /\ exc' = [exc EXCEPT ![r] = TRUE]
    /\ Goto(r, label)

\* _remove_lock: every error is caught and logged, so a removal that fails
\* looks like one that succeeded.  It deletes the node, whoever made it.
RemoveLock == \/ lock' = NoLock
              \/ ZkFaults /\ UNCHANGED lock

\* The part of _try_acquire_first_replica_lock that --force-remove-lock adds.
ForceRemove(r) ==
    /\ pc[r] = "force"
    /\ RemoveLock
    /\ Goto(r, "acquire")
    /\ UNCHANGED <<zkParent, zkRoot, first, exc>>

\* Whether the error that _check_result_txn raises is NodeExistsError, if the
\* transaction of _try_acquire_first_replica_lock fails on an existing node.
\* A mutant: a lock node that exists is reported as well.
NodeExistsReportedForLock == zkRoot \/ lock # NoLock
NodeExistsReported == zkRoot

\* The kazoo transaction of _try_acquire_first_replica_lock, which creates
\* and deletes the database node and creates the lock node.  A transaction
\* reports RolledBackError for the operations in front of the failing one,
\* and _check_result_txn raises the first error of the list:
\*   - the parent is missing: NoNodeError, turned into a RuntimeError;
\*   - the database node exists: NodeExistsError, this is not the first;
\*   - only the lock node exists: RolledBackError, which nothing catches.
\* Any other error, and a lost connection, ends __enter__ as well; if the
\* transaction was committed and only its answer is lost, the lock node is
\* there, lock_acquired is not set, and no __exit__ will remove the node.
\* ensures: the caller has no database path of its own, so
\* _ensure_database_parent_path_exists creates the parent first.
Acquire(r, ensures) ==
    /\ pc[r] = "acquire"
    /\ zkParent' = (zkParent \/ ensures)
    /\ \/ /\ zkParent' /\ ~zkRoot /\ lock = NoLock
          /\ lock' = r
          /\ \/ /\ first' = [first EXCEPT ![r] = TRUE]
                /\ Goto(r, "body") /\ UNCHANGED exc
             \/ Raise(r, "unlock") /\ UNCHANGED first
       \/ /\ zkParent' /\ NodeExistsReported
          /\ Goto(r, "classify")
          /\ UNCHANGED <<lock, first, exc>>
       \/ Raise(r, "unlock") /\ UNCHANGED <<lock, first>>
    /\ UNCHANGED zkRoot

\* The except branch after NodeExistsError looks again at what exists, and
\* raises if it is nothing, or if it cannot look.
Classify(r) ==
    /\ pc[r] = "classify"
    /\ \/ (zkRoot \/ lock # NoLock) /\ Goto(r, "wait") /\ UNCHANGED exc
       \/ Raise(r, "unlock")
    /\ UNCHANGED <<lock, zkParent, zkRoot, first>>

\* Mutant: who is not the first goes on without waiting.
DoesNotWait == FALSE
WaitsForLock == lock # NoLock

\* __enter__ of a replica that is not the first: it waits if the lock exists.
Wait(r) ==
    /\ pc[r] = "wait"
    /\ Goto(r, IF WaitsForLock THEN "poll" ELSE "body")
    /\ UNCHANGED <<lock, zkParent, zkRoot, first, exc>>

\* _wait_for_lock_release sees the lock gone.
Released(r) ==
    /\ pc[r] = "poll"
    /\ lock = NoLock
    /\ Goto(r, "body")
    /\ UNCHANGED <<lock, zkParent, zkRoot, first, exc>>

\* _wait_for_lock_release gives up, or a request fails; the lock may be
\* released by then, after the last poll.
PollTimeout(r) ==
    /\ pc[r] = "poll"
    /\ Raise(r, "unlock")
    /\ UNCHANGED <<lock, zkParent, zkRoot, first>>

Enter(r, ensures) ==
    \/ ForceRemove(r)
    \/ Acquire(r, ensures)
    \/ Classify(r)
    \/ Wait(r)
    \/ Released(r)
    \/ PollTimeout(r)

\* __exit__ removes the lock node if this command created it.  Mutants: it
\* removes the node in any case, or not while an exception is pending.
ReleasesAlways(r) == TRUE
ReleasesOnSuccess(r) == first[r] /\ ~exc[r]
Releases(r) == first[r]

\* __exit__, and the end of the command.
Exit(r) ==
    /\ pc[r] = "unlock"
    /\ IF Releases(r) THEN RemoveLock ELSE UNCHANGED lock
    /\ Goto(r, "idle")
    /\ first' = [first EXCEPT ![r] = FALSE]
    /\ UNCHANGED <<zkParent, zkRoot, exc>>

=============================================================================
