---------------------------- MODULE CommandLoop ----------------------------
(***************************************************************************)
(* The loop of the commands of chadmin that make a list and work through   *)
(* it: for row in rows, with try, except and --keep-going around the       *)
(* queries of a row, or one task of the pool for each row.                 *)
(***************************************************************************)
EXTENDS Naturals, FiniteSets, FiniteSetsExt, Functions

CONSTANTS
    Items,          \* what a list may have in it
    Commands,       \* the command lines that may be run
    MaxFaults,      \* bound: queries that fail although the server could do them
    MaxKills        \* bound: commands that are killed

VARIABLES
    cmd,        \* the command line
    phase,      \* "start", "run", "ok", "error", "killed"
    listed,     \* the rows of the list
    at,         \* the rows at work, and where each of them is
    done, failed,
    faults, kills

loopVars == <<cmd, phase, listed, at, done, failed, faults, kills>>

NoFilter == "no filter"

PoolKinds == {"attach_parts", "move_partitions", "restore_replicas", "cleanup_data_dir",
              "migrate_dictionaries"}

\* No command that gives its rows to the pool has a limit of errors
\* (reattach has one, and a loop).
ASSUME CommandsAssumption ==
    \A c \in Commands :
        /\ c.keepGoing \in BOOLEAN /\ c.limitErrors \in Nat
        /\ c.kind \in PoolKinds => c.limitErrors = 0

\* The commands whose loop has try, except and --keep-going.
KeepGoing == cmd.keepGoing

\* Mutated: every command gives its rows to the pool.
PoolOfAll == cmd.workers > 1

Pool == cmd.kind \in PoolKinds

Ended == phase \in {"ok", "error", "killed"}

Pending == listed \ (done \cup failed)

LimitOfErrorsReached == cmd.limitErrors # 0 /\ Cardinality(failed) >= cmd.limitErrors

LoopInit ==
    /\ cmd \in Commands
    /\ phase = "start"
    /\ listed = {} /\ done = {} /\ failed = {}
    /\ at = <<>>
    /\ faults = 0 /\ kills = 0

\* A row is begun when the one before it is finished, or when a worker is free.
MayBegin(r) ==
    /\ phase = "run"
    /\ r \in Pending \ DOMAIN at
    /\ Cardinality(DOMAIN at) < (IF Pool THEN cmd.workers ELSE 1)
    /\ ~LimitOfErrorsReached

Begin(r, step) ==
    /\ MayBegin(r)
    /\ at' = [q \in DOMAIN at \cup {r} |-> IF q = r THEN step ELSE at[q]]
    /\ UNCHANGED <<cmd, phase, listed, done, failed, kills>>

\* Row r is at a step of that name.
IsAt(r, step) == phase = "run" /\ r \in DOMAIN at /\ at[r].step = step

GoTo(r, step) ==
    /\ at' = [at EXCEPT ![r] = step]
    /\ UNCHANGED <<cmd, phase, listed, done, failed, kills>>

Leave(r) == at' = Restrict(at, DOMAIN at \ {r})

Succeeds(r) ==
    /\ done' = done \cup {r}
    /\ Leave(r)
    /\ UNCHANGED <<cmd, phase, listed, failed, kills>>

\* Mutated: the exception of a pool's task leaves at once.
AfterFailureInPool == IF KeepGoing THEN phase ELSE "error"

\* The exception of a row: it leaves the loop at once, or at the end of the pool,
\* or is swallowed.
AfterFailure == IF KeepGoing \/ Pool THEN phase ELSE "error"

Fails(r) ==
    /\ failed' = failed \cup {r}
    /\ phase' = AfterFailure
    /\ Leave(r)
    /\ UNCHANGED <<cmd, listed, done, kills>>

\* A query that the server could do fails, as far as the client can see.
Fault == faults < MaxFaults /\ faults' = faults + 1

Listing(rows) ==
    /\ phase = "start"
    /\ phase' = "run"
    /\ listed' \in rows
    /\ UNCHANGED <<cmd, at, done, failed, faults, kills>>

ListingFails ==
    /\ phase = "start"
    /\ phase' = "error"
    /\ UNCHANGED <<cmd, listed, at, done, failed, kills>>

Finish ==
    /\ phase = "run"
    /\ at = <<>>
    /\ Pending = {} \/ LimitOfErrorsReached
    /\ phase' = IF failed = {} \/ KeepGoing THEN "ok" ELSE "error"
    /\ UNCHANGED <<cmd, listed, at, done, failed, faults, kills>>

Kill ==
    /\ ~Ended
    /\ kills < MaxKills
    /\ kills' = kills + 1
    /\ phase' = "killed"
    /\ UNCHANGED <<cmd, listed, at, done, failed, faults>>

---------------------------------------------------------------------------
Limited(rows) ==
    IF cmd.limit = 0 \/ cmd.limit >= Cardinality(rows) THEN {rows}
    ELSE kSubset(cmd.limit, rows)

Bulk == INSTANCE BulkCommand WITH
    options <- [keepGoing |-> cmd.keepGoing, pool |-> Pool, limit |-> cmd.limitErrors]

\* A command keeps the promise of BulkCommand: every step at one of its rows is a
\* step of the abstract loop, or none.
ImplementsBulk == Bulk!BulkSpec
=============================================================================
