---------------------------- MODULE BulkCommand ----------------------------
(***************************************************************************)
(* What every command of chadmin that works through a list promises: the   *)
(* list is made once, an item is processed at most once, the first failure *)
(* stops the command unless --keep-going is given or the items are tasks of *)
(* the pool (which runs every task that was submitted), and a command that *)
(* ends well has processed its list or has reached the limit of errors.    *)
(***************************************************************************)
EXTENDS Naturals, FiniteSets

CONSTANT Items

VARIABLES
    phase,      \* "start", "run", and then "ok", "error" or "killed"
    options,    \* keepGoing, pool, and the limit of errors (0: none)
    listed, done, failed

bulkVars == <<phase, options, listed, done, failed>>

Options == [keepGoing : BOOLEAN, pool : BOOLEAN, limit : Nat]

Processed == done \cup failed

LimitReached == options.limit # 0 /\ Cardinality(failed) >= options.limit

BulkInit ==
    /\ phase = "start"
    /\ options \in Options
    /\ listed = {} /\ done = {} /\ failed = {}

BulkList ==
    /\ phase = "start"
    /\ phase' = "run"
    /\ listed' \in SUBSET Items
    /\ UNCHANGED <<options, done, failed>>

BulkSucceed(i) ==
    /\ done' = done \cup {i}
    /\ UNCHANGED <<phase, failed>>

BulkFail(i) ==
    /\ failed' = failed \cup {i}
    /\ phase' = IF options.keepGoing \/ options.pool THEN phase ELSE "error"
    /\ UNCHANGED done

BulkProcess ==
    /\ phase = "run"
    /\ ~LimitReached
    /\ \E i \in listed \ Processed : BulkSucceed(i) \/ BulkFail(i)
    /\ UNCHANGED <<options, listed>>

BulkEnd ==
    /\ phase = "run"
    /\ Processed = listed \/ LimitReached
    /\ phase' = IF failed = {} \/ options.keepGoing THEN "ok" ELSE "error"
    /\ UNCHANGED <<options, listed, done, failed>>

\* The list cannot be made, or somebody kills the command.
BulkStop ==
    /\ \/ phase = "start" /\ phase' = "error"
       \/ phase \in {"start", "run"} /\ phase' = "killed"
    /\ UNCHANGED <<options, listed, done, failed>>

BulkNext == BulkList \/ BulkProcess \/ BulkEnd \/ BulkStop

BulkSpec == BulkInit /\ [][BulkNext]_bulkVars
=============================================================================
