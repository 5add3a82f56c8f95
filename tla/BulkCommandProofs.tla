------------------------- MODULE BulkCommandProofs -------------------------
(***************************************************************************)
(* What a reader may conclude from the report of a command that works      *)
(* through a list, proved for every list.  The run server shows that the   *)
(* commands on parts, tables, replicas and files implement BulkSpec.       *)
(***************************************************************************)
EXTENDS BulkCommand, TLAPS

Phases == {"start", "run", "ok", "error", "killed"}

\* Nothing outside of the list is processed, and nothing twice.
ProcessedOnce ==
    /\ Processed \subseteq listed
    /\ done \cap failed = {}

\* The report "ok" means that every item is done, except those that failed under
\* --keep-going and those that were not tried when the limit of errors was reached.
OkIsComplete ==
    phase = "ok" =>
        /\ failed # {} => options.keepGoing
        /\ listed \subseteq Processed \/ LimitReached

\* Without --keep-going and without a pool the first failure is the last thing
\* that happens: one item has failed, and the command says so.
StopsAtFirstFailure ==
    ~options.keepGoing /\ ~options.pool /\ failed # {} =>
        /\ phase = "error"
        /\ \A i, j \in failed : i = j

\* With a pool an error is reported when every item was processed, and never before
\* (of a list that could be made).
PoolProcessesAll ==
    phase = "error" /\ options.pool /\ listed # {} =>
        /\ failed # {}
        /\ listed \subseteq Processed \/ LimitReached

BulkType ==
    /\ phase \in Phases
    /\ options \in Options
    /\ listed \subseteq Items
    /\ phase = "start" => listed = {} /\ done = {} /\ failed = {}

BulkInv ==
    /\ BulkType
    /\ ProcessedOnce
    /\ OkIsComplete
    /\ StopsAtFirstFailure
    /\ PoolProcessesAll

\* Nothing is done at first.
LEMMA InitEstablishes == BulkInit => BulkInv
<1> SUFFICES ASSUME BulkInit PROVE BulkInv
    OBVIOUS
<1> USE DEF BulkInit
<1>1. BulkType
    BY DEF BulkType, Phases
<1>2. ProcessedOnce
    BY DEF ProcessedOnce, Processed
<1>3. OkIsComplete /\ StopsAtFirstFailure /\ PoolProcessesAll
    BY DEF OkIsComplete, StopsAtFirstFailure, PoolProcessesAll
<1> QED BY <1>1, <1>2, <1>3 DEF BulkInv

\* BulkFail is the step that every part of the invariant depends on: the phase
\* after it, and the items that had failed before it.
LEMMA StepPreserves == BulkInv /\ [BulkNext]_bulkVars => BulkInv'
<1> SUFFICES ASSUME BulkInv, [BulkNext]_bulkVars PROVE BulkInv'
    OBVIOUS
<1> USE DEF BulkInv, BulkType, Phases, ProcessedOnce, OkIsComplete,
            StopsAtFirstFailure, PoolProcessesAll, Processed, LimitReached
<1>1. CASE BulkList
    BY <1>1 DEF BulkList
<1>2. ASSUME phase = "run", ~LimitReached, NEW i \in listed \ Processed,
             BulkSucceed(i), UNCHANGED <<options, listed>>
      PROVE  BulkInv'
    BY <1>2 DEF BulkSucceed
<1>3. ASSUME phase = "run", ~LimitReached, NEW i \in listed \ Processed,
             BulkFail(i), UNCHANGED <<options, listed>>
      PROVE  BulkInv'
    <2>1. CASE options.keepGoing \/ options.pool
        BY <1>3, <2>1 DEF BulkFail
    <2>2. CASE ~(options.keepGoing \/ options.pool)
        <3>1. failed = {}
            BY <1>3, <2>2
        <3>2. failed' = {i} /\ phase' = "error"
            BY <1>3, <2>2, <3>1 DEF BulkFail
        <3> QED BY <1>3, <2>2, <3>2 DEF BulkFail
    <2> QED BY <2>1, <2>2
<1>4. CASE BulkEnd
    BY <1>4 DEF BulkEnd
<1>5. CASE BulkStop
    BY <1>5 DEF BulkStop
<1>6. CASE UNCHANGED bulkVars
    BY <1>6 DEF bulkVars
<1> QED
    BY <1>1, <1>2, <1>3, <1>4, <1>5, <1>6 DEF BulkNext, BulkProcess

\* The report of a command can be trusted, for every list and every combination of
\* the options: see the four parts of BulkInv above.
THEOREM ReportIsTrue ==
    BulkSpec => [](ProcessedOnce /\ OkIsComplete /\ StopsAtFirstFailure /\ PoolProcessesAll)
<1>1. BulkInv => ProcessedOnce /\ OkIsComplete /\ StopsAtFirstFailure /\ PoolProcessesAll
    BY DEF BulkInv
<1> QED
    BY InitEstablishes, StepPreserves, <1>1, PTL DEF BulkSpec
=============================================================================
