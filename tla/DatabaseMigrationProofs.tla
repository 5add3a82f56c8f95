---------------------- MODULE DatabaseMigrationProofs ----------------------
(***************************************************************************)
(* Theorems about DatabaseMigration, for every number of hosts and tables. *)
(***************************************************************************)
EXTENDS DatabaseMigration, FiniteSetTheorems, TLAPS

-----------------------------------------------------------------------------
(* Type correctness *)

\* Every initial state has the types.
LEMMA InitType == Init => TypeOK
<1> SUFFICES ASSUME Init PROVE TypeOK
  OBVIOUS
<1>1. Cardinality(Replicas) + 1 \in Nat
  BY MigrationAssumption, FS_CardinalityType
<1>2. (CHOOSE r \in Replicas : TRUE) \in Replicas
  BY MigrationAssumption
<1>3. tab \in [Replicas -> [Tables -> Row \cup {NoRow}]]
  BY DEF Init, TabsOf
<1>4. zkTab \in [Tables -> ZkRow \cup {NoRow}]
  <2> SUFFICES ASSUME NEW t \in Tables
               PROVE  zkTab[t] \in ZkRow \cup {NoRow}
    BY DEF Init
  <2>1. tab[CHOOSE r \in Replicas : TRUE][t] \in Row \cup {NoRow}
    BY <1>2, <1>3
  <2>2. QED
    BY <2>1 DEF Init, AsZkRow, Row, ZkRow
<1>5. digest \in [Replicas -> {"absent", "zero", "set"}] /\ seq \in Nat
  BY <1>1 DEF Init
<1>6. engine \in [Replicas -> {"Atomic", "Replicated"}]
  BY MigrationAssumption DEF Init
<1>7. /\ todo \in [Replicas -> SUBSET Tables]
      /\ moving \in [Replicas -> [table : Tables, old : Uuids] \cup {NoTable}]
      /\ spent \in [commands : Nat, crashes : Nat, ddl : Nat]
  BY DEF Init
<1>8. QED
  BY <1>3, <1>4, <1>5, <1>6, <1>7 DEF Init, TypeOK, LockType, ZkType, HostType,
     ProcType, HistoryType, Labels, Entering, CommandNames

\* What a replica publishes of its own tables has the type of metadata/.
LEMMA PublishType ==
    ASSUME TypeOK, NEW r \in Replicas
    PROVE  [t \in Tables |-> AsZkRow(tab[r][t])] \in [Tables -> ZkRow \cup {NoRow}]
<1>1. ASSUME NEW t \in Tables PROVE AsZkRow(tab[r][t]) \in ZkRow \cup {NoRow}
  <2>1. tab[r][t] \in Row \cup {NoRow}
    BY DEF TypeOK, HostType
  <2>2. QED
    BY <2>1 DEF AsZkRow, Row, ZkRow
<1>2. QED
  BY <1>1

\* The tables that _sync_table_uuids has to look at, and the one change_uuid
\* is moving, are tables of the host.  The types alone are not inductive: the
\* assignments to a row keep its type only if the row is there.
SyncsLocalTables ==
    \A r \in Replicas :
        /\ \A t \in todo[r] : tab[r][t] \in Row
        /\ pc[r] = "move" => /\ moving[r] \in [table : Tables, old : Uuids]
                             /\ tab[r][moving[r].table] \in Row

\* What an assignment to one field of a row gives.
LEMMA RowUpdate ==
    ASSUME NEW row \in Row
    PROVE  /\ \A u \in Uuids : [row EXCEPT !.uuid = u] \in Row
           /\ \A u \in Uuids : [row EXCEPT !.store = u] \in Row
           /\ \A s \in Schemas : [row EXCEPT !.schema = s] \in Row
  BY DEF Row

\* Every step keeps the types.
LEMMA NextType == TypeOK /\ SyncsLocalTables /\ [Next]_vars => TypeOK'
<1> SUFFICES ASSUME TypeOK, SyncsLocalTables, [Next]_vars PROVE TypeOK'
  OBVIOUS
<1> USE LockAssumption, MigrationAssumption DEF TypeOK
<1>1. ASSUME NEW r \in Replicas, NEW c \in Commands, NEW force \in Forces, Start(r, c, force)
      PROVE  TypeOK'
  <2>1. LockType'
    BY <1>1 DEF Start, LockType, Goto, Labels, Entering
  <2>2. ProcType'
    BY <1>1 DEF Start, ProcType, CommandNames
  <2>3. HistoryType'
    BY <1>1 DEF Start, HistoryType, historyVars
  <2>4. QED
    BY <1>1, <2>1, <2>2, <2>3 DEF Start, ZkType, HostType, zkVars, hostVars
<1>2. ASSUME NEW r \in Replicas, TakeLock(r)
      PROVE  TypeOK'
  <2>1. LockType'
    BY <1>2 DEF TakeLock, LockType, Enter, ForceRemove, Acquire, NodeExistsReported,
       Classify, Wait, Released, PollTimeout, RemoveLock, Raise, Goto, Labels, Entering,
       WaitsForLock
  <2>2. QED
    BY <1>2, <2>1 DEF TakeLock, ZkType, HostType, ProcType, HistoryType, historyVars, zkVars, hostVars, procVars
<1>3. ASSUME NEW r \in Replicas, Finish(r)
      PROVE  TypeOK'
  <2>1. LockType'
    BY <1>3 DEF Finish, LockType, Exit, Releases, RemoveLock, Goto, Labels
  <2>2. HistoryType'
    BY <1>3 DEF Finish, HistoryType, historyVars
  <2>3. QED
    BY <1>3, <2>1, <2>2 DEF Finish, ZkType, HostType, ProcType, zkVars, hostVars, procVars
<1>4. ASSUME NEW r \in Replicas, Body(r)
      PROVE  TypeOK'
  <2>1. LockType'
    BY <1>4 DEF Body, LockType, Raise, Goto, Labels, UsesRestore
  <2>2. ProcType'
    BY <1>4 DEF Body, ProcType, LocalTables, UsesRestore
  <2>3. HistoryType'
    BY <1>4 DEF Body, HistoryType, historyVars, UsesRestore
  <2>4. QED
    BY <1>4, <2>1, <2>2, <2>3 DEF Body, ZkType, HostType, zkVars, hostVars, UsesRestore
<1>5. ASSUME NEW r \in Replicas, Detach(r)
      PROVE  TypeOK'
  <2>1. LockType'
    BY <1>5 DEF Detach, LockType, Raise, Goto, Labels, SetAttached
  <2>2. HostType'
    BY <1>5 DEF Detach, HostType, SetAttached
  <2>3. QED
    BY <1>5, <2>1, <2>2 DEF Detach, ZkType, ProcType, HistoryType, historyVars, zkVars, procVars,
       SetAttached
<1>6. ASSUME NEW r \in Replicas, Rewrite(r)
      PROVE  TypeOK'
  <2>1. LockType'
    BY <1>6 DEF Rewrite, LockType, Raise, Goto, Labels
  <2>2. HostType'
    BY <1>6 DEF Rewrite, HostType
  <2>3. QED
    BY <1>6, <2>1, <2>2 DEF Rewrite, ZkType, ProcType, HistoryType, historyVars, zkVars, procVars
<1>7. ASSUME NEW r \in Replicas, Clean(r)
      PROVE  TypeOK'
  <2>1. LockType'
    BY <1>7 DEF Clean, LockType, Goto, Labels
  <2>2. ZkType'
    <3>1. zkTab' \in [Tables -> ZkRow \cup {NoRow}]
      BY <1>7 DEF Clean, ZkType
    <3>2. digest' \in [Replicas -> {"absent", "zero", "set"}]
      BY <1>7 DEF Clean, ZkType
    <3>3. seq' = 0 \/ seq' = seq
      BY <1>7, Zenon DEF Clean
    <3>4. firstLog' \in {firstLog, FALSE}
      BY <1>7 DEF Clean
    <3>5. seq' \in Nat
      BY <3>3 DEF ZkType
    <3>6. firstLog' \in BOOLEAN
      BY <3>4, Zenon DEF ZkType
    <3>7. QED
      BY <3>1, <3>2, <3>5, <3>6 DEF ZkType
  <2>3. HistoryType'
    BY <1>7 DEF Clean, HistoryType
  <2>4. QED
    BY <1>7, <2>1, <2>2, <2>3 DEF Clean, HostType, ProcType, hostVars, procVars
<1>8. ASSUME NEW r \in Replicas, NEW t \in Tables, SyncTable(r, t)
      PROVE  TypeOK'
  <2>1. LockType'
    BY <1>8 DEF SyncTable, LockType, Raise, Goto, Labels
  <2>2. HostType'
    <3>1. CASE UNCHANGED tab
      BY <1>8, <3>1 DEF SyncTable, HostType
    <3>2. CASE /\ zkTab[t] # NoRow
               /\ tab' = [tab EXCEPT ![r][t].uuid = zkTab[t].uuid]
      <4>1. zkTab[t].uuid \in Uuids /\ tab[r][t] \in Row
        BY <1>8, <3>2 DEF SyncTable, SyncsLocalTables, ZkType, ZkRow
      <4>2. QED
        <5>1. [tab[r][t] EXCEPT !.uuid = zkTab[t].uuid] \in Row
          BY <4>1, RowUpdate
        <5>2. tab' = [tab EXCEPT ![r] = [tab[r] EXCEPT ![t] =
                         [tab[r][t] EXCEPT !.uuid = zkTab[t].uuid]]]
          BY <3>2 DEF HostType
        <5>3. UNCHANGED <<engine, attached>>
          BY <1>8 DEF SyncTable
        <5>4. QED
          BY <5>1, <5>2, <5>3 DEF HostType
    <3>3. QED
      BY <1>8, <3>1, <3>2 DEF SyncTable
  <2>3. ProcType'
    <3>1. tab[r][t] \in Row /\ tab[r][t].uuid \in Uuids
      BY <1>8 DEF SyncTable, SyncsLocalTables, Row
    <3>2. moving' \in [Replicas -> [table : Tables, old : Uuids] \cup {NoTable}]
      BY <1>8, <3>1 DEF SyncTable, ProcType
    <3>3. changed' \in [Replicas -> BOOLEAN]
      BY <1>8 DEF SyncTable, ProcType
    <3>4. QED
      BY <1>8, <3>2, <3>3 DEF SyncTable, ProcType
  <2>4. QED
    BY <1>8, <2>1, <2>2, <2>3 DEF SyncTable, ZkType, HistoryType, historyVars, zkVars
<1>9. ASSUME NEW r \in Replicas, MoveStore(r)
      PROVE  TypeOK'
  <2>1. LockType'
    BY <1>9 DEF MoveStore, LockType, Raise, Goto, Labels
  <2>2. HostType'
    <3>1. CASE UNCHANGED tab
      BY <1>9, <3>1 DEF MoveStore, HostType
    <3>2. CASE tab' = [tab EXCEPT ![r][moving[r].table].store =
                                     tab[r][moving[r].table].uuid]
      <4> DEFINE t == moving[r].table
      <4>1. t \in Tables /\ tab[r][t] \in Row
        BY <1>9 DEF MoveStore, SyncsLocalTables
      <4>2. [tab[r][t] EXCEPT !.store = tab[r][t].uuid] \in Row
        BY <4>1 DEF Row
      <4>3. QED
        BY <1>9, <3>2, <4>1, <4>2 DEF MoveStore, HostType
    <3>3. QED
      BY <1>9, <3>1, <3>2 DEF MoveStore
  <2>3. ProcType'
    BY <1>9 DEF MoveStore, ProcType
  <2>4. QED
    BY <1>9, <2>1, <2>2, <2>3 DEF MoveStore, ZkType, HistoryType, historyVars, zkVars
<1>10. ASSUME NEW r \in Replicas, SyncDone(r)
      PROVE  TypeOK'
  <2>1. LockType'
    BY <1>10 DEF SyncDone, LockType, Goto, Labels
  <2>2. QED
    BY <1>10, <2>1 DEF SyncDone, ZkType, HostType, ProcType, HistoryType, historyVars, zkVars, hostVars, procVars
<1>11. ASSUME NEW r \in Replicas, Attach(r)
      PROVE  TypeOK'
  <2>1. LockType'
    BY <1>11 DEF Attach, LockType, Raise, Goto, Labels, SetAttached
  <2>2. HostType'
    BY <1>11 DEF Attach, HostType, SetAttached
  <2>3. QED
    BY <1>11, <2>1, <2>2 DEF Attach, ZkType, ProcType, HistoryType, historyVars, zkVars, procVars,
       SetAttached
<1>12. ASSUME NEW r \in Replicas, Restart(r)
      PROVE  TypeOK'
  <2>1. LockType'
    BY <1>12 DEF Restart, LockType, Raise, Goto, Labels, SetAttached
  <2>2. HostType'
    BY <1>12 DEF Restart, HostType, SetAttached
  <2>3. QED
    BY <1>12, <2>1, <2>2 DEF Restart, ZkType, ProcType, HistoryType, historyVars, zkVars, procVars,
       SetAttached
<1>13. ASSUME NEW r \in Replicas, Restore(r)
      PROVE  TypeOK'
  <2>1. LockType'
    BY <1>13 DEF Restore, LockType, Raise, Goto, Labels, Answered
  <2>2. ZkType'
    BY <1>13, PublishType DEF Restore, ZkType, zkVars, Answered
  <2>3. QED
    BY <1>13, <2>1, <2>2 DEF Restore, HostType, ProcType, HistoryType, historyVars, hostVars, procVars,
       Answered
<1>14. ASSUME NEW r \in Replicas, CreateStructure(r)
      PROVE  TypeOK'
  <2>1. LockType'
    BY <1>14 DEF CreateStructure, LockType, Raise, Goto, Labels, Answered
  <2>2. ZkType'
    BY <1>14 DEF CreateStructure, ZkType, Answered
  <2>3. QED
    BY <1>14, <2>1, <2>2 DEF CreateStructure, HostType, ProcType, HistoryType, historyVars, hostVars,
       procVars, Answered
<1>15. ASSUME NEW r \in Replicas, GenerateCounter(r)
      PROVE  TypeOK'
  <2>1. LockType'
    BY <1>15 DEF GenerateCounter, LockType, Raise, Goto, Labels, Answered
  <2>2. ZkType'
    BY <1>15 DEF GenerateCounter, ZkType, Answered
  <2>3. ProcType'
    BY <1>15 DEF GenerateCounter, ProcType, ZkType, Answered
  <2>4. QED
    BY <1>15, <2>1, <2>2, <2>3 DEF GenerateCounter, HostType, HistoryType, historyVars, hostVars,
       Answered
<1>16. ASSUME NEW r \in Replicas, CreateReplicaNodes(r)
      PROVE  TypeOK'
  <2>1. LockType'
    BY <1>16 DEF CreateReplicaNodes, LockType, Raise, Goto, Labels, Answered
  <2>2. ZkType'
    BY <1>16, PublishType DEF CreateReplicaNodes, Published, LogIsThere, ZkType, Answered
  <2>3. QED
    BY <1>16, <2>1, <2>2 DEF CreateReplicaNodes, HostType, ProcType, HistoryType, historyVars, hostVars,
       procVars, Answered
<1>17. ASSUME NEW r \in Replicas, Reattach(r)
      PROVE  TypeOK'
  <2>1. LockType'
    BY <1>17 DEF Reattach, LockType, Raise, Goto, Labels, SetAttached
  <2>2. HostType'
    BY <1>17 DEF Reattach, HostType, SetAttached
  <2>3. QED
    BY <1>17, <2>1, <2>2 DEF Reattach, ZkType, ProcType, HistoryType, historyVars, zkVars, procVars,
       SetAttached
<1>18. ASSUME NEW r \in Replicas, Crash(r)
      PROVE  TypeOK'
  <2>1. LockType'
    BY <1>18 DEF Crash, LockType, Goto, Labels
  <2>2. HistoryType'
    BY <1>18 DEF Crash, HistoryType, historyVars
  <2>3. QED
    BY <1>18, <2>1, <2>2 DEF Crash, ZkType, HostType, ProcType, zkVars, hostVars, procVars
<1>19. ASSUME NEW r \in Replicas, OperatorAttach(r)
      PROVE  TypeOK'
  <2>1. HostType'
    BY <1>19 DEF OperatorAttach, HostType
  <2>2. QED
    BY <1>19, <2>1 DEF OperatorAttach, LockType, ZkType, ProcType, HistoryType, historyVars, lockVars, zkVars,
       procVars
<1>20. ASSUME NEW r \in Replicas, WorkerDigest(r)
      PROVE  TypeOK'
  <2>1. ZkType'
    BY <1>20 DEF WorkerDigest, ZkType
  <2>2. QED
    BY <1>20, <2>1 DEF WorkerDigest, LockType, HostType, ProcType, HistoryType, historyVars, lockVars,
       hostVars, procVars
<1>21. ASSUME NEW r \in Replicas, NEW t \in Tables, NEW s \in Schemas,
             Ddl(r, t, s)
      PROVE  TypeOK'
  <2> DEFINE uuid == IF zkTab[t] = NoRow THEN Common ELSE zkTab[t].uuid
  <2>1. uuid \in Uuids
    BY DEF ZkType, ZkRow, Uuids
  <2> HIDE DEF uuid
  <2>2. ZkType'
    BY <1>21, <2>1 DEF Ddl, ZkType, ZkRow, uuid
  <2>3. ASSUME NEW q \in Replicas
        PROVE  tab'[q] \in [Tables -> Row \cup {NoRow}]
    <3>1. tab[q][t] # NoRow => [tab[q][t] EXCEPT !.schema = s] \in Row
      BY RowUpdate DEF HostType
    <3>2. /\ [uuid |-> uuid, store |-> uuid, schema |-> s] \in Row
          /\ [uuid |-> r, store |-> r, schema |-> s] \in Row
      BY <2>1 DEF Row, Uuids
    <3>3. CASE engine[r] = "Atomic"
      <4>1. CASE q = r
        <5>1. tab'[r] = [tab[r] EXCEPT ![t] =
                           IF tab[r][t] = NoRow
                           THEN [uuid |-> r, store |-> r, schema |-> s]
                           ELSE [tab[r][t] EXCEPT !.schema = s]]
          BY <1>21, <3>3 DEF Ddl, HostType, Registered
        <5>2. QED
          BY <3>1, <3>2, <4>1, <5>1 DEF HostType
      <4>2. CASE q # r
        BY <1>21, <3>3, <4>2 DEF Ddl, HostType, Registered
      <4>3. QED
        BY <4>1, <4>2
    <3>4. CASE Registered(r)
      <4>1. tab'[q] = IF ~Registered(q) THEN tab[q]
                      ELSE [tab[q] EXCEPT ![t] =
                              IF tab[q][t] = NoRow
                              THEN [uuid |-> uuid, store |-> uuid, schema |-> s]
                              ELSE [tab[q][t] EXCEPT !.schema = s]]
        BY <1>21, <3>4 DEF Ddl, HostType, Registered, uuid
      <4>2. QED
        BY <3>1, <3>2, <4>1 DEF HostType
    <3>5. QED
      BY <1>21, <3>3, <3>4 DEF Ddl
  <2>4. HostType'
    BY <1>21, <2>3 DEF Ddl, HostType
  <2>5. HistoryType'
    BY <1>21 DEF Ddl, HistoryType, historyVars, Compared, Registered
  <2>6. QED
    BY <1>21, <2>2, <2>4, <2>5 DEF Ddl, LockType, ProcType, lockVars, procVars
<1>22. CASE UNCHANGED vars
  BY <1>22 DEF LockType, ZkType, HostType, ProcType, HistoryType, historyVars, vars, lockVars, zkVars,
     hostVars, procVars, historyVars
<1>23. QED
  BY <1>1, <1>2, <1>3, <1>4, <1>5, <1>6, <1>7, <1>8, <1>9, <1>10, <1>11, <1>12, <1>13, <1>14,
     <1>15, <1>16, <1>17, <1>18, <1>19, <1>20, <1>21, <1>22
     DEF Next, Step, Environment

\* No step removes a row.
LEMMA RowsStay ==
    ASSUME TypeOK, SyncsLocalTables, [Next]_vars,
           NEW q \in Replicas, NEW u \in Tables, tab[q][u] \in Row
    PROVE  tab'[q][u] \in Row
<1>1. TypeOK'
  BY NextType
<1>2. CASE UNCHANGED tab
  BY <1>2
<1>3. ASSUME NEW r \in Replicas, NEW t \in Tables, SyncTable(r, t)
      PROVE  tab'[q][u] \in Row
  <2>1. tab[r][t] \in Row
    BY <1>3 DEF SyncTable, SyncsLocalTables
  <2>2. zkTab[t] # NoRow => [tab[r][t] EXCEPT !.uuid = zkTab[t].uuid] \in Row
    BY <2>1, RowUpdate DEF TypeOK, ZkType, ZkRow
  <2>3. \/ UNCHANGED tab
        \/ zkTab[t] # NoRow /\ tab' = [tab EXCEPT ![r] = [tab[r] EXCEPT ![t] =
                         [tab[r][t] EXCEPT !.uuid = zkTab[t].uuid]]]
    BY <1>3 DEF SyncTable
  <2>4. CASE UNCHANGED tab
    BY <2>4
  <2>5. CASE /\ zkTab[t] # NoRow
             /\ tab' = [tab EXCEPT ![r] = [tab[r] EXCEPT ![t] =
                         [tab[r][t] EXCEPT !.uuid = zkTab[t].uuid]]]
    <3> DEFINE row == [tab[r][t] EXCEPT !.uuid = zkTab[t].uuid]
    <3>1. row \in Row
      BY <2>2, <2>5
    <3> HIDE DEF row
    <3>2. tab' = [tab EXCEPT ![r] = [tab[r] EXCEPT ![t] = row]]
      BY <2>5 DEF row
    <3>3. QED
      BY <3>1, <3>2 DEF TypeOK, HostType
  <2>6. QED
    BY <2>3, <2>4, <2>5
<1>4. ASSUME NEW r \in Replicas, MoveStore(r) PROVE tab'[q][u] \in Row
  <2> DEFINE t == moving[r].table
  <2>1. t \in Tables /\ tab[r][t] \in Row
    BY <1>4 DEF MoveStore, SyncsLocalTables
  <2>2. [tab[r][t] EXCEPT !.store = tab[r][t].uuid] \in Row
    BY <2>1 DEF Row
  <2>3. \/ UNCHANGED tab
        \/ tab' = [tab EXCEPT ![r] = [tab[r] EXCEPT ![t] =
                         [tab[r][t] EXCEPT !.store = tab[r][t].uuid]]]
    BY <1>4 DEF MoveStore
  <2>4. QED
    BY <2>1, <2>2, <2>3 DEF TypeOK, HostType
<1>5. ASSUME NEW r \in Replicas, NEW t \in Tables, NEW s \in Schemas,
             Ddl(r, t, s)
      PROVE  tab'[q][u] \in Row
  <2> DEFINE uuid == IF zkTab[t] = NoRow THEN Common ELSE zkTab[t].uuid
  <2>1. /\ [uuid |-> uuid, store |-> uuid, schema |-> s] \in Row
        /\ [uuid |-> r, store |-> r, schema |-> s] \in Row
    BY DEF TypeOK, ZkType, ZkRow, Row, Uuids
  <2> HIDE DEF uuid
  <2>2. [tab[q][u] EXCEPT !.schema = s] \in Row
    BY RowUpdate
  <2>3. \/ tab'[q] = tab[q]
        \/ tab'[q] = [tab[q] EXCEPT ![t] =
                        IF tab[q][t] = NoRow
                        THEN [uuid |-> r, store |-> r, schema |-> s]
                        ELSE [tab[q][t] EXCEPT !.schema = s]]
        \/ tab'[q] = [tab[q] EXCEPT ![t] =
                        IF tab[q][t] = NoRow
                        THEN [uuid |-> uuid, store |-> uuid, schema |-> s]
                        ELSE [tab[q][t] EXCEPT !.schema = s]]
    <3>1. CASE engine[r] = "Atomic" /\ q = r
      BY <1>5, <3>1 DEF Ddl, Registered, TypeOK, HostType
    <3>2. CASE engine[r] = "Atomic" /\ q # r
      BY <1>5, <3>2 DEF Ddl, Registered, TypeOK, HostType
    <3>3. CASE engine[r] # "Atomic"
      BY <1>5, <3>3 DEF Ddl, Registered, uuid
    <3>4. QED
      BY <3>1, <3>2, <3>3
  <2>4. QED
    BY <2>1, <2>2, <2>3 DEF TypeOK, HostType
<1>6. QED
  BY <1>2, <1>3, <1>4, <1>5 DEF Next, Step, Environment, Start, TakeLock, Finish, Body,
     Detach, Rewrite, Clean, SyncDone, Attach, Restart, Restore, CreateStructure,
     GenerateCounter, CreateReplicaNodes, Reattach, Crash, OperatorAttach, WorkerDigest,
     vars, hostVars, SetAttached, Answered, UsesRestore, historyVars

\* Every step keeps the tables it has to look at.
LEMMA NextSyncs ==
    TypeOK /\ SyncsLocalTables /\ [Next]_vars => SyncsLocalTables'
<1> SUFFICES ASSUME TypeOK, SyncsLocalTables, [Next]_vars
             PROVE  SyncsLocalTables'
  OBVIOUS
<1> DEFINE Keeps(q) == /\ todo'[q] \subseteq todo[q]
                       /\ pc'[q] = "move" => /\ pc[q] = "move"
                                             /\ moving'[q] = moving[q]
           Kept(q) == /\ \A t \in todo'[q] : tab'[q][t] \in Row
                      /\ pc'[q] = "move" =>
                            /\ moving'[q] \in [table : Tables, old : Uuids]
                            /\ tab'[q][moving'[q].table] \in Row
<1>1. ASSUME NEW q \in Replicas, Keeps(q) PROVE Kept(q)
  BY <1>1, RowsStay DEF SyncsLocalTables, TypeOK, ProcType
<1>2. ASSUME NEW r \in Replicas, Body(r), NEW q \in Replicas PROVE Kept(q)
  <2>1. \A t \in todo'[q] : tab[q][t] \in Row
    BY <1>2 DEF Body, SyncsLocalTables, LocalTables, TypeOK, HostType, ProcType,
       UsesRestore
  <2>2. UNCHANGED tab /\ (pc'[q] = "move" => pc[q] = "move" /\ moving'[q] = moving[q])
    BY <1>2 DEF Body, Raise, Goto, TypeOK, LockType, hostVars, UsesRestore
  <2>3. QED
    BY <2>1, <2>2 DEF SyncsLocalTables
<1>3. ASSUME NEW r \in Replicas, NEW t \in Tables, SyncTable(r, t),
             NEW q \in Replicas
      PROVE  Kept(q)
  <2>1. todo'[q] \subseteq todo[q]
    BY <1>3 DEF SyncTable, TypeOK, ProcType
  <2>2. CASE q # r
    BY <1>1, <1>3, <2>1, <2>2 DEF SyncTable, Raise, Goto, TypeOK, ProcType, LockType
  <2>3. CASE q = r /\ pc'[q] # "move"
    BY <1>1, <2>1, <2>3
  <2>4. CASE q = r /\ pc'[q] = "move"
    <3>1. tab[r][t] \in Row
      BY <1>3 DEF SyncTable, SyncsLocalTables
    <3>2. moving'[r] = [table |-> t, old |-> tab[r][t].uuid]
      BY <1>3, <2>4 DEF SyncTable, Raise, Goto, TypeOK, LockType, ProcType
    <3>3. moving'[r] \in [table : Tables, old : Uuids] /\ moving'[r].table = t
      BY <3>1, <3>2 DEF Row
    <3>4. QED
      BY <2>1, <2>4, <3>1, <3>3, RowsStay DEF SyncsLocalTables, TypeOK, ProcType
  <2>5. QED
    BY <2>2, <2>3, <2>4
<1>4. ASSUME NEW r \in Replicas, NEW c \in Commands, NEW force \in Forces,
             Start(r, c, force), NEW q \in Replicas
      PROVE  Keeps(q)
  BY <1>4 DEF Start, Goto, TypeOK, LockType, ProcType
<1>5. ASSUME NEW r \in Replicas, TakeLock(r), NEW q \in Replicas PROVE Keeps(q)
  BY <1>5 DEF TakeLock, Enter, ForceRemove, Acquire, NodeExistsReported, Classify, Wait,
     Released, PollTimeout, Raise, Goto, TypeOK, LockType, procVars, WaitsForLock
<1>6. ASSUME NEW r \in Replicas, Finish(r) \/ Crash(r), NEW q \in Replicas
      PROVE  Keeps(q)
  BY <1>6 DEF Finish, Exit, Releases, Crash, Goto, TypeOK, LockType, procVars
<1>7. ASSUME NEW r \in Replicas, NEW q \in Replicas,
             Detach(r) \/ Rewrite(r) \/ Clean(r) \/ MoveStore(r) \/ SyncDone(r)
      PROVE  Keeps(q)
  BY <1>7 DEF Detach, Rewrite, Clean, MoveStore, SyncDone, Raise, Goto, TypeOK, LockType,
     ProcType, procVars, SetAttached
<1>8. ASSUME NEW r \in Replicas, NEW q \in Replicas,
             \/ Attach(r) \/ Restart(r) \/ Restore(r) \/ Reattach(r)
             \/ CreateStructure(r) \/ GenerateCounter(r) \/ CreateReplicaNodes(r)
      PROVE  Keeps(q)
  BY <1>8 DEF Attach, Restart, Restore, Reattach, CreateStructure, GenerateCounter,
     CreateReplicaNodes, Raise, Goto, TypeOK, LockType, procVars, SetAttached, Answered
<1>9. ASSUME NEW r \in Replicas, NEW q \in Replicas,
             \/ OperatorAttach(r) \/ WorkerDigest(r)
             \/ \E t \in Tables, s \in Schemas : Ddl(r, t, s)
      PROVE  Keeps(q)
  BY <1>9 DEF OperatorAttach, WorkerDigest, Ddl, lockVars, procVars
<1>10. ASSUME UNCHANGED vars, NEW q \in Replicas PROVE Keeps(q)
  BY <1>10 DEF vars, lockVars, procVars, historyVars
<1> HIDE DEF Keeps
<1>11. ASSUME NEW q \in Replicas PROVE Kept(q)
  BY <1>1, <1>2, <1>3, <1>4, <1>5, <1>6, <1>7, <1>8, <1>9, <1>10
     DEF Next, Step, Environment
<1>12. QED
  BY <1>11 DEF SyncsLocalTables

\* The migration commands keep every variable in its type, for every number
\* of hosts and tables and with every fault the model has.
THEOREM TypeCorrect == Spec => []TypeOK
<1>1. Init => SyncsLocalTables
  BY DEF Init, SyncsLocalTables
<1>2. QED
  BY <1>1, InitType, NextType, NextSyncs, PTL DEF Spec

-----------------------------------------------------------------------------
(* Mutual exclusion of the first replica *)

\* No command is about to remove the lock node of another one.
NeverForced == \A r \in Replicas : pc[r] # "force"

\* Without --force-remove-lock a step preserves both.
LEMMA NextOneFirst ==
    ASSUME Forces \subseteq {FALSE}
    PROVE  TypeOK /\ OneFirst /\ NeverForced /\ [Next]_vars
           => OneFirst' /\ NeverForced'
<1> SUFFICES ASSUME TypeOK, OneFirst, NeverForced, [Next]_vars
             PROVE  OneFirst' /\ NeverForced'
  OBVIOUS
<1> USE LockAssumption DEF TypeOK
<1> DEFINE Keeps == /\ UNCHANGED lock
                    /\ \A q \in Replicas : /\ first'[q] => first[q]
                                           /\ pc'[q] # "force"
<1>1. ASSUME Keeps PROVE OneFirst' /\ NeverForced'
  BY <1>1 DEF OneFirst, NeverForced
<1>2. ASSUME NEW r \in Replicas, TakeLock(r) PROVE OneFirst' /\ NeverForced'
  <2>1. ASSUME Acquire(r, cmd[r] = "to_replicated")
        PROVE  OneFirst' /\ NeverForced'
    BY <2>1 DEF Acquire, NodeExistsReported, Raise, Goto, LockType, OneFirst, NeverForced
  <2>2. ASSUME Classify(r) \/ Wait(r) \/ Released(r) \/ PollTimeout(r)
        PROVE  Keeps
    BY <2>2 DEF Classify, Wait, Released, PollTimeout, Raise, Goto, LockType, NeverForced,
       WaitsForLock
  <2>3. QED
    BY <1>1, <1>2, <2>1, <2>2 DEF TakeLock, Enter, ForceRemove, NeverForced
<1>3. ASSUME NEW r \in Replicas, Finish(r) PROVE OneFirst' /\ NeverForced'
  <2>1. ASSUME NEW q \in Replicas, first'[q] PROVE q # r /\ first[q]
    BY <1>3, <2>1 DEF Finish, Exit, Releases, LockType
  <2>2. first[r] => \A q \in Replicas : first[q] => q = r
    BY DEF OneFirst
  <2>3. OneFirst'
    BY <1>3, <2>1, <2>2 DEF Finish, Exit, Releases, OneFirst
  <2>4. NeverForced'
    BY <1>3 DEF Finish, Exit, Releases, Goto, LockType, NeverForced
  <2>5. QED
    BY <2>3, <2>4
<1>4. ASSUME NEW r \in Replicas, NEW c \in Commands, NEW force \in Forces,
             Start(r, c, force)
      PROVE  Keeps
  BY <1>4 DEF Start, Goto, LockType, NeverForced
<1>5. ASSUME NEW r \in Replicas,
             \/ Body(r) \/ Detach(r) \/ Rewrite(r) \/ Clean(r) \/ MoveStore(r)
             \/ SyncDone(r) \/ \E t \in Tables : SyncTable(r, t)
      PROVE  Keeps
  BY <1>5 DEF Body, Detach, Rewrite, Clean, MoveStore, SyncDone, SyncTable, Raise, Goto,
     LockType, NeverForced, SetAttached, UsesRestore
<1>6. ASSUME NEW r \in Replicas,
             \/ Attach(r) \/ Restart(r) \/ Restore(r) \/ Reattach(r)
             \/ CreateStructure(r) \/ GenerateCounter(r) \/ CreateReplicaNodes(r)
      PROVE  Keeps
  BY <1>6 DEF Attach, Restart, Restore, Reattach, CreateStructure, GenerateCounter,
     CreateReplicaNodes, Raise, Goto, LockType, NeverForced, SetAttached, Answered
<1>7. ASSUME NEW r \in Replicas,
             \/ OperatorAttach(r) \/ WorkerDigest(r)
             \/ \E t \in Tables, s \in Schemas : Ddl(r, t, s)
      PROVE  Keeps
  BY <1>7 DEF OperatorAttach, WorkerDigest, Ddl, lockVars, LockType, NeverForced
<1>8. ASSUME NEW r \in Replicas, Crash(r) PROVE Keeps
  BY <1>8 DEF Crash, Goto, LockType, NeverForced
<1>9. CASE UNCHANGED vars
  BY <1>9 DEF vars, lockVars, OneFirst, NeverForced, historyVars
<1> HIDE DEF Keeps
<1>10. QED
  BY <1>1, <1>2, <1>3, <1>4, <1>5, <1>6, <1>7, <1>8, <1>9
     DEF Next, Step, Environment

\* As long as nobody forces the lock, at most one command acts as the first
\* replica, whatever fails and whichever command is killed.
THEOREM OnlyOneFirst ==
    ASSUME Forces \subseteq {FALSE}
    PROVE  Spec => []OneFirst
<1>1. Init => OneFirst /\ NeverForced /\ SyncsLocalTables
  BY DEF Init, OneFirst, NeverForced, SyncsLocalTables
<1>2. QED
  BY <1>1, InitType, NextType, NextSyncs, NextOneFirst, PTL DEF Spec

\* What a step may not do to the lock node of a command.
Owned == lock # NoLock /\ lock' # lock => first[lock] /\ pc[lock] = "unlock"

\* Only __enter__ and __exit__ write the lock node, and __enter__ only creates
\* it.
LEMMA StepOwned ==
    TypeOK /\ OneFirst /\ NeverForced /\ [Next]_vars => Owned
<1> SUFFICES ASSUME TypeOK, OneFirst, NeverForced, [Next]_vars,
                    lock # NoLock, lock' # lock
             PROVE  first[lock] /\ pc[lock] = "unlock"
  BY DEF Owned
<1>1. ASSUME NEW r \in Replicas PROVE ~TakeLock(r)
  BY <1>1 DEF TakeLock, Enter, ForceRemove, Acquire, Classify, Wait, Released, PollTimeout,
     NeverForced, WaitsForLock
<1>2. ASSUME NEW r \in Replicas, Finish(r)
      PROVE  first[lock] /\ pc[lock] = "unlock"
  <2>1. first[r] /\ pc[r] = "unlock"
    BY <1>2 DEF Finish, Exit, Releases
  <2>2. QED
    BY <2>1 DEF OneFirst
<1>3. ASSUME NEW r \in Replicas,
             \/ Body(r) \/ Detach(r) \/ Rewrite(r) \/ Clean(r) \/ MoveStore(r)
             \/ SyncDone(r) \/ \E t \in Tables : SyncTable(r, t)
      PROVE  FALSE
  BY <1>3 DEF Body, Detach, Rewrite, Clean, MoveStore, SyncDone, SyncTable, SetAttached,
     UsesRestore
<1>4. ASSUME NEW r \in Replicas,
             \/ Attach(r) \/ Restart(r) \/ Restore(r) \/ Reattach(r)
             \/ CreateStructure(r) \/ GenerateCounter(r) \/ CreateReplicaNodes(r)
      PROVE  FALSE
  BY <1>4 DEF Attach, Restart, Restore, Reattach, CreateStructure, GenerateCounter,
     CreateReplicaNodes, SetAttached, Answered
<1>5. ASSUME NEW r \in Replicas,
             \/ OperatorAttach(r) \/ WorkerDigest(r) \/ Crash(r)
             \/ \E t \in Tables, s \in Schemas : Ddl(r, t, s)
             \/ \E c \in Commands, force \in Forces : Start(r, c, force)
      PROVE  FALSE
  BY <1>5 DEF OperatorAttach, WorkerDigest, Crash, Ddl, Start, lockVars
<1>6. CASE UNCHANGED vars
  BY <1>6 DEF vars, lockVars, historyVars
<1>7. QED
  BY <1>1, <1>2, <1>3, <1>4, <1>5, <1>6 DEF Next, Step, Environment

\* As long as nobody forces the lock, a lock node is only ever removed by the
\* __exit__ of the command that created it: the node of a running command is
\* safe, and so is the one that a killed command left behind.
THEOREM OwnerReleasesTheLock ==
    ASSUME Forces \subseteq {FALSE}
    PROVE  Spec => LockIsReleasedByOwner
<1>1. Init => OneFirst /\ NeverForced /\ SyncsLocalTables
  BY DEF Init, OneFirst, NeverForced, SyncsLocalTables
<1>2. Owned => [lock # NoLock /\ lock' # lock
                => first[lock] /\ pc[lock] = "unlock"]_vars
  BY DEF Owned
<1>3. QED
  BY <1>1, <1>2, InitType, NextType, NextSyncs, NextOneFirst, StepOwned, PTL
     DEF Spec, LockIsReleasedByOwner

-----------------------------------------------------------------------------
(* A joining replica finds the database node *)

\* A replica that found the database node on its way in still finds it, and
\* nobody is deleting it.
WaitersSeeRoot ==
    \A r \in Replicas :
        /\ cmd[r] # "to_atomic_clean" /\ pc[r] # "clean"
        /\ pc[r] \in {"classify", "wait", "poll"} => zkRoot

\* Without --force-remove-lock and --clean-zookeeper a step preserves both.
LEMMA NextJoiners ==
    ASSUME Forces \subseteq {FALSE}, "to_atomic_clean" \notin Commands
    PROVE  /\ TypeOK /\ OneFirst /\ NeverForced
           /\ WaitersSeeRoot /\ JoinersSeeRoot /\ [Next]_vars
           => WaitersSeeRoot' /\ JoinersSeeRoot'
<1> SUFFICES ASSUME TypeOK, OneFirst, NeverForced, WaitersSeeRoot,
                    JoinersSeeRoot, [Next]_vars
             PROVE  WaitersSeeRoot' /\ JoinersSeeRoot'
  OBVIOUS
<1> USE DEF TypeOK
<1> DEFINE Joins(q) == cmd[q] \in {"to_replicated", "restore_replica"}
           Keeps == /\ zkRoot => zkRoot'
                    /\ \A q \in Replicas :
                       /\ cmd'[q] # "to_atomic_clean" /\ pc'[q] # "clean"
                       /\ pc'[q] \in {"classify", "wait", "poll"} => zkRoot'
                       /\ /\ pc'[q] \notin Entering \cup {"idle", "unlock"}
                          /\ ~first'[q]
                          /\ cmd'[q] \in {"to_replicated", "restore_replica"}
                          => \/ zkRoot'
                             \/ /\ pc[q] \notin Entering \cup {"idle", "unlock"}
                                /\ ~first[q] /\ Joins(q)
<1>1. ASSUME Keeps PROVE WaitersSeeRoot' /\ JoinersSeeRoot'
  BY <1>1 DEF WaitersSeeRoot, JoinersSeeRoot
<1>2. ASSUME NEW r \in Replicas, TakeLock(r) PROVE Keeps
  <2>1. UNCHANGED <<cmd, zkRoot>>
    BY <1>2 DEF TakeLock, Enter, ForceRemove, Acquire, NodeExistsReported, Classify, Wait,
       Released, PollTimeout, procVars, WaitsForLock
  <2>2. CASE Acquire(r, cmd[r] = "to_replicated")
    BY <2>1, <2>2 DEF Acquire, NodeExistsReported, Raise, Goto, LockType, WaitersSeeRoot, Entering
  <2>3. CASE Classify(r) \/ Wait(r) \/ Released(r) \/ PollTimeout(r)
    BY <2>1, <2>3 DEF Classify, Wait, Released, PollTimeout, Raise, Goto, LockType,
       WaitersSeeRoot, Entering, WaitsForLock
  <2>4. QED
    BY <1>2, <2>2, <2>3 DEF TakeLock, Enter, ForceRemove, NeverForced
<1>3. ASSUME NEW r \in Replicas, Finish(r) \/ Crash(r) PROVE Keeps
  BY <1>3 DEF Finish, Exit, Releases, Crash, Goto, LockType, WaitersSeeRoot, Entering,
     procVars
<1>4. ASSUME NEW r \in Replicas, NEW c \in Commands, NEW force \in Forces,
             Start(r, c, force)
      PROVE  Keeps
  BY <1>4 DEF Start, Goto, LockType, ProcType, WaitersSeeRoot, Entering
<1>5. ASSUME NEW r \in Replicas, Rewrite(r) PROVE Keeps
  BY <1>5 DEF Rewrite, Raise, Goto, LockType, ProcType, WaitersSeeRoot,
     Entering, procVars
<1>6. ASSUME NEW r \in Replicas,
             \/ Body(r) \/ Detach(r) \/ MoveStore(r) \/ SyncDone(r)
             \/ \E t \in Tables : SyncTable(r, t)
      PROVE  Keeps
  BY <1>6 DEF Body, Detach, MoveStore, SyncDone, SyncTable, Raise, Goto, LockType,
     WaitersSeeRoot, Entering, procVars, SetAttached, UsesRestore
<1>7. ASSUME NEW r \in Replicas,
             \/ Attach(r) \/ Restart(r) \/ Restore(r) \/ Reattach(r)
             \/ CreateStructure(r) \/ GenerateCounter(r) \/ CreateReplicaNodes(r)
      PROVE  Keeps
  BY <1>7 DEF Attach, Restart, Restore, Reattach, CreateStructure, GenerateCounter,
     CreateReplicaNodes, Raise, Goto, LockType, WaitersSeeRoot, Entering, procVars,
     SetAttached, Answered
<1>8. ASSUME NEW r \in Replicas,
             \/ OperatorAttach(r) \/ WorkerDigest(r)
             \/ \E t \in Tables, s \in Schemas : Ddl(r, t, s)
      PROVE  Keeps
  BY <1>8 DEF OperatorAttach, WorkerDigest, Ddl, lockVars, procVars,
     WaitersSeeRoot
<1>9. CASE UNCHANGED vars
  BY <1>9 DEF vars, lockVars, procVars, WaitersSeeRoot, JoinersSeeRoot, historyVars
<1>10. ASSUME NEW r \in Replicas PROVE ~Clean(r)
  BY DEF Clean, WaitersSeeRoot
<1> HIDE DEF Keeps
<1>11. QED
  BY <1>1, <1>2, <1>3, <1>4, <1>5, <1>6, <1>7, <1>8, <1>9, <1>10
     DEF Next, Step, Environment

\* A command that is past the lock and is not the first replica finds the
\* database node in ZooKeeper, so the checks and the uuid synchronisation,
\* which skip a missing node, are not skipped for it.
THEOREM JoinersFindTheDatabase ==
    ASSUME Forces \subseteq {FALSE}, "to_atomic_clean" \notin Commands
    PROVE  Spec => []JoinersSeeRoot
<1>1. Init => /\ OneFirst /\ NeverForced /\ SyncsLocalTables
              /\ WaitersSeeRoot /\ JoinersSeeRoot
  BY DEF Init, OneFirst, NeverForced, SyncsLocalTables, WaitersSeeRoot,
     JoinersSeeRoot
<1>2. QED
  BY <1>1, InitType, NextType, NextSyncs, NextOneFirst, NextJoiners, PTL
     DEF Spec

-----------------------------------------------------------------------------
(* The database is attached again *)

\* A command has the database attached until it detaches it, and again once it
\* attached it: it goes on with an error as soon as that fails.
AttachedWhereUsed ==
    \A r \in Replicas :
        pc[r] \in Entering \cup {"body", "detach", "restore", "structure",
                                 "counter", "nodes", "redetach"}
        => attached[r]

\* Every step preserves it.
LEMMA NextAttached == TypeOK /\ AttachedWhereUsed /\ [Next]_vars => AttachedWhereUsed'
<1> SUFFICES ASSUME TypeOK, AttachedWhereUsed, [Next]_vars PROVE AttachedWhereUsed'
  OBVIOUS
<1> USE DEF AttachedWhereUsed, TypeOK, LockType, HostType, Entering
<1>1. ASSUME NEW r \in Replicas, NEW c \in Commands, NEW force \in Forces,
             Start(r, c, force)
      PROVE  AttachedWhereUsed'
  BY <1>1 DEF Start, Goto, hostVars
<1>2. ASSUME NEW r \in Replicas, TakeLock(r) PROVE AttachedWhereUsed'
  BY <1>2 DEF TakeLock, Enter, ForceRemove, Acquire, NodeExistsReported, Classify, Wait,
     Released, PollTimeout, Raise, Goto, hostVars, WaitsForLock
<1>3. ASSUME NEW r \in Replicas, Finish(r) \/ Crash(r) PROVE AttachedWhereUsed'
  BY <1>3 DEF Finish, Exit, Releases, Crash, Goto, hostVars
<1>4. ASSUME NEW r \in Replicas, Body(r) PROVE AttachedWhereUsed'
  BY <1>4 DEF Body, Raise, Goto, hostVars, UsesRestore
<1>5. ASSUME NEW r \in Replicas,
             \/ Detach(r) \/ Rewrite(r) \/ Clean(r) \/ MoveStore(r) \/ SyncDone(r)
             \/ \E t \in Tables : SyncTable(r, t)
      PROVE  AttachedWhereUsed'
  <2>1. CASE Detach(r)
    BY <2>1 DEF Detach, SetAttached, Raise, Goto
  <2>2. CASE Rewrite(r) \/ MoveStore(r) \/ SyncDone(r) \/ \E t \in Tables : SyncTable(r, t)
    BY <2>2 DEF Rewrite, MoveStore, SyncDone, SyncTable, Raise, Goto, hostVars
  <2>3. CASE Clean(r)
    <3>1. attached' = attached /\ pc' \in {pc, [pc EXCEPT ![r] = "attach"]}
      BY <2>3 DEF Clean, Goto, hostVars
    <3>2. QED
      BY <3>1
  <2>4. QED
    BY <1>5, <2>1, <2>2, <2>3
<1>6. ASSUME NEW r \in Replicas,
             \/ Attach(r) \/ Restart(r) \/ Restore(r) \/ Reattach(r)
             \/ CreateStructure(r) \/ GenerateCounter(r) \/ CreateReplicaNodes(r)
      PROVE  AttachedWhereUsed'
  BY <1>6 DEF Attach, Restart, Restore, Reattach, CreateStructure, GenerateCounter,
     CreateReplicaNodes, Raise, Goto, hostVars, SetAttached, Answered
<1>7. ASSUME NEW r \in Replicas,
             \/ OperatorAttach(r) \/ WorkerDigest(r)
             \/ \E t \in Tables, s \in Schemas : Ddl(r, t, s)
      PROVE  AttachedWhereUsed'
  BY <1>7 DEF OperatorAttach, WorkerDigest, Ddl, lockVars, hostVars
<1>8. CASE UNCHANGED vars
  BY <1>8 DEF vars, lockVars, hostVars, historyVars
<1>9. QED
  BY <1>1, <1>2, <1>3, <1>4, <1>5, <1>6, <1>7, <1>8 DEF Next, Step, Environment

\* The requests after which a command may release the lock without the database.
Failing == {"detach", "attach", "restart", "redetach", "reattach"}
TriesToAttach(r) ==
    pc[r] # "unlock" /\ pc'[r] = "unlock" /\ ~attached'[r]
    => exc'[r] /\ pc[r] \in Failing

\* No other step of a command that has not attached the database ends its body.
LEMMA StepTriesToAttach ==
    ASSUME TypeOK, AttachedWhereUsed, [Next]_vars, NEW q \in Replicas
    PROVE  TriesToAttach(q)
<1> SUFFICES ASSUME pc[q] # "unlock", pc'[q] = "unlock", ~attached'[q]
             PROVE  exc'[q] /\ pc[q] \in Failing
  BY DEF TriesToAttach
<1> USE DEF TypeOK, LockType, HostType, Entering, Failing
<1>1. ASSUME NEW r \in Replicas, NEW c \in Commands, NEW force \in Forces
      PROVE  ~Start(r, c, force)
  BY DEF Start, Goto
<1>2. ASSUME NEW r \in Replicas PROVE ~TakeLock(r)
  <2> SUFFICES ASSUME TakeLock(r) PROVE FALSE
    OBVIOUS
  <2>1. pc[q] \in Entering /\ UNCHANGED attached
    BY DEF TakeLock, Enter, ForceRemove, Acquire, NodeExistsReported, Classify, Wait,
       Released, PollTimeout, Raise, Goto, WaitsForLock, hostVars
  <2>2. QED
    BY <2>1 DEF AttachedWhereUsed
<1>3. ASSUME NEW r \in Replicas PROVE ~Finish(r) /\ ~Crash(r)
  BY DEF Finish, Exit, Releases, Crash, Goto
<1>4. ASSUME NEW r \in Replicas PROVE ~Body(r)
  <2> SUFFICES ASSUME Body(r) PROVE FALSE
    OBVIOUS
  <2>1. pc[q] = "body" /\ UNCHANGED attached
    BY DEF Body, Raise, Goto, UsesRestore, hostVars
  <2>2. QED
    BY <2>1 DEF AttachedWhereUsed
<1>5. ASSUME NEW r \in Replicas,
             \/ Rewrite(r) \/ Clean(r) \/ MoveStore(r) \/ SyncDone(r)
             \/ \E t \in Tables : SyncTable(r, t)
      PROVE  FALSE
  BY <1>5 DEF Rewrite, Clean, MoveStore, SyncDone, SyncTable, Raise, Goto
<1>6. ASSUME NEW r \in Replicas,
             Detach(r) \/ Attach(r) \/ Restart(r) \/ Reattach(r)
      PROVE  exc'[q] /\ pc[q] \in Failing
  BY <1>6 DEF Detach, Attach, Restart, Reattach, SetAttached, Raise, Goto
<1>7. ASSUME NEW r \in Replicas,
             \/ Restore(r) \/ CreateStructure(r) \/ GenerateCounter(r)
             \/ CreateReplicaNodes(r)
      PROVE  FALSE
  <2>1. /\ pc[q] \in {"restore", "structure", "counter", "nodes"}
        /\ UNCHANGED attached
    BY <1>7 DEF Restore, CreateStructure, GenerateCounter, CreateReplicaNodes,
       Answered, Raise, Goto, hostVars
  <2>2. QED
    BY <2>1 DEF AttachedWhereUsed
<1>8. ASSUME NEW r \in Replicas,
             \/ OperatorAttach(r) \/ WorkerDigest(r)
             \/ \E t \in Tables, s \in Schemas : Ddl(r, t, s)
      PROVE  FALSE
  BY <1>8 DEF OperatorAttach, WorkerDigest, Ddl, lockVars
<1>9. ~UNCHANGED vars
  BY DEF vars, lockVars
<1>10. QED
  BY <1>1, <1>2, <1>3, <1>4, <1>5, <1>6, <1>7, <1>8, <1>9 DEF Next, Step, Environment

\* A command releases the lock while the database is detached only with an error
\* of the DETACH, of the ATTACH or of the restart: whatever else fails after the
\* DETACH, the command tries to attach the database.
THEOREM DatabaseIsAttachedAgain == Spec => AttachIsTried
<1>1. Init => AttachedWhereUsed /\ SyncsLocalTables
  BY DEF Init, AttachedWhereUsed, SyncsLocalTables, Entering
<1>2. TypeOK /\ AttachedWhereUsed /\ [Next]_vars =>
        [\A r \in Replicas :
           pc[r] # "unlock" /\ pc'[r] = "unlock" /\ ~attached'[r]
           => /\ exc'[r]
              /\ pc[r] \in {"detach", "attach", "restart", "redetach", "reattach"}]_vars
  BY StepTriesToAttach DEF TriesToAttach, Failing
<1>3. QED
  BY <1>1, <1>2, InitType, NextType, NextSyncs, NextAttached, PTL DEF Spec, AttachIsTried

-----------------------------------------------------------------------------
(* The structure in ZooKeeper *)

\* With SYSTEM RESTORE DATABASE REPLICA no command takes the fallback, and the
\* database node is there exactly as long as a replica is registered, since the
\* query creates both, or until it is deleted after all replicas.  Without it
\* there are no tables.
RootHasMember ==
    /\ \A r \in Replicas : pc[r] \notin {"structure", "counter", "nodes"}
    /\ (\E r \in Replicas : digest[r] # "absent") => zkRoot
    /\ zkRoot /\ ~damaged => \E r \in Replicas : digest[r] # "absent"
    /\ ~zkRoot => zkTab = Structure!Unpublished /\ ~damaged /\ ~firstLog

\* Every initial state has it.
LEMMA InitRoot == Init => RootHasMember
<1> SUFFICES ASSUME Init PROVE RootHasMember
  OBVIOUS
<1>1. Replicas # {} /\ \A r \in Replicas : digest[r] = IF zkRoot THEN "set" ELSE "absent"
  BY MigrationAssumption DEF Init
<1>2. /\ ~zkRoot => zkTab = Structure!Unpublished
      /\ ~damaged /\ firstLog = zkRoot
  BY DEF Init, Structure!Unpublished, NoRow
<1>3. \A r \in Replicas : pc[r] = "idle"
  BY DEF Init
<1>4. QED
  BY <1>1, <1>2, <1>3, Zenon DEF RootHasMember

\* The registered replicas, and the phase of the structure.
Members == {r \in Replicas : digest[r] # "absent"}
Phase == IF ~zkRoot THEN "none" ELSE IF damaged THEN "broken" ELSE "whole"

\* A step that changes none of this is no step of the structure.
LEMMA QuietStep ==
    ASSUME RootHasMember, UNCHANGED <<zkRoot, zkTab, digest, firstLog, damaged>>,
           \A r \in Replicas : pc'[r] \notin {"structure", "counter", "nodes"}
    PROVE  RootHasMember' /\ UNCHANGED <<Phase, Members, zkTab>>
<1>1. RootHasMember'
  BY DEF RootHasMember, Structure!Unpublished
<1>2. UNCHANGED <<Phase, Members>>
  BY DEF Phase, Members
<1>3. QED
  BY <1>1, <1>2

\* SYSTEM RESTORE DATABASE REPLICA publishes or joins.
LEMMA RestoreStep ==
    ASSUME TypeOK, RootHasMember, NEW r \in Replicas, Restore(r)
    PROVE  RootHasMember' /\ (Structure!Next \/ UNCHANGED <<Phase, Members, zkTab>>)
<1>1. \A q \in Replicas : pc'[q] \notin {"structure", "counter", "nodes"}
  BY DEF Restore, Raise, Goto, RootHasMember, TypeOK, LockType, Answered
<1>2. CASE UNCHANGED <<zkRoot, zkParent, zkVars>>
  BY <1>1, <1>2, QuietStep DEF Restore, historyVars, zkVars
<1>3. CASE /\ digest[r] = "absent" /\ zkRoot'
           /\ zkTab' = IF zkRoot THEN zkTab ELSE [t \in Tables |-> AsZkRow(tab[r][t])]
           /\ digest' = [digest EXCEPT ![r] = "zero"]
  <2>0. damaged' = damaged
    BY DEF Restore, historyVars
  <2>1. Members' = Members \cup {r}
    BY <1>3 DEF Members, TypeOK, ZkType
  <2>2. digest'[r] # "absent"
    BY <1>3 DEF TypeOK, ZkType
  <2>3. RootHasMember'
    BY <1>1, <1>3, <2>2 DEF RootHasMember
  <2>4. CASE zkRoot
    <3>1. (Phase = "whole" => Members # {}) /\ Phase # "none"
      BY <2>4 DEF RootHasMember, Members, Phase
    <3>2. Phase' = Phase /\ zkTab' = zkTab
      BY <1>3, <2>0, <2>4 DEF Phase
    <3>3. Structure!Join(r)
      BY <2>1, <3>1, <3>2 DEF Structure!Join, Members, Phase
    <3>4. QED
      BY <2>3, <3>3 DEF Structure!Next
  <2>5. CASE ~zkRoot
    <3>1. Members = {} /\ zkTab' \in Structure!Published
      BY <1>3, <2>5, PublishType DEF RootHasMember, Members, Structure!Published, NoRow
    <3>2. Phase = "none" /\ Phase' = "whole"
      BY <1>3, <2>0, <2>5 DEF RootHasMember, Phase
    <3>3. Structure!Publish(r)
      BY <2>1, <3>1, <3>2 DEF Structure!Publish, Members, Phase
    <3>4. QED
      BY <2>3, <3>3 DEF Structure!Next
  <2>6. QED
    BY <2>4, <2>5
<1>4. QED
  BY <1>2, <1>3 DEF Restore

\* --clean-zookeeper erases some of the database, or the last of it.
LEMMA CleanStep ==
    ASSUME TypeOK, RootHasMember, NEW r \in Replicas, Clean(r)
    PROVE  RootHasMember' /\ (Structure!Next \/ UNCHANGED <<Phase, Members, zkTab>>)
<1>1. \A q \in Replicas : pc'[q] \notin {"structure", "counter", "nodes"}
  BY DEF Clean, Goto, RootHasMember, TypeOK, LockType
<1>2. PICK gone \in SUBSET Tables :
         zkTab' = [t \in Tables |-> IF t \in gone THEN NoRow ELSE zkTab[t]]
  BY DEF Clean
<1>3. \A q \in Replicas : digest'[q] \in {digest[q], "absent"}
  BY DEF Clean
<1>4. Members' \subseteq Members
  BY <1>3 DEF Members
<1>5. CASE /\ zkRoot' = FALSE /\ damaged' = FALSE
           /\ \A t \in Tables : zkTab'[t] = NoRow
           /\ \A s \in Replicas : digest'[s] = "absent"
           /\ ~firstLog'
  <2>1. Members' = {} /\ Phase' = "none"
    BY <1>5 DEF Members, Phase
  <2>2. zkTab' = Structure!Unpublished
    BY <1>2, <1>5 DEF Structure!Unpublished, NoRow
  <2>3. RootHasMember'
    BY <1>1, <1>5, <2>2 DEF RootHasMember, Structure!Unpublished
  <2>4. Structure!Drop
    BY <2>1, <2>2 DEF Structure!Drop, Structure!Unpublished, Members, Phase
  <2>5. QED
    BY <2>3, <2>4 DEF Structure!Next
<1>6. CASE /\ zkRoot' = zkRoot
           /\ damaged' = (\/ damaged \/ zkTab' # zkTab \/ digest' # digest
                          \/ firstLog' # firstLog)
  <2>1. CASE UNCHANGED <<zkTab, digest, firstLog>>
    <3>1. UNCHANGED <<zkRoot, zkTab, digest, firstLog, damaged>>
      BY <1>6, <2>1 DEF TypeOK, HistoryType, historyVars
    <3>2. QED
      BY <1>1, <3>1, QuietStep
  <2>2. CASE ~zkRoot
    <3>1. zkTab' = zkTab
      BY <1>2, <2>2 DEF RootHasMember, Structure!Unpublished, NoRow
    <3>2. \A q \in Replicas : digest[q] = "absent" /\ digest'[q] = "absent"
      BY <1>3, <2>2 DEF RootHasMember
    <3>3. digest' = digest
      BY <3>2 DEF Clean, TypeOK, ZkType
    <3>4. firstLog' = firstLog
      <4>1. firstLog = FALSE /\ firstLog' \in {firstLog, FALSE}
        BY <2>2 DEF Clean, RootHasMember, TypeOK, ZkType
      <4>2. QED
        BY <4>1
    <3>5. QED
      BY <2>1, <3>1, <3>3, <3>4
  <2>3. CASE /\ zkRoot
             /\ zkTab' # zkTab \/ digest' # digest \/ firstLog' # firstLog
    <3>1. Phase # "none" /\ Phase' = "broken"
      BY <1>6, <2>3 DEF Phase
    <3>2. Structure!Erase
      BY <1>2, <1>4, <3>1 DEF Structure!Erase, Members, Phase, NoRow
    <3>3. RootHasMember'
      BY <1>1, <1>6, <2>3 DEF RootHasMember
    <3>4. QED
      BY <3>2, <3>3 DEF Structure!Next
  <2>4. QED
    BY <2>1, <2>2, <2>3
<1>7. QED
  BY <1>5, <1>6 DEF Clean

\* DDL on a registered replica defines a table.
LEMMA DdlStep ==
    ASSUME TypeOK, RootHasMember,
           NEW r \in Replicas, NEW t \in Tables, NEW s \in Schemas, Ddl(r, t, s)
    PROVE  RootHasMember' /\ (Structure!Next \/ UNCHANGED <<Phase, Members, zkTab>>)
<1>1. /\ \A q \in Replicas : pc'[q] \notin {"structure", "counter", "nodes"}
      /\ UNCHANGED <<zkRoot, digest, firstLog, damaged>>
  BY DEF Ddl, lockVars, RootHasMember
<1>2. CASE UNCHANGED zkTab
  BY <1>1, <1>2, QuietStep
<1>3. CASE Registered(r) /\ zkTab' # zkTab
  <2> DEFINE uuid == IF zkTab[t] = NoRow THEN Common ELSE zkTab[t].uuid
             row == [uuid |-> uuid, schema |-> s]
  <2>1. zkTab' = [zkTab EXCEPT ![t] = row]
    BY <1>3 DEF Ddl
  <2>2. row \in ZkRow
    <3>1. zkTab[t] \in ZkRow \cup {NoRow}
      BY DEF TypeOK, ZkType
    <3>2. uuid \in Uuids
      BY <3>1 DEF ZkRow, Uuids
    <3>3. QED
      BY <3>2 DEF ZkRow
  <2>3. Members # {} /\ Members' = Members /\ Phase' = Phase
    BY <1>1, <1>3 DEF Registered, Members, Phase
  <2> HIDE DEF row
  <2>4. Structure!Define(t, row)
    BY <2>1, <2>3 DEF Structure!Define, Members, Phase
  <2>5. zkRoot
    BY <1>3 DEF Registered, RootHasMember
  <2>6. RootHasMember'
    BY <1>1, <2>5 DEF RootHasMember
  <2>7. QED
    BY <2>2, <2>4, <2>6 DEF Structure!Next
<1>4. QED
  BY <1>2, <1>3 DEF Ddl

\* Every step keeps the invariant and is a step of the structure, or none.
LEMMA StepIsStructureStep ==
    ASSUME HasRestore
    PROVE  TypeOK /\ RootHasMember /\ [Next]_vars =>
               RootHasMember' /\ [Structure!Next]_<<Phase, Members, zkTab>>
<1> SUFFICES ASSUME TypeOK, RootHasMember, [Next]_vars
             PROVE  RootHasMember' /\ (Structure!Next \/ UNCHANGED <<Phase, Members, zkTab>>)
  OBVIOUS
<1> DEFINE Quiet == /\ UNCHANGED <<zkRoot, zkTab, digest, firstLog, damaged>>
                    /\ \A q \in Replicas : pc'[q] \notin {"structure", "counter", "nodes"}
<1> USE DEF RootHasMember, TypeOK, LockType, Entering
<1>1. ASSUME NEW r \in Replicas, NEW c \in Commands, NEW force \in Forces,
             Start(r, c, force)
      PROVE  Quiet
  BY <1>1 DEF Start, Goto, zkVars, historyVars
<1>2. ASSUME NEW r \in Replicas, TakeLock(r) PROVE Quiet
  BY <1>2 DEF TakeLock, Enter, ForceRemove, Acquire, NodeExistsReported, Classify, Wait,
     Released, PollTimeout, Raise, Goto, zkVars, historyVars, WaitsForLock
<1>3. ASSUME NEW r \in Replicas, Finish(r) \/ Crash(r) \/ Body(r) PROVE Quiet
  BY <1>3, HasRestore DEF Finish, Exit, Releases, Crash, Body, Raise, Goto, zkVars, historyVars,
     UsesRestore
<1>4. ASSUME NEW r \in Replicas,
             \/ Detach(r) \/ Rewrite(r) \/ MoveStore(r) \/ SyncDone(r)
             \/ \E t \in Tables : SyncTable(r, t)
      PROVE  Quiet
  BY <1>4 DEF Detach, Rewrite, MoveStore, SyncDone, SyncTable, Raise, Goto, zkVars, historyVars,
     SetAttached
<1>5. ASSUME NEW r \in Replicas, Attach(r) \/ Restart(r) \/ Reattach(r) PROVE Quiet
  BY <1>5 DEF Attach, Restart, Reattach, Raise, Goto, zkVars, historyVars, SetAttached
<1>6. ASSUME NEW r \in Replicas
      PROVE  ~CreateStructure(r) /\ ~GenerateCounter(r) /\ ~CreateReplicaNodes(r)
  BY DEF CreateStructure, GenerateCounter, CreateReplicaNodes, Answered
<1>7. ASSUME NEW r \in Replicas, OperatorAttach(r) PROVE Quiet
  BY <1>7 DEF OperatorAttach, lockVars, zkVars, historyVars
<1>8. ASSUME UNCHANGED vars PROVE Quiet
  BY <1>8 DEF vars, lockVars, zkVars, historyVars, historyVars
<1>9. ASSUME NEW r \in Replicas, WorkerDigest(r)
      PROVE  RootHasMember' /\ UNCHANGED <<Phase, Members, zkTab>>
  <2>1. \A q \in Replicas : digest'[q] = "absent" <=> digest[q] = "absent"
    BY <1>9 DEF WorkerDigest, ZkType
  <2>2. UNCHANGED <<zkRoot, zkTab, pc, firstLog, damaged>>
    BY <1>9 DEF WorkerDigest, lockVars, historyVars
  <2>3. QED
    BY <2>1, <2>2 DEF Phase, Members, Structure!Unpublished
<1> HIDE DEF Quiet
<1>10. Quiet => RootHasMember' /\ UNCHANGED <<Phase, Members, zkTab>>
  BY QuietStep DEF Quiet
<1>11. QED
  BY <1>1, <1>2, <1>3, <1>4, <1>5, <1>6, <1>7, <1>8, <1>9, <1>10,
     RestoreStep, CleanStep, DdlStep DEF Next, Step, Environment

\* With SYSTEM RESTORE DATABASE REPLICA the commands publish, join, define and
\* delete as DatabaseStructure says, in whatever order they run and wherever they
\* fail: the first replica publishes its tables and registers in one step, and
\* nobody joins a database that has no member, unless --clean-zookeeper is
\* deleting it, or has stopped half-way; nobody publishes before it is gone.
THEOREM MigrationImplementsStructure ==
    ASSUME HasRestore
    PROVE  Spec => StructureSpec
<1>1. Init => SyncsLocalTables
  BY DEF Init, SyncsLocalTables
<1>2. Init => Structure!Init
  <2> SUFFICES ASSUME Init PROVE Structure!Init
    OBVIOUS
  <2>1. zkTab \in Structure!Published
    BY InitType DEF TypeOK, ZkType, Structure!Published, NoRow
  <2>2. \A r \in Replicas : digest[r] = IF zkRoot THEN "set" ELSE "absent"
    BY DEF Init
  <2>3. CASE zkRoot
    <3>1. Members = Replicas /\ Phase = "whole"
      BY <2>2, <2>3 DEF Members, Phase, Init
    <3>2. QED
      BY <2>1, <3>1 DEF Structure!Init, Members, Phase
  <2>4. CASE ~zkRoot
    <3>1. Members = {} /\ zkTab = Structure!Unpublished /\ Phase = "none"
      BY <2>2, <2>4, InitRoot DEF Members, RootHasMember, Phase
    <3>2. QED
      BY <3>1 DEF Structure!Init, Members, Phase
  <2>5. QED
    BY <2>3, <2>4
<1>3. TypeOK /\ RootHasMember /\ [Next]_vars =>
          /\ RootHasMember'
          /\ [Structure!Next]_<<IF ~zkRoot THEN "none" ELSE IF damaged THEN "broken" ELSE "whole",
                               {r \in Replicas : digest[r] # "absent"}, zkTab>>
  BY StepIsStructureStep DEF Members, Phase
<1>4. QED
  BY <1>1, <1>2, <1>3, InitRoot, InitType, NextType, NextSyncs, PTL
     DEF Spec, StructureSpec, Structure!Spec

-----------------------------------------------------------------------------
(* Tables are published once *)

NothingPublished == zkTab = [t \in Tables |-> NoRow]

\* Without the database node nothing is published and nobody is registered.
RootlessIsEmpty == ~zkRoot => NothingPublished /\ \A r \in Replicas : digest[r] = "absent"

\* A command inside the lock, or one that became Replicated there.
Joining(r) == /\ pc[r] \notin Entering \cup {"idle", "unlock"}
              /\ cmd[r] \in {"to_replicated", "restore_replica"}

\* Only these commands take the lock and go on from there.
LockIsForJoiners ==
    \A r \in Replicas :
        pc[r] \in Entering \cup {"body", "sync", "move", "restart", "restore",
                                 "structure", "counter", "nodes"}
        => cmd[r] \in {"to_replicated", "restore_replica"}

\* From the moment it has created the database node until it has published its
\* tables, the first replica of the fallback is alone: nobody else is inside the
\* lock, nobody is registered, and nothing is published.
PublisherIsAlone ==
    \A r \in Replicas : first[r] /\ pc[r] \in {"counter", "nodes"} =>
        /\ NothingPublished
        /\ \A q \in Replicas : digest[q] = "absent" /\ (q # r => ~Joining(q))

\* Every step preserves the first two.
LEMMA NextRootless ==
    TypeOK /\ RootlessIsEmpty /\ LockIsForJoiners /\ [Next]_vars
    => RootlessIsEmpty' /\ LockIsForJoiners'
<1> SUFFICES ASSUME TypeOK, RootlessIsEmpty, LockIsForJoiners, [Next]_vars
             PROVE  RootlessIsEmpty' /\ LockIsForJoiners'
  OBVIOUS
<1> DEFINE Quiet == UNCHANGED <<zkRoot, zkTab, digest>> /\ LockIsForJoiners'
<1> USE DEF TypeOK, LockType, LockIsForJoiners, Entering
<1>1. ASSUME NEW r \in Replicas, NEW c \in Commands, NEW force \in Forces,
             Start(r, c, force)
      PROVE  Quiet
  BY <1>1, MigrationAssumption DEF Start, Goto, zkVars, ProcType
<1>2. ASSUME NEW r \in Replicas, TakeLock(r) PROVE Quiet
  BY <1>2 DEF TakeLock, Enter, ForceRemove, Acquire, NodeExistsReported, Classify, Wait,
     Released, PollTimeout, Raise, Goto, zkVars, procVars, WaitsForLock
<1>3. ASSUME NEW r \in Replicas, Finish(r) \/ Crash(r) PROVE Quiet
  BY <1>3 DEF Finish, Exit, Releases, Crash, Goto, zkVars, procVars
<1>4. ASSUME NEW r \in Replicas, Body(r) PROVE Quiet
  BY <1>4 DEF Body, Raise, Goto, zkVars, UsesRestore
<1>5. ASSUME NEW r \in Replicas,
             \/ Detach(r) \/ Rewrite(r) \/ MoveStore(r) \/ SyncDone(r)
             \/ \E t \in Tables : SyncTable(r, t)
      PROVE  Quiet
  BY <1>5 DEF Detach, Rewrite, MoveStore, SyncDone, SyncTable, Raise, Goto, zkVars,
     procVars, SetAttached
<1>6. ASSUME NEW r \in Replicas, Attach(r) \/ Restart(r) \/ Reattach(r) PROVE Quiet
  BY <1>6 DEF Attach, Restart, Reattach, Raise, Goto, zkVars, procVars, SetAttached
<1>7. ASSUME NEW r \in Replicas, OperatorAttach(r) PROVE Quiet
  BY <1>7 DEF OperatorAttach, lockVars, zkVars, procVars
<1>8. ASSUME UNCHANGED vars PROVE Quiet
  BY <1>8 DEF vars, lockVars, zkVars, procVars, historyVars
<1>9. ASSUME NEW r \in Replicas, GenerateCounter(r) PROVE Quiet
  BY <1>9 DEF GenerateCounter, Raise, Goto, Answered
<1>10. ASSUME NEW r \in Replicas,
              \/ Clean(r) \/ Restore(r) \/ CreateStructure(r) \/ CreateReplicaNodes(r)
       PROVE  RootlessIsEmpty' /\ LockIsForJoiners'
  BY <1>10 DEF Clean, Restore, CreateStructure, CreateReplicaNodes, Raise, Goto, zkVars,
     procVars, RootlessIsEmpty, NothingPublished, Answered
<1>11. ASSUME NEW r \in Replicas, WorkerDigest(r)
       PROVE  RootlessIsEmpty' /\ LockIsForJoiners'
  BY <1>11 DEF WorkerDigest, lockVars, procVars, RootlessIsEmpty, NothingPublished, ZkType
<1>12. ASSUME NEW r \in Replicas, NEW t \in Tables, NEW s \in Schemas, Ddl(r, t, s)
       PROVE  RootlessIsEmpty' /\ LockIsForJoiners'
  BY <1>12 DEF Ddl, Registered, lockVars, procVars, RootlessIsEmpty, NothingPublished
<1>13. Quiet => RootlessIsEmpty' /\ LockIsForJoiners'
  BY DEF RootlessIsEmpty, NothingPublished
<1> HIDE DEF Quiet
<1>14. QED
  BY <1>1, <1>2, <1>3, <1>4, <1>5, <1>6, <1>7, <1>8, <1>9, <1>10, <1>11, <1>12, <1>13
     DEF Next, Step, Environment

\* What a step leaves of what PublisherIsAlone says of replica r.
LEMMA PublisherStaysAlone ==
    ASSUME TypeOK, PublisherIsAlone, UNCHANGED <<zkTab, digest>>,
           \A r \in Replicas : first'[r] /\ pc'[r] \in {"counter", "nodes"} =>
                /\ first[r] /\ pc[r] \in {"counter", "nodes"}
                /\ \A q \in Replicas : q # r /\ Joining(q)' => Joining(q)
    PROVE  PublisherIsAlone'
BY DEF PublisherIsAlone, NothingPublished

\* Without --force-remove-lock and --clean-zookeeper every step preserves it.
LEMMA NextPublisher ==
    ASSUME Forces \subseteq {FALSE}, "to_atomic_clean" \notin Commands
    PROVE  /\ TypeOK /\ OneFirst /\ NeverForced /\ WaitersSeeRoot /\ JoinersSeeRoot
           /\ RootlessIsEmpty /\ LockIsForJoiners /\ PublisherIsAlone /\ [Next]_vars
           => PublisherIsAlone'
<1> SUFFICES ASSUME TypeOK, OneFirst, NeverForced, WaitersSeeRoot, JoinersSeeRoot,
                    RootlessIsEmpty, LockIsForJoiners, PublisherIsAlone, [Next]_vars
             PROVE  PublisherIsAlone'
  OBVIOUS
<1> DEFINE Publishes(q) == first[q] /\ pc[q] \in {"counter", "nodes"}
           Quiet == /\ UNCHANGED <<zkTab, digest>>
                    /\ \A q \in Replicas :
                          /\ Publishes(q)' => Publishes(q)
                          /\ Joining(q)' => \/ Joining(q)
                                            \/ \A p \in Replicas : Publishes(p) => p = q
<1> USE LockAssumption DEF TypeOK, LockType, Entering
<1>0. Quiet => PublisherIsAlone'
  BY PublisherStaysAlone DEF PublisherIsAlone, Joining
<1>1. ASSUME NEW r \in Replicas, NEW c \in Commands, NEW force \in Forces,
             Start(r, c, force)
      PROVE  Quiet
  BY <1>1 DEF Start, Goto, zkVars, ProcType, Joining
<1>2. ASSUME NEW r \in Replicas, TakeLock(r) PROVE Quiet
  BY <1>2 DEF TakeLock, Enter, ForceRemove, Acquire, NodeExistsReported, Classify, Wait,
     Released, PollTimeout, Raise, Goto, zkVars, procVars, Joining, OneFirst, WaitsForLock
<1>3. ASSUME NEW r \in Replicas, Finish(r) \/ Crash(r) PROVE Quiet
  BY <1>3 DEF Finish, Exit, Releases, Crash, Goto, zkVars, procVars, Joining
<1>4. ASSUME NEW r \in Replicas, Body(r) PROVE Quiet
  BY <1>4 DEF Body, Raise, Goto, zkVars, Joining, UsesRestore
<1>5. ASSUME NEW r \in Replicas,
             \/ Detach(r) \/ Rewrite(r) \/ MoveStore(r) \/ SyncDone(r)
             \/ \E t \in Tables : SyncTable(r, t)
      PROVE  Quiet
  BY <1>5 DEF Detach, Rewrite, MoveStore, SyncDone, SyncTable, Raise, Goto, zkVars,
     procVars, Joining, SetAttached
<1>6. ASSUME NEW r \in Replicas, Attach(r) \/ Restart(r) \/ Reattach(r) PROVE Quiet
  BY <1>6 DEF Attach, Restart, Reattach, Raise, Goto, zkVars, procVars, Joining,
     SetAttached
<1>7. ASSUME NEW r \in Replicas, OperatorAttach(r) PROVE Quiet
  BY <1>7 DEF OperatorAttach, lockVars, zkVars, procVars, Joining
<1>8. ASSUME UNCHANGED vars PROVE Quiet
  BY <1>8 DEF vars, lockVars, zkVars, procVars, Joining, historyVars
<1>9. ASSUME NEW r \in Replicas, GenerateCounter(r) PROVE Quiet
  BY <1>9 DEF GenerateCounter, Raise, Goto, Joining, Answered
<1>10. ASSUME NEW r \in Replicas PROVE ~Clean(r)
  BY DEF Clean, WaitersSeeRoot
<1>11. ASSUME NEW r \in Replicas, Restore(r) \/ CreateReplicaNodes(r) PROVE PublisherIsAlone'
  <2>1. Joining(r) /\ pc'[r] \in {"unlock", "redetach"}
    BY <1>11 DEF Restore, CreateReplicaNodes, Raise, Goto, Joining, LockIsForJoiners,
       Answered
  <2>2. \A p \in Replicas : Publishes(p)' => Publishes(p) /\ p # r
    BY <1>11, <2>1 DEF Restore, CreateReplicaNodes, Raise, Goto, Answered
  <2>3. QED
    BY <2>1, <2>2 DEF PublisherIsAlone
<1>12. ASSUME NEW r \in Replicas, CreateStructure(r) PROVE PublisherIsAlone'
  <2>1. Joining(r) /\ pc[r] = "structure" /\ UNCHANGED <<zkTab, digest, first, cmd>>
    BY <1>12 DEF CreateStructure, Joining, LockIsForJoiners, procVars, Answered
  <2>2. ASSUME NEW p \in Replicas, Publishes(p)', p # r PROVE FALSE
    BY <1>12, <2>1, <2>2 DEF CreateStructure, Raise, Goto, PublisherIsAlone, Answered
  <2>3. ASSUME Publishes(r)'
        PROVE  /\ NothingPublished
               /\ \A q \in Replicas : digest[q] = "absent" /\ (q # r => ~Joining(q))
    <3>1. ~zkRoot /\ first[r]
      BY <1>12, <2>1, <2>3 DEF CreateStructure, Raise, Goto, Answered
    <3>2. \A q \in Replicas : q # r => ~first[q]
      BY <3>1 DEF OneFirst
    <3>3. QED
      BY <3>1, <3>2 DEF RootlessIsEmpty, JoinersSeeRoot, Joining
  <2>4. \A q \in Replicas : q # r => (Joining(q)' <=> Joining(q))
    BY <1>12, <2>1 DEF CreateStructure, Raise, Goto, Joining, Answered
  <2>5. QED
    BY <2>1, <2>2, <2>3, <2>4 DEF PublisherIsAlone, NothingPublished
<1>13. ASSUME NEW r \in Replicas, WorkerDigest(r) PROVE PublisherIsAlone'
  <2>1. digest[r] = "zero" /\ UNCHANGED <<pc, first>>
    BY <1>13 DEF WorkerDigest, lockVars
  <2>2. QED
    BY <2>1 DEF PublisherIsAlone
<1>14. ASSUME NEW r \in Replicas, NEW t \in Tables, NEW s \in Schemas, Ddl(r, t, s)
       PROVE  PublisherIsAlone'
  <2>1. UNCHANGED <<pc, first, cmd, digest>>
    BY <1>14 DEF Ddl, lockVars, procVars
  <2>2. Registered(r) \/ UNCHANGED zkTab
    BY <1>14 DEF Ddl
  <2>3. CASE Registered(r)
    BY <2>1, <2>3 DEF PublisherIsAlone, Registered
  <2>4. CASE UNCHANGED zkTab
    BY <2>1, <2>4 DEF PublisherIsAlone, NothingPublished, Joining
  <2>5. QED
    BY <2>2, <2>3, <2>4
<1> HIDE DEF Quiet
<1>15. QED
  BY <1>0, <1>1, <1>2, <1>3, <1>4, <1>5, <1>6, <1>7, <1>8, <1>9, <1>10, <1>11, <1>12, <1>13,
     <1>14 DEF Next, Step, Environment

\* Who publishes over the tables of another one.
PublishesOver ==
    /\ zkTab' # zkTab /\ spent'.ddl = spent.ddl
    /\ zkTab # [t \in Tables |-> NoRow]

\* No step does.
LEMMA StepPublishesOnce ==
    TypeOK /\ WaitersSeeRoot /\ RootlessIsEmpty /\ PublisherIsAlone /\ [Next]_vars
    => ~PublishesOver
<1> SUFFICES ASSUME TypeOK, WaitersSeeRoot, RootlessIsEmpty, PublisherIsAlone, [Next]_vars,
                    zkTab' # zkTab, spent'.ddl = spent.ddl, ~NothingPublished
             PROVE  FALSE
  BY DEF PublishesOver, NothingPublished
<1>1. ASSUME NEW r \in Replicas, NEW c \in Commands, NEW force \in Forces
      PROVE  ~Start(r, c, force)
  BY DEF Start, zkVars
<1>2. ASSUME NEW r \in Replicas PROVE ~TakeLock(r) /\ ~Finish(r) /\ ~Crash(r) /\ ~Body(r)
  BY DEF TakeLock, Finish, Crash, Body, zkVars, UsesRestore
<1>3. ASSUME NEW r \in Replicas,
             \/ Detach(r) \/ Rewrite(r) \/ MoveStore(r) \/ SyncDone(r)
             \/ \E t \in Tables : SyncTable(r, t)
      PROVE  FALSE
  BY <1>3 DEF Detach, Rewrite, MoveStore, SyncDone, SyncTable, zkVars, SetAttached
<1>4. ASSUME NEW r \in Replicas,
             \/ Attach(r) \/ Restart(r) \/ Reattach(r) \/ CreateStructure(r)
             \/ GenerateCounter(r) \/ OperatorAttach(r) \/ WorkerDigest(r)
      PROVE  FALSE
  BY <1>4 DEF Attach, Restart, Reattach, CreateStructure, GenerateCounter, OperatorAttach,
     WorkerDigest, zkVars, SetAttached, Answered
<1>5. ASSUME NEW r \in Replicas PROVE ~Clean(r)
  BY DEF Clean, WaitersSeeRoot
<1>6. ASSUME NEW r \in Replicas PROVE ~Restore(r)
  BY DEF Restore, RootlessIsEmpty, zkVars, Answered
<1>7. ASSUME NEW r \in Replicas PROVE ~CreateReplicaNodes(r)
  BY DEF CreateReplicaNodes, Published, PublisherIsAlone, Answered
<1>8. ASSUME NEW r \in Replicas, NEW t \in Tables, NEW s \in Schemas PROVE ~Ddl(r, t, s)
  <2>1. spent.ddl \in Nat /\ spent \in [commands : Nat, crashes : Nat, ddl : Nat]
    BY DEF TypeOK, HistoryType, historyVars
  <2>2. QED
    BY <2>1 DEF Ddl
<1>9. CASE UNCHANGED vars
  BY <1>9 DEF vars, zkVars, historyVars
<1>10. QED
  BY <1>1, <1>2, <1>3, <1>4, <1>5, <1>6, <1>7, <1>8, <1>9 DEF Next, Step, Environment

\* Without --force-remove-lock and --clean-zookeeper no command publishes over
\* the tables that another one has published: they are changed by DDL only.
THEOREM TablesArePublishedOnce ==
    ASSUME Forces \subseteq {FALSE}, "to_atomic_clean" \notin Commands
    PROVE  Spec => PublishedOnce
<1>1. Init => /\ OneFirst /\ NeverForced /\ SyncsLocalTables
              /\ WaitersSeeRoot /\ JoinersSeeRoot
  BY DEF Init, OneFirst, NeverForced, SyncsLocalTables, WaitersSeeRoot, JoinersSeeRoot
<1>2. Init => RootlessIsEmpty /\ LockIsForJoiners /\ PublisherIsAlone
  <2> SUFFICES ASSUME Init PROVE RootlessIsEmpty /\ LockIsForJoiners /\ PublisherIsAlone
    OBVIOUS
  <2>1. RootlessIsEmpty
    BY DEF Init, RootlessIsEmpty, NothingPublished
  <2>2. \A r \in Replicas : pc[r] = "idle"
    BY DEF Init
  <2>3. QED
    BY <2>1, <2>2 DEF LockIsForJoiners, PublisherIsAlone, Entering
<1>3. ~PublishesOver => [zkTab' # zkTab /\ spent'.ddl = spent.ddl
                         => zkTab = [t \in Tables |-> NoRow]]_vars
  BY DEF PublishesOver
<1>4. QED
  BY <1>1, <1>2, <1>3, InitType, NextType, NextSyncs, NextOneFirst, NextJoiners,
     NextRootless, NextPublisher, StepPublishesOnce, PTL DEF Spec, PublishedOnce

-----------------------------------------------------------------------------
(* The publisher makes the log *)

\* Every step preserves PublisherMakesTheLog: between the two requests of the
\* publisher nobody else is where a counter is drawn.
LEMMA NextMakesTheLog ==
    /\ TypeOK /\ WaitersSeeRoot /\ LockIsForJoiners /\ PublisherIsAlone
    /\ PublisherMakesTheLog /\ [Next]_vars
    => PublisherMakesTheLog'
<1> SUFFICES ASSUME TypeOK, WaitersSeeRoot, LockIsForJoiners, PublisherIsAlone,
                    PublisherMakesTheLog, [Next]_vars
             PROVE  PublisherMakesTheLog'
  OBVIOUS
<1> DEFINE Quiet == /\ UNCHANGED <<seq, ticket>>
                    /\ \A q \in Replicas : first'[q] /\ pc'[q] \in {"counter", "nodes"}
                           => first[q] /\ pc'[q] = pc[q]
<1> USE DEF TypeOK, LockType, Entering
<1>0. Quiet => PublisherMakesTheLog'
  BY DEF PublisherMakesTheLog
<1>1. ASSUME NEW r \in Replicas, NEW c \in Commands, NEW force \in Forces,
             Start(r, c, force)
      PROVE  PublisherMakesTheLog'
  BY <1>1 DEF Start, Goto, zkVars, ProcType, PublisherMakesTheLog
<1>2. ASSUME NEW r \in Replicas, TakeLock(r) PROVE Quiet
  BY <1>2 DEF TakeLock, Enter, ForceRemove, Acquire, NodeExistsReported, Classify, Wait,
     Released, PollTimeout, Raise, Goto, zkVars, procVars, WaitsForLock
<1>3. ASSUME NEW r \in Replicas, Finish(r) \/ Crash(r) PROVE Quiet
  BY <1>3 DEF Finish, Exit, Releases, Crash, Goto, zkVars, procVars
<1>4. ASSUME NEW r \in Replicas, Body(r) PROVE Quiet
  BY <1>4 DEF Body, Raise, Goto, zkVars, UsesRestore
<1>5. ASSUME NEW r \in Replicas,
             \/ Detach(r) \/ Rewrite(r) \/ MoveStore(r) \/ SyncDone(r)
             \/ \E t \in Tables : SyncTable(r, t)
      PROVE  Quiet
  BY <1>5 DEF Detach, Rewrite, MoveStore, SyncDone, SyncTable, SetAttached, Raise, Goto,
     zkVars, procVars
<1>6. ASSUME NEW r \in Replicas, Attach(r) \/ Restart(r) \/ Reattach(r) PROVE Quiet
  BY <1>6 DEF Attach, Restart, Reattach, SetAttached, Raise, Goto, zkVars, procVars
<1>7. ASSUME NEW r \in Replicas,
             \/ OperatorAttach(r) \/ WorkerDigest(r)
             \/ \E t \in Tables, s \in Schemas : Ddl(r, t, s)
      PROVE  Quiet
  BY <1>7 DEF OperatorAttach, WorkerDigest, Ddl, lockVars, zkVars, procVars
<1>8. ASSUME UNCHANGED vars PROVE Quiet
  BY <1>8 DEF vars, lockVars, zkVars, procVars
<1>9. ASSUME NEW r \in Replicas, Restore(r) \/ CreateReplicaNodes(r) PROVE Quiet
  BY <1>9 DEF Restore, CreateReplicaNodes, Answered, Raise, Goto, zkVars, procVars
<1>10. ASSUME NEW r \in Replicas, CreateStructure(r) PROVE PublisherMakesTheLog'
  <2>1. Joining(r) /\ pc[r] = "structure" /\ UNCHANGED <<first, ticket>>
    BY <1>10 DEF CreateStructure, Joining, LockIsForJoiners, procVars
  <2>2. ASSUME NEW q \in Replicas, first'[q], pc'[q] \in {"counter", "nodes"}
        PROVE  q = r /\ pc'[q] = "counter" /\ seq' = 1
    BY <1>10, <2>1, <2>2 DEF CreateStructure, Answered, Raise, Goto, PublisherIsAlone
  <2>3. QED
    BY <2>2 DEF PublisherMakesTheLog
<1>11. ASSUME NEW r \in Replicas, GenerateCounter(r) PROVE PublisherMakesTheLog'
  <2>1. Joining(r) /\ pc[r] = "counter" /\ UNCHANGED first
    BY <1>11 DEF GenerateCounter, Joining, LockIsForJoiners
  <2>2. ASSUME NEW q \in Replicas, first'[q], pc'[q] \in {"counter", "nodes"}
        PROVE  q = r /\ pc'[q] = "nodes" /\ ticket'[q] = 1
    BY <1>11, <2>1, <2>2 DEF GenerateCounter, Answered, Raise, Goto, PublisherIsAlone,
       PublisherMakesTheLog, ProcType
  <2>3. QED
    BY <2>2 DEF PublisherMakesTheLog
<1>12. ASSUME NEW r \in Replicas PROVE ~Clean(r)
  BY DEF Clean, WaitersSeeRoot
<1> HIDE DEF Quiet
<1>13. QED
  BY <1>0, <1>1, <1>2, <1>3, <1>4, <1>5, <1>6, <1>7, <1>8, <1>9, <1>10, <1>11, <1>12
     DEF Next, Step, Environment

\* Without --force-remove-lock and --clean-zookeeper the command of the fallback
\* that publishes the tables draws the counter of the first entry of the log,
\* which every other replica needs: nobody else draws one between its requests.
THEOREM ThePublisherMakesTheLog ==
    ASSUME Forces \subseteq {FALSE}, "to_atomic_clean" \notin Commands
    PROVE  Spec => []PublisherMakesTheLog
<1>1. Init => /\ OneFirst /\ NeverForced /\ SyncsLocalTables
              /\ WaitersSeeRoot /\ JoinersSeeRoot
  BY DEF Init, OneFirst, NeverForced, SyncsLocalTables, WaitersSeeRoot, JoinersSeeRoot
<1>2. Init => /\ RootlessIsEmpty /\ LockIsForJoiners /\ PublisherIsAlone
              /\ PublisherMakesTheLog
  <2> SUFFICES ASSUME Init
               PROVE  /\ RootlessIsEmpty /\ LockIsForJoiners /\ PublisherIsAlone
                      /\ PublisherMakesTheLog
    OBVIOUS
  <2>1. RootlessIsEmpty
    BY DEF Init, RootlessIsEmpty, NothingPublished
  <2>2. \A r \in Replicas : pc[r] = "idle"
    BY DEF Init
  <2>3. QED
    BY <2>1, <2>2 DEF LockIsForJoiners, PublisherIsAlone, PublisherMakesTheLog, Entering
<1>3. QED
  BY <1>1, <1>2, InitType, NextType, NextSyncs, NextOneFirst, NextJoiners, NextRootless,
     NextPublisher, NextMakesTheLog, PTL DEF Spec

-----------------------------------------------------------------------------
(* A migration that ends well is complete *)

\* The code of a command that only goes on without an error.
Entered == Entering \cup {"body", "detach", "rewrite"}
Rewritten == {"sync", "move", "restart", "restore"}

\* If no command makes the database Atomic again: where a migration to Replicated
\* is, and what it has done when it ends without an error.
MigrationIsUnderWay(r) ==
    /\ pc[r] = "idle" \/ cmd[r] \in {"to_replicated", "restore_replica"}
    /\ pc[r] # "clean"
    /\ pc[r] \in {"detach", "rewrite", "sync", "move", "restart", "attach"}
          => cmd[r] = "to_replicated"
    /\ pc[r] \in {"structure", "counter", "nodes", "redetach", "reattach"}
          => cmd[r] = "restore_replica"
    /\ pc[r] \in Entered \cup Rewritten => ~exc[r]
    /\ cmd[r] = "to_replicated" =>
          /\ pc[r] \in Entered => engine[r] = "Atomic"
          /\ pc[r] \in Rewritten \/ (pc[r] = "attach" /\ ~exc[r]) => engine[r] = "Replicated"
          /\ pc[r] = "unlock" /\ ~exc[r] => Registered(r) /\ attached[r]
MigrationsAreUnderWay == \A r \in Replicas : MigrationIsUnderWay(r)

\* Every step preserves it.
LEMMA NextUnderWay ==
    ASSUME Commands \subseteq {"to_replicated", "restore_replica"}
    PROVE  TypeOK /\ AttachedWhereUsed /\ MigrationsAreUnderWay /\ [Next]_vars
           => MigrationsAreUnderWay'
<1> SUFFICES ASSUME TypeOK, AttachedWhereUsed, MigrationsAreUnderWay, [Next]_vars
             PROVE  MigrationsAreUnderWay'
  OBVIOUS
<1> USE DEF TypeOK, LockType, MigrationsAreUnderWay, MigrationIsUnderWay, Registered,
     Entered, Rewritten, Entering
<1>1. ASSUME NEW r \in Replicas, NEW c \in Commands, NEW force \in Forces,
             Start(r, c, force)
      PROVE  MigrationsAreUnderWay'
  BY <1>1 DEF Start, PreChecks, Goto, zkVars, hostVars, ProcType
<1>2. ASSUME NEW r \in Replicas, TakeLock(r) PROVE MigrationsAreUnderWay'
  BY <1>2 DEF TakeLock, Enter, ForceRemove, Acquire, NodeExistsReported, Classify, Wait,
     Released, PollTimeout, Raise, Goto, zkVars, procVars, hostVars, WaitsForLock
<1>3. ASSUME NEW r \in Replicas, Finish(r) \/ Crash(r) PROVE MigrationsAreUnderWay'
  BY <1>3 DEF Finish, Exit, Releases, Crash, Goto, zkVars, procVars, hostVars
<1>4. ASSUME NEW r \in Replicas, Body(r) PROVE MigrationsAreUnderWay'
  BY <1>4 DEF Body, Raise, Goto, zkVars, hostVars, UsesRestore
<1>5. ASSUME NEW r \in Replicas,
             Detach(r) \/ Rewrite(r)
      PROVE  MigrationsAreUnderWay'
  BY <1>5 DEF Detach, Rewrite, Raise, Goto, zkVars, procVars, HostType, SetAttached
<1>6. ASSUME NEW r \in Replicas,
             \/ MoveStore(r) \/ SyncDone(r) \/ Clean(r) \/ \E t \in Tables : SyncTable(r, t)
      PROVE  MigrationsAreUnderWay'
  <2>1. ~Clean(r)
    BY DEF Clean
  <2>2. CASE MoveStore(r) \/ SyncDone(r)
    BY <2>2 DEF MoveStore, SyncDone, Raise, Goto, zkVars, procVars, hostVars
  <2>3. ASSUME NEW t \in Tables, SyncTable(r, t) PROVE MigrationsAreUnderWay'
    BY <2>3 DEF SyncTable, Raise, Goto, zkVars, hostVars
  <2>4. QED
    BY <1>6, <2>1, <2>2, <2>3
<1>7. ASSUME NEW r \in Replicas, Attach(r) \/ Restart(r) \/ Reattach(r)
      PROVE  MigrationsAreUnderWay'
  BY <1>7 DEF Attach, Restart, Reattach, Raise, Goto, zkVars, procVars, HostType,
     SetAttached
<1>8. ASSUME NEW r \in Replicas, Restore(r)
      PROVE  MigrationsAreUnderWay'
  BY <1>8 DEF Restore, Raise, Goto, zkVars, procVars, hostVars, AttachedWhereUsed, ZkType,
     Answered
<1>9. ASSUME NEW r \in Replicas, CreateStructure(r) \/ GenerateCounter(r) \/ CreateReplicaNodes(r)
      PROVE  MigrationsAreUnderWay'
  BY <1>9 DEF CreateStructure, GenerateCounter, CreateReplicaNodes, Raise, Goto, zkVars,
     procVars, hostVars, ZkType, Answered
<1>10. ASSUME NEW r \in Replicas,
              \/ OperatorAttach(r) \/ WorkerDigest(r)
              \/ \E t \in Tables, s \in Schemas : Ddl(r, t, s)
       PROVE  MigrationsAreUnderWay'
  <2>1. /\ UNCHANGED <<pc, exc, cmd, engine>>
        /\ \A q \in Replicas : /\ attached[q] => attached'[q]
                               /\ digest'[q] = "absent" => digest[q] = "absent"
    BY <1>10 DEF OperatorAttach, WorkerDigest, Ddl, lockVars, zkVars, procVars, hostVars,
       ZkType, HostType
  <2>2. QED
    BY <2>1
<1>11. CASE UNCHANGED vars
  BY <1>11 DEF vars, lockVars, zkVars, procVars, hostVars, historyVars
<1>12. QED
  BY <1>1, <1>2, <1>3, <1>4, <1>5, <1>6, <1>7, <1>8, <1>9, <1>10, <1>11 DEF Next, Step, Environment

\* The directory of a table is named after its uuid.
HasItsStore(r, t) == tab[r][t] # NoRow => tab[r][t].store = tab[r][t].uuid

\* A database that is Atomic, or that is migrated without an error so far.
Follows(r) ==
    \/ engine[r] = "Atomic"
    \/ /\ cmd[r] = "to_replicated" /\ ~exc[r]
       /\ pc[r] \in {"sync", "restart", "attach", "restore", "unlock"}

\* So it is for all of its tables but the one that change_uuid has in hand.
StoresFollow(r) ==
    /\ Follows(r) => \A t \in Tables \ Views : HasItsStore(r, t)
    /\ pc[r] = "move" =>
          /\ tab[r][moving[r].table].store = moving[r].old
          /\ \A t \in Tables \ (Views \cup {moving[r].table}) : HasItsStore(r, t)
AllStoresFollow == \A r \in Replicas : StoresFollow(r)

\* A step that leaves the tables of a host alone.
LEMMA StoresStay ==
    ASSUME AllStoresFollow, UNCHANGED tab,
           \A q \in Replicas :
              /\ Follows(q)' => Follows(q)
              /\ pc'[q] = "move" => pc[q] = "move" /\ moving'[q] = moving[q]
    PROVE  AllStoresFollow'
BY DEF AllStoresFollow, StoresFollow, HasItsStore

\* A table that DDL creates or changes, and the uuid ZooKeeper has or gives for it.
NewRow(uuid, s) == [uuid |-> uuid, store |-> uuid, schema |-> s]
Defined(q, t, uuid, s) ==
    tab'[q] = [tab[q] EXCEPT ![t] = IF tab[q][t] = NoRow THEN NewRow(uuid, s)
                                    ELSE [tab[q][t] EXCEPT !.schema = s]]
ZkUuid(t) == IF zkTab[t] = NoRow THEN Common ELSE zkTab[t].uuid

\* What DDL does to the tables of a host and to ZooKeeper.
LEMMA DdlDefines ==
    ASSUME TypeOK, NEW r \in Replicas, NEW t \in Tables, NEW s \in Schemas, Ddl(r, t, s),
           NEW q \in Replicas
    PROVE  \/ /\ engine[r] = "Atomic" /\ UNCHANGED zkTab
              /\ IF q = r THEN Defined(q, t, r, s) ELSE tab'[q] = tab[q]
           \/ /\ Registered(r)
              /\ zkTab' = [zkTab EXCEPT ![t] = [uuid |-> ZkUuid(t), schema |-> s]]
              /\ IF Registered(q) THEN Defined(q, t, ZkUuid(t), s) ELSE tab'[q] = tab[q]
<1> USE DEF Defined, NewRow
<1>1. CASE engine[r] = "Atomic" /\ q = r
  BY <1>1 DEF Ddl, Registered, TypeOK, HostType
<1>2. CASE engine[r] = "Atomic" /\ q # r
  BY <1>2 DEF Ddl, Registered, TypeOK, HostType
<1>3. CASE engine[r] # "Atomic"
  BY <1>3 DEF Ddl, Registered, ZkUuid
<1>4. QED
  BY <1>1, <1>2, <1>3

\* DDL names the directory of a new table after its uuid, and leaves both of an
\* old table.
LEMMA DdlKeepsStores ==
    ASSUME TypeOK, NEW r \in Replicas, NEW t \in Tables, NEW s \in Schemas, Ddl(r, t, s),
           NEW q \in Replicas, NEW u \in Tables
    PROVE  /\ tab[q][u] # NoRow => /\ tab'[q][u] # NoRow
                                   /\ tab'[q][u].store = tab[q][u].store
                                   /\ tab'[q][u].uuid = tab[q][u].uuid
           /\ tab[q][u] = NoRow => HasItsStore(q, u)'
<1>1. tab[q] \in [Tables -> Row \cup {NoRow}] /\ tab[q][u] \in Row \cup {NoRow}
  BY DEF TypeOK, HostType
<1> DEFINE old == [tab[q][u] EXCEPT !.schema = s]
<1>2. ASSUME tab[q][u] # NoRow
      PROVE  old # NoRow /\ old.store = tab[q][u].store /\ old.uuid = tab[q][u].uuid
  <2>1. tab[q][u] \in Row
    BY <1>1, <1>2
  <2>2. old \in Row
    BY <2>1 DEF Row
  <2>3. old.store = tab[q][u].store /\ old.uuid = tab[q][u].uuid
    BY <2>1 DEF Row
  <2>4. QED
    BY <2>2, <2>3, RowAssumption
<1>3. \A uuid : NewRow(uuid, s).store = NewRow(uuid, s).uuid
  BY DEF NewRow
<1> HIDE DEF old
<1>4. tab'[q] = tab[q] \/ \E uuid : Defined(q, t, uuid, s)
  BY DdlDefines
<1>5. \/ tab'[q][u] = tab[q][u]
      \/ \E uuid : tab'[q][u] = IF tab[q][u] = NoRow THEN NewRow(uuid, s) ELSE old
  BY <1>1, <1>4 DEF Defined, old
<1>6. QED
  BY <1>2, <1>3, <1>5 DEF HasItsStore

\* Every step preserves it.
LEMMA NextStores ==
    ASSUME Commands \subseteq {"to_replicated", "restore_replica"}
    PROVE  /\ TypeOK /\ SyncsLocalTables /\ MigrationsAreUnderWay /\ AllStoresFollow
           /\ [Next]_vars
           => AllStoresFollow'
<1> SUFFICES ASSUME TypeOK, SyncsLocalTables, MigrationsAreUnderWay, AllStoresFollow,
                    [Next]_vars
             PROVE  AllStoresFollow'
  OBVIOUS
<1> DEFINE Quiet ==
       /\ UNCHANGED tab
       /\ \A q \in Replicas :
              /\ Follows(q)' => Follows(q)
              /\ pc'[q] = "move" => pc[q] = "move" /\ moving'[q] = moving[q]
<1>0. Quiet => AllStoresFollow'
  BY StoresStay
<1>t. /\ pc \in [Replicas -> Labels] /\ exc \in [Replicas -> BOOLEAN]
      /\ engine \in [Replicas -> {"Atomic", "Replicated"}]
      /\ cmd \in [Replicas -> CommandNames \cup {"none"}]
      /\ moving \in [Replicas -> [table : Tables, old : Uuids] \cup {NoTable}]
  BY DEF TypeOK, LockType, HostType, ProcType
<1>u. \A q \in Replicas : MigrationIsUnderWay(q)
  BY DEF MigrationsAreUnderWay
<1> USE DEF MigrationIsUnderWay, Follows, Entered, Rewritten, Entering
<1>1. ASSUME NEW r \in Replicas, NEW c \in Commands, NEW force \in Forces,
             Start(r, c, force)
      PROVE  Quiet
  BY <1>1, <1>t DEF Start, Goto, hostVars
<1>2. ASSUME NEW r \in Replicas, TakeLock(r) PROVE Quiet
  BY <1>2, <1>t DEF TakeLock, Enter, ForceRemove, Acquire, NodeExistsReported, Classify,
     Wait, Released, PollTimeout, Raise, Goto, procVars, hostVars, WaitsForLock
<1>3. ASSUME NEW r \in Replicas, Finish(r) \/ Crash(r) PROVE Quiet
  BY <1>3, <1>t DEF Finish, Exit, Releases, Crash, Goto, procVars, hostVars
<1>4. ASSUME NEW r \in Replicas, Body(r) PROVE Quiet
  BY <1>4, <1>t, <1>u DEF Body, Raise, Goto, hostVars, UsesRestore
<1>5. ASSUME NEW r \in Replicas, Detach(r) \/ Rewrite(r) \/ SyncDone(r) \/ Clean(r)
      PROVE  Quiet
  BY <1>5, <1>t, <1>u DEF Detach, Rewrite, SyncDone, Clean, Raise, Goto, procVars,
     hostVars, SetAttached
<1>6. ASSUME NEW r \in Replicas, Attach(r) \/ Restart(r) \/ Reattach(r) PROVE Quiet
  BY <1>6, <1>t, <1>u DEF Attach, Restart, Reattach, Raise, Goto, procVars, SetAttached
<1>7. ASSUME NEW r \in Replicas,
             Restore(r) \/ CreateStructure(r) \/ GenerateCounter(r) \/ CreateReplicaNodes(r)
      PROVE  Quiet
  BY <1>7, <1>t, <1>u DEF Restore, CreateStructure, GenerateCounter, CreateReplicaNodes,
     Raise, Goto, procVars, hostVars, Answered
<1>8. ASSUME NEW r \in Replicas, OperatorAttach(r) \/ WorkerDigest(r) PROVE Quiet
  BY <1>8 DEF OperatorAttach, WorkerDigest, lockVars, procVars, hostVars
<1>9. ASSUME UNCHANGED vars PROVE Quiet
  BY <1>9 DEF vars, lockVars, procVars, hostVars, historyVars
<1>10. ASSUME NEW r \in Replicas, NEW t \in Tables, NEW s \in Schemas, Ddl(r, t, s)
       PROVE  AllStoresFollow'
  <2> SUFFICES ASSUME NEW q \in Replicas PROVE StoresFollow(q)'
    BY DEF AllStoresFollow
  <2>1. UNCHANGED <<pc, exc, cmd, engine, moving>>
    BY <1>10 DEF Ddl, lockVars, procVars
  <2>2. ASSUME NEW u \in Tables, HasItsStore(q, u) PROVE HasItsStore(q, u)'
    BY <1>10, <2>2, DdlKeepsStores DEF HasItsStore
  <2>3. StoresFollow(q)
    BY DEF AllStoresFollow
  <2>4. ASSUME pc[q] = "move"
        PROVE  tab'[q][moving[q].table].store = tab[q][moving[q].table].store
    <3>1. moving[q].table \in Tables /\ tab[q][moving[q].table] # NoRow
      BY <2>4, RowAssumption DEF SyncsLocalTables
    <3>2. QED
      BY <1>10, <3>1, DdlKeepsStores
  <2>5. QED
    BY <2>1, <2>2, <2>3, <2>4 DEF StoresFollow
<1>11. ASSUME NEW r \in Replicas, NEW t \in Tables, SyncTable(r, t) PROVE AllStoresFollow'
  <2> SUFFICES ASSUME NEW q \in Replicas PROVE StoresFollow(q)'
    BY DEF AllStoresFollow
  <2>0. UNCHANGED <<cmd, engine>> /\ pc[r] = "sync"
    BY <1>11 DEF SyncTable
  <2>1. CASE q # r
    <3>1. UNCHANGED <<pc[q], exc[q], moving[q], tab[q]>>
      BY <1>11, <1>t, <2>1 DEF SyncTable, Raise, Goto, TypeOK, HostType
    <3>2. QED
      BY <2>0, <3>1 DEF StoresFollow, AllStoresFollow, HasItsStore
  <2>2. CASE q = r
    <3>1. \A u \in Tables \ Views : HasItsStore(r, u)
      BY <1>t, <1>u, <2>0 DEF AllStoresFollow, StoresFollow
    <3>2. cmd[r] = "to_replicated" /\ engine[r] = "Replicated" /\ tab[r][t] # NoRow
      BY <1>11, <1>u, <2>0, RowAssumption DEF SyncTable, SyncsLocalTables
    <3>3. CASE UNCHANGED <<tab, pc, exc>>
      BY <2>0, <2>2, <3>1, <3>3 DEF StoresFollow, HasItsStore
    <3>4. CASE Raise(r, "attach") /\ UNCHANGED tab
      BY <1>t, <2>0, <2>2, <3>2, <3>4 DEF StoresFollow, Raise, Goto
    <3>5. CASE /\ tab' = [tab EXCEPT ![r][t].uuid = zkTab[t].uuid]
               /\ IF t \in Views
                  THEN UNCHANGED <<pc, moving>>
                  ELSE /\ moving' = [moving EXCEPT ![r] = [table |-> t, old |-> tab[r][t].uuid]]
                       /\ Goto(r, "move")
      <4>1. \A u \in Tables \ {t} : tab'[r][u] = tab[r][u]
        BY <3>5 DEF TypeOK, HostType
      <4>2. tab[r][t] \in Row
        BY <3>2 DEF TypeOK, HostType
      <4>3. tab'[r][t] = [tab[r][t] EXCEPT !.uuid = zkTab[t].uuid]
        BY <3>5 DEF TypeOK, HostType
      <4>4. tab'[r][t].store = tab[r][t].store
        BY <4>2, <4>3 DEF Row
      <4>5. CASE t \in Views
        BY <2>0, <2>2, <3>1, <3>5, <4>1, <4>5 DEF StoresFollow, HasItsStore
      <4>6. CASE t \notin Views
        <5>1. pc'[r] = "move" /\ moving'[r].table = t /\ moving'[r].old = tab[r][t].uuid
          BY <1>t, <3>5, <4>6 DEF Goto
        <5>2. tab[r][t].store = tab[r][t].uuid
          BY <3>1, <3>2, <4>6 DEF HasItsStore
        <5>3. QED
          BY <2>0, <2>2, <3>1, <3>2, <4>1, <4>4, <5>1, <5>2 DEF StoresFollow, HasItsStore
      <4>7. QED
        BY <4>5, <4>6
    <3>6. QED
      BY <1>11, <3>3, <3>4, <3>5 DEF SyncTable
  <2>3. QED
    BY <2>1, <2>2
<1>12. ASSUME NEW r \in Replicas, MoveStore(r) PROVE AllStoresFollow'
  <2> SUFFICES ASSUME NEW q \in Replicas PROVE StoresFollow(q)'
    BY DEF AllStoresFollow
  <2> DEFINE t == moving[r].table
  <2>0. UNCHANGED <<cmd, engine>> /\ pc[r] = "move" /\ StoresFollow(r) /\ StoresFollow(q)
    BY <1>12 DEF MoveStore, AllStoresFollow
  <2>1. CASE q # r
    <3>1. UNCHANGED <<pc[q], exc[q], moving[q], tab[q]>>
      BY <1>12, <1>t, <2>1 DEF MoveStore, Raise, Goto, TypeOK, HostType
    <3>2. QED
      BY <2>0, <3>1 DEF StoresFollow, HasItsStore
  <2>2. CASE q = r
    <3>1. t \in Tables /\ tab[r][t] \in Row /\ engine[r] = "Replicated"
      BY <1>u, <2>0 DEF SyncsLocalTables
    <3>2. \A u \in Tables \ (Views \cup {t}) : HasItsStore(r, u)
      BY <2>0 DEF StoresFollow
    <3>3. CASE Raise(r, "attach") /\ UNCHANGED tab
      BY <1>t, <2>0, <2>2, <3>1, <3>3 DEF StoresFollow, Raise, Goto
    <3>4. CASE tab' = [tab EXCEPT ![r][t].store = tab[r][t].uuid] /\ Goto(r, "sync")
      <4>1. \A u \in Tables \ {t} : tab'[r][u] = tab[r][u]
        BY <3>4 DEF TypeOK, HostType
      <4>2. tab'[r][t] = [tab[r][t] EXCEPT !.store = tab[r][t].uuid]
        BY <3>1, <3>4 DEF TypeOK, HostType
      <4>3. tab'[r][t].store = tab'[r][t].uuid
        BY <3>1, <4>2 DEF Row
      <4>4. pc'[r] = "sync"
        BY <1>t, <3>4 DEF Goto
      <4>5. QED
        BY <2>2, <3>2, <4>1, <4>3, <4>4 DEF StoresFollow, HasItsStore
    <3>5. QED
      BY <1>12, <3>3, <3>4 DEF MoveStore
  <2>3. QED
    BY <2>1, <2>2
<1> HIDE DEF Quiet
<1>13. QED
  BY <1>0, <1>1, <1>2, <1>3, <1>4, <1>5, <1>6, <1>7, <1>8, <1>9, <1>10, <1>11, <1>12
     DEF Next, Step, Environment

\* If no command makes the database Atomic again, one that ends a migration to
\* Replicated without an error leaves the database attached and registered, and
\* the directory of every table named after its uuid.
THEOREM EndedMigrationsAreComplete ==
    ASSUME Commands \subseteq {"to_replicated", "restore_replica"}
    PROVE  Spec => MigratedCompletely
<1> DEFINE Inv == AttachedWhereUsed /\ MigrationsAreUnderWay /\ AllStoresFollow
<1>1. Init => SyncsLocalTables /\ AttachedWhereUsed /\ MigrationsAreUnderWay
  <2>1. Init => SyncsLocalTables /\ \A r \in Replicas : pc[r] = "idle"
    BY DEF Init, SyncsLocalTables
  <2>2. (\A r \in Replicas : pc[r] = "idle") => AttachedWhereUsed /\ MigrationsAreUnderWay
    BY DEF AttachedWhereUsed, MigrationsAreUnderWay, MigrationIsUnderWay, Entered, Rewritten,
       Entering
  <2>3. QED
    BY <2>1, <2>2
<1>2. Init => AllStoresFollow
  <2> SUFFICES ASSUME Init, NEW r \in Replicas PROVE StoresFollow(r)
    BY DEF AllStoresFollow
  <2>1. tab[r] \in TabsOf(r) /\ pc[r] = "idle"
    BY DEF Init
  <2>2. QED
    BY <2>1 DEF TabsOf, StoresFollow, HasItsStore
<1>3. Inv => \A r \in Replicas :
                 pc[r] = "unlock" /\ cmd[r] = "to_replicated" /\ ~exc[r]
                 => /\ Registered(r) /\ attached[r]
                    /\ \A t \in LocalTables(r) \ Views : tab[r][t].store = tab[r][t].uuid
  BY DEF MigrationsAreUnderWay, MigrationIsUnderWay, AllStoresFollow, StoresFollow, Follows,
     HasItsStore, LocalTables
<1>4. TypeOK /\ SyncsLocalTables /\ Inv /\ [Next]_vars => Inv'
  BY NextAttached, NextUnderWay, NextStores
<1>5. Inv => [\A r \in Replicas :
                 /\ pc[r] = "unlock" /\ pc'[r] = "idle" /\ first'[r] = FALSE
                 /\ cmd[r] = "to_replicated" /\ ~exc[r]
                 => /\ Registered(r) /\ attached[r]
                    /\ \A t \in LocalTables(r) \ Views :
                          tab[r][t].store = tab[r][t].uuid]_vars
  BY <1>3
<1> HIDE DEF Inv
<1>6. Init => Inv
  BY <1>1, <1>2 DEF Inv
<1>7. QED
  BY <1>1, <1>4, <1>5, <1>6, InitType, NextType, NextSyncs, PTL DEF Spec, MigratedCompletely

-----------------------------------------------------------------------------
(* Registered hosts agree with ZooKeeper *)

\* The first replica is inside the lock, and there is no database node until it
\* ends its body.
FirstsAreInside ==
    \A r \in Replicas : first[r] =>
        /\ pc[r] \notin Entering \cup {"idle"}
        /\ pc[r] = "unlock" \/ ~zkRoot

\* A migration that has compared the tables, and has not ended.
ToReplicated(r) == pc[r] # "idle" /\ cmd[r] = "to_replicated"
Comparing(r) == ToReplicated(r) /\ Compared(r)

\* A host is registered only when it is Replicated, at the end of its migration,
\* and what is restored is Replicated already.
RegistersLast ==
    \A r \in Replicas :
        /\ engine[r] = "Atomic" \/ Comparing(r) => digest[r] = "absent"
        /\ pc[r] # "idle" /\ cmd[r] = "restore_replica" => engine[r] = "Replicated"

\* The tables of a host and of ZooKeeper: the same schemas; the same uuids as far
\* as they were synchronised; all the same.
SameSchemas(r) ==
    \A t \in LocalTables(r) : zkTab[t] # NoRow /\ zkTab[t].schema = tab[r][t].schema
SameUuids(r) == \A t \in LocalTables(r) \ todo[r] : zkTab[t].uuid = tab[r][t].uuid
Agrees(r) == \A t \in LocalTables(r) : zkTab[t] = AsZkRow(tab[r][t])

\* A Replicated database that lost its nodes in ZooKeeper: all hosts have the same
\* tables, and no one migrates.
Lost(r) == engine[r] = "Replicated" /\ digest[r] = "absent" /\ ~suspect[r] /\ ~ToReplicated(r)
SameEverywhere(r) ==
    \A q \in Replicas : tab[q] = tab[r] /\ engine[q] = "Replicated" /\ ~ToReplicated(q)

\* A host agrees with ZooKeeper as far as its migration has come, unless DDL or a
\* failure came in between.
AgreesSoFar(r) ==
    /\ Comparing(r) /\ ~suspect[r] /\ zkRoot =>
         /\ pc[r] \in {"detach", "rewrite"} => SameSchemas(r) /\ LocalTables(r) \subseteq todo[r]
         /\ pc[r] \in {"sync", "move"} => SameSchemas(r) /\ SameUuids(r)
         /\ pc[r] \in {"restart", "restore"} \/ (pc[r] = "attach" /\ ~exc[r]) => Agrees(r)
    /\ Lost(r) => IF zkRoot THEN Agrees(r) ELSE SameEverywhere(r)
    /\ Registered(r) /\ ~suspect[r] => Agrees(r)
AllAgreeSoFar == \A r \in Replicas : AgreesSoFar(r)


\* Every step preserves what is said about the first replica: only the query of
\* the first replica creates the database node, and it is the end of its body.
LEMMA NextFirsts ==
    /\ TypeOK /\ OneFirst /\ JoinersSeeRoot /\ RootHasMember
    /\ MigrationsAreUnderWay /\ FirstsAreInside /\ [Next]_vars
    => FirstsAreInside'
<1> SUFFICES ASSUME TypeOK, OneFirst, JoinersSeeRoot, RootHasMember, MigrationsAreUnderWay,
                    FirstsAreInside, [Next]_vars
             PROVE  FirstsAreInside'
  OBVIOUS
<1> USE DEF FirstsAreInside, TypeOK, LockType, Entering
<1>1. ASSUME NEW r \in Replicas, NEW c \in Commands, NEW force \in Forces,
             Start(r, c, force)
      PROVE  FirstsAreInside'
  BY <1>1 DEF Start, Goto
<1>2. ASSUME NEW r \in Replicas, TakeLock(r) PROVE FirstsAreInside'
  BY <1>2 DEF TakeLock, Enter, ForceRemove, Acquire, NodeExistsReported, Classify, Wait,
     Released, PollTimeout, Raise, Goto, WaitsForLock
<1>3. ASSUME NEW r \in Replicas, Finish(r) \/ Crash(r) PROVE FirstsAreInside'
  BY <1>3 DEF Finish, Exit, Releases, Crash, Goto
<1>4. ASSUME NEW r \in Replicas,
             \/ Body(r) \/ Detach(r) \/ Rewrite(r) \/ MoveStore(r) \/ SyncDone(r)
             \/ \E t \in Tables : SyncTable(r, t)
      PROVE  FirstsAreInside'
  BY <1>4 DEF Body, Detach, Rewrite, MoveStore, SyncDone, SyncTable, Raise, Goto,
     SetAttached, UsesRestore
<1>5. ASSUME NEW r \in Replicas, Attach(r) \/ Restart(r) \/ Reattach(r)
      PROVE  FirstsAreInside'
  BY <1>5 DEF Attach, Restart, Reattach, Raise, Goto, SetAttached
<1>6. ASSUME NEW r \in Replicas, Restore(r) PROVE FirstsAreInside'
  <2>1. /\ UNCHANGED first /\ pc' = [pc EXCEPT ![r] = "unlock"]
        /\ zkRoot' => zkRoot \/ first[r]
    <3>1. pc[r] = "restore" /\ cmd[r] \in {"to_replicated", "restore_replica"}
      BY <1>6 DEF Restore, MigrationsAreUnderWay, MigrationIsUnderWay, Answered
    <3>2. QED
      BY <1>6, <3>1 DEF Restore, Raise, Goto, JoinersSeeRoot, Answered
  <2>2. QED
    BY <2>1 DEF OneFirst
<1>7. ASSUME NEW r \in Replicas
      PROVE  /\ ~CreateStructure(r) /\ ~GenerateCounter(r) /\ ~CreateReplicaNodes(r)
             /\ ~Clean(r)
  BY DEF CreateStructure, GenerateCounter, CreateReplicaNodes, Clean, RootHasMember,
     MigrationsAreUnderWay, MigrationIsUnderWay, Answered
<1>8. ASSUME NEW r \in Replicas,
             \/ OperatorAttach(r) \/ WorkerDigest(r)
             \/ \E t \in Tables, s \in Schemas : Ddl(r, t, s)
      PROVE  FirstsAreInside'
  BY <1>8 DEF OperatorAttach, WorkerDigest, Ddl, lockVars
<1>9. CASE UNCHANGED vars
  BY <1>9 DEF vars, lockVars, historyVars
<1>10. QED
  BY <1>1, <1>2, <1>3, <1>4, <1>5, <1>6, <1>7, <1>8, <1>9 DEF Next, Step, Environment

\* Every step preserves that a host is registered last.
LEMMA NextRegistersLast ==
    TypeOK /\ RootHasMember /\ MigrationsAreUnderWay /\ RegistersLast /\ [Next]_vars
    => RegistersLast'
<1> SUFFICES ASSUME TypeOK, RootHasMember, MigrationsAreUnderWay, RegistersLast, [Next]_vars
             PROVE  RegistersLast'
  OBVIOUS
<1> USE DEF RegistersLast, Comparing, ToReplicated, Compared, Entering
<1>0. /\ pc \in [Replicas -> Labels]
      /\ engine \in [Replicas -> {"Atomic", "Replicated"}]
      /\ cmd \in [Replicas -> CommandNames \cup {"none"}]
      /\ digest \in [Replicas -> {"absent", "zero", "set"}]
  BY DEF TypeOK, LockType, HostType, ProcType, ZkType
<1>1. ASSUME NEW r \in Replicas, NEW c \in Commands, NEW force \in Forces,
             Start(r, c, force)
      PROVE  RegistersLast'
  BY <1>0, <1>1 DEF Start, PreChecks, Goto, zkVars, hostVars
<1>2. ASSUME NEW r \in Replicas, TakeLock(r) PROVE RegistersLast'
  BY <1>0, <1>2 DEF TakeLock, Enter, ForceRemove, Acquire, NodeExistsReported, Classify,
     Wait, Released, PollTimeout, Raise, Goto, zkVars, procVars, hostVars, WaitsForLock
<1>3. ASSUME NEW r \in Replicas, Finish(r) \/ Crash(r) PROVE RegistersLast'
  BY <1>0, <1>3 DEF Finish, Exit, Releases, Crash, Goto, zkVars, procVars, hostVars
<1>u. \A q \in Replicas : MigrationIsUnderWay(q)
  BY DEF MigrationsAreUnderWay
<1>4. ASSUME NEW r \in Replicas, Body(r) PROVE RegistersLast'
  BY <1>0, <1>u, <1>4 DEF Body, Raise, Goto, zkVars, hostVars, MigrationIsUnderWay,
     Entered, UsesRestore
<1>5. ASSUME NEW r \in Replicas,
             \/ Detach(r) \/ Rewrite(r) \/ MoveStore(r) \/ SyncDone(r)
             \/ \E t \in Tables : SyncTable(r, t)
      PROVE  RegistersLast'
  BY <1>0, <1>u, <1>5 DEF Detach, Rewrite, MoveStore, SyncDone, SyncTable, Raise, Goto,
     zkVars, procVars, hostVars, MigrationIsUnderWay, SetAttached
<1>6. ASSUME NEW r \in Replicas, Attach(r) \/ Restart(r) \/ Reattach(r)
      PROVE  RegistersLast'
  BY <1>0, <1>u, <1>6 DEF Attach, Restart, Reattach, Raise, Goto, zkVars, procVars,
     MigrationIsUnderWay, SetAttached
<1>7. ASSUME NEW r \in Replicas, Restore(r) PROVE RegistersLast'
  <2>1. engine[r] = "Replicated"
    BY <1>0, <1>u, <1>7 DEF Restore, MigrationIsUnderWay, Rewritten, Answered
  <2>2. QED
    BY <1>0, <1>7, <2>1 DEF Restore, Raise, Goto, zkVars, procVars, hostVars, Answered
<1>8. ASSUME NEW r \in Replicas
      PROVE  /\ ~CreateStructure(r) /\ ~GenerateCounter(r) /\ ~CreateReplicaNodes(r)
             /\ ~Clean(r)
  BY <1>u DEF CreateStructure, GenerateCounter, CreateReplicaNodes, Clean, RootHasMember,
     MigrationIsUnderWay, Answered
<1>9. ASSUME NEW r \in Replicas,
             \/ OperatorAttach(r) \/ WorkerDigest(r)
             \/ \E t \in Tables, s \in Schemas : Ddl(r, t, s)
      PROVE  RegistersLast'
  BY <1>0, <1>9 DEF OperatorAttach, WorkerDigest, Ddl, lockVars, procVars, zkVars, hostVars
<1>10. CASE UNCHANGED vars
  BY <1>10 DEF vars, lockVars, procVars, zkVars, hostVars, historyVars
<1>11. QED
  BY <1>1, <1>2, <1>3, <1>4, <1>5, <1>6, <1>7, <1>8, <1>9, <1>10 DEF Next, Step, Environment

\* What a step of the command on r leaves alone: ZooKeeper, and the other hosts.
\* It does not make a host migrate that did not, unless that host was Atomic.
OnlyAt(r) ==
    /\ UNCHANGED <<zkRoot, zkTab>>
    /\ \A q \in Replicas \ {r} :
          UNCHANGED <<pc[q], cmd[q], exc[q], suspect[q], todo[q], tab[q], engine[q], digest[q]>>
    /\ \/ engine[r] = "Atomic" \/ ToReplicated(r)
       \/ UNCHANGED <<tab[r], engine[r]>> /\ ~ToReplicated(r)'

\* The other hosts then agree as they did.
LEMMA OthersAgree ==
    ASSUME AllAgreeSoFar, NEW r \in Replicas, OnlyAt(r), NEW q \in Replicas, q # r
    PROVE  AgreesSoFar(q)'
<1>1. AgreesSoFar(q)
  BY DEF AllAgreeSoFar
<1>2. UNCHANGED <<zkRoot, zkTab, pc[q], cmd[q], exc[q], suspect[q], todo[q], tab[q],
                  engine[q], digest[q]>>
  BY DEF OnlyAt
<1>3. SameEverywhere(q) => SameEverywhere(q)'
  <2> SUFFICES ASSUME SameEverywhere(q), NEW p \in Replicas
               PROVE  tab'[p] = tab'[q] /\ engine'[p] = "Replicated" /\ ~ToReplicated(p)'
    BY DEF SameEverywhere
  <2>1. tab[p] = tab[q] /\ engine[p] = "Replicated" /\ ~ToReplicated(p)
    BY DEF SameEverywhere
  <2>2. CASE p = r
    BY <1>2, <2>1, <2>2 DEF OnlyAt
  <2>3. CASE p # r
    BY <1>2, <2>1, <2>3 DEF OnlyAt, ToReplicated
  <2>4. QED
    BY <2>2, <2>3
<1>4. /\ LocalTables(q)' = LocalTables(q)
      /\ Comparing(q)' = Comparing(q) /\ Lost(q)' = Lost(q) /\ Registered(q)' = Registered(q)
  BY <1>2 DEF LocalTables, Comparing, ToReplicated, Compared, Lost, Registered
<1>5. /\ SameSchemas(q)' = SameSchemas(q) /\ SameUuids(q)' = SameUuids(q)
      /\ Agrees(q)' = Agrees(q)
  BY <1>2, <1>4 DEF SameSchemas, SameUuids, Agrees, AsZkRow
<1>6. QED
  BY <1>1, <1>2, <1>3, <1>4, <1>5 DEF AgreesSoFar

\* Tables with the same schemas and the same uuids are the same in ZooKeeper.
LEMMA SameAgree ==
    ASSUME TypeOK, NEW r \in Replicas, SameSchemas(r),
           \A t \in LocalTables(r) : zkTab[t].uuid = tab[r][t].uuid
    PROVE  Agrees(r)
<1> SUFFICES ASSUME NEW t \in LocalTables(r) PROVE zkTab[t] = AsZkRow(tab[r][t])
  BY DEF Agrees
<1>1. zkTab[t] \in ZkRow /\ zkTab[t].schema = tab[r][t].schema
  BY DEF SameSchemas, LocalTables, TypeOK, ZkType
<1>2. zkTab[t].uuid = tab[r][t].uuid
  OBVIOUS
<1>3. AsZkRow(tab[r][t]) = [uuid |-> tab[r][t].uuid, schema |-> tab[r][t].schema]
  BY DEF AsZkRow, LocalTables
<1>4. zkTab[t] = [uuid |-> zkTab[t].uuid, schema |-> zkTab[t].schema]
  BY <1>1 DEF ZkRow
<1>5. QED
  BY <1>1, <1>2, <1>3, <1>4

\* What DDL gives a registered host agrees with what it writes to ZooKeeper.
LEMMA DdlAgrees ==
    ASSUME TypeOK, NEW r \in Replicas, NEW t \in Tables, NEW s \in Schemas, Ddl(r, t, s),
           NEW q \in Replicas, Registered(q), Agrees(q)
    PROVE  Agrees(q)'
<1>1. /\ tab[q] \in [Tables -> Row \cup {NoRow}] /\ zkTab \in [Tables -> ZkRow \cup {NoRow}]
      /\ r \in Uuids
  BY DEF TypeOK, HostType, ZkType, Uuids
<1>2. CASE tab'[q] = tab[q] /\ UNCHANGED zkTab
  BY <1>2 DEF Agrees, LocalTables, AsZkRow
<1>3. CASE /\ zkTab' = [zkTab EXCEPT ![t] = [uuid |-> ZkUuid(t), schema |-> s]]
           /\ Defined(q, t, ZkUuid(t), s)
  <2> SUFFICES ASSUME NEW u \in LocalTables(q)' PROVE zkTab'[u] = AsZkRow(tab'[q][u])
    BY DEF Agrees, AsZkRow
  <2>1. u \in Tables /\ tab'[q][u] # NoRow
    BY DEF LocalTables
  <2>2. CASE u # t
    <3>1. tab'[q][u] = tab[q][u] /\ zkTab'[u] = zkTab[u]
      BY <1>1, <1>3, <2>1, <2>2 DEF Defined
    <3>2. QED
      BY <2>1, <3>1 DEF Agrees, LocalTables
  <2>3. CASE u = t
    <3>1. zkTab'[t] = [uuid |-> ZkUuid(t), schema |-> s]
      BY <1>1, <1>3
    <3>2. CASE tab[q][t] = NoRow
      <4>1. tab'[q][t] = NewRow(ZkUuid(t), s)
        BY <1>1, <1>3, <3>2 DEF Defined
      <4>2. QED
        BY <2>1, <2>3, <3>1, <4>1 DEF AsZkRow, NewRow
    <3>3. CASE tab[q][t] # NoRow
      <4>1. tab[q][t] \in Row /\ tab'[q][t] = [tab[q][t] EXCEPT !.schema = s]
        BY <1>1, <1>3, <3>3 DEF Defined
      <4>2. tab'[q][t].uuid = tab[q][t].uuid /\ tab'[q][t].schema = s
        BY <4>1 DEF Row
      <4>3. zkTab[t] = [uuid |-> tab[q][t].uuid, schema |-> tab[q][t].schema]
        BY <3>3 DEF Agrees, LocalTables, AsZkRow
      <4>4. zkTab[t] \in ZkRow
        BY <4>1, <4>3 DEF Row, ZkRow
      <4>5. ZkUuid(t) = tab[q][t].uuid
        BY <4>3, <4>4, RowAssumption DEF ZkUuid
      <4>6. QED
        BY <2>1, <2>3, <3>1, <4>2, <4>5 DEF AsZkRow
    <3>4. QED
      BY <3>2, <3>3
  <2>4. QED
    BY <2>2, <2>3
<1>4. CASE engine[r] = "Atomic" /\ q # r
  BY <1>2, <1>4, DdlDefines DEF Registered
<1>5. QED
  BY <1>2, <1>3, <1>4, DdlDefines DEF Registered

\* A step that leaves the tables of r alone, and in which r neither goes on in its
\* comparison nor comes out of it, leaves r agreeing.
LEMMA AgreementStays ==
    ASSUME AllAgreeSoFar, NEW r \in Replicas, OnlyAt(r),
           UNCHANGED <<tab[r], engine[r], digest[r]>>,
           suspect'[r] = FALSE => suspect[r] = FALSE,
           ~Comparing(r)',
           Lost(r)' => Lost(r) /\ ~ToReplicated(r)
    PROVE  AllAgreeSoFar'
<1> SUFFICES AgreesSoFar(r)'
  BY OthersAgree DEF AllAgreeSoFar
<1>1. AgreesSoFar(r)
  BY DEF AllAgreeSoFar
<1>2. UNCHANGED <<zkRoot, zkTab>> /\ LocalTables(r)' = LocalTables(r) /\ Agrees(r)' = Agrees(r)
  BY DEF OnlyAt, LocalTables, Agrees, AsZkRow
<1>3. SameEverywhere(r) /\ Lost(r)' => SameEverywhere(r)'
  <2> SUFFICES ASSUME SameEverywhere(r), Lost(r)', NEW p \in Replicas
               PROVE  tab'[p] = tab'[r] /\ engine'[p] = "Replicated" /\ ~ToReplicated(p)'
    BY DEF SameEverywhere
  <2>1. tab[p] = tab[r] /\ engine[p] = "Replicated" /\ ~ToReplicated(p)
    BY DEF SameEverywhere
  <2>2. CASE p = r
    BY <2>1, <2>2 DEF Lost
  <2>3. CASE p # r
    BY <2>1, <2>3 DEF OnlyAt, ToReplicated
  <2>4. QED
    BY <2>2, <2>3
<1>4. Registered(r)' = Registered(r)
  BY DEF Registered
<1>5. QED
  BY <1>1, <1>2, <1>3, <1>4 DEF AgreesSoFar

\* A step within the comparison of an unregistered host.
LEMMA ComparisonGoesOn ==
    ASSUME AllAgreeSoFar, NEW r \in Replicas, OnlyAt(r), ToReplicated(r)', ~Registered(r)',
           (Comparing(r) /\ ~suspect[r] /\ zkRoot)' =>
              /\ pc'[r] \in {"detach", "rewrite"} =>
                    SameSchemas(r)' /\ LocalTables(r)' \subseteq todo'[r]
              /\ pc'[r] \in {"sync", "move"} => SameSchemas(r)' /\ SameUuids(r)'
              /\ pc'[r] \in {"restart", "restore"} \/ (pc'[r] = "attach" /\ ~exc'[r]) => Agrees(r)'
    PROVE  AllAgreeSoFar'
BY OthersAgree DEF AllAgreeSoFar, AgreesSoFar, Lost

\* Every step preserves it.
LEMMA NextAgree ==
    ASSUME Commands \subseteq {"to_replicated", "restore_replica"}
    PROVE  /\ TypeOK /\ SyncsLocalTables /\ OneFirst /\ JoinersSeeRoot /\ RootHasMember
           /\ MigrationsAreUnderWay /\ FirstsAreInside /\ RegistersLast
           /\ AllAgreeSoFar /\ [Next]_vars
           => AllAgreeSoFar'
<1> SUFFICES ASSUME TypeOK, SyncsLocalTables, OneFirst, JoinersSeeRoot, RootHasMember,
                    MigrationsAreUnderWay, FirstsAreInside, RegistersLast,
                    AllAgreeSoFar, [Next]_vars
             PROVE  AllAgreeSoFar'
  OBVIOUS
<1>a. /\ pc \in [Replicas -> Labels] /\ exc \in [Replicas -> BOOLEAN]
      /\ engine \in [Replicas -> {"Atomic", "Replicated"}]
      /\ cmd \in [Replicas -> CommandNames \cup {"none"}]
      /\ digest \in [Replicas -> {"absent", "zero", "set"}]
      /\ suspect \in [Replicas -> BOOLEAN]
      /\ todo \in [Replicas -> SUBSET Tables]
      /\ tab \in [Replicas -> [Tables -> Row \cup {NoRow}]]
  BY DEF TypeOK, LockType, HostType, ProcType, ZkType, HistoryType, historyVars
<1>b. \A q \in Replicas : MigrationIsUnderWay(q) /\ AgreesSoFar(q)
  BY DEF MigrationsAreUnderWay, AllAgreeSoFar
<1> DEFINE Quiet(r) == /\ OnlyAt(r)
                       /\ UNCHANGED <<tab[r], engine[r], digest[r]>>
                       /\ suspect'[r] = FALSE => suspect[r] = FALSE
                       /\ ~Comparing(r)'
                       /\ Lost(r)' => Lost(r) /\ ~ToReplicated(r)
<1>c. \A r \in Replicas : Quiet(r) => AllAgreeSoFar'
  BY AgreementStays
<1>1. ASSUME NEW r \in Replicas, NEW c \in Commands, NEW force \in Forces,
             Start(r, c, force)
      PROVE  Quiet(r)
  BY <1>a, <1>1 DEF Start, PreChecks, Goto, zkVars, hostVars, OnlyAt, Comparing, Compared,
     ToReplicated, Lost
<1>2. ASSUME NEW r \in Replicas, TakeLock(r) PROVE Quiet(r)
  <2>1. /\ pc[r] \in Entering
        /\ \E l \in Entering \cup {"body", "unlock"} : pc' = [pc EXCEPT ![r] = l]
        /\ \/ UNCHANGED exc
           \/ exc' = [exc EXCEPT ![r] = TRUE]
        /\ UNCHANGED <<zkRoot, zkVars, hostVars, procVars, suspect>>
    BY <1>2 DEF TakeLock, Enter, ForceRemove, Acquire, NodeExistsReported, Classify, Wait,
       Released, PollTimeout, Raise, Goto, Entering, WaitsForLock, historyVars
  <2>2. QED
    BY <1>a, <2>1 DEF zkVars, hostVars, procVars, OnlyAt, Comparing, Compared, ToReplicated,
       Lost, Entering
<1>3. ASSUME NEW r \in Replicas, Finish(r) \/ Crash(r) PROVE Quiet(r)
  <2>1. /\ pc' = [pc EXCEPT ![r] = "idle"] /\ UNCHANGED <<exc, zkRoot, zkVars, hostVars, procVars>>
        /\ \/ suspect' = [suspect EXCEPT ![r] =
                   @ \/ (exc[r] /\ cmd[r] = "to_replicated" /\ engine[r] = "Replicated")]
              /\ pc[r] = "unlock"
           \/ suspect' = [suspect EXCEPT ![r] =
                   @ \/ (cmd[r] = "to_replicated" /\ engine[r] = "Replicated")]
    BY <1>3 DEF Finish, Crash, Exit, Goto
  <2>2. OnlyAt(r) /\ ~Comparing(r)' /\ UNCHANGED <<tab[r], engine[r], digest[r]>>
    BY <1>a, <2>1 DEF zkVars, hostVars, procVars, OnlyAt, Comparing, Compared, ToReplicated
  <2>3. suspect'[r] = FALSE => suspect[r] = FALSE
    BY <1>a, <2>1
  <2>4. Lost(r)' => cmd[r] # "to_replicated" /\ Lost(r)
    BY <1>a, <1>b, <2>1, <2>2, <2>3 DEF Lost, ToReplicated, MigrationIsUnderWay, Registered,
       zkVars, hostVars
  <2>5. QED
    BY <2>2, <2>3, <2>4 DEF ToReplicated
<1>4. ASSUME NEW r \in Replicas, Body(r),
             cmd[r] # "to_replicated" \/ pc'[r] = "unlock"
      PROVE  Quiet(r)
  <2>1. /\ pc[r] = "body"
        /\ \E l \in {"restore", "structure", "counter", "unlock"} : pc' = [pc EXCEPT ![r] = l]
        /\ exc' \in {exc, [exc EXCEPT ![r] = TRUE]}
        /\ UNCHANGED <<zkRoot, zkVars, hostVars, cmd, todo, suspect>>
    BY <1>a, <1>4 DEF Body, Raise, Goto, UsesRestore
  <2>2. QED
    BY <1>a, <1>4, <2>1 DEF zkVars, hostVars, OnlyAt, Comparing, Compared, ToReplicated, Lost
<1>5. ASSUME NEW r \in Replicas, Reattach(r) PROVE Quiet(r)
  BY <1>a, <1>b, <1>5 DEF Reattach, Raise, Goto, MigrationIsUnderWay, OnlyAt, Comparing,
     Compared, ToReplicated, Lost, zkVars, procVars, historyVars, SetAttached
<1>6. ASSUME NEW r \in Replicas, OperatorAttach(r) PROVE Quiet(r)
  BY <1>a, <1>6 DEF OperatorAttach, OnlyAt, Comparing, Compared, ToReplicated, Lost,
     lockVars, zkVars, procVars, historyVars
<1>7. ASSUME NEW r \in Replicas, Body(r), cmd[r] = "to_replicated", pc'[r] # "unlock"
      PROVE  AllAgreeSoFar'
  <2>1. /\ pc[r] = "body" /\ engine[r] = "Atomic" /\ digest[r] = "absent"
    BY <1>a, <1>b, <1>7 DEF Body, MigrationIsUnderWay, Entered, RegistersLast, UsesRestore
  <2>2. /\ pc' = [pc EXCEPT ![r] = "detach"]
        /\ TablesMatchZk(r)
        /\ todo' = [todo EXCEPT ![r] = LocalTables(r)]
        /\ suspect' = [suspect EXCEPT ![r] = FALSE]
        /\ UNCHANGED <<zkRoot, zkVars, hostVars, cmd, exc>>
    BY <1>a, <1>7 DEF Body, Raise, Goto
  <2>3. OnlyAt(r) /\ ToReplicated(r)' /\ ~Registered(r)'
    BY <1>a, <1>7, <2>1, <2>2 DEF OnlyAt, ToReplicated, Registered, zkVars, hostVars
  <2>4. LocalTables(r)' = LocalTables(r)
    BY <2>2 DEF LocalTables, hostVars
  <2>5. zkRoot => SameSchemas(r)' /\ LocalTables(r)' \subseteq todo'[r]
    BY <1>a, <2>2, <2>4 DEF TablesMatchZk, SameSchemas, zkVars, hostVars
  <2>6. pc'[r] = "detach"
    BY <1>a, <2>2
  <2>7. QED
    BY <2>2, <2>3, <2>5, <2>6, ComparisonGoesOn DEF Comparing, Compared
<1>8. ASSUME NEW r \in Replicas, Detach(r) \/ Rewrite(r) \/ SyncDone(r) \/ Attach(r) \/ Restart(r)
      PROVE  AllAgreeSoFar'
  <2>1. cmd[r] = "to_replicated" /\ pc[r] # "idle"
    BY <1>a, <1>b, <1>8 DEF Detach, Rewrite, SyncDone, Attach, Restart,
       MigrationIsUnderWay, SetAttached
  <2>2. PICK l \in {"rewrite", "sync", "attach", "restart", "restore", "unlock"} :
            pc' = [pc EXCEPT ![r] = l]
    BY <1>8, <2>1 DEF Detach, Rewrite, SyncDone, Attach, Restart, Raise, Goto, SetAttached
  <2>3. /\ \/ UNCHANGED exc
           \/ exc' = [exc EXCEPT ![r] = TRUE] /\ l \in {"attach", "unlock"}
        /\ \/ UNCHANGED engine
           \/ engine' = [engine EXCEPT ![r] = "Replicated"] /\ pc[r] = "rewrite"
        /\ UNCHANGED <<zkRoot, zkVars, tab, procVars, suspect>>
    BY <1>a, <1>8, <2>1, <2>2 DEF Detach, Rewrite, SyncDone, Attach, Restart, Raise, Goto,
       hostVars, historyVars, SetAttached
  <2>4. OnlyAt(r) /\ ToReplicated(r)'
    BY <1>a, <2>1, <2>2, <2>3 DEF OnlyAt, ToReplicated, zkVars, procVars
  <2>5. Comparing(r) /\ digest[r] = "absent"
    BY <1>8, <2>1 DEF Detach, Rewrite, SyncDone, Attach, Restart, Comparing, ToReplicated,
       Compared, RegistersLast, SetAttached
  <2>6. /\ SameSchemas(r)' = SameSchemas(r) /\ SameUuids(r)' = SameUuids(r)
        /\ Agrees(r)' = Agrees(r) /\ LocalTables(r)' = LocalTables(r) /\ ~Registered(r)'
    BY <2>3, <2>5 DEF SameSchemas, SameUuids, Agrees, AsZkRow, LocalTables, Registered, zkVars,
       procVars
  <2>7. ASSUME ~suspect[r], zkRoot
        PROVE  /\ l = "rewrite" => SameSchemas(r) /\ LocalTables(r) \subseteq todo[r]
               /\ l = "sync" => SameSchemas(r) /\ SameUuids(r)
               /\ l \in {"restart", "restore"} \/ (l = "attach" /\ ~exc'[r]) => Agrees(r)
    <3>1. ~first[r] \/ pc[r] = "unlock"
      BY <1>a, <2>2, <2>7 DEF FirstsAreInside
    <3>2. CASE Detach(r)
      BY <1>a, <1>b, <2>2, <2>5, <2>7, <3>2 DEF Detach, Raise, Goto, AgreesSoFar,
         SetAttached
    <3>3. CASE Rewrite(r)
      <4>1. pc[r] = "rewrite" /\ SameSchemas(r) /\ LocalTables(r) \subseteq todo[r]
        BY <1>b, <2>5, <2>7, <3>3 DEF Rewrite, AgreesSoFar
      <4>2. l = "sync" \/ (l = "attach" /\ exc'[r])
        BY <1>a, <2>1, <2>2, <2>7, <3>1, <3>3 DEF Rewrite, Raise, Goto
      <4>3. QED
        BY <4>1, <4>2 DEF SameUuids
    <3>4. CASE SyncDone(r)
      <4>1. SameSchemas(r) /\ SameUuids(r) /\ todo[r] = {}
        BY <1>b, <2>5, <2>7, <3>4 DEF SyncDone, AgreesSoFar
      <4>2. Agrees(r)
        BY <4>1, SameAgree DEF SameUuids
      <4>3. l \in {"restart", "attach"}
        BY <1>a, <2>2, <3>4 DEF SyncDone, Goto
      <4>4. QED
        BY <4>2, <4>3
    <3>5. CASE Attach(r) \/ Restart(r)
      <4>1. l \in {"restore", "unlock"}
        BY <1>a, <2>2, <3>5 DEF Attach, Restart, Raise, Goto, SetAttached
      <4>2. l = "restore" => pc[r] = "restart" \/ (pc[r] = "attach" /\ ~exc[r])
        BY <1>a, <2>2, <3>5 DEF Attach, Restart, Raise, Goto, SetAttached
      <4>3. QED
        BY <1>b, <2>5, <2>7, <4>1, <4>2 DEF AgreesSoFar
    <3>6. QED
      BY <1>8, <3>2, <3>3, <3>4, <3>5
  <2>8. pc'[r] = l
    BY <1>a, <2>2
  <2>9. QED
    BY <2>2, <2>3, <2>4, <2>6, <2>7, <2>8, ComparisonGoesOn DEF zkVars, procVars
<1>9. ASSUME NEW r \in Replicas, NEW t \in Tables, SyncTable(r, t) PROVE AllAgreeSoFar'
  <2>1. /\ pc[r] = "sync" /\ cmd[r] = "to_replicated" /\ Comparing(r) /\ digest[r] = "absent"
    BY <1>9, <1>b DEF SyncTable, MigrationIsUnderWay, Comparing, Compared, ToReplicated,
       RegistersLast
  <2>2. tab[r][t] \in Row /\ tab[r][t] # NoRow
    BY <1>9, RowAssumption DEF SyncTable, SyncsLocalTables
  <2>3. /\ UNCHANGED <<zkRoot, zkVars, engine, cmd, suspect>>
        /\ todo' = [todo EXCEPT ![r] = @ \ {t}]
        /\ \/ UNCHANGED <<tab, pc, exc>> /\ zkTab[t].uuid = tab[r][t].uuid
           \/ /\ tab' = [tab EXCEPT ![r][t].uuid = zkTab[t].uuid] /\ UNCHANGED exc
              /\ UNCHANGED pc \/ pc' = [pc EXCEPT ![r] = "move"]
           \/ UNCHANGED tab /\ exc' = [exc EXCEPT ![r] = TRUE] /\ pc' = [pc EXCEPT ![r] = "attach"]
    BY <1>9 DEF SyncTable, Raise, Goto, historyVars
  <2>4. \A q \in Replicas \ {r} : UNCHANGED <<tab[q], pc[q], exc[q], todo[q]>>
    BY <1>a, <2>3
  <2>5. /\ pc'[r] \in {"sync", "move", "attach"}
        /\ pc'[r] = "attach" => exc'[r]
        /\ todo'[r] = todo[r] \ {t}
    BY <1>a, <2>1, <2>3
  <2>6. OnlyAt(r) /\ ToReplicated(r)' /\ ~Registered(r)'
    BY <2>1, <2>3, <2>4, <2>5 DEF OnlyAt, ToReplicated, Registered, zkVars
  <2>7. ASSUME ~suspect[r], zkRoot, pc'[r] # "attach"
        PROVE  SameSchemas(r)' /\ SameUuids(r)'
    <3>1. SameSchemas(r) /\ SameUuids(r)
      BY <1>b, <2>1, <2>7 DEF AgreesSoFar
    <3>2. CASE UNCHANGED tab /\ zkTab[t].uuid = tab[r][t].uuid
      <4>1. LocalTables(r)' = LocalTables(r) /\ zkTab' = zkTab
        BY <2>3, <3>2 DEF LocalTables, zkVars
      <4>2. QED
        BY <2>5, <3>1, <3>2, <4>1 DEF SameSchemas, SameUuids
    <3>3. CASE tab' = [tab EXCEPT ![r][t].uuid = zkTab[t].uuid]
      <4>1. tab'[r] = [tab[r] EXCEPT ![t] = [tab[r][t] EXCEPT !.uuid = zkTab[t].uuid]]
        BY <1>a, <3>3
      <4>2. tab'[r][t].uuid = zkTab[t].uuid /\ tab'[r][t].schema = tab[r][t].schema
        BY <1>a, <2>2, <4>1 DEF Row
      <4>3. \A u \in Tables \ {t} : tab'[r][u] = tab[r][u]
        BY <1>a, <4>1
      <4>4. t \in LocalTables(r) /\ LocalTables(r)' \subseteq LocalTables(r)
        BY <2>2, <4>3 DEF LocalTables
      <4>5. zkTab' = zkTab
        BY <2>3 DEF zkVars
      <4>6. LocalTables(r)' \subseteq Tables
        BY DEF LocalTables
      <4>7. SameSchemas(r)'
        BY <3>1, <4>2, <4>3, <4>4, <4>5, <4>6 DEF SameSchemas
      <4>8. SameUuids(r)'
        BY <2>5, <3>1, <4>2, <4>3, <4>4, <4>5, <4>6 DEF SameUuids
      <4>9. QED
        BY <4>7, <4>8
    <3>4. pc'[r] # "attach" => ~(pc' = [pc EXCEPT ![r] = "attach"])
      BY <1>a
    <3>5. QED
      BY <2>3, <2>7, <3>2, <3>3, <3>4
  <2>8. QED
    BY <2>3, <2>5, <2>6, <2>7, ComparisonGoesOn
<1>10. ASSUME NEW r \in Replicas, MoveStore(r) PROVE AllAgreeSoFar'
  <2> DEFINE t == moving[r].table
  <2>1. /\ pc[r] = "move" /\ cmd[r] = "to_replicated" /\ Comparing(r) /\ digest[r] = "absent"
    BY <1>10, <1>b DEF MoveStore, MigrationIsUnderWay, Comparing, Compared, ToReplicated,
       RegistersLast
  <2>2. tab[r][t] \in Row /\ t \in Tables
    BY <2>1 DEF SyncsLocalTables
  <2>3. /\ UNCHANGED <<zkRoot, zkVars, engine, cmd, suspect, todo>>
        /\ \/ /\ tab' = [tab EXCEPT ![r][t].store = tab[r][t].uuid] /\ UNCHANGED exc
              /\ pc' = [pc EXCEPT ![r] = "sync"]
           \/ UNCHANGED tab /\ exc' = [exc EXCEPT ![r] = TRUE] /\ pc' = [pc EXCEPT ![r] = "attach"]
    BY <1>10 DEF MoveStore, Raise, Goto, historyVars
  <2>4. \A q \in Replicas \ {r} : UNCHANGED <<tab[q], pc[q], exc[q], todo[q]>>
    BY <1>a, <2>3
  <2>5. /\ pc'[r] \in {"sync", "attach"}
        /\ pc'[r] = "attach" => exc'[r]
    BY <1>a, <2>1, <2>3
  <2>6. OnlyAt(r) /\ ToReplicated(r)' /\ ~Registered(r)'
    BY <2>1, <2>3, <2>4, <2>5 DEF OnlyAt, ToReplicated, Registered, zkVars
  <2>7. ASSUME ~suspect[r], zkRoot, pc'[r] = "sync"
        PROVE  SameSchemas(r)' /\ SameUuids(r)'
    <3>1. SameSchemas(r) /\ SameUuids(r)
      BY <1>b, <2>1, <2>7 DEF AgreesSoFar
    <3>2. tab' = [tab EXCEPT ![r][t].store = tab[r][t].uuid]
      BY <1>a, <2>3, <2>7
    <3>3. tab'[r] = [tab[r] EXCEPT ![t] = [tab[r][t] EXCEPT !.store = tab[r][t].uuid]]
      BY <1>a, <2>2, <3>2
    <3>4. tab'[r][t].uuid = tab[r][t].uuid /\ tab'[r][t].schema = tab[r][t].schema
      BY <1>a, <2>2, <3>3 DEF Row
    <3>5. \A u \in Tables \ {t} : tab'[r][u] = tab[r][u]
      BY <1>a, <3>3
    <3>6. tab[r][t] # NoRow
      BY <2>2, RowAssumption
    <3>7. LocalTables(r)' \subseteq LocalTables(r) /\ LocalTables(r)' \subseteq Tables
      BY <3>5, <3>6 DEF LocalTables
    <3>8. zkTab' = zkTab /\ todo' = todo
      BY <2>3 DEF zkVars
    <3>9. QED
      BY <3>1, <3>4, <3>5, <3>7, <3>8 DEF SameSchemas, SameUuids
  <2>8. QED
    BY <2>3, <2>5, <2>6, <2>7, ComparisonGoesOn
<1>11. ASSUME NEW r \in Replicas, Restore(r) PROVE AllAgreeSoFar'
  <2>1. /\ pc[r] = "restore" /\ cmd[r] \in {"to_replicated", "restore_replica"}
        /\ engine[r] = "Replicated" /\ UNCHANGED <<tab, engine, cmd, todo, suspect>>
        /\ pc' = [pc EXCEPT ![r] = "unlock"]
    BY <1>11, <1>b DEF Restore, Raise, Goto, MigrationIsUnderWay, Rewritten, RegistersLast,
       hostVars, procVars, historyVars, Answered
  <2>2. ASSUME digest[r] = "absent", ~suspect[r] PROVE zkRoot => Agrees(r)
    BY <1>b, <2>1, <2>2 DEF AgreesSoFar, Comparing, Compared, ToReplicated, Lost
  <2>3. CASE zkRoot' = zkRoot /\ UNCHANGED zkVars /\ exc' = [exc EXCEPT ![r] = TRUE]
    <3>1. Quiet(r)
      BY <1>a, <2>1, <2>3 DEF OnlyAt, Comparing, Compared, ToReplicated, Lost, zkVars
    <3>2. QED
      BY <3>1, <1>c
  <2>4. CASE /\ digest[r] = "absent" /\ zkRoot' /\ exc' \in {exc, [exc EXCEPT ![r] = TRUE]}
             /\ zkTab' = IF zkRoot THEN zkTab ELSE [t \in Tables |-> AsZkRow(tab[r][t])]
             /\ digest' = [digest EXCEPT ![r] = "zero"]
    <3>1. pc'[r] = "unlock" /\ digest'[r] = "zero"
      BY <1>a, <2>1, <2>4
    <3>2. \A q \in Replicas : LocalTables(q)' = LocalTables(q) /\ LocalTables(q) \subseteq Tables
      BY <2>1 DEF LocalTables
    <3>3. ASSUME NEW q \in Replicas, q # r PROVE AgreesSoFar(q)'
      <4>1. UNCHANGED <<pc[q], cmd[q], exc[q], suspect[q], todo[q], tab[q], engine[q], digest[q]>>
        BY <1>a, <2>1, <2>4, <3>3
      <4>2. /\ Comparing(q)' = Comparing(q) /\ Lost(q)' = Lost(q)
            /\ Registered(q)' = Registered(q)
        BY <4>1 DEF Comparing, ToReplicated, Compared, Lost, Registered
      <4>3. CASE zkRoot
        <5>1. zkTab' = zkTab
          BY <2>4, <4>3
        <5>2. /\ SameSchemas(q)' = SameSchemas(q) /\ SameUuids(q)' = SameUuids(q)
              /\ Agrees(q)' = Agrees(q)
          BY <3>2, <4>1, <5>1 DEF SameSchemas, SameUuids, Agrees, AsZkRow
        <5>3. QED
          BY <1>b, <2>4, <3>2, <4>1, <4>2, <4>3, <5>2 DEF AgreesSoFar
      <4>4. CASE ~zkRoot
        <5>1. digest[q] = "absent"
          BY <4>4 DEF RootHasMember
        <5>2. first[r]
          BY <2>1, <4>4 DEF JoinersSeeRoot, Entering
        <5>3. ~Comparing(q)
          BY <3>3, <4>4, <5>2 DEF OneFirst, JoinersSeeRoot, Comparing, Compared, ToReplicated,
             Entering
        <5>4. Lost(q) => Agrees(q)'
          <6>1. Lost(q) => tab[r] = tab[q]
            BY <1>b, <4>4 DEF AgreesSoFar, SameEverywhere
          <6>2. \A t \in Tables : zkTab'[t] = AsZkRow(tab[r][t])
            BY <2>4, <4>4
          <6>3. QED
            BY <3>2, <4>1, <6>1, <6>2 DEF Agrees, AsZkRow
        <5>5. QED
          BY <2>4, <4>1, <4>2, <5>1, <5>3, <5>4 DEF AgreesSoFar, Registered
      <4>5. QED
        BY <4>3, <4>4
    <3>4. AgreesSoFar(r)'
      <4>1. ~suspect'[r] => Agrees(r)'
        <5>1. CASE zkRoot
          BY <2>1, <2>2, <2>4, <3>2, <5>1 DEF Agrees, AsZkRow
        <5>2. CASE ~zkRoot
          BY <2>1, <2>4, <3>2, <5>2 DEF Agrees, AsZkRow
        <5>3. QED
          BY <5>1, <5>2
      <4>2. QED
        BY <3>1, <4>1 DEF AgreesSoFar, Comparing, Compared, Lost
    <3>5. QED
      BY <3>3, <3>4 DEF AllAgreeSoFar
  <2>5. QED
    BY <1>11, <2>3, <2>4 DEF Restore, Raise, zkVars, Answered
<1>12. ASSUME NEW r \in Replicas, WorkerDigest(r) PROVE AllAgreeSoFar'
  <2> SUFFICES ASSUME NEW q \in Replicas PROVE AgreesSoFar(q)'
    BY DEF AllAgreeSoFar
  <2>1. /\ UNCHANGED <<lockVars, zkTab, hostVars, procVars, suspect>>
        /\ digest'[q] = "absent" <=> digest[q] = "absent"
    BY <1>a, <1>12 DEF WorkerDigest, historyVars
  <2>2. /\ Comparing(q)' = Comparing(q) /\ (Lost(q)' <=> Lost(q))
        /\ (Registered(q)' <=> Registered(q)) /\ LocalTables(q)' = LocalTables(q)
    BY <2>1 DEF Comparing, ToReplicated, Compared, Lost, Registered, LocalTables,
       lockVars, hostVars, procVars
  <2>3. /\ SameSchemas(q)' = SameSchemas(q) /\ SameUuids(q)' = SameUuids(q)
        /\ Agrees(q)' = Agrees(q) /\ SameEverywhere(q)' = SameEverywhere(q)
    BY <2>1, <2>2 DEF SameSchemas, SameUuids, Agrees, AsZkRow, SameEverywhere, ToReplicated,
       lockVars, hostVars, procVars
  <2>4. QED
    BY <1>b, <2>1, <2>2, <2>3 DEF AgreesSoFar, lockVars, hostVars, procVars
<1>13. ASSUME NEW r \in Replicas, NEW t \in Tables, NEW s \in Schemas, Ddl(r, t, s)
       PROVE  AllAgreeSoFar'
  <2> SUFFICES ASSUME NEW q \in Replicas PROVE AgreesSoFar(q)'
    BY DEF AllAgreeSoFar
  <2>1. /\ UNCHANGED <<pc, cmd, engine, digest>>
        /\ suspect'[q] = (\/ suspect[q] \/ Compared(q)
                          \/ engine[q] = "Replicated" /\ ~Registered(q))
    BY <1>13 DEF Ddl, lockVars, procVars
  <2>2. (Comparing(q)' => Comparing(q)) /\ Registered(q)' = Registered(q)
    BY <2>1 DEF Comparing, ToReplicated, Compared, Registered
  <2>3. ~(Comparing(q)' /\ ~suspect'[q]) /\ ~Lost(q)'
    BY <2>1, <2>2 DEF Comparing, Lost, Registered
  <2>4. Registered(q) /\ ~suspect'[q] => Agrees(q)'
    BY <1>b, <1>13, <2>1, DdlAgrees DEF AgreesSoFar
  <2>5. QED
    BY <2>2, <2>3, <2>4 DEF AgreesSoFar
<1>14. ASSUME UNCHANGED vars PROVE AllAgreeSoFar'
  BY <1>14 DEF vars, lockVars, zkVars, hostVars, procVars, AllAgreeSoFar, AgreesSoFar,
     Comparing, Compared, ToReplicated, Lost, Registered, SameEverywhere, Agrees,
     SameSchemas, SameUuids, LocalTables, AsZkRow, historyVars
<1>15. ASSUME NEW r \in Replicas
       PROVE  /\ ~CreateStructure(r) /\ ~GenerateCounter(r) /\ ~CreateReplicaNodes(r)
              /\ ~Clean(r)
  BY <1>b DEF CreateStructure, GenerateCounter, CreateReplicaNodes, Clean, RootHasMember,
     MigrationIsUnderWay, Answered
<1> HIDE DEF Quiet
<1>16. QED
  BY <1>c, <1>1, <1>2, <1>3, <1>4, <1>5, <1>6, <1>7, <1>8, <1>9, <1>10, <1>11, <1>12, <1>13,
     <1>14, <1>15 DEF Next, Step, Environment

\* With SYSTEM RESTORE DATABASE REPLICA, without --force-remove-lock, and if no
\* command makes the database Atomic again or cleans ZooKeeper, a host that has
\* registered itself agrees with ZooKeeper on every table it has, unless DDL or a
\* command cut short came in between.
THEOREM RegisteredHostsAgree ==
    ASSUME HasRestore, Forces \subseteq {FALSE},
           Commands \subseteq {"to_replicated", "restore_replica"}
    PROVE  Spec => []RegisteredAgree
<1> DEFINE Inv == /\ TypeOK /\ SyncsLocalTables /\ OneFirst /\ NeverForced
                  /\ WaitersSeeRoot /\ JoinersSeeRoot /\ RootHasMember
                  /\ AttachedWhereUsed /\ MigrationsAreUnderWay
                  /\ FirstsAreInside /\ RegistersLast /\ AllAgreeSoFar
<1>1. Init => Inv
  <2> SUFFICES ASSUME Init PROVE Inv
    OBVIOUS
  <2>1. \A r \in Replicas : /\ pc[r] = "idle" /\ cmd[r] = "none" /\ first[r] = FALSE
                            /\ digest[r] = (IF zkRoot THEN "set" ELSE "absent")
    BY DEF Init
  <2>2. /\ TypeOK /\ RootHasMember
    BY InitType, InitRoot
  <2>3. /\ SyncsLocalTables /\ OneFirst /\ NeverForced /\ WaitersSeeRoot /\ JoinersSeeRoot
    BY DEF Init, OneFirst, NeverForced, SyncsLocalTables, WaitersSeeRoot, JoinersSeeRoot
  <2>4. AttachedWhereUsed /\ MigrationsAreUnderWay /\ FirstsAreInside
    BY <2>1 DEF AttachedWhereUsed, MigrationsAreUnderWay, MigrationIsUnderWay, Entered, Rewritten,
       Entering, FirstsAreInside
  <2>5. \A r, s \in Replicas :
            /\ engine[r] = engine[s] /\ (engine[r] = "Replicated" => tab[r] = tab[s])
            /\ zkRoot => engine[r] = "Replicated"
    BY DEF Init
  <2>6. RegistersLast
    BY <2>1, <2>5 DEF RegistersLast, Comparing, ToReplicated
  <2>7. ASSUME NEW r \in Replicas, zkRoot PROVE Agrees(r)
    <3> DEFINE s == CHOOSE q \in Replicas : TRUE
    <3>1. s \in Replicas
      BY <2>7
    <3>2. tab[r] = tab[s]
      BY <2>5, <2>7, <3>1
    <3>3. zkTab = [t \in Tables |-> AsZkRow(tab[s][t])]
      BY <2>7 DEF Init
    <3>4. QED
      BY <3>2, <3>3 DEF Agrees, LocalTables
  <2>8. ASSUME NEW r \in Replicas PROVE AgreesSoFar(r)
    BY <2>1, <2>5, <2>7 DEF AgreesSoFar, Comparing, ToReplicated, Lost, Registered, SameEverywhere
  <2>9. QED
    BY <2>2, <2>3, <2>4, <2>6, <2>8 DEF AllAgreeSoFar
<1>2. Inv /\ [Next]_vars => Inv'
  <2>1. "to_atomic_clean" \notin Commands
    OBVIOUS
  <2>2. TypeOK /\ RootHasMember /\ [Next]_vars => RootHasMember'
    BY StepIsStructureStep
  <2>3. QED
    BY <2>1, <2>2, NextType, NextSyncs, NextOneFirst, NextJoiners, NextAttached, NextUnderWay,
       NextFirsts, NextRegistersLast, NextAgree
<1>3. Inv => RegisteredAgree
  BY DEF RegisteredAgree, AllAgreeSoFar, AgreesSoFar, Agrees
<1> HIDE DEF Inv
<1>4. QED
  BY <1>1, <1>2, <1>3, PTL DEF Spec
=============================================================================
