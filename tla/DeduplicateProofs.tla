-------------------------- MODULE DeduplicateProofs --------------------------
(***************************************************************************)
(* Theorems about Deduplicate, for every number of tables, partitions,     *)
(* threads, runs and kills, and any set of options.                        *)
(***************************************************************************)
EXTENDS Deduplicate, WellFoundedInduction, FiniteSetTheorems, TLAPS

-----------------------------------------------------------------------------
(* Lemmas about the operators *)

\* Partitions are positive numbers.
LEMMA PartitionsAreNumbers ==
    /\ Partitions \subseteq Nat /\ 0 \notin Partitions
    /\ \A n \in Partitions \cup {0} : n \in Nat
  BY DeduplicateAssumption

\* A task that has partitions left takes the first one.
LEMMA MinIsFirst ==
    ASSUME NEW S \in SUBSET Partitions, S # {}
    PROVE  Min(S) \in S /\ \A p \in S : Min(S) <= p
<1> DEFINE Less == OpToRel(<, Nat)
<1>1. S \subseteq Nat
  BY DeduplicateAssumption
<1>2. Less = {ss \in Nat \X Nat : ss[1] < ss[2]}
  BY DEF OpToRel
<1>3. IsWellFoundedOn(Less, Nat)
  BY NatLessThanWellFounded
<1> HIDE DEF Less
<1>4. PICK m \in S : \A p \in S : ~ (<<p, m>> \in Less)
  BY <1>1, <1>3, WFMin
<1>5. ASSUME NEW p \in S PROVE m <= p
  <2>1. <<p, m>> \notin {ss \in Nat \X Nat : ss[1] < ss[2]}
    BY <1>2, <1>4
  <2>2. QED
    BY <1>1, <2>1
<1>6. QED
  BY <1>5 DEF Min

\* What is known of the options of the command.
LEMMA OptionsAre ==
    ASSUME TypeOK
    PROVE  opt.min \in Nat /\ opt.dry \in BOOLEAN /\ opt.ignore \in BOOLEAN
<1>1. opt \in Options /\ opt \in OptionType
  BY DeduplicateAssumption DEF TypeOK
<1>2. opt.min \in Partitions \cup {0} /\ opt.dry \in BOOLEAN /\ opt.ignore \in BOOLEAN
  BY <1>1 DEF OptionType
<1>3. opt.min \in Nat
  BY <1>2, PartitionsAreNumbers
<1>4. QED
  BY <1>2, <1>3

\* The first partition asked for is the smaller of the option and of what was
\* saved, or the one that is there (_get_min_partition_to_deduplicate).
LEMMA MinPartitionIs ==
    ASSUME TypeOK, NEW t \in Tables
    PROVE  /\ MinPartition(t) \in Nat
           /\ MinPartition(t) <= opt.min
              \/ (saved[t] # 0 /\ MinPartition(t) <= saved[t])
<1>1. opt.min \in Nat
  BY OptionsAre
<1>2. saved[t] \in Nat
  <2>1. saved[t] \in Partitions \cup {0}
    BY DEF TypeOK
  <2>2. QED
    BY <2>1, PartitionsAreNumbers
<1>3. \A a, b \in Nat : Min({a, b}) = IF a <= b THEN a ELSE b
  BY DEF Min
<1>4. \A a, b \in Nat : Max({a, b}) = IF a >= b THEN a ELSE b
  BY DEF Max
<1>5. QED
  BY <1>1, <1>2, <1>3, <1>4 DEF MinPartition

-----------------------------------------------------------------------------
(* Type correctness, and where a task is *)

\* Every initial state has the types.
LEMMA InitType == Init => TypeOK
<1> SUFFICES ASSUME Init PROVE TypeOK
  OBVIOUS
<1>1. own = [t \in Tables |-> {}] /\ saved = [t \in Tables |-> 0]
  BY DEF Init
<1>2. /\ own \in [Tables -> SUBSET Partitions]
      /\ saved \in [Tables -> Partitions \cup {0}]
      /\ saved \in [Tables -> Nat]
  BY <1>1
<1>3. asked = own /\ detached = own /\ todo = own
  BY DEF Init
<1>4. QED
  BY <1>2, <1>3 DEF Init, TypeOK, TaskLabels, Ended

\* What the position of a task says about it.  There is one only while the
\* pool runs; it has a partition in hand while it attaches or saves; it unwinds
\* an exception only in the finally block; nothing is left to do after that.
Positions ==
    \A t \in Tables :
        /\ pc # "run" => task[t] = "none" /\ ~exc[t]
        /\ task[t] \in {"attach", "save"} => todo[t] # {} /\ ~opt.dry
        /\ exc[t] => task[t] \in {"disable", "disabling", "restored"}
        /\ task[t] \in {"disable", "disabling", "restored", "done"} => todo[t] = {}
        /\ task[t] \in {"disable", "disabling", "enable", "enabling"} => ~opt.dry

\* Every step keeps the types.
LEMMA NextType == TypeOK /\ Positions /\ [Next]_vars => TypeOK'
<1> SUFFICES ASSUME TypeOK, Positions, [Next]_vars PROVE TypeOK'
  OBVIOUS
<1> USE DeduplicateAssumption DEF TypeOK, TaskLabels, Ended, clickhouse, zookeeper
<1>1. ASSUME NEW o \in Options, Start(o) PROVE TypeOK'
  <2>1. asked' \in [Tables -> SUBSET Partitions]
    BY <1>1 DEF Start, AskedBy
  <2>2. QED
    BY <1>1, <2>1 DEF Start
<1>2. CASE IgnoreState
  <2>1. asked' \in [Tables -> SUBSET Partitions]
    BY <1>2 DEF IgnoreState, AskedBy
  <2>2. QED
    BY <1>2, <2>1 DEF IgnoreState, DeleteRoot
<1>3. CASE SelectTables
  BY <1>3, OptionsAre DEF SelectTables
<1>4. CASE CollectResults
  BY <1>4 DEF CollectResults, NoTasks
<1>5. CASE ForgetState
  BY <1>5 DEF ForgetState, DeleteRoot
<1>6. CASE Abort
  <2>1. saved' \in [Tables -> Partitions \cup {0}]
    BY <1>6 DEF Abort
  <2>2. done' \in SUBSET done /\ doneNode' \in BOOLEAN
    BY <1>6 DEF Abort
  <2>3. QED
    BY <1>6, <2>1, <2>2 DEF Abort
<1>7. ASSUME NEW t \in Tables, TakeTask(t) PROVE TypeOK'
  BY <1>7 DEF TakeTask, Goto
<1>8. ASSUME NEW t \in Tables, Enable(t) PROVE TypeOK'
  <2>1. errors' \in [Tables -> Nat]
    BY <1>8 DEF Enable, EndFailed
  <2>2. exc' \in [Tables -> BOOLEAN]
    BY <1>8 DEF Enable, EndFailed
  <2>3. settings' \in [Tables -> {"off", "partial", "on"}]
    BY <1>8 DEF Enable
  <2>4. QED
    BY <1>8, <2>1, <2>2, <2>3 DEF Enable, EndFailed, Goto
<1>9. ASSUME NEW t \in Tables, ListPartitions(t) PROVE TypeOK'
  <2>1. todo' \in [Tables -> SUBSET Partitions]
    <3>1. CASE Unwind(t)
      BY <3>1 DEF Unwind
    <3>2. ASSUME NEW all \in SUBSET Partitions, NEW only, NEW min,
                 todo' = [todo EXCEPT ![t] = {p \in all : p \in only /\ p >= min}]
          PROVE  todo' \in [Tables -> SUBSET Partitions]
      BY <3>2
    <3>3. \A outdated \in SUBSET detached[t] :
              (Partitions \ detached[t]) \cup outdated \in SUBSET Partitions
      OBVIOUS
    <3>4. QED
      BY <1>9, <3>1, <3>2, <3>3 DEF ListPartitions
  <2>2. QED
    BY <1>9, <2>1 DEF ListPartitions, Unwind, Goto
<1>10. ASSUME NEW t \in Tables, ClearSaved(t) PROVE TypeOK'
  BY <1>10 DEF ClearSaved, Unwind, Goto
<1>11. ASSUME NEW t \in Tables, Detach(t) PROVE TypeOK'
  <2>1. Min(todo[t]) \in Partitions
    BY <1>11, MinIsFirst DEF Detach
  <2>2. QED
    BY <1>11, <2>1 DEF Detach, Goto
<1>12. ASSUME NEW t \in Tables, Attach(t) PROVE TypeOK'
  <2>1. Min(todo[t]) \in Partitions
    BY <1>12, MinIsFirst DEF Attach, Positions
  <2>2. QED
    BY <1>12, <2>1 DEF Attach, Goto
<1>13. ASSUME NEW t \in Tables, SavePartition(t) PROVE TypeOK'
  <2>1. Min(todo[t]) \in Partitions
    BY <1>13, MinIsFirst DEF SavePartition, Positions
  <2>2. QED
    BY <1>13, <2>1 DEF SavePartition, FailedPartition, Unwind, Goto
<1>14. ASSUME NEW t \in Tables, SyncReplicas(t) PROVE TypeOK'
  BY <1>14 DEF SyncReplicas, Unwind, Goto
<1>15. ASSUME NEW t \in Tables, Disable(t) PROVE TypeOK'
  <2>1. errors' \in [Tables -> Nat]
    BY <1>15 DEF Disable, EndFailed
  <2>2. exc' \in [Tables -> BOOLEAN]
    BY <1>15 DEF Disable, EndFailed
  <2>3. settings' \in [Tables -> {"off", "partial", "on"}]
    BY <1>15 DEF Disable
  <2>4. QED
    BY <1>15, <2>1, <2>2, <2>3 DEF Disable, EndFailed, Goto
<1>16. ASSUME NEW t \in Tables, MarkDone(t) PROVE TypeOK'
  <2>1. errors' \in [Tables -> Nat]
    BY <1>16 DEF MarkDone, EndFailed
  <2>2. exc' \in [Tables -> BOOLEAN]
    BY <1>16 DEF MarkDone, EndFailed
  <2>3. done' \subseteq Tables
    BY <1>16 DEF MarkDone
  <2>4. QED
    BY <1>16, <2>1, <2>2, <2>3 DEF MarkDone, EndFailed, Goto
<1>17. CASE Kill
  BY <1>17 DEF Kill, NoTasks
<1>18. CASE UNCHANGED vars
  BY <1>18 DEF vars
<1>19. QED
  BY <1>1, <1>2, <1>3, <1>4, <1>5, <1>6, <1>7, <1>8, <1>9, <1>10, <1>11,
     <1>12, <1>13, <1>14, <1>15, <1>16, <1>17, <1>18 DEF Next, Main, Task

\* Every step keeps what the positions of the tasks say.
LEMMA NextPositions == TypeOK /\ Positions /\ [Next]_vars => Positions'
<1> SUFFICES ASSUME TypeOK, Positions, [Next]_vars PROVE Positions'
  OBVIOUS
<1> USE DEF Positions, TypeOK, TaskLabels, Ended
<1>1. ASSUME NEW o \in Options, Start(o) PROVE Positions'
  BY <1>1 DEF Start
<1>2. CASE IgnoreState
  BY <1>2 DEF IgnoreState
<1>3. CASE SelectTables
  BY <1>3 DEF SelectTables
<1>4. CASE CollectResults
  BY <1>4 DEF CollectResults, NoTasks
<1>5. CASE ForgetState
  BY <1>5 DEF ForgetState
<1>6. CASE Abort
  BY <1>6 DEF Abort
<1>7. ASSUME NEW t \in Tables, TakeTask(t) PROVE Positions'
  BY <1>7 DEF TakeTask, Goto
<1>8. ASSUME NEW t \in Tables, Enable(t) PROVE Positions'
  BY <1>8 DEF Enable, EndFailed, Goto
<1>9. ASSUME NEW t \in Tables, ListPartitions(t) PROVE Positions'
  BY <1>9 DEF ListPartitions, Unwind, Goto
<1>10. ASSUME NEW t \in Tables, ClearSaved(t) PROVE Positions'
  BY <1>10 DEF ClearSaved, Unwind, Goto
<1>11. ASSUME NEW t \in Tables, Detach(t) PROVE Positions'
  BY <1>11 DEF Detach, Goto
<1>12. ASSUME NEW t \in Tables, Attach(t) PROVE Positions'
  BY <1>12 DEF Attach, Goto
<1>13. ASSUME NEW t \in Tables, SavePartition(t) PROVE Positions'
  BY <1>13 DEF SavePartition, Unwind, Goto
<1>14. ASSUME NEW t \in Tables, SyncReplicas(t) PROVE Positions'
  BY <1>14 DEF SyncReplicas, Unwind, Goto
<1>15. ASSUME NEW t \in Tables, Disable(t) PROVE Positions'
  BY <1>15 DEF Disable, EndFailed, Goto
<1>16. ASSUME NEW t \in Tables, MarkDone(t) PROVE Positions'
  BY <1>16 DEF MarkDone, EndFailed, EndedWell, Goto
<1>17. CASE Kill
  BY <1>17 DEF Kill, NoTasks
<1>18. CASE UNCHANGED vars
  BY <1>18 DEF vars
<1>19. QED
  BY <1>1, <1>2, <1>3, <1>4, <1>5, <1>6, <1>7, <1>8, <1>9, <1>10, <1>11,
     <1>12, <1>13, <1>14, <1>15, <1>16, <1>17, <1>18 DEF Next, Main, Task

\* The types hold in every reachable state.
THEOREM TypeCorrect == Spec => []TypeOK
<1>1. Init => TypeOK /\ Positions
  BY InitType DEF Init, Positions
<1>2. TypeOK /\ Positions /\ [Next]_vars => (TypeOK /\ Positions)'
  BY NextType, NextPositions
<1>3. QED
  BY <1>1, <1>2, PTL DEF Spec

-----------------------------------------------------------------------------
(* The settings of the tables *)

\* A task works on its partitions under the settings, unless it only pretends
\* to work, and it ends without them; a table that is done is left alone.
Settings ==
    \A t \in Tables :
        /\ ~opt.dry /\ task[t] \in {"list", "clear", "detach", "attach", "save"}
               => settings[t] = "on"
        /\ ~opt.dry /\ task[t] = "restored" => settings[t] = "off"
        /\ t \in done => task[t] \in {"none", "done"} /\ settings[t] = "off"

\* Every step keeps it.
LEMMA NextSettings == TypeOK /\ Positions /\ Settings /\ [Next]_vars => Settings'
<1> SUFFICES ASSUME TypeOK, Positions, Settings, [Next]_vars PROVE Settings'
  OBVIOUS
<1> USE DEF Settings, Positions, TypeOK, TaskLabels, Ended, clickhouse, zookeeper
<1>1. ASSUME NEW o \in Options, Start(o) PROVE Settings'
  BY <1>1 DEF Start
<1>2. CASE IgnoreState
  BY <1>2 DEF IgnoreState, DeleteRoot
<1>3. CASE SelectTables
  BY <1>3 DEF SelectTables
<1>4. CASE CollectResults
  BY <1>4 DEF CollectResults, NoTasks
<1>5. CASE ForgetState
  BY <1>5 DEF ForgetState, DeleteRoot
<1>6. CASE Abort
  BY <1>6 DEF Abort
<1>7. ASSUME NEW t \in Tables, TakeTask(t) PROVE Settings'
  BY <1>7 DEF TakeTask, Goto
<1>8. ASSUME NEW t \in Tables, Enable(t) PROVE Settings'
  BY <1>8 DEF Enable, EndFailed, Goto
<1>9. ASSUME NEW t \in Tables, ListPartitions(t) PROVE Settings'
  BY <1>9 DEF ListPartitions, Unwind, Goto
<1>10. ASSUME NEW t \in Tables, ClearSaved(t) PROVE Settings'
  BY <1>10 DEF ClearSaved, Unwind, Goto
<1>11. ASSUME NEW t \in Tables, Detach(t) PROVE Settings'
  BY <1>11 DEF Detach, Goto
<1>12. ASSUME NEW t \in Tables, Attach(t) PROVE Settings'
  BY <1>12 DEF Attach, Goto
<1>13. ASSUME NEW t \in Tables, SavePartition(t) PROVE Settings'
  BY <1>13 DEF SavePartition, Unwind, Goto
<1>14. ASSUME NEW t \in Tables, SyncReplicas(t) PROVE Settings'
  BY <1>14 DEF SyncReplicas, Unwind, Goto
<1>15. ASSUME NEW t \in Tables, Disable(t) PROVE Settings'
  BY <1>15 DEF Disable, EndFailed, Goto
<1>16. ASSUME NEW t \in Tables, MarkDone(t) PROVE Settings'
  BY <1>16 DEF MarkDone, EndFailed, EndedWell, Goto
<1>17. CASE Kill
  BY <1>17 DEF Kill, NoTasks
<1>18. CASE UNCHANGED vars
  BY <1>18 DEF vars
<1>19. QED
  BY <1>1, <1>2, <1>3, <1>4, <1>5, <1>6, <1>7, <1>8, <1>9, <1>10, <1>11,
     <1>12, <1>13, <1>14, <1>15, <1>16, <1>17, <1>18 DEF Next, Main, Task

\* No table that is done has the settings that keep it from sharing data left
\* on it, whatever failed and whenever the command was killed.
THEOREM DoneTablesAreClean == Spec => []DoneHasNoSettings
<1>1. Init => TypeOK /\ Positions /\ Settings
  BY InitType DEF Init, Positions, Settings
<1>2. TypeOK /\ Positions /\ Settings /\ [Next]_vars => (TypeOK /\ Positions /\ Settings)'
  BY NextType, NextPositions, NextSettings
<1>3. TypeOK /\ Settings => DoneHasNoSettings
  BY DEF Settings, DoneHasNoSettings, TypeOK
<1>4. QED
  BY <1>1, <1>2, <1>3, PTL DEF Spec

-----------------------------------------------------------------------------
(* The partitions that are left detached *)

\* A failure accounts for one partition, and so does the one in hand.
FailuresOf(t) ==
    /\ Cardinality(detached[t]) <= errors[t] + 1
    /\ ~(exc[t] \/ task[t] \in {"attach", "save"}) =>
           Cardinality(detached[t]) <= errors[t]
    /\ task[t] = "attach" => Min(todo[t]) \in detached[t]
Failures == \A t \in Tables : FailuresOf(t)

\* How many partitions are detached after one more, or one less.
LEMMA DetachedAre ==
    ASSUME TypeOK, NEW t \in Tables
    PROVE  /\ Cardinality(detached[t]) \in Nat /\ errors[t] \in Nat
           /\ \A p \in Partitions :
                  Cardinality(detached[t] \cup {p}) \in 0 .. Cardinality(detached[t]) + 1
           /\ \A p \in detached[t] :
                  Cardinality(detached[t] \ {p}) = Cardinality(detached[t]) - 1
<1>1. IsFiniteSet(detached[t]) /\ errors[t] \in Nat
  BY DeduplicateAssumption, FS_Subset DEF TypeOK
<1>2. Cardinality(detached[t]) \in Nat
  BY <1>1, FS_CardinalityType
<1>3. ASSUME NEW p
      PROVE  Cardinality(detached[t] \cup {p}) \in 0 .. Cardinality(detached[t]) + 1
  <2>1. Cardinality(detached[t] \cup {p}) =
            IF p \in detached[t] THEN Cardinality(detached[t])
            ELSE Cardinality(detached[t]) + 1
    BY <1>1, FS_AddElement
  <2>2. QED
    BY <1>2, <2>1
<1>4. ASSUME NEW p \in detached[t]
      PROVE  Cardinality(detached[t] \ {p}) = Cardinality(detached[t]) - 1
  BY <1>1, FS_RemoveElement
<1>5. QED
  BY <1>1, <1>2, <1>3, <1>4

\* Every step keeps it.
LEMMA NextFailures == TypeOK /\ Positions /\ Failures /\ [Next]_vars => Failures'
<1> SUFFICES ASSUME TypeOK, Positions, Failures, [Next]_vars PROVE Failures'
  OBVIOUS
<1> USE DEF Failures, FailuresOf, Positions, TaskLabels, Ended, clickhouse, zookeeper
<1>0. /\ \A t \in Tables : Cardinality(detached[t]) \in Nat /\ errors[t] \in Nat
      /\ errors \in [Tables -> Nat] /\ exc \in [Tables -> BOOLEAN]
      /\ task \in [Tables -> TaskLabels] /\ detached \in [Tables -> SUBSET Partitions]
  BY DetachedAre DEF TypeOK
<1>1. ASSUME NEW o \in Options, Start(o) PROVE Failures'
  BY <1>1 DEF Start
<1>2. CASE IgnoreState
  BY <1>2 DEF IgnoreState, DeleteRoot
<1>3. CASE SelectTables
  BY <1>0, <1>3 DEF SelectTables
<1>4. CASE CollectResults
  BY <1>0, <1>4 DEF CollectResults, NoTasks, AllEnded
<1>5. CASE ForgetState
  BY <1>5 DEF ForgetState, DeleteRoot
<1>6. CASE Abort
  BY <1>6 DEF Abort
<1>7. ASSUME NEW t \in Tables, TakeTask(t) PROVE Failures'
  BY <1>0, <1>7 DEF TakeTask, Goto
<1>8. ASSUME NEW t \in Tables, Enable(t) PROVE Failures'
  BY <1>0, <1>8 DEF Enable, EndFailed, Goto
<1>9. ASSUME NEW t \in Tables, ListPartitions(t) PROVE Failures'
  <2>1. FailuresOf(t)'
    BY <1>0, <1>9 DEF ListPartitions, Unwind, Goto
  <2>2. \A u \in Tables \ {t} : FailuresOf(u)'
    BY <1>0, <1>9 DEF ListPartitions, Unwind, Goto, TypeOK
  <2>3. QED
    BY <2>1, <2>2
<1>10. ASSUME NEW t \in Tables, ClearSaved(t) PROVE Failures'
  <2>1. FailuresOf(t)'
    BY <1>0, <1>10 DEF ClearSaved, Unwind, Goto
  <2>2. \A u \in Tables \ {t} : FailuresOf(u)'
    BY <1>0, <1>10 DEF ClearSaved, Unwind, Goto, TypeOK
  <2>3. QED
    BY <2>1, <2>2
<1>11. ASSUME NEW t \in Tables, Detach(t) PROVE Failures'
  <2> DEFINE p == Min(todo[t])
  <2>1. p \in Partitions
    BY <1>11, MinIsFirst DEF Detach, TypeOK
  <2>2. CASE UNCHANGED detached
    BY <1>0, <1>11, <2>2 DEF Detach, Goto, TypeOK
  <2>3. CASE /\ detached' = [detached EXCEPT ![t] = @ \cup {p}]
             /\ task' = [task EXCEPT ![t] = "attach"] \/ task' = [task EXCEPT ![t] = "save"]
             /\ UNCHANGED <<todo, exc, errors>>
    <3>0. detached'[t] = detached[t] \cup {p} /\ errors'[t] = errors[t]
      BY <1>0, <2>3
    <3>1. Cardinality(detached'[t]) <= errors'[t] + 1
      <4>1. Cardinality(detached[t]) <= errors[t]
        BY <1>11 DEF Detach
      <4>2. Cardinality(detached[t] \cup {p}) \in 0 .. Cardinality(detached[t]) + 1
        BY <2>1, DetachedAre
      <4>3. QED
        BY <1>0, <3>0, <4>1, <4>2
    <3>2. Min(todo'[t]) \in detached'[t]
      BY <1>0, <2>3
    <3>3. FailuresOf(t)'
      BY <1>0, <2>3, <3>1, <3>2
    <3>4. \A u \in Tables \ {t} : FailuresOf(u)'
      BY <1>0, <2>3
    <3>5. QED
      BY <3>3, <3>4
  <2>4. QED
    BY <1>11, <2>2, <2>3 DEF Detach, Goto
<1>12. ASSUME NEW t \in Tables, Attach(t) PROVE Failures'
  <2> DEFINE p == Min(todo[t])
  <2>1. p \in detached[t] /\ p \in Partitions
    BY <1>12 DEF Attach, TypeOK
  <2>2. CASE UNCHANGED detached
    BY <1>0, <1>12, <2>2 DEF Attach, Goto
  <2>3. CASE detached' = [detached EXCEPT ![t] = @ \ {p}]
    <3>1. Cardinality(detached'[t]) <= errors'[t]
      BY <1>0, <1>12, <2>1, <2>3, DetachedAre DEF Attach
    <3>2. task'[t] # "attach" /\ errors'[t] \in Nat /\ Cardinality(detached'[t]) \in Nat
      <4>1. task'[t] # "attach" /\ errors' = errors
        BY <1>0, <1>12 DEF Attach, Goto
      <4>2. Cardinality(detached[t] \ {p}) = Cardinality(detached[t]) - 1
        BY <2>1, DetachedAre
      <4>3. detached[t] # {} /\ Cardinality(detached[t] \ {p}) \in Nat
        BY <2>1, DeduplicateAssumption, FS_Subset, FS_RemoveElement,
           FS_CardinalityType DEF TypeOK
      <4>4. QED
        BY <1>0, <2>3, <4>1, <4>3
    <3>3. FailuresOf(t)'
      BY <3>1, <3>2
    <3>4. \A u \in Tables \ {t} : FailuresOf(u)'
      BY <1>0, <1>12, <2>3 DEF Attach, Goto, TypeOK
    <3>5. QED
      BY <3>3, <3>4
  <2>4. QED
    BY <1>12, <2>2, <2>3 DEF Attach
<1>13. ASSUME NEW t \in Tables, SavePartition(t) PROVE Failures'
  BY <1>0, <1>13 DEF SavePartition, Unwind, Goto
<1>14. ASSUME NEW t \in Tables, SyncReplicas(t) PROVE Failures'
  <2>1. FailuresOf(t)'
    BY <1>0, <1>14 DEF SyncReplicas, Unwind, Goto
  <2>2. \A u \in Tables \ {t} : FailuresOf(u)'
    BY <1>0, <1>14 DEF SyncReplicas, Unwind, Goto, TypeOK
  <2>3. QED
    BY <2>1, <2>2
<1>15. ASSUME NEW t \in Tables, Disable(t) PROVE Failures'
  BY <1>0, <1>15 DEF Disable, EndFailed, Goto
<1>16. ASSUME NEW t \in Tables, MarkDone(t) PROVE Failures'
  BY <1>0, <1>16 DEF MarkDone, EndFailed, EndedWell, Goto
<1>17. CASE Kill
  BY <1>0, <1>17 DEF Kill, NoTasks, Running
<1>18. CASE UNCHANGED vars
  BY <1>18 DEF vars
<1>19. QED
  BY <1>1, <1>2, <1>3, <1>4, <1>5, <1>6, <1>7, <1>8, <1>9, <1>10, <1>11,
     <1>12, <1>13, <1>14, <1>15, <1>16, <1>17, <1>18 DEF Next, Main, Task

\* At most one partition per failure is left detached: a task works on one
\* partition at a time and stops at the first error.
THEOREM FewAreLeftDetached == Spec => []OnePartitionPerFailure
<1>1. Init => TypeOK /\ Positions /\ Failures
  <2> SUFFICES ASSUME Init PROVE TypeOK /\ Positions /\ Failures
    OBVIOUS
  <2>1. TypeOK /\ Positions
    BY InitType DEF Init, Positions
  <2>2. \A t \in Tables : detached[t] = {} /\ errors[t] = 0 /\ task[t] = "none"
    BY DEF Init
  <2>3. QED
    BY <2>1, <2>2, FS_EmptySet DEF Failures, FailuresOf
<1>2. TypeOK /\ Positions /\ Failures /\ [Next]_vars
      => (TypeOK /\ Positions /\ Failures)'
  BY NextType, NextPositions, NextFailures
<1>3. TypeOK /\ Failures => OnePartitionPerFailure
  <2> SUFFICES ASSUME TypeOK, Failures, NEW t \in Tables
               PROVE  Cardinality(detached[t]) <=
                          errors[t] + IF exc[t] \/ task[t] \in {"attach", "save"}
                                      THEN 1 ELSE 0
    BY DEF OnePartitionPerFailure
  <2>1. Cardinality(detached[t]) \in Nat /\ errors[t] \in Nat
    BY DetachedAre
  <2>2. CASE exc[t] \/ task[t] \in {"attach", "save"}
    BY <2>2 DEF Failures, FailuresOf
  <2>3. CASE ~(exc[t] \/ task[t] \in {"attach", "save"})
    BY <2>1, <2>3 DEF Failures, FailuresOf
  <2>4. QED
    BY <2>2, <2>3
<1>4. QED
  BY <1>1, <1>2, <1>3, PTL DEF Spec

-----------------------------------------------------------------------------
(* What is deduplicated *)

\* What a table still has to have copied.
Shared(t) == (asked[t] \ detached[t]) \ own[t]

\* A run is asked for all that it and the runs it goes on from are asked for.
AskedOfThis ==
    pc # "idle" /\ ~opt.dry => \A t \in Tables : asked[t] \subseteq AskedBy(opt)[t]

\* A task that has listed the partitions of its table has in todo all that it
\* still has to copy, and nothing is left when it ends without an error.
WorkIsListed ==
    \A t \in Tables :
        ~opt.dry /\ ~exc[t]
        /\ task[t] \in {"clear", "detach", "attach", "save",
                        "disable", "disabling", "restored", "done"}
            => Shared(t) \subseteq todo[t]

\* What makes a run skip a table, or the first partitions of one, and what
\* makes it end without an error, is true of what is left to copy.
SkippedIsCopied ==
    /\ \A t \in done : Shared(t) = {}
    /\ \A t \in Tables : saved[t] # 0 => \A p \in Shared(t) : p >= saved[t]
    /\ \A t \in Tables : pc = "run" /\ ~opt.dry /\ task[t] = "none" => Shared(t) = {}
    /\ pc = "forget" /\ ~opt.dry => \A t \in Tables : Shared(t) = {}

Copies == /\ TypeOK /\ Positions /\ Settings /\ AskedOfThis
          /\ WorkIsListed /\ SkippedIsCopied

\* A run stays within what it is asked for.
LEMMA NextAsked == TypeOK /\ AskedOfThis /\ [Next]_vars => AskedOfThis'
<1> SUFFICES ASSUME TypeOK, AskedOfThis, [Next]_vars PROVE AskedOfThis'
  OBVIOUS
<1>1. ASSUME NEW o \in Options, Start(o) PROVE AskedOfThis'
  <2>1. opt' = o /\ \A t \in Tables :
            ~o.dry => asked'[t] = IF NothingSaved(t) THEN AskedBy(o)[t]
                                  ELSE asked[t] \cap AskedBy(o)[t]
    BY <1>1 DEF Start
  <2>2. AskedBy(opt)' = AskedBy(o)
    BY <2>1 DEF AskedBy
  <2>3. QED
    BY <2>1, <2>2 DEF AskedOfThis
<1>2. CASE IgnoreState
  <2>1. opt' = opt /\ (~opt.dry => asked' = AskedBy(opt))
    BY <1>2 DEF IgnoreState
  <2>2. QED
    BY <2>1 DEF AskedOfThis, AskedBy
<1>3. CASE UNCHANGED <<asked, opt>> /\ (pc' # "idle" => pc # "idle")
  <2>1. AskedBy(opt)' = AskedBy(opt)
    BY <1>3 DEF AskedBy
  <2>2. QED
    BY <1>3, <2>1 DEF AskedOfThis
<1>4. QED
  BY <1>1, <1>2, <1>3 DEF Next, Main, Task, SelectTables, CollectResults, ForgetState,
     Abort, TakeTask, Enable, ListPartitions, ClearSaved, Detach, Attach, SavePartition,
     SyncReplicas, Disable, MarkDone, Kill, vars

\* The partitions that get_partitions lists, from the smaller of the option and
\* the saved one on, are all that are not copied yet.
LEMMA NothingIsOverlooked ==
    ASSUME Copies, NEW t \in Tables, NEW outdated, pc # "idle", ~opt.dry
    PROVE  Shared(t) \subseteq
               {p \in (Partitions \ detached[t]) \cup outdated :
                   p \in opt.only /\ p >= MinPartition(t)}
<1> SUFFICES ASSUME NEW p \in Shared(t)
             PROVE  p \in Partitions /\ p \in opt.only /\ p >= MinPartition(t)
  BY DEF Shared
<1>1. p \in Partitions /\ p \in opt.only /\ p >= opt.min
  BY DEF Shared, Copies, AskedOfThis, AskedBy
<1>2. p \in Nat /\ opt.min \in Nat /\ MinPartition(t) \in Nat /\ saved[t] \in Nat
  BY <1>1, PartitionsAreNumbers, OptionsAre, MinPartitionIs DEF Copies, TypeOK
<1>3. saved[t] # 0 => p >= saved[t]
  BY DEF Copies, SkippedIsCopied
<1>4. QED
  BY <1>1, <1>2, <1>3, MinPartitionIs DEF Copies

\* Every step keeps what a task has to do in its list.
LEMMA NextWork == Copies /\ [Next]_vars => WorkIsListed'
<1> SUFFICES ASSUME Copies, [Next]_vars PROVE WorkIsListed'
  OBVIOUS
<1> USE DEF Copies, WorkIsListed, Shared, Positions, TypeOK, TaskLabels, Ended,
            clickhouse, zookeeper
<1>1. ASSUME NEW o \in Options, Start(o) PROVE WorkIsListed'
  BY <1>1 DEF Start
<1>2. CASE IgnoreState
  BY <1>2 DEF IgnoreState
<1>3. CASE SelectTables
  BY <1>3 DEF SelectTables
<1>4. CASE CollectResults
  BY <1>4 DEF CollectResults, NoTasks
<1>5. CASE ForgetState
  BY <1>5 DEF ForgetState
<1>6. CASE Abort
  BY <1>6 DEF Abort
<1>7. ASSUME NEW t \in Tables, TakeTask(t) PROVE WorkIsListed'
  BY <1>7 DEF TakeTask, Goto
<1>8. ASSUME NEW t \in Tables, Enable(t) PROVE WorkIsListed'
  BY <1>8 DEF Enable, EndFailed, Goto
<1>9. ASSUME NEW t \in Tables, ListPartitions(t) PROVE WorkIsListed'
  <2>1. Shared(t)' = Shared(t) /\ exc[t] = FALSE
    BY <1>9 DEF ListPartitions
  <2>2. Unwind(t) \/ opt.dry \/ Shared(t) \subseteq todo'[t]
    BY <1>9, NothingIsOverlooked DEF ListPartitions
  <2>3. Shared(t) \subseteq todo'[t] \/ exc'[t] \/ opt'.dry
    BY <1>9, <2>2 DEF Unwind, ListPartitions
  <2>4. \A u \in Tables \ {t} :
            exc'[u] = exc[u] /\ task'[u] = task[u] /\ todo'[u] = todo[u]
    BY <1>9 DEF ListPartitions, Unwind, Goto
  <2>5. QED
    BY <1>9, <2>1, <2>3, <2>4 DEF ListPartitions
<1>10. ASSUME NEW t \in Tables, ClearSaved(t) PROVE WorkIsListed'
  BY <1>10 DEF ClearSaved, Unwind, Goto
<1>11. ASSUME NEW t \in Tables, Detach(t) PROVE WorkIsListed'
  BY <1>11 DEF Detach, Goto
<1>12. ASSUME NEW t \in Tables, Attach(t) PROVE WorkIsListed'
  BY <1>12 DEF Attach, Goto, Settings
<1>13. ASSUME NEW t \in Tables, SavePartition(t) PROVE WorkIsListed'
  BY <1>13 DEF SavePartition, Unwind, Goto
<1>14. ASSUME NEW t \in Tables, SyncReplicas(t) PROVE WorkIsListed'
  BY <1>14 DEF SyncReplicas, Unwind, Goto
<1>15. ASSUME NEW t \in Tables, Disable(t) PROVE WorkIsListed'
  BY <1>15 DEF Disable, EndFailed, Goto
<1>16. ASSUME NEW t \in Tables, MarkDone(t) PROVE WorkIsListed'
  BY <1>16 DEF MarkDone, EndFailed, EndedWell, Goto
<1>17. CASE Kill
  BY <1>17 DEF Kill, NoTasks
<1>18. CASE UNCHANGED vars
  BY <1>18 DEF vars
<1>19. QED
  BY <1>1, <1>2, <1>3, <1>4, <1>5, <1>6, <1>7, <1>8, <1>9, <1>10, <1>11,
     <1>12, <1>13, <1>14, <1>15, <1>16, <1>17, <1>18 DEF Next, Main, Task

\* Every step keeps what it skips copied.
LEMMA NextSkipped == Copies /\ [Next]_vars => SkippedIsCopied'
<1> SUFFICES ASSUME Copies, [Next]_vars PROVE SkippedIsCopied'
  OBVIOUS
<1> USE DEF Copies, SkippedIsCopied, Shared, Positions, TypeOK, TaskLabels, Ended,
            clickhouse, zookeeper
<1>1. ASSUME NEW o \in Options, Start(o) PROVE SkippedIsCopied'
  <2>1. ASSUME NEW t \in Tables, ~NothingSaved(t) PROVE asked'[t] \subseteq asked[t]
    BY <1>1, <2>1 DEF Start
  <2>2. ASSUME NEW t \in Tables, ~NothingSaved(t) PROVE Shared(t)' \subseteq Shared(t)
    BY <1>1, <2>1, <2>2 DEF Start
  <2>3. QED
    BY <1>1, <2>2 DEF Start, NothingSaved
<1>2. CASE IgnoreState
  BY <1>2 DEF IgnoreState, DeleteRoot
<1>3. CASE SelectTables
  <2>1. ASSUME NEW t \in Tables, task'[t] = "none", ~opt.dry PROVE Shared(t) = {}
    <3>1. t \notin opt.tables \/ ~HasData(t) \/ t \in done
      BY <1>3, <2>1 DEF SelectTables
    <3>2. asked[t] \subseteq {p \in Partitions : t \in opt.tables}
      BY <1>3, <2>1 DEF SelectTables, AskedOfThis, AskedBy
    <3>3. QED
      BY <3>1, <3>2 DEF HasData
  <2>2. QED
    BY <1>3, <2>1 DEF SelectTables
<1>4. CASE CollectResults
  BY <1>4 DEF CollectResults, NoTasks, AllEnded, SomeFailed, WorkIsListed
<1>5. CASE ForgetState
  BY <1>5 DEF ForgetState, DeleteRoot
<1>6. CASE Abort
  <2>1. done' \in SUBSET done /\ pc' = "idle" /\ UNCHANGED <<own, detached, asked>>
    BY <1>6 DEF Abort
  <2>2. \A t \in Tables : saved'[t] = 0 \/ saved'[t] = saved[t]
    <3>1. UNCHANGED saved \/ \E gone \in SUBSET Tables :
              saved' = [t \in Tables |-> IF t \in gone THEN 0 ELSE saved[t]]
      BY <1>6 DEF Abort
    <3>2. QED
      BY <3>1
  <2>3. QED
    BY <2>1, <2>2
<1>7. ASSUME NEW t \in Tables, TakeTask(t) PROVE SkippedIsCopied'
  BY <1>7 DEF TakeTask, Goto
<1>8. ASSUME NEW t \in Tables, Enable(t) PROVE SkippedIsCopied'
  BY <1>8 DEF Enable, EndFailed, Goto
<1>9. ASSUME NEW t \in Tables, ListPartitions(t) PROVE SkippedIsCopied'
  BY <1>9 DEF ListPartitions, Unwind, Goto
<1>10. ASSUME NEW t \in Tables, ClearSaved(t) PROVE SkippedIsCopied'
  BY <1>10 DEF ClearSaved, Unwind, Goto
<1>11. ASSUME NEW t \in Tables, Detach(t) PROVE SkippedIsCopied'
  BY <1>11 DEF Detach, Goto
<1>12. ASSUME NEW t \in Tables, Attach(t) PROVE SkippedIsCopied'
  BY <1>12 DEF Attach, Goto, Settings
<1>13. ASSUME NEW t \in Tables, SavePartition(t) PROVE SkippedIsCopied'
  BY <1>13, MinIsFirst DEF SavePartition, FailedPartition, Unwind, Goto, WorkIsListed
<1>14. ASSUME NEW t \in Tables, SyncReplicas(t) PROVE SkippedIsCopied'
  BY <1>14 DEF SyncReplicas, Unwind, Goto
<1>15. ASSUME NEW t \in Tables, Disable(t) PROVE SkippedIsCopied'
  BY <1>15 DEF Disable, EndFailed, Goto
<1>16. ASSUME NEW t \in Tables, MarkDone(t) PROVE SkippedIsCopied'
  BY <1>16 DEF MarkDone, EndFailed, EndedWell, Goto, WorkIsListed
<1>17. CASE Kill
  BY <1>17 DEF Kill, NoTasks
<1>18. CASE UNCHANGED vars
  BY <1>18 DEF vars
<1>19. QED
  BY <1>1, <1>2, <1>3, <1>4, <1>5, <1>6, <1>7, <1>8, <1>9, <1>10, <1>11,
     <1>12, <1>13, <1>14, <1>15, <1>16, <1>17, <1>18 DEF Next, Main, Task

\* Every initial state has it.
LEMMA InitCopies == Init => Copies
<1> SUFFICES ASSUME Init PROVE Copies
  OBVIOUS
<1>1. TypeOK
  BY InitType
<1>2. /\ \A t \in Tables : task[t] = "none" /\ saved[t] = 0 /\ ~exc[t]
      /\ done = {} /\ pc = "idle"
  BY DEF Init
<1>3. QED
  BY <1>1, <1>2 DEF Copies, Positions, Settings, AskedOfThis, WorkIsListed, SkippedIsCopied

\* Every step keeps it.
LEMMA NextCopies == Copies /\ [Next]_vars => Copies'
  BY NextType, NextPositions, NextSettings, NextAsked, NextWork, NextSkipped DEF Copies

\* Nothing of a table that the next run will skip as done still shares its
\* data, of what all the runs that made its saved state were asked for,
\* whatever failed and whenever the command was killed.
THEOREM DoneTablesAreCopied == Spec => []DoneIsDeduplicated
<1>1. Copies => DoneIsDeduplicated
  BY DEF Copies, SkippedIsCopied, DoneIsDeduplicated, Shared
<1>2. QED
  BY <1>1, InitCopies, NextCopies, PTL DEF Spec

\* Nor does what the next run will skip because of the saved partition.
THEOREM SkippedPartitionsAreCopied == Spec => []SavedSkipsOnlyDeduplicated
<1>1. Copies => SavedSkipsOnlyDeduplicated
  <2> SUFFICES ASSUME Copies, NEW t \in Tables, saved[t] # 0,
                      NEW p \in asked[t] \ detached[t], p < saved[t]
               PROVE  p \in own[t]
    BY DEF SavedSkipsOnlyDeduplicated
  <2>1. p \in Nat /\ saved[t] \in Nat
    BY PartitionsAreNumbers DEF Copies, TypeOK
  <2>2. QED
    BY <2>1 DEF Copies, SkippedIsCopied, Shared
<1>2. QED
  BY <1>1, InitCopies, NextCopies, PTL DEF Spec

\* A run that ends without an error, and deletes the saved state, leaves
\* nothing to copy of what it and the runs it goes on from were asked for.
THEOREM CompletedRunsHaveCopied == Spec => CompletedIsDeduplicated
<1>1. Copies /\ [Next]_vars =>
        [pc = "forget" /\ doneNode /\ ~doneNode' =>
             \A t \in Tables : asked[t] \ detached[t] \subseteq own[t]]_vars
  <2> SUFFICES ASSUME Copies, Next, pc = "forget", doneNode, ~doneNode'
               PROVE  \A t \in Tables : asked[t] \ detached[t] \subseteq own[t]
    OBVIOUS
  <2>1. ASSUME opt.dry PROVE FALSE
    <3>1. UNCHANGED doneNode \/ ~ (ForgetState \/ Abort)
      BY <2>1 DEF ForgetState, Abort, DeleteRoot, zookeeper
    <3>2. \A t \in Tables : task[t] = "none"
      BY DEF Copies, Positions
    <3>3. ~ (\E t \in Tables : Task(t))
      BY <3>2 DEF Task, TakeTask, Enable, ListPartitions, ClearSaved, Detach,
         Attach, SavePartition, SyncReplicas, Disable, MarkDone
    <3>4. UNCHANGED doneNode
      BY <3>1, <3>3 DEF Next, Main, Start, IgnoreState, SelectTables,
         CollectResults, ForgetState, Abort, Kill, zookeeper
    <3>5. QED
      BY <3>4
  <2>2. QED
    BY <2>1 DEF Copies, SkippedIsCopied, Shared
<1>2. QED
  BY <1>1, InitCopies, NextCopies, PTL DEF Spec, CompletedIsDeduplicated
=============================================================================
