------------------------ MODULE ZeroCopyLocksProofs ------------------------
(***************************************************************************)
(* The tasks of create-zero-copy-locks, proved for any number of parts,    *)
(* replicas and workers, whatever the servers and the cleanup commands of  *)
(* other starts do: a lock is created together with the check of its part, *)
(* and the tasks of one command never use up each other's attempts, unless *)
(* the command names a replica twice.                                      *)
(***************************************************************************)
EXTENDS ZeroCopyLocks, SequenceTheorems, TLAPS

\* The parts that get a task.
Locked == {k \in Parts : k.uuid \in SharedId}

Depth == Len(NewRoot)

\* The directory of a part's locks and its parents: the first i names of it.
BlobNode(k) == PartNode(k) \o <<k.blob>>
Dir(k, i) == SubSeq(BlobNode(k), 1, i)

PrefixClosed(t) == \A n \in t : WithParents(n) \subseteq t

\* The parts whose presence a task checks.
PartPaths == {PartPath(k, r) : k \in Locked, r \in Range(ReplicasToLock)}

TaskType == [pc : {"new", "look", "parents", "commit", "done", "failed"},
             left : Seq(STRING), want : SUBSET Seq(STRING), twice : BOOLEAN,
             checks : SUBSET PartPaths, stale : SUBSET PartPaths,
             parents : SUBSET Seq(STRING), value : BOOLEAN, attempt : Nat]

LocksType ==
    /\ options \in LockOptions
    /\ creators \in [Locked -> TaskType]
    /\ env = [steps |-> env.steps, runs |-> env.runs, dropped |-> env.dropped]
    /\ env.steps \in Nat

\* The command creates locks from its start to its end, and nothing else deletes or
\* creates meanwhile but the servers; the other commands start no task.
OneCommand ==
    /\ command.kind = "create" => pc \in {"create", "ended", "failed"} /\ del.phase = "none"
    /\ command.kind # "create" => pc # "create" /\ \A k \in Locked : creators[k] = NewTask

\* A lock that a task wants comes with the check of its part, and the parents it
\* wants are directories above its locks.
TaskShape(k) ==
    LET c == creators[k]
    IN  /\ Range(c.left) \subseteq Range(ReplicasToLock)
        /\ \A l \in c.want : \E r \in Range(ReplicasToLock) :
              l = LockPath(k, r) /\ (options.check => PartPath(k, r) \in c.checks)
        /\ c.pc = "commit" => \A n \in c.parents : \E i \in 1..(Depth + 3) : n = Dir(k, i)

\* What a task may rely on while only tasks write: its locks are missing and its
\* parts are there; a directory that another task created since it looked is shared,
\* the first one among them the root of the locks.  Hence a second attempt finds the
\* root, and a third one the directory of the table.
Undisturbed(k) ==
    LET c == creators[k]
    IN  /\ c.pc # "failed"
        /\ c.attempt >= 2 => \A i \in 1..Depth : Dir(k, i) \in tree
        /\ c.attempt >= 3 => Dir(k, Depth + 1) \in tree
        /\ c.pc = "look" =>
              IsInjective(c.left) /\ \A r \in Range(c.left) : LockPath(k, r) \notin c.want
        /\ c.pc \in {"look", "parents", "commit"} =>
              c.want \cap tree = {} /\ c.checks \subseteq tree /\ ~c.twice /\ c.stale = {}
        /\ c.pc \in {"parents", "commit"} => c.want # {}
        /\ c.pc = "commit" =>
              \A i \in 1..(Depth + 3) :
                  /\ Dir(k, i) \in tree \cup c.parents
                  /\ Dir(k, i) \in tree \cap c.parents =>
                        i <= Depth + 1 /\ \A h \in 1..Depth : Dir(k, h) \in tree
                  /\ Dir(k, i) \in c.parents /\ c.attempt >= 2 => i >= Depth + 1
                  /\ Dir(k, i) \in c.parents /\ c.attempt >= 3 => i >= Depth + 2

\* No server has written, and every replica is named once.
Alone == env.steps = 0 /\ IsInjective(ReplicasToLock)

LocksInv ==
    /\ LocksType
    /\ OneCommand
    /\ \A k \in Locked : TaskShape(k)
    /\ command.kind = "create" /\ Alone =>
          PrefixClosed(tree) /\ \A k \in Locked : Undisturbed(k)


---------------------------------------------------------------------------
(* Paths *)

\* What is known of the constants.
LEMMA PartFacts ==
    ASSUME NEW k \in Parts
    PROVE  k.uuid \in STRING /\ k.part \in STRING /\ k.blob \in STRING /\ k.table \in Seq(STRING)
BY PartsAssumption

\* The root of the locks is a path.
LEMMA RootFacts == NewRoot \in Seq(STRING) /\ Depth \in Nat
BY LockOptionsAssumption DEF Depth

\* Short sequences.
LEMMA TupleFacts ==
    ASSUME NEW S, NEW a \in S
    PROVE  /\ <<>> \in Seq(S) /\ <<a>> \in Seq(S)
OBVIOUS

\* The replicas are names.
LEMMA ReplicaFacts ==
    ASSUME options \in LockOptions
    PROVE  /\ ReplicasToLock \in Seq(STRING)
           /\ Range(ReplicasToLock) \subseteq STRING
<1>1. options \in Options
    BY LockOptionsAssumption
<1>2. options.replicas \in Seq(STRING)
    BY <1>1 DEF Options
<1>3. <<Macro>> \in Seq(STRING) /\ <<>> \in Seq(STRING) /\ SystemReplicas \in Seq(STRING)
    BY LockOptionsAssumption, TupleFacts
<1>4. ReplicasToLock \in Seq(STRING)
    <2> DEFINE macro == IF options.replicas = <<>> \/ options.macro THEN <<Macro>> ELSE <<>>
               chosen == options.replicas \o macro
    <2>1. macro \in Seq(STRING)
        BY <1>3
    <2>2. chosen \in Seq(STRING)
        BY <1>2, <2>1
    <2>3. ReplicasToLock \in {SystemReplicas, <<>>, chosen}
        BY DEF ReplicasToLock
    <2> QED
        BY <1>3, <2>2, <2>3
<1> QED
    BY <1>4 DEF Range

\* The directories of a part.
LEMMA DirFacts ==
    ASSUME NEW k \in Parts
    PROVE  /\ BlobNode(k) \in Seq(STRING) /\ Len(BlobNode(k)) = Depth + 3
           /\ PartNode(k) \in Seq(STRING) /\ Len(PartNode(k)) = Depth + 2
           /\ \A i \in 1..Depth : BlobNode(k)[i] = NewRoot[i]
           /\ BlobNode(k)[Depth + 1] = k.uuid
           /\ BlobNode(k)[Depth + 2] = k.part
           /\ BlobNode(k)[Depth + 3] = k.blob
           /\ \A i \in 1..(Depth + 3) :
                 /\ Dir(k, i) \in Seq(STRING) /\ Len(Dir(k, i)) = i
                 /\ \A x \in 1..i : Dir(k, i)[x] = BlobNode(k)[x]
<1>1. k.uuid \in STRING /\ k.part \in STRING /\ k.blob \in STRING
    BY PartFacts
<1>2. NewRoot \in Seq(STRING) /\ Depth \in Nat
    BY RootFacts
<1>3. /\ PartNode(k) \in Seq(STRING) /\ Len(PartNode(k)) = Depth + 2
      /\ \A i \in 1..Depth : PartNode(k)[i] = NewRoot[i]
      /\ PartNode(k)[Depth + 1] = k.uuid
      /\ PartNode(k)[Depth + 2] = k.part
    BY <1>1, <1>2 DEF PartNode, Depth
<1>4. /\ BlobNode(k) \in Seq(STRING) /\ Len(BlobNode(k)) = Depth + 3
      /\ \A i \in 1..(Depth + 2) : BlobNode(k)[i] = PartNode(k)[i]
      /\ BlobNode(k)[Depth + 3] = k.blob
    BY <1>1, <1>2, <1>3 DEF BlobNode
<1>5. ASSUME NEW i \in 1..(Depth + 3)
      PROVE  /\ Dir(k, i) \in Seq(STRING) /\ Len(Dir(k, i)) = i
             /\ \A x \in 1..i : Dir(k, i)[x] = BlobNode(k)[x]
    BY <1>2, <1>4, SubSeqProperties DEF Dir
<1> QED
    BY <1>2, <1>3, <1>4, <1>5

\* Two sequences with the same elements are equal.
LEMMA SameSequence ==
    ASSUME NEW s \in Seq(STRING), NEW t \in Seq(STRING), Len(s) = Len(t),
           \A i \in 1..Len(s) : s[i] = t[i]
    PROVE  s = t
OBVIOUS

\* The locks of a part lie in its directory.
LEMMA LockFacts ==
    ASSUME NEW k \in Parts, NEW r \in STRING
    PROVE  /\ LockPath(k, r) \in Seq(STRING) /\ Len(LockPath(k, r)) = Depth + 4
           /\ \A i \in 1..(Depth + 3) : SubSeq(LockPath(k, r), 1, i) = Dir(k, i)
           /\ Front(LockPath(k, r)) = Dir(k, Depth + 3)
           /\ LockPath(k, r)[Depth + 1] = k.uuid
           /\ LockPath(k, r)[Depth + 2] = k.part
           /\ LockPath(k, r)[Depth + 4] = r
<1>1. k.uuid \in STRING /\ k.part \in STRING /\ k.blob \in STRING /\ k.table \in Seq(STRING)
    BY PartFacts
<1>2. NewRoot \in Seq(STRING) /\ Depth \in Nat
    BY RootFacts
<1>3. /\ BlobNode(k) \in Seq(STRING) /\ Len(BlobNode(k)) = Depth + 3
      /\ PartNode(k) \in Seq(STRING) /\ Len(PartNode(k)) = Depth + 2
      /\ BlobNode(k)[Depth + 1] = k.uuid
      /\ BlobNode(k)[Depth + 2] = k.part
    BY DirFacts
<1>4. /\ LockPath(k, r) \in Seq(STRING) /\ Len(LockPath(k, r)) = Depth + 4
      /\ LockPath(k, r)[Depth + 4] = r
      /\ LockPath(k, r)[Depth + 3] = k.blob
      /\ \A i \in 1..(Depth + 2) : LockPath(k, r)[i] = PartNode(k)[i]
    BY <1>1, <1>2, <1>3 DEF LockPath
<1>5. /\ BlobNode(k)[Depth + 3] = k.blob
      /\ \A i \in 1..(Depth + 2) : BlobNode(k)[i] = PartNode(k)[i]
    BY <1>1, <1>2, <1>3 DEF BlobNode
<1>6. \A i \in 1..(Depth + 3) : LockPath(k, r)[i] = BlobNode(k)[i]
    BY <1>2, <1>4, <1>5
<1>7. ASSUME NEW i \in 1..(Depth + 3)
      PROVE  SubSeq(LockPath(k, r), 1, i) = Dir(k, i)
    <2>1. /\ SubSeq(LockPath(k, r), 1, i) \in Seq(STRING)
          /\ Len(SubSeq(LockPath(k, r), 1, i)) = i
          /\ \A x \in 1..i : SubSeq(LockPath(k, r), 1, i)[x] = LockPath(k, r)[x]
        BY <1>2, <1>4, SubSeqProperties
    <2>2. /\ Dir(k, i) \in Seq(STRING) /\ Len(Dir(k, i)) = i
          /\ \A x \in 1..i : Dir(k, i)[x] = BlobNode(k)[x]
        BY DirFacts
    <2>3. \A x \in 1..i : LockPath(k, r)[x] = BlobNode(k)[x]
        <3>1. 1..i \subseteq 1..(Depth + 3)
            BY <1>2
        <3> QED
            BY <3>1, <1>6
    <2> QED
        BY <2>1, <2>2, <2>3, SameSequence
<1>8. Front(LockPath(k, r)) = Dir(k, Depth + 3)
    BY <1>2, <1>4, <1>7 DEF Front
<1>9. LockPath(k, r)[Depth + 1] = k.uuid /\ LockPath(k, r)[Depth + 2] = k.part
    BY <1>2, <1>3, <1>6
<1> QED
    BY <1>4, <1>7, <1>8, <1>9

\* A lock is wanted by one task only, and a directory is no lock.
LEMMA LocksDiffer ==
    ASSUME NEW k \in Parts, NEW j \in Parts, NEW r \in STRING, NEW s \in STRING
    PROVE  /\ LockPath(k, r) = LockPath(j, s) => k = j /\ r = s
           /\ \A i \in 1..(Depth + 3) : Dir(j, i) # LockPath(k, r)
<1>1. k.uuid = j.uuid /\ k.part = j.part => k = j
    BY PartsAssumption
<1>2. Depth \in Nat
    BY RootFacts
<1>3. /\ LockPath(k, r)[Depth + 1] = k.uuid /\ LockPath(j, s)[Depth + 1] = j.uuid
      /\ LockPath(k, r)[Depth + 2] = k.part /\ LockPath(j, s)[Depth + 2] = j.part
      /\ LockPath(k, r)[Depth + 4] = r /\ LockPath(j, s)[Depth + 4] = s
      /\ Len(LockPath(k, r)) = Depth + 4
    BY LockFacts
<1>4. LockPath(k, r) = LockPath(j, s) => k = j /\ r = s
    BY <1>1, <1>3
<1>5. \A i \in 1..(Depth + 3) : Len(Dir(j, i)) # Depth + 4
    <2>1. \A i \in 1..(Depth + 3) : Len(Dir(j, i)) = i
        BY DirFacts
    <2> QED
        BY <1>2, <2>1
<1> QED
    BY <1>3, <1>4, <1>5

\* A directory that two tasks share is the one of the table or above it.
LEMMA SharedDirs ==
    ASSUME NEW k \in Parts, NEW j \in Parts,
           NEW i \in 1..(Depth + 3), NEW h \in 1..(Depth + 3), Dir(k, i) = Dir(j, h)
    PROVE  i = h /\ (i >= Depth + 2 => k = j)
<1>1. Depth \in Nat
    BY RootFacts
<1>2. i = h
    BY DirFacts
<1>3. CASE i >= Depth + 2
    <2>1. Depth + 1 \in 1..i /\ Depth + 2 \in 1..i
        BY <1>1, <1>3
    <2>2. k.uuid = j.uuid /\ k.part = j.part
        BY <1>2, <2>1, DirFacts
    <2> QED
        BY <1>2, <2>2, PartsAssumption
<1> QED
    BY <1>2, <1>3

\* The tasks share the root of the locks.
LEMMA RootIsShared ==
    ASSUME NEW k \in Parts, NEW j \in Parts, NEW i \in 1..Depth
    PROVE  Dir(k, i) = Dir(j, i)
<1>1. Depth \in Nat /\ i \in 1..(Depth + 3)
    BY RootFacts
<1>2. \A x \in 1..i : BlobNode(k)[x] = NewRoot[x] /\ BlobNode(j)[x] = NewRoot[x]
    <2>1. 1..i \subseteq 1..Depth
        BY <1>1
    <2> QED
        BY <2>1, DirFacts
<1> QED
    BY <1>1, <1>2, DirFacts, SameSequence

\* What lies above a directory, and above a lock.
LEMMA Above ==
    ASSUME NEW k \in Parts
    PROVE  /\ \A i \in 1..(Depth + 3) : WithParents(Dir(k, i)) = {Dir(k, h) : h \in 1..i}
           /\ \A i \in 1..(Depth + 3) : Len(Dir(k, i)) = 1 \/ Front(Dir(k, i)) = Dir(k, i - 1)
           /\ \A r \in STRING : WithParents(LockPath(k, r)) =
                                {LockPath(k, r)} \cup {Dir(k, h) : h \in 1..(Depth + 3)}
<1>1. Depth \in Nat
    BY RootFacts
<1>2. ASSUME NEW i \in 1..(Depth + 3), NEW h \in 1..i
      PROVE  SubSeq(Dir(k, i), 1, h) = Dir(k, h)
    <2>1. h \in 1..(Depth + 3) /\ h \in Nat
        BY <1>1
    <2>2. Dir(k, i) \in Seq(STRING) /\ Len(Dir(k, i)) = i
        BY DirFacts
    <2>3. /\ SubSeq(Dir(k, i), 1, h) \in Seq(STRING)
          /\ Len(SubSeq(Dir(k, i), 1, h)) = h
          /\ \A x \in 1..h : SubSeq(Dir(k, i), 1, h)[x] = Dir(k, i)[x]
        BY <2>1, <2>2, SubSeqProperties
    <2>4. \A x \in 1..h : Dir(k, i)[x] = BlobNode(k)[x] /\ Dir(k, h)[x] = BlobNode(k)[x]
        BY <1>1, <2>1, DirFacts
    <2>5. Dir(k, h) \in Seq(STRING) /\ Len(Dir(k, h)) = h
        BY <2>1, DirFacts
    <2> QED
        BY <2>3, <2>4, <2>5, SameSequence
<1>3. ASSUME NEW i \in 1..(Depth + 3)
      PROVE  WithParents(Dir(k, i)) = {Dir(k, h) : h \in 1..i}
    <2>1. Len(Dir(k, i)) = i
        BY DirFacts
    <2> QED
        BY <1>2, <2>1 DEF WithParents
<1>4. ASSUME NEW i \in 1..(Depth + 3)
      PROVE  Len(Dir(k, i)) = 1 \/ Front(Dir(k, i)) = Dir(k, i - 1)
    <2>1. Len(Dir(k, i)) = i
        BY DirFacts
    <2>2. CASE i > 1
        <3>1. i - 1 \in 1..i
            BY <1>1, <2>2
        <3> QED
            BY <1>2, <2>1, <3>1 DEF Front
    <2> QED
        BY <1>1, <2>1, <2>2
<1>5. ASSUME NEW r \in STRING
      PROVE  WithParents(LockPath(k, r)) =
             {LockPath(k, r)} \cup {Dir(k, h) : h \in 1..(Depth + 3)}
    <2>1. /\ Len(LockPath(k, r)) = Depth + 4 /\ LockPath(k, r) \in Seq(STRING)
          /\ \A i \in 1..(Depth + 3) : SubSeq(LockPath(k, r), 1, i) = Dir(k, i)
        BY LockFacts
    <2>2. SubSeq(LockPath(k, r), 1, Depth + 4) = LockPath(k, r)
        BY <2>1, SubSeqFull
    <2>3. 1..(Depth + 4) = (1..(Depth + 3)) \cup {Depth + 4}
        BY <1>1
    <2> QED
        BY <2>1, <2>2, <2>3 DEF WithParents
<1> QED
    BY <1>3, <1>4, <1>5

\* The parents of a lock that are missing in a tree that has the parents of its nodes.
LEMMA MissingFacts ==
    ASSUME NEW k \in Parts, NEW r \in STRING
    PROVE  MissingParents(LockPath(k, r)) =
           {Dir(k, i) : i \in {i \in 1..(Depth + 3) : \E h \in 1..i : Dir(k, h) \notin tree}}
<1>1. Depth \in Nat
    BY RootFacts
<1>2. /\ Len(LockPath(k, r)) = Depth + 4
      /\ \A i \in 1..(Depth + 3) : SubSeq(LockPath(k, r), 1, i) = Dir(k, i)
    BY LockFacts
<1>3. Len(LockPath(k, r)) - 1 = Depth + 3
    BY <1>1, <1>2
<1>4. \A i \in 1..(Depth + 3) : \A h \in 1..i : SubSeq(LockPath(k, r), 1, h) = Dir(k, h)
    <2>1. \A i \in 1..(Depth + 3) : 1..i \subseteq 1..(Depth + 3)
        BY <1>1
    <2> QED
        BY <1>2, <2>1
<1> QED
    BY <1>2, <1>3, <1>4 DEF MissingParents


---------------------------------------------------------------------------
(* The steps beside the tasks *)

\* While a command creates locks, only an error, a new start and the servers
\* interrupt its tasks; no other command gets to their place.
LEMMA StepsBeside ==
    ASSUME OneCommand, Next
    PROVE  /\ command' = command
           /\ Rerun \/ Server \/ env' = env
           /\ command.kind = "create" => CommandFails \/ Rerun \/ Server
           /\ command.kind # "create" => pc' # "create"
<1> DEFINE Goal == /\ command' = command
                   /\ Rerun \/ Server \/ env' = env
                   /\ command.kind = "create" => CommandFails \/ Rerun \/ Server
                   /\ command.kind # "create" => pc' # "create"
<1>c. /\ command.kind = "create" => pc \in {"create", "ended", "failed"} /\ del.phase = "none"
      /\ command.kind # "create" => pc # "create"
    BY DEF OneCommand
<1> USE <1>c
<1>1. CASE Inspect \/ Collect \/ (\E r \in DOMAIN tasks : DropReplica(r)) \/ Dropped
    BY <1>1 DEF Inspect, Collect, DropReplica, Dropped
<1>2. CASE DropOne \/ SharedIdRead \/ DdlList \/ DdlNext \/ DdlLook \/ DdlMark
    BY <1>2 DEF DropOne, SharedIdRead, DdlList, DdlNext, DdlLook, DdlMark
<1>3. CASE DdlWait \/ DdlDeleted \/ CleanLocks \/ WalkDeleted \/ WalkEnds
    BY <1>3 DEF DdlWait, DdlDeleted, CleanLocks, WalkDeleted, WalkEnds
<1>4. CASE WalkVisit \/ WalkLeave
    BY <1>4 DEF WalkVisit, WalkLeave, Yield
<1>5. CASE FindPaths \/ PathsFound \/ Deleted
    BY <1>5 DEF FindPaths, PathsFound, Deleted
<1>6. CASE Deletes
    <2>1. UNCHANGED cleanVars /\ del.phase # "none"
        BY <1>6 DEF Deletes, DeleteStep, DeleteLists, DeleteListed, DeleteTransaction,
                    DeleteBelow, DeleteSingle, DeleteSingles, DeleteReturns
    <2> QED
        BY <2>1 DEF cleanVars
<1>7. CASE ZooKeeperReplies
    BY <1>7 DEF ZooKeeperReplies
<1>8. CASE CommandFails
    BY <1>8 DEF CommandFails
<1>9. CASE Rerun
    BY <1>9 DEF Rerun, StartPc
<1>10. CASE Server
    BY <1>10 DEF Server
<1> QED
    BY <1>1, <1>2, <1>3, <1>4, <1>5, <1>6, <1>7, <1>8, <1>9, <1>10 DEF Next, CommandStep

\* The tasks at the start of a command.
LEMMA NewTasks ==
    ASSUME options \in LockOptions
    PROVE  /\ NewCreators \in [Locked -> TaskType]
           /\ \A k \in Locked : NewCreators[k] = NewTask
<1>1. NewTask \in TaskType
    BY TupleFacts DEF NewTask, TaskType
<1> QED
    BY <1>1 DEF NewCreators, Locked

\* A new task is as it should be, in every tree.
LEMMA NewTasksAreFine ==
    ASSUME NEW k \in Locked, creators[k] = NewTask
    PROVE  TaskShape(k) /\ Undisturbed(k)
<1>1. Range(<<>>) = {}
    BY DEF Range
<1> QED
    BY <1>1 DEF NewTask, TaskShape, Undisturbed

\* At first no task has started.
LEMMA InitHolds == LocksInit => LocksInv
<1> SUFFICES ASSUME LocksInit PROVE LocksInv
    OBVIOUS
<1> USE DEF LocksInit
<1>1. creators \in [Locked -> TaskType] /\ \A k \in Locked : creators[k] = NewTask
    BY NewTasks
<1>2. LocksType
    BY <1>1 DEF LocksType, Init
<1>3. OneCommand
    BY <1>1 DEF OneCommand, Init, StartPc, Begun, NoDelete
<1>4. PrefixClosed(tree)
    BY InitTreeAssumption DEF PrefixClosed, Init
<1> QED
    BY <1>1, <1>2, <1>3, <1>4, NewTasksAreFine DEF LocksInv

\* A step beside the tasks leaves them alone, or starts them anew.
LEMMA BesideKeeps == LocksInv /\ Beside(Next) => LocksInv'
<1> SUFFICES ASSUME LocksInv, Beside(Next) PROVE LocksInv'
    OBVIOUS
<1>1. /\ Next /\ options' = options
      /\ creators' = IF pc = "failed" THEN NewCreators ELSE creators
    BY DEF Beside
<1>2. LocksType /\ OneCommand
    BY DEF LocksInv
<1>3. /\ command' = command
      /\ Rerun \/ Server \/ env' = env
      /\ command.kind = "create" => CommandFails \/ Rerun \/ Server
      /\ command.kind # "create" => pc' # "create"
    BY <1>1, <1>2, StepsBeside
<1>4. /\ NewCreators \in [Locked -> TaskType]
      /\ \A k \in Locked : NewCreators[k] = NewTask
    BY <1>2, NewTasks DEF LocksType
<1>5. PartPaths' = PartPaths /\ ReplicasToLock' = ReplicasToLock
    BY <1>1 DEF PartPaths, ReplicasToLock
<1>6. /\ env' = [steps |-> env'.steps, runs |-> env'.runs, dropped |-> env'.dropped]
      /\ env'.steps \in Nat
      /\ Server => env'.steps # 0
      /\ ~Server => env'.steps = env.steps
    <2>1. CASE Rerun /\ ~Server
        BY <1>2, <2>1 DEF Rerun, LocksType
    <2>2. CASE Server
        <3>1. \/ env' = [env EXCEPT !.steps = @ + 1]
              \/ \E p : env' = [env EXCEPT !.steps = @ + 1, !.dropped = @ \cup Subtree(tree, p)]
            BY <2>2 DEF Server
        <3>2. \E d : env' = [steps |-> env.steps + 1, runs |-> env.runs, dropped |-> d]
            BY <1>2, <3>1 DEF LocksType
        <3>3. env.steps \in Nat
            BY <1>2 DEF LocksType
        <3> QED
            BY <2>2, <3>2, <3>3
    <2>3. CASE env' = env /\ ~Server
        BY <1>2, <2>3 DEF LocksType
    <2> QED
        BY <1>3, <2>1, <2>2, <2>3
<1>7. LocksType'
    BY <1>1, <1>2, <1>4, <1>5, <1>6 DEF LocksType, TaskType
<1>8. OneCommand'
    <2>1. ASSUME command.kind = "create"
          PROVE  pc' \in {"create", "ended", "failed"} /\ del'.phase = "none"
        <3>1. CASE CommandFails
            BY <3>1 DEF CommandFails, NoDelete
        <3>2. CASE Rerun
            BY <2>1, <3>2 DEF Rerun, StartPc, Begun, NoDelete
        <3>3. CASE Server
            BY <1>2, <2>1, <3>3 DEF Server, OneCommand
        <3> QED
            BY <1>3, <2>1, <3>1, <3>2, <3>3
    <2>2. ASSUME command.kind # "create"
          PROVE  \A k \in Locked : creators'[k] = NewTask
        <3>1. \A k \in Locked : creators[k] = NewTask
            BY <1>2, <2>2 DEF OneCommand
        <3> QED
            BY <1>1, <1>4, <3>1
    <2> QED
        BY <1>3, <2>1, <2>2 DEF OneCommand
<1>9. ASSUME NEW k \in Locked
      PROVE  TaskShape(k)'
    <2>1. CASE creators' = creators
        BY <1>1, <1>5, <2>1 DEF LocksInv, TaskShape, LockPath, PartPath, Dir
    <2>2. CASE creators' = NewCreators
        <3>1. creators'[k] = NewTask
            BY <1>4, <2>2
        <3>2. Range(<<>>) = {}
            BY DEF Range
        <3> QED
            BY <3>1, <3>2 DEF NewTask, TaskShape
    <2> QED
        BY <1>1, <2>1, <2>2
<1>10. ASSUME command'.kind = "create", Alone'
       PROVE  PrefixClosed(tree)' /\ \A k \in Locked : Undisturbed(k)'
    <2>1. ~Server /\ Alone /\ command.kind = "create"
        BY <1>3, <1>5, <1>6, <1>10 DEF Alone
    <2>2. CommandFails \/ Rerun
        BY <1>3, <2>1
    <2>3. tree' = tree
        BY <2>2 DEF CommandFails, Rerun
    <2>4. PrefixClosed(tree)'
        BY <2>1, <2>3 DEF LocksInv, PrefixClosed
    <2>5. ASSUME NEW k \in Locked
          PROVE  Undisturbed(k)'
        <3>1. CASE creators' = creators
            BY <1>1, <2>1, <2>3, <3>1 DEF LocksInv, Undisturbed, LockPath, PartNode, Dir, BlobNode
        <3>2. CASE creators' = NewCreators
            <4>1. creators'[k] = NewTask
                BY <1>4, <3>2
            <4> QED
                BY <4>1 DEF NewTask, Undisturbed
        <3> QED
            BY <1>1, <3>1, <3>2
    <2> QED
        BY <2>4, <2>5
<1> QED
    BY <1>7, <1>8, <1>9, <1>10 DEF LocksInv

\* The end of the command leaves the tasks and the tree alone.
LEMMA EndKeeps == LocksInv /\ CreateEnds => LocksInv'
<1> SUFFICES ASSUME LocksInv, CreateEnds PROVE LocksInv'
    OBVIOUS
<1>1. /\ UNCHANGED <<tree, del, command, env, options, creators>>
      /\ pc = "create" /\ pc' \in {"ended", "failed"}
    BY DEF CreateEnds, treeVars, lockVars
<1>2. ReplicasToLock' = ReplicasToLock /\ PartPaths' = PartPaths
    BY <1>1 DEF ReplicasToLock, PartPaths
<1>3. LocksType' /\ OneCommand'
    BY <1>1, <1>2 DEF LocksInv, LocksType, TaskType, OneCommand
<1>4. \A k \in Locked : TaskShape(k)'
    BY <1>1, <1>2 DEF LocksInv, TaskShape
<1>5. \A k \in Locked : Undisturbed(k) => Undisturbed(k)'
    BY <1>1 DEF Undisturbed
<1>6. PrefixClosed(tree) => PrefixClosed(tree)'
    BY <1>1 DEF PrefixClosed
<1>7. Alone' <=> Alone
    BY <1>1, <1>2 DEF Alone
<1> QED
    BY <1>1, <1>3, <1>4, <1>5, <1>6, <1>7 DEF LocksInv


---------------------------------------------------------------------------
(* The steps of the tasks *)

\* A step of a task that leaves the tree alone is about this task only.
LEMMA OneTaskChanges ==
    ASSUME LocksInv, pc = "create", NEW k \in Locked, NEW c \in TaskType,
           creators' = [creators EXCEPT ![k] = c],
           UNCHANGED <<options, tree, del, command, pc, env>>,
           TaskShape(k)', Alone => Undisturbed(k)'
    PROVE  LocksInv'
<1>1. command.kind = "create" /\ LocksType
    BY DEF LocksInv, OneCommand
<1>2. creators \in [Locked -> TaskType]
    BY <1>1 DEF LocksType
<1>3. ReplicasToLock' = ReplicasToLock /\ PartPaths' = PartPaths
    BY DEF ReplicasToLock, PartPaths
<1>4. LocksType'
    BY <1>1, <1>2, <1>3 DEF LocksType, TaskType
<1>5. OneCommand'
    BY <1>1 DEF LocksInv, OneCommand
<1>6. \A j \in Locked : j # k => creators'[j] = creators[j]
    BY <1>2
<1>7. \A j \in Locked : TaskShape(j)'
    <2> SUFFICES ASSUME NEW j \in Locked, j # k PROVE TaskShape(j)'
        OBVIOUS
    <2> QED
        BY <1>3, <1>6 DEF LocksInv, TaskShape
<1>8. ASSUME Alone
      PROVE  PrefixClosed(tree)' /\ \A j \in Locked : Undisturbed(j)'
    <2>1. PrefixClosed(tree)'
        BY <1>1, <1>8 DEF LocksInv, PrefixClosed
    <2>2. ASSUME NEW j \in Locked, j # k PROVE Undisturbed(j)'
        BY <1>1, <1>6, <1>8, <2>2 DEF LocksInv, Undisturbed
    <2> QED
        BY <1>8, <2>1, <2>2
<1>9. Alone' <=> Alone
    BY <1>3 DEF Alone
<1> QED
    BY <1>4, <1>5, <1>7, <1>8, <1>9 DEF LocksInv

\* A task that starts, for the first time or again, looks at all its locks.
LEMMA LookingFacts ==
    ASSUME LocksInv, NEW k \in Locked
    PROVE  /\ Looking(k) \in TaskType
           /\ Looking(k).pc = "look" /\ Looking(k).left = ReplicasToLock
           /\ Looking(k).want = {} /\ Looking(k).checks = {}
           /\ Looking(k).twice = FALSE /\ Looking(k).stale = {}
           /\ Looking(k).attempt = creators[k].attempt
<1>1. creators[k] \in TaskType /\ options \in LockOptions
    BY DEF LocksInv, LocksType
<1>2. ReplicasToLock \in Seq(STRING)
    BY <1>1, ReplicaFacts
<1> QED
    BY <1>1, <1>2 DEF Looking, TaskType

\* What is left of a sequence without its head.
LEMMA TailFacts ==
    ASSUME NEW S, NEW s \in Seq(S), s # <<>>
    PROVE  /\ Tail(s) \in Seq(S) /\ Range(Tail(s)) \subseteq Range(s)
           /\ IsInjective(s) => IsInjective(Tail(s)) /\ Head(s) \notin Range(Tail(s))
<1>1. /\ Tail(s) \in Seq(S) /\ Len(Tail(s)) = Len(s) - 1
      /\ \A i \in 1..Len(Tail(s)) : Tail(s)[i] = s[i + 1]
    OBVIOUS
<1>2. DOMAIN s = 1..Len(s) /\ DOMAIN Tail(s) = 1..Len(Tail(s)) /\ Len(s) \in Nat
    BY <1>1
<1>3. \A i \in 1..Len(Tail(s)) : i + 1 \in 1..Len(s)
    BY <1>1, <1>2
<1>4. ASSUME NEW x \in Range(Tail(s)) PROVE x \in Range(s)
    <2>1. PICK i \in 1..Len(Tail(s)) : x = Tail(s)[i]
        BY <1>2 DEF Range
    <2> QED
        BY <1>1, <1>2, <1>3, <2>1 DEF Range
<1>5. ASSUME IsInjective(s) PROVE IsInjective(Tail(s)) /\ Head(s) \notin Range(Tail(s))
    <2>1. \A i, j \in 1..Len(s) : s[i] = s[j] => i = j
        BY <1>2, <1>5 DEF IsInjective
    <2>2. \A i, j \in 1..Len(Tail(s)) : Tail(s)[i] = Tail(s)[j] => i = j
        BY <1>1, <1>2, <1>3, <2>1
    <2>3. Head(s) = s[1] /\ 1 \in 1..Len(s)
        BY <1>1
    <2>4. \A i \in 1..Len(Tail(s)) : Tail(s)[i] # Head(s)
        BY <1>1, <1>2, <1>3, <2>1, <2>3
    <2> QED
        BY <1>2, <2>2, <2>4 DEF IsInjective, Range
<1> QED
    BY <1>1, <1>4, <1>5

\* A worker takes a task.
LEMMA TaskStartsKeeps ==
    ASSUME LocksInv, pc = "create", NEW k \in Locked, TaskStarts(k)
    PROVE  LocksInv'
<1>1. /\ creators' = [creators EXCEPT ![k] = Looking(k)]
      /\ UNCHANGED <<options, tree, del, command, pc, env>>
    BY DEF TaskStarts, Change, vars, treeVars, cleanVars
<1>2. creators \in [Locked -> TaskType] /\ creators'[k] = Looking(k)
    BY <1>1 DEF LocksInv, LocksType
<1>3. ReplicasToLock' = ReplicasToLock
    BY <1>1 DEF ReplicasToLock
<1>4. TaskShape(k)'
    BY <1>2, <1>3, LookingFacts DEF TaskShape
<1>5. ASSUME Alone PROVE Undisturbed(k)'
    <2>1. Undisturbed(k)
        BY <1>5 DEF LocksInv, OneCommand
    <2>2. /\ creators[k].attempt >= 2 => \A i \in 1..Depth : Dir(k, i) \in tree'
          /\ creators[k].attempt >= 3 => Dir(k, Depth + 1) \in tree'
        BY <1>1, <2>1 DEF Undisturbed
    <2> QED
        BY <1>2, <1>5, <2>2, LookingFacts DEF Undisturbed, Alone
<1> QED
    BY <1>1, <1>4, <1>5, LookingFacts, OneTaskChanges

\* A task looks at one lock and its part.
LEMMA TaskLooksKeeps ==
    ASSUME LocksInv, pc = "create", NEW k \in Locked, TaskLooks(k)
    PROVE  LocksInv'
<1> DEFINE r == Head(creators[k].left)
           rest == [creators[k] EXCEPT !.left = Tail(@)]
           more == [rest EXCEPT !.want = @ \cup {LockPath(k, r)},
                                !.twice = @ \/ LockPath(k, r) \in creators[k].want,
                                !.checks = @ \cup IF options.check
                                                  THEN {PartPath(k, r)} ELSE {}]
           skipped == LockPath(k, r) \in tree \/ (options.check /\ PartPath(k, r) \notin tree)
           c == IF skipped THEN rest ELSE more
<1>1. /\ creators[k].pc = "look" /\ creators[k].left # <<>>
      /\ creators' = [creators EXCEPT ![k] = c]
      /\ UNCHANGED <<options, tree, del, command, pc, env>>
    BY DEF TaskLooks, Change, vars, treeVars, cleanVars
<1>2. /\ creators \in [Locked -> TaskType] /\ options \in LockOptions
      /\ TaskShape(k)
    BY DEF LocksInv, LocksType
<1>3. /\ creators[k] \in TaskType /\ creators'[k] = c
      /\ creators[k].left \in Seq(STRING)
    BY <1>1, <1>2 DEF TaskType
<1>4. /\ r \in Range(ReplicasToLock) /\ Tail(creators[k].left) \in Seq(STRING)
      /\ Range(Tail(creators[k].left)) \subseteq Range(ReplicasToLock)
    <2>1. Range(creators[k].left) \subseteq Range(ReplicasToLock)
        BY <1>2 DEF TaskShape
    <2>2. r \in Range(creators[k].left)
        BY <1>1, <1>3 DEF Range
    <2>3. /\ Tail(creators[k].left) \in Seq(STRING)
          /\ Range(Tail(creators[k].left)) \subseteq Range(creators[k].left)
        BY <1>1, <1>3, TailFacts
    <2> QED
        BY <2>1, <2>2, <2>3
<1>5. r \in STRING /\ k \in Parts
    BY <1>2, <1>4, ReplicaFacts DEF Locked
<1>6. LockPath(k, r) \in Seq(STRING) /\ PartPath(k, r) \in PartPaths
    BY <1>4, <1>5, LockFacts DEF PartPaths
<1>7. /\ rest \in TaskType /\ rest.left = Tail(creators[k].left)
      /\ rest.want = creators[k].want /\ rest.checks = creators[k].checks
      /\ rest.twice = creators[k].twice /\ rest.stale = creators[k].stale
      /\ rest.pc = "look" /\ rest.attempt = creators[k].attempt
    BY <1>1, <1>3, <1>4 DEF TaskType
<1>8. /\ more \in TaskType /\ more.left = Tail(creators[k].left)
      /\ more.want = creators[k].want \cup {LockPath(k, r)}
      /\ more.checks = creators[k].checks \cup IF options.check THEN {PartPath(k, r)} ELSE {}
      /\ more.twice = (creators[k].twice \/ LockPath(k, r) \in creators[k].want)
      /\ more.stale = creators[k].stale
      /\ more.pc = "look" /\ more.attempt = creators[k].attempt
    BY <1>6, <1>7 DEF TaskType
<1> HIDE DEF rest, more
<1>9. ReplicasToLock' = ReplicasToLock /\ options' = options
    BY <1>1 DEF ReplicasToLock
<1>10. TaskShape(k)'
    <2>1. CASE ~skipped
        <3>1. \A l \in creators[k].want : \E s \in Range(ReplicasToLock) :
                 l = LockPath(k, s) /\ (options.check => PartPath(k, s) \in more.checks)
            BY <1>2, <1>8 DEF TaskShape
        <3>2. options.check => PartPath(k, r) \in more.checks
            BY <1>8
        <3>3. \A l \in more.want : \E s \in Range(ReplicasToLock) :
                 l = LockPath(k, s) /\ (options.check => PartPath(k, s) \in more.checks)
            BY <1>4, <1>8, <3>1, <3>2
        <3> QED
            BY <1>3, <1>4, <1>8, <1>9, <2>1, <3>3 DEF TaskShape
    <2>2. CASE skipped
        BY <1>2, <1>3, <1>4, <1>7, <1>9, <2>2 DEF TaskShape
    <2> QED
        BY <2>1, <2>2
<1>11. ASSUME Alone PROVE Undisturbed(k)'
    <2>1. Undisturbed(k)
        BY <1>11 DEF LocksInv, OneCommand
    <2>2. /\ creators[k].attempt >= 2 => \A i \in 1..Depth : Dir(k, i) \in tree'
          /\ creators[k].attempt >= 3 => Dir(k, Depth + 1) \in tree'
          /\ creators[k].want \cap tree' = {} /\ creators[k].checks \subseteq tree'
          /\ ~creators[k].twice /\ creators[k].stale = {}
          /\ IsInjective(creators[k].left)
          /\ \A s \in Range(creators[k].left) : LockPath(k, s) \notin creators[k].want
        BY <1>1, <2>1 DEF Undisturbed
    <2>r. /\ r \in Range(creators[k].left) /\ IsInjective(Tail(creators[k].left))
          /\ r \notin Range(Tail(creators[k].left))
          /\ Range(Tail(creators[k].left)) \subseteq Range(creators[k].left)
        <3>1. r \in Range(creators[k].left)
            BY <1>1, <1>3 DEF Range
        <3> QED
            BY <1>1, <1>3, <2>2, <3>1, TailFacts
    <2>l. \A s : LockPath(k, s)' = LockPath(k, s)
        BY DEF LockPath, PartNode
    <2>3. CASE skipped
        BY <1>3, <1>7, <2>2, <2>r, <2>l, <2>3 DEF Undisturbed
    <2>4. CASE ~skipped
        <3>1. more.want \cap tree' = {}
            BY <1>1, <1>8, <2>2, <2>4
        <3>2. more.checks \subseteq tree'
            BY <1>1, <1>8, <2>2, <2>4
        <3>3. ~more.twice /\ more.stale = {}
            BY <1>8, <2>2, <2>r
        <3>4. \A s \in Range(more.left) : LockPath(k, s) \notin more.want
            <4> SUFFICES ASSUME NEW s \in Range(more.left), LockPath(k, s) = LockPath(k, r)
                         PROVE  FALSE
                BY <1>8, <2>2, <2>r
            <4>1. s \in STRING /\ s # r
                BY <1>2, <1>4, <1>8, <2>r, ReplicaFacts
            <4>2. k \in Parts /\ r \in STRING
                BY <1>5
            <4> HIDE DEF r
            <4>3. s = r
                BY <4>1, <4>2, LocksDiffer
            <4> QED
                BY <4>1, <4>3
        <3> QED
            BY <1>3, <1>8, <2>2, <2>r, <2>l, <2>4, <3>1, <3>2, <3>3, <3>4 DEF Undisturbed
    <2> QED
        BY <2>3, <2>4
<1>12. c \in TaskType
    BY <1>7, <1>8
<1> HIDE DEF c
<1> QED
    BY <1>1, <1>10, <1>11, <1>12, OneTaskChanges

\* A task has looked at everything, and may have nothing to do.
LEMMA TaskReadsValueKeeps ==
    ASSUME LocksInv, pc = "create", NEW k \in Locked, TaskReadsValue(k)
    PROVE  LocksInv'
<1> DEFINE c == [creators[k] EXCEPT
                    !.pc = IF creators[k].want = {} \/ options.dry THEN "done" ELSE "parents",
                    !.value = options.copy /\ NewRoot # OldRoot
                              /\ OldNode(k) \in tree /\ OldNode(k) \in valued]
<1>1. /\ creators[k].pc = "look"
      /\ creators' = [creators EXCEPT ![k] = c]
      /\ UNCHANGED <<options, tree, del, command, pc, env>>
    BY DEF TaskReadsValue, Change, vars, treeVars, cleanVars
<1>2. /\ creators \in [Locked -> TaskType] /\ options \in LockOptions /\ TaskShape(k)
    BY DEF LocksInv, LocksType
<1>3. creators[k] \in TaskType /\ creators'[k] = c
    BY <1>1, <1>2
<1>4. (options.copy /\ NewRoot # OldRoot /\ OldNode(k) \in tree /\ OldNode(k) \in valued)
      \in BOOLEAN
    BY <1>2, LockOptionsAssumption DEF Options
<1>5. /\ c \in TaskType
      /\ c.pc \in {"done", "parents"} /\ (c.pc = "parents" => c.want # {})
      /\ c.left = creators[k].left /\ c.want = creators[k].want
      /\ c.twice = creators[k].twice /\ c.stale = creators[k].stale
      /\ c.checks = creators[k].checks /\ c.attempt = creators[k].attempt
    BY <1>3, <1>4 DEF TaskType
<1> HIDE DEF c
<1>6. ReplicasToLock' = ReplicasToLock /\ options' = options
    BY <1>1 DEF ReplicasToLock
<1>7. TaskShape(k)'
    BY <1>2, <1>3, <1>5, <1>6 DEF TaskShape
<1>8. ASSUME Alone PROVE Undisturbed(k)'
    <2>1. Undisturbed(k)
        BY <1>8 DEF LocksInv, OneCommand
    <2>2. /\ creators[k].attempt >= 2 => \A i \in 1..Depth : Dir(k, i) \in tree'
          /\ creators[k].attempt >= 3 => Dir(k, Depth + 1) \in tree'
          /\ creators[k].want \cap tree' = {} /\ creators[k].checks \subseteq tree'
          /\ ~creators[k].twice /\ creators[k].stale = {}
        BY <1>1, <2>1 DEF Undisturbed
    <2> QED
        BY <1>3, <1>5, <2>2 DEF Undisturbed
<1> QED
    BY <1>1, <1>5, <1>7, <1>8, OneTaskChanges


\* The parents a task collects are the directories below the first missing one; when
\* nobody else writes, none of them exists.
LEMMA TaskReadsParentsKeeps ==
    ASSUME LocksInv, pc = "create", NEW k \in Locked, TaskReadsParents(k)
    PROVE  LocksInv'
<1> DEFINE missing == {Dir(k, i) : i \in {i \in 1..(Depth + 3) :
                                             \E h \in 1..i : Dir(k, h) \notin tree}}
           read == UNION {MissingParents(l) : l \in creators[k].want}
           c == [creators[k] EXCEPT !.pc = "commit", !.parents = read]
<1>1. /\ creators[k].pc = "parents"
      /\ creators' = [creators EXCEPT ![k] = c]
      /\ UNCHANGED <<options, tree, del, command, pc, env>>
    BY DEF TaskReadsParents, Change, vars, treeVars, cleanVars
<1>2. /\ creators \in [Locked -> TaskType] /\ options \in LockOptions /\ TaskShape(k)
      /\ k \in Parts
    BY DEF LocksInv, LocksType, Locked
<1>3. Depth \in Nat
    BY RootFacts
<1>4. \A l \in creators[k].want : MissingParents(l) = missing
    <2> SUFFICES ASSUME NEW l \in creators[k].want PROVE MissingParents(l) = missing
        OBVIOUS
    <2>1. PICK r \in Range(ReplicasToLock) : l = LockPath(k, r)
        BY <1>2 DEF TaskShape
    <2>2. r \in STRING
        BY <1>2, ReplicaFacts
    <2> QED
        BY <1>2, <2>1, <2>2, MissingFacts
<1>5. read \subseteq missing /\ (creators[k].want # {} => read = missing)
    BY <1>4
<1>6. missing \subseteq Seq(STRING)
    BY <1>2, DirFacts
<1> HIDE DEF read
<1>7. creators[k] \in TaskType /\ creators'[k] = c
    BY <1>1, <1>2
<1>8. /\ c \in TaskType /\ c.pc = "commit" /\ c.parents = read
      /\ c.left = creators[k].left /\ c.want = creators[k].want
      /\ c.twice = creators[k].twice /\ c.stale = creators[k].stale
      /\ c.checks = creators[k].checks /\ c.attempt = creators[k].attempt
    BY <1>5, <1>6, <1>7 DEF TaskType
<1> HIDE DEF c
<1>9. ReplicasToLock' = ReplicasToLock /\ options' = options
    BY <1>1 DEF ReplicasToLock
<1>10. TaskShape(k)'
    <2>1. \A n \in read : \E i \in 1..(Depth + 3) : n = Dir(k, i)
        BY <1>5
    <2> QED
        BY <1>2, <1>7, <1>8, <1>9, <2>1 DEF TaskShape
<1>11. ASSUME Alone PROVE Undisturbed(k)'
    <2>1. Undisturbed(k) /\ PrefixClosed(tree)
        BY <1>11 DEF LocksInv, OneCommand
    <2>2. /\ creators[k].attempt >= 2 => \A i \in 1..Depth : Dir(k, i) \in tree
          /\ creators[k].attempt >= 3 => Dir(k, Depth + 1) \in tree
          /\ creators[k].want \cap tree = {} /\ creators[k].checks \subseteq tree
          /\ creators[k].want # {} /\ creators[k].attempt \in Nat
          /\ ~creators[k].twice /\ creators[k].stale = {}
        BY <1>1, <1>7, <2>1 DEF Undisturbed, TaskType
    <2>3. read = missing
        BY <1>5, <2>2
    <2>4. ASSUME NEW i \in 1..(Depth + 3), Dir(k, i) \in missing
          PROVE  \E h \in 1..i : Dir(k, h) \notin tree
        <3>1. PICK x \in 1..(Depth + 3) :
                 Dir(k, i) = Dir(k, x) /\ \E h \in 1..x : Dir(k, h) \notin tree
            BY <2>4
        <3>2. i = x
            BY <1>2, <3>1, SharedDirs
        <3> QED
            BY <3>1, <3>2
    <2> HIDE DEF missing
    <2>5. ASSUME NEW i \in 1..(Depth + 3)
          PROVE  /\ Dir(k, i) \in tree \cup missing
                 /\ Dir(k, i) \notin tree \cap missing
                 /\ Dir(k, i) \in missing /\ creators[k].attempt >= 2 => i >= Depth + 1
                 /\ Dir(k, i) \in missing /\ creators[k].attempt >= 3 => i >= Depth + 2
        <3>1. Dir(k, i) \in tree \cup missing
            <4>1. i \in 1..i
                BY <1>3
            <4> QED
                BY <4>1 DEF missing
        <3>2. Dir(k, i) \in tree => \A h \in 1..i : Dir(k, h) \in tree
            BY <1>2, <2>1, Above DEF PrefixClosed
        <3>3. ASSUME Dir(k, i) \in missing, creators[k].attempt >= 2
              PROVE  i >= Depth + 1
            BY <1>3, <2>2, <2>4, <3>3
        <3>4. ASSUME Dir(k, i) \in missing, creators[k].attempt >= 3
              PROVE  i >= Depth + 2
            <4>1. PICK h \in 1..i : Dir(k, h) \notin tree
                BY <2>4, <3>4
            <4>2. h \notin 1..Depth /\ h # Depth + 1
                BY <2>2, <3>4, <4>1
            <4> QED
                BY <1>3, <4>1, <4>2
        <3> QED
            BY <2>4, <3>1, <3>2, <3>3, <3>4
    <2>6. tree' = tree
        BY <1>1
    <2> QED
        BY <1>7, <1>8, <2>2, <2>3, <2>5, <2>6 DEF Undisturbed
<1> QED
    BY <1>1, <1>8, <1>10, <1>11, OneTaskChanges

\* What a transaction that succeeds adds to the tree: the missing directories of one
\* part and locks in them.
LEMMA CommitFacts ==
    ASSUME LocksInv, NEW k \in Locked, creators[k].pc = "commit"
    PROVE  /\ \A n \in creators[k].parents : \E i \in 1..(Depth + 3) : n = Dir(k, i)
           /\ \A l \in creators[k].want : \E r \in Range(ReplicasToLock) :
                 /\ r \in STRING /\ l = LockPath(k, r)
                 /\ options.check => PartPath(k, r) \in creators[k].checks
BY ReplicaFacts DEF LocksInv, LocksType, TaskShape

\* What the transaction of another task means for a task.
LEMMA OtherCommitKeeps ==
    ASSUME LocksInv, command.kind = "create", Alone, NEW k \in Locked, NEW j \in Locked,
           k # j, creators[j].pc = "commit",
           tree' = tree \cup creators[j].parents \cup creators[j].want,
           creators'[k] = creators[k]
    PROVE  Undisturbed(k)'
<1>1. k \in Parts /\ j \in Parts /\ Depth \in Nat /\ options \in LockOptions
    BY RootFacts DEF Locked, LocksInv, LocksType
<1>2. Undisturbed(k) /\ Undisturbed(j) /\ TaskShape(k)
    BY DEF LocksInv
<1>d. \A n \in creators[j].parents : \E i \in 1..(Depth + 3) : n = Dir(j, i)
    BY CommitFacts
<1>w. \A l \in creators[j].want : \E r \in Range(ReplicasToLock) :
          r \in STRING /\ l = LockPath(j, r)
    BY CommitFacts
<1>3. tree \subseteq tree'
    OBVIOUS
<1>4. \A i \in 1..(Depth + 3) : Dir(j, i) \in tree'
    BY <1>2 DEF Undisturbed
<1>5. ASSUME NEW r \in STRING
      PROVE  LockPath(k, r) \in tree' => LockPath(k, r) \in tree
    <2>1. LockPath(k, r) \notin creators[j].parents
        BY <1>1, <1>d, LocksDiffer
    <2>2. LockPath(k, r) \notin creators[j].want
        <3> SUFFICES ASSUME LockPath(k, r) \in creators[j].want PROVE FALSE
            OBVIOUS
        <3>1. PICK s \in Range(ReplicasToLock) : s \in STRING /\ LockPath(k, r) = LockPath(j, s)
            BY <1>w
        <3> QED
            BY <1>1, <3>1, LocksDiffer
    <2> QED
        BY <2>1, <2>2
<1>6. ASSUME NEW i \in 1..(Depth + 3), Dir(k, i) \in tree', Dir(k, i) \notin tree
      PROVE  i <= Depth + 1 /\ \A h \in 1..Depth : Dir(k, h) \in tree'
    <2>1. Dir(k, i) \notin creators[j].want
        <3> SUFFICES ASSUME Dir(k, i) \in creators[j].want PROVE FALSE
            OBVIOUS
        <3>1. PICK s \in Range(ReplicasToLock) : s \in STRING /\ Dir(k, i) = LockPath(j, s)
            BY <1>w
        <3> QED
            BY <1>1, <3>1, LocksDiffer
    <2>2. PICK x \in 1..(Depth + 3) : Dir(k, i) = Dir(j, x)
        BY <1>6, <2>1, <1>d
    <2>3. i <= Depth + 1
        BY <1>1, <2>2, SharedDirs
    <2>4. \A h \in 1..Depth : Dir(k, h) = Dir(j, h) /\ h \in 1..(Depth + 3)
        BY <1>1, RootIsShared
    <2> QED
        BY <1>4, <2>3, <2>4
<1>7. ASSUME creators[k].pc \in {"look", "parents", "commit"}
      PROVE  /\ creators[k].want \cap tree' = {} /\ creators[k].checks \subseteq tree'
             /\ ~creators[k].twice /\ creators[k].stale = {}
    <2>1. /\ creators[k].want \cap tree = {} /\ creators[k].checks \subseteq tree
          /\ ~creators[k].twice /\ creators[k].stale = {}
        BY <1>2, <1>7 DEF Undisturbed
    <2>2. \A l \in creators[k].want : \E r \in STRING : l = LockPath(k, r)
        BY <1>1, <1>2, ReplicaFacts DEF TaskShape
    <2> QED
        BY <1>3, <1>5, <2>1, <2>2
<1>8. ASSUME creators[k].pc = "commit", NEW i \in 1..(Depth + 3)
      PROVE  /\ Dir(k, i) \in tree' \cup creators[k].parents
             /\ Dir(k, i) \in tree' \cap creators[k].parents =>
                   i <= Depth + 1 /\ \A h \in 1..Depth : Dir(k, h) \in tree'
             /\ Dir(k, i) \in creators[k].parents /\ creators[k].attempt >= 2 => i >= Depth + 1
             /\ Dir(k, i) \in creators[k].parents /\ creators[k].attempt >= 3 => i >= Depth + 2
    <2>1. /\ Dir(k, i) \in tree \cup creators[k].parents
          /\ Dir(k, i) \in tree \cap creators[k].parents =>
                i <= Depth + 1 /\ \A h \in 1..Depth : Dir(k, h) \in tree
          /\ Dir(k, i) \in creators[k].parents /\ creators[k].attempt >= 2 => i >= Depth + 1
          /\ Dir(k, i) \in creators[k].parents /\ creators[k].attempt >= 3 => i >= Depth + 2
        BY <1>2, <1>8 DEF Undisturbed
    <2> QED
        BY <1>3, <1>6, <2>1
<1>9. /\ creators[k].pc # "failed"
      /\ creators[k].attempt >= 2 => \A i \in 1..Depth : Dir(k, i) \in tree'
      /\ creators[k].attempt >= 3 => Dir(k, Depth + 1) \in tree'
      /\ creators[k].pc \in {"parents", "commit"} => creators[k].want # {}
      /\ creators[k].pc = "look" =>
            /\ IsInjective(creators[k].left)
            /\ \A r \in Range(creators[k].left) : LockPath(k, r) \notin creators[k].want
    BY <1>2, <1>3 DEF Undisturbed
<1>10. \A r : LockPath(k, r)' = LockPath(k, r)
    BY DEF LockPath, PartNode
<1> QED
    BY <1>7, <1>8, <1>9, <1>10 DEF Undisturbed


\* When nobody else writes, a transaction fails because another task made a directory
\* that both need; that is no more than the directory of the table, and the third
\* attempt does not fail.
LEMMA FailedCommitFacts ==
    ASSUME LocksInv, command.kind = "create", Alone, NEW k \in Locked,
           creators[k].pc = "commit", ~Commits(k)
    PROVE  /\ creators[k].attempt < 3
           /\ \A i \in 1..Depth : Dir(k, i) \in tree
           /\ creators[k].attempt = 2 => Dir(k, Depth + 1) \in tree
           /\ ~BadVersion(k)
<1>1. k \in Parts /\ Depth \in Nat /\ creators[k] \in TaskType
    BY RootFacts DEF Locked, LocksInv, LocksType
<1>2. creators[k].attempt \in Nat
    BY <1>1 DEF TaskType
<1>3. Undisturbed(k)
    BY DEF LocksInv
<1>4. /\ creators[k].want \cap tree = {} /\ creators[k].checks \subseteq tree
      /\ ~creators[k].twice /\ creators[k].stale = {}
      /\ \A i \in 1..(Depth + 3) :
            /\ Dir(k, i) \in tree \cup creators[k].parents
            /\ Dir(k, i) \in tree \cap creators[k].parents =>
                  i <= Depth + 1 /\ \A h \in 1..Depth : Dir(k, h) \in tree
            /\ Dir(k, i) \in creators[k].parents /\ creators[k].attempt >= 2 => i >= Depth + 1
            /\ Dir(k, i) \in creators[k].parents /\ creators[k].attempt >= 3 => i >= Depth + 2
    BY <1>3 DEF Undisturbed
<1>5. \A n \in creators[k].parents : \E i \in 1..(Depth + 3) : n = Dir(k, i)
    BY CommitFacts
<1>6. ASSUME NEW n \in creators[k].parents \cup creators[k].want
      PROVE  Len(n) = 1 \/ Front(n) \in tree \cup creators[k].parents
    <2>1. CASE n \in creators[k].parents
        <3>1. PICK i \in 1..(Depth + 3) : n = Dir(k, i)
            BY <1>5, <2>1
        <3>2. Len(n) = i /\ (Len(n) = 1 \/ Front(n) = Dir(k, i - 1))
            BY <1>1, <3>1, Above, DirFacts
        <3>3. i = 1 \/ i - 1 \in 1..(Depth + 3)
            BY <1>1
        <3> QED
            BY <1>4, <3>2, <3>3
    <2>2. CASE n \in creators[k].want
        <3>1. PICK r \in Range(ReplicasToLock) : r \in STRING /\ n = LockPath(k, r)
            BY <2>2, CommitFacts
        <3>2. Front(n) = Dir(k, Depth + 3) /\ Depth + 3 \in 1..(Depth + 3)
            BY <1>1, <3>1, LockFacts
        <3> QED
            BY <1>4, <3>2
    <2> QED
        BY <2>1, <2>2
<1>7. PICK i \in 1..(Depth + 3) : Dir(k, i) \in tree \cap creators[k].parents
    <2>1. (creators[k].parents \cup creators[k].want) \cap tree # {}
        BY <1>4, <1>6 DEF Commits
    <2>2. PICK n \in creators[k].parents : n \in tree
        BY <1>4, <2>1
    <2> QED
        BY <1>5, <2>2
<1>8. i <= Depth + 1 /\ \A h \in 1..Depth : Dir(k, h) \in tree
    BY <1>4, <1>7
<1>9. creators[k].attempt < 3
    BY <1>1, <1>2, <1>4, <1>7, <1>8
<1>10. ASSUME creators[k].attempt = 2 PROVE Dir(k, Depth + 1) \in tree
    <2>1. i >= Depth + 1
        BY <1>4, <1>7, <1>10
    <2>2. i = Depth + 1
        BY <1>1, <1>8, <2>1
    <2> QED
        BY <1>7, <2>2
<1> QED
    BY <1>4, <1>8, <1>9, <1>10 DEF BadVersion

\* A transaction that fails starts the task anew or ends it.
LEMMA CommitFailsKeeps ==
    ASSUME LocksInv, pc = "create", NEW k \in Locked, TaskCommits(k), ~Commits(k)
    PROVE  LocksInv'
<1> DEFINE again == [Looking(k) EXCEPT !.attempt = creators[k].attempt + 1]
           over == [creators[k] EXCEPT !.pc = "failed"]
<1>1. /\ creators[k].pc = "commit"
      /\ UNCHANGED <<options, tree, del, command, pc, env>>
    BY DEF TaskCommits, Change, cleanVars
<1>c. PICK c : /\ creators' = [creators EXCEPT ![k] = c]
               /\ c = again \/ (c = over /\ (BadVersion(k) \/ ~Retries(k)))
    BY DEF TaskCommits, Change
<1>2. /\ creators \in [Locked -> TaskType] /\ TaskShape(k) /\ command.kind = "create"
    BY DEF LocksInv, LocksType, OneCommand
<1>3. creators[k] \in TaskType /\ creators'[k] = c /\ creators[k].attempt \in Nat
    BY <1>1, <1>c, <1>2 DEF TaskType
<1>4. /\ again \in TaskType /\ again.pc = "look" /\ again.left = ReplicasToLock
      /\ again.want = {} /\ again.checks = {} /\ again.attempt = creators[k].attempt + 1
    <2>1. /\ Looking(k) \in TaskType
          /\ Looking(k).pc = "look" /\ Looking(k).left = ReplicasToLock
          /\ Looking(k).want = {} /\ Looking(k).checks = {}
        BY LookingFacts
    <2>2. creators[k].attempt + 1 \in Nat
        BY <1>3
    <2> QED
        BY <2>1, <2>2 DEF TaskType
<1>t. again.twice = FALSE /\ again.stale = {}
    <2>1. Looking(k) \in TaskType /\ Looking(k).twice = FALSE /\ Looking(k).stale = {}
        BY LookingFacts
    <2>2. again.twice = Looking(k).twice /\ again.stale = Looking(k).stale
        BY <2>1 DEF TaskType
    <2> QED
        BY <2>1, <2>2
<1>5. /\ over \in TaskType /\ over.pc = "failed" /\ over.left = creators[k].left
      /\ over.want = creators[k].want /\ over.checks = creators[k].checks
    BY <1>3 DEF TaskType
<1>6. ReplicasToLock' = ReplicasToLock /\ options' = options
    BY <1>1 DEF ReplicasToLock
<1> HIDE DEF again, over
<1>7. TaskShape(k)'
    <2>1. CASE c = again
        BY <1>3, <1>4, <1>6, <2>1 DEF TaskShape
    <2>2. CASE c = over
        BY <1>2, <1>3, <1>5, <1>6, <2>2 DEF TaskShape
    <2> QED
        BY <1>c, <2>1, <2>2
<1>8. ASSUME Alone PROVE Undisturbed(k)'
    <2>1. /\ creators[k].attempt < 3
          /\ \A i \in 1..Depth : Dir(k, i) \in tree'
          /\ creators[k].attempt = 2 => Dir(k, Depth + 1) \in tree'
          /\ ~BadVersion(k)
        BY <1>1, <1>2, <1>8, FailedCommitFacts
    <2>2. Retries(k)
        BY <1>3, <2>1, AttemptsAssumption DEF Retries
    <2>3. creators'[k] = again
        BY <1>c, <1>3, <2>1, <2>2
    <2>4. again.attempt >= 3 => Dir(k, Depth + 1) \in tree'
        BY <1>3, <1>4, <2>1
    <2>5. Range(<<>>) = {} /\ IsInjective(again.left)
        BY <1>4, <1>8 DEF Range, Alone
    <2> QED
        BY <1>4, <1>t, <2>1, <2>3, <2>4, <2>5 DEF Undisturbed
<1>9. c \in TaskType
    BY <1>c, <1>4, <1>5
<1> QED
    BY <1>1, <1>c, <1>7, <1>8, <1>9, OneTaskChanges

\* A transaction that succeeds ends its task, and adds directories together with those
\* above them.
LEMMA CommitSucceedsKeeps ==
    ASSUME LocksInv, pc = "create", NEW k \in Locked, TaskCommits(k), Commits(k)
    PROVE  LocksInv'
<1> DEFINE c == [creators[k] EXCEPT !.pc = "done"]
<1>1. /\ creators[k].pc = "commit"
      /\ tree' = tree \cup creators[k].parents \cup creators[k].want
      /\ creators' = [creators EXCEPT ![k] = c]
      /\ UNCHANGED <<options, del, command, pc, env>>
    BY DEF TaskCommits, Change, cleanVars
<1>2. /\ creators \in [Locked -> TaskType] /\ TaskShape(k) /\ command.kind = "create"
      /\ k \in Parts /\ Depth \in Nat /\ LocksType
    BY RootFacts DEF LocksInv, LocksType, OneCommand, Locked
<1>3. creators[k] \in TaskType /\ creators'[k] = c
    BY <1>1, <1>2
<1>4. /\ c \in TaskType /\ c.pc = "done" /\ c.left = creators[k].left
      /\ c.want = creators[k].want /\ c.checks = creators[k].checks
      /\ c.attempt = creators[k].attempt
    BY <1>3 DEF TaskType
<1> HIDE DEF c
<1>5. ReplicasToLock' = ReplicasToLock /\ PartPaths' = PartPaths /\ options' = options
    BY <1>1 DEF ReplicasToLock, PartPaths
<1>6. LocksType'
    BY <1>1, <1>2, <1>4, <1>5 DEF LocksType, TaskType
<1>7. OneCommand'
    BY <1>1, <1>2 DEF LocksInv, OneCommand
<1>8. \A j \in Locked : j # k => creators'[j] = creators[j]
    BY <1>1, <1>2
<1>9. TaskShape(k)'
    BY <1>2, <1>3, <1>4, <1>5 DEF TaskShape
<1>10. \A j \in Locked : TaskShape(j)'
    <2> SUFFICES ASSUME NEW j \in Locked, j # k PROVE TaskShape(j)'
        BY <1>9
    <2> QED
        BY <1>5, <1>8 DEF LocksInv, TaskShape
<1>11. ASSUME Alone
       PROVE  PrefixClosed(tree)' /\ \A j \in Locked : Undisturbed(j)'
    <2>1. Undisturbed(k) /\ PrefixClosed(tree)
        BY <1>2, <1>11 DEF LocksInv
    <2>2. \A i \in 1..(Depth + 3) : Dir(k, i) \in tree'
        BY <1>1, <2>1 DEF Undisturbed
    <2>3. ASSUME NEW n \in tree' PROVE WithParents(n) \subseteq tree'
        <3>1. CASE n \in tree
            BY <1>1, <2>1, <3>1 DEF PrefixClosed
        <3>2. CASE n \in creators[k].parents
            <4>1. PICK i \in 1..(Depth + 3) : n = Dir(k, i)
                BY <1>1, <3>2, CommitFacts
            <4>2. WithParents(n) = {Dir(k, h) : h \in 1..i}
                BY <1>2, <4>1, Above
            <4>3. 1..i \subseteq 1..(Depth + 3)
                BY <1>2
            <4> QED
                BY <2>2, <4>2, <4>3
        <3>3. CASE n \in creators[k].want
            <4>1. PICK r \in Range(ReplicasToLock) : r \in STRING /\ n = LockPath(k, r)
                BY <1>1, <3>3, CommitFacts
            <4>2. WithParents(n) = {n} \cup {Dir(k, h) : h \in 1..(Depth + 3)}
                BY <1>2, <4>1, Above
            <4> QED
                BY <2>2, <2>3, <4>2
        <3> QED
            BY <1>1, <2>3, <3>1, <3>2, <3>3
    <2>4. PrefixClosed(tree)'
        BY <2>3 DEF PrefixClosed
    <2>5. ASSUME NEW j \in Locked, j # k PROVE Undisturbed(j)'
        BY <1>1, <1>2, <1>8, <1>11, <2>5, OtherCommitKeeps
    <2>6. Undisturbed(k)'
        <3>1. /\ creators[k].attempt >= 2 => \A i \in 1..Depth : Dir(k, i) \in tree'
              /\ creators[k].attempt >= 3 => Dir(k, Depth + 1) \in tree'
            BY <1>1, <2>1 DEF Undisturbed
        <3> QED
            BY <1>3, <1>4, <3>1 DEF Undisturbed
    <2> QED
        BY <2>4, <2>5, <2>6
<1>12. Alone' <=> Alone
    BY <1>1, <1>5 DEF Alone
<1> QED
    BY <1>1, <1>6, <1>7, <1>10, <1>11, <1>12 DEF LocksInv

\* A server writes the nodes of parts: the tasks that looked at them will meet it.
LEMMA ServerWritesKeeps == LocksInv /\ ServerWrites => LocksInv'
<1> SUFFICES ASSUME LocksInv, ServerWrites PROVE LocksInv'
    OBVIOUS
<1>1. PICK p \in tree :
         creators' = [k \in DOMAIN creators |->
                        [creators[k] EXCEPT !.stale = @ \cup ({p} \cap creators[k].checks)]]
    BY DEF ServerWrites
<1>2. /\ UNCHANGED <<options, tree, del, command, pc>> /\ pc = "create"
      /\ env' = [env EXCEPT !.steps = @ + 1]
    BY DEF ServerWrites, treeVars
<1>3. /\ creators \in [Locked -> TaskType] /\ LocksType /\ command.kind = "create"
      /\ env.steps \in Nat
    BY <1>2 DEF LocksInv, LocksType, OneCommand
<1>4. ReplicasToLock' = ReplicasToLock /\ PartPaths' = PartPaths
    BY <1>2 DEF ReplicasToLock, PartPaths
<1>5. env' = [steps |-> env.steps + 1, runs |-> env.runs, dropped |-> env.dropped]
    BY <1>2, <1>3 DEF LocksType
<1>6. ASSUME NEW k \in Locked
      PROVE  /\ creators'[k] \in TaskType
             /\ creators'[k].left = creators[k].left /\ creators'[k].want = creators[k].want
             /\ creators'[k].checks = creators[k].checks /\ creators'[k].pc = creators[k].pc
             /\ creators'[k].parents = creators[k].parents
    <2>1. /\ creators[k] \in TaskType
          /\ creators'[k] = [creators[k] EXCEPT !.stale = @ \cup ({p} \cap creators[k].checks)]
        BY <1>1, <1>3
    <2> QED
        BY <2>1 DEF TaskType
<1>7. creators' \in [Locked -> TaskType]
    BY <1>1, <1>3, <1>6
<1>8. LocksType'
    BY <1>2, <1>3, <1>4, <1>5, <1>7 DEF LocksType, TaskType
<1>9. OneCommand'
    BY <1>2, <1>3 DEF LocksInv, OneCommand
<1>10. \A k \in Locked : TaskShape(k)'
    BY <1>2, <1>4, <1>6 DEF LocksInv, TaskShape
<1>11. ~Alone'
    BY <1>3, <1>5 DEF Alone
<1> QED
    BY <1>8, <1>9, <1>10, <1>11 DEF LocksInv

---------------------------------------------------------------------------
(* Theorems *)

\* Every step keeps the invariant.
LEMMA NextKeeps == LocksInv /\ [LocksNext]_allVars => LocksInv'
<1> SUFFICES ASSUME LocksInv, [LocksNext]_allVars PROVE LocksInv'
    OBVIOUS
<1>1. CASE Beside(Next)
    BY <1>1, BesideKeeps
<1>2. CASE Create
    <2>1. DOMAIN creators = Locked
        BY DEF LocksInv, LocksType
    <2>2. PICK k \in Locked : TaskStep(k)
        BY <1>2, <2>1 DEF Create
    <2>3. pc = "create"
        BY <1>2 DEF Create
    <2> QED
        BY <2>2, <2>3, TaskStartsKeeps, TaskLooksKeeps, TaskReadsValueKeeps,
           TaskReadsParentsKeeps, CommitFailsKeeps, CommitSucceedsKeeps DEF TaskStep
<1>3. CASE CreateEnds
    BY <1>3, EndKeeps
<1>4. CASE UNCHANGED allVars
    <2>1. UNCHANGED <<tree, del, command, pc, env, options, creators>>
        BY <1>4 DEF allVars, vars, treeVars, cleanVars, lockVars
    <2>2. ReplicasToLock' = ReplicasToLock /\ PartPaths' = PartPaths
        BY <2>1 DEF ReplicasToLock, PartPaths
    <2>3. LocksType' /\ OneCommand'
        BY <2>1, <2>2 DEF LocksInv, LocksType, TaskType, OneCommand
    <2>4. \A k \in Locked : TaskShape(k)' /\ (Undisturbed(k) => Undisturbed(k)')
        BY <2>1, <2>2 DEF LocksInv, TaskShape, Undisturbed
    <2>5. PrefixClosed(tree) => PrefixClosed(tree)'
        BY <2>1 DEF PrefixClosed
    <2>6. Alone' <=> Alone
        BY <2>1, <2>2 DEF Alone
    <2> QED
        BY <2>1, <2>3, <2>4, <2>5, <2>6 DEF LocksInv
<1>5. CASE ServerWrites
    BY <1>5, ServerWritesKeeps
<1> QED
    BY <1>1, <1>2, <1>3, <1>4, <1>5 DEF LocksNext

\* The invariant of the tasks holds throughout.
THEOREM LocksInvHolds == LocksSpec => []LocksInv
BY InitHolds, NextKeeps, PTL DEF LocksSpec

\* The three attempts of the retry in _create_single_zero_copy_lock are enough for any
\* number of parts, replicas and workers: the tasks of one command disturb each other
\* at most twice, over the root of the locks and over the directory of a table.  A task
\* that fails met a step of a server, or its command names a replica twice.
THEOREM ThreeAttemptsSuffice == LocksSpec => []AttemptsSuffice
<1>1. LocksInv => AttemptsSuffice
    <2> SUFFICES ASSUME LocksInv, NEW k \in DOMAIN creators, creators[k].pc = "failed",
                        ~(env.steps > 0), IsInjective(ReplicasToLock)
                 PROVE  FALSE
        BY DEF AttemptsSuffice
    <2>1. k \in Locked /\ Alone
        BY DEF LocksInv, LocksType, Alone
    <2>2. CASE command.kind = "create"
        BY <2>1, <2>2 DEF LocksInv, Undisturbed
    <2>3. CASE command.kind # "create"
        BY <2>1, <2>3 DEF LocksInv, OneCommand, NewTask
    <2> QED
        BY <2>2, <2>3
<1> QED
    BY <1>1, LocksInvHolds, PTL


\* A lock that the command creates is the lock of a part whose node the same
\* transaction checked: a part removed after the task looked at it leaves no lock
\* behind (unless the check was switched off).
THEOREM LocksComeWithParts == LocksSpec => CreatedLocksHaveParts
<1> DEFINE Made(k) == pc = "create" /\ options.check =>
               \A r \in Range(ReplicasToLock) :
                   LockPath(k, r) \in tree' \ (tree \cup fresh') => PartPath(k, r) \in tree'
           Step == \A k \in DOMAIN creators : Made(k)
<1>1. ASSUME LocksInv, [LocksNext]_allVars PROVE [Step]_allVars
    <2> SUFFICES ASSUME LocksNext, NEW k \in DOMAIN creators, pc = "create", options.check,
                        NEW r \in Range(ReplicasToLock),
                        LockPath(k, r) \in tree', LockPath(k, r) \notin tree \cup fresh'
                 PROVE  PartPath(k, r) \in tree'
        BY <1>1
    <2>1. DOMAIN creators = Locked /\ options \in LockOptions /\ OneCommand
        BY <1>1 DEF LocksInv, LocksType
    <2>2. k \in Locked /\ k \in Parts /\ r \in STRING /\ command.kind = "create"
        BY <2>1, ReplicaFacts DEF Locked, OneCommand
    <2>3. ~Beside(Next)
        <3> SUFFICES ASSUME Beside(Next) PROVE FALSE
            OBVIOUS
        <3>1. CommandFails \/ Rerun \/ Server
            BY <2>1, <2>2, StepsBeside DEF Beside
        <3>2. tree' \subseteq tree \cup fresh'
            BY <3>1 DEF CommandFails, Rerun, Server, ServerCreates, ServerDeletes
        <3> QED
            BY <3>2
    <2>4. ~CreateEnds /\ ~ServerWrites
        BY DEF CreateEnds, ServerWrites, treeVars
    <2>5. PICK j \in Locked : TaskStep(j)
        BY <2>1, <2>3, <2>4 DEF LocksNext, Create
    <2>6. TaskCommits(j) /\ Commits(j)
        BY <2>5 DEF TaskStep, TaskStarts, TaskLooks, TaskReadsValue, TaskReadsParents,
                    TaskCommits, vars, treeVars
    <2>7. /\ creators[j].pc = "commit" /\ creators[j].checks \subseteq tree
          /\ tree' = tree \cup creators[j].parents \cup creators[j].want
        BY <2>6 DEF TaskCommits, Commits
    <2>8. LockPath(k, r) \notin creators[j].parents
        <3>1. j \in Parts
            BY DEF Locked
        <3> QED
            BY <1>1, <2>2, <2>7, <3>1, CommitFacts, LocksDiffer
    <2>9. PICK s \in Range(ReplicasToLock) :
             /\ s \in STRING /\ LockPath(k, r) = LockPath(j, s)
             /\ PartPath(j, s) \in creators[j].checks
        BY <1>1, <2>7, <2>8, CommitFacts
    <2>10. k = j /\ r = s
        <3>1. j \in Parts
            BY DEF Locked
        <3> QED
            BY <2>2, <2>9, <3>1, LocksDiffer
    <2> QED
        BY <2>7, <2>9, <2>10
<1>2. LocksSpec => [][Step]_allVars
    BY <1>1, LocksInvHolds, PTL DEF LocksSpec
<1> QED
    BY <1>2 DEF CreatedLocksHaveParts
============================================================================
