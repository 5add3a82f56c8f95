---------------------- MODULE ObjectStorageCleanProofs ----------------------
(***************************************************************************)
(* Theorems about ObjectStorageClean, for every number of hosts, objects,  *)
(* runs, kills and backups, and all sizes and limits.                      *)
(***************************************************************************)
EXTENDS ObjectStorageClean, WellFoundedInduction, FiniteSetTheorems, TLAPS

-----------------------------------------------------------------------------
(* Sizes of sets of objects *)

\* Induction over the numbers, for a set of them: the least number that is
\* not in the set has no predecessor in it.
LEMMA SetOfNumbersIsNat ==
    ASSUME NEW T \in SUBSET Nat, 0 \in T, \A n \in T : n + 1 \in T
    PROVE  T = Nat
<1> DEFINE Less == OpToRel(<, Nat)
           Missing == Nat \ T
<1>1. Less = {ss \in Nat \X Nat : ss[1] < ss[2]}
  BY DEF OpToRel
<1>2. IsWellFoundedOn(Less, Nat)
  BY NatLessThanWellFounded
<1> HIDE DEF Less
<1>3. ASSUME Missing # {} PROVE FALSE
  <2>1. PICK m \in Missing : \A n \in Missing : ~ (<<n, m>> \in Less)
    BY <1>2, <1>3, WFMin
  <2>2. m \in Nat /\ m # 0 /\ m \notin T
    BY <2>1
  <2>3. m - 1 \in Nat /\ m - 1 < m /\ (m - 1) + 1 = m
    BY <2>2
  <2>4. m - 1 \notin Missing
    BY <1>1, <2>1, <2>2, <2>3
  <2>5. QED
    BY <2>2, <2>3, <2>4
<1>4. QED
  BY <1>3

\* The object the fold takes first, and what the fold computes for all sets.
First(S) == CHOOSE o \in S : TRUE
SumsUpTo(f, n) == \A S \in SUBSET Objects : Cardinality(S) <= n =>
    f[S] = IF S = {} THEN 0 ELSE Size[First(S)] + f[S \ {First(S)}]
SumsUpToExist(n) == \E f \in [SUBSET Objects -> Nat] : SumsUpTo(f, n)
Sums(f) == \A S \in SUBSET Objects :
    f[S] = IF S = {} THEN 0 ELSE Size[First(S)] + f[S \ {First(S)}]

\* Sets of objects are finite, and one object less makes them smaller.
LEMMA ObjectsAreFinite ==
    /\ \A S \in SUBSET Objects : IsFiniteSet(S) /\ Cardinality(S) \in Nat
    /\ \A S \in SUBSET Objects : \A o \in S :
          Cardinality(S \ {o}) = Cardinality(S) - 1
    /\ \A S \in SUBSET Objects : S # {} => First(S) \in S
    /\ \A S \in SUBSET Objects : Cardinality(S) = 0 <=> S = {}
<1>1. \A S \in SUBSET Objects : IsFiniteSet(S)
  BY CleanAssumption, FS_Subset
<1>2. \A S \in SUBSET Objects : Cardinality(S) \in Nat
  BY <1>1, FS_CardinalityType
<1>3. ASSUME NEW S \in SUBSET Objects, NEW o \in S
      PROVE  Cardinality(S \ {o}) = Cardinality(S) - 1
  BY <1>1, FS_RemoveElement
<1>4. \A S \in SUBSET Objects : S # {} => First(S) \in S
  BY DEF First
<1>5. \A S \in SUBSET Objects : Cardinality(S) = 0 <=> S = {}
  BY <1>1, FS_EmptySet
<1>6. QED
  BY <1>1, <1>2, <1>3, <1>4, <1>5

\* There is a function that sums up the sizes.
LEMMA SumsExist == \E f \in [SUBSET Objects -> Nat] : Sums(f)
<1> DEFINE T == {n \in Nat : SumsUpToExist(n)}
<1>1. 0 \in T
  <2> DEFINE f == [S \in SUBSET Objects |-> 0]
  <2>1. SumsUpTo(f, 0)
    BY ObjectsAreFinite DEF SumsUpTo
  <2>2. f \in [SUBSET Objects -> Nat]
    OBVIOUS
  <2>3. QED
    BY <2>1, <2>2 DEF SumsUpToExist
<1>2. ASSUME NEW n \in T PROVE n + 1 \in T
  <2>1. PICK f \in [SUBSET Objects -> Nat] : SumsUpTo(f, n)
    BY DEF SumsUpToExist
  <2> DEFINE g == [S \in SUBSET Objects |->
                      IF Cardinality(S) = n + 1
                      THEN Size[First(S)] + f[S \ {First(S)}] ELSE f[S]]
  <2>2. \A S \in SUBSET Objects : S # {} => Size[First(S)] \in Nat /\ S \ {First(S)} \in SUBSET Objects
    BY ObjectsAreFinite, CleanAssumption
  <2>3. g \in [SUBSET Objects -> Nat]
    BY <2>2, ObjectsAreFinite
  <2>4. ASSUME NEW S \in SUBSET Objects, Cardinality(S) <= n + 1
        PROVE  g[S] = IF S = {} THEN 0 ELSE Size[First(S)] + g[S \ {First(S)}]
    <3>1. CASE S = {}
      BY <2>1, <3>1, ObjectsAreFinite DEF SumsUpTo
    <3>2. CASE S # {}
      <4>1. S \ {First(S)} \in SUBSET Objects
            /\ Cardinality(S \ {First(S)}) = Cardinality(S) - 1
        BY <3>2, ObjectsAreFinite
      <4>2. g[S \ {First(S)}] = f[S \ {First(S)}]
        BY <2>4, <4>1, ObjectsAreFinite
      <4>3. CASE Cardinality(S) = n + 1
        BY <3>2, <4>2, <4>3
      <4>4. CASE Cardinality(S) <= n
        <5>1. f[S] = Size[First(S)] + f[S \ {First(S)}]
          BY <2>1, <3>2, <4>4 DEF SumsUpTo
        <5>2. g[S] = f[S]
          BY <4>4, ObjectsAreFinite
        <5>3. QED
          BY <3>2, <4>2, <5>1, <5>2
      <4>5. QED
        BY <2>4, <4>3, <4>4, ObjectsAreFinite
    <3>3. QED
      BY <3>1, <3>2
  <2>5. SumsUpTo(g, n + 1)
    BY <2>4 DEF SumsUpTo
  <2> HIDE DEF g
  <2>6. \E h \in [SUBSET Objects -> Nat] : SumsUpTo(h, n + 1)
    BY <2>3, <2>5, Zenon
  <2>7. SumsUpToExist(n + 1)
    BY <2>6 DEF SumsUpToExist
  <2>8. QED
    BY <2>7
<1>3. T = Nat
  BY <1>1, <1>2, SetOfNumbersIsNat
<1>4. Cardinality(Objects) \in T
  BY <1>3, ObjectsAreFinite
<1>5. PICK f \in [SUBSET Objects -> Nat] : SumsUpTo(f, Cardinality(Objects))
  BY <1>4 DEF SumsUpToExist
<1>6. \A S \in SUBSET Objects : Cardinality(S) <= Cardinality(Objects)
  BY CleanAssumption, FS_Subset
<1>7. QED
  BY <1>5, <1>6 DEF SumsUpTo, Sums

\* The recursive function that the fold of S defines.
FoldOf(f, S) ==
    f = [s \in SUBSET S |-> IF s = {} THEN 0 ELSE Size[First(s)] + f[s \ {First(s)}]]

\* The size of a set of objects is the last value of a fold over its subsets.
LEMMA SizeOfIsFold == \A S : SizeOf(S) = (CHOOSE f : FoldOf(f, S))[S]
  BY DEF SizeOf, MapThenSumSet, MapThenFoldSet, FoldOf, First

\* The size of a set of objects is what any function that sums up says.
LEMMA SizeOfIsSum ==
    ASSUME NEW F \in [SUBSET Objects -> Nat], Sums(F), NEW S \in SUBSET Objects
    PROVE  SizeOf(S) = F[S]
<1> DEFINE R == [s \in SUBSET S |-> F[s]]
           G == CHOOSE f : FoldOf(f, S)
<1>1. FoldOf(R, S)
  BY DEF FoldOf, Sums
<1>2. FoldOf(G, S)
  BY <1>1
<1> HIDE DEF G
<1>3. /\ \A s \in SUBSET S :
            G[s] = IF s = {} THEN 0 ELSE Size[First(s)] + G[s \ {First(s)}]
  BY <1>2 DEF FoldOf
<1> DEFINE T == {n \in Nat : \A s \in SUBSET S : Cardinality(s) = n => G[s] = F[s]}
<1>4. 0 \in T
  BY <1>3, ObjectsAreFinite DEF Sums
<1>5. ASSUME NEW n \in T PROVE n + 1 \in T
  <2> SUFFICES ASSUME NEW s \in SUBSET S, Cardinality(s) = n + 1
               PROVE  G[s] = F[s]
    OBVIOUS
  <2>1. s # {} /\ s \in SUBSET Objects
    BY ObjectsAreFinite
  <2>2. s \ {First(s)} \in SUBSET S /\ Cardinality(s \ {First(s)}) = n
    BY <2>1, ObjectsAreFinite
  <2>3. G[s \ {First(s)}] = F[s \ {First(s)}]
    BY <2>2
  <2>4. QED
    BY <1>3, <2>1, <2>3 DEF Sums
<1>6. T = Nat
  BY <1>4, <1>5, SetOfNumbersIsNat
<1>7. Cardinality(S) \in T
  BY <1>6, ObjectsAreFinite
<1>8. G[S] = F[S]
  BY <1>7
<1>9. QED
  BY <1>8, SizeOfIsFold DEF G

\* The size of no object, and of one object more: the order in which the fold
\* takes them does not matter.
LEMMA SizeOfRemove ==
    /\ SizeOf({}) = 0
    /\ \A S \in SUBSET Objects : SizeOf(S) \in Nat
    /\ \A S \in SUBSET Objects : \A o \in S : SizeOf(S) = Size[o] + SizeOf(S \ {o})
<1>1. PICK F \in [SUBSET Objects -> Nat] : Sums(F)
  BY SumsExist
<1>2. \A S \in SUBSET Objects : SizeOf(S) = F[S]
  BY <1>1, SizeOfIsSum
<1> DEFINE Law(S) == \A o \in S : F[S] = Size[o] + F[S \ {o}]
           T == {n \in Nat : \A S \in SUBSET Objects : Cardinality(S) = n => Law(S)}
<1>3. 0 \in T
  BY ObjectsAreFinite
<1>4. ASSUME NEW n \in T PROVE n + 1 \in T
  <2> SUFFICES ASSUME NEW S \in SUBSET Objects, Cardinality(S) = n + 1, NEW o \in S
               PROVE  F[S] = Size[o] + F[S \ {o}]
    OBVIOUS
  <2> DEFINE p == First(S)
  <2>1. p \in S /\ F[S] = Size[p] + F[S \ {p}]
    BY <1>1, ObjectsAreFinite DEF Sums
  <2>2. CASE o = p
    BY <2>1, <2>2
  <2>3. CASE o # p
    <3> HIDE DEF p
    <3>1. S \ {p} \in SUBSET Objects /\ S \ {o} \in SUBSET Objects
          /\ Cardinality(S \ {p}) = n /\ Cardinality(S \ {o}) = n
          /\ o \in S \ {p} /\ p \in S \ {o}
      BY <2>1, <2>3, ObjectsAreFinite
    <3>2. F[S \ {p}] = Size[o] + F[(S \ {p}) \ {o}]
      BY <3>1
    <3>3. F[S \ {o}] = Size[p] + F[(S \ {o}) \ {p}]
      BY <3>1
    <3>4. (S \ {p}) \ {o} = (S \ {o}) \ {p}
      OBVIOUS
    <3>5. Size[o] \in Nat /\ Size[p] \in Nat /\ F[(S \ {p}) \ {o}] \in Nat
      BY <2>1, CleanAssumption
    <3>6. F[S \ {o}] = Size[p] + F[(S \ {p}) \ {o}]
      BY <3>3, <3>4
    <3>7. \A a, b, n0 \in Nat : a + (b + n0) = b + (a + n0)
      OBVIOUS
    <3>8. Size[p] + F[S \ {p}] = Size[o] + F[S \ {o}]
      BY <3>2, <3>5, <3>6, <3>7
    <3>9. QED
      BY <2>1, <3>8
  <2>4. QED
    BY <2>2, <2>3
<1>5. T = Nat
  BY <1>3, <1>4, SetOfNumbersIsNat
<1>6. \A S \in SUBSET Objects : Law(S)
  BY <1>5, ObjectsAreFinite
<1>7. SizeOf({}) = 0
  BY <1>1, <1>2 DEF Sums
<1>8. QED
  BY <1>2, <1>6, <1>7

\* The sizes of two sets without a common object add up.
LEMMA SizeOfUnion ==
    ASSUME NEW S \in SUBSET Objects, NEW U \in SUBSET Objects, S \cap U = {}
    PROVE  SizeOf(S \cup U) = SizeOf(S) + SizeOf(U)
<1> DEFINE T == {n \in Nat : \A V \in SUBSET U : Cardinality(V) = n =>
                     SizeOf(S \cup V) = SizeOf(S) + SizeOf(V)}
<1>1. 0 \in T
  <2>1. \A V \in SUBSET U : Cardinality(V) = 0 => V = {}
    BY ObjectsAreFinite
  <2>2. S \cup {} = S /\ SizeOf(S) + 0 = SizeOf(S)
    BY SizeOfRemove
  <2>3. QED
    BY <2>1, <2>2, SizeOfRemove
<1>2. ASSUME NEW n \in T PROVE n + 1 \in T
  <2> SUFFICES ASSUME NEW V \in SUBSET U, Cardinality(V) = n + 1
               PROVE  SizeOf(S \cup V) = SizeOf(S) + SizeOf(V)
    OBVIOUS
  <2>1. V \in SUBSET Objects /\ V # {}
    BY ObjectsAreFinite
  <2>2. PICK o \in V : TRUE
    BY <2>1
  <2>3. V \ {o} \in SUBSET U /\ Cardinality(V \ {o}) = n
    BY <2>1, ObjectsAreFinite
  <2>4. SizeOf(S \cup (V \ {o})) = SizeOf(S) + SizeOf(V \ {o})
    BY <2>3
  <2>5. SizeOf(V) = Size[o] + SizeOf(V \ {o})
    BY <2>1, SizeOfRemove
  <2>6. S \cup V \in SUBSET Objects /\ o \in S \cup V
        /\ (S \cup V) \ {o} = S \cup (V \ {o})
    BY <2>1, <2>2
  <2>7. SizeOf(S \cup V) = Size[o] + SizeOf(S \cup (V \ {o}))
    BY <2>6, SizeOfRemove
  <2>8. Size[o] \in Nat /\ SizeOf(S) \in Nat /\ SizeOf(V \ {o}) \in Nat
    BY <2>1, SizeOfRemove, CleanAssumption
  <2>9. QED
    BY <2>4, <2>5, <2>7, <2>8
<1>3. T = Nat
  BY <1>1, <1>2, SetOfNumbersIsNat
<1>4. Cardinality(U) \in T
  BY <1>3, ObjectsAreFinite
<1>5. QED
  BY <1>4

\* A part of a set is not larger than the set.
LEMMA SizeOfSubset ==
    ASSUME NEW S \in SUBSET Objects, NEW U \in SUBSET S
    PROVE  SizeOf(U) <= SizeOf(S)
<1>1. SizeOf(U \cup (S \ U)) = SizeOf(U) + SizeOf(S \ U)
  BY SizeOfUnion
<1>2. U \cup (S \ U) = S
  OBVIOUS
<1>3. SizeOf(U) \in Nat /\ SizeOf(S \ U) \in Nat
  BY SizeOfRemove
<1>4. SizeOf(S) = SizeOf(U) + SizeOf(S \ U)
  BY <1>1, <1>2
<1>5. QED
  BY <1>3, <1>4

-----------------------------------------------------------------------------
(* Type correctness *)

\* A command that works on the shared listing table has found or made it.
ListIsThere == \A c \in Hosts :
    opt[c].keep /\ pc[c] \in {"fill", "local", "backups", "join"} => list \subseteq Objects

\* Every initial state has the types.
LEMMA InitType == Init => TypeOK /\ ListIsThere
<1> SUFFICES ASSUME Init PROVE TypeOK /\ ListIsThere
  OBVIOUS
<1>1. uploading \in [Hosts -> SUBSET Objects] /\ NoLimit \in 0..NoLimit
  BY CleanAssumption DEF Init, NoCommandYet, NoLimit
<1>2. opt \in [Hosts -> OptionType]
  BY <1>1 DEF Init, NoCommandYet, OptionType
<1>3. /\ now \in 0..MaxTime /\ mtime \in [Objects -> 0..MaxTime]
      /\ since \in [Hosts -> 0..MaxTime]
      /\ sizes \in [Hosts -> [listing : Nat, total : Nat]]
  BY CleanAssumption DEF Init, NoCommandYet
<1>4. QED
  BY <1>1, <1>2, <1>3 DEF Init, NoCommandYet, TypeOK, Labels, ListIsThere

\* The sets of the commands after an assignment to one of them.
LEMMA UpdateType ==
    ASSUME NEW c \in Hosts
    PROVE  \A f \in [Hosts -> SUBSET Objects] : \A S \in SUBSET Objects :
               [f EXCEPT ![c] = S] \in [Hosts -> SUBSET Objects]
  OBVIOUS

\* What the listing leaves in the tables are objects.
LEMMA FillType ==
    ASSUME TypeOK, NEW c \in Hosts, FillList(c)
    PROVE  /\ remote' \in [Hosts -> SUBSET Objects]
           /\ list \subseteq Objects => list' \subseteq Objects
           /\ ~opt[c].keep => list' = list
<1> DEFINE found == {o \in Stored : InInterval(o, opt[c].from)}
<1>1. found \in SUBSET Objects /\ remote \in [Hosts -> SUBSET Objects]
  BY DEF Stored, TypeOK
<1>2. /\ opt[c].keep => list' = list \cup found /\ remote' = remote
      /\ ~opt[c].keep => list' = list /\ remote' = [remote EXCEPT ![c] = found]
  BY DEF FillList
<1> HIDE DEF found
<1>3. [remote EXCEPT ![c] = found] \in [Hosts -> SUBSET Objects]
  BY <1>1, UpdateType
<1>4. QED
  BY <1>1, <1>2, <1>3

\* The batches are sets of objects, and their sizes are counted.
LEMMA BatchType ==
    ASSUME TypeOK, NEW c \in Hosts, NEW batch \in SUBSET todo[c],
           NEW objects \in SUBSET batch, DeleteBatch(c, batch, objects)
    PROVE  /\ sizes' \in [Hosts -> [listing : Nat, total : Nat]]
           /\ asked' \in [Hosts -> SUBSET Objects]
           /\ todo' \in [Hosts -> SUBSET Objects]
           /\ bucket' \in [Objects -> {"unused", "stored", "gone"}]
<1>1. /\ sizes \in [Hosts -> [listing : Nat, total : Nat]]
      /\ asked \in [Hosts -> SUBSET Objects] /\ todo \in [Hosts -> SUBSET Objects]
      /\ bucket \in [Objects -> {"unused", "stored", "gone"}]
  BY DEF TypeOK
<1>2. sizes' \in [Hosts -> [listing : Nat, total : Nat]]
  <2> DEFINE total == sizes[c].total + SizeOf(objects)
  <2>1. sizes' = sizes \/ sizes' = [sizes EXCEPT ![c].total = total]
    BY DEF DeleteBatch
  <2>2. objects \in SUBSET Objects
    BY <1>1
  <2>3. total \in Nat
    BY <1>1, <2>2, SizeOfRemove
  <2> HIDE DEF total
  <2>4. QED
    BY <1>1, <2>1, <2>3
<1>3. asked' \in [Hosts -> SUBSET Objects]
  <2>1. asked' = asked \/ asked' = [asked EXCEPT ![c] = asked[c] \cup objects]
    BY DEF DeleteBatch
  <2>2. asked[c] \cup objects \in SUBSET Objects
    BY <1>1
  <2>3. QED
    BY <1>1, <2>1, <2>2, UpdateType
<1>4. todo' \in [Hosts -> SUBSET Objects]
  <2>1. todo' = todo \/ todo' = [todo EXCEPT ![c] = todo[c] \ batch]
    BY DEF DeleteBatch
  <2>2. todo[c] \ batch \in SUBSET Objects
    BY <1>1
  <2>3. QED
    BY <1>1, <2>1, <2>2, UpdateType
<1>5. bucket' \in [Objects -> {"unused", "stored", "gone"}]
  BY <1>1 DEF DeleteBatch
<1>6. QED
  BY <1>2, <1>3, <1>4, <1>5

\* Every step keeps them.
LEMMA NextType == TypeOK /\ ListIsThere /\ [Next]_vars => (TypeOK /\ ListIsThere)'
<1> SUFFICES ASSUME TypeOK, ListIsThere, [Next]_vars PROVE (TypeOK /\ ListIsThere)'
  OBVIOUS
<1> USE DEF TypeOK, ListIsThere, Labels, world, procs
<1>1. CASE Tick
  <2>1. now + 1 \in 0..MaxTime
    BY <1>1, CleanAssumption DEF Tick
  <2>2. QED
    BY <1>1, <2>1 DEF Tick
<1>2. ASSUME NEW h \in Hosts, NEW o \in Objects, Upload(h, o)
      PROVE  (TypeOK /\ ListIsThere)'
  BY <1>2 DEF Upload, Clock
<1>3. ASSUME NEW h \in Hosts, NEW o \in Objects, EndUpload(h, o)
      PROVE  (TypeOK /\ ListIsThere)'
  <2>1. uploading' \in [Hosts -> SUBSET Objects]
    BY <1>3 DEF EndUpload
  <2>r. refs' \in [Hosts -> SUBSET Objects]
    <3>1. CASE refs' = refs
      BY <3>1
    <3>2. CASE refs' = [refs EXCEPT ![h] = @ \cup {o}]
      BY <3>2
    <3>3. QED
      BY <1>3, <3>1, <3>2 DEF EndUpload
  <2>2. UNCHANGED <<now, bucket, mtime, backup, shadow, list, procs>>
    BY <1>3 DEF EndUpload
  <2>3. QED
    BY <2>1, <2>r, <2>2
<1>4. ASSUME NEW h \in Hosts, NEW g \in Hosts, NEW o \in Objects, Fetch(h, g, o)
      PROVE  (TypeOK /\ ListIsThere)'
  BY <1>4 DEF Fetch
<1>5. ASSUME NEW h \in Hosts, NEW o \in Objects, Release(h, o)
      PROVE  (TypeOK /\ ListIsThere)'
  BY <1>5 DEF Release, Unlink
<1>6. ASSUME NEW h \in Hosts, Backup(h)
      PROVE  (TypeOK /\ ListIsThere)'
  BY <1>6 DEF Backup
<1>7. ASSUME NEW h \in Hosts, LoseShadow(h)
      PROVE  (TypeOK /\ ListIsThere)'
  BY <1>7 DEF LoseShadow
<1>8. ASSUME NEW h \in Hosts, DeleteBackup(h)
      PROVE  (TypeOK /\ ListIsThere)'
  BY <1>8 DEF DeleteBackup, Unlink
<1>9. ASSUME NEW c \in Hosts, NEW options \in Options, Start(c, options)
      PROVE  (TypeOK /\ ListIsThere)'
  <2>1. options \in OptionType
    BY CleanAssumption
  <2>2. sizes' \in [Hosts -> [listing : Nat, total : Nat]]
    BY <1>9 DEF Start
  <2>3. QED
    BY <1>9, <2>1, <2>2 DEF Start, Goto
<1>10. ASSUME NEW c \in Hosts, ReuseList(c)
      PROVE  (TypeOK /\ ListIsThere)'
  BY <1>10 DEF ReuseList, Goto
<1>11. ASSUME NEW c \in Hosts, CreateList(c)
      PROVE  (TypeOK /\ ListIsThere)'
  BY <1>11 DEF CreateList, Goto
<1>12. ASSUME NEW c \in Hosts, FillList(c)
      PROVE  (TypeOK /\ ListIsThere)'
  <2>1. remote' \in [Hosts -> SUBSET Objects] /\ (list \subseteq Objects => list' \subseteq Objects)
        /\ (~opt[c].keep => list' = list) /\ (opt[c].keep => list \subseteq Objects)
    BY <1>12, FillType DEF FillList
  <2>2. (list = NoList \/ list \subseteq Objects)' /\ ListIsThere'
    BY <1>12, <2>1 DEF FillList, Goto
  <2>3. QED
    BY <1>12, <2>1, <2>2 DEF FillList, Goto
<1>13. ASSUME NEW c \in Hosts, NEW h \in Hosts, ReadHost(c, h)
      PROVE  (TypeOK /\ ListIsThere)'
  <2>1. Visible(h) \subseteq Objects
    BY DEF Visible
  <2>2. QED
    BY <1>13, <2>1 DEF ReadHost, Goto
<1>14. ASSUME NEW c \in Hosts, ReadBackups(c)
      PROVE  (TypeOK /\ ListIsThere)'
  <2>1. UNION {backup[h] : h \in MissingBackups(c)} \subseteq Objects
    BY DEF MissingBackups
  <2>2. QED
    BY <1>14, <2>1 DEF ReadBackups, Goto
<1>15. ASSUME NEW c \in Hosts, Antijoin(c)
      PROVE  (TypeOK /\ ListIsThere)'
  <2> DEFINE table == IF opt[c].keep THEN list ELSE remote[c]
  <2>1. table \in SUBSET Objects
    BY <1>15 DEF Antijoin
  <2>2. SizeOf(table) \in Nat
    BY <2>1, SizeOfRemove
  <2> HIDE DEF table
  <2>3. /\ orphans' = [orphans EXCEPT ![c] = table \ local[c]]
        /\ todo' = [todo EXCEPT ![c] =
                       {o \in table \ local[c] : InInterval(o, opt[c].from)}]
        /\ sizes' = [sizes EXCEPT ![c] = [listing |-> SizeOf(table), total |-> 0]]
    BY <1>15 DEF Antijoin, table
  <2>4. orphans' \in [Hosts -> SUBSET Objects] /\ todo' \in [Hosts -> SUBSET Objects]
    BY <2>1, <2>3
  <2>5. sizes' \in [Hosts -> [listing : Nat, total : Nat]]
    BY <2>2, <2>3
  <2>6. QED
    BY <1>15, <2>4, <2>5 DEF Antijoin, Goto
<1>16. ASSUME NEW c \in Hosts, SanityCheck(c)
      PROVE  (TypeOK /\ ListIsThere)'
  <2>1. \/ pc' = [pc EXCEPT ![c] = "failed"]
        \/ pc' = [pc EXCEPT ![c] = "delete"]
    BY <1>16 DEF SanityCheck, Goto
  <2>2. UNCHANGED <<world, list, opt, remote, unread, local, orphans, todo, sizes,
                    asked, since, ignored>>
    BY <1>16 DEF SanityCheck
  <2>3. QED
    BY <2>1, <2>2
<1>17. ASSUME NEW c \in Hosts, NEW batch \in SUBSET todo[c], NEW objects \in SUBSET batch,
              DeleteBatch(c, batch, objects)
      PROVE  (TypeOK /\ ListIsThere)'
  <2>1. /\ sizes' \in [Hosts -> [listing : Nat, total : Nat]]
        /\ asked' \in [Hosts -> SUBSET Objects]
        /\ todo' \in [Hosts -> SUBSET Objects]
        /\ bucket' \in [Objects -> {"unused", "stored", "gone"}]
    BY <1>17, BatchType
  <2>2. pc' \in [Hosts -> Labels] /\ ListIsThere'
    BY <1>17 DEF DeleteBatch, Goto
  <2>3. QED
    BY <1>17, <2>1, <2>2 DEF DeleteBatch
<1>18. ASSUME NEW c \in Hosts, DeleteDone(c)
      PROVE  (TypeOK /\ ListIsThere)'
  BY <1>18 DEF DeleteDone, Goto
<1>19. ASSUME NEW c \in Hosts, Fail(c)
      PROVE  (TypeOK /\ ListIsThere)'
  BY <1>19 DEF Fail, Goto
<1>20. ASSUME NEW c \in Hosts, SaveState(c)
      PROVE  (TypeOK /\ ListIsThere)'
  BY <1>20 DEF SaveState, Goto
<1>21. ASSUME NEW c \in Hosts, Kill(c)
      PROVE  (TypeOK /\ ListIsThere)'
  BY <1>21 DEF Kill, Goto
<1>22. CASE UNCHANGED vars
  BY <1>22 DEF vars
<1>23. QED
  BY <1>1, <1>2, <1>3, <1>4, <1>5, <1>6, <1>7, <1>8, <1>9, <1>10, <1>11,
     <1>12, <1>13, <1>14, <1>15, <1>16, <1>17, <1>18, <1>19, <1>20, <1>21, <1>22
     DEF Next, Server, Command

\* The types hold in every reachable state.
THEOREM TypeCorrect == Spec => []TypeOK
  BY InitType, NextType, PTL DEF Spec

-----------------------------------------------------------------------------
(* Referenced objects are kept *)

\* The listing table that --keep-paths leaves is not shared: the command is
\* run without it, or the shard has one host.  With a shared table a run may
\* delete what another one has listed later than the first has read the hosts.
ListIsNotShared ==
    (\A options \in Options : ~options.keep) \/ (\A h, g \in Hosts : h = g)

\* An object that is no longer being written.
Written(o) == bucket[o] # "unused" /\ \A h \in Hosts : o \notin uploading[h]
Unreferenced(o) == \A h \in Hosts : o \notin refs[h] /\ o \notin backup[h]
\* ... as far as a command looks: it may be told not to read the missing backups.
UnreferencedFor(c, o) ==
    \A h \in Hosts : o \notin refs[h] /\ (opt[c].backups => o \notin backup[h])

\* Writes are young, and one host writes an object that nobody knows yet.
WritesAreYoung ==
    \A h \in Hosts : \A o \in uploading[h] :
        /\ bucket[o] = "stored" /\ now - mtime[o] <= UploadWindow
        /\ Unreferenced(o)
        /\ \A g \in Hosts : o \in uploading[g] => g = h

\* What a command has listed, in its table or in the one that is left.
Listed(c) == IF opt[c].keep THEN list ELSE remote[c]
Reading(c) == pc[c] \in {"local", "backups", "join"}

\* The object was there, and older than the guard interval, at time t.
Past(o, t) == bucket[o] # "unused" /\ mtime[o] <= t - Guard

\* Listed objects are old.
ListedAreOld ==
    /\ list = NoList \/ \A o \in list : Past(o, now)
    /\ \A c \in Hosts : opt[c].keep /\ pc[c] \in {"fill", "local", "backups", "join"}
          => \A o \in list : Past(o, now)
    /\ \A c \in Hosts : Reading(c) => \A o \in Listed(c) : Past(o, now)

\* A command that has listed the objects knows, or is still going to read,
\* every host and, unless it is told not to, every backup that references one of
\* them; when it has read them all, what it is going to delete has no reference.
HasRead(c) ==
    /\ pc[c] \in {"reuse", "create", "fill"} => unread[c] = Hosts
    /\ pc[c] \in {"backups", "join"} => unread[c] = {}
    /\ Reading(c) => \A o \in Listed(c) \ local[c] : \A h \in Hosts :
          /\ o \in refs[h] => h \in unread[c]
          /\ opt[c].backups /\ o \in backup[h] =>
                /\ pc[c] # "join"
                /\ h # c \/ ~shadow[h] \/ h \in unread[c]
    /\ pc[c] \in {"check", "delete"} =>
          \A o \in todo[c] : Written(o) /\ UnreferencedFor(c, o)
ReferencesAreRead == \A c \in Hosts : HasRead(c)

\* Who runs with --keep-paths is the only host.
KeeperIsAlone == \A c \in Hosts : opt[c].keep => \A h \in Hosts : h = c

\* What runs without the missing backups asked to delete had been written.
IgnoredAreWritten == \A o \in ignored : Written(o)

Safe == /\ TypeOK /\ ListIsThere /\ ReferencedAreStored /\ KeeperIsAlone
        /\ WritesAreYoung /\ ListedAreOld /\ ReferencesAreRead /\ IgnoredAreWritten

\* No key is used twice, and only keys that were not used are being written.
LEMMA KeysAreNew ==
    ASSUME TypeOK, [Next]_vars
    PROVE  /\ \A o \in Objects : bucket[o] # "unused" => bucket'[o] # "unused"
           /\ \A h \in Hosts : \A o \in uploading'[h] :
                  o \in Objects /\ (o \in uploading[h] \/ bucket[o] = "unused")
<1> DEFINE Goal == /\ \A o \in Objects : bucket[o] # "unused" => bucket'[o] # "unused"
                   /\ \A h \in Hosts : \A o \in uploading'[h] :
                          o \in Objects /\ (o \in uploading[h] \/ bucket[o] = "unused")
<1>0. /\ bucket \in [Objects -> {"unused", "stored", "gone"}]
      /\ uploading \in [Hosts -> SUBSET Objects]
  BY DEF TypeOK
<1> USE DEF world
<1>1. CASE Tick
  BY <1>0, <1>1 DEF Tick
<1>2. ASSUME NEW h \in Hosts, NEW o \in Objects, Upload(h, o)
      PROVE  Goal
  BY <1>0, <1>2 DEF Upload, Clock
<1>3. ASSUME NEW h \in Hosts, NEW o \in Objects, EndUpload(h, o)
      PROVE  Goal
  BY <1>0, <1>3 DEF EndUpload
<1>4. ASSUME NEW h \in Hosts, NEW g \in Hosts, NEW o \in Objects, Fetch(h, g, o)
      PROVE  Goal
  BY <1>0, <1>4 DEF Fetch
<1>5. ASSUME NEW h \in Hosts, NEW o \in Objects, Release(h, o)
      PROVE  Goal
  BY <1>0, <1>5 DEF Release, Unlink
<1>6. ASSUME NEW h \in Hosts, Backup(h)
      PROVE  Goal
  BY <1>0, <1>6 DEF Backup
<1>7. ASSUME NEW h \in Hosts, LoseShadow(h)
      PROVE  Goal
  BY <1>0, <1>7 DEF LoseShadow
<1>8. ASSUME NEW h \in Hosts, DeleteBackup(h)
      PROVE  Goal
  BY <1>0, <1>8 DEF DeleteBackup, Unlink
<1>9. ASSUME NEW c \in Hosts, NEW options \in Options, Start(c, options)
      PROVE  Goal
  BY <1>0, <1>9 DEF Start, Goto
<1>10. ASSUME NEW c \in Hosts, ReuseList(c)
      PROVE  Goal
  BY <1>0, <1>10 DEF ReuseList, Goto
<1>11. ASSUME NEW c \in Hosts, CreateList(c)
      PROVE  Goal
  BY <1>0, <1>11 DEF CreateList, Goto
<1>12. ASSUME NEW c \in Hosts, FillList(c)
      PROVE  Goal
  BY <1>0, <1>12 DEF FillList, Goto
<1>13. ASSUME NEW c \in Hosts, NEW h \in Hosts, ReadHost(c, h)
      PROVE  Goal
  BY <1>0, <1>13 DEF ReadHost, Goto
<1>14. ASSUME NEW c \in Hosts, ReadBackups(c)
      PROVE  Goal
  BY <1>0, <1>14 DEF ReadBackups, Goto
<1>15. ASSUME NEW c \in Hosts, Antijoin(c)
      PROVE  Goal
  BY <1>0, <1>15 DEF Antijoin, Goto
<1>16. ASSUME NEW c \in Hosts, SanityCheck(c)
      PROVE  Goal
  BY <1>0, <1>16 DEF SanityCheck, Goto
<1>17. ASSUME NEW c \in Hosts, NEW batch \in SUBSET todo[c], NEW objects \in SUBSET batch,
             DeleteBatch(c, batch, objects)
      PROVE  Goal
  BY <1>0, <1>17 DEF DeleteBatch, Goto
<1>18. ASSUME NEW c \in Hosts, DeleteDone(c)
      PROVE  Goal
  BY <1>0, <1>18 DEF DeleteDone, Goto
<1>19. ASSUME NEW c \in Hosts, Fail(c)
      PROVE  Goal
  BY <1>0, <1>19 DEF Fail, Goto
<1>20. ASSUME NEW c \in Hosts, SaveState(c)
      PROVE  Goal
  BY <1>0, <1>20 DEF SaveState, Goto
<1>21. ASSUME NEW c \in Hosts, Kill(c)
      PROVE  Goal
  BY <1>0, <1>21 DEF Kill, Goto
<1>22. CASE UNCHANGED vars
  BY <1>0, <1>22 DEF vars
<1>23. QED
  BY <1>1, <1>2, <1>3, <1>4, <1>5, <1>6, <1>7, <1>8, <1>9, <1>10, <1>11,
     <1>12, <1>13, <1>14, <1>15, <1>16, <1>17, <1>18, <1>19, <1>20, <1>21,
     <1>22
     DEF Next, Server, Command

\* So an object that is written stays so.
LEMMA WrittenStays ==
    ASSUME TypeOK, [Next]_vars
    PROVE  \A o \in Objects : Written(o) => Written(o)'
  BY KeysAreNew DEF Written

\* Time goes on, and the time of an object is the time it was written.
LEMMA TimesStay ==
    ASSUME TypeOK, [Next]_vars
    PROVE  /\ now' \in Nat /\ now' >= now
           /\ \A o \in Objects : bucket[o] # "unused" =>
                  bucket'[o] # "unused" /\ mtime'[o] = mtime[o]
<1> DEFINE Goal == /\ now' \in Nat /\ now' >= now
                   /\ \A o \in Objects : bucket[o] # "unused" => mtime'[o] = mtime[o]
<1>0. now \in Nat /\ mtime \in [Objects -> 0..MaxTime]
  BY CleanAssumption DEF TypeOK
<1> USE DEF world
<1>1. CASE Tick
  BY <1>0, <1>1 DEF Tick
<1>2. ASSUME NEW h \in Hosts, NEW o \in Objects, Upload(h, o)
      PROVE  Goal
  BY <1>0, <1>2 DEF Upload
<1>3. ASSUME NEW h \in Hosts, NEW o \in Objects, EndUpload(h, o)
      PROVE  Goal
  BY <1>0, <1>3 DEF EndUpload
<1>4. ASSUME NEW h \in Hosts, NEW g \in Hosts, NEW o \in Objects, Fetch(h, g, o)
      PROVE  Goal
  BY <1>0, <1>4 DEF Fetch
<1>5. ASSUME NEW h \in Hosts, NEW o \in Objects, Release(h, o)
      PROVE  Goal
  BY <1>0, <1>5 DEF Release, Unlink
<1>6. ASSUME NEW h \in Hosts, Backup(h)
      PROVE  Goal
  BY <1>0, <1>6 DEF Backup
<1>7. ASSUME NEW h \in Hosts, LoseShadow(h)
      PROVE  Goal
  BY <1>0, <1>7 DEF LoseShadow
<1>8. ASSUME NEW h \in Hosts, DeleteBackup(h)
      PROVE  Goal
  BY <1>0, <1>8 DEF DeleteBackup, Unlink
<1>9. ASSUME NEW c \in Hosts, NEW options \in Options, Start(c, options)
      PROVE  Goal
  BY <1>0, <1>9 DEF Start, Goto
<1>10. ASSUME NEW c \in Hosts, ReuseList(c)
      PROVE  Goal
  BY <1>0, <1>10 DEF ReuseList, Goto
<1>11. ASSUME NEW c \in Hosts, CreateList(c)
      PROVE  Goal
  BY <1>0, <1>11 DEF CreateList, Goto
<1>12. ASSUME NEW c \in Hosts, FillList(c)
      PROVE  Goal
  BY <1>0, <1>12 DEF FillList, Goto
<1>13. ASSUME NEW c \in Hosts, NEW h \in Hosts, ReadHost(c, h)
      PROVE  Goal
  BY <1>0, <1>13 DEF ReadHost, Goto
<1>14. ASSUME NEW c \in Hosts, ReadBackups(c)
      PROVE  Goal
  BY <1>0, <1>14 DEF ReadBackups, Goto
<1>15. ASSUME NEW c \in Hosts, Antijoin(c)
      PROVE  Goal
  BY <1>0, <1>15 DEF Antijoin, Goto
<1>16. ASSUME NEW c \in Hosts, SanityCheck(c)
      PROVE  Goal
  BY <1>0, <1>16 DEF SanityCheck, Goto
<1>17. ASSUME NEW c \in Hosts, NEW batch \in SUBSET todo[c], NEW objects \in SUBSET batch,
             DeleteBatch(c, batch, objects)
      PROVE  Goal
  BY <1>0, <1>17 DEF DeleteBatch, Goto
<1>18. ASSUME NEW c \in Hosts, DeleteDone(c)
      PROVE  Goal
  BY <1>0, <1>18 DEF DeleteDone, Goto
<1>19. ASSUME NEW c \in Hosts, Fail(c)
      PROVE  Goal
  BY <1>0, <1>19 DEF Fail, Goto
<1>20. ASSUME NEW c \in Hosts, SaveState(c)
      PROVE  Goal
  <2>1. UNCHANGED world
    BY <1>20 DEF SaveState
  <2>2. QED
    BY <1>0, <2>1
<1>21. ASSUME NEW c \in Hosts, Kill(c)
      PROVE  Goal
  BY <1>0, <1>21 DEF Kill, Goto
<1>22. CASE UNCHANGED vars
  BY <1>0, <1>22 DEF vars
<1>23. Goal
  BY <1>1, <1>2, <1>3, <1>4, <1>5, <1>6, <1>7, <1>8, <1>9, <1>10, <1>11,
     <1>12, <1>13, <1>14, <1>15, <1>16, <1>17, <1>18, <1>19, <1>20, <1>21,
     <1>22
     DEF Next, Server, Command
<1>24. QED
  BY <1>23, KeysAreNew

\* Every step keeps it: a write ends within its window.
LEMMA NextWrites == Safe /\ [Next]_vars => WritesAreYoung'
<1> SUFFICES ASSUME Safe, [Next]_vars PROVE WritesAreYoung'
  OBVIOUS
<1>0. /\ bucket \in [Objects -> {"unused", "stored", "gone"}]
      /\ uploading \in [Hosts -> SUBSET Objects] /\ refs \in [Hosts -> SUBSET Objects]
      /\ backup \in [Hosts -> SUBSET Objects]
      /\ mtime \in [Objects -> 0..MaxTime] /\ now \in 0..MaxTime
  BY DEF Safe, TypeOK
<1>w. /\ WritesAreYoung /\ ReferencedAreStored /\ UploadWindow \in Nat /\ MaxTime \in Nat
      /\ \A o \in ignored : bucket[o] # "unused"
  BY CleanAssumption DEF Safe, IgnoredAreWritten, Written
<1> USE DEF world, WritesAreYoung, Unreferenced
<1>1. CASE Tick
  BY <1>0, <1>w, <1>1 DEF Tick
<1>2. ASSUME NEW h \in Hosts, NEW o \in Objects, Upload(h, o)
      PROVE  WritesAreYoung'
  <2>1. \A g \in Hosts : o \notin uploading[g] /\ o \notin refs[g] /\ o \notin backup[g]
    BY <1>0, <1>w, <1>2 DEF Upload, ReferencedAreStored, Stored
  <2>2. ASSUME NEW g \in Hosts, NEW p \in uploading[g]
        PROVE  /\ bucket'[p] = "stored" /\ now' - mtime'[p] <= UploadWindow
               /\ Unreferenced(p)'
               /\ \A k \in Hosts : p \in uploading'[k] => k = g
    BY <1>0, <1>w, <1>2, <2>1 DEF Upload
  <2>3. /\ bucket'[o] = "stored" /\ now' - mtime'[o] <= UploadWindow
        /\ Unreferenced(o)'
        /\ \A k \in Hosts : o \in uploading'[k] => k = h
    BY <1>0, <1>w, <1>2, <2>1 DEF Upload, Clock
  <2>4. \A g \in Hosts : \A p \in uploading'[g] : p \in uploading[g] \/ (p = o /\ g = h)
    BY <1>0, <1>2 DEF Upload
  <2>5. QED
    BY <2>2, <2>3, <2>4
<1>3. ASSUME NEW h \in Hosts, NEW o \in Objects, EndUpload(h, o)
      PROVE  WritesAreYoung'
  BY <1>0, <1>w, <1>3 DEF EndUpload
<1>4. ASSUME NEW h \in Hosts, NEW g \in Hosts, NEW o \in Objects, Fetch(h, g, o)
      PROVE  WritesAreYoung'
  BY <1>0, <1>w, <1>4 DEF Fetch
<1>5. ASSUME NEW h \in Hosts, NEW o \in Objects, Release(h, o)
      PROVE  WritesAreYoung'
  BY <1>0, <1>w, <1>5 DEF Release, Unlink
<1>6. ASSUME NEW h \in Hosts, Backup(h)
      PROVE  WritesAreYoung'
  BY <1>0, <1>w, <1>6 DEF Backup
<1>7. ASSUME NEW h \in Hosts, LoseShadow(h)
      PROVE  WritesAreYoung'
  BY <1>0, <1>w, <1>7 DEF LoseShadow
<1>8. ASSUME NEW h \in Hosts, DeleteBackup(h)
      PROVE  WritesAreYoung'
  BY <1>0, <1>w, <1>8 DEF DeleteBackup, Unlink
<1>9. ASSUME NEW c \in Hosts, NEW options \in Options, Start(c, options)
      PROVE  WritesAreYoung'
  BY <1>0, <1>w, <1>9 DEF Start, Goto
<1>10. ASSUME NEW c \in Hosts, ReuseList(c)
      PROVE  WritesAreYoung'
  BY <1>0, <1>w, <1>10 DEF ReuseList, Goto
<1>11. ASSUME NEW c \in Hosts, CreateList(c)
      PROVE  WritesAreYoung'
  BY <1>0, <1>w, <1>11 DEF CreateList, Goto
<1>12. ASSUME NEW c \in Hosts, FillList(c)
      PROVE  WritesAreYoung'
  BY <1>0, <1>w, <1>12 DEF FillList, Goto
<1>13. ASSUME NEW c \in Hosts, NEW h \in Hosts, ReadHost(c, h)
      PROVE  WritesAreYoung'
  BY <1>0, <1>w, <1>13 DEF ReadHost, Goto
<1>14. ASSUME NEW c \in Hosts, ReadBackups(c)
      PROVE  WritesAreYoung'
  BY <1>0, <1>w, <1>14 DEF ReadBackups, Goto
<1>15. ASSUME NEW c \in Hosts, Antijoin(c)
      PROVE  WritesAreYoung'
  BY <1>0, <1>w, <1>15 DEF Antijoin, Goto
<1>16. ASSUME NEW c \in Hosts, SanityCheck(c)
      PROVE  WritesAreYoung'
  BY <1>0, <1>w, <1>16 DEF SanityCheck, Goto
<1>17. ASSUME NEW c \in Hosts, NEW batch \in SUBSET todo[c], NEW objects \in SUBSET batch,
             DeleteBatch(c, batch, objects)
      PROVE  WritesAreYoung'
  <2>1. \A p \in objects : \A g \in Hosts : p \notin uploading[g]
    BY <1>17 DEF DeleteBatch, Safe, ReferencesAreRead, HasRead, Written
  <2>2. \A p \in Objects \ objects : bucket'[p] = bucket[p]
    BY <1>0, <1>17 DEF DeleteBatch
  <2>3. QED
    BY <1>0, <1>w, <1>17, <2>1, <2>2 DEF DeleteBatch
<1>18. ASSUME NEW c \in Hosts, DeleteDone(c)
      PROVE  WritesAreYoung'
  BY <1>0, <1>w, <1>18 DEF DeleteDone, Goto
<1>19. ASSUME NEW c \in Hosts, Fail(c)
      PROVE  WritesAreYoung'
  BY <1>0, <1>w, <1>19 DEF Fail, Goto
<1>20. ASSUME NEW c \in Hosts, SaveState(c)
      PROVE  WritesAreYoung'
  BY <1>0, <1>w, <1>20 DEF SaveState, Goto
<1>21. ASSUME NEW c \in Hosts, Kill(c)
      PROVE  WritesAreYoung'
  BY <1>0, <1>w, <1>21 DEF Kill, Goto
<1>22. CASE UNCHANGED vars
  BY <1>0, <1>w, <1>22 DEF vars
<1>23. QED
  BY <1>1, <1>2, <1>3, <1>4, <1>5, <1>6, <1>7, <1>8, <1>9, <1>10, <1>11,
     <1>12, <1>13, <1>14, <1>15, <1>16, <1>17, <1>18, <1>19, <1>20, <1>21,
     <1>22
     DEF Next, Server, Command

\* What was past stays so.
LEMMA PastStays ==
    ASSUME TypeOK, [Next]_vars, NEW o \in Objects, NEW t \in Nat
    PROVE  /\ Past(o, t) => Past(o, t)'
           /\ Past(o, now) => Past(o, now)'
<1>1. now \in Nat /\ now' \in Nat /\ mtime[o] \in Nat /\ now' >= now /\ Guard \in Nat
      /\ (bucket[o] # "unused" => bucket'[o] # "unused" /\ mtime'[o] = mtime[o])
  BY TimesStay, CleanAssumption DEF TypeOK
<1>2. QED
  BY <1>1 DEF Past

\* Listed objects are older than any write in progress.
LEMMA ListedAreWritten ==
    ASSUME Safe, NEW c \in Hosts, Reading(c)
    PROVE  Listed(c) \subseteq Objects /\ \A o \in Listed(c) : Written(o)
<1>1. Listed(c) \subseteq Objects
  BY DEF Safe, TypeOK, ListIsThere, Listed, Reading
<1>2. ASSUME NEW o \in Objects, Past(o, now) PROVE Written(o)
  <2>1. mtime[o] \in Nat /\ now \in Nat /\ Guard \in Nat /\ UploadWindow \in Nat
        /\ UploadWindow < Guard /\ mtime[o] <= now - Guard /\ bucket[o] # "unused"
    BY <1>2, CleanAssumption DEF Safe, TypeOK, Past
  <2>2. ~ (now - mtime[o] <= UploadWindow)
    BY <2>1
  <2>3. QED
    BY <2>1, <2>2 DEF Safe, WritesAreYoung, Written
<1>3. QED
  BY <1>1, <1>2 DEF Safe, ListedAreOld

\* Every step keeps it: what is listed grows older.
LEMMA NextListed == TypeOK /\ ListIsThere /\ ListedAreOld /\ [Next]_vars => ListedAreOld'
<1> SUFFICES ASSUME TypeOK, ListIsThere, ListedAreOld, [Next]_vars
             PROVE  ListedAreOld'
  OBVIOUS
<1>0. /\ ListedAreOld /\ \A o \in Objects : Past(o, now) => Past(o, now)'
      /\ pc \in [Hosts -> Labels] /\ opt \in [Hosts -> OptionType]
      /\ remote \in [Hosts -> SUBSET Objects]
      /\ list = NoList \/ list \subseteq Objects
      /\ ListIsThere
  BY PastStays, CleanAssumption DEF TypeOK
<1> USE DEF ListedAreOld, ListIsThere, Listed, Reading, world, procs
<1>1. CASE Tick
  <2>1. UNCHANGED <<list, opt, pc, remote>>
    BY <1>1 DEF Tick
  <2>2. QED
    BY <1>0, <2>1
<1>2. ASSUME NEW h \in Hosts, NEW o \in Objects, Upload(h, o)
      PROVE  ListedAreOld'
  <2>1. UNCHANGED <<list, opt, pc, remote>>
    BY <1>2 DEF Upload
  <2>2. QED
    BY <1>0, <2>1
<1>3. ASSUME NEW h \in Hosts, NEW o \in Objects, EndUpload(h, o)
      PROVE  ListedAreOld'
  <2>1. UNCHANGED <<list, opt, pc, remote>>
    BY <1>3 DEF EndUpload
  <2>2. QED
    BY <1>0, <2>1
<1>4. ASSUME NEW h \in Hosts, NEW g \in Hosts, NEW o \in Objects, Fetch(h, g, o)
      PROVE  ListedAreOld'
  <2>1. UNCHANGED <<list, opt, pc, remote>>
    BY <1>4 DEF Fetch
  <2>2. QED
    BY <1>0, <2>1
<1>5. ASSUME NEW h \in Hosts, NEW o \in Objects, Release(h, o)
      PROVE  ListedAreOld'
  <2>1. UNCHANGED <<list, opt, pc, remote>>
    BY <1>5 DEF Release
  <2>2. QED
    BY <1>0, <2>1
<1>6. ASSUME NEW h \in Hosts, Backup(h)
      PROVE  ListedAreOld'
  <2>1. UNCHANGED <<list, opt, pc, remote>>
    BY <1>6 DEF Backup
  <2>2. QED
    BY <1>0, <2>1
<1>7. ASSUME NEW h \in Hosts, LoseShadow(h)
      PROVE  ListedAreOld'
  <2>1. UNCHANGED <<list, opt, pc, remote>>
    BY <1>7 DEF LoseShadow
  <2>2. QED
    BY <1>0, <2>1
<1>8. ASSUME NEW h \in Hosts, DeleteBackup(h)
      PROVE  ListedAreOld'
  <2>1. UNCHANGED <<list, opt, pc, remote>>
    BY <1>8 DEF DeleteBackup
  <2>2. QED
    BY <1>0, <2>1
<1>9. ASSUME NEW c \in Hosts, NEW options \in Options, Start(c, options)
      PROVE  ListedAreOld'
  BY <1>0, <1>9 DEF Start, Goto
<1>10. ASSUME NEW c \in Hosts, ReuseList(c)
      PROVE  ListedAreOld'
  BY <1>0, <1>10 DEF ReuseList, Goto
<1>11. ASSUME NEW c \in Hosts, CreateList(c)
      PROVE  ListedAreOld'
  BY <1>0, <1>11 DEF CreateList, Goto
<1>12. ASSUME NEW c \in Hosts, FillList(c)
      PROVE  ListedAreOld'
  <2> DEFINE found == {o \in Stored : InInterval(o, opt[c].from)}
  <2>1. \A o \in found : Past(o, now)'
    BY <1>0 DEF Stored, InInterval, Past
  <2>2. /\ opt[c].keep => list' = list \cup found /\ remote' = remote
        /\ ~opt[c].keep => list' = list /\ remote' = [remote EXCEPT ![c] = found]
    BY <1>12 DEF FillList
  <2> HIDE DEF found
  <2>3. opt' = opt /\ pc' = [pc EXCEPT ![c] = "local"] /\ pc[c] = "fill"
    BY <1>12 DEF FillList, Goto
  <2>4. CASE opt[c].keep
    BY <1>0, <2>1, <2>2, <2>3, <2>4
  <2>5. CASE ~opt[c].keep
    BY <1>0, <2>1, <2>2, <2>3, <2>5
  <2>6. QED
    BY <2>4, <2>5
<1>13. ASSUME NEW c \in Hosts, NEW h \in Hosts, ReadHost(c, h)
      PROVE  ListedAreOld'
  BY <1>0, <1>13 DEF ReadHost, Goto
<1>14. ASSUME NEW c \in Hosts, ReadBackups(c)
      PROVE  ListedAreOld'
  BY <1>0, <1>14 DEF ReadBackups, Goto
<1>15. ASSUME NEW c \in Hosts, Antijoin(c)
      PROVE  ListedAreOld'
  BY <1>0, <1>15 DEF Antijoin, Goto
<1>16. ASSUME NEW c \in Hosts, SanityCheck(c)
      PROVE  ListedAreOld'
  BY <1>0, <1>16 DEF SanityCheck, Goto
<1>17. ASSUME NEW c \in Hosts, NEW batch \in SUBSET todo[c], NEW objects \in SUBSET batch,
             DeleteBatch(c, batch, objects)
      PROVE  ListedAreOld'
  BY <1>0, <1>17 DEF DeleteBatch, Goto
<1>18. ASSUME NEW c \in Hosts, DeleteDone(c)
      PROVE  ListedAreOld'
  BY <1>0, <1>18 DEF DeleteDone, Goto
<1>19. ASSUME NEW c \in Hosts, Fail(c)
      PROVE  ListedAreOld'
  BY <1>0, <1>19 DEF Fail, Goto
<1>20. ASSUME NEW c \in Hosts, SaveState(c)
      PROVE  ListedAreOld'
  BY <1>0, <1>20 DEF SaveState, Goto
<1>21. ASSUME NEW c \in Hosts, Kill(c)
      PROVE  ListedAreOld'
  BY <1>0, <1>21 DEF Kill, Goto
<1>22. CASE UNCHANGED vars
  BY <1>0, <1>22 DEF vars
<1>23. QED
  BY <1>1, <1>2, <1>3, <1>4, <1>5, <1>6, <1>7, <1>8, <1>9, <1>10, <1>11,
     <1>12, <1>13, <1>14, <1>15, <1>16, <1>17, <1>18, <1>19, <1>20, <1>21,
     <1>22
     DEF Next, Server, Command

\* What a step of the hosts may do to the references of objects that are
\* written: a host takes one over from a host, which no command that is
\* reading the hosts has before it and the other behind it; and a backup takes
\* what its host has.
NewReferencesAreOld ==
    \A h \in Hosts : \A o \in Objects : Written(o) =>
        /\ o \in refs'[h] => \/ o \in refs[h]
                             \/ \E g \in Hosts : /\ o \in refs[g]
                                                 /\ \A d \in Hosts : pc[d] = "local" =>
                                                      h \in unread[d] \/ g \notin unread[d]
        /\ o \in backup'[h] => o \in refs[h] \/ (o \in backup[h] /\ (shadow'[h] => shadow[h]))

\* Such a step leaves what the commands know true.
LEMMA WorldFrame ==
    ASSUME Safe, [Next]_vars, UNCHANGED <<list, procs>>, NewReferencesAreOld,
           NEW d \in Hosts
    PROVE  HasRead(d)'
<1>1. /\ HasRead(d) /\ \A o \in Objects : Written(o) => Written(o)'
      /\ Reading(d) => Listed(d) \subseteq Objects /\ \A o \in Listed(d) : Written(o)
      /\ todo[d] \subseteq Objects
  BY WrittenStays, ListedAreWritten DEF Safe, ReferencesAreRead, TypeOK
<1>2. /\ pc'[d] = pc[d] /\ unread'[d] = unread[d] /\ local'[d] = local[d]
      /\ opt'[d] = opt[d] /\ todo'[d] = todo[d] /\ Listed(d)' = Listed(d) /\ Reading(d)' = Reading(d)
  BY DEF procs, Listed, Reading
<1>3. ASSUME Reading(d), NEW o \in Listed(d) \ local[d], NEW h \in Hosts
      PROVE  /\ o \in refs'[h] => h \in unread[d]
             /\ opt[d].backups /\ o \in backup'[h] =>
                   pc[d] # "join" /\ (h # d \/ ~shadow'[h] \/ h \in unread[d])
  <2>1. o \in Objects /\ Written(o)
    BY <1>1, <1>3
  <2>2. \A g \in Hosts : /\ o \in refs[g] => g \in unread[d]
                         /\ opt[d].backups /\ o \in backup[g] =>
                               pc[d] # "join" /\ (g # d \/ ~shadow[g] \/ g \in unread[d])
    BY <1>1, <1>3 DEF HasRead
  <2>3. unread[d] # {} => pc[d] = "local"
    BY <1>1, <1>3 DEF HasRead, Reading
  <2>4. o \in refs'[h] => h \in unread[d]
    BY <2>1, <2>2, <2>3 DEF NewReferencesAreOld
  <2>5. opt[d].backups /\ o \in backup'[h] =>
            pc[d] # "join" /\ (h # d \/ ~shadow'[h] \/ h \in unread[d])
    BY <2>1, <2>2, <2>3 DEF NewReferencesAreOld
  <2>6. QED
    BY <2>4, <2>5
<1>4. ASSUME pc[d] \in {"check", "delete"}, NEW o \in todo[d]
      PROVE  Written(o)' /\ UnreferencedFor(d, o)'
  <2>1. o \in Objects /\ Written(o) /\ UnreferencedFor(d, o)
    BY <1>1, <1>4 DEF HasRead
  <2>2. QED
    BY <1>1, <1>2, <2>1 DEF NewReferencesAreOld, UnreferencedFor
<1>5. QED
  BY <1>1, <1>2, <1>3, <1>4 DEF HasRead

\* What a command knows, and a step of another command leaves alone.
View(d) == <<pc[d], opt[d], remote[d], unread[d], local[d], todo[d]>>

\* What the other steps leave as it is.
LEMMA OtherFrame ==
    ASSUME Safe, [Next]_vars, UNCHANGED <<refs, backup, shadow>>,
           NEW c \in Hosts, NEW d \in Hosts, d # c, View(d)' = View(d)
    PROVE  HasRead(d)'
<1>1. /\ HasRead(d) /\ \A o \in Objects : Written(o) => Written(o)'
      /\ todo[d] \subseteq Objects /\ ~opt[d].keep
  BY WrittenStays DEF Safe, ReferencesAreRead, KeeperIsAlone, TypeOK
<1>2. /\ pc'[d] = pc[d] /\ unread'[d] = unread[d] /\ local'[d] = local[d]
      /\ todo'[d] = todo[d] /\ opt'[d] = opt[d] /\ remote'[d] = remote[d]
  BY DEF View
<1>3. Listed(d)' = Listed(d) /\ Reading(d)' = Reading(d)
  BY <1>1, <1>2 DEF Listed, Reading
<1>4. QED
  BY <1>1, <1>2, <1>3 DEF HasRead, UnreferencedFor

\* Every step keeps what the commands know of the references, if no host takes
\* over an object behind the back of a command that is reading the hosts.
LEMMA NextRead ==
    ASSUME RefsMove = FALSE
    PROVE  Safe /\ [Next]_vars => ReferencesAreRead'
<1> SUFFICES ASSUME Safe, [Next]_vars PROVE ReferencesAreRead'
  OBVIOUS
<1>0. /\ \A d \in Hosts : HasRead(d)
      /\ \A d \in Hosts : \A o \in todo[d] : o \in Objects
      /\ WritesAreYoung
      /\ \A o \in Objects : Written(o) => Written(o)'
      /\ \A d \in Hosts : Reading(d) =>
             Listed(d) \subseteq Objects /\ \A o \in Listed(d) : Written(o)
      /\ pc \in [Hosts -> Labels] /\ opt \in [Hosts -> OptionType]
      /\ remote \in [Hosts -> SUBSET Objects] /\ local \in [Hosts -> SUBSET Objects]
      /\ todo \in [Hosts -> SUBSET Objects] /\ unread \in [Hosts -> SUBSET Hosts]
      /\ refs \in [Hosts -> SUBSET Objects] /\ backup \in [Hosts -> SUBSET Objects]
      /\ uploading \in [Hosts -> SUBSET Objects]
      /\ shadow \in [Hosts -> BOOLEAN]
  BY WrittenStays, ListedAreWritten DEF Safe, TypeOK, ReferencesAreRead
<1> USE DEF world
<1>1. CASE Tick
  <2>1. UNCHANGED <<list, procs>>
    BY <1>1 DEF Tick
  <2>2. NewReferencesAreOld
    BY <1>0, <1>1 DEF Tick, NewReferencesAreOld, Written
  <2>3. QED
    BY <2>1, <2>2, WorldFrame DEF ReferencesAreRead
<1>2. ASSUME NEW h \in Hosts, NEW o \in Objects, Upload(h, o)
      PROVE  ReferencesAreRead'
  <2>1. UNCHANGED <<list, procs>>
    BY <1>2 DEF Upload
  <2>2. NewReferencesAreOld
    BY <1>0, <1>2 DEF Upload, Clock, NewReferencesAreOld, Written
  <2>3. QED
    BY <2>1, <2>2, WorldFrame DEF ReferencesAreRead
<1>3. ASSUME NEW h \in Hosts, NEW o \in Objects, EndUpload(h, o)
      PROVE  ReferencesAreRead'
  <2>1. UNCHANGED <<list, procs>>
    BY <1>3 DEF EndUpload
  <2>2. NewReferencesAreOld
    BY <1>0, <1>3 DEF EndUpload, NewReferencesAreOld, Written
  <2>3. QED
    BY <2>1, <2>2, WorldFrame DEF ReferencesAreRead
<1>4. ASSUME NEW h \in Hosts, NEW g \in Hosts, NEW o \in Objects, Fetch(h, g, o)
      PROVE  ReferencesAreRead'
  <2>1. UNCHANGED <<list, procs>>
    BY <1>4 DEF Fetch
  <2>2. NewReferencesAreOld
    BY <1>0, <1>4 DEF Fetch, NewReferencesAreOld, Written, ReadApart
  <2>3. QED
    BY <2>1, <2>2, WorldFrame DEF ReferencesAreRead
<1>5. ASSUME NEW h \in Hosts, NEW o \in Objects, Release(h, o)
      PROVE  ReferencesAreRead'
  <2>1. UNCHANGED <<list, procs>>
    BY <1>5 DEF Release
  <2>2. NewReferencesAreOld
    BY <1>0, <1>5 DEF Release, Unlink, NewReferencesAreOld, Written
  <2>3. QED
    BY <2>1, <2>2, WorldFrame DEF ReferencesAreRead
<1>6. ASSUME NEW h \in Hosts, Backup(h)
      PROVE  ReferencesAreRead'
  <2>1. UNCHANGED <<list, procs>>
    BY <1>6 DEF Backup
  <2>2. NewReferencesAreOld
    BY <1>0, <1>6 DEF Backup, NewReferencesAreOld, Written
  <2>3. QED
    BY <2>1, <2>2, WorldFrame DEF ReferencesAreRead
<1>7. ASSUME NEW h \in Hosts, LoseShadow(h)
      PROVE  ReferencesAreRead'
  <2>1. UNCHANGED <<list, procs>>
    BY <1>7 DEF LoseShadow
  <2>2. NewReferencesAreOld
    BY <1>0, <1>7 DEF LoseShadow, NewReferencesAreOld, Written
  <2>3. QED
    BY <2>1, <2>2, WorldFrame DEF ReferencesAreRead
<1>8. ASSUME NEW h \in Hosts, DeleteBackup(h)
      PROVE  ReferencesAreRead'
  <2>1. UNCHANGED <<list, procs>>
    BY <1>8 DEF DeleteBackup
  <2>2. NewReferencesAreOld
    BY <1>0, <1>8 DEF DeleteBackup, Unlink, NewReferencesAreOld, Written
  <2>3. QED
    BY <2>1, <2>2, WorldFrame DEF ReferencesAreRead
<1>9. ASSUME NEW c \in Hosts, NEW options \in Options, Start(c, options)
      PROVE  ReferencesAreRead'
  <2>1. HasRead(c)'
    BY <1>0, <1>9 DEF Start, Goto, HasRead, Listed, Reading, UnreferencedFor
  <2>2. UNCHANGED <<refs, backup, shadow>> /\ \A d \in Hosts \ {c} : View(d)' = View(d)
    BY <1>0, <1>9 DEF Start, Goto, View
  <2>3. QED
    BY <2>1, <2>2, OtherFrame DEF ReferencesAreRead
<1>10. ASSUME NEW c \in Hosts, ReuseList(c)
      PROVE  ReferencesAreRead'
  <2>1. HasRead(c)'
    BY <1>0, <1>10 DEF ReuseList, Goto, HasRead, Listed, Reading, UnreferencedFor
  <2>2. UNCHANGED <<refs, backup, shadow>> /\ \A d \in Hosts \ {c} : View(d)' = View(d)
    BY <1>0, <1>10 DEF ReuseList, Goto, View
  <2>3. QED
    BY <2>1, <2>2, OtherFrame DEF ReferencesAreRead
<1>11. ASSUME NEW c \in Hosts, CreateList(c)
      PROVE  ReferencesAreRead'
  <2>1. HasRead(c)'
    BY <1>0, <1>11 DEF CreateList, Goto, HasRead, Listed, Reading, UnreferencedFor
  <2>2. UNCHANGED <<refs, backup, shadow>> /\ \A d \in Hosts \ {c} : View(d)' = View(d)
    BY <1>0, <1>11 DEF CreateList, Goto, View
  <2>3. QED
    BY <2>1, <2>2, OtherFrame DEF ReferencesAreRead
<1>12. ASSUME NEW c \in Hosts, FillList(c)
      PROVE  ReferencesAreRead'
  <2>1. HasRead(c)'
    BY <1>0, <1>12 DEF FillList, Goto, HasRead, Listed, Reading, UnreferencedFor
  <2>2. UNCHANGED <<refs, backup, shadow>> /\ \A d \in Hosts \ {c} : View(d)' = View(d)
    BY <1>0, <1>12 DEF FillList, Goto, View
  <2>3. QED
    BY <2>1, <2>2, OtherFrame DEF ReferencesAreRead
<1>13. ASSUME NEW c \in Hosts, NEW h \in Hosts, ReadHost(c, h)
      PROVE  ReferencesAreRead'
  <2>1. HasRead(c)'
    <3>1. /\ HasRead(c) /\ pc[c] = "local" /\ Reading(c)
          /\ pc'[c] \in {"local", "backups"} /\ (pc'[c] = "backups" => unread'[c] = {})
          /\ unread'[c] = unread[c] \ {h} /\ local'[c] = local[c] \cup Visible(h)
          /\ Listed(c)' = Listed(c)
      BY <1>0, <1>13 DEF ReadHost, Goto, Listed, Reading
    <3>2. ASSUME NEW o \in Listed(c) \ local'[c], NEW g \in Hosts
          PROVE  /\ o \in refs[g] => g \in unread'[c]
                 /\ opt[c].backups /\ o \in backup[g] =>
                       g # c \/ ~shadow[g] \/ g \in unread'[c]
      BY <3>1, <3>2 DEF HasRead, Visible
    <3>3. UNCHANGED <<refs, backup, shadow, opt>>
      BY <1>13 DEF ReadHost
    <3>4. QED
      BY <3>1, <3>2, <3>3 DEF HasRead
  <2>2. UNCHANGED <<refs, backup, shadow>> /\ \A d \in Hosts \ {c} : View(d)' = View(d)
    BY <1>0, <1>13 DEF ReadHost, Goto, View
  <2>3. QED
    BY <2>1, <2>2, OtherFrame DEF ReferencesAreRead
<1>14. ASSUME NEW c \in Hosts, ReadBackups(c)
      PROVE  ReferencesAreRead'
  <2>1. HasRead(c)'
    <3>1. /\ HasRead(c) /\ pc[c] = "backups" /\ Reading(c) /\ pc'[c] = "join"
          /\ unread[c] = {} /\ unread'[c] = {} /\ Listed(c)' = Listed(c)
          /\ opt[c].backups =>
                local'[c] = local[c] \cup UNION {backup[h] : h \in MissingBackups(c)}
          /\ local[c] \subseteq local'[c]
      BY <1>0, <1>14 DEF ReadBackups, Goto, Listed, Reading, HasRead
    <3>2. ASSUME NEW o \in Listed(c) \ local'[c], NEW g \in Hosts
          PROVE  o \notin refs[g] /\ (opt[c].backups => o \notin backup[g])
      <4>1. o \in Listed(c) \ local[c] /\ o \notin refs[g]
            /\ (opt[c].backups /\ o \in backup[g] => g # c \/ ~shadow[g])
        BY <3>1, <3>2 DEF HasRead
      <4>2. opt[c].backups /\ o \in backup[g] => g \notin MissingBackups(c)
        BY <3>1, <3>2
      <4>3. QED
        BY <4>1, <4>2 DEF MissingBackups
    <3>3. UNCHANGED <<refs, backup, shadow, opt>>
      BY <1>14 DEF ReadBackups
    <3>4. QED
      BY <3>1, <3>2, <3>3 DEF HasRead
  <2>2. UNCHANGED <<refs, backup, shadow>> /\ \A d \in Hosts \ {c} : View(d)' = View(d)
    BY <1>0, <1>14 DEF ReadBackups, Goto, View
  <2>3. QED
    BY <2>1, <2>2, OtherFrame DEF ReferencesAreRead
<1>15. ASSUME NEW c \in Hosts, Antijoin(c)
      PROVE  ReferencesAreRead'
  <2>1. HasRead(c)'
    <3>1. /\ HasRead(c) /\ pc[c] = "join" /\ Reading(c) /\ pc'[c] = "check"
          /\ todo'[c] \subseteq Listed(c) \ local[c]
      BY <1>0, <1>15 DEF Antijoin, Goto, Listed, Reading
    <3>2. ASSUME NEW o \in todo'[c]
          PROVE  Written(o)' /\ UnreferencedFor(c, o)'
      <4>1. o \in Listed(c) \ local[c] /\ o \in Objects /\ Written(o)
        BY <1>0, <3>1, <3>2
      <4>2. UnreferencedFor(c, o)
        BY <3>1, <4>1 DEF HasRead, UnreferencedFor
      <4>3. UNCHANGED <<refs, backup, opt>>
        BY <1>15 DEF Antijoin
      <4>4. QED
        BY <1>0, <4>1, <4>2, <4>3 DEF UnreferencedFor
    <3>3. QED
      BY <3>1, <3>2 DEF HasRead, Reading
  <2>2. UNCHANGED <<refs, backup, shadow>> /\ \A d \in Hosts \ {c} : View(d)' = View(d)
    BY <1>0, <1>15 DEF Antijoin, Goto, View
  <2>3. QED
    BY <2>1, <2>2, OtherFrame DEF ReferencesAreRead
<1>16. ASSUME NEW c \in Hosts, SanityCheck(c)
      PROVE  ReferencesAreRead'
  <2>1. HasRead(c)'
    BY <1>0, <1>16 DEF SanityCheck, Goto, HasRead, Listed, Reading, UnreferencedFor
  <2>2. UNCHANGED <<refs, backup, shadow>> /\ \A d \in Hosts \ {c} : View(d)' = View(d)
    BY <1>0, <1>16 DEF SanityCheck, Goto, View
  <2>3. QED
    BY <2>1, <2>2, OtherFrame DEF ReferencesAreRead
<1>17. ASSUME NEW c \in Hosts, NEW batch \in SUBSET todo[c], NEW objects \in SUBSET batch,
             DeleteBatch(c, batch, objects)
      PROVE  ReferencesAreRead'
  <2>1. HasRead(c)'
    BY <1>0, <1>17 DEF DeleteBatch, Goto, HasRead, Listed, Reading, UnreferencedFor
  <2>2. UNCHANGED <<refs, backup, shadow>> /\ \A d \in Hosts \ {c} : View(d)' = View(d)
    BY <1>0, <1>17 DEF DeleteBatch, Goto, View
  <2>3. QED
    BY <2>1, <2>2, OtherFrame DEF ReferencesAreRead
<1>18. ASSUME NEW c \in Hosts, DeleteDone(c)
      PROVE  ReferencesAreRead'
  <2>1. HasRead(c)'
    BY <1>0, <1>18 DEF DeleteDone, Goto, HasRead, Listed, Reading, UnreferencedFor
  <2>2. UNCHANGED <<refs, backup, shadow>> /\ \A d \in Hosts \ {c} : View(d)' = View(d)
    BY <1>0, <1>18 DEF DeleteDone, Goto, View
  <2>3. QED
    BY <2>1, <2>2, OtherFrame DEF ReferencesAreRead
<1>19. ASSUME NEW c \in Hosts, Fail(c)
      PROVE  ReferencesAreRead'
  <2>1. HasRead(c)'
    BY <1>0, <1>19 DEF Fail, Goto, HasRead, Listed, Reading, UnreferencedFor
  <2>2. UNCHANGED <<refs, backup, shadow>> /\ \A d \in Hosts \ {c} : View(d)' = View(d)
    BY <1>0, <1>19 DEF Fail, Goto, View
  <2>3. QED
    BY <2>1, <2>2, OtherFrame DEF ReferencesAreRead
<1>20. ASSUME NEW c \in Hosts, SaveState(c)
      PROVE  ReferencesAreRead'
  <2>1. HasRead(c)'
    BY <1>0, <1>20 DEF SaveState, Goto, HasRead, Listed, Reading, UnreferencedFor
  <2>2. UNCHANGED <<refs, backup, shadow>> /\ \A d \in Hosts \ {c} : View(d)' = View(d)
    BY <1>0, <1>20 DEF SaveState, Goto, View
  <2>3. QED
    BY <2>1, <2>2, OtherFrame DEF ReferencesAreRead
<1>21. ASSUME NEW c \in Hosts, Kill(c)
      PROVE  ReferencesAreRead'
  <2>1. HasRead(c)'
    BY <1>0, <1>21 DEF Kill, Goto, HasRead, Listed, Reading, UnreferencedFor
  <2>2. UNCHANGED <<refs, backup, shadow>> /\ \A d \in Hosts \ {c} : View(d)' = View(d)
    BY <1>0, <1>21 DEF Kill, Goto, View
  <2>3. QED
    BY <2>1, <2>2, OtherFrame DEF ReferencesAreRead
<1>22. CASE UNCHANGED vars
  <2>1. UNCHANGED <<list, procs>> /\ NewReferencesAreOld
    BY <1>22 DEF vars, NewReferencesAreOld
  <2>2. QED
    BY <2>1, WorldFrame DEF ReferencesAreRead
<1>23. QED
  BY <1>1, <1>2, <1>3, <1>4, <1>5, <1>6, <1>7, <1>8, <1>9, <1>10, <1>11,
     <1>12, <1>13, <1>14, <1>15, <1>16, <1>17, <1>18, <1>19, <1>20, <1>21,
     <1>22
     DEF Next, Server, Command

\* Every step keeps it: the flags of a command are the ones it is run with.
LEMMA NextKeeper ==
    ASSUME ListIsNotShared
    PROVE  TypeOK /\ KeeperIsAlone /\ [Next]_vars => KeeperIsAlone'
<1> SUFFICES ASSUME TypeOK, KeeperIsAlone, [Next]_vars PROVE KeeperIsAlone'
  OBVIOUS
<1>0. KeeperIsAlone /\ opt \in [Hosts -> OptionType]
  BY DEF TypeOK
<1> USE DEF world, procs, KeeperIsAlone
<1>1. CASE Tick
  BY <1>0, <1>1 DEF Tick
<1>2. ASSUME NEW h \in Hosts, NEW o \in Objects, Upload(h, o)
      PROVE  KeeperIsAlone'
  BY <1>0, <1>2 DEF Upload, Clock
<1>3. ASSUME NEW h \in Hosts, NEW o \in Objects, EndUpload(h, o)
      PROVE  KeeperIsAlone'
  BY <1>0, <1>3 DEF EndUpload
<1>4. ASSUME NEW h \in Hosts, NEW g \in Hosts, NEW o \in Objects, Fetch(h, g, o)
      PROVE  KeeperIsAlone'
  BY <1>0, <1>4 DEF Fetch
<1>5. ASSUME NEW h \in Hosts, NEW o \in Objects, Release(h, o)
      PROVE  KeeperIsAlone'
  BY <1>0, <1>5 DEF Release, Unlink
<1>6. ASSUME NEW h \in Hosts, Backup(h)
      PROVE  KeeperIsAlone'
  BY <1>0, <1>6 DEF Backup
<1>7. ASSUME NEW h \in Hosts, LoseShadow(h)
      PROVE  KeeperIsAlone'
  BY <1>0, <1>7 DEF LoseShadow
<1>8. ASSUME NEW h \in Hosts, DeleteBackup(h)
      PROVE  KeeperIsAlone'
  BY <1>0, <1>8 DEF DeleteBackup, Unlink
<1>9. ASSUME NEW c \in Hosts, NEW options \in Options, Start(c, options)
      PROVE  KeeperIsAlone'
  BY <1>0, <1>9 DEF Start, ListIsNotShared
<1>10. ASSUME NEW c \in Hosts, ReuseList(c)
      PROVE  KeeperIsAlone'
  BY <1>0, <1>10 DEF ReuseList, Goto
<1>11. ASSUME NEW c \in Hosts, CreateList(c)
      PROVE  KeeperIsAlone'
  BY <1>0, <1>11 DEF CreateList, Goto
<1>12. ASSUME NEW c \in Hosts, FillList(c)
      PROVE  KeeperIsAlone'
  BY <1>0, <1>12 DEF FillList, Goto
<1>13. ASSUME NEW c \in Hosts, NEW h \in Hosts, ReadHost(c, h)
      PROVE  KeeperIsAlone'
  BY <1>0, <1>13 DEF ReadHost, Goto
<1>14. ASSUME NEW c \in Hosts, ReadBackups(c)
      PROVE  KeeperIsAlone'
  BY <1>0, <1>14 DEF ReadBackups, Goto
<1>15. ASSUME NEW c \in Hosts, Antijoin(c)
      PROVE  KeeperIsAlone'
  BY <1>0, <1>15 DEF Antijoin, Goto
<1>16. ASSUME NEW c \in Hosts, SanityCheck(c)
      PROVE  KeeperIsAlone'
  BY <1>0, <1>16 DEF SanityCheck, Goto
<1>17. ASSUME NEW c \in Hosts, NEW batch \in SUBSET todo[c], NEW objects \in SUBSET batch,
             DeleteBatch(c, batch, objects)
      PROVE  KeeperIsAlone'
  BY <1>0, <1>17 DEF DeleteBatch, Goto
<1>18. ASSUME NEW c \in Hosts, DeleteDone(c)
      PROVE  KeeperIsAlone'
  BY <1>0, <1>18 DEF DeleteDone, Goto
<1>19. ASSUME NEW c \in Hosts, Fail(c)
      PROVE  KeeperIsAlone'
  BY <1>0, <1>19 DEF Fail, Goto
<1>20. ASSUME NEW c \in Hosts, SaveState(c)
      PROVE  KeeperIsAlone'
  BY <1>0, <1>20 DEF SaveState, Goto
<1>21. ASSUME NEW c \in Hosts, Kill(c)
      PROVE  KeeperIsAlone'
  BY <1>0, <1>21 DEF Kill, Goto
<1>22. CASE UNCHANGED vars
  BY <1>0, <1>22 DEF vars
<1>23. QED
  BY <1>1, <1>2, <1>3, <1>4, <1>5, <1>6, <1>7, <1>8, <1>9, <1>10, <1>11,
     <1>12, <1>13, <1>14, <1>15, <1>16, <1>17, <1>18, <1>19, <1>20, <1>21,
     <1>22
     DEF Next, Server, Command

\* Every step keeps it: a run deletes what it has listed.
LEMMA NextIgnored == Safe /\ [Next]_vars => IgnoredAreWritten'
<1> DEFINE Told(c) == pc[c] = "delete" /\ ignored' \subseteq ignored \cup todo[c]
<1> SUFFICES ASSUME Safe, [Next]_vars PROVE IgnoredAreWritten'
  OBVIOUS
<1>1. ignored' = ignored \/ \E c \in Hosts : Told(c)
  <2>1. ASSUME NEW h \in Hosts, Server(h) PROVE ignored' = ignored
    BY <2>1 DEF Server, procs, Upload, EndUpload, Release, Fetch, Backup, LoseShadow,
                DeleteBackup
  <2>2. ASSUME NEW c \in Hosts, NEW batch \in SUBSET todo[c], NEW objects \in SUBSET batch,
               DeleteBatch(c, batch, objects)
        PROVE  Told(c)
    BY <2>2 DEF DeleteBatch
  <2>3. ASSUME NEW c \in Hosts, Command(c) PROVE ignored' = ignored \/ Told(c)
    BY <2>2, <2>3 DEF Command, ReuseList, CreateList, FillList, ReadHost, ReadBackups,
                      Antijoin, SanityCheck, DeleteDone, Fail, SaveState
  <2>4. QED
    BY <2>1, <2>3 DEF Next, vars, procs, Tick, Start, Kill
<1>2. \A o \in ignored' : o \in Objects /\ Written(o)
  BY <1>1 DEF Safe, TypeOK, IgnoredAreWritten, ReferencesAreRead, HasRead
<1>3. QED
  BY <1>2, WrittenStays DEF Safe, IgnoredAreWritten

\* Every step keeps the referenced objects in the bucket: the command deletes
\* what is written and has no reference, ClickHouse what it has let go.
LEMMA NextStored == Safe /\ [Next]_vars => ReferencedAreStored'
<1> SUFFICES ASSUME Safe, [Next]_vars PROVE ReferencedAreStored'
  OBVIOUS
<1>0. /\ bucket \in [Objects -> {"unused", "stored", "gone"}]
      /\ uploading \in [Hosts -> SUBSET Objects] /\ refs \in [Hosts -> SUBSET Objects]
      /\ backup \in [Hosts -> SUBSET Objects] /\ todo \in [Hosts -> SUBSET Objects]
      /\ ReferencedAreStored /\ WritesAreYoung
  BY DEF Safe, TypeOK
<1> USE DEF world, procs, ReferencedAreStored, Stored
<1>1. CASE Tick
  BY <1>0, <1>1 DEF Tick
<1>2. ASSUME NEW h \in Hosts, NEW o \in Objects, Upload(h, o)
      PROVE  ReferencedAreStored'
  BY <1>0, <1>2 DEF Upload, Clock
<1>3. ASSUME NEW h \in Hosts, NEW o \in Objects, EndUpload(h, o)
      PROVE  ReferencedAreStored'
  BY <1>0, <1>3 DEF EndUpload
<1>4. ASSUME NEW h \in Hosts, NEW g \in Hosts, NEW o \in Objects, Fetch(h, g, o)
      PROVE  ReferencedAreStored'
  BY <1>0, <1>4 DEF Fetch
<1>5. ASSUME NEW h \in Hosts, NEW o \in Objects, Release(h, o)
      PROVE  ReferencedAreStored'
  <2>1. UNCHANGED <<uploading, backup>> /\ refs' = [refs EXCEPT ![h] = @ \ {o}]
    BY <1>5 DEF Release
  <2>i. ignored' = ignored
    BY <1>5 DEF Release, procs
  <2>2. ASSUME NEW g \in Hosts, NEW p \in Objects,
               p \in refs'[g] \cup uploading'[g] \cup (backup'[g] \ ignored')
        PROVE  bucket'[p] = "stored"
    <3>1. p \in refs[g] \cup uploading[g] \cup (backup[g] \ ignored) /\ bucket[p] = "stored"
      BY <1>0, <2>1, <2>i, <2>2
    <3>2. p = o => p \in Referenced'
      BY <1>0, <1>5, <2>1, <2>2 DEF WritesAreYoung, Unreferenced, Release, Referenced
    <3>3. p \notin {o} \ Referenced'
      BY <3>2
    <3>4. QED
      BY <1>5, <3>1, <3>3 DEF Release, Unlink
  <2>3. QED
    BY <1>0, <2>1, <2>i, <2>2
<1>6. ASSUME NEW h \in Hosts, Backup(h)
      PROVE  ReferencedAreStored'
  BY <1>0, <1>6 DEF Backup
<1>7. ASSUME NEW h \in Hosts, LoseShadow(h)
      PROVE  ReferencedAreStored'
  BY <1>0, <1>7 DEF LoseShadow
<1>8. ASSUME NEW h \in Hosts, DeleteBackup(h)
      PROVE  ReferencedAreStored'
  <2>1. UNCHANGED <<uploading, refs>> /\ backup' = [backup EXCEPT ![h] = {}]
    BY <1>8 DEF DeleteBackup
  <2>i. ignored' = ignored
    BY <1>8 DEF DeleteBackup, procs
  <2>2. ASSUME NEW g \in Hosts, NEW p \in Objects,
               p \in refs'[g] \cup uploading'[g] \cup (backup'[g] \ ignored')
        PROVE  bucket'[p] = "stored"
    <3>1. p \in refs[g] \cup uploading[g] \cup (backup[g] \ ignored) /\ bucket[p] = "stored"
      BY <1>0, <2>1, <2>i, <2>2
    <3>2. p \in backup[h] => p \in Referenced'
      BY <1>0, <1>8, <2>1, <2>2 DEF WritesAreYoung, Unreferenced, Referenced
    <3>3. p \notin backup[h] \ Referenced'
      BY <3>2
    <3>4. QED
      BY <1>8, <3>1, <3>3 DEF DeleteBackup, Unlink
  <2>3. QED
    BY <1>0, <2>1, <2>i, <2>2
<1>9. ASSUME NEW c \in Hosts, NEW options \in Options, Start(c, options)
      PROVE  ReferencedAreStored'
  BY <1>0, <1>9 DEF Start, Goto
<1>10. ASSUME NEW c \in Hosts, ReuseList(c)
      PROVE  ReferencedAreStored'
  BY <1>0, <1>10 DEF ReuseList, Goto
<1>11. ASSUME NEW c \in Hosts, CreateList(c)
      PROVE  ReferencedAreStored'
  BY <1>0, <1>11 DEF CreateList, Goto
<1>12. ASSUME NEW c \in Hosts, FillList(c)
      PROVE  ReferencedAreStored'
  BY <1>0, <1>12 DEF FillList, Goto
<1>13. ASSUME NEW c \in Hosts, NEW h \in Hosts, ReadHost(c, h)
      PROVE  ReferencedAreStored'
  BY <1>0, <1>13 DEF ReadHost, Goto
<1>14. ASSUME NEW c \in Hosts, ReadBackups(c)
      PROVE  ReferencedAreStored'
  BY <1>0, <1>14 DEF ReadBackups, Goto
<1>15. ASSUME NEW c \in Hosts, Antijoin(c)
      PROVE  ReferencedAreStored'
  BY <1>0, <1>15 DEF Antijoin, Goto
<1>16. ASSUME NEW c \in Hosts, SanityCheck(c)
      PROVE  ReferencedAreStored'
  BY <1>0, <1>16 DEF SanityCheck, Goto
<1>17. ASSUME NEW c \in Hosts, NEW batch \in SUBSET todo[c], NEW objects \in SUBSET batch,
             DeleteBatch(c, batch, objects)
      PROVE  ReferencedAreStored'
  <2>1. \A o \in objects : Written(o) /\ UnreferencedFor(c, o)
    BY <1>17 DEF DeleteBatch, Safe, ReferencesAreRead, HasRead
  <2>2. \A o \in Objects \ objects : bucket'[o] = bucket[o]
    BY <1>0, <1>17 DEF DeleteBatch
  <2>3. /\ UNCHANGED <<uploading, refs, backup>> /\ ignored \subseteq ignored'
        /\ bucket' = bucket \/ opt[c].backups \/ objects \subseteq ignored'
    BY <1>17 DEF DeleteBatch
  <2>4. QED
    BY <1>0, <2>1, <2>2, <2>3 DEF Written, UnreferencedFor
<1>18. ASSUME NEW c \in Hosts, DeleteDone(c)
      PROVE  ReferencedAreStored'
  BY <1>0, <1>18 DEF DeleteDone, Goto
<1>19. ASSUME NEW c \in Hosts, Fail(c)
      PROVE  ReferencedAreStored'
  BY <1>0, <1>19 DEF Fail, Goto
<1>20. ASSUME NEW c \in Hosts, SaveState(c)
      PROVE  ReferencedAreStored'
  BY <1>0, <1>20 DEF SaveState, Goto
<1>21. ASSUME NEW c \in Hosts, Kill(c)
      PROVE  ReferencedAreStored'
  BY <1>0, <1>21 DEF Kill, Goto
<1>22. CASE UNCHANGED vars
  BY <1>0, <1>22 DEF vars
<1>23. QED
  BY <1>1, <1>2, <1>3, <1>4, <1>5, <1>6, <1>7, <1>8, <1>9, <1>10, <1>11,
     <1>12, <1>13, <1>14, <1>15, <1>16, <1>17, <1>18, <1>19, <1>20, <1>21,
     <1>22
     DEF Next, Server, Command

\* Every initial state is safe.
LEMMA InitSafe == Init => Safe
<1> SUFFICES ASSUME Init PROVE Safe
  OBVIOUS
<1>1. /\ refs = [h \in Hosts |-> {}] /\ backup = refs /\ uploading = refs
      /\ remote = refs /\ local = refs /\ todo = refs
      /\ pc = [c \in Hosts |-> "idle"] /\ list = NoList
      /\ ignored = {} /\ \A c \in Hosts : opt[c].keep = FALSE
  BY DEF Init, NoCommandYet
<1>2. ReferencedAreStored /\ KeeperIsAlone /\ WritesAreYoung /\ IgnoredAreWritten
  BY <1>1 DEF ReferencedAreStored, KeeperIsAlone, WritesAreYoung, IgnoredAreWritten
<1>3. ListedAreOld /\ ReferencesAreRead
  BY <1>1 DEF ListedAreOld, ReferencesAreRead, HasRead, Reading
<1>4. QED
  BY <1>2, <1>3, InitType DEF Safe

\* No object that a table, a write in progress or a backup references is ever
\* deleted, but those of a backup by a run that is told not to read the backups, whatever the hosts, the failures and the kills do between the
\* listing and the deletion: if no host takes over an object behind a reading
\* command, and if no two hosts share the table that --keep-paths leaves.
THEOREM ReferencedObjectsAreKept ==
    ASSUME RefsMove = FALSE, ListIsNotShared
    PROVE  Spec => []ReferencedAreStored
<1>1. Safe /\ [Next]_vars => Safe'
  <2> SUFFICES ASSUME Safe, [Next]_vars PROVE Safe'
    OBVIOUS
  <2>1. TypeOK' /\ ListIsThere'
    BY NextType DEF Safe
  <2>2. ReferencedAreStored' /\ KeeperIsAlone'
    BY NextStored, NextKeeper DEF Safe
  <2>3. WritesAreYoung' /\ ListedAreOld'
    BY NextWrites, NextListed DEF Safe
  <2>4. ReferencesAreRead' /\ IgnoredAreWritten'
    BY NextRead, NextIgnored
  <2>5. QED
    BY <2>1, <2>2, <2>3, <2>4 DEF Safe
<1>2. Safe => ReferencedAreStored
  BY DEF Safe
<1>3. QED
  BY InitSafe, <1>1, <1>2, PTL DEF Spec

-----------------------------------------------------------------------------
(* What one run lists, checks and deletes *)

\* What one run has and does.
Run(c) == <<pc[c], opt[c], remote[c], orphans[c], todo[c], sizes[c], asked[c], since[c]>>
Acts(c) == (\E options \in Options : Start(c, options)) \/ Command(c) \/ Kill(c)

\* Every step is one of ClickHouse, or one of a command that leaves the other
\* commands alone.
LEMMA OneActs ==
    ASSUME TypeOK, [Next]_vars
    PROVE  \/ UNCHANGED <<list, procs>>
           \/ \E c \in Hosts : Acts(c) /\ \A d \in Hosts \ {c} : Run(d)' = Run(d)
<1> DEFINE Goal == \/ UNCHANGED <<list, procs>>
                   \/ \E c \in Hosts : Acts(c) /\ \A d \in Hosts \ {c} : Run(d)' = Run(d)
<1>0. /\ pc \in [Hosts -> Labels] /\ opt \in [Hosts -> OptionType]
      /\ remote \in [Hosts -> SUBSET Objects] /\ orphans \in [Hosts -> SUBSET Objects]
      /\ todo \in [Hosts -> SUBSET Objects] /\ asked \in [Hosts -> SUBSET Objects]
      /\ sizes \in [Hosts -> [listing : Nat, total : Nat]]
      /\ since \in [Hosts -> 0..MaxTime]
  BY DEF TypeOK
<1>1. CASE Tick
  BY <1>1 DEF Tick
<1>2. ASSUME NEW h \in Hosts, NEW o \in Objects, Upload(h, o)
      PROVE  Goal
  BY <1>2 DEF Upload
<1>3. ASSUME NEW h \in Hosts, NEW o \in Objects, EndUpload(h, o)
      PROVE  Goal
  BY <1>3 DEF EndUpload
<1>4. ASSUME NEW h \in Hosts, NEW g \in Hosts, NEW o \in Objects, Fetch(h, g, o)
      PROVE  Goal
  BY <1>4 DEF Fetch
<1>5. ASSUME NEW h \in Hosts, NEW o \in Objects, Release(h, o)
      PROVE  Goal
  BY <1>5 DEF Release
<1>6. ASSUME NEW h \in Hosts, Backup(h)
      PROVE  Goal
  BY <1>6 DEF Backup
<1>7. ASSUME NEW h \in Hosts, LoseShadow(h)
      PROVE  Goal
  BY <1>7 DEF LoseShadow
<1>8. ASSUME NEW h \in Hosts, DeleteBackup(h)
      PROVE  Goal
  BY <1>8 DEF DeleteBackup
<1>9. ASSUME NEW c \in Hosts, NEW options \in Options, Start(c, options)
      PROVE  Goal
  <2>1. Acts(c)
    BY <1>9 DEF Acts
  <2>2. \A d \in Hosts \ {c} : Run(d)' = Run(d)
    BY <1>0, <1>9 DEF Start, Goto, Run
  <2>3. QED
    BY <2>1, <2>2
<1>10. ASSUME NEW c \in Hosts, ReuseList(c)
      PROVE  Goal
  <2>1. Acts(c)
    BY <1>10 DEF Acts, Command
  <2>2. \A d \in Hosts \ {c} : Run(d)' = Run(d)
    BY <1>0, <1>10 DEF ReuseList, Goto, Run
  <2>3. QED
    BY <2>1, <2>2
<1>11. ASSUME NEW c \in Hosts, CreateList(c)
      PROVE  Goal
  <2>1. Acts(c)
    BY <1>11 DEF Acts, Command
  <2>2. \A d \in Hosts \ {c} : Run(d)' = Run(d)
    BY <1>0, <1>11 DEF CreateList, Goto, Run
  <2>3. QED
    BY <2>1, <2>2
<1>12. ASSUME NEW c \in Hosts, FillList(c)
      PROVE  Goal
  <2>1. Acts(c)
    BY <1>12 DEF Acts, Command
  <2>2. \A d \in Hosts \ {c} : Run(d)' = Run(d)
    BY <1>0, <1>12 DEF FillList, Goto, Run
  <2>3. QED
    BY <2>1, <2>2
<1>13. ASSUME NEW c \in Hosts, NEW h \in Hosts, ReadHost(c, h)
      PROVE  Goal
  <2>1. Acts(c)
    BY <1>13 DEF Acts, Command
  <2>2. \A d \in Hosts \ {c} : Run(d)' = Run(d)
    BY <1>0, <1>13 DEF ReadHost, Goto, Run
  <2>3. QED
    BY <2>1, <2>2
<1>14. ASSUME NEW c \in Hosts, ReadBackups(c)
      PROVE  Goal
  <2>1. Acts(c)
    BY <1>14 DEF Acts, Command
  <2>2. \A d \in Hosts \ {c} : Run(d)' = Run(d)
    BY <1>0, <1>14 DEF ReadBackups, Goto, Run
  <2>3. QED
    BY <2>1, <2>2
<1>15. ASSUME NEW c \in Hosts, Antijoin(c)
      PROVE  Goal
  <2>1. Acts(c)
    BY <1>15 DEF Acts, Command
  <2>2. \A d \in Hosts \ {c} : Run(d)' = Run(d)
    BY <1>0, <1>15 DEF Antijoin, Goto, Run
  <2>3. QED
    BY <2>1, <2>2
<1>16. ASSUME NEW c \in Hosts, SanityCheck(c)
      PROVE  Goal
  <2>1. Acts(c)
    BY <1>16 DEF Acts, Command
  <2>2. \A d \in Hosts \ {c} : Run(d)' = Run(d)
    BY <1>0, <1>16 DEF SanityCheck, Goto, Run
  <2>3. QED
    BY <2>1, <2>2
<1>17. ASSUME NEW c \in Hosts, NEW batch \in SUBSET todo[c], NEW objects \in SUBSET batch,
             DeleteBatch(c, batch, objects)
      PROVE  Goal
  <2>1. Acts(c)
    BY <1>17 DEF Acts, Command
  <2>2. \A d \in Hosts \ {c} : Run(d)' = Run(d)
    BY <1>0, <1>17 DEF DeleteBatch, Goto, Run
  <2>3. QED
    BY <2>1, <2>2
<1>18. ASSUME NEW c \in Hosts, DeleteDone(c)
      PROVE  Goal
  <2>1. Acts(c)
    BY <1>18 DEF Acts, Command
  <2>2. \A d \in Hosts \ {c} : Run(d)' = Run(d)
    BY <1>0, <1>18 DEF DeleteDone, Goto, Run
  <2>3. QED
    BY <2>1, <2>2
<1>19. ASSUME NEW c \in Hosts, Fail(c)
      PROVE  Goal
  <2>1. Acts(c)
    BY <1>19 DEF Acts, Command
  <2>2. \A d \in Hosts \ {c} : Run(d)' = Run(d)
    BY <1>0, <1>19 DEF Fail, Goto, Run
  <2>3. QED
    BY <2>1, <2>2
<1>20. ASSUME NEW c \in Hosts, SaveState(c)
      PROVE  Goal
  <2>1. Acts(c)
    BY <1>20 DEF Acts, Command
  <2>2. \A d \in Hosts \ {c} : Run(d)' = Run(d)
    BY <1>0, <1>20 DEF SaveState, Goto, Run
  <2>3. QED
    BY <2>1, <2>2
<1>21. ASSUME NEW c \in Hosts, Kill(c)
      PROVE  Goal
  <2>1. Acts(c)
    BY <1>21 DEF Acts
  <2>2. \A d \in Hosts \ {c} : Run(d)' = Run(d)
    BY <1>0, <1>21 DEF Kill, Goto, Run
  <2>3. QED
    BY <2>1, <2>2
<1>22. CASE UNCHANGED vars
  BY <1>22 DEF vars
<1>23. QED
  BY <1>1, <1>2, <1>3, <1>4, <1>5, <1>6, <1>7, <1>8, <1>9, <1>10, <1>11,
     <1>12, <1>13, <1>14, <1>15, <1>16, <1>17, <1>18, <1>19, <1>20, <1>21,
     <1>22
     DEF Next, Server, Command

\* Nothing is asked of the object storage before the sanity check.
Preparing(c) ==
    pc[c] \in {"reuse", "create", "fill", "local", "backups", "join", "check"}

\* A run asks for each object once, total["total_size"] is the size of what it
\* asked for, and that is within the limit.
Counts(c) ==
    /\ opt[c].dry \/ Preparing(c) => asked[c] = {}
    /\ pc[c] = "check" => todo[c] \subseteq orphans[c] /\ sizes[c].total = 0
    /\ pc[c] = "delete" =>
          /\ asked[c] \cap todo[c] = {} /\ todo[c] \subseteq orphans[c]
          /\ ~opt[c].dry => SizeOf(asked[c]) = sizes[c].total
    /\ asked[c] # {} => SizeOf(asked[c]) <= SizeLimit(c)

\* The limit is the smaller of the two options.
LEMMA LimitIs ==
    ASSUME TypeOK, NEW c \in Hosts
    PROVE  /\ SizeLimit(c) \in Nat
           /\ 100 * SizeLimit(c) <= MaxPercent * sizes[c].listing
           /\ MaxBytes # 0 => SizeLimit(c) <= MaxBytes
<1> DEFINE product == sizes[c].listing * MaxPercent
           part == product \div 100
<1>1. MaxBytes \in Nat /\ MaxPercent \in Nat /\ sizes[c].listing \in Nat
  BY CleanAssumption DEF TypeOK
<1>2. product \in Nat /\ product = MaxPercent * sizes[c].listing
  BY <1>1
<1> HIDE DEF product
<1>3. part \in Nat /\ 100 * part <= product
  BY <1>2
<1>4. SizeLimit(c) = IF MaxBytes # 0 THEN Min({part, MaxBytes}) ELSE part
  BY DEF SizeLimit, product
<1> HIDE DEF part
<1>5. \A a, b \in Nat : Min({a, b}) = IF a <= b THEN a ELSE b
  <2> SUFFICES ASSUME NEW a \in Nat, NEW b \in Nat
               PROVE  Min({a, b}) = IF a <= b THEN a ELSE b
    OBVIOUS
  <2> DEFINE m == IF a <= b THEN a ELSE b
  <2>1. m \in {a, b} /\ \A y \in {a, b} : m <= y
    OBVIOUS
  <2>2. \A x \in {a, b} : (\A y \in {a, b} : x <= y) => x = m
    OBVIOUS
  <2> HIDE DEF m
  <2>3. QED
    BY <2>1, <2>2 DEF Min
<1>6. Min({part, MaxBytes}) \in Nat /\ Min({part, MaxBytes}) <= part
      /\ Min({part, MaxBytes}) <= MaxBytes
  BY <1>1, <1>3, <1>5
<1>7. SizeLimit(c) \in Nat /\ SizeLimit(c) <= part /\ (MaxBytes # 0 => SizeLimit(c) <= MaxBytes)
  BY <1>1, <1>3, <1>4, <1>6
<1>8. QED
  BY <1>2, <1>3, <1>7

\* A step of the command keeps it.
LEMMA ActsCount ==
    ASSUME TypeOK, NEW c \in Hosts, Counts(c), Acts(c)
    PROVE  Counts(c)'
<1>0. /\ pc \in [Hosts -> Labels] /\ opt \in [Hosts -> OptionType]
      /\ todo \in [Hosts -> SUBSET Objects] /\ orphans \in [Hosts -> SUBSET Objects]
      /\ asked \in [Hosts -> SUBSET Objects]
      /\ sizes \in [Hosts -> [listing : Nat, total : Nat]]
      /\ SizeOf({}) = 0
  BY SizeOfRemove DEF TypeOK
<1> USE DEF Counts, Preparing
<1>1. ASSUME NEW options \in Options, Start(c, options)
      PROVE  Counts(c)'
  BY <1>0, <1>1 DEF Start, Goto, SizeLimit
<1>2. CASE ReuseList(c)
  BY <1>0, <1>2 DEF ReuseList, Goto, SizeLimit
<1>3. CASE CreateList(c)
  BY <1>0, <1>3 DEF CreateList, Goto, SizeLimit
<1>4. CASE FillList(c)
  BY <1>0, <1>4 DEF FillList, Goto, SizeLimit
<1>5. ASSUME NEW h \in Hosts, ReadHost(c, h)
      PROVE  Counts(c)'
  BY <1>0, <1>5 DEF ReadHost, Goto, SizeLimit
<1>6. CASE ReadBackups(c)
  BY <1>0, <1>6 DEF ReadBackups, Goto, SizeLimit
<1>7. CASE Antijoin(c)
  BY <1>0, <1>7 DEF Antijoin, Goto, SizeLimit
<1>8. CASE SanityCheck(c)
  BY <1>0, <1>8 DEF SanityCheck, Goto, SizeLimit
<1>9. ASSUME NEW batch \in SUBSET todo[c], NEW objects \in SUBSET batch,
             DeleteBatch(c, batch, objects)
      PROVE  Counts(c)'
  <2>1. /\ pc[c] = "delete" /\ asked[c] \cap todo[c] = {} /\ todo[c] \subseteq orphans[c]
        /\ opt' = opt /\ orphans' = orphans
        /\ pc'[c] = "delete" => todo'[c] = todo[c] \ batch
        /\ pc'[c] \in {"save", "delete", "failed"}
        /\ opt[c].dry => asked'[c] = {}
        /\ ~opt[c].dry => asked'[c] = asked[c] \cup objects
        /\ pc'[c] = "delete" => sizes'[c].total = sizes[c].total + SizeOf(objects)
        /\ sizes'[c].listing = sizes[c].listing
    BY <1>0, <1>9 DEF DeleteBatch, Goto
  <2>2. SizeLimit(c)' = SizeLimit(c)
    BY <2>1 DEF SizeLimit
  <2>3. CASE opt[c].dry
    BY <1>0, <2>1, <2>3
  <2>4. CASE ~opt[c].dry
    <3>1. SizeOf(asked[c]) = sizes[c].total
      BY <2>1, <2>4
    <3>2. SizeOf(asked[c] \cup objects) = SizeOf(asked[c]) + SizeOf(objects)
      <4>1. asked[c] \in SUBSET Objects /\ objects \in SUBSET Objects
            /\ asked[c] \cap objects = {}
        BY <1>0, <2>1
      <4>2. QED
        BY <4>1, SizeOfUnion
    <3>3. sizes[c].total + SizeOf(objects) <= SizeLimit(c)
      BY <1>9 DEF DeleteBatch, FitsLimit, Fits
    <3>4. asked'[c] \cap (todo[c] \ batch) = {}
      BY <2>1, <2>4
    <3>5. SizeOf(asked'[c]) = sizes[c].total + SizeOf(objects)
      BY <2>1, <2>4, <3>1, <3>2
    <3>6. SizeOf(asked'[c]) <= SizeLimit(c)'
      BY <2>2, <3>3, <3>5
    <3>7. QED
      BY <2>1, <2>4, <3>4, <3>5, <3>6
  <2>5. QED
    BY <2>3, <2>4
<1>10. CASE DeleteDone(c)
  BY <1>0, <1>10 DEF DeleteDone, Goto, SizeLimit
<1>11. CASE Fail(c)
  BY <1>0, <1>11 DEF Fail, Goto, SizeLimit
<1>12. CASE SaveState(c)
  BY <1>0, <1>12 DEF SaveState, Goto, SizeLimit
<1>13. CASE Kill(c)
  BY <1>0, <1>13 DEF Kill, Goto, SizeLimit
<1>14. QED
  BY <1>1, <1>2, <1>3, <1>4, <1>5, <1>6, <1>7, <1>8, <1>9, <1>10, <1>11,
     <1>12, <1>13
     DEF Acts, Command

\* One run never asks for more than its limits allow, over all its batches.
THEOREM LimitsAreKept == Spec => []SizeLimitIsKept
<1> DEFINE Inv == TypeOK /\ ListIsThere /\ \A c \in Hosts : Counts(c)
<1>1. Init => Inv
  BY InitType DEF Init, NoCommandYet, Counts, Preparing
<1>2. Inv /\ [Next]_vars => Inv'
  <2> SUFFICES ASSUME Inv, [Next]_vars PROVE Inv'
    OBVIOUS
  <2>1. TypeOK' /\ ListIsThere'
    BY NextType
  <2>2. ASSUME NEW d \in Hosts, Run(d)' = Run(d) PROVE Counts(d)'
    BY <2>2 DEF Run, Counts, Preparing, SizeLimit
  <2>3. UNCHANGED <<list, procs>> => \A d \in Hosts : Run(d)' = Run(d)
    BY DEF procs, Run
  <2>4. QED
    BY <2>1, <2>2, <2>3, OneActs, ActsCount
<1>3. Inv => SizeLimitIsKept
  <2> SUFFICES ASSUME Inv, NEW c \in Hosts, asked[c] # {}
               PROVE  /\ 100 * SizeOf(asked[c]) <= MaxPercent * sizes[c].listing
                      /\ MaxBytes # 0 => SizeOf(asked[c]) <= MaxBytes
    BY DEF SizeLimitIsKept
  <2> DEFINE size == SizeOf(asked[c])
             limit == SizeLimit(c)
             most == MaxPercent * sizes[c].listing
  <2>1. size \in Nat /\ size <= limit
    BY SizeOfRemove DEF Counts, TypeOK
  <2>2. /\ limit \in Nat /\ 100 * limit <= most /\ (MaxBytes # 0 => limit <= MaxBytes)
        /\ most \in Nat /\ MaxBytes \in Nat
    BY LimitIs, CleanAssumption DEF TypeOK
  <2> HIDE DEF size, limit, most
  <2>3. 100 * size <= most /\ (MaxBytes # 0 => size <= MaxBytes)
    BY <2>1, <2>2
  <2>4. QED
    BY <2>3 DEF size, most
<1>4. QED
  BY <1>1, <1>2, <1>3, PTL DEF Spec

\* What the sanity check refuses: too large a share of what is listed.
Suspicious(c, S) == /\ sizes[c].listing # 0
                    /\ 100 * SizeOf(S) >= sizes[c].listing * ErrorPercent

\* Nothing suspicious has been asked for, and nothing is left to ask for that
\* would become suspicious with it.
Checked(c) ==
    /\ asked[c] \cap Misplaced = {}
    /\ asked[c] # {} => ~Suspicious(c, asked[c])
    /\ pc[c] = "delete" /\ ~opt[c].dry =>
          todo[c] \cap Misplaced = {} /\ ~Suspicious(c, asked[c] \cup todo[c])

\* A part of a set that is not suspicious is not suspicious.
LEMMA LessIsNotSuspicious ==
    ASSUME TypeOK, NEW c \in Hosts, NEW S \in SUBSET Objects, NEW U \in SUBSET S,
           ~Suspicious(c, S)
    PROVE  ~Suspicious(c, U)
<1> DEFINE most == sizes[c].listing * ErrorPercent
           size == SizeOf(S)
           part == SizeOf(U)
<1>1. most \in Nat /\ size \in Nat /\ part \in Nat /\ part <= size
  <2>1. most \in Nat
    BY CleanAssumption DEF TypeOK
  <2>2. S \in SUBSET Objects /\ U \in SUBSET Objects
    OBVIOUS
  <2>3. size \in Nat /\ part \in Nat
    BY <2>2, SizeOfRemove
  <2>4. part <= size
    BY SizeOfSubset
  <2>5. QED
    BY <2>1, <2>3, <2>4
<1>2. Suspicious(c, S) <=> sizes[c].listing # 0 /\ 100 * size >= most
  BY DEF Suspicious
<1>3. Suspicious(c, U) <=> sizes[c].listing # 0 /\ 100 * part >= most
  BY DEF Suspicious
<1> HIDE DEF most, size, part
<1>4. QED
  BY <1>1, <1>2, <1>3

\* A step of the command keeps it.
LEMMA ActsChecked ==
    ASSUME TypeOK, NEW c \in Hosts, Counts(c), Checked(c), Acts(c)
    PROVE  Checked(c)'
<1>0. /\ pc \in [Hosts -> Labels] /\ opt \in [Hosts -> OptionType]
      /\ todo \in [Hosts -> SUBSET Objects] /\ orphans \in [Hosts -> SUBSET Objects]
      /\ asked \in [Hosts -> SUBSET Objects]
      /\ sizes \in [Hosts -> [listing : Nat, total : Nat]]
      /\ Preparing(c) => asked[c] = {}
      /\ pc[c] = "check" => todo[c] \subseteq orphans[c]
  BY DEF TypeOK, Counts
<1> USE DEF Checked, Preparing
<1>1. ASSUME NEW options \in Options, Start(c, options)
      PROVE  Checked(c)'
  BY <1>0, <1>1 DEF Start, Goto, Suspicious
<1>2. CASE ReuseList(c)
  BY <1>0, <1>2 DEF ReuseList, Goto, Suspicious
<1>3. CASE CreateList(c)
  BY <1>0, <1>3 DEF CreateList, Goto, Suspicious
<1>4. CASE FillList(c)
  BY <1>0, <1>4 DEF FillList, Goto, Suspicious
<1>5. ASSUME NEW h \in Hosts, ReadHost(c, h)
      PROVE  Checked(c)'
  BY <1>0, <1>5 DEF ReadHost, Goto, Suspicious
<1>6. CASE ReadBackups(c)
  BY <1>0, <1>6 DEF ReadBackups, Goto, Suspicious
<1>7. CASE Antijoin(c)
  BY <1>0, <1>7 DEF Antijoin, Goto, Suspicious
<1>8. CASE SanityCheck(c)
  <2>1. /\ UNCHANGED <<opt, todo, asked, sizes>> /\ asked[c] = {} /\ pc[c] = "check"
        /\ pc'[c] \in {"delete", "failed"}
    BY <1>0, <1>8 DEF SanityCheck, Goto
  <2>2. ASSUME pc'[c] = "delete", ~opt[c].dry
        PROVE  todo[c] \cap Misplaced = {} /\ ~BadSize(c)
    BY <1>0, <1>8, <2>1, <2>2 DEF SanityCheck, Goto, BadPaths
  <2>3. asked[c] \cup todo[c] = todo[c]
    BY <2>1
  <2>4. QED
    BY <2>1, <2>2, <2>3 DEF Suspicious, BadSize
<1>9. ASSUME NEW batch \in SUBSET todo[c], NEW objects \in SUBSET batch,
             DeleteBatch(c, batch, objects)
      PROVE  Checked(c)'
  <2>1. /\ pc[c] = "delete" /\ opt' = opt /\ sizes'[c].listing = sizes[c].listing
        /\ todo'[c] \subseteq todo[c] /\ pc'[c] \in {"save", "delete", "failed"}
        /\ opt[c].dry => asked'[c] = asked[c]
        /\ ~opt[c].dry => asked'[c] = asked[c] \cup objects
    BY <1>0, <1>9 DEF DeleteBatch, Goto
  <2>2. CASE opt[c].dry
    BY <2>1, <2>2 DEF Suspicious
  <2>3. CASE ~opt[c].dry
    <3> DEFINE all == asked[c] \cup todo[c]
    <3>1. all \in SUBSET Objects /\ ~Suspicious(c, all) /\ all \cap Misplaced = {}
      BY <1>0, <2>1, <2>3
    <3>2. asked'[c] \in SUBSET all /\ asked'[c] \cup todo'[c] \in SUBSET all
      BY <2>1, <2>3
    <3> HIDE DEF all
    <3>3. ~Suspicious(c, asked'[c]) /\ ~Suspicious(c, asked'[c] \cup todo'[c])
      BY <3>1, <3>2, LessIsNotSuspicious
    <3>4. QED
      BY <2>1, <3>1, <3>2, <3>3 DEF Suspicious
  <2>4. QED
    BY <2>2, <2>3
<1>10. CASE DeleteDone(c)
  BY <1>0, <1>10 DEF DeleteDone, Goto, Suspicious
<1>11. CASE Fail(c)
  BY <1>0, <1>11 DEF Fail, Goto, Suspicious
<1>12. CASE SaveState(c)
  BY <1>0, <1>12 DEF SaveState, Goto, Suspicious
<1>13. CASE Kill(c)
  BY <1>0, <1>13 DEF Kill, Goto, Suspicious
<1>14. QED
  BY <1>1, <1>2, <1>3, <1>4, <1>5, <1>6, <1>7, <1>8, <1>9, <1>10, <1>11,
     <1>12, <1>13
     DEF Acts, Command

\* Whatever happens to the other commands and in ClickHouse, what has been
\* asked for passes the sanity check that was made before the first batch.
THEOREM NothingSuspiciousIsAsked == Spec => []SanityIsKept
<1> DEFINE Inv == TypeOK /\ ListIsThere /\ \A c \in Hosts : Counts(c) /\ Checked(c)
<1>1. Init => Inv
  BY InitType DEF Init, NoCommandYet, Counts, Checked, Preparing
<1>2. Inv /\ [Next]_vars => Inv'
  <2> SUFFICES ASSUME Inv, [Next]_vars PROVE Inv'
    OBVIOUS
  <2>1. TypeOK' /\ ListIsThere'
    BY NextType
  <2>2. ASSUME NEW d \in Hosts, Run(d)' = Run(d) PROVE Counts(d)' /\ Checked(d)'
    BY <2>2 DEF Run, Counts, Checked, Preparing, SizeLimit, Suspicious
  <2>3. UNCHANGED <<list, procs>> => \A d \in Hosts : Run(d)' = Run(d)
    BY DEF procs, Run
  <2>4. QED
    BY <2>1, <2>2, <2>3, OneActs, ActsCount, ActsChecked
<1>3. Inv => SanityIsKept
  <2> SUFFICES ASSUME Inv, NEW c \in Hosts
               PROVE  /\ asked[c] \cap Misplaced = {}
                      /\ asked[c] # {} /\ sizes[c].listing # 0 =>
                            100 * SizeOf(asked[c]) < sizes[c].listing * ErrorPercent
    BY DEF SanityIsKept
  <2> DEFINE size == SizeOf(asked[c])
             most == sizes[c].listing * ErrorPercent
  <2>1. size \in Nat /\ most \in Nat
    BY SizeOfRemove, CleanAssumption DEF TypeOK
  <2>2. asked[c] # {} /\ sizes[c].listing # 0 => ~ (100 * size >= most)
    BY DEF Checked, Suspicious
  <2>3. asked[c] \cap Misplaced = {}
    BY DEF Checked
  <2> HIDE DEF size, most
  <2>4. asked[c] # {} /\ sizes[c].listing # 0 => 100 * size < most
    BY <2>1, <2>2
  <2>5. QED
    BY <2>3, <2>4 DEF size, most
<1>4. QED
  BY <1>1, <1>2, <1>3, PTL DEF Spec

\* A run without an age limit has asked for every orphaned object that is not
\* left to ask for; when it ends before that, the next one would not have fit.
Spared(c) == orphans[c] \ asked[c]
LimitSpares(c) == Spared(c) # {} =>
    \E o \in Spared(c) : SizeOf(asked[c]) + Size[o] > SizeLimit(c)
Covers(c) == ~opt[c].dry /\ opt[c].from = NoLimit =>
    /\ pc[c] = "check" => orphans[c] = todo[c]
    /\ pc[c] = "delete" => orphans[c] = asked[c] \cup todo[c]
    /\ pc[c] = "save" => LimitSpares(c)

\* A step of the command keeps it: all that is listed is old enough when the
\* iterator is made, and a batch is cut only where the limit is reached.
LEMMA ActsCover ==
    ASSUME TypeOK, ListIsThere, ListedAreOld, NEW c \in Hosts,
           Counts(c), Covers(c), Acts(c)
    PROVE  Covers(c)'
<1>0. /\ pc \in [Hosts -> Labels] /\ opt \in [Hosts -> OptionType]
      /\ todo \in [Hosts -> SUBSET Objects] /\ orphans \in [Hosts -> SUBSET Objects]
      /\ asked \in [Hosts -> SUBSET Objects]
      /\ sizes \in [Hosts -> [listing : Nat, total : Nat]]
      /\ Preparing(c) => asked[c] = {}
  BY DEF TypeOK, Counts
<1> USE DEF Covers
<1>1. ASSUME NEW options \in Options, Start(c, options)
      PROVE  Covers(c)'
  BY <1>0, <1>1 DEF Start, Goto
<1>2. CASE ReuseList(c)
  BY <1>0, <1>2 DEF ReuseList, Goto
<1>3. CASE CreateList(c)
  BY <1>0, <1>3 DEF CreateList, Goto
<1>4. CASE FillList(c)
  BY <1>0, <1>4 DEF FillList, Goto
<1>5. ASSUME NEW h \in Hosts, ReadHost(c, h)
      PROVE  Covers(c)'
  BY <1>0, <1>5 DEF ReadHost, Goto
<1>6. CASE ReadBackups(c)
  BY <1>0, <1>6 DEF ReadBackups, Goto
<1>7. CASE Antijoin(c)
  <2>1. /\ pc[c] = "join" /\ pc'[c] = "check" /\ opt' = opt
        /\ orphans'[c] = Listed(c) \ local[c]
        /\ todo'[c] = {o \in orphans'[c] : InInterval(o, opt[c].from)}
    BY <1>0, <1>7 DEF Antijoin, Goto, Listed
  <2>2. \A o \in orphans'[c] : mtime[o] <= now - Guard
    BY <2>1 DEF ListedAreOld, Reading, Past
  <2>3. opt[c].from = NoLimit => todo'[c] = orphans'[c]
    BY <2>1, <2>2 DEF InInterval
  <2>4. QED
    BY <2>1, <2>3
<1>8. CASE SanityCheck(c)
  <2>1. /\ pc[c] = "check" /\ pc'[c] \in {"delete", "failed"} /\ asked[c] = {}
        /\ UNCHANGED <<opt, todo, asked, orphans>>
    BY <1>0, <1>8 DEF SanityCheck, Goto, Preparing
  <2>2. QED
    BY <2>1
<1>9. ASSUME NEW batch \in SUBSET todo[c], NEW objects \in SUBSET batch,
             DeleteBatch(c, batch, objects)
      PROVE  Covers(c)'
  <2> SUFFICES ASSUME ~opt[c].dry, opt[c].from = NoLimit
               PROVE  /\ pc'[c] = "delete" => orphans'[c] = asked'[c] \cup todo'[c]
                      /\ pc'[c] = "save" => LimitSpares(c)'
                      /\ pc'[c] # "check"
    BY <1>9 DEF DeleteBatch
  <2>1. /\ pc[c] = "delete" /\ orphans[c] = asked[c] \cup todo[c] /\ orphans' = orphans
        /\ pc'[c] \in {"delete", "save", "failed"}
        /\ asked'[c] = asked[c] \cup objects
        /\ pc'[c] = "delete" => objects = batch /\ todo'[c] = todo[c] \ batch
        /\ pc'[c] = "save" => objects # batch
        /\ sizes'[c].listing = sizes[c].listing
    BY <1>0, <1>9 DEF DeleteBatch, Goto
  <2>2. pc'[c] = "delete" => orphans'[c] = asked'[c] \cup todo'[c]
    BY <2>1
  <2>3. ASSUME pc'[c] = "save" PROVE LimitSpares(c)'
    <3>1. PICK p \in batch \ objects : ~Fits(c, objects \cup {p})
      BY <1>9, <2>1, <2>3 DEF DeleteBatch, FitsLimit
    <3>2. /\ asked[c] \cap todo[c] = {} /\ SizeOf(asked[c]) = sizes[c].total
          /\ asked[c] \in SUBSET Objects /\ todo[c] \in SUBSET Objects
      BY <1>0, <2>1 DEF Counts
    <3>3. p \in Objects /\ objects \in SUBSET Objects /\ asked[c] \cap objects = {}
          /\ objects \cup {p} \in SUBSET Objects /\ (objects \cup {p}) \ {p} = objects
      BY <3>2
    <3>4. SizeOf(objects \cup {p}) = Size[p] + SizeOf(objects)
      <4>1. \A S \in SUBSET Objects : \A o \in S : SizeOf(S) = Size[o] + SizeOf(S \ {o})
        BY SizeOfRemove
      <4>2. p \in objects \cup {p}
        OBVIOUS
      <4>3. QED
        BY <3>3, <4>1, <4>2
    <3>5. SizeOf(asked'[c]) = sizes[c].total + SizeOf(objects)
      BY <2>1, <3>2, <3>3, SizeOfUnion
    <3>6. SizeLimit(c)' = SizeLimit(c) /\ SizeLimit(c) \in Nat
      BY <2>1, LimitIs DEF SizeLimit
    <3>7. ~ (sizes[c].total + SizeOf(objects \cup {p}) <= SizeLimit(c))
      BY <3>1 DEF Fits
    <3>8. Size[p] \in Nat /\ SizeOf(objects) \in Nat /\ sizes[c].total \in Nat
      BY <1>0, <3>3, SizeOfRemove, CleanAssumption
    <3>9. SizeOf(asked'[c]) + Size[p] > SizeLimit(c)'
      BY <3>4, <3>5, <3>6, <3>7, <3>8
    <3>10. p \in orphans'[c] \ asked'[c]
      BY <2>1, <3>2
    <3>11. QED
      BY <3>9, <3>10 DEF LimitSpares, Spared
  <2>4. QED
    BY <2>1, <2>2, <2>3
<1>10. CASE DeleteDone(c)
  <2>1. /\ pc[c] = "delete" /\ pc'[c] = "save" /\ todo[c] = {}
        /\ UNCHANGED <<opt, asked, orphans>>
    BY <1>0, <1>10 DEF DeleteDone, Goto
  <2>2. QED
    BY <2>1 DEF LimitSpares, Spared
<1>11. CASE Fail(c)
  BY <1>0, <1>11 DEF Fail, Goto
<1>12. CASE SaveState(c)
  BY <1>0, <1>12 DEF SaveState, Goto
<1>13. CASE Kill(c)
  BY <1>0, <1>13 DEF Kill, Goto
<1>14. QED
  BY <1>1, <1>2, <1>3, <1>4, <1>5, <1>6, <1>7, <1>8, <1>9, <1>10, <1>11,
     <1>12, <1>13
     DEF Acts, Command

\* A run that ends well leaves an orphaned object only for the size limit: no
\* batch and no object of a batch is forgotten.
THEOREM OrphansAreAskedFor == Spec => []OnlyTheLimitSpares
<1> DEFINE Inv == /\ TypeOK /\ ListIsThere /\ ListedAreOld
                  /\ \A c \in Hosts : Counts(c) /\ Covers(c)
<1>1. Init => Inv
  BY InitType DEF Init, NoCommandYet, Counts, Covers, Preparing,
    ListedAreOld, Reading
<1>2. Inv /\ [Next]_vars => Inv'
  <2> SUFFICES ASSUME Inv, [Next]_vars PROVE Inv'
    OBVIOUS
  <2>1. TypeOK' /\ ListIsThere' /\ ListedAreOld'
    BY NextType, NextListed
  <2>2. ASSUME NEW d \in Hosts, Run(d)' = Run(d) PROVE Counts(d)' /\ Covers(d)'
    <3>1. Counts(d)'
      BY <2>2 DEF Run, Counts, Preparing, SizeLimit
    <3>2. SizeLimit(d)' = SizeLimit(d) /\ LimitSpares(d)' = LimitSpares(d)
      BY <2>2 DEF Run, SizeLimit, LimitSpares, Spared
    <3>3. Covers(d)'
      BY <2>2, <3>2 DEF Run, Covers
    <3>4. QED
      BY <3>1, <3>3
  <2>3. UNCHANGED <<list, procs>> => \A d \in Hosts : Run(d)' = Run(d)
    BY DEF procs, Run
  <2>4. QED
    BY <2>1, <2>2, <2>3, OneActs, ActsCount, ActsCover
<1>3. Inv => OnlyTheLimitSpares
  BY DEF OnlyTheLimitSpares, Covers, LimitSpares, Spared
<1>4. QED
  BY <1>1, <1>2, <1>3, PTL DEF Spec

\* What a run lists, is going to ask for and has asked for was past the guard
\* interval when the run had its listing.
Ages(c) ==
    /\ Preparing(c) => asked[c] = {}
    /\ Reading(c) => \A o \in Listed(c) : Past(o, since[c])
    /\ pc[c] \in {"check", "delete"} => \A o \in todo[c] : Past(o, since[c])
    /\ \A o \in asked[c] : Past(o, since[c])

\* It stays so for a command that does nothing itself.
LEMMA AgesFrame ==
    ASSUME TypeOK, ListIsThere, [Next]_vars, NEW d \in Hosts, Ages(d), Run(d)' = Run(d),
           opt[d].keep /\ Reading(d) => list' = list
    PROVE  Ages(d)'
<1>1. /\ \A o \in Objects : Past(o, since[d]) => Past(o, since[d])'
      /\ Reading(d) => Listed(d) \subseteq Objects
      /\ todo[d] \subseteq Objects /\ asked[d] \subseteq Objects
  <2>1. since[d] \in Nat /\ since'[d] = since[d]
    BY CleanAssumption DEF TypeOK, Run
  <2>2. \A o \in Objects : Past(o, since[d]) => Past(o, since[d])'
    BY <2>1, TimesStay DEF Past
  <2>3. QED
    BY <2>2 DEF TypeOK, ListIsThere, Listed, Reading
<1>2. /\ pc'[d] = pc[d] /\ todo'[d] = todo[d] /\ asked'[d] = asked[d]
      /\ Preparing(d)' = Preparing(d) /\ Reading(d)' = Reading(d)
      /\ Reading(d) => Listed(d)' = Listed(d)
  BY DEF Run, Preparing, Reading, Listed
<1>3. QED
  BY <1>1, <1>2 DEF Ages

\* A step of the command keeps it.
LEMMA ActsAges ==
    ASSUME TypeOK, ListIsThere, ListedAreOld, [Next]_vars, NEW c \in Hosts,
           Ages(c), Acts(c)
    PROVE  Ages(c)'
<1>0. /\ pc \in [Hosts -> Labels] /\ opt \in [Hosts -> OptionType]
      /\ remote \in [Hosts -> SUBSET Objects] /\ local \in [Hosts -> SUBSET Objects]
      /\ todo \in [Hosts -> SUBSET Objects] /\ asked \in [Hosts -> SUBSET Objects]
      /\ since \in [Hosts -> 0..MaxTime]
  BY DEF TypeOK
<1> USE DEF Ages, Preparing, Reading, Past, Listed, world
<1>1. ASSUME NEW options \in Options, Start(c, options)
      PROVE  Ages(c)'
  BY <1>0, <1>1 DEF Start, Goto
<1>2. CASE ReuseList(c)
  <2>1. /\ UNCHANGED <<bucket, mtime, list, opt, todo, asked>> /\ asked[c] = {}
        /\ since'[c] = now /\ pc'[c] \in {"local", "create", "failed"}
        /\ pc'[c] = "local" => opt[c].keep /\ list # NoList
    BY <1>0, <1>2 DEF ReuseList, Goto
  <2>2. QED
    BY <2>1 DEF ListedAreOld
<1>3. CASE CreateList(c)
  BY <1>0, <1>3 DEF CreateList, Goto
<1>4. CASE FillList(c)
  <2> DEFINE found == {o \in Stored : InInterval(o, opt[c].from)}
  <2>1. /\ UNCHANGED <<bucket, mtime, opt, todo, asked>> /\ asked[c] = {}
        /\ since'[c] = now /\ pc'[c] = "local" /\ pc[c] = "fill"
    BY <1>0, <1>4 DEF FillList, Goto
  <2>2. \A o \in found : Past(o, now)
    BY DEF Stored, InInterval
  <2>3. /\ opt[c].keep => list' = list \cup found
        /\ ~opt[c].keep => remote'[c] = found
    BY <1>0, <1>4 DEF FillList
  <2> HIDE DEF found
  <2>4. opt[c].keep => \A o \in list : Past(o, now)
    BY <2>1 DEF ListedAreOld
  <2>5. \A o \in Listed(c)' : Past(o, now)
    BY <2>1, <2>2, <2>3, <2>4
  <2>6. QED
    BY <2>1, <2>5
<1>5. ASSUME NEW h \in Hosts, ReadHost(c, h)
      PROVE  Ages(c)'
  BY <1>0, <1>5 DEF ReadHost, Goto
<1>6. CASE ReadBackups(c)
  BY <1>0, <1>6 DEF ReadBackups, Goto
<1>7. CASE Antijoin(c)
  BY <1>0, <1>7 DEF Antijoin, Goto
<1>8. CASE SanityCheck(c)
  BY <1>0, <1>8 DEF SanityCheck, Goto
<1>9. ASSUME NEW batch \in SUBSET todo[c], NEW objects \in SUBSET batch,
             DeleteBatch(c, batch, objects)
      PROVE  Ages(c)'
  <2>1. /\ \A o \in Objects : Past(o, since[c]) => Past(o, since[c])'
    BY <1>9, TimesStay DEF DeleteBatch
  <2>2. /\ pc[c] = "delete" /\ pc'[c] \in {"delete", "save", "failed"}
        /\ todo'[c] \subseteq todo[c] /\ asked'[c] \subseteq asked[c] \cup todo[c]
    BY <1>0, <1>9 DEF DeleteBatch, Goto
  <2>3. QED
    BY <1>0, <2>1, <2>2
<1>10. CASE DeleteDone(c)
  BY <1>0, <1>10 DEF DeleteDone, Goto
<1>11. CASE Fail(c)
  BY <1>0, <1>11 DEF Fail, Goto
<1>12. CASE SaveState(c)
  BY <1>0, <1>12 DEF SaveState, Goto
<1>13. CASE Kill(c)
  BY <1>0, <1>13 DEF Kill, Goto
<1>14. QED
  BY <1>1, <1>2, <1>3, <1>4, <1>5, <1>6, <1>7, <1>8, <1>9, <1>10, <1>11,
     <1>12, <1>13
     DEF Acts, Command

\* What is deleted was older than the guard interval when the run had its
\* listing, if no other host fills that listing.
THEOREM YoungObjectsAreKept ==
    ASSUME ListIsNotShared
    PROVE  Spec => []YoungAreKept
<1> DEFINE Inv == /\ TypeOK /\ ListIsThere /\ ListedAreOld /\ KeeperIsAlone
                  /\ \A c \in Hosts : Ages(c)
<1>1. Init => Inv
  BY InitType DEF Init, NoCommandYet, Ages, Preparing, ListedAreOld,
    Reading, KeeperIsAlone
<1>2. Inv /\ [Next]_vars => Inv'
  <2> SUFFICES ASSUME Inv, [Next]_vars PROVE Inv'
    OBVIOUS
  <2>1. TypeOK' /\ ListIsThere' /\ ListedAreOld' /\ KeeperIsAlone'
    BY NextType, NextListed, NextKeeper
  <2>2. UNCHANGED <<list, procs>> => \A d \in Hosts : Run(d)' = Run(d) /\ list' = list
    BY DEF procs, Run
  <2>3. ASSUME UNCHANGED <<list, procs>> PROVE \A d \in Hosts : Ages(d)'
    BY <2>2, <2>3, AgesFrame
  <2>4. ASSUME NEW c \in Hosts, Acts(c), \A d \in Hosts \ {c} : Run(d)' = Run(d)
        PROVE  \A d \in Hosts : Ages(d)'
    <3>1. Ages(c)'
      BY <2>4, ActsAges
    <3>2. ASSUME NEW d \in Hosts \ {c} PROVE Ages(d)'
      <4>1. ~opt[d].keep
        BY DEF KeeperIsAlone
      <4>2. QED
        BY <2>4, <3>2, <4>1, AgesFrame
    <3>3. QED
      BY <3>1, <3>2
  <2>5. QED
    BY <2>1, <2>3, <2>4, OneActs
<1>3. Inv => YoungAreKept
  BY DEF YoungAreKept, Ages, Past
<1>4. QED
  BY <1>1, <1>2, <1>3, PTL DEF Spec
=============================================================================
