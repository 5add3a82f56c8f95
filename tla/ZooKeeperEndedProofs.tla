------------------------ MODULE ZooKeeperEndedProofs ------------------------
(***************************************************************************)
(* A clean-up command of ZooKeeperCleanup that ends without an error has   *)
(* deleted what it was asked to: for every part of the command line, what  *)
(* is still there is still to come, on the way of the traversal, in the    *)
(* queue of DDL tasks, in the walk through the locks or in a deletion.     *)
(***************************************************************************)
EXTENDS ZooKeeperCleanupProofs

---------------------------------------------------------------------------
(* What is left to do *)

\* No server takes a replica that the command is to drop from its object.
RemovedStayAway(c) ==
    \A p \in ServerDrops : \A o \in Objects : \A r \in Replicas(o) :
        /\ IsPrefix(p, r)
        /\ IF c.kind = "drop" THEN r = c.root \o <<"replicas", c.replica>>
           ELSE HostOf(r) \in Range(c.hosts)
        => IsPrefix(p, o)

\* The nodes of the first tree that are still there.
Rest == (InitTree \cap tree) \ fresh

Items(s) == {s[i] : i \in 1..Len(s)}

\* The deletion will come to the node n.
DelCovers(d, n) ==
    \/ d.phase # "done" /\ n \in Items(d.nodes)
    \/ d.phase = "list" /\ \E q \in Items(d.queue) : IsPrefix(q, n)
    \/ d.phase \in {"single", "last"} /\ n \in Items(d.chunk)

\* The nodes that servers and the marks of the command added.
NewInv ==
    command.kind # "create" =>
        /\ \A n \in fresh : n \notin DOMAIN DdlHosts
        /\ \A n \in tree \ InitTree : IsPrefix(ZeroCopy, n) => Len(n) <= Len(ZeroCopy) + 5

TodoInv ==
    /\ pc \in {"inspect", "collect", "drop", "ddl_list", "ddl", "ddl_mark", "ddl_wait", "ddl_delete"} => whose.hosts = command.hosts
    /\ command.kind = "locks" => whose.table = command.table
    /\ command.kind = "drop" =>
          IF command.table = "" THEN whose.table \in {"", TableUuid[command.root]}
          ELSE whose.table = command.table
    /\ pc \in {"ddl", "ddl_mark"} /\ ddl.todo # <<>> => ddl.task \in Items(ddl.remove)

\* The clean-up after hosts and tables deletes nodes one by one only outside of objects.
Outside == {p \in Path : IsPrefix(ZeroCopy, p) \/ IsPrefix(DdlPath, p)}

DelIn(d, S) == d \in [phase : Phases, queue : Seq(S), nodes : Seq(S), chunk : Seq(S)]

OutInv ==
    /\ Items(ddl.remove) \subseteq DOMAIN DdlHosts
    /\ \A c \in walk.found : IsPrefix(LockRoot, c)
    /\ command.kind \in HostKinds \cup {"drop"} => DelIn(del, Outside)

\* delete
PathsLeft ==
    command.kind = "delete" =>
        \A n \in Rest : \A p \in command.paths : IsPrefix(p, n) =>
            pc = "failed" \/ (pc = "delete" /\ DelCovers(del, n))

\* The locks
Current(f) == command.kind \in HostKinds => whose.hosts # <<>> /\ Head(whose.hosts) = f.replica

Later(f) ==
    command.kind \in HostKinds /\ whose.hosts # <<>> /\ f.replica \in Items(Tail(whose.hosts))

StackCovers(l) ==
    \E i \in 1..Len(walk.stack) : \E c \in walk.stack[i].todo : IsPrefix(c, l)

FoundCovers(l) == \E c \in walk.found : IsPrefix(c, l)

QueueCovers(l) ==
    \E q \in Items(walk.queue) :
        IsPrefix(LockRoot, q) /\ IsPrefix(q, l) /\ Len(q) <= Len(LockRoot) + 1

BeforeLocks == {"inspect", "collect", "drop", "ddl_list", "ddl", "ddl_mark", "ddl_wait",
                "ddl_delete", "replica", "shared_id", "failed"}

LockLeft(f, l) ==
    \/ pc \in BeforeLocks
    \/ pc \in {"locks", "walk", "walk_delete", "find", "delete"} /\ Later(f)
    \/ /\ Current(f)
       /\ \/ pc = "locks"
          \/ pc \in {"walk", "walk_delete"} /\ (StackCovers(l) \/ FoundCovers(l))
          \/ pc = "find" /\ (QueueCovers(l) \/ FoundCovers(l))
          \/ pc \in {"walk_delete", "delete"} /\ DelCovers(del, l)

Leaf(l) == IsLock(l) /\ Children(InitTree, l) = {}

LocksLeft ==
    command.kind \in LockKinds =>
        \A l \in Rest : \A f \in Filters : Leaf(l) /\ LockMatched(f, l) => LockLeft(f, l)

\* The replicas
OnTheWay(o) == {p \in Path : IsPrefix(command.root, p) /\ IsPrefix(p, o)}

Leads(r, o) ==
    /\ r.path \in OnTheWay(o)
    /\ r.ready => /\ r.exists
                  /\ IF r.path = o THEN "replicas" \in r.children
                     ELSE "replicas" \notin r.children /\ o[Len(r.path) + 1] \in r.children

Holds(i, P, R) ==
    \/ \E p \in Items(i.pending) : p \in P
    \/ \E r \in Items(i.active) \cup Items(i.finished) : r \in R

Leading(o) == {r \in [path : Path, ready : BOOLEAN, exists : BOOLEAN, children : SUBSET Label] : Leads(r, o)}

ReplicaLeft(r, o) ==
    \/ pc \in {"inspect", "collect"} /\ o \in Items(objects)
    \/ pc = "inspect" /\ Holds(inspector, OnTheWay(o), Leading(o))
    \/ pc \in {"collect", "drop"} /\ r \in DOMAIN tasks /\ tasks[r] # "done"
    \/ pc = "failed"

ReplicasLeft ==
    command.kind \in HostKinds =>
        \A o \in Objects : InScope(o, {}) =>
            \A r \in RemovedReplicas(o) \cap tree : ReplicaLeft(r, o)

ReplicaNodeLeft ==
    command.kind = "drop" /\ ReplicaNode \in tree => pc \in {"replica", "failed"}

\* The replicas to drop are those of the object.
AllGo(o) ==
    /\ Replicas(o) # {}
    /\ Replicas(o) \subseteq (IF command.kind = "drop" THEN {ReplicaNode} ELSE RemovedReplicas(o))

ObjectsLeft ==
    command.kind \in HostKinds \cup {"drop"} /\ RemovedStayAway(command) =>
        \A o \in Objects : AllGo(o) /\ Subtree(Rest, o) # {} => Replicas(o) \cap tree # {}

\* The DDL tasks
TaskLeft(q, n) ==
    \/ pc \in {"inspect", "collect", "drop", "ddl_list", "failed"}
    \/ pc \in {"ddl", "ddl_mark"} /\ q \in Items(ddl.queue)
    \/ pc \in {"ddl", "ddl_mark", "ddl_wait", "ddl_delete"} /\ q \in Items(ddl.remove)
    \/ pc = "ddl_delete" /\ DelCovers(del, n)

TasksLeft ==
    command.ddl =>
        \A q \in DOMAIN DdlHosts : DdlHosts[q] \cap Removed # {} =>
            \A n \in Rest : IsPrefix(q, n) => TaskLeft(q, n)

LeftInv ==
    /\ NewInv /\ TodoInv /\ OutInv
    /\ ~command.dry => /\ PathsLeft /\ LocksLeft /\ ReplicasLeft /\ ReplicaNodeLeft
                       /\ ObjectsLeft /\ TasksLeft

---------------------------------------------------------------------------
(* What a sequence holds *)

\* The items of a sequence that grows at its end, loses its head, or is cut in two.
LEMMA ItemsOf ==
    ASSUME NEW S, NEW s \in Seq(S)
    PROVE  /\ Items(s) \subseteq S
           /\ \A x \in S : Items(Append(s, x)) = Items(s) \cup {x}
           /\ \A t \in Seq(S) : Items(s \o t) = Items(s) \cup Items(t)
           /\ s # <<>> => /\ Items(s) = {Head(s)} \cup Items(Tail(s))
                          /\ Head(s) \in S /\ Tail(s) \in Seq(S)
           /\ s = <<>> => Items(s) = {}
<1>1. Len(s) \in Nat /\ \A i \in 1..Len(s) : s[i] \in S
    BY LenProperties, ElementOfSeq
<1>2. Items(s) \subseteq S
    BY <1>1 DEF Items
<1>3. ASSUME NEW x \in S
      PROVE  Items(Append(s, x)) = Items(s) \cup {x}
    <2>1. /\ Len(Append(s, x)) = Len(s) + 1 /\ Append(s, x)[Len(s) + 1] = x
          /\ \A i \in 1..Len(s) : Append(s, x)[i] = s[i]
        BY AppendProperties
    <2>2. 1..(Len(s) + 1) = 1..Len(s) \cup {Len(s) + 1}
        BY <1>1
    <2> QED
        BY <2>1, <2>2 DEF Items
<1>4. ASSUME NEW t \in Seq(S)
      PROVE  Items(s \o t) = Items(s) \cup Items(t)
    <2>1. Len(t) \in Nat
        BY LenProperties
    <2>2. Len(s \o t) = Len(s) + Len(t)
        BY ConcatProperties
    <2>3. \A i \in 1..(Len(s) + Len(t)) :
             (s \o t)[i] = IF i <= Len(s) THEN s[i] ELSE t[i - Len(s)]
        BY ConcatProperties
    <2>4. ASSUME NEW i \in 1..Len(t) PROVE (s \o t)[i + Len(s)] = t[i]
        <3>1. i + Len(s) \in 1..(Len(s) + Len(t)) /\ ~(i + Len(s) <= Len(s)) /\ (i + Len(s)) - Len(s) = i
            BY <1>1, <2>1
        <3> QED
            BY <2>3, <3>1
    <2>5. ASSUME NEW i \in 1..Len(s) PROVE (s \o t)[i] = s[i] /\ i \in 1..(Len(s) + Len(t))
        BY <1>1, <2>1, <2>3
    <2>6. \A i \in 1..(Len(s) + Len(t)) : i \in 1..Len(s) \/ (i - Len(s) \in 1..Len(t) /\ (i - Len(s)) + Len(s) = i)
        BY <1>1, <2>1
    <2>7. \A i \in 1..Len(t) : i + Len(s) \in 1..(Len(s) + Len(t))
        BY <1>1, <2>1
    <2>8. Items(s \o t) \subseteq Items(s) \cup Items(t)
        <3> SUFFICES ASSUME NEW x \in Items(s \o t) PROVE x \in Items(s) \cup Items(t)
              OBVIOUS
        <3>1. PICK i \in 1..(Len(s) + Len(t)) : x = (s \o t)[i]
            BY <2>2 DEF Items
        <3>2. CASE i \in 1..Len(s)
            BY <2>5, <3>1, <3>2 DEF Items
        <3>3. CASE i - Len(s) \in 1..Len(t) /\ (i - Len(s)) + Len(s) = i
            <4>1. x = t[i - Len(s)]
                BY <2>4, <3>1, <3>3
            <4> QED
                BY <3>3, <4>1 DEF Items
        <3> QED
            BY <2>6, <3>2, <3>3
    <2>9. Items(s) \subseteq Items(s \o t)
        BY <2>2, <2>5 DEF Items
    <2>10. Items(t) \subseteq Items(s \o t)
        <3> SUFFICES ASSUME NEW x \in Items(t) PROVE x \in Items(s \o t)
              OBVIOUS
        <3>1. PICK i \in 1..Len(t) : x = t[i]
            BY DEF Items
        <3> QED
            BY <2>2, <2>4, <2>7, <3>1 DEF Items
    <2> QED
        BY <2>8, <2>9, <2>10
<1>5. ASSUME s # <<>>
      PROVE  Items(s) = {Head(s)} \cup Items(Tail(s)) /\ Head(s) \in S /\ Tail(s) \in Seq(S)
    <2>1. Head(s) \in S /\ Tail(s) \in Seq(S) /\ Len(Tail(s)) = Len(s) - 1
        BY <1>5, HeadTailProperties
    <2>2. Head(s) = s[1] /\ \A i \in 1..Len(Tail(s)) : Tail(s)[i] = s[i + 1]
        BY <1>5, HeadTailProperties
    <2>3. Len(s) >= 1
        BY <1>1, <1>5, EmptySeq
    <2>4. \A i \in 1..Len(s) : i = 1 \/ (i - 1 \in 1..(Len(s) - 1) /\ (i - 1) + 1 = i)
        BY <1>1
    <2>5. \A i \in 1..(Len(s) - 1) : i + 1 \in 1..Len(s)
        BY <1>1
    <2>6. 1 \in 1..Len(s)
        BY <1>1, <2>3
    <2>7. Items(s) \subseteq {Head(s)} \cup Items(Tail(s))
        <3> SUFFICES ASSUME NEW x \in Items(s) PROVE x \in {Head(s)} \cup Items(Tail(s))
              OBVIOUS
        <3>1. PICK i \in 1..Len(s) : x = s[i]
            BY DEF Items
        <3>2. CASE i = 1
            BY <2>2, <3>1, <3>2
        <3>3. CASE i - 1 \in 1..(Len(s) - 1) /\ (i - 1) + 1 = i
            <4>1. Tail(s)[i - 1] = s[i] /\ i - 1 \in 1..Len(Tail(s))
                BY <2>1, <2>2, <3>3
            <4> QED
                BY <3>1, <4>1 DEF Items
        <3> QED
            BY <2>4, <3>2, <3>3
    <2>8. Items(Tail(s)) \subseteq Items(s)
        BY <2>1, <2>2, <2>5 DEF Items
    <2>9. Head(s) \in Items(s)
        BY <2>2, <2>6 DEF Items
    <2> QED
        BY <2>1, <2>7, <2>8, <2>9
<1>6. s = <<>> => Items(s) = {}
    BY EmptySeq DEF Items
<1> QED
    BY <1>2, <1>3, <1>4, <1>5, <1>6

\* The two parts of a sequence hold all of it.
LEMMA ItemsCut ==
    ASSUME NEW S, NEW s \in Seq(S), NEW n \in 0..Len(s)
    PROVE  /\ SubSeq(s, 1, n) \in Seq(S) /\ SubSeq(s, n + 1, Len(s)) \in Seq(S)
           /\ Items(s) = Items(SubSeq(s, 1, n)) \cup Items(SubSeq(s, n + 1, Len(s)))
           /\ Len(SubSeq(s, 1, n)) = n
<1> DEFINE a == SubSeq(s, 1, n)
           b == SubSeq(s, n + 1, Len(s))
<1>1. Len(s) \in Nat /\ n \in Nat /\ n <= Len(s) /\ \A i \in 1..Len(s) : s[i] \in S
    BY LenProperties, ElementOfSeq
<1>2. a \in Seq(S) /\ Len(a) = n /\ \A i \in 1..n : a[i] = s[i]
    <2>1. \A i \in 1..n : s[i] \in S
        BY <1>1
    <2>2. n \in Int /\ 1 \in Int /\ (IF 1 <= n THEN n - 1 + 1 ELSE 0) = n
        BY <1>1
    <2>3. \A i \in 1..n : 1 + i - 1 = i
        BY <1>1
    <2> QED
        BY <2>1, <2>2, <2>3, SubSeqProperties
<1>3. b \in Seq(S) /\ Len(b) = Len(s) - n /\ \A i \in 1..(Len(s) - n) : b[i] = s[n + i]
    <2>1. \A i \in (n + 1)..Len(s) : s[i] \in S
        BY <1>1
    <2>2. n + 1 \in Int /\ Len(s) \in Int
          /\ (IF n + 1 <= Len(s) THEN Len(s) - (n + 1) + 1 ELSE 0) = Len(s) - n
        BY <1>1
    <2>3. \A i \in 1..(Len(s) - n) : (n + 1) + i - 1 = n + i
        BY <1>1
    <2> QED
        BY <2>1, <2>2, <2>3, SubSeqProperties
<1> HIDE DEF a, b
<1>4. Items(s) \subseteq Items(a) \cup Items(b)
    <2> SUFFICES ASSUME NEW x \in Items(s) PROVE x \in Items(a) \cup Items(b)
          OBVIOUS
    <2>1. PICK i \in 1..Len(s) : x = s[i]
        BY DEF Items
    <2>2. CASE i <= n
        <3>1. i \in 1..n
            BY <1>1, <2>2
        <3> QED
            BY <1>2, <2>1, <3>1 DEF Items
    <2>3. CASE ~(i <= n)
        <3>1. i - n \in 1..(Len(s) - n) /\ n + (i - n) = i
            BY <1>1, <2>3
        <3> QED
            BY <1>3, <2>1, <3>1 DEF Items
    <2> QED
        BY <2>2, <2>3
<1>5. Items(a) \subseteq Items(s)
    <2>1. \A i \in 1..n : i \in 1..Len(s)
        BY <1>1
    <2> QED
        BY <1>2, <2>1 DEF Items
<1>6. Items(b) \subseteq Items(s)
    <2>1. \A i \in 1..(Len(s) - n) : n + i \in 1..Len(s)
        BY <1>1
    <2> QED
        BY <1>3, <2>1 DEF Items
<1>7. Items(s) = Items(a) \cup Items(b)
    BY <1>4, <1>5, <1>6
<1> QED
    BY <1>2, <1>3, <1>7 DEF a, b

\* A sequence backwards holds the same.
LEMMA ItemsReversed ==
    ASSUME NEW S, NEW s \in Seq(S)
    PROVE  Items(Reverse(s)) = Items(s)
<1>1. Len(s) \in Nat
    BY LenProperties
<1>2. Reverse(s) = [i \in 1..Len(s) |-> s[Len(s) - i + 1]]
    BY DEF Reverse
<1>3. Reverse(s) \in Seq(S)
    BY ReverseFacts
<1>4. Len(Reverse(s)) = Len(s)
    BY <1>1, <1>2, <1>3
<1>5. \A i \in 1..Len(s) : Len(s) - i + 1 \in 1..Len(s) /\ Len(s) - (Len(s) - i + 1) + 1 = i
    BY <1>1
<1>6. \A i \in 1..Len(s) : Reverse(s)[i] = s[Len(s) - i + 1]
    BY <1>2
<1>7. \A i \in 1..Len(s) : Reverse(s)[Len(s) - i + 1] = s[i]
    BY <1>5, <1>6
<1>8. Items(Reverse(s)) \subseteq Items(s)
    <2> SUFFICES ASSUME NEW i \in 1..Len(s) PROVE Reverse(s)[i] \in Items(s)
        BY <1>4 DEF Items
    <2> QED
        BY <1>5, <1>6 DEF Items
<1>9. Items(s) \subseteq Items(Reverse(s))
    <2> SUFFICES ASSUME NEW i \in 1..Len(s) PROVE s[i] \in Items(Reverse(s))
        BY DEF Items
    <2> DEFINE j == Len(s) - i + 1
    <2>1. j \in 1..Len(Reverse(s)) /\ Reverse(s)[j] = s[i]
        BY <1>4, <1>5, <1>7
    <2> HIDE DEF j
    <2> QED
        BY <2>1 DEF Items
<1> QED
    BY <1>8, <1>9

\* A sequence of different members of a finite set that is as long as the set holds all.
LEMMA ItemsAll ==
    ASSUME NEW S, IsFiniteSet(S), NEW f \in [1..Cardinality(S) -> S],
           \A i, j \in 1..Cardinality(S) : f[i] = f[j] => i = j
    PROVE  f \in Seq(S) /\ Items(f) = S
<1> DEFINE n == Cardinality(S)
<1>1. n \in Nat
    BY FS_CardinalityType
<1>2. IsFiniteSet(1..n) /\ Cardinality(1..n) = n
    <2>1. 1 \in Int /\ n \in Int /\ (IF 1 <= n THEN n - 1 + 1 ELSE 0) = n
        BY <1>1
    <2> HIDE DEF n
    <2> QED
        BY <2>1, FS_Interval
<1>3. f \in Injection(1..n, S)
    BY DEF Injection, IsInjective
<1>4. f \in Surjection(1..n, S)
    BY <1>2, <1>3, FS_Injection
<1>5. \A x \in S : \E i \in 1..n : f[i] = x
    BY <1>4 DEF Surjection
<1>6. f \in Seq(S) /\ Len(f) = n
    <2> HIDE DEF n
    <2>1. f \in [1..n -> S]
        BY DEF n
    <2> QED
        BY <1>1, <2>1
<1> QED
    BY <1>5, <1>6 DEF Items

\* SetToSeq holds the set.
LEMMA ItemsOfSet ==
    ASSUME NEW S, IsFiniteSet(S)
    PROVE  SetToSeq(S) \in Seq(S) /\ Items(SetToSeq(S)) = S
<1> DEFINE n == Cardinality(S)
<1>1. n \in Nat /\ ExistsBijection(1..n, S)
    BY FS_CardinalityType
<1>2. \E f \in [1..n -> S] : IsInjective(f)
    BY <1>1 DEF ExistsBijection, Bijection, Injection
<1>3. SetToSeq(S) \in [1..n -> S] /\ IsInjective(SetToSeq(S))
    BY <1>2 DEF SetToSeq
<1>4. \A i, j \in 1..n : SetToSeq(S)[i] = SetToSeq(S)[j] => i = j
    BY <1>3 DEF IsInjective
<1> QED
    BY <1>3, <1>4, ItemsAll

---------------------------------------------------------------------------
(* A deletion comes to everything it was started for *)

\* No path sorts before itself.
LEMMA NotBeforeItself ==
    ASSUME NEW p \in Path
    PROVE  ~SortsBefore(p, p)
<1>1. ~IsStrictPrefix(p, p)
    BY DEF IsStrictPrefix
<1> QED
    BY <1>1 DEF SortsBefore

\* delete_recursive starts with a path above each one it was given.
LEMMA StartCovers ==
    ASSUME NEW paths \in SUBSET Path, IsFiniteSet(paths), NEW d \in StartedDelete(paths),
           NEW p \in paths, NEW n \in Path, IsPrefix(p, n)
    PROVE  DelCovers(d, n)
<1> DEFINE K == RemoveSubpaths(paths)
<1>1. PICK q \in paths : IsPrefix(q, n) /\ \A r \in paths : IsPrefix(r, n) => Len(q) <= Len(r)
    <2> DEFINE T == {Len(r) : r \in {x \in paths : IsPrefix(x, n)}}
    <2>1. T \in SUBSET Nat /\ T # {}
        <3>1. \A r \in paths : Len(r) \in Nat
            BY PathFacts
        <3> QED
            BY <3>1
    <2>2. PICK m \in T : \A k \in T : m <= k
        <3> HIDE DEF T
        <3> QED
            BY <2>1, Least
    <2>3. PICK r \in paths : IsPrefix(r, n) /\ m = Len(r)
        BY <2>2
    <2> QED
        BY <2>2, <2>3
<1>2. q \in K
    <2>1. ASSUME NEW r \in paths, IsStrictPrefix(r, q) PROVE FALSE
        <3>1. IsPrefix(r, q) /\ Len(r) < Len(q) /\ IsPrefix(r, n)
            BY <1>1, <2>1, PrefixOrder
        <3>2. Len(q) <= Len(r) /\ Len(q) \in Nat /\ Len(r) \in Nat
            BY <1>1, <3>1, PathFacts
        <3> QED
            BY <3>1, <3>2
    <2> QED
        BY <2>1 DEF RemoveSubpaths
<1>3. IsFiniteSet(K) /\ K \subseteq Path
    BY FS_Subset DEF RemoveSubpaths
<1>4. PICK s \in Sorted(K) : d = [NoDelete EXCEPT !.phase = "list", !.queue = s]
    BY DEF StartedDelete
<1>5. s \in [1..Cardinality(K) -> K] /\ DOMAIN s = 1..Cardinality(K)
      /\ \A i, j \in DOMAIN s : i < j => SortsBefore(s[i], s[j])
    BY <1>4 DEF Sorted
<1>6. \A i, j \in 1..Cardinality(K) : s[i] = s[j] => i = j
    <2> SUFFICES ASSUME NEW i \in 1..Cardinality(K), NEW j \in 1..Cardinality(K), s[i] = s[j], i # j
                 PROVE  FALSE
        OBVIOUS
    <2>1. i < j \/ j < i
        <3> HIDE DEF K
        <3>1. Cardinality(K) \in Nat
            BY <1>3, FS_CardinalityType
        <3> QED
            BY <3>1
    <2>2. SortsBefore(s[i], s[i])
        BY <1>5, <2>1
    <2>3. s[i] \in Path
        BY <1>3, <1>5
    <2> QED
        BY <2>2, <2>3, NotBeforeItself
<1>7. Items(s) = K
    <2> HIDE DEF K
    <2> QED
        BY <1>3, <1>5, <1>6, ItemsAll
<1>8. d.phase = "list" /\ d.queue = s
    BY <1>4 DEF NoDelete
<1> QED
    BY <1>1, <1>2, <1>7, <1>8 DEF DelCovers

\* The state of a deletion.
DelState(d) == d \in [phase : Phases, queue : Seq(Path), nodes : Seq(Path), chunk : Seq(Path)]

\* The deletion at hand has its shape.
LEMMA DelStates ==
    ASSUME CleanInv
    PROVE  DelState(del) /\ (del.phase = "last" => del.chunk # <<>>)
<1>1. DelShape(del, Going)
    BY DEF CleanInv, DelInv
<1>2. Going \subseteq Path
    BY DEF Going
<1>3. Seq(Going) \subseteq Seq(Path)
    BY <1>2, SeqGrows
<1> QED
    BY <1>1, <1>3 DEF DelShape, DelState

\* The transaction of the next chunk removes what it holds, or hands it on.
LEMMA TransactionCovers ==
    ASSUME DelState(del), DeleteTransaction, NEW n \in Path, DelCovers(del, n), n \in tree'
    PROVE  DelCovers(del', n)
<1> DEFINE k == IF Len(del.nodes) < BatchSize THEN Len(del.nodes) ELSE BatchSize
           chunk == SubSeq(del.nodes, 1, k)
           rest == SubSeq(del.nodes, k + 1, Len(del.nodes))
<1>1. del.nodes \in Seq(Path) /\ Len(del.nodes) \in Nat /\ BatchSize \in Nat
    BY LenProperties, BatchSizeAssumption DEF DelState
<1>2. k \in 0..Len(del.nodes) /\ del.phase = "delete" /\ del.nodes # <<>>
    BY <1>1 DEF DeleteTransaction
<1>3. IF TransactionSucceeds(tree, chunk)
      THEN /\ tree' = tree \ {chunk[i] : i \in 1..k} /\ del' = [del EXCEPT !.nodes = rest]
      ELSE del' = [del EXCEPT !.nodes = rest, !.chunk = chunk, !.phase = "single"]
    BY DEF DeleteTransaction
<1> HIDE DEF k
<1>4. Items(del.nodes) = Items(chunk) \cup Items(rest) /\ Len(chunk) = k
    BY <1>1, <1>2, ItemsCut
<1> HIDE DEF chunk, rest
<1>5. n \in Items(chunk) \/ n \in Items(rest)
    BY <1>2, <1>4 DEF DelCovers
<1>6. CASE TransactionSucceeds(tree, chunk)
    <2>1. tree' = tree \ Items(chunk) /\ del' = [del EXCEPT !.nodes = rest]
        BY <1>3, <1>4, <1>6 DEF Items
    <2>2. n \in Items(rest) /\ del'.nodes = rest /\ del'.phase = "delete"
        BY <1>2, <1>5, <2>1 DEF DelState
    <2> QED
        BY <2>2 DEF DelCovers
<1>7. CASE ~TransactionSucceeds(tree, chunk)
    <2>1. del'.nodes = rest /\ del'.phase = "single" /\ del'.chunk = chunk
        BY <1>3, <1>7 DEF DelState
    <2> QED
        BY <1>5, <2>1 DEF DelCovers
<1> QED
    BY <1>6, <1>7

\* Listing a node moves on to its children.
LEMMA ListCovers ==
    ASSUME DelState(del), DeleteLists, tree \in SUBSET Path, IsFiniteSet(tree), PrefixClosed(tree),
           NEW n \in tree, DelCovers(del, n)
    PROVE  DelCovers(del', n)
<1> DEFINE q == Head(del.queue)
           more == SetToSeq(Children(tree, q))
<1>1. /\ del.queue \in Seq(Path) /\ del.nodes \in Seq(Path) /\ del.queue # <<>>
      /\ del.phase = "list" /\ n \in Path
      /\ del' = [del EXCEPT !.queue = Tail(del.queue) \o more, !.nodes = Append(del.nodes, q)]
    BY DEF DeleteLists, DelState
<1>2. Items(del.queue) = {q} \cup Items(Tail(del.queue)) /\ q \in Path /\ Tail(del.queue) \in Seq(Path)
    BY <1>1, ItemsOf
<1>3. more \in Seq(Path) /\ Items(more) = Children(tree, q)
    <2>1. IsFiniteSet(Children(tree, q)) /\ Children(tree, q) \in SUBSET Path
        BY ChildrenFacts
    <2> QED
        BY <2>1, ItemsOfSet, SetToSeqIn
<1> HIDE DEF q, more
<1>4. Items(Tail(del.queue) \o more) = Items(Tail(del.queue)) \cup Children(tree, q)
    <2>1. \A s, t \in Seq(Path) : Items(s \o t) = Items(s) \cup Items(t)
        BY ItemsOf
    <2> QED
        BY <1>2, <1>3, <2>1
<1>5. Items(Append(del.nodes, q)) = Items(del.nodes) \cup {q}
    BY <1>1, <1>2, ItemsOf
<1>6. /\ del'.queue = Tail(del.queue) \o more /\ del'.nodes = Append(del.nodes, q)
      /\ del'.phase = "list"
    BY <1>1 DEF DelState
<1>7. CASE n \in Items(del.nodes)
    BY <1>5, <1>6, <1>7 DEF DelCovers
<1>8. ASSUME NEW x \in Items(del.queue), IsPrefix(x, n)
      PROVE  DelCovers(del', n)
    <2>1. CASE x \in Items(Tail(del.queue))
        BY <1>4, <1>6, <1>8, <2>1 DEF DelCovers
    <2>2. CASE x = q /\ Len(q) = Len(n)
        <3>1. q = n
            BY <1>1, <1>2, <1>8, <2>2, PrefixOrder
        <3> QED
            BY <1>5, <1>6, <3>1 DEF DelCovers
    <2>3. CASE x = q /\ Len(q) # Len(n)
        <3>1. Len(q) < Len(n)
            <4>1. Len(q) <= Len(n) /\ Len(q) \in Nat /\ Len(n) \in Nat
                BY <1>1, <1>2, <1>8, <2>3, PrefixOrder, PathFacts
            <4> QED
                BY <2>3, <4>1
        <3>2. PICK c \in Children(tree, q) : IsPrefix(c, n)
            BY <1>2, <1>8, <2>3, <3>1, ChildOnTheWay
        <3> QED
            BY <1>4, <1>6, <3>2 DEF DelCovers
    <2> QED
        BY <1>2, <2>1, <2>2, <2>3
<1> QED
    BY <1>1, <1>7, <1>8 DEF DelCovers

\* A node that was to be deleted is deleted, or is still to be deleted.
LEMMA DeletionCovers ==
    ASSUME DelState(del), del.phase = "last" => del.chunk # <<>>, DeleteStep(FALSE),
           tree \in SUBSET Path, IsFiniteSet(tree), PrefixClosed(tree),
           NEW n \in tree, DelCovers(del, n), n \in tree'
    PROVE  DelCovers(del', n)
<1>1. n \in Path /\ del.nodes \in Seq(Path) /\ del.chunk \in Seq(Path)
    BY DEF DelState
<1>2. CASE DeleteLists
    BY <1>2, ListCovers
<1>3. CASE DeleteListed(FALSE)
    <2>1. /\ del' = [del EXCEPT !.phase = "delete", !.nodes = Reverse(del.nodes)]
          /\ del.phase = "list" /\ del.queue = <<>>
        BY <1>3 DEF DeleteListed
    <2>2. Items(del.queue) = {} /\ Items(Reverse(del.nodes)) = Items(del.nodes)
        <3>1. <<>> \in Seq(Path)
            BY EmptySeq
        <3> QED
            BY <1>1, <2>1, <3>1, ItemsOf, ItemsReversed
    <2>3. del'.nodes = Reverse(del.nodes) /\ del'.phase = "delete"
        BY <2>1 DEF DelState
    <2> QED
        BY <2>1, <2>2, <2>3 DEF DelCovers
<1>4. CASE DeleteTransaction
    BY <1>1, <1>4, TransactionCovers
<1>5. CASE DeleteBelow
    <2>1. del.phase = "single" /\ del' = [del EXCEPT !.phase = "last"]
        BY <1>5 DEF DeleteBelow
    <2>2. del'.phase = "last" /\ del'.nodes = del.nodes /\ del'.chunk = del.chunk
        BY <2>1 DEF DelState
    <2> QED
        BY <2>1, <2>2 DEF DelCovers
<1>6. CASE DeleteSingle
    <2>1. del.phase = "last" /\ del.chunk # <<>>
        BY <1>6 DEF DeleteSingle
    <2>2. Items(del.chunk) = {Head(del.chunk)} \cup Items(Tail(del.chunk))
        BY <1>1, <2>1, ItemsOf
    <2>3. CASE Children(tree, Head(del.chunk)) = {}
        <3>1. /\ tree' = tree \ {Head(del.chunk)}
              /\ del' = [del EXCEPT !.phase = "single", !.chunk = Tail(del.chunk)]
            BY <1>6, <2>3 DEF DeleteSingle
        <3>2. del'.phase = "single" /\ del'.nodes = del.nodes /\ del'.chunk = Tail(del.chunk)
            BY <3>1 DEF DelState
        <3> QED
            BY <2>1, <2>2, <3>1, <3>2 DEF DelCovers
    <2>4. CASE Children(tree, Head(del.chunk)) # {}
        <3>1. del' = [del EXCEPT !.phase = "single"]
            BY <1>6, <2>4 DEF DeleteSingle
        <3>2. del'.phase = "single" /\ del'.nodes = del.nodes /\ del'.chunk = del.chunk
            BY <3>1 DEF DelState
        <3> QED
            BY <2>1, <3>2 DEF DelCovers
    <2> QED
        BY <2>3, <2>4
<1>7. CASE DeleteSingles
    <2>1. del.phase = "single" /\ del.chunk = <<>> /\ del' = [del EXCEPT !.phase = "delete"]
        BY <1>7 DEF DeleteSingles
    <2>2. Items(del.chunk) = {}
        BY <1>1, <2>1, ItemsOf
    <2>3. del'.phase = "delete" /\ del'.nodes = del.nodes
        BY <2>1 DEF DelState
    <2> QED
        BY <2>1, <2>2, <2>3 DEF DelCovers
<1>8. CASE DeleteReturns
    <2>1. del.phase = "delete" /\ Items(del.nodes) = {}
        BY <1>1, <1>8, ItemsOf DEF DeleteReturns
    <2> QED
        BY <2>1 DEF DelCovers
<1> QED
    BY <1>2, <1>3, <1>4, <1>5, <1>6, <1>7, <1>8 DEF DeleteStep

---------------------------------------------------------------------------
(* What a step does to the tree *)

\* The mark that the command writes for the host at hand.
Mark == Finished(ddl.task, Head(ddl.todo))

\* What a step adds lies in no object and not too deep, and is fresh or a mark of the
\* command.
Added ==
    /\ fresh \subseteq fresh'
    /\ \A n \in fresh' \ fresh : n \notin DOMAIN DdlHosts
    /\ \A n \in tree' \ tree :
          /\ ~HasReplicas(n)
          /\ IsPrefix(ZeroCopy, n) => Len(n) <= Len(ZeroCopy) + 5
          /\ \/ n \in fresh'
             \/ pc = "ddl_mark" /\ pc' = "ddl" /\ n = Mark /\ Front(n) \in tree

\* The directory of the locks and that of the DDL tasks do not meet.
LEMMA PlacesDiffer ==
    ASSUME NEW n \in Path, IsPrefix(DdlPath, n)
    PROVE  ~IsPrefix(ZeroCopy, n)
<1>1. ZeroCopy \in Path /\ DdlPath \in Path /\ Len(ZeroCopy) \in Nat /\ Len(DdlPath) \in Nat
    BY InitTreeFacts, PathFacts
<1>2. ~IsPrefix(ZeroCopy, DdlPath) /\ ~IsPrefix(DdlPath, ZeroCopy)
    BY TreeAssumption, PlacesAssumption
<1>3. Len(ZeroCopy) <= Len(DdlPath) \/ Len(DdlPath) <= Len(ZeroCopy)
    BY <1>1
<1> QED
    BY <1>1, <1>2, <1>3, PrefixOrder

\* A mark of a finished task.
LEMMA MarkFacts ==
    ASSUME NEW q \in DOMAIN DdlHosts, NEW h \in DdlHosts[q]
    PROVE  LET n == Finished(q, h)
           IN  /\ n \in Path /\ ~HasReplicas(n) /\ n \notin DOMAIN DdlHosts
               /\ IsPrefix(q, n) /\ IsPrefix(Append(q, "finished"), n) /\ q \in Path
               /\ IsPrefix(DdlPath, n) /\ ~IsPrefix(ZeroCopy, n)
               /\ Front(n) = Append(q, "finished")
<1> DEFINE n == Finished(q, h)
           m == Append(q, "finished")
<1>1. /\ n \in Path /\ Front(n) = m /\ ~HasReplicas(n) /\ n # <<>>
      /\ Len(n) = Len(DdlPath) + 3 /\ Len(DdlPath) \in Nat
    BY FinishedFacts
<1>2. q \in Path /\ IsPrefix(DdlPath, q) /\ \A x \in DOMAIN DdlHosts : Len(x) = Len(DdlPath) + 1
    BY DdlFacts
<1>3. m \in Path /\ IsPrefix(q, m)
    BY <1>2, LabelFacts, AppendFacts
<1>4. IsPrefix(m, n)
    <2>1. h \in Label /\ "finished" \in Label
        BY DdlFacts, LabelFacts
    <2>2. n = Append(m, h)
        <3>1. q \in Seq(Label)
            BY <1>2 DEF Path
        <3> QED
            BY <2>1, <3>1 DEF Finished
    <2> HIDE DEF n, m
    <2> QED
        BY <1>3, <2>1, <2>2, AppendFacts
<1> HIDE DEF n, m
<1>5. IsPrefix(q, n) /\ IsPrefix(DdlPath, n)
    <2>1. DdlPath \in Path
        BY InitTreeFacts
    <2> QED
        BY <1>1, <1>2, <1>3, <1>4, <2>1, PrefixOrder
<1>6. n \notin DOMAIN DdlHosts
    BY <1>1, <1>2
<1>7. ~IsPrefix(ZeroCopy, n)
    BY <1>1, <1>5, PlacesDiffer
<1> QED
    BY <1>1, <1>2, <1>3, <1>4, <1>5, <1>6, <1>7 DEF n, m

\* A server creates a lock.
LEMMA LockIsAdded ==
    ASSUME NEW p \in ServerLocks, ServerCreates(p)
    PROVE  Added
<1>1. p \in Path /\ ~HasReplicas(p) /\ ~IsPrefix(DdlPath, p)
      /\ (IsPrefix(ZeroCopy, p) => Len(p) <= Len(ZeroCopy) + 5)
    <2>1. p \in Path
        BY ServersAssumption, GivenPaths
    <2> QED
        BY <2>1, ServersAssumption, PlacesAssumption, RangeFacts
<1>2. tree' = tree \cup WithParents(p) /\ fresh' = fresh \cup (WithParents(p) \ tree)
    BY DEF ServerCreates
<1>3. ASSUME NEW n \in WithParents(p)
      PROVE  /\ ~HasReplicas(n) /\ n \notin DOMAIN DdlHosts
             /\ IsPrefix(ZeroCopy, n) => Len(n) <= Len(ZeroCopy) + 5
    <2>1. n \in Path /\ IsPrefix(n, p)
        BY <1>1, Parents
    <2>2. ~HasReplicas(n)
        <3>1. Len(n) <= Len(p) /\ (\A i \in 1..Len(n) : n[i] = p[i]) /\ Len(n) \in Nat /\ Len(p) \in Nat
            BY <1>1, <2>1, PrefixIs, PathFacts
        <3> QED
            BY <1>1, <3>1 DEF HasReplicas
    <2>3. ASSUME n \in DOMAIN DdlHosts PROVE FALSE
        <3>1. IsPrefix(DdlPath, n) /\ DdlPath \in Path
            BY <2>3, DdlFacts, InitTreeFacts
        <3> QED
            BY <1>1, <2>1, <3>1, PrefixOrder
    <2>4. ASSUME IsPrefix(ZeroCopy, n) PROVE Len(n) <= Len(ZeroCopy) + 5
        <3>1. ZeroCopy \in Path /\ Len(ZeroCopy) \in Nat /\ Len(n) \in Nat /\ Len(p) \in Nat
            BY <1>1, <2>1, InitTreeFacts, PathFacts
        <3>2. IsPrefix(ZeroCopy, p) /\ Len(n) <= Len(p)
            BY <1>1, <2>1, <2>4, <3>1, PrefixOrder
        <3> QED
            BY <1>1, <3>1, <3>2
    <2> QED
        BY <2>2, <2>3, <2>4
<1> QED
    BY <1>2, <1>3 DEF Added

\* A server marks a task as finished.
LEMMA MarkIsAdded ==
    ASSUME CleanInv, command.kind # "create", NEW q \in DOMAIN DdlHosts, NEW h \in DdlHosts[q],
           Append(q, "finished") \in tree, ServerCreates(Finished(q, h))
    PROVE  Added
<1> DEFINE n == Finished(q, h)
<1>1. /\ n \in Path /\ ~HasReplicas(n) /\ n \notin DOMAIN DdlHosts /\ ~IsPrefix(ZeroCopy, n)
      /\ Front(n) = Append(q, "finished")
    BY MarkFacts
<1>2. tree' = tree \cup WithParents(n) /\ fresh' = fresh \cup (WithParents(n) \ tree)
    BY DEF ServerCreates
<1>3. TreeShape(tree) /\ tree \in SUBSET Path /\ PrefixClosed(tree)
    BY DEF CleanInv, TreeInv, TreeShape
<1>4. n # <<>> /\ Len(n) = Len(DdlPath) + 3 /\ Len(DdlPath) \in Nat
    BY FinishedFacts
<1> HIDE DEF n
<1>5. PrefixClosed(tree \cup {n}) /\ tree \cup {n} \in SUBSET Path
    <2>1. Front(n) \in tree /\ Len(n) # Len(DdlPath) + 1
        BY <1>1, <1>4
    <2> QED
        BY <1>1, <1>3, <1>4, <2>1, AddNode DEF TreeShape
<1>6. \A m \in WithParents(n) : m \in tree \cup {n}
    <2> TAKE m \in WithParents(n)
    <2>1. m \in Path /\ m # <<>> /\ IsPrefix(m, n) /\ n \in tree \cup {n}
        BY <1>1, Parents
    <2> QED
        BY <1>5, <2>1, AboveIsThere
<1> QED
    BY <1>1, <1>2, <1>6 DEF Added

\* Every step.
LEMMA StepAdds ==
    ASSUME CleanInv, command.kind # "create", [Next]_vars
    PROVE  Added
<1>1. tree' \subseteq tree /\ fresh' = fresh => Added
    BY DEF Added
<1>2. CASE UNCHANGED vars
    BY <1>1, <1>2 DEF vars, treeVars
<1>3. CASE Deletes
    <2>1. DeleteStep(command.dry)
        BY <1>3 DEF Deletes
    <2>2. tree' \subseteq tree /\ fresh' = fresh
        BY <2>1 DEF DeleteStep, DeleteLists, DeleteListed, DeleteTransaction, DeleteBelow,
                    DeleteSingle, DeleteSingles, DeleteReturns
    <2> QED
        BY <1>1, <2>2
<1>4. CASE \E r \in DOMAIN tasks : DropReplica(r)
    <2>1. PICK r \in DOMAIN tasks : DropReplica(r)
        BY <1>4
    <2> QED
        BY <1>1, <2>1 DEF DropReplica
<1>5. CASE DropOne
    BY <1>1, <1>5 DEF DropOne
<1>6. CASE DdlMark
    <2>1. pc = "ddl_mark" /\ fresh' = fresh
        BY <1>6 DEF DdlMark
    <2>2. ddl.task \in DOMAIN DdlHosts /\ Head(ddl.todo) \in DdlHosts[ddl.task]
        BY <2>1 DEF CleanInv, DdlInv
    <2>3. ~HasReplicas(Mark) /\ ~IsPrefix(ZeroCopy, Mark)
        BY <2>2, MarkFacts DEF Mark
    <2>4. tree' = tree \/ (tree' = tree \cup {Mark} /\ pc' = "ddl" /\ Front(Mark) \in tree)
        BY <1>6 DEF DdlMark, Mark
    <2> QED
        BY <2>1, <2>3, <2>4 DEF Added
<1>7. CASE Server
    <2>1. CASE \E p \in ServerLocks \ tree : ServerCreates(p)
        BY <2>1, LockIsAdded
    <2>2. CASE \E p \in ServerDrops : ServerDeletes(p)
        BY <1>1, <2>2 DEF ServerDeletes
    <2>3. CASE \E q \in DOMAIN DdlHosts : \E h \in DdlHosts[q] :
                   Append(q, "finished") \in tree /\ ServerCreates(Finished(q, h))
        BY <2>3, MarkIsAdded
    <2> QED
        BY <1>7, <2>1, <2>2, <2>3 DEF Server
<1>8. CASE Inspect \/ Collect \/ Dropped \/ SharedIdRead
    BY <1>1, <1>8 DEF Inspect, Collect, Dropped, SharedIdRead, treeVars
<1>9. CASE DdlList \/ DdlNext \/ DdlLook \/ DdlWait \/ DdlDeleted
    BY <1>1, <1>9 DEF DdlList, DdlNext, DdlLook, DdlWait, DdlDeleted, treeVars
<1>10. CASE CleanLocks \/ WalkVisit \/ WalkLeave \/ WalkDeleted \/ WalkEnds
    BY <1>1, <1>10 DEF CleanLocks, WalkVisit, WalkLeave, WalkDeleted, WalkEnds
<1>11. CASE FindPaths \/ PathsFound \/ Deleted
    BY <1>1, <1>11 DEF FindPaths, PathsFound, Deleted, treeVars
<1>12. CASE ZooKeeperReplies \/ CommandFails \/ Rerun
    BY <1>1, <1>12 DEF ZooKeeperReplies, CommandFails, Rerun, treeVars
<1> QED
    BY <1>2, <1>3, <1>4, <1>5, <1>6, <1>7, <1>8, <1>9, <1>10, <1>11, <1>12 DEF Next, CommandStep

\* A node that is left was left before, but for a mark of the command.
LEMMA RestShrinks ==
    ASSUME Added, NEW n \in Rest'
    PROVE  \/ n \in Rest
           \/ pc = "ddl_mark" /\ pc' = "ddl" /\ n = Mark /\ Front(n) \in tree /\ n \in InitTree
BY DEF Rest, Added

\* Nothing is added to an object.
LEMMA ReplicasShrink ==
    ASSUME Added, NEW n, HasReplicas(n), n \in tree'
    PROVE  n \in tree
BY DEF Added

\* NewInv holds at first, and every step keeps it.
LEMMA NewKeeps ==
    ASSUME NewInv, command' = command, command.kind # "create" => Added
    PROVE  NewInv'
<1> SUFFICES ASSUME command.kind # "create"
             PROVE  /\ \A n \in fresh' : n \notin DOMAIN DdlHosts
                    /\ \A n \in tree' \ InitTree :
                          IsPrefix(ZeroCopy, n) => Len(n) <= Len(ZeroCopy) + 5
    BY DEF NewInv
<1> QED
    BY DEF NewInv, Added

---------------------------------------------------------------------------
(* The steps by what they work at *)

Off == UNCHANGED <<del, command, pc, inspector, objects, tasks, ddl, walk, whose>>

ObjectStep ==
    Inspect \/ ZooKeeperReplies \/ Collect \/ (\E r \in DOMAIN tasks : DropReplica(r)) \/ Dropped

ReplicaStep == DropOne \/ SharedIdRead

DdlStep == DdlList \/ DdlNext \/ DdlLook \/ DdlMark \/ DdlWait \/ DdlDeleted

WalkStep ==
    CleanLocks \/ WalkVisit \/ WalkLeave \/ WalkDeleted \/ WalkEnds \/ FindPaths \/ PathsFound

\* Where each of them starts and ends, and what it leaves alone.
LEMMA ObjectStepFacts ==
    ObjectStep => /\ pc \in {"inspect", "collect", "drop"}
                  /\ pc' \in {"inspect", "collect", "drop", "ddl_list", "locks", "failed"}
                  /\ UNCHANGED <<del, command, ddl, walk, whose, env>>
<1> SUFFICES ASSUME ObjectStep
             PROVE  /\ pc \in {"inspect", "collect", "drop"}
                    /\ pc' \in {"inspect", "collect", "drop", "ddl_list", "locks", "failed"}
                    /\ UNCHANGED <<del, command, ddl, walk, whose, env>>
    OBVIOUS
<1>1. CASE Inspect
    BY <1>1 DEF Inspect, treeVars
<1>2. CASE ZooKeeperReplies
    BY <1>2 DEF ZooKeeperReplies, treeVars
<1>3. CASE Collect
    BY <1>3 DEF Collect, treeVars
<1>4. CASE \E r \in DOMAIN tasks : DropReplica(r)
    BY <1>4 DEF DropReplica
<1>5. CASE Dropped
    BY <1>5 DEF Dropped, treeVars
<1> QED
    BY <1>1, <1>2, <1>3, <1>4, <1>5 DEF ObjectStep

\* The query of replica drop.
LEMMA ReplicaStepFacts ==
    ReplicaStep => /\ pc \in {"replica", "shared_id"} /\ pc' \in {"shared_id", "locks", "failed"}
                   /\ UNCHANGED <<del, command, inspector, objects, tasks, ddl, walk, env>>
BY DEF ReplicaStep, DropOne, SharedIdRead, treeVars

\* The queue of distributed DDL.
LEMMA DdlStepFacts ==
    DdlStep => /\ pc \in {"ddl_list", "ddl", "ddl_mark", "ddl_wait", "ddl_delete"}
               /\ pc' \in {"ddl", "ddl_mark", "ddl_wait", "ddl_delete", "locks", "failed"}
               /\ UNCHANGED <<command, inspector, objects, tasks, walk, whose, env>>
<1> SUFFICES ASSUME DdlStep
             PROVE  /\ pc \in {"ddl_list", "ddl", "ddl_mark", "ddl_wait", "ddl_delete"}
                    /\ pc' \in {"ddl", "ddl_mark", "ddl_wait", "ddl_delete", "locks", "failed"}
                    /\ UNCHANGED <<command, inspector, objects, tasks, walk, whose, env>>
    OBVIOUS
<1>1. CASE DdlList \/ DdlNext \/ DdlLook
    BY <1>1 DEF DdlList, DdlNext, DdlLook, treeVars
<1>2. CASE DdlMark
    BY <1>2 DEF DdlMark
<1>3. CASE DdlWait
    BY <1>3 DEF DdlWait
<1>4. CASE DdlDeleted
    BY <1>4 DEF DdlDeleted
<1> QED
    BY <1>1, <1>2, <1>3, <1>4 DEF DdlStep

\* The walk through the locks.
LEMMA WalkStepFacts ==
    WalkStep => /\ pc \in {"locks", "walk", "walk_delete", "find"}
                /\ pc' \in {"walk", "walk_delete", "find", "delete", "ended"}
                /\ UNCHANGED <<tree, fresh, command, inspector, objects, tasks, ddl, whose, env>>
<1> SUFFICES ASSUME WalkStep
             PROVE  /\ pc \in {"locks", "walk", "walk_delete", "find"}
                    /\ pc' \in {"walk", "walk_delete", "find", "delete", "ended"}
                    /\ UNCHANGED <<tree, fresh, command, inspector, objects, tasks, ddl, whose, env>>
    OBVIOUS
<1>1. CASE CleanLocks
    BY <1>1 DEF CleanLocks
<1>2. CASE WalkVisit
    BY <1>2 DEF WalkVisit, Yield
<1>3. CASE WalkLeave
    BY <1>3 DEF WalkLeave, Yield
<1>4. CASE WalkDeleted \/ WalkEnds
    BY <1>4 DEF WalkDeleted, WalkEnds
<1>5. CASE FindPaths
    BY <1>5 DEF FindPaths, treeVars
<1>6. CASE PathsFound
    BY <1>6 DEF PathsFound
<1> QED
    BY <1>1, <1>2, <1>3, <1>4, <1>5, <1>6 DEF WalkStep

\* The end of a deletion.
LEMMA DeletedFacts ==
    Deleted => /\ pc = "delete" /\ del.phase = "done" /\ pc' \in {"locks", "ended"}
               /\ UNCHANGED <<tree, fresh, command, inspector, objects, tasks, ddl, walk, env>>
BY DEF Deleted

\* A step of a deletion.
LEMMA DeletesFacts ==
    CleanInv /\ Deletes => /\ pc \in DeletePcs
                           /\ UNCHANGED <<command, pc, inspector, objects, tasks, ddl, walk, whose, env>>
<1> SUFFICES ASSUME CleanInv, Deletes
             PROVE  /\ pc \in DeletePcs
                    /\ UNCHANGED <<command, pc, inspector, objects, tasks, ddl, walk, whose, env>>
    OBVIOUS
<1>1. UNCHANGED cleanVars /\ DeleteStep(command.dry)
    BY DEF Deletes
<1>2. del.phase # "none"
    BY <1>1 DEF DeleteStep, DeleteLists, DeleteListed, DeleteTransaction, DeleteBelow,
                DeleteSingle, DeleteSingles, DeleteReturns
<1> QED
    BY <1>1, <1>2, Deleting DEF cleanVars

\* The command fails.
LEMMA FailsFacts ==
    CommandFails => /\ pc' = "failed"
                    /\ UNCHANGED <<tree, fresh, command, inspector, objects, tasks, ddl, walk, whose, env>>
BY DEF CommandFails

\* A step is one of these, or leaves the command alone.
LEMMA StepCases ==
    [Next]_vars => \/ Off \/ CommandFails \/ Rerun \/ ObjectStep \/ ReplicaStep \/ DdlStep
                   \/ WalkStep \/ Deletes \/ Deleted
<1> SUFFICES ASSUME [Next]_vars
             PROVE  \/ Off \/ CommandFails \/ Rerun \/ ObjectStep \/ ReplicaStep \/ DdlStep
                    \/ WalkStep \/ Deletes \/ Deleted
    OBVIOUS
<1>1. CASE UNCHANGED vars
    BY <1>1 DEF vars, treeVars, cleanVars, Off
<1>2. CASE Server
    BY <1>2 DEF Server, Off
<1>3. CASE CommandStep
    BY <1>3 DEF CommandStep, ObjectStep, ReplicaStep, DdlStep, WalkStep
<1>4. CASE ZooKeeperReplies \/ CommandFails \/ Rerun
    BY <1>4 DEF ObjectStep
<1> QED
    BY <1>1, <1>2, <1>3, <1>4 DEF Next

\* The command and its options stay.
LEMMA CommandStays == [Next]_vars => command' = command
<1> SUFFICES ASSUME [Next]_vars PROVE command' = command
    OBVIOUS
<1>1. CASE Off \/ CommandFails \/ Rerun
    BY <1>1 DEF Off, CommandFails, Rerun
<1>2. CASE Deletes
    BY <1>2 DEF Deletes, cleanVars
<1> QED
    BY <1>1, <1>2, StepCases, ObjectStepFacts, ReplicaStepFacts, DdlStepFacts, WalkStepFacts,
       DeletedFacts

---------------------------------------------------------------------------
(* Whose locks are left, and the task at hand *)

DropPcs == {"inspect", "collect", "drop", "ddl_list", "ddl", "ddl_mark", "ddl_wait", "ddl_delete"}

TablesLeft ==
    /\ command.kind = "locks" => whose.table = command.table
    /\ command.kind = "drop" =>
          IF command.table = "" THEN whose.table \in {"", TableUuid[command.root]}
          ELSE whose.table = command.table

\* Nothing is said about the hosts before the locks are cleaned up.
HostsLeft == pc \in DropPcs => whose.hosts = command.hosts

TaskAtHand == pc \in {"ddl", "ddl_mark"} /\ ddl.todo # <<>> => ddl.task \in Items(ddl.remove)

\* The parts of TodoInv.
LEMMA TodoIs == TodoInv <=> TablesLeft /\ HostsLeft /\ TaskAtHand
BY DEF TodoInv, TablesLeft, HostsLeft, TaskAtHand, DropPcs

\* The hosts and the table.
LEMMA WhoseKeeps ==
    ASSUME CleanInv, TablesLeft, HostsLeft, [Next]_vars
    PROVE  TablesLeft' /\ HostsLeft'
<1>1. command' = command
    BY CommandStays
<1>2. ASSUME whose' = whose, pc' \in DropPcs => pc \in DropPcs PROVE TablesLeft' /\ HostsLeft'
    BY <1>1, <1>2 DEF TablesLeft, HostsLeft
<1>3. CASE Off
    BY <1>2, <1>3 DEF Off
<1>4. CASE CommandFails
    BY <1>2, <1>4, FailsFacts DEF DropPcs
<1>5. CASE Rerun
    <2>1. whose' = [hosts |-> command.hosts, table |-> command.table]
        BY <1>5 DEF Rerun, Begun
    <2>2. whose'.hosts = command'.hosts /\ whose'.table = command'.table
        BY <1>1, <2>1
    <2> QED
        BY <2>2 DEF TablesLeft, HostsLeft
<1>6. CASE ObjectStep
    BY <1>2, <1>6, ObjectStepFacts DEF DropPcs
<1>7. CASE DropOne
    BY <1>2, <1>7 DEF DropOne, DropPcs
<1>8. CASE SharedIdRead
    <2>1. whose = [hosts |-> whose.hosts, table |-> whose.table]
        BY DEF CleanInv, WhoseInv
    <2>2. command.kind = "drop" /\ pc' = "locks"
        BY <1>8 DEF SharedIdRead, CleanInv, Control
    <2>3. whose'.table = IF whose.table # "" THEN whose.table
                         ELSE IF Append(command.root, "table_shared_id") \in tree
                         THEN TableUuid[command.root] ELSE ""
        BY <1>8, <2>1 DEF SharedIdRead
    <2>4. IF command.table = "" THEN whose'.table \in {"", TableUuid[command.root]}
          ELSE whose'.table = command.table
        BY <2>2, <2>3 DEF TablesLeft
    <2> QED
        BY <1>1, <2>2, <2>4 DEF TablesLeft, HostsLeft, DropPcs
<1>9. CASE DdlStep
    BY <1>2, <1>9, DdlStepFacts DEF DropPcs
<1>10. CASE WalkStep
    BY <1>2, <1>10, WalkStepFacts DEF DropPcs
<1>11. CASE Deletes
    BY <1>2, <1>11, DeletesFacts
<1>12. CASE Deleted
    <2>1. whose = [hosts |-> whose.hosts, table |-> whose.table]
        BY DEF CleanInv, WhoseInv
    <2>2. whose'.table = whose.table /\ pc' \notin DropPcs
        BY <1>12, <2>1 DEF Deleted, DropPcs
    <2> QED
        BY <1>1, <2>2 DEF TablesLeft, HostsLeft
<1> QED
    BY <1>3, <1>4, <1>5, <1>6, <1>7, <1>8, <1>9, <1>10, <1>11, <1>12, StepCases DEF ReplicaStep

\* The task at hand is to be removed.
LEMMA TaskKeeps ==
    ASSUME CleanInv, TaskAtHand, [Next]_vars
    PROVE  TaskAtHand'
<1>1. pc' \notin {"ddl", "ddl_mark"} => TaskAtHand'
    BY DEF TaskAtHand
<1>2. ASSUME ddl' = ddl, pc' \in {"ddl", "ddl_mark"} => pc \in {"ddl", "ddl_mark"} PROVE TaskAtHand'
    BY <1>2 DEF TaskAtHand
<1>3. /\ ddl = [queue |-> ddl.queue, todo |-> ddl.todo, task |-> ddl.task,
                remove |-> ddl.remove, polls |-> ddl.polls]
      /\ ddl.todo \in Seq(STRING) /\ ddl.queue \in Seq(DOMAIN DdlHosts) /\ ddl.remove \in Seq(Path)
    <2>1. ddl.remove \in Seq(Going) /\ Going \subseteq Path
        BY DdlShape DEF Going
    <2> QED
        BY <2>1, DdlShape, SeqGrows
<1>4. CASE DdlStep
    <2>1. CASE DdlList
        <3>1. ddl'.todo = <<>>
            BY <2>1 DEF DdlList, NoDdl
        <3> QED
            BY <3>1 DEF TaskAtHand
    <2>2. CASE DdlNext
        <3>1. CASE ddl.queue = <<>>
            BY <1>1, <2>2, <3>1 DEF DdlNext
        <3>2. CASE ddl.queue # <<>>
            <4> DEFINE q == Head(ddl.queue)
                       named == q \in tree /\ DdlHosts[q] \cap Removed # {}
            <4>1. ddl' = [ddl EXCEPT !.queue = Tail(ddl.queue), !.task = q,
                              !.todo = IF named THEN command.hosts ELSE <<>>,
                              !.remove = IF named THEN Append(ddl.remove, q) ELSE ddl.remove]
                BY <2>2, <3>2 DEF DdlNext
            <4>2. q \in DOMAIN DdlHosts
                BY <1>3, <3>2, HeadTailProperties
            <4>3. q \in Path
                BY <4>2, DdlFacts
            <4> HIDE DEF q, named
            <4>4. /\ ddl'.task = q /\ ddl'.todo = (IF named THEN command.hosts ELSE <<>>)
                  /\ ddl'.remove = (IF named THEN Append(ddl.remove, q) ELSE ddl.remove)
                BY <1>3, <4>1
            <4>5. Items(Append(ddl.remove, q)) = Items(ddl.remove) \cup {q}
                BY <1>3, <4>3, ItemsOf
            <4> QED
                BY <4>4, <4>5 DEF TaskAtHand
        <3> QED
            BY <3>1, <3>2
    <2>3. CASE DdlLook
        <3>1. CASE ddl' = ddl
            BY <1>2, <2>3, <3>1 DEF DdlLook
        <3>2. CASE ddl' = [ddl EXCEPT !.todo = Tail(ddl.todo)] /\ pc' = pc /\ ddl.todo # <<>>
            <4>1. ddl'.task = ddl.task /\ ddl'.remove = ddl.remove
                BY <1>3, <3>2
            <4> QED
                BY <2>3, <3>2, <4>1 DEF TaskAtHand
        <3> QED
            BY <2>3, <3>1, <3>2 DEF DdlLook
    <2>4. CASE DdlMark
        <3>1. pc = "ddl_mark" /\ ddl.todo # <<>>
            BY <2>4 DEF DdlMark, CleanInv, DdlInv
        <3>2. CASE pc' = "failed"
            BY <1>1, <3>2
        <3>3. CASE ddl' = [ddl EXCEPT !.todo = Tail(ddl.todo)]
            <4>1. ddl'.task = ddl.task /\ ddl'.remove = ddl.remove
                BY <1>3, <3>3
            <4> QED
                BY <3>1, <4>1 DEF TaskAtHand
        <3> QED
            BY <2>4, <3>2, <3>3 DEF DdlMark
    <2>5. CASE DdlWait
        <3>1. pc' \notin {"ddl", "ddl_mark"}
            BY <2>5 DEF DdlWait
        <3> QED
            BY <1>1, <3>1
    <2>6. CASE DdlDeleted
        BY <1>1, <2>6 DEF DdlDeleted
    <2> QED
        BY <1>4, <2>1, <2>2, <2>3, <2>4, <2>5, <2>6 DEF DdlStep
<1>5. CASE Off
    BY <1>2, <1>5 DEF Off
<1>6. CASE CommandFails
    BY <1>1, <1>6, FailsFacts
<1>7. CASE Rerun
    <2>1. ddl'.todo = <<>>
        BY <1>7 DEF Rerun, NoDdl
    <2> QED
        BY <2>1 DEF TaskAtHand
<1>8. CASE ObjectStep
    BY <1>1, <1>8, ObjectStepFacts
<1>9. CASE ReplicaStep
    BY <1>1, <1>9, ReplicaStepFacts
<1>10. CASE WalkStep
    BY <1>1, <1>10, WalkStepFacts
<1>11. CASE Deletes
    BY <1>2, <1>11, DeletesFacts
<1>12. CASE Deleted
    BY <1>1, <1>12, DeletedFacts
<1> QED
    BY <1>4, <1>5, <1>6, <1>7, <1>8, <1>9, <1>10, <1>11, <1>12, StepCases

\* TodoInv is kept.
LEMMA TodoKeeps ==
    ASSUME CleanInv, TodoInv, [Next]_vars
    PROVE  TodoInv'
<1>1. TablesLeft /\ HostsLeft /\ TaskAtHand
    BY TodoIs
<1>2. TablesLeft' /\ HostsLeft' /\ TaskAtHand'
    BY <1>1, WhoseKeeps, TaskKeeps
<1> QED
    BY <1>2 DEF TodoInv, TablesLeft, HostsLeft, TaskAtHand, DropPcs

---------------------------------------------------------------------------
(* What the clean-up deletes node by node lies outside of objects *)

\* A deletion goes down from where it started.
LEMMA DeletionStaysIn ==
    ASSUME NEW S \in SUBSET Path, \A p \in S, c \in Path : IsPrefix(p, c) => c \in S,
           DelIn(del, S), NEW dry, DeleteStep(dry), tree \in SUBSET Path, IsFiniteSet(tree)
    PROVE  DelIn(del', S)
<1>1. /\ del.queue \in Seq(S) /\ del.nodes \in Seq(S) /\ del.chunk \in Seq(S)
      /\ del \in [phase : Phases, queue : Seq(S), nodes : Seq(S), chunk : Seq(S)]
      /\ {"list", "delete", "single", "last", "done"} \subseteq Phases
    BY DEF DelIn, Phases
<1>2. CASE DeleteLists
    <2> DEFINE q == Head(del.queue)
               more == SetToSeq(Children(tree, q))
    <2>1. q \in S /\ Tail(del.queue) \in Seq(S)
        BY <1>1, <1>2, HeadTailProperties DEF DeleteLists
    <2>2. IsFiniteSet(Children(tree, q)) /\ Children(tree, q) \in SUBSET S
        BY <2>1, ChildrenFacts
    <2>3. more \in Seq(S)
        BY <2>2, SetToSeqIn
    <2>4. del' = [del EXCEPT !.queue = Tail(del.queue) \o more, !.nodes = Append(del.nodes, q)]
        BY <1>2 DEF DeleteLists
    <2> HIDE DEF q, more
    <2>5. Tail(del.queue) \o more \in Seq(S) /\ Append(del.nodes, q) \in Seq(S)
        BY <1>1, <2>1, <2>3, ConcatProperties, AppendProperties
    <2> QED
        BY <1>1, <2>4, <2>5 DEF DelIn
<1>3. CASE DeleteListed(dry)
    <2>1. Reverse(del.nodes) \in Seq(S)
        BY <1>1, ReverseFacts
    <2>2. del' = [del EXCEPT !.phase = IF dry THEN "done" ELSE "delete", !.nodes = Reverse(del.nodes)]
        BY <1>3 DEF DeleteListed
    <2>3. (IF dry THEN "done" ELSE "delete") \in Phases
        BY <1>1
    <2> QED
        BY <1>1, <2>1, <2>2, <2>3 DEF DelIn
<1>4. CASE DeleteTransaction
    <2> DEFINE k == IF Len(del.nodes) < BatchSize THEN Len(del.nodes) ELSE BatchSize
               chunk == SubSeq(del.nodes, 1, k)
               rest == SubSeq(del.nodes, k + 1, Len(del.nodes))
    <2>1. Len(del.nodes) \in Nat /\ BatchSize \in Nat
        BY <1>1, LenProperties, BatchSizeAssumption
    <2>2. k \in 0..Len(del.nodes)
        BY <2>1
    <2>3. \/ del' = [del EXCEPT !.nodes = rest]
          \/ del' = [del EXCEPT !.nodes = rest, !.chunk = chunk, !.phase = "single"]
        BY <1>4 DEF DeleteTransaction
    <2> HIDE DEF k
    <2>4. chunk \in Seq(S) /\ rest \in Seq(S)
        BY <1>1, <2>2, ItemsCut
    <2> HIDE DEF chunk, rest
    <2> QED
        BY <1>1, <2>3, <2>4 DEF DelIn
<1>5. CASE DeleteBelow \/ DeleteSingles \/ DeleteReturns
    BY <1>1, <1>5 DEF DeleteBelow, DeleteSingles, DeleteReturns, DelIn
<1>6. CASE DeleteSingle
    <2>1. CASE del.chunk = <<>>
        <3>1. Tail(del.chunk) = <<>>
            BY <2>1
        <3> QED
            BY <1>1, <1>6, <2>1, <3>1 DEF DeleteSingle, DelIn
    <2>2. CASE del.chunk # <<>>
        <3>1. Tail(del.chunk) \in Seq(S)
            BY <1>1, <2>2, HeadTailProperties
        <3> QED
            BY <1>1, <1>6, <3>1 DEF DeleteSingle, DelIn
    <2> QED
        BY <2>1, <2>2
<1> QED
    BY <1>2, <1>3, <1>4, <1>5, <1>6 DEF DeleteStep

\* The start of a deletion, and its end.
LEMMA DeletionStartsIn ==
    ASSUME NEW S \in SUBSET Path
    PROVE  /\ \A paths \in SUBSET S : IsFiniteSet(paths) =>
                 \A d \in StartedDelete(paths) : DelIn(d, S)
           /\ DelIn(NoDelete, S)
<1>1. ASSUME NEW paths \in SUBSET S, IsFiniteSet(paths), NEW d \in StartedDelete(paths)
      PROVE  DelIn(d, S)
    BY <1>1, StartedFacts DEF DelShape, DelIn
<1>2. DelIn(NoDelete, S)
    BY NoDeleteFacts DEF DelShape, DelIn
<1> QED
    BY <1>1, <1>2

\* What lies below something outside is outside, too, and holds no replicas.
LEMMA OutsideFacts ==
    /\ Outside \subseteq Path
    /\ \A p \in Outside, c \in Path : IsPrefix(p, c) => c \in Outside
    /\ \A n \in InitTree : HasReplicas(n) => n \notin Outside
    /\ DOMAIN DdlHosts \subseteq Outside
    /\ command \in Commands => \A p \in Path : IsPrefix(LockRoot, p) => p \in Outside
<1>1. ZeroCopy \in Path /\ DdlPath \in Path
    BY InitTreeFacts
<1>2. \A p \in Outside, c \in Path : IsPrefix(p, c) => c \in Outside
    BY <1>1, PrefixOrder DEF Outside
<1>3. \A n \in InitTree : HasReplicas(n) => n \notin Outside
    BY NoReplicasInLocks DEF Outside
<1>4. DOMAIN DdlHosts \subseteq Outside
    BY DdlFacts DEF Outside
<1>5. ASSUME command \in Commands, NEW p \in Path, IsPrefix(LockRoot, p) PROVE p \in Outside
    BY <1>1, <1>5, LockRootFacts, PrefixOrder DEF Outside
<1> QED
    BY <1>2, <1>3, <1>4, <1>5 DEF Outside

\* The found paths stay below the directory of the locks.
LEMMA FoundKeeps ==
    ASSUME CleanInv, OutInv, WalkStep
    PROVE  \A c \in walk'.found : IsPrefix(LockRoot, c)
<1>1. \A c \in walk.found : IsPrefix(LockRoot, c)
    BY DEF OutInv
<1>2. walk = [stack |-> walk.stack, queue |-> walk.queue, found |-> walk.found]
      /\ StackOk(walk.stack) /\ command \in Commands
    BY DEF CleanInv, WalkInv, Control
<1>3. LockRoot \in Path
    BY <1>2, LockRootFacts
<1>4. NoWalk.found = {} /\ NoWalk = [stack |-> <<>>, queue |-> <<>>, found |-> {}]
    BY DEF NoWalk
<1>5. ASSUME NEW s, NEW p, Yield(s, p), IsPrefix(LockRoot, p)
      PROVE  \A c \in walk'.found : IsPrefix(LockRoot, c)
    <2>1. walk'.found \subseteq walk.found \cup {p}
        BY <1>2, <1>5 DEF Yield
    <2> QED
        BY <1>1, <1>5, <2>1
<1>6. CASE CleanLocks
    BY <1>1, <1>4, <1>6 DEF CleanLocks
<1>7. CASE WalkVisit
    <2> DEFINE top == Last(walk.stack)
               child == CHOOSE c \in top.todo : TRUE
               stack == [walk.stack EXCEPT ![Len(walk.stack)].todo = @ \ {child}]
    <2>1. /\ walk.stack # <<>> /\ top.todo # {}
          /\ \/ walk'.found = walk.found
             \/ Yield(stack, child)
        BY <1>2, <1>7 DEF WalkVisit
    <2>2. top \in Frames /\ FrameOk(top, {}) /\ child \in top.todo
        BY <1>2, <2>1, TopFrame
    <2>3. IsPrefix(LockRoot, top.path) /\ top.path \in Path /\ child \in Path /\ IsPrefix(top.path, child)
        BY <2>2, FrameVisits DEF Frames
    <2>4. IsPrefix(LockRoot, child)
        BY <1>3, <2>3, PrefixOrder
    <2> HIDE DEF stack, child
    <2> QED
        BY <1>1, <1>5, <2>1, <2>4
<1>8. CASE WalkLeave
    <2> DEFINE top == Last(walk.stack)
    <2>1. walk.stack # <<>> /\ (walk'.found = walk.found \/ Yield(Front(walk.stack), top.path))
        BY <1>2, <1>8 DEF WalkLeave
    <2>2. IsPrefix(LockRoot, top.path)
        BY <1>2, <2>1, TopFrame DEF Frames
    <2> QED
        BY <1>1, <1>5, <2>1, <2>2
<1>9. CASE WalkDeleted \/ PathsFound
    BY <1>1, <1>9 DEF WalkDeleted, PathsFound
<1>10. CASE WalkEnds
    BY <1>4, <1>10 DEF WalkEnds
<1>11. CASE FindPaths
    <2> DEFINE q == Head(walk.queue)
    <2>1. walk'.found \subseteq walk.found \cup Children(tree, q) /\ walk.queue # <<>>
        BY <1>2, <1>11 DEF FindPaths
    <2>2. q \in Path /\ IsPrefix(LockRoot, q)
        <3>1. walk.queue \in Seq({p \in Path : IsPrefix(LockRoot, p)})
            BY DEF CleanInv, WalkInv
        <3>2. q \in {p \in Path : IsPrefix(LockRoot, p)}
            BY <2>1, <3>1, HeadTailProperties
        <3> QED
            BY <3>2
    <2>3. tree \in SUBSET Path
        BY <1>11 DEF FindPaths, CleanInv, Control, TreeInv, TreeShape, LockKinds
    <2>4. \A c \in Children(tree, q) : c \in Path /\ IsPrefix(q, c)
        BY <2>3, ChildrenFacts
    <2> HIDE DEF q
    <2>5. \A c \in Children(tree, q) : IsPrefix(LockRoot, c)
        BY <1>3, <2>2, <2>4, PrefixOrder
    <2> QED
        BY <1>1, <2>1, <2>5
<1> QED
    BY <1>6, <1>7, <1>8, <1>9, <1>10, <1>11 DEF WalkStep

\* What the clean-up of the locks deletes lies below their directory.
LEMMA WalkDeletes ==
    ASSUME CleanInv, OutInv, WalkStep
    PROVE  \/ del' = del \/ del' = NoDelete
           \/ \E paths \in SUBSET {p \in Path : IsPrefix(LockRoot, p)} :
                 IsFiniteSet(paths) /\ del' \in StartedDelete(paths)
<1> DEFINE B == {p \in Path : IsPrefix(LockRoot, p)}
           Good == \E paths \in SUBSET B : IsFiniteSet(paths) /\ del' \in StartedDelete(paths)
<1>1. walk.found \in SUBSET B /\ IsFiniteSet(walk.found) /\ command \in Commands
      /\ StackOk(walk.stack)
    BY DEF OutInv, CleanInv, WalkInv, Control, Going
<1>2. LockRoot \in Path
    BY <1>1, LockRootFacts
<1>3. ASSUME NEW s, NEW p \in B, Yield(s, p)
      PROVE  del' = del \/ Good
    <2>1. IsFiniteSet(walk.found \cup {p})
        BY <1>1, FS_AddElement
    <2>2. del' = del \/ del' \in StartedDelete(walk.found \cup {p})
        BY <1>3 DEF Yield
    <2> QED
        BY <1>1, <2>1, <2>2
<1>4. LET table == Append(LockRoot, Filter.table) IN {table} \in SUBSET B /\ IsFiniteSet({table})
    <2>1. Filter.table \in Label
        BY FilterTable
    <2>2. Append(LockRoot, Filter.table) \in B
        BY <1>2, <2>1, AppendFacts
    <2> QED
        BY <2>2, FS_Singleton
<1>5. {} \in SUBSET B /\ IsFiniteSet({})
    BY FS_EmptySet
<1>6. CASE CleanLocks
    <2>1. del' = del \/ del' \in StartedDelete(IF Filter.table = "" THEN {}
                                              ELSE {Append(LockRoot, Filter.table)})
        BY <1>6 DEF CleanLocks
    <2> QED
        BY <1>4, <1>5, <2>1, Zenon
<1>7. CASE WalkVisit
    <2> DEFINE top == Last(walk.stack)
               child == CHOOSE c \in top.todo : TRUE
               stack == [walk.stack EXCEPT ![Len(walk.stack)].todo = @ \ {child}]
    <2>1. /\ walk.stack # <<>> /\ top.todo # {}
          /\ del' = del \/ Yield(stack, child)
        BY <1>7 DEF WalkVisit
    <2>2. top \in Frames /\ FrameOk(top, {}) /\ child \in top.todo
        BY <1>1, <2>1, TopFrame
    <2>3. IsPrefix(LockRoot, top.path) /\ top.path \in Path /\ child \in Path /\ IsPrefix(top.path, child)
        BY <2>2, FrameVisits DEF Frames
    <2>4. child \in B
        BY <1>2, <2>3, PrefixOrder
    <2> HIDE DEF stack, child
    <2> QED
        BY <1>3, <2>1, <2>4
<1>8. CASE WalkLeave
    <2> DEFINE top == Last(walk.stack)
    <2>1. walk.stack # <<>> /\ (del' = del \/ Yield(Front(walk.stack), top.path))
        BY <1>8 DEF WalkLeave
    <2>2. top.path \in B
        BY <1>1, <2>1, TopFrame DEF Frames
    <2> QED
        BY <1>3, <2>1, <2>2
<1>9. CASE WalkDeleted
    BY <1>9 DEF WalkDeleted
<1>10. CASE WalkEnds
    BY <1>1, <1>10 DEF WalkEnds
<1>11. CASE FindPaths
    BY <1>11 DEF FindPaths, treeVars
<1>12. CASE PathsFound
    <2>1. del' = del \/ del' \in StartedDelete({Append(LockRoot, Filter.table)})
          \/ del' \in StartedDelete(walk.found)
        BY <1>12 DEF PathsFound
    <2> QED
        BY <1>1, <1>4, <2>1
<1> QED
    BY <1>6, <1>7, <1>8, <1>9, <1>10, <1>11, <1>12 DEF WalkStep

\* The tasks that are to be removed are those of the queue.
LEMMA RemoveKeeps ==
    ASSUME CleanInv, Items(ddl.remove) \subseteq DOMAIN DdlHosts, [Next]_vars
    PROVE  Items(ddl'.remove) \subseteq DOMAIN DdlHosts
<1>1. /\ ddl = [queue |-> ddl.queue, todo |-> ddl.todo, task |-> ddl.task,
                remove |-> ddl.remove, polls |-> ddl.polls]
      /\ ddl.queue \in Seq(DOMAIN DdlHosts) /\ ddl.remove \in Seq(Path)
    <2>1. ddl.remove \in Seq(Going) /\ Going \subseteq Path
        BY DdlShape DEF Going
    <2> QED
        BY <2>1, DdlShape, SeqGrows
<1>2. ddl'.remove = ddl.remove => Items(ddl'.remove) \subseteq DOMAIN DdlHosts
    OBVIOUS
<1>3. ASSUME ddl'.remove = <<>> PROVE Items(ddl'.remove) \subseteq DOMAIN DdlHosts
    <2>1. <<>> \in Seq(Path)
        BY EmptySeq
    <2>2. Items(<<>>) = {}
        BY <2>1, ItemsOf
    <2> QED
        BY <1>3, <2>2
<1>4. CASE DdlList \/ Rerun
    BY <1>3, <1>4 DEF DdlList, Rerun, NoDdl
<1>5. CASE DdlNext
    <2> DEFINE q == Head(ddl.queue)
               named == q \in tree /\ DdlHosts[q] \cap Removed # {}
    <2>1. CASE ddl' = ddl
        BY <1>2, <2>1
    <2>2. CASE ddl.queue # <<>> /\ ddl' # ddl
        <3>1. ddl' = [ddl EXCEPT !.queue = Tail(ddl.queue), !.task = q,
                          !.todo = IF named THEN command.hosts ELSE <<>>,
                          !.remove = IF named THEN Append(ddl.remove, q) ELSE ddl.remove]
            BY <1>5, <2>2 DEF DdlNext
        <3>2. q \in DOMAIN DdlHosts
            BY <1>1, <2>2, HeadTailProperties
        <3>3. q \in Path
            BY <3>2, DdlFacts
        <3> HIDE DEF q, named
        <3>4. ddl'.remove = (IF named THEN Append(ddl.remove, q) ELSE ddl.remove)
            BY <1>1, <3>1
        <3>5. Items(Append(ddl.remove, q)) = Items(ddl.remove) \cup {q}
            BY <1>1, <3>3, ItemsOf
        <3> QED
            BY <3>2, <3>4, <3>5
    <2> QED
        BY <1>5, <2>1, <2>2 DEF DdlNext
<1>6. CASE DdlLook \/ DdlMark
    <2>1. ddl' = ddl \/ ddl' = [ddl EXCEPT !.todo = Tail(ddl.todo)]
        BY <1>6 DEF DdlLook, DdlMark
    <2>2. ddl'.remove = ddl.remove
        BY <1>1, <2>1
    <2> QED
        BY <1>2, <2>2
<1>7. CASE DdlWait
    <2> DEFINE n == IF Len(ddl.remove) < DdlChunk THEN Len(ddl.remove) ELSE DdlChunk
               rest == SubSeq(ddl.remove, n + 1, Len(ddl.remove))
               more == ddl.polls + 1
    <2>1. \/ ddl' = ddl
          \/ ddl' = [ddl EXCEPT !.remove = rest, !.polls = 0]
          \/ ddl' = [ddl EXCEPT !.polls = more]
        BY <1>7 DEF DdlWait
    <2>2. n \in 0..Len(ddl.remove)
        <3>1. Len(ddl.remove) \in Nat /\ DdlChunk \in Nat
            BY <1>1, LenProperties, LimitsAssumption
        <3> QED
            BY <3>1
    <2> HIDE DEF n, more
    <2>3. Items(rest) \subseteq Items(ddl.remove)
        BY <1>1, <2>2, ItemsCut
    <2> HIDE DEF rest
    <2>4. ddl'.remove = ddl.remove \/ ddl'.remove = rest
        BY <1>1, <2>1
    <2> QED
        BY <2>3, <2>4
<1>8. CASE DdlDeleted
    BY <1>2, <1>8 DEF DdlDeleted
<1>9. CASE Off \/ CommandFails \/ ObjectStep \/ ReplicaStep \/ WalkStep \/ Deletes \/ Deleted
    <2>1. ddl' = ddl
        BY <1>9, FailsFacts, ObjectStepFacts, ReplicaStepFacts, WalkStepFacts, DeletesFacts,
           DeletedFacts DEF Off
    <2> QED
        BY <1>2, <2>1
<1> QED
    BY <1>4, <1>5, <1>6, <1>7, <1>8, <1>9, StepCases DEF DdlStep

\* The tasks of a chunk are a part of those to be removed.
LEMMA ChunkFacts ==
    ASSUME CleanInv
    PROVE  LET n == IF Len(ddl.remove) < DdlChunk THEN Len(ddl.remove) ELSE DdlChunk
               chunk == {ddl.remove[k] : k \in 1..n}
               rest == SubSeq(ddl.remove, n + 1, Len(ddl.remove))
           IN  /\ chunk \subseteq Items(ddl.remove) /\ IsFiniteSet(chunk)
               /\ Items(ddl.remove) = chunk \cup Items(rest) /\ chunk \in SUBSET Path
               /\ chunk = {} => Items(ddl.remove) = {}
<1> DEFINE n == IF Len(ddl.remove) < DdlChunk THEN Len(ddl.remove) ELSE DdlChunk
           chunk == {ddl.remove[k] : k \in 1..n}
           rest == SubSeq(ddl.remove, n + 1, Len(ddl.remove))
           first == SubSeq(ddl.remove, 1, n)
<1>1. ddl.remove \in Seq(Path)
    <2>1. ddl.remove \in Seq(Going) /\ Going \subseteq Path
        BY DdlShape DEF Going
    <2> QED
        BY <2>1, SeqGrows
<1>2. Len(ddl.remove) \in Nat /\ DdlChunk \in Nat \ {0}
    BY <1>1, LenProperties, LimitsAssumption
<1>3. n \in 0..Len(ddl.remove) /\ n \in Nat /\ (n = 0 => Len(ddl.remove) = 0)
    BY <1>2
<1> HIDE DEF n
<1>4. Items(ddl.remove) = Items(first) \cup Items(rest) /\ first \in Seq(Path) /\ Len(first) = n
    BY <1>1, <1>3, ItemsCut
<1>5. \A k \in 1..n : first[k] = ddl.remove[k]
    <2>1. \A k \in 1..n : ddl.remove[k] \in Path
        BY <1>1, <1>2, <1>3, ElementOfSeq
    <2>2. \A k \in 1..n : 1 + k - 1 = k
        BY <1>3
    <2>3. n \in Int /\ 1 \in Int /\ (IF 1 <= n THEN n - 1 + 1 ELSE 0) = n
        BY <1>3
    <2> QED
        BY <2>1, <2>2, <2>3, SubSeqProperties
<1> HIDE DEF first, rest
<1>6. chunk = Items(first)
    BY <1>4, <1>5 DEF Items
<1>7. IsFiniteSet(chunk)
    <2>1. IsFiniteSet(1..n)
        BY <1>3, FS_Interval
    <2> DEFINE f == [k \in 1..n |-> ddl.remove[k]]
    <2>2. f \in Surjection(1..n, chunk)
        BY DEF Surjection
    <2> HIDE DEF chunk, f
    <2> QED
        BY <2>1, <2>2, FS_Surjection
<1>8. chunk = {} => Items(ddl.remove) = {}
    <2> SUFFICES ASSUME chunk = {} PROVE Items(ddl.remove) = {}
        OBVIOUS
    <2>1. n = 0
        <3>1. 1 \notin 1..n
            OBVIOUS
        <3> QED
            BY <1>3, <3>1
    <2> QED
        BY <1>2, <1>3, <2>1 DEF Items
<1>9. Items(first) \subseteq Path
    BY <1>4, ItemsOf
<1> HIDE DEF chunk
<1> QED
    BY <1>4, <1>6, <1>7, <1>8, <1>9 DEF chunk, rest, n

\* OutInv is kept.
LEMMA OutKeeps ==
    ASSUME CleanInv, OutInv, command.kind # "create", [Next]_vars
    PROVE  OutInv'
<1>1. command' = command /\ LockRoot' = LockRoot
    BY CommandStays, SameNames
<1>2. Items(ddl'.remove) \subseteq DOMAIN DdlHosts
    BY RemoveKeeps DEF OutInv
<1>3. \A c \in walk'.found : IsPrefix(LockRoot, c)
    <2>1. CASE WalkStep
        BY <2>1, FoundKeeps
    <2>2. CASE Rerun
        <3>1. walk'.found = {}
            BY <2>2 DEF Rerun, NoWalk
        <3> QED
            BY <3>1
    <2>3. CASE Off \/ CommandFails \/ ObjectStep \/ ReplicaStep \/ DdlStep \/ Deletes \/ Deleted
        <3>1. walk' = walk
            BY <2>3, FailsFacts, ObjectStepFacts, ReplicaStepFacts, DdlStepFacts, DeletesFacts,
               DeletedFacts DEF Off
        <3> QED
            BY <3>1 DEF OutInv
    <2> QED
        BY <2>1, <2>2, <2>3, StepCases
<1>4. ASSUME command.kind \in HostKinds \cup {"drop"}
      PROVE  DelIn(del', Outside)
    <2>1. DelIn(del, Outside) /\ Outside \in SUBSET Path /\ DelIn(NoDelete, Outside)
        BY <1>4, OutsideFacts, DeletionStartsIn DEF OutInv
    <2>2. \A paths \in SUBSET Outside : IsFiniteSet(paths) =>
              \A d \in StartedDelete(paths) : DelIn(d, Outside)
        BY <2>1, DeletionStartsIn
    <2>3. CASE Off \/ ObjectStep \/ ReplicaStep
        BY <2>1, <2>3, ObjectStepFacts, ReplicaStepFacts DEF Off
    <2>4. CASE CommandFails \/ Deleted
        BY <2>1, <2>4 DEF CommandFails, Deleted
    <2>5. CASE Rerun
        <3>1. del' = NoDelete
            BY <1>4, <2>5 DEF Rerun, Begun, HostKinds
        <3> QED
            BY <2>1, <3>1
    <2>6. CASE DdlStep
        <3>1. CASE DdlWait
            <4> DEFINE n == IF Len(ddl.remove) < DdlChunk THEN Len(ddl.remove) ELSE DdlChunk
                       chunk == {ddl.remove[k] : k \in 1..n}
            <4>1. del' = del \/ del' \in StartedDelete(chunk)
                BY <3>1 DEF DdlWait
            <4>2. chunk \in SUBSET Outside /\ IsFiniteSet(chunk)
                BY ChunkFacts, OutsideFacts DEF OutInv
            <4> HIDE DEF chunk
            <4> QED
                BY <2>1, <2>2, <4>1, <4>2
        <3>2. CASE DdlDeleted
            BY <2>1, <3>2 DEF DdlDeleted
        <3>3. CASE DdlList \/ DdlNext \/ DdlLook \/ DdlMark
            BY <2>1, <3>3 DEF DdlList, DdlNext, DdlLook, DdlMark, treeVars
        <3> QED
            BY <2>6, <3>1, <3>2, <3>3 DEF DdlStep
    <2>7. CASE WalkStep
        <3>1. command \in Commands
            BY DEF CleanInv, Control
        <3>2. {p \in Path : IsPrefix(LockRoot, p)} \subseteq Outside
            BY <3>1, OutsideFacts
        <3> QED
            BY <2>1, <2>2, <2>7, <3>2, WalkDeletes
    <2>8. CASE Deletes
        <3>1. tree \in SUBSET Path /\ IsFiniteSet(tree)
            BY DEF CleanInv, TreeInv, TreeShape
        <3>2. DeleteStep(command.dry)
            BY <2>8 DEF Deletes
        <3>3. \A p \in Outside, c \in Path : IsPrefix(p, c) => c \in Outside
            BY OutsideFacts
        <3> QED
            BY <2>1, <3>1, <3>2, <3>3, DeletionStaysIn
    <2> QED
        BY <2>3, <2>4, <2>5, <2>6, <2>7, <2>8, StepCases
<1>5. ZeroCopy' = ZeroCopy /\ Outside' = Outside
    BY DEF Outside
<1> QED
    BY <1>1, <1>2, <1>3, <1>4, <1>5 DEF OutInv, DelIn

---------------------------------------------------------------------------
(* delete, and the node of replica drop *)

\* What is left to delete is deleted, or still left.
LEMMA DeletesCover ==
    ASSUME CleanInv, ~command.dry, Deletes, NEW n \in tree, n \in tree', DelCovers(del, n)
    PROVE  DelCovers(del', n)
<1>1. DeleteStep(command.dry)
    BY DEF Deletes
<1>2. command.dry = FALSE
    <2>1. command \in Command
        BY CommandsAssumption DEF CleanInv, Control
    <2>2. command.dry \in BOOLEAN
        BY <2>1 DEF Command
    <2> QED
        BY <2>2
<1>3. DeleteStep(FALSE)
    BY <1>1, <1>2
<1>4. del.phase # "none"
    BY <1>3 DEF DeleteStep, DeleteLists, DeleteListed, DeleteTransaction, DeleteBelow,
                DeleteSingle, DeleteSingles, DeleteReturns
<1>5. tree \in SUBSET Path /\ IsFiniteSet(tree) /\ PrefixClosed(tree)
    BY <1>4, Deleting
<1> QED
    BY <1>3, <1>5, DelStates, DeletionCovers

\* A deletion that is done covers nothing.
LEMMA DoneCovers ==
    ASSUME NEW n, del.phase = "done"
    PROVE  ~DelCovers(del, n)
BY DEF DelCovers

\* The nodes below the paths of delete.
LEMMA PathsKeep ==
    ASSUME CleanInv, PathsLeft, ~command.dry, command.kind # "create", Added, [Next]_vars
    PROVE  PathsLeft'
<1>1. command' = command
    BY CommandStays
<1> SUFFICES ASSUME command.kind = "delete", NEW n \in Rest', NEW p \in command.paths, IsPrefix(p, n)
             PROVE  pc' = "failed" \/ (pc' = "delete" /\ DelCovers(del', n))
    BY <1>1 DEF PathsLeft
<1>2. pc \in {"delete", "ended", "failed"}
    BY DEF CleanInv, Control, HostKinds, LockKinds
<1>3. n \in Rest
    BY <1>2, RestShrinks
<1>4. pc = "failed" \/ (pc = "delete" /\ DelCovers(del, n))
    BY <1>3 DEF PathsLeft
<1>5. n \in tree /\ n \in tree' /\ n \in Path
    BY <1>3, InitTreeFacts DEF Rest
<1>6. CASE Off
    BY <1>4, <1>6 DEF Off
<1>7. CASE CommandFails
    BY <1>7, FailsFacts
<1>8. CASE Rerun
    <2>1. command \in Commands
        BY DEF CleanInv, Control
    <2>2. pc' = "delete" /\ del' \in StartedDelete(command.paths)
        BY <1>8, <2>1, StartFacts DEF Rerun, Begun
    <2>3. command.paths \in SUBSET Path /\ IsFiniteSet(command.paths)
        BY <2>1, CommandFacts
    <2> QED
        BY <1>5, <2>2, <2>3, StartCovers
<1>9. CASE Deletes
    <2>1. pc' = pc /\ pc = "delete"
        BY <1>2, <1>9, DeletesFacts DEF DeletePcs
    <2> QED
        BY <1>4, <1>5, <1>9, <2>1, DeletesCover
<1>10. CASE Deleted
    BY <1>4, <1>10, DeletedFacts, DoneCovers
<1>11. ~ObjectStep /\ ~ReplicaStep /\ ~DdlStep /\ ~WalkStep
    BY <1>2, ObjectStepFacts, ReplicaStepFacts, DdlStepFacts, WalkStepFacts
<1> QED
    BY <1>6, <1>7, <1>8, <1>9, <1>10, <1>11, StepCases

\* The node of the replica that replica drop names.
LEMMA ReplicaNodeKeeps ==
    ASSUME CleanInv, ReplicaNodeLeft, ~command.dry, Added, [Next]_vars
    PROVE  ReplicaNodeLeft'
<1>1. command' = command /\ ReplicaNode' = ReplicaNode
    BY CommandStays, SameNames
<1> SUFFICES ASSUME command.kind = "drop", ReplicaNode \in tree'
             PROVE  pc' \in {"replica", "failed"}
    BY <1>1 DEF ReplicaNodeLeft
<1>2. command \in Commands
    BY DEF CleanInv, Control
<1>3. HasReplicas(ReplicaNode) /\ ReplicaNode \in Path /\ IsPrefix(command.root, ReplicaNode)
    BY <1>2, ReplicaNodeFacts
<1>4. ReplicaNode \in tree
    BY <1>3, ReplicasShrink
<1>5. pc \in {"replica", "failed"}
    BY <1>4 DEF ReplicaNodeLeft
<1>6. CASE Off \/ CommandFails
    BY <1>5, <1>6, FailsFacts DEF Off
<1>7. CASE Rerun
    BY <1>2, <1>7, StartFacts DEF Rerun
<1>8. CASE DropOne
    <2> DEFINE gone == IF Children(tree, Front(ReplicaNode)) = {ReplicaNode}
                       THEN command.root ELSE ReplicaNode
    <2>1. pc' = "failed" \/ tree' = tree \ Subtree(tree, gone)
        BY <1>8 DEF DropOne
    <2>2. IsPrefix(gone, ReplicaNode)
        BY <1>3, PrefixOrder
    <2> HIDE DEF gone
    <2>3. ReplicaNode \in Subtree(tree, gone)
        BY <1>4, <2>2 DEF Subtree
    <2> QED
        BY <2>1, <2>3
<1>9. ~SharedIdRead
    BY <1>5 DEF SharedIdRead
<1>10. ~ObjectStep /\ ~DdlStep /\ ~WalkStep /\ ~Deleted /\ ~Deletes
    BY <1>5, ObjectStepFacts, DdlStepFacts, WalkStepFacts, DeletedFacts, DeletesFacts DEF DeletePcs
<1> QED
    BY <1>6, <1>7, <1>8, <1>9, <1>10, StepCases DEF ReplicaStep

---------------------------------------------------------------------------
(* The DDL tasks *)

\* The steps of mark_finished_ddl_query hand a task on.
LEMMA DdlCovers ==
    ASSUME CleanInv, ~command.dry, DdlStep, NEW q \in DOMAIN DdlHosts,
           DdlHosts[q] \cap Removed # {}, NEW n \in Path, n \in tree, IsPrefix(q, n),
           TaskLeft(q, n)
    PROVE  TaskLeft(q, n)'
<1>1. /\ ddl = [queue |-> ddl.queue, todo |-> ddl.todo, task |-> ddl.task,
                remove |-> ddl.remove, polls |-> ddl.polls]
      /\ ddl.queue \in Seq(DOMAIN DdlHosts) /\ ddl.remove \in Seq(Path)
    <2>1. ddl.remove \in Seq(Going) /\ Going \subseteq Path
        BY DdlShape DEF Going
    <2> QED
        BY <2>1, DdlShape, SeqGrows
<1>2. q \in Path /\ q # <<>> /\ q \in Children(InitTree, DdlPath) /\ DdlPath \in Path
      /\ Len(q) = Len(DdlPath) + 1 /\ IsPrefix(DdlPath, q)
    BY DdlFacts, InitTreeFacts, DdlAssumption
<1>3. tree \in SUBSET Path /\ PrefixClosed(tree) /\ IsFiniteSet(tree)
    <2>1. command.kind # "create"
        BY DdlStepFacts DEF CleanInv, Control
    <2> QED
        BY <2>1 DEF CleanInv, TreeInv, TreeShape
<1>4. q \in tree
    BY <1>2, <1>3, AboveIsThere
<1>5. pc' = "failed" => TaskLeft(q, n)'
    BY DEF TaskLeft
<1>6. CASE DdlList
    <2>1. ddl'.queue = SetToSeq(Children(tree, DdlPath)) /\ pc' = "ddl"
        BY <1>6 DEF DdlList, NoDdl
    <2>2. q \in Children(tree, DdlPath) /\ IsFiniteSet(Children(tree, DdlPath))
        BY <1>2, <1>3, <1>4, ChildrenFacts DEF Children
    <2>3. Items(ddl'.queue) = Children(tree, DdlPath)
        BY <2>1, <2>2, ItemsOfSet
    <2> QED
        BY <2>1, <2>2, <2>3 DEF TaskLeft
<1>7. CASE DdlNext
    <2>1. pc = "ddl" /\ (q \in Items(ddl.queue) \/ q \in Items(ddl.remove))
        BY <1>7 DEF DdlNext, TaskLeft
    <2>2. CASE ddl.queue = <<>>
        <3>1. Items(ddl.queue) = {} /\ pc' = "ddl_wait" /\ ddl' = ddl
            BY <1>1, <1>7, <2>2, ItemsOf DEF DdlNext
        <3> QED
            BY <2>1, <3>1 DEF TaskLeft
    <2>3. CASE ddl.queue # <<>>
        <3> DEFINE x == Head(ddl.queue)
                   named == x \in tree /\ DdlHosts[x] \cap Removed # {}
        <3>1. /\ ddl' = [ddl EXCEPT !.queue = Tail(ddl.queue), !.task = x,
                            !.todo = IF named THEN command.hosts ELSE <<>>,
                            !.remove = IF named THEN Append(ddl.remove, x) ELSE ddl.remove]
              /\ pc' = "ddl"
            BY <1>7, <2>1, <2>3 DEF DdlNext
        <3>2. Items(ddl.queue) = {x} \cup Items(Tail(ddl.queue)) /\ x \in DOMAIN DdlHosts
            BY <1>1, <2>3, ItemsOf
        <3>3. x \in Path
            BY <3>2, DdlFacts
        <3>4. x = q => named
            BY <1>4
        <3> HIDE DEF x, named
        <3>5. ddl'.queue = Tail(ddl.queue)
              /\ ddl'.remove = (IF named THEN Append(ddl.remove, x) ELSE ddl.remove)
            BY <1>1, <3>1
        <3>6. Items(Append(ddl.remove, x)) = Items(ddl.remove) \cup {x}
            BY <1>1, <3>3, ItemsOf
        <3>7. q \in Items(ddl'.queue) \/ q \in Items(ddl'.remove)
            BY <2>1, <3>2, <3>4, <3>5, <3>6
        <3> QED
            BY <3>1, <3>7 DEF TaskLeft
    <2> QED
        BY <2>2, <2>3
<1>8. CASE DdlLook \/ DdlMark
    <2>1. \/ pc' = "failed"
          \/ /\ pc' \in {"ddl", "ddl_mark"} /\ pc \in {"ddl", "ddl_mark"}
             /\ ddl' = ddl \/ ddl' = [ddl EXCEPT !.todo = Tail(ddl.todo)]
        BY <1>8 DEF DdlLook, DdlMark
    <2>2. CASE pc' \in {"ddl", "ddl_mark"} /\ pc \in {"ddl", "ddl_mark"}
               /\ (ddl' = ddl \/ ddl' = [ddl EXCEPT !.todo = Tail(ddl.todo)])
        <3>1. ddl'.queue = ddl.queue /\ ddl'.remove = ddl.remove
            BY <1>1, <2>2
        <3> QED
            BY <2>2, <3>1 DEF TaskLeft
    <2> QED
        BY <1>5, <2>1, <2>2
<1>9. CASE DdlWait
    <2> DEFINE k == IF Len(ddl.remove) < DdlChunk THEN Len(ddl.remove) ELSE DdlChunk
               chunk == {ddl.remove[j] : j \in 1..k}
               rest == SubSeq(ddl.remove, k + 1, Len(ddl.remove))
               more == ddl.polls + 1
    <2>1. q \in Items(ddl.remove)
        BY <1>9 DEF DdlWait, TaskLeft
    <2>2. /\ Items(ddl.remove) = chunk \cup Items(rest) /\ chunk \in SUBSET Path
          /\ IsFiniteSet(chunk) /\ (chunk = {} => Items(ddl.remove) = {})
        BY ChunkFacts
    <2>3. \/ chunk = {}
          \/ /\ del' \in StartedDelete(chunk) /\ pc' = "ddl_delete"
             /\ ddl' = [ddl EXCEPT !.remove = rest, !.polls = 0]
          \/ pc' = "ddl_wait" /\ ddl' = [ddl EXCEPT !.polls = more]
        BY <1>9 DEF DdlWait
    <2> HIDE DEF k, chunk, rest, more
    <2>4. CASE del' \in StartedDelete(chunk) /\ pc' = "ddl_delete"
               /\ ddl' = [ddl EXCEPT !.remove = rest, !.polls = 0]
        <3>1. ddl'.remove = rest
            BY <1>1, <2>4
        <3>2. CASE q \in Items(rest)
            BY <2>4, <3>1, <3>2 DEF TaskLeft
        <3>3. CASE q \in chunk
            <4>1. DelCovers(del', n)
                BY <2>2, <2>4, <3>3, StartCovers
            <4> QED
                BY <2>4, <4>1 DEF TaskLeft
        <3> QED
            BY <2>1, <2>2, <3>2, <3>3
    <2>5. CASE pc' = "ddl_wait" /\ ddl' = [ddl EXCEPT !.polls = more]
        <3>1. ddl'.remove = ddl.remove
            BY <1>1, <2>5
        <3> QED
            BY <2>1, <2>5, <3>1 DEF TaskLeft
    <2> QED
        BY <2>1, <2>2, <2>3, <2>4, <2>5
<1>10. CASE DdlDeleted
    <2>1. pc = "ddl_delete" /\ del.phase = "done" /\ pc' = "ddl_wait" /\ ddl' = ddl
        BY <1>10 DEF DdlDeleted
    <2>2. q \in Items(ddl.remove)
        BY <2>1, DoneCovers DEF TaskLeft
    <2> QED
        BY <2>1, <2>2 DEF TaskLeft
<1> QED
    BY <1>6, <1>7, <1>8, <1>9, <1>10 DEF DdlStep

\* The DDL tasks that name a removed host.
LEMMA TasksKeep ==
    ASSUME CleanInv, TasksLeft, TodoInv, ~command.dry, command.kind # "create", Added, [Next]_vars
    PROVE  TasksLeft'
<1>1. command' = command /\ Removed' = Removed
    BY CommandStays, SameNames
<1> SUFFICES ASSUME command.ddl, NEW q \in DOMAIN DdlHosts, DdlHosts[q] \cap Removed # {},
                    NEW n \in Rest', IsPrefix(q, n)
             PROVE  TaskLeft(q, n)'
    BY <1>1 DEF TasksLeft
<1>2. command \in Commands /\ command.kind = "hosts"
    BY OptionsAssumption DEF CleanInv, Control
<1>3. n \in tree' /\ n \in InitTree /\ n \in Path
    BY InitTreeFacts DEF Rest
<1>4. CASE n \notin Rest
    <2>1. pc = "ddl_mark" /\ pc' = "ddl" /\ n = Mark
        BY <1>4, RestShrinks
    <2>2. /\ ddl.todo # <<>> /\ ddl.task \in DOMAIN DdlHosts
          /\ Head(ddl.todo) \in DdlHosts[ddl.task]
        BY <2>1 DEF CleanInv, DdlInv
    <2>3. ddl.task \in Path /\ IsPrefix(ddl.task, n)
        BY <2>1, <2>2, MarkFacts DEF Mark
    <2>4. q \in Path /\ Len(q) = Len(DdlPath) + 1 /\ Len(ddl.task) = Len(DdlPath) + 1
          /\ Len(DdlPath) \in Nat
        BY <2>2, DdlFacts
    <2>5. q = ddl.task
        <3>1. IsPrefix(q, ddl.task)
            BY <1>3, <2>3, <2>4, PrefixOrder
        <3> QED
            BY <2>3, <2>4, <3>1, PrefixOrder
    <2>6. q \in Items(ddl.remove)
        BY <2>1, <2>2, <2>5 DEF TodoInv
    <2>7. DdlMark
        <3>1. pc' # pc /\ pc' # "failed"
            BY <2>1
        <3>2. ~ObjectStep /\ ~ReplicaStep /\ ~WalkStep /\ ~Deleted /\ ~Deletes
            BY <2>1, ObjectStepFacts, ReplicaStepFacts, WalkStepFacts, DeletedFacts, DeletesFacts
               DEF DeletePcs
        <3>3. ~Off /\ ~CommandFails /\ ~Rerun
            BY <2>1, <3>1, FailsFacts DEF Off, Rerun
        <3>4. DdlStep
            BY <3>2, <3>3, StepCases
        <3> QED
            BY <2>1, <3>4 DEF DdlStep, DdlList, DdlNext, DdlLook, DdlWait, DdlDeleted
    <2>8. ddl'.remove = ddl.remove
        <3>1. ddl = [queue |-> ddl.queue, todo |-> ddl.todo, task |-> ddl.task,
                    remove |-> ddl.remove, polls |-> ddl.polls]
            BY DdlShape
        <3>2. ddl' = [ddl EXCEPT !.todo = Tail(ddl.todo)]
            BY <2>1, <2>7 DEF DdlMark
        <3> QED
            BY <3>1, <3>2
    <2> QED
        BY <2>1, <2>6, <2>8 DEF TaskLeft
<1>5. CASE n \in Rest
    <2>1. TaskLeft(q, n) /\ n \in tree
        BY <1>5 DEF TasksLeft, Rest
    <2>2. CASE Off
        BY <2>1, <2>2 DEF Off, TaskLeft
    <2>3. CASE CommandFails
        BY <2>3, FailsFacts DEF TaskLeft
    <2>4. CASE Rerun
        <3>1. pc' = "inspect"
            BY <1>2, <2>4, StartFacts DEF Rerun, HostKinds
        <3> QED
            BY <3>1 DEF TaskLeft
    <2>5. CASE ObjectStep
        <3>1. pc' # "locks"
            BY <1>2, <2>5 DEF ObjectStep, Inspect, ZooKeeperReplies, Collect, DropReplica, Dropped
        <3> QED
            BY <2>5, <3>1, ObjectStepFacts DEF TaskLeft
    <2>6. CASE DdlStep
        BY <1>3, <2>1, <2>6, DdlCovers
    <2>7. CASE Deletes
        <3>1. pc' = pc /\ ddl' = ddl /\ pc \in DeletePcs
            BY <2>7, DeletesFacts
        <3>2. pc = "ddl_delete" /\ (q \in Items(ddl.remove) \/ DelCovers(del, n))
            BY <2>1, <3>1 DEF TaskLeft, DeletePcs
        <3>3. DelCovers(del, n) => DelCovers(del', n)
            BY <1>3, <2>1, <2>7, DeletesCover
        <3> QED
            BY <3>1, <3>2, <3>3 DEF TaskLeft
    <2>8. ~ReplicaStep
        BY <1>2, ReplicaStepFacts DEF CleanInv, Control
    <2>9. ~WalkStep /\ ~Deleted
        BY <2>1, WalkStepFacts, DeletedFacts DEF TaskLeft
    <2> QED
        BY <2>2, <2>3, <2>4, <2>5, <2>6, <2>7, <2>8, <2>9, StepCases
<1> QED
    BY <1>4, <1>5

---------------------------------------------------------------------------
(* The last replica of an object *)

\* The steps that take nodes away.
LEMMA TreeSteps ==
    [Next]_vars => \/ tree \subseteq tree' \/ Deletes \/ DropOne
                   \/ \E r \in DOMAIN tasks : DropReplica(r)
                   \/ \E p \in ServerDrops : ServerDeletes(p)
<1> SUFFICES ASSUME [Next]_vars
             PROVE  \/ tree \subseteq tree' \/ Deletes \/ DropOne
                    \/ \E r \in DOMAIN tasks : DropReplica(r)
                    \/ \E p \in ServerDrops : ServerDeletes(p)
    OBVIOUS
<1>1. CASE UNCHANGED vars
    BY <1>1 DEF vars, treeVars
<1>2. CASE Server
    BY <1>2 DEF Server, ServerCreates
<1>3. CASE Inspect \/ Collect \/ Dropped \/ SharedIdRead
    BY <1>3 DEF Inspect, Collect, Dropped, SharedIdRead, treeVars
<1>4. CASE DdlList \/ DdlNext \/ DdlLook \/ DdlMark \/ DdlWait \/ DdlDeleted
    BY <1>4 DEF DdlList, DdlNext, DdlLook, DdlMark, DdlWait, DdlDeleted, treeVars
<1>5. CASE WalkStep
    BY <1>5, WalkStepFacts
<1>6. CASE Deleted
    BY <1>6, DeletedFacts
<1>7. CASE ZooKeeperReplies \/ CommandFails \/ Rerun
    BY <1>7 DEF ZooKeeperReplies, CommandFails, Rerun, treeVars
<1> QED
    BY <1>1, <1>2, <1>3, <1>4, <1>5, <1>6, <1>7 DEF Next, CommandStep, WalkStep

\* A deletion node by node takes only what it came to.
LEMMA DeletesOutside ==
    ASSUME CleanInv, DelIn(del, Outside), Deletes, NEW x \in tree, x \notin tree'
    PROVE  x \in Outside
<1>1. DeleteStep(command.dry)
    BY DEF Deletes
<1>2. del.phase # "none"
    BY <1>1 DEF DeleteStep, DeleteLists, DeleteListed, DeleteTransaction, DeleteBelow,
                DeleteSingle, DeleteSingles, DeleteReturns
<1>3. tree \in SUBSET Path
    BY <1>2, Deleting
<1>4. del.nodes \in Seq(Outside) /\ del.chunk \in Seq(Outside)
    BY DEF DelIn
<1>5. CASE DeleteTransaction
    <2> DEFINE k == IF Len(del.nodes) < BatchSize THEN Len(del.nodes) ELSE BatchSize
               chunk == SubSeq(del.nodes, 1, k)
    <2>1. Len(del.nodes) \in Nat /\ BatchSize \in Nat
        BY <1>4, LenProperties, BatchSizeAssumption
    <2>2. k \in 0..Len(del.nodes)
        BY <2>1
    <2>3. x \in {chunk[i] : i \in 1..k}
        BY <1>5 DEF DeleteTransaction
    <2> HIDE DEF k
    <2>4. chunk \in Seq(Outside) /\ Len(chunk) = k
        BY <1>4, <2>2, ItemsCut
    <2> HIDE DEF chunk
    <2> QED
        BY <2>3, <2>4, ElementOfSeq
<1>6. CASE DeleteBelow
    <2>1. Head(del.chunk) \in Outside
        BY <1>4, <1>6, HeadTailProperties DEF DeleteBelow
    <2>2. x \in Path /\ IsPrefix(Head(del.chunk), x)
        BY <1>3, <1>6 DEF DeleteBelow, Below, Subtree
    <2> QED
        BY <2>1, <2>2, OutsideFacts
<1>7. CASE DeleteSingle
    <2>1. del.chunk # <<>>
        BY <1>7, DelStates DEF DeleteSingle
    <2>2. Head(del.chunk) \in Outside
        BY <1>4, <2>1, HeadTailProperties
    <2> QED
        BY <1>7, <2>2 DEF DeleteSingle
<1>8. CASE DeleteLists \/ DeleteListed(command.dry) \/ DeleteSingles \/ DeleteReturns
    BY <1>8 DEF DeleteLists, DeleteListed, DeleteSingles, DeleteReturns
<1> QED
    BY <1>1, <1>5, <1>6, <1>7, <1>8 DEF DeleteStep

\* The query that drops a replica leaves another one, or nothing of the object.
LEMMA DropLeaves ==
    ASSUME TreeShape(tree), NEW r \in Path, NEW o2 \in Path, Len(r) = Len(o2) + 2,
           IsPrefix(Append(o2, "replicas"), r), Front(r) = Append(o2, "replicas"),
           NEW gone, gone = IF Children(tree, Front(r)) = {r} THEN o2 ELSE r,
           tree' = tree \ Subtree(tree, gone),
           NEW o \in Objects, NEW r0 \in Replicas(o), r0 \in tree,
           IsPrefix(o2, r0) => IsPrefix(o2, o),
           NEW n \in tree', IsPrefix(o, n)
    PROVE  Replicas(o) \cap tree' # {}
<1>1. /\ tree \in SUBSET Path /\ n \in tree /\ n \in Path /\ o \in Path
      /\ Append(o2, "replicas") \in Path /\ Append(o, "replicas") \in Path
      /\ Len(Append(o2, "replicas")) = Len(o2) + 1 /\ Len(Append(o, "replicas")) = Len(o) + 1
      /\ IsPrefix(o2, Append(o2, "replicas"))
    BY ObjectFacts, BelowReplicas DEF TreeShape
<1>2. /\ r0 \in Path /\ r0 \in InitTree /\ Len(r0) = Len(o) + 2 /\ Len(o) \in Nat
      /\ IsPrefix(Append(o, "replicas"), r0) /\ IsPrefix(o, r0)
    BY <1>1, InitTreeFacts, ReplicaFactsOf DEF Replicas
<1>3. CASE r0 \in tree'
    BY <1>3
<1>4. CASE r0 \notin tree' /\ gone = o2
    <2>1. IsPrefix(o2, r0)
        BY <1>4 DEF Subtree
    <2>2. IsPrefix(o2, n)
        BY <1>1, <2>1, PrefixOrder
    <2> QED
        BY <1>1, <1>4, <2>2 DEF Subtree
<1>5. CASE r0 \notin tree' /\ gone = r /\ Children(tree, Front(r)) # {r}
    <2>1. IsPrefix(r, r0)
        BY <1>5 DEF Subtree
    <2>2. IsPrefix(Append(o2, "replicas"), r0)
        BY <1>1, <1>2, <2>1, PrefixOrder
    <2>3. o2 = o
        BY <1>1, <1>2, <2>2, OneReplicas
    <2>4. r0 = r
        BY <1>2, <2>1, <2>3, PrefixOrder
    <2>5. r \in Children(tree, Front(r))
        <3>1. Len(r) = Len(Front(r)) + 1
            BY <1>1, <1>2, <2>3
        <3> QED
            BY <2>4, <3>1 DEF Children
    <2>6. PICK r1 \in Children(tree, Append(o, "replicas")) : r1 # r
        BY <1>5, <2>3, <2>5
    <2>7. r1 \in Path /\ r1 \in tree /\ Len(r1) = Len(o) + 2 /\ HasReplicas(r1)
          /\ IsPrefix(Append(o, "replicas"), r1)
        <3> HIDE DEF Children
        <3>1. \A x \in Children(tree, Append(o, "replicas")) :
                 /\ x \in Path /\ x \in tree /\ Len(x) = Len(o) + 2 /\ HasReplicas(x)
                 /\ IsPrefix(Append(o, "replicas"), x)
            BY <1>1, ReplicaFactsOf
        <3> QED
            BY <3>1
    <2>8. r1 \in Replicas(o)
        <3>1. r1 \in InitTree
            BY <2>7 DEF TreeShape
        <3> QED
            BY <2>6, <3>1 DEF Replicas, Children
    <2>9. ~IsPrefix(r, r1)
        BY <1>2, <2>3, <2>4, <2>6, <2>7, PrefixOrder
    <2>10. r1 \in tree'
        BY <1>5, <2>7, <2>9 DEF Subtree
    <2> QED
        BY <2>8, <2>10
<1> QED
    BY <1>3, <1>4, <1>5

\* An object of which something is left after a step was not empty before it.
LEMMA ObjectWasThere ==
    ASSUME CleanInv, NewInv, command.kind # "create", Added,
           NEW o \in Objects, NEW n \in Rest', IsPrefix(o, n)
    PROVE  Subtree(Rest, o) # {}
<1>1. CASE n \in Rest
    BY <1>1 DEF Subtree
<1>2. CASE n \notin Rest
    <2> DEFINE q == ddl.task
    <2>1. pc = "ddl_mark" /\ n = Mark /\ Front(n) \in tree
        BY <1>2, RestShrinks
    <2>2. q \in DOMAIN DdlHosts /\ Head(ddl.todo) \in DdlHosts[q]
        BY <2>1 DEF CleanInv, DdlInv
    <2>3. q \in Path /\ n \in Path /\ IsPrefix(q, n) /\ Front(n) = Append(q, "finished")
          /\ IsPrefix(DdlPath, n)
        BY <2>1, <2>2, MarkFacts DEF Mark
    <2>4. q \in InitTree /\ IsPrefix(DdlPath, q) /\ DdlPath \in Path /\ q # <<>>
        BY <2>2, DdlFacts, InitTreeFacts
    <2>5. q \in tree /\ q \notin fresh
        <3>1. tree \in SUBSET Path /\ PrefixClosed(tree)
            BY DEF CleanInv, TreeInv, TreeShape
        <3>2. IsPrefix(q, Append(q, "finished"))
            BY <2>3, LabelFacts, AppendFacts
        <3>3. q \in tree
            BY <2>1, <2>3, <2>4, <3>1, <3>2, AboveIsThere
        <3> QED
            BY <2>2, <3>3 DEF NewInv
    <2>6. o \in Path /\ Append(o, "replicas") \in InitTree
        BY ObjectFacts
    <2>7. ~IsPrefix(q, o)
        <3>1. IsPrefix(o, Append(o, "replicas")) /\ Append(o, "replicas") \in Path
            BY <2>6, BelowReplicas
        <3>2. IsPrefix(Append(o, "replicas"), Append(o, "replicas"))
            BY <3>1, PrefixOrder
        <3>3. ASSUME IsPrefix(q, o) PROVE FALSE
            <4>1. IsPrefix(DdlPath, Append(o, "replicas"))
                BY <2>3, <2>4, <2>6, <3>1, <3>3, PrefixOrder
            <4> QED
                BY <2>6, <3>2, <4>1, NoReplicasInLocks
        <3> QED
            BY <3>3
    <2>8. IsPrefix(o, q)
        <3>1. Len(o) \in Nat /\ Len(q) \in Nat
            BY <2>3, <2>6, PathFacts
        <3>2. Len(o) <= Len(q) \/ Len(q) <= Len(o)
            BY <3>1
        <3> QED
            BY <2>3, <2>6, <2>7, <3>2, PrefixOrder
    <2> QED
        BY <2>4, <2>5, <2>8 DEF Rest, Subtree
<1> QED
    BY <1>1, <1>2

\* While something of an object is left whose replicas are all to be dropped, one of
\* them is.
LEMMA ObjectsKeep ==
    ASSUME CleanInv, ObjectsLeft, NewInv, OutInv, command.kind # "create", Added, [Next]_vars
    PROVE  ObjectsLeft'
<1>1. command' = command /\ Removed' = Removed /\ ReplicaNode' = ReplicaNode
    BY CommandStays, SameNames
<1>2. RemovedStayAway(command)' <=> RemovedStayAway(command)
    BY <1>1 DEF RemovedStayAway
<1>3. ASSUME NEW o PROVE AllGo(o)' <=> AllGo(o)
    BY <1>1 DEF AllGo, RemovedReplicas
<1> SUFFICES ASSUME command.kind \in HostKinds \cup {"drop"}, RemovedStayAway(command),
                    NEW o \in Objects, AllGo(o), NEW n \in Rest', IsPrefix(o, n)
             PROVE  Replicas(o) \cap tree' # {}
    BY <1>1, <1>2, <1>3 DEF ObjectsLeft, Subtree
<1>4. Replicas(o) \cap tree # {}
    BY ObjectWasThere DEF ObjectsLeft
<1>5. PICK r0 \in Replicas(o) : r0 \in tree
    BY <1>4
<1>6. n \in tree' /\ n \in Path /\ n \in InitTree
    BY InitTreeFacts DEF Rest
<1>7. o \in Path /\ r0 \in Path /\ r0 \in InitTree /\ HasReplicas(r0)
      /\ IsPrefix(Append(o, "replicas"), r0) /\ Len(r0) = Len(o) + 2
    BY ObjectFacts, InitTreeFacts, ReplicaFactsOf DEF Replicas
<1>8. TreeShape(tree) /\ command \in Commands
    BY DEF CleanInv, TreeInv, Control
<1>9. CASE tree \subseteq tree'
    BY <1>5, <1>9
<1>10. CASE Deletes
    <2>1. DelIn(del, Outside)
        BY DEF OutInv
    <2>2. r0 \notin Outside
        BY <1>7, OutsideFacts
    <2> QED
        BY <1>5, <1>10, <2>1, <2>2, DeletesOutside
<1>11. CASE \E p \in ServerDrops : ServerDeletes(p)
    <2>1. PICK p \in ServerDrops : ServerDeletes(p)
        BY <1>11
    <2>2. CASE r0 \in tree'
        BY <2>2
    <2>3. CASE r0 \notin tree'
        <3>1. IsPrefix(p, r0) /\ n \in tree /\ ~IsPrefix(p, n)
            BY <1>5, <1>6, <2>1, <2>3 DEF ServerDeletes, Subtree
        <3>2. IF command.kind = "drop" THEN r0 = command.root \o <<"replicas", command.replica>>
              ELSE HostOf(r0) \in Range(command.hosts)
            BY DEF AllGo, RemovedReplicas, Removed, ReplicaNode
        <3>3. IsPrefix(p, o)
            BY <3>1, <3>2 DEF RemovedStayAway
        <3>4. p \in Path
            BY <1>8, <2>1 DEF ServerDeletes, TreeShape
        <3> QED
            BY <1>6, <1>7, <3>1, <3>3, <3>4, PrefixOrder
    <2> QED
        BY <2>2, <2>3
<1>12. CASE \E r \in DOMAIN tasks : DropReplica(r)
    <2>1. PICK r \in DOMAIN tasks : DropReplica(r)
        BY <1>12
    <2> DEFINE o2 == ObjectOf(r)
               gone == IF Children(tree, Front(r)) = {r} THEN o2 ELSE r
    <2>2. CASE tree' = tree
        BY <1>5, <2>2
    <2>3. CASE tree' = tree \ Subtree(tree, gone)
        <3>1. r \in InitTree /\ r \in Children(InitTree, Append(o2, "replicas")) /\ r \in Path
              /\ Len(r) \in Nat /\ Len(r) >= 2
            BY InitTreeFacts, PathFacts DEF CleanInv, TasksInv, TaskOk
        <3>2. o2 \in Path
            BY <3>1, Initial DEF ObjectOf
        <3>3. /\ Len(r) = Len(o2) + 2 /\ IsPrefix(Append(o2, "replicas"), r)
              /\ Front(r) = Append(o2, "replicas")
            BY <3>1, <3>2, InitTreeFacts, ReplicaFactsOf
        <3>4. o2 \in Objects
            <4>1. Append(o2, "replicas") \in Path /\ Append(o2, "replicas") # <<>>
                BY <3>2, BelowReplicas
            <4>2. Append(o2, "replicas") \in InitTree
                BY <3>1, <3>3, <4>1, InitTreeFacts, AboveIsThere
            <4> QED
                BY <3>2, <4>2, ObjectIs
        <3>5. IsPrefix(o2, r0) => IsPrefix(o2, o)
            BY <1>7, <3>4, AboveObject
        <3> HIDE DEF o2
        <3>6. gone = IF Children(tree, Front(r)) = {r} THEN o2 ELSE r
            OBVIOUS
        <3> HIDE DEF gone
        <3> QED
            BY <1>5, <1>6, <1>8, <2>3, <3>1, <3>2, <3>3, <3>5, <3>6, DropLeaves
    <2> QED
        BY <2>1, <2>2, <2>3 DEF DropReplica, ObjectOf
<1>13. CASE DropOne
    <2> DEFINE gone == IF Children(tree, Front(ReplicaNode)) = {ReplicaNode}
                       THEN command.root ELSE ReplicaNode
    <2>1. CASE tree' = tree
        BY <1>5, <2>1
    <2>2. CASE tree' = tree \ Subtree(tree, gone)
        <3>1. command.root \in Path /\ ReplicaNode \in Path
              /\ Len(ReplicaNode) = Len(command.root) + 2 /\ Len(command.root) \in Nat
              /\ Front(ReplicaNode) = Append(command.root, "replicas")
            BY <1>8, CommandFacts, ReplicaNodeFacts
        <3>2. r0 = ReplicaNode
            <4>1. command.kind = "drop"
                BY <1>13 DEF DropOne, CleanInv, Control
            <4> QED
                BY <4>1 DEF AllGo
        <3>3. IsPrefix(Append(command.root, "replicas"), ReplicaNode)
            <4>1. Front(ReplicaNode) = SubSeq(ReplicaNode, 1, Len(ReplicaNode) - 1)
                BY DEF Front
            <4>2. Len(ReplicaNode) - 1 \in 0..Len(ReplicaNode)
                BY <3>1
            <4> QED
                BY <3>1, <4>1, <4>2, InitialIsPrefix
        <3>4. command.root = o
            BY <1>7, <3>1, <3>2, <3>3, OneReplicas
        <3>5. IsPrefix(command.root, r0) => IsPrefix(command.root, o)
            BY <1>7, <3>4, PrefixOrder
        <3>6. gone = IF Children(tree, Front(ReplicaNode)) = {ReplicaNode}
                     THEN command.root ELSE ReplicaNode
            OBVIOUS
        <3> HIDE DEF gone
        <3> QED
            BY <1>5, <1>6, <1>8, <2>2, <3>1, <3>3, <3>5, <3>6, DropLeaves
    <2> QED
        BY <1>13, <2>1, <2>2 DEF DropOne
<1> QED
    BY <1>9, <1>10, <1>11, <1>12, <1>13, TreeSteps

---------------------------------------------------------------------------
(* The traversal does not lose its way *)

HoldSets(P, R) == (\A p \in P : Sent(p) \in R) /\ \A r \in R : r.ready => r.exists

\* A path of P or a request of R stays in the queues when an answer moves on.
LEMMA MoveHolds ==
    ASSUME NEW P0, NEW R0, NEW A0, QueueSets(P0, R0, A0), NEW i, Queues(i, P0, R0, A0),
           NEW P, NEW R, HoldSets(P, R), Holds(i, P, R)
    PROVE  Holds(MoveAnswered(i), P, R)
<1>1. i.active \in Seq(R0) /\ i.finished \in Seq(A0) /\ i.pending \in Seq(P0)
      /\ i \in [pending : Seq(P0), active : Seq(R0), finished : Seq(A0)]
    BY DEF Queues
<1>2. CASE i.active = <<>> \/ ~Head(i.active).ready
    BY <1>2 DEF MoveAnswered
<1>3. CASE ~(i.active = <<>> \/ ~Head(i.active).ready)
    <2> DEFINE h == Head(i.active)
               rest == Tail(i.active)
               fin == IF h.exists THEN Append(i.finished, h) ELSE i.finished
    <2>1. h \in R0 /\ Items(i.active) = {h} \cup Items(rest)
        BY <1>1, <1>3, ItemsOf
    <2>2. h \in A0 /\ h.ready
        BY <1>3, <2>1 DEF QueueSets
    <2>3. Items(Append(i.finished, h)) = Items(i.finished) \cup {h}
        BY <1>1, <2>2, ItemsOf
    <2>4. MoveAnswered(i) = [i EXCEPT !.active = rest, !.finished = fin]
        BY <1>3 DEF MoveAnswered
    <2>5. Items(i.finished) \subseteq Items(fin) /\ (h.exists => h \in Items(fin))
        BY <2>3
    <2> HIDE DEF h, rest, fin
    <2> DEFINE j == MoveAnswered(i)
    <2>6. j.pending = i.pending /\ j.active = rest /\ j.finished = fin
        BY <1>1, <2>4
    <2> HIDE DEF j
    <2>7. h \in R => h.exists
        BY <2>2 DEF HoldSets
    <2>8. Holds(j, P, R)
        BY <2>1, <2>5, <2>6, <2>7 DEF Holds
    <2> QED
        BY <2>8 DEF j
<1> QED
    BY <1>2, <1>3

\* All the answers at the head move on.
LEMMA UpdateActiveHolds ==
    ASSUME NEW P0, NEW R0, NEW A0, QueueSets(P0, R0, A0), NEW i, Queues(i, P0, R0, A0),
           NEW P, NEW R, HoldSets(P, R), Holds(i, P, R)
    PROVE  Holds(UpdateActive(i), P, R)
<1> DEFINE n == Len(i.active)
           g == CHOOSE g : g = [k \in 0..n |-> IF k = 0 THEN i ELSE MoveAnswered(g[k - 1])]
<1>1. n \in Nat
    BY LenProperties DEF Queues
<1>2. g = [k \in 0..n |-> IF k = 0 THEN i ELSE MoveAnswered(g[k - 1])]
    <2>1. \E h : h = [k \in 0..n |-> IF k = 0 THEN i ELSE MoveAnswered(h[k - 1])]
        BY <1>1, MovesExist
    <2> QED
        BY <2>1
<1>3. UpdateActive(i) = g[n]
    BY DEF UpdateActive
<1> HIDE DEF g, n
<1>4. \A k \in 0..n : g[k] = IF k = 0 THEN i ELSE MoveAnswered(g[k - 1])
    BY <1>2
<1> DEFINE T == {k \in Nat : k <= n => Queues(g[k], P0, R0, A0) /\ Holds(g[k], P, R)}
<1>5. 0 \in T
    BY <1>1, <1>4
<1>6. ASSUME NEW k \in T PROVE k + 1 \in T
    <2> SUFFICES ASSUME k + 1 <= n PROVE Queues(g[k + 1], P0, R0, A0) /\ Holds(g[k + 1], P, R)
        OBVIOUS
    <2>1. k <= n /\ k + 1 \in 0..n /\ k + 1 # 0 /\ (k + 1) - 1 = k
        BY <1>1
    <2>2. g[k + 1] = MoveAnswered(g[k])
        BY <1>4, <2>1
    <2>3. Queues(g[k], P0, R0, A0) /\ Holds(g[k], P, R)
        BY <2>1
    <2> QED
        BY <2>2, <2>3, MoveKeeps, MoveHolds
<1>7. T = Nat
    <2> HIDE DEF T
    <2>1. T \in SUBSET Nat
        BY DEF T
    <2> QED
        BY <1>5, <1>6, <2>1, AllNumbers
<1> QED
    BY <1>1, <1>3, <1>7

\* A path that is sent becomes a request.
LEMMA UpdatePendingHolds ==
    ASSUME NEW P0, NEW R0, NEW A0, QueueSets(P0, R0, A0), NEW i, Queues(i, P0, R0, A0),
           NEW P, NEW R, HoldSets(P, R), Holds(i, P, R)
    PROVE  Holds(UpdatePending(i), P, R)
<1> DEFINE room == MaxActive - Len(i.active)
           n == IF Len(i.pending) < room THEN Len(i.pending) ELSE room
           sent == [k \in 1..n |-> Sent(i.pending[k])]
           rest == SubSeq(i.pending, n + 1, Len(i.pending))
           first == SubSeq(i.pending, 1, n)
<1>1. /\ i.active \in Seq(R0) /\ i.finished \in Seq(A0) /\ i.pending \in Seq(P0)
      /\ i \in [pending : Seq(P0), active : Seq(R0), finished : Seq(A0)]
    BY DEF Queues
<1>2. /\ Len(i.active) \in Nat /\ Len(i.pending) \in Nat /\ MaxActive \in Nat
      /\ \A k \in 1..Len(i.pending) : i.pending[k] \in P0
    BY <1>1, LenProperties, ElementOfSeq, LimitsAssumption
<1>3. n \in 0..Len(i.pending)
    BY <1>2 DEF Queues
<1>4. sent \in Seq(R0) /\ Len(sent) = n
    <2>1. \A k \in 1..n : i.pending[k] \in P0
        BY <1>2, <1>3
    <2>2. sent \in [1..n -> R0]
        BY <2>1 DEF QueueSets
    <2>3. n \in Nat
        BY <1>3
    <2> HIDE DEF n, sent
    <2> QED
        BY <2>2, <2>3
<1>5. UpdatePending(i) = [i EXCEPT !.pending = rest, !.active = i.active \o sent]
    BY DEF UpdatePending, Sent
<1>6. Items(i.pending) = Items(first) \cup Items(rest)
    <2> HIDE DEF n
    <2> QED
        BY <1>1, <1>3, ItemsCut
<1>7. ASSUME NEW p \in Items(first) PROVE Sent(p) \in Items(sent)
    <2> HIDE DEF n
    <2>1. first = [k \in 1..n |-> i.pending[k]]
        BY <1>1, <1>3, SubSeqProperties
    <2>2. Len(first) = n
        BY <1>1, <1>3, ItemsCut
    <2>3. PICK k \in 1..n : p = i.pending[k]
        BY <2>1, <2>2 DEF Items
    <2>4. sent[k] = Sent(p)
        BY <2>3
    <2> QED
        BY <1>4, <2>4 DEF Items
<1>8. Items(i.active \o sent) = Items(i.active) \cup Items(sent)
    <2> HIDE DEF n, sent
    <2>1. \A s, t \in Seq(R0) : Items(s \o t) = Items(s) \cup Items(t)
        BY ItemsOf
    <2> QED
        BY <1>1, <1>4, <2>1
<1> HIDE DEF n, sent, rest, first
<1> DEFINE j == UpdatePending(i)
           more == i.active \o sent
<1>9. j.pending = rest /\ j.active = more /\ j.finished = i.finished
    <2> HIDE DEF more
    <2>1. j = [i EXCEPT !.pending = rest, !.active = more]
        BY <1>5 DEF more
    <2> QED
        BY <1>1, <2>1
<1>10. Items(j.active) = Items(i.active) \cup Items(sent)
    BY <1>8, <1>9
<1> HIDE DEF j, more
<1>11. Holds(j, P, R)
    BY <1>6, <1>7, <1>9, <1>10 DEF Holds, HoldSets
<1> QED
    BY <1>11 DEF j

\* Both at once, and with new paths.
LEMMA UpdateQueuesHolds ==
    ASSUME NEW P0, NEW R0, NEW A0, QueueSets(P0, R0, A0), NEW i, Queues(i, P0, R0, A0),
           NEW P, NEW R, HoldSets(P, R)
    PROVE  /\ Holds(i, P, R) => Holds(UpdateQueues(i), P, R)
           /\ \A s \in Seq(P0) :
                 Holds(i, P, R) \/ (\E p \in Items(s) : p \in P) =>
                     Holds(InspectorAdd(i, s), P, R)
<1>1. \A j : Queues(j, P0, R0, A0) /\ Holds(j, P, R) => Holds(UpdateQueues(j), P, R)
    BY UpdateActiveKeeps, UpdateActiveHolds, UpdatePendingHolds DEF UpdateQueues
<1>2. ASSUME NEW s \in Seq(P0), Holds(i, P, R) \/ (\E p \in Items(s) : p \in P)
      PROVE  Holds(InspectorAdd(i, s), P, R)
    <2> DEFINE more == i.pending \o s
               j == [i EXCEPT !.pending = more]
    <2>1. more \in Seq(P0)
        BY ConcatProperties DEF Queues
    <2>2. Items(more) = Items(i.pending) \cup Items(s)
        <3>1. \A a, b \in Seq(P0) : Items(a \o b) = Items(a) \cup Items(b)
            BY ItemsOf
        <3> QED
            BY <3>1 DEF Queues
    <2>3. InspectorAdd(i, s) = UpdateQueues(j)
        BY DEF InspectorAdd
    <2> HIDE DEF more
    <2>4. Queues(j, P0, R0, A0)
        BY <2>1 DEF Queues
    <2>5. j.pending = more /\ j.active = i.active /\ j.finished = i.finished
        BY DEF Queues
    <2> HIDE DEF j
    <2>6. Holds(j, P, R)
        BY <1>2, <2>2, <2>5 DEF Holds
    <2> QED
        BY <1>1, <2>3, <2>4, <2>6
<1> QED
    BY <1>1, <1>2

\* No requests, nothing on the way.
LEMMA NothingHeld ==
    ASSUME NEW P0, NEW R0, NEW A0, NEW i, Queues(i, P0, R0, A0), Tasks(i) = 0, NEW P, NEW R
    PROVE  ~Holds(i, P, R)
<1>1. i.active \in Seq(R0) /\ i.finished \in Seq(A0) /\ i.pending \in Seq(P0)
    BY DEF Queues
<1>2. Len(i.active) \in Nat /\ Len(i.finished) \in Nat /\ Len(i.pending) \in Nat
    BY <1>1, LenProperties
<1>3. Len(i.active) = 0 /\ Len(i.finished) = 0 /\ Len(i.pending) = 0
    <2> DEFINE a == Len(i.pending)
               b == Len(i.active)
               c == Len(i.finished)
    <2>1. a + b + c = 0 /\ a \in Nat /\ b \in Nat /\ c \in Nat
        BY <1>2 DEF Tasks
    <2> HIDE DEF a, b, c
    <2>2. a = 0 /\ b = 0 /\ c = 0
        BY <2>1
    <2> QED
        BY <2>2 DEF a, b, c
<1> QED
    BY <1>3 DEF Holds, Items

---------------------------------------------------------------------------
(* The way to an object *)

\* What lies on the way to an object in scope, of which a replica is there.
LEMMA WayFacts ==
    ASSUME TreeShape(tree), command \in Commands, NEW o \in Objects, InScope(o, {}),
           NEW r \in Replicas(o), r \in tree
    PROVE  /\ o \in Path /\ o \in tree /\ o # <<>> /\ Append(o, "replicas") \in tree
           /\ command.root \in OnTheWay(o)
           /\ \A p \in OnTheWay(o) : p # o =>
                 LET c == Append(p, o[Len(p) + 1])
                 IN  /\ Append(p, "replicas") \notin tree
                     /\ p = <<>> \/ p \in tree
                     /\ c \in OnTheWay(o) /\ c \in Children(tree, p) /\ Last(c) = o[Len(p) + 1]
                     /\ ~\E e \in Excluded : IsPrefix(e, c)
<1>1. tree \in SUBSET Path /\ PrefixClosed(tree)
    BY DEF TreeShape
<1>2. /\ o \in Path /\ Append(o, "replicas") \in InitTree /\ Append(o, "replicas") \in Path
      /\ Append(o, "replicas") # <<>> /\ IsPrefix(o, Append(o, "replicas"))
    BY ObjectFacts, BelowReplicas
<1>3. r \in Path /\ IsPrefix(Append(o, "replicas"), r) /\ IsPrefix(o, r)
    BY <1>2, InitTreeFacts, ReplicaFactsOf DEF Replicas
<1>4. Append(o, "replicas") \in tree
    BY <1>1, <1>2, <1>3, AboveIsThere
<1>5. o # <<>>
    <2>1. Append(<<>>, "replicas") = <<"replicas">>
        OBVIOUS
    <2> QED
        BY <1>2, <2>1, PlacesAssumption
<1>6. o \in tree
    BY <1>1, <1>2, <1>3, <1>5, AboveIsThere
<1>7. command.root \in OnTheWay(o)
    BY <1>2, CommandFacts, PrefixOrder DEF OnTheWay, InScope
<1>8. ASSUME NEW p \in OnTheWay(o), p # o
      PROVE  LET c == Append(p, o[Len(p) + 1])
             IN  /\ Append(p, "replicas") \notin tree
                 /\ p = <<>> \/ p \in tree
                 /\ c \in OnTheWay(o) /\ c \in Children(tree, p) /\ Last(c) = o[Len(p) + 1]
                 /\ ~\E e \in Excluded : IsPrefix(e, c)
    <2> DEFINE x == o[Len(p) + 1]
               c == Append(p, x)
    <2>1. p \in Path /\ IsPrefix(command.root, p) /\ IsPrefix(p, o) /\ command.root \in Path
        BY CommandFacts DEF OnTheWay
    <2>2. Len(p) \in Nat /\ Len(o) \in Nat /\ Len(p) < Len(o)
        BY <1>2, <1>8, <2>1, PathFacts, PrefixOrder
    <2>3. IsStrictPrefix(p, o)
        BY <1>2, <2>1, <2>2, PrefixOrder
    <2>4. Append(p, "replicas") \notin tree
        <3>1. ASSUME Append(p, "replicas") \in tree PROVE FALSE
            <4>1. IsPrefix(Append(p, "replicas"), Append(p, "replicas")) /\ Append(p, "replicas") \in Path
                BY <2>1, BelowReplicas, PrefixOrder
            <4>2. HasReplicas(Append(p, "replicas"))
                BY <2>1, <4>1, BelowHasReplicas
            <4>3. Append(p, "replicas") \in InitTree
                BY <3>1, <4>2 DEF TreeShape
            <4>4. p \in Objects
                BY <2>1, <4>3, ObjectIs
            <4> QED
                BY <2>1, <2>3, <4>4 DEF InScope
        <3> QED
            BY <3>1
    <2>5. p = <<>> \/ p \in tree
        BY <1>1, <1>6, <2>1, AboveIsThere
    <2>6. x \in Label
        BY <1>2, <2>2, PathFacts
    <2>7. c \in Path /\ Len(c) = Len(p) + 1 /\ Last(c) = x /\ c[Len(p) + 1] = x /\ IsPrefix(p, c)
          /\ \A i \in 1..Len(p) : c[i] = p[i]
        BY <2>1, <2>6, AppendFacts
    <2>8. IsPrefix(c, o)
        <3>1. \A i \in 1..Len(p) : p[i] = o[i]
            BY <1>2, <2>1, PrefixIs
        <3>2. \A i \in 1..Len(c) : c[i] = o[i]
            <4> SUFFICES ASSUME NEW i \in 1..Len(c) PROVE c[i] = o[i]
                OBVIOUS
            <4>1. i \in 1..Len(p) \/ i = Len(p) + 1
                BY <2>2, <2>7
            <4> HIDE DEF c
            <4> QED
                BY <2>7, <3>1, <4>1
        <3>3. Len(c) <= Len(o)
            BY <2>2, <2>7
        <3> HIDE DEF c
        <3> QED
            BY <1>2, <2>7, <3>2, <3>3, PrefixIs
    <2> HIDE DEF c
    <2>9. c \in OnTheWay(o)
        BY <2>1, <2>7, <2>8, PrefixOrder DEF OnTheWay
    <2>10. c \in Children(tree, p)
        <3>1. c # <<>>
            BY <2>2, <2>7, PathFacts
        <3>2. c \in tree
            BY <1>1, <1>6, <2>7, <2>8, <3>1, AboveIsThere
        <3> QED
            BY <2>7, <3>2 DEF Children
    <2>11. ~\E e \in Excluded : IsPrefix(e, c)
        <3>1. o # command.root
            BY <1>2, <2>1, <2>2, PrefixOrder
        <3>2. ~\E e \in Excluded : IsPrefix(e, o)
            BY <3>1 DEF InScope
        <3>3. \A e \in Excluded : e \in Path
            BY PlacesAssumption, GivenPaths
        <3> QED
            BY <1>2, <2>7, <2>8, <3>2, <3>3, PrefixOrder
    <2> QED
        BY <2>4, <2>5, <2>7, <2>9, <2>10, <2>11 DEF c
<1> QED
    BY <1>2, <1>4, <1>5, <1>6, <1>7, <1>8

\* The answer to a request on the way leads on.
LEMMA AnswerLeads ==
    ASSUME TreeShape(tree), command \in Commands, NEW o \in Objects, InScope(o, {}),
           NEW r \in Replicas(o), r \in tree, NEW p \in OnTheWay(o)
    PROVE  [path |-> p, ready |-> TRUE, exists |-> p = <<>> \/ p \in tree,
            children |-> {Last(c) : c \in Children(tree, p)}] \in Leading(o)
<1> DEFINE names == {Last(c) : c \in Children(tree, p)}
           there == p = <<>> \/ p \in tree
           a == [path |-> p, ready |-> TRUE, exists |-> there, children |-> names]
<1>1. p \in Path
    BY DEF OnTheWay
<1>2. names \in SUBSET Label
      /\ ("replicas" \notin names => Append(p, "replicas") \notin tree)
    BY <1>1, ChildNames
<1>3. ASSUME there = TRUE,
             IF p = o THEN "replicas" \in names
             ELSE "replicas" \notin names /\ o[Len(p) + 1] \in names
      PROVE  a \in Leading(o)
    <2> HIDE DEF names, there
    <2>1. /\ a.path = p /\ a.exists = there /\ a.children = names
          /\ a \in [path : Path, ready : BOOLEAN, exists : BOOLEAN, children : SUBSET Label]
        BY <1>1, <1>2, <1>3
    <2> HIDE DEF a
    <2>2. Leads(a, o)
        BY <1>3, <2>1 DEF Leads
    <2> QED
        BY <2>1, <2>2 DEF Leading
<1>4. CASE p = o
    <2>1. Append(p, "replicas") \in tree /\ there = TRUE
        BY <1>4, WayFacts
    <2> QED
        BY <1>2, <1>4, <1>3, <2>1
<1>5. CASE p # o
    <2> DEFINE c == Append(p, o[Len(p) + 1])
    <2>1. /\ Append(p, "replicas") \notin tree /\ (p = <<>> \/ p \in tree)
          /\ c \in Children(tree, p) /\ Last(c) = o[Len(p) + 1]
        BY <1>5, WayFacts
    <2> HIDE DEF c
    <2>2. o[Len(p) + 1] \in names
        BY <2>1
    <2>3. "replicas" \notin names
        <3>1. ASSUME "replicas" \in names PROVE FALSE
            <4>1. PICK d \in Children(tree, p) : Last(d) = "replicas"
                BY <3>1
            <4>2. d \in tree /\ d \in Path /\ IsPrefix(p, d) /\ Len(d) = Len(p) + 1
                BY ChildrenFacts DEF TreeShape
            <4>3. d = Append(p, "replicas")
                BY <1>1, <4>1, <4>2, ChildFacts
            <4> QED
                BY <2>1, <4>2, <4>3
        <3> QED
            BY <3>1
    <2>4. there = TRUE
        BY <2>1
    <2> HIDE DEF names, there, a
    <2>5. a \in Leading(o)
        BY <1>3, <1>5, <2>2, <2>3, <2>4
    <2> QED
        BY <2>5 DEF a, names, there
<1> QED
    BY <1>4, <1>5 DEF a, names, there

\* The paths and the requests on the way to an object are those of the queues.
LEMMA LeadingSets ==
    ASSUME NEW o
    PROVE  HoldSets(OnTheWay(o), Leading(o))
<1>1. ASSUME NEW p \in OnTheWay(o) PROVE Sent(p) \in Leading(o)
    BY <1>1 DEF Sent, Leading, Leads, OnTheWay
<1>2. \A r \in Leading(o) : r.ready => r.exists
    BY DEF Leading, Leads
<1> QED
    BY <1>1, <1>2 DEF HoldSets

\* An answer comes.
LEMMA RepliesHold ==
    ASSUME CleanInv, ZooKeeperReplies, NEW o \in Objects, InScope(o, {}),
           NEW r \in Replicas(o), r \in tree, Holds(inspector, OnTheWay(o), Leading(o))
    PROVE  Holds(inspector', OnTheWay(o), Leading(o))
<1> DEFINE act == inspector.active
           W == OnTheWay(o)
           L == Leading(o)
<1>1. PICK k \in DOMAIN act :
          inspector' = [inspector EXCEPT !.active[k] =
              [path |-> act[k].path, ready |-> TRUE,
               exists |-> act[k].path = <<>> \/ act[k].path \in tree,
               children |-> {Last(c) : c \in Children(tree, act[k].path)}]]
    BY DEF ZooKeeperReplies
<1>2. TreeShape(tree) /\ command \in Commands
    BY DEF ZooKeeperReplies, CleanInv, Control, TreeInv, HostKinds
<1>3. inspector \in [pending : Seq(Reached), active : Seq(Requests), finished : Seq(Answers)]
    BY DEF CleanInv, InspectorInv
<1>4. act \in Seq(Requests) /\ DOMAIN act = 1..Len(act) /\ Len(act) \in Nat
    BY <1>3, LenProperties
<1> DEFINE p == act[k].path
           answer == [path |-> p, ready |-> TRUE, exists |-> p = <<>> \/ p \in tree,
                      children |-> {Last(c) : c \in Children(tree, p)}]
           act2 == [act EXCEPT ![k] = answer]
<1>5. inspector' = [inspector EXCEPT !.active[k] = answer]
    BY <1>1
<1>6. p \in W => answer \in L
    BY <1>2, AnswerLeads
<1>7. act[k] \in L => p \in W
    BY DEF Leading, Leads
<1> HIDE DEF answer, p
<1>8. inspector' = [inspector EXCEPT !.active = act2]
    BY <1>3, <1>5
<1>9. /\ Len(act2) = Len(act) /\ act2[k] = answer /\ k \in 1..Len(act)
      /\ \A j \in 1..Len(act) : j # k => act2[j] = act[j]
    BY <1>4
<1> HIDE DEF act2
<1>10. inspector'.pending = inspector.pending /\ inspector'.active = act2
       /\ inspector'.finished = inspector.finished
    BY <1>3, <1>8
<1>11. ASSUME NEW x \in Items(act), x \in L
       PROVE  \E y \in Items(act2) : y \in L
    <2>1. PICK j \in 1..Len(act) : x = act[j]
        BY DEF Items
    <2>2. CASE j = k
        BY <1>6, <1>7, <1>9, <1>11, <2>1, <2>2 DEF Items
    <2>3. CASE j # k
        BY <1>9, <1>11, <2>1, <2>3 DEF Items
    <2> QED
        BY <2>2, <2>3
<1> HIDE DEF W, L
<1>12. Holds(inspector, W, L) => Holds(inspector', W, L)
    BY <1>10, <1>11 DEF Holds
<1> QED
    BY <1>12 DEF W, L

\* The traversal goes on towards an object, or finds it.
LEMMA InspectHolds ==
    ASSUME CleanInv, Inspect, NEW o \in Objects, InScope(o, {}),
           NEW r \in Replicas(o), r \in tree,
           o \in Items(objects) \/ Holds(inspector, OnTheWay(o), Leading(o))
    PROVE  \/ pc' \in {"inspect", "collect"} /\ o \in Items(objects')
           \/ pc' = "inspect" /\ Holds(inspector', OnTheWay(o), Leading(o))
<1> DEFINE i == UpdateQueues(inspector)
           node == Head(i.finished)
           rest == [i EXCEPT !.finished = Tail(i.finished)]
           below == {c \in {Append(node.path, n) : n \in node.children} :
                        ~\E e \in Excluded : IsPrefix(e, c)}
           on == InspectorAdd(rest, SetToSeq(below))
           W == OnTheWay(o)
           L == Leading(o)
<1>1. /\ pc = "inspect"
      /\ \/ /\ i.finished # <<>> /\ "replicas" \in node.children /\ inspector' = rest
            /\ objects' = Append(objects, node.path) /\ pc' = pc
         \/ /\ i.finished # <<>> /\ "replicas" \notin node.children
            /\ inspector' = on /\ objects' = objects /\ pc' = pc
         \/ Tasks(i) = 0 /\ inspector' = i /\ objects' = objects /\ pc' = "collect"
    BY DEF Inspect
<1>2. TreeShape(tree) /\ command \in Commands
    BY <1>1 DEF CleanInv, Control, TreeInv, HostKinds
<1>3. objects \in Seq(Reached) /\ Reached \subseteq Path
    BY DEF CleanInv, InspectorInv, Reached
<1>4. Queues(inspector, Reached, Requests, Answers)
    BY DEF CleanInv, InspectorInv, Queues
<1>5. QueueSets(Reached, Requests, Answers)
    BY RequestFacts
<1>6. Queues(i, Reached, Requests, Answers)
    BY <1>4, <1>5, UpdateQueuesKeeps
<1>7. HoldSets(W, L)
    BY LeadingSets
<1>8. o \in Items(objects) \/ Holds(i, W, L)
    BY <1>4, <1>5, <1>7, UpdateQueuesHolds
<1>9. ASSUME NEW p \in W, p # o, ~\E c \in W : c \in below,
             node.path = p, o[Len(p) + 1] \in node.children PROVE FALSE
    <2> DEFINE c == Append(p, o[Len(p) + 1])
    <2>1. c \in W /\ ~\E e \in Excluded : IsPrefix(e, c)
        BY <1>2, <1>9, WayFacts
    <2>2. c \in {Append(node.path, n) : n \in node.children}
        BY <1>9
    <2> HIDE DEF c, W, node
    <2> QED
        BY <1>9, <2>1, <2>2
<1> HIDE DEF i
<1>10. i.finished # <<>> =>
             /\ node \in Answers /\ node \in Requests /\ node.ready /\ node.path \in Reached
             /\ Queues(rest, Reached, Requests, Answers)
             /\ rest.pending = i.pending /\ rest.active = i.active
             /\ Items(i.finished) = {node} \cup Items(rest.finished)
    <2> SUFFICES ASSUME i.finished # <<>>
                 PROVE  /\ node \in Answers /\ node \in Requests /\ node.ready
                        /\ node.path \in Reached
                        /\ Queues(rest, Reached, Requests, Answers)
                        /\ rest.pending = i.pending /\ rest.active = i.active
                        /\ Items(i.finished) = {node} \cup Items(rest.finished)
        OBVIOUS
    <2>1. /\ i \in [pending : Seq(Reached), active : Seq(Requests), finished : Seq(Answers)]
          /\ Len(i.active) <= MaxActive
        BY <1>6 DEF Queues
    <2> DEFINE left == Tail(i.finished)
    <2>2. node \in Answers /\ left \in Seq(Answers)
          /\ Items(i.finished) = {node} \cup Items(left)
        BY <2>1, ItemsOf
    <2>3. node \in Requests /\ node.ready /\ node.path \in Reached
        BY <2>2 DEF Answers, Requests
    <2>4. rest = [i EXCEPT !.finished = left]
        OBVIOUS
    <2> HIDE DEF left, rest, node
    <2>5. /\ rest \in [pending : Seq(Reached), active : Seq(Requests), finished : Seq(Answers)]
          /\ rest.active = i.active /\ rest.pending = i.pending /\ rest.finished = left
        BY <2>1, <2>2, <2>4
    <2> QED
        BY <2>1, <2>2, <2>3, <2>5 DEF Queues
<1>11. i.finished # <<>> /\ Holds(i, W, L) =>
           Holds(rest, W, L) \/ (node \in L /\ node.path \in W)
    <2>1. node \in L => node.path \in W
        BY DEF Leading, Leads
    <2> HIDE DEF rest, node, W, L
    <2> QED
        BY <1>10, <2>1 DEF Holds
<1>12. i.finished # <<>> /\ node \in L =>
           IF node.path = o THEN "replicas" \in node.children
           ELSE "replicas" \notin node.children /\ o[Len(node.path) + 1] \in node.children
    BY <1>10 DEF Leading, Leads
<1>13. CASE i.finished # <<>> /\ "replicas" \in node.children /\ inspector' = rest
            /\ objects' = Append(objects, node.path) /\ pc' = pc
    <2>1. node.path \in Reached
        BY <1>10, <1>13
    <2> HIDE DEF rest, node, W, L, i
    <2>2. Items(objects') = Items(objects) \cup {node.path}
        BY <1>3, <1>13, <2>1, ItemsOf
    <2>3. Holds(i, W, L) => Holds(rest, W, L) \/ node.path = o
        BY <1>11, <1>12, <1>13
    <2>4. o \in Items(objects') \/ Holds(inspector', W, L)
        BY <1>8, <1>13, <2>2, <2>3
    <2> QED
        BY <1>1, <1>13, <2>4 DEF W, L
<1>14. CASE i.finished # <<>> /\ "replicas" \notin node.children
            /\ inspector' = on /\ objects' = objects /\ pc' = pc
    <2>1. Queues(rest, Reached, Requests, Answers)
        BY <1>10, <1>14
    <2>2. below \in SUBSET Reached /\ IsFiniteSet(below)
        <3>1. node \in Requests /\ node.ready
            BY <1>10, <1>14
        <3> HIDE DEF node
        <3> QED
            BY <1>2, <1>14, <3>1, BelowReached
    <2>3. Holds(rest, W, L) \/ ~Holds(i, W, L) \/ \E p \in below : p \in W
        <3>1. node \in L => \E c \in W : c \in below
            <4>1. ASSUME node \in L PROVE \E c \in W : c \in below
                <5>1. node.path \in W /\ node.path # o /\ o[Len(node.path) + 1] \in node.children
                    <6>1. node.path \in W
                        BY <4>1 DEF Leading, Leads
                    <6> QED
                        BY <1>12, <1>14, <4>1, <6>1
                <5> HIDE DEF node, W, L, below
                <5> QED
                    BY <1>9, <5>1
            <4> QED
                BY <4>1
        <3> HIDE DEF node, W, L, below, rest
        <3> QED
            BY <1>11, <1>14, <3>1
    <2> HIDE DEF below
    <2> DEFINE s == SetToSeq(below)
    <2>4. s \in Seq(Reached) /\ Items(s) = below
        BY <2>2, ItemsOfSet, SetToSeqIn
    <2> HIDE DEF s
    <2>5. on = InspectorAdd(rest, s)
        BY DEF s
    <2> HIDE DEF node, W, L, rest, on
    <2>6. Holds(i, W, L) => Holds(on, W, L)
        <3>1. Holds(rest, W, L) \/ (\E p \in Items(s) : p \in W) =>
                 Holds(InspectorAdd(rest, s), W, L)
            BY <1>5, <1>7, <2>1, <2>4, UpdateQueuesHolds
        <3> QED
            BY <2>3, <2>4, <2>5, <3>1
    <2>7. o \in Items(objects') \/ Holds(inspector', W, L)
        BY <1>8, <1>14, <2>6
    <2> QED
        BY <1>1, <1>14, <2>7 DEF W, L
<1>15. CASE Tasks(i) = 0 /\ inspector' = i /\ objects' = objects /\ pc' = "collect"
    BY <1>6, <1>8, <1>15, NothingHeld
<1> QED
    BY <1>1, <1>13, <1>14, <1>15

\* The replicas of the next object become tasks.
LEMMA CollectLeft ==
    ASSUME CleanInv, Collect, NEW o \in Objects, InScope(o, {}),
           NEW r \in RemovedReplicas(o), r \in tree, ReplicaLeft(r, o)
    PROVE  ReplicaLeft(r, o)'
<1>1. /\ pc = "collect" /\ TreeShape(tree) /\ command \in Commands /\ command.kind \in HostKinds
    BY DEF Collect, CleanInv, Control, TreeInv, HostKinds
<1>2. o \in Items(objects) \/ (r \in DOMAIN tasks /\ tasks[r] # "done")
    BY <1>1 DEF ReplicaLeft
<1>3. objects \in Seq(Reached)
    BY DEF CleanInv, InspectorInv
<1>4. CASE objects = <<>>
    <2>1. pc' = "drop" /\ tasks' = tasks /\ Items(objects) = {}
        BY <1>3, <1>4, ItemsOf DEF Collect
    <2> QED
        BY <1>2, <2>1 DEF ReplicaLeft
<1>5. CASE objects # <<>>
    <2> DEFINE h == Head(objects)
               found == IF \/ h \notin tree
                           \/ h \in Databases /\ (command.kind = "table_hosts" \/ command.old)
                        THEN {}
                        ELSE {x \in Children(tree, Append(h, "replicas")) : HostOf(x) \in Removed}
    <2>1. /\ tasks' = [x \in DOMAIN tasks \cup found |-> IF x \in found THEN "todo" ELSE tasks[x]]
          /\ objects' = Tail(objects) /\ pc' = pc
        BY <1>5 DEF Collect
    <2>2. Items(objects) = {h} \cup Items(Tail(objects))
        BY <1>3, <1>5, ItemsOf
    <2>3. CASE h = o
        <3>1. o \in tree /\ ~(o \in Databases /\ (command.kind = "table_hosts" \/ command.old))
            BY <1>1, WayFacts DEF RemovedReplicas, InScope
        <3>2. r \in Children(tree, Append(o, "replicas")) /\ HostOf(r) \in Removed
            BY DEF RemovedReplicas, Replicas, Children
        <3>3. r \in found
            BY <2>3, <3>1, <3>2
        <3> HIDE DEF found
        <3>4. r \in DOMAIN tasks' /\ tasks'[r] # "done"
            BY <2>1, <3>3
        <3> QED
            BY <1>1, <2>1, <3>4 DEF ReplicaLeft
    <2>4. CASE o \in Items(Tail(objects))
        BY <1>1, <2>1, <2>4 DEF ReplicaLeft
    <2>5. CASE r \in DOMAIN tasks /\ tasks[r] # "done"
        <3> HIDE DEF found
        <3>1. r \in DOMAIN tasks' /\ tasks'[r] # "done"
            BY <2>1, <2>5
        <3> QED
            BY <1>1, <2>1, <3>1 DEF ReplicaLeft
    <2> QED
        BY <1>2, <2>2, <2>3, <2>4, <2>5
<1> QED
    BY <1>4, <1>5

\* A query takes its replica away, or fails.
LEMMA DropLeft ==
    ASSUME CleanInv, ~command.dry, NEW q \in DOMAIN tasks, DropReplica(q),
           NEW r \in DOMAIN tasks, tasks[r] # "done", r \in tree'
    PROVE  pc' = "drop" /\ r \in DOMAIN tasks' /\ tasks'[r] # "done"
<1>1. pc' = "drop"
    BY DEF DropReplica
<1> DEFINE gone == IF Children(tree, Front(q)) = {q} THEN ObjectOf(q) ELSE q
<1>2. \/ tasks' = [tasks EXCEPT ![q] = "done"] /\ tree' = tree \ Subtree(tree, gone)
      \/ tasks' = [tasks EXCEPT ![q] = "failed"]
    BY DEF DropReplica, ObjectOf
<1>3. DOMAIN tasks' = DOMAIN tasks
    BY <1>2
<1>4. CASE r # q
    BY <1>1, <1>2, <1>4
<1>5. CASE r = q /\ tasks' = [tasks EXCEPT ![q] = "failed"]
    BY <1>1, <1>5
<1>6. CASE r = q /\ tree' = tree \ Subtree(tree, gone)
    <2>1. q \in InitTree /\ q \in Path /\ Len(q) \in Nat /\ Len(q) >= 2
        BY InitTreeFacts, PathFacts DEF CleanInv, TasksInv, TaskOk
    <2>2. IsPrefix(ObjectOf(q), q) /\ IsPrefix(q, q)
        BY <2>1, InitialIsPrefix, PrefixOrder DEF ObjectOf
    <2>3. IsPrefix(gone, q)
        BY <2>2
    <2> HIDE DEF gone
    <2> QED
        BY <1>6, <2>3 DEF Subtree
<1> QED
    BY <1>2, <1>4, <1>5, <1>6

\* The traversal begins at the root of the command.
LEMMA FirstHolds ==
    ASSUME command \in Commands, command.kind \in HostKinds, NEW o \in Objects, InScope(o, {})
    PROVE  /\ StartPc(command) = "inspect"
           /\ Holds(Begun(command).inspector, OnTheWay(o), Leading(o))
<1>1. /\ StartPc(command) = "inspect"
      /\ Begun(command).inspector = InspectorAdd(NoInspector, <<command.root>>)
    BY StartFacts DEF Begun
<1> DEFINE s == <<command.root>>
<1>2. command.root \in Reached /\ command.root \in Path
    BY RootReached, CommandFacts
<1>3. s \in Seq(Reached) /\ command.root \in Items(s)
    BY <1>2 DEF Items
<1>4. command.root \in OnTheWay(o)
    BY <1>2, ObjectFacts, PrefixOrder DEF OnTheWay, InScope
<1> HIDE DEF s
<1>5. Holds(InspectorAdd(NoInspector, s), OnTheWay(o), Leading(o))
    BY <1>3, <1>4, RequestFacts, LeadingSets, UpdateQueuesHolds
<1> QED
    BY <1>1, <1>5 DEF s

\* The traversal begins again.
LEMMA RerunHolds ==
    ASSUME CleanInv, Rerun, command.kind \in HostKinds, NEW o \in Objects, InScope(o, {})
    PROVE  pc' = "inspect" /\ Holds(inspector', OnTheWay(o), Leading(o))
<1>1. command \in Commands
    BY DEF CleanInv, Control
<1>2. pc' = StartPc(command) /\ inspector' = Begun(command).inspector
    BY DEF Rerun
<1> QED
    BY <1>1, <1>2, FirstHolds

\* A removed replica is found and dropped, or the command fails.
LEMMA ReplicasKeep ==
    ASSUME CleanInv, ReplicasLeft, ~command.dry, Added, [Next]_vars
    PROVE  ReplicasLeft'
<1>1. command' = command
    BY CommandStays
<1>2. \A o : RemovedReplicas(o)' = RemovedReplicas(o) /\ (InScope(o, {})' <=> InScope(o, {}))
    BY <1>1, SameInScope
<1> SUFFICES ASSUME command.kind \in HostKinds, NEW o \in Objects, InScope(o, {}),
                    NEW r \in RemovedReplicas(o), r \in tree'
             PROVE  ReplicaLeft(r, o)'
    BY <1>1, <1>2 DEF ReplicasLeft
<1>3. r \in Replicas(o) /\ r \in tree
    <2>1. r \in Replicas(o)
        BY DEF RemovedReplicas
    <2>2. HasReplicas(r)
        BY <2>1, ObjectFacts, InitTreeFacts, ReplicaFactsOf DEF Replicas
    <2> QED
        BY <2>1, <2>2, ReplicasShrink
<1>4. ReplicaLeft(r, o)
    BY <1>3 DEF ReplicasLeft
<1>5. pc \in {"inspect", "collect", "drop", "failed"}
    BY <1>4 DEF ReplicaLeft
<1>6. CASE Off
    BY <1>4, <1>6 DEF Off, ReplicaLeft, OnTheWay, Leading, Leads
<1>7. CASE CommandFails
    BY <1>7, FailsFacts DEF ReplicaLeft
<1>8. CASE Rerun
    <2>1. pc' = "inspect" /\ Holds(inspector', OnTheWay(o), Leading(o))
        BY <1>8, RerunHolds
    <2> QED
        BY <1>1, <2>1 DEF ReplicaLeft, OnTheWay, Leading, Leads
<1>9. CASE Inspect
    <2>1. o \in Items(objects) \/ Holds(inspector, OnTheWay(o), Leading(o))
        BY <1>4, <1>9 DEF ReplicaLeft, Inspect
    <2>2. \/ pc' \in {"inspect", "collect"} /\ o \in Items(objects')
          \/ pc' = "inspect" /\ Holds(inspector', OnTheWay(o), Leading(o))
        BY <1>3, <1>9, <2>1, InspectHolds
    <2> QED
        BY <1>1, <2>2 DEF ReplicaLeft, OnTheWay, Leading, Leads
<1>10. CASE ZooKeeperReplies
    <2>1. pc = "inspect" /\ pc' = pc /\ objects' = objects
        BY <1>10 DEF ZooKeeperReplies
    <2>2. o \in Items(objects) \/ Holds(inspector, OnTheWay(o), Leading(o))
        BY <1>4, <2>1 DEF ReplicaLeft
    <2>3. o \in Items(objects) \/ Holds(inspector', OnTheWay(o), Leading(o))
        BY <1>3, <1>10, <2>2, RepliesHold
    <2> QED
        BY <1>1, <2>1, <2>3 DEF ReplicaLeft, OnTheWay, Leading, Leads
<1>11. CASE Collect
    BY <1>3, <1>4, <1>11, CollectLeft
<1>12. CASE \E q \in DOMAIN tasks : DropReplica(q)
    <2>1. PICK q \in DOMAIN tasks : DropReplica(q)
        BY <1>12
    <2>2. r \in DOMAIN tasks /\ tasks[r] # "done"
        BY <1>4, <2>1 DEF DropReplica, ReplicaLeft
    <2>3. pc' = "drop" /\ r \in DOMAIN tasks' /\ tasks'[r] # "done"
        BY <2>1, <2>2, DropLeft
    <2> QED
        BY <2>3 DEF ReplicaLeft
<1>13. CASE Dropped
    <2>1. r \in DOMAIN tasks /\ tasks[r] # "done"
        BY <1>4, <1>13 DEF Dropped, ReplicaLeft
    <2>2. tasks[r] = "failed"
        BY <1>13, <2>1 DEF Dropped, CleanInv, TasksInv
    <2>3. pc' = "failed"
        BY <1>13, <2>1, <2>2 DEF Dropped
    <2> QED
        BY <2>3 DEF ReplicaLeft
<1>14. ~ReplicaStep /\ ~DdlStep /\ ~WalkStep /\ ~Deletes /\ ~Deleted
    BY <1>5, ReplicaStepFacts, DdlStepFacts, WalkStepFacts, DeletesFacts, DeletedFacts DEF DeletePcs
<1> QED
    BY <1>6, <1>7, <1>8, <1>9, <1>10, <1>11, <1>12, <1>13, <1>14, StepCases DEF ObjectStep

---------------------------------------------------------------------------
(* The locks *)

\* A lock without anything below it.
LEMMA LeafFacts ==
    ASSUME CleanInv, NewInv, command.kind \in LockKinds, NEW l \in Rest, Leaf(l)
    PROVE  /\ l \in Path /\ l \in tree /\ l \in InitTree /\ IsPrefix(LockRoot, l)
           /\ LockRoot \in Path /\ Len(LockRoot) \in Nat /\ Len(l) = Len(LockRoot) + 4
           /\ Children(tree, l) = {}
           /\ command \in Commands /\ TreeShape(tree) /\ tree \in SUBSET Path
           /\ \A p \in Path : IsPrefix(p, l) /\ p # l =>
                 \E c \in Children(tree, p) : IsPrefix(c, l)
<1>1. command \in Commands /\ TreeShape(tree)
    BY DEF CleanInv, Control, TreeInv, LockKinds
<1>2. tree \in SUBSET Path /\ PrefixClosed(tree)
    BY <1>1 DEF TreeShape
<1>3. l \in Path /\ l \in tree /\ l \in InitTree
    BY InitTreeFacts DEF Rest
<1>4. IsPrefix(LockRoot, l) /\ Len(l) = Len(LockRoot) + 4 /\ Children(InitTree, l) = {}
    BY DEF Leaf, IsLock
<1>5. LockRoot \in Path /\ Len(LockRoot) \in Nat /\ Len(LockRoot) = Len(ZeroCopy) + 1
      /\ IsPrefix(ZeroCopy, LockRoot) /\ ZeroCopy \in Path /\ Len(ZeroCopy) \in Nat
    BY <1>1, LockRootFacts, InitTreeFacts, PathFacts
<1>6. ASSUME NEW c \in Children(tree, l) PROVE FALSE
    <2>1. c \in tree /\ c \in Path /\ Len(c) = Len(l) + 1 /\ IsPrefix(l, c)
        BY <1>2, ChildrenFacts
    <2>2. IsPrefix(ZeroCopy, c)
        BY <1>3, <1>4, <1>5, <2>1, PrefixOrder
    <2>3. Len(c) = Len(ZeroCopy) + 6
        BY <1>4, <1>5, <2>1
    <2>4. c \in InitTree
        <3>1. ~(Len(c) <= Len(ZeroCopy) + 5)
            BY <1>5, <2>3
        <3> QED
            BY <2>1, <2>2, <3>1 DEF NewInv, LockKinds
    <2>5. c \in Children(InitTree, l)
        BY <2>1, <2>4 DEF Children
    <2> QED
        BY <1>4, <2>5
<1>7. ASSUME NEW p \in Path, IsPrefix(p, l), p # l
      PROVE  \E c \in Children(tree, p) : IsPrefix(c, l)
    <2>1. Len(p) < Len(l)
        BY <1>3, <1>7, PrefixOrder, PathFacts
    <2> QED
        BY <1>2, <1>3, <1>7, <2>1, ChildOnTheWay
<1> QED
    BY <1>1, <1>2, <1>3, <1>4, <1>5, <1>6, <1>7

\* A lock that is left was left before.
LEMMA LeafStays ==
    ASSUME CleanInv, command.kind \in LockKinds, Added, NEW l \in Rest', IsLock(l)
    PROVE  l \in Rest
<1>1. command \in Commands
    BY DEF CleanInv, Control
<1>2. l \in InitTree /\ l \in Path /\ IsPrefix(ZeroCopy, l)
    BY <1>1, InitTreeFacts, LockRootFacts, PrefixOrder DEF Rest, IsLock
<1>3. ASSUME pc = "ddl_mark", l = Mark PROVE FALSE
    <2>1. ddl.task \in DOMAIN DdlHosts /\ Head(ddl.todo) \in DdlHosts[ddl.task]
        BY <1>3 DEF CleanInv, DdlInv
    <2> QED
        BY <1>2, <1>3, <2>1, MarkFacts DEF Mark
<1> QED
    BY <1>3, RestShrinks

\* The locks are compared with the filter at hand: replica drop may have lost the table.
LEMMA FilterAsks ==
    ASSUME CleanInv, TodoInv, command.kind \in LockKinds,
           NEW f \in Filters, Current(f), NEW l, LockMatched(f, l)
    PROVE  LockMatched(Filter, l)
<1>1. CASE command.kind \in HostKinds
    <2>1. command.kind \notin {"locks", "drop"}
        BY <1>1 DEF HostKinds
    <2>2. PICK h \in Removed : f = [table |-> "", part |-> "", prefix |-> "", replica |-> h]
        BY <2>1, Zenon DEF Filters
    <2>3. Filter = [table |-> "", part |-> "", prefix |-> "", replica |-> Head(whose.hosts)]
        BY <2>1, Zenon DEF Filter
    <2>4. Head(whose.hosts) = h
        BY <1>1, <2>2 DEF Current
    <2>5. Filter = f
        BY <2>2, <2>3, <2>4, Zenon
    <2> QED
        BY <2>5
<1>2. CASE command.kind = "locks"
    <2>1. Filter = f
        BY <1>2 DEF Filters, Filter, AskedTable, TodoInv
    <2> QED
        BY <2>1
<1>3. CASE command.kind = "drop"
    <2>1. /\ Filter.part = f.part /\ Filter.prefix = f.prefix /\ Filter.replica = f.replica
          /\ Filter.table \in {"", f.table} /\ f.replica # ""
        <3>1. command.replica # ""
            BY <1>3, OptionsAssumption DEF CleanInv, Control
        <3>2. f = [table |-> AskedTable, part |-> command.part,
                   prefix |-> command.prefix, replica |-> command.replica]
            BY <1>3 DEF Filters
        <3>3. Filter = [table |-> whose.table, part |-> command.part,
                        prefix |-> command.prefix, replica |-> command.replica]
            BY <1>3 DEF Filter
        <3>4. whose.table \in {"", AskedTable}
            BY <1>3 DEF AskedTable, TodoInv
        <3> QED
            BY <3>1, <3>2, <3>3, <3>4
    <2>2. Matches(f, l)
        BY <2>1 DEF LockMatched
    <2>3. Matches(Filter, l)
        BY <2>1, <2>2 DEF Matches
    <2> QED
        BY <2>1, <2>3 DEF LockMatched
<1> QED
    BY <1>1, <1>2, <1>3 DEF LockKinds, HostKinds

\* What a lock that is asked for by its table says.
LEMMA TableAsks ==
    ASSUME command \in Commands, NEW l \in Path, IsLock(l), NEW f, f.table \in Label
    PROVE  LockMatched(f, l) /\ f.replica = "" /\ f.prefix = "" =>
              /\ f.table # "" /\ l[Len(LockRoot) + 1] = f.table
              /\ f.part # "" => Starts(f.part, l[Len(LockRoot) + 2])
              /\ Append(LockRoot, f.table) \in Path /\ IsPrefix(Append(LockRoot, f.table), l)
<1> DEFINE q == SubSeq(l, Len(LockRoot) + 1, Len(l))
           t == Append(LockRoot, f.table)
<1>1. q[1] = l[Len(LockRoot) + 1] /\ q[2] = l[Len(LockRoot) + 2] /\ Len(l) = Len(LockRoot) + 4
    <2>1. \A i \in 1..4 : q[i] = l[Len(LockRoot) + i]
        BY LockIs
    <2> HIDE DEF q
    <2> QED
        BY <2>1 DEF IsLock
<1>2. LockMatched(f, l) /\ f.replica = "" /\ f.prefix = "" =>
          f.table # "" /\ q[1] = f.table /\ (f.part = "" \/ Starts(f.part, q[2]))
    BY DEF LockMatched
<1> HIDE DEF q
<1>3. LockRoot \in Path /\ Len(LockRoot) \in Nat /\ IsPrefix(LockRoot, l)
    BY LockRootFacts DEF IsLock
<1>4. /\ t \in Path /\ Len(t) = Len(LockRoot) + 1 /\ t[Len(LockRoot) + 1] = f.table
      /\ \A i \in 1..Len(LockRoot) : t[i] = LockRoot[i]
    BY <1>3, AppendFacts
<1>5. ASSUME q[1] = f.table PROVE IsPrefix(t, l)
    <2>1. \A i \in 1..Len(LockRoot) : LockRoot[i] = l[i]
        BY <1>3, PrefixIs
    <2> HIDE DEF t
    <2>2. \A i \in 1..Len(t) : t[i] = l[i]
        <3> SUFFICES ASSUME NEW i \in 1..Len(t) PROVE t[i] = l[i]
            OBVIOUS
        <3>1. i \in 1..Len(LockRoot) \/ i = Len(LockRoot) + 1
            BY <1>3, <1>4
        <3> QED
            BY <1>1, <1>4, <1>5, <2>1, <3>1
    <2>3. Len(t) <= Len(l)
        BY <1>1, <1>3, <1>4
    <2> QED
        BY <1>4, <2>2, <2>3, PrefixIs
<1> QED
    BY <1>1, <1>2, <1>4, <1>5

\* The paths of a stack that are still to be visited lead to l.
Covers(s, l) == \E i \in 1..Len(s) : \E c \in s[i].todo : IsPrefix(c, l)

\* The top of the stack loses what it visits, and counts what it yields.
LEMMA StackSteps ==
    ASSUME NEW s \in Seq(Frames), NEW l
    PROVE  /\ s # <<>> => \A c :
                 LET t == [s EXCEPT ![Len(s)].todo = @ \ {c}]
                 IN  /\ t \in Seq(Frames) /\ t # <<>>
                     /\ Covers(s, l) => Covers(t, l) \/ IsPrefix(c, l)
           /\ Covers(s, l) => Covers([s EXCEPT ![Len(s)].matched = @ + 1], l)
           /\ \A f \in Frames :
                 /\ Covers(s, l) => Covers(Append(s, f), l)
                 /\ (\E c \in f.todo : IsPrefix(c, l)) => Covers(Append(s, f), l)
           /\ s # <<>> /\ Last(s).todo = {} /\ Covers(s, l) => Covers(Front(s), l)
<1> DEFINE k == Len(s)
<1>1. k \in Nat /\ s \in [1..k -> Frames] /\ \A i \in 1..k : s[i] \in Frames
    BY LenProperties
<1>2. ASSUME s # <<>>, NEW c
      PROVE  LET t == [s EXCEPT ![k].todo = @ \ {c}]
             IN  /\ t \in Seq(Frames) /\ t # <<>>
                 /\ Covers(s, l) => Covers(t, l) \/ IsPrefix(c, l)
    <2> DEFINE f == s[k]
               g == [f EXCEPT !.todo = f.todo \ {c}]
               t == [s EXCEPT ![k] = g]
    <2>1. k \in 1..k
        BY <1>1, <1>2
    <2>2. g \in Frames /\ g.todo = f.todo \ {c}
        <3>1. f \in Frames
            BY <1>1, <2>1
        <3>2. f.todo \ {c} \in SUBSET Path
            BY <3>1 DEF Frames
        <3> HIDE DEF f
        <3> QED
            BY <3>1, <3>2 DEF Frames
    <2> HIDE DEF g
    <2>3. t \in Seq(Frames) /\ Len(t) = k
        BY <1>1, <2>1, <2>2, ExceptSeq
    <2>4. \A i \in 1..k : t[i] = IF i = k THEN g ELSE s[i]
        BY <1>1
    <2>5. [s EXCEPT ![k].todo = @ \ {c}] = t
        BY DEF g
    <2> HIDE DEF t, k
    <2>6. Covers(s, l) => Covers(t, l) \/ IsPrefix(c, l)
        <3> SUFFICES ASSUME NEW i \in 1..k, NEW d \in s[i].todo, IsPrefix(d, l), ~IsPrefix(c, l)
                     PROVE  \E j \in 1..k : \E e \in t[j].todo : IsPrefix(e, l)
            BY <2>3 DEF Covers, k
        <3>1. d \in t[i].todo
            BY <2>2, <2>4
        <3> QED
            BY <3>1
    <2>7. t # <<>>
        BY <2>1, <2>3
    <2> QED
        BY <2>3, <2>5, <2>6, <2>7 DEF k
<1>3. ASSUME Covers(s, l) PROVE Covers([s EXCEPT ![k].matched = @ + 1], l)
    <2> DEFINE f == s[k]
               g == [f EXCEPT !.matched = f.matched + 1]
               t == [s EXCEPT ![k] = g]
    <2>1. [s EXCEPT ![k].matched = @ + 1] = t
        OBVIOUS
    <2>2. k \in 1..k
        BY <1>1, <1>3 DEF Covers
    <2>3. g.todo = f.todo
        <3>1. f \in Frames
            BY <1>1, <2>2
        <3> HIDE DEF f
        <3> QED
            BY <3>1 DEF Frames
    <2> HIDE DEF g
    <2>4. DOMAIN t = 1..k /\ \A i \in 1..k : t[i] = IF i = k THEN g ELSE s[i]
        BY <1>1
    <2>5. Len(t) = k
        BY <1>1, <2>4
    <2> HIDE DEF t, k
    <2>6. \A i \in 1..k : t[i].todo = s[i].todo
        BY <2>3, <2>4
    <2>7. Covers(t, l)
        BY <1>3, <2>5, <2>6 DEF Covers, k
    <2> QED
        BY <2>1, <2>7
<1>4. ASSUME NEW f \in Frames
      PROVE  /\ Covers(s, l) => Covers(Append(s, f), l)
             /\ (\E c \in f.todo : IsPrefix(c, l)) => Covers(Append(s, f), l)
    <2>1. /\ Len(Append(s, f)) = k + 1 /\ Append(s, f)[k + 1] = f /\ k + 1 \in 1..(k + 1)
          /\ \A i \in 1..k : Append(s, f)[i] = s[i] /\ i \in 1..(k + 1)
        BY <1>1
    <2> QED
        BY <2>1 DEF Covers
<1>5. ASSUME s # <<>>, Last(s).todo = {}, Covers(s, l) PROVE Covers(Front(s), l)
    <2>1. PICK i \in 1..k : \E c \in s[i].todo : IsPrefix(c, l)
        BY <1>5 DEF Covers
    <2>2. i \in 1..(k - 1)
        BY <1>1, <1>5, <2>1 DEF Last
    <2>3. Front(s) = [j \in 1..(k - 1) |-> s[j]]
        BY <1>1 DEF Front
    <2>4. Len(Front(s)) = k - 1
        BY <1>1, <2>2, <2>3
    <2> QED
        BY <2>1, <2>2, <2>3, <2>4 DEF Covers
<1> QED
    BY <1>2, <1>3, <1>4, <1>5

---------------------------------------------------------------------------
(* The clean-up of the locks comes to each lock *)

\* A lock that is asked for, without anything below it, and the clean-up is to come to it.
LockTodo(f, l) ==
    /\ command.kind \in LockKinds /\ l \in Rest /\ f \in Filters /\ Leaf(l) /\ LockMatched(f, l)
    /\ LockLeft(f, l)

\* The clean-up is at the lock with the filter at hand.
AtHand(f, l) ==
    /\ Current(f)
    /\ \/ pc = "locks"
       \/ pc \in {"walk", "walk_delete"} /\ (StackCovers(l) \/ FoundCovers(l))
       \/ pc = "find" /\ (QueueCovers(l) \/ FoundCovers(l))
       \/ pc \in {"walk_delete", "delete"} /\ DelCovers(del, l)

LatePcs == {"locks", "walk", "walk_delete", "find", "delete"}

\* Later with another host, or with the one at hand.
LEMMA LockLeftIs ==
    /\ \A f, l : LockLeft(f, l) <=> pc \in BeforeLocks \/ (pc \in LatePcs /\ Later(f)) \/ AtHand(f, l)
    /\ \A f : command' = command /\ whose' = whose => (Later(f)' <=> Later(f)) /\ (Current(f)' <=> Current(f))
BY DEF LockLeft, AtHand, LatePcs, Later, Current

\* Where the clean-up of the host at hand is to be after a step.
AtHandNext(f, l) ==
    /\ Current(f)
    /\ \/ pc' = "locks"
       \/ pc' \in {"walk", "walk_delete"} /\ (StackCovers(l)' \/ FoundCovers(l)')
       \/ pc' = "find" /\ (QueueCovers(l)' \/ FoundCovers(l)')
       \/ pc' \in {"walk_delete", "delete"} /\ DelCovers(del', l)

\* The command and the host at hand stay.
LEMMA LockLeftNext ==
    ASSUME command' = command, whose' = whose, NEW f, NEW l
    PROVE  /\ pc' \in LatePcs /\ Later(f) => LockLeft(f, l)'
           /\ AtHandNext(f, l) => LockLeft(f, l)'
<1>1. (Later(f)' <=> Later(f)) /\ (Current(f)' <=> Current(f))
    BY DEF Later, Current
<1>2. pc' \in LatePcs /\ Later(f) => LockLeft(f, l)'
    BY <1>1 DEF LockLeft, LatePcs
<1>3. DelCovers(del, l)' <=> DelCovers(del', l)
    BY DEF DelCovers, Items
<1>4. ASSUME AtHandNext(f, l) PROVE LockLeft(f, l)'
    <2>1. CASE pc' = "locks"
        BY <1>1, <1>4, <2>1 DEF LockLeft, AtHandNext
    <2>2. CASE pc' \in {"walk", "walk_delete"} /\ (StackCovers(l)' \/ FoundCovers(l)')
        BY <1>1, <1>4, <2>2 DEF LockLeft, AtHandNext
    <2>3. CASE pc' = "find" /\ (QueueCovers(l)' \/ FoundCovers(l)')
        BY <1>1, <1>4, <2>3 DEF LockLeft, AtHandNext
    <2>4. CASE pc' \in {"walk_delete", "delete"} /\ DelCovers(del', l)
        BY <1>1, <1>3, <1>4, <2>4 DEF LockLeft, AtHandNext
    <2> QED
        BY <1>4, <2>1, <2>2, <2>3, <2>4 DEF AtHandNext
<1> QED
    BY <1>2, <1>4

\* The clean-up of the next host, or of the command, begins.
LEMMA CleanLocksLeft ==
    ASSUME CleanInv, NewInv, TodoInv, NEW f, NEW l, LockTodo(f, l), CleanLocks
    PROVE  LockLeft(f, l)'
<1>1. /\ pc = "locks" /\ command' = command /\ whose' = whose /\ pc \in LatePcs
      /\ pc \notin BeforeLocks
    BY DEF CleanLocks, LatePcs, BeforeLocks
<1>2. command.kind \in LockKinds /\ l \in Rest /\ f \in Filters /\ Leaf(l) /\ LockMatched(f, l)
      /\ LockLeft(f, l)
    BY DEF LockTodo
<1>3. Later(f) \/ Current(f)
    BY <1>1, <1>2, LockLeftIs DEF AtHand
<1>4. ~(command.kind \notin {"locks", "drop"} /\ whose.hosts = <<>>)
    BY <1>2, <1>3 DEF Later, Current, LockKinds, HostKinds
<1>5. CASE Later(f)
    <2>1. pc' \in LatePcs
        BY <1>4 DEF CleanLocks, LatePcs
    <2> QED
        BY <1>1, <1>5, <2>1, LockLeftNext
<1>6. CASE Current(f)
    <2>1. /\ l \in Path /\ l \in tree /\ IsPrefix(LockRoot, l) /\ LockRoot \in Path
          /\ Len(LockRoot) \in Nat /\ Len(l) = Len(LockRoot) + 4 /\ command \in Commands
          /\ \A p \in Path : IsPrefix(p, l) /\ p # l =>
                \E c \in Children(tree, p) : IsPrefix(c, l)
        BY <1>2, LeafFacts
    <2>2. LockMatched(Filter, l) /\ Filter.table \in Label /\ LockRoot' = LockRoot
        BY <1>1, <1>2, <1>6, FilterAsks, FilterTable, SameNames
    <2>3. CASE pc' = "walk" /\ walk' = [NoWalk EXCEPT !.stack = <<Frame(LockRoot)>>]
        <3>1. walk'.stack = <<Frame(LockRoot)>> /\ Frame(LockRoot).todo = Children(tree, LockRoot)
            BY <2>3 DEF NoWalk, Frame
        <3>2. PICK c \in Children(tree, LockRoot) : IsPrefix(c, l)
            <4>1. l # LockRoot
                BY <2>1
            <4> QED
                BY <2>1, <4>1
        <3>3. StackCovers(l)'
            BY <3>1, <3>2 DEF StackCovers
        <3> QED
            BY <1>1, <1>6, <2>3, <3>3, LockLeftNext DEF AtHandNext
    <2>4. CASE pc' = "find" /\ walk' = [NoWalk EXCEPT !.queue = <<LockRoot>>]
        <3>1. walk'.queue = <<LockRoot>>
            BY <2>4 DEF NoWalk
        <3>2. IsPrefix(LockRoot, LockRoot) /\ Len(LockRoot) <= Len(LockRoot) + 1
            BY <2>1, PrefixOrder
        <3>3. LockRoot \in Items(walk'.queue)
            BY <3>1 DEF Items
        <3>4. QueueCovers(l)'
            BY <2>1, <2>2, <3>2, <3>3 DEF QueueCovers
        <3> QED
            BY <1>1, <1>6, <2>4, <3>4, LockLeftNext DEF AtHandNext
    <2>5. CASE /\ ~(Filter.replica # "" \/ Filter.prefix # "") /\ ~(Filter.part # "")
               /\ pc' = "delete"
               /\ del' \in StartedDelete(IF Filter.table = "" THEN {}
                                         ELSE {Append(LockRoot, Filter.table)})
        <3> DEFINE t == Append(LockRoot, Filter.table)
        <3>1. Filter.table # "" /\ t \in Path /\ IsPrefix(t, l)
            BY <1>2, <2>1, <2>2, <2>5, TableAsks DEF Leaf
        <3>2. del' \in StartedDelete({t})
            BY <2>5, <3>1
        <3> HIDE DEF t
        <3>3. {t} \in SUBSET Path /\ IsFiniteSet({t}) /\ t \in {t}
            BY <3>1, FS_Singleton
        <3>4. DelCovers(del', l)
            BY <2>1, <3>1, <3>2, <3>3, StartCovers
        <3> QED
            BY <1>1, <1>6, <2>5, <3>4, LockLeftNext DEF AtHandNext
    <2> QED
        BY <1>4, <2>3, <2>4, <2>5 DEF CleanLocks
<1> QED
    BY <1>3, <1>5, <1>6

\* Where the clean-up is before a step of the walk.
LEMMA WalkTodo ==
    ASSUME CleanInv, NewInv, TodoInv, NEW f, NEW l, LockTodo(f, l),
           pc \in {"walk", "walk_delete", "find"}
    PROVE  /\ Later(f) \/ (Current(f) /\ AtHand(f, l) /\ LockMatched(Filter, l))
           /\ l \in Path /\ l \in tree /\ IsPrefix(LockRoot, l) /\ LockRoot \in Path
           /\ Len(LockRoot) \in Nat /\ Len(l) = Len(LockRoot) + 4 /\ command \in Commands
           /\ IsLock(l) /\ Filter.table \in Label
           /\ tree \in SUBSET Path /\ IsFiniteSet(tree) /\ Children(tree, l) = {}
           /\ \A p \in Path : IsPrefix(p, l) /\ p # l =>
                 \E c \in Children(tree, p) : IsPrefix(c, l)
<1>1. command.kind \in LockKinds /\ l \in Rest /\ f \in Filters /\ Leaf(l) /\ LockMatched(f, l)
      /\ LockLeft(f, l)
    BY DEF LockTodo
<1>2. Later(f) \/ (Current(f) /\ AtHand(f, l))
    <2>1. pc \notin BeforeLocks
        BY DEF BeforeLocks
    <2> QED
        BY <1>1, <2>1, LockLeftIs DEF AtHand
<1>3. Current(f) => LockMatched(Filter, l)
    BY <1>1, FilterAsks
<1>4. IsLock(l) /\ Filter.table \in Label
    BY <1>1, FilterTable DEF Leaf
<1>5. /\ l \in Path /\ l \in tree /\ IsPrefix(LockRoot, l) /\ LockRoot \in Path
      /\ Len(LockRoot) \in Nat /\ Len(l) = Len(LockRoot) + 4 /\ command \in Commands
      /\ tree \in SUBSET Path /\ TreeShape(tree) /\ Children(tree, l) = {}
      /\ \A p \in Path : IsPrefix(p, l) /\ p # l =>
            \E c \in Children(tree, p) : IsPrefix(c, l)
    BY <1>1, LeafFacts
<1> QED
    BY <1>2, <1>3, <1>4, <1>5 DEF TreeShape

\* A path is yielded: it is found, or its batch is deleted.
LEMMA YieldCovers ==
    ASSUME CleanInv, pc = "walk", NEW s \in Seq(Frames), NEW p \in Path, Yield(s, p),
           NEW l \in Path, Covers(s, l) \/ FoundCovers(l) \/ IsPrefix(p, l)
    PROVE  \/ pc' = "walk_delete" /\ (StackCovers(l)' \/ DelCovers(del', l))
           \/ pc' = "walk" /\ (StackCovers(l)' \/ FoundCovers(l)')
<1> DEFINE up == [s EXCEPT ![Len(s)].matched = @ + 1]
           found == walk.found \cup {p}
<1>1. walk = [stack |-> walk.stack, queue |-> walk.queue, found |-> walk.found]
      /\ walk.found \in SUBSET Path /\ IsFiniteSet(walk.found)
    BY DEF CleanInv, WalkInv, Going
<1>2. \/ /\ walk' = [walk EXCEPT !.stack = up, !.found = {}]
         /\ del' \in StartedDelete(found) /\ pc' = "walk_delete"
      \/ walk' = [walk EXCEPT !.stack = up, !.found = found] /\ pc' = "walk"
    BY DEF Yield
<1>3. Covers(s, l) => Covers(up, l)
    BY StackSteps
<1>4. found \in SUBSET Path /\ IsFiniteSet(found)
      /\ (FoundCovers(l) \/ IsPrefix(p, l) => \E c \in found : IsPrefix(c, l))
    BY <1>1, FS_AddElement DEF FoundCovers
<1> HIDE DEF up, found
<1>5. walk'.stack = up
    BY <1>1, <1>2
<1>6. Covers(up, l) => StackCovers(l)'
    BY <1>5 DEF Covers, StackCovers
<1>7. CASE del' \in StartedDelete(found) /\ pc' = "walk_delete"
    <2>1. ASSUME NEW c \in found, IsPrefix(c, l) PROVE DelCovers(del', l)
        BY <1>4, <1>7, <2>1, StartCovers
    <2> QED
        BY <1>3, <1>4, <1>6, <1>7, <2>1
<1>8. CASE walk' = [walk EXCEPT !.stack = up, !.found = found] /\ pc' = "walk"
    <2>1. walk'.found = found
        BY <1>1, <1>8
    <2> QED
        BY <1>3, <1>4, <1>6, <1>8, <2>1 DEF FoundCovers
<1> QED
    BY <1>2, <1>7, <1>8

\* The walk comes to a child.
LEMMA WalkVisitLeft ==
    ASSUME CleanInv, NewInv, TodoInv, NEW f, NEW l, LockTodo(f, l), WalkVisit
    PROVE  LockLeft(f, l)'
<1> DEFINE top == Last(walk.stack)
           child == CHOOSE c \in top.todo : TRUE
           stack == [walk.stack EXCEPT ![Len(walk.stack)].todo = @ \ {child}]
<1>1. /\ pc = "walk" /\ command' = command /\ whose' = whose
      /\ walk.stack # <<>> /\ top.todo # {} /\ child \in top.todo
      /\ \/ /\ Children(tree, child) # {}
            /\ walk' = [walk EXCEPT !.stack = Append(stack, Frame(child))] /\ pc' = pc
         \/ Children(tree, child) = {} /\ Yield(stack, child)
         \/ /\ Children(tree, child) = {} /\ ~Matches(Filter, child)
            /\ walk' = [walk EXCEPT !.stack = stack] /\ pc' = pc
    BY DEF WalkVisit
<1>2. CASE Later(f)
    <2>1. pc' \in LatePcs
        BY <1>1 DEF Yield, LatePcs
    <2> QED
        BY <1>1, <1>2, <2>1, LockLeftNext
<1>3. CASE ~Later(f)
    <2>1. /\ Current(f) /\ AtHand(f, l) /\ LockMatched(Filter, l)
          /\ l \in Path /\ l \in tree /\ Children(tree, l) = {} /\ tree \in SUBSET Path
          /\ \A p \in Path : IsPrefix(p, l) /\ p # l =>
                \E c \in Children(tree, p) : IsPrefix(c, l)
        BY <1>1, <1>3, WalkTodo
    <2>2. walk = [stack |-> walk.stack, queue |-> walk.queue, found |-> walk.found]
          /\ StackOk(walk.stack) /\ walk.stack \in Seq(Frames)
        BY DEF CleanInv, WalkInv, StackOk
    <2>3. child \in Path /\ IsPrefix(LockRoot, top.path) /\ IsPrefix(top.path, child)
          /\ top.path \in Path
        BY <1>1, <2>2, TopFrame, FrameVisits DEF Frames
    <2>4. IsPrefix(LockRoot, child)
        BY <2>3, WalkTodo, <1>1, PrefixOrder
    <2>5. Covers(walk.stack, l) \/ FoundCovers(l)
        BY <1>1, <2>1 DEF AtHand, StackCovers, Covers
    <2>6. stack \in Seq(Frames) /\ (Covers(walk.stack, l) => Covers(stack, l) \/ IsPrefix(child, l))
        BY <1>1, <2>2, StackSteps
    <2> HIDE DEF child, stack, top
    <2>7. CASE Children(tree, child) # {}
               /\ walk' = [walk EXCEPT !.stack = Append(stack, Frame(child))] /\ pc' = pc
        <3>1. walk'.stack = Append(stack, Frame(child)) /\ walk'.found = walk.found
            BY <2>2, <2>7
        <3>2. Frame(child) \in Frames /\ Frame(child).todo = Children(tree, child)
            <4>1. Frame(child) \in Frames
                BY <1>1, <2>3, <2>4, NewFrame DEF CleanInv, Control, LockKinds
            <4> QED
                BY <4>1 DEF Frame
        <3>3. IsPrefix(child, l) => \E c \in Children(tree, child) : IsPrefix(c, l)
            BY <2>1, <2>3, <2>7
        <3>4. Covers(stack, l) \/ IsPrefix(child, l) => Covers(walk'.stack, l)
            <4> DEFINE f1 == Frame(child)
            <4>1. f1 \in Frames /\ (IsPrefix(child, l) => \E c \in f1.todo : IsPrefix(c, l))
                BY <3>2, <3>3
            <4> HIDE DEF f1
            <4>2. /\ Covers(stack, l) => Covers(Append(stack, f1), l)
                  /\ (\E c \in f1.todo : IsPrefix(c, l)) => Covers(Append(stack, f1), l)
                BY <2>6, <4>1, StackSteps
            <4> QED
                BY <3>1, <4>1, <4>2 DEF f1
        <3>5. StackCovers(l)' \/ FoundCovers(l)'
            BY <2>5, <2>6, <3>1, <3>4 DEF StackCovers, Covers, FoundCovers
        <3> QED
            BY <1>1, <2>1, <2>7, <3>5, LockLeftNext DEF AtHandNext
    <2>8. CASE Yield(stack, child)
        <3>1. \/ pc' = "walk_delete" /\ (StackCovers(l)' \/ DelCovers(del', l))
              \/ pc' = "walk" /\ (StackCovers(l)' \/ FoundCovers(l)')
            BY <1>1, <2>1, <2>3, <2>5, <2>6, <2>8, YieldCovers
        <3> QED
            BY <1>1, <2>1, <3>1, LockLeftNext DEF AtHandNext
    <2>9. CASE Children(tree, child) = {} /\ ~Matches(Filter, child)
               /\ walk' = [walk EXCEPT !.stack = stack] /\ pc' = pc
        <3>1. walk'.stack = stack /\ walk'.found = walk.found
            BY <2>2, <2>9
        <3>2. ~IsPrefix(child, l)
            <4>1. child # l
                <5>1. Matches(Filter, l)
                    BY <1>1, <2>1, WalkHasFilter DEF LockMatched
                <5> QED
                    BY <2>9, <5>1
            <4> QED
                BY <2>1, <2>3, <2>9, <4>1
        <3>3. StackCovers(l)' \/ FoundCovers(l)'
            BY <2>5, <2>6, <3>1, <3>2 DEF StackCovers, Covers, FoundCovers
        <3> QED
            BY <1>1, <2>1, <2>9, <3>3, LockLeftNext DEF AtHandNext
    <2> QED
        BY <1>1, <2>7, <2>8, <2>9
<1> QED
    BY <1>2, <1>3

\* The walk leaves a directory.
LEMMA WalkLeaveLeft ==
    ASSUME CleanInv, NewInv, TodoInv, NEW f, NEW l, LockTodo(f, l), WalkLeave
    PROVE  LockLeft(f, l)'
<1> DEFINE top == Last(walk.stack)
<1>1. /\ pc = "walk" /\ command' = command /\ whose' = whose
      /\ walk.stack # <<>> /\ top.todo = {}
      /\ \/ Yield(Front(walk.stack), top.path)
         \/ walk' = [walk EXCEPT !.stack = Front(walk.stack)] /\ pc' = pc
    BY DEF WalkLeave
<1>2. CASE Later(f)
    <2>1. pc' \in LatePcs
        BY <1>1 DEF Yield, LatePcs
    <2> QED
        BY <1>1, <1>2, <2>1, LockLeftNext
<1>3. CASE ~Later(f)
    <2>1. Current(f) /\ AtHand(f, l) /\ l \in Path
        BY <1>1, <1>3, WalkTodo
    <2>2. walk = [stack |-> walk.stack, queue |-> walk.queue, found |-> walk.found]
          /\ StackOk(walk.stack) /\ walk.stack \in Seq(Frames)
        BY DEF CleanInv, WalkInv, StackOk
    <2>3. Covers(walk.stack, l) \/ FoundCovers(l)
        BY <1>1, <2>1 DEF AtHand, StackCovers, Covers
    <2>4. Front(walk.stack) \in Seq(Frames) /\ top.path \in Path
        BY <1>1, <2>2, PopFrame, TopFrame DEF StackOk, Frames
    <2>5. Covers(Front(walk.stack), l) \/ FoundCovers(l)
        BY <1>1, <2>2, <2>3, StackSteps
    <2> DEFINE s == Front(walk.stack)
    <2> HIDE DEF top, s
    <2>6. CASE Yield(s, top.path)
        <3>1. \/ pc' = "walk_delete" /\ (StackCovers(l)' \/ DelCovers(del', l))
              \/ pc' = "walk" /\ (StackCovers(l)' \/ FoundCovers(l)')
            BY <1>1, <2>1, <2>4, <2>5, <2>6, YieldCovers DEF s
        <3> QED
            BY <1>1, <2>1, <3>1, LockLeftNext DEF AtHandNext
    <2>7. CASE walk' = [walk EXCEPT !.stack = s] /\ pc' = pc
        <3>1. walk'.stack = s /\ walk'.found = walk.found
            BY <2>2, <2>7
        <3>2. StackCovers(l)' \/ FoundCovers(l)'
            BY <2>5, <3>1 DEF StackCovers, Covers, FoundCovers, s
        <3> QED
            BY <1>1, <2>1, <2>7, <3>2, LockLeftNext DEF AtHandNext
    <2> QED
        BY <1>1, <2>6, <2>7 DEF s
<1> QED
    BY <1>2, <1>3

---------------------------------------------------------------------------
(* The walk ends, and the locks of the next host follow *)

\* A batch of the walk is deleted.
LEMMA WalkDeletedLeft ==
    ASSUME CleanInv, NewInv, TodoInv, NEW f, NEW l, LockTodo(f, l), WalkDeleted
    PROVE  LockLeft(f, l)'
<1>1. /\ pc = "walk_delete" /\ pc' = "walk" /\ del.phase = "done" /\ command' = command
      /\ walk' = walk /\ whose' = whose
    BY DEF WalkDeleted
<1>2. ~DelCovers(del, l)
    BY <1>1, DoneCovers
<1>3. (StackCovers(l)' <=> StackCovers(l)) /\ (FoundCovers(l)' <=> FoundCovers(l))
    BY <1>1 DEF StackCovers, FoundCovers
<1>4. Later(f) \/ (Current(f) /\ AtHand(f, l))
    BY <1>1, WalkTodo
<1> QED
    BY <1>1, <1>2, <1>3, <1>4, LockLeftNext DEF AtHand, AtHandNext, LatePcs

\* The walk ends, and what it found last is deleted.
LEMMA WalkEndsLeft ==
    ASSUME CleanInv, NewInv, TodoInv, NEW f, NEW l, LockTodo(f, l), WalkEnds
    PROVE  LockLeft(f, l)'
<1>1. /\ pc = "walk" /\ pc' = "delete" /\ walk.stack = <<>> /\ command' = command
      /\ whose' = whose /\ del' \in StartedDelete(walk.found)
    BY DEF WalkEnds
<1>2. ~StackCovers(l)
    BY <1>1 DEF StackCovers
<1>3. walk.found \in SUBSET Path /\ IsFiniteSet(walk.found)
    BY DEF CleanInv, WalkInv, Going
<1>4. (Later(f) \/ (Current(f) /\ AtHand(f, l))) /\ l \in Path
    BY <1>1, WalkTodo
<1>5. FoundCovers(l) => DelCovers(del', l)
    BY <1>1, <1>3, <1>4, StartCovers DEF FoundCovers
<1> QED
    BY <1>1, <1>2, <1>4, <1>5, LockLeftNext DEF AtHand, AtHandNext, LatePcs

\* The search for the part finds its directory, or goes on towards it.
LEMMA FindPathsLeft ==
    ASSUME CleanInv, NewInv, TodoInv, NEW f, NEW l, LockTodo(f, l), FindPaths
    PROVE  LockLeft(f, l)'
<1> DEFINE q == Head(walk.queue)
           below == Children(tree, q)
           match == {c \in below : /\ Len(c) = Len(LockRoot) + 2
                                   /\ c[Len(c) - 1] = Filter.table
                                   /\ Starts(Filter.part, Last(c))}
           queue == Tail(walk.queue) \o SetToSeq(below \ match)
<1>1. /\ pc = "find" /\ pc' = pc /\ walk.queue # <<>> /\ command' = command /\ whose' = whose
      /\ walk' = [walk EXCEPT !.queue = queue, !.found = @ \cup match]
    BY DEF FindPaths
<1>2. CASE Later(f)
    BY <1>1, <1>2, LockLeftNext DEF LatePcs
<1>3. CASE ~Later(f)
    <2>1. /\ Current(f) /\ AtHand(f, l) /\ LockMatched(Filter, l)
          /\ l \in Path /\ l \in tree /\ tree \in SUBSET Path /\ IsFiniteSet(tree)
          /\ LockRoot \in Path /\ Len(LockRoot) \in Nat /\ Len(l) = Len(LockRoot) + 4
          /\ IsLock(l) /\ command \in Commands /\ Filter.table \in Label
          /\ \A p \in Path : IsPrefix(p, l) /\ p # l =>
                \E c \in Children(tree, p) : IsPrefix(c, l)
        BY <1>1, <1>3, WalkTodo
    <2>2. /\ walk = [stack |-> walk.stack, queue |-> walk.queue, found |-> walk.found]
          /\ walk.queue \in Seq(Path)
        <3>1. /\ walk = [stack |-> walk.stack, queue |-> walk.queue, found |-> walk.found]
              /\ walk.queue \in Seq({p \in Path : IsPrefix(LockRoot, p)})
            BY DEF CleanInv, WalkInv
        <3> QED
            BY <3>1, SeqMonotonic
    <2>3. walk'.queue = queue /\ walk'.found = walk.found \cup match
        BY <1>1, <2>2
    <2>4. QueueCovers(l) \/ FoundCovers(l)
        BY <1>1, <2>1 DEF AtHand
    <2>5. /\ LockMatched(Filter, l) /\ Filter.replica = "" /\ Filter.prefix = ""
          /\ Filter.part # ""
        BY <1>1, <2>1 DEF CleanInv, WhoseInv
    <2>6. l[Len(LockRoot) + 1] = Filter.table /\ Starts(Filter.part, l[Len(LockRoot) + 2])
        BY <2>1, <2>5, TableAsks
    <2>7. Items(walk.queue) = {q} \cup Items(Tail(walk.queue)) /\ Tail(walk.queue) \in Seq(Path)
          /\ q \in Path
        BY <1>1, <2>2, ItemsOf
    <2>8. /\ below \in SUBSET Path /\ IsFiniteSet(below)
          /\ \A c \in below : c \in Path /\ Len(c) = Len(q) + 1 /\ IsPrefix(q, c)
        BY <2>1, ChildrenFacts
    <2>9. Items(queue) = Items(Tail(walk.queue)) \cup (below \ match)
        <3> DEFINE others == below \ match
        <3>1. IsFiniteSet(others) /\ others \in SUBSET Path
            BY <2>8, FS_Subset
        <3> HIDE DEF others
        <3>2. SetToSeq(others) \in Seq(Path) /\ Items(SetToSeq(others)) = others
            <4>1. SetToSeq(others) \in Seq(others) /\ Items(SetToSeq(others)) = others
                BY <3>1, ItemsOfSet
            <4> QED
                BY <3>1, <4>1, SeqMonotonic
        <3>3. \A s, t \in Seq(Path) : Items(s \o t) = Items(s) \cup Items(t)
            BY ItemsOf
        <3>4. Items(Tail(walk.queue) \o SetToSeq(others)) = Items(Tail(walk.queue)) \cup others
            BY <2>7, <3>2, <3>3
        <3> QED
            BY <3>4 DEF others
    <2>10. ASSUME IsPrefix(LockRoot, q), IsPrefix(q, l), Len(q) <= Len(LockRoot) + 1
           PROVE  QueueCovers(l)' \/ FoundCovers(l)'
        <3>1. Len(q) \in Nat /\ q # l
            BY <2>1, <2>7, <2>10, PathFacts
        <3>2. PICK c \in below : IsPrefix(c, l)
            BY <2>1, <2>7, <2>10, <3>1
        <3>3. c \in Path /\ Len(c) = Len(q) + 1 /\ IsPrefix(LockRoot, c)
            BY <2>1, <2>7, <2>8, <2>10, <3>2, PrefixOrder
        <3>4. Len(LockRoot) <= Len(q)
            BY <2>1, <2>7, <2>10, PrefixOrder
        <3>5. CASE Len(q) = Len(LockRoot)
            <4>1. Len(c) # Len(LockRoot) + 2 /\ Len(c) <= Len(LockRoot) + 1
                BY <2>1, <3>1, <3>3, <3>5
            <4>2. c \in below \ match
                BY <3>2, <4>1
            <4> HIDE DEF queue, match, below, q
            <4>3. c \in Items(walk'.queue)
                BY <2>3, <2>9, <4>2
            <4>4. LockRoot' = LockRoot
                BY <1>1, SameNames
            <4> QED
                BY <3>2, <3>3, <4>1, <4>3, <4>4 DEF QueueCovers
        <3>6. CASE Len(q) = Len(LockRoot) + 1
            <4>1. Len(c) = Len(LockRoot) + 2
                BY <2>1, <3>3, <3>6
            <4>2. \A i \in 1..Len(c) : c[i] = l[i]
                BY <2>1, <3>2, <3>3, PrefixIs
            <4>3. c[Len(c) - 1] = Filter.table /\ Last(c) = l[Len(LockRoot) + 2]
                <5>1. /\ Len(c) - 1 \in 1..Len(c) /\ Len(c) - 1 = Len(LockRoot) + 1
                      /\ Len(c) \in 1..Len(c)
                    BY <2>1, <4>1
                <5> HIDE DEF queue, match, below, q
                <5>2. c[Len(c) - 1] = l[Len(LockRoot) + 1]
                    BY <4>2, <5>1
                <5>3. c[Len(c)] = l[Len(LockRoot) + 2]
                    BY <4>1, <4>2, <5>1
                <5> QED
                    BY <2>6, <5>2, <5>3 DEF Last
            <4>4. c \in match
                BY <2>6, <3>2, <4>1, <4>3
            <4> HIDE DEF queue, match, below, q
            <4>5. c \in walk'.found
                BY <2>3, <4>4
            <4> QED
                BY <3>2, <4>5 DEF FoundCovers
        <3> QED
            BY <2>1, <2>10, <3>1, <3>4, <3>5, <3>6
    <2> HIDE DEF queue, match, below, q
    <2>11. QueueCovers(l)' \/ FoundCovers(l)'
        <3>1. CASE FoundCovers(l)
            BY <2>3, <3>1 DEF FoundCovers
        <3>2. CASE QueueCovers(l)
            <4>1. PICK p \in Items(walk.queue) :
                      IsPrefix(LockRoot, p) /\ IsPrefix(p, l) /\ Len(p) <= Len(LockRoot) + 1
                BY <3>2 DEF QueueCovers
            <4>2. CASE p = q
                BY <2>10, <4>1, <4>2
            <4>3. CASE p \in Items(Tail(walk.queue))
                <5>1. p \in Items(walk'.queue)
                    BY <2>3, <2>9, <4>3
                <5>2. LockRoot' = LockRoot
                    BY <1>1, SameNames
                <5> QED
                    BY <4>1, <5>1, <5>2 DEF QueueCovers
            <4> QED
                BY <2>7, <4>1, <4>2, <4>3
        <3> QED
            BY <2>4, <3>1, <3>2
    <2> QED
        BY <1>1, <2>1, <2>11, LockLeftNext DEF AtHandNext
<1> QED
    BY <1>2, <1>3

\* The search ends, and the directories of the part, or of the table, are deleted.
LEMMA PathsFoundLeft ==
    ASSUME CleanInv, NewInv, TodoInv, NEW f, NEW l, LockTodo(f, l), PathsFound
    PROVE  LockLeft(f, l)'
<1> DEFINE table == Append(LockRoot, Filter.table)
<1>1. /\ pc = "find" /\ walk.queue = <<>> /\ command' = command /\ whose' = whose
      /\ \/ walk.found = {}
         \/ pc' = "delete" /\ (del' \in StartedDelete({table}) \/ del' \in StartedDelete(walk.found))
    BY DEF PathsFound
<1>2. ~Later(f)
    <2>1. command.kind = "locks"
        <3>1. Filter.part # "" /\ command \in Commands
            BY <1>1 DEF CleanInv, WhoseInv, Control
        <3> QED
            BY <3>1, CommandsAssumption DEF Filter
    <2> QED
        BY <2>1 DEF Later, HostKinds
<1>3. /\ Current(f) /\ AtHand(f, l) /\ LockMatched(Filter, l) /\ l \in Path /\ IsLock(l)
      /\ command \in Commands /\ Filter.table \in Label
    BY <1>1, <1>2, WalkTodo
<1>4. ~QueueCovers(l)
    BY <1>1 DEF QueueCovers, Items
<1>5. FoundCovers(l) /\ walk.found # {}
    BY <1>1, <1>3, <1>4 DEF AtHand, FoundCovers
<1>6. walk.found \in SUBSET Path /\ IsFiniteSet(walk.found)
    BY DEF CleanInv, WalkInv, Going
<1>7. table \in Path /\ IsPrefix(table, l)
    <2>1. Filter.replica = "" /\ Filter.prefix = ""
        BY <1>1 DEF CleanInv, WhoseInv
    <2> QED
        BY <1>3, <2>1, TableAsks
<1> HIDE DEF table
<1>8. DelCovers(del', l)
    <2>1. CASE del' \in StartedDelete({table})
        <3>1. {table} \in SUBSET Path /\ IsFiniteSet({table}) /\ table \in {table}
            BY <1>7, FS_Singleton
        <3> QED
            BY <1>3, <1>7, <2>1, <3>1, StartCovers
    <2>2. CASE del' \in StartedDelete(walk.found)
        BY <1>3, <1>5, <1>6, <2>2, StartCovers DEF FoundCovers
    <2> QED
        BY <1>1, <1>5, <2>1, <2>2
<1> QED
    BY <1>1, <1>3, <1>5, <1>8, LockLeftNext DEF AtHandNext

\* The deletion of the locks of a host ends.
LEMMA DeletedLeft ==
    ASSUME CleanInv, NewInv, TodoInv, NEW f, NEW l, LockTodo(f, l), Deleted
    PROVE  LockLeft(f, l)'
<1>1. /\ pc = "delete" /\ del.phase = "done" /\ command' = command
      /\ whose' = IF whose.hosts = <<>> THEN whose ELSE [whose EXCEPT !.hosts = Tail(@)]
      /\ pc' = IF command.kind \in {"hosts", "table_hosts"} THEN "locks" ELSE "ended"
    BY DEF Deleted
<1>2. ~DelCovers(del, l) /\ LockLeft(f, l)
    BY <1>1, DoneCovers DEF LockTodo
<1>3. Later(f)
    <2>1. pc \notin BeforeLocks
        BY <1>1 DEF BeforeLocks
    <2> QED
        BY <1>1, <1>2, <2>1 DEF LockLeft
<1>4. command.kind \in HostKinds /\ whose.hosts # <<>> /\ f.replica \in Items(Tail(whose.hosts))
    BY <1>3 DEF Later
<1>5. whose = [hosts |-> whose.hosts, table |-> whose.table] /\ whose.hosts \in Seq(Removed)
    BY DEF CleanInv, WhoseInv
<1>6. whose'.hosts = Tail(whose.hosts) /\ pc' = "locks"
    BY <1>1, <1>4, <1>5 DEF HostKinds
<1> DEFINE t == Tail(whose.hosts)
<1>7. t \in Seq(Removed)
    BY <1>4, <1>5, ItemsOf
<1> HIDE DEF t
<1>8. t # <<>> /\ (f.replica = Head(t) \/ f.replica \in Items(Tail(t)))
    <2>1. f.replica \in Items(t)
        BY <1>4 DEF t
    <2> QED
        BY <1>7, <2>1, ItemsOf
<1>9. whose'.hosts = t
    BY <1>6 DEF t
<1>10. CASE f.replica = Head(t)
    <2>1. Current(f)'
        BY <1>8, <1>9, <1>10 DEF Current
    <2> QED
        BY <1>6, <2>1 DEF LockLeft
<1>11. CASE f.replica \in Items(Tail(t))
    <2>1. Later(f)'
        BY <1>1, <1>4, <1>8, <1>9, <1>11 DEF Later
    <2> QED
        BY <1>6, <2>1 DEF LockLeft
<1> QED
    BY <1>8, <1>10, <1>11

\* The clean-up of the locks begins with the hosts of the command.
LEMMA LocksBegin ==
    ASSUME command \in Commands, command' = command, pc' = "locks", NEW f \in Filters, NEW l,
           command.kind \in HostKinds => whose'.hosts = command.hosts
    PROVE  LockLeft(f, l)'
<1>1. CASE command.kind \notin HostKinds
    <2>1. Current(f)'
        BY <1>1 DEF Current
    <2> QED
        BY <2>1 DEF LockLeft
<1>2. CASE command.kind \in HostKinds
    <2> DEFINE s == command.hosts
    <2>1. f.replica \in Items(s) /\ s \in Seq(STRING)
        <3>1. PICK h \in Removed : f = [table |-> "", part |-> "", prefix |-> "", replica |-> h]
            <4>1. command.kind \notin {"locks", "drop"}
                BY <1>2 DEF HostKinds
            <4> QED
                BY <4>1, Zenon DEF Filters
        <3>2. f.replica = h
            BY <3>1
        <3>3. s \in Seq(STRING)
            BY CommandsAssumption DEF Command
        <3>4. Removed \subseteq Items(s)
            BY <3>3 DEF Removed, Range, Items
        <3> QED
            BY <3>2, <3>3, <3>4
    <2>2. whose'.hosts = s
        BY <1>2
    <2> HIDE DEF s
    <2>3. s # <<>> /\ (f.replica = Head(s) \/ f.replica \in Items(Tail(s)))
        BY <2>1, ItemsOf
    <2>4. Current(f)' \/ Later(f)'
        BY <1>2, <2>2, <2>3 DEF Current, Later
    <2> QED
        BY <2>4 DEF LockLeft
<1> QED
    BY <1>1, <1>2

---------------------------------------------------------------------------
(* Every step leaves the locks to the clean-up *)

\* Nothing of the clean-up changes.
LEMMA LockLeftSame ==
    ASSUME UNCHANGED <<command, pc, walk, whose>>, NEW f, NEW l, LockLeft(f, l),
           DelCovers(del, l) => DelCovers(del', l)
    PROVE  LockLeft(f, l)'
<1>1. LockRoot' = LockRoot
    BY SameNames
<1>2. /\ StackCovers(l)' <=> StackCovers(l)
      /\ FoundCovers(l)' <=> FoundCovers(l)
      /\ QueueCovers(l)' <=> QueueCovers(l)
    BY <1>1 DEF StackCovers, FoundCovers, QueueCovers, Items
<1>3. CASE pc \in BeforeLocks
    BY <1>3 DEF LockLeft
<1>4. CASE pc \in LatePcs /\ Later(f)
    BY <1>4, LockLeftNext
<1>5. CASE AtHand(f, l)
    BY <1>2, <1>5, LockLeftNext DEF AtHand, AtHandNext
<1> QED
    BY <1>3, <1>4, <1>5, LockLeftIs

\* What is left of the locks.
LEMMA LocksStayLeft ==
    ASSUME CleanInv, NewInv, TodoInv, LocksLeft, ~command.dry, Added, [Next]_vars
    PROVE  LocksLeft'
<1>1. command' = command
    BY CommandStays
<1>14. /\ Filters' = Filters
       /\ \A l : Leaf(l)' <=> Leaf(l)
       /\ \A f, l : LockMatched(f, l)' <=> LockMatched(f, l)
    <2>1. Filters' = Filters
        BY <1>1, SameFilters
    <2>2. ASSUME NEW f, NEW l PROVE (Leaf(l)' <=> Leaf(l)) /\ (LockMatched(f, l)' <=> LockMatched(f, l))
        BY <1>1, SameMatches DEF Leaf
    <2> QED
        BY <2>1, <2>2
<1> SUFFICES ASSUME command.kind \in LockKinds, NEW l \in Rest', NEW f \in Filters,
                    Leaf(l), LockMatched(f, l)
             PROVE  LockLeft(f, l)'
    BY <1>1, <1>14 DEF LocksLeft
<1>2. l \in Rest /\ command \in Commands
    BY LeafStays DEF Leaf, CleanInv, Control
<1>3. LockLeft(f, l) /\ LockTodo(f, l)
    BY <1>2, <1>14 DEF LocksLeft, LockTodo
<1>4. l \in tree /\ l \in tree'
    BY <1>2 DEF Rest
<1>5. CASE Off
    BY <1>3, <1>5, LockLeftSame DEF Off
<1>6. CASE CommandFails
    <2>1. pc' = "failed"
        BY <1>6, FailsFacts
    <2> QED
        BY <2>1 DEF LockLeft, BeforeLocks
<1>7. CASE Rerun
    <2>1. /\ pc' = StartPc(command) /\ whose' = Begun(command).whose
        BY <1>7 DEF Rerun
    <2>2. command.kind = "locks" => pc' = "locks"
        BY <2>1 DEF StartPc
    <2>3. command.kind # "locks" => pc' \in {"inspect", "replica"}
        BY <2>1 DEF StartPc, LockKinds
    <2>4. CASE command.kind = "locks"
        BY <1>1, <1>2, <2>2, <2>4, LocksBegin DEF HostKinds
    <2> QED
        BY <2>3, <2>4 DEF LockLeft, BeforeLocks
<1>8. CASE ObjectStep
    <2>1. /\ pc \in {"inspect", "collect", "drop"} /\ whose' = whose
          /\ pc' \in {"inspect", "collect", "drop", "ddl_list", "locks", "failed"}
        BY <1>8, ObjectStepFacts
    <2>2. CASE pc' = "locks"
        <3>1. whose.hosts = command.hosts
            BY <2>1 DEF TodoInv
        <3> QED
            BY <1>1, <1>2, <2>1, <2>2, <3>1, LocksBegin
    <2> QED
        BY <2>1, <2>2 DEF LockLeft, BeforeLocks
<1>9. CASE ReplicaStep
    <2>1. pc \in {"replica", "shared_id"} /\ pc' \in {"shared_id", "locks", "failed"}
        BY <1>9, ReplicaStepFacts
    <2>2. CASE pc' = "locks"
        <3>1. command.kind \notin HostKinds
            BY <2>1 DEF CleanInv, Control, HostKinds
        <3> QED
            BY <1>1, <1>2, <2>2, <3>1, LocksBegin
    <2> QED
        BY <2>1, <2>2 DEF LockLeft, BeforeLocks
<1>10. CASE DdlStep
    <2>1. /\ pc \in {"ddl_list", "ddl", "ddl_mark", "ddl_wait", "ddl_delete"} /\ whose' = whose
          /\ pc' \in {"ddl", "ddl_mark", "ddl_wait", "ddl_delete", "locks", "failed"}
        BY <1>10, DdlStepFacts
    <2>2. CASE pc' = "locks"
        <3>1. whose.hosts = command.hosts
            BY <2>1 DEF TodoInv
        <3> QED
            BY <1>1, <1>2, <2>1, <2>2, <3>1, LocksBegin
    <2> QED
        BY <2>1, <2>2 DEF LockLeft, BeforeLocks
<1>11. CASE WalkStep
    BY <1>3, <1>11, CleanLocksLeft, WalkVisitLeft, WalkLeaveLeft, WalkDeletedLeft, WalkEndsLeft,
       FindPathsLeft, PathsFoundLeft DEF WalkStep
<1>12. CASE Deletes
    <2>1. UNCHANGED <<command, pc, walk, whose>>
        BY <1>12, DeletesFacts
    <2>2. DelCovers(del, l) => DelCovers(del', l)
        BY <1>4, <1>12, DeletesCover
    <2> QED
        BY <1>3, <2>1, <2>2, LockLeftSame
<1>13. CASE Deleted
    BY <1>3, <1>13, DeletedLeft
<1> QED
    BY <1>5, <1>6, <1>7, <1>8, <1>9, <1>10, <1>11, <1>12, <1>13, StepCases

---------------------------------------------------------------------------
(* A command that ends has left nothing *)

\* Nothing is gone when the command starts.
LEMMA LeftInit == LocksInit => LeftInv
<1> SUFFICES ASSUME LocksInit PROVE LeftInv
    OBVIOUS
<1>1. /\ command \in Commands /\ tree = InitTree /\ fresh = {} /\ pc = StartPc(command)
      /\ del \in Begun(command).del /\ inspector = Begun(command).inspector
      /\ ddl = NoDdl /\ walk = NoWalk /\ whose = Begun(command).whose
    BY DEF LocksInit, Init
<1>2. /\ whose.hosts = command.hosts /\ whose.table = command.table
      /\ ddl.todo = <<>> /\ ddl.remove = <<>> /\ walk.found = {}
    BY <1>1 DEF Begun, NoDdl, NoWalk
<1>3. NewInv
    BY <1>1 DEF NewInv
<1>4. TodoInv
    BY <1>2 DEF TodoInv
<1>5. OutInv
    <2>1. command.kind \in HostKinds \cup {"drop"} => del = NoDelete
        BY <1>1 DEF Begun, HostKinds
    <2> QED
        BY <1>2, <2>1, OutsideFacts, DeletionStartsIn DEF OutInv, Items
<1>6. PathsLeft
    <2> SUFFICES ASSUME command.kind = "delete", NEW n \in Rest, NEW p \in command.paths,
                        IsPrefix(p, n)
                 PROVE  pc = "delete" /\ DelCovers(del, n)
        BY DEF PathsLeft
    <2>1. pc = "delete" /\ del \in StartedDelete(command.paths)
        BY <1>1, StartFacts DEF Begun
    <2>2. command.paths \in SUBSET Path /\ IsFiniteSet(command.paths) /\ n \in Path
        BY <1>1, CommandFacts, InitTreeFacts DEF Rest
    <2> QED
        BY <2>1, <2>2, StartCovers
<1>7. LocksLeft
    <2> SUFFICES ASSUME command.kind \in LockKinds, NEW f, NEW l PROVE LockLeft(f, l)
        BY DEF LocksLeft
    <2>1. CASE command.kind = "locks"
        BY <1>1, <2>1, StartFacts DEF LockLeft, Current, HostKinds
    <2>2. CASE command.kind # "locks"
        <3>1. pc \in {"inspect", "replica"}
            BY <1>1, <2>2, StartFacts DEF LockKinds, HostKinds
        <3> QED
            BY <3>1 DEF LockLeft, BeforeLocks
    <2> QED
        BY <2>1, <2>2
<1>8. ReplicasLeft
    BY <1>1, FirstHolds DEF ReplicasLeft, ReplicaLeft
<1>9. ReplicaNodeLeft
    BY <1>1, StartFacts DEF ReplicaNodeLeft
<1>10. ObjectsLeft
    <2> SUFFICES ASSUME NEW o \in Objects, Replicas(o) # {} PROVE Replicas(o) \cap tree # {}
        BY DEF ObjectsLeft, AllGo
    <2>1. Replicas(o) \subseteq InitTree
        BY InitTreeFacts, ChildrenFacts DEF Replicas
    <2> QED
        BY <1>1, <2>1
<1>11. TasksLeft
    <2> SUFFICES ASSUME command.ddl PROVE pc = "inspect"
        BY DEF TasksLeft, TaskLeft
    <2>1. command.kind \in HostKinds
        BY <1>1, OptionsAssumption DEF HostKinds
    <2> QED
        BY <1>1, <2>1, StartFacts
<1> QED
    BY <1>3, <1>4, <1>5, <1>6, <1>7, <1>8, <1>9, <1>10, <1>11 DEF LeftInv

\* create-zero-copy-locks deletes nothing.
LEMMA LeftOfCreate ==
    ASSUME CleanInv, CleanInv', LeftInv, command.kind = "create", command' = command,
           \/ UNCHANGED <<del, ddl, walk>>
           \/ ddl' = NoDdl /\ walk' = NoWalk
           \/ UNCHANGED <<ddl, walk>>
    PROVE  LeftInv'
<1>1. command'.kind = "create" /\ pc' \in {"create", "ended", "failed"} /\ command \in Commands
    BY DEF CleanInv, Control
<1>2. NewInv' /\ TodoInv'
    BY <1>1 DEF NewInv, TodoInv
<1>3. OutInv'
    <2>1. Items(ddl'.remove) \subseteq DOMAIN DdlHosts
        BY DEF LeftInv, OutInv, NoDdl, Items
    <2>2. \A c \in walk'.found : IsPrefix(LockRoot', c)
        BY SameNames DEF LeftInv, OutInv, NoWalk
    <2> QED
        BY <1>1, <2>1, <2>2 DEF OutInv, HostKinds, Items
<1>4. ~command.ddl
    BY <1>1, OptionsAssumption
<1>5. PathsLeft' /\ LocksLeft' /\ ReplicasLeft' /\ ReplicaNodeLeft' /\ ObjectsLeft' /\ TasksLeft'
    BY <1>1, <1>4 DEF PathsLeft, LocksLeft, ReplicasLeft, ReplicaNodeLeft, ObjectsLeft, TasksLeft,
                      LockKinds, HostKinds
<1> QED
    BY <1>2, <1>3, <1>5 DEF LeftInv

\* Every step of a command that deletes leaves the rest to later ones.
LEMMA LeftNextKeeps ==
    ASSUME CleanInv, LeftInv, [Next]_vars, command.kind # "create"
    PROVE  LeftInv'
<1>1. NewInv /\ TodoInv /\ OutInv
    BY DEF LeftInv
<1>2. Added /\ command' = command
    BY StepAdds, CommandStays
<1>3. NewInv'
    BY <1>1, <1>2, NewKeeps
<1>4. TodoInv'
    BY <1>1, TodoKeeps
<1>5. OutInv'
    BY <1>1, OutKeeps
<1>6. ASSUME ~command'.dry
      PROVE  PathsLeft' /\ LocksLeft' /\ ReplicasLeft' /\ ReplicaNodeLeft' /\ ObjectsLeft'
             /\ TasksLeft'
    <2>1. /\ ~command.dry /\ PathsLeft /\ LocksLeft /\ ReplicasLeft /\ ReplicaNodeLeft
          /\ ObjectsLeft /\ TasksLeft
        BY <1>2, <1>6 DEF LeftInv
    <2>2. PathsLeft'
        BY <1>2, <2>1, PathsKeep
    <2>3. LocksLeft'
        BY <1>1, <1>2, <2>1, LocksStayLeft
    <2>4. ReplicasLeft' /\ ReplicaNodeLeft'
        BY <1>2, <2>1, ReplicasKeep, ReplicaNodeKeeps
    <2>5. ObjectsLeft'
        BY <1>1, <1>2, <2>1, ObjectsKeep
    <2>6. TasksLeft'
        BY <1>1, <1>2, <2>1, TasksKeep
    <2> QED
        BY <2>2, <2>3, <2>4, <2>5, <2>6
<1> QED
    BY <1>3, <1>4, <1>5, <1>6 DEF LeftInv

\* Every step leaves what is left.
LEMMA LeftKeeps == CleanInv /\ LeftInv /\ [LocksNext]_allVars => LeftInv'
<1> SUFFICES ASSUME CleanInv, LeftInv, [LocksNext]_allVars PROVE LeftInv'
    OBVIOUS
<1>1. CleanInv'
    BY CleanKeeps
<1>2. \/ [Next]_vars
      \/ /\ pc = "create" /\ command' = command /\ UNCHANGED <<ddl, walk>>
    <2>1. CASE Beside(Next)
        BY <2>1 DEF Beside
    <2>2. CASE Create
        <3>1. PICK k \in DOMAIN creators : TaskStep(k)
            BY <2>2 DEF Create
        <3>2. CASE TaskStarts(k) \/ TaskLooks(k) \/ TaskReadsValue(k) \/ TaskReadsParents(k)
            BY <3>2 DEF TaskStarts, TaskLooks, TaskReadsValue, TaskReadsParents
        <3>3. CASE TaskCommits(k)
            BY <2>2, <3>3 DEF Create, TaskCommits, cleanVars
        <3> QED
            BY <3>1, <3>2, <3>3 DEF TaskStep
    <2>3. CASE CreateEnds
        BY <2>3 DEF CreateEnds
    <2>4. CASE UNCHANGED allVars
        BY <2>4 DEF allVars
    <2>5. CASE ServerWrites
        BY <2>5 DEF ServerWrites
    <2> QED
        BY <2>1, <2>2, <2>3, <2>4, <2>5 DEF LocksNext
<1>3. CASE pc = "create" /\ command' = command /\ UNCHANGED <<ddl, walk>>
    BY <1>1, <1>3, LeftOfCreate DEF CleanInv, Control
<1>4. CASE [Next]_vars /\ command.kind # "create"
    BY <1>4, LeftNextKeeps
<1>5. CASE [Next]_vars /\ command.kind = "create"
    <2>1. command' = command /\ pc \in {"create", "ended", "failed"}
        BY <1>5, CommandStays DEF CleanInv, Control
    <2>2. ~ObjectStep /\ ~ReplicaStep /\ ~DdlStep /\ ~WalkStep /\ ~Deletes /\ ~Deleted
        BY <2>1, ObjectStepFacts, ReplicaStepFacts, DdlStepFacts, WalkStepFacts, DeletesFacts,
           DeletedFacts DEF DeletePcs
    <2>3. Off \/ CommandFails \/ Rerun
        BY <1>5, <2>2, StepCases
    <2>4. UNCHANGED <<ddl, walk>> \/ (ddl' = NoDdl /\ walk' = NoWalk)
        BY <2>3, FailsFacts DEF Off, Rerun
    <2> QED
        BY <1>1, <1>5, <2>1, <2>4, LeftOfCreate
<1> QED
    BY <1>2, <1>3, <1>4, <1>5

\* The locks that a command was asked to delete are gone when it ends.
LEMMA NoLockLeft ==
    ASSUME CleanInv, LeftInv, pc = "ended", ~command.dry, NEW n \in Rest,
           Children(InitTree, n) = {}, IsStrictPrefix(LockRoot, n) => IsLock(n)
    PROVE  ~LocksMatched(n, {})
<1> SUFFICES ASSUME LocksMatched(n, {}) PROVE FALSE
    OBVIOUS
<1>1. n \in InitTree /\ n \in Path /\ command \in Commands
    BY InitTreeFacts DEF Rest, CleanInv, Control
<1>2. IsLock(n) /\ Leaf(n)
    BY DEF LocksMatched, Leaf
<1>3. PICK f \in Filters : LockMatched(f, n)
    <2>1. IsPrefix(n, n)
        BY <1>1, PrefixOrder
    <2> QED
        BY <1>1, <1>2, <2>1 DEF LocksMatched
<1>4. CASE command.kind \in LockKinds
    <2>1. LockLeft(f, n)
        BY <1>2, <1>3, <1>4 DEF LeftInv, LocksLeft
    <2> QED
        BY <2>1 DEF LockLeft, BeforeLocks
<1>5. CASE command.kind \notin LockKinds
    <2>1. command.hosts = <<>>
        BY <1>1, <1>5, OptionsAssumption DEF LockKinds
    <2>2. Removed = {}
        BY <2>1 DEF Removed, Range
    <2> QED
        BY <1>3, <1>5, <2>2 DEF Filters, LockKinds
<1> QED
    BY <1>4, <1>5

\* A node below a replica, or in an object without other replicas, is gone.
LEMMA NoReplicaLeft ==
    ASSUME CleanInv, LeftInv, pc = "ended", ~command.dry, command.kind # "create",
           NEW n \in Rest
    PROVE  /\ \A r \in Path : IsPrefix(r, n) /\ r # <<>> => r \in tree
           /\ \A o \in Objects : IsPrefix(o, n) /\ AllGo(o) /\ RemovedStayAway(command)
                                 /\ command.kind \in HostKinds \cup {"drop"} =>
                 Replicas(o) \cap tree # {}
<1>1. ASSUME NEW r \in Path, IsPrefix(r, n), r # <<>> PROVE r \in tree
    <2>1. tree \in SUBSET Path /\ PrefixClosed(tree) /\ n \in tree
        BY <1>1 DEF CleanInv, TreeInv, TreeShape, Rest
    <2> QED
        BY <1>1, <2>1, AboveIsThere
<1>2. ASSUME NEW o \in Objects, IsPrefix(o, n), AllGo(o), RemovedStayAway(command),
             command.kind \in HostKinds \cup {"drop"}
      PROVE  Replicas(o) \cap tree # {}
    <2>1. n \in Subtree(Rest, o)
        BY <1>2 DEF Subtree
    <2> QED
        BY <1>2, <2>1 DEF LeftInv, ObjectsLeft
<1> QED
    BY <1>1, <1>2

\* A removed replica is gone.
LEMMA RemovedAreGone ==
    ASSUME CleanInv, LeftInv, pc = "ended", ~command.dry, command.kind \in HostKinds,
           NEW o \in Objects, InScope(o, {}), NEW r \in RemovedReplicas(o)
    PROVE  r \notin tree
<1> SUFFICES ASSUME r \in tree PROVE FALSE
    OBVIOUS
<1>1. ReplicaLeft(r, o)
    BY DEF LeftInv, ReplicasLeft
<1> QED
    BY <1>1 DEF ReplicaLeft

\* What a command was asked to delete is gone when it ends.
LEMMA NothingAskedIsLeft ==
    ASSUME CleanInv, LeftInv, RemovedStayAway(command), pc = "ended", ~command.dry,
           NEW n \in Rest, Children(InitTree, n) = {},
           command.kind # "delete" /\ IsStrictPrefix(LockRoot, n) => IsLock(n)
    PROVE  ~MatchedFor(n, {})
<1>1. n \in InitTree /\ n \in tree /\ n \in Path /\ command \in Commands
    BY InitTreeFacts DEF Rest, CleanInv, Control
<1>2. command.kind \in {"delete", "locks", "create", "drop"} \cup HostKinds
    BY <1>1, StartFacts
<1>3. command.kind # "delete" => ~LocksMatched(n, {})
    BY NoLockLeft
<1>4. CASE command.kind = "delete"
    <2>1. \A p \in command.paths : ~IsPrefix(p, n)
        BY <1>4 DEF LeftInv, PathsLeft
    <2> QED
        BY <1>4, <2>1 DEF MatchedFor
<1>5. CASE command.kind = "locks"
    BY <1>3, <1>5 DEF MatchedFor
<1>6. CASE command.kind = "drop"
    <2>1. ReplicaNode \notin tree
        BY <1>6 DEF LeftInv, ReplicaNodeLeft
    <2>2. ~IsPrefix(ReplicaNode, n)
        <3>1. ReplicaNode \in Path /\ ReplicaNode # <<>>
            BY <1>1, ReplicaNodeFacts
        <3> QED
            BY <1>6, <2>1, <3>1, NoReplicaLeft
    <2>3. ASSUME IsPrefix(command.root, n), ReplicaNode \in InitTree,
                 Replicas(command.root) \ {} \subseteq {ReplicaNode}
          PROVE  FALSE
        <3>1. command.root \in Path /\ Front(ReplicaNode) = Append(command.root, "replicas")
            BY <1>1, CommandFacts, ReplicaNodeFacts
        <3>2. ReplicaNode \in Path /\ ReplicaNode # <<>>
              /\ Len(ReplicaNode) = Len(command.root) + 2 /\ Len(command.root) \in Nat
            BY <1>1, ReplicaNodeFacts
        <3> DEFINE q == Append(command.root, "replicas")
        <3>3. q \in Path /\ Len(q) = Len(command.root) + 1 /\ q # <<>>
            BY <3>1, BelowReplicas
        <3>4. IsPrefix(q, ReplicaNode)
            <4>1. Len(ReplicaNode) - 1 \in 0..Len(ReplicaNode)
                BY <3>2
            <4>2. q = SubSeq(ReplicaNode, 1, Len(ReplicaNode) - 1)
                BY <3>1 DEF Front
            <4> QED
                BY <3>2, <4>1, <4>2, InitialIsPrefix
        <3> HIDE DEF q
        <3>5. q \in InitTree
            BY <2>3, <3>3, <3>4, InitTreeFacts, AboveIsThere
        <3>6. command.root \in Objects
            BY <3>1, <3>5, ObjectIs DEF q
        <3>7. ReplicaNode \in Replicas(command.root)
            <4>1. ReplicaNode \in Children(InitTree, q)
                BY <2>3, <3>2, <3>3, <3>4 DEF Children
            <4> QED
                BY <4>1 DEF Replicas, q
        <3>8. AllGo(command.root)
            BY <1>6, <2>3, <3>7 DEF AllGo
        <3>9. Replicas(command.root) \cap tree # {}
            BY <1>6, <2>3, <3>6, <3>8, NoReplicaLeft
        <3> QED
            BY <2>1, <2>3, <3>9
    <2> QED
        BY <1>3, <1>6, <2>2, <2>3 DEF MatchedFor
<1>7. CASE command.kind = "create"
    <2>1. command.hosts = <<>> /\ ~command.ddl
        BY <1>1, <1>7, OptionsAssumption
    <2>2. Removed = {}
        BY <2>1 DEF Removed, Range
    <2>3. \A o : RemovedReplicas(o) = {}
        BY <2>2 DEF RemovedReplicas
    <2> QED
        BY <1>3, <1>7, <2>1, <2>3 DEF MatchedFor
<1>8. CASE command.kind \in HostKinds
    <2>1. ASSUME NEW o \in Objects, IsPrefix(o, n), InScope(o, {}),
                 NEW r \in RemovedReplicas(o), IsPrefix(r, n)
          PROVE  FALSE
        <3>1. r \in Path /\ r # <<>>
            BY InitTreeFacts, ChildrenFacts DEF RemovedReplicas, Replicas
        <3>2. r \in tree
            BY <1>8, <2>1, <3>1, NoReplicaLeft DEF HostKinds
        <3> QED
            BY <1>8, <2>1, <3>2, RemovedAreGone
    <2>2. ASSUME NEW o \in Objects, IsPrefix(o, n), InScope(o, {}), RemovedReplicas(o) # {},
                 Replicas(o) \ {} \subseteq RemovedReplicas(o)
          PROVE  FALSE
        <3>1. AllGo(o)
            BY <1>8, <2>2 DEF AllGo, RemovedReplicas, HostKinds
        <3>2. PICK r \in Replicas(o) : r \in tree
            BY <1>8, <2>2, <3>1, NoReplicaLeft DEF HostKinds
        <3> QED
            BY <1>8, <2>2, <3>2, RemovedAreGone
    <2>3. ASSUME NEW q \in DOMAIN DdlHosts, command.ddl, IsPrefix(q, n),
                 DdlHosts[q] \cap Removed # {}
          PROVE  FALSE
        <3>1. TaskLeft(q, n)
            BY <2>3 DEF LeftInv, TasksLeft
        <3> QED
            BY <3>1 DEF TaskLeft
    <2>4. MatchedFor(n, {}) =>
              \/ \E o \in Objects :
                    /\ IsPrefix(o, n) /\ InScope(o, {})
                    /\ \/ \E r \in RemovedReplicas(o) : IsPrefix(r, n)
                       \/ /\ RemovedReplicas(o) # {}
                          /\ Replicas(o) \ {} \subseteq RemovedReplicas(o)
              \/ \E q \in DOMAIN DdlHosts :
                    command.ddl /\ IsPrefix(q, n) /\ DdlHosts[q] \cap Removed # {}
              \/ LocksMatched(n, {})
        BY <1>8 DEF MatchedFor, HostKinds
    <2> QED
        BY <1>3, <1>8, <2>1, <2>2, <2>3, <2>4 DEF HostKinds
<1> QED
    BY <1>2, <1>4, <1>5, <1>6, <1>7, <1>8

\* The code matches the locks that the options name.
LEMMA AskedIsMatched ==
    ASSUME command \in Commands, NEW n \in InitTree, NEW lost, AskedFor(n, lost)
    PROVE  MatchedFor(n, lost)
<1>1. ASSUME NEW f \in Filters, NEW l \in InitTree, IsLock(l), LockAsked(f, l)
      PROVE  LockMatched(f, l)
    <2> DEFINE q == SubSeq(l, Len(LockRoot) + 1, Len(l))
    <2>1. /\ f.table # "" \/ f.prefix # "" \/ f.replica # ""
          /\ f.table \in {"", q[1]} /\ f.part \in {"", q[2]}
          /\ Starts(f.prefix, q[3]) /\ f.replica \in {"", q[4]}
        BY <1>1 DEF LockAsked
    <2>2. Len(q) = 4
        <3>1. l \in Path /\ LockRoot \in Path /\ Len(l) = Len(LockRoot) + 4
            BY <1>1, InitTreeFacts, LockRootFacts DEF IsLock
        <3>2. Len(LockRoot) \in Nat /\ Len(LockRoot) + 1 \in 1..Len(l)
            BY <3>1, LenProperties
        <3> QED
            BY <3>1, <3>2, SubSeqProperties
    <2>3. Starts(f.replica, q[4]) /\ (f.part = "" \/ Starts(f.part, q[2]))
        BY <2>1 DEF Starts
    <2> QED
        BY <2>1, <2>2, <2>3 DEF LockMatched, Matches
<1>2. LocksAsked(n, lost) => LocksMatched(n, lost)
    BY <1>1 DEF LocksMatched, LocksAsked
<1> QED
    BY <1>2 DEF MatchedFor, AskedFor

\* EndedIsClean: unless a server deletes one of the removed replicas itself, a command
\* that ends without an error has left nothing of what it was asked to delete.
THEOREM EndedCommandsCleaned == LocksSpec => [](RemovedStayAway(command) => EndedIsClean)
<1>1. ASSUME CleanInv, LeftInv PROVE RemovedStayAway(command) => EndedIsClean
    <2> SUFFICES ASSUME RemovedStayAway(command), pc = "ended", ~command.dry,
                        NEW n \in Rest, Children(InitTree, n) = {},
                        command.kind # "delete" /\ IsStrictPrefix(LockRoot, n) => IsLock(n)
                 PROVE  ~AskedFor(n, {})
        BY DEF EndedIsClean, Asked, Rest
    <2>1. ~MatchedFor(n, {})
        BY <1>1, NothingAskedIsLeft
    <2>2. n \in InitTree /\ command \in Commands
        BY <1>1 DEF Rest, CleanInv, Control
    <2> QED
        BY <2>1, <2>2, AskedIsMatched
<1>2. LocksInit => CleanInv /\ LeftInv
    BY CleanInit, LeftInit
<1>3. CleanInv /\ LeftInv /\ [LocksNext]_allVars => CleanInv' /\ LeftInv'
    BY CleanKeeps, LeftKeeps
<1> QED
    BY <1>1, <1>2, <1>3, PTL DEF LocksSpec
=============================================================================
