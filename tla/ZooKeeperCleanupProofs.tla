---------------------- MODULE ZooKeeperCleanupProofs ----------------------
(***************************************************************************)
(* The commands of ZooKeeperCleanup, beside the tasks of ZeroCopyLocks, for *)
(* every tree, command line, batch size and step of the servers: what they *)
(* queue, list and delete is what the code matches with the command line,  *)
(* outside of two races with the servers; it is what the command line asks *)
(* for when no name asked for begins another one.                          *)
(***************************************************************************)
EXTENDS ZeroCopyLocksProofs, FiniteSetTheorems, WellFoundedInduction

\* The names in paths, and paths.
Label == STRING \cup {"replicas", "finished", "table_shared_id", "zero_copy_None", ""}
Path == Seq(Label)

\* No server takes the last replica but the one to drop, or the node the uuid of its
\* table is read from.
TableStays(c) ==
    /\ Append(c.root, "table_shared_id") \in InitTree
    /\ \E r \in Replicas(c.root) :
          /\ r # c.root \o <<"replicas", c.replica>>
          /\ \A p \in ServerDrops : ~IsPrefix(p, r)
    /\ \A p \in ServerDrops : ~IsPrefix(p, Append(c.root, "table_shared_id"))

\* The two commands that delete more than they were asked to in a race with a server:
\* replica drop without the uuid of the table, and the clean-up of one part.
RaceFree(c) ==
    /\ c.kind = "drop" /\ c.table = "" => TableStays(c)
    /\ c.kind = "locks" /\ c.part # "" /\ c.replica = "" /\ c.prefix = "" =>
          \A p \in ServerDrops :
              IsPrefix(ZeroCopy, p) \/ IsPrefix(p, ZeroCopy) => Len(p) > Len(ZeroCopy) + 3

\* What the code compares a lock with: the templates are not anchored at their ends.
LockMatched(f, l) ==
    LET q == SubSeq(l, Len(LockRoot) + 1, Len(l))
    IN  IF f.replica # "" \/ f.prefix # "" THEN Matches(f, l)
        ELSE f.table # "" /\ q[1] = f.table /\ (f.part = "" \/ Starts(f.part, q[2]))

\* LocksAsked and AskedFor of the module ZooKeeperCleanup, with what the code compares.
LocksMatched(n, lost) ==
    /\ IsStrictPrefix(LockRoot, n)
    /\ \A l \in InitTree \ lost :
          IsLock(l) /\ (IsPrefix(n, l) \/ IsPrefix(l, n)) => \E f \in Filters : LockMatched(f, l)

MatchedFor(n, lost) ==
    CASE command.kind = "delete" -> \E p \in command.paths : IsPrefix(p, n)
      [] command.kind = "locks" -> LocksMatched(n, lost)
      [] command.kind = "drop" ->
            \/ /\ command.replica \notin ActiveHosts
               /\ \/ IsPrefix(ReplicaNode, n)
                  \/ /\ IsPrefix(command.root, n) /\ ReplicaNode \in InitTree
                     /\ Replicas(command.root) \ lost \subseteq {ReplicaNode}
            \/ LocksMatched(n, lost)
      [] OTHER ->
            \/ \E o \in Objects :
                  /\ IsPrefix(o, n) /\ InScope(o, lost)
                  /\ \/ \E r \in RemovedReplicas(o) : IsPrefix(r, n)
                     \/ /\ RemovedReplicas(o) # {}
                        /\ Replicas(o) \ lost \subseteq RemovedReplicas(o)
            \/ \E q \in DOMAIN DdlHosts :
                  command.ddl /\ IsPrefix(q, n) /\ DdlHosts[q] \cap Removed # {}
            \/ LocksMatched(n, lost)

\* Everything of the first tree at p and below it may be deleted.
MayGo(p) ==
    RaceFree(command) =>
        \A n \in InitTree \ env.dropped : IsPrefix(p, n) => MatchedFor(n, env.dropped)

Going == {p \in Path : MayGo(p)}

---------------------------------------------------------------------------
(* The invariant *)

HostKinds == {"hosts", "table_hosts"}
LockKinds == {"hosts", "table_hosts", "locks", "drop"}

Control ==
    /\ command \in Commands
    /\ pc \in {"inspect", "collect", "drop", "ddl_list", "ddl", "ddl_mark", "ddl_wait",
              "ddl_delete", "locks", "walk", "walk_delete", "find", "delete",
              "create", "replica", "shared_id", "ended", "failed"}
    /\ command.kind = "create" => pc \in {"create", "ended", "failed"}
    /\ pc = "create" => command.kind = "create"
    /\ pc \in {"inspect", "collect", "drop"} => command.kind \in HostKinds
    /\ pc \in {"ddl_list", "ddl", "ddl_mark", "ddl_wait", "ddl_delete"} =>
          command.kind = "hosts" /\ command.ddl
    /\ pc \in {"replica", "shared_id"} => command.kind = "drop"
    /\ pc \in {"locks", "walk", "walk_delete", "find"} => command.kind \in LockKinds
    /\ env = [steps |-> env.steps, runs |-> env.runs, dropped |-> env.dropped]
    /\ \A n \in env.dropped : \E p \in ServerDrops : IsPrefix(p, n)

HasReplicas(n) == \E i \in 1..Len(n) : n[i] = "replicas"

TreeShape(t) ==
    /\ t \subseteq Path /\ IsFiniteSet(t) /\ PrefixClosed(t) /\ <<>> \notin t
    /\ \A n \in t : HasReplicas(n) => n \in InitTree
    /\ Children(t, DdlPath) \subseteq DOMAIN DdlHosts

TreeInv == command.kind # "create" => TreeShape(tree)

LostInv ==
    \A n \in (InitTree \ tree) \ env.dropped :
        ~command.dry /\ (RaceFree(command) => MatchedFor(n, env.dropped))

Phases == {"none", "list", "delete", "single", "last", "done"}

DelShape(d, S) ==
    /\ d \in [phase : Phases, queue : Seq(S), nodes : Seq(S), chunk : Seq(S)]
    /\ d.phase = "last" => d.chunk # <<>>
    /\ command.dry => d.phase \notin {"delete", "single", "last"}

DelInv ==
    /\ DelShape(del, Going)
    /\ del.phase # "none" <=> pc \in {"ddl_delete", "walk_delete", "delete"}

\* The paths that the traversal may come to.
Scoped(p) ==
    /\ IsPrefix(command.root, p)
    /\ p = command.root \/ ~\E e \in Excluded : IsPrefix(e, p)
    /\ ~\E o \in Objects : /\ Append(o, "replicas") \notin env.dropped
                           /\ IsStrictPrefix(o, p) /\ IsPrefix(command.root, o)

Reached == {p \in Path : MayGo(p) \/ Scoped(p)}

\* A node that was seen without replicas has none of its own.
Requests ==
    {r \in [path : Reached, ready : BOOLEAN, exists : BOOLEAN, children : SUBSET Label] :
        /\ IsFiniteSet(r.children)
        /\ r.ready /\ "replicas" \notin r.children /\ Append(r.path, "replicas") \in InitTree =>
              Append(r.path, "replicas") \in env.dropped \/ MayGo(r.path)}

Answers == {r \in Requests : r.ready}

InspectorInv ==
    /\ inspector \in [pending : Seq(Reached), active : Seq(Requests), finished : Seq(Answers)]
    /\ Len(inspector.active) <= MaxActive
    /\ objects \in Seq(Reached)

ObjectOf(r) == SubSeq(r, 1, Len(r) - 2)

TaskOk(r) ==
    /\ r \in InitTree /\ Len(r) >= 2
    /\ r \in Children(InitTree, Append(ObjectOf(r), "replicas"))
    /\ MayGo(ObjectOf(r)) \/ (HostOf(r) \in Removed /\ InScope(ObjectOf(r), env.dropped))

TasksInv ==
    \A r \in DOMAIN tasks : TaskOk(r) /\ tasks[r] \in {"todo", "done", "failed"}

DdlInv ==
    /\ ddl \in [queue : Seq(DOMAIN DdlHosts), todo : Seq(STRING), task : Path,
                remove : Seq(Going), polls : 0..MaxPolls]
    /\ ddl.todo # <<>> => ddl.task \in DOMAIN DdlHosts
    /\ pc = "ddl_mark" => ddl.todo # <<>> /\ Head(ddl.todo) \in DdlHosts[ddl.task]

WhoseInv ==
    /\ whose = [hosts |-> whose.hosts, table |-> whose.table]
    /\ whose.hosts \in Seq(Removed) /\ whose.table \in Label
    /\ RaceFree(command) =>
          /\ pc \in {"replica", "shared_id"} => whose.table = command.table
          /\ pc \in {"locks", "walk", "walk_delete", "find"} /\ command.kind \in {"locks", "drop"}
             => whose.table = AskedTable
    /\ pc \in {"walk", "walk_delete"} => Filter.replica # "" \/ Filter.prefix # ""
    /\ pc = "find" => Filter.replica = "" /\ Filter.prefix = "" /\ Filter.part # ""
    /\ pc \in {"walk", "walk_delete", "find"} /\ command.kind \in HostKinds =>
          whose.hosts # <<>>

\* The children of a directory, and those of them that the walk yielded.
FrameSets(f, busy, C, G) ==
    /\ IsFiniteSet(C) /\ Cardinality(C) = f.total
    /\ G \subseteq C /\ Cardinality(G) = f.matched
    /\ f.todo \subseteq C \ G /\ busy \subseteq C \ G /\ busy \cap f.todo = {}
    /\ \A c \in C : c \in Path /\ Len(c) = Len(f.path) + 1 /\ IsPrefix(f.path, c)
    /\ \A c \in G : MayGo(c) /\ Len(c) <= Len(LockRoot) + 4
    /\ \A c \in Children(InitTree, f.path) \ C : MayGo(c)

FrameOk(f, busy) == \E C, G \in SUBSET Path : FrameSets(f, busy, C, G)

Frames == [path : {p \in Path : IsPrefix(LockRoot, p)}, todo : SUBSET Path,
           total : Nat, matched : Nat]

Busy(stack, i) == IF i = Len(stack) THEN {} ELSE {stack[i + 1].path}

StackOk(stack) ==
    /\ stack \in Seq(Frames)
    /\ stack # <<>> => stack[1].path = LockRoot
    /\ \A i \in 1..Len(stack) : FrameOk(stack[i], Busy(stack, i))

PartDirs == {c \in tree : Len(c) = Len(LockRoot) + 2 /\ IsPrefix(LockRoot, c)
                          /\ c[Len(LockRoot) + 1] = Filter.table}

WalkInv ==
    /\ walk = [stack |-> walk.stack, queue |-> walk.queue, found |-> walk.found]
    /\ StackOk(walk.stack)
    /\ walk.queue \in Seq({p \in Path : IsPrefix(LockRoot, p)})
    /\ walk.found \subseteq Going /\ IsFiniteSet(walk.found)
    /\ pc = "find" /\ RaceFree(command) => walk.found \subseteq PartDirs

CleanInv ==
    /\ Control /\ TreeInv /\ LostInv /\ DelInv /\ InspectorInv /\ TasksInv /\ DdlInv
    /\ WhoseInv /\ WalkInv

---------------------------------------------------------------------------
(* Prefixes of paths *)

\* The names that the code writes are names.
LEMMA LabelFacts ==
    /\ STRING \subseteq Label /\ "replicas" \in Label /\ "finished" \in Label
    /\ "table_shared_id" \in Label /\ "zero_copy_None" \in Label /\ "" \in Label
BY DEF Label

\* Paths given from outside are paths.
LEMMA GivenPaths == \A s \in Seq(STRING) : s \in Path
<1> TAKE s \in Seq(STRING)
<1> QED
    BY LabelFacts, SeqMonotonic, Zenon DEF Path

\* The length of a path, and its names.
LEMMA PathFacts ==
    ASSUME NEW s \in Path
    PROVE  /\ Len(s) \in Nat /\ s \in Seq(Label)
           /\ \A i \in 1..Len(s) : s[i] \in Label
           /\ s = <<>> <=> Len(s) = 0
<1>1. s \in Seq(Label)
    BY DEF Path
<1>2. \A i \in 1..Len(s) : s[i] \in Label
    BY <1>1, ElementOfSeq
<1>3. Len(s) \in Nat /\ Len(<<>>) = 0 /\ (s # <<>> => Len(s) \in Nat \ {0})
    BY <1>1, LenProperties, EmptySeq
<1> QED
    BY <1>1, <1>2, <1>3

\* Two paths with the same names are the same.
LEMMA SamePath ==
    ASSUME NEW s \in Path, NEW t \in Path, Len(s) = Len(t), \A i \in 1..Len(s) : s[i] = t[i]
    PROVE  s = t
BY SeqEqual DEF Path

\* The first names of a path.
LEMMA Initial ==
    ASSUME NEW t \in Path, NEW k \in 0..Len(t)
    PROVE  /\ SubSeq(t, 1, k) \in Path /\ Len(SubSeq(t, 1, k)) = k
           /\ \A i \in 1..k : SubSeq(t, 1, k)[i] = t[i]
<1>1. Len(t) \in Nat /\ \A i \in 1..Len(t) : t[i] \in Label
    BY PathFacts
<1>2. k \in Int /\ \A i \in 1..k : t[i] \in Label
    BY <1>1
<1> QED
    BY <1>1, <1>2, SubSeqProperties DEF Path

\* A prefix, name by name.
LEMMA PrefixIs ==
    ASSUME NEW s \in Path, NEW t \in Path
    PROVE  IsPrefix(s, t) <=> Len(s) <= Len(t) /\ \A i \in 1..Len(s) : s[i] = t[i]
<1>1. Len(s) \in Nat /\ Len(t) \in Nat
    BY PathFacts
<1>2. CASE Len(s) <= Len(t)
    <2>1. Len(s) \in 0..Len(t) /\ Len(s) \in 0..Len(s)
        BY <1>1, <1>2
    <2>2. /\ SubSeq(t, 1, Len(s)) \in Path /\ Len(SubSeq(t, 1, Len(s))) = Len(s)
          /\ \A i \in 1..Len(s) : SubSeq(t, 1, Len(s))[i] = t[i]
        BY <2>1, Initial
    <2>3. /\ SubSeq(s, 1, Len(s)) \in Path /\ Len(SubSeq(s, 1, Len(s))) = Len(s)
          /\ \A i \in 1..Len(s) : SubSeq(s, 1, Len(s))[i] = s[i]
        BY <2>1, Initial
    <2> HIDE DEF Path
    <2>4. IsPrefix(s, t) => \A i \in 1..Len(s) : s[i] = t[i]
        BY <2>2, <2>3 DEF IsPrefix
    <2>5. ASSUME \A i \in 1..Len(s) : s[i] = t[i] PROVE IsPrefix(s, t)
        <3>1. SubSeq(s, 1, Len(s)) = SubSeq(t, 1, Len(s))
            BY <2>2, <2>3, <2>5, SamePath
        <3> QED
            BY <1>2, <3>1 DEF IsPrefix
    <2> QED
        BY <1>2, <2>4, <2>5
<1> QED
    BY <1>1, <1>2 DEF IsPrefix

\* The order of prefixes.
LEMMA PrefixOrder ==
    /\ \A s \in Path : IsPrefix(s, s)
    /\ \A s, t, u \in Path : IsPrefix(s, t) /\ IsPrefix(t, u) => IsPrefix(s, u)
    /\ \A s, t \in Path : IsPrefix(s, t) => Len(s) <= Len(t) /\ (Len(s) = Len(t) => s = t)
    /\ \A s, t, u \in Path :
          IsPrefix(s, u) /\ IsPrefix(t, u) /\ Len(s) <= Len(t) => IsPrefix(s, t)
    /\ \A s, t \in Path : IsStrictPrefix(s, t) <=> IsPrefix(s, t) /\ Len(s) < Len(t)
<1>1. \A s \in Path : IsPrefix(s, s)
    BY PrefixIs, PathFacts
<1>2. ASSUME NEW s \in Path, NEW t \in Path, NEW u \in Path, IsPrefix(s, t), IsPrefix(t, u)
      PROVE  IsPrefix(s, u)
    <2>1. Len(s) \in Nat /\ Len(t) \in Nat /\ Len(u) \in Nat
        BY PathFacts
    <2>2. Len(s) <= Len(t) /\ \A i \in 1..Len(s) : s[i] = t[i]
        BY <1>2, PrefixIs
    <2>3. Len(t) <= Len(u) /\ \A i \in 1..Len(t) : t[i] = u[i]
        BY <1>2, PrefixIs
    <2>4. \A i \in 1..Len(s) : i \in 1..Len(t)
        BY <2>1, <2>2
    <2>5. Len(s) <= Len(u) /\ \A i \in 1..Len(s) : s[i] = u[i]
        BY <2>1, <2>2, <2>3, <2>4
    <2> QED
        BY <2>5, PrefixIs
<1>3. ASSUME NEW s \in Path, NEW t \in Path, IsPrefix(s, t)
      PROVE  Len(s) <= Len(t) /\ (Len(s) = Len(t) => s = t)
    BY <1>3, PrefixIs, SamePath
<1>4. ASSUME NEW s \in Path, NEW t \in Path, NEW u \in Path,
             IsPrefix(s, u), IsPrefix(t, u), Len(s) <= Len(t)
      PROVE  IsPrefix(s, t)
    <2>1. Len(s) \in Nat /\ Len(t) \in Nat
        BY PathFacts
    <2>2. \A i \in 1..Len(s) : s[i] = u[i]
        BY <1>4, PrefixIs
    <2>3. \A i \in 1..Len(t) : t[i] = u[i]
        BY <1>4, PrefixIs
    <2>4. \A i \in 1..Len(s) : i \in 1..Len(t)
        BY <1>4, <2>1
    <2> QED
        BY <1>4, <2>2, <2>3, <2>4, PrefixIs
<1>5. ASSUME NEW s \in Path, NEW t \in Path
      PROVE  IsStrictPrefix(s, t) <=> IsPrefix(s, t) /\ Len(s) < Len(t)
    <2>1. Len(s) \in Nat /\ Len(t) \in Nat
        BY PathFacts
    <2>2. IsPrefix(s, t) => Len(s) <= Len(t) /\ (Len(s) = Len(t) => s = t)
        BY <1>3
    <2> QED
        BY <2>1, <2>2 DEF IsStrictPrefix
<1> QED
    BY <1>1, <1>2, <1>3, <1>4, <1>5

\* The first names of a path are a prefix of it, and every prefix is one.
LEMMA InitialIsPrefix ==
    /\ \A t \in Path : \A k \in 0..Len(t) : IsPrefix(SubSeq(t, 1, k), t)
    /\ \A s, t \in Path : IsPrefix(s, t) => s = SubSeq(t, 1, Len(s))
<1>1. ASSUME NEW t \in Path, NEW k \in 0..Len(t)
      PROVE  IsPrefix(SubSeq(t, 1, k), t)
    <2>1. Len(t) \in Nat
        BY PathFacts
    <2> DEFINE s == SubSeq(t, 1, k)
    <2>2. s \in Path /\ Len(s) = k /\ \A i \in 1..k : s[i] = t[i]
        BY Initial
    <2> HIDE DEF s
    <2>3. IsPrefix(s, t)
        BY <2>1, <2>2, PrefixIs
    <2> QED
        BY <2>3 DEF s
<1>2. ASSUME NEW s \in Path, NEW t \in Path, IsPrefix(s, t)
      PROVE  s = SubSeq(t, 1, Len(s))
    <2>1. Len(s) \in Nat /\ Len(t) \in Nat
        BY PathFacts
    <2>2. Len(s) <= Len(t) /\ \A i \in 1..Len(s) : s[i] = t[i]
        BY <1>2, PrefixIs
    <2>3. Len(s) \in 0..Len(t)
        BY <2>1, <2>2
    <2>4. /\ SubSeq(t, 1, Len(s)) \in Path /\ Len(SubSeq(t, 1, Len(s))) = Len(s)
          /\ \A i \in 1..Len(s) : SubSeq(t, 1, Len(s))[i] = t[i]
        BY <2>3, Initial
    <2> QED
        BY <2>2, <2>4, SamePath
<1> QED
    BY <1>1, <1>2

\* One name more.
LEMMA AppendFacts ==
    ASSUME NEW p \in Path, NEW x \in Label
    PROVE  /\ Append(p, x) \in Path /\ Len(Append(p, x)) = Len(p) + 1
           /\ Append(p, x)[Len(p) + 1] = x /\ Last(Append(p, x)) = x
           /\ IsPrefix(p, Append(p, x)) /\ IsStrictPrefix(p, Append(p, x))
           /\ \A i \in 1..Len(p) : Append(p, x)[i] = p[i]
<1>1. Len(p) \in Nat
    BY PathFacts
<1>2. /\ Append(p, x) \in Path /\ Len(Append(p, x)) = Len(p) + 1
      /\ Append(p, x)[Len(p) + 1] = x
      /\ \A i \in 1..Len(p) : Append(p, x)[i] = p[i]
    BY AppendProperties DEF Path
<1> DEFINE q == Append(p, x)
<1>3. q \in Path /\ Len(q) = Len(p) + 1 /\ \A i \in 1..Len(p) : q[i] = p[i]
    BY <1>2
<1> HIDE DEF q
<1>4. IsPrefix(p, q)
    BY <1>1, <1>3, PrefixIs
<1>5. IsStrictPrefix(p, q)
    BY <1>1, <1>3, <1>4, PrefixOrder
<1> QED
    BY <1>2, <1>4, <1>5 DEF Last, q

\* A prefix of an extended path is a prefix of the path, or all of it.
LEMMA PrefixOfAppend ==
    ASSUME NEW s \in Path, NEW p \in Path, NEW x \in Label, IsPrefix(s, Append(p, x))
    PROVE  s = Append(p, x) \/ IsPrefix(s, p)
<1>1. Len(s) \in Nat /\ Len(p) \in Nat
    BY PathFacts
<1> DEFINE q == Append(p, x)
<1>2. q \in Path /\ Len(q) = Len(p) + 1 /\ IsPrefix(p, q) /\ IsPrefix(s, q)
    BY AppendFacts
<1> HIDE DEF q
<1>3. Len(s) <= Len(p) + 1 /\ (Len(s) = Len(p) + 1 => s = q)
    BY <1>2, PrefixOrder
<1>4. CASE Len(s) <= Len(p)
    BY <1>2, <1>4, PrefixOrder
<1> QED
    BY <1>1, <1>3, <1>4 DEF q

\* The next step on the way to a longer path.
LEMMA NextOnTheWay ==
    ASSUME NEW p \in Path, NEW n \in Path, IsPrefix(p, n), Len(p) < Len(n)
    PROVE  \E c \in Path :
              /\ c = SubSeq(n, 1, Len(p) + 1) /\ Len(c) = Len(p) + 1
              /\ IsPrefix(p, c) /\ IsPrefix(c, n) /\ c \in WithParents(n)
<1> DEFINE c == SubSeq(n, 1, Len(p) + 1)
<1>1. Len(p) \in Nat /\ Len(n) \in Nat
    BY PathFacts
<1>2. Len(p) + 1 \in 0..Len(n) /\ Len(p) + 1 \in 1..Len(n)
    BY <1>1
<1>3. c \in Path /\ Len(c) = Len(p) + 1 /\ IsPrefix(c, n)
    BY <1>2, Initial, InitialIsPrefix
<1>4. c \in WithParents(n)
    BY <1>2 DEF WithParents
<1>5. c = SubSeq(n, 1, Len(p) + 1)
    OBVIOUS
<1> HIDE DEF c
<1>6. IsPrefix(p, c)
    BY <1>1, <1>3, PrefixOrder
<1> QED
    BY <1>3, <1>4, <1>5, <1>6

\* A child is its parent and a name.
LEMMA ChildFacts ==
    ASSUME NEW p \in Path, NEW c \in Path, IsPrefix(p, c), Len(c) = Len(p) + 1
    PROVE  /\ Last(c) \in Label /\ c = Append(p, Last(c)) /\ Front(c) = p
<1>1. Len(p) \in Nat /\ Len(c) \in 1..Len(c)
    BY PathFacts
<1>2. Last(c) \in Label
    BY <1>1, PathFacts DEF Last
<1>3. /\ Append(p, Last(c)) \in Path /\ Len(Append(p, Last(c))) = Len(p) + 1
      /\ Append(p, Last(c))[Len(p) + 1] = Last(c)
      /\ \A i \in 1..Len(p) : Append(p, Last(c))[i] = p[i]
    BY <1>2, AppendFacts
<1>4. \A i \in 1..Len(p) : p[i] = c[i]
    BY PrefixIs
<1>5. \A i \in 1..Len(c) : c[i] = Append(p, Last(c))[i]
    <2> TAKE i \in 1..Len(c)
    <2>1. i = Len(p) + 1 \/ i \in 1..Len(p)
        BY <1>1
    <2> QED
        BY <1>3, <1>4, <2>1 DEF Last
<1>6. c = Append(p, Last(c))
    BY <1>3, <1>5, SamePath
<1>7. Front(c) = p
    <2>1. Len(c) - 1 = Len(p)
        BY <1>1
    <2> QED
        BY <2>1, InitialIsPrefix DEF Front
<1> QED
    BY <1>2, <1>6, <1>7

\* The paths above a path.
LEMMA Parents ==
    ASSUME NEW n \in Path
    PROVE  /\ \A m \in WithParents(n) : m \in Path /\ m # <<>> /\ IsPrefix(m, n)
           /\ \A m \in Path : IsPrefix(m, n) /\ m # <<>> => m \in WithParents(n)
           /\ n # <<>> => n \in WithParents(n)
<1>1. Len(n) \in Nat
    BY PathFacts
<1>2. ASSUME NEW m \in WithParents(n)
      PROVE  m \in Path /\ m # <<>> /\ IsPrefix(m, n)
    <2>1. PICK i \in 1..Len(n) : m = SubSeq(n, 1, i)
        BY DEF WithParents
    <2>2. i \in 0..Len(n) /\ i # 0
        BY <1>1
    <2>3. m \in Path /\ Len(m) = i /\ IsPrefix(m, n)
        BY <2>1, <2>2, Initial, InitialIsPrefix
    <2> QED
        BY <2>2, <2>3, PathFacts
<1>3. ASSUME NEW m \in Path, IsPrefix(m, n), m # <<>>
      PROVE  m \in WithParents(n)
    <2>1. Len(m) \in Nat /\ Len(m) # 0 /\ Len(m) <= Len(n)
        BY <1>3, PathFacts, PrefixOrder
    <2>2. m = SubSeq(n, 1, Len(m)) /\ Len(m) \in 1..Len(n)
        BY <1>1, <1>3, <2>1, InitialIsPrefix
    <2> QED
        BY <2>2 DEF WithParents
<1> QED
    BY <1>2, <1>3, PrefixOrder

---------------------------------------------------------------------------
(* What the command line asks for does not change while it runs *)

\* The directories, hosts and tables that the command line names stay the same.
LEMMA SameNames ==
    ASSUME command' = command
    PROVE  /\ LockRoot' = LockRoot /\ Removed' = Removed /\ ReplicaNode' = ReplicaNode
           /\ AskedTable' = AskedTable
BY DEF LockRoot, Removed, ReplicaNode, AskedTable

\* So does what the locks are compared with,
LEMMA SameFilters ==
    ASSUME command' = command
    PROVE  Filters' = Filters
BY SameNames DEF Filters

\* what a lock is compared by,
LEMMA SameMatches ==
    ASSUME command' = command, NEW f, NEW l
    PROVE  /\ Matches(f, l)' <=> Matches(f, l)
           /\ LockMatched(f, l)' <=> LockMatched(f, l)
           /\ IsLock(l)' <=> IsLock(l)
<1>1. Matches(f, l)' <=> Matches(f, l)
    BY SameNames DEF Matches
<1> QED
    BY <1>1, SameNames DEF LockMatched, IsLock

\* which locks are to be deleted,
LEMMA SameLocksAsked ==
    ASSUME command' = command, NEW n, NEW lost
    PROVE  LocksMatched(n, lost)' <=> LocksMatched(n, lost)
BY SameNames, SameFilters, SameMatches DEF LocksMatched

\* which objects the traversal is to find,
LEMMA SameInScope ==
    ASSUME command' = command, NEW o, NEW lost
    PROVE  /\ InScope(o, lost)' <=> InScope(o, lost)
           /\ RemovedReplicas(o)' = RemovedReplicas(o)
BY SameNames DEF InScope, RemovedReplicas

\* and what it is asked to delete at all.
LEMMA SameAsked ==
    ASSUME command' = command, NEW n, NEW lost
    PROVE  MatchedFor(n, lost)' <=> MatchedFor(n, lost)
BY SameNames, SameFilters, SameLocksAsked, SameInScope DEF MatchedFor

\* While no server deletes anything, the same nodes may go.
LEMMA SameMayGo ==
    ASSUME command' = command, env.dropped' = env.dropped, NEW p
    PROVE  MayGo(p)' <=> MayGo(p)
BY SameAsked DEF MayGo

---------------------------------------------------------------------------
(* Trees *)

\* The tree before the command is a tree of paths.
LEMMA InitTreeFacts ==
    /\ InitTree \subseteq Path /\ IsFiniteSet(InitTree) /\ PrefixClosed(InitTree)
    /\ ZeroCopy \in Path /\ DdlPath \in Path
    /\ \A n \in InitTree : n # <<>>
<1>1. \A n \in InitTree : n \in Seq(STRING)
    BY TreeAssumption
<1>2. InitTree \subseteq Path
    BY <1>1, GivenPaths
<1>3. ZeroCopy \in Path /\ DdlPath \in Path
    BY TreeAssumption, GivenPaths
<1> QED
    BY <1>2, <1>3, TreeAssumption, InitTreeAssumption DEF PrefixClosed

\* A tree has the nodes above its nodes.
LEMMA AboveIsThere ==
    ASSUME NEW t \in SUBSET Path, PrefixClosed(t), NEW n \in t, NEW m \in Path,
           IsPrefix(m, n), m # <<>>
    PROVE  m \in t
<1>1. m \in WithParents(n)
    BY Parents
<1> QED
    BY <1>1 DEF PrefixClosed

\* The child of p on the way to a node below p.
LEMMA ChildOnTheWay ==
    ASSUME NEW t \in SUBSET Path, PrefixClosed(t), NEW p \in Path, NEW n \in t,
           IsPrefix(p, n), Len(p) < Len(n)
    PROVE  \E c \in Children(t, p) : IsPrefix(c, n)
<1>1. PICK c \in Path : /\ Len(c) = Len(p) + 1 /\ IsPrefix(p, c)
                        /\ IsPrefix(c, n) /\ c \in WithParents(n)
    BY NextOnTheWay
<1>2. c \in t
    BY <1>1 DEF PrefixClosed
<1> QED
    BY <1>1, <1>2 DEF Children

\* The children of a node of a tree.
LEMMA ChildrenFacts ==
    ASSUME NEW t \in SUBSET Path, NEW p
    PROVE  /\ Children(t, p) \subseteq t
           /\ \A c \in Children(t, p) : c \in Path /\ Len(c) = Len(p) + 1 /\ IsPrefix(p, c)
           /\ IsFiniteSet(t) => IsFiniteSet(Children(t, p))
<1>1. Children(t, p) \subseteq t
    BY DEF Children
<1> QED
    BY <1>1, FS_Subset DEF Children

\* What is left of a tree when nodes go with everything below them.
LEMMA RemoveUp ==
    ASSUME NEW t, TreeShape(t), NEW D,
           \A n \in D, m \in t : IsPrefix(n, m) => m \in D
    PROVE  TreeShape(t \ D)
<1>1. t \ D \subseteq Path /\ IsFiniteSet(t \ D)
    BY FS_Subset DEF TreeShape
<1>2. ASSUME NEW n \in t \ D, NEW m \in WithParents(n)
      PROVE  m \in t \ D
    <2>1. n \in Path /\ m \in t
        BY DEF TreeShape, PrefixClosed
    <2>2. IsPrefix(m, n)
        BY <2>1, Parents
    <2> QED
        BY <2>1, <2>2
<1>3. Children(t \ D, DdlPath) \subseteq Children(t, DdlPath)
    BY DEF Children
<1> QED
    BY <1>1, <1>2, <1>3 DEF TreeShape, PrefixClosed

\* A subtree is removed with what is below its nodes, and so is a childless node.
LEMMA SubtreeIsUp ==
    ASSUME NEW t \in SUBSET Path, NEW p \in Path
    PROVE  /\ \A n \in Subtree(t, p), m \in t : IsPrefix(n, m) => m \in Subtree(t, p)
           /\ \A n \in Below(t, p), m \in t : IsPrefix(n, m) => m \in Below(t, p)
           /\ PrefixClosed(t) /\ Children(t, p) = {} =>
                 \A n \in {p}, m \in t : IsPrefix(n, m) => m \in {p}
<1>1. ASSUME NEW n \in Subtree(t, p), NEW m \in t, IsPrefix(n, m)
      PROVE  m \in Subtree(t, p)
    BY <1>1, PrefixOrder DEF Subtree
<1>2. ASSUME NEW n \in Below(t, p), NEW m \in t, IsPrefix(n, m)
      PROVE  m \in Below(t, p)
    <2>1. m \in Subtree(t, p) /\ n \in Path /\ m \in Path /\ IsPrefix(p, n) /\ n # p
        BY <1>1, <1>2 DEF Below, Subtree
    <2>2. Len(p) \in Nat /\ Len(n) \in Nat /\ Len(m) \in Nat
        BY <2>1, PathFacts
    <2>3. Len(p) <= Len(n) /\ Len(p) # Len(n) /\ Len(n) <= Len(m)
        BY <1>2, <2>1, PrefixOrder
    <2>4. m # p
        BY <2>2, <2>3
    <2> QED
        BY <2>1, <2>4 DEF Below
<1>3. ASSUME PrefixClosed(t), Children(t, p) = {}, NEW m \in t, IsPrefix(p, m)
      PROVE  m = p
    <2>1. Len(p) \in Nat /\ Len(m) \in Nat /\ m \in Path
        BY PathFacts
    <2>2. ~(Len(p) < Len(m))
        BY <1>3, ChildOnTheWay
    <2> QED
        BY <1>3, <2>1, <2>2, PrefixOrder
<1> QED
    BY <1>1, <1>2, <1>3

\* A set of numbers has a least one.
LEMMA Least ==
    ASSUME NEW T \in SUBSET Nat, T # {}
    PROVE  \E x \in T : \A y \in T : x <= y
<1>1. PICK x \in T : \A y \in T : ~(<<y, x>> \in OpToRel(<, Nat))
    BY NatLessThanWellFounded, WFMin
<1>2. \A y \in T : ~(y < x)
    BY <1>1 DEF OpToRel
<1> QED
    BY <1>2

\* A transaction that succeeds removes its nodes with everything below them: the first
\* node below them that stayed would have been a child of one of them.
LEMMA TransactionIsUp ==
    ASSUME NEW t \in SUBSET Path, PrefixClosed(t), \A n \in t : n # <<>>,
           NEW nodes, Len(nodes) \in Nat, TransactionSucceeds(t, nodes)
    PROVE  \A n \in {nodes[i] : i \in 1..Len(nodes)}, m \in t :
              IsPrefix(n, m) => m \in {nodes[i] : i \in 1..Len(nodes)}
<1> DEFINE D == {nodes[i] : i \in 1..Len(nodes)}
           Bad(n, m) == n \in D /\ m \in t /\ IsPrefix(n, m) /\ m \notin D
           T == {k \in Nat : \E n, m \in t : Bad(n, m) /\ Len(m) = k}
<1>1. \A n \in D : n \in t
    BY DEF TransactionSucceeds
<1>2. SUFFICES ASSUME NEW n0 \in D, NEW m0 \in t, Bad(n0, m0) PROVE FALSE
    OBVIOUS
<1>3. Len(m0) \in T
    BY <1>1, <1>2, PathFacts
<1>4. PICK k \in T : \A j \in T : k <= j
    BY <1>3, Least
<1>5. PICK n, m \in t : Bad(n, m) /\ Len(m) = k
    BY <1>4
<1>6. n \in Path /\ m \in Path /\ n # m /\ Len(n) \in Nat /\ Len(m) \in Nat /\ n # <<>>
    BY <1>5, PathFacts
<1>7. Len(n) <= Len(m) /\ Len(n) # Len(m) /\ Len(n) # 0
    BY <1>5, <1>6, PrefixOrder, PathFacts
<1> DEFINE f == SubSeq(m, 1, Len(m) - 1)
<1>8. Len(m) - 1 \in 0..Len(m)
    BY <1>6, <1>7
<1>9. f \in Path /\ Len(f) = Len(m) - 1 /\ IsPrefix(f, m)
    BY <1>6, <1>8, Initial, InitialIsPrefix
<1> HIDE DEF f
<1>10. f # <<>> /\ IsPrefix(n, f)
    <2>1. Len(n) <= Len(f) /\ Len(f) # 0
        BY <1>6, <1>7, <1>9
    <2> QED
        BY <1>5, <1>6, <1>9, <2>1, PrefixOrder, PathFacts
<1>11. f \in t
    BY <1>9, <1>10, AboveIsThere
<1>12. CASE f \in D
    <2>1. PICK i \in 1..Len(nodes) : f = nodes[i]
        BY <1>12
    <2> DEFINE left == t \ {nodes[j] : j \in 1..(i - 1)}
    <2>2. Children(left, f) = {}
        BY <2>1 DEF TransactionSucceeds
    <2>3. \A j \in 1..(i - 1) : j \in 1..Len(nodes)
        OBVIOUS
    <2>4. m \in left
        BY <1>5, <2>3
    <2>5. Len(m) = Len(f) + 1
        BY <1>6, <1>9
    <2>6. m \in Children(left, f)
        BY <1>9, <2>4, <2>5 DEF Children
    <2> QED
        BY <2>2, <2>6
<1>13. CASE f \notin D
    <2>1. Bad(n, f) /\ Len(f) \in T
        BY <1>5, <1>6, <1>9, <1>10, <1>11, <1>13, PathFacts
    <2>2. k <= Len(f)
        BY <1>4, <2>1
    <2> QED
        BY <1>5, <1>6, <1>9, <2>2
<1> QED
    BY <1>12, <1>13

\* A sequence made of a finite set.
LEMMA SetToSeqFacts ==
    ASSUME NEW S, IsFiniteSet(S)
    PROVE  SetToSeq(S) \in Seq(S)
<1> DEFINE n == Cardinality(S)
<1>1. n \in Nat /\ ExistsBijection(1..n, S)
    BY FS_CardinalityType
<1>2. \E f \in [1..n -> S] : IsInjective(f)
    BY <1>1 DEF ExistsBijection, Bijection, Injection
<1>3. SetToSeq(S) \in [1..n -> S]
    BY <1>2 DEF SetToSeq
<1> HIDE DEF n
<1> QED
    BY <1>1, <1>3 DEF n

\* The same, in a larger set.
LEMMA SetToSeqIn ==
    ASSUME NEW S, NEW U \in SUBSET S, IsFiniteSet(U)
    PROVE  SetToSeq(U) \in Seq(S)
BY SetToSeqFacts, SeqMonotonic, Zenon

\* A sequence backwards.
LEMMA ReverseFacts ==
    ASSUME NEW S, NEW s \in Seq(S)
    PROVE  Reverse(s) \in Seq(S)
<1>1. Len(s) \in Nat /\ \A i \in 1..Len(s) : s[i] \in S
    BY LenProperties, ElementOfSeq
<1>2. \A i \in 1..Len(s) : Len(s) - i + 1 \in 1..Len(s)
    BY <1>1
<1>3. Reverse(s) \in [1..Len(s) -> S]
    BY <1>1, <1>2 DEF Reverse
<1> QED
    BY <1>1, <1>3

\* The state of a deletion that starts.
LEMMA StartedFacts ==
    ASSUME NEW S, NEW paths \in SUBSET S, IsFiniteSet(paths), NEW d \in StartedDelete(paths)
    PROVE  DelShape(d, S) /\ d.phase # "none" /\ d.phase \in {"list", "done"}
<1>1. NoDelete \in [phase : Phases, queue : Seq(S), nodes : Seq(S), chunk : Seq(S)]
    BY DEF NoDelete, Phases
<1>2. CASE paths = {}
    <2>1. d = [NoDelete EXCEPT !.phase = "done"]
        BY <1>2 DEF StartedDelete
    <2> QED
        BY <1>1, <2>1 DEF DelShape, NoDelete, Phases
<1>3. CASE paths # {}
    <2> DEFINE K == RemoveSubpaths(paths)
    <2>1. PICK s \in Sorted(K) : d = [NoDelete EXCEPT !.phase = "list", !.queue = s]
        BY <1>3 DEF StartedDelete
    <2>2. K \subseteq paths /\ IsFiniteSet(K)
        <3>1. K \subseteq paths
            BY DEF RemoveSubpaths
        <3> QED
            BY <3>1, FS_Subset
    <2>3. Cardinality(K) \in Nat
        BY <2>2, FS_CardinalityType
    <2>4. s \in [1..Cardinality(K) -> K]
        BY DEF Sorted
    <2> HIDE DEF K
    <2>5. s \in Seq(K)
        BY <2>3, <2>4
    <2>6. s \in Seq(S)
        BY <2>2, <2>5, SeqMonotonic, Zenon
    <2> QED
        BY <1>1, <2>1, <2>6 DEF DelShape, NoDelete, Phases
<1> QED
    BY <1>2, <1>3

\* No deletion.
LEMMA NoDeleteFacts == \A S : DelShape(NoDelete, S) /\ NoDelete.phase = "none"
<1> TAKE S
<1>1. NoDelete \in [phase : Phases, queue : Seq(S), nodes : Seq(S), chunk : Seq(S)]
    BY DEF NoDelete, Phases
<1> QED
    BY <1>1 DEF DelShape, NoDelete, Phases

\* A sequence keeps its shape in a larger set.
LEMMA SeqGrows ==
    ASSUME NEW S, NEW U, S \subseteq U
    PROVE  Seq(S) \subseteq Seq(U)
BY SeqMonotonic, Zenon

\* A new node below a node of the tree.
LEMMA AddNode ==
    ASSUME NEW t, TreeShape(t), NEW node \in Path, node # <<>>,
           Front(node) \in t \/ Len(node) = 1,
           ~HasReplicas(node),
           IsPrefix(DdlPath, node) => Len(node) # Len(DdlPath) + 1
    PROVE  TreeShape(t \cup {node})
<1>1. t \cup {node} \subseteq Path /\ IsFiniteSet(t \cup {node})
    BY FS_AddElement DEF TreeShape
<1>2. ASSUME NEW m \in WithParents(node)
      PROVE  m \in t \cup {node}
    <2>1. m \in Path /\ m # <<>> /\ IsPrefix(m, node)
        BY <1>2, Parents
    <2>2. Len(m) \in Nat /\ Len(node) \in Nat /\ Len(m) # 0 /\ Len(node) # 0
        BY <2>1, PathFacts
    <2>3. Len(m) <= Len(node) /\ (Len(m) = Len(node) => m = node)
        BY <2>1, PrefixOrder
    <2>4. CASE Len(m) < Len(node)
        <3> DEFINE f == SubSeq(node, 1, Len(node) - 1)
        <3>1. Len(node) - 1 \in 0..Len(node)
            BY <2>2
        <3>2. f \in Path /\ Len(f) = Len(node) - 1 /\ IsPrefix(f, node)
            BY <3>1, Initial, InitialIsPrefix
        <3>3. f \in t
            <4>1. \A i, j \in Nat : i < j /\ i # 0 => j # 1
                OBVIOUS
            <4>2. Front(node) \in t
                BY <2>2, <2>4, <4>1, Zenon
            <4>3. Front(node) = f
                BY Zenon DEF Front
            <4> QED
                BY <4>2, <4>3, Zenon
        <3> HIDE DEF f
        <3>4. Len(m) <= Len(f)
            BY <2>2, <2>4, <3>2
        <3>5. IsPrefix(m, f)
            BY <2>1, <3>2, <3>4, PrefixOrder
        <3>6. t \in SUBSET Path /\ PrefixClosed(t)
            BY DEF TreeShape
        <3> QED
            BY <2>1, <3>3, <3>5, <3>6, AboveIsThere
    <2> QED
        BY <2>2, <2>3, <2>4
<1>3. PrefixClosed(t \cup {node})
    BY <1>2 DEF PrefixClosed, TreeShape
<1>4. Children(t \cup {node}, DdlPath) \subseteq Children(t, DdlPath)
    BY DEF Children
<1> QED
    BY <1>1, <1>3, <1>4 DEF TreeShape

\* A new node with the nodes above it.
LEMMA AddParents ==
    ASSUME NEW t, TreeShape(t), NEW p \in Path, ~HasReplicas(p), ~IsPrefix(DdlPath, p)
    PROVE  TreeShape(t \cup WithParents(p))
<1>1. \A m \in WithParents(p) : m \in Path /\ m # <<>> /\ IsPrefix(m, p)
    BY Parents
<1>2. Len(p) \in Nat
    BY PathFacts
<1>3. IsFiniteSet(WithParents(p))
    <2> DEFINE g == [i \in 1..Len(p) |-> SubSeq(p, 1, i)]
    <2>1. g \in Surjection(1..Len(p), WithParents(p))
        BY DEF Surjection, WithParents
    <2>2. IsFiniteSet(1..Len(p))
        BY <1>2, FS_Interval
    <2> HIDE DEF g
    <2> QED
        BY <2>1, <2>2, FS_Surjection
<1>4. t \cup WithParents(p) \subseteq Path /\ IsFiniteSet(t \cup WithParents(p))
    BY <1>1, <1>3, FS_Union DEF TreeShape
<1>5. ASSUME NEW n \in WithParents(p)
      PROVE  WithParents(n) \subseteq WithParents(p)
    <2>1. n \in Path /\ IsPrefix(n, p)
        BY <1>1
    <2> SUFFICES ASSUME NEW m \in WithParents(n) PROVE m \in WithParents(p)
        OBVIOUS
    <2>2. m \in Path /\ m # <<>> /\ IsPrefix(m, n)
        BY <2>1, Parents
    <2>3. IsPrefix(m, p)
        BY <2>1, <2>2, PrefixOrder
    <2> QED
        BY <2>2, <2>3, Parents
<1>6. PrefixClosed(t \cup WithParents(p))
    BY <1>5 DEF PrefixClosed, TreeShape
<1>7. ASSUME NEW n \in WithParents(p)
      PROVE  ~HasReplicas(n) /\ ~IsPrefix(DdlPath, n)
    <2>1. n \in Path /\ IsPrefix(n, p)
        BY <1>1
    <2>2. Len(n) \in Nat /\ Len(n) <= Len(p) /\ \A i \in 1..Len(n) : n[i] = p[i]
        BY <2>1, PrefixIs, PathFacts
    <2>3. \A i \in 1..Len(n) : i \in 1..Len(p)
        BY <1>2, <2>2
    <2> QED
        BY <2>1, <2>2, <2>3, InitTreeFacts, PrefixOrder DEF HasReplicas
<1>8. Children(t \cup WithParents(p), DdlPath) \subseteq Children(t, DdlPath)
    BY <1>7 DEF Children
<1> QED
    BY <1>1, <1>4, <1>6, <1>7, <1>8 DEF TreeShape

---------------------------------------------------------------------------
(* What may go *)

\* What was asked for with fewer nodes lost to others is asked for with more.
LEMMA AskedGrows ==
    ASSUME NEW n, NEW lost, NEW more, lost \subseteq more, MatchedFor(n, lost)
    PROVE  MatchedFor(n, more)
<1>1. LocksMatched(n, lost) => LocksMatched(n, more)
    BY DEF LocksMatched
<1>2. \A o : InScope(o, lost) => InScope(o, more)
    BY DEF InScope
<1>3. \A o : Replicas(o) \ more \subseteq Replicas(o) \ lost
    OBVIOUS
<1> QED
    BY <1>1, <1>2, <1>3 DEF MatchedFor

\* A step of the command, or of the servers, lets no less go than before.
LEMMA MayGoGrows ==
    ASSUME command' = command, env.dropped \subseteq env.dropped', NEW p, MayGo(p)
    PROVE  MayGo(p)'
<1>1. \A n : MatchedFor(n, env.dropped) => MatchedFor(n, env.dropped')
    BY AskedGrows
<1>2. \A n : MatchedFor(n, env.dropped') => MatchedFor(n, env.dropped)'
    BY SameAsked
<1> QED
    BY <1>1, <1>2 DEF MayGo

\* Nor does the traversal come to fewer paths.
LEMMA ScopeGrows ==
    ASSUME command' = command, env.dropped \subseteq env.dropped'
    PROVE  /\ Going \subseteq Going' /\ Reached \subseteq Reached'
           /\ Requests \subseteq Requests' /\ Answers \subseteq Answers'
<1>1. \A p : MayGo(p) => MayGo(p)'
    BY MayGoGrows
<1>2. Going \subseteq Going'
    BY <1>1 DEF Going
<1>3. \A p : Scoped(p) => Scoped(p)'
    BY DEF Scoped
<1>4. Reached \subseteq Reached'
    BY <1>1, <1>3 DEF Reached
<1>5. ASSUME NEW r \in Requests
      PROVE  r \in Requests'
    <2>1. r \in [path : Reached, ready : BOOLEAN, exists : BOOLEAN, children : SUBSET Label]
        BY DEF Requests
    <2>2. r \in [path : Reached', ready : BOOLEAN, exists : BOOLEAN, children : SUBSET Label]
        BY <1>4, <2>1
    <2>3. /\ IsFiniteSet(r.children)
          /\ r.ready /\ "replicas" \notin r.children /\ Append(r.path, "replicas") \in InitTree =>
                Append(r.path, "replicas") \in env.dropped \/ MayGo(r.path)
        BY DEF Requests
    <2>4. /\ IsFiniteSet(r.children)
          /\ r.ready /\ "replicas" \notin r.children /\ Append(r.path, "replicas") \in InitTree =>
                Append(r.path, "replicas") \in env.dropped' \/ MayGo(r.path)'
        BY <1>1, <2>3
    <2> QED
        BY <2>2, <2>4 DEF Requests
<1>6. Answers \subseteq Answers'
    BY <1>5 DEF Answers
<1> QED
    BY <1>2, <1>4, <1>5, <1>6

\* A replica that was to be dropped still is.
LEMMA TaskGrows ==
    ASSUME command' = command, env.dropped \subseteq env.dropped', NEW r, TaskOk(r)
    PROVE  TaskOk(r)'
<1>1. \A o : InScope(o, env.dropped) => InScope(o, env.dropped')
    BY DEF InScope
<1>2. \A o : InScope(o, env.dropped') => InScope(o, env.dropped)'
    BY SameInScope
<1>3. \A p : MayGo(p) => MayGo(p)'
    BY MayGoGrows
<1> QED
    BY <1>1, <1>2, <1>3, SameNames DEF TaskOk

\* A directory that the walk is in keeps its children.
LEMMA FrameGrows ==
    ASSUME command' = command, env.dropped \subseteq env.dropped', NEW f, NEW b, FrameOk(f, b)
    PROVE  FrameOk(f, b)'
<1>1. PICK C, G \in SUBSET Path : FrameSets(f, b, C, G)
    BY DEF FrameOk
<1>2. \A p : MayGo(p) => MayGo(p)'
    BY MayGoGrows
<1>3. FrameSets(f, b, C, G)'
    BY <1>1, <1>2, SameNames DEF FrameSets
<1> QED
    BY <1>1, <1>3 DEF FrameOk

\* The shape of a deletion does not depend on the state.
LEMMA ShapeGrows ==
    ASSUME command' = command, NEW S, NEW U, S \subseteq U, NEW d, DelShape(d, S)
    PROVE  DelShape(d, U)'
<1>1. Seq(S) \subseteq Seq(U)
    BY SeqGrows
<1>2. d \in [phase : Phases, queue : Seq(U), nodes : Seq(U), chunk : Seq(U)]
    BY <1>1 DEF DelShape
<1> QED
    BY <1>2 DEF DelShape

\* What is below a path that may go may go, too.
LEMMA GoDown ==
    ASSUME NEW p \in Path, NEW q \in Path, MayGo(p), IsPrefix(p, q)
    PROVE  MayGo(q)
<1>1. \A n \in InitTree : IsPrefix(q, n) => IsPrefix(p, n)
    BY InitTreeFacts, PrefixOrder
<1> QED
    BY <1>1 DEF MayGo

\* A node of the first tree that is gone was asked for, with what was below it.
LEMMA LostGo ==
    ASSUME CleanInv, command.kind # "create", NEW p \in InitTree, p \notin tree
    PROVE  MayGo(p)
<1> SUFFICES ASSUME RaceFree(command), NEW n \in InitTree \ env.dropped, IsPrefix(p, n)
             PROVE  MatchedFor(n, env.dropped)
    BY DEF MayGo
<1>1. p \in Path /\ n \in Path /\ p # <<>>
    BY InitTreeFacts
<1>2. tree \in SUBSET Path /\ PrefixClosed(tree)
    BY DEF CleanInv, TreeInv, TreeShape
<1>3. n \notin tree
    BY <1>1, <1>2, AboveIsThere
<1> QED
    BY <1>3 DEF CleanInv, LostInv

\* Nodes removed by the command may go; the others stay lost as they were.
LEMMA LostKept ==
    ASSUME LostInv, command' = command, env.dropped \subseteq env.dropped',
           NEW D, tree \ D \subseteq tree', D \subseteq Path,
           \A n \in D \ env.dropped' : ~command.dry /\ MayGo(n)
    PROVE  LostInv'
<1> SUFFICES ASSUME NEW n \in (InitTree \ tree') \ env.dropped'
             PROVE  ~command.dry /\ (RaceFree(command) => MatchedFor(n, env.dropped)')
    BY DEF LostInv
<1>1. \A m : MatchedFor(m, env.dropped) => MatchedFor(m, env.dropped)'
    BY AskedGrows, SameAsked
<1>2. CASE n \in tree
    <2>1. n \in D /\ n \in Path
        BY <1>2
    <2>2. ~command.dry /\ MayGo(n)
        BY <2>1
    <2>3. IsPrefix(n, n)
        BY <2>1, PrefixOrder
    <2>4. RaceFree(command) => MatchedFor(n, env.dropped)
        BY <2>2, <2>3 DEF MayGo
    <2> QED
        BY <1>1, <2>2, <2>4
<1>3. CASE n \notin tree
    BY <1>1, <1>3 DEF LostInv
<1> QED
    BY <1>2, <1>3

---------------------------------------------------------------------------
(* The queues of the traversal *)

\* A request that has no answer yet.
Sent(p) == [path |-> p, ready |-> FALSE, exists |-> FALSE, children |-> {}]

\* Queues of paths of P, requests of R and answers of A.
Queues(i, P, R, A) ==
    /\ i \in [pending : Seq(P), active : Seq(R), finished : Seq(A)]
    /\ Len(i.active) <= MaxActive

QueueSets(P, R, A) == (\A p \in P : Sent(p) \in R) /\ \A r \in R : r.ready => r \in A

\* A set of numbers with 0 and the successors of its members is all numbers.
LEMMA AllNumbers ==
    ASSUME NEW T \in SUBSET Nat, 0 \in T, \A n \in T : n + 1 \in T
    PROVE  T = Nat
<1>1. SUFFICES ASSUME Nat \ T # {} PROVE FALSE
    OBVIOUS
<1>2. PICK m \in Nat \ T : \A n \in Nat \ T : m <= n
    BY <1>1, Least
<1>3. m # 0 /\ m - 1 \in Nat /\ (m - 1) + 1 = m /\ ~(m <= m - 1)
    BY <1>2
<1>4. m - 1 \in T
    BY <1>2, <1>3
<1> QED
    BY <1>2, <1>3, <1>4

\* One answer moves on, and the queues keep their shape.
LEMMA MoveKeeps ==
    ASSUME NEW P, NEW R, NEW A, QueueSets(P, R, A), NEW i, Queues(i, P, R, A)
    PROVE  Queues(MoveAnswered(i), P, R, A)
<1>1. i.active \in Seq(R) /\ i.finished \in Seq(A) /\ i.pending \in Seq(P)
    BY DEF Queues
<1>2. CASE i.active = <<>> \/ ~Head(i.active).ready
    BY <1>2 DEF MoveAnswered
<1>3. CASE ~(i.active = <<>> \/ ~Head(i.active).ready)
    <2>1. /\ Head(i.active) \in R /\ Tail(i.active) \in Seq(R)
          /\ Len(Tail(i.active)) = Len(i.active) - 1
        BY <1>1, <1>3, HeadTailProperties
    <2>2. Head(i.active) \in A
        BY <1>3, <2>1 DEF QueueSets
    <2>3. Append(i.finished, Head(i.active)) \in Seq(A)
        BY <1>1, <2>2, AppendProperties
    <2> DEFINE fin == IF Head(i.active).exists THEN Append(i.finished, Head(i.active))
                  ELSE i.finished
    <2>4. fin \in Seq(A)
        BY <1>1, <2>3
    <2>5. Len(i.active) \in Nat /\ MaxActive \in Nat
        BY <1>1, LenProperties, LimitsAssumption
    <2>6. MoveAnswered(i) = [i EXCEPT !.active = Tail(i.active), !.finished = fin]
        BY <1>3 DEF MoveAnswered
    <2> DEFINE rest == Tail(i.active)
    <2>7. rest \in Seq(R) /\ Len(rest) = Len(i.active) - 1
        BY <2>1
    <2>8. MoveAnswered(i) = [i EXCEPT !.active = rest, !.finished = fin]
        BY <2>6
    <2> HIDE DEF fin, rest
    <2>9. Len(rest) <= MaxActive
        BY <2>5, <2>7 DEF Queues
    <2> QED
        BY <1>1, <2>4, <2>7, <2>8, <2>9 DEF Queues
<1> QED
    BY <1>2, <1>3

\* There is a function like the recursive one of UpdateActive.
LEMMA MovesExist ==
    ASSUME NEW i, NEW n \in Nat
    PROVE  \E g : g = [k \in 0..n |-> IF k = 0 THEN i ELSE MoveAnswered(g[k - 1])]
<1> DEFINE Exists(m) ==
        \E g : g = [k \in 0..m |-> IF k = 0 THEN i ELSE MoveAnswered(g[k - 1])]
           T == {m \in Nat : Exists(m)}
<1>1. 0 \in T
    <2> DEFINE g == [k \in 0..0 |-> i]
    <2>1. g = [k \in 0..0 |-> IF k = 0 THEN i ELSE MoveAnswered(g[k - 1])]
        OBVIOUS
    <2> QED
        BY <2>1
<1>2. ASSUME NEW m \in T PROVE m + 1 \in T
    <2>1. PICK g : g = [k \in 0..m |-> IF k = 0 THEN i ELSE MoveAnswered(g[k - 1])]
        OBVIOUS
    <2> DEFINE h == [k \in 0..(m + 1) |-> IF k \in 0..m THEN g[k] ELSE MoveAnswered(g[m])]
    <2>2. ASSUME NEW k \in 0..(m + 1)
          PROVE  h[k] = IF k = 0 THEN i ELSE MoveAnswered(h[k - 1])
        <3>1. CASE k = 0
            BY <2>1, <3>1
        <3>2. CASE k \in 1..m
            <4>1. k - 1 \in 0..m /\ k - 1 \in 0..(m + 1) /\ k \in 0..m /\ k # 0
                BY <3>2
            <4>2. h[k] = g[k] /\ h[k - 1] = g[k - 1]
                BY <4>1
            <4>3. g[k] = MoveAnswered(g[k - 1])
                BY <2>1, <4>1
            <4> QED
                BY <4>1, <4>2, <4>3
        <3>3. CASE k = m + 1
            <4>1. k \notin 0..m /\ k - 1 = m /\ m \in 0..m /\ m \in 0..(m + 1) /\ k # 0
                BY <3>3
            <4>2. h[k] = MoveAnswered(g[m]) /\ h[k - 1] = g[m]
                BY <4>1
            <4> QED
                BY <4>1, <4>2
        <3> QED
            BY <3>1, <3>2, <3>3
    <2>3. h = [k \in 0..(m + 1) |-> h[k]]
        OBVIOUS
    <2> HIDE DEF h
    <2>4. h = [k \in 0..(m + 1) |-> IF k = 0 THEN i ELSE MoveAnswered(h[k - 1])]
        BY <2>2, <2>3
    <2>5. Exists(m + 1)
        BY <2>4
    <2> QED
        BY <2>5
<1>3. T = Nat
    <2> HIDE DEF T
    <2>1. T \in SUBSET Nat
        BY DEF T
    <2> QED
        BY <1>1, <1>2, <2>1, AllNumbers
<1> QED
    BY <1>3

\* All the answers at the head move on.
LEMMA UpdateActiveKeeps ==
    ASSUME NEW P, NEW R, NEW A, QueueSets(P, R, A), NEW i, Queues(i, P, R, A)
    PROVE  Queues(UpdateActive(i), P, R, A)
<1> DEFINE n == Len(i.active)
           g == CHOOSE g : g = [k \in 0..n |-> IF k = 0 THEN i ELSE MoveAnswered(g[k - 1])]
<1>1. n \in Nat
    BY LenProperties DEF Queues
<1>2. g = [k \in 0..n |-> IF k = 0 THEN i ELSE MoveAnswered(g[k - 1])]
    <2>1. \E h : h = [k \in 0..n |-> IF k = 0 THEN i ELSE MoveAnswered(h[k - 1])]
        BY <1>1, MovesExist
    <2> QED
        BY <2>1
<1>3. UpdateActive(i) = g[n]
    BY DEF UpdateActive
<1> HIDE DEF g, n
<1>4. \A k \in 0..n : g[k] = IF k = 0 THEN i ELSE MoveAnswered(g[k - 1])
    BY <1>2
<1> DEFINE T == {k \in Nat : k <= n => Queues(g[k], P, R, A)}
<1>5. 0 \in T
    BY <1>1, <1>4
<1>6. ASSUME NEW k \in T PROVE k + 1 \in T
    <2> SUFFICES ASSUME k + 1 <= n PROVE Queues(g[k + 1], P, R, A)
        OBVIOUS
    <2>1. k <= n /\ k + 1 \in 0..n /\ k + 1 # 0 /\ (k + 1) - 1 = k
        BY <1>1
    <2>2. g[k + 1] = MoveAnswered(g[k])
        BY <1>4, <2>1
    <2>3. Queues(g[k], P, R, A)
        BY <2>1
    <2> QED
        BY <2>2, <2>3, MoveKeeps
<1>7. T = Nat
    <2> HIDE DEF T
    <2>1. T \in SUBSET Nat
        BY DEF T
    <2> QED
        BY <1>5, <1>6, <2>1, AllNumbers
<1> QED
    BY <1>1, <1>3, <1>7

\* Requests are sent while there is room.
LEMMA UpdatePendingKeeps ==
    ASSUME NEW P, NEW R, NEW A, QueueSets(P, R, A), NEW i, Queues(i, P, R, A)
    PROVE  Queues(UpdatePending(i), P, R, A)
<1> DEFINE room == MaxActive - Len(i.active)
           n == IF Len(i.pending) < room THEN Len(i.pending) ELSE room
           sent == [k \in 1..n |-> Sent(i.pending[k])]
<1>1. /\ i.active \in Seq(R) /\ i.finished \in Seq(A) /\ i.pending \in Seq(P)
      /\ i \in [pending : Seq(P), active : Seq(R), finished : Seq(A)]
    BY DEF Queues
<1>2. /\ Len(i.active) \in Nat /\ Len(i.pending) \in Nat /\ MaxActive \in Nat
      /\ \A k \in 1..Len(i.pending) : i.pending[k] \in P
    BY <1>1, LenProperties, ElementOfSeq, LimitsAssumption
<1>3. n \in Nat /\ n <= Len(i.pending) /\ n <= room
    BY <1>2 DEF Queues
<1>4. sent \in Seq(R) /\ Len(sent) = n
    <2>1. \A k \in 1..n : i.pending[k] \in P
        BY <1>2, <1>3
    <2>2. sent \in [1..n -> R]
        BY <2>1 DEF QueueSets
    <2> HIDE DEF n, sent
    <2> QED
        BY <1>3, <2>2
<1>5. SubSeq(i.pending, n + 1, Len(i.pending)) \in Seq(P)
    <2>1. \A k \in (n + 1)..Len(i.pending) : i.pending[k] \in P
        BY <1>2, <1>3
    <2>2. n + 1 \in Int /\ Len(i.pending) \in Int
        BY <1>2, <1>3
    <2> HIDE DEF n
    <2> QED
        BY <2>1, <2>2, SubSeqProperties
<1>6. UpdatePending(i) = [i EXCEPT !.pending = SubSeq(i.pending, n + 1, Len(i.pending)),
                                   !.active = i.active \o sent]
    BY DEF UpdatePending, Sent
<1> HIDE DEF n, sent
<1>7. Len(i.active) + n <= MaxActive
    BY <1>2, <1>3
<1>8. i.active \o sent \in Seq(R) /\ Len(i.active \o sent) = Len(i.active) + n
    BY <1>1, <1>4, ConcatProperties
<1> QED
    BY <1>1, <1>5, <1>6, <1>7, <1>8 DEF Queues

\* Both at once, and with new paths.
LEMMA UpdateQueuesKeeps ==
    ASSUME NEW P, NEW R, NEW A, QueueSets(P, R, A), NEW i, Queues(i, P, R, A)
    PROVE  /\ Queues(UpdateQueues(i), P, R, A)
           /\ \A s \in Seq(P) : Queues(InspectorAdd(i, s), P, R, A)
<1>1. \A j : Queues(j, P, R, A) => Queues(UpdateQueues(j), P, R, A)
    BY UpdateActiveKeeps, UpdatePendingKeeps DEF UpdateQueues
<1>2. ASSUME NEW s \in Seq(P)
      PROVE  Queues(InspectorAdd(i, s), P, R, A)
    <2>1. i.pending \o s \in Seq(P)
        BY ConcatProperties DEF Queues
    <2>2. Queues([i EXCEPT !.pending = i.pending \o s], P, R, A)
        BY <2>1 DEF Queues
    <2> QED
        BY <1>1, <2>2 DEF InspectorAdd
<1> QED
    BY <1>1, <1>2

\* A path that the traversal comes to can be asked for.
LEMMA RequestFacts ==
    /\ QueueSets(Reached, Requests, Answers)
    /\ Queues(NoInspector, Reached, Requests, Answers)
<1>1. ASSUME NEW p \in Reached
      PROVE  Sent(p) \in Requests
    BY FS_EmptySet DEF Sent, Requests
<1>2. QueueSets(Reached, Requests, Answers)
    BY <1>1 DEF QueueSets, Answers
<1>3. Len(<<>>) = 0 /\ \A S : <<>> \in Seq(S)
    BY EmptySeq
<1>4. Queues(NoInspector, Reached, Requests, Answers)
    BY <1>3, LimitsAssumption DEF Queues, NoInspector
<1> QED
    BY <1>2, <1>4

---------------------------------------------------------------------------
(* The command line, and the objects of the first tree *)

\* The paths of a command.
LEMMA CommandFacts ==
    ASSUME command \in Commands
    PROVE  /\ command.root \in Path /\ command.hosts \in Seq(STRING)
           /\ command.replica \in STRING /\ command.table \in STRING
           /\ command.paths \subseteq Path /\ IsFiniteSet(command.paths)
           /\ command.kind \in {"hosts", "table_hosts", "locks", "drop", "delete", "create"}
           /\ command.part # "" => command.kind = "locks" /\ command.table # ""
           /\ command.hosts \in Seq(Removed) /\ Removed \subseteq STRING
<1>1. command \in Command /\ IsFiniteSet(command.paths)
      /\ (command.part # "" => command.kind = "locks" /\ command.table # "")
    BY CommandsAssumption
<1>2. /\ command.root \in Seq(STRING) /\ command.hosts \in Seq(STRING)
      /\ command.replica \in STRING /\ command.table \in STRING
      /\ command.paths \in SUBSET Seq(STRING)
      /\ command.kind \in {"hosts", "table_hosts", "locks", "drop", "delete", "create"}
    BY <1>1 DEF Command
<1>3. command.root \in Path /\ command.paths \subseteq Path
    BY <1>2, GivenPaths
<1> DEFINE h == command.hosts
<1>4. h \in Seq(Range(h)) /\ Range(h) \in SUBSET STRING
    <2>1. h \in Seq(STRING)
        BY <1>2
    <2> HIDE DEF h
    <2> QED
        BY <2>1, SeqOfRange, RangeOfSeq
<1> QED
    BY <1>1, <1>2, <1>3, <1>4 DEF Removed

\* The directory of the locks.
LEMMA LockRootFacts ==
    ASSUME command \in Commands
    PROVE  /\ LockRoot \in Path /\ Len(LockRoot) = Len(ZeroCopy) + 1
           /\ IsPrefix(ZeroCopy, LockRoot) /\ Len(LockRoot) \in Nat /\ LockRoot # <<>>
<1>1. command \in Command
    BY CommandsAssumption
<1>2. command.disk \in STRING
    BY <1>1 DEF Command
<1> DEFINE d == IF command.kind \in {"locks", "drop"} THEN command.disk ELSE "zero_copy_None"
<1>3. d \in Label
    BY <1>2, LabelFacts
<1>4. LockRoot = Append(ZeroCopy, d)
    BY DEF LockRoot
<1>5. ZeroCopy \in Path
    BY InitTreeFacts
<1> HIDE DEF d
<1>6. LockRoot \in Path /\ Len(LockRoot) = Len(ZeroCopy) + 1 /\ IsPrefix(ZeroCopy, LockRoot)
    BY <1>3, <1>4, <1>5, AppendFacts
<1>7. Len(ZeroCopy) \in Nat /\ Len(LockRoot) \in Nat
    BY <1>5, <1>6, PathFacts
<1> QED
    BY <1>6, <1>7, PathFacts

\* The node "replicas" of an object.
LEMMA BelowReplicas ==
    ASSUME NEW p \in Path
    PROVE  LET q == Append(p, "replicas")
           IN  /\ q \in Path /\ Len(q) = Len(p) + 1 /\ q[Len(p) + 1] = "replicas"
               /\ IsPrefix(p, q) /\ Last(q) = "replicas" /\ q # <<>> /\ Len(p) \in Nat
<1> DEFINE q == Append(p, "replicas")
<1>1. /\ q \in Path /\ Len(q) = Len(p) + 1 /\ q[Len(p) + 1] = "replicas"
      /\ IsPrefix(p, q) /\ Last(q) = "replicas"
    BY LabelFacts, AppendFacts
<1>2. Len(p) \in Nat
    BY PathFacts
<1> HIDE DEF q
<1>3. q # <<>>
    BY <1>1, <1>2, PathFacts
<1> QED
    BY <1>1, <1>2, <1>3 DEF q

\* A path leads through the replicas of one object.
LEMMA OneReplicas ==
    ASSUME NEW n \in InitTree, NEW p \in Path, NEW q \in Path,
           IsPrefix(Append(p, "replicas"), n), IsPrefix(Append(q, "replicas"), n)
    PROVE  p = q
<1> DEFINE a == Append(p, "replicas")
           b == Append(q, "replicas")
<1>1. /\ a \in Path /\ Len(a) = Len(p) + 1 /\ a[Len(p) + 1] = "replicas" /\ IsPrefix(p, a)
      /\ b \in Path /\ Len(b) = Len(q) + 1 /\ b[Len(q) + 1] = "replicas" /\ IsPrefix(q, b)
      /\ IsPrefix(a, n) /\ IsPrefix(b, n) /\ n \in Path
    BY BelowReplicas, InitTreeFacts
<1> HIDE DEF a, b
<1>2. Len(p) \in Nat /\ Len(q) \in Nat /\ Len(n) \in Nat
    BY <1>1, PathFacts
<1>3. Len(a) <= Len(n) /\ Len(b) <= Len(n)
      /\ (\A i \in 1..Len(a) : a[i] = n[i]) /\ (\A i \in 1..Len(b) : b[i] = n[i])
    BY <1>1, PrefixIs
<1>4. Len(p) + 1 \in 1..Len(a) /\ Len(q) + 1 \in 1..Len(b)
      /\ Len(p) + 1 \in 1..Len(n) /\ Len(q) + 1 \in 1..Len(n)
    BY <1>1, <1>2, <1>3
<1>5. n[Len(p) + 1] = "replicas" /\ n[Len(q) + 1] = "replicas"
    BY <1>1, <1>3, <1>4
<1>6. Len(p) + 1 = Len(q) + 1
    BY <1>4, <1>5, TreeAssumption
<1>7. Len(p) = Len(q)
    BY <1>2, <1>6
<1>8. IsPrefix(p, n) /\ IsPrefix(q, n)
    BY <1>1, PrefixOrder
<1>9. IsPrefix(p, q)
    BY <1>1, <1>2, <1>7, <1>8, PrefixOrder
<1> QED
    BY <1>7, <1>9, PrefixOrder

\* A node below the replicas of an object is below no other object's replicas and not in
\* the directories of locks or DDL tasks.
LEMMA BelowHasReplicas ==
    ASSUME NEW n \in Path, NEW p \in Path, IsPrefix(Append(p, "replicas"), n)
    PROVE  HasReplicas(n)
<1> DEFINE a == Append(p, "replicas")
<1>1. a \in Path /\ Len(a) = Len(p) + 1 /\ a[Len(p) + 1] = "replicas" /\ IsPrefix(a, n)
      /\ Len(p) \in Nat
    BY BelowReplicas
<1> HIDE DEF a
<1>2. Len(n) \in Nat
    BY PathFacts
<1>3. Len(a) <= Len(n) /\ \A i \in 1..Len(a) : a[i] = n[i]
    BY <1>1, PrefixIs
<1>4. Len(p) + 1 \in 1..Len(a) /\ Len(p) + 1 \in 1..Len(n)
    BY <1>1, <1>2, <1>3
<1> QED
    BY <1>1, <1>3, <1>4 DEF HasReplicas

\* Names in a sequence and in its range.
LEMMA RangeFacts ==
    ASSUME NEW n \in Path
    PROVE  "replicas" \in Range(n) <=> HasReplicas(n)
<1>1. n \in Seq(Label)
    BY DEF Path
<1>2. Range(n) = {n[i] : i \in 1..Len(n)}
    BY <1>1, RangeEquality
<1> QED
    BY <1>2 DEF HasReplicas

\* Neither the locks nor the DDL tasks lie in an object.
LEMMA NoReplicasInLocks ==
    ASSUME NEW n \in InitTree, IsPrefix(ZeroCopy, n) \/ IsPrefix(DdlPath, n)
    PROVE  /\ ~HasReplicas(n)
           /\ \A p \in Path : ~IsPrefix(Append(p, "replicas"), n)
<1>1. n \in Path
    BY InitTreeFacts
<1>2. "replicas" \notin Range(n)
    BY TreeAssumption
<1> QED
    BY <1>1, <1>2, RangeFacts, BelowHasReplicas

\* The objects, and their replicas.
LEMMA ObjectFacts ==
    ASSUME NEW o \in Objects
    PROVE  o \in Path /\ Append(o, "replicas") \in InitTree
<1>1. PICK n \in InitTree : Last(n) = "replicas" /\ o = SubSeq(n, 1, Len(n) - 1)
    BY DEF Objects
<1>2. n \in Path /\ n # <<>> /\ Len(n) \in Nat
    BY InitTreeFacts, PathFacts
<1>3. Len(n) # 0
    BY <1>2, PathFacts
<1>4. Len(n) - 1 \in 0..Len(n)
    BY <1>2, <1>3
<1>5. o \in Path /\ Len(o) = Len(n) - 1 /\ IsPrefix(o, n)
    BY <1>1, <1>2, <1>4, Initial, InitialIsPrefix
<1>6. Len(n) = Len(o) + 1
    BY <1>2, <1>5
<1>7. n = Append(o, Last(n))
    BY <1>2, <1>5, <1>6, ChildFacts
<1>8. Append(o, "replicas") = n
    BY <1>1, <1>7, Zenon
<1> QED
    BY <1>5, <1>8

\* A directory with "replicas" is an object.
LEMMA ObjectIs ==
    ASSUME NEW o \in Path, Append(o, "replicas") \in InitTree
    PROVE  o \in Objects
<1> DEFINE a == Append(o, "replicas")
<1>1. /\ a \in InitTree /\ a \in Path /\ Len(a) = Len(o) + 1 /\ Last(a) = "replicas"
      /\ IsPrefix(o, a) /\ Len(o) \in Nat
    BY BelowReplicas
<1> HIDE DEF a
<1>2. o = SubSeq(a, 1, Len(o))
    BY <1>1, InitialIsPrefix
<1>3. Len(o) = Len(a) - 1
    BY <1>1
<1>4. o = SubSeq(a, 1, Len(a) - 1)
    BY <1>2, <1>3, Zenon
<1> QED
    BY <1>1, <1>4 DEF Objects

\* The object of a replica is two names above it.
LEMMA ReplicaFactsOf ==
    ASSUME NEW t \in SUBSET Path, NEW o \in Path, NEW r \in Children(t, Append(o, "replicas"))
    PROVE  /\ r \in Path /\ r \in t /\ Len(r) = Len(o) + 2 /\ Len(o) \in Nat /\ HasReplicas(r)
           /\ IsPrefix(Append(o, "replicas"), r) /\ IsPrefix(o, r)
           /\ ObjectOf(r) = o /\ Front(r) = Append(o, "replicas")
<1> DEFINE a == Append(o, "replicas")
<1>1. a \in Path /\ Len(a) = Len(o) + 1 /\ IsPrefix(o, a) /\ Len(o) \in Nat
    BY BelowReplicas
<1>2. r \in t /\ r \in Path /\ Len(r) = Len(a) + 1 /\ IsPrefix(a, r)
    BY DEF Children
<1>3. HasReplicas(r)
    BY <1>2, BelowHasReplicas
<1> HIDE DEF a
<1>4. IsPrefix(o, r) /\ Len(r) = Len(o) + 2 /\ Len(r) - 2 = Len(o)
    BY <1>1, <1>2, PrefixOrder
<1>5. o = SubSeq(r, 1, Len(o))
    BY <1>2, <1>4, InitialIsPrefix
<1>6. ObjectOf(r) = o
    BY <1>4, <1>5, Zenon DEF ObjectOf
<1>7. Front(r) = a
    BY <1>1, <1>2, ChildFacts
<1> QED
    BY <1>1, <1>2, <1>3, <1>4, <1>6, <1>7 DEF a

\* An object above a node that is below the replicas of p is above p.
LEMMA AboveObject ==
    ASSUME NEW n \in InitTree, NEW p \in Path, IsPrefix(Append(p, "replicas"), n),
           NEW o \in Objects, IsPrefix(o, n)
    PROVE  IsPrefix(o, p)
<1> DEFINE a == Append(p, "replicas")
           b == Append(o, "replicas")
<1>1. o \in Path /\ b \in InitTree /\ n \in Path
    BY ObjectFacts, InitTreeFacts
<1>2. /\ a \in Path /\ Len(a) = Len(p) + 1 /\ IsPrefix(p, a) /\ Len(p) \in Nat
      /\ b \in Path /\ Len(b) = Len(o) + 1 /\ IsPrefix(o, b) /\ Len(o) \in Nat
    BY <1>1, BelowReplicas
<1>3. IsPrefix(p, n)
    BY <1>1, <1>2, PrefixOrder
<1>4. CASE Len(o) <= Len(p)
    BY <1>1, <1>3, <1>4, PrefixOrder
<1>5. CASE Len(o) > Len(p)
    <2>1. IsPrefix(a, o)
        <3> HIDE DEF a, b
        <3>1. Len(a) <= Len(o)
            BY <1>2, <1>5
        <3>2. IsPrefix(a, n)
            BY DEF a
        <3> QED
            BY <1>1, <1>2, <3>1, <3>2, PrefixOrder
    <2>2. IsPrefix(a, b)
        <3> HIDE DEF a, b
        <3> QED
            BY <1>1, <1>2, <2>1, PrefixOrder
    <2>3. IsPrefix(b, b)
        <3> HIDE DEF a, b
        <3> QED
            BY <1>2, PrefixOrder
    <2>4. p = o
        BY <1>1, <2>2, <2>3, OneReplicas
    <2> QED
        BY <1>2, <1>5, <2>4
<1> QED
    BY <1>2, <1>4, <1>5

---------------------------------------------------------------------------
(* What the clean-up of hosts may delete *)

\* A replica of a removed host, in an object in scope.
LEMMA ReplicaGoes ==
    ASSUME command.kind \in HostKinds, NEW o \in Objects, InScope(o, env.dropped),
           NEW r \in RemovedReplicas(o)
    PROVE  MayGo(r)
<1>1. o \in Path /\ InitTree \in SUBSET Path
    BY ObjectFacts, InitTreeFacts
<1>2. r \in Path /\ IsPrefix(o, r)
    BY <1>1, ReplicaFactsOf DEF RemovedReplicas, Replicas
<1> SUFFICES ASSUME NEW n \in InitTree, IsPrefix(r, n) PROVE MatchedFor(n, env.dropped)
    BY DEF MayGo
<1>3. IsPrefix(o, n)
    BY <1>1, <1>2, PrefixOrder
<1> QED
    BY <1>3 DEF MatchedFor, HostKinds

\* An object of which only replicas of removed hosts are left.
LEMMA ObjectGoes ==
    ASSUME command.kind \in HostKinds, NEW o \in Objects,
           RaceFree(command) =>
               /\ InScope(o, env.dropped) /\ RemovedReplicas(o) # {}
               /\ Replicas(o) \ env.dropped \subseteq RemovedReplicas(o)
    PROVE  MayGo(o)
BY DEF MayGo, MatchedFor, HostKinds

\* A node below the replicas of p is asked for with p, or with its replica.
LEMMA AskedInObject ==
    ASSUME command.kind \in HostKinds, command \in Commands, NEW p \in Path, NEW n \in InitTree,
           IsPrefix(Append(p, "replicas"), n), MatchedFor(n, env.dropped)
    PROVE  MayGo(p) \/ \E r \in RemovedReplicas(p) : IsPrefix(r, n)
<1>1. n \in Path /\ InitTree \in SUBSET Path /\ DdlPath \in Path /\ ZeroCopy \in Path
    BY InitTreeFacts
<1>2. ~IsPrefix(DdlPath, n) /\ ~IsPrefix(ZeroCopy, n)
    BY NoReplicasInLocks
<1>3. CASE \E o \in Objects :
              /\ IsPrefix(o, n) /\ InScope(o, env.dropped)
              /\ \E r \in RemovedReplicas(o) : IsPrefix(r, n)
    <2>1. PICK o \in Objects : \E r \in RemovedReplicas(o) : IsPrefix(r, n)
        BY <1>3
    <2>2. PICK r \in RemovedReplicas(o) : IsPrefix(r, n)
        BY <2>1
    <2>3. o \in Path
        BY ObjectFacts
    <2>4. r \in Path /\ IsPrefix(Append(o, "replicas"), r)
        BY <1>1, <2>3, ReplicaFactsOf DEF RemovedReplicas, Replicas
    <2>5. IsPrefix(Append(o, "replicas"), n)
        <3> DEFINE a == Append(o, "replicas")
        <3>1. a \in Path /\ IsPrefix(a, r)
            BY <2>3, <2>4, BelowReplicas
        <3> HIDE DEF a
        <3>2. IsPrefix(a, n)
            BY <1>1, <2>2, <2>4, <3>1, PrefixOrder
        <3> QED
            BY <3>2 DEF a
    <2>6. o = p
        BY <2>3, <2>5, OneReplicas
    <2> QED
        BY <2>2, <2>6
<1>4. CASE \E o \in Objects :
              /\ IsPrefix(o, n) /\ InScope(o, env.dropped) /\ RemovedReplicas(o) # {}
              /\ Replicas(o) \ env.dropped \subseteq RemovedReplicas(o)
    <2>1. PICK o \in Objects :
              /\ IsPrefix(o, n) /\ InScope(o, env.dropped) /\ RemovedReplicas(o) # {}
              /\ Replicas(o) \ env.dropped \subseteq RemovedReplicas(o)
        BY <1>4
    <2>2. MayGo(o) /\ o \in Path
        BY <2>1, ObjectGoes, ObjectFacts
    <2>3. IsPrefix(o, p)
        BY <2>1, AboveObject
    <2> QED
        BY <2>2, <2>3, GoDown
<1>5. CASE \E q \in DOMAIN DdlHosts : IsPrefix(q, n)
    <2>1. PICK q \in Children(InitTree, DdlPath) : IsPrefix(q, n)
        BY <1>5, DdlAssumption
    <2>2. q \in Path /\ IsPrefix(DdlPath, q)
        BY <1>1, ChildrenFacts
    <2>3. IsPrefix(DdlPath, n)
        BY <1>1, <2>1, <2>2, PrefixOrder
    <2> QED
        BY <1>2, <2>3
<1>6. CASE LocksMatched(n, env.dropped)
    <2>1. IsPrefix(LockRoot, n)
        BY <1>6 DEF LocksMatched, IsStrictPrefix
    <2>2. LockRoot \in Path /\ IsPrefix(ZeroCopy, LockRoot)
        BY LockRootFacts
    <2>3. IsPrefix(ZeroCopy, n)
        BY <1>1, <2>1, <2>2, PrefixOrder
    <2> QED
        BY <1>2, <2>3
<1>7. \/ \E o \in Objects :
            /\ IsPrefix(o, n) /\ InScope(o, env.dropped)
            /\ \/ \E r \in RemovedReplicas(o) : IsPrefix(r, n)
               \/ /\ RemovedReplicas(o) # {}
                  /\ Replicas(o) \ env.dropped \subseteq RemovedReplicas(o)
      \/ \E q \in DOMAIN DdlHosts :
            command.ddl /\ IsPrefix(q, n) /\ DdlHosts[q] \cap Removed # {}
      \/ LocksMatched(n, env.dropped)
    BY DEF MatchedFor, HostKinds
<1>8. CASE \E o \in Objects :
            /\ IsPrefix(o, n) /\ InScope(o, env.dropped)
            /\ \/ \E r \in RemovedReplicas(o) : IsPrefix(r, n)
               \/ /\ RemovedReplicas(o) # {}
                  /\ Replicas(o) \ env.dropped \subseteq RemovedReplicas(o)
    <2>1. PICK o \in Objects :
            /\ IsPrefix(o, n) /\ InScope(o, env.dropped)
            /\ \/ \E r \in RemovedReplicas(o) : IsPrefix(r, n)
               \/ /\ RemovedReplicas(o) # {}
                  /\ Replicas(o) \ env.dropped \subseteq RemovedReplicas(o)
        BY <1>8
    <2> QED
        BY <1>3, <1>4, <2>1
<1> QED
    BY <1>5, <1>6, <1>7, <1>8

\* An object whose "replicas" is gone may go.
LEMMA ReplicasGone ==
    ASSUME CleanInv, command.kind \in HostKinds, NEW p \in Path,
           Append(p, "replicas") \in InitTree, Append(p, "replicas") \notin tree,
           Append(p, "replicas") \notin env.dropped
    PROVE  MayGo(p)
<1> DEFINE a == Append(p, "replicas")
<1> SUFFICES ASSUME RaceFree(command) PROVE MayGo(p)
    BY DEF MayGo
<1>1. command \in Commands
    BY DEF CleanInv, Control
<1>2. MatchedFor(a, env.dropped)
    BY DEF CleanInv, LostInv
<1>3. a \in Path /\ Len(a) = Len(p) + 1 /\ Len(p) \in Nat
    BY BelowReplicas
<1>4. IsPrefix(a, a)
    <2> HIDE DEF a
    <2> QED
        BY <1>3, PrefixOrder
<1>5. MayGo(p) \/ \E r \in RemovedReplicas(p) : IsPrefix(r, a)
    BY <1>1, <1>2, <1>4, AskedInObject
<1>6. ASSUME NEW r \in RemovedReplicas(p), IsPrefix(r, a)
      PROVE  FALSE
    <2>1. r \in Path /\ Len(r) = Len(p) + 2
        BY InitTreeFacts, ReplicaFactsOf DEF RemovedReplicas, Replicas
    <2> HIDE DEF a
    <2>2. Len(r) <= Len(a)
        BY <1>3, <1>6, <2>1, PrefixOrder
    <2> QED
        BY <1>3, <2>1, <2>2
<1> QED
    BY <1>5, <1>6

\* A replica that is gone was one of a removed host, or its object may go.
LEMMA ReplicaGone ==
    ASSUME CleanInv, command.kind \in HostKinds, NEW p \in Path, NEW r2 \in Replicas(p),
           r2 \notin tree, r2 \notin env.dropped, RaceFree(command)
    PROVE  MayGo(p) \/ r2 \in RemovedReplicas(p)
<1>1. command \in Commands
    BY DEF CleanInv, Control
<1>2. InitTree \in SUBSET Path
    BY InitTreeFacts
<1>3. r2 \in Path /\ r2 \in InitTree /\ Len(r2) = Len(p) + 2 /\ IsPrefix(Append(p, "replicas"), r2)
    BY <1>2, ReplicaFactsOf DEF Replicas
<1>4. MatchedFor(r2, env.dropped)
    BY <1>3 DEF CleanInv, LostInv
<1>5. MayGo(p) \/ \E r \in RemovedReplicas(p) : IsPrefix(r, r2)
    BY <1>1, <1>3, <1>4, AskedInObject
<1>6. ASSUME NEW r \in RemovedReplicas(p), IsPrefix(r, r2)
      PROVE  r = r2
    <2>1. r \in Path /\ Len(r) = Len(p) + 2
        BY <1>2, ReplicaFactsOf DEF RemovedReplicas, Replicas
    <2> QED
        BY <1>3, <1>6, <2>1, PrefixOrder
<1> QED
    BY <1>5, <1>6

---------------------------------------------------------------------------
(* What the clean-up of locks may delete *)

\* A node in the directory of the locks is asked for as a lock, or with the whole
\* directory.
LEMMA AskedOutside ==
    ASSUME command \in Commands, command.kind \in LockKinds, NEW l \in InitTree,
           IsPrefix(LockRoot, l), MatchedFor(l, env.dropped)
    PROVE  LocksMatched(l, env.dropped) \/ MayGo(LockRoot)
<1>1. l \in Path /\ InitTree \in SUBSET Path /\ DdlPath \in Path /\ ZeroCopy \in Path
    BY InitTreeFacts
<1>2. LockRoot \in Path /\ IsPrefix(ZeroCopy, LockRoot) /\ Len(LockRoot) \in Nat
    BY LockRootFacts
<1>3. IsPrefix(ZeroCopy, l)
    BY <1>1, <1>2, PrefixOrder
<1>4. \A p \in Path : ~IsPrefix(Append(p, "replicas"), l)
    BY <1>3, NoReplicasInLocks
<1>5. ASSUME NEW o \in Path, Append(o, "replicas") \in InitTree, IsPrefix(o, l)
      PROVE  IsPrefix(o, LockRoot)
    <2>1. Len(o) \in Nat
        BY PathFacts
    <2>2. CASE Len(o) <= Len(LockRoot)
        BY <1>1, <1>2, <1>5, <2>2, PrefixOrder
    <2>3. CASE Len(LockRoot) <= Len(o)
        <3> DEFINE a == Append(o, "replicas")
        <3>1. a \in Path /\ a \in InitTree /\ IsPrefix(o, a)
            BY <1>5, BelowReplicas
        <3>2. IsPrefix(ZeroCopy, a) /\ IsPrefix(a, a)
            <4> HIDE DEF a
            <4>1. IsPrefix(LockRoot, o)
                BY <1>1, <1>2, <1>5, <2>3, PrefixOrder
            <4>2. IsPrefix(ZeroCopy, o)
                BY <1>1, <1>2, <4>1, PrefixOrder
            <4> QED
                BY <1>1, <3>1, <4>2, PrefixOrder
        <3> QED
            BY <3>1, <3>2, NoReplicasInLocks
    <2> QED
        BY <1>2, <2>1, <2>2, <2>3
<1>6. ASSUME NEW o \in Path, IsPrefix(o, LockRoot), MayGo(o)
      PROVE  MayGo(LockRoot)
    BY <1>2, <1>6, GoDown
<1>7. CASE command.kind = "locks"
    BY <1>7 DEF MatchedFor
<1>8. CASE command.kind = "drop"
    <2>1. ASSUME IsPrefix(ReplicaNode, l) PROVE FALSE
        <3> DEFINE a == Append(command.root, "replicas")
        <3>1. command.root \in Path /\ command.replica \in Label
            BY CommandFacts, LabelFacts
        <3>2. a \in Path /\ Len(a) \in Nat
            BY <3>1, BelowReplicas, PathFacts
        <3>3. ReplicaNode = Append(a, command.replica)
            BY <3>1 DEF ReplicaNode, Path
        <3>4. IsPrefix(a, l)
            <4> HIDE DEF a
            <4> DEFINE b == Append(a, command.replica)
            <4>1. b \in Path /\ IsPrefix(a, b) /\ IsPrefix(b, l)
                BY <2>1, <3>1, <3>2, <3>3, AppendFacts
            <4> HIDE DEF b
            <4> QED
                BY <1>1, <3>2, <4>1, PrefixOrder
        <3> QED
            BY <1>4, <3>1, <3>4
    <2>2. ASSUME /\ command.replica \notin ActiveHosts
                 /\ IsPrefix(command.root, l) /\ ReplicaNode \in InitTree
                 /\ Replicas(command.root) \ env.dropped \subseteq {ReplicaNode}
          PROVE  MayGo(LockRoot)
        <3> DEFINE a == Append(command.root, "replicas")
        <3>1. command.root \in Path /\ command.replica \in Label
            BY CommandFacts, LabelFacts
        <3>2. a \in Path /\ a # <<>>
            BY <3>1, BelowReplicas, PathFacts
        <3>3. ReplicaNode = Append(a, command.replica)
            BY <3>1 DEF ReplicaNode, Path
        <3>4. a \in InitTree
            <4> HIDE DEF a
            <4> DEFINE b == Append(a, command.replica)
            <4>1. b \in Path /\ IsPrefix(a, b) /\ b \in InitTree
                BY <2>2, <3>1, <3>2, <3>3, AppendFacts
            <4> HIDE DEF b
            <4> QED
                BY <3>2, <4>1, InitTreeFacts, AboveIsThere
        <3>5. IsPrefix(command.root, LockRoot)
            BY <1>5, <2>2, <3>1, <3>4
        <3>6. MayGo(command.root)
            BY <1>8, <2>2 DEF MayGo, MatchedFor
        <3> QED
            BY <1>6, <3>1, <3>5, <3>6
    <2> QED
        BY <1>8, <2>1, <2>2 DEF MatchedFor
<1>9. CASE command.kind \in HostKinds
    <2>1. ASSUME NEW o \in Objects, NEW r \in RemovedReplicas(o), IsPrefix(r, l)
          PROVE  FALSE
        <3>1. o \in Path
            BY ObjectFacts
        <3>2. r \in Path /\ IsPrefix(Append(o, "replicas"), r)
            BY <1>1, <3>1, ReplicaFactsOf DEF RemovedReplicas, Replicas
        <3> DEFINE a == Append(o, "replicas")
        <3>3. a \in Path /\ IsPrefix(a, r)
            BY <3>1, <3>2, BelowReplicas
        <3>4. IsPrefix(a, l)
            <4> HIDE DEF a
            <4> QED
                BY <1>1, <2>1, <3>2, <3>3, PrefixOrder
        <3> QED
            BY <1>4, <3>1, <3>4
    <2>2. ASSUME NEW o \in Objects, IsPrefix(o, l), InScope(o, env.dropped),
                 RemovedReplicas(o) # {}, Replicas(o) \ env.dropped \subseteq RemovedReplicas(o)
          PROVE  MayGo(LockRoot)
        <3>1. o \in Path /\ Append(o, "replicas") \in InitTree
            BY ObjectFacts
        <3>2. MayGo(o)
            BY <1>9, <2>2, ObjectGoes
        <3> QED
            BY <1>5, <1>6, <2>2, <3>1, <3>2
    <2>3. ASSUME NEW q \in DOMAIN DdlHosts, command.ddl, IsPrefix(q, l),
                 DdlHosts[q] \cap Removed # {}
          PROVE  MayGo(LockRoot)
        <3>1. q \in Path /\ IsPrefix(DdlPath, q) /\ Len(q) = Len(DdlPath) + 1
            BY <1>1, DdlAssumption, ChildrenFacts
        <3>2. Len(q) \in Nat /\ Len(DdlPath) \in Nat
            BY <1>1, <3>1, PathFacts
        <3>3. CASE Len(q) <= Len(LockRoot)
            <4>1. IsPrefix(q, LockRoot)
                BY <1>1, <1>2, <2>3, <3>1, <3>3, PrefixOrder
            <4>2. MayGo(q)
                BY <1>9, <2>3 DEF MayGo, MatchedFor, HostKinds
            <4> QED
                BY <1>6, <3>1, <4>1, <4>2
        <3>4. CASE Len(LockRoot) <= Len(DdlPath)
            <4>1. IsPrefix(DdlPath, l)
                BY <1>1, <2>3, <3>1, PrefixOrder
            <4>2. IsPrefix(LockRoot, DdlPath)
                BY <1>1, <1>2, <3>4, <4>1, PrefixOrder
            <4>3. IsPrefix(ZeroCopy, DdlPath)
                BY <1>1, <1>2, <4>2, PrefixOrder
            <4> QED
                BY <4>3, TreeAssumption
        <3> QED
            BY <1>2, <3>1, <3>2, <3>3, <3>4
    <2>4. \/ \E o \in Objects :
            /\ IsPrefix(o, l) /\ InScope(o, env.dropped)
            /\ \/ \E r \in RemovedReplicas(o) : IsPrefix(r, l)
               \/ /\ RemovedReplicas(o) # {}
                  /\ Replicas(o) \ env.dropped \subseteq RemovedReplicas(o)
          \/ \E q \in DOMAIN DdlHosts :
                command.ddl /\ IsPrefix(q, l) /\ DdlHosts[q] \cap Removed # {}
          \/ LocksMatched(l, env.dropped)
        BY <1>9 DEF MatchedFor, HostKinds
    <2> QED
        BY <2>1, <2>2, <2>3, <2>4
<1> QED
    BY <1>7, <1>8, <1>9 DEF LockKinds, HostKinds

\* A path below the directory of the locks may go when all the locks at it, above it
\* and below it were asked for.
LEMMA LocksGo ==
    ASSUME command \in Commands, command.kind \in LockKinds, NEW p \in Path,
           IsStrictPrefix(LockRoot, p),
           RaceFree(command) =>
               \A l \in InitTree \ env.dropped :
                  IsLock(l) /\ (IsPrefix(p, l) \/ IsPrefix(l, p)) =>
                      \E f \in Filters : LockMatched(f, l)
    PROVE  MayGo(p)
<1> SUFFICES ASSUME RaceFree(command), NEW n \in InitTree \ env.dropped, IsPrefix(p, n)
             PROVE  MatchedFor(n, env.dropped)
    BY DEF MayGo
<1>1. LockRoot \in Path /\ InitTree \in SUBSET Path /\ n \in Path
    BY LockRootFacts, InitTreeFacts
<1>2. Len(p) \in Nat /\ Len(n) \in Nat /\ Len(LockRoot) \in Nat
    BY <1>1, PathFacts
<1>3. IsStrictPrefix(LockRoot, n)
    <2>1. IsPrefix(LockRoot, p) /\ Len(LockRoot) < Len(p)
        BY <1>1, PrefixOrder
    <2>2. IsPrefix(LockRoot, n) /\ Len(p) <= Len(n)
        BY <1>1, <2>1, PrefixOrder
    <2> QED
        BY <1>1, <1>2, <2>1, <2>2, PrefixOrder
<1>4. ASSUME NEW l \in InitTree \ env.dropped, IsLock(l), IsPrefix(n, l) \/ IsPrefix(l, n)
      PROVE  \E f \in Filters : LockMatched(f, l)
    <2>1. l \in Path /\ Len(l) \in Nat
        BY <1>1, PathFacts
    <2>2. IsPrefix(p, l) \/ IsPrefix(l, p)
        BY <1>1, <1>2, <1>4, <2>1, PrefixOrder
    <2> QED
        BY <1>4, <2>2
<1>5. LocksMatched(n, env.dropped)
    BY <1>3, <1>4 DEF LocksMatched
<1> QED
    BY <1>5 DEF MatchedFor, LockKinds

\* What a lock is compared with.
LEMMA LockIs ==
    ASSUME command \in Commands, NEW l \in Path, IsLock(l)
    PROVE  LET q == SubSeq(l, Len(LockRoot) + 1, Len(l))
           IN  /\ Len(q) = 4 /\ Len(l) = Len(LockRoot) + 4
               /\ \A i \in 1..4 : q[i] = l[Len(LockRoot) + i]
<1>1. LockRoot \in Path /\ Len(LockRoot) \in Nat /\ Len(l) \in Nat
    BY LockRootFacts, PathFacts
<1>2. Len(l) = Len(LockRoot) + 4
    BY DEF IsLock
<1> DEFINE k == Len(LockRoot) + 1
           m == Len(l)
<1>3. k \in Int /\ m \in Int /\ k <= m /\ m - k + 1 = 4 /\ \A i \in k..m : i \in 1..Len(l)
    BY <1>1, <1>2
<1>4. \A i \in k..m : l[i] \in Label
    BY <1>3, PathFacts
<1>5. k - 1 = Len(LockRoot)
    BY <1>1
<1> HIDE DEF k, m
<1>6. /\ Len(SubSeq(l, k, m)) = 4
      /\ \A i \in 1..4 : SubSeq(l, k, m)[i] = l[k + i - 1]
    BY <1>3, <1>4, SubSeqProperties
<1>7. \A i \in 1..4 : k + i - 1 = Len(LockRoot) + i
    BY <1>1, <1>3, <1>5
<1> QED
    BY <1>2, <1>6, <1>7 DEF k, m

\* A clean-up after hosts has a host whose locks it cleans.
HostLeft == command.kind \in HostKinds => whose.hosts # <<>>

\* The templates of the command are the ones the command line asks for.
LEMMA FilterFacts ==
    ASSUME CleanInv, RaceFree(command), pc \in {"locks", "walk", "walk_delete", "find"},
           HostLeft
    PROVE  Filter \in Filters
<1>1. command.kind \in LockKinds
    BY DEF CleanInv, Control
<1>2. CASE command.kind \in {"locks", "drop"}
    <2>1. whose.table = AskedTable
        BY <1>2 DEF CleanInv, WhoseInv
    <2> QED
        BY <1>2, <2>1 DEF Filter, Filters
<1>3. CASE command.kind \in HostKinds
    <2>1. whose.hosts \in Seq(Removed) /\ whose.hosts # <<>>
        BY <1>3 DEF CleanInv, WhoseInv, HostLeft
    <2>2. Head(whose.hosts) \in Removed
        BY <2>1, HeadTailProperties
    <2> QED
        BY <1>3, <2>2 DEF Filter, Filters, HostKinds
<1> QED
    BY <1>1, <1>2, <1>3 DEF LockKinds, HostKinds

\* A lock that matches may go.
LEMMA MatchGoes ==
    ASSUME CleanInv, pc = "walk", NEW p \in Path, IsPrefix(LockRoot, p), Matches(Filter, p)
    PROVE  MayGo(p) /\ Len(p) <= Len(LockRoot) + 4
<1>1. command \in Commands /\ command.kind \in LockKinds
    BY DEF CleanInv, Control
<1>2. LockRoot \in Path /\ Len(LockRoot) \in Nat /\ Len(p) \in Nat
    BY <1>1, LockRootFacts, PathFacts
<1> DEFINE k == Len(LockRoot) + 1
           m == Len(p)
<1>3. Len(SubSeq(p, k, m)) = 4
    BY DEF Matches
<1>4. Len(p) = Len(LockRoot) + 4
    <2>1. k \in Int /\ m \in Int /\ \A i \in k..m : i \in 1..Len(p)
        BY <1>2
    <2>2. \A i \in k..m : p[i] \in Label
        BY <2>1, PathFacts
    <2> HIDE DEF k, m
    <2>3. Len(SubSeq(p, k, m)) = IF k <= m THEN m - k + 1 ELSE 0
        BY <2>1, <2>2, SubSeqProperties
    <2>4. k <= m /\ m - k + 1 = 4
        BY <1>3, <2>1, <2>3
    <2> QED
        BY <1>2, <2>1, <2>4 DEF k, m
<1>5. IsStrictPrefix(LockRoot, p)
    BY <1>2, <1>4, PrefixOrder
<1>6. ASSUME RaceFree(command), NEW l \in InitTree \ env.dropped, IsLock(l),
             IsPrefix(p, l) \/ IsPrefix(l, p)
      PROVE  \E f \in Filters : LockMatched(f, l)
    <2>1. l \in Path
        BY InitTreeFacts
    <2>2. Len(l) = Len(LockRoot) + 4
        BY <1>6 DEF IsLock
    <2>3. l = p
        BY <1>4, <1>6, <2>1, <2>2, PrefixOrder
    <2>4. Filter \in Filters
        BY <1>6, FilterFacts DEF CleanInv, WhoseInv, HostLeft
    <2>5. Filter.replica # "" \/ Filter.prefix # ""
        BY DEF CleanInv, WhoseInv
    <2>6. LockMatched(Filter, l)
        BY <2>3, <2>5 DEF LockMatched
    <2> QED
        BY <2>4, <2>6
<1>7. MayGo(p)
    BY <1>1, <1>5, <1>6, LocksGo
<1> QED
    BY <1>2, <1>4, <1>7

\* A lock below a path that may go was asked for.
LEMMA LockBelow ==
    ASSUME command \in Commands, command.kind \in LockKinds, RaceFree(command),
           ~MayGo(LockRoot), NEW c \in Path, MayGo(c),
           NEW l \in InitTree \ env.dropped, IsLock(l), IsPrefix(c, l)
    PROVE  \E f \in Filters : LockMatched(f, l)
<1>1. l \in Path
    BY InitTreeFacts
<1>2. MatchedFor(l, env.dropped)
    BY DEF MayGo
<1>3. IsPrefix(LockRoot, l)
    BY DEF IsLock
<1>4. LocksMatched(l, env.dropped)
    BY <1>2, <1>3, AskedOutside
<1> QED
    BY <1>1, <1>4, PrefixOrder DEF LocksMatched

\* A directory all of whose nodes of the first tree may go.
LEMMA DirGo ==
    ASSUME command \in Commands, command.kind \in LockKinds, NEW p \in Path,
           IsStrictPrefix(LockRoot, p), Len(p) <= Len(LockRoot) + 3,
           \A c \in Children(InitTree, p) : MayGo(c)
    PROVE  MayGo(p)
<1>1. LockRoot \in Path /\ Len(LockRoot) \in Nat /\ Len(p) \in Nat
    BY LockRootFacts, PathFacts
<1>2. InitTree \in SUBSET Path /\ PrefixClosed(InitTree)
    BY InitTreeFacts
<1>3. CASE MayGo(LockRoot)
    BY <1>1, <1>3, GoDown, PrefixOrder
<1>4. CASE ~MayGo(LockRoot)
    <2>1. ASSUME RaceFree(command), NEW l \in InitTree \ env.dropped, IsLock(l),
                 IsPrefix(p, l) \/ IsPrefix(l, p)
          PROVE  \E f \in Filters : LockMatched(f, l)
        <3>1. l \in Path /\ Len(l) = Len(LockRoot) + 4
            BY <1>2, <2>1 DEF IsLock
        <3>2. Len(p) < Len(l)
            BY <1>1, <3>1
        <3>3. IsPrefix(p, l)
            BY <1>1, <2>1, <3>1, <3>2, PrefixOrder
        <3>4. PICK c \in Children(InitTree, p) : IsPrefix(c, l)
            BY <1>2, <3>2, <3>3, ChildOnTheWay
        <3>5. c \in Path /\ MayGo(c)
            BY <1>2, <3>4, ChildrenFacts
        <3> QED
            BY <1>4, <2>1, <3>4, <3>5, LockBelow
    <2> QED
        BY <2>1, LocksGo
<1> QED
    BY <1>3, <1>4

\* The name of a lock after the directory of the locks.
LEMMA SameName ==
    ASSUME NEW p \in Path, NEW l \in Path, NEW i \in Nat \ {0}, Len(p) >= i,
           IsPrefix(p, l) \/ (IsPrefix(l, p) /\ Len(l) >= i)
    PROVE  l[i] = p[i]
<1>1. Len(p) \in Nat /\ Len(l) \in Nat
    BY PathFacts
<1>2. i \in 1..Len(p)
    BY <1>1
<1>3. CASE IsPrefix(p, l)
    <2>1. \A j \in 1..Len(p) : p[j] = l[j]
        BY <1>3, PrefixIs
    <2> QED
        BY <1>2, <2>1
<1>4. CASE IsPrefix(l, p) /\ Len(l) >= i
    <2>1. \A j \in 1..Len(l) : l[j] = p[j]
        BY <1>4, PrefixIs
    <2>2. i \in 1..Len(l)
        BY <1>1, <1>4
    <2> QED
        BY <2>1, <2>2
<1> QED
    BY <1>3, <1>4

\* Nothing but a table is asked for.
OnlyTable ==
    Filter.replica = "" /\ Filter.prefix = "" /\ Filter.part = "" /\ Filter.table # ""

\* The directory of the table, when nothing but the table was asked for.
LEMMA TableGoes ==
    ASSUME CleanInv, pc = "locks", OnlyTable, HostLeft, Filter.table \in Label
    PROVE  Append(LockRoot, Filter.table) \in Path /\ MayGo(Append(LockRoot, Filter.table))
<1>1. command \in Commands /\ command.kind \in LockKinds
    BY DEF CleanInv, Control
<1>2. LockRoot \in Path /\ Len(LockRoot) \in Nat
    BY <1>1, LockRootFacts
<1> DEFINE k == Len(LockRoot) + 1
           p == Append(LockRoot, Filter.table)
<1>3. p \in Path /\ Len(p) = k /\ p[k] = Filter.table /\ IsStrictPrefix(LockRoot, p)
    BY <1>2, AppendFacts
<1> HIDE DEF p
<1>4. k \in Nat \ {0} /\ k = Len(LockRoot) + 1
    BY <1>2
<1> HIDE DEF k
<1>5. ASSUME RaceFree(command), NEW l \in InitTree \ env.dropped, IsLock(l),
             IsPrefix(p, l) \/ IsPrefix(l, p)
      PROVE  \E f \in Filters : LockMatched(f, l)
    <2> DEFINE q == SubSeq(l, Len(LockRoot) + 1, Len(l))
    <2>1. l \in Path
        BY InitTreeFacts
    <2>2. Len(l) = Len(LockRoot) + 4 /\ \A i \in 1..4 : q[i] = l[Len(LockRoot) + i]
        BY <1>1, <1>5, <2>1, LockIs
    <2> HIDE DEF q
    <2>3. Len(p) >= k /\ Len(l) >= k /\ q[1] = l[k]
        BY <1>2, <1>3, <1>4, <2>2
    <2>4. Filter \in Filters
        BY <1>5, FilterFacts
    <2>5. l[k] = p[k]
        BY <1>4, <1>5, <1>3, <2>1, <2>3, SameName
    <2>6. q[1] = Filter.table
        BY <1>3, <2>3, <2>5
    <2>7. LockMatched(Filter, l)
        BY <2>6 DEF LockMatched, q, OnlyTable
    <2> QED
        BY <2>4, <2>7
<1>6. MayGo(p)
    BY <1>1, <1>3, <1>5, LocksGo
<1> QED
    BY <1>3, <1>6 DEF p

\* The directory of a part.
LEMMA PartGoes ==
    ASSUME CleanInv, pc = "find", NEW c \in Path, IsPrefix(LockRoot, c),
           Len(c) = Len(LockRoot) + 2, c[Len(c) - 1] = Filter.table, Starts(Filter.part, Last(c))
    PROVE  MayGo(c)
<1>1. command \in Commands /\ command.kind \in LockKinds
    BY DEF CleanInv, Control
<1>2. LockRoot \in Path /\ Len(LockRoot) \in Nat /\ Len(c) \in Nat
    BY <1>1, LockRootFacts, PathFacts
<1>3. Filter.replica = "" /\ Filter.prefix = "" /\ Filter.part # ""
    BY DEF CleanInv, WhoseInv
<1>4. command.kind = "locks" /\ command.table # ""
    <2>1. command.part # ""
        BY <1>3 DEF Filter
    <2> QED
        BY <1>1, <2>1, CommandFacts
<1> DEFINE k == Len(LockRoot) + 1
<1>5. IsStrictPrefix(LockRoot, c) /\ Len(c) - 1 = k /\ Len(c) = k + 1 /\ k \in Nat \ {0}
    BY <1>2, PrefixOrder
<1>6. c[k] = Filter.table /\ Starts(Filter.part, c[k + 1])
    BY <1>5 DEF Last
<1>7. ASSUME RaceFree(command), NEW l \in InitTree \ env.dropped, IsLock(l),
             IsPrefix(c, l) \/ IsPrefix(l, c)
      PROVE  \E f \in Filters : LockMatched(f, l)
    <2> DEFINE q == SubSeq(l, Len(LockRoot) + 1, Len(l))
    <2>1. l \in Path
        BY InitTreeFacts
    <2>2. Len(l) = Len(LockRoot) + 4 /\ \A i \in 1..4 : q[i] = l[Len(LockRoot) + i]
        BY <1>1, <1>7, <2>1, LockIs
    <2> HIDE DEF q
    <2>3. q[1] = l[k] /\ q[2] = l[k + 1]
        BY <1>2, <2>2
    <2>4. k + 1 \in Nat \ {0} /\ Len(c) >= k /\ Len(c) >= k + 1 /\ Len(l) >= k /\ Len(l) >= k + 1
        BY <1>2, <1>5, <2>2
    <2> HIDE DEF k
    <2>5. l[k] = c[k] /\ l[k + 1] = c[k + 1]
        BY <1>5, <1>7, <2>1, <2>4, SameName
    <2>6. Filter \in Filters
        BY <1>4, <1>7, FilterFacts DEF HostKinds, HostLeft
    <2>7. Filter.table # ""
        <3>1. whose.table = AskedTable
            BY <1>4, <1>7 DEF CleanInv, WhoseInv
        <3> QED
            BY <1>4, <3>1 DEF Filter, AskedTable
    <2>8. LockMatched(Filter, l)
        BY <1>3, <1>6, <2>3, <2>5, <2>7 DEF LockMatched, q
    <2> QED
        BY <2>6, <2>8
<1> QED
    BY <1>1, <1>5, <1>7, LocksGo

---------------------------------------------------------------------------
(* The directories of the walk *)

\* A directory the walk enters.
LEMMA NewFrame ==
    ASSUME CleanInv, command.kind # "create", NEW p \in Path, IsPrefix(LockRoot, p)
    PROVE  Frame(p) \in Frames /\ FrameOk(Frame(p), {}) /\ Frame(p).path = p
<1> DEFINE C == Children(tree, p)
<1>1. tree \in SUBSET Path /\ IsFiniteSet(tree)
    BY DEF CleanInv, TreeInv, TreeShape
<1>2. IsFiniteSet(C) /\ C \subseteq Path
      /\ \A c \in C : c \in Path /\ Len(c) = Len(p) + 1 /\ IsPrefix(p, c)
    BY <1>1, ChildrenFacts
<1>3. Cardinality(C) \in Nat /\ Cardinality({}) = 0
    BY <1>2, FS_CardinalityType, FS_EmptySet
<1>4. Frame(p) = [path |-> p, todo |-> C, total |-> Cardinality(C), matched |-> 0]
    BY DEF Frame
<1>5. \A c \in Children(InitTree, p) \ C : c \in InitTree /\ c \notin tree
    BY DEF Children
<1>6. \A c \in Children(InitTree, p) \ C : MayGo(c)
    BY <1>5, LostGo
<1> HIDE DEF C
<1>7. FrameSets(Frame(p), {}, C, {})
    BY <1>2, <1>3, <1>4, <1>6 DEF FrameSets
<1>8. FrameOk(Frame(p), {})
    BY <1>2, <1>7 DEF FrameOk
<1> QED
    BY <1>2, <1>3, <1>4, <1>8 DEF Frames

\* The walk comes back from a directory.
LEMMA FrameLeft ==
    ASSUME NEW f, NEW b, NEW b2 \in SUBSET b, FrameOk(f, b)
    PROVE  FrameOk(f, b2)
<1>1. PICK C, G \in SUBSET Path : FrameSets(f, b, C, G)
    BY DEF FrameOk
<1>2. FrameSets(f, b2, C, G)
    BY <1>1 DEF FrameSets
<1> QED
    BY <1>2 DEF FrameOk

\* The next child of a directory.
LEMMA FrameVisits ==
    ASSUME NEW f \in Frames, FrameOk(f, {}), NEW c \in f.todo
    PROVE  LET g == [f EXCEPT !.todo = f.todo \ {c}]
           IN  /\ g \in Frames /\ g.path = f.path /\ FrameOk(g, {c})
               /\ c \in Path /\ Len(c) = Len(f.path) + 1 /\ IsPrefix(f.path, c)
<1> DEFINE g == [f EXCEPT !.todo = f.todo \ {c}]
<1>1. PICK C, G \in SUBSET Path : FrameSets(f, {}, C, G)
    BY DEF FrameOk
<1>2. /\ g \in Frames /\ g.path = f.path /\ g.total = f.total /\ g.matched = f.matched
      /\ g.todo = f.todo \ {c}
    BY DEF Frames
<1> HIDE DEF g
<1>3. FrameSets(g, {c}, C, G)
    BY <1>1, <1>2 DEF FrameSets
<1>4. c \in Path /\ Len(c) = Len(f.path) + 1 /\ IsPrefix(f.path, c)
    BY <1>1 DEF FrameSets
<1> QED
    BY <1>2, <1>3, <1>4 DEF FrameOk, g

\* A child that may go counts.
LEMMA FrameCounts ==
    ASSUME NEW f \in Frames, NEW c, FrameOk(f, {c}), MayGo(c), Len(c) <= Len(LockRoot) + 4
    PROVE  LET g == [f EXCEPT !.matched = f.matched + 1]
           IN  g \in Frames /\ g.path = f.path /\ FrameOk(g, {})
<1> DEFINE g == [f EXCEPT !.matched = f.matched + 1]
<1>1. PICK C, G \in SUBSET Path : FrameSets(f, {c}, C, G)
    BY DEF FrameOk
<1>2. /\ g \in Frames /\ g.path = f.path /\ g.total = f.total /\ g.matched = f.matched + 1
      /\ g.todo = f.todo
    BY DEF Frames
<1> HIDE DEF g
<1>3. IsFiniteSet(G) /\ c \notin G /\ c \in C
    BY <1>1, FS_Subset DEF FrameSets
<1>4. Cardinality(G \cup {c}) = g.matched
    BY <1>1, <1>2, <1>3, FS_AddElement DEF FrameSets
<1>5. FrameSets(g, {}, C, G \cup {c})
    BY <1>1, <1>2, <1>3, <1>4 DEF FrameSets
<1>6. G \cup {c} \in SUBSET Path
    BY <1>3
<1> QED
    BY <1>2, <1>5, <1>6 DEF FrameOk, g

\* No more children count than there are, and when all count, all may go.
LEMMA FrameFull ==
    ASSUME command \in Commands, NEW f \in Frames, NEW b, FrameOk(f, b)
    PROVE  /\ f.matched <= f.total
           /\ f.total > 0 /\ f.matched = f.total =>
                 /\ \A c \in Children(InitTree, f.path) : MayGo(c)
                 /\ Len(f.path) <= Len(LockRoot) + 3
<1>1. PICK C, G \in SUBSET Path : FrameSets(f, b, C, G)
    BY DEF FrameOk
<1>2. IsFiniteSet(C) /\ Cardinality(C) = f.total /\ G \in SUBSET C /\ Cardinality(G) = f.matched
    BY <1>1 DEF FrameSets
<1>3. f.matched <= f.total /\ (f.matched = f.total => C = G)
    BY <1>2, FS_Subset
<1>4. ASSUME f.total > 0, f.matched = f.total
      PROVE  /\ \A c \in Children(InitTree, f.path) : MayGo(c)
             /\ Len(f.path) <= Len(LockRoot) + 3
    <2>1. C = G
        BY <1>3, <1>4
    <2>2. \A c \in Children(InitTree, f.path) : MayGo(c)
        BY <1>1, <2>1 DEF FrameSets
    <2>3. f.total # 0
        BY <1>4 DEF Frames
    <2>4. C # {}
        BY <1>2, <2>3, FS_EmptySet
    <2>5. PICK c \in C : TRUE
        BY <2>4
    <2>6. Len(c) = Len(f.path) + 1 /\ Len(c) <= Len(LockRoot) + 4
        BY <1>1, <2>1, <2>5 DEF FrameSets
    <2>7. Len(LockRoot) \in Nat /\ Len(f.path) \in Nat
        BY LockRootFacts, PathFacts DEF Frames
    <2> QED
        BY <2>2, <2>6, <2>7
<1> QED
    BY <1>3, <1>4

---------------------------------------------------------------------------
(* The stack of the walk *)

\* Another top of the stack, for the same directory.
LEMMA SetTop ==
    ASSUME NEW s, StackOk(s), s # <<>>, NEW f \in Frames, f.path = s[Len(s)].path
    PROVE  LET t == [s EXCEPT ![Len(s)] = f]
           IN  /\ t \in Seq(Frames) /\ Len(t) = Len(s) /\ t[Len(t)] = f /\ t # <<>>
               /\ t[1].path = LockRoot
               /\ \A i \in 1..Len(s) : i # Len(s) => FrameOk(t[i], Busy(t, i))
               /\ FrameOk(f, {}) => StackOk(t)
<1> DEFINE n == Len(s)
           t == [s EXCEPT ![n] = f]
<1>1. s \in Seq(Frames) /\ n \in Nat /\ n # 0 /\ s[1].path = LockRoot
    BY EmptySeq, LenProperties DEF StackOk
<1>2. n \in 1..Len(s) /\ 1 \in 1..Len(s)
    BY <1>1
<1>3. /\ t \in Seq(Frames) /\ Len(t) = n
      /\ \A j \in 1..Len(s) : t[j] = IF j = n THEN f ELSE s[j]
    BY <1>1, <1>2, ExceptSeq
<1>4. n = Len(s)
    OBVIOUS
<1> HIDE DEF t, n
<1>5. t[n] = f /\ \A j \in 1..n : t[j].path = s[j].path
    BY <1>2, <1>3, <1>4
<1>6. ASSUME NEW i \in 1..n, i # n
      PROVE  FrameOk(t[i], Busy(t, i))
    <2>1. i + 1 \in 1..n
        BY <1>1, <1>6
    <2>2. t[i] = s[i] /\ Busy(t, i) = Busy(s, i)
        BY <1>3, <1>4, <1>5, <1>6, <2>1 DEF Busy
    <2> QED
        BY <1>4, <2>2 DEF StackOk
<1>7. ASSUME FrameOk(f, {})
      PROVE  \A i \in 1..n : FrameOk(t[i], Busy(t, i))
    <2>1. Busy(t, n) = {}
        BY <1>3 DEF Busy
    <2> QED
        BY <1>5, <1>6, <1>7, <2>1
<1>8. t[1].path = LockRoot
    BY <1>1, <1>2, <1>4, <1>5
<1>9. t # <<>>
    BY <1>1, <1>3, EmptySeq
<1>10. FrameOk(f, {}) => StackOk(t)
    BY <1>3, <1>7, <1>8 DEF StackOk
<1> QED
    BY <1>3, <1>4, <1>5, <1>6, <1>8, <1>9, <1>10 DEF t, n

\* The walk enters a directory.
LEMMA PushFrame ==
    ASSUME NEW s, StackOk(s), s # <<>>, NEW f \in Frames, f.path = s[Len(s)].path,
           NEW g \in Frames, FrameOk(f, {g.path}), FrameOk(g, {})
    PROVE  StackOk(Append([s EXCEPT ![Len(s)] = f], g))
<1> DEFINE t == [s EXCEPT ![Len(s)] = f]
<1>1. /\ t \in Seq(Frames) /\ Len(t) = Len(s) /\ t[Len(t)] = f /\ t # <<>>
      /\ t[1].path = LockRoot
      /\ \A i \in 1..Len(t) : i # Len(t) => FrameOk(t[i], Busy(t, i))
    BY SetTop
<1> HIDE DEF t
<1>2. Len(t) \in Nat /\ Len(t) # 0
    BY <1>1, EmptySeq, LenProperties
<1> DEFINE u == Append(t, g)
           n == Len(t)
<1>3. /\ u \in Seq(Frames) /\ Len(u) = n + 1 /\ u[n + 1] = g
      /\ \A i \in 1..n : u[i] = t[i]
    BY <1>1, AppendProperties
<1>4. n \in Nat /\ n # 0 /\ n = Len(t)
    BY <1>2
<1> HIDE DEF u, n
<1>5. ASSUME NEW i \in 1..Len(u)
      PROVE  FrameOk(u[i], Busy(u, i))
    <2>1. CASE i = n + 1
        BY <1>3, <2>1 DEF Busy
    <2>2. CASE i = n
        <3>1. i # Len(u) /\ i + 1 = n + 1 /\ i \in 1..n
            BY <1>3, <1>4, <2>2
        <3>2. Busy(u, i) = {g.path} /\ u[i] = f
            BY <1>1, <1>3, <1>4, <2>2, <3>1 DEF Busy
        <3> QED
            BY <3>2
    <2>3. CASE i \in 1..(n - 1)
        <3>1. i # Len(u) /\ i # n /\ i \in 1..n /\ i + 1 \in 1..n
            BY <1>3, <1>4, <2>3
        <3>2. Busy(u, i) = Busy(t, i) /\ u[i] = t[i]
            BY <1>3, <1>4, <3>1 DEF Busy
        <3> QED
            BY <1>1, <1>4, <3>1, <3>2
    <2> QED
        BY <1>3, <1>4, <2>1, <2>2, <2>3
<1>6. u[1].path = LockRoot
    <2>1. 1 \in 1..n
        BY <1>4
    <2> QED
        BY <1>1, <1>3, <2>1
<1>7. StackOk(u)
    BY <1>3, <1>5, <1>6 DEF StackOk
<1> QED
    BY <1>7 DEF u, t

\* The walk leaves a directory.
LEMMA PopFrame ==
    ASSUME NEW s, StackOk(s), s # <<>>
    PROVE  /\ StackOk(Front(s)) /\ Len(Front(s)) = Len(s) - 1
           /\ Front(s) # <<>> =>
                 LET up == Front(s)[Len(s) - 1]
                 IN  up \in Frames /\ FrameOk(up, {s[Len(s)].path})
<1> DEFINE n == Len(s) - 1
           t == SubSeq(s, 1, n)
<1>1. s \in Seq(Frames) /\ Len(s) \in Nat /\ Len(s) # 0 /\ s[1].path = LockRoot
    BY EmptySeq, LenProperties DEF StackOk
<1>2. n \in Nat /\ Len(s) = n + 1 /\ n \in Int /\ 1 \in Int /\ n - 1 + 1 = n
    BY <1>1
<1>3. Front(s) = t
    BY DEF Front
<1> HIDE DEF n
<1>4. \A i \in 1..n : i \in 1..Len(s) /\ i + 1 \in 1..Len(s) /\ i # Len(s)
    BY <1>2
<1>5. \A i \in 1..n : s[i] \in Frames
    BY <1>1, <1>4, ElementOfSeq
<1>6. t \in Seq(Frames) /\ Len(t) = n /\ \A i \in 1..n : t[i] = s[i]
    BY <1>2, <1>5, SubSeqProperties
<1> HIDE DEF t
<1>7. ASSUME NEW i \in 1..n
      PROVE  FrameOk(t[i], Busy(t, i))
    <2>1. t[i] = s[i] /\ FrameOk(s[i], Busy(s, i))
        BY <1>4, <1>6 DEF StackOk
    <2>2. Busy(t, i) \in SUBSET Busy(s, i)
        <3>1. CASE i = n
            BY <1>6, <3>1 DEF Busy
        <3>2. CASE i # n
            <4>1. i + 1 \in 1..n
                BY <1>2, <3>2
            <4> QED
                BY <1>4, <1>6, <3>2, <4>1 DEF Busy
        <3> QED
            BY <3>1, <3>2
    <2> QED
        BY <2>1, <2>2, FrameLeft
<1>8. t # <<>> => t[1].path = LockRoot
    <2>1. t # <<>> => Len(t) # 0
        BY <1>6, EmptySeq
    <2>2. n # 0 => 1 \in 1..n
        BY <1>2
    <2> QED
        BY <1>1, <1>6, <2>1, <2>2
<1>9. StackOk(t)
    BY <1>6, <1>7, <1>8 DEF StackOk
<1>10. ASSUME t # <<>>
       PROVE  t[n] \in Frames /\ FrameOk(t[n], {s[Len(s)].path})
    <2>1. Len(t) # 0
        BY <1>6, <1>10, EmptySeq
    <2>2. n \in 1..n
        BY <1>2, <1>6, <2>1
    <2>3. t[n] = s[n] /\ FrameOk(s[n], Busy(s, n)) /\ s[n] \in Frames
        BY <1>4, <1>5, <1>6, <2>2 DEF StackOk
    <2>4. Busy(s, n) = {s[Len(s)].path}
        BY <1>2, <1>4, <2>2 DEF Busy
    <2> QED
        BY <2>3, <2>4
<1> QED
    BY <1>2, <1>3, <1>6, <1>9, <1>10 DEF n

---------------------------------------------------------------------------
(* What a step keeps of the invariant *)

DeletePcs == {"ddl_delete", "walk_delete", "delete"}
LockPcs == {"replica", "shared_id", "locks", "walk", "walk_delete", "find"}

\* A step that deletes nothing keeps LostInv.
LEMMA KeepsTree ==
    ASSUME CleanInv, command' = command, env.dropped \subseteq env.dropped'
    PROVE  /\ tree' = tree => TreeInv'
           /\ tree \subseteq tree' => LostInv'
<1>1. tree' = tree => TreeInv'
    BY DEF CleanInv, TreeInv, TreeShape
<1>2. ASSUME tree \subseteq tree' PROVE LostInv'
    <2> DEFINE D == {}
    <2>1. tree \ D \subseteq tree' /\ D \subseteq Path /\ D \ env.dropped' = {} /\ LostInv
        BY <1>2 DEF CleanInv
    <2> HIDE DEF D
    <2> QED
        BY <2>1, LostKept
<1> QED
    BY <1>1, <1>2

\* A deletion that goes on keeps its shape, whatever servers delete meanwhile.
LEMMA KeepsDel ==
    ASSUME CleanInv, command' = command, env.dropped \subseteq env.dropped',
           del' = del, pc' \in DeletePcs <=> pc \in DeletePcs
    PROVE  DelInv'
<1>1. DelShape(del, Going) /\ (del.phase # "none" <=> pc \in DeletePcs)
    BY DEF CleanInv, DelInv, DeletePcs
<1>2. Going \subseteq Going'
    BY ScopeGrows
<1> DEFINE U == Going'
<1>3. Going \subseteq U
    BY <1>2
<1>4. DelShape(del, U)
    BY <1>1, <1>3, SeqGrows DEF DelShape
<1>5. DelShape(del, Going)'
    BY <1>4 DEF DelShape
<1> QED
    BY <1>1, <1>5 DEF DelInv, DeletePcs

\* So do the queues of the traversal, and the drop queries,
LEMMA KeepsInspector ==
    ASSUME CleanInv, command' = command, env.dropped \subseteq env.dropped'
    PROVE  /\ inspector' = inspector /\ objects' = objects => InspectorInv'
           /\ tasks' = tasks => TasksInv'
<1>1. /\ inspector \in [pending : Seq(Reached), active : Seq(Requests), finished : Seq(Answers)]
      /\ Len(inspector.active) <= MaxActive /\ objects \in Seq(Reached)
    BY DEF CleanInv, InspectorInv
<1>2. Reached \subseteq Reached' /\ Requests \subseteq Requests' /\ Answers \subseteq Answers'
    BY ScopeGrows
<1>3. /\ Seq(Reached) \subseteq Seq(Reached') /\ Seq(Requests) \subseteq Seq(Requests')
      /\ Seq(Answers) \subseteq Seq(Answers')
    BY <1>2, SeqGrows
<1>4. ASSUME inspector' = inspector, objects' = objects PROVE InspectorInv'
    BY <1>1, <1>3, <1>4 DEF InspectorInv
<1>5. ASSUME tasks' = tasks PROVE TasksInv'
    BY <1>5, TaskGrows DEF CleanInv, TasksInv
<1> QED
    BY <1>4, <1>5

\* and the DDL tasks.
LEMMA KeepsDdl ==
    ASSUME CleanInv, command' = command, env.dropped \subseteq env.dropped',
           ddl' = ddl, pc' = "ddl_mark" => pc = "ddl_mark"
    PROVE  DdlInv'
<1>1. Going \subseteq Going'
    BY ScopeGrows
<1>2. Seq(Going) \subseteq Seq(Going')
    BY <1>1, SeqGrows
<1>3. ddl \in [queue : Seq(DOMAIN DdlHosts), todo : Seq(STRING), task : Path,
                remove : Seq(Going'), polls : 0..MaxPolls]
    BY <1>2 DEF CleanInv, DdlInv
<1> QED
    BY <1>3 DEF CleanInv, DdlInv

\* The hosts, or the table, whose locks are cleaned.
LEMMA KeepsWhose ==
    ASSUME CleanInv, command' = command, whose' = whose,
           \/ pc' = pc
           \/ pc' \notin LockPcs
           \/ pc' = "locks" /\ command.kind \in HostKinds
    PROVE  WhoseInv'
<1>1. Filter' = Filter /\ Removed' = Removed /\ AskedTable' = AskedTable
    BY SameNames DEF Filter
<1> QED
    BY <1>1 DEF CleanInv, WhoseInv, LockPcs, HostKinds

\* What may go below a directory may go after the deletions of servers, too.
LEMMA StackGrows ==
    ASSUME CleanInv, command' = command, env.dropped \subseteq env.dropped', NEW s, StackOk(s)
    PROVE  StackOk(s)'
<1>1. LockRoot' = LockRoot /\ Frames' = Frames
    BY SameNames DEF Frames
<1>2. \A i \in 1..Len(s) : FrameOk(s[i], Busy(s, i))'
    <2> TAKE i \in 1..Len(s)
    <2>1. FrameOk(s[i], Busy(s, i))
        BY DEF StackOk
    <2> QED
        BY <2>1, FrameGrows
<1> QED
    BY <1>1, <1>2 DEF StackOk

\* The walk.
LEMMA KeepsWalk ==
    ASSUME CleanInv, command' = command, env.dropped \subseteq env.dropped', walk' = walk,
           \/ pc' # "find"
           \/ /\ pc' = pc /\ Filter' = Filter
              /\ RaceFree(command) /\ pc = "find" => PartDirs \subseteq tree'
    PROVE  WalkInv'
<1>1. LockRoot' = LockRoot
    BY SameNames
<1>2. Going \subseteq Going'
    BY ScopeGrows
<1>3. StackOk(walk.stack)'
    <2> DEFINE s == walk.stack
    <2>1. StackOk(s)
        BY DEF CleanInv, WalkInv
    <2>2. s' = s
        OBVIOUS
    <2> HIDE DEF s
    <2>3. StackOk(s)'
        BY <2>1, <2>2, StackGrows
    <2> QED
        BY <2>3 DEF s
<1>4. pc' = "find" /\ RaceFree(command) => walk.found \subseteq PartDirs'
    BY <1>1 DEF CleanInv, WalkInv, PartDirs
<1> QED
    BY <1>1, <1>2, <1>3, <1>4 DEF CleanInv, WalkInv

---------------------------------------------------------------------------
(* Deletions *)

\* The command removes nodes that may go, with what is below them.
LEMMA Removes ==
    ASSUME CleanInv, command.kind # "create", command' = command, env' = env, ~command.dry,
           NEW D, tree' = tree \ D, D \subseteq tree,
           \A n \in D, m \in tree : IsPrefix(n, m) => m \in D,
           \A n \in D : MayGo(n)
    PROVE  TreeInv' /\ LostInv'
<1>1. TreeShape(tree) /\ LostInv
    BY DEF CleanInv, TreeInv
<1>2. TreeShape(tree \ D)
    BY <1>1, RemoveUp
<1>3. TreeInv'
    BY <1>2 DEF TreeInv, TreeShape
<1>4. D \subseteq Path /\ tree \ D \subseteq tree' /\ env.dropped \subseteq env.dropped'
    BY <1>1 DEF TreeShape
<1>5. LostInv'
    BY <1>1, <1>4, LostKept
<1> QED
    BY <1>3, <1>5

\* It removes a node that may go and everything below it.
LEMMA RemovesSubtree ==
    ASSUME CleanInv, command.kind # "create", command' = command, env' = env, ~command.dry,
           NEW p \in Path, MayGo(p), tree' = tree \ Subtree(tree, p)
    PROVE  TreeInv' /\ LostInv'
<1> DEFINE D == Subtree(tree, p)
<1>1. tree \in SUBSET Path
    BY DEF CleanInv, TreeInv, TreeShape
<1>2. D \subseteq tree /\ \A n \in D : n \in Path /\ IsPrefix(p, n)
    BY <1>1 DEF Subtree
<1>3. \A n \in D : MayGo(n)
    BY <1>2, GoDown
<1>4. \A n \in D, m \in tree : IsPrefix(n, m) => m \in D
    BY <1>1, SubtreeIsUp
<1> HIDE DEF D
<1>5. tree' = tree \ D
    BY DEF D
<1> QED
    BY <1>2, <1>3, <1>4, <1>5, Removes

\* A deletion runs for a caller that waits for it.
LEMMA Deleting ==
    ASSUME CleanInv, del.phase # "none"
    PROVE  /\ pc \in DeletePcs /\ command.kind # "create" /\ pc # "find" /\ pc # "ddl_mark"
           /\ DelShape(del, Going)
           /\ del.phase \in {"delete", "single", "last"} => ~command.dry
           /\ tree \in SUBSET Path /\ IsFiniteSet(tree) /\ PrefixClosed(tree)
           /\ \A n \in tree : n # <<>>
<1>1. pc \in DeletePcs
    BY DEF CleanInv, DelInv, DeletePcs
<1>2. command.kind # "create" /\ pc # "find" /\ pc # "ddl_mark"
    BY <1>1 DEF CleanInv, Control, DeletePcs
<1>3. /\ DelShape(del, Going)
      /\ del.phase \in {"delete", "single", "last"} => ~command.dry
    BY DEF CleanInv, DelInv, DelShape
<1>4. TreeShape(tree)
    BY <1>2 DEF CleanInv, TreeInv
<1>5. \A n \in tree : n # <<>>
    BY <1>4 DEF TreeShape
<1> QED
    BY <1>1, <1>2, <1>3, <1>4, <1>5 DEF TreeShape

\* A step of a deletion keeps the rest of the invariant.
LEMMA DeletionKeeps ==
    ASSUME CleanInv, UNCHANGED cleanVars, del.phase # "none",
           TreeInv', LostInv', DelShape(del', Going), del'.phase # "none"
    PROVE  CleanInv'
<1>1. /\ command' = command /\ pc' = pc /\ inspector' = inspector /\ objects' = objects
      /\ tasks' = tasks /\ ddl' = ddl /\ walk' = walk /\ whose' = whose /\ env' = env
      /\ env.dropped \subseteq env.dropped'
    BY DEF cleanVars
<1>2. pc \in DeletePcs /\ pc # "find" /\ pc # "ddl_mark"
    BY Deleting
<1>3. Control'
    BY <1>1 DEF CleanInv, Control
<1>4. InspectorInv' /\ TasksInv' /\ DdlInv' /\ WhoseInv' /\ WalkInv'
    BY <1>1, <1>2, KeepsInspector, KeepsDdl, KeepsWhose, KeepsWalk
<1>5. DelInv'
    <2>1. Going \subseteq Going'
        BY <1>1, ScopeGrows
    <2>2. DelShape(del', Going')
        BY <2>1, SeqGrows DEF DelShape
    <2>3. DelShape(del, Going)'
        BY <1>1, <2>2 DEF DelShape
    <2> QED
        BY <1>1, <1>2, <2>3 DEF DelInv, DeletePcs
<1> QED
    BY <1>3, <1>4, <1>5 DEF CleanInv

\* The same for a step that leaves the tree alone.
LEMMA ReadingKeeps ==
    ASSUME CleanInv, UNCHANGED cleanVars, del.phase # "none", tree' = tree,
           DelShape(del', Going), del'.phase # "none"
    PROVE  CleanInv'
<1>1. command' = command /\ env.dropped \subseteq env.dropped' /\ tree \subseteq tree'
    BY DEF cleanVars
<1>2. TreeInv' /\ LostInv'
    BY <1>1, KeepsTree
<1> QED
    BY <1>2, DeletionKeeps

\* A node is listed with its children.
LEMMA DeleteListsKeeps == CleanInv /\ DeleteLists /\ UNCHANGED cleanVars => CleanInv'
<1> SUFFICES ASSUME CleanInv, DeleteLists, UNCHANGED cleanVars PROVE CleanInv'
    OBVIOUS
<1>1. /\ del.phase = "list" /\ del.queue # <<>> /\ tree' = tree
      /\ del' = [del EXCEPT !.queue = Tail(del.queue) \o SetToSeq(Children(tree, Head(del.queue))),
                            !.nodes = Append(del.nodes, Head(del.queue))]
    BY DEF DeleteLists
<1>2. /\ del \in [phase : Phases, queue : Seq(Going), nodes : Seq(Going), chunk : Seq(Going)]
      /\ tree \in SUBSET Path /\ IsFiniteSet(tree)
    BY <1>1, Deleting DEF DelShape
<1> DEFINE q == del.queue
           kids == Children(tree, Head(q))
           rest == Tail(q) \o SetToSeq(kids)
           listed == Append(del.nodes, Head(q))
<1>3. Head(q) \in Going /\ Tail(q) \in Seq(Going)
    BY <1>1, <1>2, HeadTailProperties
<1>4. kids \subseteq Going /\ IsFiniteSet(kids)
    <2>1. Head(q) \in Path /\ MayGo(Head(q))
        BY <1>3 DEF Going
    <2>2. \A c \in kids : c \in Path /\ IsPrefix(Head(q), c)
        BY <1>2, ChildrenFacts
    <2>3. IsFiniteSet(kids)
        BY <1>2, ChildrenFacts
    <2> HIDE DEF kids, q
    <2> QED
        BY <2>1, <2>2, <2>3, GoDown DEF Going
<1>5. SetToSeq(kids) \in Seq(Going)
    BY <1>4, SetToSeqIn
<1>6. rest \in Seq(Going)
    <2> HIDE DEF kids, q
    <2> QED
        BY <1>3, <1>5, ConcatProperties
<1>7. listed \in Seq(Going)
    BY <1>2, <1>3, AppendProperties
<1>8. del' = [del EXCEPT !.queue = rest, !.nodes = listed]
    BY <1>1
<1> HIDE DEF rest, listed
<1>9. /\ del' \in [phase : Phases, queue : Seq(Going), nodes : Seq(Going), chunk : Seq(Going)]
      /\ del'.phase = "list"
    BY <1>1, <1>2, <1>6, <1>7, <1>8
<1>10. DelShape(del', Going) /\ del'.phase # "none" /\ del.phase # "none"
    BY <1>1, <1>9 DEF DelShape
<1> QED
    BY <1>1, <1>10, ReadingKeeps

\* The listing ends; a dry run is done with it.
LEMMA DeleteListedKeeps ==
    CleanInv /\ DeleteListed(command.dry) /\ UNCHANGED cleanVars => CleanInv'
<1> SUFFICES ASSUME CleanInv, DeleteListed(command.dry), UNCHANGED cleanVars PROVE CleanInv'
    OBVIOUS
<1> DEFINE ph == IF command.dry THEN "done" ELSE "delete"
           back == Reverse(del.nodes)
<1>1. /\ del.phase = "list" /\ tree' = tree /\ del' = [del EXCEPT !.phase = ph, !.nodes = back]
    BY DEF DeleteListed
<1>2. del \in [phase : Phases, queue : Seq(Going), nodes : Seq(Going), chunk : Seq(Going)]
    BY <1>1, Deleting DEF DelShape
<1>3. back \in Seq(Going)
    BY <1>2, ReverseFacts
<1>4. ph \in Phases /\ ph \in {"done", "delete"} /\ (command.dry => ph = "done")
    BY DEF Phases
<1> HIDE DEF ph, back
<1>5. /\ del' \in [phase : Phases, queue : Seq(Going), nodes : Seq(Going), chunk : Seq(Going)]
      /\ del'.phase = ph
    BY <1>1, <1>2, <1>3, <1>4
<1>6. DelShape(del', Going) /\ del'.phase # "none" /\ del.phase # "none"
    BY <1>1, <1>4, <1>5 DEF DelShape
<1> QED
    BY <1>1, <1>6, ReadingKeeps

\* A transaction deletes its chunk, or leaves it to the deletion one by one.
LEMMA DeleteTransactionKeeps == CleanInv /\ DeleteTransaction /\ UNCHANGED cleanVars => CleanInv'
<1> SUFFICES ASSUME CleanInv, DeleteTransaction, UNCHANGED cleanVars PROVE CleanInv'
    OBVIOUS
<1> DEFINE n == IF Len(del.nodes) < BatchSize THEN Len(del.nodes) ELSE BatchSize
           chunk == SubSeq(del.nodes, 1, n)
           rest == SubSeq(del.nodes, n + 1, Len(del.nodes))
<1>1. /\ del.phase = "delete" /\ del.nodes # <<>>
      /\ \/ /\ TransactionSucceeds(tree, chunk)
            /\ tree' = tree \ {chunk[i] : i \in 1..n} /\ del' = [del EXCEPT !.nodes = rest]
         \/ /\ tree' = tree
            /\ del' = [del EXCEPT !.nodes = rest, !.chunk = chunk, !.phase = "single"]
    BY DEF DeleteTransaction
<1>2. del \in [phase : Phases, queue : Seq(Going), nodes : Seq(Going), chunk : Seq(Going)]
    BY <1>1, Deleting DEF DelShape
<1>3. del.nodes \in Seq(Going) /\ Len(del.nodes) \in Nat
    BY <1>2, LenProperties
<1>4. n \in Nat /\ n <= Len(del.nodes)
    BY <1>3, BatchSizeAssumption
<1> HIDE DEF n
<1>5. \A i \in 1..Len(del.nodes) : del.nodes[i] \in Going
    BY <1>3, ElementOfSeq
<1>6. chunk \in Seq(Going) /\ Len(chunk) = n /\ \A i \in 1..n : chunk[i] \in Going
    <2>1. \A i \in 1..n : i \in 1..Len(del.nodes)
        BY <1>3, <1>4
    <2>2. \A i \in 1..n : del.nodes[i] \in Going
        BY <1>5, <2>1
    <2>3. chunk \in Seq(Going) /\ Len(chunk) = n
        BY <1>4, <2>2, SubSeqProperties
    <2> HIDE DEF chunk
    <2> QED
        BY <2>3, ElementOfSeq
<1>7. rest \in Seq(Going)
    <2>1. \A i \in (n + 1)..Len(del.nodes) : i \in 1..Len(del.nodes)
        BY <1>3, <1>4
    <2>2. \A i \in (n + 1)..Len(del.nodes) : del.nodes[i] \in Going
        BY <1>5, <2>1
    <2>3. n + 1 \in Int /\ Len(del.nodes) \in Int
        BY <1>3, <1>4
    <2> QED
        BY <2>2, <2>3, SubSeqProperties
<1> HIDE DEF chunk, rest
<1>8. CASE /\ TransactionSucceeds(tree, chunk)
           /\ tree' = tree \ {chunk[i] : i \in 1..n} /\ del' = [del EXCEPT !.nodes = rest]
    <2> DEFINE D == {chunk[i] : i \in 1..Len(chunk)}
    <2>1. ~command.dry /\ command.kind # "create" /\ tree \in SUBSET Path /\ PrefixClosed(tree)
          /\ (\A m \in tree : m # <<>>) /\ del.phase # "none"
        BY <1>1, Deleting
    <2>2. \A m \in D, x \in tree : IsPrefix(m, x) => x \in D
        BY <1>4, <1>6, <1>8, <2>1, TransactionIsUp
    <2>3. D \subseteq tree
        BY <1>8 DEF TransactionSucceeds
    <2>4. \A m \in D : MayGo(m)
        BY <1>6 DEF Going
    <2>5. tree' = tree \ D
        BY <1>6, <1>8
    <2> HIDE DEF D
    <2>6. command' = command /\ env' = env
        BY DEF cleanVars
    <2>7. TreeInv' /\ LostInv'
        BY <2>1, <2>2, <2>3, <2>4, <2>5, <2>6, Removes
    <2>8. /\ del' \in [phase : Phases, queue : Seq(Going), nodes : Seq(Going), chunk : Seq(Going)]
          /\ del'.phase = "delete"
        BY <1>1, <1>2, <1>7, <1>8
    <2>9. DelShape(del', Going) /\ del'.phase # "none"
        BY <2>1, <2>8 DEF DelShape
    <2> QED
        BY <2>1, <2>7, <2>9, DeletionKeeps
<1>9. CASE /\ tree' = tree
           /\ del' = [del EXCEPT !.nodes = rest, !.chunk = chunk, !.phase = "single"]
    <2>1. ~command.dry /\ del.phase # "none"
        BY <1>1, Deleting
    <2>2. "single" \in Phases
        BY DEF Phases
    <2>3. /\ del' \in [phase : Phases, queue : Seq(Going), nodes : Seq(Going), chunk : Seq(Going)]
          /\ del'.phase = "single"
        BY <1>2, <1>6, <1>7, <1>9, <2>2
    <2>4. DelShape(del', Going) /\ del'.phase # "none"
        BY <2>1, <2>3 DEF DelShape
    <2> QED
        BY <1>9, <2>1, <2>4, ReadingKeeps
<1> QED
    BY <1>1, <1>8, <1>9

\* What is below a node of a chunk is deleted first.
LEMMA DeleteBelowKeeps == CleanInv /\ DeleteBelow /\ UNCHANGED cleanVars => CleanInv'
<1> SUFFICES ASSUME CleanInv, DeleteBelow, UNCHANGED cleanVars PROVE CleanInv'
    OBVIOUS
<1> DEFINE p == Head(del.chunk)
<1>1. /\ del.phase = "single" /\ del.chunk # <<>> /\ tree' = tree \ Below(tree, p)
      /\ del' = [del EXCEPT !.phase = "last"]
    BY DEF DeleteBelow
<1>2. del \in [phase : Phases, queue : Seq(Going), nodes : Seq(Going), chunk : Seq(Going)]
    BY <1>1, Deleting DEF DelShape
<1>3. p \in Going
    BY <1>1, <1>2, HeadTailProperties
<1> HIDE DEF p
<1>4. ~command.dry /\ command.kind # "create" /\ tree \in SUBSET Path /\ del.phase # "none"
    BY <1>1, Deleting
<1>5. p \in Path /\ MayGo(p)
    BY <1>3 DEF Going
<1> DEFINE D == Below(tree, p)
<1>6. \A m \in D, x \in tree : IsPrefix(m, x) => x \in D
    BY <1>4, <1>5, SubtreeIsUp
<1>7. D \subseteq tree /\ \A m \in D : m \in Path /\ IsPrefix(p, m)
    BY <1>4 DEF Below, Subtree
<1>8. \A m \in D : MayGo(m)
    BY <1>5, <1>7, GoDown
<1>9. tree' = tree \ D /\ command' = command /\ env' = env
    BY <1>1 DEF cleanVars
<1> HIDE DEF D
<1>10. TreeInv' /\ LostInv'
    BY <1>4, <1>6, <1>7, <1>8, <1>9, Removes
<1>11. /\ del' \in [phase : Phases, queue : Seq(Going), nodes : Seq(Going), chunk : Seq(Going)]
       /\ del'.phase = "last" /\ del'.chunk # <<>>
    BY <1>1, <1>2 DEF Phases
<1>12. DelShape(del', Going) /\ del'.phase # "none"
    BY <1>4, <1>11 DEF DelShape
<1> QED
    BY <1>4, <1>10, <1>12, DeletionKeeps

\* Then the node, unless it has children again.
LEMMA DeleteSingleKeeps == CleanInv /\ DeleteSingle /\ UNCHANGED cleanVars => CleanInv'
<1> SUFFICES ASSUME CleanInv, DeleteSingle, UNCHANGED cleanVars PROVE CleanInv'
    OBVIOUS
<1> DEFINE p == Head(del.chunk)
           left == Tail(del.chunk)
<1>1. /\ del.phase = "last"
      /\ \/ /\ Children(tree, p) = {} /\ tree' = tree \ {p}
            /\ del' = [del EXCEPT !.phase = "single", !.chunk = left]
         \/ del' = [del EXCEPT !.phase = "single"] /\ tree' = tree
    BY DEF DeleteSingle
<1>2. del \in [phase : Phases, queue : Seq(Going), nodes : Seq(Going), chunk : Seq(Going)]
      /\ del.chunk # <<>>
    BY <1>1, Deleting DEF DelShape
<1>3. p \in Going /\ left \in Seq(Going)
    BY <1>2, HeadTailProperties
<1> HIDE DEF p, left
<1>4. ~command.dry /\ command.kind # "create" /\ tree \in SUBSET Path /\ PrefixClosed(tree)
      /\ del.phase # "none"
    BY <1>1, Deleting
<1>5. p \in Path /\ MayGo(p)
    BY <1>3 DEF Going
<1>6. "single" \in Phases
    BY DEF Phases
<1>7. /\ del' \in [phase : Phases, queue : Seq(Going), nodes : Seq(Going), chunk : Seq(Going)]
      /\ del'.phase = "single"
    BY <1>1, <1>2, <1>3, <1>6
<1>8. DelShape(del', Going) /\ del'.phase # "none"
    BY <1>4, <1>7 DEF DelShape
<1>9. CASE Children(tree, p) = {} /\ tree' = tree \ {p}
    <2> DEFINE D == {p} \cap tree
    <2>1. \A m \in D, x \in tree : IsPrefix(m, x) => x \in D
        BY <1>4, <1>5, <1>9, SubtreeIsUp
    <2>2. D \subseteq tree /\ \A m \in D : MayGo(m)
        BY <1>5
    <2>3. tree' = tree \ D /\ command' = command /\ env' = env
        BY <1>9 DEF cleanVars
    <2> HIDE DEF D
    <2>4. TreeInv' /\ LostInv'
        BY <1>4, <2>1, <2>2, <2>3, Removes
    <2> QED
        BY <1>4, <1>8, <2>4, DeletionKeeps
<1>10. CASE tree' = tree
    BY <1>4, <1>8, <1>10, ReadingKeeps
<1> QED
    BY <1>1, <1>9, <1>10

\* The end of a chunk, and of the deletion.
LEMMA DeleteEndsKeeps ==
    CleanInv /\ (DeleteSingles \/ DeleteReturns) /\ UNCHANGED cleanVars => CleanInv'
<1> SUFFICES ASSUME CleanInv, DeleteSingles \/ DeleteReturns, UNCHANGED cleanVars PROVE CleanInv'
    OBVIOUS
<1>1. PICK ph \in {"delete", "done"} :
          /\ del.phase \in {"single", "delete"} /\ tree' = tree
          /\ del' = [del EXCEPT !.phase = ph]
    BY DEF DeleteSingles, DeleteReturns
<1>2. /\ del \in [phase : Phases, queue : Seq(Going), nodes : Seq(Going), chunk : Seq(Going)]
      /\ ~command.dry /\ del.phase # "none"
    BY <1>1, Deleting DEF DelShape
<1>3. /\ del' \in [phase : Phases, queue : Seq(Going), nodes : Seq(Going), chunk : Seq(Going)]
      /\ del'.phase = ph
    BY <1>1, <1>2 DEF Phases
<1>4. DelShape(del', Going) /\ del'.phase # "none"
    BY <1>2, <1>3 DEF DelShape
<1> QED
    BY <1>1, <1>2, <1>4, ReadingKeeps

\* Every step of a deletion.
LEMMA DeletesKeeps == CleanInv /\ Deletes => CleanInv'
BY DeleteListsKeeps, DeleteListedKeeps, DeleteTransactionKeeps, DeleteBelowKeeps,
   DeleteSingleKeeps, DeleteEndsKeeps DEF Deletes, DeleteStep

---------------------------------------------------------------------------
(* The traversal *)

\* A step that leaves the tree, the command and the environment alone.
LEMMA Quiet ==
    ASSUME CleanInv, tree' = tree, command' = command, env' = env
    PROVE  TreeInv' /\ LostInv' /\ env.dropped \subseteq env.dropped'
BY KeepsTree

\* The names of the children of a node, and what it means that "replicas" is not one.
LEMMA ChildNames ==
    ASSUME NEW t, TreeShape(t), NEW p \in Path
    PROVE  LET names == {Last(c) : c \in Children(t, p)}
           IN  /\ names \in SUBSET Label /\ IsFiniteSet(names)
               /\ "replicas" \notin names => Append(p, "replicas") \notin t
<1> DEFINE kids == Children(t, p)
           names == {Last(c) : c \in kids}
           name == [c \in kids |-> Last(c)]
<1>1. t \in SUBSET Path /\ IsFiniteSet(t)
    BY DEF TreeShape
<1>2. /\ IsFiniteSet(kids)
      /\ \A c \in kids : c \in Path /\ Len(c) = Len(p) + 1 /\ IsPrefix(p, c)
    BY <1>1, ChildrenFacts
<1>3. \A c \in kids : Last(c) \in Label
    BY <1>2, ChildFacts
<1>4. names \subseteq Label
    <2> HIDE DEF kids
    <2> QED
        BY <1>3
<1>5. IsFiniteSet(names)
    <2> HIDE DEF kids
    <2>1. name \in Surjection(kids, names)
        BY DEF Surjection
    <2> QED
        BY <1>2, <2>1, FS_Surjection
<1>6. ASSUME Append(p, "replicas") \in t PROVE "replicas" \in names
    <2> DEFINE q == Append(p, "replicas")
    <2>1. Len(q) = Len(p) + 1 /\ IsPrefix(p, q) /\ Last(q) = "replicas"
        BY BelowReplicas
    <2>2. q \in kids
        BY <1>6, <2>1 DEF Children
    <2> HIDE DEF kids, q
    <2> QED
        BY <2>1, <2>2
<1> QED
    BY <1>4, <1>5, <1>6

\* ZooKeeper answers a request.
LEMMA RepliesKeeps == CleanInv /\ ZooKeeperReplies => CleanInv'
<1> SUFFICES ASSUME CleanInv, ZooKeeperReplies PROVE CleanInv'
    OBVIOUS
<1> DEFINE act == inspector.active
<1>1. PICK k \in DOMAIN act :
          inspector' = [inspector EXCEPT !.active[k] =
              [path |-> act[k].path, ready |-> TRUE,
               exists |-> act[k].path = <<>> \/ act[k].path \in tree,
               children |-> {Last(c) : c \in Children(tree, act[k].path)}]]
    BY DEF ZooKeeperReplies
<1>2. /\ pc = "inspect" /\ tree' = tree /\ del' = del /\ command' = command /\ pc' = pc
      /\ objects' = objects /\ tasks' = tasks /\ ddl' = ddl /\ walk' = walk /\ whose' = whose
      /\ env' = env
    BY DEF ZooKeeperReplies, treeVars
<1>3. /\ inspector \in [pending : Seq(Reached), active : Seq(Requests), finished : Seq(Answers)]
      /\ Len(inspector.active) <= MaxActive
    BY DEF CleanInv, InspectorInv
<1>4. act \in Seq(Requests) /\ DOMAIN act = 1..Len(act)
    BY <1>3, LenProperties
<1>5. act[k] \in Requests
    BY <1>4, ElementOfSeq
<1> DEFINE p == act[k].path
           names == {Last(c) : c \in Children(tree, p)}
           there == p = <<>> \/ p \in tree
           answer == [path |-> p, ready |-> TRUE, exists |-> there, children |-> names]
<1>6. inspector' = [inspector EXCEPT !.active[k] = answer]
    BY <1>1
<1>7. p \in Reached /\ p \in Path
    BY <1>5 DEF Requests, Reached
<1> HIDE DEF p
<1>8. command.kind \in HostKinds /\ command.kind # "create"
    BY <1>2 DEF CleanInv, Control, HostKinds
<1>9. TreeShape(tree)
    BY <1>8 DEF CleanInv, TreeInv
<1>10. /\ names \in SUBSET Label /\ IsFiniteSet(names)
       /\ "replicas" \notin names => Append(p, "replicas") \notin tree
    BY <1>7, <1>9, ChildNames
<1> HIDE DEF names
<1>11. "replicas" \notin names /\ Append(p, "replicas") \in InitTree =>
          Append(p, "replicas") \in env.dropped \/ MayGo(p)
    BY <1>7, <1>8, <1>10, ReplicasGone
<1>12. there \in BOOLEAN
    OBVIOUS
<1> HIDE DEF there
<1>13. answer \in Requests
    BY <1>7, <1>10, <1>11, <1>12 DEF Requests
<1> HIDE DEF answer
<1> DEFINE act2 == [act EXCEPT ![k] = answer]
<1>14. act2 \in Seq(Requests) /\ Len(act2) = Len(act)
    BY <1>4, <1>13, ExceptSeq
<1>15. inspector' = [inspector EXCEPT !.active = act2]
    BY <1>3, <1>6
<1> HIDE DEF act2
<1>16. /\ inspector' \in [pending : Seq(Reached), active : Seq(Requests), finished : Seq(Answers)]
       /\ inspector'.active = act2
    BY <1>3, <1>14, <1>15
<1>17. InspectorInv'
    <2>1. Reached' = Reached /\ Requests' = Requests /\ Answers' = Answers
        <3>1. \A x : MayGo(x)' <=> MayGo(x)
            BY <1>2, SameMayGo
        <3>2. Reached' = Reached
            BY <1>2, <3>1 DEF Reached, Scoped
        <3>3. Requests' = Requests
            BY <1>2, <3>1, <3>2 DEF Requests
        <3> QED
            BY <3>2, <3>3 DEF Answers
    <2>2. objects \in Seq(Reached)
        BY DEF CleanInv, InspectorInv
    <2> QED
        BY <1>2, <1>3, <1>14, <1>16, <2>1, <2>2 DEF InspectorInv
<1>18. TreeInv' /\ LostInv' /\ env.dropped \subseteq env.dropped'
    BY <1>2, Quiet
<1>19. Control' /\ DelInv'
    BY <1>2, <1>18, KeepsDel DEF CleanInv, Control
<1>20. TasksInv' /\ DdlInv' /\ WhoseInv' /\ WalkInv'
    BY <1>2, <1>18, KeepsInspector, KeepsDdl, KeepsWhose, KeepsWalk
<1> QED
    BY <1>17, <1>18, <1>19, <1>20 DEF CleanInv

\* The sets of the invariant change with the command and the environment only.
LEMMA SameSets ==
    ASSUME command' = command, env' = env
    PROVE  /\ \A x : MayGo(x)' <=> MayGo(x)
           /\ Going' = Going /\ Reached' = Reached /\ Requests' = Requests /\ Answers' = Answers
<1>1. \A x : MayGo(x)' <=> MayGo(x)
    BY SameMayGo
<1>2. Reached' = Reached
    BY <1>1 DEF Reached, Scoped
<1>3. Requests' = Requests
    BY <1>1, <1>2 DEF Requests
<1> QED
    BY <1>1, <1>2, <1>3 DEF Answers, Going

\* Below a node that was seen without replicas, the traversal goes on.
LEMMA BelowReached ==
    ASSUME command \in Commands, NEW r \in Requests, r.ready, "replicas" \notin r.children
    PROVE  LET below == {c \in {Append(r.path, n) : n \in r.children} :
                            ~\E e \in Excluded : IsPrefix(e, c)}
           IN  below \in SUBSET Reached /\ IsFiniteSet(below)
<1> DEFINE p == r.path
           all == {Append(p, n) : n \in r.children}
           below == {c \in all : ~\E e \in Excluded : IsPrefix(e, c)}
           extend == [n \in r.children |-> Append(p, n)]
<1>1. /\ p \in Reached /\ p \in Path /\ r.children \in SUBSET Label /\ IsFiniteSet(r.children)
      /\ Append(p, "replicas") \in InitTree =>
            Append(p, "replicas") \in env.dropped \/ MayGo(p)
    BY DEF Requests, Reached
<1>2. IsFiniteSet(below)
    <2>1. extend \in Surjection(r.children, all)
        BY DEF Surjection
    <2>2. IsFiniteSet(all)
        <3> HIDE DEF all, extend
        <3> QED
            BY <1>1, <2>1, FS_Surjection
    <2> HIDE DEF all
    <2> QED
        BY <2>2, FS_Subset
<1>3. ASSUME NEW n \in r.children, ~\E e \in Excluded : IsPrefix(e, Append(p, n))
      PROVE  Append(p, n) \in Reached
    <2> DEFINE c == Append(p, n)
    <2>1. c \in Path /\ Len(c) = Len(p) + 1 /\ IsPrefix(p, c) /\ Len(p) \in Nat
        BY <1>1, AppendFacts, PathFacts
    <2>2. ~\E e \in Excluded : IsPrefix(e, c)
        BY <1>3
    <2> HIDE DEF p, c
    <2>3. CASE MayGo(p)
        BY <1>1, <2>1, <2>3, GoDown DEF Reached, c
    <2>4. CASE Scoped(p) /\ ~MayGo(p)
        <3>1. command.root \in Path
            BY CommandFacts
        <3>2. IsPrefix(command.root, p) /\ IsPrefix(command.root, c)
            BY <1>1, <2>1, <2>4, <3>1, PrefixOrder DEF Scoped
        <3>3. ASSUME NEW o \in Objects, Append(o, "replicas") \notin env.dropped,
                     IsStrictPrefix(o, c), IsPrefix(command.root, o)
              PROVE  FALSE
            <4>1. o \in Path /\ Append(o, "replicas") \in InitTree /\ Len(o) \in Nat
                BY ObjectFacts, PathFacts
            <4>2. IsPrefix(o, c) /\ Len(o) < Len(c)
                BY <2>1, <3>3, <4>1, PrefixOrder
            <4>3. o # p
                BY <1>1, <2>4, <3>3, <4>1
            <4>4. Len(o) <= Len(p)
                BY <2>1, <4>1, <4>2
            <4>5. IsPrefix(o, p)
                BY <1>1, <2>1, <4>1, <4>2, <4>4, PrefixOrder
            <4>6. IsStrictPrefix(o, p)
                BY <1>1, <4>3, <4>5 DEF IsStrictPrefix
            <4> QED
                BY <2>4, <3>3, <4>6 DEF Scoped
        <3>4. Scoped(c)
            BY <2>2, <3>2, <3>3 DEF Scoped
        <3> QED
            BY <2>1, <3>4 DEF Reached, c
    <2>5. Append(p, n) = c
        BY DEF c
    <2> QED
        BY <1>1, <2>3, <2>4, <2>5 DEF Reached
<1>4. below \in SUBSET Reached
    BY <1>3
<1> QED
    BY <1>2, <1>4 DEF p

\* The traversal sends requests, finds an object, goes down, or ends.
LEMMA InspectKeeps == CleanInv /\ Inspect => CleanInv'
<1> SUFFICES ASSUME CleanInv, Inspect PROVE CleanInv'
    OBVIOUS
<1> DEFINE i == UpdateQueues(inspector)
           node == Head(i.finished)
           rest == [i EXCEPT !.finished = Tail(i.finished)]
           below == {c \in {Append(node.path, n) : n \in node.children} :
                        ~\E e \in Excluded : IsPrefix(e, c)}
           on == InspectorAdd(rest, SetToSeq(below))
<1>1. /\ pc = "inspect"
      /\ \/ /\ i.finished # <<>> /\ inspector' = rest
            /\ objects' = Append(objects, node.path) /\ pc' = pc
         \/ /\ i.finished # <<>> /\ "replicas" \notin node.children
            /\ inspector' = on /\ objects' = objects /\ pc' = pc
         \/ inspector' = i /\ objects' = objects /\ pc' = "collect"
    BY DEF Inspect
<1>2. /\ tree' = tree /\ del' = del /\ command' = command
      /\ tasks' = tasks /\ ddl' = ddl /\ walk' = walk /\ whose' = whose /\ env' = env
    BY DEF Inspect, treeVars
<1>3. command \in Commands /\ objects \in Seq(Reached)
    BY DEF CleanInv, Control, InspectorInv
<1>4. Queues(inspector, Reached, Requests, Answers)
    BY DEF CleanInv, InspectorInv, Queues
<1>5. QueueSets(Reached, Requests, Answers)
    BY RequestFacts
<1>6. Queues(i, Reached, Requests, Answers)
    BY <1>4, <1>5, UpdateQueuesKeeps
<1> HIDE DEF i
<1>7. ASSUME i.finished # <<>>
      PROVE  /\ node \in Answers /\ node \in Requests /\ node.ready /\ node.path \in Reached
             /\ Queues(rest, Reached, Requests, Answers)
    <2>1. /\ i \in [pending : Seq(Reached), active : Seq(Requests), finished : Seq(Answers)]
          /\ Len(i.active) <= MaxActive
        BY <1>6 DEF Queues
    <2>2. i.finished \in Seq(Answers)
        BY <2>1
    <2>3. node \in Answers /\ Tail(i.finished) \in Seq(Answers)
        BY <1>7, <2>2, HeadTailProperties
    <2>4. node \in Requests /\ node.ready /\ node.path \in Reached
        BY <2>3 DEF Answers, Requests
    <2> DEFINE left == Tail(i.finished)
    <2>5. left \in Seq(Answers) /\ rest = [i EXCEPT !.finished = left]
        BY <2>3
    <2> HIDE DEF left, rest
    <2>6. /\ rest \in [pending : Seq(Reached), active : Seq(Requests), finished : Seq(Answers)]
          /\ rest.active = i.active
        BY <2>1, <2>5
    <2> QED
        BY <2>1, <2>3, <2>4, <2>6 DEF Queues
<1>8. Queues(inspector', Reached, Requests, Answers) /\ objects' \in Seq(Reached)
    <2>1. CASE i.finished # <<>> /\ inspector' = rest /\ objects' = Append(objects, node.path)
        <3>1. node.path \in Reached /\ Queues(rest, Reached, Requests, Answers)
            BY <1>7, <2>1
        <3> HIDE DEF rest, node
        <3> QED
            BY <1>3, <2>1, <3>1, AppendProperties
    <2>2. CASE i.finished # <<>> /\ "replicas" \notin node.children
               /\ inspector' = on /\ objects' = objects
        <3>1. node \in Requests /\ node.ready /\ Queues(rest, Reached, Requests, Answers)
            BY <1>7, <2>2
        <3> HIDE DEF rest, node
        <3>2. below \in SUBSET Reached /\ IsFiniteSet(below)
            BY <1>3, <2>2, <3>1, BelowReached
        <3> HIDE DEF below
        <3>3. SetToSeq(below) \in Seq(Reached)
            BY <3>2, SetToSeqIn
        <3>4. Queues(on, Reached, Requests, Answers)
            BY <1>5, <3>1, <3>3, UpdateQueuesKeeps
        <3> HIDE DEF on
        <3> QED
            BY <1>3, <2>2, <3>4
    <2>3. CASE inspector' = i /\ objects' = objects
        BY <1>3, <1>6, <2>3
    <2> QED
        BY <1>1, <2>1, <2>2, <2>3
<1>9. pc' \in {"inspect", "collect"} /\ pc' \notin DeletePcs /\ pc \notin DeletePcs /\ pc' # "find"
      /\ pc' \notin LockPcs /\ pc' # "ddl_mark"
    BY <1>1 DEF DeletePcs, LockPcs
<1>10. InspectorInv'
    <2>1. Reached' = Reached /\ Requests' = Requests /\ Answers' = Answers
        BY <1>2, SameSets
    <2> QED
        BY <1>8, <2>1 DEF InspectorInv, Queues
<1>11. TreeInv' /\ LostInv' /\ env.dropped \subseteq env.dropped'
    BY <1>2, Quiet
<1>12. Control' /\ DelInv'
    <2>1. Control'
        BY <1>1, <1>2, <1>9 DEF CleanInv, Control
    <2>2. DelInv'
        BY <1>2, <1>9, <1>11, KeepsDel
    <2> QED
        BY <2>1, <2>2
<1>13. TasksInv' /\ DdlInv' /\ WhoseInv' /\ WalkInv'
    BY <1>2, <1>9, <1>11, KeepsInspector, KeepsDdl, KeepsWhose, KeepsWalk
<1> QED
    BY <1>10, <1>11, <1>12, <1>13 DEF CleanInv

---------------------------------------------------------------------------
(* The replicas *)

\* The replicas found below an object that the traversal came to are tasks.
LEMMA FoundTask ==
    ASSUME CleanInv, command.kind \in HostKinds, NEW o \in Reached,
           o \in Databases => command.kind # "table_hosts" /\ ~command.old,
           NEW r \in Children(tree, Append(o, "replicas")), HostOf(r) \in Removed
    PROVE  TaskOk(r)
<1>1. TreeShape(tree) /\ command \in Commands
    BY DEF CleanInv, TreeInv, Control, HostKinds
<1>2. o \in Path /\ (MayGo(o) \/ Scoped(o)) /\ tree \in SUBSET Path
    BY <1>1 DEF Reached, TreeShape
<1>3. /\ r \in Path /\ r \in tree /\ Len(r) = Len(o) + 2 /\ Len(o) \in Nat /\ HasReplicas(r)
      /\ IsPrefix(Append(o, "replicas"), r) /\ ObjectOf(r) = o
    BY <1>2, ReplicaFactsOf
<1>4. r \in InitTree
    BY <1>1, <1>3 DEF TreeShape
<1>5. Len(Append(o, "replicas")) = Len(o) + 1
    BY <1>2, BelowReplicas
<1>6. r \in Children(InitTree, Append(o, "replicas"))
    BY <1>3, <1>4, <1>5 DEF Children
<1>7. Scoped(o) => InScope(o, env.dropped)
    BY DEF Scoped, InScope, HostKinds
<1> QED
    BY <1>2, <1>3, <1>4, <1>6, <1>7 DEF TaskOk

\* The replicas of the next object become tasks.
LEMMA CollectKeeps == CleanInv /\ Collect => CleanInv'
<1> SUFFICES ASSUME CleanInv, Collect PROVE CleanInv'
    OBVIOUS
<1>1. /\ pc = "collect" /\ tree' = tree /\ del' = del /\ command' = command
      /\ inspector' = inspector
      /\ ddl' = ddl /\ walk' = walk /\ whose' = whose /\ env' = env
    BY DEF Collect, treeVars
<1>2. command.kind \in HostKinds /\ objects \in Seq(Reached)
    BY <1>1 DEF CleanInv, Control, InspectorInv, HostKinds
<1>3. TreeInv' /\ LostInv' /\ env.dropped \subseteq env.dropped'
    BY <1>1, Quiet
<1>4. Reached' = Reached
    BY <1>1, SameSets
<1>5. pc' \in {"collect", "drop"} /\ objects' \in Seq(Reached) /\ TasksInv'
    <2>1. CASE objects = <<>>
        <3>1. pc' = "drop" /\ objects' = objects /\ tasks' = tasks
            BY <2>1 DEF Collect
        <3> QED
            BY <1>1, <1>2, <1>3, <3>1, KeepsInspector
    <2>2. CASE objects # <<>>
        <3> DEFINE o == Head(objects)
                   found == IF \/ o \notin tree
                               \/ o \in Databases /\ (command.kind = "table_hosts" \/ command.old)
                            THEN {}
                            ELSE {r \in Children(tree, Append(o, "replicas")) :
                                     HostOf(r) \in Removed}
        <3>1. /\ tasks' = [r \in DOMAIN tasks \cup found |->
                             IF r \in found THEN "todo" ELSE tasks[r]]
              /\ objects' = Tail(objects) /\ pc' = pc
            BY <2>2 DEF Collect
        <3>2. o \in Reached /\ Tail(objects) \in Seq(Reached)
            BY <1>2, <2>2, HeadTailProperties
        <3> HIDE DEF o
        <3>3. \A r \in found : TaskOk(r)
            BY <1>2, <3>2, FoundTask
        <3> HIDE DEF found
        <3>4. \A r \in DOMAIN tasks' : TaskOk(r) /\ tasks'[r] \in {"todo", "done", "failed"}
            BY <3>1, <3>3 DEF CleanInv, TasksInv
        <3>5. TasksInv'
            BY <1>1, <1>3, <3>4, TaskGrows DEF TasksInv
        <3> QED
            BY <1>1, <3>1, <3>2, <3>5
    <2> QED
        BY <2>1, <2>2
<1>6. pc' \notin DeletePcs /\ pc \notin DeletePcs /\ pc' # "find"
      /\ pc' \notin LockPcs /\ pc' # "ddl_mark"
    BY <1>1, <1>5 DEF DeletePcs, LockPcs
<1>7. InspectorInv'
    <2>1. Requests' = Requests /\ Answers' = Answers
        BY <1>1, SameSets
    <2> QED
        BY <1>1, <1>4, <1>5, <2>1 DEF CleanInv, InspectorInv
<1>8. Control'
    BY <1>1, <1>2, <1>5 DEF CleanInv, Control, HostKinds
<1>9. DelInv' /\ DdlInv' /\ WhoseInv' /\ WalkInv'
    BY <1>1, <1>3, <1>6, KeepsDel, KeepsDdl, KeepsWhose, KeepsWalk
<1> QED
    BY <1>3, <1>5, <1>7, <1>8, <1>9 DEF CleanInv

\* What a drop query removes may go: the replica, or its object with the last of them.
LEMMA TaskGoes ==
    ASSUME CleanInv, command.kind \in HostKinds, NEW r, TaskOk(r),
           NEW gone, gone = IF Children(tree, Front(r)) = {r} THEN ObjectOf(r) ELSE r
    PROVE  gone \in Path /\ MayGo(gone)
<1> DEFINE o == ObjectOf(r)
<1>1. /\ r \in InitTree /\ r \in Path /\ Len(r) >= 2
      /\ r \in Children(InitTree, Append(o, "replicas"))
      /\ MayGo(o) \/ (HostOf(r) \in Removed /\ InScope(o, env.dropped))
    BY InitTreeFacts DEF TaskOk
<1>2. o \in Path /\ IsPrefix(o, r)
    <2>1. Len(r) \in Nat
        BY <1>1, PathFacts
    <2>2. Len(r) - 2 \in 0..Len(r)
        BY <1>1, <2>1
    <2> QED
        BY <1>1, <2>2, Initial, InitialIsPrefix DEF ObjectOf
<1>3. o \in Objects
    <2>1. IsPrefix(Append(o, "replicas"), r) /\ Append(o, "replicas") \in Path
        BY <1>1, <1>2, BelowReplicas DEF Children
    <2>2. Append(o, "replicas") # <<>>
        BY <1>2, BelowReplicas
    <2>3. Append(o, "replicas") \in InitTree
        BY <1>1, <2>1, <2>2, InitTreeFacts, AboveIsThere
    <2> QED
        BY <1>2, <2>3, ObjectIs
<1>4. Front(r) = Append(o, "replicas") /\ Len(r) = Len(o) + 2
    BY <1>1, <1>2, InitTreeFacts, ReplicaFactsOf
<1> HIDE DEF o
<1>5. MayGo(r)
    <2>1. CASE MayGo(o)
        BY <1>1, <1>2, <2>1, GoDown
    <2>2. CASE HostOf(r) \in Removed /\ InScope(o, env.dropped)
        <3>1. r \in RemovedReplicas(o)
            BY <1>1, <2>2 DEF RemovedReplicas, Replicas
        <3> QED
            BY <1>3, <2>2, <3>1, ReplicaGoes
    <2> QED
        BY <1>1, <2>1, <2>2
<1>6. ASSUME Children(tree, Front(r)) = {r} PROVE MayGo(o)
    <2> SUFFICES ASSUME ~MayGo(o) PROVE MayGo(o)
        OBVIOUS
    <2>1. HostOf(r) \in Removed /\ InScope(o, env.dropped)
        BY <1>1
    <2>2. r \in RemovedReplicas(o)
        BY <1>1, <2>1 DEF RemovedReplicas, Replicas
    <2>3. ASSUME RaceFree(command), NEW r2 \in Replicas(o) \ env.dropped
          PROVE  r2 \in RemovedReplicas(o)
        <3>1. CASE r2 \in tree
            <4>1. r2 \in Children(tree, Append(o, "replicas"))
                BY <2>3, <3>1 DEF Replicas, Children
            <4> QED
                BY <1>4, <1>6, <2>2, <4>1
        <3>2. CASE r2 \notin tree
            BY <1>2, <2>3, <3>2, ReplicaGone
        <3> QED
            BY <3>1, <3>2
    <2> QED
        BY <1>3, <2>1, <2>2, <2>3, ObjectGoes
<1> QED
    BY <1>1, <1>2, <1>5, <1>6 DEF o

\* A drop query ends.
LEMMA DropReplicaKeeps ==
    ASSUME NEW r \in DOMAIN tasks PROVE CleanInv /\ DropReplica(r) => CleanInv'
<1> SUFFICES ASSUME CleanInv, DropReplica(r) PROVE CleanInv'
    OBVIOUS
<1> DEFINE gone == IF Children(tree, Front(r)) = {r} THEN ObjectOf(r) ELSE r
<1>1. /\ pc = "drop" /\ tasks[r] = "todo" /\ pc' = pc /\ del' = del /\ command' = command
      /\ inspector' = inspector /\ objects' = objects
      /\ ddl' = ddl /\ walk' = walk /\ whose' = whose /\ env' = env
    BY DEF DropReplica
<1>2. PICK s \in {"done", "failed"} : tasks' = [tasks EXCEPT ![r] = s]
    BY DEF DropReplica
<1>3. tree' = tree \/ (~command.dry /\ tree' = tree \ Subtree(tree, gone))
    BY DEF DropReplica, ObjectOf
<1>4. command.kind \in HostKinds /\ command.kind # "create" /\ TaskOk(r)
    BY <1>1 DEF CleanInv, Control, TasksInv, HostKinds
<1>5. gone \in Path /\ MayGo(gone)
    BY <1>4, TaskGoes
<1> HIDE DEF gone
<1>6. env.dropped \subseteq env.dropped'
    BY <1>1
<1>7. TreeInv' /\ LostInv'
    BY <1>1, <1>3, <1>4, <1>5, Quiet, RemovesSubtree
<1>8. TasksInv'
    <2>1. \A x \in DOMAIN tasks' : TaskOk(x) /\ tasks'[x] \in {"todo", "done", "failed"}
        BY <1>2 DEF CleanInv, TasksInv
    <2> QED
        BY <1>1, <1>6, <2>1, TaskGrows DEF TasksInv
<1>9. Control'
    BY <1>1 DEF CleanInv, Control
<1>10. pc # "find" /\ pc # "ddl_mark"
    BY <1>1
<1>11. DelInv' /\ InspectorInv' /\ DdlInv' /\ WhoseInv' /\ WalkInv'
    BY <1>1, <1>6, <1>10, KeepsDel, KeepsInspector, KeepsDdl, KeepsWhose, KeepsWalk
<1> QED
    BY <1>7, <1>8, <1>9, <1>11 DEF CleanInv

\* The queries ended.
LEMMA DroppedKeeps == CleanInv /\ Dropped => CleanInv'
<1> SUFFICES ASSUME CleanInv, Dropped PROVE CleanInv'
    OBVIOUS
<1>1. /\ pc = "drop" /\ tree' = tree /\ del' = del /\ command' = command
      /\ inspector' = inspector /\ objects' = objects /\ tasks' = tasks
      /\ ddl' = ddl /\ walk' = walk /\ whose' = whose /\ env' = env
      /\ pc' \in {"failed", "ddl_list", "locks"}
      /\ pc' = "ddl_list" => command.kind = "hosts" /\ command.ddl
    BY DEF Dropped, treeVars
<1>2. command.kind \in HostKinds
    BY <1>1 DEF CleanInv, Control, HostKinds
<1>3. TreeInv' /\ LostInv' /\ env.dropped \subseteq env.dropped'
    BY <1>1, Quiet
<1>4. Control'
    BY <1>1, <1>2 DEF CleanInv, Control, HostKinds, LockKinds
<1>5. pc' \notin DeletePcs /\ pc \notin DeletePcs /\ pc' # "find" /\ pc' # "ddl_mark"
      /\ (pc' \notin LockPcs \/ (pc' = "locks" /\ command.kind \in HostKinds))
    BY <1>1, <1>2 DEF DeletePcs, LockPcs
<1>6. DelInv' /\ InspectorInv' /\ TasksInv' /\ DdlInv' /\ WhoseInv' /\ WalkInv'
    BY <1>1, <1>3, <1>5, KeepsDel, KeepsInspector, KeepsDdl, KeepsWhose, KeepsWalk
<1> QED
    BY <1>3, <1>4, <1>6 DEF CleanInv

---------------------------------------------------------------------------
(* replica drop *)

\* The node of the replica to drop.
LEMMA ReplicaNodeFacts ==
    ASSUME command \in Commands
    PROVE  /\ ReplicaNode \in Path /\ Len(ReplicaNode) = Len(command.root) + 2
           /\ Len(command.root) \in Nat /\ HasReplicas(ReplicaNode)
           /\ IsPrefix(command.root, ReplicaNode)
           /\ Front(ReplicaNode) = Append(command.root, "replicas")
<1> DEFINE p == command.root
           x == command.replica
           q == Append(p, "replicas")
           r == Append(q, x)
<1>1. p \in Path /\ x \in Label /\ "replicas" \in Label
    BY CommandFacts, LabelFacts
<1>2. ReplicaNode = r
    <2> HIDE DEF p, x
    <2>1. p \in Seq(Label)
        BY <1>1 DEF Path
    <2>2. p \o <<"replicas", x>> = Append(Append(p, "replicas"), x)
        BY <1>1, <2>1
    <2> QED
        BY <2>2 DEF ReplicaNode, p, x
<1> HIDE DEF p, x
<1>3. q \in Path /\ Len(q) = Len(p) + 1 /\ q[Len(p) + 1] = "replicas" /\ IsPrefix(p, q)
      /\ Len(p) \in Nat
    BY <1>1, BelowReplicas
<1> HIDE DEF q
<1>4. r \in Path /\ Len(r) = Len(q) + 1 /\ IsPrefix(q, r) /\ \A i \in 1..Len(q) : r[i] = q[i]
    BY <1>1, <1>3, AppendFacts
<1> HIDE DEF r
<1>5. Front(r) = q /\ IsPrefix(p, r)
    BY <1>1, <1>3, <1>4, ChildFacts, PrefixOrder
<1>6. Len(p) + 1 \in 1..Len(q) /\ Len(p) + 1 \in 1..Len(r) /\ Len(r) = Len(p) + 2
    BY <1>3, <1>4
<1>7. HasReplicas(r)
    BY <1>3, <1>4, <1>6 DEF HasReplicas
<1> QED
    BY <1>2, <1>3, <1>4, <1>5, <1>6, <1>7 DEF p, q

\* No lock is asked for among the nodes of a replicated object.
LEMMA NoLocksInObject ==
    ASSUME command \in Commands, NEW n \in InitTree, HasReplicas(n), NEW lost
    PROVE  ~LocksMatched(n, lost) /\ ~IsPrefix(LockRoot, n)
<1>1. n \in Path /\ LockRoot \in Path /\ IsPrefix(ZeroCopy, LockRoot) /\ ZeroCopy \in Path
    BY InitTreeFacts, LockRootFacts
<1>2. ~IsPrefix(LockRoot, n)
    BY <1>1, NoReplicasInLocks, PrefixOrder
<1> QED
    BY <1>1, <1>2, PrefixOrder DEF LocksMatched

\* What the query of replica drop removes may go.
LEMMA DropGoes ==
    ASSUME CleanInv, command.kind = "drop", command.replica \notin ActiveHosts,
           NEW gone, gone = IF Children(tree, Front(ReplicaNode)) = {ReplicaNode}
                            THEN command.root ELSE ReplicaNode
    PROVE  gone \in Path /\ MayGo(gone)
<1>1. command \in Commands /\ command.root \in Path /\ TreeShape(tree)
    BY CommandFacts DEF CleanInv, Control, TreeInv
<1> DEFINE r == ReplicaNode
           o == command.root
<1>2. /\ r \in Path /\ Len(r) = Len(o) + 2 /\ HasReplicas(r)
      /\ Front(r) = Append(o, "replicas")
    BY <1>1, ReplicaNodeFacts
<1>3. MayGo(r)
    BY DEF MayGo, MatchedFor
<1>4. ASSUME Children(tree, Front(r)) = {r} PROVE MayGo(o)
    <2>1. r \in InitTree
        BY <1>1, <1>2, <1>4 DEF TreeShape, Children
    <2> SUFFICES ASSUME RaceFree(command), NEW n \in InitTree \ env.dropped, IsPrefix(o, n)
                 PROVE  MatchedFor(n, env.dropped)
        BY DEF MayGo
    <2>2. ASSUME NEW r2 \in Replicas(o) \ env.dropped, r2 # r
          PROVE  Replicas(o) \ env.dropped \subseteq {r}
        <3>1. /\ r2 \in InitTree /\ r2 \in Path /\ HasReplicas(r2) /\ Len(r2) = Len(o) + 2
              /\ r2 \in Children(InitTree, Append(o, "replicas"))
            BY <1>1, InitTreeFacts, ReplicaFactsOf DEF Replicas
        <3>2. r2 \notin tree
            <4>1. r2 \in tree => r2 \in Children(tree, Append(o, "replicas"))
                BY <3>1 DEF Children
            <4> QED
                BY <1>2, <1>4, <2>2, <4>1
        <3>3. MatchedFor(r2, env.dropped)
            BY <2>2, <3>1, <3>2 DEF CleanInv, LostInv
        <3>4. ~LocksMatched(r2, env.dropped)
            BY <1>1, <3>1, NoLocksInObject
        <3>5. IsPrefix(r, r2) \/ Replicas(o) \ env.dropped \subseteq {r}
            BY <3>3, <3>4 DEF MatchedFor
        <3>6. IsPrefix(r, r2) => r = r2
            BY <1>2, <3>1, PrefixOrder
        <3> QED
            BY <2>2, <3>5, <3>6
    <2>3. Replicas(o) \ env.dropped \subseteq {r}
        BY <2>2
    <2> QED
        BY <2>1, <2>3 DEF MatchedFor
<1> QED
    BY <1>1, <1>2, <1>3, <1>4

\* The query of the command itself.
LEMMA DropOneKeeps == CleanInv /\ DropOne => CleanInv'
<1> SUFFICES ASSUME CleanInv, DropOne PROVE CleanInv'
    OBVIOUS
<1> DEFINE gone == IF Children(tree, Front(ReplicaNode)) = {ReplicaNode}
                   THEN command.root ELSE ReplicaNode
<1>1. /\ pc = "replica" /\ del' = del /\ command' = command
      /\ inspector' = inspector /\ objects' = objects /\ tasks' = tasks
      /\ ddl' = ddl /\ walk' = walk /\ whose' = whose /\ env' = env
      /\ pc' \in {"shared_id", "failed"}
    BY DEF DropOne
<1>2. \/ tree' = tree
      \/ /\ ~command.dry /\ command.replica \notin ActiveHosts
         /\ tree' = tree \ Subtree(tree, gone)
    BY DEF DropOne
<1>3. command.kind = "drop" /\ command.kind # "create"
    BY <1>1 DEF CleanInv, Control
<1>4. command.replica \notin ActiveHosts => gone \in Path /\ MayGo(gone)
    BY <1>3, DropGoes
<1> HIDE DEF gone
<1>5. env.dropped \subseteq env.dropped'
    BY <1>1
<1>6. TreeInv' /\ LostInv'
    BY <1>1, <1>2, <1>3, <1>4, Quiet, RemovesSubtree
<1>7. Control'
    BY <1>1, <1>3 DEF CleanInv, Control
<1>8. pc' # "find" /\ pc' # "ddl_mark" /\ pc \notin DeletePcs /\ pc' \notin DeletePcs
    BY <1>1 DEF DeletePcs
<1>9. WhoseInv'
    <2>1. Removed' = Removed /\ AskedTable' = AskedTable
        BY <1>1, SameNames
    <2> QED
        BY <1>1, <2>1 DEF CleanInv, WhoseInv
<1>10. DelInv' /\ InspectorInv' /\ TasksInv' /\ DdlInv' /\ WalkInv'
    BY <1>1, <1>5, <1>8, KeepsDel, KeepsInspector, KeepsDdl, KeepsWalk
<1> QED
    BY <1>6, <1>7, <1>9, <1>10 DEF CleanInv

\* Where no server takes the table, the uuid of its locks can still be read.
LEMMA SharedIdStays ==
    ASSUME CleanInv, command.kind = "drop", TableStays(command), RaceFree(command)
    PROVE  Append(command.root, "table_shared_id") \in tree
<1> DEFINE o == command.root
           n == Append(o, "table_shared_id")
<1>1. command \in Commands /\ o \in Path /\ Len(o) \in Nat
    BY CommandFacts, PathFacts DEF CleanInv, Control
<1>2. n \in InitTree /\ \A p \in ServerDrops : ~IsPrefix(p, n)
    BY DEF TableStays
<1>3. PICK r \in Replicas(o) :
          /\ r # command.root \o <<"replicas", command.replica>>
          /\ \A p \in ServerDrops : ~IsPrefix(p, r)
    BY DEF TableStays
<1>4. r # ReplicaNode /\ r \notin env.dropped /\ n \notin env.dropped
    BY <1>2, <1>3 DEF CleanInv, Control, ReplicaNode
<1>5. r \in InitTree /\ r \in Path /\ HasReplicas(r) /\ IsPrefix(o, r)
    BY <1>1, InitTreeFacts, ReplicaFactsOf DEF Replicas
<1>6. n \in Path /\ Len(n) = Len(o) + 1
    BY <1>1, LabelFacts, AppendFacts
<1>7. ~LocksMatched(n, env.dropped)
    <2>1. ASSUME IsStrictPrefix(LockRoot, n) PROVE FALSE
        <3>1. LockRoot \in Path
            BY <1>1, LockRootFacts
        <3>2. IsPrefix(LockRoot, n) /\ LockRoot # n
            BY <2>1 DEF IsStrictPrefix
        <3>3. IsPrefix(LockRoot, o)
            BY <1>1, <3>1, <3>2, LabelFacts, PrefixOfAppend
        <3>4. IsPrefix(LockRoot, r)
            BY <1>1, <1>5, <3>1, <3>3, PrefixOrder
        <3> QED
            BY <1>1, <1>5, <3>4, NoLocksInObject
    <2> QED
        BY <2>1 DEF LocksMatched
<1>8. ~IsPrefix(ReplicaNode, n)
    <2>1. ReplicaNode \in Path /\ Len(ReplicaNode) = Len(o) + 2
        BY <1>1, ReplicaNodeFacts
    <2> HIDE DEF n, o
    <2>2. IsPrefix(ReplicaNode, n) => Len(o) + 2 <= Len(o) + 1
        BY <1>6, <2>1, PrefixOrder
    <2> QED
        BY <1>1, <2>2
<1>9. ~MatchedFor(n, env.dropped)
    BY <1>3, <1>4, <1>7, <1>8 DEF MatchedFor
<1> QED
    BY <1>2, <1>4, <1>9 DEF CleanInv, LostInv

\* The uuid of the table is read.
LEMMA SharedIdReadKeeps == CleanInv /\ SharedIdRead => CleanInv'
<1> SUFFICES ASSUME CleanInv, SharedIdRead PROVE CleanInv'
    OBVIOUS
<1> DEFINE table == IF whose.table # "" THEN whose.table
                    ELSE IF Append(command.root, "table_shared_id") \in tree
                    THEN TableUuid[command.root] ELSE ""
<1>1. /\ pc = "shared_id" /\ tree' = tree /\ del' = del /\ command' = command
      /\ inspector' = inspector /\ objects' = objects /\ tasks' = tasks
      /\ ddl' = ddl /\ walk' = walk /\ env' = env /\ pc' = "locks"
      /\ whose' = [whose EXCEPT !.table = table]
    BY DEF SharedIdRead, treeVars
<1>2. command.kind = "drop"
    BY <1>1 DEF CleanInv, Control
<1>3. TreeInv' /\ LostInv' /\ env.dropped \subseteq env.dropped'
    BY <1>1, Quiet
<1>4. Control'
    BY <1>1, <1>2 DEF CleanInv, Control, LockKinds
<1>5. RaceFree(command) => table = AskedTable
    <2> SUFFICES ASSUME RaceFree(command) PROVE table = AskedTable
        OBVIOUS
    <2>1. whose.table = command.table
        BY <1>1 DEF CleanInv, WhoseInv
    <2>2. CASE command.table # ""
        BY <2>1, <2>2 DEF AskedTable
    <2>3. CASE command.table = ""
        <3>1. TableStays(command)
            BY <1>2, <2>3 DEF RaceFree
        <3>2. Append(command.root, "table_shared_id") \in tree
            BY <1>2, <3>1, SharedIdStays
        <3> QED
            BY <1>2, <2>1, <2>3, <3>2 DEF AskedTable
    <2> QED
        BY <2>2, <2>3
<1>51. table \in Label
    <2>1. TableUuid[command.root] \in STRING
        BY <1>2, CommandsAssumption DEF CleanInv, Control
    <2>2. whose.table \in Label /\ "" \in Label
        BY LabelFacts DEF CleanInv, WhoseInv
    <2> QED
        BY <2>1, <2>2, LabelFacts
<1> HIDE DEF table
<1>6. WhoseInv'
    <2>1. Removed' = Removed /\ AskedTable' = AskedTable
        BY <1>1, SameNames
    <2>2. whose = [hosts |-> whose.hosts, table |-> whose.table] /\ whose.hosts \in Seq(Removed)
        BY DEF CleanInv, WhoseInv
    <2>3. whose' = [hosts |-> whose.hosts, table |-> table]
        BY <1>1, <2>2
    <2>4. whose'.hosts = whose.hosts /\ whose'.table = table
        BY <2>3
    <2> QED
        BY <1>1, <1>2, <1>5, <1>51, <2>1, <2>2, <2>3, <2>4 DEF WhoseInv, HostKinds
<1>7. pc' # "find" /\ pc' # "ddl_mark" /\ pc \notin DeletePcs /\ pc' \notin DeletePcs
    BY <1>1 DEF DeletePcs
<1>8. DelInv' /\ InspectorInv' /\ TasksInv' /\ DdlInv' /\ WalkInv'
    BY <1>1, <1>3, <1>7, KeepsDel, KeepsInspector, KeepsDdl, KeepsWalk
<1> QED
    BY <1>3, <1>4, <1>6, <1>8 DEF CleanInv

---------------------------------------------------------------------------
(* The queue of distributed DDL *)

\* A deletion that a step starts or leaves.
LEMMA NewDel ==
    ASSUME command' = command, env' = env, DelShape(del', Going),
           del'.phase # "none" <=> pc' \in DeletePcs
    PROVE  DelInv'
<1>1. Going' = Going
    BY SameSets
<1>2. DelShape(del, Going)'
    BY <1>1 DEF DelShape
<1> QED
    BY <1>2 DEF DelInv, DeletePcs

\* A deletion that a step starts for paths that may go.
LEMMA StartsDel ==
    ASSUME command' = command, env' = env, NEW paths \in SUBSET Going, IsFiniteSet(paths),
           del' \in StartedDelete(paths), pc' \in DeletePcs
    PROVE  DelInv'
<1>1. DelShape(del', Going) /\ del'.phase # "none"
    BY StartedFacts
<1> QED
    BY <1>1, NewDel

\* The end of a deletion.
LEMMA EndsDel ==
    ASSUME command' = command, env' = env, del' = NoDelete, pc' \notin DeletePcs
    PROVE  DelInv'
BY NoDeleteFacts, NewDel

\* The DDL tasks are paths of the first tree, and their hosts names.
LEMMA DdlFacts ==
    ASSUME NEW q \in DOMAIN DdlHosts
    PROVE  /\ q \in InitTree /\ q \in Path /\ ~HasReplicas(q) /\ IsPrefix(DdlPath, q)
           /\ Len(q) = Len(DdlPath) + 1 /\ Len(q) \in Nat /\ Len(DdlPath) \in Nat
           /\ \A h \in DdlHosts[q] : h \in STRING /\ h # "replicas"
<1>1. q \in Children(InitTree, DdlPath) /\ InitTree \in SUBSET Path /\ DdlPath \in Path
    BY DdlAssumption, InitTreeFacts
<1>2. q \in InitTree /\ q \in Path /\ Len(q) = Len(DdlPath) + 1 /\ IsPrefix(DdlPath, q)
    BY <1>1, ChildrenFacts
<1>3. ~HasReplicas(q)
    BY <1>2, NoReplicasInLocks
<1>4. Len(q) \in Nat /\ Len(DdlPath) \in Nat
    BY <1>1, <1>2, PathFacts
<1> QED
    BY <1>2, <1>3, <1>4, DdlAssumption

\* The mark of a finished DDL task is a node below it, and no replica.
LEMMA FinishedFacts ==
    ASSUME NEW q \in DOMAIN DdlHosts, NEW h \in DdlHosts[q]
    PROVE  /\ Finished(q, h) \in Path /\ Finished(q, h) # <<>>
           /\ Front(Finished(q, h)) = Append(q, "finished")
           /\ ~HasReplicas(Finished(q, h))
           /\ Len(Finished(q, h)) = Len(DdlPath) + 3 /\ Len(DdlPath) \in Nat
<1>1. /\ q \in Path /\ ~HasReplicas(q) /\ Len(q) = Len(DdlPath) + 1
      /\ Len(q) \in Nat /\ Len(DdlPath) \in Nat /\ h # "replicas"
      /\ h \in Label /\ "finished" \in Label
    BY DdlFacts, LabelFacts
<1> DEFINE m == Append(q, "finished")
           n == Append(m, h)
<1>2. Finished(q, h) = n
    <2>1. q \in Seq(Label)
        BY <1>1 DEF Path
    <2> QED
        BY <1>1, <2>1 DEF Finished
<1>3. /\ m \in Path /\ Len(m) = Len(q) + 1 /\ m[Len(q) + 1] = "finished"
      /\ \A i \in 1..Len(q) : m[i] = q[i]
    BY <1>1, AppendFacts
<1> HIDE DEF m
<1>4. /\ n \in Path /\ Len(n) = Len(m) + 1 /\ n[Len(m) + 1] = h /\ IsPrefix(m, n)
      /\ \A i \in 1..Len(m) : n[i] = m[i]
    BY <1>1, <1>3, AppendFacts
<1>5. Front(n) = m
    BY <1>3, <1>4, ChildFacts
<1> HIDE DEF n
<1>6. Len(n) = Len(DdlPath) + 3 /\ n # <<>>
    BY <1>1, <1>3, <1>4, PathFacts
<1>7. ASSUME NEW i \in 1..Len(n) PROVE n[i] # "replicas"
    <2>1. i = Len(m) + 1 \/ i = Len(q) + 1 \/ i \in 1..Len(q)
        BY <1>1, <1>3, <1>4
    <2>2. CASE i = Len(m) + 1
        BY <1>1, <1>4, <2>2
    <2>3. CASE i = Len(q) + 1
        <3>1. i \in 1..Len(m)
            BY <1>1, <1>3, <2>3
        <3>2. n[i] = "finished"
            BY <1>3, <1>4, <2>3, <3>1
        <3> QED
            BY <3>2
    <2>4. CASE i \in 1..Len(q)
        <3>1. i \in 1..Len(m)
            BY <1>1, <1>3, <2>4
        <3>2. n[i] = q[i]
            BY <1>3, <1>4, <2>4, <3>1
        <3> QED
            BY <1>1, <2>4, <3>2 DEF HasReplicas
    <2> QED
        BY <2>1, <2>2, <2>3, <2>4
<1>8. ~HasReplicas(n)
    BY <1>7 DEF HasReplicas
<1> QED
    BY <1>1, <1>2, <1>4, <1>5, <1>6, <1>8 DEF m

\* What a step on the queue keeps, when it deletes nothing itself.
LEMMA DdlKeeps ==
    ASSUME CleanInv, UNCHANGED <<command, inspector, objects, tasks, walk, whose, env>>,
           pc' \in {"ddl", "ddl_mark", "ddl_wait", "ddl_delete", "locks", "failed"},
           pc \in {"ddl_list", "ddl", "ddl_mark", "ddl_wait", "ddl_delete"},
           TreeInv', LostInv', DelInv', DdlInv'
    PROVE  CleanInv'
<1>1. command.kind = "hosts" /\ command.ddl /\ command.kind \in HostKinds
    BY DEF CleanInv, Control, HostKinds
<1>2. Control'
    BY <1>1 DEF CleanInv, Control, LockKinds
<1>3. env.dropped \subseteq env.dropped' /\ pc' # "find"
    OBVIOUS
<1>4. pc' \notin LockPcs \/ (pc' = "locks" /\ command.kind \in HostKinds)
    BY <1>1 DEF LockPcs
<1>5. InspectorInv' /\ TasksInv' /\ WhoseInv' /\ WalkInv'
    BY <1>3, <1>4, KeepsInspector, KeepsWhose, KeepsWalk
<1> QED
    BY <1>2, <1>5 DEF CleanInv

\* What DdlInv says of the queues.
LEMMA DdlShape ==
    ASSUME CleanInv
    PROVE  /\ ddl \in [queue : Seq(DOMAIN DdlHosts), todo : Seq(STRING), task : Path,
                       remove : Seq(Going), polls : 0..MaxPolls]
           /\ ddl.todo # <<>> => ddl.task \in DOMAIN DdlHosts
BY DEF CleanInv, DdlInv

\* The queue is listed.
LEMMA DdlListKeeps == CleanInv /\ DdlList => CleanInv'
<1> SUFFICES ASSUME CleanInv, DdlList PROVE CleanInv'
    OBVIOUS
<1> DEFINE kids == Children(tree, DdlPath)
           q == SetToSeq(kids)
<1>1. /\ pc = "ddl_list" /\ tree' = tree /\ del' = del /\ command' = command /\ env' = env
      /\ UNCHANGED <<command, inspector, objects, tasks, walk, whose, env>>
      /\ pc' = "ddl" /\ ddl' = [NoDdl EXCEPT !.queue = q]
    BY DEF DdlList, treeVars
<1>2. TreeShape(tree)
    BY <1>1 DEF CleanInv, TreeInv, Control
<1>3. kids \subseteq DOMAIN DdlHosts /\ IsFiniteSet(kids)
    BY <1>2, ChildrenFacts DEF TreeShape
<1> HIDE DEF kids
<1>4. q \in Seq(DOMAIN DdlHosts)
    BY <1>3, SetToSeqIn
<1> HIDE DEF q
<1>5. ddl' = [queue |-> q, todo |-> <<>>, task |-> <<>>, remove |-> <<>>, polls |-> 0]
    BY <1>1 DEF NoDdl
<1>6. <<>> \in Path /\ <<>> \in Seq(STRING) /\ <<>> \in Seq(Going) /\ 0 \in 0..MaxPolls
    BY EmptySeq, LimitsAssumption DEF Path
<1>7. Going' = Going
    BY <1>1, SameSets
<1>8. DdlInv'
    <2>1. /\ ddl' \in [queue : Seq(DOMAIN DdlHosts), todo : Seq(STRING), task : Path,
                       remove : Seq(Going), polls : 0..MaxPolls]
          /\ ddl'.todo = <<>>
        BY <1>4, <1>5, <1>6
    <2> QED
        BY <1>1, <1>7, <2>1 DEF DdlInv
<1>9. pc' \notin DeletePcs /\ pc \notin DeletePcs
    BY <1>1 DEF DeletePcs
<1>10. TreeInv' /\ LostInv' /\ DelInv'
    BY <1>1, <1>9, Quiet, KeepsDel
<1> QED
    BY <1>1, <1>8, <1>10, DdlKeeps

\* The next task is read.
LEMMA DdlNextKeeps == CleanInv /\ DdlNext => CleanInv'
<1> SUFFICES ASSUME CleanInv, DdlNext PROVE CleanInv'
    OBVIOUS
<1>1. /\ pc = "ddl" /\ tree' = tree /\ del' = del /\ command' = command /\ env' = env
      /\ UNCHANGED <<command, inspector, objects, tasks, walk, whose, env>>
      /\ pc' \in {"ddl", "ddl_wait"} /\ ddl.todo = <<>>
    BY DEF DdlNext, treeVars
<1>2. Going' = Going
    BY <1>1, SameSets
<1>3. pc' \notin DeletePcs /\ pc \notin DeletePcs
    BY <1>1 DEF DeletePcs
<1>4. TreeInv' /\ LostInv' /\ DelInv'
    BY <1>1, <1>3, Quiet, KeepsDel
<1>5. DdlInv'
    <2>1. CASE ddl.queue = <<>>
        <3>1. ddl' = ddl
            BY <2>1 DEF DdlNext
        <3> QED
            BY <1>1, <1>2, <3>1 DEF CleanInv, DdlInv
    <2>2. CASE ddl.queue # <<>>
        <3> DEFINE q == Head(ddl.queue)
                   named == q \in tree /\ DdlHosts[q] \cap Removed # {}
                   rest == Tail(ddl.queue)
                   todo == IF named THEN command.hosts ELSE <<>>
                   remove == IF named THEN Append(ddl.remove, q) ELSE ddl.remove
        <3>1. ddl' = [ddl EXCEPT !.queue = rest, !.task = q, !.todo = todo, !.remove = remove]
            BY <2>2 DEF DdlNext
        <3>2. ddl.queue \in Seq(DOMAIN DdlHosts) /\ ddl.remove \in Seq(Going)
            BY DdlShape
        <3>3. q \in DOMAIN DdlHosts /\ rest \in Seq(DOMAIN DdlHosts)
            BY <2>2, <3>2, HeadTailProperties
        <3> HIDE DEF q, rest
        <3>4. q \in Path
            BY <3>3, DdlFacts
        <3>5. named => q \in Going
            <4>1. command.kind = "hosts" /\ command.ddl
                BY <1>1 DEF CleanInv, Control
            <4>2. named => MayGo(q)
                BY <3>3, <4>1 DEF MayGo, MatchedFor
            <4> QED
                BY <3>4, <4>2 DEF Going
        <3>6. remove \in Seq(Going)
            BY <3>2, <3>5, AppendProperties
        <3>7. todo \in Seq(STRING)
            BY CommandFacts, EmptySeq DEF CleanInv, Control
        <3> HIDE DEF todo, remove, named
        <3>8. /\ ddl' \in [queue : Seq(DOMAIN DdlHosts), todo : Seq(STRING), task : Path,
                           remove : Seq(Going), polls : 0..MaxPolls]
              /\ ddl'.task \in DOMAIN DdlHosts
            BY <3>1, <3>3, <3>4, <3>6, <3>7, DdlShape
        <3> QED
            BY <1>1, <1>2, <3>8 DEF DdlInv
    <2> QED
        BY <2>1, <2>2
<1> QED
    BY <1>1, <1>4, <1>5, DdlKeeps

\* A removed host of the task is looked at.
LEMMA DdlLookKeeps == CleanInv /\ DdlLook => CleanInv'
<1> SUFFICES ASSUME CleanInv, DdlLook PROVE CleanInv'
    OBVIOUS
<1>1. /\ pc = "ddl" /\ tree' = tree /\ del' = del /\ command' = command /\ env' = env
      /\ UNCHANGED <<command, inspector, objects, tasks, walk, whose, env>>
      /\ ddl.todo # <<>>
      /\ \/ pc' = "ddl" /\ ddl' = [ddl EXCEPT !.todo = Tail(ddl.todo)]
         \/ pc' = "ddl_mark" /\ ddl' = ddl /\ Head(ddl.todo) \in DdlHosts[ddl.task]
    BY DEF DdlLook, treeVars
<1>2. Going' = Going
    BY <1>1, SameSets
<1>3. pc' \notin DeletePcs /\ pc \notin DeletePcs
    BY <1>1 DEF DeletePcs
<1>4. TreeInv' /\ LostInv' /\ DelInv'
    BY <1>1, <1>3, Quiet, KeepsDel
<1>5. DdlInv'
    <2>1. CASE pc' = "ddl" /\ ddl' = [ddl EXCEPT !.todo = Tail(ddl.todo)]
        <3> DEFINE rest == Tail(ddl.todo)
        <3>1. rest \in Seq(STRING)
            BY <1>1, DdlShape, HeadTailProperties
        <3>2. ddl' = [ddl EXCEPT !.todo = rest]
            BY <2>1
        <3> HIDE DEF rest
        <3>3. /\ ddl' \in [queue : Seq(DOMAIN DdlHosts), todo : Seq(STRING), task : Path,
                           remove : Seq(Going), polls : 0..MaxPolls]
              /\ ddl'.task \in DOMAIN DdlHosts
            BY <1>1, <3>1, <3>2, DdlShape
        <3> QED
            BY <1>2, <2>1, <3>3 DEF DdlInv
    <2>2. CASE pc' = "ddl_mark" /\ ddl' = ddl /\ Head(ddl.todo) \in DdlHosts[ddl.task]
        BY <1>1, <1>2, <2>2 DEF CleanInv, DdlInv
    <2> QED
        BY <1>1, <2>1, <2>2
<1> QED
    BY <1>1, <1>4, <1>5, DdlKeeps

\* A host is marked finished.
LEMMA DdlMarkKeeps == CleanInv /\ DdlMark => CleanInv'
<1> SUFFICES ASSUME CleanInv, DdlMark PROVE CleanInv'
    OBVIOUS
<1> DEFINE h == Head(ddl.todo)
           node == Finished(ddl.task, h)
           rest == Tail(ddl.todo)
<1>1. /\ pc = "ddl_mark" /\ del' = del /\ command' = command /\ env' = env
      /\ UNCHANGED <<command, inspector, objects, tasks, walk, whose, env>>
      /\ \/ pc' = "failed" /\ tree' = tree /\ ddl' = ddl
         \/ /\ Front(node) \in tree /\ tree' = tree \cup {node}
            /\ ddl' = [ddl EXCEPT !.todo = rest] /\ pc' = "ddl"
    BY DEF DdlMark
<1>2. Going' = Going
    BY <1>1, SameSets
<1>3. pc' \notin DeletePcs /\ pc \notin DeletePcs
    BY <1>1 DEF DeletePcs
<1>4. ddl.todo # <<>> /\ ddl.task \in DOMAIN DdlHosts /\ h \in DdlHosts[ddl.task]
    BY <1>1 DEF CleanInv, DdlInv
<1>5. rest \in Seq(STRING)
    BY <1>4, DdlShape, HeadTailProperties
<1>6. /\ node \in Path /\ node # <<>> /\ ~HasReplicas(node)
      /\ Len(node) = Len(DdlPath) + 3 /\ Len(DdlPath) \in Nat
    BY <1>4, FinishedFacts
<1> HIDE DEF h, node, rest
<1>7. TreeInv'
    <2>1. CASE tree' = tree
        BY <1>1, <2>1, Quiet
    <2>2. CASE Front(node) \in tree /\ tree' = tree \cup {node}
        <3>1. TreeShape(tree)
            BY <1>1 DEF CleanInv, TreeInv, Control
        <3>2. Len(node) # Len(DdlPath) + 1
            BY <1>6
        <3>3. TreeShape(tree')
            BY <1>6, <2>2, <3>1, <3>2, AddNode
        <3> QED
            BY <3>3 DEF TreeInv, TreeShape
    <2> QED
        BY <1>1, <2>1, <2>2
<1>8. LostInv' /\ DelInv'
    <2>1. tree \subseteq tree' /\ env.dropped \subseteq env.dropped'
        BY <1>1
    <2> QED
        BY <1>1, <1>3, <2>1, KeepsTree, KeepsDel
<1>9. DdlInv'
    <2>1. CASE pc' = "failed" /\ ddl' = ddl
        BY <1>2, <2>1 DEF CleanInv, DdlInv
    <2>2. CASE ddl' = [ddl EXCEPT !.todo = rest] /\ pc' = "ddl"
        <3>1. /\ ddl' \in [queue : Seq(DOMAIN DdlHosts), todo : Seq(STRING), task : Path,
                           remove : Seq(Going), polls : 0..MaxPolls]
              /\ ddl'.task \in DOMAIN DdlHosts
            BY <1>4, <1>5, <2>2, DdlShape
        <3> QED
            BY <1>2, <2>2, <3>1 DEF DdlInv
    <2> QED
        BY <1>1, <2>1, <2>2
<1> QED
    BY <1>1, <1>7, <1>8, <1>9, DdlKeeps

\* The tasks are waited for, and deleted in chunks.
LEMMA DdlWaitKeeps == CleanInv /\ DdlWait => CleanInv'
<1> SUFFICES ASSUME CleanInv, DdlWait PROVE CleanInv'
    OBVIOUS
<1> DEFINE n == IF Len(ddl.remove) < DdlChunk THEN Len(ddl.remove) ELSE DdlChunk
           chunk == {ddl.remove[k] : k \in 1..n}
           rest == SubSeq(ddl.remove, n + 1, Len(ddl.remove))
           more == ddl.polls + 1
<1>1. /\ pc = "ddl_wait" /\ tree' = tree /\ command' = command /\ env' = env
      /\ UNCHANGED <<command, inspector, objects, tasks, walk, whose, env>>
      /\ \/ pc' = "locks" /\ ddl' = ddl /\ del' = del
         \/ /\ del' \in StartedDelete(chunk) /\ pc' = "ddl_delete"
            /\ ddl' = [ddl EXCEPT !.remove = rest, !.polls = 0]
         \/ ddl.polls # MaxPolls /\ ddl' = [ddl EXCEPT !.polls = more] /\ pc' = pc /\ del' = del
    BY DEF DdlWait
<1>2. Going' = Going
    BY <1>1, SameSets
<1>3. ddl.remove \in Seq(Going) /\ Len(ddl.remove) \in Nat /\ ddl.polls \in 0..MaxPolls
    BY DdlShape, LenProperties
<1>4. n \in Nat /\ n <= Len(ddl.remove)
    BY <1>3, LimitsAssumption
<1>5. ddl.polls # MaxPolls => more \in 0..MaxPolls
    BY <1>3, LimitsAssumption
<1> HIDE DEF n, more
<1>6. \A k \in 1..Len(ddl.remove) : ddl.remove[k] \in Going
    BY <1>3, ElementOfSeq
<1>7. chunk \in SUBSET Going /\ IsFiniteSet(chunk)
    <2>1. chunk \subseteq Going
        <3>1. \A k \in 1..n : k \in 1..Len(ddl.remove)
            BY <1>3, <1>4
        <3> QED
            BY <1>6, <3>1
    <2> DEFINE f == [k \in 1..n |-> ddl.remove[k]]
    <2>2. f \in Surjection(1..n, chunk)
        BY DEF Surjection
    <2>3. IsFiniteSet(1..n)
        BY <1>4, FS_Interval
    <2> HIDE DEF f, chunk
    <2> QED
        BY <2>1, <2>2, <2>3, FS_Surjection
<1>8. rest \in Seq(Going)
    <2>1. \A i \in (n + 1)..Len(ddl.remove) : i \in 1..Len(ddl.remove)
        BY <1>3, <1>4
    <2>2. \A i \in (n + 1)..Len(ddl.remove) : ddl.remove[i] \in Going
        BY <1>6, <2>1
    <2>3. n + 1 \in Int /\ Len(ddl.remove) \in Int
        BY <1>3, <1>4
    <2> QED
        BY <2>2, <2>3, SubSeqProperties
<1> HIDE DEF chunk, rest
<1>9. TreeInv' /\ LostInv' /\ env.dropped \subseteq env.dropped'
    BY <1>1, Quiet
<1>10. DdlInv'
    <2>1. 0 \in 0..MaxPolls
        BY LimitsAssumption
    <2>2. \/ ddl' = ddl
          \/ ddl' = [ddl EXCEPT !.remove = rest, !.polls = 0]
          \/ more \in 0..MaxPolls /\ ddl' = [ddl EXCEPT !.polls = more]
        BY <1>1, <1>5
    <2>3. /\ ddl' \in [queue : Seq(DOMAIN DdlHosts), todo : Seq(STRING), task : Path,
                       remove : Seq(Going), polls : 0..MaxPolls]
          /\ ddl'.todo # <<>> => ddl'.task \in DOMAIN DdlHosts
        BY <1>8, <2>1, <2>2, DdlShape
    <2> QED
        BY <1>1, <1>2, <2>3 DEF DdlInv
<1>11. DelInv'
    <2>1. CASE pc' \in {"locks", "ddl_wait"} /\ del' = del
        <3>1. pc' \notin DeletePcs /\ pc \notin DeletePcs
            BY <1>1, <2>1 DEF DeletePcs
        <3> QED
            BY <1>1, <1>9, <2>1, <3>1, KeepsDel
    <2>2. CASE del' \in StartedDelete(chunk) /\ pc' = "ddl_delete"
        <3>1. pc' \in DeletePcs
            BY <2>2 DEF DeletePcs
        <3> QED
            BY <1>1, <1>7, <2>2, <3>1, StartsDel
    <2> QED
        BY <1>1, <2>1, <2>2
<1> QED
    BY <1>1, <1>9, <1>10, <1>11, DdlKeeps

\* A chunk of them is deleted.
LEMMA DdlDeletedKeeps == CleanInv /\ DdlDeleted => CleanInv'
<1> SUFFICES ASSUME CleanInv, DdlDeleted PROVE CleanInv'
    OBVIOUS
<1>1. /\ pc = "ddl_delete" /\ tree' = tree /\ command' = command /\ env' = env /\ ddl' = ddl
      /\ UNCHANGED <<command, inspector, objects, tasks, walk, whose, env>>
      /\ pc' = "ddl_wait" /\ del' = NoDelete
    BY DEF DdlDeleted
<1>2. pc' \notin DeletePcs /\ pc' # "ddl_mark"
    BY <1>1 DEF DeletePcs
<1>3. TreeInv' /\ LostInv' /\ DelInv' /\ DdlInv'
    BY <1>1, <1>2, Quiet, EndsDel, KeepsDdl
<1> QED
    BY <1>1, <1>3, DdlKeeps

---------------------------------------------------------------------------
(* The locks *)

WalkPcs == {"locks", "walk", "walk_delete", "find"}

\* A step of the walk that keeps its own parts of the invariant.
LEMMA LocksKeep ==
    ASSUME CleanInv, UNCHANGED <<tree, command, inspector, objects, tasks, ddl, env>>,
           pc \in WalkPcs \cup {"delete"},
           pc' \in {"walk", "walk_delete", "find", "delete", "ended"}
               \/ (pc' = "locks" /\ command.kind \in HostKinds),
           pc' \in {"walk", "walk_delete", "find"} => pc \in WalkPcs,
           DelInv', WhoseInv', WalkInv'
    PROVE  CleanInv'
<1>1. pc \in WalkPcs => command.kind \in LockKinds
    BY DEF CleanInv, Control, WalkPcs
<1>2. pc = "delete" => command.kind # "create"
    BY DEF CleanInv, Control
<1>3. command.kind # "create"
    BY <1>1, <1>2 DEF LockKinds, WalkPcs
<1>4. Control'
    BY <1>1, <1>3 DEF CleanInv, Control, LockKinds, HostKinds
<1>5. TreeInv' /\ LostInv' /\ env.dropped \subseteq env.dropped'
    BY Quiet
<1>6. InspectorInv' /\ TasksInv' /\ DdlInv'
    <2>1. pc' # "ddl_mark"
        OBVIOUS
    <2> QED
        BY <1>5, <2>1, KeepsInspector, KeepsDdl
<1> QED
    BY <1>4, <1>5, <1>6 DEF CleanInv

\* The filter of the walk does not change while it runs.
LEMMA WalkWhose ==
    ASSUME CleanInv, command' = command, whose' = whose, pc \in WalkPcs,
           pc' \in {"walk", "walk_delete"} => Filter.replica # "" \/ Filter.prefix # "",
           pc' = "find" => Filter.replica = "" /\ Filter.prefix = "" /\ Filter.part # "",
           pc' \in {"walk", "walk_delete", "find"} => HostLeft,
           pc' \in {"walk", "walk_delete", "find", "delete", "ended"}
    PROVE  WhoseInv'
<1>1. Filter' = Filter /\ Removed' = Removed /\ AskedTable' = AskedTable
    BY SameNames DEF Filter
<1> QED
    BY <1>1 DEF CleanInv, WhoseInv, WalkPcs, HostLeft

\* The walk has one filter from its start to its end.
LEMMA WalkHasFilter ==
    ASSUME CleanInv, pc \in {"walk", "walk_delete"}
    PROVE  /\ HostLeft /\ (Filter.replica # "" \/ Filter.prefix # "")
           /\ command.kind \in LockKinds /\ command.kind # "create" /\ command \in Commands
BY DEF CleanInv, WhoseInv, Control, HostLeft, LockKinds

\* The sets of the walk change with the command and the environment only.
LEMMA SameStack ==
    ASSUME CleanInv, command' = command, env' = env, NEW s, StackOk(s)
    PROVE  StackOk(s)'
<1>1. env.dropped \subseteq env.dropped'
    OBVIOUS
<1> QED
    BY <1>1, StackGrows

\* A walk with its stack, its queue and the paths it yielded.
LEMMA NewWalk ==
    ASSUME CleanInv, command' = command, env' = env, NEW s, StackOk(s), NEW f \in SUBSET Going,
           IsFiniteSet(f), walk' = [stack |-> s, queue |-> <<>>, found |-> f], pc' # "find"
    PROVE  WalkInv'
<1>1. StackOk(s)'
    BY SameStack
<1>2. StackOk(walk.stack)'
    <2> DEFINE t == walk'.stack
    <2>1. t = s
        BY DEF t
    <2> QED
        BY <1>1, <2>1 DEF StackOk, FrameOk, Busy
<1>3. Going' = Going
    BY SameSets
<1>4. walk'.queue \in Seq({p \in Path : IsPrefix(LockRoot', p)})
    BY EmptySeq
<1> QED
    BY <1>2, <1>3, <1>4 DEF WalkInv

\* The stacks a walk starts with.
LEMMA FirstStacks ==
    /\ StackOk(<<>>)
    /\ \A f \in Frames : f.path = LockRoot /\ FrameOk(f, {}) => StackOk(<<f>>)
<1>1. StackOk(<<>>)
    <2>1. <<>> \in Seq(Frames) /\ Len(<<>>) = 0
        BY EmptySeq
    <2> QED
        BY <2>1 DEF StackOk
<1>2. ASSUME NEW f \in Frames, f.path = LockRoot, FrameOk(f, {})
      PROVE  StackOk(<<f>>)
    <2> DEFINE s == <<f>>
    <2>1. s \in Seq(Frames) /\ Len(s) = 1 /\ s[1] = f /\ s # <<>>
        OBVIOUS
    <2> HIDE DEF s
    <2>2. \A i \in 1..Len(s) : i = 1 /\ i = Len(s)
        BY <2>1
    <2>3. \A i \in 1..Len(s) : FrameOk(s[i], Busy(s, i))
        BY <1>2, <2>1, <2>2 DEF Busy
    <2>4. StackOk(s)
        BY <1>2, <2>1, <2>3 DEF StackOk
    <2> QED
        BY <2>4 DEF s
<1> QED
    BY <1>1, <1>2

\* The table of the filter is a name.
LEMMA FilterTable ==
    ASSUME CleanInv
    PROVE  Filter.table \in Label
BY LabelFacts DEF CleanInv, WhoseInv, Filter

\* The clean-up of locks starts, or ends with the last host.
LEMMA CleanLocksKeeps == CleanInv /\ CleanLocks => CleanInv'
<1> SUFFICES ASSUME CleanInv, CleanLocks PROVE CleanInv'
    OBVIOUS
<1> DEFINE f == Frame(LockRoot)
           narrow == Filter.replica # "" \/ Filter.prefix # ""
           paths == IF Filter.table = "" THEN {} ELSE {Append(LockRoot, Filter.table)}
<1>1. /\ pc = "locks" /\ command' = command /\ env' = env /\ whose' = whose /\ tree' = tree
      /\ UNCHANGED <<tree, command, inspector, objects, tasks, ddl, env>>
    BY DEF CleanLocks
<1>2. command \in Commands /\ command.kind \in LockKinds /\ command.kind # "create"
    BY <1>1 DEF CleanInv, Control, LockKinds
<1>3. \/ pc' = "ended" /\ walk' = walk /\ del' = del
      \/ /\ narrow /\ HostLeft
         /\ walk' = [NoWalk EXCEPT !.stack = <<f>>] /\ pc' = "walk" /\ del' = del
      \/ /\ ~narrow /\ HostLeft /\ Filter.part # ""
         /\ walk' = [NoWalk EXCEPT !.queue = <<LockRoot>>] /\ pc' = "find" /\ del' = del
      \/ /\ ~narrow /\ HostLeft /\ Filter.part = ""
         /\ del' \in StartedDelete(paths) /\ pc' = "delete" /\ walk' = walk
    <2>1. HostLeft \/ (command.kind \notin {"locks", "drop"} /\ whose.hosts = <<>>)
        BY DEF HostLeft, HostKinds
    <2> HIDE DEF f, paths
    <2> QED
        BY <2>1 DEF CleanLocks, HostLeft, HostKinds, f, paths
<1>4. LockRoot \in Path /\ IsPrefix(LockRoot, LockRoot)
    BY <1>2, LockRootFacts, PrefixOrder
<1>5. f \in Frames /\ FrameOk(f, {}) /\ f.path = LockRoot
    BY <1>2, <1>4, NewFrame
<1> HIDE DEF f
<1>6. pc \in WalkPcs /\ pc \notin DeletePcs
    BY <1>1 DEF WalkPcs, DeletePcs
<1>7. WhoseInv'
    <2> HIDE DEF paths
    <2>1. pc' \in {"walk", "walk_delete"} => narrow
        BY <1>3
    <2>2. pc' = "find" => ~narrow /\ Filter.part # ""
        BY <1>3
    <2>3. pc' \in {"walk", "walk_delete", "find"} => HostLeft
        BY <1>3
    <2>4. pc' \in {"walk", "walk_delete", "find", "delete", "ended"}
        BY <1>3
    <2> QED
        BY <1>1, <1>6, <2>1, <2>2, <2>3, <2>4, WalkWhose
<1>8. env.dropped \subseteq env.dropped'
    BY <1>1
<1>9. DelInv' /\ WalkInv'
    <2>1. CASE pc' = "ended" /\ walk' = walk /\ del' = del
        <3>1. pc' \notin DeletePcs /\ pc' # "find"
            BY <2>1 DEF DeletePcs
        <3> QED
            BY <1>1, <1>6, <1>8, <2>1, <3>1, KeepsDel, KeepsWalk
    <2>2. CASE walk' = [NoWalk EXCEPT !.stack = <<f>>] /\ pc' = "walk" /\ del' = del
        <3>1. pc' \notin DeletePcs /\ pc' # "find"
            BY <2>2 DEF DeletePcs
        <3>2. walk' = [stack |-> <<f>>, queue |-> <<>>, found |-> {}]
            BY <2>2 DEF NoWalk
        <3>3. StackOk(<<f>>)
            BY <1>5, FirstStacks
        <3>4. {} \in SUBSET Going /\ IsFiniteSet({})
            BY FS_EmptySet
        <3>5. WalkInv'
            BY <1>1, <3>1, <3>2, <3>3, <3>4, NewWalk
        <3> QED
            BY <1>1, <1>6, <1>8, <2>2, <3>1, <3>5, KeepsDel
    <2>3. CASE walk' = [NoWalk EXCEPT !.queue = <<LockRoot>>] /\ pc' = "find" /\ del' = del
        <3>1. pc' \notin DeletePcs
            BY <2>3 DEF DeletePcs
        <3>2. walk' = [stack |-> <<>>, queue |-> <<LockRoot>>, found |-> {}]
            BY <2>3 DEF NoWalk
        <3>3. LockRoot' = LockRoot
            BY <1>1, SameNames
        <3>4. walk'.queue \in Seq({p \in Path : IsPrefix(LockRoot', p)})
            BY <1>4, <3>2, <3>3
        <3>5. StackOk(<<>>)'
            BY <1>1, FirstStacks, SameStack
        <3>6. StackOk(walk.stack)'
            BY <3>2, <3>5 DEF StackOk, FrameOk, Busy
        <3>7. walk'.found = {} /\ IsFiniteSet(walk'.found)
            BY <3>2, FS_EmptySet
        <3>8. walk' = [stack |-> walk'.stack, queue |-> walk'.queue, found |-> walk'.found]
            BY <3>2
        <3>9. WalkInv'
            BY <3>4, <3>6, <3>7, <3>8 DEF WalkInv
        <3> QED
            BY <1>1, <1>6, <1>8, <2>3, <3>1, <3>9, KeepsDel
    <2>4. CASE /\ ~narrow /\ HostLeft /\ Filter.part = ""
               /\ del' \in StartedDelete(paths) /\ pc' = "delete" /\ walk' = walk
        <3>1. pc' \in DeletePcs /\ pc' # "find"
            BY <2>4 DEF DeletePcs
        <3>2. paths \in SUBSET Going /\ IsFiniteSet(paths)
            <4>1. CASE Filter.table = ""
                BY <4>1, FS_EmptySet
            <4>2. CASE Filter.table # ""
                <5>1. OnlyTable
                    BY <2>4, <4>2 DEF OnlyTable
                <5>2. /\ Append(LockRoot, Filter.table) \in Path
                      /\ MayGo(Append(LockRoot, Filter.table))
                    BY <1>1, <2>4, <5>1, FilterTable, TableGoes
                <5> QED
                    BY <4>2, <5>2, FS_Singleton DEF Going
            <4> QED
                BY <4>1, <4>2
        <3> HIDE DEF paths
        <3>3. DelInv'
            BY <1>1, <2>4, <3>1, <3>2, StartsDel
        <3> QED
            BY <1>1, <1>8, <2>4, <3>1, <3>3, KeepsWalk
    <2> QED
        BY <1>3, <2>1, <2>2, <2>3, <2>4
<1>10. pc' \in {"walk", "walk_delete", "find", "delete", "ended"}
    BY <1>3
<1> QED
    BY <1>1, <1>6, <1>7, <1>9, <1>10, LocksKeep

---------------------------------------------------------------------------
(* The walk *)

\* A step of the walk in which no deletion starts.
LEMMA Walks ==
    ASSUME CleanInv, pc = "walk", pc' = pc, del' = del,
           UNCHANGED <<tree, fresh, command, inspector, objects, tasks, ddl, whose, env>>,
           NEW s, StackOk(s), NEW f \in SUBSET Going, IsFiniteSet(f),
           walk' = [stack |-> s, queue |-> walk.queue, found |-> f]
    PROVE  CleanInv'
<1>1. /\ HostLeft /\ (Filter.replica # "" \/ Filter.prefix # "")
      /\ command.kind \in LockKinds
    BY WalkHasFilter
<1>2. pc \in WalkPcs /\ pc \notin DeletePcs /\ pc' \notin DeletePcs /\ pc' # "find"
      /\ pc' = "walk"
    BY DEF WalkPcs, DeletePcs
<1>3. walk.queue \in Seq({p \in Path : IsPrefix(LockRoot, p)})
    BY DEF CleanInv, WalkInv
<1>4. WalkInv'
    <2>1. walk' = [stack |-> s, queue |-> walk.queue, found |-> f]
        OBVIOUS
    <2>2. LockRoot' = LockRoot /\ Going' = Going
        BY SameNames, SameSets
    <2>3. StackOk(s)'
        BY SameStack
    <2> DEFINE t == walk'.stack
    <2>4. t = s
        BY <2>1
    <2>5. StackOk(walk.stack)'
        BY <2>3, <2>4 DEF StackOk, FrameOk, Busy
    <2>6. walk' = [stack |-> walk'.stack, queue |-> walk'.queue, found |-> walk'.found]
          /\ walk'.queue = walk.queue /\ walk'.found = f
        BY <2>1
    <2> QED
        BY <1>2, <1>3, <2>2, <2>5, <2>6 DEF WalkInv
<1>5. WhoseInv'
    BY <1>1, <1>2, WalkWhose
<1>6. DelInv'
    BY <1>2, KeepsDel
<1> QED
    BY <1>2, <1>4, <1>5, <1>6, LocksKeep

\* A path is yielded, and counted by its parent.
LEMMA Yields ==
    ASSUME CleanInv, pc = "walk", NEW s, NEW p \in Path, MayGo(p),
           StackOk([s EXCEPT ![Len(s)].matched = @ + 1]), Yield(s, p),
           UNCHANGED <<tree, fresh, command, inspector, objects, tasks, ddl, whose, env>>
    PROVE  CleanInv'
<1> DEFINE up == [s EXCEPT ![Len(s)].matched = @ + 1]
           found == walk.found \cup {p}
<1>1. \/ /\ walk' = [walk EXCEPT !.stack = up, !.found = {}]
         /\ del' \in StartedDelete(found) /\ pc' = "walk_delete"
      \/ walk' = [walk EXCEPT !.stack = up, !.found = found] /\ del' = del /\ pc' = pc
    BY DEF Yield
<1>2. StackOk(up)
    OBVIOUS
<1> HIDE DEF up
<1>3. found \in SUBSET Going /\ IsFiniteSet(found)
    <2>1. walk.found \subseteq Going /\ IsFiniteSet(walk.found) /\ p \in Going
        BY DEF CleanInv, WalkInv, Going
    <2> QED
        BY <2>1, FS_AddElement
<1> HIDE DEF found
<1>4. CASE walk' = [walk EXCEPT !.stack = up, !.found = found] /\ del' = del /\ pc' = pc
    <2>1. walk' = [stack |-> up, queue |-> walk.queue, found |-> found]
        BY <1>4 DEF CleanInv, WalkInv
    <2> QED
        BY <1>2, <1>3, <1>4, <2>1, Walks
<1>5. CASE /\ walk' = [walk EXCEPT !.stack = up, !.found = {}]
           /\ del' \in StartedDelete(found) /\ pc' = "walk_delete"
    <2>1. /\ HostLeft /\ (Filter.replica # "" \/ Filter.prefix # "")
          /\ command.kind \in LockKinds
        BY WalkHasFilter
    <2>2. pc \in WalkPcs /\ pc' \in DeletePcs /\ pc' # "find"
        BY <1>5 DEF WalkPcs, DeletePcs
    <2>3. WhoseInv'
        BY <1>5, <2>1, <2>2, WalkWhose
    <2>4. DelInv'
        BY <1>3, <1>5, <2>2, StartsDel
    <2>5. WalkInv'
        <3>1. walk.queue \in Seq({q \in Path : IsPrefix(LockRoot, q)})
            BY DEF CleanInv, WalkInv
        <3>2. walk' = [stack |-> up, queue |-> walk.queue, found |-> {}]
            BY <1>5 DEF CleanInv, WalkInv
        <3>3. LockRoot' = LockRoot
            BY SameNames
        <3>4. StackOk(up)'
            BY <1>2, SameStack
        <3> DEFINE t == walk'.stack
        <3>5. t = up
            BY <3>2
        <3>6. StackOk(walk.stack)'
            BY <3>4, <3>5 DEF StackOk, FrameOk, Busy
        <3>7. walk' = [stack |-> walk'.stack, queue |-> walk'.queue, found |-> walk'.found]
              /\ walk'.queue = walk.queue /\ walk'.found = {}
            BY <3>2
        <3> QED
            BY <2>2, <3>1, <3>3, <3>6, <3>7, FS_EmptySet DEF WalkInv
    <2> QED
        BY <1>5, <2>2, <2>3, <2>4, <2>5, LocksKeep
<1> QED
    BY <1>1, <1>4, <1>5

\* The frame on top of the stack.
LEMMA TopFrame ==
    ASSUME NEW s, StackOk(s), s # <<>>
    PROVE  /\ Last(s) = s[Len(s)] /\ Last(s) \in Frames /\ FrameOk(Last(s), {})
           /\ s \in Seq(Frames) /\ Len(s) \in Nat /\ Len(s) \in 1..Len(s)
<1>1. s \in Seq(Frames) /\ Len(s) \in Nat /\ Len(s) \in 1..Len(s)
    BY LenProperties DEF StackOk
<1>2. s[Len(s)] \in Frames
    BY <1>1, ElementOfSeq
<1>3. FrameOk(s[Len(s)], {})
    BY <1>1 DEF StackOk, Busy
<1> QED
    BY <1>1, <1>2, <1>3 DEF Last

\* The next child of the directory on top is looked at.
LEMMA WalkVisitKeeps == CleanInv /\ WalkVisit => CleanInv'
<1> SUFFICES ASSUME CleanInv, WalkVisit PROVE CleanInv'
    OBVIOUS
<1> DEFINE s == walk.stack
           top == Last(s)
           child == CHOOSE c \in top.todo : TRUE
           f == [top EXCEPT !.todo = top.todo \ {child}]
           s2 == [s EXCEPT ![Len(s)] = f]
<1>1. /\ pc = "walk" /\ s # <<>> /\ top.todo # {}
      /\ UNCHANGED <<tree, fresh, command, inspector, objects, tasks, ddl, whose, env>>
    BY DEF WalkVisit
<1>2. StackOk(s) /\ walk.found \subseteq Going /\ IsFiniteSet(walk.found)
    BY DEF CleanInv, WalkInv
<1>3. /\ top = s[Len(s)] /\ top \in Frames /\ FrameOk(top, {})
      /\ s \in Seq(Frames) /\ Len(s) \in Nat /\ Len(s) \in 1..Len(s)
    BY <1>1, <1>2, TopFrame
<1>4. child \in top.todo
    BY <1>1
<1>5. s2 = [s EXCEPT ![Len(s)].todo = @ \ {child}]
    <2> HIDE DEF child
    <2> QED
        BY <1>3
<1>6. \/ /\ walk' = [walk EXCEPT !.stack = Append(s2, Frame(child))]
         /\ del' = del /\ pc' = pc
      \/ Matches(Filter, child) /\ Yield(s2, child)
      \/ walk' = [walk EXCEPT !.stack = s2] /\ del' = del /\ pc' = pc
    <2> HIDE DEF s2
    <2> QED
        BY <1>5 DEF WalkVisit
<1> HIDE DEF child
<1>7. /\ f \in Frames /\ f.path = top.path /\ FrameOk(f, {child})
      /\ child \in Path /\ Len(child) = Len(top.path) + 1 /\ IsPrefix(top.path, child)
    BY <1>3, <1>4, FrameVisits
<1>8. IsPrefix(LockRoot, child) /\ command.kind # "create" /\ command \in Commands
    <2>1. command \in Commands /\ command.kind # "create"
        BY <1>1, WalkHasFilter
    <2>2. LockRoot \in Path /\ top.path \in Path /\ IsPrefix(LockRoot, top.path)
        BY <1>3, <2>1, LockRootFacts DEF Frames
    <2> QED
        BY <1>7, <2>1, <2>2, PrefixOrder
<1>9. FrameOk(f, {})
    BY <1>7, FrameLeft
<1> DEFINE path == top.path
<1>10. path = s[Len(s)].path /\ f.path = path
    BY <1>3, <1>7
<1> HIDE DEF f, path
<1>11. /\ s2 \in Seq(Frames) /\ Len(s2) = Len(s) /\ s2[Len(s2)] = f /\ s2 # <<>>
       /\ StackOk(s2)
    BY <1>1, <1>2, <1>7, <1>9, <1>10, SetTop
<1>12. CASE /\ walk' = [walk EXCEPT !.stack = Append(s2, Frame(child))]
            /\ del' = del /\ pc' = pc
    <2> DEFINE g == Frame(child)
               s3 == Append(s2, g)
    <2>1. g \in Frames /\ FrameOk(g, {}) /\ g.path = child
        BY <1>7, <1>8, NewFrame
    <2> HIDE DEF g
    <2>2. StackOk(s3)
        BY <1>1, <1>2, <1>7, <1>10, <2>1, PushFrame
    <2>3. walk' = [walk EXCEPT !.stack = s3]
        BY <1>12 DEF g
    <2> HIDE DEF s3, s2
    <2>4. walk' = [stack |-> s3, queue |-> walk.queue, found |-> walk.found]
        BY <2>3 DEF CleanInv, WalkInv
    <2> QED
        BY <1>1, <1>2, <1>12, <2>2, <2>4, Walks
<1>13. CASE walk' = [walk EXCEPT !.stack = s2] /\ del' = del /\ pc' = pc
    <2> HIDE DEF s2
    <2>1. walk' = [stack |-> s2, queue |-> walk.queue, found |-> walk.found]
        BY <1>13 DEF CleanInv, WalkInv
    <2> QED
        BY <1>1, <1>2, <1>11, <1>13, <2>1, Walks
<1>14. CASE Matches(Filter, child) /\ Yield(s2, child)
    <2>1. MayGo(child) /\ Len(child) <= Len(LockRoot) + 4
        BY <1>1, <1>7, <1>8, <1>14, MatchGoes
    <2> DEFINE g == [f EXCEPT !.matched = f.matched + 1]
               up == [s2 EXCEPT ![Len(s2)] = g]
    <2>2. g \in Frames /\ g.path = f.path /\ FrameOk(g, {})
        BY <1>7, <2>1, FrameCounts
    <2>3. up = [s2 EXCEPT ![Len(s2)].matched = @ + 1]
        <3> HIDE DEF s2
        <3> QED
            BY <1>11
    <2>4. g.path = s2[Len(s2)].path
        BY <1>11, <2>2
    <2> HIDE DEF g, s2
    <2>5. StackOk(up)
        BY <1>11, <2>2, <2>4, SetTop
    <2>6. StackOk([s2 EXCEPT ![Len(s2)].matched = @ + 1])
        BY <2>3, <2>5
    <2> QED
        BY <1>1, <1>7, <1>14, <2>1, <2>6, Yields
<1> QED
    BY <1>6, <1>12, <1>13, <1>14

\* A directory is left: it is yielded when all its children were.
LEMMA WalkLeaveKeeps == CleanInv /\ WalkLeave => CleanInv'
<1> SUFFICES ASSUME CleanInv, WalkLeave PROVE CleanInv'
    OBVIOUS
<1> DEFINE s == walk.stack
           top == Last(s)
           rest == Front(s)
<1>1. /\ pc = "walk" /\ s # <<>>
      /\ UNCHANGED <<tree, fresh, command, inspector, objects, tasks, ddl, whose, env>>
      /\ \/ AllMatched(top) /\ Yield(rest, top.path)
         \/ walk' = [walk EXCEPT !.stack = rest] /\ del' = del /\ pc' = pc
    BY DEF WalkLeave
<1>2. StackOk(s) /\ walk.found \subseteq Going /\ IsFiniteSet(walk.found)
    BY DEF CleanInv, WalkInv
<1>3. /\ top = s[Len(s)] /\ top \in Frames /\ FrameOk(top, {})
      /\ s \in Seq(Frames) /\ Len(s) \in Nat /\ Len(s) \in 1..Len(s)
    BY <1>1, <1>2, TopFrame
<1>4. /\ StackOk(rest) /\ Len(rest) = Len(s) - 1
      /\ rest # <<>> =>
            rest[Len(s) - 1] \in Frames /\ FrameOk(rest[Len(s) - 1], {s[Len(s)].path})
    BY <1>1, <1>2, PopFrame
<1>5. CASE walk' = [walk EXCEPT !.stack = rest] /\ del' = del /\ pc' = pc
    <2> HIDE DEF rest
    <2>1. walk' = [stack |-> rest, queue |-> walk.queue, found |-> walk.found]
        BY <1>5 DEF CleanInv, WalkInv
    <2> QED
        BY <1>1, <1>2, <1>4, <1>5, <2>1, Walks
<1>6. CASE AllMatched(top) /\ Yield(rest, top.path)
    <2> DEFINE p == top.path
    <2>1. command \in Commands /\ command.kind \in LockKinds
        BY <1>1, WalkHasFilter
    <2>2. top.total > 0 /\ top.matched = top.total /\ p # LockRoot
        BY <1>6 DEF AllMatched
    <2>3. /\ \A c \in Children(InitTree, p) : MayGo(c)
          /\ Len(p) <= Len(LockRoot) + 3
        BY <1>3, <2>1, <2>2, FrameFull
    <2>4. p \in Path /\ IsStrictPrefix(LockRoot, p)
        BY <1>3, <2>2 DEF Frames, IsStrictPrefix
    <2>5. Yield(rest, p) /\ p = s[Len(s)].path
        BY <1>3, <1>6
    <2> HIDE DEF p, top
    <2>6. MayGo(p)
        BY <2>1, <2>3, <2>4, DirGo
    <2>7. rest # <<>>
        <3>1. s[1].path = LockRoot
            BY <1>1, <1>2 DEF StackOk
        <3>2. Len(s) # 1
            BY <2>2, <2>5, <3>1
        <3>3. Len(rest) # 0
            BY <1>3, <1>4, <3>2
        <3> QED
            BY <3>3, EmptySeq
    <2> DEFINE up == rest[Len(rest)]
               g == [up EXCEPT !.matched = up.matched + 1]
               s2 == [rest EXCEPT ![Len(rest)] = g]
    <2>8. up \in Frames /\ FrameOk(up, {p})
        BY <1>4, <2>5, <2>7
    <2>9. Len(p) <= Len(LockRoot) + 4
        <3>1. Len(p) \in Nat /\ Len(LockRoot) \in Nat
            BY <2>1, <2>4, PathFacts, LockRootFacts
        <3> HIDE DEF up
        <3> QED
            BY <2>3, <3>1
    <2>10. g \in Frames /\ g.path = up.path /\ FrameOk(g, {})
        <3> HIDE DEF up
        <3> QED
            BY <2>6, <2>8, <2>9, FrameCounts
    <2>11. s2 = [rest EXCEPT ![Len(rest)].matched = @ + 1]
        <3> HIDE DEF rest
        <3> QED
            OBVIOUS
    <2>12. g.path = rest[Len(rest)].path
        BY <2>10
    <2> HIDE DEF g, rest
    <2>13. StackOk(s2)
        BY <1>4, <2>7, <2>10, <2>12, SetTop
    <2>14. StackOk([rest EXCEPT ![Len(rest)].matched = @ + 1])
        BY <2>11, <2>13
    <2> QED
        BY <1>1, <2>4, <2>5, <2>6, <2>14, Yields
<1> QED
    BY <1>1, <1>5, <1>6

\* A batch is deleted.
LEMMA WalkDeletedKeeps == CleanInv /\ WalkDeleted => CleanInv'
<1> SUFFICES ASSUME CleanInv, WalkDeleted PROVE CleanInv'
    OBVIOUS
<1>1. /\ pc = "walk_delete" /\ del' = NoDelete /\ pc' = "walk" /\ walk' = walk /\ whose' = whose
      /\ command' = command /\ env' = env
      /\ UNCHANGED <<tree, command, inspector, objects, tasks, ddl, env>>
    BY DEF WalkDeleted
<1>2. HostLeft /\ (Filter.replica # "" \/ Filter.prefix # "")
    BY <1>1, WalkHasFilter
<1>3. pc \in WalkPcs /\ pc' \notin DeletePcs /\ pc' # "find"
    BY <1>1 DEF WalkPcs, DeletePcs
<1>4. DelInv' /\ WhoseInv'
    BY <1>1, <1>2, <1>3, EndsDel, WalkWhose
<1>5. WalkInv'
    BY <1>1, <1>3, KeepsWalk
<1> QED
    BY <1>1, <1>3, <1>4, <1>5, LocksKeep

\* The walk ends with its last batch.
LEMMA WalkEndsKeeps == CleanInv /\ WalkEnds => CleanInv'
<1> SUFFICES ASSUME CleanInv, WalkEnds PROVE CleanInv'
    OBVIOUS
<1>1. /\ pc = "walk" /\ del' \in StartedDelete(walk.found) /\ pc' = "delete" /\ walk' = NoWalk
      /\ whose' = whose /\ command' = command /\ env' = env
      /\ UNCHANGED <<tree, command, inspector, objects, tasks, ddl, env>>
    BY DEF WalkEnds
<1>2. walk.found \in SUBSET Going /\ IsFiniteSet(walk.found)
    BY DEF CleanInv, WalkInv
<1>3. pc \in WalkPcs /\ pc' \in DeletePcs /\ pc' # "find"
    BY <1>1 DEF WalkPcs, DeletePcs
<1>4. DelInv' /\ WhoseInv'
    BY <1>1, <1>2, <1>3, StartsDel, WalkWhose
<1>5. WalkInv'
    <2>1. {} \in SUBSET Going /\ IsFiniteSet({}) /\ StackOk(<<>>)
        BY FS_EmptySet, FirstStacks
    <2>2. walk' = [stack |-> <<>>, queue |-> <<>>, found |-> {}]
        BY <1>1 DEF NoWalk
    <2> QED
        BY <1>1, <1>3, <2>1, <2>2, NewWalk
<1> QED
    BY <1>1, <1>3, <1>4, <1>5, LocksKeep

---------------------------------------------------------------------------
(* The directories of one part *)

\* The paths found are directories of the part, and may go.
LEMMA FindPathsKeeps == CleanInv /\ FindPaths => CleanInv'
<1> SUFFICES ASSUME CleanInv, FindPaths PROVE CleanInv'
    OBVIOUS
<1> DEFINE Q == {q \in Path : IsPrefix(LockRoot, q)}
           p == Head(walk.queue)
           below == Children(tree, p)
           match == {c \in below : /\ Len(c) = Len(LockRoot) + 2
                                   /\ c[Len(c) - 1] = Filter.table
                                   /\ Starts(Filter.part, Last(c))}
           others == below \ match
           queue == Tail(walk.queue) \o SetToSeq(others)
           found == walk.found \cup match
<1>1. /\ pc = "find" /\ walk.queue # <<>> /\ pc' = pc /\ del' = del /\ tree' = tree
      /\ whose' = whose /\ command' = command /\ env' = env
      /\ UNCHANGED <<tree, command, inspector, objects, tasks, ddl, env>>
      /\ walk' = [walk EXCEPT !.queue = queue, !.found = found]
    BY DEF FindPaths, treeVars
<1>2. /\ command \in Commands /\ command.kind \in LockKinds /\ command.kind # "create"
      /\ Filter.replica = "" /\ Filter.prefix = "" /\ Filter.part # "" /\ HostLeft
    BY <1>1 DEF CleanInv, Control, WhoseInv, LockKinds, HostLeft
<1>3. /\ walk = [stack |-> walk.stack, queue |-> walk.queue, found |-> walk.found]
      /\ StackOk(walk.stack) /\ walk.queue \in Seq(Q)
      /\ walk.found \subseteq Going /\ IsFiniteSet(walk.found)
      /\ RaceFree(command) => walk.found \subseteq PartDirs
    BY <1>1 DEF CleanInv, WalkInv
<1>4. p \in Q /\ Tail(walk.queue) \in Seq(Q)
    BY <1>1, <1>3, HeadTailProperties
<1> HIDE DEF p
<1>5. tree \in SUBSET Path /\ IsFiniteSet(tree) /\ LockRoot \in Path /\ Len(LockRoot) \in Nat
    BY <1>2, LockRootFacts DEF CleanInv, TreeInv, TreeShape
<1>6. below \in SUBSET Q /\ below \subseteq tree /\ IsFiniteSet(below)
    <2>1. /\ below \subseteq tree /\ IsFiniteSet(below)
          /\ \A c \in below : c \in Path /\ IsPrefix(p, c)
        BY <1>5, ChildrenFacts
    <2> HIDE DEF below
    <2> QED
        BY <1>4, <1>5, <2>1, PrefixOrder
<1> HIDE DEF below
<1>7. /\ match \subseteq Going /\ match \subseteq PartDirs /\ IsFiniteSet(match)
      /\ others \in SUBSET Q /\ IsFiniteSet(others)
    <2>1. ASSUME NEW c \in match PROVE c \in Going /\ c \in PartDirs
        <3>1. /\ c \in Path /\ IsPrefix(LockRoot, c) /\ c \in tree
              /\ Len(c) = Len(LockRoot) + 2 /\ c[Len(c) - 1] = Filter.table
              /\ Starts(Filter.part, Last(c))
            BY <1>6
        <3>2. MayGo(c)
            BY <1>1, <3>1, PartGoes
        <3>3. c[Len(LockRoot) + 1] = Filter.table
            <4>1. Len(c) - 1 = Len(LockRoot) + 1
                BY <1>5, <3>1
            <4> QED
                BY <3>1, <4>1
        <3> QED
            BY <3>1, <3>2, <3>3 DEF Going, PartDirs
    <2>2. IsFiniteSet(match) /\ IsFiniteSet(others)
        BY <1>6, FS_Subset
    <2> QED
        BY <1>6, <2>1, <2>2
<1> HIDE DEF match, others
<1>8. queue \in Seq(Q)
    <2>1. SetToSeq(others) \in Seq(Q)
        BY <1>7, SetToSeqIn
    <2> QED
        BY <1>4, <2>1, ConcatProperties
<1>9. found \subseteq Going /\ IsFiniteSet(found) /\ (RaceFree(command) => found \subseteq PartDirs)
    BY <1>3, <1>7, FS_Union
<1> HIDE DEF queue, found
<1>10. walk' = [stack |-> walk.stack, queue |-> queue, found |-> found]
    BY <1>1, <1>3
<1>11. WalkInv'
    <2>1. LockRoot' = LockRoot /\ Going' = Going /\ Filter' = Filter
        BY <1>1, SameNames, SameSets DEF Filter
    <2>2. PartDirs' = PartDirs
        BY <1>1, <2>1 DEF PartDirs
    <2> DEFINE s == walk.stack
               t == walk'.stack
    <2>3. StackOk(s)' /\ t = s
        <3> HIDE DEF s
        <3>1. StackOk(s)
            BY <1>3 DEF s
        <3>2. t = s
            BY <1>10 DEF s
        <3>3. s' = s
            BY <1>10 DEF s
        <3> QED
            BY <1>1, <3>1, <3>2, <3>3, SameStack
    <2>5. StackOk(walk.stack)'
        BY <2>3 DEF StackOk, FrameOk, Busy
    <2>6. /\ walk' = [stack |-> walk'.stack, queue |-> walk'.queue, found |-> walk'.found]
          /\ walk'.queue = queue /\ walk'.found = found
        BY <1>10
    <2> QED
        BY <1>8, <1>9, <1>1, <2>1, <2>2, <2>5, <2>6 DEF WalkInv
<1>12. pc \in WalkPcs /\ pc \notin DeletePcs /\ pc' \notin DeletePcs
    BY <1>1 DEF WalkPcs, DeletePcs
<1>13. env.dropped \subseteq env.dropped'
    BY <1>1
<1>14. DelInv' /\ WhoseInv'
    BY <1>1, <1>2, <1>12, <1>13, KeepsDel, WalkWhose
<1> QED
    BY <1>1, <1>11, <1>12, <1>14, LocksKeep

\* When the only directory in the table is one of the part, the table may go.
LEMMA OnlyPart ==
    ASSUME CleanInv, pc = "find", walk.found # {},
           NEW table, table = Append(LockRoot, Filter.table), Cardinality(Children(tree, table)) = 1
    PROVE  table \in Path /\ MayGo(table)
<1>1. command \in Commands /\ command.kind \in LockKinds /\ TreeShape(tree)
    BY DEF CleanInv, Control, TreeInv, LockKinds
<1>2. LockRoot \in Path /\ Len(LockRoot) \in Nat
    BY <1>1, LockRootFacts
<1>3. /\ table \in Path /\ Len(table) = Len(LockRoot) + 1 /\ IsStrictPrefix(LockRoot, table)
      /\ IsPrefix(LockRoot, table) /\ table[Len(LockRoot) + 1] = Filter.table
      /\ \A i \in 1..Len(LockRoot) : table[i] = LockRoot[i]
    BY <1>2, FilterTable, AppendFacts
<1> SUFFICES ASSUME RaceFree(command), ~MayGo(LockRoot), ~MayGo(table) PROVE FALSE
    <2>1. MayGo(LockRoot) => MayGo(table)
        BY <1>2, <1>3, GoDown
    <2>2. ~RaceFree(command) => MayGo(table)
        BY DEF MayGo
    <2> QED
        BY <1>3, <2>1, <2>2
<1>4. PICK c \in walk.found : TRUE
    OBVIOUS
<1>5. c \in Going /\ c \in PartDirs /\ c \in Path
    BY <1>4 DEF CleanInv, WalkInv, Going
<1>6. c \in Children(tree, table)
    <2>1. c \in tree /\ Len(c) = Len(LockRoot) + 2 /\ IsPrefix(LockRoot, c)
          /\ c[Len(LockRoot) + 1] = Filter.table
        BY <1>5 DEF PartDirs
    <2>2. \A i \in 1..Len(LockRoot) : LockRoot[i] = c[i]
        BY <1>2, <1>5, <2>1, PrefixIs
    <2>3. \A i \in 1..Len(table) : table[i] = c[i]
        <3> TAKE i \in 1..Len(table)
        <3>1. i = Len(LockRoot) + 1 \/ i \in 1..Len(LockRoot)
            BY <1>2, <1>3
        <3> QED
            BY <1>3, <2>1, <2>2, <3>1
    <2>4. Len(table) <= Len(c) /\ Len(c) = Len(table) + 1
        BY <1>2, <1>3, <2>1
    <2>5. IsPrefix(table, c)
        BY <1>3, <1>5, <2>3, <2>4, PrefixIs
    <2> QED
        BY <2>1, <2>4, <2>5 DEF Children
<1>7. Children(tree, table) = {c}
    <2> DEFINE kids == Children(tree, table)
    <2>1. IsFiniteSet(kids)
        BY <1>1, ChildrenFacts DEF TreeShape
    <2> HIDE DEF kids
    <2>2. Cardinality(kids) = 1 /\ c \in kids
        BY <1>6 DEF kids
    <2>3. PICK x : kids = {x}
        BY <2>1, <2>2, FS_Singleton
    <2> QED
        BY <2>2, <2>3 DEF kids
<1>8. ASSUME NEW l \in InitTree \ env.dropped, IsLock(l), IsPrefix(table, l) \/ IsPrefix(l, table)
      PROVE  \E f \in Filters : LockMatched(f, l)
    <2>1. l \in Path /\ Len(l) = Len(LockRoot) + 4 /\ IsPrefix(LockRoot, l)
        BY <1>8, InitTreeFacts DEF IsLock
    <2>2. Len(table) < Len(l)
        BY <1>2, <1>3, <2>1
    <2>3. IsPrefix(table, l)
        <3>1. IsPrefix(l, table) => Len(l) <= Len(table)
            BY <1>3, <2>1, PrefixOrder
        <3>2. Len(l) \in Nat /\ Len(table) \in Nat
            BY <1>2, <1>3, <2>1
        <3> QED
            BY <1>8, <2>2, <3>1, <3>2
    <2>4. CASE l \in tree
        <3>1. tree \in SUBSET Path /\ PrefixClosed(tree)
            BY <1>1 DEF TreeShape
        <3>2. \E d \in Children(tree, table) : IsPrefix(d, l)
            BY <1>3, <2>2, <2>3, <2>4, <3>1, ChildOnTheWay
        <3>3. IsPrefix(c, l)
            BY <1>7, <3>2
        <3> QED
            BY <1>1, <1>5, <1>8, <3>3, LockBelow DEF Going
    <2>5. CASE l \notin tree
        <3>1. MatchedFor(l, env.dropped)
            BY <1>8, <2>5 DEF CleanInv, LostInv
        <3>2. LocksMatched(l, env.dropped)
            BY <1>1, <1>8, <2>1, <3>1, AskedOutside
        <3>3. IsPrefix(l, l)
            BY <2>1, PrefixOrder
        <3> QED
            BY <1>8, <3>2, <3>3 DEF LocksMatched
    <2> QED
        BY <2>4, <2>5
<1>9. MayGo(table)
    BY <1>1, <1>3, <1>8, LocksGo
<1> QED
    BY <1>9

\* The directories found are deleted, or that of the table.
LEMMA PathsFoundKeeps == CleanInv /\ PathsFound => CleanInv'
<1> SUFFICES ASSUME CleanInv, PathsFound PROVE CleanInv'
    OBVIOUS
<1> DEFINE table == Append(LockRoot, Filter.table)
           paths == IF Cardinality(Children(tree, table)) = 1 THEN {table} ELSE walk.found
<1>1. /\ pc = "find" /\ whose' = whose /\ command' = command /\ env' = env /\ walk' = walk
      /\ UNCHANGED <<tree, command, inspector, objects, tasks, ddl, env>>
      /\ \/ pc' = "ended" /\ del' = del
         \/ walk.found # {} /\ del' \in StartedDelete(paths) /\ pc' = "delete"
    BY DEF PathsFound
<1>2. walk.found # {} => paths \in SUBSET Going /\ IsFiniteSet(paths)
    <2>1. walk.found \subseteq Going /\ IsFiniteSet(walk.found)
        BY DEF CleanInv, WalkInv
    <2>2. walk.found # {} /\ Cardinality(Children(tree, table)) = 1 => table \in Going
        BY <1>1, OnlyPart DEF Going
    <2> HIDE DEF table
    <2> QED
        BY <2>1, <2>2, FS_Singleton
<1> HIDE DEF paths
<1>3. pc \in WalkPcs /\ pc \notin DeletePcs /\ pc' # "find"
    BY <1>1 DEF WalkPcs, DeletePcs
<1>4. env.dropped \subseteq env.dropped'
    BY <1>1
<1>5. WhoseInv' /\ WalkInv'
    BY <1>1, <1>3, <1>4, WalkWhose, KeepsWalk
<1>6. DelInv'
    <2>1. CASE pc' = "ended" /\ del' = del
        <3>1. pc' \notin DeletePcs
            BY <2>1 DEF DeletePcs
        <3> QED
            BY <1>1, <1>3, <1>4, <2>1, <3>1, KeepsDel
    <2>2. CASE walk.found # {} /\ del' \in StartedDelete(paths) /\ pc' = "delete"
        <3>1. pc' \in DeletePcs
            BY <2>2 DEF DeletePcs
        <3> QED
            BY <1>1, <1>2, <2>2, <3>1, StartsDel
    <2> QED
        BY <1>1, <2>1, <2>2
<1> QED
    BY <1>1, <1>3, <1>5, <1>6, LocksKeep

\* The deletion is done, for the command or for the host at hand.
LEMMA DeletedKeeps == CleanInv /\ Deleted => CleanInv'
<1> SUFFICES ASSUME CleanInv, Deleted PROVE CleanInv'
    OBVIOUS
<1> DEFINE hosts == IF whose.hosts = <<>> THEN whose.hosts ELSE Tail(whose.hosts)
<1>1. /\ pc = "delete" /\ del' = NoDelete /\ command' = command /\ env' = env /\ walk' = walk
      /\ UNCHANGED <<tree, command, inspector, objects, tasks, ddl, env>>
      /\ pc' = IF command.kind \in {"hosts", "table_hosts"} THEN "locks" ELSE "ended"
      /\ whose' = IF whose.hosts = <<>> THEN whose ELSE [whose EXCEPT !.hosts = Tail(@)]
    BY DEF Deleted
<1>2. /\ whose = [hosts |-> whose.hosts, table |-> whose.table]
      /\ whose.hosts \in Seq(Removed) /\ whose.table \in Label
    BY DEF CleanInv, WhoseInv
<1>3. whose' = [hosts |-> hosts, table |-> whose.table]
    BY <1>1, <1>2
<1>4. hosts \in Seq(Removed)
    BY <1>2, HeadTailProperties
<1> HIDE DEF hosts
<1>5. WhoseInv'
    <2>1. Removed' = Removed
        BY <1>1, SameNames
    <2>2. /\ whose' = [hosts |-> whose'.hosts, table |-> whose'.table]
          /\ whose'.hosts \in Seq(Removed) /\ whose'.table \in Label
        BY <1>2, <1>3, <1>4
    <2>3. \/ pc' = "locks" /\ command.kind \notin {"locks", "drop"}
          \/ pc' = "ended"
        BY <1>1
    <2> QED
        BY <1>1, <2>1, <2>2, <2>3 DEF WhoseInv
<1>6. /\ pc' \notin DeletePcs /\ pc' # "find"
      /\ pc' = "ended" \/ (pc' = "locks" /\ command.kind \in HostKinds)
    BY <1>1 DEF DeletePcs, HostKinds
<1>7. env.dropped \subseteq env.dropped' /\ pc' \notin {"walk", "walk_delete", "find"}
    BY <1>1
<1>8. DelInv' /\ WalkInv'
    BY <1>1, <1>6, <1>7, EndsDel, KeepsWalk
<1> QED
    BY <1>1, <1>5, <1>6, <1>7, <1>8, LocksKeep

---------------------------------------------------------------------------
(* The command line *)

\* A step that leaves everything alone but the program counter keeps all but it.
LEMMA Ends ==
    ASSUME CleanInv, UNCHANGED <<tree, command, inspector, objects, tasks, ddl, walk, whose, env>>,
           pc' \in {"ended", "failed"},
           \/ del' = NoDelete
           \/ del' = del /\ pc \notin DeletePcs
    PROVE  CleanInv'
<1>1. TreeInv' /\ LostInv' /\ env.dropped \subseteq env.dropped'
    BY Quiet
<1>2. pc' \notin DeletePcs /\ pc' \notin LockPcs /\ pc' # "find" /\ pc' # "ddl_mark"
    BY DEF DeletePcs, LockPcs
<1>3. Control'
    BY DEF CleanInv, Control
<1>4. DelInv'
    <2>1. CASE del' = NoDelete
        BY <1>2, <2>1, EndsDel
    <2>2. CASE del' = del /\ pc \notin DeletePcs
        BY <1>1, <1>2, <2>2, KeepsDel
    <2> QED
        BY <2>1, <2>2
<1>5. InspectorInv' /\ TasksInv' /\ DdlInv' /\ WhoseInv' /\ WalkInv'
    BY <1>1, <1>2, KeepsInspector, KeepsDdl, KeepsWhose, KeepsWalk
<1> QED
    BY <1>1, <1>3, <1>4, <1>5 DEF CleanInv

\* The command fails at any point.
LEMMA CommandFailsKeeps == CleanInv /\ CommandFails => CleanInv'
BY Ends DEF CommandFails

\* The state a command starts in, also when it is run again.
Starting ==
    /\ command \in Commands /\ pc = StartPc(command)
    /\ del \in Begun(command).del /\ inspector = Begun(command).inspector
    /\ objects = <<>> /\ tasks = [r \in {} |-> ""] /\ ddl = NoDdl /\ walk = NoWalk
    /\ whose = Begun(command).whose

\* Where a command starts.
LEMMA StartFacts ==
    ASSUME command \in Commands
    PROVE  /\ command.kind = "delete" => StartPc(command) = "delete"
           /\ command.kind = "locks" => StartPc(command) = "locks"
           /\ command.kind = "create" => StartPc(command) = "create"
           /\ command.kind = "drop" => StartPc(command) = "replica"
           /\ command.kind \in HostKinds => StartPc(command) = "inspect"
           /\ command.kind \in {"delete", "locks", "create", "drop"} \cup HostKinds
<1>1. command.kind \in {"delete", "locks", "create", "drop"} \cup HostKinds
    BY CommandFacts DEF HostKinds
<1>2. command.kind = "delete" => StartPc(command) = "delete"
    BY DEF StartPc
<1>3. command.kind = "locks" => StartPc(command) = "locks"
    BY DEF StartPc
<1>4. command.kind = "create" => StartPc(command) = "create"
    BY DEF StartPc
<1>5. command.kind = "drop" => StartPc(command) = "replica"
    BY DEF StartPc
<1>6. command.kind \in HostKinds => StartPc(command) = "inspect"
    BY DEF StartPc, HostKinds
<1> QED
    BY <1>1, <1>2, <1>3, <1>4, <1>5, <1>6

\* The traversal starts at the root of the command.
LEMMA RootReached == command \in Commands => command.root \in Reached
<1> SUFFICES ASSUME command \in Commands PROVE command.root \in Reached
    OBVIOUS
<1> DEFINE p == command.root
<1>1. p \in Path /\ Len(p) \in Nat
    BY CommandFacts, PathFacts
<1> HIDE DEF p
<1>2. IsPrefix(p, p)
    BY <1>1, PrefixOrder
<1>3. ASSUME NEW o \in Objects, IsStrictPrefix(o, p), IsPrefix(p, o) PROVE FALSE
    <2>1. o \in Path /\ Len(o) \in Nat
        BY ObjectFacts, PathFacts
    <2>2. Len(o) < Len(p) /\ Len(p) <= Len(o)
        BY <1>1, <1>3, <2>1, PrefixOrder
    <2> QED
        BY <1>1, <2>1, <2>2
<1>4. Scoped(p)
    BY <1>2, <1>3 DEF Scoped, p
<1> QED
    BY <1>1, <1>4 DEF Reached, p

\* A command starts in the invariant.
LEMMA StartHolds ==
    Starting => /\ DelInv /\ InspectorInv /\ TasksInv /\ DdlInv /\ WhoseInv /\ WalkInv
             /\ pc \in {"inspect", "locks", "delete", "create", "replica"}
             /\ (command.kind = "create" <=> pc = "create")
             /\ (pc = "inspect" => command.kind \in HostKinds)
             /\ (pc = "replica" => command.kind = "drop")
             /\ (pc = "locks" => command.kind = "locks")
<1> SUFFICES ASSUME Starting
             PROVE  /\ DelInv /\ InspectorInv /\ TasksInv /\ DdlInv /\ WhoseInv /\ WalkInv
                    /\ pc \in {"inspect", "locks", "delete", "create", "replica"}
                    /\ (command.kind = "create" <=> pc = "create")
                    /\ (pc = "inspect" => command.kind \in HostKinds)
                    /\ (pc = "replica" => command.kind = "drop")
                    /\ (pc = "locks" => command.kind = "locks")
    OBVIOUS
<1>1. command \in Commands /\ pc = StartPc(command)
    BY DEF Starting
<1>2. /\ pc \in {"inspect", "locks", "delete", "create", "replica"}
      /\ (command.kind = "create" <=> pc = "create")
      /\ (command.kind = "delete" <=> pc = "delete")
      /\ (pc = "inspect" => command.kind \in HostKinds)
      /\ (pc = "replica" => command.kind = "drop")
      /\ (pc = "locks" => command.kind = "locks")
    BY <1>1, StartFacts DEF HostKinds
<1>3. DelInv
    <2>1. CASE command.kind = "delete"
        <3>1. del \in StartedDelete(command.paths)
            BY <2>1 DEF Starting, Begun
        <3>2. command.paths \subseteq Path /\ IsFiniteSet(command.paths)
            BY <1>1, CommandFacts
        <3>3. \A p \in command.paths : MayGo(p)
            BY <2>1 DEF MayGo, MatchedFor
        <3>4. command.paths \in SUBSET Going
            BY <3>2, <3>3 DEF Going
        <3>5. DelShape(del, Going) /\ del.phase # "none"
            BY <3>1, <3>2, <3>4, StartedFacts
        <3> QED
            BY <1>2, <2>1, <3>5 DEF DelInv
    <2>2. CASE command.kind # "delete"
        <3>1. del = NoDelete
            BY <2>2 DEF Starting, Begun
        <3> QED
            BY <1>2, <2>2, <3>1, NoDeleteFacts DEF DelInv
    <2> QED
        BY <2>1, <2>2
<1>4. InspectorInv
    <2>1. Queues(inspector, Reached, Requests, Answers)
        <3> DEFINE s == <<command.root>>
        <3>1. s \in Seq(Reached)
            BY <1>1, RootReached
        <3> HIDE DEF s
        <3>2. Queues(InspectorAdd(NoInspector, s), Reached, Requests, Answers)
            BY <3>1, RequestFacts, UpdateQueuesKeeps
        <3>3. inspector = InspectorAdd(NoInspector, s) \/ inspector = NoInspector
            BY DEF Starting, Begun, s
        <3> QED
            BY <3>2, <3>3, RequestFacts
    <2>2. objects \in Seq(Reached)
        BY EmptySeq DEF Starting
    <2> QED
        BY <2>1, <2>2 DEF InspectorInv, Queues
<1>5. TasksInv
    BY DEF Starting, TasksInv
<1>6. DdlInv
    <2>1. <<>> \in Path /\ <<>> \in Seq(STRING) /\ <<>> \in Seq(Going) /\ 0 \in 0..MaxPolls
          /\ <<>> \in Seq(DOMAIN DdlHosts)
        BY EmptySeq, LimitsAssumption DEF Path
    <2>2. ddl = [queue |-> <<>>, todo |-> <<>>, task |-> <<>>, remove |-> <<>>, polls |-> 0]
        BY DEF Starting, NoDdl
    <2>3. /\ ddl \in [queue : Seq(DOMAIN DdlHosts), todo : Seq(STRING), task : Path,
                       remove : Seq(Going), polls : 0..MaxPolls]
          /\ ddl.todo = <<>>
        BY <2>1, <2>2
    <2> QED
        BY <1>2, <2>3 DEF DdlInv
<1>7. WhoseInv
    <2>1. whose = [hosts |-> command.hosts, table |-> command.table]
        BY DEF Starting, Begun
    <2>2. command.hosts \in Seq(Removed) /\ command.table \in Label
        BY <1>1, CommandFacts, LabelFacts
    <2>3. whose.hosts = command.hosts /\ whose.table = command.table
        BY <2>1
    <2>4. pc = "locks" => command.table = AskedTable
        BY <1>2 DEF AskedTable
    <2> QED
        BY <1>2, <2>1, <2>2, <2>3, <2>4 DEF WhoseInv
<1>8. WalkInv
    <2>1. walk = [stack |-> <<>>, queue |-> <<>>, found |-> {}]
        BY DEF Starting, NoWalk
    <2>2. StackOk(<<>>) /\ IsFiniteSet({}) /\ <<>> \in Seq({p \in Path : IsPrefix(LockRoot, p)})
        BY FirstStacks, FS_EmptySet, EmptySeq
    <2>3. walk.stack = <<>> /\ walk.queue = <<>> /\ walk.found = {}
        BY <2>1
    <2>4. StackOk(walk.stack)
        BY <2>2, <2>3
    <2> QED
        BY <1>2, <2>1, <2>2, <2>3, <2>4 DEF WalkInv
<1> QED
    BY <1>2, <1>3, <1>4, <1>5, <1>6, <1>7, <1>8

\* The command is run again.
LEMMA RerunKeeps == CleanInv /\ Rerun => CleanInv'
<1> SUFFICES ASSUME CleanInv, Rerun PROVE CleanInv'
    OBVIOUS
<1>1. /\ tree' = tree /\ command' = command /\ pc = "failed"
      /\ env' = [env EXCEPT !.runs = env.runs + 1]
    BY DEF Rerun
<1>2. env = [steps |-> env.steps, runs |-> env.runs, dropped |-> env.dropped]
    BY DEF CleanInv, Control
<1>3. /\ env' = [steps |-> env'.steps, runs |-> env'.runs, dropped |-> env'.dropped]
      /\ env'.dropped = env.dropped
    BY <1>1, <1>2
<1>4. TreeInv' /\ LostInv'
    BY <1>1, <1>3, KeepsTree
<1>5. Starting'
    BY <1>1 DEF Rerun, Starting, CleanInv, Control
<1>6. (Starting => /\ DelInv /\ InspectorInv /\ TasksInv /\ DdlInv /\ WhoseInv /\ WalkInv
                /\ pc \in {"inspect", "locks", "delete", "create", "replica"}
                /\ (command.kind = "create" <=> pc = "create")
                /\ (pc = "inspect" => command.kind \in HostKinds)
                /\ (pc = "replica" => command.kind = "drop")
                /\ (pc = "locks" => command.kind = "locks"))'
    BY StartHolds, PTL
<1>7. Control'
    BY <1>1, <1>3, <1>5, <1>6 DEF CleanInv, Control, HostKinds, LockKinds
<1> QED
    BY <1>4, <1>5, <1>6, <1>7 DEF CleanInv

\* The first state.
LEMMA CleanInit == LocksInit => CleanInv
<1> SUFFICES ASSUME LocksInit PROVE CleanInv
    OBVIOUS
<1>1. /\ Starting /\ tree = InitTree /\ env = [steps |-> 0, runs |-> 1, dropped |-> {}]
      /\ command \in Commands
    BY DEF LocksInit, Init, Starting
<1>2. Control
    BY <1>1, StartHolds DEF Control, HostKinds, LockKinds
<1>3. TreeInv
    <2>1. InitTree \subseteq Path /\ IsFiniteSet(InitTree) /\ PrefixClosed(InitTree)
          /\ <<>> \notin InitTree
        BY InitTreeFacts
    <2>2. Children(InitTree, DdlPath) \subseteq DOMAIN DdlHosts
        BY DdlAssumption
    <2> QED
        BY <1>1, <2>1, <2>2 DEF TreeInv, TreeShape
<1>4. LostInv
    BY <1>1 DEF LostInv
<1> QED
    BY <1>1, <1>2, <1>3, <1>4, StartHolds DEF CleanInv

---------------------------------------------------------------------------
(* The servers *)

\* A step of a server leaves the command where it is.
LEMMA ServerKeepsRest ==
    ASSUME CleanInv, env' = [steps |-> env'.steps, runs |-> env'.runs, dropped |-> env'.dropped],
           env.dropped \subseteq env.dropped',
           \A n \in env'.dropped : \E p \in ServerDrops : IsPrefix(p, n),
           UNCHANGED <<del, command, pc, inspector, objects, tasks, ddl, walk, whose>>,
           TreeInv', LostInv',
           RaceFree(command) /\ pc = "find" => PartDirs \subseteq tree'
    PROVE  CleanInv'
<1>1. Control'
    BY DEF CleanInv, Control
<1>2. Filter' = Filter
    BY DEF Filter
<1>3. DelInv' /\ InspectorInv' /\ TasksInv' /\ DdlInv' /\ WhoseInv' /\ WalkInv'
    BY <1>2, KeepsDel, KeepsInspector, KeepsDdl, KeepsWhose, KeepsWalk
<1> QED
    BY <1>1, <1>3 DEF CleanInv

\* A server creates a node with its parents: a lock, or the mark of a finished task.
LEMMA ServerCreatesKeeps ==
    ASSUME CleanInv, command.kind # "create" => TreeShape(tree'), tree \subseteq tree',
           env' = [env EXCEPT !.steps = @ + 1],
           UNCHANGED <<del, command, pc, inspector, objects, tasks, ddl, walk, whose>>
    PROVE  CleanInv'
<1>1. env = [steps |-> env.steps, runs |-> env.runs, dropped |-> env.dropped]
    BY DEF CleanInv, Control
<1>2. /\ env' = [steps |-> env'.steps, runs |-> env'.runs, dropped |-> env'.dropped]
      /\ env'.dropped = env.dropped
    BY <1>1
<1>3. \A n \in env'.dropped : \E p \in ServerDrops : IsPrefix(p, n)
    BY <1>2 DEF CleanInv, Control
<1>4. TreeInv'
    BY DEF TreeInv, TreeShape
<1>5. LostInv' /\ PartDirs \subseteq tree'
    BY <1>2, KeepsTree DEF PartDirs
<1> QED
    BY <1>2, <1>3, <1>4, <1>5, ServerKeepsRest

\* The mark of a finished task needs no new parents.
LEMMA MarkIsOne ==
    ASSUME NEW t, TreeShape(t), NEW q \in DOMAIN DdlHosts, NEW h \in DdlHosts[q],
           Append(q, "finished") \in t
    PROVE  TreeShape(t \cup WithParents(Finished(q, h)))
<1> DEFINE n == Finished(q, h)
<1>1. /\ n \in Path /\ n # <<>> /\ Front(n) = Append(q, "finished") /\ ~HasReplicas(n)
      /\ Len(n) = Len(DdlPath) + 3 /\ Len(DdlPath) \in Nat
    BY FinishedFacts
<1> HIDE DEF n
<1>2. Front(n) \in t /\ Front(n) \in Path /\ Len(n) # Len(DdlPath) + 1
    BY <1>1 DEF TreeShape
<1>3. TreeShape(t \cup {n})
    BY <1>1, <1>2, AddNode
<1>4. ASSUME NEW m \in WithParents(n) PROVE m \in t \cup {n}
    <2>1. m \in Path /\ m # <<>> /\ IsPrefix(m, n) /\ n \in t \cup {n}
        BY <1>1, <1>4, Parents
    <2>2. t \cup {n} \in SUBSET Path /\ PrefixClosed(t \cup {n})
        BY <1>3 DEF TreeShape
    <2> QED
        BY <2>1, <2>2, AboveIsThere
<1>5. n \in WithParents(n)
    BY <1>1, Parents
<1>6. t \cup WithParents(n) = t \cup {n}
    BY <1>4, <1>5
<1> QED
    BY <1>3, <1>6 DEF n

\* A server deletes a subtree: what it takes is no loss of the command.
LEMMA ServerDeletesKeeps ==
    ASSUME CleanInv, NEW p \in ServerDrops, ServerDeletes(p),
           env' = [env EXCEPT !.steps = @ + 1, !.dropped = @ \cup Subtree(tree, p)],
           UNCHANGED <<del, command, pc, inspector, objects, tasks, ddl, walk, whose>>
    PROVE  CleanInv'
<1> DEFINE D == Subtree(tree, p)
<1>1. p \in tree /\ tree' = tree \ D
    BY DEF ServerDeletes
<1>2. \A n \in D : IsPrefix(p, n)
    BY DEF Subtree
<1>3. env = [steps |-> env.steps, runs |-> env.runs, dropped |-> env.dropped]
    BY DEF CleanInv, Control
<1>4. command.kind # "create" =>
          p \in Path /\ tree \in SUBSET Path /\ \A n \in D, m \in tree : IsPrefix(n, m) => m \in D
    <2> SUFFICES ASSUME command.kind # "create"
                 PROVE  /\ p \in Path /\ tree \in SUBSET Path
                        /\ \A n \in D, m \in tree : IsPrefix(n, m) => m \in D
        OBVIOUS
    <2>1. tree \in SUBSET Path /\ p \in Path
        BY <1>1 DEF CleanInv, TreeInv, TreeShape
    <2> QED
        BY <2>1, SubtreeIsUp
<1> HIDE DEF D
<1>5. /\ env' = [steps |-> env'.steps, runs |-> env'.runs, dropped |-> env'.dropped]
      /\ env'.dropped = env.dropped \cup D
    BY <1>3 DEF D
<1>6. \A n \in env'.dropped : \E x \in ServerDrops : IsPrefix(x, n)
    BY <1>2, <1>5 DEF CleanInv, Control
<1>7. TreeInv'
    <2>1. ASSUME command.kind # "create" PROVE TreeShape(tree')
        <3>1. TreeShape(tree)
            BY <2>1 DEF CleanInv, TreeInv
        <3> QED
            BY <1>1, <1>4, <2>1, <3>1, RemoveUp
    <2> QED
        BY <2>1 DEF TreeInv, TreeShape
<1>8. LostInv'
    <2>1. env.dropped \subseteq env.dropped'
        BY <1>5
    <2>2. \A m : MatchedFor(m, env.dropped) => MatchedFor(m, env.dropped)'
        BY <2>1, AskedGrows, SameAsked
    <2> SUFFICES ASSUME NEW n \in (InitTree \ tree') \ env.dropped'
                 PROVE  ~command.dry /\ (RaceFree(command) => MatchedFor(n, env.dropped)')
        BY DEF LostInv
    <2>3. n \in (InitTree \ tree) \ env.dropped
        BY <1>1, <1>5
    <2> QED
        BY <2>2, <2>3 DEF CleanInv, LostInv
<1>9. ASSUME RaceFree(command), pc = "find" PROVE PartDirs \subseteq tree'
    <2>1. command \in Commands /\ command.kind \in LockKinds /\ command.kind # "create"
        BY <1>9 DEF CleanInv, Control, LockKinds
    <2>2. /\ LockRoot \in Path /\ Len(LockRoot) = Len(ZeroCopy) + 1 /\ IsPrefix(ZeroCopy, LockRoot)
          /\ ZeroCopy \in Path /\ Len(ZeroCopy) \in Nat
        BY <2>1, LockRootFacts, InitTreeFacts, PathFacts
    <2>3. Filter.replica = "" /\ Filter.prefix = "" /\ Filter.part # ""
        BY <1>9 DEF CleanInv, WhoseInv
    <2>4. command.kind = "locks" /\ command.part # "" /\ command.replica = "" /\ command.prefix = ""
        <3>1. command.part # ""
            BY <2>3 DEF Filter
        <3>2. command.kind = "locks"
            BY <2>1, <3>1, CommandFacts
        <3> QED
            BY <2>3, <3>1, <3>2 DEF Filter
    <2>5. IsPrefix(ZeroCopy, p) \/ IsPrefix(p, ZeroCopy) => Len(p) > Len(ZeroCopy) + 3
        BY <1>9, <2>4 DEF RaceFree
    <2>6. ASSUME NEW c \in PartDirs, c \in D PROVE FALSE
        <3>1. c \in Path /\ Len(c) = Len(LockRoot) + 2 /\ IsPrefix(LockRoot, c) /\ IsPrefix(p, c)
              /\ p \in Path
            BY <1>2, <1>4, <2>1, <2>6 DEF PartDirs
        <3>2. IsPrefix(ZeroCopy, c)
            BY <2>2, <3>1, PrefixOrder
        <3>3. Len(p) \in Nat /\ Len(c) = Len(ZeroCopy) + 3 /\ Len(p) <= Len(c)
            BY <2>2, <3>1, PathFacts, PrefixOrder
        <3>4. Len(p) <= Len(ZeroCopy) => IsPrefix(p, ZeroCopy)
            BY <2>2, <3>1, <3>2, PrefixOrder
        <3>5. Len(ZeroCopy) <= Len(p) => IsPrefix(ZeroCopy, p)
            BY <2>2, <3>1, <3>2, PrefixOrder
        <3> QED
            BY <2>2, <2>5, <3>3, <3>4, <3>5
    <2> QED
        BY <1>1, <2>6 DEF PartDirs
<1>10. env.dropped \subseteq env.dropped'
    BY <1>5
<1> QED
    BY <1>5, <1>6, <1>7, <1>8, <1>9, <1>10, ServerKeepsRest

\* Every step of a server.
LEMMA ServerKeeps == CleanInv /\ Server => CleanInv'
<1> SUFFICES ASSUME CleanInv, Server PROVE CleanInv'
    OBVIOUS
<1>1. UNCHANGED <<del, command, pc, inspector, objects, tasks, ddl, walk, whose>>
    BY DEF Server
<1>2. \/ \E p \in ServerLocks \ tree : ServerCreates(p) /\ env' = [env EXCEPT !.steps = @ + 1]
      \/ \E p \in ServerDrops :
            /\ ServerDeletes(p)
            /\ env' = [env EXCEPT !.steps = @ + 1, !.dropped = @ \cup Subtree(tree, p)]
      \/ \E q \in DOMAIN DdlHosts : \E h \in DdlHosts[q] :
            /\ Append(q, "finished") \in tree
            /\ ServerCreates(Finished(q, h)) /\ env' = [env EXCEPT !.steps = @ + 1]
    BY DEF Server
<1>3. ASSUME NEW p \in ServerLocks, ServerCreates(p), env' = [env EXCEPT !.steps = @ + 1]
      PROVE  CleanInv'
    <2>1. tree' = tree \cup WithParents(p)
        BY <1>3 DEF ServerCreates
    <2>2. p \in Path /\ ~HasReplicas(p) /\ ~IsPrefix(DdlPath, p)
        BY ServersAssumption, GivenPaths, RangeFacts
    <2>3. ASSUME command.kind # "create" PROVE TreeShape(tree')
        <3>1. TreeShape(tree)
            BY <2>3 DEF CleanInv, TreeInv
        <3> QED
            BY <2>1, <2>2, <3>1, AddParents
    <2> QED
        BY <1>1, <1>3, <2>1, <2>3, ServerCreatesKeeps
<1>4. ASSUME NEW q \in DOMAIN DdlHosts, NEW h \in DdlHosts[q], Append(q, "finished") \in tree,
             ServerCreates(Finished(q, h)), env' = [env EXCEPT !.steps = @ + 1]
      PROVE  CleanInv'
    <2>1. tree' = tree \cup WithParents(Finished(q, h))
        BY <1>4 DEF ServerCreates
    <2>2. ASSUME command.kind # "create" PROVE TreeShape(tree')
        <3>1. TreeShape(tree)
            BY <2>2 DEF CleanInv, TreeInv
        <3> QED
            BY <1>4, <2>1, <3>1, MarkIsOne
    <2> QED
        BY <1>1, <1>4, <2>1, <2>2, ServerCreatesKeeps
<1> QED
    BY <1>1, <1>2, <1>3, <1>4, ServerDeletesKeeps

---------------------------------------------------------------------------
(* All the steps *)

\* Every step of the module ZooKeeperCleanup.
LEMMA CleanNextKeeps == CleanInv /\ Next => CleanInv'
BY InspectKeeps, CollectKeeps, DropReplicaKeeps, DroppedKeeps, DropOneKeeps, SharedIdReadKeeps,
   DdlListKeeps, DdlNextKeeps, DdlLookKeeps, DdlMarkKeeps, DdlWaitKeeps, DdlDeletedKeeps,
   CleanLocksKeeps, WalkVisitKeeps, WalkLeaveKeeps, WalkDeletedKeeps, WalkEndsKeeps,
   FindPathsKeeps, PathsFoundKeeps, DeletedKeeps, DeletesKeeps, RepliesKeeps,
   CommandFailsKeeps, RerunKeeps, ServerKeeps DEF Next, CommandStep

\* create-zero-copy-locks only adds to the tree.
LEMMA CreateKeeps == CleanInv /\ Create => CleanInv'
<1> SUFFICES ASSUME CleanInv, Create PROVE CleanInv'
    OBVIOUS
<1>1. pc = "create" /\ command.kind = "create"
    BY DEF Create, CleanInv, Control
<1>2. /\ tree \subseteq tree'
      /\ UNCHANGED <<del, command, pc, inspector, objects, tasks, ddl, walk, whose, env>>
    <2>1. PICK k \in DOMAIN creators : TaskStep(k)
        BY DEF Create
    <2>2. CASE TaskStarts(k) \/ TaskLooks(k) \/ TaskReadsValue(k) \/ TaskReadsParents(k)
        BY <2>2 DEF TaskStarts, TaskLooks, TaskReadsValue, TaskReadsParents, vars, treeVars,
                    cleanVars
    <2>3. CASE TaskCommits(k)
        BY <2>3 DEF TaskCommits, cleanVars
    <2> QED
        BY <2>1, <2>2, <2>3 DEF TaskStep
<1>3. env.dropped \subseteq env.dropped' /\ pc' # "find" /\ pc' # "ddl_mark"
    BY <1>1, <1>2
<1>4. TreeInv' /\ Control'
    BY <1>1, <1>2 DEF TreeInv, CleanInv, Control
<1>5. LostInv'
    BY <1>2, <1>3, KeepsTree
<1>6. DelInv' /\ InspectorInv' /\ TasksInv' /\ DdlInv' /\ WhoseInv' /\ WalkInv'
    BY <1>2, <1>3, KeepsDel, KeepsInspector, KeepsDdl, KeepsWhose, KeepsWalk
<1> QED
    BY <1>4, <1>5, <1>6 DEF CleanInv

\* Every step keeps the invariant.
LEMMA CleanKeeps == CleanInv /\ [LocksNext]_allVars => CleanInv'
<1> SUFFICES ASSUME CleanInv, [LocksNext]_allVars PROVE CleanInv'
    OBVIOUS
<1>1. CASE Beside(Next)
    BY <1>1, CleanNextKeeps DEF Beside
<1>2. CASE Create
    BY <1>2, CreateKeeps
<1>3. CASE CreateEnds
    <2>1. /\ pc = "create" /\ pc' \in {"ended", "failed"} /\ tree' = tree /\ del' = del
          /\ UNCHANGED <<tree, command, inspector, objects, tasks, ddl, walk, whose, env>>
        BY <1>3 DEF CreateEnds, treeVars
    <2>2. pc \notin DeletePcs
        BY <2>1 DEF DeletePcs
    <2> QED
        BY <2>1, <2>2, Ends
<1>4. CASE UNCHANGED allVars
    <2>1. /\ UNCHANGED <<del, command, pc, inspector, objects, tasks, ddl, walk, whose>>
          /\ tree' = tree /\ env' = env /\ command' = command
        BY <1>4 DEF allVars, vars, treeVars, cleanVars
    <2>2. TreeInv' /\ LostInv' /\ env.dropped \subseteq env.dropped'
        BY <2>1, Quiet
    <2>3. /\ env' = [steps |-> env'.steps, runs |-> env'.runs, dropped |-> env'.dropped]
          /\ \A n \in env'.dropped : \E p \in ServerDrops : IsPrefix(p, n)
          /\ PartDirs \subseteq tree'
        BY <2>1 DEF CleanInv, Control, PartDirs
    <2> QED
        BY <2>1, <2>2, <2>3, ServerKeepsRest
<1>5. CASE ServerWrites
    <2>1. /\ UNCHANGED <<del, command, pc, inspector, objects, tasks, ddl, walk, whose>>
          /\ tree' = tree /\ env' = [env EXCEPT !.steps = @ + 1]
        BY <1>5 DEF ServerWrites, treeVars
    <2>2. command.kind # "create" => TreeShape(tree')
        BY <2>1 DEF CleanInv, TreeInv, TreeShape
    <2> QED
        BY <2>1, <2>2, ServerCreatesKeeps
<1> QED
    BY <1>1, <1>2, <1>3, <1>4, <1>5 DEF LocksNext

\* The inductive invariant of the clean-up commands.
THEOREM CleanInvariant == LocksSpec => []CleanInv
<1>1. LocksInit => CleanInv
    BY CleanInit
<1>2. CleanInv /\ [LocksNext]_allVars => CleanInv'
    BY CleanKeeps
<1> QED
    BY <1>1, <1>2, PTL DEF LocksSpec

\* TypeOK of the module ZooKeeperCleanup: the traversal never has more requests in flight
\* than max_parrallel_tasks, and a deletion runs only while its caller waits for it.
THEOREM CleanupTypes == LocksSpec => []TypeOK
<1>1. ASSUME CleanInv PROVE TypeOK
    <2>1. /\ command \in Commands
          /\ pc \in {"inspect", "collect", "drop", "ddl_list", "ddl", "ddl_mark", "ddl_wait",
                    "ddl_delete", "locks", "walk", "walk_delete", "find", "delete",
                    "create", "replica", "shared_id", "ended", "failed"}
        BY <1>1 DEF CleanInv, Control
    <2>2. /\ Len(inspector.active) <= MaxActive
          /\ \A r \in DOMAIN tasks : tasks[r] \in {"todo", "done", "failed"}
          /\ del.phase # "none" <=> pc \in {"ddl_delete", "walk_delete", "delete"}
          /\ ddl.polls \in 0..MaxPolls
        BY <1>1, DdlShape DEF CleanInv, InspectorInv, TasksInv, DelInv
    <2>3. ASSUME NEW i \in DOMAIN walk.stack
          PROVE  walk.stack[i].matched <= walk.stack[i].total
        <3>1. StackOk(walk.stack) /\ walk.stack \in Seq(Frames)
            BY <1>1 DEF CleanInv, WalkInv, StackOk
        <3>2. i \in 1..Len(walk.stack)
            BY <2>3, <3>1, LenProperties
        <3>3. walk.stack[i] \in Frames
            BY <3>1, <3>2, ElementOfSeq
        <3>4. FrameOk(walk.stack[i], Busy(walk.stack, i))
            BY <3>1, <3>2 DEF StackOk
        <3> QED
            BY <2>1, <3>3, <3>4, FrameFull
    <2> QED
        BY <2>1, <2>2, <2>3 DEF TypeOK
<1> QED
    BY <1>1, CleanInvariant, PTL

\* Where names are apart, the code compares what the options say.
LEMMA MatchedIsAsked ==
    ASSUME NamesApart, NEW n \in InitTree, NEW lost, MatchedFor(n, lost)
    PROVE  AskedFor(n, lost)
<1>1. ASSUME NEW f \in Filters, NEW l \in InitTree, IsLock(l), LockMatched(f, l)
      PROVE  LockAsked(f, l)
    <2> DEFINE q == SubSeq(l, Len(LockRoot) + 1, Len(l))
    <2>1. /\ Starts(f.part, q[2]) => f.part \in {"", q[2]}
          /\ Starts(f.replica, q[4]) => f.replica \in {"", q[4]}
        BY <1>1 DEF NamesApart
    <2>2. CASE f.replica # "" \/ f.prefix # ""
        <3>1. /\ f.table \in {"", q[1]} /\ f.part \in {"", q[2]}
              /\ Starts(f.prefix, q[3]) /\ Starts(f.replica, q[4])
            BY <1>1, <2>2 DEF LockMatched, Matches
        <3> QED
            BY <2>1, <2>2, <3>1 DEF LockAsked
    <2>3. CASE f.replica = "" /\ f.prefix = ""
        <3>1. f.table # "" /\ q[1] = f.table /\ (f.part = "" \/ Starts(f.part, q[2]))
            BY <1>1, <2>3 DEF LockMatched
        <3>2. Starts(f.prefix, q[3])
            BY <2>3 DEF Starts
        <3> QED
            BY <2>1, <2>3, <3>1, <3>2 DEF LockAsked
    <2> QED
        BY <2>2, <2>3
<1>2. LocksMatched(n, lost) => LocksAsked(n, lost)
    BY <1>1 DEF LocksMatched, LocksAsked
<1> QED
    BY <1>2 DEF MatchedFor, AskedFor

\* SurvivorsAreKept: a dry run loses nothing, and a command outside the two races of
\* RaceFree loses only what it was asked to delete: the replicas of the hosts named,
\* and the locks of the replica, the table and the part named, where the name of no
\* other part or replica begins with the one given.
THEOREM Survivors ==
    LocksSpec => [](command.dry \/ (RaceFree(command) /\ NamesApart) => SurvivorsAreKept)
<1>1. ASSUME CleanInv, command.dry \/ (RaceFree(command) /\ NamesApart)
      PROVE  SurvivorsAreKept
    <2> SUFFICES ASSUME NEW n \in (InitTree \ tree) \ env.dropped PROVE Asked(n, env.dropped)
        BY DEF SurvivorsAreKept
    <2>1. ~command.dry /\ (RaceFree(command) => MatchedFor(n, env.dropped))
        BY <1>1 DEF CleanInv, LostInv
    <2> QED
        BY <1>1, <2>1, MatchedIsAsked DEF Asked
<1> QED
    BY <1>1, CleanInvariant, PTL
===========================================================================
