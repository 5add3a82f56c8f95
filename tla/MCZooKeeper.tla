----------------------------- MODULE MCZooKeeper -----------------------------
(* A small cluster: two tables with parts and a database, two DDL tasks, the     *)
(* zero-copy locks of two tables, and a new directory to create locks in.        *)
EXTENDS ZeroCopyLocks

NamesDef == <<"b1", "b2", "d1", "databases", "ddl", "finished", "h1", "h10", "h2", "log",
              "p1", "p2", "parts", "q1", "q2", "replicas", "s1|h1", "s1|h10", "t1", "t1.bak",
              "t2", "table_shared_id", "tables", "u1", "u2", "zc", "zc2", "zero_copy_None", "zero_copy_s3">>
LowExtendsDef == {<<"t1", "t1.bak">>}
StartsWithDef == {<<"h1", "h10">>, <<"t1", "t1.bak">>, <<"zc", "zc2">>}
ReplicaHostDef == [r \in {"s1|h1", "s1|h10"} |-> IF r = "s1|h1" THEN "h1" ELSE "h10"]

T(n) == <<"tables", n>>
Q(n) == <<"ddl", n>>
L(u, p, b, h) == <<"zc", "zero_copy_s3", u, p, b, h>>
P(t, p) == T(t) \o <<"replicas", "h1", "parts", p>>
D1 == <<"databases", "d1">>

DatabasesDef == {D1}
ExcludedDef == {<<"ddl">>, <<"zc">>}
DdlPathDef == <<"ddl">>
DdlHostsDef == (Q("q1") :> {"h1", "h2"}) @@ (Q("q2") :> {"h2"})
ZeroCopyDef == <<"zc">>
TableUuidDef == (T("t1") :> "u1") @@ (T("t2") :> "u2")
Leaves ==
    {T("t1") \o <<"log">>, T("t1") \o <<"table_shared_id">>, T("t2") \o <<"table_shared_id">>, P("t1", "p1"), P("t1", "p2"), P("t2", "p1"),
     T("t1") \o <<"replicas", "h10">>, T("t1.bak"),
     D1 \o <<"replicas", "s1|h1">>, D1 \o <<"replicas", "s1|h10">>,
     Q("q1") \o <<"finished", "h2">>, Q("q2") \o <<"finished">>,
     L("u1", "p1", "b1", "h1"), L("u1", "p1", "b1", "h2"), L("u1", "p2", "b2", "h1"),
     L("u2", "p1", "b1", "h1"), <<"zc", "zero_copy_None", "u1", "p1", "b1", "h1">>}
InitTreeDef == UNION {WithParents(p) : p \in Leaves}
WithLockOfH10 == InitTreeDef \cup {L("u1", "p1", "b1", "h10")}

ServerLocksDef == {L("u1", "p1", "b2", "h2"), L("u2", "p1", "b1", "h2")}
ServerDropsDef == {T("t2"), L("u2", "p1", "b1", "h1"), P("t1", "p1")}

Base == [kind |-> "hosts", hosts |-> <<"h1">>, table |-> "", part |-> "", prefix |-> "",
         replica |-> "", root |-> <<>>, disk |-> "zero_copy_s3", paths |-> {},
         ddl |-> TRUE, old |-> FALSE, dry |-> FALSE]
Locks == [Base EXCEPT !.kind = "locks", !.hosts = <<>>, !.ddl = FALSE]
Drop == [Locks EXCEPT !.kind = "drop", !.replica = "h1", !.root = T("t2")]
CommandsDef ==
    {Base, [Base EXCEPT !.dry = TRUE], [Base EXCEPT !.old = TRUE], [Base EXCEPT !.hosts = <<"h10">>], [Base EXCEPT !.hosts = <<"h1", "h2">>],
     [Base EXCEPT !.kind = "table_hosts", !.root = T("t1"), !.ddl = FALSE],
     [Locks EXCEPT !.replica = "h1"], [Locks EXCEPT !.replica = "h1", !.table = "u1"],
     [Locks EXCEPT !.prefix = "b1"], [Locks EXCEPT !.table = "u1", !.part = "p1"],
     [Locks EXCEPT !.table = "u2", !.part = "p1"], [Locks EXCEPT !.table = "u1"],
     [Drop EXCEPT !.root = T("t1")], [Drop EXCEPT !.table = "u2"],
     [Locks EXCEPT !.kind = "delete",
                   !.paths = {T("t1"), T("t1.bak"), T("t1") \o <<"replicas">>}],
     [Locks EXCEPT !.kind = "create"]}
JustDrop == {Drop}
JustReplica == {[Locks EXCEPT !.replica = "h1"]}

K(u, t, p, b) == [uuid |-> u, table |-> T(t), part |-> p, blob |-> b]
PartsDef == {K("u1", "t1", "p1", "b1"), K("u1", "t1", "p2", "b2"), K("u2", "t2", "p1", "b1")}
SharedIdDef == {"u1", "u2"}
SystemReplicasDef == <<"h1", "h10">>
NewRootDef == <<"zc2", "zero_copy_s3">>
OldRootDef == <<"zc", "zero_copy_s3">>
Option == [replicas |-> <<"h1">>, all |-> FALSE, macro |-> FALSE, check |-> TRUE,
           copy |-> FALSE, keepGoing |-> FALSE, dry |-> FALSE]
LockOptionsDef ==
    {[Option EXCEPT !.replicas = <<>>, !.copy = TRUE],
     [Option EXCEPT !.replicas = <<"h2">>], [Option EXCEPT !.macro = TRUE], [Option EXCEPT !.dry = TRUE, !.all = TRUE]}
=============================================================================
