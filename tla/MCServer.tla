------------------------------ MODULE MCServer ------------------------------
(* Small instances of the commands on parts, tables, replicas and files. *)
EXTENDS Server, TLC

P(t, q, rows, d) == [table |-> t, partition |-> q, rows |-> rows, disk |-> d,
                     state |-> "active", reason |-> "", try |-> 0]
Off(p) == [p EXCEPT !.state = "detached"]

InitPartsDef ==
    {{}, {P("t1", 1, {1}, "local"), P("t1", 1, {2}, "object"), P("t1", 2, {3}, "local"),
      Off(P("t1", 2, {4}, "object"))},
     {P("t1", 1, {1, 2}, "local"), [P("t1", 1, {1}, "local") EXCEPT !.state = "outdated"],
      P("t2", 1, {3}, "local"),
      [Off(P("t1", 1, {4}, "local")) EXCEPT !.reason = "broken-on-start"]},
     {Off(P("t1", 1, {1}, "local")), Off(P("t1", 2, {2}, "object")),
      [Off(P("t1", 1, {3}, "object")) EXCEPT !.try = 1],
      [Off(P("t2", 1, {4}, "local")) EXCEPT !.try = 10]},
     {P("t1", 1, {1}, "local"), P("t1", 2, {2}, "object"), P("t3", 1, {3}, "local"),
      Off(P("t3", 1, {4}, "local"))}}

Base == [kind |-> "attach_parts", keepGoing |-> FALSE, dry |-> FALSE, json |-> FALSE,
         tables |-> Tables, partitions |-> Partitions, disk |-> NoFilter, minSize |-> 0,
         reason |-> NoFilter, limit |-> 0, limitErrors |-> 0, workers |-> 2, sync |-> TRUE,
         to |-> NoFilter, uuid |-> NoUuid, all |-> FALSE, attach |-> FALSE,
         remove |-> FALSE, column |-> FALSE]
For(kind) == [Base EXCEPT !.kind = kind]
Variants(c) == {c, [c EXCEPT !.json = TRUE], [c EXCEPT !.dry = TRUE],
                [c EXCEPT !.keepGoing = TRUE, !.tables = {"t1"}],
                [c EXCEPT !.disk = "local", !.partitions = {1}]}
Strict == {"delete_partitions", "optimize_partitions", "materialize_ttl",
           "check_partitions", "check_parts"}      \* without --keep-going
NoFile == {"optimize_partitions", "materialize_ttl", "check_partitions"}
To(c) == CASE c.kind = "move_parts" -> [c EXCEPT !.to = "object"]
           [] c.kind = "move_partitions" -> [c EXCEPT !.to = "t2"]
           [] c.kind = "remove_prefix" -> [c EXCEPT !.reason = "broken-on-start"]
           [] c.kind = "reattach_partitions" -> [c EXCEPT !.limitErrors = IF c.disk = NoFilter THEN 10 ELSE 1]
           [] OTHER -> c
PartCommandsDef ==
    {To(c) : c \in {v \in UNION {Variants(For(k)) : k \in PartsKinds \ {"detect_broken"}} :
                        /\ v.kind \in Strict => ~v.keepGoing
                        /\ v.kind \in NoFile => ~v.json}}
    \cup {[For("delete_parts") EXCEPT !.minSize = 2, !.keepGoing = TRUE],
           [For("delete_detached_parts") EXCEPT !.reason = ""],
           [To(For("move_parts")) EXCEPT !.sync = FALSE, !.limit = 1],
           [To(For("remove_prefix")) EXCEPT !.json = TRUE, !.dry = TRUE],
           [For("reattach_partitions") EXCEPT !.keepGoing = TRUE, !.limitErrors = 1]}
    \cup {[For("detect_broken") EXCEPT !.disk = "object", !.dry = d, !.attach = a] :
            d \in BOOLEAN, a \in BOOLEAN}

EngineDef == [t \in Tables |-> CASE t \in {"t1", "t3"} -> "replicated" [] t = "t2" -> "plain" [] t = "v" -> "view"]
SharedIdDef == [t \in Tables |-> IF t = "t1" THEN "u4" ELSE "u2"]
T(u) == [attached |-> TRUE, meta |-> u, flag |-> FALSE, link |-> TRUE,
         dirs |-> [d \in Disks |-> u], replica |-> FALSE]
InitTablesDef ==
    {("t1" :> [T("u1") EXCEPT !.replica = TRUE, !.attached = s.a, !.flag = s.f]) @@
     ("t2" :> [T("u2") EXCEPT !.dirs["object"] = NoUuid]) @@
     ("v" :> [T("u3") EXCEPT !.dirs = [d \in Disks |-> NoUuid], !.link = FALSE]) @@
     ("t3" :> other) :
        s \in {x \in [a : BOOLEAN, f : BOOLEAN] : x.f => ~x.a}, other \in {NoTable, [T("u4") EXCEPT !.replica = TRUE]}}
Of(kind, ts) == [For(kind) EXCEPT !.tables = ts]
TableCommandsDef ==
    {Of(k, Tables) : k \in LoopKinds \ {"change_uuid"}}
    \cup {[Of(k, {"t1", "t2"}) EXCEPT !.dry = TRUE] : k \in LoopKinds \ NoDryRun}
    \cup {Of(k, {"t1"}) : k \in OneTableKinds} \cup {Of("set_flag", {"t1", "t2"})}
    \cup {[Of("change_uuid", Tables) EXCEPT !.all = TRUE], Of("change_uuid", {"t1"})}
    \cup {[Of("change_uuid", {t}) EXCEPT !.uuid = u] : t \in {"t1", "t2", "t3", "v"}, u \in {"u2", "u4"}}
\* The nodes of t1 and t3 are all there, or only those of the replica are gone, or
\* all of them; the server may have noticed it or not.
N(all, mine, ro) == [replicas |-> all, mine |-> mine, first |-> FALSE, readonly |-> ro]
InitNodesDef ==
    {[t \in Tables |-> IF t = "t1" THEN n ELSE N(FALSE, FALSE, TRUE)] :
        n \in {N(TRUE, TRUE, FALSE), N(TRUE, TRUE, TRUE), N(TRUE, FALSE, TRUE),
               N(FALSE, FALSE, TRUE), N(FALSE, FALSE, FALSE)}}
ReplicaCommandsDef ==
    {Of("restart_replicas", Tables), Of("restore_replicas", Tables),
     [Of("restart_replicas", Tables) EXCEPT !.dry = TRUE],
     [Of("restore_replicas", Tables) EXCEPT !.dry = TRUE],
     [Of("restore_replicas", Tables) EXCEPT !.keepGoing = TRUE, !.workers = 1]}

\* u1 is the uuid of t1, which shares its prefix with an orphan; so will the table
\* that is created with u4.
PrefixDef == ("u1" :> "p1") @@ ("u2" :> "p2") @@ ("u3" :> "p2") @@ ("u4" :> "p3") @@
             ("o1" :> "p1") @@ ("o2" :> "p3") @@ ("o3" :> "p4")
DictionariesOfDef == ("c1" :> <<"d1", "d2">>) @@ ("c2" :> <<"d2">>) @@ ("c3" :> <<"d3", "d4">>)
\* The first is keyed by an id and the second by attributes; the last has an attribute
\* without a default.
Xml == [source |-> 1, layout |-> 1, lifetime |-> "value", id |-> TRUE, hasKey |-> FALSE,
        key |-> {}, range |-> {}, attributes |-> {"complete"}]
DefinitionDef ==
    ("d1" :> Xml) @@
    ("d2" :> [Xml EXCEPT !.id = FALSE, !.hasKey = TRUE, !.key = {"no null_value"}]) @@
    ("d3" :> [Xml EXCEPT !.lifetime = "min and max", !.range = {"no null_value"}]) @@
    ("d4" :> [Xml EXCEPT !.attributes = {"complete", "no default"}])
FileCommandsDef ==
    {[For(k) EXCEPT !.remove = x] : k \in FileKinds, x \in BOOLEAN}
    \cup {[For("clean_orphaned_tables") EXCEPT !.remove = TRUE, !.column = TRUE],
           [For("cleanup_data_dir") EXCEPT !.remove = TRUE, !.limit = 1],
           [For("cleanup_data_dir") EXCEPT !.remove = TRUE, !.keepGoing = TRUE],
           [For("migrate_dictionaries") EXCEPT !.remove = TRUE, !.dry = TRUE],
           [For("migrate_dictionaries") EXCEPT !.remove = TRUE, !.keepGoing = TRUE]}

CommandsDef == PartCommandsDef \cup TableCommandsDef \cup ReplicaCommandsDef \cup FileCommandsDef

ItemsDef == Part \cup Partition \cup TableRow \cup FileRow

\* The tables matter to the commands on tables and files, the parts to the others,
\* and the nodes in ZooKeeper to those on replicas.
MCInit ==
    /\ Init
    /\ (parts = {}) <=> (cmd.kind \in TableKinds \cup FileKinds)
    /\ (\E p \in parts : p.table = "t3") <=> (cmd.kind \in ReplicaKinds)
    /\ IF tables["t3"].attached THEN cmd.kind \in ReplicaKinds \cup {"change_uuid"}
       ELSE cmd.kind \notin ReplicaKinds
    /\ cmd.kind \notin TableKinds \cup FileKinds => tables["t1"].attached
    /\ cmd.kind \notin ReplicaKinds => \A t \in Tables : nodes[t] = nodes["t3"]

MCSpec == MCInit /\ [][Next]_vars
=============================================================================
