---------------------------- MODULE ServerFiles ----------------------------
(***************************************************************************)
(* The commands that remove files of the server: data-store                *)
(* clean-orphaned-tables and cleanup-data-dir (cli/data_store_group.py),   *)
(* which look for what no metadata file names, and dictionary migrate      *)
(* (internal/dictionary_migration.py), which turns configuration files     *)
(* into dictionaries and removes the files.  The server creates tables     *)
(* between the look and the removal.                                       *)
(***************************************************************************)
EXTENDS Replicas

CONSTANTS
    Prefix,         \* store/<prefix>, for each uuid
    HasColumn,      \* the uuids with a file that --column names
    Configs,        \* configuration files
    DictionariesOf, \* for each of them, its dictionaries in their order
    Definition,     \* the XML of each dictionary, see Translated
    OrphanDirs,     \* directories store/<uuid> of no table
    OrphanLinks     \* names in data/ of no table

VARIABLES
    orphans,        \* the directories of no table that are left
    links,          \* the names in data/ of no table that are left
    configs,        \* the configuration files that are left
    dictionaries,   \* the dictionaries that were created, and the file of each
    before          \* history: the tables before the command

fileVars == <<orphans, links, configs, dictionaries, before>>

FileKinds == {"clean_orphaned_tables", "cleanup_data_dir", "migrate_dictionaries"}

FileRow == [file : Range(Prefix) \cup Tables \cup OrphanLinks \cup Configs]

ASSUME FilesAssumption ==
    /\ Uuids \cup OrphanDirs \subseteq DOMAIN Prefix /\ NoUuid \notin OrphanDirs
    /\ DictionariesOf \in [Configs -> Seq(DOMAIN Definition)]

Local(t) == tables[t].dirs["local"]

Directories == (orphans \cup {Local(t) : t \in Tables}) \ {NoUuid}

Under(prefix) == {u \in Directories : Prefix[u] = prefix}

---------------------------------------------------------------------------
(* The lists *)

\* os.listdir of store/; collect_orphaned_sql_objects_recursive; the configuration
\* files that match the patterns.
FilesFound ==
    CASE cmd.kind = "clean_orphaned_tables" -> {[file |-> Prefix[u]] : u \in Directories}
      [] cmd.kind = "cleanup_data_dir" ->
            {[file |-> n] : n \in {l \in links \cup {t \in Tables : tables[t].link} :
                l \notin Tables \/ tables[l].meta = NoUuid}}
      [] cmd.kind = "migrate_dictionaries" -> {[file |-> c] : c \in configs}

ListFiles ==
    /\ cmd.kind \in FileKinds
    /\ Listing(Limited(FilesFound))
    /\ UNCHANGED <<partVars, tableVars, replicaVars, fileVars>>

\* The query for the default database, or CREATE DATABASE, may fail.
ListFilesFails ==
    /\ cmd.kind = "migrate_dictionaries"
    /\ ListingFails /\ Fault
    /\ UNCHANGED <<partVars, tableVars, replicaVars, fileVars>>

---------------------------------------------------------------------------
(* clean-orphaned-tables *)

\* Mutated: the tables are asked for on the server.
IsUsedByAttached(prefix) ==
    \E t \in Tables : tables[t].attached /\ Prefix[tables[t].meta] = prefix

\* prefix_exists_in_metadata reads the metadata files, and a prefix may belong to
\* several tables.
IsUsed(prefix) == \E t \in Tables : tables[t].meta # NoUuid /\ Prefix[tables[t].meta] = prefix

\* process_path up to the removal; a prefix that is gone is skipped, and a file that
\* goes away during the walk raises.
ProcessPath(r) ==
    LET unused == /\ ~IsUsed(r.file) /\ Under(r.file) # {}
                  /\ cmd.column => Under(r.file) \cap HasColumn # {}
    IN  /\ cmd.kind = "clean_orphaned_tables"
        /\ MayBegin(r)
        /\ \/ /\ IF unused /\ cmd.remove THEN Begin(r, [step |-> "rmtree"]) ELSE Succeeds(r)
              /\ UNCHANGED faults
           \/ Fails(r) /\ Fault
        /\ UNCHANGED <<partVars, tableVars, replicaVars, fileVars>>

\* remove_data: rmtree removes whatever is under the prefix by now; when something
\* cannot be removed, its error handler raises.
RemoveData(r) ==
    /\ cmd.kind = "clean_orphaned_tables"
    /\ IsAt(r, "rmtree")
    /\ \E gone \in SUBSET Under(r.file) :
        /\ \/ gone = Under(r.file) /\ Succeeds(r) /\ UNCHANGED faults
           \/ gone # Under(r.file) /\ Fails(r) /\ Fault
        /\ orphans' = orphans \ gone
        /\ tables' = [t \in Tables |-> IF Local(t) \in gone
                                       THEN [tables[t] EXCEPT !.dirs["local"] = NoUuid]
                                       ELSE tables[t]]
    /\ UNCHANGED <<partVars, queue, restarts, replicaVars, links, configs, dictionaries, before>>

---------------------------------------------------------------------------
(* cleanup-data-dir: one task for each name, without another look *)

RemoveOrphanedObject(r) ==
    /\ cmd.kind = "cleanup_data_dir"
    /\ MayBegin(r)
    /\ \/ Succeeds(r) /\ UNCHANGED faults
       \/ cmd.remove /\ Fails(r) /\ Fault
    /\ \/ ~cmd.remove /\ UNCHANGED <<links, tables>>
       \/ cmd.remove /\ faults' # faults /\ UNCHANGED <<links, tables>>
       \/ /\ cmd.remove
          /\ links' = links \ {r.file}
          /\ tables' = [t \in Tables |-> IF t = r.file THEN [tables[t] EXCEPT !.link = FALSE]
                                         ELSE tables[t]]
    /\ UNCHANGED <<partVars, queue, restarts, replicaVars, orphans, configs, dictionaries, before>>

---------------------------------------------------------------------------
(* dictionary migrate: one task for each file *)

\* A <source> or <layout> has one child.
BlockBuilt(children) == children = 1

LifetimeBuilt(lifetime) == lifetime \in {"empty", "value", "min and max"}

\* An attribute needs a type; a <null_value> unless it is of the key or the range; and,
\* if that is empty, a type with a default.
AttributeBuilt(attr, requireNullValue) ==
    attr = "complete" \/ (attr = "no null_value" /\ ~requireNullValue)

\* The key is <id>, or a <key> with attributes.
StructureBuilt(x) ==
    /\ x.id # x.hasKey
    /\ x.hasKey => x.key # {}
    /\ \A attr \in x.key \cup x.range : AttributeBuilt(attr, FALSE)
    /\ \A attr \in x.attributes : AttributeBuilt(attr, TRUE)

\* A CREATE statement can be made for the dictionary.
Translated(name) ==
    LET x == Definition[name]
    IN  BlockBuilt(x.source) /\ BlockBuilt(x.layout) /\ LifetimeBuilt(x.lifetime) /\ StructureBuilt(x)

\* All statements of a file are made first: if one cannot be made, none is executed.
GenerateDdl(r) ==
    /\ cmd.kind = "migrate_dictionaries"
    /\ MayBegin(r)
    /\ IF \A name \in Range(DictionariesOf[r.file]) : Translated(name)
       THEN Begin(r, [step |-> "create", left |-> DictionariesOf[r.file]])
       ELSE Fails(r)
    /\ UNCHANGED <<faults, partVars, tableVars, replicaVars, fileVars>>

\* CREATE DICTIONARY IF NOT EXISTS: the first file with a name wins.
CreateDictionary(r) ==
    /\ IsAt(r, "create") /\ at[r].left # <<>>
    /\ LET name == Head(at[r].left)
           exists == name \in {d.name : d \in dictionaries}
           created == IF cmd.dry \/ exists THEN dictionaries
                      ELSE dictionaries \cup {[name |-> name, from |-> r.file]}
       IN  \/ /\ dictionaries' = created
              /\ GoTo(r, [at[r] EXCEPT !.left = Tail(@)]) /\ UNCHANGED faults
           \/ ~cmd.dry /\ dictionaries' \in {dictionaries, created} /\ Fails(r) /\ Fault
    /\ UNCHANGED <<partVars, tableVars, replicaVars, orphans, links, configs, before>>

\* The file is removed when all of its dictionaries are there.
Unlink(r) ==
    /\ IsAt(r, "create") /\ at[r].left = <<>>
    /\ IF cmd.dry \/ ~cmd.remove THEN Succeeds(r) /\ UNCHANGED <<configs, faults>>
       ELSE \/ configs' = configs \ {r.file} /\ Succeeds(r) /\ UNCHANGED faults
            \/ UNCHANGED configs /\ Fails(r) /\ Fault
    /\ UNCHANGED <<partVars, tableVars, replicaVars, orphans, links, dictionaries, before>>

---------------------------------------------------------------------------
FinishFiles ==
    /\ cmd.kind \in FileKinds
    /\ Finish \/ Kill
    /\ UNCHANGED <<partVars, tableVars, replicaVars, fileVars>>

\* CREATE TABLE, in a directory of its own, under a name that is free.
CreateTable ==
    /\ cmd.kind \in FileKinds /\ ~Ended
    /\ \E t \in Tables, u \in Uuids \ Directories :
        /\ tables[t] = NoTable
        /\ tables' = [tables EXCEPT ![t] =
                [NoTable EXCEPT !.attached = TRUE, !.meta = u, !.link = TRUE, !.dirs["local"] = u]]
    /\ UNCHANGED <<loopVars, partVars, queue, restarts, replicaVars, fileVars>>

FilesInit ==
    /\ orphans = IF cmd.kind = "clean_orphaned_tables" THEN OrphanDirs ELSE {}
    /\ links = IF cmd.kind = "cleanup_data_dir" THEN OrphanLinks ELSE {}
    /\ configs = IF cmd.kind = "migrate_dictionaries" THEN Configs ELSE {}
    /\ dictionaries = {}
    /\ before = IF cmd.kind \in FileKinds THEN tables ELSE [t \in Tables |-> NoTable]

FileStep(r) ==
    \/ ProcessPath(r) \/ RemoveData(r) \/ RemoveOrphanedObject(r)
    \/ GenerateDdl(r) \/ CreateDictionary(r) \/ Unlink(r)

FilesNext ==
    \/ ListFiles \/ ListFilesFails \/ FinishFiles \/ CreateTable
    \/ cmd.kind \in FileKinds /\ \E r \in listed : FileStep(r)

---------------------------------------------------------------------------
(* Properties *)

\* What these commands remove nobody needs.  A table that was there before, attached
\* or not, keeps its directory and its link, also when it shares its prefix with
\* orphans (data_store_group.py:163); the dictionaries of a removed file have all
\* been created, also when tasks fail half-way (dictionary_migration.py:187).
RemovedIsNotNeeded ==
    /\ \A t \in Tables : before[t] # NoTable => tables[t] = before[t]
    /\ cmd.kind = "migrate_dictionaries" =>
        \A c \in Configs \ configs :
            Range(DictionariesOf[c]) \subseteq {d.name : d \in dictionaries}
=============================================================================
