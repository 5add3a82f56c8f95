------------------------- MODULE ObjectStorageClean -------------------------
(***************************************************************************)
(* `chadmin object-storage clean` (ch_tools/common/commands/               *)
(* object_storage.py and chadmin/internal/object_storage/s3_cleanup.py):   *)
(* list the bucket, list what the hosts of the shard and the backups       *)
(* reference, and delete what only the first list has.                     *)
(*                                                                         *)
(* The hosts run ClickHouse, which keeps writing, fetching (zero-copy) and *)
(* dropping objects while the command collects its lists one after the     *)
(* other; the command may run on several hosts at once, any query and any  *)
(* request to the object storage may fail, and the command may be killed.  *)
(***************************************************************************)
EXTENDS Integers, FiniteSets, FiniteSetsExt

CONSTANTS
    Hosts,          \* the hosts of one shard
    Objects,        \* the keys; ClickHouse never uses a key twice
    Size,           \* the size of each object
    Misplaced,      \* the objects whose key does not match verify_paths_regex
    Guard,          \* --to-time, the guard interval
    UploadWindow,   \* how long an object may lack its local metadata while
                    \* it is being written
    BatchSize,      \* KEYS_BATCH_SIZE
    MaxBytes,       \* --max-size-to-delete-bytes, 0 if there is no limit
    MaxPercent,     \* --max-size-to-delete-fraction
    ErrorPercent,   \* verify_size_error_rate_threshold_fraction
    Options,        \* the combinations of flags the command is run with
    RefsMove,       \* TRUE if a host may take over an object from a host that
                    \* a running command has not read yet
    NoList,         \* the saved listing table does not exist
    MaxTime, MaxRuns, MaxCrashes, MaxBackups

\* dry: --dry-run; keep: --keep-paths; saved: --use-saved-list; backups: the
\* missing backups are read, which --ignore-missing-cloud-storage-backups and a
\* ch-backup before 2.664 prevent; from: the age given with --from-time, or NoLimit
NoLimit == MaxTime + 1
OptionType == [dry : BOOLEAN, keep : BOOLEAN, saved : BOOLEAN,
               backups : BOOLEAN, from : 0..NoLimit]

ASSUME CleanAssumption ==
    /\ IsFiniteSet(Objects) /\ Misplaced \subseteq Objects
    /\ Size \in [Objects -> Nat]
    /\ UploadWindow \in Nat /\ Guard \in Nat /\ UploadWindow < Guard
    /\ BatchSize \in Nat \ {0}
    /\ MaxBytes \in Nat /\ MaxPercent \in 0..100 /\ ErrorPercent \in Nat
    /\ MaxTime \in Nat /\ MaxRuns \in Nat
    /\ MaxCrashes \in Nat /\ MaxBackups \in Nat
    /\ Options \subseteq OptionType
    /\ RefsMove \in BOOLEAN

VARIABLES
    now,
    bucket,     \* each object: "unused", "stored" or "gone"
    mtime,      \* last_modified of each object
    uploading,  \* the objects each host has written and not yet committed
    refs,       \* the objects in the local metadata of each host (its tables)
    backup,     \* the objects of the backup of each host
    shadow,     \* whether that backup is in the shadow directory of the host
    list,       \* the listing table that --keep-paths leaves behind
    pc, opt,
    remote,     \* remote_blobs of each command
    unread,     \* the hosts whose system.remote_data_paths is still to read
    local,      \* local_blobs of each command
    orphans,    \* orphaned_blobs of each command
    todo,       \* what orphaned_objects_iterator has still to yield
    sizes,      \* the size of the listing and total["total_size"]
    asked,      \* history: the objects the command asked to delete
    since,      \* history: when the command had its listing
    ignored,    \* history: what runs without the missing backups asked to delete
    state,      \* the OrphanedObjectsState saved last, or NoList
    spent       \* runs, kills and backups so far

world == <<now, bucket, mtime, uploading, refs, backup, shadow>>
procs == <<pc, opt, remote, unread, local, orphans, todo, sizes, asked, since,
           ignored>>
vars == <<world, list, procs, state, spent>>

Stored == {o \in Objects : bucket[o] = "stored"}
SizeOf(S) == MapThenSumSet(LAMBDA o : Size[o], S)
Visible(h) == refs[h] \cup (IF shadow[h] THEN backup[h] ELSE {})
Referenced == UNION {refs[h] \cup backup[h] : h \in Hosts}

-----------------------------------------------------------------------------
(* ClickHouse and its backups *)

\* Time passes; a write is committed or given up within the upload window.
Tick ==
    /\ now < MaxTime
    /\ \A h \in Hosts : \A o \in uploading[h] : now - mtime[o] < UploadWindow
    /\ now' = now + 1
    /\ UNCHANGED <<bucket, mtime, uploading, refs, backup, shadow, list, procs,
                   state, spent>>

\* What the storage says of an object written now.  A mutant: its clock is
\* ahead of the clock of the host that runs the command.
ClockAhead == now + 1
Clock == now

Upload(h, o) ==
    /\ bucket[o] = "unused"
    /\ bucket' = [bucket EXCEPT ![o] = "stored"]
    /\ mtime' = [mtime EXCEPT ![o] = Clock]
    /\ uploading' = [uploading EXCEPT ![h] = @ \cup {o}]
    /\ UNCHANGED <<now, refs, backup, shadow, list, procs, state, spent>>

\* The object gets its local metadata, or it is never referenced.
EndUpload(h, o) ==
    /\ o \in uploading[h]
    /\ uploading' = [uploading EXCEPT ![h] = @ \ {o}]
    /\ refs' \in {refs, [refs EXCEPT ![h] = @ \cup {o}]}
    /\ UNCHANGED <<now, bucket, mtime, backup, shadow, list, procs, state, spent>>

\* A command that is reading the hosts has read h and not yet g.
ReadApart(h, g) == \E c \in Hosts :
    pc[c] = "local" /\ h \notin unread[c] /\ g \in unread[c]

\* Zero-copy replication: h takes over a part of g without copying it.
Fetch(h, g, o) ==
    /\ o \in refs[g] \ refs[h]
    /\ RefsMove \/ ~ReadApart(h, g)
    /\ refs' = [refs EXCEPT ![h] = @ \cup {o}]
    /\ UNCHANGED <<now, bucket, mtime, uploading, backup, shadow, list, procs,
                   state, spent>>

\* What happens to objects that lost their last reference: ClickHouse deletes
\* them, or it is stopped before that and they stay.
Unlink(S) ==
    bucket' \in {bucket, [o \in Objects |->
                             IF o \in S \ Referenced' THEN "gone" ELSE bucket[o]]}

\* A part is merged away or dropped, or the host loses its disk.
Release(h, o) ==
    /\ o \in refs[h]
    /\ refs' = [refs EXCEPT ![h] = @ \ {o}]
    /\ UNCHANGED <<now, mtime, uploading, backup, shadow, list, procs, state, spent>>
    /\ Unlink({o})

\* ch-backup freezes what the host has now.
Backup(h) ==
    /\ backup[h] = {} /\ refs[h] # {} /\ spent.backups < MaxBackups
    /\ backup' = [backup EXCEPT ![h] = refs[h]]
    /\ shadow' = [shadow EXCEPT ![h] = TRUE]
    /\ spent' = [spent EXCEPT !.backups = @ + 1]
    /\ UNCHANGED <<now, bucket, mtime, uploading, refs, list, procs, state>>

\* The shadow directory is lost and the backup stays.
LoseShadow(h) ==
    /\ shadow[h]
    /\ shadow' = [shadow EXCEPT ![h] = FALSE]
    /\ UNCHANGED <<now, bucket, mtime, uploading, refs, backup, list, procs,
                   state, spent>>

DeleteBackup(h) ==
    /\ backup[h] # {}
    /\ backup' = [backup EXCEPT ![h] = {}]
    /\ shadow' = [shadow EXCEPT ![h] = FALSE]
    /\ UNCHANGED <<now, mtime, uploading, refs, list, procs, state, spent>>
    /\ Unlink(backup[h])

Server(h) ==
    \/ \E o \in Objects : Upload(h, o) \/ EndUpload(h, o) \/ Release(h, o)
    \/ \E g \in Hosts, o \in Objects : Fetch(h, g, o)
    \/ Backup(h) \/ LoseShadow(h) \/ DeleteBackup(h)

-----------------------------------------------------------------------------
(* The command *)

Goto(c, label) == pc' = [pc EXCEPT ![c] = label]

\* Whether the command inspects an object, by its age.  A mutant: to_time is
\* ignored.
InIntervalUpToNow(o, from) == from = NoLimit \/ mtime[o] >= now - from
InInterval(o, from) ==
    /\ mtime[o] <= now - Guard
    /\ from = NoLimit \/ mtime[o] >= now - from

\* clean_command starts on a host.
Start(c, options) ==
    /\ pc[c] = "idle" /\ spent.runs < MaxRuns
    /\ opt' = [opt EXCEPT ![c] = options]
    /\ Goto(c, IF options.saved THEN "reuse" ELSE "create")
    /\ remote' = [remote EXCEPT ![c] = {}]
    /\ local' = [local EXCEPT ![c] = {}]
    /\ unread' = [unread EXCEPT ![c] = Hosts]
    /\ orphans' = [orphans EXCEPT ![c] = {}]
    /\ todo' = [todo EXCEPT ![c] = {}]
    /\ sizes' = [sizes EXCEPT ![c] = [listing |-> 0, total |-> 0]]
    /\ asked' = [asked EXCEPT ![c] = {}]
    /\ since' = [since EXCEPT ![c] = now]
    /\ spent' = [spent EXCEPT !.runs = @ + 1]
    /\ UNCHANGED <<world, list, state, ignored>>

\* --use-saved-list: the table must exist, so that its name must not be a
\* unique one; a table with outdated columns is made again.
ReuseList(c) ==
    /\ pc[c] = "reuse"
    /\ IF opt[c].keep /\ list # NoList
       THEN Goto(c, "local") \/ Goto(c, "create")
       ELSE Goto(c, "failed")
    /\ since' = [since EXCEPT ![c] = now]
    /\ UNCHANGED <<world, list, opt, remote, unread, local, orphans, todo, sizes,
                   asked, state, spent, ignored>>

\* _create_remote_blobs_table drops the old table.  With --keep-paths it is
\* the replicated table that all hosts of the shard share; otherwise its name
\* is unique.
CreateList(c) ==
    /\ pc[c] = "create"
    /\ list' = IF opt[c].keep THEN {} ELSE list
    /\ Goto(c, "fill")
    /\ UNCHANGED <<world, opt, remote, unread, local, orphans, todo, sizes,
                   asked, since, state, spent, ignored>>

\* _collect_remote_blobs, whose interval counts from its start; a concurrent
\* run may be filling the same table.
FillList(c) ==
    /\ pc[c] = "fill"
    /\ LET found == {o \in Stored : InInterval(o, opt[c].from)} IN
       IF opt[c].keep
       THEN list' = list \cup found /\ UNCHANGED remote
       ELSE remote' = [remote EXCEPT ![c] = found] /\ UNCHANGED list
    /\ since' = [since EXCEPT ![c] = now]
    /\ Goto(c, "local")
    /\ UNCHANGED <<world, opt, unread, local, orphans, todo, sizes, asked,
                   state, spent, ignored>>

\* The INSERT ... SELECT over system.remote_data_paths of the shard: the
\* hosts answer one by one.
ReadHost(c, h) ==
    /\ pc[c] = "local" /\ h \in unread[c]
    /\ unread' = [unread EXCEPT ![c] = @ \ {h}]
    /\ local' = [local EXCEPT ![c] = @ \cup Visible(h)]
    /\ Goto(c, IF unread'[c] = {} THEN "backups" ELSE "local")
    /\ UNCHANGED <<world, list, opt, remote, orphans, todo, sizes, asked,
                   since, state, spent, ignored>>

\* get_missing_chs3_backups: the backups that are not in the shadow directory
\* of this host.  A mutant: the backups of the other hosts.
BackupsOfOthers(c) == Hosts \ {c}
MissingBackups(c) == {h \in Hosts : h # c \/ ~shadow[h]}

\* _insert_missing_s3_backups_blobs
ReadBackups(c) ==
    /\ pc[c] = "backups"
    /\ local' = [local EXCEPT ![c] = @ \cup
          IF opt[c].backups THEN UNION {backup[h] : h \in MissingBackups(c)} ELSE {}]
    /\ Goto(c, "join")
    /\ UNCHANGED <<world, list, opt, remote, unread, orphans, todo, sizes, asked,
                   since, state, spent, ignored>>

\* _collect_orphaned_blobs reads the listing table again; the iterator is
\* made with an interval of its own, and the size of the listing is taken.
Antijoin(c) ==
    /\ pc[c] = "join"
    /\ LET table == IF opt[c].keep THEN list ELSE remote[c]
           found == table \ local[c]
       IN /\ orphans' = [orphans EXCEPT ![c] = found]
          /\ todo' = [todo EXCEPT ![c] =
                         {o \in found : InInterval(o, opt[c].from)}]
          /\ sizes' = [sizes EXCEPT ![c] = [listing |-> SizeOf(table), total |-> 0]]
    /\ Goto(c, "check")
    /\ UNCHANGED <<world, list, opt, remote, unread, local, asked, since, state,
                   spent, ignored>>

\* _sanity_check_before_cleanup.  The sample is any object of the table.  A
\* mutant: only the sample is checked.
BadSample(c, sample) == sample \in Misplaced
BadPaths(c, sample) == sample \in Misplaced \/ todo[c] \cap Misplaced # {}
BadSize(c) == /\ sizes[c].listing # 0
              /\ 100 * SizeOf(todo[c]) >= sizes[c].listing * ErrorPercent

SanityCheck(c) ==
    /\ pc[c] = "check"
    /\ \/ /\ orphans[c] = {}
          /\ Goto(c, IF BadSize(c) /\ ~opt[c].dry THEN "failed" ELSE "delete")
       \/ \E sample \in orphans[c] :
             Goto(c, IF (BadPaths(c, sample) \/ BadSize(c)) /\ ~opt[c].dry
                     THEN "failed" ELSE "delete")
    /\ UNCHANGED <<world, list, opt, remote, unread, local, orphans, todo, sizes,
                   asked, since, state, spent, ignored>>

\* _calculate_size_limits
SizeLimit(c) ==
    LET part == (sizes[c].listing * MaxPercent) \div 100
    IN IF MaxBytes # 0 THEN Min({part, MaxBytes}) ELSE part

\* The first KEYS_BATCH_SIZE objects of the iterator, oldest first.
IsBatch(c, batch) ==
    /\ batch \subseteq todo[c]
    /\ Cardinality(batch) = Min({BatchSize, Cardinality(todo[c])})
    /\ \A o \in batch, p \in todo[c] \ batch : mtime[o] <= mtime[p]

\* The size left after earlier batches.  A mutant: they are forgotten.
FitsAlone(c, objects) == SizeOf(objects) <= SizeLimit(c)
Fits(c, objects) == sizes[c].total + SizeOf(objects) <= SizeLimit(c)

\* _process_objects_batch drops the largest objects until the rest fits.
FitsLimit(c, batch, objects) ==
    /\ objects \subseteq batch /\ Fits(c, objects)
    /\ \A o \in objects, p \in batch \ objects : Size[o] <= Size[p]
    /\ objects # batch =>
          \E p \in batch \ objects :
              /\ \A q \in batch \ objects : Size[p] <= Size[q]
              /\ ~Fits(c, objects \cup {p})

\* One turn of the loop of _cleanup_orphaned_objects: delete_objects reports
\* the keys it did not delete, and the report is not read.
DeleteBatch(c, batch, objects) ==
    /\ pc[c] = "delete" /\ todo[c] # {}
    /\ IsBatch(c, batch) /\ FitsLimit(c, batch, objects)
    /\ IF opt[c].dry THEN UNCHANGED <<bucket, asked, ignored>>
       ELSE /\ asked' = [asked EXCEPT ![c] = @ \cup objects]
            /\ ignored' = IF opt[c].backups THEN ignored ELSE ignored \cup objects
            /\ \E done \in SUBSET objects :
                  bucket' = [o \in Objects |->
                     IF o \in done THEN "gone" ELSE bucket[o]]
    /\ \/ /\ sizes' = [sizes EXCEPT ![c].total = @ + SizeOf(objects)]
          /\ todo' = [todo EXCEPT ![c] = @ \ batch]
          /\ Goto(c, IF objects # batch THEN "save" ELSE "delete")
       \/ ~opt[c].dry /\ Goto(c, "failed") /\ UNCHANGED <<sizes, todo>>
    /\ UNCHANGED <<now, mtime, uploading, refs, backup, shadow, list, opt, remote,
                   unread, local, orphans, since, state, spent>>

\* A mutant of DeleteDone: the last, shorter batch is left out.
DeleteFullBatches(c) ==
    /\ pc[c] = "delete" /\ Cardinality(todo[c]) < BatchSize
    /\ Goto(c, "save")
    /\ UNCHANGED <<world, list, opt, remote, unread, local, orphans, todo, sizes,
                   asked, since, state, spent, ignored>>

DeleteDone(c) ==
    /\ pc[c] = "delete" /\ todo[c] = {}
    /\ Goto(c, "save")
    /\ UNCHANGED <<world, list, opt, remote, unread, local, orphans, todo, sizes,
                   asked, since, state, spent, ignored>>

\* Any query and any request of these steps may raise; so may dropping the
\* unique listing table when clean() is done.
Fail(c) ==
    /\ \/ pc[c] \in {"reuse", "create", "fill", "local", "backups", "join",
                     "check", "delete"}
       \/ pc[c] = "save" /\ ~opt[c].keep
    /\ Goto(c, "failed")
    /\ UNCHANGED <<world, list, opt, remote, unread, local, orphans, todo, sizes,
                   asked, since, state, spent, ignored>>

\* The finally block of clean_command: result_stat is what clean() returned,
\* or still the empty one if clean() raised, and error_msg is never set.
SaveState(c) ==
    /\ pc[c] \in {"save", "failed"}
    /\ state' = [orphaned_objects_size |->
                    IF pc[c] = "save" THEN sizes[c].total ELSE 0,
                 error_msg |-> ""]
    /\ Goto(c, "idle")
    /\ UNCHANGED <<world, list, opt, remote, unread, local, orphans, todo, sizes,
                   asked, since, spent, ignored>>

\* The command is killed.
Kill(c) ==
    /\ pc[c] # "idle" /\ spent.kills < MaxCrashes
    /\ Goto(c, "idle")
    /\ spent' = [spent EXCEPT !.kills = @ + 1]
    /\ UNCHANGED <<world, list, opt, remote, unread, local, orphans, todo, sizes,
                   asked, since, state, ignored>>

Command(c) ==
    \/ ReuseList(c) \/ CreateList(c) \/ FillList(c)
    \/ \E h \in Hosts : ReadHost(c, h)
    \/ ReadBackups(c) \/ Antijoin(c) \/ SanityCheck(c)
    \/ \E batch \in SUBSET todo[c] : \E objects \in SUBSET batch :
          DeleteBatch(c, batch, objects)
    \/ DeleteDone(c) \/ Fail(c) \/ SaveState(c)

-----------------------------------------------------------------------------

\* No command has run yet.
NoCommandYet ==
    /\ list = NoList
    /\ pc = [c \in Hosts |-> "idle"]
    /\ opt = [c \in Hosts |-> [dry |-> TRUE, keep |-> FALSE, saved |-> FALSE,
                               backups |-> TRUE, from |-> NoLimit]]
    /\ remote = [c \in Hosts |-> {}] /\ unread = remote /\ local = remote
    /\ orphans = remote /\ todo = remote /\ asked = remote
    /\ sizes = [c \in Hosts |-> [listing |-> 0, total |-> 0]]
    /\ since = [c \in Hosts |-> 0]
    /\ ignored = {}
    /\ state = NoList
    /\ spent = [runs |-> 0, kills |-> 0, backups |-> 0]

Init ==
    /\ now = 0
    /\ bucket = [o \in Objects |-> "unused"]
    /\ mtime = [o \in Objects |-> 0]
    /\ uploading = [h \in Hosts |-> {}]
    /\ refs = uploading /\ backup = uploading
    /\ shadow = [h \in Hosts |-> FALSE]
    /\ NoCommandYet

Next ==
    \/ Tick
    \/ \E h \in Hosts :
          \/ Server(h)
          \/ \E options \in Options : Start(h, options)
          \/ Command(h)
          \/ Kill(h)

Spec == Init /\ [][Next]_vars

-----------------------------------------------------------------------------
(* Properties *)

Labels == {"idle", "reuse", "create", "fill", "local", "backups", "join",
           "check", "delete", "save", "failed"}

\* Every variable has its type.
TypeOK ==
    /\ now \in 0..MaxTime
    /\ bucket \in [Objects -> {"unused", "stored", "gone"}]
    /\ mtime \in [Objects -> 0..MaxTime]
    /\ uploading \in [Hosts -> SUBSET Objects]
    /\ refs \in [Hosts -> SUBSET Objects]
    /\ backup \in [Hosts -> SUBSET Objects]
    /\ shadow \in [Hosts -> BOOLEAN]
    /\ list = NoList \/ list \subseteq Objects
    /\ pc \in [Hosts -> Labels]
    /\ opt \in [Hosts -> OptionType]
    /\ remote \in [Hosts -> SUBSET Objects]
    /\ unread \in [Hosts -> SUBSET Hosts]
    /\ local \in [Hosts -> SUBSET Objects]
    /\ orphans \in [Hosts -> SUBSET Objects]
    /\ todo \in [Hosts -> SUBSET Objects]
    /\ sizes \in [Hosts -> [listing : Nat, total : Nat]]
    /\ asked \in [Hosts -> SUBSET Objects]
    /\ since \in [Hosts -> 0..MaxTime]
    /\ ignored \subseteq Objects

\* Every object that a table, a write in progress or a backup references is
\* in the bucket: the command never deletes one of them, whatever the hosts
\* do between the listing, the reads of the hosts and the deletion.  What is lost
\* of a backup was asked for by a run that did not read the missing backups; such
\* a run still deletes nothing of a table or of a write.
ReferencedAreStored ==
    \A h \in Hosts :
        refs[h] \cup uploading[h] \cup (backup[h] \ ignored) \subseteq Stored

\* The guard interval counts from the moment the listing was there: what the
\* command deletes was already that old when it began to read the hosts.
YoungAreKept ==
    \A c \in Hosts : \A o \in asked[c] : mtime[o] <= since[c] - Guard

\* One run never asks to delete more than --max-size-to-delete-bytes and
\* --max-size-to-delete-fraction allow, over all of its batches.
SizeLimitIsKept ==
    \A c \in Hosts : asked[c] # {} =>
        /\ 100 * SizeOf(asked[c]) <= MaxPercent * sizes[c].listing
        /\ MaxBytes # 0 => SizeOf(asked[c]) <= MaxBytes

\* Nothing is deleted by a run whose deletion would be suspicious: no object
\* with an unexpected key, and less than the threshold of the listed size.
SanityIsKept ==
    \A c \in Hosts :
        /\ asked[c] \cap Misplaced = {}
        /\ asked[c] # {} /\ sizes[c].listing # 0 =>
              100 * SizeOf(asked[c]) < sizes[c].listing * ErrorPercent

\* A run that ends well has asked to delete every orphaned object, unless one
\* that is left would not have fitted into the size limit.
OnlyTheLimitSpares ==
    \A c \in Hosts :
        pc[c] = "save" /\ ~opt[c].dry /\ opt[c].from = NoLimit
        => LET spared == orphans[c] \ asked[c] IN
           spared # {} => \E o \in spared :
                             SizeOf(asked[c]) + Size[o] > SizeLimit(c)

\* The state that is stored for the monitoring says that there are no
\* orphaned objects only if the run found none.  It does not hold for a run that raises.
FoundIsReported ==
    [][\A c \in Hosts :
         /\ pc[c] \in {"save", "failed"} /\ pc'[c] = "idle" /\ state' # state
         /\ state'.orphaned_objects_size = 0 /\ state'.error_msg = ""
         => \A o \in todo[c] : Size[o] = 0]_vars
=============================================================================
