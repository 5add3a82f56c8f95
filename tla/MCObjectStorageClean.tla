------------------------ MODULE MCObjectStorageClean ------------------------
(* Instances of ObjectStorageClean for TLC. *)
EXTENDS ObjectStorageClean, TLC

CONSTANTS o1, o2, o3, o4

\* Every object has a size of its own, or all have the same.
SameSize == [o \in Objects |-> 1]
Sizes == [o \in Objects |-> CASE o = o1 -> 1 [] o = o2 -> 2
                              [] o = o3 -> 3 [] o = o4 -> 4]

Clean == [dry |-> FALSE, keep |-> FALSE, saved |-> FALSE, backups |-> TRUE,
          from |-> NoLimit]
Keep == [Clean EXCEPT !.keep = TRUE]
Reuse == [Keep EXCEPT !.saved = TRUE]

WithOrWithoutBackups == {Clean, [Clean EXCEPT !.backups = FALSE]}
KeepThenReuse == {Keep, Reuse, [Reuse EXCEPT !.from = 1]}

\* A bucket in use, as the actions of ClickHouse make it from Init: three
\* objects were written and committed at time 0, the tables of the hosts still
\* have some of them, and the fourth is not written yet.
Written == {o1, o2, o3}

InUse ==
    /\ now = 1
    /\ bucket = [o \in Objects |-> IF o \in Written THEN "stored" ELSE "unused"]
    /\ mtime = [o \in Objects |-> 0]
    /\ uploading = [h \in Hosts |-> {}]
    /\ refs \in [Hosts -> SUBSET Written]
    /\ backup = uploading
    /\ shadow = [h \in Hosts |-> FALSE]
    /\ NoCommandYet

SpecInUse == InUse /\ [][Next]_vars

Symmetry == Permutations(Hosts) \cup Permutations(Objects)
=============================================================================
