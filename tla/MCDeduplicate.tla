--------------------------- MODULE MCDeduplicate ---------------------------
(* Instances of Deduplicate for TLC. *)
EXTENDS Deduplicate, TLC

All == [tables |-> Tables, min |-> 0, only |-> Partitions,
        ignore |-> FALSE, dry |-> FALSE]
DryRun == [All EXCEPT !.dry = TRUE]
FromSecond == [All EXCEPT !.min = 2]
Afresh == [FromSecond EXCEPT !.ignore = TRUE]
FirstOfOneTable == [All EXCEPT !.only = {1}, !.tables = {CHOOSE t \in Tables : TRUE}]

JustAll == {All}
Restricted == {All, FromSecond}
Mixed == {All, DryRun, Afresh, FirstOfOneTable}

Symmetry == Permutations(Tables)
=============================================================================
