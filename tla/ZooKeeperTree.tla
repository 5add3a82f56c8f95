-------------------------- MODULE ZooKeeperTree --------------------------
(***************************************************************************)
(* The ZooKeeper tree as chadmin sees it (internal/zookeeper.py), and its  *)
(* recursive deletion: the paths asked for are normalised, their subtrees  *)
(* are listed breadth first, and the listed nodes are deleted in           *)
(* transactions, one by one where a transaction fails.  The servers of the *)
(* cluster create and delete nodes between any two of these steps.         *)
(*                                                                         *)
(* A path is a sequence of names, the root is <<>>; names are the strings  *)
(* between the slashes, compared as the code compares them.                *)
(***************************************************************************)
EXTENDS Naturals, FiniteSets, Sequences, SequencesExt

CONSTANTS
    Names,      \* every name, as a sequence in the order of their strings
    LowExtends, \* pairs <<a, b>>: b is a followed by a character below "/"
    BatchSize   \* operations_in_transaction

ASSUME BatchSizeAssumption == BatchSize \in Nat \ {0}

VARIABLES
    tree,   \* the nodes that exist
    del,    \* the deletion: its phase, the queue, the nodes, the chunk
    fresh   \* history: the nodes servers created since the command started

treeVars == <<tree, del, fresh>>

---------------------------------------------------------------------------
(* What ZooKeeper keeps and answers *)

Subtree(t, p) == {n \in t : IsPrefix(p, n)}

Below(t, p) == Subtree(t, p) \ {p}

WithParents(p) == {SubSeq(p, 1, i) : i \in 1..Len(p)}

\* get_children: a missing node has no children, for the code.
Children(t, p) == {n \in t : Len(n) = Len(p) + 1 /\ IsPrefix(p, n)}

\* A multi of deletions is applied as a whole, when each one finds its node
\* without children after the ones before it.
TransactionSucceeds(t, nodes) ==
    \A i \in 1..Len(nodes) :
        LET left == t \ {nodes[j] : j \in 1..(i - 1)}
        IN  nodes[i] \in left /\ Children(left, nodes[i]) = {}

---------------------------------------------------------------------------
(* remove_subpaths *)

Rank(name) == CHOOSE i \in DOMAIN Names : Names[i] = name

\* The order of list.sort() on the joined paths.  It is not the order of the
\* components: after a shared component the slash sorts behind "-", "." or "%".
SortsBefore(p, q) ==
    \/ IsStrictPrefix(p, q)
    \/ \E i \in 1..Len(p) :
        /\ i <= Len(q) /\ p[i] # q[i] /\ SubSeq(p, 1, i - 1) = SubSeq(q, 1, i - 1)
        /\ IF <<p[i], q[i]>> \in LowExtends THEN Len(p) = i
           ELSE IF <<q[i], p[i]>> \in LowExtends THEN Len(q) > i
           ELSE Rank(p[i]) < Rank(q[i])

\* Mutated: a path that is a prefix as a string covers the other one.
RemoveTextPrefixes(paths) ==
    LET covers(q, p) ==
            \/ IsStrictPrefix(q, p)
            \/ Len(p) = Len(q) /\ Front(p) = Front(q) /\ <<Last(q), Last(p)>> \in LowExtends
    IN  {p \in paths : ~\E q \in paths :
            /\ covers(q, p)
            /\ \A x \in paths : SortsBefore(q, x) /\ SortsBefore(x, p) => covers(q, x)}

\* A path is left out when the last path kept before it is its prefix, compared by
\* whole components (so that /a does not cover /ab): then a prefix of it covers all
\* the paths in between, too.
RemoveSubpaths(paths) ==
    {p \in paths : ~\E q \in paths :
        /\ IsStrictPrefix(q, p)
        /\ \A x \in paths : SortsBefore(q, x) /\ SortsBefore(x, p) => IsPrefix(q, x)}

Sorted(paths) ==
    {s \in [1..Cardinality(paths) -> paths] :
        \A i, j \in DOMAIN s : i < j => SortsBefore(s[i], s[j])}

---------------------------------------------------------------------------
(* delete_recursive and delete_nodes_transaction *)

NoDelete == [phase |-> "none", queue |-> <<>>, nodes |-> <<>>, chunk |-> <<>>]

\* delete_recursive(zk, paths): nothing is done for an empty list.
StartedDelete(paths) ==
    IF paths = {} THEN {[NoDelete EXCEPT !.phase = "done"]}
    ELSE {[NoDelete EXCEPT !.phase = "list", !.queue = s] : s \in Sorted(RemoveSubpaths(paths))}

DeleteLists ==
    /\ del.phase = "list" /\ del.queue # <<>>
    /\ del' = [del EXCEPT
                 !.queue = Tail(@) \o SetToSeq(Children(tree, Head(@))),
                 !.nodes = Append(@, Head(del.queue))]
    /\ UNCHANGED <<tree, fresh>>

\* A dry run stops here; otherwise the nodes are deleted in the reverse order.
DeleteListed(dry) ==
    /\ del.phase = "list" /\ del.queue = <<>>
    /\ del' = [del EXCEPT !.phase = IF dry THEN "done" ELSE "delete", !.nodes = Reverse(@)]
    /\ UNCHANGED <<tree, fresh>>

\* The transaction of the next chunk; when it fails its nodes are deleted one by
\* one.
DeleteTransaction ==
    /\ del.phase = "delete" /\ del.nodes # <<>>
    /\ LET n == IF Len(del.nodes) < BatchSize THEN Len(del.nodes) ELSE BatchSize
           chunk == SubSeq(del.nodes, 1, n)
           rest == SubSeq(del.nodes, n + 1, Len(del.nodes))
       IN  IF TransactionSucceeds(tree, chunk)
           THEN /\ tree' = tree \ {chunk[i] : i \in 1..n}
                /\ del' = [del EXCEPT !.nodes = rest]
           ELSE /\ del' = [del EXCEPT !.nodes = rest, !.chunk = chunk, !.phase = "single"]
                /\ UNCHANGED tree
    /\ UNCHANGED fresh

\* zk.delete(node, recursive=True) of kazoo deletes what is below the node ...
DeleteBelow ==
    /\ del.phase = "single" /\ del.chunk # <<>>
    /\ tree' = tree \ Below(tree, Head(del.chunk))
    /\ del' = [del EXCEPT !.phase = "last"]
    /\ UNCHANGED fresh

\* Mutated: a node that is gone is tried again.
DeleteSingleOrFail ==
    /\ del.phase = "last"
    /\ LET node == Head(del.chunk)
       IN  IF Children(tree, node) = {} /\ node \in tree
           THEN /\ tree' = tree \ {node}
                /\ del' = [del EXCEPT !.phase = "single", !.chunk = Tail(@)]
           ELSE del' = [del EXCEPT !.phase = "single"] /\ UNCHANGED tree
    /\ UNCHANGED fresh

\* ... and then the node: it may be gone (skipped), or a server may have created
\* a child meanwhile (NotEmptyError), and the loop starts again.
DeleteSingle ==
    /\ del.phase = "last"
    /\ LET node == Head(del.chunk)
       IN  IF Children(tree, node) = {}
           THEN /\ tree' = tree \ {node}
                /\ del' = [del EXCEPT !.phase = "single", !.chunk = Tail(@)]
           ELSE del' = [del EXCEPT !.phase = "single"] /\ UNCHANGED tree
    /\ UNCHANGED fresh

DeleteSingles ==
    /\ del.phase = "single" /\ del.chunk = <<>>
    /\ del' = [del EXCEPT !.phase = "delete"]
    /\ UNCHANGED <<tree, fresh>>

DeleteReturns ==
    /\ del.phase = "delete" /\ del.nodes = <<>>
    /\ del' = [del EXCEPT !.phase = "done"]
    /\ UNCHANGED <<tree, fresh>>

DeleteStep(dry) ==
    \/ DeleteLists \/ DeleteListed(dry) \/ DeleteTransaction \/ DeleteBelow
    \/ DeleteSingle \/ DeleteSingles \/ DeleteReturns

---------------------------------------------------------------------------
(* The servers *)

ServerCreates(p) ==
    /\ tree' = tree \cup WithParents(p)
    /\ fresh' = fresh \cup (WithParents(p) \ tree)

ServerDeletes(p) ==
    /\ p \in tree
    /\ tree' = tree \ Subtree(tree, p)
    /\ UNCHANGED fresh

===========================================================================
