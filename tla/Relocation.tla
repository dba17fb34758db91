----------------------------- MODULE Relocation -----------------------------
(***************************************************************************)
(* Which table entries change their node when one is removed.  A table is  *)
(* a function from keys to records whose field node is the tree node the   *)
(* entry is in.  Kernel uses this in place of the tree; BinarySearchTree   *)
(* checks that the tree behaves so.                                        *)
(***************************************************************************)
EXTENDS Integers

\* binary_search_tree::remove.  A removed node that has children is not
\* unlinked: the value of its in-order neighbour is copied into it and that
\* neighbour's node is removed in the same way.  So a run of neighbours of p,
\* on one side of it, each move one node towards p, and the last node of the
\* run is freed.  Which run depends on the shape of the tree.
Chains(t, p) ==
    {{q \in DOMAIN t : p < q /\ q <= b} : b \in DOMAIN t}
        \cup {{q \in DOMAIN t : q < p /\ b <= q} : b \in DOMAIN t}

\* The element of a chain, or p itself, whose node q moves into.
TowardRemoved(p, M, q) == p                 \* mutant: all move into p's node
Toward(p, M, q) ==
    CHOOSE r \in M \cup {p} :
        /\ r # q
        /\ \A s \in (M \cup {p}) \ {q} :
               IF p < q THEN s < q => (r < q /\ s <= r)
                        ELSE s > q => (r > q /\ r <= s)

Removed(t, p, M) ==
    [q \in DOMAIN t \ {p} |->
        IF q \in M THEN [t[q] EXCEPT !.node = t[Toward(p, M, q)].node]
                   ELSE t[q]]
=============================================================================
