----------------------------- MODULE Dictionary -----------------------------
(***************************************************************************)
(* What the kernel expects of binary_search_tree: a finite map in which a  *)
(* key may have several values.  The process table has at most one for a   *)
(* key; a table of open files can have more.                               *)
(***************************************************************************)
EXTENDS Naturals

CONSTANTS Keys, Values, None

VARIABLES dict,     \* how many entries there are of a key and a value
          found     \* what a lookup of a key gives

Entries == Keys \X Values

Init == dict = [e \in Entries |-> 0]

\* An insert adds its entry, whatever the key has already.
Insert(key, val) == dict' = [dict EXCEPT ![<<key, val>>] = @ + 1]

\* A removal drops the one entry that a lookup of its key finds, and nothing
\* when there is none.
Remove(key) ==
    dict' = IF found[key] = None THEN dict
                                 ELSE [dict EXCEPT ![<<key, found[key]>>] = @ - 1]

\* A lookup gives a value of its key whenever there is one.
Complete == \A key \in Keys :
                IF \E val \in Values : dict[<<key, val>>] > 0
                THEN found[key] \in Values /\ dict[<<key, found[key]>>] > 0
                ELSE found[key] = None
=============================================================================
