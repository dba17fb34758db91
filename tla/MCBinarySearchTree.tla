------------------------- MODULE MCBinarySearchTree -------------------------
(***************************************************************************)
(* The instance of BinarySearchTree that TLC checks.  Addresses of nodes   *)
(* are only compared for equality, so they are interchangeable.            *)
(***************************************************************************)
EXTENDS BinarySearchTree, TLC

\* One value for a key; key 3 repeats, and has two values to tell its entries
\* apart.
MCMaxEntries == [key \in Keys |-> IF key = 3 THEN 3 ELSE 1]
MCValuesOf == [key \in Keys |-> IF key = 3 THEN {3, 13} ELSE {key}]
MCValues == UNION {MCValuesOf[key] : key \in Keys}

MCSymmetry == Permutations(Nodes)
=============================================================================
