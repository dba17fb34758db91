--------------------------- MODULE MCProcessFiles ---------------------------
(* ProcessFiles for TLC: addresses of contexts are interchangeable. *)
EXTENDS ProcessFiles, TLC

Symmetry == Permutations(Context)
=============================================================================
