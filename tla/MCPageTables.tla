---------------------------- MODULE MCPageTables ----------------------------
(* Tables of two entries: eight pages a space.  One program has a single    *)
(* page; one has a section of a page and a half, a header that is not       *)
(* loaded and a section that starts in the page the first ends in; one has  *)
(* a second section that ends in it, too.                                   *)
EXTENDS PageTables

Sec(type, vaddr, memsize) == [type |-> type, vaddr |-> vaddr, memsize |-> memsize]

MCPrograms == {<<Sec("LOAD", 0, 3)>>,
               <<Sec("LOAD", 4, 6), Sec("NOTE", 0, 4), Sec("LOAD", 10, 7)>>,
               <<Sec("LOAD", 0, 2), Sec("LOAD", 2, 1)>>}
=============================================================================
