---------------------------- MODULE MCBootMemory ----------------------------
(* A machine of sixteen pages of four bytes: the device region lies above     *)
(* memory or cuts its end; the RAM disk lies inside, is not page aligned,   *)
(* or overlaps the kernel.                                                  *)
EXTENDS BootMemory

MCMmio == {<<70, 4>>, <<59, 8>>}
MCRamDisks == {<<32, 8>>, <<42, 13>>, <<25, 5>>, <<56, 16>>}
=============================================================================
