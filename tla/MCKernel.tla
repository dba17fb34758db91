------------------------------ MODULE MCKernel ------------------------------
(***************************************************************************)
(* The instance of Kernel that TLC checks: the signals the programs use,   *)
(* the sets of rules the runs assume, and the symmetry of addresses, which *)
(* the kernel only compares.                                               *)
(***************************************************************************)
EXTENDS Kernel, TLC

MCSignals == {SIGCHLD}
MCSymmetry == Permutations(Nodes) \cup Permutations(Spaces)

Contract == AllRules \ {"init_stays"}
AnyExit == Contract \ {"leaf_exit"}
=============================================================================
