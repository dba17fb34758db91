---------------------------- MODULE InitProgram ----------------------------
(***************************************************************************)
(* The repository's user program (test/main.c) running on the kernel: it   *)
(* installs a handler for signal 17 and then, in a loop, starts a thread   *)
(* that terminates and waits for a signal.  Handlers return through the    *)
(* trampoline, which calls sigret.  The timer may interrupt anywhere.      *)
(***************************************************************************)
EXTENDS Kernel

VARIABLE pc     \* the next system call of main()

progVars == <<vars, pc>>

ProgInit == Init /\ pc = "sigaction"

Level(p) == processTable[p].ctx

Goto(here, there) == pc = here /\ pc' = there

\* main(): sigaction, then clone and sigwait for ever.
Main ==
    /\ Running(0) /\ Level(0) = 0
    /\ \/ Sigaction(0, SIGCHLD, FALSE) /\ Goto("sigaction", "clone")
       \/ Clone(0) /\ Goto("clone", "sigwait")
       \/ Sigwait(0) /\ Goto("sigwait", "clone")

\* thread(): terminates.
Thread(p) == p # 0 /\ Terminate(p) /\ UNCHANGED pc

\* handler() returns to trampoline().
Trampoline(p) == Running(p) /\ Level(p) > 0 /\ Sigret(p) /\ UNCHANGED pc

Preempt(p) == Tick(p) /\ UNCHANGED pc

ProgNext == \/ Main
            \/ \E p \in Pid : Thread(p) \/ Trampoline(p) \/ Preempt(p)

ProgSpec == ProgInit /\ [][ProgNext]_progVars

\* The program's sleeps and exits never leave the kernel following a null or a
\* dangling pointer: sigwait is documented as "Stop scheduling process until a
\* signal occurs", and the program relies on its thread's exit to be that
\* signal.
ProgNoFault == fault = "none"
=============================================================================
