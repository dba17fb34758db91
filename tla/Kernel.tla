------------------------------- MODULE Kernel -------------------------------
(***************************************************************************)
(* The process core of the kernel: the process table, the round-robin      *)
(* scheduler, signals, address-space reference counts and the system calls *)
(* that change them (src/kernel.cpp, src/sched/process.cpp,                *)
(* src/sched/queue.cpp).                                                   *)
(*                                                                         *)
(* Exceptions mask interrupts and nothing in EL1 unmasks them, so every    *)
(* system call and every timer interrupt is one atomic step; user code is  *)
(* preempted between any two of its system calls.                          *)
(*                                                                         *)
(* The process table is an AVL tree whose nodes hold the Process objects   *)
(* by value, and the scheduler queue holds pointers to those objects.  A   *)
(* pointer is modelled by the tree node it points into.                    *)
(***************************************************************************)
EXTENDS Relocation, Sequences, FiniteSets

CONSTANTS
    Nodes,      \* addresses of tree nodes of the process table
    Spaces,     \* addresses of AddressSpace objects
    Signals,    \* the signal numbers the programs use
    Null,       \* the null pointer
    Rules,      \* the rules the programs keep (see AllRules)
    MaxPid,     \* bound: the last process id handed out
    MaxQueue,   \* bound: the length of the ready queue
    MaxLevel    \* bound: the nesting of signal handlers

MAX_SIGNAL == 64
SIGCHLD == 17

Pid == 0 .. MaxPid
State == {"ACTIVE", "SIGNAL", "SIGWAIT"}

\* A saved user context is how many signal handlers deep the program is in it.
Context == 0 .. MaxLevel

Process == [node : Nodes, parent : Pid, state : State,
            ctx : Context, backupCtx : Context \cup {Null},
            addressSpace : Spaces, signalHandlers : SUBSET Signals]

\* What a program may be asked not to do.  No rule is enforced by the kernel;
\* a run states which of them its programs keep.
AllRules == {"handled_wakeups",     \* only handled signals go to a sleeper
             "no_sleep_in_handler", \* a handler does not call sigwait
             "leaf_exit",           \* an exit relocates no table entry
             "stays_runnable",      \* somebody else is ready on sleep or exit
             "memory",              \* kernel allocations succeed
             "keeps_files",         \* an exit leaves an open file to destroy
             "init_stays"}          \* the first process does not exit

ASSUME SignalsAssumption == Signals \subseteq 0 .. MAX_SIGNAL - 1
ASSUME RulesAssumption == Rules \subseteq AllRules
ASSUME BoundsAssumption == /\ MaxPid \in Nat
                           /\ MaxQueue \in Nat
                           /\ MaxLevel \in Nat
ASSUME NullAssumption == Null \notin Nodes /\ Null \notin Context
ASSUME HeapAssumption == Nodes # {} /\ Spaces # {}

VARIABLES
    processTable,   \* live pid -> its Process
    queue,          \* the ready queue: nodes, front first
    cur,            \* scheduler.cur_Process
    spaces,         \* the AddressSpace objects that are allocated
    refCount,       \* their reference counts
    loaded,         \* the address space TTBR0 points to
    currPid,        \* the next process id
    fault           \* "none", or the invalid pointer the kernel followed

vars == <<processTable, queue, cur, spaces, refCount, loaded, currPid, fault>>
memVars == <<spaces, refCount, loaded>>

live == DOMAIN processTable
Elems(q) == {q[i] : i \in 1 .. Len(q)}
NodesOf(t) == {t[p].node : p \in DOMAIN t}

Kept(rule) == rule \in Rules
Running(p) == fault = "none" /\ p \in live /\ processTable[p].node = cur

\* The constructor of Process and its copy into a node of the tree: the context
\* is at its entry function, and no signal has an action.
NewProcess(n, parent, a) ==
    [node |-> n, parent |-> parent, state |-> "ACTIVE",
     ctx |-> 0, backupCtx |-> Null,
     addressSpace |-> a, signalHandlers |-> {}]

\* aarch64_boot: the table holds pid 0, which is its own parent; exec gave it
\* an address space and left it current.
Init ==
    \E n \in Nodes, a \in Spaces :
        /\ processTable = [p \in {0} |-> NewProcess(n, 0, a)]
        /\ queue = <<>>
        /\ cur = n
        /\ spaces = {a}
        /\ refCount = [b \in Spaces |-> IF b = a THEN 1 ELSE 0]
        /\ loaded = a
        /\ currPid = 1
        /\ fault = "none"

-----------------------------------------------------------------------------
(* Pieces of the system calls *)

\* Kernel::raiseSignal and Process::signalTrigger.  Only NONE and HANDLER are
\* ever stored as actions, so the KILL branch is not reached.
AcceptsAlways(t, r) == r \in DOMAIN t       \* mutant: state not checked
Accepts(t, r) == r \in DOMAIN t /\ t[r].state \in {"ACTIVE", "SIGWAIT"}
Enters(t, r, sig) == Accepts(t, r) /\ sig \in t[r].signalHandlers
Triggered(t, r, sig) ==
    IF Enters(t, r, sig)
    THEN [t EXCEPT ![r].state = "SIGNAL",
                   ![r].backupCtx = t[r].ctx,
                   ![r].ctx = @ + 1]
    ELSE t
WokenAlways(t, q, r) ==                     \* mutant: enqueues the awake too
    IF Accepts(t, r) THEN Append(q, t[r].node) ELSE q
WokenNever(t, q, r) == q                    \* mutant: wakeup forgotten
Woken(t, q, r) ==
    IF Accepts(t, r) /\ t[r].state = "SIGWAIT" THEN Append(q, t[r].node) ELSE q

\* What a raise may cost: the bound on handler nesting, and the rule that a
\* sleeping process is only sent signals it handles.
MayRaise(t, r, sig) ==
    /\ Enters(t, r, sig) => t[r].ctx < MaxLevel
    /\ Kept("handled_wakeups") /\ Accepts(t, r) /\ t[r].state = "SIGWAIT"
           => sig \in t[r].signalHandlers

\* sched_next first puts the current process at the back of the queue.
ReadyKeepsOld(q, c) == Append(q, cur)       \* mutant: cur_Process not cleared
ReadyAtFront(q, c) == IF c = Null THEN q ELSE <<c>> \o q  \* mutant: LIFO
Ready(q, c) == IF c = Null THEN q ELSE Append(q, c)

\* The address space of the process in node n.
SpaceKept(t, n) == loaded                   \* mutant: nothing is loaded
SpaceIn(t, n) == t[CHOOSE p \in DOMAIN t : t[p].node = n].addressSpace

\* Kernel::switchTask: sched_next takes the front of the queue, and the new
\* process's address space is loaded.  With nothing to run cur_Process stays
\* null and is dereferenced.
SwitchTask(t, q, c) ==
    LET ready == Ready(q, c)
    IN  IF ready = <<>>
        THEN /\ queue' = <<>>
             /\ cur' = Null
             /\ fault' = "null"
             /\ loaded' = loaded
        ELSE /\ Len(ready) <= MaxQueue + 1
             /\ queue' = Tail(ready)
             /\ cur' = Head(ready)
             /\ IF Head(ready) \in NodesOf(t)
                THEN fault' = "none" /\ loaded' = SpaceIn(t, Head(ready))
                ELSE fault' = "dangling" /\ loaded' = loaded

\* References after the removal: ~Process drops p's, and each copy by
\* Process::operator= between equal address spaces adds one that is never
\* dropped.
Copies(t, p, M, a) ==
    Cardinality({q \in M : /\ t[q].addressSpace = a
                           /\ t[Toward(p, M, q)].addressSpace = a})
RefsAfterRemoval(t, p, M) ==
    [a \in Spaces |-> refCount[a] + Copies(t, p, M, a)
                          - (IF t[p].addressSpace = a THEN 1 ELSE 0)]

-----------------------------------------------------------------------------
(* Interrupts and system calls of the running process p *)

\* handle_irq stores the interrupted context and SystemTimer::handleInterrupt
\* calls switchTask.
Tick(p) ==
    /\ Running(p)
    /\ SwitchTask(processTable, queue, cur)
    /\ UNCHANGED <<processTable, spaces, refCount, currPid>>

Yield(p) ==
    /\ Running(p)
    /\ SwitchTask(processTable, queue, cur)
    /\ UNCHANGED <<processTable, spaces, refCount, currPid>>

\* Process::clone and Kernel::addProcess.  The constructor of the new Process
\* and its copy into the tree node each take a reference; the first object is
\* never deleted.
Clone(p) ==
    /\ Running(p)
    /\ currPid <= MaxPid
    /\ Len(queue) < MaxQueue
    /\ LET a == processTable[p].addressSpace
       IN \E n \in Nodes \ NodesOf(processTable) :
            /\ processTable' = [q \in live \cup {currPid} |->
                   IF q = currPid
                   THEN NewProcess(n, p, a)
                   ELSE processTable[q]]
            /\ queue' = Append(queue, n)
            /\ refCount' = [refCount EXCEPT ![a] = @ + 2]
    /\ currPid' = currPid + 1
    /\ UNCHANGED <<cur, spaces, loaded, fault>>

\* Process::clone returns nullptr without a kernel stack, and addProcess
\* dereferences it.
CloneNoMemory(p) ==
    /\ Running(p)
    /\ ~Kept("memory")
    /\ currPid <= MaxPid
    /\ currPid' = currPid + 1
    /\ fault' = "null"
    /\ UNCHANGED <<processTable, queue, cur, memVars>>

\* switchTask, clone and a wakeup enqueue a process in a new list node, which
\* is written to without a check.
EnqueueNoMemory(p) ==
    /\ Running(p)
    /\ ~Kept("memory")
    /\ fault' = "null"
    /\ UNCHANGED <<processTable, queue, cur, memVars, currPid>>

\* What follows the removal of an exiting process.  ~Process closes the files
\* of the object destroyed last, and the destructor of their tree follows a null
\* pointer if that left it empty (ProcessFiles).  An object that takes over a
\* saved context copies it unchecked.
AfterRemoval(t, q, M) ==
    \/ SwitchTask(t, q, Null)
    \/ /\ ~Kept("keeps_files") \/ (~Kept("memory") /\ M # {})
       /\ fault' = "null"
       /\ queue' = q
       /\ UNCHANGED <<cur, loaded>>

\* Signal 17 for the parent, removal from the table, next process.
Terminate(p) ==
    /\ Running(p)
    /\ MayRaise(processTable, processTable[p].parent, SIGCHLD)
    /\ Kept("stays_runnable") => queue # <<>>
    /\ Kept("init_stays") => p # 0
    /\ LET r == processTable[p].parent
           t == Triggered(processTable, r, SIGCHLD)
       IN \E M \in Chains(t, p) :
            /\ Kept("leaf_exit") => M = {}
            /\ processTable' = Removed(t, p, M)
            /\ refCount' = RefsAfterRemoval(t, p, M)
            /\ spaces' = {a \in spaces : t[p].addressSpace = a
                                             => refCount'[a] > 0}
            /\ AfterRemoval(processTable', Woken(processTable, queue, r), M)
    /\ UNCHANGED currPid

Sigraise(p, r, sig) ==
    /\ Running(p)
    /\ MayRaise(processTable, r, sig)
    /\ Len(queue) < MaxQueue
    /\ processTable' = Triggered(processTable, r, sig)
    /\ queue' = Woken(processTable, queue, r)
    /\ UNCHANGED <<cur, memVars, currPid, fault>>

\* The copy of the context that a handler interrupts is not checked either.
SignalNoMemory(p, r, sig) ==
    /\ Running(p)
    /\ ~Kept("memory")
    /\ Enters(processTable, r, sig)
    /\ fault' = "null"
    /\ UNCHANGED <<processTable, queue, cur, memVars, currPid>>

\* Mutants of sigret: the state is not checked; the state is not reset.
SigretUnchecked(p) ==
    /\ Running(p)
    /\ processTable' = [processTable EXCEPT ![p].ctx = processTable[p].backupCtx,
                                            ![p].backupCtx = Null,
                                            ![p].state = "ACTIVE"]
    /\ UNCHANGED <<queue, cur, memVars, currPid, fault>>
SigretKeepsState(p) ==
    /\ Running(p)
    /\ processTable[p].state = "SIGNAL"
    /\ processTable' = [processTable EXCEPT ![p].ctx = processTable[p].backupCtx,
                                            ![p].backupCtx = Null]
    /\ UNCHANGED <<queue, cur, memVars, currPid, fault>>

\* Process::signalReturn: ignored unless the state is SIGNAL.
Sigret(p) ==
    /\ Running(p)
    /\ processTable' =
           IF processTable[p].state = "SIGNAL"
           THEN [processTable EXCEPT ![p].ctx = processTable[p].backupCtx,
                                     ![p].backupCtx = Null,
                                     ![p].state = "ACTIVE"]
           ELSE processTable
    /\ UNCHANGED <<queue, cur, memVars, currPid, fault>>

Sigwait(p) ==
    /\ Running(p)
    /\ Kept("no_sleep_in_handler") => processTable[p].ctx = 0
    /\ Kept("stays_runnable") => queue # <<>>
    /\ processTable' = [processTable EXCEPT ![p].state = "SIGWAIT"]
    /\ SwitchTask(processTable', queue, Null)
    /\ UNCHANGED <<spaces, refCount, currPid>>

\* Process::setSignalAction; a null handler clears the action.
Sigaction(p, sig, clear) ==
    /\ Running(p)
    /\ processTable' =
           [processTable EXCEPT
               ![p].signalHandlers = IF clear THEN @ \ {sig} ELSE @ \cup {sig}]
    /\ UNCHANGED <<queue, cur, memVars, currPid, fault>>

\* createAddressSpace returns nullptr without a page frame and the result is
\* dereferenced (so are the unchecked allocations before it).
ExecNoFrame(p) ==
    /\ Running(p)
    /\ ~Kept("memory")
    /\ processTable[p].state = "ACTIVE"
    /\ fault' = "null"
    /\ UNCHANGED <<processTable, queue, cur, memVars, currPid>>

\* The new address space is loaded before the kernel stack is allocated, and
\* stays loaded when that fails.
ExecNoStack(p) ==
    /\ Running(p)
    /\ ~Kept("memory")
    /\ processTable[p].state = "ACTIVE"
    /\ \E a \in Spaces \ spaces :
          /\ spaces' = spaces \cup {a}
          /\ refCount' = [refCount EXCEPT ![a] = 0]
          /\ loaded' = a
    /\ UNCHANGED <<processTable, queue, cur, currPid, fault>>

\* The space to free when one reference to a goes.
UnreferencedAlways(a) == {a}                \* mutant: count not checked
Unreferenced(a) == IF refCount[a] - 1 <= 0 THEN {a} ELSE {}

\* Process::exec: the old address space loses a reference and is freed with
\* the last one.  Signal actions survive.
Exec(p) ==
    /\ Running(p)
    /\ processTable[p].state = "ACTIVE"
    /\ LET old == processTable[p].addressSpace
       IN \E a \in Spaces \ spaces :
            /\ processTable' =
                   [processTable EXCEPT ![p].addressSpace = a,
                                        ![p].ctx = 0]
            /\ refCount' = [refCount EXCEPT ![old] = @ - 1, ![a] = 1]
            /\ spaces' = (spaces \ Unreferenced(old)) \cup {a}
            /\ loaded' = a
    /\ UNCHANGED <<queue, cur, currPid, fault>>

\* What happens after an invalid access is not specified; the model stops.
Halted == fault # "none" /\ UNCHANGED vars

SignalArgs == Signals \cup {MAX_SIGNAL}

SystemCall(p) ==
    \/ Yield(p)
    \/ Clone(p)
    \/ CloneNoMemory(p)
    \/ EnqueueNoMemory(p)
    \/ Terminate(p)
    \/ \E r \in Pid, sig \in SignalArgs : Sigraise(p, r, sig)
    \/ \E r \in Pid, sig \in SignalArgs : SignalNoMemory(p, r, sig)
    \/ Sigret(p)
    \/ Sigwait(p)
    \/ \E sig \in Signals, clear \in BOOLEAN : Sigaction(p, sig, clear)
    \/ ExecNoFrame(p)
    \/ ExecNoStack(p)
    \/ Exec(p)

Next == \/ \E p \in Pid : Tick(p) \/ SystemCall(p)
        \/ Halted

Spec == Init /\ [][Next]_vars

\* The timer interrupts periodically, so a tick is never put off forever.
FairSpec == Spec /\ WF_vars(\E p \in Pid : Tick(p))
-----------------------------------------------------------------------------
(* Properties that hold for every program *)

\* The state keeps its types through every system call and interrupt; sigret
\* in particular restores a context and never the null pointer.
TypeOK ==
    /\ live \subseteq Pid
    /\ processTable \in [live -> Process]
    /\ queue \in Seq(Nodes)
    /\ cur \in Nodes \cup {Null}
    /\ spaces \subseteq Spaces
    /\ refCount \in [Spaces -> Int]
    /\ loaded \in Spaces
    /\ currPid \in Nat
    /\ fault \in {"none", "null", "dangling"}

\* A process whose state is SIGNAL has a saved context, so signalReturn never
\* dereferences a null backupCtx; and an ACTIVE process has none, so the
\* context saved by the next signal overwrites nothing.
SignalFrames ==
    \A p \in live :
        /\ processTable[p].state = "SIGNAL" => processTable[p].backupCtx # Null
        /\ processTable[p].state = "ACTIVE" => processTable[p].backupCtx = Null

Users(a) == {p \in live : processTable[p].addressSpace = a}

\* No sequence of clone, exec and terminate frees an address space that a
\* process of the table still uses: its count is never below the number of
\* those processes.
AddressSpaceLive ==
    \A p \in live :
        /\ processTable[p].addressSpace \in spaces
        /\ refCount[processTable[p].addressSpace]
               >= Cardinality(Users(processTable[p].addressSpace))

\* While the kernel runs, the page tables TTBR0 points to were not freed by
\* the exec or terminate that dropped their last reference.
LoadedSpaceLive == fault = "none" => loaded \in spaces

\* A relocation in the table never leaves two processes in one node.
NodesDistinct ==
    \A p, q \in live : processTable[p].node = processTable[q].node => p = q

-----------------------------------------------------------------------------
(* Properties that hold for programs that keep the rules *)

\* The ready queue and cur_Process together name every process that does not
\* sleep, and no sleeping one: clone says a process "is scheduled separately",
\* sigwait says "Stop scheduling process until a signal occurs".
SchedulesRunnable ==
    fault = "none" =>
        Elems(queue) \cup {cur} =
            {processTable[p].node :
                p \in {q \in live : processTable[q].state # "SIGWAIT"}}

\* Nobody is in the queue twice, or in it while running.
ScheduledOnce ==
    /\ \A i, j \in 1 .. Len(queue) : queue[i] = queue[j] => i = j
    /\ fault = "none" => cur \notin Elems(queue)

\* The running process runs in its own address space.
RunsInOwnSpace ==
    \A p \in live : Running(p) => loaded = processTable[p].addressSpace

\* The kernel never follows a null pointer or a pointer to a freed process.
NoFault == fault = "none"

\* A handler's sigret continues what its signal interrupted: "putting the
\* stack and process context back to the state they were in just before the
\* signal was triggered".  A process inside a handler, unless it sleeps there,
\* has the interrupted context saved and a state in which sigret restores it.
HandlerCanReturn ==
    \A p \in live :
        LET P == processTable[p]
        IN  P.ctx > 0 /\ P.state # "SIGWAIT" =>
                P.state = "SIGNAL" /\ P.backupCtx = P.ctx - 1

\* Round robin: with the timer running, a process in the ready queue runs.
NoStarvation ==
    \A p \in Pid :
        p \in live /\ processTable[p].node \in Elems(queue) ~> Running(p)
=============================================================================
