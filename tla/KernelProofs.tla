---------------------------- MODULE KernelProofs ----------------------------
(***************************************************************************)
(* What holds of Kernel for every number of processes, address spaces and  *)
(* signals.  First for every program: the type invariant, that a handler   *)
(* can always be returned from, and that no address space in use is freed. *)
(* Then for programs that keep some of the rules: each of those theorems   *)
(* assumes only the rules its proof needs; the kernel may meet programs    *)
(* that break all the others.                                              *)
(***************************************************************************)
EXTENDS Kernel, CommonProofs, FiniteSetTheorems, TLAPS

-----------------------------------------------------------------------------
(* Processes whose signal frame matches their state *)

\* A process record that SignalFrames allows.
Framed(P) == /\ P.state = "SIGNAL" => P.backupCtx # Null
             /\ P.state = "ACTIVE" => P.backupCtx = Null

GoodProcess == {P \in Process : Framed(P)}

\* What a table keeps when one is derived from the other by a step that leaves
\* nodes and address spaces alone.
SameMemory(t, u) ==
    /\ DOMAIN u = DOMAIN t
    /\ \A q \in DOMAIN t : /\ u[q].node = t[q].node
                           /\ u[q].addressSpace = t[q].addressSpace

\* Delivering a signal keeps every record well framed, within the bound on
\* nesting that MayRaise imposes.
LEMMA TriggeredGood ==
    ASSUME NEW D, NEW t \in [D -> GoodProcess], NEW r, NEW sig,
           Enters(t, r, sig) => t[r].ctx < MaxLevel
    PROVE  /\ Triggered(t, r, sig) \in [D -> GoodProcess]
           /\ SameMemory(t, Triggered(t, r, sig))
<1>1. CASE ~Enters(t, r, sig)
  BY <1>1 DEF Triggered, SameMemory
<1>2. CASE Enters(t, r, sig)
  <2>1. r \in D /\ t[r] \in Process /\ t[r].ctx \in Context
    BY <1>2 DEF Enters, Accepts, GoodProcess, Process
  <2>2. t[r].ctx + 1 \in Context
    BY <1>2, <2>1, BoundsAssumption DEF Context
  <2>3. t[r].ctx # Null
    BY <2>1, NullAssumption
  <2>4. QED
    BY <1>2, <2>1, <2>2, <2>3
       DEF Triggered, SameMemory, GoodProcess, Framed, Process, State
<1>3. QED
  BY <1>1, <1>2

\* MayRaise imposes that bound.
LEMMA RaisedGood ==
    ASSUME NEW D, NEW t \in [D -> GoodProcess], NEW r, NEW sig,
           MayRaise(t, r, sig)
    PROVE  /\ Triggered(t, r, sig) \in [D -> GoodProcess]
           /\ SameMemory(t, Triggered(t, r, sig))
BY TriggeredGood DEF MayRaise

-----------------------------------------------------------------------------
(* Relocation in the process table *)

\* The process ids are finitely many, so the users of a space can be counted.
LEMMA PidFinite == IsFiniteSet(Pid)
<1>1. 0 \in Int /\ MaxPid \in Int
  BY BoundsAssumption
<1>2. QED
  BY <1>1, FS_Interval DEF Pid

\* They are naturals, as the lemmas on relocation ask of the keys of a table.
LEMMA PidNat == Pid \subseteq Nat
BY BoundsAssumption DEF Pid

\* Removal keeps every other process, whose record changes in its node only.
LEMMA RemovedRecord ==
    ASSUME NEW D, D \subseteq Pid, NEW t \in [D -> GoodProcess], NEW p \in D,
           NEW M \in Chains(t, p), NEW q \in D \ {p}
    PROVE  Removed(t, p, M)[q] \in GoodProcess
<1>1. M \subseteq D /\ p \notin M
  BY ChainsAreOfOthers, PidNat
<1>2. CASE q \notin M
  BY <1>2 DEF Removed
<1>3. CASE q \in M
  <2>1. Toward(p, M, q) \in D
    BY <1>1, <1>3, TowardInChain, PidNat
  <2>2. t[Toward(p, M, q)].node \in Nodes
    BY <2>1 DEF GoodProcess, Process
  <2>3. Removed(t, p, M)[q] = [t[q] EXCEPT !.node = t[Toward(p, M, q)].node]
    BY <1>3 DEF Removed
  <2>4. QED
    BY <2>2, <2>3 DEF GoodProcess, Process, Framed
<1>4. QED
  BY <1>2, <1>3

\* The table keeps well-framed processes when deleteActiveProcess removes one.
LEMMA RemovedGood ==
    ASSUME NEW D, D \subseteq Pid, NEW t \in [D -> GoodProcess], NEW p \in D,
           NEW M \in Chains(t, p)
    PROVE  Removed(t, p, M) \in [D \ {p} -> GoodProcess]
<1>1. \A q \in D \ {p} : Removed(t, p, M)[q] \in GoodProcess
  BY RemovedRecord
<1>2. Removed(t, p, M) = [q \in D \ {p} |-> Removed(t, p, M)[q]]
  BY DEF Removed
<1>3. QED
  BY <1>1, <1>2

-----------------------------------------------------------------------------
(* Type correctness and signal frames *)

\* TypeOK and SignalFrames are proved together: sigret restores backupCtx, so
\* the type of ctx depends on the frame being there.
TypedFrames == TypeOK /\ SignalFrames

\* The invariant says that every process of the table is well framed.
LEMMA TypedFramesGood ==
    ASSUME TypedFrames PROVE processTable \in [live -> GoodProcess]
BY DEF TypedFrames, TypeOK, SignalFrames, GoodProcess, Framed

\* switchTask keeps the scheduler typed; if it does not fault, it loads the
\* address space of a process of the table.
LEMMA SwitchTaskTyped ==
    ASSUME NEW D, NEW t \in [D -> GoodProcess], NEW q \in Seq(Nodes),
           NEW c \in Nodes \cup {Null}, loaded \in Spaces,
           SwitchTask(t, q, c)
    PROVE  /\ queue' \in Seq(Nodes)
           /\ cur' \in Nodes \cup {Null}
           /\ loaded' \in Spaces
           /\ fault' \in {"none", "null", "dangling"}
           /\ fault' = "none" => \E p \in D : loaded' = t[p].addressSpace
<1> DEFINE ready == Ready(q, c)
<1>1. ready \in Seq(Nodes)
  BY DEF Ready
<1>2. CASE ready = <<>>
  BY <1>2 DEF SwitchTask
<1>3. CASE ready # <<>>
  <2>1. Head(ready) \in Nodes /\ Tail(ready) \in Seq(Nodes)
    BY <1>1, <1>3
  <2>2. CASE Head(ready) \in NodesOf(t)
    <3> DEFINE h == CHOOSE p \in DOMAIN t : t[p].node = Head(ready)
    <3>1. h \in D
      BY <2>2 DEF NodesOf
    <3>2. t[h].addressSpace \in Spaces
      BY <3>1 DEF GoodProcess, Process
    <3>3. /\ queue' = Tail(ready) /\ cur' = Head(ready) /\ fault' = "none"
          /\ loaded' = t[h].addressSpace
      BY <1>3, <2>2 DEF SwitchTask, SpaceIn
    <3>4. QED
      BY <2>1, <3>1, <3>2, <3>3
  <2>3. CASE Head(ready) \notin NodesOf(t)
    BY <1>3, <2>1, <2>3 DEF SwitchTask
  <2>4. QED
    BY <2>2, <2>3
<1>4. QED
  BY <1>2, <1>3

\* So does the end of an exit.
LEMMA AfterRemovalTyped ==
    ASSUME NEW D, NEW t \in [D -> GoodProcess], NEW q \in Seq(Nodes), NEW M,
           cur \in Nodes \cup {Null}, loaded \in Spaces, AfterRemoval(t, q, M)
    PROVE  /\ queue' \in Seq(Nodes)
           /\ cur' \in Nodes \cup {Null}
           /\ loaded' \in Spaces
           /\ fault' \in {"none", "null", "dangling"}
           /\ fault' = "none" => \E p \in D : loaded' = t[p].addressSpace
<1>1. CASE SwitchTask(t, q, Null)
  BY <1>1, SwitchTaskTyped
<1>2. CASE ~SwitchTask(t, q, Null)
  BY <1>2 DEF AfterRemoval
<1>3. QED
  BY <1>1, <1>2

\* raiseSignal puts a node of the table into the ready queue, nothing else.
LEMMA WokenTyped ==
    ASSUME NEW D, NEW t \in [D -> GoodProcess], NEW q \in Seq(Nodes), NEW r
    PROVE  Woken(t, q, r) \in Seq(Nodes)
<1>1. ASSUME r \in D PROVE t[r].node \in Nodes
  BY <1>1 DEF GoodProcess, Process
<1>2. QED
  BY <1>1 DEF Woken, Accepts

\* The table after the step and the other variables give back the invariant.
LEMMA GoodTyped ==
    ASSUME NEW D, D \subseteq Pid, processTable' \in [D -> GoodProcess],
           queue' \in Seq(Nodes), cur' \in Nodes \cup {Null},
           spaces' \subseteq Spaces, refCount' \in [Spaces -> Int],
           loaded' \in Spaces, currPid' \in Nat,
           fault' \in {"none", "null", "dangling"}
    PROVE  TypedFrames'
BY DEF TypedFrames, TypeOK, SignalFrames, GoodProcess, Framed, live

\* The state that boot leaves satisfies the type and frame invariant.
LEMMA InitTyped == Init => TypedFrames
<1> SUFFICES ASSUME Init PROVE TypedFrames
  OBVIOUS
<1>1. PICK n \in Nodes, a \in Spaces :
        /\ processTable = [p \in {0} |->
               [node |-> n, parent |-> 0, state |-> "ACTIVE",
                ctx |-> 0, backupCtx |-> Null,
                addressSpace |-> a, signalHandlers |-> {}]]
        /\ queue = <<>> /\ cur = n /\ spaces = {a}
        /\ refCount = [b \in Spaces |-> IF b = a THEN 1 ELSE 0]
        /\ loaded = a /\ currPid = 1 /\ fault = "none"
  BY DEF Init, NewProcess
<1>2. 0 \in Context /\ 0 \in Pid
  BY BoundsAssumption DEF Context, Pid
<1>3. live = {0}
  BY <1>1 DEF live
<1>4. processTable[0] \in Process
  BY <1>1, <1>2 DEF Process, State
<1>5. TypeOK
  BY <1>1, <1>2, <1>3, <1>4 DEF TypeOK
<1>6. SignalFrames
  BY <1>1, <1>3 DEF SignalFrames
<1>7. QED
  BY <1>5, <1>6 DEF TypedFrames

\* syscall_terminate keeps the type and frame invariant: the signal to the
\* parent, the removal with its relocations and the switch, in that order.
LEMMA TerminateTyped ==
    ASSUME TypedFrames, NEW p \in Pid, Terminate(p)
    PROVE  TypedFrames'
<1> DEFINE r == processTable[p].parent
           t == Triggered(processTable, r, SIGCHLD)
           q == Woken(processTable, queue, r)
<1>1. /\ processTable \in [live -> GoodProcess] /\ p \in live /\ live \subseteq Pid
      /\ queue \in Seq(Nodes) /\ spaces \subseteq Spaces /\ loaded \in Spaces
      /\ refCount \in [Spaces -> Int] /\ currPid \in Nat
      /\ cur \in Nodes \cup {Null}
  BY TypedFramesGood DEF TypedFrames, TypeOK, Terminate, Running
<1>3. MayRaise(processTable, r, SIGCHLD)
  BY DEF Terminate
<1>4. t \in [live -> GoodProcess]
  BY <1>1, <1>3, RaisedGood
<1>5. q \in Seq(Nodes)
  BY <1>1, WokenTyped
<1>6. PICK M \in Chains(t, p) :
        /\ processTable' = Removed(t, p, M)
        /\ refCount' = RefsAfterRemoval(t, p, M)
        /\ spaces' = {a \in spaces : t[p].addressSpace = a => refCount'[a] > 0}
        /\ AfterRemoval(processTable', q, M)
  BY DEF Terminate
<1>7. processTable' \in [live \ {p} -> GoodProcess]
  BY <1>1, <1>4, <1>6, RemovedGood
<1>8. refCount' \in [Spaces -> Int]
  <2>1. ASSUME NEW a PROVE Copies(t, p, M, a) \in Int
    <3>1. IsFiniteSet(M)
      <4>1. DOMAIN t = live
        BY <1>4
      <4>2. M \subseteq Pid
        BY <1>1, <4>1, ChainsAreOfOthers, PidNat
      <4>3. QED
        BY <4>2, PidFinite, FS_Subset
    <3>2. QED
      BY <3>1, FS_Subset, FS_CardinalityType DEF Copies
  <2>2. QED
    BY <1>1, <1>6, <2>1 DEF RefsAfterRemoval
<1>9. /\ queue' \in Seq(Nodes) /\ cur' \in Nodes \cup {Null}
      /\ loaded' \in Spaces /\ fault' \in {"none", "null", "dangling"}
  BY <1>1, <1>5, <1>6, <1>7, AfterRemovalTyped
<1>10. spaces' \subseteq Spaces /\ currPid' \in Nat
  BY <1>1, <1>6 DEF Terminate
<1>11. QED
  BY <1>1, <1>7, <1>8, <1>9, <1>10, GoodTyped

\* syscall_sigraise keeps the type and frame invariant, also when the caller
\* raises the signal on itself.
LEMMA SigraiseTyped ==
    ASSUME TypedFrames, NEW p \in Pid, NEW r \in Pid, NEW sig, Sigraise(p, r, sig)
    PROVE  TypedFrames'
<1>1. /\ processTable \in [live -> GoodProcess] /\ p \in live /\ live \subseteq Pid
      /\ queue \in Seq(Nodes) /\ spaces \subseteq Spaces /\ loaded \in Spaces
      /\ refCount \in [Spaces -> Int] /\ currPid \in Nat
      /\ cur \in Nodes \cup {Null} /\ fault \in {"none", "null", "dangling"}
  BY TypedFramesGood DEF TypedFrames, TypeOK, Sigraise, Running
<1>2. processTable' \in [live -> GoodProcess]
  BY <1>1, RaisedGood DEF Sigraise
<1>3. queue' \in Seq(Nodes)
  BY <1>1, WokenTyped DEF Sigraise
<1>4. QED
  BY <1>1, <1>2, <1>3, GoodTyped DEF Sigraise, memVars

\* syscall_clone keeps the type and frame invariant: the new process has no
\* saved context.
LEMMA CloneTyped ==
    ASSUME TypedFrames, NEW p \in Pid, Clone(p)
    PROVE  TypedFrames'
<1> DEFINE a == processTable[p].addressSpace
<1>1. /\ processTable \in [live -> GoodProcess] /\ p \in live /\ live \subseteq Pid
      /\ queue \in Seq(Nodes) /\ spaces \subseteq Spaces /\ loaded \in Spaces
      /\ refCount \in [Spaces -> Int] /\ currPid \in Nat
      /\ cur \in Nodes \cup {Null} /\ fault \in {"none", "null", "dangling"}
  BY TypedFramesGood DEF TypedFrames, TypeOK, Clone, Running
<1>3. PICK n \in Nodes \ NodesOf(processTable) :
        /\ processTable' = [q \in live \cup {currPid} |->
               IF q = currPid
               THEN [node |-> n, parent |-> p, state |-> "ACTIVE",
                     ctx |-> 0,
                     backupCtx |-> Null, addressSpace |-> a,
                     signalHandlers |-> {}]
               ELSE processTable[q]]
        /\ queue' = Append(queue, n)
        /\ refCount' = [refCount EXCEPT ![a] = @ + 2]
  BY DEF Clone, NewProcess
<1>4. a \in Spaces
  BY <1>1 DEF GoodProcess, Process
<1>5. currPid \in Pid
  BY <1>1, BoundsAssumption DEF Clone, Pid
<1>6. 0 \in Context
  BY BoundsAssumption DEF Context
<1>7. [node |-> n, parent |-> p, state |-> "ACTIVE",
       ctx |-> 0,
       backupCtx |-> Null, addressSpace |-> a,
       signalHandlers |-> {}] \in GoodProcess
  BY <1>4, <1>6 DEF GoodProcess, Process, Framed, State
<1>8. processTable' \in [live \cup {currPid} -> GoodProcess]
  BY <1>1, <1>3, <1>7
<1>9. queue' \in Seq(Nodes) /\ refCount' \in [Spaces -> Int]
  BY <1>1, <1>3, <1>4
<1>10. live \cup {currPid} \subseteq Pid
  BY <1>1, <1>5
<1>11. currPid' \in Nat /\ UNCHANGED <<cur, spaces, loaded, fault>>
  BY <1>1 DEF Clone
<1>12. QED
  BY <1>1, <1>8, <1>9, <1>10, <1>11, GoodTyped

\* The calls that follow a null pointer because an allocation failed.
OutOfMemory(p) ==
    \/ CloneNoMemory(p) \/ EnqueueNoMemory(p) \/ ExecNoFrame(p)
    \/ \E r \in Pid, sig \in SignalArgs : SignalNoMemory(p, r, sig)

\* They change nothing else that matters; clone has taken a process id.
LEMMA OutOfMemoryKeeps ==
    ASSUME NEW p, OutOfMemory(p)
    PROVE  /\ Running(p) /\ ~Kept("memory") /\ fault' = "null"
           /\ UNCHANGED <<processTable, queue, cur, spaces, refCount, loaded>>
           /\ currPid' = currPid \/ currPid' = currPid + 1
BY DEF OutOfMemory, CloneNoMemory, EnqueueNoMemory, ExecNoFrame, SignalNoMemory,
   memVars

\* Every system call and interrupt keeps the type and frame invariant.
LEMMA NextTyped == TypedFrames /\ [Next]_vars => TypedFrames'
<1> SUFFICES ASSUME TypedFrames, [Next]_vars PROVE TypedFrames'
  OBVIOUS
<1>1. /\ processTable \in [live -> GoodProcess] /\ live \subseteq Pid
      /\ queue \in Seq(Nodes) /\ spaces \subseteq Spaces /\ loaded \in Spaces
      /\ refCount \in [Spaces -> Int] /\ currPid \in Nat
      /\ cur \in Nodes \cup {Null} /\ fault \in {"none", "null", "dangling"}
  BY TypedFramesGood DEF TypedFrames, TypeOK
<1>3. CASE UNCHANGED vars \/ Halted
  BY <1>1, <1>3, GoodTyped DEF vars, Halted
<1>4. ASSUME NEW p \in Pid, Tick(p) \/ Yield(p) PROVE TypedFrames'
  <2>1. /\ SwitchTask(processTable, queue, cur) /\ processTable' = processTable
        /\ UNCHANGED <<spaces, refCount, currPid>>
    BY <1>4 DEF Tick, Yield
  <2>2. /\ queue' \in Seq(Nodes) /\ cur' \in Nodes \cup {Null}
        /\ loaded' \in Spaces /\ fault' \in {"none", "null", "dangling"}
    BY <1>1, <2>1, SwitchTaskTyped
  <2>3. QED
    BY <1>1, <2>1, <2>2, GoodTyped
<1>6. ASSUME NEW p \in Pid, OutOfMemory(p) PROVE TypedFrames'
  <2>1. /\ processTable' = processTable /\ fault' = "null" /\ currPid' \in Nat
        /\ UNCHANGED <<queue, cur, spaces, refCount, loaded>>
    BY <1>1, <1>6, OutOfMemoryKeeps
  <2>2. QED
    BY <1>1, <2>1, GoodTyped
<1>7. ASSUME NEW p \in Pid, Sigret(p) PROVE TypedFrames'
  <2>1. p \in live
    BY <1>7 DEF Sigret, Running
  <2>2. CASE processTable[p].state = "SIGNAL"
    <3>1. processTable[p] \in Process /\ processTable[p].backupCtx \in Context
      BY <1>1, <2>1, <2>2 DEF GoodProcess, Process, Framed
    <3>2. processTable' =
            [processTable EXCEPT
               ![p] = [processTable[p] EXCEPT
                          !.ctx = processTable[p].backupCtx,
                          !.backupCtx = Null, !.state = "ACTIVE"]]
      BY <1>1, <1>7, <2>1, <2>2 DEF Sigret
    <3>3. [processTable[p] EXCEPT !.ctx = processTable[p].backupCtx,
                                  !.backupCtx = Null, !.state = "ACTIVE"]
             \in GoodProcess
      BY <3>1 DEF GoodProcess, Process, Framed, State
    <3>4. processTable' \in [live -> GoodProcess]
      BY <1>1, <2>1, <3>2, <3>3
    <3>5. QED
      BY <1>1, <1>7, <3>4, GoodTyped DEF Sigret, memVars
  <2>3. CASE processTable[p].state # "SIGNAL"
    <3>1. processTable' \in [live -> GoodProcess]
      BY <1>1, <1>7, <2>3 DEF Sigret
    <3>2. QED
      BY <1>1, <1>7, <3>1, GoodTyped DEF Sigret, memVars
  <2>4. QED
    BY <2>2, <2>3
<1>8. ASSUME NEW p \in Pid, Sigwait(p) PROVE TypedFrames'
  <2>1. p \in live
    BY <1>8 DEF Sigwait, Running
  <2>2. [processTable[p] EXCEPT !.state = "SIGWAIT"] \in GoodProcess
    BY <1>1, <2>1 DEF GoodProcess, Process, Framed, State
  <2>3. processTable' =
          [processTable EXCEPT ![p] = [processTable[p] EXCEPT !.state = "SIGWAIT"]]
    BY <1>1, <1>8, <2>1 DEF Sigwait
  <2>4. processTable' \in [live -> GoodProcess]
    BY <1>1, <2>1, <2>2, <2>3
  <2>5. /\ queue' \in Seq(Nodes) /\ cur' \in Nodes \cup {Null}
        /\ loaded' \in Spaces /\ fault' \in {"none", "null", "dangling"}
    BY <1>1, <1>8, <2>4, SwitchTaskTyped DEF Sigwait
  <2>6. QED
    BY <1>1, <1>8, <2>4, <2>5, GoodTyped DEF Sigwait
<1>9. ASSUME NEW p \in Pid, NEW sig \in Signals, NEW clear \in BOOLEAN,
             Sigaction(p, sig, clear)
      PROVE  TypedFrames'
  <2>1. p \in live
    BY <1>9 DEF Sigaction, Running
  <2> DEFINE P == processTable[p]
             h == IF clear THEN P.signalHandlers \ {sig}
                           ELSE P.signalHandlers \cup {sig}
  <2>2. P \in GoodProcess
    BY <1>1, <2>1
  <2>3. h \in SUBSET Signals
    BY <2>2 DEF GoodProcess, Process
  <2>4. [P EXCEPT !.signalHandlers = h] \in GoodProcess
    BY <2>2, <2>3 DEF GoodProcess, Process, Framed
  <2>5. processTable' = [processTable EXCEPT ![p] = [P EXCEPT !.signalHandlers = h]]
    BY <1>1, <1>9, <2>1 DEF Sigaction
  <2>6. processTable' \in [live -> GoodProcess]
    BY <1>1, <2>1, <2>4, <2>5
  <2>7. QED
    BY <1>1, <1>9, <2>6, GoodTyped DEF Sigaction, memVars
<1>11. ASSUME NEW p \in Pid, ExecNoStack(p) PROVE TypedFrames'
  <2>1. spaces' \subseteq Spaces /\ refCount' \in [Spaces -> Int] /\ loaded' \in Spaces
    BY <1>1, <1>11 DEF ExecNoStack
  <2>2. QED
    BY <1>1, <1>11, <2>1, GoodTyped DEF ExecNoStack
<1>12. ASSUME NEW p \in Pid, Exec(p) PROVE TypedFrames'
  <2>1. p \in live
    BY <1>12 DEF Exec, Running
  <2> DEFINE old == processTable[p].addressSpace
             fresh == 0
  <2>2. PICK a \in Spaces \ spaces :
          /\ processTable' = [processTable EXCEPT ![p].addressSpace = a,
                                                  ![p].ctx = fresh]
          /\ refCount' = [refCount EXCEPT ![old] = @ - 1, ![a] = 1]
          /\ spaces' = (spaces \ Unreferenced(old)) \cup {a}
          /\ loaded' = a
    BY <1>12 DEF Exec
  <2>3. fresh \in Context
    BY BoundsAssumption DEF Context
  <2>4. old \in Spaces /\ processTable[p] \in GoodProcess
    BY <1>1, <2>1 DEF GoodProcess, Process
  <2>5. [processTable[p] EXCEPT !.addressSpace = a, !.ctx = fresh] \in GoodProcess
    BY <2>2, <2>3, <2>4 DEF GoodProcess, Process, Framed
  <2>6. processTable' = [processTable EXCEPT
                           ![p] = [processTable[p] EXCEPT !.addressSpace = a,
                                                          !.ctx = fresh]]
    BY <1>1, <2>1, <2>2
  <2>7. processTable' \in [live -> GoodProcess]
    BY <1>1, <2>1, <2>5, <2>6
  <2>8. spaces' \subseteq Spaces /\ refCount' \in [Spaces -> Int] /\ loaded' \in Spaces
    BY <1>1, <2>2, <2>4
  <2>9. QED
    BY <1>1, <1>12, <2>7, <2>8, GoodTyped DEF Exec
<1>13. QED
  BY <1>3, <1>4, <1>6, <1>7, <1>8, <1>9, <1>11, <1>12,
     CloneTyped, TerminateTyped, SigraiseTyped DEF Next, SystemCall, OutOfMemory

\* Type correctness of the process core, for any number of processes, nodes,
\* address spaces and signals and for any programs: in particular sigret only
\* ever installs a real context, and no relocation in the process table leaves
\* a process without a node.
THEOREM TypeCorrect == Spec => []TypeOK
<1>1. Spec => []TypedFrames
  BY InitTyped, NextTyped, PTL DEF Spec
<1>2. TypedFrames => TypeOK
  BY DEF TypedFrames
<1>3. QED
  BY <1>1, <1>2, PTL

\* signalReturn never dereferences a null backupCtx, and a signal delivered to
\* an ACTIVE process never overwrites a saved context.
THEOREM SignalFramesCorrect == Spec => []SignalFrames
<1>1. Spec => []TypedFrames
  BY InitTyped, NextTyped, PTL DEF Spec
<1>2. TypedFrames => SignalFrames
  BY DEF TypedFrames
<1>3. QED
  BY <1>1, <1>2, PTL

-----------------------------------------------------------------------------
(* Address spaces *)

UsersIn(t, a) == {q \in DOMAIN t : t[q].addressSpace = a}

\* AddressSpaceLive, of a table, its reference counts and the allocated spaces.
Counted(t, R, S) ==
    \A p \in DOMAIN t :
        /\ t[p].addressSpace \in S
        /\ R[t[p].addressSpace] >= Cardinality(UsersIn(t, t[p].addressSpace))

\* AddressSpaceLive is Counted of the current state.
LEMMA CountedIsLive == AddressSpaceLive <=> Counted(processTable, refCount, spaces)
BY DEF AddressSpaceLive, Counted, UsersIn, Users, live

\* The processes that use an address space can be counted.
LEMMA UsersFinite ==
    ASSUME NEW t, DOMAIN t \subseteq Pid, NEW a
    PROVE  IsFiniteSet(UsersIn(t, a)) /\ Cardinality(UsersIn(t, a)) \in Nat
<1>1. UsersIn(t, a) \subseteq Pid
  BY DEF UsersIn
<1>2. IsFiniteSet(UsersIn(t, a))
  BY <1>1, PidFinite, FS_Subset
<1>3. QED
  BY <1>2, FS_CardinalityType

\* A step that moves no process to another address space keeps the counts
\* right: the signal calls and the switches.
LEMMA SameMemoryCounted ==
    ASSUME NEW t, NEW u, NEW R, NEW S, SameMemory(t, u), Counted(t, R, S)
    PROVE  Counted(u, R, S)
<1>1. ASSUME NEW a PROVE UsersIn(u, a) = UsersIn(t, a)
  BY DEF SameMemory, UsersIn
<1>2. QED
  BY <1>1 DEF SameMemory, Counted

\* clone: one more user, two more references.
LEMMA CloneCounted ==
    ASSUME TypedFrames, AddressSpaceLive, NEW p \in Pid, Clone(p), currPid \notin live
    PROVE  AddressSpaceLive'
<1> DEFINE a == processTable[p].addressSpace
<1>1. /\ processTable \in [live -> GoodProcess] /\ p \in live /\ live \subseteq Pid
      /\ refCount \in [Spaces -> Int] /\ currPid \in Pid /\ a \in Spaces
      /\ DOMAIN processTable = live
  <2>1. processTable \in [live -> GoodProcess] /\ p \in live
    BY TypedFramesGood DEF Clone, Running
  <2>2. a \in Spaces
    BY <2>1 DEF GoodProcess, Process
  <2>3. QED
    BY <2>1, <2>2, BoundsAssumption DEF TypedFrames, TypeOK, Clone, Pid, live
<1>2. /\ DOMAIN processTable' = live \cup {currPid}
      /\ processTable'[currPid].addressSpace = a
      /\ \A q \in live : processTable'[q].addressSpace = processTable[q].addressSpace
      /\ refCount' = [refCount EXCEPT ![a] = @ + 2]
      /\ spaces' = spaces
  <2>1. PICK n \in Nodes \ NodesOf(processTable) :
          /\ processTable' = [q \in live \cup {currPid} |->
               IF q = currPid
               THEN [node |-> n, parent |-> p, state |-> "ACTIVE",
                     ctx |-> 0,
                     backupCtx |-> Null, addressSpace |-> a,
                     signalHandlers |-> {}]
               ELSE processTable[q]]
          /\ refCount' = [refCount EXCEPT ![a] = @ + 2]
          /\ spaces' = spaces
    BY DEF Clone, NewProcess
  <2>2. \A q \in live : q # currPid => processTable'[q] = processTable[q]
    BY <2>1
  <2>3. QED
    BY <2>1, <2>2
<1>3. Counted(processTable, refCount, spaces)
  BY CountedIsLive
<1>4. UsersIn(processTable', a) = UsersIn(processTable, a) \cup {currPid}
  BY <1>1, <1>2 DEF UsersIn
<1>5. ASSUME NEW b, b # a PROVE UsersIn(processTable', b) = UsersIn(processTable, b)
  BY <1>1, <1>2, <1>5 DEF UsersIn
<1>6. Cardinality(UsersIn(processTable', a)) = Cardinality(UsersIn(processTable, a)) + 1
  <2>1. currPid \notin UsersIn(processTable, a) /\ IsFiniteSet(UsersIn(processTable, a))
    BY <1>1, UsersFinite DEF UsersIn
  <2>2. QED
    BY <1>4, <2>1, FS_AddElement
<1>7. a \in spaces /\ refCount[a] >= Cardinality(UsersIn(processTable, a))
  BY <1>1, <1>3 DEF Counted
<1>8. refCount'[a] >= Cardinality(UsersIn(processTable', a))
  <2>1. Cardinality(UsersIn(processTable, a)) \in Nat /\ refCount[a] \in Int
    BY <1>1, UsersFinite
  <2>2. refCount'[a] = refCount[a] + 2
    BY <1>1, <1>2
  <2>3. QED
    BY <1>6, <1>7, <2>1, <2>2
<1>9. ASSUME NEW q \in DOMAIN processTable'
      PROVE  /\ processTable'[q].addressSpace \in spaces'
             /\ refCount'[processTable'[q].addressSpace]
                    >= Cardinality(UsersIn(processTable', processTable'[q].addressSpace))
  <2>1. CASE processTable'[q].addressSpace = a
    BY <1>2, <1>7, <1>8, <2>1
  <2>2. CASE processTable'[q].addressSpace # a
    <3> DEFINE b == processTable'[q].addressSpace
    <3>1. q \in live /\ b = processTable[q].addressSpace
      BY <1>2, <2>2
    <3>2. b \in spaces /\ refCount[b] >= Cardinality(UsersIn(processTable, b))
      BY <1>1, <1>3, <3>1 DEF Counted
    <3>3. refCount'[b] = refCount[b]
      <4>1. b \in Spaces
        BY <1>1, <3>1 DEF GoodProcess, Process
      <4>2. QED
        BY <1>1, <1>2, <2>2, <4>1
    <3>4. QED
      BY <1>2, <1>5, <2>2, <3>2, <3>3
  <2>3. QED
    BY <2>1, <2>2
<1>10. Counted(processTable, refCount, spaces)'
  BY <1>9 DEF Counted
<1>11. QED
  BY <1>10, CountedIsLive, PTL

\* So can its users other than one process.
LEMMA OthersFinite ==
    ASSUME NEW t, DOMAIN t \subseteq Pid, NEW p, NEW a
    PROVE  /\ IsFiniteSet(UsersIn(t, a) \ {p})
           /\ Cardinality(UsersIn(t, a) \ {p}) \in Nat
<1>1. IsFiniteSet(UsersIn(t, a))
  BY UsersFinite
<1>2. IsFiniteSet(UsersIn(t, a) \ {p})
  BY <1>1, FS_RemoveElement
<1>3. QED
  BY <1>2, FS_CardinalityType

\* When a process leaves an address space it has one user fewer.
LEMMA UserLeaves ==
    ASSUME NEW t, DOMAIN t \subseteq Pid, NEW p \in DOMAIN t, NEW a,
           t[p].addressSpace = a
    PROVE  Cardinality(UsersIn(t, a) \ {p}) = Cardinality(UsersIn(t, a)) - 1
<1>1. p \in UsersIn(t, a)
  BY DEF UsersIn
<1>2. QED
  BY <1>1, UsersFinite, FS_RemoveElement

\* An address space that another process uses still has a user.
LEMMA UsersRemain ==
    ASSUME NEW t, DOMAIN t \subseteq Pid, NEW p, NEW q \in DOMAIN t, q # p, NEW a,
           t[q].addressSpace = a
    PROVE  Cardinality(UsersIn(t, a) \ {p}) >= 1
<1>1. q \in UsersIn(t, a) \ {p}
  BY DEF UsersIn
<1>2. /\ IsFiniteSet(UsersIn(t, a) \ {p})
      /\ Cardinality(UsersIn(t, a) \ {p}) \in Nat
  BY OthersFinite
<1>3. Cardinality(UsersIn(t, a) \ {p}) # 0
  BY <1>1, <1>2, FS_EmptySet
<1>4. QED
  BY <1>2, <1>3

\* terminate: one user less, and at most one reference.
LEMMA TerminateCounted ==
    ASSUME TypedFrames, AddressSpaceLive, NEW p \in Pid, Terminate(p)
    PROVE  AddressSpaceLive' /\ DOMAIN processTable' = live \ {p}
<1> DEFINE r == processTable[p].parent
           t == Triggered(processTable, r, SIGCHLD)
           a == t[p].addressSpace
<1>1. /\ processTable \in [live -> GoodProcess] /\ p \in live /\ live \subseteq Pid
      /\ refCount \in [Spaces -> Int] /\ DOMAIN processTable = live
  BY TypedFramesGood DEF TypedFrames, TypeOK, Terminate, Running, live
<1>3. MayRaise(processTable, r, SIGCHLD)
  BY DEF Terminate
<1>4. t \in [live -> GoodProcess] /\ SameMemory(processTable, t) /\ DOMAIN t = live
  BY <1>1, <1>3, RaisedGood
<1>5. Counted(t, refCount, spaces)
  BY <1>4, CountedIsLive, SameMemoryCounted
<1>6. PICK M \in Chains(t, p) :
        /\ processTable' = Removed(t, p, M)
        /\ refCount' = RefsAfterRemoval(t, p, M)
        /\ spaces' = {b \in spaces : t[p].addressSpace = b => refCount'[b] > 0}
  BY DEF Terminate
<1>7. /\ DOMAIN processTable' = live \ {p}
      /\ \A q \in live \ {p} : processTable'[q].addressSpace = t[q].addressSpace
  <2>1. /\ Removed(t, p, M) \in [live \ {p} -> GoodProcess]
        /\ \A q \in live \ {p} :
              Removed(t, p, M)[q].addressSpace = t[q].addressSpace
    <3>1. M \in Chains(t, p)
      BY <1>6
    <3>2. live \subseteq Pid /\ p \in live /\ t \in [live -> GoodProcess]
      BY <1>1, <1>4
    <3> HIDE DEF t
    <3>3. Removed(t, p, M) \in [live \ {p} -> GoodProcess]
      BY <3>1, <3>2, RemovedGood
    <3>4. ASSUME NEW q \in live \ {p}
          PROVE  Removed(t, p, M)[q].addressSpace = t[q].addressSpace
      <4>1. CASE q \in M
        <5>1. Removed(t, p, M)[q] = [t[q] EXCEPT !.node = t[Toward(p, M, q)].node]
          BY <3>2, <4>1 DEF Removed
        <5>2. t[q] \in Process
          BY <3>2 DEF GoodProcess
        <5>3. QED
          BY <5>1, <5>2 DEF Process
      <4>2. CASE q \notin M
        BY <3>2, <4>2 DEF Removed
      <4>3. QED
        BY <4>1, <4>2
    <3>5. QED
      BY <3>3, <3>4
  <2>2. processTable' = Removed(t, p, M)
    BY <1>6
  <2>3. DOMAIN Removed(t, p, M) = live \ {p}
    BY <2>1
  <2>4. QED
    BY <2>1, <2>2, <2>3
<1>8. ASSUME NEW b \in Spaces
      PROVE  /\ refCount'[b] \in Int
             /\ refCount'[b] >= refCount[b] - (IF a = b THEN 1 ELSE 0)
  <2>1. Copies(t, p, M, b) \in Nat
    <3>1. M \subseteq Pid
      BY <1>1, <1>4, ChainsAreOfOthers, PidNat
    <3>2. IsFiniteSet(M)
      BY <3>1, PidFinite, FS_Subset
    <3>3. QED
      BY <3>2, FS_Subset, FS_CardinalityType DEF Copies
  <2>2. refCount'[b] = refCount[b] + Copies(t, p, M, b) - (IF a = b THEN 1 ELSE 0)
    BY <1>6 DEF RefsAfterRemoval
  <2>3. refCount[b] \in Int
    BY <1>1
  <2>4. QED
    BY <2>1, <2>2, <2>3
<1>9. ASSUME NEW b PROVE UsersIn(processTable', b) = UsersIn(t, b) \ {p}
  BY <1>4, <1>7 DEF UsersIn
<1>10. ASSUME NEW q \in DOMAIN processTable'
       PROVE  /\ processTable'[q].addressSpace \in spaces'
              /\ refCount'[processTable'[q].addressSpace]
                     >= Cardinality(UsersIn(processTable', processTable'[q].addressSpace))
  <2> DEFINE b == processTable'[q].addressSpace
  <2>1. q \in live /\ q # p /\ b = t[q].addressSpace /\ b \in Spaces
    BY <1>4, <1>7 DEF GoodProcess, Process
  <2>2. b \in spaces /\ refCount[b] >= Cardinality(UsersIn(t, b))
    BY <1>4, <1>5, <2>1 DEF Counted
  <2>3. /\ Cardinality(UsersIn(t, b)) \in Nat /\ refCount[b] \in Int
        /\ Cardinality(UsersIn(t, b) \ {p}) \in Nat
    <3>1. refCount[b] \in Int
      BY <1>1, <2>1
    <3>2. QED
      BY <1>1, <1>4, <3>1, UsersFinite, OthersFinite
  <2>4. refCount'[b] >= Cardinality(UsersIn(processTable', b))
    <3>1. CASE a = b
      <4>1. Cardinality(UsersIn(t, b) \ {p}) = Cardinality(UsersIn(t, b)) - 1
        BY <1>1, <1>4, <3>1, UserLeaves
      <4>2. refCount'[b] >= refCount[b] - 1 /\ refCount'[b] \in Int
        BY <1>8, <2>1, <3>1
      <4>3. Cardinality(UsersIn(processTable', b)) = Cardinality(UsersIn(t, b)) - 1
        BY <1>9, <4>1
      <4>4. QED
        BY <2>2, <2>3, <4>2, <4>3
    <3>2. CASE a # b
      <4>1. UsersIn(t, b) \ {p} = UsersIn(t, b)
        BY <3>2 DEF UsersIn
      <4>2. refCount'[b] >= refCount[b] /\ refCount'[b] \in Int
        BY <1>8, <2>1, <2>3, <3>2
      <4>3. QED
        BY <1>9, <2>2, <2>3, <4>1, <4>2
    <3>3. QED
      BY <3>1, <3>2
  <2>5. refCount'[b] > 0
    <3>1. Cardinality(UsersIn(t, b) \ {p}) >= 1
      BY <1>1, <1>4, <2>1, UsersRemain
    <3>2. refCount'[b] \in Int
      BY <1>8, <2>1
    <3>3. refCount'[b] >= Cardinality(UsersIn(t, b) \ {p})
      BY <1>9, <2>4
    <3> HIDE DEF t, b
    <3>4. QED
      BY <2>3, <3>1, <3>2, <3>3
  <2>6. b \in spaces'
    BY <1>6, <2>2, <2>5
  <2>7. QED
    BY <2>4, <2>6
<1>11. Counted(processTable, refCount, spaces)'
  BY <1>10 DEF Counted
<1>12. QED
  BY <1>7, <1>11, CountedIsLive, PTL

\* exec: the caller moves to a space nobody used.
LEMMA ExecCounted ==
    ASSUME TypedFrames, AddressSpaceLive, NEW p \in Pid, Exec(p)
    PROVE  AddressSpaceLive' /\ DOMAIN processTable' = live /\ loaded' \in spaces'
<1> DEFINE old == processTable[p].addressSpace
           t == processTable
<1>1. /\ processTable \in [live -> GoodProcess] /\ p \in live /\ live \subseteq Pid
      /\ refCount \in [Spaces -> Int] /\ DOMAIN processTable = live
  BY TypedFramesGood DEF TypedFrames, TypeOK, Exec, Running, live
<1>2. PICK a \in Spaces \ spaces :
        /\ processTable' = [processTable EXCEPT
                               ![p].addressSpace = a,
                               ![p].ctx = 0]
        /\ refCount' = [refCount EXCEPT ![old] = @ - 1, ![a] = 1]
        /\ spaces' = (spaces \ Unreferenced(old)) \cup {a}
        /\ loaded' = a
  BY DEF Exec
<1>3. Counted(t, refCount, spaces)
  BY CountedIsLive
<1>4. \A q \in live : t[q].addressSpace \in Spaces /\ t[q].addressSpace # a
  BY <1>1, <1>2, <1>3 DEF Counted, GoodProcess, Process
<1>5. /\ DOMAIN processTable' = live
      /\ processTable'[p].addressSpace = a
      /\ \A q \in live \ {p} : processTable'[q].addressSpace = t[q].addressSpace
  <2>1. processTable[p] \in Process
    BY <1>1 DEF GoodProcess
  <2>2. processTable' = [processTable EXCEPT ![p] =
           [processTable[p] EXCEPT !.addressSpace = a,
                                   !.ctx = 0]]
    BY <1>1, <1>2
  <2>3. processTable'[p] = [processTable[p] EXCEPT !.addressSpace = a,
                                   !.ctx = 0]
    BY <1>1, <2>2
  <2>4. processTable'[p].addressSpace = a
    BY <2>1, <2>3 DEF Process
  <2>5. QED
    BY <1>1, <2>2, <2>4
<1>6. UsersIn(processTable', a) = {p}
  BY <1>1, <1>4, <1>5 DEF UsersIn
<1>7. ASSUME NEW b, b # a PROVE UsersIn(processTable', b) = UsersIn(t, b) \ {p}
  BY <1>1, <1>5, <1>7 DEF UsersIn
<1>8. ASSUME NEW q \in DOMAIN processTable'
      PROVE  /\ processTable'[q].addressSpace \in spaces'
             /\ refCount'[processTable'[q].addressSpace]
                    >= Cardinality(UsersIn(processTable', processTable'[q].addressSpace))
  <2>1. CASE q = p
    <3>1. Cardinality({p}) = 1
      BY FS_Singleton
    <3>2. refCount'[a] = 1
      BY <1>1, <1>2
    <3>3. refCount'[a] >= Cardinality(UsersIn(processTable', a))
      BY <1>6, <3>1, <3>2
    <3>4. QED
      BY <1>2, <1>5, <2>1, <3>3
  <2>2. CASE q # p
    <3> DEFINE b == processTable'[q].addressSpace
    <3>1. q \in live /\ b = t[q].addressSpace /\ b # a /\ b \in Spaces
      BY <1>4, <1>5, <2>2
    <3>2. b \in spaces /\ refCount[b] >= Cardinality(UsersIn(t, b))
      BY <1>1, <1>3, <3>1 DEF Counted
    <3>3. /\ Cardinality(UsersIn(t, b)) \in Nat /\ refCount[b] \in Int
          /\ Cardinality(UsersIn(t, b) \ {p}) \in Nat
      BY <1>1, <3>1, UsersFinite, OthersFinite
    <3>4. Cardinality(UsersIn(t, b) \ {p}) >= 1
      BY <1>1, <2>2, <3>1, UsersRemain
    <3>5. CASE b = old
      <4>1. Cardinality(UsersIn(t, b) \ {p}) = Cardinality(UsersIn(t, b)) - 1
        BY <1>1, <3>5, UserLeaves
      <4>2. refCount'[b] = refCount[b] - 1
        BY <1>1, <1>2, <3>1, <3>5
      <4>3. ~(refCount[old] - 1 <= 0)
        BY <3>2, <3>3, <3>4, <3>5, <4>1
      <4>4. b \in spaces'
        BY <1>2, <3>2, <3>5, <4>3 DEF Unreferenced
      <4>5. refCount'[b] >= Cardinality(UsersIn(processTable', b))
        <5>1. Cardinality(UsersIn(processTable', b)) = Cardinality(UsersIn(t, b)) - 1
          BY <1>7, <3>1, <4>1
        <5>2. QED
          BY <3>2, <3>3, <4>2, <5>1
      <4>6. QED
        BY <4>4, <4>5
    <3>6. CASE b # old
      <4>1. UsersIn(t, b) \ {p} = UsersIn(t, b)
        BY <3>6 DEF UsersIn
      <4>2. refCount'[b] = refCount[b]
        BY <1>1, <1>2, <3>1, <3>6
      <4>3. b \in spaces'
        BY <1>2, <3>2, <3>6 DEF Unreferenced
      <4>4. QED
        BY <1>7, <3>1, <3>2, <4>1, <4>2, <4>3
    <3>7. QED
      BY <3>5, <3>6
  <2>3. QED
    BY <2>1, <2>2
<1>9. Counted(processTable, refCount, spaces)'
  BY <1>8 DEF Counted
<1>10. loaded' \in spaces'
  BY <1>2
<1>11. QED
  BY <1>5, <1>9, <1>10, CountedIsLive, PTL

\* Process ids are handed out once: a live process is older than currPid.
PidsBelow == \A p \in live : p < currPid

SpacesInv == /\ TypedFrames
             /\ PidsBelow
             /\ AddressSpaceLive
             /\ LoadedSpaceLive

\* The steps that touch neither nodes nor address spaces.
LEMMA MemoryKept ==
    ASSUME TypedFrames, NEW p \in Pid,
           \/ Tick(p) \/ Yield(p) \/ OutOfMemory(p) \/ Sigret(p) \/ Sigwait(p)
           \/ \E r \in Pid, sig \in SignalArgs : Sigraise(p, r, sig)
           \/ \E sig \in Signals, clear \in BOOLEAN : Sigaction(p, sig, clear)
           \/ ExecNoStack(p)
    PROVE  SameMemory(processTable, processTable')
<1>1. /\ processTable \in [live -> GoodProcess] /\ p \in live
      /\ DOMAIN processTable = live /\ live \subseteq Pid
  BY TypedFramesGood, OutOfMemoryKeeps DEF TypedFrames, TypeOK, live, Running, Tick,
     Yield, Sigret, Sigwait, Sigraise, Sigaction, ExecNoStack
<1>3. CASE Tick(p) \/ Yield(p) \/ OutOfMemory(p) \/ ExecNoStack(p)
  <2>1. processTable' = processTable
    BY <1>3, OutOfMemoryKeeps DEF Tick, Yield, ExecNoStack
  <2>2. QED
    BY <2>1 DEF SameMemory
<1>4. CASE Sigret(p)
  <2>1. CASE processTable[p].state # "SIGNAL"
    BY <1>4, <2>1 DEF Sigret, SameMemory
  <2>2. CASE processTable[p].state = "SIGNAL"
    <3>1. processTable[p] \in Process
      BY <1>1 DEF GoodProcess
    <3>2. processTable' =
            [processTable EXCEPT
               ![p] = [processTable[p] EXCEPT
                          !.ctx = processTable[p].backupCtx,
                          !.backupCtx = Null, !.state = "ACTIVE"]]
      BY <1>1, <1>4, <2>2 DEF Sigret
    <3>3. QED
      BY <1>1, <3>1, <3>2 DEF SameMemory, Process
  <2>3. QED
    BY <2>1, <2>2
<1>5. CASE Sigwait(p)
  <2>1. processTable' =
          [processTable EXCEPT ![p] = [processTable[p] EXCEPT !.state = "SIGWAIT"]]
    BY <1>1, <1>5 DEF Sigwait
  <2>2. processTable[p] \in Process
    BY <1>1 DEF GoodProcess
  <2>3. QED
    BY <1>1, <2>1, <2>2 DEF SameMemory, Process
<1>6. ASSUME NEW sig \in Signals, NEW clear \in BOOLEAN, Sigaction(p, sig, clear)
      PROVE  SameMemory(processTable, processTable')
  <2> DEFINE P == processTable[p]
             h == IF clear THEN P.signalHandlers \ {sig}
                           ELSE P.signalHandlers \cup {sig}
  <2>1. processTable' = [processTable EXCEPT ![p] = [P EXCEPT !.signalHandlers = h]]
    BY <1>1, <1>6 DEF Sigaction
  <2>2. P \in Process
    BY <1>1 DEF GoodProcess
  <2>3. QED
    BY <1>1, <2>1, <2>2 DEF SameMemory, Process
<1>7. ASSUME NEW r \in Pid, NEW sig \in SignalArgs, Sigraise(p, r, sig)
      PROVE  SameMemory(processTable, processTable')
  BY <1>1, <1>7, RaisedGood DEF Sigraise
<1>8. QED
  BY <1>3, <1>4, <1>5, <1>6, <1>7

\* Boot leaves one process, in one address space, with one reference.
LEMMA InitSpaces == Init => SpacesInv
<1> SUFFICES ASSUME Init PROVE SpacesInv
  OBVIOUS
<1>1. PICK n \in Nodes, a \in Spaces :
        /\ processTable = [p \in {0} |->
               [node |-> n, parent |-> 0, state |-> "ACTIVE",
                ctx |-> 0, backupCtx |-> Null,
                addressSpace |-> a, signalHandlers |-> {}]]
        /\ spaces = {a}
        /\ refCount = [b \in Spaces |-> IF b = a THEN 1 ELSE 0]
        /\ loaded = a /\ currPid = 1
  BY DEF Init, NewProcess
<1>2. live = {0} /\ processTable[0].addressSpace = a
  BY <1>1 DEF live
<1>3. Users(a) = {0} /\ Cardinality({0}) = 1
  BY <1>2, FS_Singleton DEF Users
<1>4. refCount[a] = 1
  BY <1>1
<1>5. AddressSpaceLive
  BY <1>1, <1>2, <1>3, <1>4 DEF AddressSpaceLive
<1>6. PidsBelow /\ LoadedSpaceLive
  BY <1>1, <1>2 DEF PidsBelow, LoadedSpaceLive
<1>7. QED
  BY <1>5, <1>6, InitTyped DEF SpacesInv

\* A switch that does not fault loads an address space that is allocated.
LEMMA SwitchLoadsLive ==
    ASSUME NEW D, NEW t \in [D -> GoodProcess], NEW q \in Seq(Nodes),
           NEW c \in Nodes \cup {Null}, loaded \in Spaces, SwitchTask(t, q, c),
           NEW R, NEW S, Counted(t, R, S)
    PROVE  fault' = "none" => loaded' \in S
<1>1. fault' = "none" => \E p \in D : loaded' = t[p].addressSpace
  BY SwitchTaskTyped
<1>2. QED
  BY <1>1 DEF Counted

\* Every system call and interrupt keeps the address spaces in use allocated
\* and a live one loaded.
LEMMA NextSpaces == SpacesInv /\ [Next]_vars => SpacesInv'
<1> SUFFICES ASSUME SpacesInv, [Next]_vars PROVE SpacesInv'
  OBVIOUS
<1>1. /\ TypedFrames /\ TypedFrames' /\ PidsBelow /\ AddressSpaceLive
      /\ LoadedSpaceLive
  BY NextTyped DEF SpacesInv
<1>2. /\ live \subseteq Pid /\ DOMAIN processTable = live /\ loaded \in Spaces
      /\ currPid \in Nat /\ queue \in Seq(Nodes) /\ cur \in Nodes \cup {Null}
      /\ processTable \in [live -> GoodProcess]
  BY <1>1, TypedFramesGood DEF TypedFrames, TypeOK, live
<1>3. /\ processTable' \in [live' -> GoodProcess]
      /\ AddressSpaceLive' <=> Counted(processTable', refCount', spaces')
  BY <1>1 DEF TypedFrames, TypeOK, SignalFrames, GoodProcess, Framed,
     AddressSpaceLive, Counted, UsersIn, Users, live
<1>4. Counted(processTable, refCount, spaces)
  BY <1>1, CountedIsLive
<1>5. CASE UNCHANGED vars \/ Halted
  BY <1>1, <1>5 DEF vars, Halted, SpacesInv, PidsBelow, AddressSpaceLive,
     LoadedSpaceLive, Users, live
<1>6. ASSUME NEW p \in Pid,
             \/ Tick(p) \/ Yield(p) \/ OutOfMemory(p) \/ Sigret(p) \/ Sigwait(p)
             \/ \E r \in Pid, sig \in SignalArgs : Sigraise(p, r, sig)
             \/ \E sig \in Signals, clear \in BOOLEAN : Sigaction(p, sig, clear)
      PROVE  SpacesInv'
  <2>1. SameMemory(processTable, processTable')
    BY <1>1, <1>6, MemoryKept
  <2>2. /\ spaces' = spaces /\ refCount' = refCount
        /\ currPid' = currPid \/ currPid' = currPid + 1
    BY <1>6, OutOfMemoryKeeps DEF Tick, Yield, Sigret, Sigwait, Sigraise, Sigaction,
       memVars
  <2>3. Counted(processTable', refCount', spaces')
    BY <1>4, <2>1, <2>2, SameMemoryCounted
  <2>4. AddressSpaceLive'
    BY <1>3, <2>3
  <2>5. PidsBelow'
    BY <1>1, <1>2, <2>1, <2>2, BoundsAssumption DEF PidsBelow, SameMemory, live, Pid
  <2>6. LoadedSpaceLive'
    <3>1. CASE Tick(p) \/ Yield(p) \/ Sigwait(p)
      <4>1. \E c \in Nodes \cup {Null} : SwitchTask(processTable', queue, c)
        BY <1>2, <3>1 DEF Tick, Yield, Sigwait
      <4>2. fault' = "none" => loaded' \in spaces'
        BY <1>2, <1>3, <2>3, <4>1, SwitchLoadsLive
      <4>3. QED
        BY <4>2 DEF LoadedSpaceLive
    <3>2. CASE ~(Tick(p) \/ Yield(p) \/ Sigwait(p))
      <4>1. loaded' = loaded /\ fault = "none"
        BY <1>6, <3>2, OutOfMemoryKeeps DEF Sigret, Sigraise, Sigaction, memVars, Running
      <4>2. QED
        BY <1>1, <2>2, <4>1 DEF LoadedSpaceLive
    <3>3. QED
      BY <3>1, <3>2
  <2>7. QED
    BY <1>1, <2>4, <2>5, <2>6 DEF SpacesInv
<1>7. ASSUME NEW p \in Pid, ExecNoStack(p) PROVE SpacesInv'
  <2>1. SameMemory(processTable, processTable') /\ currPid' = currPid
    BY <1>1, <1>7, MemoryKept DEF ExecNoStack
  <2>2. PICK a \in Spaces \ spaces : /\ spaces' = spaces \cup {a}
                                     /\ refCount' = [refCount EXCEPT ![a] = 0]
                                     /\ loaded' = a
    BY <1>7 DEF ExecNoStack
  <2>3. refCount \in [Spaces -> Int]
    BY <1>1 DEF TypedFrames, TypeOK
  <2>4. Counted(processTable, refCount', spaces')
    <3>1. ASSUME NEW q \in live
          PROVE  /\ processTable[q].addressSpace \in spaces'
                 /\ refCount'[processTable[q].addressSpace]
                       = refCount[processTable[q].addressSpace]
      <4>1. processTable[q].addressSpace \in spaces
        BY <1>2, <1>4 DEF Counted
      <4>2. processTable[q].addressSpace \in Spaces
        BY <1>2 DEF GoodProcess, Process
      <4>3. QED
        BY <2>2, <2>3, <4>1, <4>2
    <3>2. QED
      BY <1>2, <1>4, <3>1 DEF Counted
  <2>5. Counted(processTable', refCount', spaces')
    BY <2>1, <2>4, SameMemoryCounted
  <2>6. AddressSpaceLive'
    BY <1>3, <2>5
  <2>7. PidsBelow' /\ LoadedSpaceLive'
    BY <1>1, <1>2, <2>1, <2>2 DEF PidsBelow, LoadedSpaceLive, SameMemory, live
  <2>8. QED
    BY <1>1, <2>6, <2>7 DEF SpacesInv
<1>8. ASSUME NEW p \in Pid, Exec(p) PROVE SpacesInv'
  <2>1. AddressSpaceLive' /\ DOMAIN processTable' = live /\ loaded' \in spaces'
    BY <1>1, <1>8, ExecCounted
  <2>2. PidsBelow' /\ LoadedSpaceLive'
    BY <1>1, <1>2, <1>8, <2>1 DEF PidsBelow, LoadedSpaceLive, live, Exec
  <2>3. QED
    BY <1>1, <2>1, <2>2 DEF SpacesInv
<1>9. ASSUME NEW p \in Pid, Clone(p) PROVE SpacesInv'
  <2>1. currPid \notin live
    BY <1>1, <1>2 DEF PidsBelow
  <2>2. AddressSpaceLive'
    BY <1>1, <1>9, <2>1, CloneCounted
  <2>3. /\ DOMAIN processTable' = live \cup {currPid} /\ currPid' = currPid + 1
        /\ loaded' = loaded /\ spaces' = spaces /\ fault' = fault
    BY <1>9 DEF Clone, NewProcess
  <2>4. PidsBelow'
    BY <1>1, <1>2, <2>3, BoundsAssumption DEF PidsBelow, live, Pid
  <2>5. LoadedSpaceLive'
    BY <1>1, <2>3 DEF LoadedSpaceLive
  <2>6. QED
    BY <1>1, <2>2, <2>4, <2>5 DEF SpacesInv
<1>10. ASSUME NEW p \in Pid, Terminate(p) PROVE SpacesInv'
  <2>1. AddressSpaceLive' /\ DOMAIN processTable' = live \ {p}
    BY <1>1, <1>10, TerminateCounted
  <2>2. currPid' = currPid
    BY <1>10 DEF Terminate
  <2>3. PidsBelow'
    BY <1>1, <1>2, <2>1, <2>2 DEF PidsBelow, live
  <2>4. \E q \in Seq(Nodes) : \E M : AfterRemoval(processTable', q, M)
    <3>1. Woken(processTable, queue, processTable[p].parent) \in Seq(Nodes)
      BY <1>2, WokenTyped
    <3>2. \E M : AfterRemoval(processTable',
                             Woken(processTable, queue, processTable[p].parent), M)
      BY <1>10 DEF Terminate
    <3>3. QED
      BY <3>1, <3>2
  <2>5. Counted(processTable', refCount', spaces')
    BY <1>3, <2>1
  <2>6. fault' = "none" => loaded' \in spaces'
    <3>1. fault' = "none" => \E x \in live' : loaded' = processTable'[x].addressSpace
      BY <1>2, <1>3, <2>4, AfterRemovalTyped
    <3>2. QED
      BY <1>3, <2>5, <3>1 DEF Counted
  <2>7. QED
    BY <1>1, <2>1, <2>3, <2>6 DEF SpacesInv, LoadedSpaceLive
<1>11. QED
  BY <1>5, <1>6, <1>7, <1>8, <1>9, <1>10 DEF Next, SystemCall, OutOfMemory

\* However programs clone, exec and terminate, and whatever the process table
\* relocates, an address space that a process uses is never freed: its count
\* stays at or above the number of its users.
THEOREM AddressSpaceLiveCorrect == Spec => []AddressSpaceLive
<1>1. Spec => []SpacesInv
  BY InitSpaces, NextSpaces, PTL DEF Spec
<1>2. SpacesInv => AddressSpaceLive
  BY DEF SpacesInv
<1>3. QED
  BY <1>1, <1>2, PTL

\* The page tables the processor uses are never those of a freed address space
\* while the kernel runs.
THEOREM LoadedSpaceLiveCorrect == Spec => []LoadedSpaceLive
<1>1. Spec => []SpacesInv
  BY InitSpaces, NextSpaces, PTL DEF Spec
<1>2. SpacesInv => LoadedSpaceLive
  BY DEF SpacesInv
<1>3. QED
  BY <1>1, <1>2, PTL

-----------------------------------------------------------------------------
(* Programs that keep rules *)

\* Delivering a signal changes the record of the process that enters its
\* handler, and no other.
LEMMA TriggeredOther ==
    ASSUME NEW D, NEW t \in [D -> GoodProcess], NEW r, NEW sig, NEW q \in D,
           Enters(t, r, sig) => q # r
    PROVE  Triggered(t, r, sig)[q] = t[q]
<1>1. CASE Enters(t, r, sig)
  BY <1>1 DEF Triggered
<1>2. CASE ~Enters(t, r, sig)
  BY <1>2 DEF Triggered
<1>3. QED
  BY <1>1, <1>2

\* That process gets its context saved and the handler's in its place.
LEMMA TriggeredEntrant ==
    ASSUME NEW D, NEW t \in [D -> GoodProcess], NEW r, NEW sig, Enters(t, r, sig)
    PROVE  /\ r \in D
           /\ Triggered(t, r, sig)[r].state = "SIGNAL"
           /\ Triggered(t, r, sig)[r].backupCtx = t[r].ctx
           /\ Triggered(t, r, sig)[r].ctx = t[r].ctx + 1
<1>1. r \in D /\ t[r] \in Process
  BY DEF Enters, Accepts, GoodProcess
<1>2. QED
  BY <1>1 DEF Triggered, Process

-----------------------------------------------------------------------------
(* Relocation keeps the processes apart *)

\* No two processes of table t are in one node.
Apart(t) == \A x, y \in DOMAIN t : t[x].node = t[y].node => x = y

\* A removal keeps the processes apart, whatever chain the shape of the tree
\* makes it relocate.
LEMMA RemovedApart ==
    ASSUME NEW D, D \subseteq Pid, NEW t \in [D -> GoodProcess], NEW p \in D,
           NEW M \in Chains(t, p), Apart(t)
    PROVE  Apart(Removed(t, p, M))
<1> DEFINE home(x) == IF x \in M THEN Toward(p, M, x) ELSE x
           u == Removed(t, p, M)
<1>1. M \subseteq D /\ p \notin M /\ DOMAIN t = D
  BY ChainsAreOfOthers, PidNat
<1>2. ASSUME NEW x \in D \ {p} PROVE home(x) \in D /\ u[x].node = t[home(x)].node
  <2>1. CASE x \in M
    <3>1. Toward(p, M, x) \in D
      BY <1>1, <2>1, TowardInChain, PidNat
    <3>2. t[x] \in Process
      BY DEF GoodProcess
    <3>3. QED
      BY <1>1, <2>1, <3>1, <3>2 DEF Removed, Process
  <2>2. CASE x \notin M
    BY <1>1, <2>2 DEF Removed
  <2>3. QED
    BY <2>1, <2>2
<1>3. ASSUME NEW x \in D \ {p}, NEW y \in D \ {p}, home(x) = home(y) PROVE x = y
  <2>1. CASE x \in M /\ y \in M
    BY <1>1, <1>3, <2>1, TowardInjective, PidNat
  <2>2. CASE x \notin M /\ y \notin M
    BY <1>3, <2>2
  <2>3. CASE x \in M /\ y \notin M
    <3>1. Toward(p, M, x) \in M \cup {p}
      BY <1>1, <2>3, TowardInChain, PidNat
    <3>2. QED
      BY <1>3, <2>3, <3>1
  <2>4. CASE x \notin M /\ y \in M
    <3>1. Toward(p, M, y) \in M \cup {p}
      BY <1>1, <2>4, TowardInChain, PidNat
    <3>2. QED
      BY <1>3, <2>4, <3>1
  <2>5. QED
    BY <2>1, <2>2, <2>3, <2>4
<1>4. DOMAIN u = D \ {p}
  BY <1>1 DEF Removed
<1> HIDE DEF home, u
<1>5. ASSUME NEW x \in D \ {p}, NEW y \in D \ {p}, u[x].node = u[y].node PROVE x = y
  <2>1. t[home(x)].node = t[home(y)].node /\ home(x) \in D /\ home(y) \in D
    BY <1>2, <1>5
  <2>2. home(x) = home(y)
    BY <1>1, <2>1 DEF Apart
  <2>3. QED
    BY <1>3, <2>2
<1>6. Apart(u)
  BY <1>4, <1>5 DEF Apart
<1>7. QED
  BY <1>6 DEF u

\* What the invariants say of the table and of the running process p.
LEMMA RunningTyped ==
    ASSUME TypedFrames, NEW p \in Pid, Running(p)
    PROVE  /\ processTable \in [live -> GoodProcess] /\ DOMAIN processTable = live
           /\ live \subseteq Pid /\ p \in live /\ processTable[p].node = cur
           /\ queue \in Seq(Nodes) /\ cur \in Nodes /\ loaded \in Spaces
           /\ fault = "none" /\ currPid \in Nat
<1>1. processTable \in [live -> GoodProcess] /\ p \in live
  BY TypedFramesGood DEF Running
<1>2. cur \in Nodes
  BY <1>1 DEF Running, GoodProcess, Process
<1>3. QED
  BY <1>1, <1>2 DEF Running, TypedFrames, TypeOK, live

\* The tables after clone and after exec, in terms of those before.
LEMMA ClonedTable ==
    ASSUME TypedFrames, PidsBelow, NEW p \in Pid, Clone(p)
    PROVE  /\ currPid \notin live /\ live' = live \cup {currPid}
           /\ DOMAIN processTable' = live'
           /\ \A q \in live : processTable'[q] = processTable[q]
           /\ \E n \in Nodes \ NodesOf(processTable) :
                 /\ processTable'[currPid] =
                       NewProcess(n, p, processTable[p].addressSpace)
                 /\ queue' = Append(queue, n)
<1>1. currPid \notin live
  BY DEF PidsBelow, TypedFrames, TypeOK
<1>2. PICK n \in Nodes \ NodesOf(processTable) :
        /\ processTable' = [q \in live \cup {currPid} |->
               IF q = currPid
               THEN NewProcess(n, p, processTable[p].addressSpace)
               ELSE processTable[q]]
        /\ queue' = Append(queue, n)
  BY DEF Clone
<1>3. live' = live \cup {currPid} /\ DOMAIN processTable' = live'
  BY <1>2 DEF live
<1>4. QED
  BY <1>1, <1>2, <1>3

\* exec changes the record of the caller only, which it leaves in its node.
LEMMA ExecTable ==
    ASSUME TypedFrames, NEW p \in Pid, Exec(p)
    PROVE  /\ live' = live /\ DOMAIN processTable' = live'
           /\ \A q \in live : q # p => processTable'[q] = processTable[q]
           /\ processTable'[p].node = processTable[p].node
           /\ processTable'[p].state = "ACTIVE" /\ processTable[p].state = "ACTIVE"
           /\ processTable'[p].ctx = 0
           /\ processTable'[p].addressSpace = loaded'
<1>1. /\ processTable \in [live -> GoodProcess] /\ p \in live
      /\ DOMAIN processTable = live
  BY RunningTyped DEF Exec
<1>2. PICK a \in Spaces \ spaces :
        /\ processTable' = [processTable EXCEPT ![p].addressSpace = a,
                                                ![p].ctx = 0]
        /\ loaded' = a
  BY DEF Exec
<1>3. processTable[p] \in Process /\ processTable[p].state = "ACTIVE"
  BY <1>1 DEF GoodProcess, Exec
<1>4. processTable' = [processTable EXCEPT
         ![p] = [processTable[p] EXCEPT !.addressSpace = a,
                                        !.ctx = 0]]
  BY <1>1, <1>2
<1>5. live' = live /\ DOMAIN processTable' = live'
  BY <1>1, <1>4 DEF live
<1>6. QED
  BY <1>1, <1>2, <1>3, <1>4, <1>5 DEF Process

\* Every step keeps the processes of the table in different nodes.
LEMMA NextApart ==
    ASSUME TypedFrames, PidsBelow, NodesDistinct, [Next]_vars
    PROVE  NodesDistinct'
<1>1. Apart(processTable)
  BY DEF NodesDistinct, Apart, live
<1>2. SUFFICES Apart(processTable')
  BY DEF NodesDistinct, Apart, live
<1>3. CASE UNCHANGED vars \/ Halted
  BY <1>1, <1>3 DEF vars, Halted
<1>4. ASSUME NEW p \in Pid,
             \/ Tick(p) \/ Yield(p) \/ OutOfMemory(p) \/ Sigret(p) \/ Sigwait(p)
             \/ \E r \in Pid, sig \in SignalArgs : Sigraise(p, r, sig)
             \/ \E sig \in Signals, clear \in BOOLEAN : Sigaction(p, sig, clear)
             \/ ExecNoStack(p)
      PROVE  Apart(processTable')
  <2>1. SameMemory(processTable, processTable')
    BY <1>4, MemoryKept
  <2>2. QED
    BY <1>1, <2>1 DEF SameMemory, Apart
<1>5. ASSUME NEW p \in Pid, Exec(p) PROVE Apart(processTable')
  <2>1. DOMAIN processTable' = DOMAIN processTable
    BY <1>5, ExecTable DEF live
  <2>2. \A q \in DOMAIN processTable : processTable'[q].node = processTable[q].node
    BY <1>5, ExecTable DEF live
  <2>3. QED
    BY <1>1, <2>1, <2>2 DEF Apart
<1>6. ASSUME NEW p \in Pid, Clone(p) PROVE Apart(processTable')
  <2>1. /\ processTable \in [live -> GoodProcess] /\ p \in live
        /\ DOMAIN processTable = live
    BY <1>6, RunningTyped DEF Clone
  <2>2. PICK n \in Nodes \ NodesOf(processTable) :
          processTable'[currPid] = NewProcess(n, p, processTable[p].addressSpace)
    BY <1>6, ClonedTable
  <2>3. processTable'[currPid].node = n
    BY <2>2 DEF NewProcess
  <2>4. \A q \in live : processTable'[q].node = processTable[q].node
    BY <1>6, <2>1, ClonedTable DEF SameMemory
  <2>5. \A q \in live : processTable'[q].node # n
    BY <2>1, <2>4 DEF NodesOf
  <2>6. DOMAIN processTable' = live \cup {currPid}
    BY <1>6, ClonedTable
  <2>7. QED
    BY <1>1, <2>1, <2>3, <2>4, <2>5, <2>6 DEF Apart
<1>7. ASSUME NEW p \in Pid, Terminate(p) PROVE Apart(processTable')
  <2> DEFINE t == Triggered(processTable, processTable[p].parent, SIGCHLD)
  <2>1. /\ processTable \in [live -> GoodProcess] /\ p \in live
        /\ DOMAIN processTable = live /\ live \subseteq Pid
    BY <1>7, RunningTyped DEF Terminate
  <2>2. MayRaise(processTable, processTable[p].parent, SIGCHLD)
    BY <1>7 DEF Terminate
  <2>3. t \in [live -> GoodProcess] /\ SameMemory(processTable, t)
    BY <2>1, <2>2, RaisedGood
  <2>4. PICK M \in Chains(t, p) : processTable' = Removed(t, p, M)
    BY <1>7 DEF Terminate
  <2>5. Apart(t)
    BY <1>1, <2>3 DEF Apart, SameMemory
  <2>6. QED
    BY <2>1, <2>3, <2>4, <2>5, RemovedApart
<1>8. QED
  BY <1>3, <1>4, <1>5, <1>6, <1>7 DEF Next, SystemCall, OutOfMemory

\* NodesDistinct holds at boot.
LEMMA InitApart == Init => NodesDistinct
<1> SUFFICES ASSUME Init PROVE NodesDistinct
  OBVIOUS
<1>1. DOMAIN processTable = {0}
  BY DEF Init
<1>2. QED
  BY <1>1 DEF NodesDistinct, live

\* What is invariant whatever the programs do.
TableInv == SpacesInv /\ NodesDistinct

\* It holds throughout.
LEMMA TableInvCorrect == Spec => []TableInv
<1>1. Init => TableInv
  BY InitSpaces, InitApart DEF TableInv
<1>2. TableInv /\ [Next]_vars => TableInv'
  BY NextSpaces, NextApart DEF TableInv, SpacesInv
<1>3. QED
  BY <1>1, <1>2, PTL DEF Spec

\* Whichever entries binary_search_tree::remove relocates when a process
\* exits, and whatever the programs call, no two processes of the table end up
\* in one node: the copies by operator= overwrite nobody.
THEOREM NodesDistinctCorrect == Spec => []NodesDistinct
<1>1. TableInv => NodesDistinct
  BY DEF TableInv
<1>2. QED
  BY <1>1, TableInvCorrect, PTL

-----------------------------------------------------------------------------
(* The running process and its address space *)

\* A switch that does not fault loads the address space of the process in the
\* node it makes current: there is only one.
LEMMA SwitchLoadsOwn ==
    ASSUME NEW D, NEW t \in [D -> GoodProcess], Apart(t), NEW q \in Seq(Nodes),
           NEW c \in Nodes \cup {Null}, SwitchTask(t, q, c),
           fault' = "none", NEW p \in D, t[p].node = cur'
    PROVE  loaded' = t[p].addressSpace
<1> DEFINE h == CHOOSE x \in DOMAIN t : t[x].node = cur'
<1>1. h \in D /\ t[h].node = cur'
  OBVIOUS
<1>2. h = p
  BY <1>1 DEF Apart
<1>3. loaded' = t[h].addressSpace
  BY DEF SwitchTask, SpaceIn
<1>4. QED
  BY <1>2, <1>3

\* With the allocations of exec successful, the process that runs after a step
\* runs in its own address space if the one before did.
LEMMA NextOwnSpace ==
    ASSUME Kept("memory"), TableInv, RunsInOwnSpace, [Next]_vars
    PROVE  RunsInOwnSpace'
<1>1. TypedFrames /\ PidsBelow /\ NodesDistinct
  BY DEF TableInv, SpacesInv
<1>2. TypedFrames' /\ NodesDistinct'
  BY <1>1, NextTyped, NextApart
<1>3. /\ processTable' \in [live' -> GoodProcess] /\ Apart(processTable')
      /\ DOMAIN processTable' = live'
  BY <1>2 DEF TypedFrames, TypeOK, SignalFrames, GoodProcess, Framed, live,
     NodesDistinct, Apart
<1>4. ASSUME NEW x \in live', fault' = "none", processTable'[x].node = cur'
      PROVE  loaded' = processTable'[x].addressSpace
  <2>1. CASE UNCHANGED vars \/ Halted
    BY <1>4, <2>1 DEF vars, Halted, RunsInOwnSpace, Running, live
  <2>2. ASSUME NEW q \in Seq(Nodes), NEW c \in Nodes \cup {Null},
               SwitchTask(processTable', q, c)
        PROVE  loaded' = processTable'[x].addressSpace
    BY <1>3, <1>4, <2>2, SwitchLoadsOwn
  <2>3. ASSUME NEW p \in Pid, Tick(p) \/ Yield(p) \/ Sigwait(p)
        PROVE  loaded' = processTable'[x].addressSpace
    <3>1. /\ queue \in Seq(Nodes) /\ cur \in Nodes
      BY <1>1, <2>3, RunningTyped DEF Tick, Yield, Sigwait
    <3>2. SwitchTask(processTable', queue, cur) \/ SwitchTask(processTable', queue, Null)
      BY <2>3 DEF Tick, Yield, Sigwait
    <3>3. QED
      BY <2>2, <3>1, <3>2
  <2>4. ASSUME NEW p \in Pid, Terminate(p)
        PROVE  loaded' = processTable'[x].addressSpace
    <3> DEFINE q == Woken(processTable, queue, processTable[p].parent)
    <3>1. q \in Seq(Nodes)
      <4>1. /\ queue \in Seq(Nodes) /\ p \in live
            /\ processTable \in [live -> GoodProcess]
        BY <1>1, <2>4, RunningTyped DEF Terminate
      <4>2. QED
        BY <4>1, WokenTyped
    <3>2. SwitchTask(processTable', q, Null)
      BY <1>4, <2>4 DEF Terminate, AfterRemoval
    <3>3. QED
      BY <2>2, <3>1, <3>2
  <2>5. ASSUME NEW p \in Pid,
               \/ Sigret(p)
               \/ \E r \in Pid, sig \in SignalArgs : Sigraise(p, r, sig)
               \/ \E sig \in Signals, clear \in BOOLEAN : Sigaction(p, sig, clear)
               \/ ExecNoStack(p)
        PROVE  loaded' = processTable'[x].addressSpace
    <3>1. SameMemory(processTable, processTable')
      BY <1>1, <2>5, MemoryKept
    <3>2. cur' = cur /\ loaded' = loaded /\ fault = "none"
      BY <2>5 DEF Sigret, Sigraise, Sigaction, ExecNoStack, memVars, Running
    <3>3. x \in live /\ processTable[x].node = cur
      BY <1>3, <1>4, <3>1, <3>2 DEF SameMemory, live
    <3>4. QED
      BY <3>1, <3>2, <3>3 DEF SameMemory, live, RunsInOwnSpace, Running
  <2>6. ASSUME NEW p \in Pid, Exec(p)
        PROVE  loaded' = processTable'[x].addressSpace
    <3>1. p \in live' /\ processTable'[p].node = cur'
      BY <1>1, <2>6, ExecTable, RunningTyped DEF Exec
    <3>2. x = p
      BY <1>3, <1>4, <3>1 DEF Apart
    <3>3. QED
      BY <1>1, <2>6, <3>2, ExecTable
  <2>7. ASSUME NEW p \in Pid, Clone(p)
        PROVE  loaded' = processTable'[x].addressSpace
    <3>1. /\ processTable \in [live -> GoodProcess] /\ p \in live
          /\ DOMAIN processTable = live /\ processTable[p].node = cur
      BY <1>1, <2>7, RunningTyped DEF Clone
    <3>3. /\ p \in live' /\ processTable'[p].node = cur
          /\ processTable'[p].addressSpace = processTable[p].addressSpace
      BY <1>1, <2>7, <3>1, ClonedTable
    <3>4. cur' = cur /\ loaded' = loaded /\ Running(p)
      BY <2>7 DEF Clone
    <3>5. x = p
      BY <1>3, <1>4, <3>3, <3>4 DEF Apart
    <3>6. QED
      BY <3>1, <3>3, <3>4, <3>5 DEF RunsInOwnSpace
  <2>8. ASSUME NEW p \in Pid, OutOfMemory(p) PROVE FALSE
    BY <2>8, OutOfMemoryKeeps
  <2>9. QED
    BY <2>1, <2>3, <2>4, <2>5, <2>6, <2>7, <2>8 DEF Next, SystemCall, OutOfMemory
<1>5. QED
  BY <1>4 DEF RunsInOwnSpace, Running, live

\* Under programs of any kind, as long as no allocation of exec fails, the
\* process that runs has its own page tables loaded: after every switch, also
\* to a process that the table has moved, and after every exec.
THEOREM RunsInOwnSpaceCorrect ==
    ASSUME Kept("memory") PROVE Spec => []RunsInOwnSpace
<1>1. Init => RunsInOwnSpace
  <2> SUFFICES ASSUME Init PROVE RunsInOwnSpace
    OBVIOUS
  <2>1. PICK n \in Nodes, a \in Spaces :
          processTable = [p \in {0} |-> NewProcess(n, 0, a)] /\ loaded = a
    BY DEF Init
  <2>2. QED
    BY <2>1 DEF RunsInOwnSpace, live, NewProcess
<1>2. TableInv /\ RunsInOwnSpace /\ [Next]_vars => RunsInOwnSpace'
  BY NextOwnSpace
<1>3. QED
  BY <1>1, <1>2, TableInvCorrect, PTL DEF Spec

-----------------------------------------------------------------------------
(* Handlers *)

\* A process is in no handler, or in one that its state and its saved context
\* let it leave.  A sleeping process is in none.
OneHandler(P) ==
    IF P.state = "SIGNAL" THEN P.ctx = 1 /\ P.backupCtx = 0
                          ELSE P.ctx = 0

HandlersInv == \A p \in live : OneHandler(processTable[p])

\* HandlersInv implies the property; it also says that handlers do not nest,
\* without which sigret would not be seen to restore the outermost context.
LEMMA HandlersInvImplies ==
    ASSUME TypedFrames, HandlersInv PROVE HandlerCanReturn
<1>1. ASSUME NEW p \in live, processTable[p].ctx > 0,
             processTable[p].state # "SIGWAIT"
      PROVE  /\ processTable[p].state = "SIGNAL"
             /\ processTable[p].backupCtx = processTable[p].ctx - 1
  BY <1>1 DEF HandlersInv, OneHandler
<1>2. QED
  BY <1>1 DEF HandlerCanReturn

\* Nor does a signal to a process outside a handler make two of one.
LEMMA RaisedHandlers ==
    ASSUME NEW D, NEW t \in [D -> GoodProcess], NEW r, NEW sig,
           \A q \in D : OneHandler(t[q])
    PROVE  \A q \in D : OneHandler(Triggered(t, r, sig)[q])
<1>1. ASSUME NEW q \in D PROVE OneHandler(Triggered(t, r, sig)[q])
  <2>1. CASE ~(Enters(t, r, sig) /\ q = r)
    <3>1. Triggered(t, r, sig)[q] = t[q]
      BY <2>1, TriggeredOther
    <3>2. QED
      BY <3>1
  <2>2. CASE Enters(t, r, sig) /\ q = r
    <3>1. t[q].state # "SIGNAL" /\ OneHandler(t[q])
      BY <2>2 DEF Enters, Accepts
    <3>2. t[q].ctx = 0
      BY <3>1 DEF OneHandler
    <3>3. /\ Triggered(t, r, sig)[q].state = "SIGNAL"
          /\ Triggered(t, r, sig)[q].backupCtx = t[q].ctx
          /\ Triggered(t, r, sig)[q].ctx = t[q].ctx + 1
      BY <2>2, TriggeredEntrant
    <3>4. Triggered(t, r, sig)[q].ctx = 1
      BY <3>2, <3>3
    <3>5. QED
      BY <3>2, <3>3, <3>4 DEF OneHandler
  <2>3. QED
    BY <2>1, <2>2
<1>2. QED
  BY <1>1

\* If no handler calls sigwait, every step keeps HandlersInv.
LEMMA NextHandlers ==
    ASSUME Kept("no_sleep_in_handler"), TableInv, HandlersInv, [Next]_vars
    PROVE  HandlersInv'
<1>1. TypedFrames /\ PidsBelow
  BY DEF TableInv, SpacesInv
<1>2. SUFFICES \A q \in DOMAIN processTable' : OneHandler(processTable'[q])
  BY DEF HandlersInv, live
<1>3. CASE UNCHANGED vars \/ Halted
  BY <1>3 DEF vars, Halted, HandlersInv, live
<1>4. ASSUME NEW p \in Pid, Running(p)
      PROVE  /\ processTable \in [live -> GoodProcess] /\ p \in live
             /\ DOMAIN processTable = live /\ live \subseteq Pid
             /\ \A q \in live : OneHandler(processTable[q])
  BY <1>1, <1>4, RunningTyped DEF HandlersInv
<1>5. ASSUME NEW p \in Pid, Tick(p) \/ Yield(p) \/ OutOfMemory(p) \/ ExecNoStack(p)
      PROVE  \A q \in DOMAIN processTable' : OneHandler(processTable'[q])
  <2>1. Running(p) /\ processTable' = processTable
    BY <1>5, OutOfMemoryKeeps DEF Tick, Yield, ExecNoStack
  <2>2. QED
    BY <1>4, <2>1
<1>6. ASSUME NEW p \in Pid, Sigret(p)
      PROVE  \A q \in DOMAIN processTable' : OneHandler(processTable'[q])
  <2>1. Running(p)
    BY <1>6 DEF Sigret
  <2>2. CASE processTable[p].state # "SIGNAL"
    BY <1>4, <1>6, <2>1, <2>2 DEF Sigret
  <2>3. CASE processTable[p].state = "SIGNAL"
    <3>1. processTable[p] \in Process
      BY <1>4, <2>1 DEF GoodProcess
    <3>2. processTable' =
            [processTable EXCEPT
               ![p] = [processTable[p] EXCEPT
                          !.ctx = processTable[p].backupCtx,
                          !.backupCtx = Null, !.state = "ACTIVE"]]
      BY <1>4, <1>6, <2>1, <2>3 DEF Sigret
    <3>3. processTable[p].backupCtx = 0
      BY <1>4, <2>1, <2>3 DEF HandlersInv, OneHandler
    <3>4. OneHandler(processTable'[p])
      BY <1>4, <2>1, <3>1, <3>2, <3>3 DEF OneHandler, Process
    <3>5. QED
      BY <1>4, <2>1, <3>2, <3>4 DEF HandlersInv
  <2>4. QED
    BY <2>2, <2>3
<1>7. ASSUME NEW p \in Pid, Sigwait(p)
      PROVE  \A q \in DOMAIN processTable' : OneHandler(processTable'[q])
  <2>1. Running(p) /\ processTable[p].ctx = 0
    BY <1>7 DEF Sigwait
  <2>2. processTable[p] \in Process
    BY <1>4, <2>1 DEF GoodProcess
  <2>3. processTable' =
          [processTable EXCEPT ![p] = [processTable[p] EXCEPT !.state = "SIGWAIT"]]
    BY <1>4, <1>7, <2>1 DEF Sigwait
  <2>4. OneHandler(processTable'[p])
    BY <1>4, <2>1, <2>2, <2>3 DEF OneHandler, Process
  <2>5. QED
    BY <1>4, <2>1, <2>3, <2>4
<1>8. ASSUME NEW p \in Pid, NEW sig \in Signals, NEW clear \in BOOLEAN,
             Sigaction(p, sig, clear)
      PROVE  \A q \in DOMAIN processTable' : OneHandler(processTable'[q])
  <2> DEFINE P == processTable[p]
             h == IF clear THEN P.signalHandlers \ {sig}
                           ELSE P.signalHandlers \cup {sig}
  <2>1. Running(p)
    BY <1>8 DEF Sigaction
  <2>2. P \in Process /\ OneHandler(P)
    BY <1>4, <2>1 DEF GoodProcess
  <2>3. processTable' = [processTable EXCEPT ![p] = [P EXCEPT !.signalHandlers = h]]
    BY <1>4, <1>8, <2>1 DEF Sigaction
  <2>4. OneHandler(processTable'[p])
    BY <1>4, <2>1, <2>2, <2>3 DEF OneHandler, Process
  <2>5. QED
    BY <1>4, <2>1, <2>3, <2>4
<1>9. ASSUME NEW p \in Pid, NEW r \in Pid, NEW sig \in SignalArgs, Sigraise(p, r, sig)
      PROVE  \A q \in DOMAIN processTable' : OneHandler(processTable'[q])
  <2> DEFINE t == Triggered(processTable, r, sig)
  <2>1. Running(p) /\ MayRaise(processTable, r, sig) /\ processTable' = t
    BY <1>9 DEF Sigraise
  <2>2. t \in [live -> GoodProcess]
    BY <1>4, <2>1, RaisedGood
  <2>3. \A q \in live : OneHandler(t[q])
    BY <1>4, <2>1, RaisedHandlers
  <2> HIDE DEF t
  <2>4. QED
    BY <2>1, <2>2, <2>3
<1>10. ASSUME NEW p \in Pid, Exec(p)
       PROVE  \A q \in DOMAIN processTable' : OneHandler(processTable'[q])
  <2>1. processTable'[p].state = "ACTIVE" /\ processTable'[p].ctx = 0
    BY <1>1, <1>10, ExecTable
  <2>2. OneHandler(processTable'[p])
    BY <2>1 DEF OneHandler
  <2>3. QED
    BY <1>1, <1>10, <2>2, ExecTable DEF HandlersInv
<1>11. ASSUME NEW p \in Pid, Clone(p)
       PROVE  \A q \in DOMAIN processTable' : OneHandler(processTable'[q])
  <2>1. Running(p)
    BY <1>11 DEF Clone
  <2>2. OneHandler(processTable'[currPid])
    <3>1. PICK n \in Nodes :
            processTable'[currPid] = NewProcess(n, p, processTable[p].addressSpace)
      BY <1>1, <1>11, ClonedTable
    <3>2. /\ processTable'[currPid].state = "ACTIVE"
          /\ processTable'[currPid].ctx = 0
      BY <3>1 DEF NewProcess
    <3>3. QED
      BY <3>2 DEF OneHandler
  <2>3. \A q \in live : OneHandler(processTable'[q])
    BY <1>1, <1>4, <1>11, <2>1, ClonedTable
  <2>4. QED
    BY <1>1, <1>11, <2>2, <2>3, ClonedTable
<1>12. ASSUME NEW p \in Pid, Terminate(p)
       PROVE  \A q \in DOMAIN processTable' : OneHandler(processTable'[q])
  <2> DEFINE r == processTable[p].parent
             t == Triggered(processTable, r, SIGCHLD)
  <2>1. Running(p) /\ MayRaise(processTable, r, SIGCHLD)
    BY <1>12 DEF Terminate
  <2>2. t \in [live -> GoodProcess]
    BY <1>4, <2>1, RaisedGood
  <2>3. \A q \in live : OneHandler(t[q])
    BY <1>4, <2>1, RaisedHandlers
  <2>4. PICK M \in Chains(t, p) : processTable' = Removed(t, p, M)
    BY <1>12 DEF Terminate
  <2> HIDE DEF t
  <2>5. ASSUME NEW q \in live \ {p} PROVE OneHandler(processTable'[q])
    <3>1. t[q] \in Process /\ OneHandler(t[q])
      BY <2>2, <2>3 DEF GoodProcess
    <3>2. CASE q \notin M
      BY <2>2, <2>4, <3>1, <3>2 DEF Removed
    <3>3. CASE q \in M
      <4>1. processTable'[q] = [t[q] EXCEPT !.node = t[Toward(p, M, q)].node]
        BY <2>2, <2>4, <3>3 DEF Removed
      <4>2. QED
        BY <3>1, <4>1 DEF OneHandler, Process
    <3>4. QED
      BY <3>2, <3>3
  <2>6. DOMAIN processTable' = live \ {p}
    BY <2>2, <2>4 DEF Removed
  <2>7. QED
    BY <2>5, <2>6
<1>13. QED
  BY <1>3, <1>5, <1>6, <1>7, <1>8, <1>9, <1>10, <1>11, <1>12 DEF Next, SystemCall, OutOfMemory

\* As long as no handler calls sigwait, a process inside a handler can leave it
\* by sigret and returns to the context that the signal interrupted, whatever
\* signals arrive meanwhile, from whom, and whatever else the programs do.
THEOREM HandlerCanReturnCorrect ==
    ASSUME Kept("no_sleep_in_handler") PROVE Spec => []HandlerCanReturn
<1>1. Init => HandlersInv
  <2> SUFFICES ASSUME Init PROVE HandlersInv
    OBVIOUS
  <2>1. PICK n \in Nodes, a \in Spaces :
          processTable = [p \in {0} |-> NewProcess(n, 0, a)]
    BY DEF Init
  <2>2. QED
    BY <2>1 DEF HandlersInv, OneHandler, live, NewProcess
<1>2. TableInv /\ HandlersInv /\ [Next]_vars => HandlersInv'
  BY NextHandlers
<1>3. TableInv /\ HandlersInv => HandlerCanReturn
  BY HandlersInvImplies DEF TableInv, SpacesInv
<1>4. QED
  BY <1>1, <1>2, <1>3, TableInvCorrect, PTL DEF Spec

-----------------------------------------------------------------------------
(* The ready queue *)

\* Nobody is in queue q twice.
Once(q) == \A i, j \in 1 .. Len(q) : q[i] = q[j] => i = j

\* The nodes of the processes of table t that do not sleep.
Awake(t) == {t[p].node : p \in {q \in DOMAIN t : t[q].state # "SIGWAIT"}}

\* enqueue puts one more node at the back of the queue.
LEMMA Enqueued ==
    ASSUME NEW q \in Seq(Nodes), NEW n \in Nodes, Once(q), n \notin Elems(q)
    PROVE  /\ Append(q, n) \in Seq(Nodes) /\ Append(q, n) # <<>>
           /\ Once(Append(q, n))
           /\ Elems(Append(q, n)) = Elems(q) \cup {n}
<1> DEFINE a == Append(q, n)
<1>1. /\ a \in Seq(Nodes) /\ Len(a) = Len(q) + 1 /\ a[Len(q) + 1] = n
      /\ \A i \in 1 .. Len(q) : a[i] = q[i]
      /\ Len(q) \in Nat /\ a # <<>>
  OBVIOUS
<1>2. 1 .. Len(a) = (1 .. Len(q)) \cup {Len(q) + 1}
  BY <1>1
<1> HIDE DEF a
<1>3. Elems(a) = Elems(q) \cup {n}
  BY <1>1, <1>2 DEF Elems
<1>4. ASSUME NEW i \in 1 .. Len(a), NEW j \in 1 .. Len(a), a[i] = a[j] PROVE i = j
  <2>1. \A k \in 1 .. Len(q) : q[k] # n
    BY DEF Elems
  <2>2. QED
    BY <1>1, <1>2, <1>4, <2>1 DEF Once
<1>5. QED
  BY <1>1, <1>3, <1>4 DEF Once, a

\* dequeue takes the front node, and no other.
LEMMA Dequeued ==
    ASSUME NEW q \in Seq(Nodes), q # <<>>, Once(q)
    PROVE  /\ Tail(q) \in Seq(Nodes) /\ Head(q) \in Nodes
           /\ Once(Tail(q)) /\ Head(q) \notin Elems(Tail(q))
           /\ Elems(Tail(q)) \cup {Head(q)} = Elems(q)
<1> DEFINE b == Tail(q)
<1>1. /\ b \in Seq(Nodes) /\ Len(b) = Len(q) - 1 /\ Len(q) \in Nat /\ Len(q) > 0
      /\ Head(q) = q[1] /\ Head(q) \in Nodes
      /\ \A i \in 1 .. Len(b) : b[i] = q[i + 1]
  OBVIOUS
<1> HIDE DEF b
<1>2. Once(b)
  <2>1. ASSUME NEW i \in 1 .. Len(b), NEW j \in 1 .. Len(b), b[i] = b[j] PROVE i = j
    <3>1. i + 1 \in 1 .. Len(q) /\ j + 1 \in 1 .. Len(q) /\ q[i + 1] = q[j + 1]
      BY <1>1, <2>1
    <3>2. i + 1 = j + 1
      BY <3>1 DEF Once
    <3>3. QED
      BY <1>1, <3>2
  <2>2. QED
    BY <2>1 DEF Once
<1>3. q[1] \notin Elems(b)
  <2>1. ASSUME NEW i \in 1 .. Len(b), q[1] = b[i] PROVE FALSE
    <3>1. i + 1 \in 1 .. Len(q) /\ 1 \in 1 .. Len(q) /\ q[i + 1] = q[1]
      BY <1>1, <2>1
    <3>2. i + 1 = 1
      BY <3>1 DEF Once
    <3>3. QED
      BY <1>1, <3>2
  <2>2. QED
    BY <2>1 DEF Elems
<1>4. Elems(b) \cup {q[1]} = Elems(q)
  <2>1. ASSUME NEW x \in Elems(b) \cup {q[1]} PROVE x \in Elems(q)
    <3>1. CASE x = q[1]
      BY <1>1, <3>1 DEF Elems
    <3>2. CASE x \in Elems(b)
      <4>1. PICK i \in 1 .. Len(b) : x = b[i]
        BY <3>2 DEF Elems
      <4>2. i + 1 \in 1 .. Len(q) /\ x = q[i + 1]
        BY <1>1, <4>1
      <4>3. QED
        BY <4>2 DEF Elems
    <3>3. QED
      BY <2>1, <3>1, <3>2
  <2>2. ASSUME NEW x \in Elems(q) PROVE x \in Elems(b) \cup {q[1]}
    <3>1. PICK i \in 1 .. Len(q) : x = q[i]
      BY <2>2 DEF Elems
    <3>2. CASE i = 1
      BY <3>1, <3>2
    <3>3. CASE i # 1
      <4>1. i - 1 \in 1 .. Len(b) /\ x = b[i - 1]
        BY <1>1, <3>1, <3>3
      <4>2. QED
        BY <4>1 DEF Elems
    <3>4. QED
      BY <3>2, <3>3
  <2>3. QED
    BY <2>1, <2>2
<1>5. QED
  BY <1>1, <1>2, <1>3, <1>4 DEF b

\* When the queue that sched_next takes from names the processes that are
\* awake, each once, the switch makes one of them current and leaves the
\* others; it follows a null pointer only if there is none.
LEMMA SwitchRuns ==
    ASSUME NEW t, NEW q, NEW c, SwitchTask(t, q, c), Ready(q, c) \in Seq(Nodes),
           Once(Ready(q, c)), Elems(Ready(q, c)) = Awake(t)
    PROVE  /\ fault' = IF Ready(q, c) = <<>> THEN "null" ELSE "none"
           /\ Once(queue')
           /\ fault' = "none" => /\ Elems(queue') \cup {cur'} = Awake(t)
                                 /\ cur' \notin Elems(queue')
<1> DEFINE ready == Ready(q, c)
<1>1. CASE ready = <<>>
  <2>1. queue' = <<>> /\ fault' = "null"
    BY <1>1 DEF SwitchTask
  <2>2. QED
    BY <1>1, <2>1 DEF Once
<1>2. CASE ready # <<>>
  <2>1. queue' = Tail(ready) /\ cur' = Head(ready)
    BY <1>2 DEF SwitchTask
  <2>2. Head(ready) \in Awake(t)
    BY <1>2, Dequeued
  <2>3. Head(ready) \in NodesOf(t)
    BY <2>2 DEF Awake, NodesOf
  <2>4. fault' = "none"
    BY <1>2, <2>3 DEF SwitchTask
  <2>5. QED
    BY <1>2, <2>1, <2>4, Dequeued
<1>3. QED
  BY <1>1, <1>2

\* A step that moves no process and lets none sleep or wake keeps Awake.
LEMMA AwakeKept ==
    ASSUME NEW t, NEW u, SameMemory(t, u),
           \A q \in DOMAIN t : u[q].state = "SIGWAIT" <=> t[q].state = "SIGWAIT"
    PROVE  Awake(u) = Awake(t)
BY DEF Awake, SameMemory

\* raiseSignal, for senders that only send a sleeper what it handles: the
\* process that is put into the ready queue is the one that wakes up.
LEMMA RaisedAwake ==
    ASSUME Kept("handled_wakeups"),
           NEW D, NEW t \in [D -> GoodProcess], Apart(t), NEW r,
           NEW sig, MayRaise(t, r, sig),
           NEW q \in Seq(Nodes), Once(q), Elems(q) \subseteq Awake(t)
    PROVE  LET u == Triggered(t, r, sig)
               v == Woken(t, q, r)
           IN  /\ v \in Seq(Nodes) /\ Once(v) /\ (q # <<>> => v # <<>>)
               /\ Awake(t) \subseteq Awake(u)
               /\ Elems(v) = Elems(q) \cup (Awake(u) \ Awake(t))
<1> DEFINE u == Triggered(t, r, sig)
           v == Woken(t, q, r)
<1>2. u \in [D -> GoodProcess] /\ SameMemory(t, u)
  BY RaisedGood
<1>3. CASE Accepts(t, r) /\ t[r].state = "SIGWAIT"
  <2>1. r \in D
    BY <1>3 DEF Accepts
  <2>2. sig \in t[r].signalHandlers
    BY <1>3 DEF MayRaise
  <2>3. Enters(t, r, sig)
    BY <1>3, <2>2 DEF Enters
  <2>4. u[r].state = "SIGNAL" /\ \A x \in D \ {r} : u[x] = t[x]
    BY <2>3, TriggeredEntrant, TriggeredOther
  <2>5. v = Append(q, t[r].node) /\ t[r].node \in Nodes
    BY <1>3, <2>1 DEF Woken, GoodProcess, Process
  <2>6. t[r].node \notin Awake(t)
    BY <1>3, <2>1 DEF Awake, Apart
  <2>7. Awake(u) = Awake(t) \cup {t[r].node}
    <3> HIDE DEF u
    <3>1. DOMAIN u = D /\ DOMAIN t = D /\ \A x \in D : u[x].node = t[x].node
      BY <1>2 DEF SameMemory
    <3>2. \A x \in D \ {r} : u[x].state = t[x].state
      BY <2>4
    <3>3. QED
      BY <2>1, <2>4, <3>1, <3>2 DEF Awake
  <2>8. t[r].node \notin Elems(q)
    BY <2>6
  <2> HIDE DEF u, v
  <2>9. v \in Seq(Nodes) /\ v # <<>> /\ Once(v) /\ Elems(v) = Elems(q) \cup {t[r].node}
    BY <2>5, <2>8, Enqueued
  <2>10. QED
    BY <2>6, <2>7, <2>9 DEF u, v
<1>4. CASE ~(Accepts(t, r) /\ t[r].state = "SIGWAIT")
  <2>1. v = q
    BY <1>4 DEF Woken
  <2>2. ASSUME NEW x \in D PROVE u[x].state = "SIGWAIT" <=> t[x].state = "SIGWAIT"
    <3>1. CASE Enters(t, r, sig) => x # r
      <4>1. u[x] = t[x]
        BY <3>1, TriggeredOther
      <4>2. QED
        BY <4>1
    <3>2. CASE Enters(t, r, sig) /\ x = r
      <4>1. u[x].state = "SIGNAL"
        BY <3>2, TriggeredEntrant
      <4>2. Accepts(t, r)
        BY <3>2 DEF Enters
      <4>3. QED
        BY <1>4, <3>2, <4>1, <4>2
    <3>3. QED
      BY <3>1, <3>2
  <2>3. Awake(u) = Awake(t)
    BY <1>2, <2>2, AwakeKept
  <2>4. QED
    BY <2>1, <2>3
<1>5. QED
  BY <1>3, <1>4

\* The scheduler's part of the invariant, of the state before a step of p.
LEMMA RunningScheduled ==
    ASSUME TableInv, SchedulesRunnable, ScheduledOnce, NEW p \in Pid, Running(p)
    PROVE  /\ Elems(queue) \cup {cur} = Awake(processTable) /\ Once(queue)
           /\ cur \notin Elems(queue) /\ Apart(processTable) /\ cur # Null
           /\ processTable \in [live -> GoodProcess] /\ DOMAIN processTable = live
           /\ live \subseteq Pid /\ p \in live /\ processTable[p].node = cur
           /\ queue \in Seq(Nodes) /\ cur \in Nodes /\ fault = "none"
<1>1. TypedFrames /\ NodesDistinct
  BY DEF TableInv, SpacesInv
<1>2. /\ processTable \in [live -> GoodProcess] /\ DOMAIN processTable = live
      /\ live \subseteq Pid /\ p \in live /\ processTable[p].node = cur
      /\ queue \in Seq(Nodes) /\ cur \in Nodes /\ fault = "none"
  BY <1>1, RunningTyped
<1>3. Apart(processTable)
  BY <1>1 DEF NodesDistinct, Apart, live
<1>4. Elems(queue) \cup {cur} = Awake(processTable)
  BY <1>2 DEF SchedulesRunnable, Awake, live
<1>5. Once(queue) /\ cur \notin Elems(queue)
  BY <1>2 DEF ScheduledOnce, Once
<1>6. QED
  BY <1>2, <1>3, <1>4, <1>5, NullAssumption

\* The steps that end in switchTask hand it a queue that names, each once, the
\* processes that are awake in the table as it is by then; if somebody is ready
\* whenever a process sleeps or exits, that queue is not empty.  Only an exit
\* that leaves no file to destroy may not get that far.
LEMMA HandsOverReady ==
    ASSUME Kept("handled_wakeups"), Kept("leaf_exit"),
           TableInv, SchedulesRunnable, ScheduledOnce, NEW p \in Pid,
           Tick(p) \/ Yield(p) \/ Sigwait(p) \/ Terminate(p)
    PROVE  \/ ~Kept("keeps_files") /\ fault' = "null" /\ Once(queue')
           \/ \E q, c :
                 /\ SwitchTask(processTable', q, c)
                 /\ Ready(q, c) \in Seq(Nodes) /\ Once(Ready(q, c))
                 /\ Elems(Ready(q, c)) = Awake(processTable')
                 /\ Kept("stays_runnable") => Ready(q, c) # <<>>
<1>1. Running(p)
  BY DEF Tick, Yield, Sigwait, Terminate
<1>2. /\ Elems(queue) \cup {cur} = Awake(processTable) /\ Once(queue)
      /\ cur \notin Elems(queue) /\ Apart(processTable) /\ cur # Null
      /\ processTable \in [live -> GoodProcess] /\ DOMAIN processTable = live
      /\ live \subseteq Pid /\ p \in live /\ processTable[p].node = cur
      /\ queue \in Seq(Nodes) /\ cur \in Nodes
  BY <1>1, RunningScheduled
<1>4. CASE Tick(p) \/ Yield(p)
  <2>1. processTable' = processTable /\ SwitchTask(processTable', queue, cur)
    BY <1>4 DEF Tick, Yield
  <2>2. Ready(queue, cur) = Append(queue, cur)
    BY <1>2 DEF Ready
  <2>3. /\ Append(queue, cur) \in Seq(Nodes) /\ Once(Append(queue, cur))
        /\ Elems(Append(queue, cur)) = Awake(processTable')
        /\ Append(queue, cur) # <<>>
    BY <1>2, <2>1, Enqueued
  <2>4. QED
    BY <2>1, <2>2, <2>3
<1>5. Ready(queue, Null) = queue
  BY DEF Ready
<1>6. CASE Sigwait(p)
  <2>1. /\ processTable' = [processTable EXCEPT
                              ![p] = [processTable[p] EXCEPT !.state = "SIGWAIT"]]
        /\ SwitchTask(processTable', queue, Null)
        /\ Kept("stays_runnable") => queue # <<>>
    BY <1>2, <1>6 DEF Sigwait
  <2>2. processTable[p] \in Process
    BY <1>2 DEF GoodProcess
  <2>3. /\ DOMAIN processTable' = live /\ processTable'[p].state = "SIGWAIT"
        /\ \A x \in live \ {p} : processTable'[x] = processTable[x]
    BY <1>2, <2>1, <2>2 DEF Process
  <2>4. Awake(processTable') = Awake(processTable) \ {cur}
    BY <1>2, <2>3 DEF Awake, Apart
  <2>5. Elems(queue) = Awake(processTable')
    BY <1>2, <2>4
  <2>6. QED
    BY <1>2, <1>5, <2>1, <2>5
<1>7. CASE Terminate(p)
  <2> DEFINE r == processTable[p].parent
             u == Triggered(processTable, r, SIGCHLD)
             v == Woken(processTable, queue, r)
  <2>1. /\ MayRaise(processTable, r, SIGCHLD)
        /\ Kept("stays_runnable") => queue # <<>>
        /\ {} \in Chains(u, p) /\ processTable' = Removed(u, p, {})
        /\ AfterRemoval(processTable', v, {})
    BY <1>7 DEF Terminate
  <2>2. /\ v \in Seq(Nodes) /\ Once(v) /\ (queue # <<>> => v # <<>>)
        /\ Awake(processTable) \subseteq Awake(u)
        /\ Elems(v) = Elems(queue) \cup (Awake(u) \ Awake(processTable))
    BY <1>2, <2>1, RaisedAwake
  <2>3. u \in [live -> GoodProcess] /\ SameMemory(processTable, u)
    BY <1>2, <2>1, RaisedGood
  <2> HIDE DEF u, v, r
  <2>4. /\ DOMAIN processTable' = live \ {p}
        /\ \A x \in live \ {p} : processTable'[x] = u[x]
    BY <2>1, <2>3 DEF Removed
  <2>5. u[p].node = cur /\ Apart(u)
    BY <1>2, <2>3 DEF SameMemory, Apart
  <2>6. Awake(processTable') = Awake(u) \ {cur}
    BY <1>2, <2>3, <2>4, <2>5 DEF Awake, Apart
  <2>7. Elems(v) = Awake(processTable')
    BY <1>2, <2>2, <2>6
  <2>8. Ready(v, Null) = v
    BY DEF Ready
  <2>9. \/ SwitchTask(processTable', v, Null)
        \/ ~Kept("keeps_files") /\ fault' = "null" /\ queue' = v
    BY <2>1 DEF AfterRemoval
  <2>10. QED
    BY <2>1, <2>2, <2>7, <2>8, <2>9
<1>8. QED
  BY <1>4, <1>6, <1>7

\* The invariant of the scheduler, from the values it has after a step.
LEMMA ScheduledAfter ==
    ASSUME Once(queue'),
           fault' = "none" => /\ Elems(queue') \cup {cur'} = Awake(processTable')
                              /\ cur' \notin Elems(queue')
    PROVE  SchedulesRunnable' /\ ScheduledOnce'
<1>1. SchedulesRunnable'
  BY DEF SchedulesRunnable, Elems, Awake, live
<1>2. ScheduledOnce'
  BY DEF ScheduledOnce, Once, Elems
<1>3. QED
  BY <1>1, <1>2

\* Every step keeps the scheduler's invariant, for programs that send a sleeper
\* only what it handles and exits that relocate nobody.
LEMMA NextScheduled ==
    ASSUME Kept("handled_wakeups"), Kept("leaf_exit"),
           TableInv, SchedulesRunnable, ScheduledOnce, [Next]_vars
    PROVE  SchedulesRunnable' /\ ScheduledOnce'
<1>1. TypedFrames /\ PidsBelow
  BY DEF TableInv, SpacesInv
<1>2. CASE UNCHANGED vars \/ Halted
  BY <1>2 DEF vars, Halted, SchedulesRunnable, ScheduledOnce, Elems, live
<1>3. ASSUME NEW p \in Pid, Tick(p) \/ Yield(p) \/ Sigwait(p) \/ Terminate(p)
      PROVE  SchedulesRunnable' /\ ScheduledOnce'
  BY <1>3, HandsOverReady, SwitchRuns, ScheduledAfter
<1>4. ASSUME NEW p \in Pid, OutOfMemory(p)
      PROVE  SchedulesRunnable' /\ ScheduledOnce'
  <2>1. Running(p) /\ queue' = queue /\ fault' = "null"
    BY <1>4, OutOfMemoryKeeps
  <2>2. Once(queue')
    BY <2>1, RunningScheduled
  <2>3. QED
    BY <2>1, <2>2, ScheduledAfter
<1>5. ASSUME NEW p \in Pid, Running(p), UNCHANGED <<queue, cur, fault>>,
             Awake(processTable') = Awake(processTable)
      PROVE  SchedulesRunnable' /\ ScheduledOnce'
  BY <1>5, RunningScheduled, ScheduledAfter
<1>6. ASSUME NEW p \in Pid, ExecNoStack(p)
      PROVE  SchedulesRunnable' /\ ScheduledOnce'
  <2>1. Running(p) /\ UNCHANGED <<processTable, queue, cur, fault>>
    BY <1>6 DEF ExecNoStack
  <2>2. QED
    BY <1>5, <2>1
<1>7. ASSUME NEW p \in Pid, Sigret(p) PROVE SchedulesRunnable' /\ ScheduledOnce'
  <2>1. Running(p) /\ UNCHANGED <<queue, cur, fault>>
    BY <1>7 DEF Sigret
  <2>2. /\ processTable \in [live -> GoodProcess] /\ p \in live
        /\ DOMAIN processTable = live
    BY <1>1, <2>1, RunningTyped
  <2>3. SameMemory(processTable, processTable')
    BY <1>1, <1>7, MemoryKept
  <2>4. ASSUME NEW x \in live
        PROVE  processTable'[x].state = "SIGWAIT" <=> processTable[x].state = "SIGWAIT"
    <3>1. CASE processTable[p].state # "SIGNAL"
      BY <1>7, <2>2, <3>1 DEF Sigret
    <3>2. CASE processTable[p].state = "SIGNAL"
      <4>1. processTable[p] \in Process
        BY <2>2 DEF GoodProcess
      <4>2. processTable' =
              [processTable EXCEPT
                 ![p] = [processTable[p] EXCEPT
                            !.ctx = processTable[p].backupCtx,
                            !.backupCtx = Null, !.state = "ACTIVE"]]
        BY <1>7, <2>2, <3>2 DEF Sigret
      <4>3. QED
        BY <2>2, <3>2, <4>1, <4>2 DEF Process
    <3>3. QED
      BY <3>1, <3>2
  <2>5. Awake(processTable') = Awake(processTable)
    BY <2>2, <2>3, <2>4, AwakeKept
  <2>6. QED
    BY <1>5, <2>1, <2>5
<1>8. ASSUME NEW p \in Pid, NEW sig \in Signals, NEW clear \in BOOLEAN,
             Sigaction(p, sig, clear)
      PROVE  SchedulesRunnable' /\ ScheduledOnce'
  <2> DEFINE P == processTable[p]
             h == IF clear THEN P.signalHandlers \ {sig}
                           ELSE P.signalHandlers \cup {sig}
  <2>1. Running(p) /\ UNCHANGED <<queue, cur, fault>>
    BY <1>8 DEF Sigaction
  <2>2. /\ processTable \in [live -> GoodProcess] /\ p \in live
        /\ DOMAIN processTable = live
    BY <1>1, <2>1, RunningTyped
  <2>3. processTable' = [processTable EXCEPT ![p] = [P EXCEPT !.signalHandlers = h]]
    BY <1>8, <2>2 DEF Sigaction
  <2>4. P \in Process
    BY <2>2 DEF GoodProcess
  <2>5. \A x \in live : processTable'[x].state = processTable[x].state
    BY <2>2, <2>3, <2>4 DEF Process
  <2>6. SameMemory(processTable, processTable')
    BY <1>1, <1>8, MemoryKept
  <2>7. Awake(processTable') = Awake(processTable)
    BY <2>2, <2>5, <2>6, AwakeKept
  <2>8. QED
    BY <1>5, <2>1, <2>7
<1>9. ASSUME NEW p \in Pid, Exec(p) PROVE SchedulesRunnable' /\ ScheduledOnce'
  <2>1. Running(p) /\ UNCHANGED <<queue, cur, fault>>
    BY <1>9 DEF Exec
  <2>2. DOMAIN processTable' = DOMAIN processTable
    BY <1>1, <1>9, ExecTable DEF live
  <2>3. \A x \in DOMAIN processTable :
           /\ processTable'[x].node = processTable[x].node
           /\ processTable'[x].state = processTable[x].state
    BY <1>1, <1>9, ExecTable DEF live
  <2>4. Awake(processTable') = Awake(processTable)
    BY <2>2, <2>3 DEF Awake
  <2>5. QED
    BY <1>5, <2>1, <2>4
<1>10. ASSUME NEW p \in Pid, NEW r \in Pid, NEW sig \in SignalArgs, Sigraise(p, r, sig)
       PROVE  SchedulesRunnable' /\ ScheduledOnce'
  <2> DEFINE u == Triggered(processTable, r, sig)
             v == Woken(processTable, queue, r)
  <2>1. /\ Running(p) /\ MayRaise(processTable, r, sig)
        /\ processTable' = u /\ queue' = v
        /\ UNCHANGED <<cur, fault>>
    BY <1>10 DEF Sigraise
  <2>2. /\ Elems(queue) \cup {cur} = Awake(processTable) /\ Once(queue)
        /\ cur \notin Elems(queue) /\ Apart(processTable)
        /\ processTable \in [live -> GoodProcess] /\ queue \in Seq(Nodes)
    BY <2>1, RunningScheduled
  <2>3. /\ Once(v) /\ Awake(processTable) \subseteq Awake(u)
        /\ Elems(v) = Elems(queue) \cup (Awake(u) \ Awake(processTable))
    BY <2>1, <2>2, RaisedAwake
  <2> HIDE DEF u, v
  <2>4. Elems(queue') \cup {cur'} = Awake(processTable') /\ cur' \notin Elems(queue')
    BY <2>1, <2>2, <2>3
  <2>5. QED
    BY <2>1, <2>3, <2>4, ScheduledAfter
<1>11. ASSUME NEW p \in Pid, Clone(p) PROVE SchedulesRunnable' /\ ScheduledOnce'
  <2>1. Running(p) /\ UNCHANGED <<cur, fault>>
    BY <1>11 DEF Clone
  <2>2. /\ Elems(queue) \cup {cur} = Awake(processTable) /\ Once(queue)
        /\ cur \notin Elems(queue)
        /\ processTable \in [live -> GoodProcess] /\ p \in live
        /\ DOMAIN processTable = live /\ queue \in Seq(Nodes)
    BY <2>1, RunningScheduled
  <2>3. PICK n \in Nodes \ NodesOf(processTable) :
          /\ processTable'[currPid] = NewProcess(n, p, processTable[p].addressSpace)
          /\ queue' = Append(queue, n)
    BY <1>1, <1>11, ClonedTable
  <2>4. n \notin Awake(processTable)
    BY <2>2 DEF Awake, NodesOf
  <2>5. Awake(processTable') = Awake(processTable) \cup {n}
    <3>1. processTable'[currPid].node = n /\ processTable'[currPid].state # "SIGWAIT"
      BY <2>3 DEF NewProcess
    <3>2. /\ DOMAIN processTable' = live \cup {currPid} /\ currPid \notin live
          /\ \A x \in live : processTable'[x] = processTable[x]
      BY <1>1, <1>11, ClonedTable
    <3>3. \A x \in live : /\ processTable'[x].node = processTable[x].node
                          /\ processTable'[x].state = processTable[x].state
      BY <2>2, <3>2 DEF SameMemory
    <3>4. QED
      BY <2>2, <3>1, <3>2, <3>3 DEF Awake
  <2>6. Once(queue') /\ Elems(queue') = Elems(queue) \cup {n} /\ cur # n
    BY <2>2, <2>3, <2>4, Enqueued
  <2>7. QED
    BY <2>1, <2>2, <2>5, <2>6, ScheduledAfter
<1>12. QED
  BY <1>2, <1>3, <1>4, <1>6, <1>7, <1>8, <1>9, <1>10, <1>11 DEF Next, SystemCall, OutOfMemory

\* Boot leaves one process, which runs, and an empty queue.
LEMMA InitScheduled == Init => SchedulesRunnable /\ ScheduledOnce
<1> SUFFICES ASSUME Init PROVE SchedulesRunnable /\ ScheduledOnce
  OBVIOUS
<1>1. PICK n \in Nodes, a \in Spaces :
        /\ processTable = [p \in {0} |-> NewProcess(n, 0, a)]
        /\ queue = <<>> /\ cur = n
  BY DEF Init
<1>2. /\ DOMAIN processTable = {0} /\ processTable[0].node = n
      /\ processTable[0].state = "ACTIVE"
  BY <1>1 DEF NewProcess
<1>3. Elems(queue) = {}
  BY <1>1 DEF Elems
<1>4. SchedulesRunnable
  BY <1>1, <1>2, <1>3 DEF SchedulesRunnable, live
<1>5. ScheduledOnce
  BY <1>1, <1>3 DEF ScheduledOnce
<1>6. QED
  BY <1>4, <1>5

\* For programs that send a sleeper only signals it handles, and while the
\* exits relocate nobody: the queue and cur_Process name exactly the processes
\* that do not sleep.  No wakeup is lost between a signal and a sleep, and no
\* exited process is scheduled.  A process may raise signals on itself, sleep in
\* a handler, and run out of memory.
THEOREM SchedulesRunnableCorrect ==
    ASSUME Kept("handled_wakeups"), Kept("leaf_exit") PROVE Spec => []SchedulesRunnable
<1>1. TableInv /\ SchedulesRunnable /\ ScheduledOnce /\ [Next]_vars
        => SchedulesRunnable' /\ ScheduledOnce'
  BY NextScheduled
<1>2. QED
  BY <1>1, InitScheduled, TableInvCorrect, PTL DEF Spec

\* Under the same rules nobody is scheduled twice: no signal queues a process
\* that is in the queue or running already.
THEOREM ScheduledOnceCorrect ==
    ASSUME Kept("handled_wakeups"), Kept("leaf_exit") PROVE Spec => []ScheduledOnce
<1>1. TableInv /\ SchedulesRunnable /\ ScheduledOnce /\ [Next]_vars
        => SchedulesRunnable' /\ ScheduledOnce'
  BY NextScheduled
<1>2. QED
  BY <1>1, InitScheduled, TableInvCorrect, PTL DEF Spec

-----------------------------------------------------------------------------
(* Invalid pointers *)

\* A step of a kernel that has not faulted does not fault.
LEMMA NextNoFault ==
    ASSUME Kept("handled_wakeups"), Kept("leaf_exit"), Kept("stays_runnable"),
           Kept("memory"), Kept("keeps_files"), TableInv, SchedulesRunnable,
           ScheduledOnce, NoFault, [Next]_vars
    PROVE  NoFault'
<1>1. CASE UNCHANGED vars \/ Halted
  BY <1>1 DEF vars, Halted, NoFault
<1>2. ASSUME NEW p \in Pid, Tick(p) \/ Yield(p) \/ Sigwait(p) \/ Terminate(p)
      PROVE  NoFault'
  <2>1. PICK q, c :
          /\ SwitchTask(processTable', q, c)
          /\ Ready(q, c) \in Seq(Nodes) /\ Once(Ready(q, c))
          /\ Elems(Ready(q, c)) = Awake(processTable')
          /\ Ready(q, c) # <<>>
    BY <1>2, HandsOverReady
  <2>2. fault' = "none"
    BY <2>1, SwitchRuns
  <2>3. QED
    BY <2>2 DEF NoFault
<1>3. ASSUME NEW p \in Pid,
             \/ Clone(p) \/ Sigret(p)
             \/ \E r \in Pid, sig \in SignalArgs : Sigraise(p, r, sig)
             \/ \E sig \in Signals, clear \in BOOLEAN : Sigaction(p, sig, clear)
             \/ ExecNoStack(p) \/ Exec(p)
      PROVE  NoFault'
  BY <1>3 DEF NoFault, Clone, Sigret, Sigraise, Sigaction, ExecNoStack, Exec
<1>4. ASSUME NEW p \in Pid, OutOfMemory(p) PROVE FALSE
  BY <1>4, OutOfMemoryKeeps
<1>5. QED
  BY <1>1, <1>2, <1>3, <1>4 DEF Next, SystemCall, OutOfMemory

\* If besides somebody is ready whenever a process sleeps or exits, every exit
\* leaves an open file to destroy and kernel allocations succeed, the kernel
\* never follows a null pointer and never a pointer to a process that has exited.
THEOREM NoFaultCorrect ==
    ASSUME Kept("handled_wakeups"), Kept("leaf_exit"), Kept("stays_runnable"),
           Kept("memory"), Kept("keeps_files")
    PROVE  Spec => []NoFault
<1>1. TableInv /\ SchedulesRunnable /\ ScheduledOnce /\ [Next]_vars
        => SchedulesRunnable' /\ ScheduledOnce'
  BY NextScheduled
<1>2. TableInv /\ SchedulesRunnable /\ ScheduledOnce /\ NoFault /\ [Next]_vars
        => NoFault'
  BY NextNoFault
<1>3. Init => NoFault
  BY DEF Init, NoFault
<1>4. QED
  BY <1>1, <1>2, <1>3, InitScheduled, TableInvCorrect, PTL DEF Spec
=============================================================================
