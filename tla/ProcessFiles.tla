---------------------------- MODULE ProcessFiles ----------------------------
(***************************************************************************)
(* The open files of the processes (src/sched/process.cpp and the file     *)
(* system calls of src/kernel.cpp): per process a table of descriptors and *)
(* FileContexts, which are counted and freed with their last name.         *)
(*                                                                         *)
(* The table is a tree in the code, which may hold a descriptor twice.     *)
(* Here it is the set of its entries.  What depends on the shape of the    *)
(* tree is left open: which of two equal descriptors a lookup finds, and   *)
(* which entries a loop misses that removes them as it goes.               *)
(*                                                                         *)
(* Every live process may make any call next: user code is preempted       *)
(* anywhere, and the calls are atomic.                                     *)
(***************************************************************************)
EXTENDS Relocation, FiniteSets, Functions

CONSTANTS
    Context,        \* the addresses of FileContexts
    MaxPid,         \* bound: the last process id handed out
    MaxOpen,        \* bound: descriptors of one process
    Fd,             \* bound: the descriptors that programs close or duplicate
    SelfDup         \* whether programs duplicate a descriptor onto itself

ASSUME BoundsAssumption == {MaxPid, MaxOpen} \subseteq Nat /\ Fd \subseteq Nat
ASSUME SelfDupAssumption == SelfDup \in BOOLEAN

VARIABLES
    files,      \* live pid -> its open files
    contexts,   \* allocated FileContext -> its count and what it is open on
    currPid,    \* the next process id
    fault       \* "none", or the invalid pointer the kernel followed

vars == <<files, contexts, currPid, fault>>

live == DOMAIN files
Pid == 0 .. MaxPid
Entry == [fd : Nat, context : Context]

Descriptors(t) == {e.fd : e \in t}

\* The names that the processes of S have for contexts, <<process, entry>>: an
\* entry may be in the tables of two processes.
Names(S) == UNION {{p} \X files[p] : p \in S}
NamesIn(names, c) == Cardinality({n \in names : n[2].context = c})

-----------------------------------------------------------------------------
\* new: an unused address for each x in S.
Fresh(S) == Injection(S, Context \ DOMAIN contexts)

\* The contexts new[x], just constructed, open on file[x] and without references.
WithNew(new, file) ==
    [c \in DOMAIN contexts \cup Range(new) |->
        IF c \in DOMAIN contexts THEN contexts[c]
        ELSE [refs |-> 0, file |-> file[CHOOSE x \in DOMAIN new : new[x] = c]]]

\* addReference for every name stored.
Referenced(cs, stored) ==
    [c \in DOMAIN cs |-> [cs[c] EXCEPT !.refs = @ + NamesIn(stored, c)]]

\* removeReference for every name closed, and delete for those without any.
UnreferencedEarly(cs, closed) ==        \* mutant: deleted with the first name
    [c \in {d \in DOMAIN cs : NamesIn(closed, d) = 0} |-> cs[c]]
Unreferenced(cs, closed) ==
    [c \in {d \in DOMAIN cs : \/ NamesIn(closed, d) = 0
                              \/ cs[d].refs > NamesIn(closed, d)} |->
        [cs[c] EXCEPT !.refs = @ - NamesIn(closed, c)]]

\* for (int fd : other.files) store(other.files.get(fd), fd): what it can
\* store, one entry for each descriptor.
Lookups(t) == {s \in SUBSET t : /\ Descriptors(s) = Descriptors(t)
                                /\ \A d, e \in s : d.fd = e.fd => d = e}

\* for (int fd : files) closeFileContext(fd): what it can close.  It closes
\* the first entry, and goes on from a node that the removal has refilled or
\* freed, so it may miss others.
LoopCloses(t) == {s \in SUBSET t : t # {} => s # {}}

\* closeFileContext(fd): the entry it closes, if there is one.
Closes(t, fd) == IF fd \in Descriptors(t) THEN {{e} : e \in {d \in t : d.fd = fd}}
                                          ELSE {{}}

-----------------------------------------------------------------------------
\* The first process after exec, with the UART open three times.
Init ==
    \E new \in Injection(0 .. 2, Context) :
        /\ files = [p \in {0} |-> {[fd |-> d, context |-> new[d]] : d \in 0 .. 2}]
        /\ contexts = [c \in Range(new) |-> [refs |-> 1, file |-> "uart"]]
        /\ currPid = 1
        /\ fault = "none"

Running(p) == fault = "none" /\ p \in live

\* storeFileContext at each descriptor d of a new context open on file[d].
StoreNew(p, file) ==
    /\ \E new \in Fresh(DOMAIN file) :
          LET stored == {[fd |-> d, context |-> new[d]] : d \in DOMAIN file}
          IN /\ files' = [files EXCEPT ![p] = @ \cup stored]
             /\ contexts' = Referenced(WithNew(new, file), {p} \X stored)
    /\ UNCHANGED <<currPid, fault>>

\* storeFileContext without a descriptor takes the number of open files,
\* which may be a descriptor in use.  A path that is not a file, or a failed
\* allocation, changes nothing.
NextFd(p) == Cardinality(files[p])

Open(p) ==
    /\ Running(p)
    /\ NextFd(p) < MaxOpen
    /\ StoreNew(p, [d \in {NextFd(p)} |-> "file"])

CreatePipe(p) ==
    /\ Running(p)
    /\ NextFd(p) + 1 < MaxOpen
    /\ StoreNew(p, [d \in {NextFd(p), NextFd(p) + 1} |->
                       IF d = NextFd(p) THEN "reader" ELSE "writer"])

\* exec gives a program the standard descriptors it lacks.
Exec(p) ==
    /\ Running(p)
    /\ StoreNew(p, [d \in 0 .. 2 \ Descriptors(files[p]) |-> "uart"])

Close(p, fd) ==
    /\ Running(p)
    /\ \E closed \in Closes(files[p], fd) :
          /\ closed # {}
          /\ files' = [files EXCEPT ![p] = @ \ closed]
          /\ contexts' = Unreferenced(contexts, {p} \X closed)
    /\ UNCHANGED <<currPid, fault>>

\* newfd is closed first.  When that freed oldfd's context, as it does when
\* they are one descriptor and the context has no other reference, the kernel
\* stores a freed object; a second newfd that is still there makes the call
\* fail.
FddupUnclosed(p, oldfd, newfd) ==       \* mutant: newfd is not closed first
    /\ Running(p)
    /\ oldfd = newfd => SelfDup
    /\ \E e \in files[p] :
          /\ e.fd = oldfd
          /\ files' = [files EXCEPT ![p] = @ \cup {[e EXCEPT !.fd = newfd]}]
          /\ contexts' = Referenced(contexts, {<<p, [e EXCEPT !.fd = newfd]>>})
    /\ UNCHANGED <<currPid, fault>>
Fddup(p, oldfd, newfd) ==
    /\ Running(p)
    /\ oldfd = newfd => SelfDup
    /\ \E e \in files[p], closed \in Closes(files[p], newfd) :
          LET alias == [e EXCEPT !.fd = newfd]
              left == files[p] \ closed
              after == Unreferenced(contexts, {p} \X closed)
              stores == newfd \notin Descriptors(left)
          IN /\ e.fd = oldfd
             /\ oldfd = newfd => e \in closed
             /\ files' = [files EXCEPT ![p] =
                             IF stores THEN left \cup {alias} ELSE left]
             /\ contexts' = IF stores THEN Referenced(after, {<<p, alias>>}) ELSE after
             /\ fault' = IF stores /\ e.context \notin DOMAIN after
                         THEN "freed" ELSE "none"
    /\ UNCHANGED currPid

\* Process::clone makes a Process with a copy of every context, the table gets
\* a copy of that Process, and the first is never deleted: each context has
\* two references from the start.  Every entry is copied, also one whose
\* descriptor the child already has: that copy is kept by nobody.
CloneShared(p) ==                       \* mutant: the contexts are not copied
    /\ Running(p)
    /\ currPid <= MaxPid
    /\ \E from \in Lookups(files[p]) :
          /\ files' = [q \in live \cup {currPid} |->
                          IF q = currPid THEN from ELSE files[q]]
          /\ contexts' = Referenced(Referenced(contexts, {currPid} \X from), {currPid} \X from)
    /\ currPid' = currPid + 1
    /\ UNCHANGED fault
CloneUncopied(p) ==                     \* mutant: open on something else
    /\ Running(p)
    /\ currPid <= MaxPid
    /\ \E new \in Fresh(Descriptors(files[p])) :
       LET stored == {[fd |-> d, context |-> new[d]] : d \in Descriptors(files[p])}
       IN /\ files' = [q \in live \cup {currPid} |->
                          IF q = currPid THEN stored ELSE files[q]]
          /\ contexts' = Referenced(WithNew(new, [d \in DOMAIN new |-> "uart"]), {currPid} \X stored)
    /\ currPid' = currPid + 1
    /\ UNCHANGED fault
Clone(p) ==
    /\ Running(p)
    /\ currPid <= MaxPid
    /\ \E from \in Lookups(files[p]), new \in Fresh(files[p]) :
          LET Found(fd) == (CHOOSE e \in from : e.fd = fd).context
              stored == {[e EXCEPT !.context = new[e]] : e \in from}
              names == {currPid} \X stored
              copies == WithNew(new, [e \in files[p] |-> contexts[Found(e.fd)].file])
          IN /\ files' = [q \in live \cup {currPid} |->
                             IF q = currPid THEN stored ELSE files[q]]
             /\ contexts' = Referenced(Referenced(copies, names), names)
    /\ currPid' = currPid + 1
    /\ UNCHANGED fault

\* Exit of p.  Each process q of the chain is assigned to the object in whose
\* node it moves: operator= closes that object's files, as far as its loop
\* reaches, and stores those of q whose descriptors are free.  Then the last
\* object is destroyed, closing its files; the destructor of a tree that is
\* empty by then follows a null pointer.  A context counts all its names
\* (NamesLive), so of the order of these steps only this matters: the files of
\* q are stored before q's own object closes them.
Terminate(p) ==
    /\ Running(p)
    /\ \E M \in Chains(files, p) :
         LET objects == M \cup {p}
             last == CHOOSE o \in objects : \A q \in M : Toward(p, M, q) # o
             Of(names, o) == {e \in files[o] : <<o, e>> \in names}
         IN \E closed \in SUBSET Names(objects) :
              /\ \A o \in objects : Of(closed, o) \in LoopCloses(files[o])
              /\ \E found \in SUBSET Names(M) :
                   LET left(o) == files[o] \ Of(closed, o)
                       stored(q) == {e \in Of(found, q) :
                                        e.fd \notin Descriptors(left(Toward(p, M, q)))}
                   IN /\ \A q \in M : Of(found, q) \in Lookups(files[q])
                      /\ files' = [q \in live \ {p} |->
                                      IF q \in M
                                      THEN left(Toward(p, M, q)) \cup stored(q)
                                      ELSE files[q]]
                      /\ contexts' = Unreferenced(
                             Referenced(contexts, UNION {{q} \X stored(q) : q \in M}),
                             closed)
                      /\ fault' = IF left(last) = {} THEN "null" ELSE "none"
    /\ UNCHANGED currPid

\* Nobody is left, or the kernel followed an invalid pointer.
Stopped == (fault # "none" \/ live = {}) /\ UNCHANGED vars

Next ==
    \/ \E p \in Pid :
          \/ Open(p)
          \/ CreatePipe(p)
          \/ Exec(p)
          \/ \E fd \in Fd : Close(p, fd)
          \/ \E oldfd, newfd \in Fd : Fddup(p, oldfd, newfd)
          \/ Clone(p)
          \/ Terminate(p)
    \/ Stopped

Spec == Init /\ [][Next]_vars
-----------------------------------------------------------------------------
\* No descriptor of a live process names a freed FileContext, and no context
\* counts fewer references than it has names in all processes together, after
\* any calls, clones and exits, relocations of the process table included, as
\* long as no program calls fddup(fd, fd).  That call does store the context
\* it has just freed (SelfDup).
NamesLive ==
    \A p \in live : \A e \in files[p] :
        /\ e.context \in DOMAIN contexts
        /\ contexts[e.context].refs >= NamesIn(Names(live), e.context)

Private == \A p, q \in live : \A d \in files[p], e \in files[q] :
              d.context = e.context => p = q

\* A FileContext, and with it the position in the file, belongs to one process:
\* no call of one process closes or moves a file of another.  Only an exit can
\* end that, and only for two processes next to each other in the table, both
\* on the same side of the one that exits: both are relocated, and the outer
\* takes over files of the inner one that the inner one keeps as well.
StaysPrivate ==
    [][Private =>
          \A q, r \in live' : \A d \in files'[q], e \in files'[r] :
              q < r /\ d.context = e.context =>
                  /\ \E p \in live \ live' : p < q \/ r < p
                  /\ \A s \in live : s <= q \/ r <= s]_vars

Distinct(t) == \A d, e \in t : d.fd = e.fd => d = e
Dense(t) == Descriptors(t) = 0 .. Cardinality(t) - 1

\* What storeFileContext relies on: a process whose descriptors have no gap
\* gets from open, create_pipe, exec and fddup only descriptors that name one
\* file each, whatever the other processes call.
DescriptorsStayDistinct ==
    [][\A p \in live :
          live \subseteq live' /\ Dense(files[p]) => Distinct(files'[p])]_vars

\* clone: the child has the parent's descriptors, each once and open on a file
\* that the parent has open there, and later closes of the parent leave them.
ChildInherits ==
    [][\A q \in live' \ live :
          /\ Distinct(files'[q])
          /\ \E p \in live :
                /\ Descriptors(files'[q]) = Descriptors(files[p])
                /\ \A e \in files'[q] : \E d \in files[p] :
                      /\ d.fd = e.fd
                      /\ contexts'[e.context].file = contexts[d.context].file]_vars
=============================================================================
