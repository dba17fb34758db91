# Verification of the CROS kernel

TLA+ modules, TLC configurations and TLAPS proofs for the kernel in this
repository, a small AArch64 kernel (Raspberry Pi 3) with processes, signals,
address spaces, pipes and a RAM disk with a FAT32 file system. Paths below are
relative to the repository.

## 1. The system

### Execution model

Taking an exception masks interrupts and nothing at EL1 unmasks them
(`src/aarch64/irq/exceptions.s`), and there is one processor. So each system
call and each interrupt handler runs to its end before anything else happens,
and user code can be interrupted between any two instructions. In the models a
system call or an interrupt is one atomic step (in `Pipe` and in the handler of
`Uart`, a sequence of steps with which only a device interleaves), and a timer
interrupt may happen before any step.

What is hard in this kernel is therefore not data races but *orders of calls*:
signals against sleeps and exits, exits against pointers that others hold, the
lifetimes of shared, reference-counted objects, and pointer structures whose
state depends on a long history.

### Components

| Component | State | Operations | Correct when |
|---|---|---|---|
| System calls, process management (`src/kernel.cpp`) | process table, next pid | clone, terminate, exec, yield, sigraise, sigret, sigwait, sigaction | it never follows an invalid pointer and returns to the right process |
| Processes (`src/sched/process.cpp`) | state, context, saved context, address space, signal actions, open files | signalTrigger, signalReturn, exec, clone, copies and destruction | a saved context exists exactly while it is needed; shared objects live as long as their users |
| Scheduler (`src/sched/queue.cpp`) | ready queue of pointers, current process | enqueue, dequeue, sched_next | it holds each runnable process once and starves none |
| Timer, interrupt dispatch (`src/devices/timer.cpp`, `src/aarch64/irq/irq.cpp`, `src/irq/`) | handler table | handleInterrupt -> switchTask | the interrupted context is stored in the process it belongs to |
| Tree (`src/containers/binary_search_tree.h`) | nodes with children, parent, height | insert, remove, get, contains, iteration | it is a map; pointers into it stay valid as far as its users need |
| Pipes (`src/fs/pipe.cpp`) | ring buffer, counts of ends | put, read, copy and destruction of ends | a bounded queue that is freed with its last end |
| Open files (`src/sched/process.cpp`, `src/fs/filecontext.h`, `src/util/hasrefcount.cpp`) | tree fd -> FileContext, reference counts | open, close, read, write, fddup, create_pipe | an fd names one open file, contexts are freed with the last name |
| Memory map (`src/memory/memorymap.cpp`) | sorted array of up to 16 typed regions | place, trim, remove, insert | at each address the most restrictive type placed there |
| Page allocator (`src/memory/pageallocator.cpp`) | buddy free lists in a block map | reserve, free, insert | blocks handed out are disjoint |
| Kernel heap (`src/memory/heap.cpp`) | one list of free blocks, a search position, headers and footers in memory | rmalloc, rfree, expand, split, merge | the blocks tile the heap, header and footer agree |
| Page tables (`src/memory/aarch64/mmu.cpp`, `src/memory/mmap.cpp`) | three levels of tables, reached through an entry of the top table that points to itself | setPageEntry, clearEntry, handlePageFault, map/unmap | spaces are independent; a frame has one use |
| Loader (`src/loader/elf.cpp`) | - | buildProgramImage | every loaded byte is mapped, once |
| FAT32 (`src/fs/fat32/`) | RAM disk, tree of entries built when it is mounted, position of each open file | init, file_type, file_size, read_file, open, read, copy | every file is found and read in order |
| UART and log (`src/devices/uart.cpp`, `src/util/log.cpp`) | device FIFO, ring, position of each open context | interrupt, open, read, copy | every byte is delivered, in order |
| Boot (`src/aarch64/`) | early page tables, first process | aarch64_boot | - |

Interactions: the scheduler keeps *pointers into nodes of the process table's
tree*; raiseSignal links processes with the scheduler; clone shares the address
space and copies the open files, and exit drops both; switchTask loads the
address space of whatever the queue holds; exec replaces the address space of
the running process; pipes are shared by the file tables of several processes.
At boot the memory map feeds the page allocator, whose frames become tables,
program images and heap; exec reads a program through FAT32 and maps it through
the page tables.

`PROJECT.json` lists the components with their status, and under `hazards` each
place in the code where such an interaction is hard to test.

## 2. Modules

| Module | Models |
|---|---|
| `Kernel` | process table, scheduler, signals, address-space references; one action per system call |
| `KernelProofs` | theorems about `Kernel`: under any programs, and under the rules each needs |
| `MCKernel` | the instance TLC checks: rule sets, symmetry |
| `InitProgram` | `test/main.c` running on `Kernel` |
| `Relocation` | which table entries move when one is removed; shared by `Kernel`, `ProcessFiles` and `BinarySearchTree` |
| `CommonProofs` | lemmas that several proofs share: on it (each moved entry has one neighbour it moves to), on loops and on quotients |
| `SearchTree` | the operations of the AVL tree, pointer by pointer |
| `BinarySearchTree` (`MCBinarySearchTree`) | such a tree under any inserts and removals |
| `Dictionary` | what the tree promises: a finite map |
| `Pipe` | ring buffer, loops, ends and their lifetimes |
| `PipeProofs` | theorems about `Pipe` |
| `Fifo` | what a pipe promises: a bounded queue with atomic calls |
| `ProcessFiles` (`MCProcessFiles`) | the processes' tables of open files and the reference counts of FileContexts |
| `ProcessFilesProofs` | theorems about `ProcessFiles` |
| `MemoryMap` | the sorted array of regions: insert, trim, place |
| `MemoryMapProofs` | lemmas on it: what insert, each case of trim and the loop of place do to an ordered map |
| `PageAllocator` | the block map: constructor, reserve, split, free, merge |
| `BootMemory` (`MCBootMemory`) | composes the two as `aarch64_boot` and `initMemory` do, then any requests |
| `BootMemoryProofs` | theorems about `BootMemory` |
| `Heap` | rmalloc, rfree and their helpers on a memory of words |
| `PageTables` (`MCPageTables`) | translation tables, faults, mmap, munmap and the part of exec that builds a space |
| `PageTablesProofs` | theorems about `PageTables` |
| `AddressSpaces` | what `mmap.h` promises: independent maps from pages to frames |
| `FAT32` | mounting, lookup, reading a sector |
| `FileContextFAT32` (`MCFileContextFAT32`) | open files on it, and exec reading a program |
| `Uart` | the PL011's receive side, its interrupt handler, the ring and its readers; interrupt dispatch |
| `UartProofs` | theorem about `Uart` |

### Kernel

`processTable` maps each live pid to its `Process`: the tree node it is in, its
parent, `state`, `ctx`, `backupCtx`, address space and the set of signals it
handles. `queue` and `cur` are the scheduler's list and `cur_Process`; like the
code they hold *pointers*, that is tree nodes, so a node that was freed or
refilled since is representable. `spaces` and `refCount` are the allocated
AddressSpace objects and their counts, `loaded` is what TTBR0 points to.
`fault` records that the kernel dereferenced a null or a dangling pointer; the
model stops there.

A context is abstracted to the depth of signal handlers it is in. That is enough
to tell a return to the wrong context from a correct one. Registers, and with
them the results of calls, are left out, so a call that fails without changing
anything else is a stuttering step.

Each action is a whole handler. `Terminate`, for example, is the signal to the
parent, the removal from the tree with every relocation it causes, the reference
counts after `~Process` and the copies by `operator=`, and the switch to the
next process. What follows the removal (`AfterRemoval`) can also be a fault: the
destructor of an empty tree of files passes null to clear_rec. Allocations that
nothing checks and that may fail are actions of their own (`CloneNoMemory`,
`EnqueueNoMemory`, `SignalNoMemory`, `ExecNoFrame`). A removal moves a run of neighbours (`Relocation`); the shape of
the tree decides which, and the model takes any. `BinarySearchTree` checks that
the real tree moves nothing else.

Paths that the code cannot reach are left out: only NONE and HANDLER are ever
stored as signal actions, so the KILL branch of raiseSignal, and with it
`queue::remove`, never runs. Signal 64 stands for every number out of range.

**Rules.** The kernel relies on programs and on memory in ways it does not
enforce. The constant `Rules` says which of these a run assumes:

| Rule | Without it |
|---|---|
| `handled_wakeups`: a sleeping process is only sent signals it handles | it is woken in state SIGWAIT, which never becomes ACTIVE, and a second signal queues it twice (`src/kernel.cpp:436`): SchedulesRunnable and ScheduledOnce fail |
| `no_sleep_in_handler`: a handler does not call sigwait | the handler's SIGNAL state is lost and its sigret is ignored: HandlerCanReturn fails |
| `leaf_exit`: an exit relocates no table entry | the queue points to freed nodes (`kernel_parent_exit`) |
| `stays_runnable`: somebody is ready when a process sleeps or exits | switchTask dereferences null (`init_lost_wakeup`) |
| `memory`: kernel allocations succeed | clone, exec, signals and every enqueue dereference null, and an exec that fails late leaves the wrong address space loaded |
| `keeps_files`: the files of an exiting process are not all closed when their tree is destroyed | the tree's destructor dereferences null (`src/containers/binary_search_tree.h:518`); `ProcessFiles` says when |

`Rules = {}` is the kernel under any programs at all; `Contract` is all rules.
The rules are guards of the actions, never of the kernel's reaction.

### InitProgram

The system calls of `test/main.c` in program order with the timer interrupting
anywhere: main installs a handler for signal 17 and then alternates clone and
sigwait; the thread terminates; a handler returns through the trampoline, which
calls sigret. It uses the actions of `Kernel` unchanged with no rules.

### BinarySearchTree

`tree` is the root, `_size` and the allocated nodes with key, value, left,
right, parent and height. The recursion of add_rec and remove_rec is a descent
(`Descend`) followed by one `rebalance` per caller on the stack (`Unwind`), with
the node each caller holds, which rotations may have moved by then. A removal is
`Replacements`, the run of nodes that each take the value of the next, and
`Rebalanced`, the exact order of the rebalances that follow. Not every ancestor
is among them, so stored heights can be wrong afterwards: TLC reaches such
states with seven keys, and they are why the run has seven.

`SearchTree` holds the operators and `BinarySearchTree` the state machine. With
each call the history variable `dict` makes the same call on a `Dictionary`, the
bag of entries that the callers expect. `ImplementsDictionary` compares the two
exactly: the same entries as often, and a lookup that finds a key whenever it has
an entry. Which of two entries with equal keys a lookup finds is the tree's
choice; a removal must drop that one and no other.

### ProcessFiles

`files` maps a live pid to its entries, pairs of a descriptor and a FileContext,
and `contexts` maps each allocated context to its reference count and to what it
is open on. The tree may hold a descriptor twice, so the entries are a set and
not a function. Two things depend on the tree's shape and are left open: which
of two equal descriptors a lookup finds (`Lookups`, `Closes`), and which entries
the loops of `~Process` and `operator=` miss because they remove entries from
the tree they iterate over (`LoopCloses`: at least the first one is closed). The
real tree does one of the things the model allows.

`Open` and `CreatePipe` take the number of open files as the descriptor, as
storeFileContext does. `Fddup` closes newfd first; when a process duplicates the
only name of a file onto itself this frees the context, and what is stored is a
pointer to it (`src/kernel.cpp:277`, although `kernel.h:221` promises an alias):
`fault` becomes "freed". `NamesLive` is false there, so the constant `SelfDup`
says whether programs make that call; the run and the theorem are about programs
that do not. The number of open files can be
a descriptor that is still open, when another was closed before; the model keeps
both entries, and `DescriptorsStayDistinct` says that nothing else makes two. `Clone` copies every context,
and counts each stored copy twice: once for the Process object that is never
deleted; the copy made for the second of two equal descriptors is stored nowhere.
`Terminate` is the relocation of `Relocation` with operator= on the file tables,
then the destruction of the last object; the destructor of a tree that is empty
by then passes null to clear_rec and dereferences it (`fault` "null"). The model
stops at either fault.

A name is a pair of a process and an entry (`Names`): the object a process moves
to keeps the entries that its own loop missed, and takes over those of the
process that moves in. When an exit relocates two processes that are next to each
other in the table, both can therefore end with the same FileContext, and with
it one position in the file and one reference for each. `NamesLive` counts names
over all processes for that reason, and `StaysPrivate` says that nothing but such
an exit makes two processes share a context. `Private` itself is not invariant.

### Pipe

Each iteration of the loops of put and read is a step, guarded as in the code;
`call` is the call in progress and no other call starts before it returns.
`answer` is what the last call gave its caller. `readers` and `writers` are the
PipeReader and PipeWriter objects, `allocated` says that the Pipe was not
deleted. The reference counts of descriptors that name the same end belong to
the file tables and are not in this module: an end is closed when its last
descriptor is.

`ImplementsFifo` is refinement of `Fifo`, in which calls are atomic. The queue
of `Fifo` is the bytes in the ring, without what a put in progress has copied
and with what a read in progress has copied (`Queue`). A read of zero bytes
answers EEOF when there are no writers, even if bytes are left; `Fifo` says so
too, and `EofIsFinal` is about reads that ask for data.

### MemoryMap, PageAllocator, BootMemory

`map` is the array; `Trim` has the cases of the code in its order and `TrimAll`
is the loop of place(). `placed` remembers what was placed, for the properties.
Loops are recursive functions over the number of turns: `TrimAll` has as many as
the array has entries, and each brings the index of trim closer to the end, so
that those after the code's last call change nothing.
`tag` and `kval` of `PageAllocator` are the fields of the block map's entries and
`avail` the circular lists of each order, as sequences; the constructor runs over
the map with the rounding and the counts of the code.

`BootMemory` places the five regions in boot's order: RAM, devices, kernel, block
map (sized from the map *as it is then*), RAM disk. That order matters. place()
in other orders can leave overlapping regions, for example MMIO [1,3), UNAVAILABLE
[0,5), then AVAILABLE [0,5), although `memorymap.h` promises none: trim goes on two
entries further after a split, also when the left part was empty and was removed
(`src/memory/memorymap.cpp:68`), and the piece it inserted is then not compared with
its neighbour. That boot's order never gets there is part of the theorem `HighestTypeKept`.
`freeBlockCount` is too high after the constructor, which counts each page twice;
nothing decides on it. Nothing in the kernel calls `PageAllocator::free`; the
model does, since the allocator offers it. The size of the heap is an unsigned
difference and would wrap if the image and the block map did not fit into the
kernel's 32 MiB; `BootAssumption` says that they do.

### Heap

Memory is an array of words, and every header and footer field is one of them,
so a write through a stale pointer does to the model what it does to the heap.
expand_heap moves `heap_end` and adds no block, as in the code. realloc has no
caller and is left out.

### PageTables

Tables are frames in `st.mem`, `W` entries each instead of 512. A write to an
entry whose table is missing faults and the handler adds one or two tables; a
new table is not cleared, and is empty because RAM is taken to be zero at boot
and no frame is ever freed. Exec is the whole building of a space: top table
through the scratch page, sections, stack. The allocator takes an aligned run of
the smallest of the `RunLengths` (powers of two in the code) that is enough, the
lowest such run; PageAllocator's own choice differs, but only distinctness
matters here. A panic leaves the frames and tables as they are at that point,
the scratch page included. Frame 0 is the kernel's top table; negative numbers
are frames below it. exec does not compare the stack's frames with NOMEM, ~0, and
maps them from there on: one frame number that is no memory and then the first
frames of physical memory, which are the kernel's (`src/kernel.cpp:485`). In the
model these are `NOMEM`, `NOMEM + 1` and so on, the same for every program, and
FramesHaveOneUse and AddressSpaces set just these apart. Permissions, access flags and cache bits are not
modelled.

The loader reserves `memsize` bytes and maps `memsize` plus the offset in the
first page, so a section that is neither aligned nor short would map one frame
too many. A program with such a section, or with sections outside the lower half,
is excluded (`Loadable` in `ProgramsAssumption`); nothing in the kernel refuses
it, and programs linked with `test/linker.ld` are not of that kind.
`MapAssumption` says that mmap and munmap are asked for pages of the lower half
only, which is not checked either. A short section inside an already mapped page
is allowed: it makes the size wrap, and the loop goes on until a fault finds no
frame and the kernel panics. exec ignores what buildProgramImage returns, so a
program may start without the sections for which there was no memory;
`ImageMapped` says that this is the only reason for a page to be missing.

### FAT32, FileContextFAT32

A disk is its allocation table, its directory slots and, for data, the address
of each byte, so reading the wrong sector shows. `disk.files` describes the
files independently. `FAT32` has the code's lookups over slots, names in pieces
and the buffered walk along a chain; `FileContextFAT32` the loop of read.

The code reads the disks mkfs.fat makes and relies on it: sound chains,
directories of one cluster, a volume label first in the root, no deleted
entries, plain attribute bytes (a read-only file, 0x21, is not listed), lookups
without the extension of a short name, a data region that starts on a cluster
(`GeometryAssumption`). The disks of the run are of that kind, but some have no
label. Then the first slot of the root's cluster is taken for the root whatever
it is: a file becomes the root, and a read-only file, EMPTY to parse_attribute,
has its slot filled with zeroes on the disk (`clear_entry`,
`src/fs/fat32/entry.cpp:29`) and the size of the root is whatever the heap held.
The properties are about disks with a label.

The list of a chain also holds its end mark
(`src/fs/fat32/entry_helpers.cpp:212`). A read copies up to n bytes from each
sector without subtracting what it has copied (`src/fs/fat32/filecontextfat32.cpp:56`),
so one that crosses a sector writes past the end of the caller's buffer, and past
the end of the file, by up to one piece less one byte. `ReadsWhatIsDue` says
exactly how many bytes come: never fewer than are due, and when more.

clear_entry is the only write to the disk that can happen (create and unlink are
ENOSYS, files refuse writes); write_file, create_file and delete_file are not
modelled.

### Uart

The device is external: a FIFO, a raw interrupt status, a receive timeout.
Bytes are numbered in the order the FIFO accepts them. The handler is a sequence
of steps (`HandleInterrupt`, `readByte`, `ReadByteDone`, `LogErrors`,
`ClearInterrupt`) with which only the device interleaves; `find_irq_source` prefers the timer. Each
context has its own position in the ring, which holds one byte less than its
size; a reader a whole ring behind has lost its place (`late`) and nothing is
claimed of it until it is closed.

The handler's last write clears the interrupts it saw at the beginning, also
those asserted again since. A byte that arrives in between is delivered only by
the receive timeout, which is why `Mask` contains it and why `BytesReachRing` is
not obvious.

Framing, parity and break errors, which a byte may come with (`LineErrors`), and
overruns are logged after the last look at the FIFO: kernelLog polls a line out
through the same UART (`src/util/log.cpp:153`), which takes much longer than 32
bit times. If the handler runs for a timeout and logs an error, a byte that comes
meanwhile has its own timeout asserted and cleared before the handler ends, and
stays in the FIFO until the device accepts another; if the FIFO filled up, for
ever. `exposed` is how many bytes had been received when that was last possible,
and `BytesReachRing` excepts a stream that ends there and nothing else.

## 3. Runs

| Run | Checks | Bounds |
|---|---|---|
| `kernel_any` | under any programs: TypeOK, SignalFrames, AddressSpaceLive, LoadedSpaceLive, NodesDistinct | 3 processes, 2 address spaces, one signal, handlers 1 deep |
| `kernel_contract` | under the contract: NoFault, SchedulesRunnable, ScheduledOnce, RunsInOwnSpace, HandlerCanReturn; with fairness NoStarvation | 3 processes, handlers 2 deep |
| `kernel_parent_exit` | violation: the contract without `leaf_exit` | 2 processes |
| `init_lost_wakeup` | violation: the repository's test program | 2 processes |
| `pipe` | TypeOK, FreedWithLastEnd, ImplementsFifo, EofIsFinal | ring of 3 bytes, calls of up to 3, 2 readers, 2 writers |
| `bst` | TypeOK, Linked, Ordered, ImplementsDictionary, MovesOnlyRuns | 7 nodes, 7 keys of which one may be inserted again |
| `files` | NamesLive, StaysPrivate, DescriptorsStayDistinct, ChildInherits | 3 processes, 4 FileContexts, 4 descriptors each, no fddup of a descriptor onto itself |
| `boot_memory` | HighestTypeWins, PagesPartitioned, TagsMatchLists, FailsOnlyWhenFragmented, KernelMemoryKept | 16 pages of 4 bytes; several RAM, kernel, image, device and RAM disk sizes |
| `address_space` | FramesHaveOneUse, ImageMapped, ImplementsAddressSpaces | tables of 2 entries, 8 pages a space, 22 frames, 2 spaces, 2 programs |
| `fat32` | MountFindsFiles, DeliversInOrder, ReadsWhatIsDue, LoadsWholeFile | 2 files on 3 clusters chained in any order, and 4 disks without a label; 2 contexts, reads of 1, 2 and 5 bytes |
| `uart` | ReadersSeeStream, BytesReachRing | ring of 3, FIFO of 3 that interrupts at 2, 5 bytes, framing errors, 2 contexts |
| `heap` | violation: the layout of blocks that `heap.h` describes | 48 words, requests of 66, 72 and 80 bytes |

Why the bounds are enough to be interesting. Three processes are a parent, a
child and a bystander or grandchild: the smallest tree of processes in which an
exit relocates a process that is neither the parent nor the child of the one
that exits. Two address spaces are one that is shared and one that exec made; a
third only stands for spaces nobody uses. Pids are handed out up to `MaxPid` and
not reused, as in the code until the counter wraps. The queue is bounded by
`MaxQueue`. A ring of three bytes holds two, so calls of up to three bytes are
cut short, wrap and fill it exactly. Seven keys reach every rotation and stale
heights. Three processes with files are what an exit needs to relocate two of
them, after which they can share a FileContext; four FileContexts are enough for
that once the first process has closed two of its three, and for a process with
two files to clone. The programs close and duplicate descriptors 0 and 2, and 2
is the one that open hands out twice.

In `boot_memory` regions end inside pages, overlap each other partly and wholly,
and requests of 0 to 9 bytes need none to four pages, so that blocks split and
merge over three orders. In `address_space` a table of two entries makes a
region of a few pages need several leaf and middle tables, and 22 frames run out
in the middle of every operation. In `fat32` sectors of two bytes and clusters
of two sectors let reads cross both, and a table of three sectors with three
entries each lets chains change sectors in both directions. In `uart` five bytes
go round the ring, the third overruns a reader, and the last four can fill and
overrun the FIFO while an error of the first is logged. Parity errors and breaks
take the same path as framing errors.

Symmetry is over addresses, which the code only compares for equality; the run
with the liveness property uses none.

`CHECK_DEADLOCK FALSE` is set for `pipe`, where nothing more happens once every
end is closed, and for `address_space`, where a kernel that has panicked stops.

**Fairness.** `Kernel!FairSpec` says that a timer interrupt is not put off for
ever. The timer re-arms itself in its handler (`SystemTimer::reset`), interrupts
are unmasked in user code and every system call ends. Nothing is assumed about
the programs. `NoStarvation` then says that a process in the ready queue runs.

`Uart!Spec` has weak fairness of the handler's steps (a program), of the timer's
interrupt and of the device's receive timeout, and strong fairness of taking the
UART's interrupt: the timer's, which goes first, is pending only now and then,
because its period is long compared with the handlers. The receive timeout comes
after 32 bit times without a byte. It may come at any step of the handler, except
that the handler is taken to be faster than that from its last look at the FIFO to
its write to ICR when it logs nothing between them. That the timeout comes at all
is an assumption on the device (`DeviceFairness`) and on the sender, who pauses in
the end: a PL011 has it, but the Raspberry Pi 3 of QEMU, on which the repository's
README runs the kernel, has none. `BytesReachRing` is a statement about the
hardware; on such an emulator a byte that comes before the write to ICR stays in
the FIFO until another interrupts.

## 4. Proofs

`KernelProofs` first proves four theorems of `Kernel!Spec`, for every value of the
constants: any number of nodes, spaces, signals and pids, and any `Rules`, in
particular none.

* `TypeCorrect` and `SignalFramesCorrect`. TypeOK alone is not inductive: sigret
  restores `backupCtx`, which is a context only because a process in state
  SIGNAL has one. The inductive invariant is `TypedFrames`, TypeOK with
  SignalFrames. An ACTIVE process having no saved context is needed in turn when
  a signal arrives, and is kept because only sigwait leaves SIGNAL without
  sigret, and it does not go to ACTIVE.
* `AddressSpaceLiveCorrect` and `LoadedSpaceLiveCorrect`. The inductive invariant
  `SpacesInv` adds that live pids are below the next pid, so clone never
  overwrites an entry, that the count of a space is at least the number of its
  users, and that the loaded space is allocated. The hard step is terminate:
  users of the removed process's space lose one member, the count loses one and
  gains one for each copy between equal spaces, so count minus users does not
  fall; a space is freed only with count zero, and then has no users. The lemmas
  on `Toward` (found by well-founded minimum and maximum on pids) show that a
  relocated entry keeps everything but its node.

`CommonProofs` holds those lemmas for any finite or infinite set of natural
keys: the key an entry of the chain moves toward exists (`TowardNearest`), is in
the chain or is the removed key (`TowardInChain`), and is that of no other entry
(`TowardInjective`); it is the neighbour on the side of the removed key
(`TowardNeighbour`). `NatMin` and `NatMax`, on which they rest, are proved from
the least-element form of well-founded induction, which needs no operator.

`KernelProofs` also proves the properties of the run `kernel_contract`, each
from the rules it needs and no others, for every value of the constants. The
rules are hypotheses of the form `Kept("leaf_exit")`, that is
`"leaf_exit" \in Rules`; no theorem assumes anything of the other rules.

| Theorem | Rules | Argument |
|---|---|---|
| `NodesDistinctCorrect` | none | with SpacesInv inductive (`TableInv`): a removal moves entries into distinct nodes because `Toward` is injective, clone takes a free node |
| `RunsInOwnSpaceCorrect` | `memory` | switchTask loads the space of the process it picks; exec changes both; only an exec that fails late leaves them apart |
| `HandlerCanReturnCorrect` | `no_sleep_in_handler` | `HandlersInv`: a process is in state SIGNAL with level 1 and a saved context of level 0, or has level 0. So handlers do not nest, which the property does not say and sigret needs |
| `SchedulesRunnableCorrect`, `ScheduledOnceCorrect` | `handled_wakeups`, `leaf_exit` | one inductive invariant of both with TableInv: that the queue names exactly the runnable processes is kept by an enqueue only if the process was not queued, and a dequeue removes all of a process only if it was queued once |
| `NoFaultCorrect` | those, `stays_runnable`, `memory`, `keeps_files` | the queue's pointers are live nodes by SchedulesRunnable; an empty queue, a failed allocation and the destruction of an empty tree of files are what the other rules exclude |

`ProcessFilesProofs` proves every property of the run `files`, for any number of
processes, descriptors and FileContexts.

* `NamesLiveCorrect`, from the assumption `~SelfDup`. The inductive invariant
  `FilesInv` is the types with `Covers`: each context counts at least its names,
  over all processes. At least, because clone's undeleted object counts too.
  Every action is a set of names added and one removed, and the counts change by
  the number of each (`ReferencedFacts`, and the counting lemmas on disjoint
  unions); without `SelfDup` the descriptor that fddup closes is not the one it
duplicates, whose name therefore remains and keeps the context. The hard step
  is again terminate (`ExitCovers`): names move between processes, so the names
  kept, the names stored and the names closed are counted together, and stored
  names are distinct because no two processes move into one object.
* `StaysPrivateCorrect`: two entries of different processes for one context after
  an exit come from one entry before it, kept by the process that moves and
  stored by the one that moves in, and those are neighbours.
* `ChildInheritsCorrect` and `DescriptorsStayDistinctCorrect`, by actions; a table
  without gaps has as many entries as descriptors, so the number of open files is
  not among them.

`BootMemoryProofs` proves every property of the run `boot_memory`, for memories of
any size, kernels, devices and RAM disks of any size and place that `BootAssumption`
allows, and any sequence of requests and releases.

* `HighestTypeKept`. place() is not correct for every ordered map
  (see the example in section 2), so its loop is proved correct under a condition, `OneHigh`: at
  most one region of the map has a higher type than the one placed. So the placed
  region is split at most once, and the entry that trim skips then has nothing to
  overlap with. `MemoryMapProofs` has what insert does to a sorted array, what each
  case of trim does to the regions and to the addresses they cover, and the
  invariant of the loop (`Loose`): the regions other than the placed one, or what is
  left of it, are in order, and trim has not passed it. The inductive invariant
  `BootInv` adds to the two parts of HighestTypeWins (`Ordered`, `Wins`) that
  OneHigh holds of what boot places next, how long the array can be (`BootRoom`:
  place is never refused), which regions were placed, that RAM is the only available
  one and has a byte that nothing else covers, so that mapSize finds a region, and
  that the block map was placed at least as large as the final map makes it
  (`MapShrinks`).
* `TagsAndLists`, `PagesAreShared` and `NoNeedlessFailure`. The inductive invariant
  `AllocInv` says that the blocks, free and held, are aligned to their size and
  inside the map, that they tile the pages of available memory, each page in
  exactly one (`Tiling`), that the lists hold each free block once and at its order
  (`Listed`), and that no free block has a free buddy of its order (`Merged`).
  PagesPartitioned alone is not inductive: insert looks at the tag and the order of
  *one* entry of the block map, and only alignment and tiling make what it finds
  there a block of its own (`Nest`: two aligned blocks are disjoint or one contains
  the other). Within insert and within reserve the invariant holds of all blocks but
  the one in hand; each is a loop (`Join`, `Split`), and each turn keeps that form.
  reserve overwrites the list of each order it splits into; that loses nothing only
  because it took the first list that was not empty, so those lists are empty, which
  is part of the invariant of that loop. Merged is needed for NoNeedlessFailure
  alone: a run of free pages that is cut into smaller blocks has two buddies that
  insert would have joined (`RunIsMerged`).
* `KernelSafe` needs both: a page in a block lies in a region of the map that is
  available (`UsableBytes`, the rounding of the constructor), and Wins says that
  nothing else was placed there. The block map as the constructor sizes it lies in
  the region that was placed for it, and the heap inside the kernel's (`HeapInside`:
  its size does not wrap).

`UartProofs` proves `ReadersSeeStreamCorrect` for a ring of any size, any FIFO and
any set of contexts. `StreamInv` says where each byte is: byte k of the last
`BufferSize` stored is at place (k-1) modulo the size, the FIFO holds the bytes
after those, and an open reader that is not late is at the place of the byte after
the last it got. The reader's number of unread bytes is below the ring's size
(`InStream`), so the distance modulo the size that read computes is the real one.

`PageTablesProofs` proves every property of the run `address_space`, for tables,
pages, memories and programs of any size.

* The inductive invariant `TablesInv` says that the tables are `Sound`: no two
  entries of any two frames hold one frame, none holds a free frame or a top
  table, an entry that is absent holds none, free frames are empty, and an entry
  that is present in a top table or in the table below has a frame. One use is
  needed to show anything about a walk: because a table is the frame of one entry
  only, no table is at two levels (`Levels`), so a write to a leaf table changes
  no other page of any space (`EntryWritten`) and two pages never have one entry
  (`EntriesDiffer`). Free frames being empty is what the fault handler, which
  does not clear a new table, relies on (`TableAdded`).
* Between reserving frames and mapping them a third set is needed, the frames in
  hand: `Good(s, T, R)` is soundness with top tables T and reserved frames R.
  initializeTopTable is the delicate call (`TopTableInitialized`): its frame is
  for a while both mapped at the scratch page and cleared as a table.
* The loops of map_region, unmap_region and buildProgramImage are recursive
  functions over an interval. `LoopExists` shows that such a function exists and
  `UpTo` is induction to a bound over a set, neither of which needs an operator
  as a parameter. `Progress` and `Built` are the loops' invariants; `Built` says
  which pages the headers so far have mapped, which by `Loadable` decides whether
  the next section shares a page and has frames enough. What may be mapped is
  `MayMap`: frames in hand, or the frames of a stack without memory, which no
  allocator frame equals.
* `FramesHaveOneUseCorrect` follows from TablesInv. `ImageMappedCorrect` carries
  through Built that each section so far has all its pages (`HasImage`), or that
  reserve has failed for one; a failed reserve fails again, since no frame is
  freed, and adding the stack leaves none of these pages unmapped. For the refinement `ImplementsAddressSpacesCorrect` every step is
  shown to be one of four (`NextSteps`): a change of the active space, a new
  space, a switch, or a panic in the middle of exec, which changes no space.

`PipeProofs` proves every property of the run `pipe`, for a ring and transfers of
any size, any bytes and any finite sets of ends.

* `TypeCorrect`: TypeOK is inductive.
* `FreedWithLastEndCorrect`: with TypeOK (`Counted`) it is inductive; each step
  is one fact about the cardinality of a set with one element more or less.
* `FifoCorrect`, the refinement. `RingPlaces` and `ContentsSeq` turn positions
  into a sequence, `RingAfterPut` and `RingAfterRead` say what one iteration
  does to it. The inductive invariant `InCall` adds that the last bytes in the
  ring are the ones a put in progress has copied, and that the ends a call found
  are still there. Iterations leave the queue unchanged (`PutByteStutters`,
  `ReadByteStutters`), and the return is the atomic call (`PutReturnWrites`,
  `ReadReturnReads`): put stopped either with all bytes copied or with a full
  ring, so it copied exactly the minimum of the length and the room.
* `EofIsFinalCorrect`: being told EEOF implies `Drained` (no writers, nothing in
  the ring, no call that has found anything), which no step leaves: writers are
  only copied from writers.

Assumptions: the ASSUMEs of `Kernel` (bounds are naturals, the null pointer is
not a node or context, signals are within range, the heap is not empty), of
`Pipe` (the ring is not empty, ends are finite sets), of `ProcessFiles` (bounds
and descriptors are naturals), of `Uart` (sizes and the counts that programs
ask for are naturals) and of `PageTables` (sizes are positive, runs of one frame
exist, the stack fits, and the two assumptions on programs above), of `MemoryMap`
and `PageAllocator` (sizes are positive, the size of an entry of the block map is a
power of two) and of `BootMemory`: the array has ten entries or more (it has 16), the
bytes of the block map do not overflow a word, the image, the block map and a heap
fit into the kernel's memory, and one byte of RAM is outside everything else that
boot places. The constants of `aarch64_boot` (512 MiB of RAM, 32 MiB of kernel, the
RAM disk at 128 MiB, devices above RAM) meet these. TLC evaluates the assumptions in
the runs of these modules.

Only model-checked:

* liveness (`NoStarvation`, `BytesReachRing`), which the prover does not treat;
* `BinarySearchTree`, that is TypeOK, Linked, Ordered, ImplementsDictionary and
  MovesOnlyRuns: what its operators compute is defined by recursion over the shape
  of the tree, and needs induction over it;
* `FAT32` and `FileContextFAT32`, that is MountFindsFiles, DeliversInOrder,
  ReadsWhatIsDue and LoadsWholeFile: lookups and walks are recursive operators
  over directories and chains;
* `Heap`, of which the run shows a violation.

## 5. Findings

Each is a violation run; the counterexamples are short and are described in
`PROJECT.json`.

1. `init_lost_wakeup`: test/main.c's wait for its thread is a race with the
   timer. If the thread exits before main calls sigwait, the signal is over and
   sigwait leaves the scheduler empty; `switchTask` (`src/kernel.cpp:370`)
   dereferences a null process.
2. `kernel_parent_exit`: an exit that relocates table entries leaves dangling
   pointers in the ready queue.
3. `heap`: after malloc(72), free and malloc(80), `search_previous` points into a
   block that a merge removed, and split_blk (`src/memory/heap.cpp:83`) stores an
   address over the size of the free block.

Met while modelling. Unless it says otherwise the model does what the code does,
and the properties above say what they except; none has a run of its own.

* The exit of a process whose files are all closed when their tree is destroyed
  follows a null pointer (`src/containers/binary_search_tree.h:518`): one that has
  no open file, or a single one, which its destructor closes.
* Two signals to a sleeper that handles neither queue it twice
  (`src/kernel.cpp:436`).
* A process that raises a handled signal for itself has the argument of its
  handler overwritten by the status of sigraise (`src/kernel.cpp:180`). Registers
  are not modelled.
* A sigwait in a handler makes the handler's sigret a no-op.
* exec that finds no memory for the kernel stack returns to the caller with the
  new address space loaded (`src/kernel.cpp:487`); one that finds none for the
  user's stack maps the first frames of physical memory as the stack, writable
  (`src/kernel.cpp:485`); one that finds none for a section starts the program
  without it (`src/kernel.cpp:483`).
* The loader trusts the sizes in the file (`src/loader/elf.cpp:67`, `80`): an
  unaligned section may get one frame too few, and a short one inside a mapped
  page makes the size wrap.
* `fddup(fd, fd)` frees the context and keeps the pointer (`src/kernel.cpp:277`).
* clone's first Process object is never deleted, so its references keep an address
  space, and the writers of a pipe, for ever (`src/kernel.cpp:82`).
* open after a close can return a descriptor that another file has
  (`src/sched/process.cpp:298`).
* read copies more than was asked for when it crosses a sector
  (`src/fs/fat32/filecontextfat32.cpp:56`).
* Mounting a disk without a volume label misreads it and may clear its first slot
  (`src/fs/fat32/entry.cpp:29`).
* A byte that comes while the UART's handler logs an error may stay in the FIFO
  (`src/devices/uart.cpp:259`).
* place() can leave overlapping regions in an order that is not boot's
  (`src/memory/memorymap.cpp:68`).

## 6. Not modelled, and the plan

Not modelled:

* assembly (boot, exception vectors, register saves), and the early page tables
  that bootstrap.cpp and boot.s fill in once: no later step depends on more of
  them than that the kernel is mapped;
* layout: formatting of the log, byte order of FAT32 fields, path strings;
* containers and drivers that the kernel does not use (linked_list, which
  queue.h includes without need, hashmap, disk_driver), vectors and strings,
  which are sequential helpers, and `clear` and the printing of the tree;
* output on the UART, which polls one register, but for the time it takes the
  handler to log;
* registers, and with them arguments and results of calls;
* FAT32's write side but for clear_entry: nothing calls the rest;
* the copy of exec's arguments onto the new stack.

Worth doing next: the tree with its descents as paths instead of recursive
operators, and Linked and Ordered proved of it; and a composition of `ProcessFiles`
with `Pipe`, for what clone's undeleted references do to the end of a pipe's data.
