----------------------------- MODULE PageTables -----------------------------
(***************************************************************************)
(* Address spaces as the three-level translation tables of                 *)
(* memory/aarch64/mmu.cpp, with mmap.cpp, the mmap and munmap calls of     *)
(* kernel.cpp, and the part of exec that builds a program's address space  *)
(* (kernel.cpp, loader/elf.cpp).  Every table is a frame; the kernel       *)
(* reaches the tables of the loaded space through the last entry of the    *)
(* top table, which points back to it, so a write to an entry whose table  *)
(* is missing faults and the fault handler adds the tables.                *)
(*                                                                         *)
(* A table has W entries (512 in the code) besides that last one, so page  *)
(* p is entry p % W of a leaf table.  Frames hold what the RAM held at     *)
(* boot until they are written.  Nothing in the kernel frees a frame.      *)
(*                                                                         *)
(* Frames are numbered from the one of the kernel's top table, which is 0: *)
(* the allocator's are above it, and the first frames of physical memory,  *)
(* which are the kernel's (32 MiB in aarch64_boot), below.                 *)
(***************************************************************************)
EXTENDS Integers, Sequences

CONSTANTS W,             \* entries of a table
          NumFrames,     \* frames the allocator may hand out, 1..NumFrames
          PageSize,
          RunLengths,    \* block sizes of the allocator in frames, powers of two
          Programs,      \* program files: sequences of ELF program headers
          StackPages,    \* pages of the stack, 16 in the code
          MapPages,      \* pages and
          MapSizes,      \* sizes in bytes that programs ask for
          MaxSpaces      \* bound: programs started

ASSUME SizesAssumption ==
  /\ {W, PageSize} \subseteq Nat \ {0} /\ {NumFrames, MaxSpaces} \subseteq Nat
  /\ RunLengths \subseteq Nat \ {0} /\ 1 \in RunLengths
  /\ StackPages \in 1 .. W * W * W

VARIABLES st,            \* [mem, free, halted]: the frames' contents as tables, the
                         \* frames left, and whether the kernel has panicked
          top,           \* top[s]: the top table's frame of user space s
          active         \* the user space loaded in TTBR0, 0 before the first

vars == <<st, top, active>>

Page      == 0 .. W * W * W - 1
KernelTop == 0                        \* the frame of the kernel's top table
Scratch   == W * W * W - 1                  \* the kernel page at scratchAddr
StackPage == W * W * W - StackPages
NoFrame   == 0

\* What reserve() returns when it fails, ~0.  As the start of a region NOMEM is
\* the last frame number, which is no memory, and NOMEM + 1, NOMEM + 2, ... are
\* the first frames of physical memory.
NOMEM     == -StackPages
Frame     == NOMEM .. NumFrames

\* A PageTableEntry: what its type bits say and its frame number.  The bits for
\* access, sharing and caching are the same in every entry of a kind.
Descriptor(kind, f) == [kind |-> kind, frame |-> f]

Absent      == Descriptor("absent", 0)
Table(f)    == Descriptor("table", f)
PageDesc(f) == Descriptor("page", f)
Empty       == [i \in 0 .. W - 1 |-> Absent]

I0(p) == (p \div W) \div W
I1(p) == (p \div W) % W
I2(p) == p % W

(***************************************************************************)
(* The page allocator, as its callers see it: reserve(size) takes an       *)
(* aligned run of as many frames as the smallest block size that is enough *)
(* has.  Which run does not matter here.                                   *)
(***************************************************************************)
PagesFor(size) == (size + PageSize - 1) \div PageSize

Fits(n, size) == n >= PagesFor(size) /\ (n = 1 \/ n \div 2 < PagesFor(size))

Run(r) == r[1] .. r[1] + r[2] - 1

\* The free runs for size, as pairs of the first frame and the length.
FreeRuns(s, size) ==
  {r \in s.free \X RunLengths : /\ Fits(r[2], size)
                                /\ r[1] % r[2] = 0 /\ Run(r) \subseteq s.free}

Reserve(s, size) ==
  LET Take(runs) ==
        IF size = 0 \/ runs = {} THEN [st |-> s, frame |-> NOMEM]
        ELSE LET r == CHOOSE r \in runs : \A q \in runs : r[1] <= q[1]
             IN  [st |-> [s EXCEPT !.free = @ \ Run(r)], frame |-> r[1]]
  IN  Take(FreeRuns(s, size))

(***************************************************************************)
(* Rules for programs.  Nothing in the kernel enforces them, and outside   *)
(* them it maps frames that are not the program's: what is asked for lies  *)
(* in the lower half, the user's, and the frames the loader reserves for   *)
(* memsize bytes are enough for the pages it maps, which begin at the      *)
(* start of a page.  Programs linked with test/linker.ld, whose sections   *)
(* start on a page, keep them.                                             *)
(***************************************************************************)
Section == [type : STRING, vaddr : Nat, memsize : Nat]

SectionPages(sec) == sec.vaddr \div PageSize .. (sec.vaddr + sec.memsize - 1) \div PageSize

Loads(program) == {i \in DOMAIN program : program[i].type = "LOAD"}

Shared(program, i) ==
  \E j \in Loads(program) :
     j < i /\ program[i].vaddr \div PageSize \in SectionPages(program[j])

Loadable(program) ==
  \A i \in Loads(program) :
    LET sec  == program[i]
        diff == sec.vaddr % PageSize
    IN  /\ SectionPages(sec) \subseteq Page
        /\ \/ Shared(program, i)
           \/ \A n \in RunLengths :
                 Fits(n, sec.memsize) => PagesFor(sec.memsize + diff) <= n

ASSUME ProgramsAssumption ==
  \A program \in Programs : program \in Seq(Section) /\ Loadable(program)

ASSUME MapAssumption ==
  /\ MapPages \subseteq Nat /\ MapSizes \subseteq Nat
  /\ \A p \in MapPages, size \in MapSizes : p + PagesFor(size) <= W * W * W

(***************************************************************************)
(* fillTranslationTable(), called by the fault handler: a level 2 fault    *)
(* needs a middle and a leaf table, a level 3 fault a leaf table.  The new *)
(* table is not cleared.  Out of memory is a panic.                        *)
(***************************************************************************)
AddTable(s, t, i) ==
  LET Link(r) == IF s.halted \/ r.frame = NOMEM THEN [s EXCEPT !.halted = TRUE]
                 ELSE [r.st EXCEPT !.mem[t][i] = Table(r.frame)]
  IN  Link(Reserve(s, PageSize))

FillTranslationTable(s, t, p) ==
  LET level2 == s.mem[t][I0(p)].kind = "absent"
      AddLeaf(s1, m) == IF s1.halted THEN s1
                        ELSE IF level2 \/ s1.mem[m][I1(p)].kind = "absent"
                        THEN AddTable(s1, m, I1(p)) ELSE s1
      AddBelow(s1) == AddLeaf(s1, s1.mem[t][I0(p)].frame)
  IN  AddBelow(IF level2 THEN AddTable(s, t, I0(p)) ELSE s)

Leaf(s, t, p) == s.mem[s.mem[t][I0(p)].frame][I1(p)].frame

\* setPageEntry() and clearEntry() at level 0: one write, after the fault if any.
WriteEntry(s, t, p, e) ==
  LET Put(s1) == IF s1.halted THEN s1 ELSE [s1 EXCEPT !.mem[Leaf(s1, t, p)][I2(p)] = e]
  IN  Put(FillTranslationTable(s, t, p))

SetPageEntry(s, t, p, f) == WriteEntry(s, t, p, PageDesc(f))
ClearEntry(s, t, p)      == WriteEntry(s, t, p, Absent)

GetPageFrame(s, t, p) ==
  LET e0 == s.mem[t][I0(p)]
      e1 == s.mem[e0.frame][I1(p)]
      e2 == s.mem[e1.frame][I2(p)]
  IN  IF e0.kind = "absent" \/ e1.kind = "absent" \/ e2.kind = "absent" THEN NoFrame ELSE e2.frame

\* map_region() and unmap_region(), page by page.
MapRegionOneFrame(s, t, p, size, f) ==
  LET mapped[n \in 0 .. PagesFor(size)] ==
        IF n = 0 THEN s ELSE SetPageEntry(mapped[n - 1], t, p + n - 1, f)
  IN  mapped[PagesFor(size)]

MapRegion(s, t, p, size, f) ==
  LET mapped[n \in 0 .. PagesFor(size)] ==
        IF n = 0 THEN s ELSE SetPageEntry(mapped[n - 1], t, p + n - 1, f + n - 1)
  IN  mapped[PagesFor(size)]

UnmapRegion(s, t, p, size) ==
  LET cleared[n \in 0 .. PagesFor(size)] ==
        IF n = 0 THEN s ELSE ClearEntry(cleared[n - 1], t, p + n - 1)
  IN  cleared[PagesFor(size)]

(***************************************************************************)
(* initializeTopTable(): the frame is mapped at a scratch page of the      *)
(* kernel, cleared through it, and the scratch page is pointed back.       *)
(***************************************************************************)
InitializeTopTableOnly(s, f) ==
  LET Clear(s1) == IF s1.halted THEN s1 ELSE [s1 EXCEPT !.mem[f] = Empty]
  IN  Clear(SetPageEntry(s, KernelTop, Scratch, f))

InitializeTopTable(s, f) ==
  LET old == GetPageFrame(s, KernelTop, Scratch)
      Clear(s1) == IF s1.halted THEN s1
                   ELSE SetPageEntry([s1 EXCEPT !.mem[f] = Empty], KernelTop, Scratch, old)
  IN  Clear(SetPageEntry(s, KernelTop, Scratch, f))

(***************************************************************************)
(* buildProgramImage(), one LOAD section: frames for its size, mapped from *)
(* the page it starts in, or from the next one when that page is already   *)
(* mapped by the section before it.  A section that ends within that page  *)
(* makes the size wrap: the loop maps pages until there is no frame for a  *)
(* table, and the kernel panics.                                           *)
(***************************************************************************)
LoadSectionPastOffset(s, t, sec) ==
  LET diff  == sec.vaddr % PageSize
      first == sec.vaddr \div PageSize
      Map(r, p, size) == IF size < 0 THEN [r.st EXCEPT !.halted = TRUE]
                         ELSE MapRegion(r.st, t, p, size, r.frame)
      Place(r, shared) == Map(r, IF shared THEN first + 1 ELSE first,
                              IF shared THEN sec.memsize - (PageSize + diff)
                                        ELSE sec.memsize + diff)
  IN  Place(Reserve(s, sec.memsize), GetPageFrame(s, t, first) # NoFrame)

LoadSection(s, t, sec) ==
  LET diff  == sec.vaddr % PageSize
      first == sec.vaddr \div PageSize
      Map(r, p, size) == IF size < 0 THEN [r.st EXCEPT !.halted = TRUE]
                         ELSE MapRegion(r.st, t, p, size, r.frame)
      Place(r, shared) == Map(r, IF shared THEN first + 1 ELSE first,
                              IF shared THEN sec.memsize - (PageSize - diff)
                                        ELSE sec.memsize + diff)
  IN  Place(Reserve(s, sec.memsize), GetPageFrame(s, t, first) # NoFrame)

\* The sections in order; the first that finds no memory ends the loading.
LoadNext(acc, t, sec) ==
  IF acc.failed \/ acc.st.halted \/ sec.type # "LOAD" THEN acc
  ELSE IF Reserve(acc.st, sec.memsize).frame = NOMEM THEN [acc EXCEPT !.failed = TRUE]
  ELSE [acc EXCEPT !.st = LoadSection(acc.st, t, sec)]

BuildProgramImage(s, t, program) ==
  LET loaded[n \in 0 .. Len(program)] ==
        IF n = 0 THEN [st |-> s, failed |-> FALSE] ELSE LoadNext(loaded[n - 1], t, program[n])
  IN  loaded[Len(program)].st

(***************************************************************************)
(* exec(): the results of buildProgramImage and of reserve, for the stack, *)
(* are not looked at.  A program without frames for its stack has it in    *)
(* the first frames of memory (NOMEM).  Without a frame for the top table  *)
(* the kernel follows a null pointer, which is a panic.                    *)
(***************************************************************************)
AddStack(s, t) ==
  LET Map(r) == MapRegion(r.st, t, StackPage, StackPages * PageSize, r.frame)
  IN  IF s.halted THEN s ELSE Map(Reserve(s, StackPages * PageSize))

Exec(program) ==
  LET Start(s, t) ==
        IF s.halted THEN st' = s /\ UNCHANGED <<top, active>>
        ELSE /\ st' = AddStack(BuildProgramImage(s, t, program), t)
             /\ top' = Append(top, t)
             /\ active' = Len(top) + 1
      NewTop(r) ==
        IF r.frame = NOMEM THEN st' = [st EXCEPT !.halted = TRUE] /\ UNCHANGED <<top, active>>
        ELSE Start(InitializeTopTable(r.st, r.frame), r.frame)
  IN  /\ ~st.halted /\ Len(top) < MaxSpaces
      /\ NewTop(Reserve(st, PageSize))

\* loadAddressSpace(), when the scheduler switches to a process of space s.
Switch(s) ==
  /\ ~st.halted /\ s \in DOMAIN top
  /\ active' = s /\ UNCHANGED <<st, top>>

Mmap(p, size) ==
  LET Map(r) == IF r.frame = NOMEM THEN st                                    \* ENOMEM
                ELSE MapRegion(r.st, top[active], p, size, r.frame)
  IN
  /\ ~st.halted /\ active # 0
  /\ st' = Map(Reserve(st, size))
  /\ UNCHANGED <<top, active>>

\* munmap() clears the entries; the frames are not freed.
Munmap(p, size) ==
  /\ ~st.halted /\ active # 0
  /\ st' = UnmapRegion(st, top[active], p, size)
  /\ UNCHANGED <<top, active>>

\* After mmu_init() and initMemory(); RAM reads as zero.
Init ==
  /\ st = [mem |-> [f \in Frame |-> Empty], free |-> 1 .. NumFrames, halted |-> FALSE]
  /\ top = <<>> /\ active = 0

Next ==
  \/ \E program \in Programs : Exec(program)
  \/ \E s \in 1 .. MaxSpaces : Switch(s)
  \/ \E p \in MapPages, size \in MapSizes : Mmap(p, size)
  \/ \E p \in MapPages, size \in MapSizes : Munmap(p, size)

Spec == Init /\ [][Next]_vars

---------------------------------------------------------------------------
(***************************************************************************)
(* Every frame that the allocator has handed out has one use: it is the    *)
(* top table of one space, or one entry of one table points to it, as a    *)
(* table or as a page; and no frame in use is free.  A page mapped twice,  *)
(* a table mapped as a page, a scratch page left on a top table or a table *)
(* shared by two spaces would let one program change another, or its own   *)
(* translation.  The kernel's frames are exempt: every stack for which     *)
(* there was no memory shows the same ones.                                *)
(***************************************************************************)
Entries == {e \in Frame \X (0 .. W - 1) : st.mem[e[1]][e[2]].frame > 0}
Tops    == {top[s] : s \in DOMAIN top}

FramesHaveOneUse ==
  /\ \A e1, e2 \in Entries : st.mem[e1[1]][e1[2]].frame = st.mem[e2[1]][e2[2]].frame => e1 = e2
  /\ \A s, t \in DOMAIN top : top[s] = top[t] => s = t
  /\ \A e \in Entries : st.mem[e[1]][e[2]].frame \notin st.free \union Tops
  /\ Tops \intersect st.free = {}

(***************************************************************************)
(* exec: a program starts with every page of its sections mapped, the page *)
(* that two sections share included, unless there was no memory for one of *)
(* them.  (Then it starts without its pages: kernel.cpp does not look at   *)
(* what buildProgramImage returns.)                                        *)
(***************************************************************************)
ImageMapped ==
  [][\A program \in Programs :
       Exec(program) /\ top' # top /\ ~st'.halted =>
         \/ \A i \in Loads(program) : \A p \in SectionPages(program[i]) :
               GetPageFrame(st', top'[active'], p) # NoFrame
         \/ \E i \in Loads(program) : Reserve(st', program[i].memsize).frame = NOMEM]_vars

(***************************************************************************)
(* The tables implement the address spaces of mmap.h: a call changes the   *)
(* translation of the active space only, and only to frames no space had.  *)
(* The one exception is the stack of a program that was started without    *)
(* memory for it.                                                          *)
(***************************************************************************)
Abs == INSTANCE AddressSpaces WITH
         view <- [s \in DOMAIN top |-> [p \in Page |-> GetPageFrame(st, top[s], p)]],
         NoStack <- [p \in StackPage .. W * W * W - 1 |-> NOMEM + (p - StackPage)]

ImplementsAddressSpaces == Abs!Spec
=============================================================================
