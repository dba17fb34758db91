-------------------------- MODULE PageTablesProofs --------------------------
(***************************************************************************)
(* Theorems about PageTables, for tables, memories and programs of any     *)
(* size: every frame handed out has one use, programs start with their     *)
(* pages, and the tables implement the address spaces of AddressSpaces.    *)
(***************************************************************************)
EXTENDS PageTables, CommonProofs, TLAPS

Index  == 0 .. W - 1
Entry  == [kind : {"absent", "table", "page"}, frame : Frame]
Memory == [Frame -> [Index -> Entry]]
State  == [mem : Memory, free : SUBSET (1 .. NumFrames), halted : BOOLEAN]

\* The frames of the allocator are above 0, the frames of a stack without memory
\* below.
LEMMA FrameRange ==
    /\ NOMEM \in Int /\ NOMEM < 0 /\ StackPages \in Nat \ {0} /\ NOMEM = -StackPages
    /\ NumFrames \in Nat /\ Frame = NOMEM .. NumFrames
    /\ 1 .. NumFrames \subseteq Frame /\ 0 \in Frame /\ Frame \subseteq Int
<1>1. W * W * W \in Int
  BY SizesAssumption, SMT
<1>2. StackPages \in Nat \ {0} /\ NumFrames \in Nat
  BY <1>1, SizesAssumption
<1>3. QED
  BY <1>2 DEF NOMEM, Frame

-----------------------------------------------------------------------------
(* Pages and their indices *)

\* The three indices of a page are indices of tables.
LEMMA IndexRange ==
    ASSUME NEW p \in Page
    PROVE  I0(p) \in Index /\ I1(p) \in Index /\ I2(p) \in Index
<1>1. W \in Nat \ {0} /\ p \in Nat
  BY SizesAssumption DEF Page
<1>2. W * W \in Nat /\ W * W * W = (W * W) * W /\ W * W * W \in Int
  BY <1>1, SMT
<1>3. p < (W * W) * W
  BY <1>2, <1>1 DEF Page
<1>4. p \div W \in Nat /\ p \div W < W * W
  BY <1>1, <1>2, <1>3, DivBelow
<1>5. (p \div W) \div W \in Nat /\ (p \div W) \div W < W
  BY <1>1, <1>4, DivBelow
<1>6. (p \div W) % W \in Index
  BY <1>1, <1>4 DEF Index
<1>7. p % W \in Index
  BY <1>1 DEF Index
<1>8. QED
  BY <1>1, <1>5, <1>6, <1>7 DEF I0, I1, I2, Index

\* and they tell pages apart.
LEMMA IndexInjective ==
    ASSUME NEW p \in Page, NEW q \in Page, I0(p) = I0(q), I1(p) = I1(q), I2(p) = I2(q)
    PROVE  p = q
<1>1. W \in Nat \ {0} /\ p \in Nat /\ q \in Nat
  BY SizesAssumption DEF Page
<1>2. \A x \in Int : x = W * (x \div W) + (x % W) /\ x \div W \in Int
  BY <1>1, SMT
<1>3. p \div W = q \div W
  BY <1>1, <1>2 DEF I0, I1
<1>4. QED
  BY <1>1, <1>2, <1>3 DEF I2

-----------------------------------------------------------------------------
(* Tables in memory *)

\* No two entries have one frame of the allocator.
OneUse(mem) ==
    \A f, g \in Frame : \A i, j \in Index :
        mem[f][i].frame = mem[g][j].frame /\ mem[f][i].frame > 0 => f = g /\ i = j

\* No entry has a frame of S.
Unused(mem, S) == \A f \in Frame : \A i \in Index : mem[f][i].frame > 0 => mem[f][i].frame \notin S

\* What a walk that starts at a table in T meets: an entry that is present has a
\* frame, in the top table and in the one below.
Links(mem, f) == \A i \in Index : mem[f][i].kind # "absent" => mem[f][i].frame > 0
Linked(mem, T) ==
    \A t \in T : /\ Links(mem, t)
                 /\ \A i \in Index : mem[t][i].kind # "absent" => Links(mem, mem[t][i].frame)

\* The invariant of the tables, with T the top tables and R the frames that have
\* been reserved and are not mapped yet.
Sound(mem, free, T, R) ==
    /\ OneUse(mem)
    /\ Unused(mem, free) /\ Unused(mem, R) /\ Unused(mem, T)
    /\ free \cap R = {} /\ free \cap T = {} /\ R \cap T = {}
    /\ \A f \in Frame : \A i \in Index : mem[f][i].kind = "absent" => mem[f][i].frame = 0
    /\ \A f \in free : \A i \in Index : mem[f][i] = Absent
    /\ Linked(mem, T)

\* The walk of getPageFrame.
Walk(mem, t, p) ==
    LET e0 == mem[t][I0(p)]
        e1 == mem[e0.frame][I1(p)]
        e2 == mem[e1.frame][I2(p)]
    IN  IF e0.kind = "absent" \/ e1.kind = "absent" \/ e2.kind = "absent" THEN 0 ELSE e2.frame

\* Every page of every space in T is mapped as before.
SameViews(mem, mem1, T) == \A t \in T : \A p \in Page : Walk(mem1, t, p) = Walk(mem, t, p)

\* Space t maps no page.
NoPages(mem, t) == \A p \in Page : Walk(mem, t, p) = 0

\* The same but for page p of t, which is mapped to f.
OneChange(mem, mem1, T, t, p, f) ==
    /\ Walk(mem1, t, p) = f
    /\ \A u \in T : \A q \in Page : u # t \/ q # p => Walk(mem1, u, q) = Walk(mem, u, q)

Middle(mem, t, p) == mem[t][I0(p)].frame
LeafOf(mem, t, p) == mem[Middle(mem, t, p)][I1(p)].frame

\* Both tables for page p are there.
Present(mem, t, p) ==
    mem[t][I0(p)].kind # "absent" /\ mem[Middle(mem, t, p)][I1(p)].kind # "absent"

\* getPageFrame is that walk.
LEMMA GetPageFrameWalks ==
    ASSUME NEW s, NEW t, NEW p
    PROVE  GetPageFrame(s, t, p) = Walk(s.mem, t, p)
BY DEF GetPageFrame, Walk, NoFrame

\* The types of what a walk reads.
LEMMA WalkTypes ==
    ASSUME NEW mem \in Memory, NEW t \in Frame, NEW p \in Page
    PROVE  /\ I0(p) \in Index /\ I1(p) \in Index /\ I2(p) \in Index
           /\ mem[t][I0(p)] \in Entry
           /\ Middle(mem, t, p) \in Frame
           /\ mem[Middle(mem, t, p)][I1(p)] \in Entry
           /\ LeafOf(mem, t, p) \in Frame
           /\ mem[LeafOf(mem, t, p)][I2(p)] \in Entry
<1>1. I0(p) \in Index /\ I1(p) \in Index /\ I2(p) \in Index
  BY IndexRange
<1>2. \A f \in Frame : \A i \in Index : mem[f][i] \in Entry /\ mem[f][i].frame \in Frame
  BY DEF Memory, Entry
<1>3. Middle(mem, t, p) \in Frame
  BY <1>1, <1>2 DEF Middle
<1>4. LeafOf(mem, t, p) \in Frame
  BY <1>1, <1>2, <1>3 DEF LeafOf
<1>5. QED
  BY <1>1, <1>2, <1>3, <1>4

\* In sound tables a page is mapped to the frame of its entry, if it has one.
LEMMA WalkValue ==
    ASSUME NEW mem \in Memory, NEW free, NEW T, NEW R, Sound(mem, free, T, R),
           NEW t \in Frame, NEW p \in Page
    PROVE  Walk(mem, t, p) = IF Present(mem, t, p) THEN mem[LeafOf(mem, t, p)][I2(p)].frame ELSE 0
<1>1. /\ I2(p) \in Index /\ LeafOf(mem, t, p) \in Frame
  BY WalkTypes
<1>2. mem[LeafOf(mem, t, p)][I2(p)].kind = "absent" => mem[LeafOf(mem, t, p)][I2(p)].frame = 0
  BY <1>1 DEF Sound
<1>3. QED
  BY <1>2 DEF Walk, Present, LeafOf, Middle

\* A table below a top table, and a leaf table, are the frame of one entry each,
\* so no table is at two levels.
LEMMA Levels ==
    ASSUME NEW mem \in Memory, NEW free, NEW T \in SUBSET Frame, NEW R, Sound(mem, free, T, R),
           NEW t \in T, NEW p \in Page, mem[t][I0(p)].kind # "absent"
    PROVE  /\ Middle(mem, t, p) > 0 /\ Middle(mem, t, p) \notin T
           /\ \A i \in Index : mem[Middle(mem, t, p)][i].kind # "absent" =>
                                  mem[Middle(mem, t, p)][i].frame > 0
           /\ Present(mem, t, p) =>
                 /\ LeafOf(mem, t, p) > 0 /\ LeafOf(mem, t, p) \notin T
                 /\ \A u \in T : \A i \in Index :
                      mem[u][i].kind # "absent" => mem[u][i].frame # LeafOf(mem, t, p)
<1>1. /\ t \in Frame
      /\ I0(p) \in Index /\ I1(p) \in Index /\ I2(p) \in Index
      /\ Middle(mem, t, p) \in Frame /\ LeafOf(mem, t, p) \in Frame
  BY WalkTypes
<1>2. Middle(mem, t, p) > 0 /\ Links(mem, Middle(mem, t, p))
  BY <1>1 DEF Sound, Linked, Links, Middle
<1>3. Middle(mem, t, p) \notin T
  BY <1>1, <1>2 DEF Sound, Unused, Middle
<1>4. ASSUME Present(mem, t, p)
      PROVE  /\ LeafOf(mem, t, p) > 0 /\ LeafOf(mem, t, p) \notin T
             /\ \A u \in T : \A i \in Index :
                  mem[u][i].kind # "absent" => mem[u][i].frame # LeafOf(mem, t, p)
  <2>1. LeafOf(mem, t, p) > 0
    BY <1>1, <1>2, <1>4 DEF Present, Links, LeafOf
  <2>2. LeafOf(mem, t, p) \notin T
    BY <1>1, <2>1 DEF Sound, Unused, LeafOf
  <2>3. ASSUME NEW u \in T, NEW i \in Index, mem[u][i].frame = LeafOf(mem, t, p)
        PROVE  FALSE
    <3>1. u = Middle(mem, t, p)
      BY <1>1, <2>1, <2>3 DEF Sound, OneUse, LeafOf
    <3>2. QED
      BY <3>1, <1>3
  <2>4. QED
    BY <2>1, <2>2, <2>3
<1>5. QED
  BY <1>2, <1>3, <1>4 DEF Links

-----------------------------------------------------------------------------
(* One write *)

\* Memory mem1 is mem with e at entry k of frame c.
Written(mem, c, k, e, mem1) ==
    \A f \in Frame : \A i \in Index :
        mem1[f][i] = IF f = c /\ i = k THEN e ELSE mem[f][i]

\* That is what the update of one entry does.
LEMMA WriteWrites ==
    ASSUME NEW mem \in Memory, NEW c \in Frame, NEW k \in Index, NEW e \in Entry
    PROVE  /\ [mem EXCEPT ![c][k] = e] \in Memory
           /\ Written(mem, c, k, e, [mem EXCEPT ![c][k] = e])
BY DEF Memory, Written

\* fillTranslationTable's step: an empty frame becomes a table.  The mappings do
\* not change.
LEMMA TableAdded ==
    ASSUME NEW mem \in Memory, NEW free \in SUBSET (1 .. NumFrames), NEW T \in SUBSET Frame,
           NEW R, Sound(mem, free, T, R),
           NEW c \in Frame, NEW k \in Index, NEW r \in free,
           mem[c][k].kind = "absent",
           \/ c \in T
           \/ \E u \in T : \E i \in Index : mem[u][i].kind # "absent" /\ mem[u][i].frame = c,
           NEW mem1 \in Memory, Written(mem, c, k, Table(r), mem1)
    PROVE  Sound(mem1, free \ {r}, T, R) /\ SameViews(mem, mem1, T)
<1>1. Table(r).kind = "table" /\ Table(r).frame = r /\ r > 0 /\ r \in Frame
  BY FrameRange DEF Table, Descriptor
<1> HIDE DEF Table
<1> DEFINE B(f, i) == f = c /\ i = k
<1>2. \A f \in Frame : \A i \in Index :
         mem1[f][i] = IF B(f, i) THEN Table(r) ELSE mem[f][i]
  BY DEF Written
<1>3. \A f \in Frame : \A i \in Index : mem[f][i].frame # r
  BY <1>1 DEF Sound, Unused
<1>4. \A i \in Index : mem[r][i] = Absent
  BY DEF Sound
<1>5. c # r
  <2>1. CASE c \in T
    BY <2>1 DEF Sound
  <2>2. ASSUME NEW u \in T, NEW i \in Index, mem[u][i].frame = c
        PROVE  c # r
    BY <2>2, <1>3
  <2>3. QED
    BY <2>1, <2>2
<1>6. OneUse(mem1)
  <2>1. OneUse(mem)
    BY DEF Sound
  <2>2. QED
    BY <2>1, <1>1, <1>2, <1>3 DEF OneUse
<1>7. Unused(mem1, free \ {r}) /\ Unused(mem1, R) /\ Unused(mem1, T)
  <2>1. r \notin R /\ r \notin T
    BY DEF Sound
  <2>2. Unused(mem, free) /\ Unused(mem, R) /\ Unused(mem, T)
    BY DEF Sound
  <2>3. Unused(mem1, free \ {r})
    BY <2>2, <1>1, <1>2 DEF Unused
  <2>4. Unused(mem1, R)
    BY <2>1, <2>2, <1>1, <1>2 DEF Unused
  <2>5. Unused(mem1, T)
    BY <2>1, <2>2, <1>1, <1>2 DEF Unused
  <2>6. QED
    BY <2>3, <2>4, <2>5
<1>8. \A f \in Frame : \A i \in Index : mem1[f][i].kind = "absent" => mem1[f][i].frame = 0
  BY <1>1, <1>2 DEF Sound
<1>9. c \notin free
  <2>1. CASE c \in T
    BY <2>1 DEF Sound
  <2>2. ASSUME NEW u \in T, NEW i \in Index, mem[u][i].kind # "absent", mem[u][i].frame = c
        PROVE  c \notin free
    <3>1. c > 0
      BY <2>2 DEF Sound, Linked, Links
    <3>2. QED
      BY <3>1, <2>2 DEF Sound, Unused
  <2>3. QED
    BY <2>1, <2>2
<1>10. \A f \in free \ {r} : \A i \in Index : mem1[f][i] = Absent
  <2>1. free \subseteq Frame
    BY FrameRange
  <2>2. QED
    BY <2>1, <1>2, <1>9 DEF Sound
<1>11. Linked(mem1, T)
  <2>1. SUFFICES ASSUME NEW t \in T
                 PROVE  /\ Links(mem1, t)
                        /\ \A i \in Index : mem1[t][i].kind # "absent" => Links(mem1, mem1[t][i].frame)
    BY DEF Linked
  <2>2. Links(mem, t) /\ \A i \in Index : mem[t][i].kind # "absent" => Links(mem, mem[t][i].frame)
    BY DEF Sound, Linked
  <2>3. \A f \in Frame : Links(mem, f) => Links(mem1, f)
    BY <1>1, <1>2 DEF Links
  <2>4. ASSUME NEW i \in Index, mem1[t][i].kind # "absent"
        PROVE  Links(mem1, mem1[t][i].frame)
    <3>1. CASE B(t, i)
      <4>1. mem1[t][i].frame = r
        BY <3>1, <1>1, <1>2
      <4>2. \A j \in Index : mem1[r][j] = Absent
        BY <1>1, <1>2, <1>4, <1>5
      <4>3. Absent.kind = "absent"
        BY DEF Absent, Descriptor
      <4>4. QED
        BY <4>1, <4>2, <4>3 DEF Links
    <3>2. CASE ~B(t, i)
      <4>1. mem1[t][i] = mem[t][i]
        BY <3>2, <1>2
      <4>2. mem[t][i].frame \in Frame
        BY DEF Memory, Entry
      <4>3. QED
        BY <4>1, <4>2, <2>2, <2>3, <2>4
    <3>3. QED
      BY <3>1, <3>2
  <2>5. QED
    BY <2>2, <2>3, <2>4
<1>12. Sound(mem1, free \ {r}, T, R)
  <2>1. (free \ {r}) \cap R = {} /\ (free \ {r}) \cap T = {} /\ R \cap T = {}
    BY DEF Sound
  <2>2. QED
    BY <2>1, <1>6, <1>7, <1>8, <1>10, <1>11 DEF Sound
<1>13. ASSUME NEW t \in T, NEW p \in Page
       PROVE  Walk(mem1, t, p) = Walk(mem, t, p)
  <2>1. /\ I0(p) \in Index /\ I1(p) \in Index /\ I2(p) \in Index
        /\ Middle(mem, t, p) \in Frame /\ LeafOf(mem, t, p) \in Frame
    BY WalkTypes
  <2>2. /\ Walk(mem, t, p) = IF Present(mem, t, p) THEN mem[LeafOf(mem, t, p)][I2(p)].frame ELSE 0
        /\ Walk(mem1, t, p) = IF Present(mem1, t, p) THEN mem1[LeafOf(mem1, t, p)][I2(p)].frame ELSE 0
    BY WalkValue, <1>12
  <2>3. \A j \in Index : mem1[r][j].kind = "absent" /\ mem1[r][j].frame = 0
    BY <1>1, <1>2, <1>4, <1>5 DEF Absent, Descriptor
  <2>4. CASE mem[t][I0(p)].kind = "absent"
    <3>1. Walk(mem, t, p) = 0
      BY <2>2, <2>4 DEF Present
    <3>2. CASE B(t, I0(p))
      <4>1. Middle(mem1, t, p) = r
        BY <3>2, <2>1, <1>1, <1>2 DEF Middle
      <4>2. ~Present(mem1, t, p)
        BY <4>1, <2>1, <2>3 DEF Present
      <4>3. QED
        BY <4>2, <3>1, <2>2
    <3>3. CASE ~B(t, I0(p))
      <4>1. mem1[t][I0(p)] = mem[t][I0(p)]
        BY <3>3, <2>1, <1>2
      <4>2. ~Present(mem1, t, p)
        BY <4>1, <2>4 DEF Present
      <4>3. QED
        BY <4>2, <3>1, <2>2
    <3>4. QED
      BY <3>2, <3>3
  <2>5. CASE mem[t][I0(p)].kind # "absent"
    <3>1. mem1[t][I0(p)] = mem[t][I0(p)] /\ Middle(mem1, t, p) = Middle(mem, t, p)
      <4>1. ~B(t, I0(p))
        BY <2>5
      <4>2. QED
        BY <4>1, <2>1, <1>2 DEF Middle
    <3>2. CASE mem[Middle(mem, t, p)][I1(p)].kind = "absent"
      <4>1. Walk(mem, t, p) = 0
        BY <2>2, <3>2 DEF Present
      <4>2. CASE B(Middle(mem, t, p), I1(p))
        <5>1. LeafOf(mem1, t, p) = r
          BY <4>2, <3>1, <2>1, <1>1, <1>2 DEF LeafOf
        <5>2. QED
          BY <5>1, <4>1, <2>1, <2>2, <2>3
      <4>3. CASE ~B(Middle(mem, t, p), I1(p))
        <5>1. mem1[Middle(mem, t, p)][I1(p)] = mem[Middle(mem, t, p)][I1(p)]
          BY <4>3, <2>1, <1>2
        <5>2. ~Present(mem1, t, p)
          BY <5>1, <3>1, <3>2 DEF Present
        <5>3. QED
          BY <5>2, <4>1, <2>2
      <4>4. QED
        BY <4>2, <4>3
    <3>3. CASE mem[Middle(mem, t, p)][I1(p)].kind # "absent"
      <4>1. ~B(Middle(mem, t, p), I1(p))
        BY <3>3
      <4>2. mem1[Middle(mem, t, p)][I1(p)] = mem[Middle(mem, t, p)][I1(p)]
        BY <4>1, <2>1, <1>2
      <4>3. Present(mem, t, p) /\ Present(mem1, t, p) /\ LeafOf(mem1, t, p) = LeafOf(mem, t, p)
        BY <4>2, <3>1, <3>3, <2>5 DEF Present, LeafOf
      <4>4. LeafOf(mem, t, p) # c
        BY <4>3, <2>5, Levels
      <4>5. mem1[LeafOf(mem, t, p)][I2(p)] = mem[LeafOf(mem, t, p)][I2(p)]
        BY <4>4, <2>1, <1>2
      <4>6. QED
        BY <4>3, <4>5, <2>2
    <3>4. QED
      BY <3>2, <3>3
  <2>6. QED
    BY <2>4, <2>5
<1>14. QED
  BY <1>12, <1>13 DEF SameViews

\* Memory mem1 is mem with e written to the entry of page p of space t.
LeafWritten(mem, free, T, R, t, p, e, mem1) ==
    /\ mem \in Memory /\ T \in SUBSET Frame /\ Sound(mem, free, T, R)
    /\ t \in T /\ p \in Page /\ Present(mem, t, p)
    /\ Written(mem, LeafOf(mem, t, p), I2(p), e, mem1)

\* A write to an entry of a leaf table changes no table that a walk passes.
LEMMA LeafWriteKeepsTables ==
    ASSUME NEW mem, NEW free, NEW T, NEW R, NEW t, NEW p, NEW e, NEW mem1,
           LeafWritten(mem, free, T, R, t, p, e, mem1),
           NEW u \in T, NEW i \in Index
    PROVE  /\ mem1[u][i] = mem[u][i]
           /\ mem[u][i].kind # "absent" =>
                \A j \in Index : mem1[mem[u][i].frame][j] = mem[mem[u][i].frame][j]
<1>0. /\ mem \in Memory /\ T \in SUBSET Frame /\ Sound(mem, free, T, R)
      /\ t \in T /\ p \in Page /\ Present(mem, t, p)
      /\ Written(mem, LeafOf(mem, t, p), I2(p), e, mem1)
  BY DEF LeafWritten
<1>1. /\ LeafOf(mem, t, p) \notin T
      /\ mem[u][i].kind # "absent" => mem[u][i].frame # LeafOf(mem, t, p)
  BY <1>0, Levels DEF Present
<1>2. mem[u][i].frame \in Frame
  BY <1>0 DEF Memory, Entry
<1>3. QED
  BY <1>0, <1>1, <1>2 DEF Written

\* The same for the tables of one page.
LEMMA LeafWriteKeepsWalk ==
    ASSUME NEW mem, NEW free, NEW T, NEW R, NEW t, NEW p, NEW e, NEW mem1,
           LeafWritten(mem, free, T, R, t, p, e, mem1),
           NEW u \in T, NEW q \in Page
    PROVE  /\ Middle(mem1, u, q) = Middle(mem, u, q)
           /\ Present(mem1, u, q) <=> Present(mem, u, q)
           /\ Present(mem, u, q) => LeafOf(mem1, u, q) = LeafOf(mem, u, q)
<1>1. I0(q) \in Index /\ I1(q) \in Index
  BY IndexRange
<1>2. /\ mem1[u][I0(q)] = mem[u][I0(q)]
      /\ mem[u][I0(q)].kind # "absent" =>
            \A j \in Index : mem1[mem[u][I0(q)].frame][j] = mem[mem[u][I0(q)].frame][j]
  BY <1>1, LeafWriteKeepsTables
<1>3. QED
  BY <1>1, <1>2 DEF Middle, Present, LeafOf

\* Two pages have different entries.
LEMMA EntriesDiffer ==
    ASSUME NEW mem \in Memory, NEW free, NEW T \in SUBSET Frame, NEW R, Sound(mem, free, T, R),
           NEW t \in T, NEW p \in Page, Present(mem, t, p),
           NEW u \in T, NEW q \in Page, Present(mem, u, q),
           LeafOf(mem, t, p) = LeafOf(mem, u, q), I2(p) = I2(q)
    PROVE  t = u /\ p = q
<1>1. /\ I0(p) \in Index /\ I1(p) \in Index /\ I0(q) \in Index /\ I1(q) \in Index
      /\ Middle(mem, t, p) \in Frame /\ Middle(mem, u, q) \in Frame
  BY WalkTypes
<1>2. Middle(mem, t, p) > 0 /\ LeafOf(mem, t, p) > 0
  BY Levels DEF Present
<1>3. Middle(mem, t, p) = Middle(mem, u, q) /\ I1(p) = I1(q)
  BY <1>1, <1>2 DEF Sound, OneUse, LeafOf
<1>4. t = u /\ I0(p) = I0(q)
  BY <1>1, <1>2, <1>3 DEF Sound, OneUse, Middle
<1>5. QED
  BY <1>3, <1>4, IndexInjective

\* A page may be mapped to frame f: one that has been reserved, or none of the
\* allocator's.
MayMap(f, R) == f <= 0 \/ f \in R

\* setPageEntry and clearEntry, once the tables are there: the page is mapped to
\* the frame of the entry and no other page of any space changes.
LEMMA EntryWritten ==
    ASSUME NEW mem \in Memory, NEW free \in SUBSET (1 .. NumFrames), NEW T \in SUBSET Frame,
           NEW R \in SUBSET Frame, Sound(mem, free, T, R),
           NEW t \in T, NEW p \in Page, Present(mem, t, p),
           NEW e \in Entry, MayMap(e.frame, R), e.kind = "absent" => e.frame = 0,
           NEW mem1 \in Memory, Written(mem, LeafOf(mem, t, p), I2(p), e, mem1)
    PROVE  /\ Sound(mem1, free, T, R \ {e.frame})
           /\ Present(mem1, t, p) /\ LeafOf(mem1, t, p) = LeafOf(mem, t, p)
           /\ OneChange(mem, mem1, T, t, p, e.frame)
<1> DEFINE L == LeafOf(mem, t, p)
           k == I2(p)
<1>0. LeafWritten(mem, free, T, R, t, p, e, mem1)
  BY DEF LeafWritten
<1>1. L \in Frame /\ k \in Index /\ L > 0 /\ L \notin T
  BY WalkTypes, Levels DEF Present
<1>2. \A f \in Frame : \A i \in Index : mem1[f][i] = IF f = L /\ i = k THEN e ELSE mem[f][i]
  BY DEF Written
<1>3. L \notin free
  <2>1. I1(p) \in Index /\ Middle(mem, t, p) \in Frame
    BY WalkTypes
  <2>2. QED
    BY <1>1, <2>1 DEF Sound, Unused, LeafOf
<1>4. OneUse(mem1)
  <2>1. OneUse(mem) /\ Unused(mem, R)
    BY DEF Sound
  <2>2. e.frame > 0 => e.frame \in R
    BY FrameRange DEF MayMap, Entry
  <2>3. QED
    BY <2>1, <2>2, <1>2 DEF OneUse, Unused
<1>5. Unused(mem1, free) /\ Unused(mem1, R \ {e.frame}) /\ Unused(mem1, T)
  <2>1. Unused(mem, free) /\ Unused(mem, R) /\ Unused(mem, T)
    BY DEF Sound
  <2>2. e.frame > 0 => e.frame \notin free /\ e.frame \notin T
    BY FrameRange DEF Sound, MayMap, Entry
  <2>3. Unused(mem1, free)
    BY <2>1, <2>2, <1>2 DEF Unused
  <2>4. Unused(mem1, R \ {e.frame})
    BY <2>1, <2>2, <1>2 DEF Unused
  <2>5. Unused(mem1, T)
    BY <2>1, <2>2, <1>2 DEF Unused
  <2>6. QED
    BY <2>3, <2>4, <2>5
<1>6. \A f \in Frame : \A i \in Index : mem1[f][i].kind = "absent" => mem1[f][i].frame = 0
  BY <1>2 DEF Sound
<1>7. \A f \in free : \A i \in Index : mem1[f][i] = Absent
  <2>1. free \subseteq Frame
    BY FrameRange
  <2>2. QED
    BY <2>1, <1>2, <1>3 DEF Sound
<1>8. Linked(mem1, T)
  <2>1. SUFFICES ASSUME NEW u \in T, NEW i \in Index, mem1[u][i].kind # "absent"
                 PROVE  mem1[u][i].frame > 0 /\ Links(mem1, mem1[u][i].frame)
    BY DEF Linked, Links
  <2>2. /\ mem1[u][i] = mem[u][i]
        /\ \A j \in Index : mem1[mem[u][i].frame][j] = mem[mem[u][i].frame][j]
    BY <2>1, <1>0, LeafWriteKeepsTables
  <2>3. mem[u][i].frame > 0 /\ Links(mem, mem[u][i].frame)
    BY <2>1, <2>2 DEF Sound, Linked, Links
  <2>4. QED
    BY <2>2, <2>3 DEF Links
<1>9. Sound(mem1, free, T, R \ {e.frame})
  <2>1. free \cap (R \ {e.frame}) = {} /\ free \cap T = {} /\ (R \ {e.frame}) \cap T = {}
    BY DEF Sound
  <2>2. QED
    BY <2>1, <1>4, <1>5, <1>6, <1>7, <1>8 DEF Sound
<1>10. /\ Present(mem1, t, p) /\ LeafOf(mem1, t, p) = L
  BY <1>0, LeafWriteKeepsWalk
<1>11. Walk(mem1, t, p) = e.frame
  <2>1. Walk(mem1, t, p) = mem1[L][k].frame
    BY <1>9, <1>10, WalkValue
  <2>2. QED
    BY <2>1, <1>1, <1>2
<1>12. ASSUME NEW u \in T, NEW q \in Page, u # t \/ q # p
       PROVE  Walk(mem1, u, q) = Walk(mem, u, q)
  <2>1. /\ Walk(mem, u, q) = IF Present(mem, u, q) THEN mem[LeafOf(mem, u, q)][I2(q)].frame ELSE 0
        /\ Walk(mem1, u, q) = IF Present(mem1, u, q) THEN mem1[LeafOf(mem1, u, q)][I2(q)].frame ELSE 0
    BY <1>9, WalkValue
  <2>2. /\ Present(mem1, u, q) <=> Present(mem, u, q)
        /\ Present(mem, u, q) => LeafOf(mem1, u, q) = LeafOf(mem, u, q)
    BY <1>0, LeafWriteKeepsWalk
  <2>3. CASE Present(mem, u, q)
    <3>1. ~(LeafOf(mem, u, q) = L /\ I2(q) = k)
      BY <2>3, <1>12, EntriesDiffer
    <3>2. LeafOf(mem, u, q) \in Frame /\ I2(q) \in Index
      BY WalkTypes
    <3>3. mem1[LeafOf(mem, u, q)][I2(q)] = mem[LeafOf(mem, u, q)][I2(q)]
      BY <3>1, <3>2, <1>2
    <3>4. QED
      BY <3>3, <2>1, <2>2, <2>3
  <2>4. QED
    BY <2>1, <2>2, <2>3
<1>13. QED
  BY <1>9, <1>10, <1>11, <1>12 DEF OneChange

-----------------------------------------------------------------------------
(* The allocator *)

\* reserve fails only without a suitable run, and otherwise takes one.
LEMMA ReserveTakes ==
    ASSUME NEW s \in State, NEW size \in Nat
    PROVE  \/ /\ Reserve(s, size).frame = NOMEM /\ Reserve(s, size).st = s
              /\ size = 0 \/ FreeRuns(s, size) = {}
           \/ \E f \in s.free : \E n \in RunLengths :
                /\ size # 0 /\ Fits(n, size) /\ f .. f + n - 1 \subseteq s.free
                /\ Reserve(s, size).frame = f
                /\ Reserve(s, size).st = [s EXCEPT !.free = @ \ (f .. f + n - 1)]
<1> DEFINE runs == FreeRuns(s, size)
           r == CHOOSE r \in runs : \A q \in runs : r[1] <= q[1]
<1>1. CASE size = 0 \/ runs = {}
  <2>1. Reserve(s, size) = [st |-> s, frame |-> NOMEM]
    BY <1>1 DEF Reserve
  <2>2. QED
    BY <2>1, <1>1
<1>2. CASE ~(size = 0 \/ runs = {})
  <2>1. Reserve(s, size) = [st |-> [s EXCEPT !.free = @ \ Run(r)], frame |-> r[1]]
    BY <1>2 DEF Reserve
  <2>2. runs \subseteq s.free \X RunLengths /\ s.free \subseteq Nat
    BY DEF FreeRuns, State
  <2>3. \E m \in runs : \A q \in runs : m[1] <= q[1]
    <3> DEFINE S == {q[1] : q \in runs}
    <3>1. S \subseteq Nat /\ S # {}
      BY <1>2, <2>2
    <3>2. PICK b \in S : \A c \in S : b <= c
      BY <3>1, NatMin
    <3>3. QED
      BY <3>2
  <2>4. r \in runs
    BY <2>3
  <2> HIDE DEF r
  <2>5. /\ r[1] \in s.free /\ r[2] \in RunLengths
        /\ Fits(r[2], size) /\ Run(r) \subseteq s.free
    BY <2>4 DEF FreeRuns
  <2>6. Run(r) = r[1] .. r[1] + r[2] - 1
    BY DEF Run
  <2>7. /\ Reserve(s, size).frame = r[1]
        /\ Reserve(s, size).st = [s EXCEPT !.free = @ \ (r[1] .. r[1] + r[2] - 1)]
    BY <2>1, <2>6
  <2>8. QED
    BY <2>5, <2>6, <2>7, <1>2
<1>3. QED
  BY <1>1, <1>2

\* A page is one frame: a run for it is a single frame, and fails only when no
\* frame is free.
LEMMA OnePage ==
    /\ PageSize \in Nat \ {0} /\ PagesFor(PageSize) = 1
    /\ \A n \in RunLengths : Fits(n, PageSize) => n = 1
    /\ \A s \in State : FreeRuns(s, PageSize) = {} => s.free = {}
<1>1. PageSize \in Nat \ {0} /\ RunLengths \subseteq Nat \ {0} /\ 1 \in RunLengths
  BY SizesAssumption
<1>2. PagesFor(PageSize) = 1
  <2>1. PageSize + PageSize - 1 = PageSize * 1 + (PageSize - 1)
    BY <1>1
  <2>2. \A d \in Nat \ {0} : (d + d - 1) \div d = 1
    BY SMT
  <2>3. QED
    BY <2>2, <1>1 DEF PagesFor
<1>3. \A n \in RunLengths : Fits(n, PageSize) => n = 1
  <2>1. \A n \in Nat \ {0} : n \div 2 < 1 => n = 1
    BY SMT
  <2>2. QED
    BY <2>1, <1>1, <1>2 DEF Fits
<1>4. ASSUME NEW s \in State, NEW f \in s.free
      PROVE  FreeRuns(s, PageSize) # {}
  <2>1. f \in Nat /\ f % 1 = 0 /\ f .. f + 1 - 1 = {f}
    BY <1>4 DEF State
  <2>2. Fits(1, PageSize)
    BY <1>2 DEF Fits
  <2>3. <<f, 1>> \in FreeRuns(s, PageSize)
    BY <2>1, <2>2, <1>1, <1>4 DEF FreeRuns, Run
  <2>4. QED
    BY <2>3
<1>5. QED
  BY <1>1, <1>2, <1>3, <1>4

\* So reserving a page takes one free frame, or there is none.
LEMMA ReservePage ==
    ASSUME NEW s \in State
    PROVE  \/ /\ Reserve(s, PageSize).frame = NOMEM /\ Reserve(s, PageSize).st = s
              /\ s.free = {}
           \/ \E r \in s.free :
                /\ Reserve(s, PageSize).frame = r
                /\ Reserve(s, PageSize).st = [s EXCEPT !.free = @ \ {r}]
<1>1. PageSize \in Nat /\ PageSize # 0
  BY OnePage
<1>2. \/ /\ Reserve(s, PageSize).frame = NOMEM /\ Reserve(s, PageSize).st = s
         /\ FreeRuns(s, PageSize) = {}
      \/ \E f \in s.free : \E n \in RunLengths :
                /\ Fits(n, PageSize) /\ f .. f + n - 1 \subseteq s.free
                /\ Reserve(s, PageSize).frame = f
                /\ Reserve(s, PageSize).st = [s EXCEPT !.free = @ \ (f .. f + n - 1)]
  BY <1>1, ReserveTakes
<1>3. \A f \in s.free : f .. f + 1 - 1 = {f}
  BY DEF State
<1>4. QED
  BY <1>2, <1>3, OnePage

\* No frame is what a failed reserve returns.
LEMMA NomemNoFrame ==
    ASSUME NEW s \in State PROVE \A f \in s.free : f # NOMEM /\ f \in Frame /\ f > 0
BY FrameRange DEF State

\* reserve fails only without such a run.
LEMMA ReserveFails ==
    ASSUME NEW s \in State, NEW size \in Nat
    PROVE  Reserve(s, size).frame = NOMEM <=> size = 0 \/ FreeRuns(s, size) = {}
<1>1. \A f \in s.free : f # NOMEM
  BY NomemNoFrame
<1>2. \/ /\ Reserve(s, size).frame = NOMEM /\ Reserve(s, size).st = s
         /\ size = 0 \/ FreeRuns(s, size) = {}
      \/ \E f \in s.free : Reserve(s, size).frame = f
  BY ReserveTakes
<1>3. size = 0 \/ FreeRuns(s, size) = {} => Reserve(s, size).frame = NOMEM
  BY DEF Reserve
<1>4. QED
  BY <1>1, <1>2, <1>3

\* Fewer free frames have fewer runs.
LEMMA FewerRuns ==
    ASSUME NEW s, NEW x, NEW size, x.free \subseteq s.free
    PROVE  FreeRuns(x, size) \subseteq FreeRuns(s, size)
BY DEF FreeRuns

-----------------------------------------------------------------------------
(* The operations of mmu.cpp *)

Good(s, T, R) == s \in State /\ Sound(s.mem, s.free, T, R)

\* The tables in T and those below them.
TableOf(mem, T, c) ==
    \/ c \in T
    \/ \E u \in T : \E i \in Index : mem[u][i].kind # "absent" /\ mem[u][i].frame = c

\* What faults may do: fewer frames are free, none when the kernel panics, and no
\* page is mapped differently.
Grown(s, s1, T, R) ==
    /\ Good(s1, T, R) /\ SameViews(s.mem, s1.mem, T)
    /\ s1.free \subseteq s.free
    /\ s1.halted => s1.free = {}

\* In mem1 entry k of c has a table, an empty one.
HasTable(mem, mem1, c, k) ==
    /\ mem1[c][k].kind # "absent"
    /\ \A f \in Frame : \A i \in Index : f # c \/ i # k => mem1[f][i] = mem[f][i]
    /\ \A j \in Index : mem1[mem1[c][k].frame][j].kind = "absent"

\* One table is added, or there is no frame left and the kernel panics.
LEMMA AddTableGood ==
    ASSUME NEW s, NEW T \in SUBSET Frame, NEW R, Good(s, T, R), ~s.halted,
           NEW c \in Frame, NEW k \in Index, s.mem[c][k].kind = "absent", TableOf(s.mem, T, c),
           NEW s1, s1 = AddTable(s, c, k)
    PROVE  Grown(s, s1, T, R) /\ (s1.halted \/ HasTable(s.mem, s1.mem, c, k))
<1>1. /\ s \in State /\ s.mem \in Memory /\ s.free \in SUBSET (1 .. NumFrames)
      /\ Sound(s.mem, s.free, T, R)
  BY DEF Good, State
<1>2. CASE Reserve(s, PageSize).frame = NOMEM
  <2>1. s1 = [s EXCEPT !.halted = TRUE]
    BY <1>2 DEF AddTable
  <2>2. s.free = {}
    <3>1. \A r \in s.free : r # NOMEM
      BY <1>1, NomemNoFrame
    <3>2. QED
      BY <1>1, <1>2, <3>1, ReservePage
  <2>3. s1 \in State /\ s1.mem = s.mem /\ s1.free = s.free /\ s1.halted = TRUE
    BY <2>1, <1>1 DEF State
  <2>4. QED
    BY <2>2, <2>3, <1>1 DEF Good, SameViews, Grown
<1>3. CASE Reserve(s, PageSize).frame # NOMEM
  <2>1. PICK r \in s.free : /\ Reserve(s, PageSize).frame = r
                            /\ Reserve(s, PageSize).st = [s EXCEPT !.free = @ \ {r}]
    BY <1>1, <1>3, ReservePage
  <2>2. s1 = [[s EXCEPT !.free = @ \ {r}] EXCEPT !.mem[c][k] = Table(r)]
    BY <2>1, <1>3 DEF AddTable
  <2>3. r \in Frame /\ r > 0 /\ Table(r) \in Entry /\ Table(r).kind = "table" /\ Table(r).frame = r
    BY <1>1, NomemNoFrame DEF Table, Descriptor, Entry
  <2> DEFINE mem1 == [s.mem EXCEPT ![c][k] = Table(r)]
  <2>4. mem1 \in Memory /\ Written(s.mem, c, k, Table(r), mem1)
    BY <2>3, <1>1, WriteWrites
  <2>5. s1.mem = mem1 /\ s1.free = s.free \ {r} /\ s1.halted = s.halted /\ s1 \in State
    BY <2>2, <2>4, <1>1 DEF State
  <2> HIDE DEF mem1
  <2>6. Sound(mem1, s.free \ {r}, T, R) /\ SameViews(s.mem, mem1, T)
    <3>1. \/ c \in T
          \/ \E u \in T : \E i \in Index : s.mem[u][i].kind # "absent" /\ s.mem[u][i].frame = c
      BY DEF TableOf
    <3>2. Sound(mem1, s.free \ {r}, T, R)
      BY <3>1, <2>4, <1>1, TableAdded
    <3>3. SameViews(s.mem, mem1, T)
      BY <3>1, <2>4, <1>1, TableAdded
    <3>4. QED
      BY <3>2, <3>3
  <2>7. mem1[c][k] = Table(r) /\ \A f \in Frame : \A i \in Index : f # c \/ i # k => mem1[f][i] = s.mem[f][i]
    BY <2>4 DEF Written
  <2>8. \A j \in Index : mem1[r][j].kind = "absent"
    <3>1. \A j \in Index : s.mem[r][j] = Absent
      BY <1>1 DEF Sound
    <3>2. r # c
      <4>1. CASE c \in T
        BY <4>1, <1>1 DEF Sound
      <4>2. ASSUME NEW u \in T, NEW i \in Index, s.mem[u][i].frame = c PROVE r # c
        BY <4>2, <2>3, <1>1 DEF Sound, Unused
      <4>3. QED
        BY <4>1, <4>2 DEF TableOf
    <3>3. QED
      BY <3>1, <3>2, <2>3, <2>7 DEF Absent, Descriptor
  <2>9. QED
    BY <2>3, <2>5, <2>6, <2>7, <2>8 DEF Good, Grown, HasTable
<1>4. QED
  BY <1>2, <1>3

\* A fault is handled by adding what is missing: afterwards the tables are there.
LEMMA FillGood ==
    ASSUME NEW s, NEW T \in SUBSET Frame, NEW R, Good(s, T, R), ~s.halted,
           NEW t \in T, NEW p \in Page, NEW s1, s1 = FillTranslationTable(s, t, p)
    PROVE  Grown(s, s1, T, R) /\ (s1.halted \/ Present(s1.mem, t, p))
<1>1. /\ s.mem \in Memory /\ t \in Frame /\ I0(p) \in Index /\ I1(p) \in Index
      /\ Sound(s.mem, s.free, T, R)
  BY IndexRange DEF Good, State
<1> DEFINE level2 == s.mem[t][I0(p)].kind = "absent"
           a == IF level2 THEN AddTable(s, t, I0(p)) ELSE s
           m == a.mem[t][I0(p)].frame
           b == IF a.halted THEN a
                ELSE IF level2 \/ a.mem[m][I1(p)].kind = "absent" THEN AddTable(a, m, I1(p)) ELSE a
<1>2. s1 = b
  BY DEF FillTranslationTable
<1>3. Grown(s, a, T, R) /\ (a.halted \/ ~level2 \/ HasTable(s.mem, a.mem, t, I0(p)))
  <2>1. CASE level2
    <3>1. a = AddTable(s, t, I0(p))
      BY <2>1
    <3>2. TableOf(s.mem, T, t)
      BY DEF TableOf
    <3> HIDE DEF a
    <3>3. QED
      BY <3>1, <3>2, <2>1, <1>1, AddTableGood
  <2>2. CASE ~level2
    BY <2>2 DEF SameViews, Grown
  <2>3. QED
    BY <2>1, <2>2
<1>4. ASSUME ~a.halted
      PROVE  /\ a.mem[t][I0(p)].kind # "absent"
             /\ level2 => \A j \in Index : a.mem[m][j].kind = "absent"
  <2>1. CASE level2
    BY <2>1, <1>3, <1>4 DEF HasTable
  <2>2. CASE ~level2
    BY <2>2
  <2>3. QED
    BY <2>1, <2>2
<1> HIDE DEF a
<1>5. CASE a.halted
  BY <1>2, <1>3, <1>5
<1>6. CASE ~a.halted
  <2>1. a.mem \in Memory /\ Sound(a.mem, a.free, T, R) /\ Good(a, T, R)
    BY <1>3 DEF Good, State, Grown
  <2>2. m = Middle(a.mem, t, p) /\ m \in Frame
    BY <2>1, <1>1, WalkTypes DEF Middle
  <2>3. TableOf(a.mem, T, m)
    BY <1>1, <1>4, <1>6 DEF TableOf
  <2>4. m # t
    BY <2>1, <2>2, <1>4, <1>6, Levels
  <2>5. CASE level2 \/ a.mem[m][I1(p)].kind = "absent"
    <3>1. b = AddTable(a, m, I1(p))
      BY <1>6, <2>5
    <3>2. a.mem[m][I1(p)].kind = "absent"
      BY <2>5, <1>1, <1>4, <1>6
    <3> HIDE DEF b, m
    <3>3. Grown(a, b, T, R) /\ (b.halted \/ HasTable(a.mem, b.mem, m, I1(p)))
      BY <3>1, <3>2, <2>1, <2>2, <2>3, <1>1, <1>6, AddTableGood
    <3>4. b.halted \/ Present(b.mem, t, p)
      <4>1. ASSUME HasTable(a.mem, b.mem, m, I1(p)) PROVE Present(b.mem, t, p)
        <5>1. b.mem[t][I0(p)] = a.mem[t][I0(p)]
          BY <4>1, <2>4, <1>1 DEF HasTable
        <5>2. b.mem[m][I1(p)].kind # "absent"
          BY <4>1 DEF HasTable
        <5>3. QED
          BY <5>1, <5>2, <2>2, <1>4, <1>6 DEF Present, Middle
      <4>2. QED
        BY <4>1, <3>3
    <3>5. Grown(s, b, T, R)
      BY <3>3, <1>3 DEF Grown, SameViews
    <3>6. QED
      BY <3>4, <3>5, <1>2
  <2>6. CASE ~(level2 \/ a.mem[m][I1(p)].kind = "absent")
    <3>1. b = a
      BY <1>6, <2>6
    <3>2. Present(a.mem, t, p)
      BY <2>2, <2>6, <1>4, <1>6 DEF Present
    <3>3. QED
      BY <3>1, <3>2, <1>2, <1>3
  <2>7. QED
    BY <2>5, <2>6
<1>7. QED
  BY <1>5, <1>6

\* There is no fault when the tables are there.
LEMMA FillPresent ==
    ASSUME NEW s, NEW t, NEW p, Present(s.mem, t, p)
    PROVE  FillTranslationTable(s, t, p) = s
BY DEF FillTranslationTable, Present, Middle

\* Frames that are reserved may as well be forgotten.
LEMMA GoodLess ==
    ASSUME NEW s, NEW T, NEW R, NEW Q, Good(s, T, R), Q \subseteq R
    PROVE  Good(s, T, Q)
BY DEF Good, Sound, Unused

\* What writing one entry does: page p of space t is mapped to f, unless the
\* kernel panicked for lack of a table, and no other page changes.
Wrote(s, s1, T, R, t, p, f) ==
    /\ Good(s1, T, R \ {f})
    /\ s1.free \subseteq s.free
    /\ s1.halted => s1.free = {}
    /\ \A u \in T : \A q \in Page : u # t \/ q # p => Walk(s1.mem, u, q) = Walk(s.mem, u, q)
    /\ Walk(s1.mem, t, p) = IF s1.halted THEN Walk(s.mem, t, p) ELSE f

\* It is done by setPageEntry and clearEntry.
LEMMA WriteEntryWrites ==
    ASSUME NEW s, NEW T \in SUBSET Frame, NEW R \in SUBSET Frame, Good(s, T, R), ~s.halted,
           NEW t \in T, NEW p \in Page,
           NEW e \in Entry, MayMap(e.frame, R), e.kind = "absent" => e.frame = 0,
           NEW s1, s1 = WriteEntry(s, t, p, e)
    PROVE  Wrote(s, s1, T, R, t, p, e.frame)
<1> DEFINE a == FillTranslationTable(s, t, p)
<1>1. s1 = IF a.halted THEN a ELSE [a EXCEPT !.mem[Leaf(a, t, p)][I2(p)] = e]
  BY DEF WriteEntry
<1>2. Grown(s, a, T, R) /\ (a.halted \/ Present(a.mem, t, p))
  BY FillGood
<1> HIDE DEF a
<1>3. CASE a.halted
  <2>1. s1 = a
    BY <1>1, <1>3
  <2>2. Good(a, T, R \ {e.frame})
    BY <1>2, GoodLess DEF Grown
  <2>3. \A u \in T : \A q \in Page : Walk(a.mem, u, q) = Walk(s.mem, u, q)
    BY <1>2 DEF Grown, SameViews
  <2>4. QED
    BY <2>1, <2>2, <2>3, <1>2, <1>3 DEF Grown, Wrote
<1>4. CASE ~a.halted
  <2> DEFINE L == LeafOf(a.mem, t, p)
             mem1 == [a.mem EXCEPT ![L][I2(p)] = e]
  <2>1. /\ a \in State /\ a.mem \in Memory /\ a.free \in SUBSET (1 .. NumFrames)
        /\ Sound(a.mem, a.free, T, R)
    BY <1>2 DEF Grown, Good, State
  <2>2. Leaf(a, t, p) = L /\ L \in Frame /\ I2(p) \in Index
    BY <2>1, WalkTypes DEF Leaf, LeafOf, Middle
  <2>3. mem1 \in Memory /\ Written(a.mem, L, I2(p), e, mem1)
    BY <2>1, <2>2, WriteWrites
  <2>4. s1 = [a EXCEPT !.mem[L][I2(p)] = e]
    BY <1>1, <1>4, <2>2
  <2>5. s1 \in State /\ s1.mem = mem1 /\ s1.free = a.free /\ s1.halted = a.halted
    BY <2>1, <2>3, <2>4 DEF State
  <2> HIDE DEF mem1
  <2>6. Present(a.mem, t, p)
    BY <1>2, <1>4
  <2>7. Sound(mem1, a.free, T, R \ {e.frame})
    BY <2>1, <2>3, <2>6, EntryWritten
  <2>8. OneChange(a.mem, mem1, T, t, p, e.frame)
    BY <2>1, <2>3, <2>6, EntryWritten
  <2>9. /\ Walk(mem1, t, p) = e.frame
        /\ \A u \in T : \A q \in Page : u # t \/ q # p => Walk(mem1, u, q) = Walk(a.mem, u, q)
    BY <2>8 DEF OneChange
  <2>10. \A u \in T : \A q \in Page : Walk(a.mem, u, q) = Walk(s.mem, u, q)
    BY <1>2 DEF Grown, SameViews
  <2>11. Good(s1, T, R \ {e.frame})
    BY <2>5, <2>7 DEF Good
  <2>12. s1.free \subseteq s.free
    BY <2>5, <1>2 DEF Grown
  <2>13. QED
    BY <2>5, <2>9, <2>10, <2>11, <2>12, <1>4 DEF Wrote
<1>5. QED
  BY <1>3, <1>4

\* A kernel that has panicked does nothing more.
LEMMA WriteEntryHalted ==
    ASSUME NEW s \in State, s.halted, NEW t, NEW p, NEW e
    PROVE  WriteEntry(s, t, p, e) = s
<1>1. [s EXCEPT !.halted = TRUE] = s
  BY DEF State
<1>2. \A c, k : AddTable(s, c, k) = s
  BY <1>1 DEF AddTable
<1>3. FillTranslationTable(s, t, p) = s
  BY <1>2 DEF FillTranslationTable
<1>4. QED
  BY <1>3 DEF WriteEntry

\* setPageEntry and clearEntry write such an entry.
LEMMA EntryForms ==
    /\ \A f \in Frame : /\ PageDesc(f) \in Entry /\ PageDesc(f).frame = f
                        /\ PageDesc(f).kind # "absent"
    /\ Absent \in Entry /\ Absent.frame = 0 /\ Absent.kind = "absent"
BY FrameRange DEF PageDesc, Absent, Descriptor, Entry

-----------------------------------------------------------------------------
(* Loops of writes *)

\* The state x after i of the writes ent of a loop that starts in s at page p of
\* space t.
Progress(s, x, T, R, t, p, ent, i) ==
    /\ Good(x, T, R \ {ent[j].frame : j \in 1 .. i})
    /\ x.free \subseteq s.free
    /\ x.halted => x.free = {}
    /\ \A u \in T : \A q \in Page :
          u # t \/ q \notin p .. p + i - 1 => Walk(x.mem, u, q) = Walk(s.mem, u, q)
    /\ \A j \in 1 .. i : Walk(x.mem, t, p + j - 1) = ent[j].frame
                         \/ (x.halted /\ Walk(x.mem, t, p + j - 1) = Walk(s.mem, t, p + j - 1))

\* Entries that a loop may write: absent ones, frames of the kernel, and reserved
\* frames, each once.
Writable(ent, N, R) ==
    \A i \in 1 .. N :
       /\ ent[i] \in Entry
       /\ MayMap(ent[i].frame, R)
       /\ ent[i].kind = "absent" => ent[i].frame = 0
       /\ \A j \in 1 .. N : ent[i].frame = ent[j].frame /\ ent[i].frame > 0 => i = j

\* One more write.
LEMMA ProgressStep ==
    ASSUME NEW s, NEW T \in SUBSET Frame, NEW R \in SUBSET Frame, NEW t \in T,
           NEW p \in Nat, NEW N \in Nat, p + N <= W * W * W,
           NEW ent, Writable(ent, N, R),
           NEW i \in 1 .. N, NEW x, Progress(s, x, T, R, t, p, ent, i - 1),
           NEW y, y = WriteEntry(x, t, p + i - 1, ent[i])
    PROVE  Progress(s, y, T, R, t, p, ent, i)
<1> DEFINE q0 == p + i - 1
           Ri == R \ {ent[j].frame : j \in 1 .. i - 1}
           Rn == R \ {ent[j].frame : j \in 1 .. i}
<1>1. /\ i \in Nat /\ i - 1 \in Nat /\ q0 \in Nat
      /\ p .. p + i - 1 = (p .. p + (i - 1) - 1) \cup {q0}
      /\ 1 .. i = (1 .. i - 1) \cup {i}
  OBVIOUS
<1>2. q0 \in Page
  BY <1>1, SizesAssumption DEF Page
<1>3. Rn = Ri \ {ent[i].frame} /\ Ri \in SUBSET Frame
  BY <1>1
<1>4. /\ Good(x, T, Ri) /\ x \in State /\ x.free \subseteq s.free /\ (x.halted => x.free = {})
      /\ \A u \in T : \A q \in Page :
            u # t \/ q \notin p .. p + (i - 1) - 1 => Walk(x.mem, u, q) = Walk(s.mem, u, q)
      /\ \A j \in 1 .. i - 1 : Walk(x.mem, t, p + j - 1) = ent[j].frame
                         \/ (x.halted /\ Walk(x.mem, t, p + j - 1) = Walk(s.mem, t, p + j - 1))
  BY DEF Progress, Good
<1>5. /\ ent[i] \in Entry /\ (ent[i].kind = "absent" => ent[i].frame = 0)
      /\ MayMap(ent[i].frame, Ri)
  <2>1. \A j \in 1 .. i - 1 : j \in 1 .. N /\ j # i
    OBVIOUS
  <2>2. /\ ent[i] \in Entry /\ (ent[i].kind = "absent" => ent[i].frame = 0)
        /\ MayMap(ent[i].frame, R)
        /\ \A j \in 1 .. N : ent[i].frame = ent[j].frame /\ ent[i].frame > 0 => i = j
    BY DEF Writable
  <2>3. ent[i].frame \in Int
    BY <2>2, FrameRange DEF Entry
  <2>4. ent[i].frame > 0 => ent[i].frame \in Ri
    BY <2>1, <2>2, <2>3 DEF MayMap
  <2>5. QED
    BY <2>2, <2>3, <2>4 DEF MayMap
<1>6. \A j \in 1 .. i - 1 : p + j - 1 \in Page /\ p + j - 1 # q0
  BY SizesAssumption DEF Page
<1>7. CASE x.halted
  <2>1. y = x
    BY <1>4, <1>7, WriteEntryHalted
  <2>2. Good(x, T, Rn)
    BY <1>3, <1>4, GoodLess
  <2>3. Walk(x.mem, t, q0) = Walk(s.mem, t, q0)
    <3>1. q0 \notin p .. p + (i - 1) - 1
      OBVIOUS
    <3>2. QED
      BY <3>1, <1>2, <1>4
  <2>4. \A j \in 1 .. i : Walk(x.mem, t, p + j - 1) = ent[j].frame
                         \/ (x.halted /\ Walk(x.mem, t, p + j - 1) = Walk(s.mem, t, p + j - 1))
    BY <2>3, <1>1, <1>4, <1>7
  <2>5. \A u \in T : \A q \in Page :
           u # t \/ q \notin p .. p + i - 1 => Walk(x.mem, u, q) = Walk(s.mem, u, q)
    BY <1>1, <1>4
  <2>6. QED
    BY <2>1, <2>2, <2>4, <2>5, <1>4 DEF Progress
<1>8. CASE ~x.halted
  <2> HIDE DEF q0, Ri, Rn
  <2>1. Wrote(x, y, T, Ri, t, q0, ent[i].frame)
    <3>1. y = WriteEntry(x, t, q0, ent[i])
      BY DEF q0
    <3>2. QED
      BY <3>1, <1>2, <1>3, <1>4, <1>5, <1>8, WriteEntryWrites
  <2>2. /\ Good(y, T, Rn) /\ y.free \subseteq s.free /\ (y.halted => y.free = {})
        /\ \A u \in T : \A q \in Page : u # t \/ q # q0 => Walk(y.mem, u, q) = Walk(x.mem, u, q)
        /\ Walk(y.mem, t, q0) = IF y.halted THEN Walk(x.mem, t, q0) ELSE ent[i].frame
    BY <2>1, <1>3, <1>4 DEF Wrote
  <2>3. \A u \in T : \A q \in Page :
           u # t \/ q \notin p .. p + i - 1 => Walk(y.mem, u, q) = Walk(s.mem, u, q)
    BY <2>2, <1>1, <1>4
  <2>4. \A j \in 1 .. i - 1 : Walk(y.mem, t, p + j - 1) = ent[j].frame
    BY <2>2, <1>4, <1>6, <1>8
  <2>5. Walk(y.mem, t, q0) = ent[i].frame \/ (y.halted /\ Walk(y.mem, t, q0) = Walk(s.mem, t, q0))
    <3>1. q0 \notin p .. p + (i - 1) - 1
      BY DEF q0
    <3>2. Walk(x.mem, t, q0) = Walk(s.mem, t, q0)
      BY <3>1, <1>2, <1>4
    <3>3. QED
      BY <3>2, <2>2
  <2>6. \A j \in 1 .. i : Walk(y.mem, t, p + j - 1) = ent[j].frame
                         \/ (y.halted /\ Walk(y.mem, t, p + j - 1) = Walk(s.mem, t, p + j - 1))
    BY <2>4, <2>5, <1>1 DEF q0
  <2>7. QED
    BY <2>2, <2>3, <2>6 DEF Progress, Rn
<1>9. QED
  BY <1>7, <1>8

\* g[n] is the state after n writes.
IsWriteLoop(g, s, t, p, N, ent) ==
    g = [n \in 0 .. N |-> IF n = 0 THEN s ELSE WriteEntry(g[n - 1], t, p + n - 1, ent[n])]

\* A loop that writes entries runs to its end.
LEMMA WriteLoopExists ==
    ASSUME NEW s, NEW T \in SUBSET Frame, NEW R \in SUBSET Frame, Good(s, T, R), ~s.halted,
           NEW t \in T, NEW p \in Nat, NEW N \in Nat, p + N <= W * W * W,
           NEW ent, Writable(ent, N, R)
    PROVE  \E g : IsWriteLoop(g, s, t, p, N, ent)
<1> DEFINE G(i) == {x \in State : Progress(s, x, T, R, t, p, ent, i)}
           step == [i \in 1 .. N |-> [x \in G(i - 1) |-> WriteEntry(x, t, p + i - 1, ent[i])]]
<1>1. PICK g : g = [i \in 0 .. N |-> IF i = 0 THEN s ELSE step[i][g[i - 1]]]
  <2> HIDE DEF step
  <2>1. \E g : IsLoop(g, N, s, step)
    BY LoopExists
  <2>2. QED
    BY <2>1 DEF IsLoop
<1>2. s \in G(0)
  <2>1. 1 .. 0 = {} /\ p .. p + 0 - 1 = {}
    OBVIOUS
  <2>2. R \ {ent[j].frame : j \in 1 .. 0} = R
    BY <2>1
  <2>3. QED
    BY <2>1, <2>2 DEF Progress, Good
<1>3. \A i \in 1 .. N : \A x \in G(i - 1) : WriteEntry(x, t, p + i - 1, ent[i]) \in G(i)
  <2>1. SUFFICES ASSUME NEW i \in 1 .. N, NEW x \in G(i - 1)
                 PROVE  WriteEntry(x, t, p + i - 1, ent[i]) \in G(i)
    OBVIOUS
  <2>2. Progress(s, WriteEntry(x, t, p + i - 1, ent[i]), T, R, t, p, ent, i)
    BY <2>1, ProgressStep
  <2>3. QED
    BY <2>2 DEF Progress, Good
<1> HIDE DEF G
<1>4. \A i \in 1 .. N : \A x \in G(i - 1) : step[i][x] = WriteEntry(x, t, p + i - 1, ent[i])
  OBVIOUS
<1> HIDE DEF step
<1> DEFINE S == {i \in 0 .. N : g[i] \in G(i)}
<1>5. 0 \in S
  BY <1>1, <1>2
<1>6. ASSUME NEW i \in 1 .. N, i - 1 \in S
      PROVE  i \in S
  <2>1. g[i - 1] \in G(i - 1) /\ i # 0 /\ i \in 0 .. N
    BY <1>6
  <2>2. g[i] = step[i][g[i - 1]]
    BY <1>1, <2>1
  <2>3. QED
    BY <2>1, <2>2, <1>3, <1>4
<1>7. \A i \in 0 .. N : i \in S
  <2> HIDE DEF S
  <2>1. QED
    BY <1>5, <1>6, UpTo
<1> DEFINE h == [n \in 0 .. N |-> IF n = 0 THEN s ELSE WriteEntry(g[n - 1], t, p + n - 1, ent[n])]
<1>8. ASSUME NEW n \in 0 .. N
      PROVE  g[n] = h[n]
  <2>1. CASE n = 0
    BY <2>1, <1>1
  <2>2. CASE n # 0
    <3>1. n \in 1 .. N /\ n - 1 \in 0 .. N
      BY <2>2
    <3>2. g[n - 1] \in G(n - 1)
      BY <3>1, <1>7
    <3>3. g[n] = step[n][g[n - 1]]
      BY <2>2, <1>1
    <3>4. QED
      BY <3>1, <3>2, <3>3, <2>2, <1>4
  <2>3. QED
    BY <2>1, <2>2
<1>9. g = h
  BY <1>1, <1>8
<1>10. QED
  BY <1>9 DEF IsWriteLoop

\* and has then written all of them.
LEMMA WriteLoopEnds ==
    ASSUME NEW s, NEW T \in SUBSET Frame, NEW R \in SUBSET Frame, Good(s, T, R), ~s.halted,
           NEW t \in T, NEW p \in Nat, NEW N \in Nat, p + N <= W * W * W,
           NEW ent, Writable(ent, N, R),
           NEW g, \A n \in 0 .. N :
              g[n] = IF n = 0 THEN s ELSE WriteEntry(g[n - 1], t, p + n - 1, ent[n])
    PROVE  Progress(s, g[N], T, R, t, p, ent, N)
<1> DEFINE S == {i \in 0 .. N : Progress(s, g[i], T, R, t, p, ent, i)}
<1>1. 0 \in S
  <2>1. 1 .. 0 = {} /\ p .. p + 0 - 1 = {}
    OBVIOUS
  <2>2. R \ {ent[j].frame : j \in 1 .. 0} = R
    BY <2>1
  <2>3. Progress(s, s, T, R, t, p, ent, 0)
    BY <2>1, <2>2 DEF Progress
  <2>4. g[0] = s
    OBVIOUS
  <2>5. QED
    BY <2>3, <2>4
<1>2. ASSUME NEW i \in 1 .. N, i - 1 \in S
      PROVE  i \in S
  <2>1. Progress(s, g[i - 1], T, R, t, p, ent, i - 1)
    BY <1>2
  <2>2. g[i] = WriteEntry(g[i - 1], t, p + i - 1, ent[i])
    OBVIOUS
  <2>3. Progress(s, g[i], T, R, t, p, ent, i)
    BY <2>1, <2>2, ProgressStep
  <2>4. QED
    BY <2>3
<1>3. \A i \in 0 .. N : i \in S
  <2> HIDE DEF S
  <2>1. QED
    BY <1>1, <1>2, UpTo
<1>4. QED
  BY <1>3

-----------------------------------------------------------------------------
(* map_region and unmap_region *)

\* The number of pages is a natural number.
LEMMA PagesForNat == ASSUME NEW size \in Nat PROVE PagesFor(size) \in Nat
<1>1. PageSize \in Nat \ {0} /\ size + PageSize - 1 \in Nat
  BY SizesAssumption
<1>2. QED
  BY <1>1, DivNat DEF PagesFor

\* x is s with N pages from p of space t mapped to the frames from f.
Maps(s, x, T, t, p, N, f) ==
    /\ Good(x, T, {})
    /\ x.free \subseteq s.free
    /\ \A u \in T : \A q \in Page :
          u # t \/ q \notin p .. p + N - 1 => Walk(x.mem, u, q) = Walk(s.mem, u, q)
    /\ \A q \in p .. p + N - 1 :
          \/ Walk(x.mem, t, q) = f + (q - p)
          \/ x.halted /\ Walk(x.mem, t, q) = Walk(s.mem, t, q)

\* map_region does that with a run of reserved frames, or of the kernel's.
LEMMA MapRegionMaps ==
    ASSUME NEW s, NEW T \in SUBSET Frame, NEW R \in SUBSET Frame, Good(s, T, R), ~s.halted,
           NEW t \in T, NEW p \in Nat, NEW size \in Nat,
           p + PagesFor(size) <= W * W * W,
           NEW f \in Int,
           \A g \in f .. f + PagesFor(size) - 1 : g \in Frame /\ (g <= 0 \/ g \in R)
    PROVE  Maps(s, MapRegion(s, t, p, size, f), T, t, p, PagesFor(size), f)
<1> DEFINE N == PagesFor(size)
           P(g) == g = [n \in 0 .. N |-> IF n = 0 THEN s
                                         ELSE SetPageEntry(g[n - 1], t, p + n - 1, f + n - 1)]
           C == CHOOSE g : P(g)
           ent == [n \in 1 .. N |-> PageDesc(f + n - 1)]
<1>1. MapRegion(s, t, p, size, f) = C[N]
  BY DEF MapRegion
<1>2. N \in Nat
  BY PagesForNat
<1> HIDE DEF N
<1>3. \A n \in 1 .. N : /\ f + n - 1 <= 0 \/ f + n - 1 \in R
                        /\ f + n - 1 \in Frame
                        /\ ent[n] = PageDesc(f + n - 1)
  <2>1. \A n \in 1 .. N : f + n - 1 \in f .. f + N - 1
    BY <1>2
  <2>2. QED
    BY <2>1 DEF N
<1>4. \A n \in 1 .. N : /\ ent[n] \in Entry /\ ent[n].frame = f + n - 1 /\ ent[n].kind # "absent"
  BY <1>3, EntryForms
<1>5. Writable(ent, N, R)
  <2> HIDE DEF ent
  <2>1. \A i, j \in 1 .. N : f + i - 1 = f + j - 1 => i = j
    OBVIOUS
  <2>2. QED
    BY <2>1, <1>3, <1>4 DEF Writable, MayMap
<1>6. \A g : \A n \in 1 .. N :
         WriteEntry(g[n - 1], t, p + n - 1, ent[n]) = SetPageEntry(g[n - 1], t, p + n - 1, f + n - 1)
  BY <1>3 DEF SetPageEntry
<1> HIDE DEF ent
<1>7. p + N <= W * W * W
  BY DEF N
<1>8. PICK h : h = [n \in 0 .. N |-> IF n = 0 THEN s ELSE WriteEntry(h[n - 1], t, p + n - 1, ent[n])]
  <2>1. \E h : IsWriteLoop(h, s, t, p, N, ent)
    BY <1>2, <1>5, <1>7, WriteLoopExists
  <2>2. QED
    BY <2>1 DEF IsWriteLoop
<1>9. P(h)
  <2> DEFINE h2 == [n \in 0 .. N |-> IF n = 0 THEN s
                                     ELSE SetPageEntry(h[n - 1], t, p + n - 1, f + n - 1)]
  <2>1. ASSUME NEW n \in 0 .. N PROVE h[n] = h2[n]
    <3>1. CASE n = 0
      BY <3>1, <1>8
    <3>2. CASE n # 0
      <4>1. n \in 1 .. N
        BY <3>2
      <4>2. h[n] = WriteEntry(h[n - 1], t, p + n - 1, ent[n])
        BY <3>2, <1>8
      <4>3. QED
        BY <4>1, <4>2, <3>2, <1>6
    <3>3. QED
      BY <3>1, <3>2
  <2>2. h = h2
    BY <2>1, <1>8
  <2>3. QED
    BY <2>2
<1>10. P(C)
  <2> HIDE DEF P
  <2>1. QED
    BY <1>9
<1> HIDE DEF C
<1>11. \A n \in 0 .. N : C[n] = IF n = 0 THEN s ELSE WriteEntry(C[n - 1], t, p + n - 1, ent[n])
  <2>1. ASSUME NEW n \in 0 .. N, n # 0
        PROVE  C[n] = WriteEntry(C[n - 1], t, p + n - 1, ent[n])
    <3>1. C[n] = SetPageEntry(C[n - 1], t, p + n - 1, f + n - 1)
      BY <1>10, <2>1
    <3>2. n \in 1 .. N
      BY <2>1
    <3>3. QED
      BY <3>1, <3>2, <1>6
  <2>2. C[0] = s
    BY <1>10, <1>2
  <2>3. QED
    BY <2>1, <2>2
<1>12. Progress(s, C[N], T, R, t, p, ent, N)
  BY <1>2, <1>5, <1>7, <1>11, WriteLoopEnds
<1>13. Maps(s, C[N], T, t, p, N, f)
  <2> DEFINE x == C[N]
  <2> HIDE DEF x
  <2>1. Progress(s, x, T, R, t, p, ent, N)
    BY <1>12 DEF x
  <2>2. Good(x, T, {})
    BY <2>1, GoodLess DEF Progress
  <2>3. ASSUME NEW q \in p .. p + N - 1
        PROVE  \/ Walk(x.mem, t, q) = f + (q - p)
               \/ x.halted /\ Walk(x.mem, t, q) = Walk(s.mem, t, q)
    <3> DEFINE j == q - p + 1
    <3>1. j \in 1 .. N /\ p + j - 1 = q /\ f + j - 1 = f + (q - p)
      BY <1>2
    <3> HIDE DEF j
    <3>2. \/ Walk(x.mem, t, p + j - 1) = ent[j].frame
          \/ (x.halted /\ Walk(x.mem, t, p + j - 1) = Walk(s.mem, t, p + j - 1))
      BY <2>1, <3>1 DEF Progress
    <3>3. QED
      BY <3>1, <3>2, <1>4
  <2>4. Maps(s, x, T, t, p, N, f)
    BY <2>1, <2>2, <2>3 DEF Progress, Maps
  <2>5. QED
    BY <2>4 DEF x
<1>14. QED
  BY <1>1, <1>13 DEF N

\* x is s with N pages from p of space t unmapped.
Unmaps(s, x, T, t, p, N) ==
    /\ Good(x, T, {})
    /\ x.free \subseteq s.free
    /\ \A u \in T : \A q \in Page :
          u # t \/ q \notin p .. p + N - 1 => Walk(x.mem, u, q) = Walk(s.mem, u, q)
    /\ \A q \in p .. p + N - 1 : Walk(x.mem, t, q) \in {0, Walk(s.mem, t, q)}

\* unmap_region does that.
LEMMA UnmapRegionUnmaps ==
    ASSUME NEW s, NEW T \in SUBSET Frame, Good(s, T, {}), ~s.halted,
           NEW t \in T, NEW p \in Nat, NEW size \in Nat,
           p + PagesFor(size) <= W * W * W
    PROVE  Unmaps(s, UnmapRegion(s, t, p, size), T, t, p, PagesFor(size))
<1> DEFINE N == PagesFor(size)
           P(g) == g = [n \in 0 .. N |-> IF n = 0 THEN s ELSE ClearEntry(g[n - 1], t, p + n - 1)]
           C == CHOOSE g : P(g)
           ent == [n \in 1 .. N |-> Absent]
<1>1. UnmapRegion(s, t, p, size) = C[N]
  BY DEF UnmapRegion
<1>2. N \in Nat
  BY PagesForNat
<1> HIDE DEF N
<1>3. \A n \in 1 .. N : ent[n] = Absent /\ ent[n] \in Entry /\ ent[n].frame = 0
  BY EntryForms
<1>4. Writable(ent, N, {}) /\ {} \in SUBSET Frame
  <2> HIDE DEF ent
  <2>1. QED
    BY <1>3 DEF Writable, MayMap
<1>5. \A g : \A n \in 1 .. N :
         WriteEntry(g[n - 1], t, p + n - 1, ent[n]) = ClearEntry(g[n - 1], t, p + n - 1)
  BY <1>3 DEF ClearEntry
<1> HIDE DEF ent
<1>6. p + N <= W * W * W
  BY DEF N
<1>7. PICK h : h = [n \in 0 .. N |-> IF n = 0 THEN s ELSE WriteEntry(h[n - 1], t, p + n - 1, ent[n])]
  <2>1. \E h : IsWriteLoop(h, s, t, p, N, ent)
    BY <1>2, <1>4, <1>6, WriteLoopExists
  <2>2. QED
    BY <2>1 DEF IsWriteLoop
<1>8. P(h)
  <2> DEFINE h2 == [n \in 0 .. N |-> IF n = 0 THEN s ELSE ClearEntry(h[n - 1], t, p + n - 1)]
  <2>1. ASSUME NEW n \in 0 .. N PROVE h[n] = h2[n]
    <3>1. CASE n = 0
      BY <3>1, <1>7
    <3>2. CASE n # 0
      <4>1. n \in 1 .. N
        BY <3>2
      <4>2. h[n] = WriteEntry(h[n - 1], t, p + n - 1, ent[n])
        BY <3>2, <1>7
      <4>3. QED
        BY <4>1, <4>2, <3>2, <1>5
    <3>3. QED
      BY <3>1, <3>2
  <2>2. h = h2
    BY <2>1, <1>7
  <2>3. QED
    BY <2>2
<1>9. P(C)
  <2> HIDE DEF P
  <2>1. QED
    BY <1>8
<1> HIDE DEF C
<1>10. \A n \in 0 .. N : C[n] = IF n = 0 THEN s ELSE WriteEntry(C[n - 1], t, p + n - 1, ent[n])
  <2>1. ASSUME NEW n \in 0 .. N, n # 0
        PROVE  C[n] = WriteEntry(C[n - 1], t, p + n - 1, ent[n])
    <3>1. C[n] = ClearEntry(C[n - 1], t, p + n - 1)
      BY <1>9, <2>1
    <3>2. n \in 1 .. N
      BY <2>1
    <3>3. QED
      BY <3>1, <3>2, <1>5
  <2>2. C[0] = s
    BY <1>9, <1>2
  <2>3. QED
    BY <2>1, <2>2
<1>11. Progress(s, C[N], T, {}, t, p, ent, N)
  BY <1>2, <1>4, <1>6, <1>10, WriteLoopEnds
<1>12. Unmaps(s, C[N], T, t, p, N)
  <2> DEFINE x == C[N]
  <2> HIDE DEF x
  <2>1. Progress(s, x, T, {}, t, p, ent, N)
    BY <1>11 DEF x
  <2>2. Good(x, T, {})
    BY <2>1, GoodLess DEF Progress
  <2>3. ASSUME NEW q \in p .. p + N - 1
        PROVE  Walk(x.mem, t, q) \in {0, Walk(s.mem, t, q)}
    <3> DEFINE j == q - p + 1
    <3>1. j \in 1 .. N /\ p + j - 1 = q
      BY <1>2
    <3> HIDE DEF j
    <3>2. \/ Walk(x.mem, t, p + j - 1) = ent[j].frame
          \/ (x.halted /\ Walk(x.mem, t, p + j - 1) = Walk(s.mem, t, p + j - 1))
      BY <2>1, <3>1 DEF Progress
    <3>3. QED
      BY <3>1, <3>2, <1>3
  <2>4. Unmaps(s, x, T, t, p, N)
    BY <2>1, <2>2, <2>3 DEF Progress, Unmaps
  <2>5. QED
    BY <2>4 DEF x
<1>13. QED
  BY <1>1, <1>12 DEF N

-----------------------------------------------------------------------------
(* initializeTopTable *)

\* Memory mem1 is mem with f empty and entry k of c a page, on the frame it had.
TopWritten(mem, c, k, f, mem1) ==
    \A g \in Frame : \A i \in Index :
        mem1[g][i] = IF g = c /\ i = k THEN PageDesc(mem[c][k].frame)
                     ELSE IF g = f THEN Absent ELSE mem[g][i]

\* What it comes to in memory: frame f is empty and the frame of every other
\* entry, that of the scratch page too, is what it was.
LEMMA TopAdded ==
    ASSUME NEW mem \in Memory, NEW free \in SUBSET (1 .. NumFrames), NEW T \in SUBSET Frame,
           NEW R \in SUBSET Frame, Sound(mem, free, T, R),
           NEW t \in T, NEW p \in Page, Present(mem, t, p), NEW f \in R, f > 0,
           NEW mem1 \in Memory, TopWritten(mem, LeafOf(mem, t, p), I2(p), f, mem1)
    PROVE  /\ Sound(mem1, free, T \cup {f}, R \ {f})
           /\ SameViews(mem, mem1, T)
           /\ NoPages(mem1, f)
<1> DEFINE L == LeafOf(mem, t, p)
           k == I2(p)
           e == PageDesc(mem[L][k].frame)
<1>1. L \in Frame /\ k \in Index /\ L > 0 /\ L \notin T /\ mem[L][k].frame \in Frame
  <2>1. L \in Frame /\ k \in Index
    BY WalkTypes
  <2>2. mem[t][I0(p)].kind # "absent"
    BY DEF Present
  <2>3. L > 0 /\ L \notin T
    BY <2>2, Levels
  <2>4. QED
    BY <2>1, <2>3 DEF Memory, Entry
<1>2. e.kind # "absent" /\ e.frame = mem[L][k].frame /\ Absent.frame = 0 /\ Absent.kind = "absent"
  BY <1>1, EntryForms
<1>3. \A g \in Frame : \A i \in Index : mem[g][i].frame # f
  BY DEF Sound, Unused
<1>4. L # f /\ L \notin free
  <2>1. I1(p) \in Index /\ Middle(mem, t, p) \in Frame
    BY WalkTypes
  <2>2. L # f
    BY <2>1, <1>3 DEF LeafOf
  <2>3. L \notin free
    BY <1>1, <2>1 DEF Sound, Unused, LeafOf
  <2>4. QED
    BY <2>2, <2>3
<1>5. \A g \in Frame : \A i \in Index :
         mem1[g][i] = IF g = L /\ i = k THEN e ELSE IF g = f THEN Absent ELSE mem[g][i]
  BY DEF TopWritten
<1> HIDE DEF e, L, k
<1>6. \A g \in Frame : \A i \in Index :
         mem1[g][i].frame = IF g = f THEN 0 ELSE mem[g][i].frame
  BY <1>2, <1>4, <1>5
<1>7. OneUse(mem1)
  <2>1. OneUse(mem)
    BY DEF Sound
  <2>2. QED
    BY <2>1, <1>6 DEF OneUse
<1>8. /\ Unused(mem1, free) /\ Unused(mem1, R \ {f}) /\ Unused(mem1, T \cup {f})
  <2>1. Unused(mem, free) /\ Unused(mem, R) /\ Unused(mem, T)
    BY DEF Sound
  <2>2. QED
    BY <2>1, <1>3, <1>6 DEF Unused
<1>9. \A g \in Frame : \A i \in Index : mem1[g][i].kind = "absent" => mem1[g][i].frame = 0
  <2>1. \A g \in Frame : \A i \in Index : mem[g][i].kind = "absent" => mem[g][i].frame = 0
    BY DEF Sound
  <2>2. QED
    BY <2>1, <1>2, <1>5
<1>10. \A g \in free : \A i \in Index : mem1[g][i] = Absent
  <2>1. free \subseteq Frame /\ f \notin free
    BY FrameRange DEF Sound
  <2>2. \A g \in free : \A i \in Index : mem[g][i] = Absent
    BY DEF Sound
  <2>3. QED
    BY <2>1, <2>2, <1>4, <1>5
<1>11. f \in Frame /\ f \notin T
  BY DEF Sound
<1>12. \A g \in Frame : g # L /\ g # f => \A i \in Index : mem1[g][i] = mem[g][i]
  BY <1>5
<1>13. \A i \in Index : mem1[f][i] = Absent
  BY <1>4, <1>5, <1>11
<1>14. ASSUME NEW u \in T, NEW i \in Index
       PROVE  /\ mem1[u][i] = mem[u][i]
              /\ mem[u][i].kind # "absent" =>
                   /\ mem[u][i].frame \in Frame /\ mem[u][i].frame # L /\ mem[u][i].frame # f
                   /\ \A j \in Index : mem1[mem[u][i].frame][j] = mem[mem[u][i].frame][j]
  <2>1. u # L /\ u # f /\ u \in Frame /\ mem[u][i].frame \in Frame
    BY <1>1, <1>11 DEF Memory, Entry
  <2>2. mem[u][i].kind # "absent" => mem[u][i].frame # L
    BY Levels DEF Present, L
  <2>3. QED
    BY <2>1, <2>2, <1>3, <1>12
<1>15. Linked(mem1, T \cup {f})
  <2>1. SUFFICES ASSUME NEW u \in T \cup {f}, NEW i \in Index, mem1[u][i].kind # "absent"
                 PROVE  mem1[u][i].frame > 0 /\ Links(mem1, mem1[u][i].frame)
    BY DEF Linked, Links
  <2>2. u \in T
    BY <2>1, <1>2, <1>13
  <2>3. mem[u][i].frame > 0 /\ Links(mem, mem[u][i].frame)
    BY <2>1, <2>2, <1>14 DEF Sound, Linked, Links
  <2>4. QED
    BY <2>1, <2>2, <2>3, <1>14 DEF Links
<1>16. Sound(mem1, free, T \cup {f}, R \ {f})
  <2>1. free \cap (R \ {f}) = {} /\ free \cap (T \cup {f}) = {} /\ (R \ {f}) \cap (T \cup {f}) = {}
    BY DEF Sound
  <2>2. QED
    BY <2>1, <1>7, <1>8, <1>9, <1>10, <1>15 DEF Sound
<1>17. SameViews(mem, mem1, T)
  <2>1. SUFFICES ASSUME NEW u \in T, NEW q \in Page PROVE Walk(mem1, u, q) = Walk(mem, u, q)
    BY DEF SameViews
  <2>2. /\ Walk(mem, u, q) = IF Present(mem, u, q) THEN mem[LeafOf(mem, u, q)][I2(q)].frame ELSE 0
        /\ Walk(mem1, u, q) = IF Present(mem1, u, q) THEN mem1[LeafOf(mem1, u, q)][I2(q)].frame ELSE 0
    BY <1>16, WalkValue
  <2>3. /\ I0(q) \in Index /\ I1(q) \in Index /\ I2(q) \in Index
        /\ Middle(mem, u, q) \in Frame /\ LeafOf(mem, u, q) \in Frame
    BY WalkTypes
  <2>4. /\ mem1[u][I0(q)] = mem[u][I0(q)]
        /\ mem[u][I0(q)].kind # "absent" =>
              mem1[Middle(mem, u, q)][I1(q)] = mem[Middle(mem, u, q)][I1(q)]
    BY <2>3, <1>14 DEF Middle
  <2>5. /\ Middle(mem1, u, q) = Middle(mem, u, q)
        /\ Present(mem1, u, q) <=> Present(mem, u, q)
        /\ Present(mem, u, q) => LeafOf(mem1, u, q) = LeafOf(mem, u, q)
    BY <2>4 DEF Middle, Present, LeafOf
  <2>6. LeafOf(mem, u, q) # f
    BY <2>3, <1>3 DEF LeafOf
  <2>7. mem1[LeafOf(mem, u, q)][I2(q)].frame = mem[LeafOf(mem, u, q)][I2(q)].frame
    BY <2>3, <2>6, <1>6
  <2>8. QED
    BY <2>2, <2>5, <2>7
<1>18. ASSUME NEW q \in Page PROVE Walk(mem1, f, q) = 0
  <2>1. mem1[f][I0(q)].kind = "absent"
    BY IndexRange, <1>2, <1>13
  <2>2. QED
    BY <2>1 DEF Walk
<1>19. QED
  BY <1>16, <1>17, <1>18 DEF NoPages

\* What createAddressSpace leaves: frame f is the top table of a space without
\* pages, or the kernel has panicked.
NewSpace(s, s1, T, f) ==
    /\ s1 \in State /\ s1.free \subseteq s.free /\ SameViews(s.mem, s1.mem, T)
    /\ IF s1.halted THEN Good(s1, T, {})
       ELSE Good(s1, T \cup {f}, {}) /\ NoPages(s1.mem, f)

\* initializeTopTable leaves that.
LEMMA TopTableInitialized ==
    ASSUME NEW s, NEW T \in SUBSET Frame, KernelTop \in T, NEW R \in SUBSET Frame,
           Good(s, T, R), ~s.halted, NEW f \in R, f > 0
    PROVE  NewSpace(s, InitializeTopTable(s, f), T, f)
<1> DEFINE k0 == KernelTop
           sp == Scratch
           old == GetPageFrame(s, k0, sp)
           a == FillTranslationTable(s, k0, sp)
           b == SetPageEntry(s, k0, sp, f)
           c == [b EXCEPT !.mem[f] = Empty]
           s1 == InitializeTopTable(s, f)
<1>1. s1 = IF b.halted THEN b ELSE SetPageEntry(c, k0, sp, old)
  BY DEF InitializeTopTable
<1>2. sp \in Page /\ k0 \in T /\ k0 = 0 /\ f > 0 /\ f \in Frame
  <2>1. W * W * W >= 1
    BY SizesAssumption, SMT
  <2>2. W * W * W \in Nat
    BY SizesAssumption, SMT
  <2>3. QED
    BY <2>1, <2>2 DEF Page, Scratch, KernelTop, Good, Sound
<1> HIDE DEF k0, sp
<1>3. Grown(s, a, T, R) /\ (a.halted \/ Present(a.mem, k0, sp))
  BY <1>2, FillGood
<1>4. b = IF a.halted THEN a ELSE [a EXCEPT !.mem[Leaf(a, k0, sp)][I2(sp)] = PageDesc(f)]
  BY DEF SetPageEntry, WriteEntry
<1> HIDE DEF a
<1>5. CASE a.halted
  <2>1. b = a /\ s1 = a
    BY <1>1, <1>4, <1>5
  <2>2. Good(a, T, {})
    BY <1>3, GoodLess DEF Grown
  <2> HIDE DEF s1
  <2>3. NewSpace(s, s1, T, f)
    BY <2>1, <2>2, <1>3, <1>5 DEF NewSpace, Grown, Good
  <2>4. QED
    BY <2>3 DEF s1
<1>6. CASE ~a.halted
  <2> DEFINE L == LeafOf(a.mem, k0, sp)
             k == I2(sp)
  <2>1. /\ a \in State /\ a.mem \in Memory /\ a.free \in SUBSET (1 .. NumFrames)
        /\ Sound(a.mem, a.free, T, R) /\ Present(a.mem, k0, sp)
    BY <1>3, <1>6 DEF Grown, Good, State
  <2>2. /\ Leaf(a, k0, sp) = L /\ L \in Frame /\ k \in Index
        /\ I0(sp) \in Index /\ I1(sp) \in Index /\ Middle(a.mem, k0, sp) \in Frame
    BY <2>1, <1>2, WalkTypes DEF Leaf, LeafOf, Middle
  <2>3. \A g \in Frame : \A i \in Index : a.mem[g][i].frame # f
    BY <2>1, <1>2 DEF Sound, Unused
  <2>4. L # f /\ Middle(a.mem, k0, sp) # f /\ k0 # f
    BY <2>2, <2>3, <1>2 DEF LeafOf, Middle
  <2>5. k0 # L /\ Middle(a.mem, k0, sp) # L
    <3>1. a.mem[k0][I0(sp)].kind # "absent"
      BY <2>1 DEF Present
    <3>2. /\ L \notin T
          /\ \A u \in T : \A i \in Index : a.mem[u][i].kind # "absent" => a.mem[u][i].frame # L
      BY <3>1, <2>1, <1>2, Levels
    <3>3. QED
      BY <3>1, <3>2, <2>2, <1>2 DEF Middle
  <2>6. PageDesc(f) \in Entry
    BY <1>2, EntryForms
  <2> DEFINE bm == [a.mem EXCEPT ![L][k] = PageDesc(f)]
  <2>7. bm \in Memory /\ Written(a.mem, L, k, PageDesc(f), bm)
    BY <2>1, <2>2, <2>6, WriteWrites
  <2>8. b = [a EXCEPT !.mem[L][k] = PageDesc(f)]
    BY <1>4, <1>6, <2>2
  <2>9. b \in State /\ b.mem = bm /\ b.free = a.free /\ b.halted = a.halted
    BY <2>1, <2>7, <2>8 DEF State
  <2> HIDE DEF b, bm
  <2> DEFINE cm == [bm EXCEPT ![f] = Empty]
  <2>10. Empty \in [Index -> Entry] /\ \A i \in Index : Empty[i] = Absent
    BY EntryForms DEF Empty, Index
  <2>11. cm \in Memory /\ \A g \in Frame : cm[g] = IF g = f THEN Empty ELSE bm[g]
    BY <2>7, <2>10, <1>2 DEF Memory
  <2>12. c \in State /\ c.mem = cm /\ c.free = a.free /\ c.halted = a.halted
    BY <2>9, <2>11 DEF State
  <2> HIDE DEF c, cm
  <2>13. \A g \in Frame : \A i \in Index :
            cm[g][i] = IF g = f THEN Absent ELSE IF g = L /\ i = k THEN PageDesc(f) ELSE a.mem[g][i]
    BY <2>7, <2>10, <2>11 DEF Written
  <2>14. /\ cm[k0][I0(sp)] = a.mem[k0][I0(sp)]
         /\ cm[Middle(a.mem, k0, sp)][I1(sp)] = a.mem[Middle(a.mem, k0, sp)][I1(sp)]
    BY <2>2, <2>4, <2>5, <2>13, <1>2
  <2>15. Present(cm, k0, sp) /\ LeafOf(cm, k0, sp) = L
    BY <2>1, <2>14 DEF Present, Middle, LeafOf
  <2>16. FillTranslationTable(c, k0, sp) = c
    BY <2>12, <2>15, FillPresent
  <2>17. Leaf(c, k0, sp) = L
    BY <2>12, <2>15 DEF Leaf, LeafOf, Middle
  <2>18. old = a.mem[L][k].frame
    <3>1. old = Walk(s.mem, k0, sp)
      BY GetPageFrameWalks
    <3>2. Walk(s.mem, k0, sp) = Walk(a.mem, k0, sp)
      BY <1>2, <1>3 DEF Grown, SameViews
    <3>3. Walk(a.mem, k0, sp) = a.mem[L][k].frame
      BY <2>1, <1>2, WalkValue
    <3>4. QED
      BY <3>1, <3>2, <3>3
  <2> HIDE DEF old
  <2>19. old \in Frame /\ PageDesc(old) \in Entry
    <3>1. old \in Frame
      BY <2>1, <2>2, <2>18 DEF Memory, Entry
    <3>2. QED
      BY <3>1, EntryForms
  <2>20. s1 = [c EXCEPT !.mem[L][k] = PageDesc(old)]
    <3>1. ~b.halted /\ ~c.halted
      BY <2>9, <2>12, <1>6
    <3>2. s1 = SetPageEntry(c, k0, sp, old)
      BY <3>1, <1>1
    <3> HIDE DEF s1
    <3>3. QED
      BY <3>1, <3>2, <2>16, <2>17 DEF SetPageEntry, WriteEntry
  <2> HIDE DEF s1
  <2> DEFINE dm == [cm EXCEPT ![L][k] = PageDesc(old)]
  <2>21. dm \in Memory /\ Written(cm, L, k, PageDesc(old), dm)
    BY <2>2, <2>11, <2>19, WriteWrites
  <2>22. s1 \in State /\ s1.mem = dm /\ s1.free = a.free /\ s1.halted = a.halted
    BY <2>12, <2>20, <2>21 DEF State
  <2> HIDE DEF dm
  <2>23. TopWritten(a.mem, L, k, f, dm)
    BY <2>4, <2>13, <2>18, <2>21 DEF Written, TopWritten
  <2>24. Sound(dm, a.free, T \cup {f}, R \ {f})
    BY <2>1, <2>21, <2>23, <1>2, TopAdded
  <2>25. SameViews(a.mem, dm, T)
    BY <2>1, <2>21, <2>23, <1>2, TopAdded
  <2>26. NoPages(dm, f)
    BY <2>1, <2>21, <2>23, <1>2, TopAdded
  <2>27. Good(s1, T \cup {f}, R \ {f})
    BY <2>22, <2>24 DEF Good
  <2>28. Good(s1, T \cup {f}, {})
    BY <2>27, GoodLess
  <2>29. SameViews(s.mem, s1.mem, T)
    BY <2>22, <2>25, <1>3 DEF Grown, SameViews
  <2>30. NewSpace(s, s1, T, f)
    BY <2>22, <2>26, <2>28, <2>29, <1>3, <1>6 DEF NewSpace, Grown
  <2>31. QED
    BY <2>30 DEF s1
<1>7. QED
  BY <1>5, <1>6

-----------------------------------------------------------------------------
(* buildProgramImage *)

\* A section's pages are those that map_region is called for.
LEMMA SectionSizes ==
    ASSUME NEW v \in Nat, NEW m \in Nat \ {0}
    PROVE  LET first == v \div PageSize
               diff  == v % PageSize
               last  == (v + m - 1) \div PageSize
           IN  /\ first \in Nat /\ diff \in 0 .. PageSize - 1 /\ last \in Nat /\ first <= last
               /\ PagesFor(m + diff) = last - first + 1
               /\ m + diff >= PageSize =>
                    /\ m - (PageSize - diff) \in Nat
                    /\ PagesFor(m - (PageSize - diff)) = last - first
                    /\ PagesFor(m - (PageSize - diff)) <= PagesFor(m)
<1> DEFINE P == PageSize
           first == v \div P
           diff == v % P
           last == (v + m - 1) \div P
           k == (diff + m - 1) \div P
<1>1. P \in Nat \ {0}
  BY SizesAssumption
<1> HIDE DEF P
<1>2. first \in Nat /\ diff \in 0 .. P - 1 /\ v = P * first + diff
  BY <1>1, DivNat, SMT
<1>3. first \in Nat
  BY <1>1, DivNat
<1> HIDE DEF first, diff
<1>4. diff + m - 1 \in Nat /\ k \in Nat
  BY <1>1, <1>2, DivNat
<1>5. last = first + k
  <2>1. v + m - 1 = P * first + (diff + m - 1)
    BY <1>1, <1>2, SMT
  <2>2. (P * first + (diff + m - 1)) \div P = first + ((diff + m - 1) \div P)
    BY <1>1, <1>3, <1>4, DivPlus
  <2>3. QED
    BY <2>1, <2>2
<1>6. PagesFor(m + diff) = k + 1
  <2>1. m + diff + P - 1 = P * 1 + (diff + m - 1)
    BY <1>1, <1>2
  <2>2. (P * 1 + (diff + m - 1)) \div P = 1 + ((diff + m - 1) \div P)
    BY <1>1, <1>4, DivPlus
  <2>3. PagesFor(m + diff) = (m + diff + P - 1) \div P
    BY DEF PagesFor, P
  <2>4. QED
    BY <2>1, <2>2, <2>3, <1>4
<1>7. ASSUME m + diff >= P
      PROVE  /\ m - (P - diff) \in Nat
             /\ PagesFor(m - (P - diff)) = k
             /\ PagesFor(m - (P - diff)) <= PagesFor(m)
  <2>1. m - (P - diff) \in Nat /\ m - (P - diff) + P - 1 = diff + m - 1
    BY <1>1, <1>2, <1>7
  <2>2. PagesFor(m - (P - diff)) = (m - (P - diff) + P - 1) \div P
    BY DEF PagesFor, P
  <2>3. PagesFor(m - (P - diff)) = k
    BY <2>1, <2>2
  <2>4. diff + m - 1 <= m + P - 1 /\ m + P - 1 \in Nat
    BY <1>1, <1>2
  <2>5. k <= (m + P - 1) \div P
    BY <2>4, <1>1, <1>4, DivMonotone
  <2>6. PagesFor(m) = (m + P - 1) \div P
    BY DEF PagesFor, P
  <2>7. QED
    BY <2>1, <2>3, <2>5, <2>6
<1> HIDE DEF k, last
<1>8. /\ first \in Nat /\ diff \in 0 .. P - 1 /\ last \in Nat /\ first <= last
      /\ PagesFor(m + diff) = last - first + 1
      /\ m + diff >= P =>
           /\ m - (P - diff) \in Nat
           /\ PagesFor(m - (P - diff)) = last - first
           /\ PagesFor(m - (P - diff)) <= PagesFor(m)
  BY <1>2, <1>3, <1>4, <1>5, <1>6, <1>7
<1>9. QED
  BY <1>8 DEF P, first, diff, last

-----------------------------------------------------------------------------
(* Frames for pages *)

\* Frames f .. f + n - 1 have been reserved for size bytes.
Took(s, x, T, size, f, n) ==
    /\ size # 0 /\ Fits(n, size) /\ f \in s.free /\ f .. f + n - 1 \subseteq s.free
    /\ x.mem = s.mem /\ x.halted = s.halted /\ x.free = s.free \ (f .. f + n - 1)
    /\ Good(x, T, f .. f + n - 1)

\* reserve does that when it succeeds.
LEMMA ReserveGood ==
    ASSUME NEW s, NEW T \in SUBSET Frame, Good(s, T, {}), NEW size \in Nat,
           Reserve(s, size).frame # NOMEM
    PROVE  \E n \in RunLengths :
             Took(s, Reserve(s, size).st, T, size, Reserve(s, size).frame, n)
<1>1. s \in State /\ Sound(s.mem, s.free, T, {})
  BY DEF Good
<1>2. PICK f \in s.free, n \in RunLengths :
                /\ size # 0 /\ Fits(n, size) /\ f .. f + n - 1 \subseteq s.free
                /\ Reserve(s, size).frame = f
                /\ Reserve(s, size).st = [s EXCEPT !.free = @ \ (f .. f + n - 1)]
  BY <1>1, ReserveTakes
<1> DEFINE Q == f .. f + n - 1
           x == Reserve(s, size).st
<1>3. /\ x.mem = s.mem /\ x.halted = s.halted /\ x.free = s.free \ Q
      /\ x \in State
  BY <1>1, <1>2 DEF State
<1>4. Q \subseteq s.free
  BY <1>2
<1> HIDE DEF Q, x
<1>5. Sound(s.mem, s.free \ Q, T, Q)
  BY <1>1, <1>4 DEF Sound, Unused
<1>6. Good(x, T, Q)
  BY <1>3, <1>5 DEF Good
<1>7. Took(s, x, T, size, f, n)
  BY <1>2, <1>3, <1>6 DEF Took, Q
<1>8. QED
  BY <1>2, <1>7 DEF x

\* x is s with the pages S of space t mapped to frames that were free, some of
\* them only when the kernel has panicked.
Given(s, x, T, t, S) ==
    /\ Good(x, T, {})
    /\ x.free \subseteq s.free
    /\ \A u \in T : \A q \in Page :
          u # t \/ q \notin S => Walk(x.mem, u, q) = Walk(s.mem, u, q)
    /\ \A q \in S : \/ Walk(x.mem, t, q) \in s.free
                    \/ x.halted /\ Walk(x.mem, t, q) = Walk(s.mem, t, q)

\* reserve and map_region do that, when the pages are no more than the frames.
LEMMA ReserveMapGives ==
    ASSUME NEW s, NEW T \in SUBSET Frame, Good(s, T, {}), ~s.halted, NEW t \in T,
           NEW size \in Nat, Reserve(s, size).frame # NOMEM,
           NEW p \in Nat, NEW bytes \in Nat, p + PagesFor(bytes) <= W * W * W,
           \A n \in RunLengths : Fits(n, size) => PagesFor(bytes) <= n
    PROVE  Given(s, MapRegion(Reserve(s, size).st, t, p, bytes, Reserve(s, size).frame), T, t,
                 p .. p + PagesFor(bytes) - 1)
<1> DEFINE r == Reserve(s, size).st
           f == Reserve(s, size).frame
           N == PagesFor(bytes)
           x == MapRegion(r, t, p, bytes, f)
<1>1. PICK n \in RunLengths : Took(s, r, T, size, f, n)
  BY ReserveGood
<1> HIDE DEF r, f
<1>2. /\ f \in s.free /\ f .. f + n - 1 \subseteq s.free /\ Fits(n, size)
      /\ r.mem = s.mem /\ r.halted = s.halted /\ r.free \subseteq s.free
      /\ Good(r, T, f .. f + n - 1)
  BY <1>1 DEF Took
<1>3. s.free \subseteq Nat \ {0} /\ s.free \subseteq Frame /\ n \in Nat /\ N \in Nat
  <2>1. s.free \subseteq 1 .. NumFrames
    BY DEF Good, State
  <2>2. s.free \subseteq Nat \ {0} /\ s.free \subseteq Frame
    BY <2>1, FrameRange
  <2>3. n \in Nat /\ N \in Nat
    BY SizesAssumption, PagesForNat
  <2>4. QED
    BY <2>2, <2>3
<1>4. N <= n
  BY <1>2
<1>5. /\ f .. f + N - 1 \subseteq f .. f + n - 1 /\ f .. f + n - 1 \in SUBSET Frame
      /\ f \in Nat \ {0} /\ f \in Int
  BY <1>2, <1>3, <1>4
<1>6. Maps(r, x, T, t, p, N, f)
  <2>1. \A g \in f .. f + PagesFor(bytes) - 1 :
           g \in Frame /\ (g <= 0 \/ g \in f .. f + n - 1)
    BY <1>5
  <2> HIDE DEF N
  <2>2. Maps(r, MapRegion(r, t, p, bytes, f), T, t, p, PagesFor(bytes), f)
    BY <2>1, <1>2, <1>5, MapRegionMaps
  <2>3. QED
    BY <2>2 DEF N
<1> HIDE DEF x, N
<1>7. /\ Good(x, T, {}) /\ x.free \subseteq s.free
      /\ \A u \in T : \A q \in Page :
            u # t \/ q \notin p .. p + N - 1 => Walk(x.mem, u, q) = Walk(s.mem, u, q)
      /\ \A q \in p .. p + N - 1 :
            \/ Walk(x.mem, t, q) = f + (q - p)
            \/ x.halted /\ Walk(x.mem, t, q) = Walk(s.mem, t, q)
  BY <1>6, <1>2 DEF Maps
<1>8. \A q \in p .. p + N - 1 : f + (q - p) \in s.free
  <2>1. \A q \in p .. p + N - 1 : f + (q - p) \in f .. f + N - 1
    BY <1>3, <1>5
  <2>2. QED
    BY <2>1, <1>2, <1>5
<1>9. Given(s, x, T, t, p .. p + N - 1)
  BY <1>7, <1>8 DEF Given
<1>10. QED
  BY <1>9 DEF x, N, r, f

\* x is s with the pages S of space t mapped: to frames that were free, or as
\* they were.
Loaded(s, x, T, t, S) ==
    /\ Good(x, T, {})
    /\ x.free \subseteq s.free
    /\ \A u \in T : \A q \in Page :
          u # t \/ q \notin S => Walk(x.mem, u, q) = Walk(s.mem, u, q)
    /\ \A q \in S : \/ Walk(x.mem, t, q) \in s.free
                    \/ /\ x.halted \/ Walk(s.mem, t, q) # 0
                       /\ Walk(x.mem, t, q) = Walk(s.mem, t, q)

\* buildProgramImage does that for a section, which has the frames it needs:
\* neither the page it shares nor its last page is forgotten.  The kernel panics
\* when the size wraps.
LEMMA LoadSectionLoads ==
    ASSUME NEW s, NEW T \in SUBSET Frame, Good(s, T, {}), ~s.halted, NEW t \in T,
           NEW sec \in Section, SectionPages(sec) \subseteq Page,
           Reserve(s, sec.memsize).frame # NOMEM,
           \/ Walk(s.mem, t, sec.vaddr \div PageSize) # 0
           \/ \A n \in RunLengths :
                 Fits(n, sec.memsize) => PagesFor(sec.memsize + (sec.vaddr % PageSize)) <= n
    PROVE  Loaded(s, LoadSection(s, t, sec), T, t, SectionPages(sec))
<1> DEFINE v == sec.vaddr
           m == sec.memsize
           r == Reserve(s, m)
           first == v \div PageSize
           diff  == v % PageSize
           last  == (v + m - 1) \div PageSize
           small == m - (PageSize - diff)
           x == LoadSection(s, t, sec)
<1>1. v \in Nat /\ m \in Nat
  BY DEF Section
<1>2. m # 0
  <2>1. PICK n \in RunLengths : Took(s, r.st, T, m, r.frame, n)
    BY <1>1, ReserveGood
  <2>2. QED
    BY <2>1 DEF Took
<1>3. /\ first \in Nat /\ diff \in 0 .. PageSize - 1 /\ last \in Nat /\ first <= last
      /\ PagesFor(m + diff) = last - first + 1
      /\ m + diff >= PageSize =>
           /\ small \in Nat
           /\ PagesFor(small) = last - first
           /\ PagesFor(small) <= PagesFor(m)
  BY <1>1, <1>2, SectionSizes
<1>4. SectionPages(sec) = first .. last
  BY DEF SectionPages
<1>5. last + 1 <= W * W * W
  <2>1. last \in Page
    BY <1>3, <1>4
  <2>2. W * W * W \in Int
    BY SizesAssumption, SMT
  <2>3. QED
    BY <2>1, <2>2, <1>3 DEF Page
<1>6. GetPageFrame(s, t, first) = Walk(s.mem, t, first)
  BY GetPageFrameWalks
<1>7. RunLengths \subseteq Nat /\ PageSize \in Nat \ {0}
  BY SizesAssumption
<1>20. CASE Walk(s.mem, t, first) # 0 /\ m + diff < PageSize
  <2>1. x = [r.st EXCEPT !.halted = TRUE]
    <3>1. small < 0
      BY <1>1, <1>3, <1>7, <1>20
    <3>2. QED
      BY <3>1, <1>6, <1>20 DEF LoadSection, NoFrame
  <2>2. PICK n \in RunLengths : Took(s, r.st, T, m, r.frame, n)
    BY <1>1, ReserveGood
  <2> HIDE DEF first, last, small, diff, v, m, x, r
  <2>3. Good(r.st, T, {}) /\ r.st.mem = s.mem /\ r.st.free \subseteq s.free
    BY <2>2, GoodLess DEF Took
  <2>4. x \in State /\ x.mem = s.mem /\ x.free = r.st.free /\ x.halted
    BY <2>1, <2>3 DEF Good, State
  <2>5. Good(x, T, {})
    BY <2>3, <2>4 DEF Good
  <2>6. Loaded(s, x, T, t, SectionPages(sec))
    BY <2>3, <2>4, <2>5 DEF Loaded
  <2>7. QED
    BY <2>6 DEF x
<1>8. CASE Walk(s.mem, t, first) # 0 /\ m + diff >= PageSize
  <2>1. m + diff >= PageSize
    BY <1>8
  <2>2. small \in Nat /\ PagesFor(small) = last - first /\ PagesFor(small) <= PagesFor(m)
    BY <1>3, <2>1
  <2>3. x = MapRegion(r.st, t, first + 1, small, r.frame)
    <3>1. ~(small < 0)
      BY <2>2
    <3>2. QED
      BY <3>1, <1>6, <1>8 DEF LoadSection, NoFrame
  <2>4. \A n \in RunLengths : Fits(n, m) => PagesFor(small) <= n
    <3>1. PagesFor(m) \in Nat
      BY <1>1, PagesForNat
    <3>2. QED
      BY <3>1, <2>2, <1>3, <1>7 DEF Fits
  <2> HIDE DEF first, last, small, diff, r, v, m, x
  <2>5. first + 1 + PagesFor(small) <= W * W * W /\ first + 1 \in Nat
    BY <2>2, <1>3, <1>5
  <2>6. Given(s, MapRegion(Reserve(s, m).st, t, first + 1, small, Reserve(s, m).frame), T, t,
              first + 1 .. first + 1 + PagesFor(small) - 1)
    BY <2>2, <2>4, <2>5, <1>1, ReserveMapGives DEF r, m
  <2>7. Given(s, x, T, t, first + 1 .. last)
    <3>1. first + 1 + PagesFor(small) - 1 = last
      BY <2>2, <1>3
    <3>2. QED
      BY <2>3, <2>6, <3>1 DEF r
  <2>8. /\ first .. last = {first} \cup (first + 1 .. last)
        /\ first \notin first + 1 .. last
    BY <1>3
  <2>9. Walk(x.mem, t, first) = Walk(s.mem, t, first)
    <3>1. first \in Page
      BY <1>3, <1>4
    <3>2. QED
      BY <3>1, <2>7, <2>8 DEF Given
  <2>10. Loaded(s, x, T, t, first .. last)
    BY <2>7, <2>8, <2>9, <1>8 DEF Given, Loaded
  <2>11. QED
    BY <2>10, <1>4 DEF x
<1>9. CASE Walk(s.mem, t, first) = 0
  <2>1. \A n \in RunLengths : Fits(n, m) => PagesFor(m + diff) <= n
    BY <1>9
  <2>2. x = MapRegion(r.st, t, first, m + diff, r.frame)
    <3>1. ~(m + diff < 0)
      BY <1>1, <1>3
    <3>2. QED
      BY <3>1, <1>6, <1>9 DEF LoadSection, NoFrame
  <2> HIDE DEF first, last, small, diff, r, v, m, x
  <2>3. first + PagesFor(m + diff) <= W * W * W /\ m + diff \in Nat
    BY <1>1, <1>3, <1>5, <1>7
  <2>4. Given(s, MapRegion(Reserve(s, m).st, t, first, m + diff, Reserve(s, m).frame), T, t,
              first .. first + PagesFor(m + diff) - 1)
    BY <2>1, <2>3, <1>1, <1>3, ReserveMapGives DEF r, m
  <2>5. Given(s, x, T, t, first .. last)
    <3>1. first + PagesFor(m + diff) - 1 = last
      BY <1>3
    <3>2. QED
      BY <2>2, <2>4, <3>1 DEF r
  <2>6. Loaded(s, x, T, t, first .. last)
    BY <2>5 DEF Given, Loaded
  <2>7. QED
    BY <2>6, <1>4 DEF x
<1>10. QED
  BY <1>1, <1>3, <1>7, <1>8, <1>9, <1>20

\* Page q belongs to one of the first i headers that are loaded.
Covered(program, i, q) == \E j \in Loads(program) : j <= i /\ q \in SectionPages(program[j])

\* There is no run for one of the program's sections.
NoMemoryFor(program, s) ==
    \E j \in Loads(program) : program[j].memsize = 0 \/ FreeRuns(s, program[j].memsize) = {}

\* What buildProgramImage, started in s, has made of space t after i headers.
Built(s, acc, T, t, program, i) ==
    /\ acc = [st |-> acc.st, failed |-> acc.failed]
    /\ Good(acc.st, T, {})
    /\ acc.st.free \subseteq s.free
    /\ \A u \in T : \A q \in Page : u # t => Walk(acc.st.mem, u, q) = Walk(s.mem, u, q)
    /\ \A q \in Page : Walk(acc.st.mem, t, q) # 0 => Walk(acc.st.mem, t, q) \in s.free
    /\ ~acc.failed /\ ~acc.st.halted =>
          \A q \in Page : Walk(acc.st.mem, t, q) # 0 <=> Covered(program, i, q)
    /\ acc.failed => NoMemoryFor(program, acc.st)

\* One more header.
LEMMA BuiltStep ==
    ASSUME NEW s, NEW T \in SUBSET Frame, NEW t \in T,
           NEW program \in Seq(Section), Loadable(program),
           NEW i \in 1 .. Len(program), NEW acc, Built(s, acc, T, t, program, i - 1)
    PROVE  Built(s, LoadNext(acc, t, program[i]), T, t, program, i)
<1> DEFINE sec == program[i]
           a == acc.st
           y == LoadNext(acc, t, sec)
<1>1. i \in DOMAIN program /\ sec \in Section /\ DOMAIN program \subseteq Nat /\ i \in Nat
  OBVIOUS
<1>2. /\ acc = [st |-> a, failed |-> acc.failed]
      /\ Good(a, T, {}) /\ a.free \subseteq s.free
      /\ \A u \in T : \A q \in Page : u # t => Walk(a.mem, u, q) = Walk(s.mem, u, q)
      /\ \A q \in Page : Walk(a.mem, t, q) # 0 => Walk(a.mem, t, q) \in s.free
      /\ ~acc.failed /\ ~a.halted =>
            \A q \in Page : Walk(a.mem, t, q) # 0 <=> Covered(program, i - 1, q)
      /\ acc.failed => NoMemoryFor(program, a)
  BY DEF Built
<1>3. Loads(program) \subseteq DOMAIN program
  BY DEF Loads
<1>4. \A j \in DOMAIN program : j <= i <=> (j <= i - 1 \/ j = i)
  BY <1>1
<1>5. CASE acc.failed \/ a.halted \/ sec.type # "LOAD"
  <2>1. y = acc
    BY <1>5 DEF LoadNext
  <2>2. \/ acc.failed \/ a.halted
        \/ \A q \in Page : Covered(program, i, q) <=> Covered(program, i - 1, q)
    <3>1. CASE sec.type # "LOAD"
      <4>1. i \notin Loads(program)
        BY <3>1 DEF Loads
      <4>2. \A j \in Loads(program) : j <= i <=> j <= i - 1
        BY <4>1, <1>3, <1>4
      <4>3. QED
        BY <4>2 DEF Covered
    <3>2. QED
      BY <3>1, <1>5
  <2>3. QED
    BY <2>1, <2>2, <1>2 DEF Built
<1>6. CASE ~(acc.failed \/ a.halted \/ sec.type # "LOAD")
  <2> DEFINE r == Reserve(a, sec.memsize)
  <2>1. CASE r.frame = NOMEM
    <3>1. y = [acc EXCEPT !.failed = TRUE]
      BY <2>1, <1>6 DEF LoadNext
    <3>2. y.st = a /\ y.failed = TRUE /\ y = [st |-> y.st, failed |-> y.failed]
      BY <3>1, <1>2
    <3>3. NoMemoryFor(program, a)
      <4>1. i \in Loads(program) /\ sec.memsize \in Nat
        BY <1>1, <1>6 DEF Loads, Section
      <4>2. a \in State
        BY <1>2 DEF Good
      <4>3. sec.memsize = 0 \/ FreeRuns(a, sec.memsize) = {}
        BY <2>1, <4>1, <4>2, ReserveFails
      <4>4. QED
        BY <4>1, <4>3 DEF NoMemoryFor
    <3>4. QED
      BY <3>2, <3>3, <1>2 DEF Built
  <2>2. CASE r.frame # NOMEM
    <3> DEFINE x == LoadSection(a, t, sec)
               first == sec.vaddr \div PageSize
    <3>1. y = [acc EXCEPT !.st = x]
      BY <2>2, <1>6 DEF LoadNext
    <3>2. y.st = x /\ y.failed = acc.failed /\ y = [st |-> y.st, failed |-> y.failed]
      BY <3>1, <1>2
    <3>3. sec.vaddr \in Nat /\ sec.memsize \in Nat
      BY <1>1 DEF Section
    <3>4. sec.memsize # 0
      <4>1. PICK n \in RunLengths : Took(a, r.st, T, sec.memsize, r.frame, n)
        BY <2>2, <3>3, <1>2, ReserveGood
      <4>2. QED
        BY <4>1 DEF Took
    <3>5. i \in Loads(program)
      BY <1>1, <1>6 DEF Loads
    <3>6. /\ SectionPages(sec) \subseteq Page
          /\ \/ Shared(program, i)
             \/ \A n \in RunLengths :
                  Fits(n, sec.memsize) => PagesFor(sec.memsize + (sec.vaddr % PageSize)) <= n
      BY <3>5 DEF Loadable
    <3>7. first \in SectionPages(sec)
      <4>1. first \in Nat /\ (sec.vaddr + sec.memsize - 1) \div PageSize \in Nat
            /\ first <= (sec.vaddr + sec.memsize - 1) \div PageSize
        BY <3>3, <3>4, SectionSizes
      <4>2. QED
        BY <4>1 DEF SectionPages
    <3>8. Shared(program, i) <=> Walk(a.mem, t, first) # 0
      <4>1. Shared(program, i) <=> Covered(program, i - 1, first)
        <5>1. \A j \in Loads(program) : j < i <=> j <= i - 1
          BY <1>1, <1>3
        <5>2. QED
          BY <5>1 DEF Shared, Covered
      <4>2. QED
        BY <4>1, <3>6, <3>7, <1>2, <1>6
    <3>9. Loaded(a, x, T, t, SectionPages(sec))
      <4> HIDE DEF x
      <4>1. \/ Walk(a.mem, t, sec.vaddr \div PageSize) # 0
            \/ \A n \in RunLengths :
                  Fits(n, sec.memsize) => PagesFor(sec.memsize + (sec.vaddr % PageSize)) <= n
        BY <3>6, <3>8
      <4>2. ~a.halted
        BY <1>6
      <4> HIDE DEF a, sec
      <4>3. Loaded(a, LoadSection(a, t, sec), T, t, SectionPages(sec))
        BY <4>1, <4>2, <3>6, <2>2, <1>1, <1>2, LoadSectionLoads
      <4>4. QED
        BY <4>3 DEF x
    <3> HIDE DEF x
    <3>10. /\ Good(x, T, {}) /\ x.free \subseteq a.free
           /\ \A u \in T : \A q \in Page :
                u # t \/ q \notin SectionPages(sec) => Walk(x.mem, u, q) = Walk(a.mem, u, q)
           /\ \A q \in SectionPages(sec) :
                 \/ Walk(x.mem, t, q) \in a.free
                 \/ /\ x.halted \/ Walk(a.mem, t, q) # 0
                    /\ Walk(x.mem, t, q) = Walk(a.mem, t, q)
      BY <3>9 DEF Loaded
    <3>11. \A q \in Page : Walk(x.mem, t, q) # 0 => Walk(x.mem, t, q) \in s.free
      BY <3>10, <1>2
    <3>12. 0 \notin a.free
      BY <1>2 DEF Good, State
    <3>13. ASSUME ~x.halted, NEW q \in Page
           PROVE  Walk(x.mem, t, q) # 0 <=> Covered(program, i, q)
      <4>1. Covered(program, i, q) <=> Covered(program, i - 1, q) \/ q \in SectionPages(sec)
        BY <3>5, <1>3, <1>4 DEF Covered
      <4>2. CASE q \in SectionPages(sec)
        BY <4>1, <4>2, <3>10, <3>12, <3>13
      <4>3. CASE q \notin SectionPages(sec)
        <5>1. Walk(x.mem, t, q) = Walk(a.mem, t, q)
          BY <4>3, <3>10
        <5>2. QED
          BY <5>1, <4>1, <4>3, <1>2, <1>6
      <4>4. QED
        BY <4>2, <4>3
    <3>14. \A u \in T : \A q \in Page : u # t => Walk(x.mem, u, q) = Walk(s.mem, u, q)
      BY <3>10, <1>2
    <3>15. QED
      BY <3>2, <3>10, <3>11, <3>13, <3>14, <1>2, <1>6 DEF Built
  <2>3. QED
    BY <2>1, <2>2
<1>7. QED
  BY <1>5, <1>6

\* Nothing is built before the first header.
LEMMA BuiltStart ==
    ASSUME NEW s, NEW T, NEW t \in T, Good(s, T, {}), ~s.halted, NoPages(s.mem, t),
           NEW program \in Seq(Section)
    PROVE  Built(s, [st |-> s, failed |-> FALSE], T, t, program, 0)
<1> DEFINE acc == [st |-> s, failed |-> FALSE]
<1>1. acc.st = s /\ acc.failed = FALSE /\ acc = [st |-> acc.st, failed |-> acc.failed]
  OBVIOUS
<1>2. \A q : ~Covered(program, 0, q)
  BY DEF Covered, Loads
<1>3. \A q \in Page : Walk(s.mem, t, q) = 0
  BY DEF NoPages
<1> HIDE DEF acc
<1>4. Built(s, acc, T, t, program, 0)
  BY <1>1, <1>2, <1>3 DEF Built
<1>5. QED
  BY <1>4 DEF acc

\* g[n] is the state after n headers.
IsBuildLoop(g, s, t, program) ==
    g = [n \in 0 .. Len(program) |->
           IF n = 0 THEN [st |-> s, failed |-> FALSE] ELSE LoadNext(g[n - 1], t, program[n])]

\* The loop over the headers runs to its end.
LEMMA BuildLoopExists ==
    ASSUME NEW s, NEW T \in SUBSET Frame, NEW t \in T, Good(s, T, {}), ~s.halted,
           NoPages(s.mem, t), NEW program \in Seq(Section), Loadable(program)
    PROVE  \E g : IsBuildLoop(g, s, t, program)
<1> DEFINE N == Len(program)
           Acc == [st : State, failed : BOOLEAN]
           G(i) == {x \in Acc : Built(s, x, T, t, program, i)}
           s0 == [st |-> s, failed |-> FALSE]
           step == [i \in 1 .. N |-> [x \in G(i - 1) |-> LoadNext(x, t, program[i])]]
<1>1. N \in Nat
  OBVIOUS
<1>2. PICK g : g = [i \in 0 .. N |-> IF i = 0 THEN s0 ELSE step[i][g[i - 1]]]
  <2> HIDE DEF step, s0, N
  <2>1. \E g : IsLoop(g, N, s0, step)
    BY <1>1, LoopExists
  <2>2. QED
    BY <2>1 DEF IsLoop
<1>3. s0 \in G(0)
  <2>1. Built(s, s0, T, t, program, 0)
    BY BuiltStart
  <2>2. s0 \in Acc
    BY DEF Good
  <2>3. QED
    BY <2>1, <2>2
<1>4. \A i \in 1 .. N : \A x \in G(i - 1) : LoadNext(x, t, program[i]) \in G(i)
  <2>1. SUFFICES ASSUME NEW i \in 1 .. N, NEW x \in G(i - 1)
                 PROVE  LoadNext(x, t, program[i]) \in G(i)
    OBVIOUS
  <2> DEFINE y == LoadNext(x, t, program[i])
  <2>2. Built(s, y, T, t, program, i)
    BY <2>1, BuiltStep
  <2>3. y.failed \in BOOLEAN
    BY <2>1 DEF LoadNext
  <2>4. y.st \in State
    BY <2>2 DEF Built, Good
  <2>5. y = [st |-> y.st, failed |-> y.failed]
    BY <2>2 DEF Built
  <2> HIDE DEF y
  <2>6. y \in Acc
    BY <2>3, <2>4, <2>5
  <2>7. y \in G(i)
    BY <2>2, <2>6
  <2>8. QED
    BY <2>7 DEF y
<1> HIDE DEF G
<1>5. \A i \in 1 .. N : \A x \in G(i - 1) : step[i][x] = LoadNext(x, t, program[i])
  OBVIOUS
<1> HIDE DEF step, N, s0
<1> DEFINE S == {i \in 0 .. N : g[i] \in G(i)}
<1>6. 0 \in S
  BY <1>1, <1>2, <1>3
<1>7. ASSUME NEW i \in 1 .. N, i - 1 \in S
      PROVE  i \in S
  <2>1. g[i - 1] \in G(i - 1) /\ i # 0 /\ i \in 0 .. N
    BY <1>7
  <2>2. g[i] = step[i][g[i - 1]]
    BY <1>2, <2>1
  <2>3. QED
    BY <2>1, <2>2, <1>4, <1>5
<1>8. \A i \in 0 .. N : i \in S
  <2> HIDE DEF S
  <2>1. QED
    BY <1>1, <1>6, <1>7, UpTo
<1> DEFINE h == [n \in 0 .. N |-> IF n = 0 THEN s0 ELSE LoadNext(g[n - 1], t, program[n])]
<1>9. ASSUME NEW n \in 0 .. N
      PROVE  g[n] = h[n]
  <2>1. CASE n = 0
    BY <2>1, <1>1, <1>2
  <2>2. CASE n # 0
    <3>1. n \in 1 .. N /\ n - 1 \in 0 .. N
      BY <2>2, <1>1
    <3>2. g[n - 1] \in G(n - 1)
      BY <3>1, <1>8
    <3>3. g[n] = step[n][g[n - 1]]
      BY <2>2, <1>2
    <3>4. QED
      BY <3>1, <3>2, <3>3, <2>2, <1>5
  <2>3. QED
    BY <2>1, <2>2
<1>10. g = h
  BY <1>2, <1>9
<1>11. QED
  BY <1>10 DEF IsBuildLoop, N, s0

\* buildProgramImage gives a space without pages frames that were free, and maps
\* all the program's pages unless memory is missing or the kernel panics.
Image(s, x, T, t, program) ==
    /\ Good(x, T, {})
    /\ x.free \subseteq s.free
    /\ \A u \in T : \A q \in Page : u # t => Walk(x.mem, u, q) = Walk(s.mem, u, q)
    /\ \A q \in Page : Walk(x.mem, t, q) # 0 => Walk(x.mem, t, q) \in s.free
    /\ \/ x.halted \/ NoMemoryFor(program, x)
       \/ \A q \in Page : Walk(x.mem, t, q) # 0 <=> Covered(program, Len(program), q)

\* This is what the loop leaves.
LEMMA BuildProgramImageBuilds ==
    ASSUME NEW s, NEW T \in SUBSET Frame, NEW t \in T, Good(s, T, {}), ~s.halted,
           NoPages(s.mem, t), NEW program \in Seq(Section), Loadable(program)
    PROVE  Image(s, BuildProgramImage(s, t, program), T, t, program)
<1> DEFINE N == Len(program)
           P(g) == g = [n \in 0 .. N |-> IF n = 0 THEN [st |-> s, failed |-> FALSE]
                                         ELSE LoadNext(g[n - 1], t, program[n])]
           C == CHOOSE g : P(g)
           S == {i \in 0 .. N : Built(s, C[i], T, t, program, i)}
<1>1. BuildProgramImage(s, t, program) = C[N].st
  BY DEF BuildProgramImage
<1>2. \E g : P(g)
  <2>1. PICK g : IsBuildLoop(g, s, t, program)
    BY BuildLoopExists
  <2>2. P(g)
    BY <2>1 DEF IsBuildLoop
  <2>3. QED
    BY <2>2
<1>3. P(C)
  <2> HIDE DEF P
  <2>1. QED
    BY <1>2
<1>4. N \in Nat
  OBVIOUS
<1> HIDE DEF C
<1>5. 0 \in S
  <2>1. C[0] = [st |-> s, failed |-> FALSE]
    BY <1>3, <1>4
  <2>2. QED
    BY <2>1, <1>4, BuiltStart
<1>6. ASSUME NEW i \in 1 .. N, i - 1 \in S
      PROVE  i \in S
  <2>0. i \in 0 .. N /\ i # 0
    BY <1>4
  <2>1. C[i] = LoadNext(C[i - 1], t, program[i])
    <3> HIDE DEF N
    <3>1. QED
      BY <2>0, <1>3
  <2>2. Built(s, LoadNext(C[i - 1], t, program[i]), T, t, program, i)
    BY <1>6, BuiltStep
  <2>3. QED
    BY <2>1, <2>2, <1>4
<1>7. \A i \in 0 .. N : i \in S
  <2> HIDE DEF S, N
  <2>1. QED
    BY <1>4, <1>5, <1>6, UpTo
<1>8. Built(s, C[N], T, t, program, N)
  BY <1>4, <1>7
<1>9. QED
  BY <1>1, <1>8 DEF Built, Image

-----------------------------------------------------------------------------
(* The calls *)

StackSize == StackPages * PageSize

\* The stack's pages are the last ones of the space.
LEMMA StackSizes ==
    /\ StackSize \in Nat \ {0} /\ PagesFor(StackSize) = StackPages
    /\ StackPage \in Nat /\ StackPage + StackPages = W * W * W
<1>1. W * W * W \in Nat /\ PageSize \in Nat \ {0}
  BY SizesAssumption, SMT
<1>2. StackPages \in Nat \ {0} /\ StackPages <= W * W * W
  BY <1>1, SizesAssumption
<1>3. StackSize \in Nat \ {0}
  BY <1>1, <1>2, SMT DEF StackSize
<1>4. PagesFor(StackSize) = StackPages
  <2>1. PageSize - 1 \in 0 .. PageSize - 1
    BY <1>1
  <2>2. (PageSize * StackPages + (PageSize - 1)) \div PageSize = StackPages
    BY <1>1, <1>2, <2>1, DivUnique
  <2>3. StackSize = PageSize * StackPages
    BY <1>1, <1>2, SMT DEF StackSize
  <2>4. StackSize + PageSize - 1 = PageSize * StackPages + (PageSize - 1)
    BY <1>1, <1>3, <2>3
  <2>5. QED
    BY <2>2, <2>4 DEF PagesFor
<1>5. QED
  BY <1>1, <1>2, <1>3, <1>4 DEF StackPage

\* x is s with some pages of space t unmapped or mapped to frames that were free.
Changed(s, x, T, t) ==
    /\ Good(x, T, {})
    /\ x.free \subseteq s.free
    /\ \A u \in T : \A q \in Page : u # t => Walk(x.mem, u, q) = Walk(s.mem, u, q)
    /\ \A q \in Page : Walk(x.mem, t, q) \in {0, Walk(s.mem, t, q)} \cup s.free

\* Pages given to a space are such a change.
LEMMA GivenChanges ==
    ASSUME NEW s, NEW x, NEW T, NEW t \in T, NEW S, Given(s, x, T, t, S)
    PROVE  Changed(s, x, T, t)
BY DEF Given, Changed

\* The frame that page q of a stack without memory shows.
KernelFrame(q) == NOMEM + (q - StackPage)

\* x is s with the stack of space t added: its pages are mapped to frames that
\* were free, or all to the kernel's, some of them only when the kernel has
\* panicked.
StackAdded(s, x, T, t) ==
    /\ Good(x, T, {})
    /\ x.free \subseteq s.free
    /\ s.halted => x.halted
    /\ \A u \in T : \A q \in Page : u # t => Walk(x.mem, u, q) = Walk(s.mem, u, q)
    /\ \A q \in Page :
          \/ Walk(x.mem, t, q) = Walk(s.mem, t, q)
          \/ Walk(x.mem, t, q) \in s.free
          \/ StackPage <= q /\ Walk(x.mem, t, q) = KernelFrame(q)

\* The frames that a failed reserve makes of the stack are none of the
\* allocator's.
LEMMA KernelFrames ==
    /\ \A g \in NOMEM .. NOMEM + PagesFor(StackSize) - 1 : g \in Frame /\ g < 0
    /\ \A q \in Page : StackPage <= q => KernelFrame(q) < 0 /\ KernelFrame(q) \in Int
<1>1. /\ PagesFor(StackSize) = StackPages /\ StackPage \in Nat
      /\ StackPage + StackPages = W * W * W
  BY StackSizes
<1>2. W * W * W \in Nat
  BY SizesAssumption, SMT
<1>3. \A q \in Page : q \in Nat /\ q < StackPage + StackPages
  BY <1>1, <1>2 DEF Page
<1>4. QED
  BY <1>1, <1>3, FrameRange DEF KernelFrame

\* exec does that, unless the kernel has already panicked.
LEMMA AddStackAdds ==
    ASSUME NEW s, NEW T \in SUBSET Frame, NEW t \in T, Good(s, T, {})
    PROVE  StackAdded(s, AddStack(s, t), T, t)
<1> DEFINE r == Reserve(s, StackSize)
           x == MapRegion(r.st, t, StackPage, StackSize, r.frame)
           S == StackPage .. StackPage + PagesFor(StackSize) - 1
<1>1. AddStack(s, t) = IF s.halted THEN s ELSE x
  BY DEF AddStack, StackSize
<1>2. CASE s.halted
  BY <1>1, <1>2 DEF StackAdded
<1>3. /\ StackPage + PagesFor(StackSize) <= W * W * W
      /\ StackSize \in Nat /\ StackPage \in Nat /\ PagesFor(StackSize) \in Nat
  BY StackSizes, FrameRange, SizesAssumption
<1>4. CASE ~s.halted /\ r.frame # NOMEM
  <2>1. \A n \in RunLengths : Fits(n, StackSize) => PagesFor(StackSize) <= n
    BY SizesAssumption, StackSizes DEF Fits
  <2>2. Given(s, x, T, t, S)
    BY <1>3, <1>4, <2>1, ReserveMapGives
  <2> HIDE DEF x, S
  <2>3. StackAdded(s, x, T, t)
    BY <2>2, <1>4 DEF Given, StackAdded
  <2>4. QED
    BY <2>3, <1>1, <1>4
<1>5. CASE ~s.halted /\ r.frame = NOMEM
  <2>1. r.st = s
    <3>1. s \in State
      BY DEF Good
    <3>2. \A f \in s.free : f # NOMEM
      BY <3>1, NomemNoFrame
    <3>3. QED
      BY <3>1, <3>2, <1>3, <1>5, ReserveTakes
  <2>2. x = MapRegion(s, t, StackPage, StackSize, NOMEM)
    BY <2>1, <1>5
  <2>3. \A g \in NOMEM .. NOMEM + PagesFor(StackSize) - 1 : g \in Frame /\ (g <= 0 \/ g \in {})
    BY KernelFrames, FrameRange, <1>3
  <2>4. Maps(s, MapRegion(s, t, StackPage, StackSize, NOMEM), T, t, StackPage,
             PagesFor(StackSize), NOMEM)
    <3>1. {} \in SUBSET Frame /\ NOMEM \in Int
      BY FrameRange
    <3>2. QED
      BY <3>1, <2>3, <1>3, <1>5, MapRegionMaps
  <2>5. Maps(s, x, T, t, StackPage, PagesFor(StackSize), NOMEM)
    BY <2>2, <2>4
  <2> HIDE DEF x
  <2>6. ASSUME NEW q \in Page
        PROVE  \/ Walk(x.mem, t, q) = Walk(s.mem, t, q)
               \/ StackPage <= q /\ Walk(x.mem, t, q) = KernelFrame(q)
    <3>1. CASE q \in S
      <4>1. StackPage <= q
        BY <3>1, <1>3
      <4>2. QED
        BY <3>1, <4>1, <2>5 DEF Maps, KernelFrame
    <3>2. CASE q \notin S
      BY <3>2, <2>5 DEF Maps
    <3>3. QED
      BY <3>1, <3>2
  <2>7. StackAdded(s, x, T, t)
    BY <2>5, <2>6, <1>5 DEF Maps, StackAdded
  <2>8. QED
    BY <2>7, <1>1, <1>5
<1>6. QED
  BY <1>2, <1>4, <1>5

\* A frame of the allocator that a page is mapped to is not free,
LEMMA WalkInUse ==
    ASSUME NEW s, NEW T \in SUBSET Frame, NEW R, Good(s, T, R), NEW t \in T, NEW p \in Page,
           Walk(s.mem, t, p) > 0
    PROVE  Walk(s.mem, t, p) \in Frame /\ Walk(s.mem, t, p) \notin s.free
<1>1. s.mem \in Memory /\ Sound(s.mem, s.free, T, R) /\ t \in Frame
  BY DEF Good, State
<1>2. I2(p) \in Index /\ LeafOf(s.mem, t, p) \in Frame /\ s.mem[LeafOf(s.mem, t, p)][I2(p)] \in Entry
  BY <1>1, WalkTypes
<1>3. Walk(s.mem, t, p) = s.mem[LeafOf(s.mem, t, p)][I2(p)].frame
  BY <1>1, WalkValue
<1>4. QED
  BY <1>1, <1>2, <1>3 DEF Sound, Unused, Entry

\* and no other page is mapped to it.
LEMMA WalkInjective ==
    ASSUME NEW s, NEW T \in SUBSET Frame, NEW R, Good(s, T, R),
           NEW t \in T, NEW p \in Page, NEW u \in T, NEW q \in Page,
           Walk(s.mem, t, p) = Walk(s.mem, u, q), Walk(s.mem, t, p) > 0
    PROVE  t = u /\ p = q
<1> DEFINE mem == s.mem
<1>1. mem \in Memory /\ Sound(mem, s.free, T, R) /\ t \in Frame /\ u \in Frame
  BY DEF Good, State
<1>2. /\ I2(p) \in Index /\ LeafOf(mem, t, p) \in Frame
      /\ I2(q) \in Index /\ LeafOf(mem, u, q) \in Frame
  BY <1>1, WalkTypes
<1>3. /\ Present(mem, t, p) /\ Walk(mem, t, p) = mem[LeafOf(mem, t, p)][I2(p)].frame
      /\ Present(mem, u, q) /\ Walk(mem, u, q) = mem[LeafOf(mem, u, q)][I2(q)].frame
  <2> HIDE DEF mem
  <2>1. /\ Walk(mem, t, p) = IF Present(mem, t, p) THEN mem[LeafOf(mem, t, p)][I2(p)].frame ELSE 0
        /\ Walk(mem, u, q) = IF Present(mem, u, q) THEN mem[LeafOf(mem, u, q)][I2(q)].frame ELSE 0
    BY <1>1, WalkValue
  <2>2. Walk(mem, t, p) > 0 /\ Walk(mem, u, q) > 0
    BY DEF mem
  <2>3. QED
    BY <2>1, <2>2
<1>4. LeafOf(mem, t, p) = LeafOf(mem, u, q) /\ I2(p) = I2(q)
  <2>1. /\ mem[LeafOf(mem, t, p)][I2(p)].frame = mem[LeafOf(mem, u, q)][I2(q)].frame
        /\ mem[LeafOf(mem, t, p)][I2(p)].frame > 0
    BY <1>3
  <2>2. OneUse(mem)
    BY <1>1 DEF Sound
  <2> HIDE DEF mem
  <2>3. QED
    BY <2>1, <2>2, <1>2 DEF OneUse
<1>5. QED
  BY <1>1, <1>3, <1>4, EntriesDiffer

-----------------------------------------------------------------------------
(* The inductive invariant *)

Spaces == {KernelTop} \cup Tops

\* The tables are sound and each space has a top table of its own.
TablesInv ==
    /\ Good(st, Spaces, {})
    /\ top \in Seq(1 .. NumFrames)
    /\ \A i, j \in DOMAIN top : top[i] = top[j] => i = j
    /\ active \in 0 .. Len(top)

\* The tops of the spaces are frames.
LEMMA SpacesFrames ==
    ASSUME TablesInv
    PROVE  /\ Spaces \in SUBSET Frame /\ KernelTop \in Spaces /\ KernelTop = 0
           /\ \A i \in DOMAIN top : top[i] \in Spaces /\ top[i] # 0 /\ top[i] \in 1 .. NumFrames
           /\ DOMAIN top = 1 .. Len(top) /\ Len(top) \in Nat
<1>1. \A i \in DOMAIN top : top[i] \in 1 .. NumFrames
  <2> DEFINE D == 1 .. NumFrames
  <2>1. top \in Seq(D)
    BY DEF TablesInv
  <2> HIDE DEF D
  <2>2. \A i \in DOMAIN top : top[i] \in D
    BY <2>1
  <2>3. QED
    BY <2>2 DEF D
<1>2. DOMAIN top = 1 .. Len(top) /\ Len(top) \in Nat
  BY DEF TablesInv
<1>3. \A i \in DOMAIN top : top[i] \in Spaces
  BY DEF Spaces, Tops
<1>4. Spaces \in SUBSET Frame
  BY <1>1, FrameRange DEF Spaces, Tops, KernelTop
<1>5. QED
  BY <1>1, <1>2, <1>3, <1>4, SizesAssumption DEF Spaces, KernelTop

\* At first there are no tables.
LEMMA TablesInit == ASSUME Init PROVE TablesInv
<1>1. /\ st.mem = [f \in Frame |-> Empty] /\ st.free = 1 .. NumFrames /\ st.halted = FALSE
      /\ st = [mem |-> st.mem, free |-> st.free, halted |-> st.halted]
  BY DEF Init
<1>2. /\ \A f \in Frame : \A i \in Index : st.mem[f][i] = Absent
      /\ st.mem \in [Frame -> [Index -> {Absent}]]
  BY <1>1 DEF Empty, Index
<1>3. Absent \in Entry /\ Absent.frame = 0 /\ Absent.kind = "absent"
  BY EntryForms
<1>4. st.mem \in Memory
  BY <1>2, <1>3 DEF Memory
<1>5. st \in State
  BY <1>1, <1>4 DEF State
<1>6. top = <<>> /\ active = 0 /\ Spaces = {0} /\ 0 \in Frame
  BY FrameRange DEF Init, Spaces, Tops, KernelTop
<1>7. Sound(st.mem, st.free, {0}, {})
  <2>1. Linked(st.mem, {0})
    BY <1>2, <1>3, <1>6 DEF Linked, Links
  <2>2. st.free \subseteq Frame /\ 0 \notin st.free
    BY <1>1, FrameRange
  <2>3. QED
    BY <2>1, <2>2, <1>2, <1>3 DEF Sound, OneUse, Unused
<1>8. Good(st, Spaces, {})
  BY <1>5, <1>6, <1>7 DEF Good
<1>9. QED
  BY <1>1, <1>6, <1>8 DEF TablesInv

\* A step of mmap or munmap in the active space.
MapStep ==
    /\ active # 0 /\ active \in DOMAIN top /\ Changed(st, st', Spaces, top[active])
    /\ UNCHANGED <<top, active>>

\* A panic while exec makes the top table.
PanicStep ==
    /\ Good(st', Spaces, {}) /\ st'.free \subseteq st.free
    /\ SameViews(st.mem, st'.mem, Spaces)
    /\ UNCHANGED <<top, active>>

\* A new space with top table f.
StartStep(f) ==
    /\ Good(st', Spaces \cup {f}, {}) /\ st'.free \subseteq st.free
    /\ SameViews(st.mem, st'.mem, Spaces)
    /\ \A q \in Page : \/ Walk(st'.mem, f, q) \in {0} \cup st.free
                       \/ StackPage <= q /\ Walk(st'.mem, f, q) = KernelFrame(q)
    /\ top' = Append(top, f) /\ active' = Len(top) + 1

\* It has all the program's pages, unless memory is missing or the kernel panics.
HasImage(program, f) ==
    \/ st'.halted \/ NoMemoryFor(program, st')
    \/ \A q \in Page : Covered(program, Len(program), q) => Walk(st'.mem, f, q) # 0

\* mmap
LEMMA MmapSteps ==
    ASSUME TablesInv, NEW p \in MapPages, NEW size \in MapSizes, Mmap(p, size)
    PROVE  MapStep
<1> DEFINE r == Reserve(st, size)
           t == top[active]
<1>1. /\ ~st.halted /\ active # 0 /\ UNCHANGED <<top, active>>
      /\ st' = IF r.frame = NOMEM THEN st ELSE MapRegion(r.st, t, p, size, r.frame)
  BY DEF Mmap
<1>2. active \in DOMAIN top /\ t \in Spaces /\ Spaces \in SUBSET Frame
  BY <1>1, SpacesFrames DEF TablesInv
<1>3. p \in Nat /\ size \in Nat /\ p + PagesFor(size) <= W * W * W
  BY MapAssumption
<1>4. Good(st, Spaces, {})
  BY DEF TablesInv
<1> HIDE DEF t
<1>5. Changed(st, st', Spaces, t)
  <2>1. CASE r.frame = NOMEM
    <3>1. st' = st
      BY <2>1, <1>1
    <3>2. Changed(st, st, Spaces, t)
      BY <1>4 DEF Changed, TablesInv
    <3>3. QED
      BY <3>1, <3>2
  <2>2. CASE r.frame # NOMEM
    <3>1. \A n \in RunLengths : Fits(n, size) => PagesFor(size) <= n
      BY <1>3, PagesForNat, SizesAssumption DEF Fits
    <3>2. Given(st, MapRegion(r.st, t, p, size, r.frame), Spaces, t, p .. p + PagesFor(size) - 1)
      BY <2>2, <3>1, <1>1, <1>2, <1>3, <1>4, ReserveMapGives
    <3>3. st' = MapRegion(r.st, t, p, size, r.frame)
      BY <1>1, <2>2
    <3>4. QED
      BY <3>2, <3>3, <1>2, GivenChanges
  <2>3. QED
    BY <2>1, <2>2
<1>6. QED
  BY <1>1, <1>2, <1>5 DEF MapStep, t

\* munmap
LEMMA MunmapSteps ==
    ASSUME TablesInv, NEW p \in MapPages, NEW size \in MapSizes, Munmap(p, size)
    PROVE  MapStep
<1> DEFINE t == top[active]
           N == PagesFor(size)
           x == UnmapRegion(st, t, p, size)
<1>1. ~st.halted /\ active # 0 /\ UNCHANGED <<top, active>> /\ st' = x
  BY DEF Munmap
<1>2. active \in DOMAIN top /\ t \in Spaces /\ Spaces \in SUBSET Frame
  BY <1>1, SpacesFrames DEF TablesInv
<1>3. p \in Nat /\ size \in Nat /\ p + N <= W * W * W
  BY MapAssumption
<1>4. Good(st, Spaces, {})
  BY DEF TablesInv
<1> HIDE DEF t
<1>5. Unmaps(st, x, Spaces, t, p, N)
  BY <1>1, <1>2, <1>3, <1>4, UnmapRegionUnmaps
<1> HIDE DEF x, N
<1>6. Changed(st, x, Spaces, t)
  <2>2. \A q \in Page : Walk(x.mem, t, q) \in {0, Walk(st.mem, t, q)}
    BY <1>2, <1>5 DEF Unmaps
  <2>3. QED
    BY <2>2, <1>5 DEF Unmaps, Changed
<1>7. QED
  BY <1>1, <1>2, <1>6 DEF MapStep, t

\* exec
LEMMA ExecSteps ==
    ASSUME TablesInv, NEW program \in Programs, Exec(program)
    PROVE  PanicStep \/ \E f \in st.free : StartStep(f) /\ HasImage(program, f)
<1> DEFINE r == Reserve(st, PageSize)
           f == r.frame
           a == InitializeTopTable(r.st, f)
           b == BuildProgramImage(a, f, program)
           T == Spaces \cup {f}
<1>1. /\ ~st.halted
      /\ IF f = NOMEM THEN st' = [st EXCEPT !.halted = TRUE] /\ UNCHANGED <<top, active>>
         ELSE IF a.halted THEN st' = a /\ UNCHANGED <<top, active>>
         ELSE st' = AddStack(b, f) /\ top' = Append(top, f) /\ active' = Len(top) + 1
  BY DEF Exec
<1>2. /\ Good(st, Spaces, {}) /\ st \in State
      /\ Spaces \in SUBSET Frame /\ KernelTop \in Spaces
  BY SpacesFrames DEF TablesInv, Good
<1>3. PageSize \in Nat /\ PageSize # 0
  BY OnePage
<1>4. CASE f = NOMEM
  <2>3. st' = [st EXCEPT !.halted = TRUE] /\ UNCHANGED <<top, active>>
    BY <1>1, <1>4
  <2>4. st' \in State /\ st'.mem = st.mem /\ st'.free = st.free
    BY <2>3, <1>2 DEF State
  <2>5. Good(st', Spaces, {}) /\ SameViews(st.mem, st'.mem, Spaces)
    BY <2>4, <1>2 DEF Good, SameViews
  <2>7. PanicStep
    BY <2>3, <2>4, <2>5 DEF PanicStep
  <2>8. QED
    BY <2>7
<1>5. CASE f # NOMEM
  <2>1. PICK n \in RunLengths : Took(st, r.st, Spaces, PageSize, f, n)
    BY <1>2, <1>3, <1>5, ReserveGood
  <2>2. /\ f \in st.free /\ Fits(n, PageSize) /\ r.st.mem = st.mem /\ r.st.halted = st.halted
        /\ r.st.free \subseteq st.free /\ f .. f + n - 1 \subseteq st.free
        /\ Good(r.st, Spaces, f .. f + n - 1)
    BY <2>1 DEF Took
  <2>3. f \in Frame /\ f > 0 /\ f \in Nat
    BY <2>2, <1>2, NomemNoFrame, FrameRange
  <2>4. f .. f + n - 1 = {f}
    BY <2>2, <2>3, OnePage
  <2>5. NewSpace(r.st, InitializeTopTable(r.st, f), Spaces, f)
    <3> DEFINE z == r.st
    <3>1. Good(z, Spaces, {f}) /\ {f} \in SUBSET Frame /\ ~z.halted
      BY <2>2, <2>3, <2>4, <1>1
    <3> HIDE DEF z, f
    <3>2. NewSpace(z, InitializeTopTable(z, f), Spaces, f)
      BY <3>1, <2>3, <1>2, TopTableInitialized
    <3>3. QED
      BY <3>2 DEF z
  <2>6. /\ a \in State /\ a.free \subseteq st.free /\ SameViews(st.mem, a.mem, Spaces)
        /\ IF a.halted THEN Good(a, Spaces, {})
           ELSE Good(a, Spaces \cup {f}, {}) /\ NoPages(a.mem, f)
    BY <2>2, <2>5 DEF NewSpace
  <2> HIDE DEF a, b, f, r
  <2>7. CASE a.halted
    <3>1. st' = a /\ UNCHANGED <<top, active>>
      BY <2>7, <1>1, <1>5
    <3>3. PanicStep
      BY <3>1, <2>6, <2>7 DEF PanicStep
    <3>4. QED
      BY <3>3
  <2>8. CASE ~a.halted
    <3>1. /\ st' = AddStack(b, f) /\ top' = Append(top, f) /\ active' = Len(top) + 1
      BY <2>8, <1>1, <1>5
    <3>2. program \in Seq(Section) /\ Loadable(program)
      BY ProgramsAssumption
    <3>3. T \in SUBSET Frame /\ f \in T /\ Good(a, T, {}) /\ NoPages(a.mem, f) /\ Spaces \subseteq T
      BY <2>3, <2>6, <2>8, <1>2
    <3>4. f \notin Spaces
      BY <2>2, <1>2 DEF Good, Sound
    <3> HIDE DEF T
    <3>5. Image(a, b, T, f, program)
      BY <3>2, <3>3, <2>8, BuildProgramImageBuilds DEF b
    <3>6. /\ Good(b, T, {}) /\ b.free \subseteq a.free
          /\ \A u \in T : \A q \in Page : u # f => Walk(b.mem, u, q) = Walk(a.mem, u, q)
          /\ \A q \in Page : Walk(b.mem, f, q) # 0 => Walk(b.mem, f, q) \in a.free
          /\ \/ b.halted \/ NoMemoryFor(program, b)
             \/ \A q \in Page : Walk(b.mem, f, q) # 0 <=> Covered(program, Len(program), q)
      BY <3>5 DEF Image
    <3>7. StackAdded(b, AddStack(b, f), T, f)
      BY <3>3, <3>6, AddStackAdds
    <3>8. /\ Good(st', T, {}) /\ st'.free \subseteq b.free /\ (b.halted => st'.halted)
          /\ \A u \in T : \A q \in Page : u # f => Walk(st'.mem, u, q) = Walk(b.mem, u, q)
          /\ \A q \in Page : \/ Walk(st'.mem, f, q) = Walk(b.mem, f, q)
                             \/ Walk(st'.mem, f, q) \in b.free
                             \/ StackPage <= q /\ Walk(st'.mem, f, q) = KernelFrame(q)
      BY <3>1, <3>7 DEF StackAdded
    <3>9. st'.free \subseteq st.free
      BY <2>6, <3>6, <3>8
    <3>10. \A q \in Page : \/ Walk(st'.mem, f, q) \in {0} \cup st.free
                           \/ StackPage <= q /\ Walk(st'.mem, f, q) = KernelFrame(q)
      BY <2>6, <3>6, <3>8
    <3>11. SameViews(st.mem, st'.mem, Spaces)
      BY <2>6, <3>3, <3>4, <3>6, <3>8 DEF SameViews
    <3>12. StartStep(f)
      BY <3>1, <3>8, <3>9, <3>10, <3>11 DEF StartStep, T
    <3>13. HasImage(program, f)
      <4>1. NoMemoryFor(program, b) => NoMemoryFor(program, st')
        <5>1. \A size : FreeRuns(st', size) \subseteq FreeRuns(b, size)
          BY <3>8, FewerRuns
        <5>2. QED
          BY <5>1 DEF NoMemoryFor
      <4>2. ASSUME NEW q \in Page, Walk(b.mem, f, q) # 0 PROVE Walk(st'.mem, f, q) # 0
        <5>1. \A g \in b.free : g # 0
          BY <3>6, NomemNoFrame DEF Good
        <5>2. StackPage <= q => KernelFrame(q) # 0
          BY KernelFrames
        <5>3. QED
          BY <4>2, <5>1, <5>2, <3>8
      <4>3. QED
        BY <4>1, <4>2, <3>6, <3>8 DEF HasImage
    <3>14. QED
      BY <3>12, <3>13, <2>2
  <2>9. QED
    BY <2>7, <2>8
<1>6. QED
  BY <1>4, <1>5

\* Every step is one of these.
LEMMA NextSteps ==
    ASSUME TablesInv, Next
    PROVE  \/ PanicStep
           \/ \E f \in st.free : StartStep(f)
           \/ MapStep
           \/ active' \in DOMAIN top /\ UNCHANGED <<st, top>>
<1>1. ASSUME NEW program \in Programs, Exec(program)
      PROVE  PanicStep \/ \E f \in st.free : StartStep(f)
  BY <1>1, ExecSteps
<1>2. ASSUME NEW s \in 1 .. MaxSpaces, Switch(s)
      PROVE  active' \in DOMAIN top /\ UNCHANGED <<st, top>>
  BY <1>2 DEF Switch
<1>3. ASSUME NEW p \in MapPages, NEW size \in MapSizes, Mmap(p, size)
      PROVE  MapStep
  BY <1>3, MmapSteps
<1>4. ASSUME NEW p \in MapPages, NEW size \in MapSizes, Munmap(p, size)
      PROVE  MapStep
  BY <1>4, MunmapSteps
<1>5. QED
  BY <1>1, <1>2, <1>3, <1>4 DEF Next

\* The invariant is inductive.
LEMMA TablesNext == ASSUME TablesInv, [Next]_vars PROVE TablesInv'
<1>1. /\ DOMAIN top = 1 .. Len(top) /\ Len(top) \in Nat /\ top \in Seq(1 .. NumFrames)
      /\ \A i, j \in DOMAIN top : top[i] = top[j] => i = j
      /\ Good(st, Spaces, {}) /\ active \in 0 .. Len(top)
  BY SpacesFrames DEF TablesInv
<1>2. top' = top => Spaces' = Spaces
  BY DEF Spaces, Tops
<1>3. CASE UNCHANGED vars
  BY <1>3 DEF vars, TablesInv, Spaces, Tops
<1>4. CASE active' \in DOMAIN top /\ UNCHANGED <<st, top>>
  <2>1. st' = st /\ top' = top /\ active' \in 0 .. Len(top)
    BY <1>1, <1>4
  <2>2. QED
    BY <2>1, <1>1, <1>2 DEF TablesInv
<1>5. CASE MapStep
  <2>1. /\ top' = top /\ active' = active /\ Good(st', Spaces, {})
    BY <1>5 DEF MapStep, Changed
  <2>2. QED
    BY <2>1, <1>1, <1>2 DEF TablesInv
<1>6. CASE PanicStep
  <2>1. /\ top' = top /\ active' = active /\ Good(st', Spaces, {})
    BY <1>6 DEF PanicStep
  <2>2. QED
    BY <2>1, <1>1, <1>2 DEF TablesInv
<1>7. ASSUME NEW f \in st.free, StartStep(f)
      PROVE  TablesInv'
  <2>1. /\ Good(st', Spaces \cup {f}, {}) /\ top' = Append(top, f) /\ active' = Len(top) + 1
    BY <1>7 DEF StartStep
  <2>2. f \in 1 .. NumFrames
    BY <1>1 DEF Good, State
  <2>3. \A i \in DOMAIN top : top[i] # f
    BY <1>1 DEF Good, Sound, Spaces, Tops
  <2>4. /\ top' \in Seq(1 .. NumFrames) /\ Len(top') = Len(top) + 1
        /\ DOMAIN top' = 1 .. Len(top) + 1
        /\ \A i \in DOMAIN top : top'[i] = top[i]
        /\ top'[Len(top) + 1] = f
    BY <2>1, <2>2, <1>1
  <2>5. DOMAIN top' = DOMAIN top \cup {Len(top) + 1}
    BY <2>4, <1>1
  <2>6. Spaces' = Spaces \cup {f}
    BY <2>4, <2>5 DEF Spaces, Tops
  <2>7. \A i, j \in DOMAIN top' : top'[i] = top'[j] => i = j
    BY <2>3, <2>4, <2>5, <1>1
  <2>8. active' \in 0 .. Len(top')
    BY <2>1, <2>4, <1>1
  <2>9. QED
    BY <2>1, <2>4, <2>6, <2>7, <2>8 DEF TablesInv
<1>8. CASE Next
  BY <1>4, <1>5, <1>6, <1>7, <1>8, NextSteps
<1>9. QED
  BY <1>3, <1>8

\* TablesInv holds in every reachable state.
THEOREM TablesInvariant == Spec => []TablesInv
<1>1. Init => TablesInv
  BY TablesInit
<1>2. TablesInv /\ [Next]_vars => TablesInv'
  BY TablesNext
<1>3. QED
  BY <1>1, <1>2, PTL DEF Spec

\* Every frame that the allocator has handed out has one use, whatever programs are
\* started and whatever they map: setPageEntry, the fault handler and
\* initializeTopTable never link one frame twice, nor a frame that is free, also
\* when reserve fails half way.
THEOREM FramesHaveOneUseCorrect == Spec => []FramesHaveOneUse
<1>1. ASSUME TablesInv PROVE FramesHaveOneUse
  <2>1. /\ OneUse(st.mem) /\ Unused(st.mem, st.free) /\ Unused(st.mem, Spaces)
        /\ st.free \cap Spaces = {} /\ Tops \subseteq Spaces
    BY <1>1 DEF TablesInv, Good, Sound, Spaces
  <2>2. \A e \in Entries : /\ e[1] \in Frame /\ e[2] \in Index /\ e = <<e[1], e[2]>>
                           /\ st.mem[e[1]][e[2]].frame > 0
    BY DEF Entries, Index
  <2>3. ASSUME NEW e1 \in Entries, NEW e2 \in Entries,
               st.mem[e1[1]][e1[2]].frame = st.mem[e2[1]][e2[2]].frame
        PROVE  e1 = e2
    <3>1. e1[1] = e2[1] /\ e1[2] = e2[2]
      BY <2>1, <2>2, <2>3 DEF OneUse
    <3>2. QED
      BY <3>1, <2>2
  <2>4. \A e \in Entries : st.mem[e[1]][e[2]].frame \notin st.free \union Tops
    BY <2>1, <2>2 DEF Unused
  <2>5. \A s, t \in DOMAIN top : top[s] = top[t] => s = t
    BY <1>1 DEF TablesInv
  <2>6. QED
    BY <2>1, <2>3, <2>4, <2>5 DEF FramesHaveOneUse
<1>2. QED
  BY <1>1, TablesInvariant, PTL

\* A program starts with every page of its sections mapped, unless reserve fails
\* for one of them: buildProgramImage leaves out neither the page that a section
\* shares with the one before it nor the page it ends in.
THEOREM ImageMappedCorrect == Spec => ImageMapped
<1>1. ASSUME TablesInv, NEW program \in Programs, Exec(program), top' # top, ~st'.halted
      PROVE  \/ \A i \in Loads(program) : \A p \in SectionPages(program[i]) :
                   GetPageFrame(st', top'[active'], p) # NoFrame
             \/ \E i \in Loads(program) : Reserve(st', program[i].memsize).frame = NOMEM
  <2>1. PICK f \in st.free : StartStep(f) /\ HasImage(program, f)
    BY <1>1, ExecSteps DEF PanicStep
  <2>2. /\ top' = Append(top, f) /\ active' = Len(top) + 1
        /\ Good(st', Spaces \cup {f}, {})
    BY <2>1 DEF StartStep
  <2>3. top'[active'] = f
    BY <2>2, <1>1 DEF TablesInv
  <2>4. program \in Seq(Section) /\ Loadable(program)
    BY ProgramsAssumption
  <2>5. \A i \in Loads(program) :
           /\ i \in 1 .. Len(program) /\ program[i].memsize \in Nat
           /\ SectionPages(program[i]) \subseteq Page
    <3>1. \A i \in Loads(program) : i \in DOMAIN program /\ program[i] \in Section
      BY <2>4 DEF Loads
    <3>2. QED
      BY <3>1, <2>4 DEF Loadable, Section
  <2>6. CASE NoMemoryFor(program, st')
    <3>1. st' \in State
      BY <2>2 DEF Good
    <3>2. PICK i \in Loads(program) :
             program[i].memsize = 0 \/ FreeRuns(st', program[i].memsize) = {}
      BY <2>6 DEF NoMemoryFor
    <3>3. Reserve(st', program[i].memsize).frame = NOMEM
      BY <3>1, <3>2, <2>5, ReserveFails
    <3>4. QED
      BY <3>3
  <2>7. CASE \A q \in Page : Covered(program, Len(program), q) => Walk(st'.mem, f, q) # 0
    <3>1. ASSUME NEW i \in Loads(program), NEW p \in SectionPages(program[i])
          PROVE  GetPageFrame(st', top'[active'], p) # NoFrame
      <4>1. p \in Page /\ Covered(program, Len(program), p)
        BY <2>5 DEF Covered
      <4>2. Walk(st'.mem, f, p) # 0
        BY <2>7, <4>1
      <4>3. QED
        BY <4>2, <2>3, GetPageFrameWalks DEF NoFrame
    <3>2. QED
      BY <3>1
  <2>8. QED
    BY <2>1, <2>6, <2>7, <1>1 DEF HasImage
<1>2. TablesInv =>
        [\A program \in Programs :
           Exec(program) /\ top' # top /\ ~st'.halted =>
             \/ \A i \in Loads(program) : \A p \in SectionPages(program[i]) :
                   GetPageFrame(st', top'[active'], p) # NoFrame
             \/ \E i \in Loads(program) : Reserve(st', program[i].memsize).frame = NOMEM]_vars
  BY <1>1
<1>3. QED
  BY <1>2, TablesInvariant, PTL DEF ImageMapped

-----------------------------------------------------------------------------
(* The refinement *)

\* The spaces as AddressSpaces sees them.
View(s, tops) == [i \in DOMAIN tops |-> [p \in Page |-> GetPageFrame(s, tops[i], p)]]

Shows(v, s, tops) ==
    /\ DOMAIN v = DOMAIN tops /\ DOMAIN tops = 1 .. Len(tops)
    /\ Len(tops) \in Nat /\ Len(v) = Len(tops)
    /\ \A i \in DOMAIN tops : v[i] = [p \in Page |-> Walk(s.mem, tops[i], p)]

\* A view is a sequence of walks.
LEMMA ViewWalks ==
    ASSUME NEW s, NEW D, NEW tops \in Seq(D)
    PROVE  Shows(View(s, tops), s, tops)
<1>1. DOMAIN tops = 1 .. Len(tops) /\ Len(tops) \in Nat
  OBVIOUS
<1>2. DOMAIN View(s, tops) = DOMAIN tops
  BY DEF View
<1>3. Len(View(s, tops)) = Len(tops)
  BY <1>1 DEF View
<1>4. \A t, p : GetPageFrame(s, t, p) = Walk(s.mem, t, p)
  BY GetPageFrameWalks
<1>5. \A i \in DOMAIN tops : View(s, tops)[i] = [p \in Page |-> Walk(s.mem, tops[i], p)]
  BY <1>4 DEF View
<1>6. QED
  BY <1>1, <1>2, <1>3, <1>5 DEF Shows

\* Frames that were free are in no space, so they are new in the one they are
\* given to.
LEMMA NewFrames ==
    ASSUME TablesInv, NEW T \in SUBSET Frame, Good(st', T, {}), NEW f \in T,
           NEW old, NEW new,
           \A p \in Page : new[p] = Walk(st'.mem, f, p),
           \A p \in Page : new[p] \in {0, old[p]} \cup st.free
    PROVE  Abs!GivesNewFrames(old, new)
<1> DEFINE given == {p \in Page : new[p] # old[p] /\ new[p] # 0}
<1>1. \A x \in Abs!Mapped : x \notin st.free
  <2>1. SUFFICES ASSUME NEW s \in DOMAIN top, NEW p \in Page
                 PROVE  View(st, top)[s][p] \notin st.free
    BY DEF Abs!Mapped, View
  <2>2. View(st, top)[s][p] = Walk(st.mem, top[s], p)
    <3>1. Shows(View(st, top), st, top)
      BY ViewWalks DEF TablesInv
    <3>2. QED
      BY <3>1 DEF Shows
  <2>3. top[s] \in Spaces /\ Spaces \in SUBSET Frame /\ Good(st, Spaces, {})
    BY SpacesFrames DEF TablesInv
  <2>4. \A g \in st.free : g > 0
    BY <2>3, NomemNoFrame DEF Good
  <2>5. QED
    BY <2>2, <2>3, <2>4, WalkInUse
<1>2. \A p \in given : new[p] \notin Abs!Mapped
  BY <1>1
<1>3. \A p, q \in given : new[p] = new[q] => p = q
  <2>1. SUFFICES ASSUME NEW p \in given, NEW q \in given, new[p] = new[q] PROVE p = q
    OBVIOUS
  <2>2. /\ p \in Page /\ q \in Page
        /\ Walk(st'.mem, f, p) = Walk(st'.mem, f, q) /\ Walk(st'.mem, f, p) \in st.free
    BY <2>1
  <2>3. Walk(st'.mem, f, p) > 0
    BY <2>2, NomemNoFrame DEF TablesInv, Good
  <2> HIDE DEF given
  <2>4. QED
    BY <2>2, <2>3, WalkInjective
<1>4. QED
  BY <1>2, <1>3 DEF Abs!GivesNewFrames

\* The views of a state and the next one.
LEMMA Views ==
    ASSUME TablesInv, TablesInv'
    PROVE  Shows(View(st, top), st, top) /\ Shows(View(st', top'), st', top')
<1>1. Shows(View(st, top), st, top)
  BY ViewWalks DEF TablesInv
<1>2. top' \in Seq(1 .. NumFrames)
  BY DEF TablesInv
<1>3. Shows(View(st', top'), st', top')
  BY <1>2, ViewWalks
<1>4. QED
  BY <1>1, <1>3

\* A space looks the same when no walk from its top table has changed.
LEMMA SameView ==
    ASSUME TablesInv, TablesInv', NEW i \in DOMAIN top, i \in DOMAIN top', top'[i] = top[i],
           \A p \in Page : Walk(st'.mem, top[i], p) = Walk(st.mem, top[i], p)
    PROVE  View(st', top')[i] = View(st, top)[i]
<1>1. /\ View(st, top)[i] = [p \in Page |-> Walk(st.mem, top[i], p)]
      /\ View(st', top')[i] = [p \in Page |-> Walk(st'.mem, top'[i], p)]
  BY Views DEF Shows
<1>2. QED
  BY <1>1

\* mmap and munmap give the active space new frames and change no other.
LEMMA MapRefines ==
    ASSUME TablesInv, TablesInv', MapStep
    PROVE  Abs!Map
<1> DEFINE v == View(st, top)
           w == View(st', top')
           t == top[active]
<1>1. /\ active # 0 /\ active \in DOMAIN top /\ top' = top /\ active' = active
      /\ Good(st', Spaces, {})
      /\ \A u \in Spaces : \A q \in Page : u # t => Walk(st'.mem, u, q) = Walk(st.mem, u, q)
      /\ \A q \in Page : Walk(st'.mem, t, q) \in {0, Walk(st.mem, t, q)} \cup st.free
  BY DEF MapStep, Changed
<1>2. /\ DOMAIN v = DOMAIN top /\ Len(v) = Len(top)
      /\ \A i \in DOMAIN top : v[i] = [p \in Page |-> Walk(st.mem, top[i], p)]
      /\ DOMAIN w = DOMAIN top /\ Len(w) = Len(top)
      /\ \A i \in DOMAIN top : w[i] = [p \in Page |-> Walk(st'.mem, top[i], p)]
  BY <1>1, Views DEF Shows
<1>3. /\ \A i \in DOMAIN top : top[i] \in Spaces
      /\ \A i, j \in DOMAIN top : top[i] = top[j] => i = j
      /\ Spaces \in SUBSET Frame
  BY SpacesFrames DEF TablesInv
<1>4. ASSUME NEW i \in DOMAIN top, i # active
      PROVE  w[i] = v[i]
  <2>1. \A p \in Page : Walk(st'.mem, top[i], p) = Walk(st.mem, top[i], p)
    BY <1>1, <1>3, <1>4
  <2>2. QED
    BY <2>1, <1>1, SameView
<1>5. Abs!GivesNewFrames(v[active], w[active])
  <2> DEFINE old == v[active]
             new == w[active]
  <2>1. \A p \in Page : old[p] = Walk(st.mem, t, p) /\ new[p] = Walk(st'.mem, t, p)
    BY <1>1, <1>2
  <2>2. \A p \in Page : new[p] \in {0, old[p]} \cup st.free
    BY <2>1, <1>1
  <2>3. t \in Spaces
    BY <1>1, <1>3
  <2> HIDE DEF old, new, t
  <2>4. Abs!GivesNewFrames(old, new)
    BY <2>1, <2>2, <2>3, <1>1, <1>3, NewFrames
  <2>5. QED
    BY <2>4 DEF old, new
<1>6. v = [s \in DOMAIN top |-> [p \in Page |-> GetPageFrame(st, top[s], p)]]
      /\ w = [s \in DOMAIN top' |-> [p \in Page |-> GetPageFrame(st', top'[s], p)]]
  BY DEF View
<1> HIDE DEF v, w
<1>7. Abs!OthersKept(active)
  BY <1>2, <1>4, <1>6 DEF Abs!OthersKept
<1>8. QED
  BY <1>1, <1>2, <1>5, <1>6, <1>7 DEF Abs!Map

\* exec makes a space of new frames.
LEMMA StartRefines ==
    ASSUME TablesInv, TablesInv', NEW f \in st.free, StartStep(f)
    PROVE  Abs!Exec
<1> DEFINE v == View(st, top)
           w == View(st', top')
           n == Len(top) + 1
<1>1. /\ Good(st', Spaces \cup {f}, {}) /\ SameViews(st.mem, st'.mem, Spaces)
      /\ \A q \in Page : \/ Walk(st'.mem, f, q) \in {0} \cup st.free
                         \/ StackPage <= q /\ Walk(st'.mem, f, q) = KernelFrame(q)
      /\ top' = Append(top, f) /\ active' = n
  BY DEF StartStep
<1>2. /\ top \in Seq(1 .. NumFrames) /\ Len(top) \in Nat /\ DOMAIN top = 1 .. Len(top)
      /\ \A i \in DOMAIN top : top[i] \in Spaces
      /\ Spaces \in SUBSET Frame /\ f \in Frame
  BY SpacesFrames, NomemNoFrame DEF TablesInv, Good
<1>3. /\ Len(top') = n /\ DOMAIN top' = 1 .. n /\ top'[n] = f
      /\ \A i \in DOMAIN top : i \in DOMAIN top' /\ top'[i] = top[i]
  BY <1>1, <1>2
<1>4. /\ DOMAIN v = DOMAIN top /\ Len(v) = Len(top) /\ Len(w) = n
      /\ w[n] = [p \in Page |-> Walk(st'.mem, f, p)]
  <2>1. n \in DOMAIN top'
    BY <1>2, <1>3
  <2>2. QED
    BY <2>1, <1>3, Views DEF Shows
<1>5. ASSUME NEW i \in DOMAIN top PROVE w[i] = v[i]
  <2>1. \A p \in Page : Walk(st'.mem, top[i], p) = Walk(st.mem, top[i], p)
    BY <1>1, <1>2 DEF SameViews
  <2>2. QED
    BY <2>1, <1>3, SameView
<1>6. Abs!GivesNewFrames(Abs!Fresh(w[n]), w[n])
  <2> DEFINE old == Abs!Fresh(w[n])
             new == w[n]
             T == Spaces \cup {f}
  <2>1. \A p \in Page : new[p] = Walk(st'.mem, f, p)
    BY <1>4
  <2>2. \A p \in Page : new[p] \in {0, old[p]} \cup st.free
    <3>1. \A p \in Page : StackPage <= p => p \in StackPage .. W * W * W - 1
      BY StackSizes DEF Page
    <3>2. ASSUME NEW p \in Page, StackPage <= p, new[p] = KernelFrame(p) PROVE old[p] = new[p]
      <4> HIDE DEF w
      <4>1. QED
        BY <3>1, <3>2 DEF Abs!Fresh, KernelFrame
    <3>3. QED
      BY <3>2, <2>1, <1>1
  <2>3. T \in SUBSET Frame /\ f \in T /\ Good(st', T, {})
    BY <1>1, <1>2
  <2> HIDE DEF old, new, T
  <2>4. Abs!GivesNewFrames(old, new)
    BY <2>1, <2>2, <2>3, NewFrames
  <2>5. QED
    BY <2>4 DEF old, new
<1>7. v = [s \in DOMAIN top |-> [p \in Page |-> GetPageFrame(st, top[s], p)]]
      /\ w = [s \in DOMAIN top' |-> [p \in Page |-> GetPageFrame(st', top'[s], p)]]
  BY DEF View
<1> HIDE DEF v, w
<1>8. Abs!OthersKept(active')
  BY <1>4, <1>5, <1>7 DEF Abs!OthersKept
<1>9. QED
  BY <1>1, <1>4, <1>6, <1>7, <1>8 DEF Abs!Exec

\* A step of the tables is a step of the address spaces or none.
LEMMA StepRefines ==
    ASSUME TablesInv, TablesInv', [Next]_vars
    PROVE  [Abs!Next]_(Abs!absVars)
<1> DEFINE v == View(st, top)
           w == View(st', top')
<1>1. v = [s \in DOMAIN top |-> [p \in Page |-> GetPageFrame(st, top[s], p)]]
      /\ w = [s \in DOMAIN top' |-> [p \in Page |-> GetPageFrame(st', top'[s], p)]]
  BY DEF View
<1>2. DOMAIN v = DOMAIN top /\ DOMAIN w = DOMAIN top'
  BY DEF View
<1>3. v = [i \in DOMAIN top |-> v[i]] /\ w = [i \in DOMAIN top' |-> w[i]]
  BY DEF View
<1>4. CASE UNCHANGED vars
  BY <1>4 DEF vars, Abs!absVars
<1>5. CASE active' \in DOMAIN top /\ UNCHANGED <<st, top>>
  <2>1. active' \in DOMAIN v /\ w = v
    BY <1>2, <1>5
  <2> HIDE DEF v, w
  <2>2. Abs!Switch
    BY <2>1, <1>1 DEF Abs!Switch
  <2>3. QED
    BY <2>2 DEF Abs!Next
<1>6. CASE PanicStep
  <2>1. top' = top /\ active' = active /\ SameViews(st.mem, st'.mem, Spaces)
    BY <1>6 DEF PanicStep
  <2>2. ASSUME NEW i \in DOMAIN top PROVE w[i] = v[i]
    <3>1. top[i] \in Spaces
      BY SpacesFrames
    <3>2. \A p \in Page : Walk(st'.mem, top[i], p) = Walk(st.mem, top[i], p)
      BY <3>1, <2>1 DEF SameViews
    <3>3. QED
      BY <3>2, <2>1, SameView
  <2> HIDE DEF v, w
  <2>3. w = v
    BY <2>1, <2>2, <1>3
  <2>4. QED
    BY <2>1, <2>3, <1>1 DEF Abs!absVars
<1>7. CASE MapStep
  BY <1>7, MapRefines DEF Abs!Next
<1>8. ASSUME NEW f \in st.free, StartStep(f)
      PROVE  Abs!Next
  BY <1>8, StartRefines DEF Abs!Next
<1>9. CASE Next
  BY <1>5, <1>6, <1>7, <1>8, <1>9, NextSteps
<1>10. QED
  BY <1>4, <1>9

\* The translation tables implement the address spaces of mmap.h: map_region and
\* unmap_region change the pages of the active space only, and exec and mmap give
\* a program only frames that no space had, but for the stack of a program that
\* is started without memory for it, which shows the kernel's frames.
THEOREM ImplementsAddressSpacesCorrect == Spec => ImplementsAddressSpaces
<1>1. Init => Abs!Init
  BY DEF Init, Abs!Init
<1>2. TablesInv /\ TablesInv' /\ [Next]_vars => [Abs!Next]_(Abs!absVars)
  BY StepRefines
<1>3. QED
  BY <1>1, <1>2, TablesInvariant, PTL DEF Spec, ImplementsAddressSpaces, Abs!Spec
=============================================================================
