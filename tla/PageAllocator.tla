--------------------------- MODULE PageAllocator ---------------------------
(***************************************************************************)
(* The buddy allocator of physical pages (memory/pageallocator.cpp), built *)
(* from the memory map.  Block i of order k is the 2^k pages from page i;  *)
(* the circular list availList[k] of free blocks is the sequence avail[k], *)
(* first the block linkf points to, last the one linkb points to.          *)
(***************************************************************************)
EXTENDS MemoryMap

CONSTANTS BlockSize,     \* page_size
          EntrySize,     \* sizeof(Block)
          Width          \* bits of an unsigned long

\* 1UL << k.
Bit[k \in 0 .. Width] == IF k = 0 THEN 1 ELSE 2 * Bit[k - 1]

ASSUME PageAllocatorAssumption ==
  /\ BlockSize \in Nat \ {0}
  /\ Width \in Nat \ {0}
  /\ \E k \in 0 .. Width : EntrySize = Bit[k]

VARIABLES ready,         \* initMemory() has constructed the allocator
          maxKVal, avail, tag, kval, freeBlockCount,
          reserved       \* history: the blocks [index, k] in use by callers

pageVars == <<ready, maxKVal, avail, tag, kval, freeBlockCount, reserved>>

NOMEM == "NOMEM"
FREE == "free"
RESERVED == "reserved"

\* util/math.h: the logarithm rounded up.
llog2(x) == CHOOSE k \in 0 .. Width : Bit[k] >= x /\ \A j \in 0 .. k - 1 : Bit[j] < x

\* The index with bit k flipped.
Buddy(index, k) == IF (index \div Bit[k]) % 2 = 0 THEN index + Bit[k] ELSE index - Bit[k]
Pages(index, k) == index .. index + Bit[k] - 1

\* mapSize(): the bytes of the block map, from the end of the last available region.
LastAvailable(m) == CHOOSE i \in DOMAIN m : /\ m[i].type = AVAILABLE
                                            /\ \A j \in i + 1 .. Len(m) : m[j].type # AVAILABLE

MapSize(m) == Bit[llog2((EntrySize * End(m[LastAvailable(m)])) \div BlockSize)]

(***************************************************************************)
(* insert(): joins the block with its buddy as long as that is free and of *)
(* the same order, then puts the result at the front of its list.  s.a is  *)
(* a record of the allocator's fields, s.index and s.k the block.          *)
(***************************************************************************)
Joins(s) == /\ s.k < s.a.maxKVal
            /\ s.a.tag[Buddy(s.index, s.k)] = FREE /\ s.a.kval[Buddy(s.index, s.k)] = s.k

Unlink(list, b) == RemoveEntry(list, CHOOSE n \in DOMAIN list : list[n] = b)

JoinKeepsTag(s) ==
  LET b == Buddy(s.index, s.k) IN
  IF Joins(s) THEN [a     |-> [s.a EXCEPT !.avail[s.k] = Unlink(@, b)],
                    index |-> IF b < s.index THEN b ELSE s.index,
                    k     |-> s.k + 1]
  ELSE s

JoinNever(s) == s

Join(s) ==
  LET b == Buddy(s.index, s.k) IN
  IF Joins(s) THEN [a     |-> [s.a EXCEPT !.avail[s.k] = Unlink(@, b), !.tag[b] = RESERVED],
                    index |-> IF b < s.index THEN b ELSE s.index,
                    k     |-> s.k + 1]
  ELSE s

Put(s) == [s.a EXCEPT !.avail[s.k] = <<s.index>> \o @, !.tag[s.index] = FREE, !.kval[s.index] = s.k]

InsertBlock(a, index, k) ==
  LET joined[n \in 0 .. a.maxKVal] ==
        IF n = 0 THEN [a |-> [a EXCEPT !.freeBlockCount = @ + Bit[k]], index |-> index, k |-> k]
                 ELSE Join(joined[n - 1])
  IN  Put(joined[a.maxKVal])

(***************************************************************************)
(* The constructor: every page of an available region that lies wholly in  *)
(* it is inserted, lowest first.  The code counts each page twice, once in *)
(* insert() and once here.                                                 *)
(***************************************************************************)
FirstPageBelow(r) == r.location \div BlockSize

FirstPage(r) == (r.location + BlockSize - 1) \div BlockSize
LastPage(r)  == End(r) \div BlockSize - 1

Counted(a) == [a EXCEPT !.freeBlockCount = @ + 1]

InsertRegion(a, r) ==
  LET pages == IF LastPage(r) < FirstPage(r) THEN 0 ELSE LastPage(r) - FirstPage(r) + 1
      put[n \in 0 .. pages] ==
        IF n = 0 THEN a ELSE Counted(InsertBlock(put[n - 1], FirstPage(r) + n - 1, 0))
  IN  put[pages]

InsertAvailable(a, r) == IF r.type = AVAILABLE THEN InsertRegion(a, r) ELSE a

Entries(m) == MapSize(m) \div EntrySize

Empty(m) == [maxKVal |-> llog2(Entries(m)),
             avail   |-> [k \in 0 .. llog2(Entries(m)) |-> <<>>],
             tag     |-> [i \in 0 .. Entries(m) - 1 |-> RESERVED],
             kval    |-> [i \in 0 .. Entries(m) - 1 |-> 0],
             freeBlockCount |-> 0]

Construct(m) ==
  LET built[n \in 0 .. Len(m)] == IF n = 0 THEN Empty(m) ELSE InsertAvailable(built[n - 1], m[n])
  IN  built[Len(m)]

Fields == [maxKVal |-> maxKVal, avail |-> avail, tag |-> tag, kval |-> kval,
           freeBlockCount |-> freeBlockCount]

Become(a) ==
  /\ maxKVal' = a.maxKVal /\ avail' = a.avail /\ tag' = a.tag /\ kval' = a.kval
  /\ freeBlockCount' = a.freeBlockCount

(***************************************************************************)
(* reserve(): the last block of the first list that has one, split down to *)
(* the wanted order.  The upper half of each split becomes the only entry  *)
(* of its list.  size - 1 wraps for size 0.                                *)
(***************************************************************************)
Order(size) == llog2(((size - 1) % Bit[Width]) \div BlockSize + 1)

SplitKeepsOrder(a, block, j) ==
  LET buddy == block + Bit[j] IN
  [a EXCEPT !.avail[j] = <<buddy>>, !.tag[buddy] = FREE, !.kval[buddy] = j]

Split(a, block, j) ==
  LET buddy == block + Bit[j] IN
  [a EXCEPT !.avail[j] = <<buddy>>, !.tag[buddy] = FREE, !.kval = [@ EXCEPT ![buddy] = j, ![block] = j]]

SplitTo(a, block, j, k) ==
  LET split[n \in 0 .. j - k] == IF n = 0 THEN a ELSE Split(split[n - 1], block, j - n)
  IN  split[j - k]

Fitting(k) == {j \in k .. maxKVal : avail[j] # <<>>}

Take(a, block, j, k) ==
  [a EXCEPT !.avail[j] = Front(@), !.tag[block] = RESERVED, !.freeBlockCount = @ - Bit[k]]

Reserve(size) ==
  /\ ready
  /\ LET k == Order(size) IN
     IF Fitting(k) = {}
     THEN UNCHANGED <<maxKVal, avail, tag, kval, freeBlockCount, reserved>>       \* NOMEM
     ELSE LET j     == CHOOSE j \in Fitting(k) : \A i \in Fitting(k) : j <= i
              block == Last(avail[j])
          IN  /\ Become(SplitTo(Take(Fields, block, j, k), block, j, k))
              /\ reserved' = reserved \union {[index |-> block, k |-> k]}
  /\ UNCHANGED <<ready, mapVars>>

\* free(): by a caller that holds the block; its order is what reserve() recorded.
Free(r) ==
  /\ ready /\ r \in reserved
  /\ Become(InsertBlock(Fields, r.index, kval[r.index]))
  /\ reserved' = reserved \ {r}
  /\ UNCHANGED <<ready, mapVars>>

PageInit ==
  /\ ready = FALSE /\ maxKVal = 0 /\ avail = <<>> /\ tag = <<>> /\ kval = <<>>
  /\ freeBlockCount = 0 /\ reserved = {}

---------------------------------------------------------------------------
FreeOn(p)   == {k \in 0 .. maxKVal : \E n \in DOMAIN avail[k] : p \in Pages(avail[k][n], k)}
HeldOn(p)   == {r \in reserved : p \in Pages(r.index, r.k)}
Usable      == UNION {FirstPage(r) .. LastPage(r) : r \in {x \in ToSet(map) : x.type = AVAILABLE}}
FreePages   == {p \in DOMAIN tag : FreeOn(p) # {}}

(***************************************************************************)
(* Every page of available memory is in exactly one block, free or held,   *)
(* and no other page is in any: reserve() never hands a page out twice or  *)
(* one that is not there, free() never loses one, whatever is split and    *)
(* joined in between.                                                      *)
(***************************************************************************)
PagesPartitioned ==
  ready => \A p \in DOMAIN tag :
             Cardinality(FreeOn(p)) + Cardinality(HeldOn(p)) = (IF p \in Usable THEN 1 ELSE 0)

(***************************************************************************)
(* The tags insert() reads to find a free buddy agree with the lists       *)
(* reserve() takes from, and no block is listed twice.                     *)
(***************************************************************************)
TagsMatchLists ==
  ready => /\ \A i \in DOMAIN tag : (tag[i] = FREE) <=> \E k \in DOMAIN avail : i \in ToSet(avail[k])
           /\ \A k \in DOMAIN avail : \A n \in DOMAIN avail[k] :
                /\ kval[avail[k][n]] = k
                /\ \A m \in DOMAIN avail[k] : avail[k][m] = avail[k][n] => m = n

(***************************************************************************)
(* reserve() fails from fragmentation only: when an aligned run of 2^k     *)
(* pages is free, some list of order k or more has a block.                *)
(***************************************************************************)
FailsOnlyWhenFragmented ==
  ready => \A k \in 0 .. maxKVal : \A i \in {x \in DOMAIN tag : x % Bit[k] = 0} :
             Pages(i, k) \subseteq FreePages => Fitting(k) # {}
=============================================================================
