-------------------------------- MODULE Heap --------------------------------
(***************************************************************************)
(* The kernel heap (memory/heap.cpp, memory/new.cpp), word by word: a block*)
(* at address b is header b..b+2 (size in words, next free block, in-use   *)
(* flag), its data, and a footer of two words (size, flag).  Addresses are *)
(* word numbers from 1; 0 is the null pointer.  h is a record of the       *)
(* allocator's globals.                                                    *)
(***************************************************************************)
EXTENDS Integers, FiniteSets, TLC

CONSTANTS HeapWords,     \* mem_size / 8 given to init_heap
          Sizes,         \* byte counts callers ask for
          MaxWords,      \* bound: words of address space the heap can grow into
          MaxLive        \* bound: blocks in use at a time

VARIABLES h,             \* [mem, list, prev, cur, end]: memory and linked_list_start,
                         \* search_previous, search_current, heap_end
          live           \* history: <<pointer, bytes>> returned and not yet freed

vars == <<h, live>>

OVERHEAD == 5
WORD     == 8
Base     == 1
Null     == 0

ALIGN(n) == ((n + WORD - 1) \div WORD) * WORD

\* m with the words of the function w written over it.
Write(m, w) == [a \in DOMAIN m |-> IF a \in DOMAIN w THEN w[a] ELSE m[a]]
Set(s, a, v) == [s EXCEPT !.mem[a] = v]
NextFree(s, b)   == s.mem[b + 1]
After(s, b)  == b + s.mem[b] + OVERHEAD

\* init_heap(); memory beyond the heap holds whatever the frames held.
InitHeap(fresh) ==
  [mem  |-> [a \in 1 .. MaxWords |->
               CASE a \in {Base, HeapWords - 1} -> HeapWords - OVERHEAD
                 [] a > HeapWords -> fresh
                 [] OTHER -> 0],
   list |-> Base, prev |-> Null, cur |-> Base, end |-> Base + HeapWords]

(***************************************************************************)
(* split_blk(): the first size bytes of b become a block in use, the rest  *)
(* a free block that takes b's place in the list.                          *)
(***************************************************************************)
SplitBlk(s, size, b) ==
  LET w    == size \div WORD
      rest == b + w + OVERHEAD
      n    == s.mem[b] - w - OVERHEAD
      s1   == [s EXCEPT !.mem = Write(@, (rest :> n) @@ (rest + 1 :> NextFree(s, b)) @@ (rest + 2 :> 0)
                                         @@ (rest + n + 3 :> n) @@ (rest + n + 4 :> 0))]
      s2   == IF s1.prev # Null /\ NextFree(s1, s1.prev) # 0 THEN Set(s1, s1.prev + 1, rest) ELSE s1
      Move(p) == IF p = b THEN rest ELSE p
  IN  [s2 EXCEPT !.list = Move(@), !.prev = Move(@), !.cur = Move(@),
                 !.mem  = Write(@, (b :> w) @@ (b + 1 :> 0) @@ (b + 2 :> 1)
                                   @@ (b + w + 3 :> w) @@ (b + w + 4 :> 1))]

(***************************************************************************)
(* find_fit(): next fit around the list from cur.  The first test compares *)
(* bytes with bytes plus OVERHEAD words; with aligned sizes it never holds.*)
(* The result is the new state and the data pointer, Null if none.         *)
(***************************************************************************)
RECURSIVE Search(_, _, _)
Search(s, size, start) ==
  LET c == s.cur IN
  IF s.mem[c] * WORD = size + OVERHEAD
  THEN LET s1 == IF s.prev # Null /\ c # start THEN Set(s, s.prev + 1, NextFree(s, c)) ELSE s
       IN  [h |-> [s1 EXCEPT !.cur = NextFree(s, c),
                             !.mem = Write(@, (c + 2 :> 1) @@ (c + s.mem[c] + 2 :> 1))],
            ptr |-> c + 3]
  ELSE IF s.mem[c] * WORD > ALIGN(size + (OVERHEAD + 1) * WORD * 2)
  THEN [h |-> SplitBlk(s, size, c), ptr |-> c + 3]
  ELSE LET s1 == [s EXCEPT !.prev = c, !.cur = IF NextFree(s, c) # 0 THEN NextFree(s, c) ELSE s.list]
       IN  IF s1.prev # Null /\ start # s1.cur /\ s1.cur < s1.end
           THEN Search(s1, size, start)
           ELSE [h |-> s1, ptr |-> Null]

FindFit(s, size) == Search(s, size, s.cur)

(***************************************************************************)
(* rebuild_list(): links the free blocks below linked_list_start in address*)
(* order, starting from linked_list_start, and ends the list.              *)
(***************************************************************************)
RECURSIVE SkipUsed(_, _), Relink(_, _, _, _)
SkipUsed(s, b) == IF s.mem[b + 2] # 0 THEN SkipUsed(s, After(s, b)) ELSE b

Relink(s, current, p, c) ==
  LET b == SkipUsed(s, c) IN
  IF c >= s.end \/ b = s.list THEN [h |-> s, last |-> p]
  ELSE LET s1 == IF b = current THEN [s EXCEPT !.prev = p, !.cur = b] ELSE s
       IN  Relink(Set(s1, p + 1, b), current, b, After(s1, b))

RebuildList(s, current) ==
  LET r  == Relink(s, current, s.list, Base)
      s1 == IF current = r.h.list /\ NextFree(r.h, r.h.list) # 0
            THEN [r.h EXCEPT !.prev = r.h.list, !.cur = NextFree(r.h, r.h.list)]
            ELSE r.h
  IN  Set(s1, r.last + 1, 0)

\* One of the two joins of merge(): high becomes part of low, just below it.
Join(s, low, high) ==
  LET n == s.mem[low] + s.mem[high] + OVERHEAD IN
  [s EXCEPT !.mem  = Write(@, (low :> n) @@ (high + 1 :> 0) @@ (low + n + 3 :> n)),
            !.list = IF @ = high THEN low ELSE @,
            !.cur  = IF @ = high THEN low ELSE @]

Merge(s, b) ==
  LET below == b # Base /\ s.mem[b - 1] = 0
      low   == IF below THEN b - (s.mem[b - 2] + OVERHEAD) ELSE b
      next  == After(s, b)
      above == s.mem[next + 2] = 0 /\ next + 2 < s.end
      s1    == IF below THEN Join(s, low, b) ELSE s
      s2    == IF above THEN Join(s1, low, next) ELSE s1
  IN  IF below \/ above THEN RebuildList(s2, low) ELSE s2

NextPowerOf2(n) == CHOOSE p \in {2^k : k \in 0 .. 20} :
                     p >= n /\ \A q \in {2^k : k \in 0 .. 20} : q >= n => p <= q

\* expand_heap(): heap_end moves by as many words as bytes were asked for;
\* the new memory gets no block.
ExpandHeap(s, size) == RebuildList([s EXCEPT !.end = @ + NextPowerOf2(size)], s.cur)

---------------------------------------------------------------------------
\* rmalloc(), and operator new.
Malloc(size) ==
  LET first  == FindFit(h, ALIGN(size))
      second == FindFit(ExpandHeap(first.h, size), ALIGN(size))
      r      == IF first.ptr # Null THEN first ELSE second
  IN  /\ Cardinality(live) < MaxLive
      /\ first.ptr = Null => first.h.end + NextPowerOf2(size) + 2 < MaxWords
      /\ h' = r.h
      /\ live' = IF r.ptr # Null THEN live \union {<<r.ptr, size>>} ELSE live

\* rfree(), and operator delete: linked in after prev, then merged.
Rfree(p) ==
  LET b  == p[1] - 3
      s  == [h EXCEPT !.mem = Write(@, (b + 2 :> 0) @@ (b + h.mem[b] + 4 :> 0))]
      s1 == IF s.prev # Null
            THEN Set(Set(s, b + 1, NextFree(s, s.prev)), s.prev + 1, b)
            ELSE [Set(s, s.list + 1, b) EXCEPT !.prev = s.list]
  IN  /\ h' = Merge([s1 EXCEPT !.cur = b], b)
      /\ live' = live \ {p}

Init == (\E fresh \in {0, 1} : h = InitHeap(fresh)) /\ live = {}

Next == \/ \E size \in Sizes : Malloc(size)
        \/ \E p \in live : Rfree(p)

Spec == Init /\ [][Next]_vars

---------------------------------------------------------------------------
(***************************************************************************)
(* The layout heap.h gives a block: walking the heap from its first block  *)
(* by the header sizes, every block ends inside the heap and its footer    *)
(* repeats the header's size and flag.  rfree(), merge() and rebuild_list()*)
(* walk the heap by these words.                                           *)
(***************************************************************************)
BlocksWellFormed ==
  LET wellFormedFrom[b \in Base .. Base + HeapWords] ==
        \/ b = Base + HeapWords
        \/ /\ b < Base + HeapWords - OVERHEAD
           /\ h.mem[b] \in 0 .. Base + HeapWords - OVERHEAD - b
           /\ h.mem[b + h.mem[b] + 3] = h.mem[b]
           /\ h.mem[b + h.mem[b] + 4] = h.mem[b + 2]
           /\ wellFormedFrom[After(h, b)]
  IN  wellFormedFrom[Base]
=============================================================================
