---------------------------- MODULE BootMemory -----------------------------
(***************************************************************************)
(* The memory part of aarch64_boot (aarch64/aarch64.cpp): the five regions *)
(* it places in this order, initMemory (kernel.cpp), which constructs the  *)
(* page allocator and the heap from the map, and then any sequence of      *)
(* calls of the allocator.  Addresses are bytes of a small machine.        *)
(***************************************************************************)
EXTENDS PageAllocator

CONSTANTS RamSizes, MmioRegions, KernelSizes, ImageEnds, RamDisks, Sizes

\* Up to the next page boundary.
RoundUp(a) == ((a + BlockSize - 1) \div BlockSize) * BlockSize

\* The map has room for the five regions and for what they split, sizes of memory
\* do not overflow, the kernel's memory (kernelSize, 32 MiB in boot.s) holds its
\* image, the block map and a heap, and boot leaves some byte of memory available:
\* mapSize() would otherwise read the array before its first entry.
ASSUME BootAssumption ==
  /\ Capacity >= 10
  /\ RamSizes \subseteq Nat \ {0} /\ KernelSizes \subseteq Nat \ {0}
  /\ ImageEnds \subseteq Nat \ {0} /\ Sizes \subseteq Nat
  /\ \A r \in MmioRegions \union RamDisks : r \in Nat \X (Nat \ {0})
  /\ \A ram \in RamSizes :
        /\ EntrySize * ram <= Bit[Width]
        /\ \A end \in ImageEnds, size \in KernelSizes :
              RoundUp(end + Bit[llog2((EntrySize * ram) \div BlockSize)]) < size
        /\ \E a \in 0 .. ram - 1 :
              /\ \A size \in KernelSizes : size <= a
              /\ \A end \in ImageEnds : end + Bit[llog2((EntrySize * ram) \div BlockSize)] <= a
              /\ \A r \in MmioRegions \union RamDisks : a < r[1] \/ r[1] + r[2] <= a

VARIABLES step,          \* the next region to place
          kernelSize, imageEnd,
          heap           \* <<first byte, bytes>> given to init_heap

vars == <<mapVars, pageVars, step, kernelSize, imageEnd, heap>>

Boot(n) == step = n /\ step' = n + 1 /\ UNCHANGED pageVars

PlaceRam ==
  /\ Boot(1) /\ \E size \in RamSizes : Place(AVAILABLE, 0, size)
  /\ UNCHANGED <<kernelSize, imageEnd, heap>>

PlaceMmio ==
  /\ Boot(2) /\ \E r \in MmioRegions : Place(MMIO, r[1], r[2])
  /\ UNCHANGED <<kernelSize, imageEnd, heap>>

PlaceKernel ==
  /\ Boot(3) /\ Place(UNAVAILABLE, 0, kernelSize)
  /\ UNCHANGED <<kernelSize, imageEnd, heap>>

\* The block map is placed where the map so far says it will fit.
PlaceBlockMap ==
  /\ Boot(4) /\ Place(UNAVAILABLE, imageEnd, MapSize(map))
  /\ UNCHANGED <<kernelSize, imageEnd, heap>>

PlaceRamDisk ==
  /\ Boot(5) /\ \E r \in RamDisks : Place(UNAVAILABLE, r[1], r[2])
  /\ UNCHANGED <<kernelSize, imageEnd, heap>>

\* initMemory(): the block map is written at imageEnd, the heap follows it.
PageMapEnd == RoundUp(imageEnd + MapSize(map))
HeapSize   == (kernelSize - PageMapEnd) % Bit[Width]

InitMemory ==
  /\ step = 6 /\ step' = 7 /\ ready' = TRUE
  /\ Become(Construct(map))
  /\ heap' = <<PageMapEnd, HeapSize>>
  /\ UNCHANGED <<mapVars, reserved, kernelSize, imageEnd>>

Init ==
  /\ MapInit /\ PageInit /\ step = 1 /\ heap = <<0, 0>>
  /\ kernelSize \in KernelSizes /\ imageEnd \in {e \in ImageEnds : e < kernelSize}

Calls ==
  /\ \/ \E size \in Sizes : Reserve(size)
     \/ \E r \in reserved : Free(r)
  /\ UNCHANGED <<step, kernelSize, imageEnd, heap>>

Next == \/ PlaceRam \/ PlaceMmio \/ PlaceKernel \/ PlaceBlockMap \/ PlaceRamDisk
        \/ InitMemory \/ Calls

Spec == Init /\ [][Next]_vars

---------------------------------------------------------------------------
Bytes(p) == p * BlockSize .. (p + 1) * BlockSize - 1

(***************************************************************************)
(* No page the allocator can hand out overlaps what the kernel keeps using:*)
(* its image, the block map the constructor writes (sized from the final   *)
(* map, not from the map it was placed with), the heap, the RAM disk, the  *)
(* devices.                                                                *)
(***************************************************************************)
KernelMemoryKept ==
  ready => LET kept == {r \in placed : r.type # AVAILABLE}
                       \union {Region(UNAVAILABLE, imageEnd, MapSize(map)),
                               Region(UNAVAILABLE, heap[1], heap[2])}
           IN  \A p \in FreePages \union UNION {Pages(r.index, r.k) : r \in reserved} :
                 Bytes(p) \intersect Addresses(kept) = {}
=============================================================================
