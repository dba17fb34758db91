----------------------------- MODULE MemoryMap -----------------------------
(***************************************************************************)
(* The description of physical memory that boot builds before anything is  *)
(* allocated (memory/memorymap.cpp): a sorted array of typed regions.      *)
(* place() inserts a region and then trims neighbours until no two overlap:*)
(* a region of a higher type wins over one of a lower type.                *)
(***************************************************************************)
EXTENDS Integers, Sequences, FiniteSets, SequencesExt

CONSTANT Capacity        \* entries of the array, 16 in memorymap.h

ASSUME CapacityAssumption == Capacity \in Nat \ {0, 1}

VARIABLES map,           \* map[1..mapSize]: the regions in array order
          placed         \* history: the set of regions place() was given

mapVars == <<map, placed>>

\* enum class MemoryType.
AVAILABLE   == 1
UNAVAILABLE == 2
MMIO        == 3
DEFECTIVE   == 4
MemoryType  == {AVAILABLE, UNAVAILABLE, MMIO, DEFECTIVE}

Region(type, location, size) == [type |-> type, location |-> location, size |-> size]
End(r)         == r.location + r.size
Covers(r, a)   == r.location <= a /\ a < End(r)

Before(a, b)   == IF a.location = b.location THEN a.size < b.size ELSE a.location < b.location
Overlaps(a, b) == IF b.location < a.location THEN End(b) > a.location ELSE b.location < End(a)
Encloses(a, b) == b.location >= a.location /\ End(b) <= End(a)

(***************************************************************************)
(* insert(): the new region is carried along the array and swapped with    *)
(* every entry it is less than; what is carried at the end is appended.    *)
(***************************************************************************)
Carried(c, x) == IF Before(c, x) THEN x ELSE c
Kept(c, x)    == IF Before(c, x) THEN c ELSE x

Insert(m, r) ==
  LET carry[n \in 0 .. Len(m)] == IF n = 0 THEN r ELSE Carried(carry[n - 1], m[n])
  IN  [j \in 1 .. Len(m) + 1 |-> IF j <= Len(m) THEN Kept(carry[j - 1], m[j]) ELSE carry[j - 1]]

\* remove(): the entries behind entry i move one place to the front.
RemoveEntry(m, i) == [j \in 1 .. Len(m) - 1 |-> IF j < i THEN m[j] ELSE m[j + 1]]

(***************************************************************************)
(* One call of trim() on entries i and i + 1: the new array and the index  *)
(* of the next call.  The cases are in the order of the code.              *)
(***************************************************************************)
CutShort(left, right) == [left EXCEPT !.size = IF right.location > left.location
                                               THEN right.location - left.location - 1 ELSE 0]

Cut(left, right) == [left EXCEPT !.size = IF right.location > left.location
                                          THEN right.location - left.location ELSE 0]

Trim(m, i) ==
  LET left   == m[i]
      right  == m[i + 1]
      meet   == Overlaps(left, right)
      lower  == left.type < right.type
      joined == RemoveEntry([m EXCEPT ![i].size = (IF End(right) > End(left) THEN End(right) ELSE End(left))
                                              - left.location], i + 1)
      cut    == [m EXCEPT ![i] = Cut(left, right)]
  IN  CASE meet /\ left.type = right.type ->
             [map |-> joined, next |-> i]
        [] meet /\ lower /\ Encloses(right, left) ->
             [map |-> RemoveEntry(m, i), next |-> i]
        [] meet /\ lower /\ ~Encloses(right, left) /\ End(left) <= End(right) ->
             [map |-> cut, next |-> i + 1]
        [] meet /\ lower /\ End(left) > End(right) ->
             [map |-> Insert(IF cut[i].size = 0 THEN RemoveEntry(cut, i) ELSE cut,
                             Region(left.type, End(right), End(left) - End(right))),
              next |-> i + 2]
        [] meet /\ left.type > right.type /\ Encloses(left, right) ->
             [map |-> RemoveEntry(m, i + 1), next |-> i]
        [] meet /\ left.type > right.type /\ ~Encloses(left, right) ->
             [map |-> [m EXCEPT ![i + 1] = Region(right.type, End(left), End(right) - End(left))],
              next |-> i + 1]
        [] ~meet /\ End(left) = right.location /\ left.type = right.type ->
             [map |-> joined, next |-> i]
        [] OTHER ->
             [map |-> m, next |-> i + 1]

\* The loop of place().  Every call of trim() brings next closer to the end of the
\* array, so that there are at most as many as the array has entries.
Trimmed(s) == IF s.next + 1 > Len(s.map) THEN s ELSE Trim(s.map, s.next)

TrimAll(m) ==
  LET after[n \in 0 .. Len(m)] == IF n = 0 THEN [map |-> m, next |-> 1] ELSE Trimmed(after[n - 1])
  IN  after[Len(m)].map

(***************************************************************************)
(* place(): refused when the array may not hold one more region and one    *)
(* more piece of a split one.                                              *)
(***************************************************************************)
HasRoom == Len(map) <= Capacity - 2

Place(type, location, size) ==
  LET r == Region(type, location, size) IN
  IF HasRoom
  THEN /\ map'    = TrimAll(Insert(map, r))
       /\ placed' = placed \union {r}
  ELSE UNCHANGED mapVars

MapInit == map = <<>> /\ placed = {}

---------------------------------------------------------------------------
Addresses(regions) == UNION {r.location .. End(r) - 1 : r \in regions}

\* The regions are in ascending order and no two overlap.
RegionsInOrder == \A i, j \in DOMAIN map : i < j => End(map[i]) <= map[j].location

(***************************************************************************)
(* What place() promises: the regions are in ascending order and apart, on *)
(* which trim() relies when it compares neighbours only and mapSize() when *)
(* it takes the last available region for the highest; and at every        *)
(* address the map has exactly one region if something was placed there    *)
(* and none otherwise, and its type is the highest placed there.  A hole   *)
(* in the kernel image or in the block map would be handed out as free     *)
(* memory.                                                                 *)
(***************************************************************************)
HighestTypeWins ==
  /\ RegionsInOrder
  /\ \A a \in Addresses(placed) \union Addresses(ToSet(map)) :
       LET types == {r.type : r \in {p \in placed : Covers(p, a)}}
       IN  /\ types # {}
           /\ \E i \in DOMAIN map :
                /\ Covers(map[i], a)
                /\ \A t \in types : map[i].type >= t
                /\ map[i].type \in types
                /\ \A j \in DOMAIN map : Covers(map[j], a) => j = i
=============================================================================
