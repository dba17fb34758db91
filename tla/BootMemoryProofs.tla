-------------------------- MODULE BootMemoryProofs --------------------------
(***************************************************************************)
(* Theorems about boot's memory map and the page allocator: the map is in  *)
(* order and the highest type wins at every address; every page of         *)
(* available memory is in exactly one block, free or held; tags and lists  *)
(* agree; a run of free pages can be reserved; and no page that the        *)
(* allocator has overlaps what the kernel keeps using.                     *)
(***************************************************************************)
EXTENDS BootMemory, MemoryMapProofs, FiniteSetTheorems

-----------------------------------------------------------------------------
(* Powers of two *)

\* 1UL << k doubles with k.
LEMMA BitIs ==
    /\ Width \in Nat \ {0} /\ Bit[0] = 1
    /\ \A k \in 1 .. Width : Bit[k] = 2 * Bit[k - 1]
<1>0. Width \in Nat \ {0}
  BY PageAllocatorAssumption
<1> DEFINE P(g) == g = [k \in 0 .. Width |-> IF k = 0 THEN 1 ELSE 2 * g[k - 1]]
           G == [k \in 0 .. Width |-> Nat]
           double == [k \in 1 .. Width |-> [x \in Nat |-> 2 * x]]
<1>1. \A k \in 1 .. Width : \A x \in G[k - 1] : double[k][x] = 2 * x /\ double[k][x] \in G[k]
  <2>1. SUFFICES ASSUME NEW k \in 1 .. Width, NEW x \in G[k - 1]
                 PROVE  double[k][x] = 2 * x /\ double[k][x] \in G[k]
    OBVIOUS
  <2>2. k - 1 \in 0 .. Width /\ k \in 0 .. Width
    BY <1>0
  <2>3. x \in Nat
    BY <2>2
  <2>4. QED
    BY <2>2, <2>3
<1>2. 1 \in G[0]
  BY <1>0
<1> HIDE DEF G, double
<1>3. PICK g : IsLoop(g, Width, 1, double) /\ \A k \in 0 .. Width : g[k] \in G[k]
  BY <1>0, <1>1, <1>2, LoopInvariant
<1>4. \A k \in 0 .. Width : k # 0 => double[k][g[k - 1]] = 2 * g[k - 1]
  <2>1. SUFFICES ASSUME NEW k \in 0 .. Width, k # 0 PROVE double[k][g[k - 1]] = 2 * g[k - 1]
    OBVIOUS
  <2>2. k \in 1 .. Width /\ k - 1 \in 0 .. Width
    BY <1>0, <2>1
  <2>3. QED
    BY <1>1, <1>3, <2>2
<1>5. P(g)
  BY <1>3, <1>4 DEF IsLoop
<1>6. P(Bit)
  <2>1. Bit = CHOOSE f : P(f)
    BY DEF Bit
  <2> HIDE DEF P
  <2>2. QED
    BY <1>5, <2>1
<1>7. \A k \in 1 .. Width : k \in 0 .. Width /\ k # 0
  BY <1>0
<1>8. QED
  BY <1>0, <1>6, <1>7

LEMMA BitPositive == \A k \in 0 .. Width : Bit[k] \in Nat \ {0}
<1>0. Width \in Nat
  BY BitIs
<1> DEFINE S == {k \in 0 .. Width : Bit[k] \in Nat \ {0}}
<1>1. 0 \in S
  BY BitIs
<1>2. ASSUME NEW k \in 1 .. Width, k - 1 \in S PROVE k \in S
  BY <1>0, <1>2, BitIs
<1> HIDE DEF S
<1>3. \A k \in 0 .. Width : k \in S
  BY <1>0, <1>1, <1>2, UpTo
<1>4. QED
  BY <1>3 DEF S

\* A power is the product of the powers it is made of.
LEMMA BitProduct ==
    ASSUME NEW g \in 0 .. Width, NEW h \in 0 .. Width, g <= h
    PROVE  Bit[h] = Bit[h - g] * Bit[g]
<1>0. Width \in Nat
  BY BitIs
<1> DEFINE S == {d \in 0 .. Width : g + d <= Width => Bit[g + d] = Bit[d] * Bit[g]}
<1>1. 0 \in S
  <2>1. Bit[g + 0] = 1 * Bit[g]
    BY BitPositive
  <2>2. QED
    BY <1>0, <2>1, BitIs
<1>2. ASSUME NEW d \in 1 .. Width, d - 1 \in S PROVE d \in S
  <2>1. SUFFICES ASSUME g + d <= Width PROVE Bit[g + d] = Bit[d] * Bit[g]
    BY <1>0
  <2>2. g + (d - 1) <= Width /\ g + d \in 1 .. Width /\ (g + d) - 1 = g + (d - 1) /\ d - 1 \in 0 .. Width
        /\ d \in 0 .. Width
    BY <1>0, <2>1
  <2>3. Bit[g + (d - 1)] = Bit[d - 1] * Bit[g]
    BY <1>2, <2>2
  <2>4. Bit[g + d] = 2 * (Bit[d - 1] * Bit[g]) /\ Bit[d] = 2 * Bit[d - 1]
    BY <2>2, <2>3, BitIs
  <2>5. Bit[d - 1] \in Nat /\ Bit[g] \in Nat
    BY <2>2, BitPositive
  <2>6. 2 * (Bit[d - 1] * Bit[g]) = (2 * Bit[d - 1]) * Bit[g]
    BY <2>5
  <2>7. QED
    BY <2>4, <2>6
<1> HIDE DEF S
<1>3. \A d \in 0 .. Width : d \in S
  BY <1>0, <1>1, <1>2, UpTo
<1>4. h - g \in 0 .. Width /\ g + (h - g) = h
  BY <1>0
<1>5. QED
  BY <1>0, <1>3, <1>4 DEF S

\* A larger exponent makes a larger power.
LEMMA BitGrows ==
    ASSUME NEW g \in 0 .. Width, NEW h \in 0 .. Width
    PROVE  /\ g <= h => Bit[g] <= Bit[h]
           /\ g < h => Bit[g] < Bit[h]
           /\ Bit[g] <= Bit[h] => g <= h
<1>0. Width \in Nat
  BY BitIs
<1>1. ASSUME NEW a \in 0 .. Width, NEW b \in 0 .. Width, a < b PROVE Bit[a] < Bit[b]
  <2>1. b - a \in 0 .. Width /\ b - a \in 1 .. Width /\ (b - a) - 1 \in 0 .. Width
    BY <1>0, <1>1
  <2>2. Bit[b - a] = 2 * Bit[(b - a) - 1] /\ Bit[(b - a) - 1] \in Nat \ {0}
    BY <2>1, BitIs, BitPositive
  <2> DEFINE x == Bit[(b - a) - 1]
             y == Bit[a]
  <2>3. Bit[b] = (2 * x) * y /\ x \in Nat \ {0} /\ y \in Nat \ {0}
    BY <1>0, <1>1, <2>2, BitProduct, BitPositive
  <2> HIDE DEF x, y
  <2>4. x * y >= y
    BY <2>3
  <2>5. (2 * x) * y = x * y + x * y
    BY <2>3
  <2>6. x * y \in Nat
    BY <2>3
  <2>7. QED
    BY <2>3, <2>4, <2>5, <2>6 DEF y
<1>2. Bit[g] \in Nat /\ Bit[h] \in Nat
  BY BitPositive
<1>3. g < h => Bit[g] < Bit[h]
  BY <1>1
<1>4. h < g => Bit[h] < Bit[g]
  BY <1>1
<1>5. QED
  BY <1>0, <1>2, <1>3, <1>4

\* llog2() is the least exponent whose power is not below x.
LEMMA Log2Is ==
    ASSUME NEW x \in Nat, x <= Bit[Width]
    PROVE  /\ llog2(x) \in 0 .. Width /\ Bit[llog2(x)] >= x
           /\ \A j \in 0 .. Width : Bit[j] >= x => llog2(x) <= j
<1>0. Width \in Nat
  BY BitIs
<1> DEFINE S == {k \in 0 .. Width : Bit[k] >= x}
           Q(k) == Bit[k] >= x /\ \A j \in 0 .. k - 1 : Bit[j] < x
<1>1. Width \in S /\ S \subseteq Nat
  BY <1>0, BitPositive
<1>2. PICK k \in S : \A j \in S : k <= j
  <2> HIDE DEF S
  <2>1. QED
    BY <1>1, NatMin
<1>3. k \in 0 .. Width /\ Q(k)
  <2>1. ASSUME NEW j \in 0 .. k - 1 PROVE Bit[j] < x
    <3>1. j \in 0 .. Width /\ j < k /\ j \notin S
      BY <1>0, <1>2
    <3>2. Bit[j] \in Nat
      BY <3>1, BitPositive
    <3>3. QED
      BY <3>1, <3>2
  <2>2. QED
    BY <2>1
<1>4. llog2(x) \in 0 .. Width /\ Q(llog2(x))
  <2>1. llog2(x) = CHOOSE j \in 0 .. Width : Q(j)
    BY DEF llog2
  <2> HIDE DEF Q
  <2>2. QED
    BY <1>3, <2>1
<1>5. ASSUME NEW j \in 0 .. Width, Bit[j] >= x PROVE llog2(x) <= j
  <2>1. SUFFICES ASSUME j < llog2(x) PROVE FALSE
    BY <1>0, <1>4
  <2>2. Bit[j] < x
    BY <1>0, <1>4, <2>1
  <2>3. Bit[j] \in Nat
    BY BitPositive
  <2>4. QED
    BY <1>5, <2>2, <2>3
<1>6. QED
  BY <1>4, <1>5

LEMMA Log2Monotone ==
    ASSUME NEW x \in Nat, NEW y \in Nat, x <= y, y <= Bit[Width]
    PROVE  llog2(x) <= llog2(y)
<1>0. Width \in 0 .. Width
  BY BitIs
<1>1. Bit[Width] \in Nat
  BY <1>0, BitPositive
<1>2. x <= Bit[Width]
  BY <1>1
<1>3. llog2(y) \in 0 .. Width /\ Bit[llog2(y)] >= y
  BY Log2Is
<1>4. Bit[llog2(y)] \in Nat
  BY <1>3, BitPositive
<1>5. Bit[llog2(y)] >= x
  BY <1>3, <1>4
<1>6. QED
  BY <1>2, <1>3, <1>5, Log2Is

LEMMA Log2Bit ==
    /\ \A g \in 0 .. Width : llog2(Bit[g]) = g
    /\ llog2(0) = 0
<1>0. Width \in Nat
  BY BitIs
<1>1. ASSUME NEW g \in 0 .. Width PROVE llog2(Bit[g]) = g
  <2>1. Bit[g] \in Nat /\ Bit[g] <= Bit[Width] /\ Bit[g] >= Bit[g]
    <3>1. Width \in 0 .. Width /\ g <= Width
      BY <1>0
    <3>2. Bit[g] <= Bit[Width]
      BY <3>1, BitGrows
    <3>3. Bit[g] \in Nat
      BY BitPositive
    <3>4. QED
      BY <3>2, <3>3
  <2>2. llog2(Bit[g]) \in 0 .. Width /\ Bit[llog2(Bit[g])] >= Bit[g] /\ llog2(Bit[g]) <= g
    BY <2>1, Log2Is
  <2>3. Bit[g] <= Bit[llog2(Bit[g])]
    <3>1. Bit[llog2(Bit[g])] \in Nat
      BY <2>2, BitPositive
    <3>2. QED
      BY <2>1, <2>2, <3>1
  <2>4. g <= llog2(Bit[g])
    BY <2>2, <2>3, BitGrows
  <2>5. QED
    BY <1>0, <2>2, <2>4
<1>2. llog2(0) = 0
  <2>1. Bit[Width] \in Nat /\ 0 <= Bit[Width]
    <3>1. Width \in 0 .. Width
      BY <1>0
    <3>2. Bit[Width] \in Nat
      BY <3>1, BitPositive
    <3>3. QED
      BY <3>2
  <2>2. 0 \in 0 .. Width /\ Bit[0] >= 0
    BY <1>0, BitIs
  <2>3. llog2(0) \in 0 .. Width /\ llog2(0) <= 0
    BY <2>1, <2>2, Log2Is
  <2>4. QED
    BY <1>0, <2>3
<1>3. QED
  BY <1>1, <1>2

-----------------------------------------------------------------------------
(* Aligned blocks *)

\* x is the index of a block of order k.
Aligned(x, k) == \E c \in Nat : x = c * Bit[k]

LEMMA Multiples ==
    ASSUME NEW u \in Nat, NEW w \in Nat, NEW b \in Nat \ {0}
    PROVE  /\ u * b \in Nat
           /\ u <= w => u * b <= w * b
           /\ u * b < w * b => u < w
           /\ (u + 1) * b = u * b + b
           /\ (u + w) * b = u * b + w * b
<1>1. u * b \in Nat /\ w * b \in Nat
  BY SMT
<1>2. u <= w => u * b <= w * b
  BY SMT
<1>3. w <= u => w * b <= u * b
  BY SMT
<1>4. (u + 1) * b = u * b + b
  BY SMT
<1>5. (u + w) * b = u * b + w * b
  BY SMT
<1>6. QED
  BY <1>1, <1>2, <1>3, <1>4, <1>5

\* A block of order h is a block of every smaller order.
LEMMA AlignedBelow ==
    ASSUME NEW g \in 0 .. Width, NEW h \in 0 .. Width, g <= h, NEW x, Aligned(x, h)
    PROVE  Aligned(x, g)
<1>1. PICK c \in Nat : x = c * Bit[h]
  BY DEF Aligned
<1>2. Bit[h] = Bit[h - g] * Bit[g] /\ h - g \in 0 .. Width
  BY BitProduct, BitIs
<1>3. Bit[h - g] \in Nat /\ Bit[g] \in Nat
  BY <1>2, BitPositive
<1>4. c * (Bit[h - g] * Bit[g]) = (c * Bit[h - g]) * Bit[g] /\ c * Bit[h - g] \in Nat
  BY <1>3, SMT
<1>5. QED
  BY <1>1, <1>2, <1>4 DEF Aligned

\* Blocks that overlap are nested.
LEMMA Nest ==
    ASSUME NEW g \in 0 .. Width, NEW h \in 0 .. Width, g <= h,
           NEW x, Aligned(x, g), NEW y, Aligned(y, h),
           x < y + Bit[h], y < x + Bit[g]
    PROVE  y <= x /\ x + Bit[g] <= y + Bit[h]
<1> DEFINE B == Bit[g]
<1>0. B \in Nat \ {0}
  BY BitPositive
<1>1. PICK u \in Nat : x = u * B
  BY DEF Aligned
<1>2. Aligned(y, g)
  BY AlignedBelow
<1>3. PICK w \in Nat : y = w * B
  BY <1>2 DEF Aligned
<1>4. Bit[h] = Bit[h - g] * B /\ h - g \in 0 .. Width
  BY BitProduct, BitIs
<1>5. Bit[h - g] \in Nat
  BY <1>4, BitPositive
<1> DEFINE v == Bit[h - g]
<1> HIDE DEF B, v
<1>6. Bit[h] = v * B /\ v \in Nat /\ w + v \in Nat /\ u + 1 \in Nat
  BY <1>4, <1>5 DEF v
<1>7. y + Bit[h] = (w + v) * B
  BY <1>0, <1>3, <1>6, Multiples
<1>8. x + B = (u + 1) * B
  BY <1>0, <1>1, Multiples
<1>9. u * B < (w + v) * B /\ w * B < (u + 1) * B
  BY <1>1, <1>3, <1>7, <1>8 DEF B
<1>10. u < w + v
  BY <1>0, <1>6, <1>9, Multiples
<1>11. w < u + 1
  BY <1>0, <1>6, <1>9, Multiples
<1>12. w <= u /\ u + 1 <= w + v
  BY <1>6, <1>10, <1>11
<1>13. w * B <= u * B
  BY <1>0, <1>12, Multiples
<1>14. (u + 1) * B <= (w + v) * B
  BY <1>0, <1>6, <1>12, Multiples
<1>15. QED
  BY <1>1, <1>3, <1>7, <1>8, <1>13, <1>14 DEF B

\* A block that begins below 2^h ends there or before.
LEMMA AlignedFits ==
    ASSUME NEW g \in 0 .. Width, NEW h \in 0 .. Width, g <= h, NEW x, Aligned(x, g), x < Bit[h]
    PROVE  x \in Nat /\ x + Bit[g] <= Bit[h]
<1>1. Bit[g] \in Nat \ {0} /\ Bit[h] \in Nat \ {0}
  BY BitPositive
<1>2. x \in Nat
  BY <1>1, Multiples DEF Aligned
<1>3. Aligned(0, h)
  <2>1. 0 = 0 * Bit[h]
    BY <1>1
  <2>2. QED
    BY <2>1 DEF Aligned
<1>4. x < 0 + Bit[h] /\ 0 < x + Bit[g]
  BY <1>1, <1>2
<1>5. x + Bit[g] <= 0 + Bit[h]
  BY <1>3, <1>4, Nest
<1>6. QED
  BY <1>1, <1>2, <1>5

\* The buddies in a block of order k + 1.
LEMMA BuddiesIn ==
    ASSUME NEW k \in 0 .. Width - 1, NEW lo, Aligned(lo, k + 1)
    PROVE  /\ lo \in Nat
           /\ Buddy(lo, k) = lo + Bit[k] /\ Buddy(lo + Bit[k], k) = lo
           /\ Aligned(lo, k) /\ Aligned(lo + Bit[k], k)
           /\ Bit[k + 1] = Bit[k] + Bit[k]
<1> DEFINE B == Bit[k]
<1>0. k \in 0 .. Width /\ k + 1 \in 1 .. Width /\ (k + 1) - 1 = k /\ k + 1 \in 0 .. Width
  BY BitIs
<1>1. B \in Nat \ {0} /\ Bit[k + 1] = 2 * B
  BY <1>0, BitIs, BitPositive
<1>2. PICK d \in Nat : lo = d * Bit[k + 1]
  BY DEF Aligned
<1> HIDE DEF B
<1>3. lo = (2 * d) * B /\ lo = B * (2 * d) + 0
  <2>1. d * (2 * B) = (2 * d) * B
    BY <1>1, SMT
  <2>2. d * (2 * B) = B * (2 * d) + 0
    BY <1>1, SMT
  <2>3. QED
    BY <1>1, <1>2, <2>1, <2>2
<1>4. lo + B = (2 * d + 1) * B /\ lo + B = B * (2 * d + 1) + 0
  <2>1. (2 * d + 1) * B = (2 * d) * B + B
    BY <1>1, SMT
  <2>2. B * (2 * d + 1) + 0 = (2 * d) * B + B
    BY <1>1, SMT
  <2>3. QED
    BY <1>3, <2>1, <2>2
<1>5. 2 * d \in Nat /\ 2 * d + 1 \in Nat /\ 2 * d \in Int /\ 2 * d + 1 \in Int /\ 0 \in 0 .. B - 1
  BY <1>1
<1>6. lo \div B = 2 * d
  BY <1>1, <1>3, <1>5, DivUnique
<1>7. (lo + B) \div B = 2 * d + 1
  BY <1>1, <1>4, <1>5, DivUnique
<1>8. (2 * d) % 2 = 0 /\ (2 * d + 1) % 2 = 1
  BY SMT
<1>9. lo \in Nat
  BY <1>1, <1>3, <1>5, Multiples
<1>10. Buddy(lo, k) = lo + B /\ Buddy(lo + B, k) = lo
  <2>1. Buddy(lo, k) = lo + B
    BY <1>6, <1>8 DEF Buddy, B
  <2>2. Buddy(lo + B, k) = (lo + B) - B
    BY <1>7, <1>8 DEF Buddy, B
  <2>3. QED
    BY <1>1, <1>9, <2>1, <2>2
<1>11. QED
  BY <1>1, <1>3, <1>4, <1>5, <1>9, <1>10 DEF B, Aligned

\* A block and its buddy make up a block of the next order.
Pair(x, b, k, lo) == /\ Aligned(lo, k + 1)
                     /\ (x = lo /\ b = lo + Bit[k]) \/ (b = lo /\ x = lo + Bit[k])

LEMMA BuddyPair ==
    ASSUME NEW k \in 0 .. Width - 1, NEW x, Aligned(x, k)
    PROVE  \E lo \in Nat : Pair(x, Buddy(x, k), k, lo)
<1> DEFINE B == Bit[k]
<1>0. k \in 0 .. Width /\ k + 1 \in 1 .. Width /\ (k + 1) - 1 = k /\ k + 1 \in 0 .. Width
  BY BitIs
<1>1. B \in Nat \ {0} /\ Bit[k + 1] = 2 * B
  BY <1>0, BitIs, BitPositive
<1>2. PICK c \in Nat : x = c * B
  BY DEF Aligned
<1>3. PICK d \in Nat : c = 2 * d \/ c = 2 * d + 1
  <2>1. c \div 2 \in Nat
    BY DivNat
  <2>2. c = 2 * (c \div 2) \/ c = 2 * (c \div 2) + 1
    BY SMT
  <2>3. QED
    BY <2>1, <2>2
<1> DEFINE lo == d * Bit[k + 1]
<1>4. Aligned(lo, k + 1)
  BY DEF Aligned
<1>5. lo = (2 * d) * B
  BY <1>1, SMT
<1> HIDE DEF lo, B
<1>6. lo \in Nat /\ Buddy(lo, k) = lo + B /\ Buddy(lo + B, k) = lo
  BY <1>4, BuddiesIn DEF B
<1>7. CASE c = 2 * d
  <2>1. x = lo
    BY <1>2, <1>5, <1>7
  <2>2. QED
    BY <1>4, <1>6, <2>1 DEF Pair, B
<1>8. CASE c = 2 * d + 1
  <2>1. (2 * d + 1) * B = (2 * d) * B + B
    BY <1>1, SMT
  <2>2. x = lo + B
    BY <1>2, <1>5, <1>8, <2>1
  <2>3. QED
    BY <1>4, <1>6, <2>2 DEF Pair, B
<1>9. QED
  BY <1>3, <1>7, <1>8

-----------------------------------------------------------------------------
(* Tilings: the blocks that begin at the pages of T, of the orders in kv,   *)
(* are aligned, do not overlap, and together are the pages of U.            *)

Size(N, K) == K \in 0 .. Width /\ (N = Bit[K] \/ N = 0)

Holds(kv, i, p) == i <= p /\ p < i + Bit[kv[i]]

Tiling(T, kv, N, K, U) ==
    /\ \A i \in T : /\ i \in 0 .. N - 1 /\ kv[i] \in 0 .. K
                    /\ Aligned(i, kv[i]) /\ i + Bit[kv[i]] <= N
    /\ \A i, j \in T : i < j => i + Bit[kv[i]] <= j
    /\ U \subseteq Nat
    /\ \A p \in Nat : p \in U <=> \E i \in T : Holds(kv, i, p)

LEMMA SizeNat ==
    ASSUME NEW N, NEW K, Size(N, K)
    PROVE  /\ N \in Nat /\ K \in Nat /\ Width \in Nat
           /\ \A k \in 0 .. K : k \in 0 .. Width /\ Bit[k] \in Nat \ {0}
<1>1. K \in 0 .. Width /\ Width \in Nat
  BY BitIs DEF Size
<1>2. \A k \in 0 .. K : k \in 0 .. Width
  BY <1>1
<1>3. N \in Nat
  BY <1>1, BitPositive DEF Size
<1>4. QED
  BY <1>1, <1>2, <1>3, BitPositive

\* The numbers of a tile.
LEMMA TileNumbers ==
    ASSUME NEW N, NEW K, Size(N, K), NEW T, NEW kv, NEW U, Tiling(T, kv, N, K, U), NEW i \in T
    PROVE  /\ i \in Nat /\ i \in 0 .. N - 1 /\ kv[i] \in 0 .. K /\ kv[i] \in 0 .. Width
           /\ Bit[kv[i]] \in Nat \ {0} /\ Aligned(i, kv[i]) /\ i + Bit[kv[i]] <= N
<1>1. i \in 0 .. N - 1 /\ kv[i] \in 0 .. K /\ Aligned(i, kv[i]) /\ i + Bit[kv[i]] <= N
  BY DEF Tiling
<1>2. QED
  BY <1>1, SizeNat

\* Only the orders at the pages of T matter.
LEMMA TileSame ==
    ASSUME NEW N, NEW K, NEW T, NEW kv, NEW U, Tiling(T, kv, N, K, U), NEW kv1,
           \A i \in T : kv1[i] = kv[i]
    PROVE  Tiling(T, kv1, N, K, U)
BY DEF Tiling, Holds

\* Two tiles that hold the same page are the same.
LEMMA TileOne ==
    ASSUME NEW N, NEW K, Size(N, K), NEW T, NEW kv, NEW U, Tiling(T, kv, N, K, U), NEW i \in T, NEW j \in T,
           NEW p \in Nat, Holds(kv, i, p), Holds(kv, j, p)
    PROVE  i = j
<1>1. i \in Nat /\ j \in Nat /\ Bit[kv[i]] \in Nat /\ Bit[kv[j]] \in Nat
  BY TileNumbers
<1>2. i < j => i + Bit[kv[i]] <= j
  BY DEF Tiling
<1>3. j < i => j + Bit[kv[j]] <= i
  BY DEF Tiling
<1>4. QED
  BY <1>1, <1>2, <1>3 DEF Holds

\* A tile and its buddy of the same order become one.
Doubled(T, kv, k, lo, hi, T1, kv1) ==
    /\ kv[lo] = k /\ kv[hi] = k /\ T1 = T \ {hi} /\ kv1[lo] = k + 1
    /\ \A i \in T1 : i # lo => kv1[i] = kv[i]

LEMMA TileJoin ==
    ASSUME NEW N, NEW K, Size(N, K), NEW T, NEW kv, NEW U, Tiling(T, kv, N, K, U),
           NEW k \in 0 .. K - 1, NEW lo \in T, NEW hi \in T, hi = lo + Bit[k], Aligned(lo, k + 1),
           NEW T1, NEW kv1, Doubled(T, kv, k, lo, hi, T1, kv1)
    PROVE  Tiling(T1, kv1, N, K, U)
<1> USE DEF Doubled
<1>0. /\ N \in Nat /\ K \in Nat /\ k \in 0 .. K /\ k + 1 \in 0 .. K /\ k \in 0 .. Width - 1
      /\ Bit[k] \in Nat \ {0} /\ Bit[k + 1] \in Nat
  <2>1. N \in Nat /\ K \in Nat /\ Width \in Nat /\ K \in 0 .. Width
    BY SizeNat DEF Size
  <2>2. k \in 0 .. K /\ k + 1 \in 0 .. K /\ k \in 0 .. Width - 1
    BY <2>1
  <2>3. QED
    BY <2>1, <2>2, SizeNat
<1>1. Bit[k + 1] = Bit[k] + Bit[k]
  BY <1>0, BuddiesIn
<1>2. /\ lo \in Nat /\ lo \in 0 .. N - 1 /\ hi \in Nat /\ hi + Bit[k] <= N
  BY TileNumbers
<1>3. lo \in T1 /\ lo < hi /\ lo # hi
  BY <1>0, <1>2
<1>4. ASSUME NEW i \in T1
      PROVE  i \in 0 .. N - 1 /\ kv1[i] \in 0 .. K /\ Aligned(i, kv1[i]) /\ i + Bit[kv1[i]] <= N
  <2>1. CASE i = lo
    <3>1. lo + Bit[k + 1] <= N
      BY <1>0, <1>1, <1>2
    <3>2. QED
      BY <1>0, <1>2, <2>1, <3>1
  <2>2. CASE i # lo
    BY <2>2, TileNumbers
  <2>3. QED
    BY <2>1, <2>2
<1>5. ASSUME NEW i \in T1, NEW j \in T1, i < j PROVE i + Bit[kv1[i]] <= j
  <2>0. i + Bit[kv[i]] <= j
    BY <1>5 DEF Tiling
  <2>1. CASE i # lo
    BY <2>0, <2>1
  <2>2. CASE i = lo
    <3>1. hi <= j /\ j # hi /\ j \in Nat
      BY <2>0, <2>2, TileNumbers
    <3>2. hi < j
      BY <1>2, <3>1
    <3>3. hi + Bit[k] <= j
      BY <3>2 DEF Tiling
    <3>4. QED
      BY <1>0, <1>1, <1>2, <2>2, <3>1, <3>3
  <2>3. QED
    BY <2>1, <2>2
<1>6. ASSUME NEW p \in Nat PROVE (\E i \in T : Holds(kv, i, p)) <=> \E i \in T1 : Holds(kv1, i, p)
  <2>1. Holds(kv1, lo, p) <=> Holds(kv, lo, p) \/ Holds(kv, hi, p)
    BY <1>0, <1>1, <1>2 DEF Holds
  <2>2. \A i \in T1 : i # lo => (Holds(kv1, i, p) <=> Holds(kv, i, p))
    BY DEF Holds
  <2>3. QED
    BY <1>3, <2>1, <2>2
<1>7. QED
  BY <1>4, <1>5, <1>6 DEF Tiling

\* A tile is split into a block and its buddy.
Halved(T, kv, k, lo, hi, T1, kv1) ==
    /\ kv[lo] = k + 1 /\ T1 = T \union {hi} /\ kv1[lo] = k /\ kv1[hi] = k
    /\ \A i \in T : i # lo => kv1[i] = kv[i]

LEMMA TileSplit ==
    ASSUME NEW N, NEW K, Size(N, K), NEW T, NEW kv, NEW U, Tiling(T, kv, N, K, U),
           NEW k \in 0 .. K - 1, NEW lo \in T, NEW hi, hi = lo + Bit[k],
           NEW T1, NEW kv1, Halved(T, kv, k, lo, hi, T1, kv1)
    PROVE  Tiling(T1, kv1, N, K, U) /\ hi \notin T /\ hi \in 0 .. N - 1 /\ Aligned(lo, k + 1)
<1> USE DEF Halved
<1>0. /\ N \in Nat /\ K \in Nat /\ k \in 0 .. K /\ k + 1 \in 0 .. K /\ k \in 0 .. Width - 1
      /\ Bit[k] \in Nat \ {0} /\ Bit[k + 1] \in Nat
  <2>1. N \in Nat /\ K \in Nat /\ Width \in Nat /\ K \in 0 .. Width
    BY SizeNat DEF Size
  <2>2. k \in 0 .. K /\ k + 1 \in 0 .. K /\ k \in 0 .. Width - 1
    BY <2>1
  <2>3. QED
    BY <2>1, <2>2, SizeNat
<1>1. /\ lo \in Nat /\ lo \in 0 .. N - 1 /\ Aligned(lo, k + 1) /\ lo + Bit[k + 1] <= N
  BY TileNumbers
<1>2. Bit[k + 1] = Bit[k] + Bit[k] /\ Aligned(lo, k) /\ Aligned(hi, k)
  BY <1>0, <1>1, BuddiesIn
<1>3. hi \in Nat /\ hi \in 0 .. N - 1 /\ lo < hi /\ hi + Bit[k] <= N /\ lo + Bit[k] <= N
  BY <1>0, <1>1, <1>2
<1>4. hi \notin T
  <2>1. SUFFICES ASSUME hi \in T PROVE FALSE
    OBVIOUS
  <2>2. lo + Bit[k + 1] <= hi
    BY <1>3, <2>1 DEF Tiling
  <2>3. QED
    BY <1>0, <1>1, <1>2, <2>2
<1>5. ASSUME NEW i \in T1
      PROVE  i \in 0 .. N - 1 /\ kv1[i] \in 0 .. K /\ Aligned(i, kv1[i]) /\ i + Bit[kv1[i]] <= N
  <2>1. CASE i = lo
    BY <1>0, <1>1, <1>2, <1>3, <2>1
  <2>2. CASE i = hi
    BY <1>0, <1>1, <1>2, <1>3, <2>2
  <2>3. CASE i # lo /\ i # hi
    <3>1. i \in T
      BY <2>3
    <3>2. QED
      BY <2>3, <3>1, TileNumbers
  <2>4. QED
    BY <2>1, <2>2, <2>3
<1>6. ASSUME NEW i \in T1, NEW j \in T1, i < j PROVE i + Bit[kv1[i]] <= j
  <2>1. CASE i \in T /\ j \in T
    <3>1. i + Bit[kv[i]] <= j /\ j \in Nat /\ i \in Nat
      BY <1>6, <2>1, TileNumbers DEF Tiling
    <3>2. CASE i # lo
      BY <2>1, <3>1, <3>2
    <3>3. CASE i = lo
      BY <1>0, <1>2, <3>1, <3>3
    <3>4. QED
      BY <3>2, <3>3
  <2>2. CASE j = hi /\ i \in T
    <3>1. i \in Nat
      BY <2>2, TileNumbers
    <3>2. CASE i = lo
      BY <1>0, <1>1, <2>2, <3>2
    <3>3. CASE i < lo
      <4>1. i + Bit[kv[i]] <= lo /\ Bit[kv[i]] \in Nat
        <5>1. Bit[kv[i]] \in Nat
          BY <2>2, TileNumbers
        <5>2. QED
          BY <2>2, <3>3, <5>1 DEF Tiling
      <4>2. kv1[i] = kv[i]
        BY <1>1, <2>2, <3>1, <3>3
      <4>3. QED
        BY <1>1, <1>3, <2>2, <3>1, <4>1, <4>2
    <3>4. CASE lo < i
      <4>1. lo + Bit[k + 1] <= i
        BY <2>2, <3>4 DEF Tiling
      <4>2. QED
        BY <1>0, <1>1, <1>2, <1>6, <2>2, <3>1, <4>1
    <3>5. QED
      BY <1>1, <3>1, <3>2, <3>3, <3>4
  <2>3. CASE i = hi /\ j \in T
    <3>1. j \in Nat /\ lo < j
      BY <1>1, <1>3, <1>6, <2>3, TileNumbers
    <3>2. lo + Bit[k + 1] <= j
      BY <2>3, <3>1 DEF Tiling
    <3>3. QED
      BY <1>0, <1>1, <1>2, <2>3, <3>1, <3>2
  <2>4. CASE i = hi /\ j = hi
    BY <1>3, <1>6, <2>4
  <2>5. QED
    BY <2>1, <2>2, <2>3, <2>4
<1>7. ASSUME NEW p \in Nat PROVE (\E i \in T : Holds(kv, i, p)) <=> \E i \in T1 : Holds(kv1, i, p)
  <2>1. Holds(kv, lo, p) <=> Holds(kv1, lo, p) \/ Holds(kv1, hi, p)
    BY <1>0, <1>1, <1>2 DEF Holds
  <2>2. \A i \in T : i # lo => (Holds(kv1, i, p) <=> Holds(kv, i, p))
    BY DEF Holds
  <2>3. QED
    BY <2>1, <2>2
<1>8. QED
  BY <1>1, <1>3, <1>4, <1>5, <1>6, <1>7 DEF Tiling

\* A page outside is added.
LEMMA TileAdd ==
    ASSUME NEW N, NEW K, Size(N, K), NEW T, NEW kv, NEW U, Tiling(T, kv, N, K, U),
           NEW x \in 0 .. N - 1, x \notin U,
           NEW kv1, kv1[x] = 0, \A i \in T : i # x => kv1[i] = kv[i]
    PROVE  x \notin T /\ Tiling(T \union {x}, kv1, N, K, U \union {x})
<1>0. N \in Nat /\ K \in Nat /\ 0 \in 0 .. K /\ Bit[0] = 1 /\ x \in Nat /\ x + 1 <= N
  <2>1. N \in Nat /\ K \in Nat /\ Bit[0] = 1
    BY SizeNat, BitIs
  <2>2. QED
    BY <2>1
<1>1. \A i \in T : ~Holds(kv, i, x)
  BY <1>0 DEF Tiling
<1>2. \A i \in T : i # x
  <2>1. SUFFICES ASSUME x \in T PROVE FALSE
    OBVIOUS
  <2>2. Bit[kv[x]] \in Nat \ {0}
    BY <2>1, TileNumbers
  <2>3. Holds(kv, x, x)
    BY <1>0, <2>2 DEF Holds
  <2>4. QED
    BY <1>1, <2>1, <2>3
<1>9. \A i \in T : kv1[i] = kv[i]
  BY <1>2
<1> USE <1>9
<1>3. Aligned(x, 0)
  <2>1. x = x * Bit[0]
    BY <1>0
  <2>2. QED
    BY <1>0, <2>1 DEF Aligned
<1>4. ASSUME NEW i \in T \union {x}
      PROVE  i \in 0 .. N - 1 /\ kv1[i] \in 0 .. K /\ Aligned(i, kv1[i]) /\ i + Bit[kv1[i]] <= N
  <2>1. CASE i = x
    BY <1>0, <1>3, <2>1
  <2>2. CASE i \in T
    BY <2>2, TileNumbers
  <2>3. QED
    BY <2>1, <2>2
<1>5. ASSUME NEW i \in T \union {x}, NEW j \in T \union {x}, i < j PROVE i + Bit[kv1[i]] <= j
  <2>1. CASE i \in T /\ j \in T
    BY <1>5, <2>1 DEF Tiling
  <2>2. CASE i \in T /\ j = x
    <3>1. i \in Nat /\ Bit[kv[i]] \in Nat /\ ~Holds(kv, i, x) /\ kv1[i] = kv[i]
      BY <1>1, <2>2, TileNumbers
    <3>2. QED
      BY <1>0, <1>5, <2>2, <3>1 DEF Holds
  <2>3. CASE i = x
    <3>1. j \in Nat
      BY <1>4
    <3>2. QED
      BY <1>0, <1>5, <2>3, <3>1
  <2>4. QED
    BY <2>1, <2>2, <2>3
<1>6. ASSUME NEW p \in Nat
      PROVE  p \in U \union {x} <=> \E i \in T \union {x} : Holds(kv1, i, p)
  <2>1. p \in U <=> \E i \in T : Holds(kv, i, p)
    BY DEF Tiling
  <2>2. Holds(kv1, x, p) <=> p = x
    BY <1>0 DEF Holds
  <2>3. \A i \in T : Holds(kv1, i, p) <=> Holds(kv, i, p)
    BY DEF Holds
  <2>4. QED
    BY <2>1, <2>2, <2>3
<1>7. U \union {x} \subseteq Nat
  BY <1>0 DEF Tiling
<1>8. QED
  BY <1>2, <1>4, <1>5, <1>6, <1>7 DEF Tiling

-----------------------------------------------------------------------------
(* The allocator's fields *)

AllocT(N, K) == [maxKVal : {K}, avail : [0 .. K -> Seq(0 .. N - 1)],
                 tag : [0 .. N - 1 -> {FREE, RESERVED}], kval : [0 .. N - 1 -> 0 .. K],
                 freeBlockCount : Int]

\* The pages where free blocks begin.
Free1st(a, N) == {i \in 0 .. N - 1 : a.tag[i] = FREE}

\* list has each free block of order k once, and nothing else.
ListOf(a, N, k, list) ==
    /\ list \in Seq(0 .. N - 1)
    /\ \A n \in 1 .. Len(list) : list[n] \in Free1st(a, N) /\ a.kval[list[n]] = k
    /\ \A i \in Free1st(a, N) : a.kval[i] = k => \E n \in 1 .. Len(list) : list[n] = i
    /\ \A n, l \in 1 .. Len(list) : list[n] = list[l] => n = l

Listed(a, N, K) == \A k \in 0 .. K : ListOf(a, N, k, a.avail[k])

\* No block and its buddy are both free and of the same order.
Merged(a, N, K) ==
    \A i, j \in Free1st(a, N) : a.kval[i] = a.kval[j] /\ a.kval[i] < K => j # Buddy(i, a.kval[i])

Core(a, N, K) == Size(N, K) /\ a \in AllocT(N, K) /\ Listed(a, N, K) /\ Merged(a, N, K)

Others(a, Hd, N) == Hd \subseteq 0 .. N - 1 /\ Hd \intersect Free1st(a, N) = {}

\* The free blocks and those that begin at Hd, which callers hold, are the pages of U.
Good(a, Hd, U, N, K) ==
    /\ Core(a, N, K) /\ Others(a, Hd, N)
    /\ Tiling(Free1st(a, N) \union Hd, a.kval, N, K, U)

\* The same with a block in hand that is neither listed nor held.
InHand(a, x, k, Hd, U, N, K) ==
    /\ Core(a, N, K) /\ Others(a, Hd, N) /\ k \in 0 .. K
    /\ x \in 0 .. N - 1 /\ x \notin Hd /\ x \notin Free1st(a, N)
    /\ Tiling(Free1st(a, N) \union Hd \union {x}, [a.kval EXCEPT ![x] = k], N, K, U)

LEMMA AllocFields ==
    ASSUME NEW N, NEW K, NEW a \in AllocT(N, K)
    PROVE  /\ a.maxKVal = K /\ a.freeBlockCount \in Int
           /\ a.avail \in [0 .. K -> Seq(0 .. N - 1)]
           /\ a.tag \in [0 .. N - 1 -> {FREE, RESERVED}]
           /\ a.kval \in [0 .. N - 1 -> 0 .. K]
BY DEF AllocT

\* The count of free blocks does not matter to the rest.
LEMMA CountChanges ==
    ASSUME NEW N, NEW K, NEW a \in AllocT(N, K), NEW c \in Int
    PROVE  LET a1 == [a EXCEPT !.freeBlockCount = c] IN
           /\ a1 \in AllocT(N, K) /\ a1.avail = a.avail /\ a1.tag = a.tag /\ a1.kval = a.kval
           /\ a1.maxKVal = a.maxKVal /\ a1.freeBlockCount = c
BY DEF AllocT

\* a1 has the lists, tags and orders of a.
Alike(a, a1) == a1.avail = a.avail /\ a1.tag = a.tag /\ a1.kval = a.kval

LEMMA AlikeCore ==
    ASSUME NEW N, NEW K, NEW a, Core(a, N, K), NEW a1 \in AllocT(N, K), Alike(a, a1)
    PROVE  Core(a1, N, K) /\ Free1st(a1, N) = Free1st(a, N)
<1>1. Free1st(a1, N) = Free1st(a, N)
  BY DEF Free1st, Alike
<1>2. Listed(a1, N, K)
  BY <1>1 DEF Core, Listed, ListOf, Alike
<1>3. Merged(a1, N, K)
  BY <1>1 DEF Core, Merged, Alike
<1>4. QED
  BY <1>1, <1>2, <1>3 DEF Core

LEMMA AlikeInHand ==
    ASSUME NEW N, NEW K, NEW a, NEW x, NEW k, NEW Hd, NEW U, InHand(a, x, k, Hd, U, N, K),
           NEW a1 \in AllocT(N, K), Alike(a, a1)
    PROVE  InHand(a1, x, k, Hd, U, N, K)
<1>1. Core(a1, N, K) /\ Free1st(a1, N) = Free1st(a, N)
  BY AlikeCore DEF InHand
<1>2. a1.kval = a.kval
  BY DEF Alike
<1>3. QED
  BY <1>1, <1>2 DEF InHand, Others

LEMMA AlikeGood ==
    ASSUME NEW N, NEW K, NEW a, NEW Hd, NEW U, Good(a, Hd, U, N, K), NEW a1 \in AllocT(N, K), Alike(a, a1)
    PROVE  Good(a1, Hd, U, N, K)
<1>1. Core(a1, N, K) /\ Free1st(a1, N) = Free1st(a, N)
  BY AlikeCore DEF Good
<1>2. a1.kval = a.kval
  BY DEF Alike
<1>3. QED
  BY <1>1, <1>2 DEF Good, Others

-----------------------------------------------------------------------------
(* Lists *)

\* less is the list without its entry b.
Without(list, b, less, S) ==
    /\ less \in Seq(S)
    /\ \A i \in 1 .. Len(less) : less[i] # b /\ \E j \in 1 .. Len(list) : less[i] = list[j]
    /\ \A j \in 1 .. Len(list) : list[j] # b => \E i \in 1 .. Len(less) : less[i] = list[j]
    /\ \A i, j \in 1 .. Len(less) : less[i] = less[j] => i = j

\* A list without one of its entries.
LEMMA UnlinkIs ==
    ASSUME NEW S, NEW list \in Seq(S), NEW b, NEW n \in 1 .. Len(list), list[n] = b,
           \A i, j \in 1 .. Len(list) : list[i] = list[j] => i = j
    PROVE  Without(list, b, Unlink(list, b), S)
<1> DEFINE c == CHOOSE l \in DOMAIN list : list[l] = b
           u == RemoveEntry(list, n)
<1>0. DOMAIN list = 1 .. Len(list) /\ Len(list) \in Nat
  OBVIOUS
<1>1. c = n
  <2>1. c \in 1 .. Len(list) /\ list[c] = b
    BY <1>0
  <2>2. QED
    BY <2>1
<1>2. Unlink(list, b) = u
  BY <1>1 DEF Unlink
<1>3. /\ u \in Seq(S) /\ Len(u) = Len(list) - 1
      /\ \A j \in 1 .. Len(list) - 1 : u[j] = IF j < n THEN list[j] ELSE list[j + 1]
  BY RemoveEntryIs
<1> HIDE DEF u, c
<1> DEFINE s(j) == IF j < n THEN j ELSE j + 1
<1>4. \A j \in 1 .. Len(u) : s(j) \in 1 .. Len(list) /\ s(j) # n /\ u[j] = list[s(j)]
  BY <1>0, <1>3
<1>5. \A i, j \in 1 .. Len(u) : s(i) = s(j) => i = j
  BY <1>0, <1>3
<1>6. \A j \in 1 .. Len(list) : j # n => \E i \in 1 .. Len(u) : s(i) = j
  <2>1. SUFFICES ASSUME NEW j \in 1 .. Len(list), j # n PROVE \E i \in 1 .. Len(u) : s(i) = j
    OBVIOUS
  <2>2. CASE j < n
    <3>1. j \in 1 .. Len(u) /\ s(j) = j
      BY <1>0, <1>3, <2>2
    <3>2. QED
      BY <3>1
  <2>3. CASE n < j
    <3>1. j - 1 \in 1 .. Len(u) /\ s(j - 1) = j
      BY <1>0, <1>3, <2>3
    <3>2. QED
      BY <3>1
  <2>4. QED
    BY <2>1, <2>2, <2>3
<1> HIDE DEF s
<1>7. \A i \in 1 .. Len(u) : u[i] # b /\ \E j \in 1 .. Len(list) : u[i] = list[j]
  BY <1>4
<1>8. \A j \in 1 .. Len(list) : list[j] # b => \E i \in 1 .. Len(u) : u[i] = list[j]
  <2>1. SUFFICES ASSUME NEW j \in 1 .. Len(list), list[j] # b PROVE \E i \in 1 .. Len(u) : u[i] = list[j]
    OBVIOUS
  <2>2. j # n
    BY <2>1
  <2>3. PICK i \in 1 .. Len(u) : s(i) = j
    BY <1>6, <2>2
  <2>4. QED
    BY <1>4, <2>3
<1>9. \A i, j \in 1 .. Len(u) : u[i] = u[j] => i = j
  BY <1>4, <1>5
<1>10. QED
  BY <1>2, <1>3, <1>7, <1>8, <1>9 DEF Without

\* A list without its last entry.
LEMMA FrontIs ==
    ASSUME NEW S, NEW list \in Seq(S), list # <<>>
    PROVE  /\ Len(list) \in 1 .. Len(list) /\ Last(list) = list[Len(list)]
           /\ Front(list) \in Seq(S) /\ Len(Front(list)) = Len(list) - 1
           /\ \A i \in 1 .. Len(list) - 1 : Front(list)[i] = list[i]
<1>0. Len(list) \in Nat \ {0}
  OBVIOUS
<1>1. Front(list) = [i \in 1 .. Len(list) - 1 |-> list[i]]
  BY <1>0 DEF Front, SubSeq
<1>2. Front(list) \in [1 .. Len(list) - 1 -> S]
  <2>1. \A i \in 1 .. Len(list) - 1 : list[i] \in S
    BY <1>0
  <2>2. QED
    BY <1>1, <2>1
<1>3. QED
  BY <1>0, <1>1, <1>2, FunctionIsSeq DEF Last

\* A list with an entry in front.
LEMMA PutInFront ==
    ASSUME NEW S, NEW list \in Seq(S), NEW x \in S
    PROVE  /\ <<x>> \o list \in Seq(S) /\ Len(<<x>> \o list) = Len(list) + 1
           /\ (<<x>> \o list)[1] = x
           /\ \A i \in 1 .. Len(list) : (<<x>> \o list)[i + 1] = list[i]
OBVIOUS

-----------------------------------------------------------------------------
(* insert() *)

\* The buddy of the buddy is the block.
LEMMA BuddyBack ==
    ASSUME NEW k \in 0 .. Width - 1, NEW x, Aligned(x, k)
    PROVE  Buddy(Buddy(x, k), k) = x /\ Buddy(x, k) # x
<1>1. PICK lo \in Nat : Pair(x, Buddy(x, k), k, lo)
  BY BuddyPair
<1>2. Aligned(lo, k + 1)
  BY <1>1 DEF Pair
<1>3. Buddy(lo, k) = lo + Bit[k] /\ Buddy(lo + Bit[k], k) = lo
  BY <1>2, BuddiesIn
<1>4. k \in 0 .. Width
  BY BitIs
<1>5. Bit[k] \in Nat \ {0}
  BY <1>4, BitPositive
<1>6. QED
  BY <1>1, <1>3, <1>5 DEF Pair

\* Where a block in hand and its buddy are.
LEMMA HandBuddy ==
    ASSUME NEW N, NEW K, NEW a, NEW x, NEW k, NEW Hd, NEW U, InHand(a, x, k, Hd, U, N, K), k < K
    PROVE  /\ k \in 0 .. K - 1 /\ k \in 0 .. Width - 1 /\ Aligned(x, k)
           /\ Buddy(x, k) \in 0 .. N - 1
           /\ \E lo \in Nat : Pair(x, Buddy(x, k), k, lo)
<1> DEFINE T == Free1st(a, N) \union Hd \union {x}
           kv == [a.kval EXCEPT ![x] = k]
<1>0. Size(N, K) /\ x \in 0 .. N - 1 /\ Tiling(T, kv, N, K, U) /\ a \in AllocT(N, K) /\ k \in 0 .. K
  BY DEF InHand, Core
<1>1. a.kval \in [0 .. N - 1 -> 0 .. K]
  BY <1>0, AllocFields
<1>2. kv[x] = k /\ x \in T
  BY <1>0, <1>1
<1> HIDE DEF T, kv
<1>3. Aligned(x, k)
  BY <1>0, <1>2, TileNumbers
<1>4. N \in Nat /\ K \in Nat /\ Width \in Nat /\ K \in 0 .. Width /\ N = Bit[K]
  <2>1. N \in Nat /\ K \in Nat /\ Width \in Nat
    BY <1>0, SizeNat
  <2>2. N # 0
    BY <1>0, <2>1
  <2>3. QED
    BY <1>0, <2>1, <2>2 DEF Size
<1>5. k \in 0 .. K - 1 /\ k \in 0 .. Width - 1 /\ k + 1 \in 0 .. Width /\ k + 1 <= K /\ k \in 0 .. Width
  BY <1>0, <1>4
<1>6. PICK lo \in Nat : Pair(x, Buddy(x, k), k, lo)
  BY <1>3, <1>5, BuddyPair
<1>7. Aligned(lo, k + 1)
  BY <1>6 DEF Pair
<1>8. Bit[k] \in Nat \ {0} /\ Bit[k + 1] = Bit[k] + Bit[k]
  BY <1>5, <1>7, BitPositive, BuddiesIn
<1>9. lo < Bit[K]
  BY <1>0, <1>4, <1>6, <1>8 DEF Pair
<1>10. lo + Bit[k + 1] <= Bit[K]
  BY <1>4, <1>5, <1>7, <1>9, AlignedFits
<1>11. Buddy(x, k) \in 0 .. N - 1
  BY <1>4, <1>6, <1>8, <1>10 DEF Pair
<1>12. QED
  BY <1>3, <1>5, <1>6, <1>11

\* The fields after a join.
Unlisted(a, k, b) == [a EXCEPT !.avail[k] = Unlink(@, b), !.tag[b] = RESERVED]

\* a1 is a without block b in its list of order k.
Taken(a, k, b, list, a1) ==
    /\ a1.avail = [a.avail EXCEPT ![k] = list] /\ a1.tag = [a.tag EXCEPT ![b] = RESERVED]
    /\ a1.kval = a.kval

LEMMA UnlistKeeps ==
    ASSUME NEW N, NEW K, NEW a, Core(a, N, K), NEW k \in 0 .. K, NEW b \in Free1st(a, N), a.kval[b] = k,
           NEW a1 \in AllocT(N, K), NEW list, Without(a.avail[k], b, list, 0 .. N - 1),
           Taken(a, k, b, list, a1)
    PROVE  Core(a1, N, K) /\ Free1st(a1, N) = Free1st(a, N) \ {b}
<1>0. Size(N, K) /\ a \in AllocT(N, K) /\ Listed(a, N, K) /\ Merged(a, N, K)
  BY DEF Core
<1> USE DEF Taken
<1>1. a.avail \in [0 .. K -> Seq(0 .. N - 1)] /\ a.tag \in [0 .. N - 1 -> {FREE, RESERVED}]
  BY <1>0, AllocFields
<1>2. Free1st(a1, N) = Free1st(a, N) \ {b}
  <2>1. FREE # RESERVED
    BY DEF FREE, RESERVED
  <2>2. b \in 0 .. N - 1
    BY DEF Free1st
  <2>3. \A i \in 0 .. N - 1 : a1.tag[i] = IF i = b THEN RESERVED ELSE a.tag[i]
    BY <1>1, <2>2
  <2>4. QED
    BY <2>1, <2>3 DEF Free1st
<1>3. \A j \in 0 .. K : ListOf(a, N, j, a.avail[j])
  BY <1>0 DEF Listed
<1>4. ASSUME NEW j \in 0 .. K, j # k PROVE ListOf(a1, N, j, a1.avail[j])
  <2>1. a1.avail[j] = a.avail[j]
    BY <1>1, <1>4
  <2>2. ListOf(a, N, j, a.avail[j])
    BY <1>3
  <2>3. \A n \in 1 .. Len(a.avail[j]) : a.avail[j][n] # b
    BY <1>4, <2>2 DEF ListOf
  <2>4. ListOf(a1, N, j, a.avail[j])
    <3> DEFINE l == a.avail[j]
    <3>1. l \in Seq(0 .. N - 1) /\ \A n, m \in 1 .. Len(l) : l[n] = l[m] => n = m
      BY <2>2 DEF ListOf
    <3>2. \A n \in 1 .. Len(l) : l[n] \in Free1st(a1, N) /\ a1.kval[l[n]] = j
      <4>1. \A n \in 1 .. Len(l) : l[n] \in Free1st(a, N) /\ a.kval[l[n]] = j
        BY <2>2 DEF ListOf
      <4>2. QED
        BY <1>2, <2>3, <4>1
    <3>3. \A i \in Free1st(a1, N) : a1.kval[i] = j => \E n \in 1 .. Len(l) : l[n] = i
      <4>1. \A i \in Free1st(a, N) : a.kval[i] = j => \E n \in 1 .. Len(l) : l[n] = i
        BY <2>2 DEF ListOf
      <4>2. QED
        BY <1>2, <4>1
    <3>4. QED
      BY <3>1, <3>2, <3>3 DEF ListOf
  <2>5. QED
    BY <2>1, <2>4
<1>5. ListOf(a1, N, k, a1.avail[k])
  <2> DEFINE l == a.avail[k]
  <2>0. /\ list \in Seq(0 .. N - 1)
        /\ \A i \in 1 .. Len(list) : list[i] # b /\ \E j \in 1 .. Len(l) : list[i] = l[j]
        /\ \A j \in 1 .. Len(l) : l[j] # b => \E i \in 1 .. Len(list) : list[i] = l[j]
        /\ \A i, j \in 1 .. Len(list) : list[i] = list[j] => i = j
    BY DEF Without
  <2>1. a1.avail[k] = list
    BY <1>1
  <2>2. /\ \A n \in 1 .. Len(l) : l[n] \in Free1st(a, N) /\ a.kval[l[n]] = k
        /\ \A i \in Free1st(a, N) : a.kval[i] = k => \E n \in 1 .. Len(l) : l[n] = i
    BY <1>3 DEF ListOf
  <2> HIDE DEF l
  <2>3. \A n \in 1 .. Len(list) : list[n] \in Free1st(a1, N) /\ a1.kval[list[n]] = k
    <3>1. SUFFICES ASSUME NEW n \in 1 .. Len(list)
                   PROVE  list[n] \in Free1st(a1, N) /\ a1.kval[list[n]] = k
      OBVIOUS
    <3>2. PICK j \in 1 .. Len(l) : list[n] = l[j]
      BY <2>0
    <3>3. list[n] # b /\ list[n] \in Free1st(a, N) /\ a.kval[list[n]] = k
      BY <2>0, <2>2, <3>2
    <3>4. QED
      BY <1>2, <3>3
  <2>4. \A i \in Free1st(a1, N) : a1.kval[i] = k => \E n \in 1 .. Len(list) : list[n] = i
    <3>1. SUFFICES ASSUME NEW i \in Free1st(a1, N), a1.kval[i] = k PROVE \E n \in 1 .. Len(list) : list[n] = i
      OBVIOUS
    <3>2. i \in Free1st(a, N) /\ i # b /\ a.kval[i] = k
      BY <1>2, <3>1
    <3>3. PICK j \in 1 .. Len(l) : l[j] = i
      BY <2>2, <3>2
    <3>4. QED
      BY <2>0, <3>2, <3>3
  <2>5. ListOf(a1, N, k, list)
    BY <2>0, <2>3, <2>4 DEF ListOf
  <2>6. QED
    BY <2>1, <2>5
<1>6. Listed(a1, N, K)
  BY <1>4, <1>5 DEF Listed
<1>7. Merged(a1, N, K)
  BY <1>0, <1>2 DEF Merged
<1>8. QED
  BY <1>0, <1>2, <1>6, <1>7 DEF Core

\* The block in hand is joined with its buddy.
LEMMA JoinKeeps ==
    ASSUME NEW N, NEW K, NEW a, NEW x, NEW k, NEW Hd, NEW U, InHand(a, x, k, Hd, U, N, K), k < K,
           a.tag[Buddy(x, k)] = FREE, a.kval[Buddy(x, k)] = k
    PROVE  InHand(Unlisted(a, k, Buddy(x, k)), IF Buddy(x, k) < x THEN Buddy(x, k) ELSE x,
                  k + 1, Hd, U, N, K)
<1> DEFINE b == Buddy(x, k)
           a1 == Unlisted(a, k, b)
           x1 == IF b < x THEN b ELSE x
           T == Free1st(a, N) \union Hd \union {x}
           kv == [a.kval EXCEPT ![x] = k]
<1>0. /\ Core(a, N, K) /\ Size(N, K) /\ a \in AllocT(N, K) /\ Others(a, Hd, N) /\ k \in 0 .. K
      /\ x \in 0 .. N - 1 /\ x \notin Hd /\ x \notin Free1st(a, N) /\ Tiling(T, kv, N, K, U)
  BY DEF InHand, Core
<1>1. N \in Nat /\ K \in Nat /\ Width \in Nat
  BY <1>0, SizeNat
<1>2. k \in 0 .. K - 1 /\ k \in 0 .. Width - 1 /\ b \in 0 .. N - 1
  BY HandBuddy
<1>3. PICK lo \in Nat : Pair(x, b, k, lo)
  BY HandBuddy
<1> HIDE DEF b
<1>4. a.tag[b] = FREE /\ a.kval[b] = k
  BY DEF b
<1>5. b \in Free1st(a, N) /\ b # x /\ b \notin Hd
  BY <1>0, <1>2, <1>4 DEF Free1st, Others
<1>6. /\ a.avail \in [0 .. K -> Seq(0 .. N - 1)] /\ a.tag \in [0 .. N - 1 -> {FREE, RESERVED}]
      /\ a.kval \in [0 .. N - 1 -> 0 .. K]
  BY <1>0, AllocFields
<1> DEFINE list == Unlink(a.avail[k], b)
<1>7. ListOf(a, N, k, a.avail[k])
  BY <1>0 DEF Core, Listed
<1>8. PICK n \in 1 .. Len(a.avail[k]) : a.avail[k][n] = b
  BY <1>4, <1>5, <1>7 DEF ListOf
<1>9. Without(a.avail[k], b, list, 0 .. N - 1) /\ list \in Seq(0 .. N - 1)
  <2> DEFINE l == a.avail[k]
  <2>1. l \in Seq(0 .. N - 1) /\ \A i, j \in 1 .. Len(l) : l[i] = l[j] => i = j
    BY <1>7 DEF ListOf
  <2>2. n \in 1 .. Len(l) /\ l[n] = b
    BY <1>8
  <2> HIDE DEF l
  <2>3. Without(l, b, Unlink(l, b), 0 .. N - 1)
    BY <2>1, <2>2, UnlinkIs
  <2>4. QED
    BY <2>3 DEF l, Without
<1>10. /\ a1 \in AllocT(N, K) /\ a1.avail = [a.avail EXCEPT ![k] = list]
       /\ a1.tag = [a.tag EXCEPT ![b] = RESERVED] /\ a1.kval = a.kval
  <2> HIDE DEF list
  <2>1. a1 = [a EXCEPT !.avail = [a.avail EXCEPT ![k] = list], !.tag = [a.tag EXCEPT ![b] = RESERVED]]
    BY DEF Unlisted, list
  <2>2. [a.avail EXCEPT ![k] = list] \in [0 .. K -> Seq(0 .. N - 1)]
    BY <1>6, <1>9
  <2>3. [a.tag EXCEPT ![b] = RESERVED] \in [0 .. N - 1 -> {FREE, RESERVED}]
    BY <1>6
  <2> HIDE DEF a1
  <2>4. QED
    BY <1>0, <2>1, <2>2, <2>3 DEF AllocT
<1> HIDE DEF list, a1
<1>11. Core(a1, N, K) /\ Free1st(a1, N) = Free1st(a, N) \ {b}
  <2>1. Core(a, N, K) /\ k \in 0 .. K /\ b \in Free1st(a, N) /\ a.kval[b] = k
    BY <1>0, <1>4, <1>5
  <2>2. Taken(a, k, b, list, a1)
    BY <1>10 DEF Taken
  <2>3. QED
    BY <1>9, <1>10, <2>1, <2>2, UnlistKeeps
<1>12. Others(a1, Hd, N)
  BY <1>0, <1>11 DEF Others
<1>13. Bit[k] \in Nat \ {0}
  BY <1>0, SizeNat
<1>14. /\ x1 = lo /\ x1 \in {x, b} /\ x1 \in 0 .. N - 1 /\ lo + Bit[k] \in {x, b}
       /\ lo + Bit[k] # lo /\ {x, b} = {lo, lo + Bit[k]}
  BY <1>0, <1>2, <1>3, <1>13 DEF Pair
<1>24. Aligned(lo, k + 1)
  BY <1>3 DEF Pair
<1>15. x1 \notin Hd /\ x1 \notin Free1st(a1, N)
  BY <1>0, <1>5, <1>11, <1>14
<1> DEFINE hi == lo + Bit[k]
           T1 == T \ {hi}
           kv1 == [a.kval EXCEPT ![x1] = k + 1]
<1>16. Free1st(a1, N) \union Hd \union {x1} = T1
  <2> HIDE DEF hi
  <2>0. x1 = lo /\ {x, b} = {lo, hi} /\ hi # lo
    BY <1>14 DEF hi
  <2>1. CASE x = lo /\ b = hi
    BY <1>0, <1>5, <1>11, <2>0, <2>1
  <2>2. CASE x = hi /\ b = lo
    BY <1>0, <1>5, <1>11, <2>0, <2>2
  <2>3. QED
    BY <1>5, <2>0, <2>1, <2>2
<1>17. kv[x] = k /\ kv[b] = k
  BY <1>0, <1>2, <1>4, <1>5, <1>6
<1>18. kv[lo] = k /\ kv[hi] = k /\ lo \in T /\ hi \in T
  BY <1>5, <1>14, <1>17
<1>19. kv1[lo] = k + 1
  BY <1>6, <1>14
<1>20. \A i \in T1 : i # lo => kv1[i] = kv[i]
  <2>1. SUFFICES ASSUME NEW i \in T1, i # lo PROVE kv1[i] = kv[i]
    OBVIOUS
  <2>2. i # x /\ i # x1
    BY <1>14, <2>1
  <2>3. i \in 0 .. N - 1
    BY <1>0, <2>1 DEF Free1st, Others
  <2>4. QED
    BY <1>6, <2>2, <2>3
<1>21. Tiling(T1, kv1, N, K, U)
  <2> HIDE DEF kv, kv1, T, T1, hi
  <2>1. hi = lo + Bit[k] /\ T1 = T \ {hi}
    BY DEF hi, T1
  <2>2. Tiling(T, kv, N, K, U) /\ k \in 0 .. K - 1 /\ Size(N, K)
    BY <1>0, <1>2
  <2>3. Doubled(T, kv, k, lo, hi, T1, kv1)
    BY <1>18, <1>19, <1>20, <2>1 DEF Doubled
  <2>4. QED
    BY <1>18, <1>24, <2>1, <2>2, <2>3, TileJoin
<1>22. k + 1 \in 0 .. K
  BY <1>1, <1>2
<1>23. InHand(a1, x1, k + 1, Hd, U, N, K)
  <2>1. [a1.kval EXCEPT ![x1] = k + 1] = kv1
    BY <1>10
  <2> HIDE DEF kv1, T1, x1
  <2>2. QED
    BY <1>11, <1>12, <1>14, <1>15, <1>16, <1>21, <1>22, <2>1 DEF InHand
<1>25. QED
  BY <1>23 DEF a1, b

\* a1 is a with block x in front of its list of order k.
Given(a, k, x, a1, N) ==
    /\ a1.avail = [a.avail EXCEPT ![k] = <<x>> \o a.avail[k]]
    /\ a1.tag = [a.tag EXCEPT ![x] = FREE]
    /\ a1.kval[x] = k /\ \A i \in Free1st(a, N) : a1.kval[i] = a.kval[i]

\* The buddy of block x of order k is not free and of that order.
NoBuddy(a, k, x, K, N) ==
    k < K => ~(Buddy(x, k) \in Free1st(a, N) /\ a.kval[Buddy(x, k)] = k)

\* Putting a block on a list.
LEMMA GiveKeeps ==
    ASSUME NEW N, NEW K, NEW a, Core(a, N, K), NEW k \in 0 .. K, NEW x \in 0 .. N - 1,
           x \notin Free1st(a, N), Aligned(x, k), NoBuddy(a, k, x, K, N),
           \A i \in Free1st(a, N) : Aligned(i, a.kval[i]),
           NEW a1 \in AllocT(N, K), Given(a, k, x, a1, N)
    PROVE  Core(a1, N, K) /\ Free1st(a1, N) = Free1st(a, N) \union {x}
<1>0. Size(N, K) /\ a \in AllocT(N, K) /\ Listed(a, N, K) /\ Merged(a, N, K)
  BY DEF Core
<1>1. a.avail \in [0 .. K -> Seq(0 .. N - 1)] /\ a.tag \in [0 .. N - 1 -> {FREE, RESERVED}]
  BY <1>0, AllocFields
<1>2. a1.kval[x] = k /\ \A i \in Free1st(a, N) : a1.kval[i] = a.kval[i]
  BY DEF Given
<1>3. Free1st(a1, N) = Free1st(a, N) \union {x}
  <2>1. \A i \in 0 .. N - 1 : a1.tag[i] = IF i = x THEN FREE ELSE a.tag[i]
    BY <1>1 DEF Given
  <2>2. QED
    BY <2>1 DEF Free1st
<1>4. \A j \in 0 .. K : ListOf(a, N, j, a.avail[j])
  BY <1>0 DEF Listed
<1>5. ASSUME NEW j \in 0 .. K, j # k PROVE ListOf(a1, N, j, a1.avail[j])
  <2> DEFINE l == a.avail[j]
  <2>1. a1.avail[j] = l
    BY <1>1, <1>5 DEF Given
  <2>2. ListOf(a, N, j, l)
    BY <1>4
  <2>3. l \in Seq(0 .. N - 1) /\ \A n, m \in 1 .. Len(l) : l[n] = l[m] => n = m
    BY <2>2 DEF ListOf
  <2>4. \A n \in 1 .. Len(l) : l[n] \in Free1st(a, N) /\ a.kval[l[n]] = j
    BY <2>2 DEF ListOf
  <2>5. \A i \in Free1st(a, N) : a.kval[i] = j => \E n \in 1 .. Len(l) : l[n] = i
    BY <2>2 DEF ListOf
  <2> HIDE DEF l
  <2>6. \A n \in 1 .. Len(l) : l[n] \in Free1st(a1, N) /\ a1.kval[l[n]] = j
    BY <1>2, <1>3, <2>4
  <2>7. \A i \in Free1st(a1, N) : a1.kval[i] = j => \E n \in 1 .. Len(l) : l[n] = i
    BY <1>2, <1>3, <1>5, <2>5
  <2>8. ListOf(a1, N, j, l)
    BY <2>3, <2>6, <2>7 DEF ListOf
  <2>9. QED
    BY <2>1, <2>8
<1>6. ListOf(a1, N, k, a1.avail[k])
  <2> DEFINE l == a.avail[k]
             m == <<x>> \o l
  <2>1. a1.avail[k] = m
    BY <1>1 DEF Given
  <2>2. ListOf(a, N, k, l)
    BY <1>4
  <2>3. l \in Seq(0 .. N - 1) /\ \A i, j \in 1 .. Len(l) : l[i] = l[j] => i = j
    BY <2>2 DEF ListOf
  <2>4. \A n \in 1 .. Len(l) : l[n] \in Free1st(a, N) /\ a.kval[l[n]] = k
    BY <2>2 DEF ListOf
  <2>5. \A i \in Free1st(a, N) : a.kval[i] = k => \E n \in 1 .. Len(l) : l[n] = i
    BY <2>2 DEF ListOf
  <2> HIDE DEF l
  <2>6. /\ m \in Seq(0 .. N - 1) /\ Len(m) = Len(l) + 1 /\ m[1] = x /\ Len(l) \in Nat
        /\ \A i \in 1 .. Len(l) : m[i + 1] = l[i]
    BY <2>3, PutInFront
  <2> HIDE DEF m
  <2>7. \A i \in 1 .. Len(m) : i = 1 \/ (i - 1 \in 1 .. Len(l) /\ m[i] = l[i - 1])
    <3>1. SUFFICES ASSUME NEW i \in 1 .. Len(m), i # 1 PROVE i - 1 \in 1 .. Len(l) /\ m[i] = l[i - 1]
      OBVIOUS
    <3>2. i - 1 \in 1 .. Len(l) /\ (i - 1) + 1 = i
      BY <2>6, <3>1
    <3>3. m[(i - 1) + 1] = l[i - 1]
      BY <2>6, <3>2
    <3>4. QED
      BY <3>2, <3>3
  <2>8. \A n \in 1 .. Len(m) : m[n] \in Free1st(a1, N) /\ a1.kval[m[n]] = k
    <3>1. SUFFICES ASSUME NEW n \in 1 .. Len(m) PROVE m[n] \in Free1st(a1, N) /\ a1.kval[m[n]] = k
      OBVIOUS
    <3>2. m[n] = x \/ (m[n] \in Free1st(a, N) /\ a.kval[m[n]] = k)
      BY <2>4, <2>6, <2>7
    <3>3. QED
      BY <1>2, <1>3, <3>2
  <2>9. \A i \in Free1st(a1, N) : a1.kval[i] = k => \E n \in 1 .. Len(m) : m[n] = i
    <3>1. SUFFICES ASSUME NEW i \in Free1st(a1, N), a1.kval[i] = k PROVE \E n \in 1 .. Len(m) : m[n] = i
      OBVIOUS
    <3>2. CASE i = x
      <4>1. 1 \in 1 .. Len(m)
        BY <2>6
      <4>2. QED
        BY <2>6, <3>2, <4>1
    <3>3. CASE i # x
      <4>1. i \in Free1st(a, N) /\ a.kval[i] = k
        BY <1>2, <1>3, <3>1, <3>3
      <4>2. PICK n \in 1 .. Len(l) : l[n] = i
        BY <2>5, <4>1
      <4>3. n + 1 \in 1 .. Len(m) /\ m[n + 1] = i
        BY <2>6, <4>2
      <4>4. QED
        BY <4>3
    <3>4. QED
      BY <3>2, <3>3
  <2>10. \A i, j \in 1 .. Len(m) : m[i] = m[j] => i = j
    <3>1. \A i \in 1 .. Len(m) : i # 1 => m[i] # x
      BY <2>4, <2>7
    <3>2. SUFFICES ASSUME NEW i \in 1 .. Len(m), NEW j \in 1 .. Len(m), m[i] = m[j] PROVE i = j
      OBVIOUS
    <3>3. CASE i = 1 \/ j = 1
      BY <2>6, <3>1, <3>2, <3>3
    <3>4. CASE i # 1 /\ j # 1
      <4>1. i - 1 \in 1 .. Len(l) /\ j - 1 \in 1 .. Len(l) /\ l[i - 1] = l[j - 1]
        BY <2>7, <3>2, <3>4
      <4>2. i - 1 = j - 1
        BY <2>3, <4>1
      <4>3. QED
        BY <2>6, <4>2
    <3>5. QED
      BY <3>3, <3>4
  <2>11. ListOf(a1, N, k, m)
    BY <2>6, <2>8, <2>9, <2>10 DEF ListOf
  <2>12. QED
    BY <2>1, <2>11
<1>7. Listed(a1, N, K)
  BY <1>5, <1>6 DEF Listed
<1>8. Merged(a1, N, K)
  <2>1. SUFFICES ASSUME NEW i \in Free1st(a1, N), NEW j \in Free1st(a1, N),
                        a1.kval[i] = a1.kval[j], a1.kval[i] < K, j = Buddy(i, a1.kval[i])
                 PROVE  FALSE
    BY DEF Merged
  <2>2. CASE i # x /\ j # x
    <3>1. i \in Free1st(a, N) /\ j \in Free1st(a, N) /\ a.kval[i] = a1.kval[i] /\ a.kval[j] = a1.kval[j]
      BY <1>2, <1>3, <2>2
    <3>2. QED
      BY <1>0, <2>1, <3>1 DEF Merged
  <2>3. CASE i = x \/ j = x
    <3>1. a1.kval[i] = k /\ a1.kval[j] = k /\ k < K
      BY <1>2, <2>1, <2>3
    <3>2. k \in 0 .. Width - 1
      <4>1. K \in 0 .. Width /\ Width \in Nat
        BY <1>0, SizeNat DEF Size
      <4>2. QED
        BY <3>1, <4>1
    <3>3. Buddy(Buddy(x, k), k) = x /\ Buddy(x, k) # x
      BY <3>2, BuddyBack
    <3>4. CASE i = x
      <4>1. j = Buddy(x, k) /\ j # x
        BY <2>1, <3>1, <3>3, <3>4
      <4>2. j \in Free1st(a, N) /\ a.kval[j] = k
        BY <1>2, <1>3, <3>1, <4>1
      <4>3. QED
        BY <3>1, <4>1, <4>2 DEF NoBuddy
    <3>5. CASE j = x /\ i # x
      <4>1. i \in Free1st(a, N) /\ a.kval[i] = k
        BY <1>2, <1>3, <3>1, <3>5
      <4>2. Buddy(i, k) = x /\ Aligned(i, k)
        BY <2>1, <3>1, <3>5, <4>1
      <4>3. Buddy(Buddy(i, k), k) = i
        BY <3>2, <4>2, BuddyBack
      <4>4. QED
        BY <3>1, <4>1, <4>2, <4>3 DEF NoBuddy
    <3>6. QED
      BY <2>3, <3>4, <3>5
  <2>4. QED
    BY <2>2, <2>3
<1>9. QED
  BY <1>0, <1>3, <1>7, <1>8 DEF Core

\* The block in hand, when nothing joins it, goes to the front of its list.
LEMMA PutKeeps ==
    ASSUME NEW N, NEW K, NEW s, NEW Hd, NEW U, InHand(s.a, s.index, s.k, Hd, U, N, K), ~Joins(s)
    PROVE  Good(Put(s), Hd, U, N, K) /\ \A i \in Hd : Put(s).kval[i] = s.a.kval[i]
<1> DEFINE a == s.a
           x == s.index
           k == s.k
           a1 == Put(s)
           T == Free1st(a, N) \union Hd \union {x}
           kv == [a.kval EXCEPT ![x] = k]
<1>0. /\ Core(a, N, K) /\ Size(N, K) /\ a \in AllocT(N, K) /\ Others(a, Hd, N) /\ k \in 0 .. K
      /\ x \in 0 .. N - 1 /\ x \notin Hd /\ x \notin Free1st(a, N) /\ Tiling(T, kv, N, K, U)
  BY DEF InHand, Core
<1>1. /\ a.avail \in [0 .. K -> Seq(0 .. N - 1)] /\ a.tag \in [0 .. N - 1 -> {FREE, RESERVED}]
      /\ a.kval \in [0 .. N - 1 -> 0 .. K] /\ a.maxKVal = K
  BY <1>0, AllocFields
<1>2. a1 = [a EXCEPT !.avail = [a.avail EXCEPT ![k] = <<x>> \o a.avail[k]],
                     !.tag = [a.tag EXCEPT ![x] = FREE], !.kval = kv]
  BY DEF Put
<1>3. NoBuddy(a, k, x, K, N)
  BY <1>1 DEF NoBuddy, Joins, Free1st
<1> HIDE DEF a, x, k, a1
<1>4. /\ [a.avail EXCEPT ![k] = <<x>> \o a.avail[k]] \in [0 .. K -> Seq(0 .. N - 1)]
      /\ [a.tag EXCEPT ![x] = FREE] \in [0 .. N - 1 -> {FREE, RESERVED}]
      /\ kv \in [0 .. N - 1 -> 0 .. K]
  <2>1. <<x>> \o a.avail[k] \in Seq(0 .. N - 1)
    BY <1>0, <1>1, PutInFront
  <2>2. QED
    BY <1>0, <1>1, <2>1
<1>5. kv[x] = k /\ \A i \in 0 .. N - 1 : i # x => kv[i] = a.kval[i]
  BY <1>0, <1>1
<1> HIDE DEF kv
<1>6. /\ a1 \in AllocT(N, K) /\ a1.kval = kv
      /\ a1.avail = [a.avail EXCEPT ![k] = <<x>> \o a.avail[k]] /\ a1.tag = [a.tag EXCEPT ![x] = FREE]
  BY <1>0, <1>2, <1>4 DEF AllocT
<1>7. Free1st(a, N) \subseteq 0 .. N - 1 /\ Hd \subseteq 0 .. N - 1
  BY <1>0 DEF Free1st, Others
<1>8. Given(a, k, x, a1, N)
  BY <1>0, <1>5, <1>6, <1>7 DEF Given
<1>9. Aligned(x, k) /\ \A i \in Free1st(a, N) : Aligned(i, a.kval[i])
  <2>1. \A i \in T : Aligned(i, kv[i])
    BY <1>0, TileNumbers
  <2>2. QED
    BY <1>0, <1>5, <1>7, <2>1
<1>10. Core(a1, N, K) /\ Free1st(a1, N) = Free1st(a, N) \union {x}
  BY <1>0, <1>3, <1>6, <1>8, <1>9, GiveKeeps
<1>11. Others(a1, Hd, N)
  BY <1>0, <1>10 DEF Others
<1>12. Free1st(a1, N) \union Hd = T
  BY <1>10
<1>13. Tiling(Free1st(a1, N) \union Hd, a1.kval, N, K, U)
  BY <1>0, <1>6, <1>12
<1>14. \A i \in Hd : a1.kval[i] = a.kval[i]
  BY <1>0, <1>5, <1>6, <1>7
<1>15. QED
  BY <1>10, <1>11, <1>13, <1>14 DEF Good, a1, a

\* One turn of the loop of insert().
HandT(N, K) == [a : AllocT(N, K), index : 0 .. N - 1, k : 0 .. K]

LEMMA JoinTurn ==
    ASSUME NEW N, NEW K, NEW Hd, NEW U, NEW s \in HandT(N, K), InHand(s.a, s.index, s.k, Hd, U, N, K)
    PROVE  /\ Join(s) \in HandT(N, K)
           /\ InHand(Join(s).a, Join(s).index, Join(s).k, Hd, U, N, K)
           /\ Join(s).a.kval = s.a.kval
           /\ Joins(s) => Join(s).k = s.k + 1
           /\ ~Joins(s) => Join(s) = s
<1>0. Core(s.a, N, K) /\ s.a \in AllocT(N, K) /\ s.a.maxKVal = K
  BY AllocFields DEF InHand, Core
<1>1. CASE ~Joins(s)
  BY <1>1 DEF Join
<1>2. CASE Joins(s)
  <2> DEFINE b == Buddy(s.index, s.k)
             a1 == Unlisted(s.a, s.k, b)
             x1 == IF b < s.index THEN b ELSE s.index
  <2>1. s.k < K /\ s.a.tag[b] = FREE /\ s.a.kval[b] = s.k
    BY <1>0, <1>2 DEF Joins
  <2>2. InHand(a1, x1, s.k + 1, Hd, U, N, K)
    BY <2>1, JoinKeeps
  <2>3. Join(s) = [a |-> a1, index |-> x1, k |-> s.k + 1]
    BY <1>2 DEF Join, Unlisted
  <2>4. a1.kval = s.a.kval
    BY <1>0 DEF Unlisted, AllocT
  <2> HIDE DEF a1, x1, b
  <2>5. a1 \in AllocT(N, K) /\ x1 \in 0 .. N - 1 /\ s.k + 1 \in 0 .. K
    BY <2>2 DEF InHand, Core
  <2>6. QED
    BY <1>2, <2>2, <2>3, <2>4, <2>5 DEF HandT
<1>3. QED
  BY <1>1, <1>2

\* The states of that loop after j turns: a block that still joins has an order of j or more.
InLoop(kv, Hd, U, N, K, j) ==
    {s \in HandT(N, K) : /\ InHand(s.a, s.index, s.k, Hd, U, N, K) /\ s.a.kval = kv
                         /\ Joins(s) => s.k >= j}

\* insert() adds the block in hand to the free ones.
LEMMA InsertKeeps ==
    ASSUME NEW N, NEW K, NEW a, NEW x, NEW k, NEW Hd, NEW U, InHand(a, x, k, Hd, U, N, K)
    PROVE  /\ Good(InsertBlock(a, x, k), Hd, U, N, K)
           /\ \A i \in Hd : InsertBlock(a, x, k).kval[i] = a.kval[i]
<1> DEFINE s0 == [a |-> [a EXCEPT !.freeBlockCount = @ + Bit[k]], index |-> x, k |-> k]
           S == HandT(N, K)
           P(g) == g = [j \in 0 .. K |-> IF j = 0 THEN s0 ELSE Join(g[j - 1])]
           C == CHOOSE g : P(g)
           I(j) == InLoop(a.kval, Hd, U, N, K, j)
           G == [j \in 0 .. K |-> I(j)]
           turn == [j \in 1 .. K |-> [s \in S |-> Join(s)]]
<1>0. /\ Core(a, N, K) /\ Size(N, K) /\ a \in AllocT(N, K) /\ k \in 0 .. K /\ x \in 0 .. N - 1
  BY DEF InHand, Core
<1>1. K \in Nat /\ Bit[k] \in Nat
  BY <1>0, SizeNat
<1>2. a.maxKVal = K /\ a.freeBlockCount \in Int
  BY <1>0, AllocFields
<1>3. s0 \in I(0)
  <2> DEFINE a0 == [a EXCEPT !.freeBlockCount = a.freeBlockCount + Bit[k]]
  <2>1. a.freeBlockCount + Bit[k] \in Int
    BY <1>1, <1>2
  <2>2. a0 \in AllocT(N, K) /\ Alike(a, a0) /\ a0.kval = a.kval
    BY <1>0, <2>1, CountChanges DEF Alike
  <2> HIDE DEF a0
  <2>3. InHand(a0, x, k, Hd, U, N, K)
    BY <2>2, AlikeInHand
  <2>4. s0 = [a |-> a0, index |-> x, k |-> k]
    BY DEF a0
  <2>5. s0 \in S /\ s0.a = a0 /\ s0.index = x /\ s0.k = k
    BY <1>0, <2>2, <2>4 DEF HandT
  <2> HIDE DEF s0, S
  <2>6. s0.k >= 0
    BY <1>0, <1>1, <2>5
  <2>7. QED
    BY <2>2, <2>3, <2>5, <2>6 DEF InLoop, S
<1>4. \A j \in 1 .. K : \A s \in I(j - 1) : s \in S /\ Join(s) \in I(j)
  <2>1. SUFFICES ASSUME NEW j \in 1 .. K, NEW s \in I(j - 1) PROVE s \in S /\ Join(s) \in I(j)
    OBVIOUS
  <2>2. /\ s \in S /\ InHand(s.a, s.index, s.k, Hd, U, N, K) /\ s.a.kval = a.kval
        /\ Joins(s) => s.k >= j - 1
    BY DEF InLoop
  <2>3. /\ Join(s) \in HandT(N, K)
        /\ InHand(Join(s).a, Join(s).index, Join(s).k, Hd, U, N, K)
        /\ Join(s).a.kval = s.a.kval
        /\ Joins(s) => Join(s).k = s.k + 1
        /\ ~Joins(s) => Join(s) = s
    BY <2>2, JoinTurn
  <2>4. s.k \in Int
    BY <1>1, <2>2 DEF HandT
  <2>5. Joins(Join(s)) => Join(s).k >= j
    <3>1. CASE Joins(s)
      BY <1>1, <2>2, <2>3, <2>4, <3>1
    <3>2. CASE ~Joins(s)
      BY <2>3, <3>2
    <3>3. QED
      BY <3>1, <3>2
  <2>6. QED
    BY <2>2, <2>3, <2>5 DEF InLoop
<1> HIDE DEF s0, S, I
<1>5. P(C)
  <2>1. \A j \in 1 .. K : \A s \in G[j - 1] : turn[j][s] = Join(s) /\ turn[j][s] \in G[j]
    <3>1. SUFFICES ASSUME NEW j \in 1 .. K, NEW s \in G[j - 1]
                   PROVE  turn[j][s] = Join(s) /\ turn[j][s] \in G[j]
      OBVIOUS
    <3>2. j - 1 \in 0 .. K /\ j \in 0 .. K
      BY <1>1
    <3>3. s \in S /\ Join(s) \in I(j)
      BY <1>4, <3>2
    <3>4. QED
      BY <3>2, <3>3
  <2>2. s0 \in G[0]
    BY <1>1, <1>3
  <2> HIDE DEF G, turn
  <2>3. PICK g : IsLoop(g, K, s0, turn) /\ \A j \in 0 .. K : g[j] \in G[j]
    BY <1>1, <2>1, <2>2, LoopInvariant
  <2>4. \A j \in 0 .. K : j # 0 => turn[j][g[j - 1]] = Join(g[j - 1])
    <3>1. SUFFICES ASSUME NEW j \in 0 .. K, j # 0 PROVE turn[j][g[j - 1]] = Join(g[j - 1])
      OBVIOUS
    <3>2. j \in 1 .. K /\ j - 1 \in 0 .. K
      BY <1>1, <3>1
    <3>3. QED
      BY <2>1, <2>3, <3>2
  <2>5. P(g)
    BY <2>3, <2>4 DEF IsLoop
  <2> HIDE DEF P
  <2>6. QED
    BY <2>5
<1>6. InsertBlock(a, x, k) = Put(C[K])
  BY <1>2 DEF InsertBlock, s0
<1> HIDE DEF C
<1>7. C[K] \in I(K)
  <2> DEFINE J == {j \in 0 .. K : C[j] \in I(j)}
  <2>1. 0 \in J
    BY <1>1, <1>3, <1>5
  <2>2. ASSUME NEW j \in 1 .. K, j - 1 \in J PROVE j \in J
    <3>1. j \in 0 .. K /\ j # 0 /\ C[j - 1] \in I(j - 1)
      BY <1>1, <2>2
    <3>2. C[j] = Join(C[j - 1])
      BY <1>5, <3>1
    <3>3. QED
      BY <1>4, <3>1, <3>2
  <2> HIDE DEF J
  <2>3. \A j \in 0 .. K : j \in J
    BY <1>1, <2>1, <2>2, UpTo
  <2>4. K \in 0 .. K
    BY <1>1
  <2>5. QED
    BY <2>3, <2>4 DEF J
<1> DEFINE s == C[K]
<1> HIDE DEF s
<1>8. /\ InHand(s.a, s.index, s.k, Hd, U, N, K) /\ s.a.kval = a.kval
      /\ Joins(s) => s.k >= K
      /\ s \in HandT(N, K)
  BY <1>7 DEF I, InLoop, s
<1>9. ~Joins(s)
  <2>1. s.a.maxKVal = K /\ s.k \in Int
    BY <1>1, <1>8, AllocFields DEF HandT
  <2>2. QED
    BY <1>1, <1>8, <2>1 DEF Joins
<1>10. Good(Put(s), Hd, U, N, K) /\ \A i \in Hd : Put(s).kval[i] = s.a.kval[i]
  BY <1>8, <1>9, PutKeeps
<1>11. QED
  BY <1>6, <1>8, <1>10 DEF s

-----------------------------------------------------------------------------
(* free() and reserve() *)

\* A block that a caller gives back is in hand.
LEMMA GiveBack ==
    ASSUME NEW N, NEW K, NEW a, NEW Hd, NEW U, Good(a, Hd, U, N, K), NEW x \in Hd
    PROVE  InHand(a, x, a.kval[x], Hd \ {x}, U, N, K)
<1>0. /\ Core(a, N, K) /\ a \in AllocT(N, K) /\ Hd \subseteq 0 .. N - 1
      /\ Hd \intersect Free1st(a, N) = {} /\ Tiling(Free1st(a, N) \union Hd, a.kval, N, K, U)
  BY DEF Good, Core, Others
<1>1. a.kval \in [0 .. N - 1 -> 0 .. K]
  BY <1>0, AllocFields
<1>2. [a.kval EXCEPT ![x] = a.kval[x]] = a.kval
  BY <1>0, <1>1
<1>3. Free1st(a, N) \union (Hd \ {x}) \union {x} = Free1st(a, N) \union Hd
  OBVIOUS
<1>4. x \in 0 .. N - 1 /\ a.kval[x] \in 0 .. K
  BY <1>0, <1>1
<1>5. Others(a, Hd \ {x}, N)
  BY <1>0 DEF Others
<1>6. QED
  BY <1>0, <1>2, <1>3, <1>4, <1>5 DEF InHand

\* The block in hand, of the order recorded, goes to a caller.
LEMMA HandOut ==
    ASSUME NEW N, NEW K, NEW a, NEW x, NEW k, NEW Hd, NEW U, InHand(a, x, k, Hd, U, N, K), a.kval[x] = k
    PROVE  Good(a, Hd \union {x}, U, N, K)
<1>0. /\ Core(a, N, K) /\ a \in AllocT(N, K) /\ Hd \subseteq 0 .. N - 1 /\ x \in 0 .. N - 1
      /\ Hd \intersect Free1st(a, N) = {} /\ x \notin Free1st(a, N)
  BY DEF InHand, Core, Others
<1>1. a.kval \in [0 .. N - 1 -> 0 .. K]
  BY <1>0, AllocFields
<1>2. [a.kval EXCEPT ![x] = k] = a.kval
  BY <1>0, <1>1
<1>3. Free1st(a, N) \union Hd \union {x} = Free1st(a, N) \union (Hd \union {x})
  OBVIOUS
<1>4. Tiling(Free1st(a, N) \union (Hd \union {x}), a.kval, N, K, U)
  BY <1>2, <1>3 DEF InHand
<1>5. Others(a, Hd \union {x}, N)
  BY <1>0 DEF Others
<1>6. QED
  BY <1>0, <1>4, <1>5 DEF Good

\* A list without its last entry lacks that entry only.
LEMMA FrontWithout ==
    ASSUME NEW S, NEW list \in Seq(S), list # <<>>,
           \A i, j \in 1 .. Len(list) : list[i] = list[j] => i = j
    PROVE  Without(list, Last(list), Front(list), S)
<1> DEFINE n == Len(list)
           f == Front(list)
<1>1. /\ n \in 1 .. n /\ Last(list) = list[n] /\ f \in Seq(S) /\ Len(f) = n - 1
      /\ \A i \in 1 .. n - 1 : f[i] = list[i]
  BY FrontIs
<1>2. n \in Nat
  OBVIOUS
<1> HIDE DEF n, f
<1>3. \A i, j \in 1 .. n : list[i] = list[j] => i = j
  BY DEF n
<1>4. \A i \in 1 .. Len(f) : i \in 1 .. n /\ i # n /\ f[i] = list[i]
  BY <1>1, <1>2
<1>5. \A i \in 1 .. Len(f) : f[i] # Last(list) /\ \E j \in 1 .. n : f[i] = list[j]
  BY <1>1, <1>3, <1>4
<1>6. \A j \in 1 .. n : list[j] # Last(list) => \E i \in 1 .. Len(f) : f[i] = list[j]
  <2>1. SUFFICES ASSUME NEW j \in 1 .. n, list[j] # Last(list) PROVE \E i \in 1 .. Len(f) : f[i] = list[j]
    OBVIOUS
  <2>2. j # n
    BY <1>1, <2>1
  <2>3. j \in 1 .. Len(f)
    BY <1>1, <1>2, <2>2
  <2>4. QED
    BY <1>4, <2>3
<1>7. \A i, j \in 1 .. Len(f) : f[i] = f[j] => i = j
  BY <1>3, <1>4
<1>8. QED
  BY <1>1, <1>5, <1>6, <1>7 DEF Without, n, f

\* The last block of a list is taken into the hand.
LEMMA TakeKeeps ==
    ASSUME NEW N, NEW K, NEW a, NEW Hd, NEW U, Good(a, Hd, U, N, K),
           NEW j \in 0 .. K, a.avail[j] # <<>>, NEW k \in 0 .. Width
    PROVE  LET x  == Last(a.avail[j])
               a1 == Take(a, x, j, k)
           IN  /\ InHand(a1, x, j, Hd, U, N, K) /\ a1.kval = a.kval /\ a.kval[x] = j
               /\ \A i \in 0 .. K : i # j => a1.avail[i] = a.avail[i]
<1> DEFINE l == a.avail[j]
           x == Last(l)
           a1 == Take(a, x, j, k)
           list == Front(l)
<1>0. /\ Core(a, N, K) /\ Size(N, K) /\ a \in AllocT(N, K) /\ Hd \subseteq 0 .. N - 1 /\ Others(a, Hd, N)
      /\ Hd \intersect Free1st(a, N) = {} /\ Tiling(Free1st(a, N) \union Hd, a.kval, N, K, U)
  BY DEF Good, Core, Others
<1>1. /\ a.avail \in [0 .. K -> Seq(0 .. N - 1)] /\ a.tag \in [0 .. N - 1 -> {FREE, RESERVED}]
      /\ a.kval \in [0 .. N - 1 -> 0 .. K] /\ a.maxKVal = K /\ a.freeBlockCount \in Int
  BY <1>0, AllocFields
<1>2. ListOf(a, N, j, l)
  BY <1>0 DEF Core, Listed
<1> HIDE DEF l
<1>3. /\ l \in Seq(0 .. N - 1) /\ l # <<>> /\ \A i, m \in 1 .. Len(l) : l[i] = l[m] => i = m
  BY <1>2 DEF l, ListOf
<1>4. Len(l) \in 1 .. Len(l) /\ x = l[Len(l)] /\ list \in Seq(0 .. N - 1)
  BY <1>3, FrontIs
<1>5. x \in Free1st(a, N) /\ a.kval[x] = j
  BY <1>2, <1>4 DEF ListOf
<1>6. Without(l, x, list, 0 .. N - 1)
  BY <1>3, FrontWithout
<1>7. x \in 0 .. N - 1
  BY <1>5 DEF Free1st
<1>8. Bit[k] \in Nat
  BY BitPositive
<1> HIDE DEF x, list
<1>9. a1 = [a EXCEPT !.avail = [a.avail EXCEPT ![j] = list], !.tag = [a.tag EXCEPT ![x] = RESERVED],
                     !.freeBlockCount = a.freeBlockCount - Bit[k]]
  BY DEF Take, l, list
<1>10. /\ [a.avail EXCEPT ![j] = list] \in [0 .. K -> Seq(0 .. N - 1)]
       /\ [a.tag EXCEPT ![x] = RESERVED] \in [0 .. N - 1 -> {FREE, RESERVED}]
       /\ a.freeBlockCount - Bit[k] \in Int
  BY <1>1, <1>4, <1>7, <1>8
<1> HIDE DEF a1
<1>11. a1 \in AllocT(N, K) /\ Taken(a, j, x, list, a1)
  BY <1>0, <1>9, <1>10 DEF AllocT, Taken
<1>12. Core(a1, N, K) /\ Free1st(a1, N) = Free1st(a, N) \ {x}
  BY <1>0, <1>5, <1>6, <1>11, UnlistKeeps DEF l
<1>13. a1.kval = a.kval /\ \A i \in 0 .. K : i # j => a1.avail[i] = a.avail[i]
  BY <1>1, <1>11 DEF Taken
<1>14. [a1.kval EXCEPT ![x] = j] = a.kval
  BY <1>1, <1>5, <1>7, <1>13
<1>15. Free1st(a1, N) \union Hd \union {x} = Free1st(a, N) \union Hd
  BY <1>5, <1>12
<1>16. Others(a1, Hd, N) /\ x \notin Hd /\ x \notin Free1st(a1, N)
  BY <1>0, <1>5, <1>12 DEF Others
<1>17. InHand(a1, x, j, Hd, U, N, K)
  BY <1>0, <1>7, <1>12, <1>14, <1>15, <1>16 DEF InHand
<1>18. QED
  BY <1>5, <1>13, <1>17 DEF a1, x, l

\* The block in hand is split; its upper half becomes the only entry of its list.
LEMMA SplitTurn ==
    ASSUME NEW N, NEW K, NEW a, NEW x, NEW k, NEW Hd, NEW U, InHand(a, x, k + 1, Hd, U, N, K),
           k \in 0 .. K - 1, a.kval[x] = k + 1, a.avail[k] = <<>>
    PROVE  LET a1 == Split(a, x, k) IN
           /\ InHand(a1, x, k, Hd, U, N, K) /\ a1.kval[x] = k
           /\ \A i \in Hd : a1.kval[i] = a.kval[i]
           /\ \A i \in 0 .. K : i # k => a1.avail[i] = a.avail[i]
<1> DEFINE a1 == Split(a, x, k)
           hi == x + Bit[k]
           T == Free1st(a, N) \union Hd \union {x}
           kv == [a.kval EXCEPT ![x] = k + 1]
           T1 == T \union {hi}
           kv1 == [a.kval EXCEPT ![hi] = k, ![x] = k]
<1>0. /\ Core(a, N, K) /\ Size(N, K) /\ a \in AllocT(N, K) /\ Others(a, Hd, N) /\ k + 1 \in 0 .. K
      /\ x \in 0 .. N - 1 /\ x \notin Hd /\ x \notin Free1st(a, N) /\ Tiling(T, kv, N, K, U)
  BY DEF InHand, Core
<1>1. /\ a.avail \in [0 .. K -> Seq(0 .. N - 1)] /\ a.tag \in [0 .. N - 1 -> {FREE, RESERVED}]
      /\ a.kval \in [0 .. N - 1 -> 0 .. K] /\ a.maxKVal = K
  BY <1>0, AllocFields
<1>2. K \in Nat /\ K \in 0 .. Width /\ Width \in Nat /\ k \in 0 .. K /\ k \in 0 .. Width - 1
      /\ N \in Nat
  <2>1. K \in Nat /\ K \in 0 .. Width /\ Width \in Nat /\ N \in Nat
    BY <1>0, SizeNat DEF Size
  <2>2. QED
    BY <2>1
<1>3. Bit[k] \in Nat \ {0}
  BY <1>0, <1>2, SizeNat
<1>4. hi # x /\ kv = a.kval
  <2>1. hi # x
    BY <1>0, <1>2, <1>3
  <2>2. kv = a.kval
    BY <1>0, <1>1
  <2>3. QED
    BY <2>1, <2>2
<1>5. Free1st(a, N) \subseteq 0 .. N - 1 /\ Hd \subseteq 0 .. N - 1 /\ Hd \intersect Free1st(a, N) = {}
  BY <1>0 DEF Free1st, Others
<1> HIDE DEF hi, kv
<1>6. kv1 \in [0 .. N - 1 -> 0 .. K] /\ \A i \in 0 .. N - 1 : kv1[i] = IF i \in {x, hi} THEN k ELSE a.kval[i]
  BY <1>0, <1>1, <1>2, <1>4
<1> HIDE DEF kv1
<1>7. \A i \in T : i \in 0 .. N - 1
  BY <1>0, <1>5
<1>8. Aligned(x, k + 1) /\ x + Bit[k + 1] <= N
  <2>1. x \in T /\ kv[x] = k + 1
    BY <1>4
  <2> HIDE DEF T
  <2>2. QED
    BY <1>0, <2>1, TileNumbers
<1>9. Bit[k + 1] = Bit[k] + Bit[k] /\ Buddy(hi, k) = x /\ Aligned(hi, k)
  BY <1>2, <1>8, BuddiesIn DEF hi
<1>10. hi \in 0 .. N - 1
  BY <1>0, <1>2, <1>3, <1>8, <1>9 DEF hi
<1>11. hi \notin T
  <2>1. SUFFICES ASSUME hi \in T PROVE FALSE
    OBVIOUS
  <2>2. x + Bit[kv[x]] <= hi
    <3>1. x < hi /\ x \in T
      BY <1>0, <1>2, <1>3 DEF hi
    <3> HIDE DEF T
    <3>2. QED
      BY <1>0, <2>1, <3>1 DEF Tiling
  <2>3. QED
    BY <1>0, <1>2, <1>3, <1>4, <1>9, <2>2 DEF hi
<1>12. Halved(T, kv, k, x, hi, T1, kv1)
  <2>1. \A i \in T : i # x => kv1[i] = kv[i]
    BY <1>4, <1>6, <1>7, <1>11
  <2>2. kv1[x] = k /\ kv1[hi] = k
    BY <1>0, <1>6, <1>10
  <2>3. kv[x] = k + 1
    BY <1>4
  <2> HIDE DEF T
  <2>4. QED
    BY <2>1, <2>2, <2>3 DEF Halved
<1>13. Tiling(T1, kv1, N, K, U)
  <2>1. x \in T
    OBVIOUS
  <2> HIDE DEF T, T1
  <2>2. QED
    BY <1>0, <1>12, <2>1, TileSplit DEF hi
<1>14. a1 = [a EXCEPT !.avail = [a.avail EXCEPT ![k] = <<hi>>], !.tag = [a.tag EXCEPT ![hi] = FREE],
                      !.kval = kv1]
  BY DEF Split, hi, kv1
<1>15. /\ [a.avail EXCEPT ![k] = <<hi>>] \in [0 .. K -> Seq(0 .. N - 1)]
       /\ [a.tag EXCEPT ![hi] = FREE] \in [0 .. N - 1 -> {FREE, RESERVED}]
  <2>1. <<hi>> \in Seq(0 .. N - 1)
    BY <1>10
  <2>2. [a.tag EXCEPT ![hi] = FREE] \in [0 .. N - 1 -> {FREE, RESERVED}]
    BY <1>1
  <2>3. [a.avail EXCEPT ![k] = <<hi>>] \in [0 .. K -> Seq(0 .. N - 1)]
    BY <1>1, <2>1
  <2>4. QED
    BY <2>2, <2>3
<1> HIDE DEF a1
<1>16. /\ a1 \in AllocT(N, K) /\ a1.kval = kv1 /\ a1.avail = [a.avail EXCEPT ![k] = <<hi>>]
       /\ a1.tag = [a.tag EXCEPT ![hi] = FREE]
  BY <1>0, <1>6, <1>14, <1>15 DEF AllocT
<1>17. Given(a, k, hi, a1, N)
  <2>1. <<hi>> \o a.avail[k] = <<hi>>
    <3>1. <<hi>> \o <<>> = <<hi>>
      BY <1>10
    <3>2. QED
      BY <3>1
  <2>2. \A i \in Free1st(a, N) : i \in 0 .. N - 1 /\ i # x /\ i # hi
    BY <1>0, <1>5, <1>11
  <2>3. \A i \in Free1st(a, N) : a1.kval[i] = a.kval[i]
    BY <1>6, <1>16, <2>2
  <2>4. a1.kval[hi] = k
    BY <1>6, <1>10, <1>16
  <2>5. QED
    BY <1>16, <2>1, <2>3, <2>4 DEF Given
<1>18. NoBuddy(a, k, hi, K, N)
  BY <1>0, <1>9 DEF NoBuddy
<1>19. \A i \in Free1st(a, N) : Aligned(i, a.kval[i])
  <2>1. \A i \in T : Aligned(i, kv[i])
    <3> HIDE DEF T
    <3>1. QED
      BY <1>0, TileNumbers
  <2>2. QED
    BY <1>4, <2>1
<1>20. hi \notin Free1st(a, N)
  BY <1>11
<1>21. Core(a1, N, K) /\ Free1st(a1, N) = Free1st(a, N) \union {hi}
  BY <1>0, <1>2, <1>9, <1>10, <1>16, <1>17, <1>18, <1>19, <1>20, GiveKeeps
<1>22. Others(a1, Hd, N) /\ x \notin Free1st(a1, N)
  BY <1>0, <1>4, <1>11, <1>21 DEF Others
<1>23. Free1st(a1, N) \union Hd \union {x} = T1
  BY <1>21
<1>24. kv1[x] = k /\ [a1.kval EXCEPT ![x] = k] = kv1
  BY <1>0, <1>6, <1>16
<1>25. InHand(a1, x, k, Hd, U, N, K)
  <2> HIDE DEF T1
  <2>1. QED
    BY <1>0, <1>2, <1>13, <1>21, <1>22, <1>23, <1>24 DEF InHand
<1>26. \A i \in Hd : a1.kval[i] = a.kval[i]
  BY <1>0, <1>5, <1>6, <1>11, <1>16
<1>27. \A i \in 0 .. K : i # k => a1.avail[i] = a.avail[i]
  BY <1>1, <1>16
<1>28. QED
  BY <1>16, <1>24, <1>25, <1>26, <1>27 DEF a1

\* The fields while a block is split down to order k: in hand it has order o, and the
\* lists of the orders from k up to that are empty.
Splitting(x, kv, Hd, U, N, K, k, o) ==
    {a \in AllocT(N, K) : /\ InHand(a, x, o, Hd, U, N, K) /\ a.kval[x] = o
                          /\ \A i \in k .. o - 1 : a.avail[i] = <<>>
                          /\ \A i \in Hd : a.kval[i] = kv[i]}

\* List j is the first one for a block of order k that is not empty.
Smallest(a, k, j) == k <= j /\ a.avail[j] # <<>> /\ \A i \in k .. j - 1 : a.avail[i] = <<>>

\* The fields a become a1, and the block x of order k goes to a caller.
Lent(a, a1, x, k, Hd, U, N, K) ==
    /\ Good(a1, Hd \union {x}, U, N, K) /\ a1.kval[x] = k /\ x \notin Hd
    /\ \A i \in Hd : a1.kval[i] = a.kval[i]

\* reserve() takes a block out of the free ones, of the order asked for.
LEMMA ReserveKeeps ==
    ASSUME NEW N, NEW K, NEW a, NEW Hd, NEW U, Good(a, Hd, U, N, K),
           NEW j \in 0 .. K, NEW k \in 0 .. Width, Smallest(a, k, j)
    PROVE  LET x  == Last(a.avail[j])
               a1 == SplitTo(Take(a, x, j, k), x, j, k)
           IN  Lent(a, a1, x, k, Hd, U, N, K)
<1> DEFINE x == Last(a.avail[j])
           s0 == Take(a, x, j, k)
           D == j - k
           P(g) == g = [n \in 0 .. D |-> IF n = 0 THEN s0 ELSE Split(g[n - 1], x, j - n)]
           C == CHOOSE g : P(g)
           I(n) == Splitting(x, a.kval, Hd, U, N, K, k, j - n)
           G == [n \in 0 .. D |-> I(n)]
           turn == [n \in 1 .. D |-> [s \in AllocT(N, K) |-> Split(s, x, j - n)]]
<1> USE DEF Smallest
<1>0. Core(a, N, K) /\ Size(N, K)
  BY DEF Good, Core
<1>1. K \in Nat /\ Width \in Nat
  BY <1>0, SizeNat
<1>2. k \in Nat /\ j \in Nat /\ D \in Nat /\ j - 0 = j /\ j - D = k
  BY <1>1
<1>3. s0 \in I(0)
  <2>1. /\ InHand(s0, x, j, Hd, U, N, K) /\ s0.kval = a.kval /\ a.kval[x] = j
        /\ \A i \in 0 .. K : i # j => s0.avail[i] = a.avail[i]
    BY TakeKeeps
  <2> HIDE DEF x, s0
  <2>2. s0 \in AllocT(N, K)
    BY <2>1 DEF InHand, Core
  <2>3. \A i \in k .. j - 1 : s0.avail[i] = <<>>
    <3>1. \A i \in k .. j - 1 : i \in 0 .. K /\ i # j
      BY <1>1, <1>2
    <3>2. QED
      BY <2>1, <3>1
  <2>4. s0 \in Splitting(x, a.kval, Hd, U, N, K, k, j)
    BY <2>1, <2>2, <2>3 DEF Splitting
  <2>5. QED
    BY <1>2, <2>4
<1> HIDE DEF x, s0
<1>4. \A n \in 1 .. D : \A s \in I(n - 1) : s \in AllocT(N, K) /\ Split(s, x, j - n) \in I(n)
  <2>1. SUFFICES ASSUME NEW n \in 1 .. D, NEW s \in I(n - 1)
                 PROVE  s \in AllocT(N, K) /\ Split(s, x, j - n) \in I(n)
    OBVIOUS
  <2> DEFINE o == j - n
             s1 == Split(s, x, o)
  <2>2. j - (n - 1) = o + 1 /\ o \in 0 .. K - 1 /\ o \in k .. (o + 1) - 1 /\ (o + 1) - 1 = o
    BY <1>1, <1>2
  <2> HIDE DEF o
  <2>3. s \in Splitting(x, a.kval, Hd, U, N, K, k, o + 1)
    BY <2>2
  <2>4. /\ s \in AllocT(N, K) /\ InHand(s, x, o + 1, Hd, U, N, K) /\ s.kval[x] = o + 1
        /\ \A i \in k .. o : s.avail[i] = <<>>
        /\ \A i \in Hd : s.kval[i] = a.kval[i]
    BY <2>2, <2>3 DEF Splitting
  <2>5. s.avail[o] = <<>>
    BY <2>2, <2>4
  <2>6. /\ InHand(s1, x, o, Hd, U, N, K) /\ s1.kval[x] = o
        /\ \A i \in Hd : s1.kval[i] = s.kval[i]
        /\ \A i \in 0 .. K : i # o => s1.avail[i] = s.avail[i]
    BY <2>2, <2>4, <2>5, SplitTurn
  <2> HIDE DEF s1
  <2>7. s1 \in AllocT(N, K)
    BY <2>6 DEF InHand, Core
  <2>8. \A i \in k .. o - 1 : s1.avail[i] = <<>>
    <3>1. \A i \in k .. o - 1 : i \in 0 .. K /\ i # o /\ i \in k .. o
      BY <1>1, <1>2, <2>2
    <3>2. QED
      BY <2>4, <2>6, <3>1
  <2>9. \A i \in Hd : s1.kval[i] = a.kval[i]
    BY <2>4, <2>6
  <2>10. s1 \in Splitting(x, a.kval, Hd, U, N, K, k, o)
    BY <2>6, <2>7, <2>8, <2>9 DEF Splitting
  <2>11. QED
    BY <2>4, <2>10 DEF s1, o
<1> HIDE DEF I
<1>5. P(C)
  <2> HIDE DEF D
  <2>1. \A n \in 1 .. D : \A s \in G[n - 1] : turn[n][s] = Split(s, x, j - n) /\ turn[n][s] \in G[n]
    <3>1. SUFFICES ASSUME NEW n \in 1 .. D, NEW s \in G[n - 1]
                   PROVE  turn[n][s] = Split(s, x, j - n) /\ turn[n][s] \in G[n]
      OBVIOUS
    <3>2. n - 1 \in 0 .. D /\ n \in 0 .. D
      BY <1>2
    <3>3. s \in AllocT(N, K) /\ Split(s, x, j - n) \in I(n)
      BY <1>4, <3>2
    <3>4. QED
      BY <3>2, <3>3
  <2>2. s0 \in G[0]
    BY <1>2, <1>3
  <2> HIDE DEF G, turn
  <2>3. PICK g : IsLoop(g, D, s0, turn) /\ \A n \in 0 .. D : g[n] \in G[n]
    BY <1>2, <2>1, <2>2, LoopInvariant
  <2>4. \A n \in 0 .. D : n # 0 => turn[n][g[n - 1]] = Split(g[n - 1], x, j - n)
    <3>1. SUFFICES ASSUME NEW n \in 0 .. D, n # 0 PROVE turn[n][g[n - 1]] = Split(g[n - 1], x, j - n)
      OBVIOUS
    <3>2. n \in 1 .. D /\ n - 1 \in 0 .. D
      BY <1>2, <3>1
    <3>3. QED
      BY <2>1, <2>3, <3>2
  <2>5. P(g)
    BY <2>3, <2>4 DEF IsLoop
  <2> HIDE DEF P
  <2>6. QED
    BY <2>5
<1>6. SplitTo(s0, x, j, k) = C[D]
  BY DEF SplitTo
<1> HIDE DEF C, D
<1>7. C[D] \in I(D)
  <2> DEFINE J == {n \in 0 .. D : C[n] \in I(n)}
  <2>1. 0 \in J
    BY <1>2, <1>3, <1>5
  <2>2. ASSUME NEW n \in 1 .. D, n - 1 \in J PROVE n \in J
    <3>1. n \in 0 .. D /\ n # 0 /\ C[n - 1] \in I(n - 1)
      BY <1>2, <2>2
    <3>2. C[n] = Split(C[n - 1], x, j - n)
      BY <1>5, <3>1
    <3>3. QED
      BY <1>4, <3>1, <3>2
  <2> HIDE DEF J
  <2>3. \A n \in 0 .. D : n \in J
    BY <1>2, <2>1, <2>2, UpTo
  <2>4. D \in 0 .. D
    BY <1>2
  <2>5. QED
    BY <2>3, <2>4 DEF J
<1> DEFINE s == C[D]
<1> HIDE DEF s
<1>8. s \in Splitting(x, a.kval, Hd, U, N, K, k, k)
  BY <1>2, <1>7 DEF I, s
<1>9. InHand(s, x, k, Hd, U, N, K) /\ s.kval[x] = k /\ \A i \in Hd : s.kval[i] = a.kval[i]
  BY <1>8 DEF Splitting
<1>10. Good(s, Hd \union {x}, U, N, K)
  BY <1>9, HandOut
<1>11. x \notin Hd
  BY <1>9 DEF InHand
<1>12. Lent(a, s, x, k, Hd, U, N, K)
  BY <1>9, <1>10, <1>11 DEF Lent
<1>13. QED
  BY <1>6, <1>12 DEF s, s0, x

-----------------------------------------------------------------------------
(* The constructor *)

\* A map the block map can be sized from.
Fits(m) ==
    /\ m \in Seq(RegionT) /\ Ordered(m)
    /\ \E i \in 1 .. Len(m) : m[i].type = AVAILABLE
    /\ \A i \in 1 .. Len(m) : m[i].type = AVAILABLE => EntrySize * End(m[i]) <= Bit[Width]

\* The last available region ends behind the others.
LEMMA LastIs ==
    ASSUME NEW m, Fits(m)
    PROVE  /\ LastAvailable(m) \in 1 .. Len(m) /\ m[LastAvailable(m)].type = AVAILABLE
           /\ \A i \in 1 .. Len(m) : m[i].type = AVAILABLE => End(m[i]) <= End(m[LastAvailable(m)])
<1>0. m \in Seq(RegionT) /\ Ordered(m) /\ DOMAIN m = 1 .. Len(m) /\ Len(m) \in Nat
  BY DEF Fits
<1> DEFINE S == {i \in 1 .. Len(m) : m[i].type = AVAILABLE}
           Q(i) == m[i].type = AVAILABLE /\ \A j \in i + 1 .. Len(m) : m[j].type # AVAILABLE
           L == LastAvailable(m)
<1>1. S # {} /\ S \subseteq 0 .. Len(m)
  BY <1>0 DEF Fits
<1>2. PICK i \in S : \A j \in S : j <= i
  <2> HIDE DEF S
  <2>1. QED
    BY <1>0, <1>1, NatMax
<1>3. i \in 1 .. Len(m) /\ Q(i)
  <2>1. \A j \in i + 1 .. Len(m) : j \in 1 .. Len(m) /\ ~(j <= i)
    BY <1>0, <1>2
  <2>2. QED
    BY <1>2, <2>1
<1>4. L \in 1 .. Len(m) /\ Q(L)
  <2>1. L = CHOOSE j \in 1 .. Len(m) : Q(j)
    BY <1>0 DEF LastAvailable
  <2> HIDE DEF Q, L
  <2>2. QED
    BY <1>3, <2>1
<1> HIDE DEF L
<1>5. ASSUME NEW j \in 1 .. Len(m), m[j].type = AVAILABLE PROVE End(m[j]) <= End(m[L])
  <2>1. j <= L
    BY <1>0, <1>4, <1>5
  <2>2. m[L].location \in Nat /\ End(m[L]) \in Nat /\ m[L].location < End(m[L]) /\ End(m[j]) \in Nat
    BY <1>0, <1>4, SeqNumbers DEF Numbers
  <2>3. CASE j = L
    BY <2>2, <2>3
  <2>4. CASE j < L
    <3>1. End(m[j]) <= m[L].location
      BY <1>0, <1>4, <2>4 DEF Ordered
    <3>2. QED
      BY <2>2, <3>1
  <2>5. QED
    BY <1>0, <1>4, <2>1, <2>3, <2>4
<1>6. QED
  BY <1>4, <1>5 DEF L

\* The size of a block map for memory up to e.
MapBytes(e) == Bit[llog2((EntrySize * e) \div BlockSize)]

LEMMA MapBytesAre ==
    ASSUME NEW e \in Nat, EntrySize * e <= Bit[Width]
    PROVE  /\ (EntrySize * e) \div BlockSize \in Nat /\ EntrySize * e \in Nat
           /\ (EntrySize * e) \div BlockSize <= Bit[Width]
           /\ llog2((EntrySize * e) \div BlockSize) \in 0 .. Width
           /\ MapBytes(e) \in Nat \ {0} /\ MapBytes(e) >= (EntrySize * e) \div BlockSize
<1>1. PICK k \in 0 .. Width : EntrySize = Bit[k]
  BY PageAllocatorAssumption
<1>2. EntrySize \in Nat \ {0} /\ BlockSize \in Nat \ {0}
  BY <1>1, BitPositive, PageAllocatorAssumption
<1> DEFINE y == EntrySize * e
           w == y \div BlockSize
<1>3. y \in Nat
  BY <1>2
<1>4. Width \in 0 .. Width
  BY BitIs
<1>5. Bit[Width] \in Nat
  BY <1>4, BitPositive
<1>6. y <= Bit[Width]
  OBVIOUS
<1> HIDE DEF y
<1>7. w \in Nat
  BY <1>2, <1>3, DivNat
<1>8. w <= y
  <2>1. y < (y + 1) * BlockSize
    <3>1. (y + 1) * BlockSize >= (y + 1) * 1
      BY <1>2, <1>3, SMT
    <3>2. QED
      BY <1>2, <1>3, <3>1
  <2>2. w < y + 1
    <3>1. y + 1 \in Nat
      BY <1>3
    <3>2. QED
      BY <1>2, <1>3, <2>1, <3>1, DivBelow
  <2>3. QED
    BY <1>3, <1>7, <2>2
<1>9. w <= Bit[Width]
  BY <1>3, <1>5, <1>6, <1>7, <1>8
<1> HIDE DEF w
<1>10. llog2(w) \in 0 .. Width /\ Bit[llog2(w)] >= w
  BY <1>7, <1>9, Log2Is
<1>11. Bit[llog2(w)] \in Nat \ {0}
  BY <1>10, BitPositive
<1>12. QED
  BY <1>3, <1>7, <1>9, <1>10, <1>11 DEF w, y, MapBytes

\* More memory does not need a smaller block map.
LEMMA MapBytesGrow ==
    ASSUME NEW e \in Nat, NEW f \in Nat, e <= f, EntrySize * f <= Bit[Width]
    PROVE  EntrySize * e <= Bit[Width] /\ MapBytes(e) <= MapBytes(f)
<1>1. PICK k \in 0 .. Width : EntrySize = Bit[k]
  BY PageAllocatorAssumption
<1>2. EntrySize \in Nat \ {0} /\ BlockSize \in Nat \ {0}
  BY <1>1, BitPositive, PageAllocatorAssumption
<1>3. EntrySize * e <= EntrySize * f /\ EntrySize * e \in Nat /\ EntrySize * f \in Nat
  BY <1>2, SMT
<1>4. Width \in 0 .. Width
  BY BitIs
<1>5. Bit[Width] \in Nat
  BY <1>4, BitPositive
<1>6. EntrySize * e <= Bit[Width]
  BY <1>3, <1>5
<1>7. (EntrySize * e) \div BlockSize <= (EntrySize * f) \div BlockSize
  BY <1>2, <1>3, DivMonotone
<1> DEFINE v == (EntrySize * e) \div BlockSize
           w == (EntrySize * f) \div BlockSize
<1>8. v \in Nat /\ llog2(v) \in 0 .. Width
  BY <1>6, MapBytesAre
<1>9. w \in Nat /\ llog2(w) \in 0 .. Width /\ w <= Bit[Width]
  BY MapBytesAre
<1>10. v <= w
  BY <1>7
<1> HIDE DEF v, w
<1>11. llog2(v) <= llog2(w)
  BY <1>8, <1>9, <1>10, Log2Monotone
<1>12. Bit[llog2(v)] <= Bit[llog2(w)]
  BY <1>8, <1>9, <1>11, BitGrows
<1>13. QED
  BY <1>6, <1>12 DEF MapBytes, v, w

\* A product of the entries' size, and how many entries fit.
LEMMA EntriesIn ==
    ASSUME NEW e \in Nat, EntrySize * e <= Bit[Width]
    PROVE  LET n == MapBytes(e) \div EntrySize IN
           /\ Size(n, llog2(n))
           /\ \A p \in Nat : p + 1 <= e \div BlockSize => p \in 0 .. n - 1
<1>1. PICK k \in 0 .. Width : EntrySize = Bit[k]
  BY PageAllocatorAssumption
<1>2. EntrySize \in Nat \ {0} /\ BlockSize \in Nat \ {0} /\ Width \in Nat
  BY <1>1, BitPositive, BitIs, PageAllocatorAssumption
<1> DEFINE w == (EntrySize * e) \div BlockSize
           q == llog2(w)
           M == MapBytes(e)
           n == M \div EntrySize
<1>3. w \in Nat /\ EntrySize * e \in Nat /\ q \in 0 .. Width /\ M \in Nat \ {0} /\ M >= w
  BY MapBytesAre
<1>4. M = Bit[q]
  BY DEF MapBytes
<1> HIDE DEF q, M
<1>5. n \in Nat
  BY <1>2, <1>3, DivNat
<1>6. Size(n, llog2(n))
  <2>1. CASE k <= q
    <3>1. q - k \in 0 .. Width
      BY <1>2, <1>3, <2>1
    <3>2. Bit[q] = Bit[q - k] * Bit[k]
      BY <1>3, <2>1, BitProduct
    <3>3. Bit[q - k] \in Nat
      BY <3>1, BitPositive
    <3>4. M = EntrySize * Bit[q - k] + 0
      BY <1>1, <1>2, <1>4, <3>2, <3>3
    <3>5. 0 \in 0 .. EntrySize - 1 /\ Bit[q - k] \in Int
      BY <1>2, <3>3
    <3>6. n = Bit[q - k]
      BY <1>2, <3>4, <3>5, DivUnique
    <3>7. llog2(n) = q - k
      BY <3>1, <3>6, Log2Bit
    <3>8. QED
      BY <3>1, <3>6, <3>7 DEF Size
  <2>2. CASE q < k
    <3>1. M < 1 * EntrySize
      <4>1. Bit[q] < Bit[k]
        BY <1>3, <2>2, BitGrows
      <4>2. QED
        BY <1>1, <1>2, <1>3, <1>4, <4>1
    <3>2. n < 1
      BY <1>2, <1>3, <3>1, DivBelow
    <3>3. n = 0
      BY <1>5, <3>2
    <3>4. QED
      BY <1>2, <3>3, Log2Bit DEF Size
  <2>3. QED
    BY <1>2, <1>3, <2>1, <2>2
<1>7. ASSUME NEW p \in Nat, p + 1 <= e \div BlockSize PROVE p \in 0 .. n - 1
  <2> DEFINE d == e \div BlockSize
  <2>1. d \in Nat
    BY <1>2, DivNat
  <2>2. e >= BlockSize * d
    BY <1>2
  <2> HIDE DEF d
  <2>3. EntrySize * e >= BlockSize * (EntrySize * d)
    <3>1. EntrySize * e >= EntrySize * (BlockSize * d)
      <4>1. BlockSize * d \in Nat
        BY <1>2, <2>1
      <4> DEFINE z == BlockSize * d
      <4> HIDE DEF z
      <4>2. EntrySize * e >= EntrySize * z
        BY <1>2, <2>2, <4>1, SMT DEF z
      <4>3. QED
        BY <4>2 DEF z
    <3>2. EntrySize * (BlockSize * d) = BlockSize * (EntrySize * d)
      BY <1>2, <2>1, SMT
    <3>3. QED
      BY <3>1, <3>2
  <2>4. EntrySize * d \in Nat
    BY <1>2, <2>1
  <2>5. w >= EntrySize * d
    <3> DEFINE z == EntrySize * d
               y == EntrySize * e
    <3> HIDE DEF z, y
    <3>1. z \in Nat /\ y \in Nat /\ y >= BlockSize * z /\ BlockSize * z \in Nat
      BY <1>2, <1>3, <2>3, <2>4 DEF z, y
    <3>2. (BlockSize * z) \div BlockSize <= y \div BlockSize
      BY <1>2, <3>1, DivMonotone
    <3>3. (BlockSize * z + 0) \div BlockSize = z
      <4>1. 0 \in 0 .. BlockSize - 1 /\ z \in Int
        BY <1>2, <3>1
      <4>2. QED
        BY <1>2, <4>1, DivUnique
    <3>4. BlockSize * z + 0 = BlockSize * z
      BY <3>1
    <3>5. z <= y \div BlockSize
      BY <3>2, <3>3, <3>4
    <3>6. QED
      BY <1>3, <3>1, <3>5 DEF z, y
  <2>6. EntrySize * (p + 1) <= EntrySize * d
    BY <1>2, <1>7, <2>1, SMT DEF d
  <2>7. EntrySize * (p + 1) <= M /\ EntrySize * (p + 1) \in Nat
    BY <1>2, <1>3, <2>4, <2>5, <2>6
  <2>8. (EntrySize * (p + 1)) \div EntrySize <= n
    BY <1>2, <1>3, <2>7, DivMonotone
  <2>9. (EntrySize * (p + 1) + 0) \div EntrySize = p + 1
    <3>1. 0 \in 0 .. EntrySize - 1 /\ p + 1 \in Int
      BY <1>2
    <3>2. QED
      BY <1>2, <3>1, DivUnique
  <2>10. EntrySize * (p + 1) + 0 = EntrySize * (p + 1)
    BY <2>7
  <2>11. p + 1 <= n
    BY <2>8, <2>9, <2>10
  <2>12. QED
    BY <1>5, <2>11
<1>8. QED
  BY <1>6, <1>7 DEF M

\* The constructor inserts one page.
LEMMA PageKeeps ==
    ASSUME NEW N, NEW K, NEW a, NEW U, Good(a, {}, U, N, K), NEW x \in 0 .. N - 1, x \notin U
    PROVE  Good(Counted(InsertBlock(a, x, 0)), {}, U \union {x}, N, K)
<1>0. /\ Core(a, N, K) /\ Size(N, K) /\ a \in AllocT(N, K)
      /\ Tiling(Free1st(a, N) \union {}, a.kval, N, K, U)
  BY DEF Good, Core
<1>1. a.kval \in [0 .. N - 1 -> 0 .. K]
  BY <1>0, AllocFields
<1>2. K \in Nat /\ 0 \in 0 .. K
  <2>1. K \in Nat
    BY <1>0, SizeNat
  <2>2. QED
    BY <2>1
<1> DEFINE T == Free1st(a, N)
           kv1 == [a.kval EXCEPT ![x] = 0]
<1>3. Tiling(T, a.kval, N, K, U)
  <2>1. T \union {} = T
    OBVIOUS
  <2>2. QED
    BY <1>0, <2>1
<1>4. kv1[x] = 0 /\ \A i \in T : i # x => kv1[i] = a.kval[i]
  BY <1>1 DEF Free1st
<1> HIDE DEF kv1, T
<1>5. x \notin T /\ Tiling(T \union {x}, kv1, N, K, U \union {x})
  BY <1>0, <1>3, <1>4, TileAdd
<1>6. Others(a, {}, N)
  BY DEF Others
<1>7. T \union {x} = Free1st(a, N) \union {} \union {x}
  BY DEF T
<1>8. InHand(a, x, 0, {}, U \union {x}, N, K)
  BY <1>0, <1>2, <1>5, <1>6, <1>7 DEF InHand, T, kv1
<1> DEFINE b == InsertBlock(a, x, 0)
           b1 == Counted(b)
<1> HIDE DEF b
<1>9. Good(b, {}, U \union {x}, N, K)
  BY <1>8, InsertKeeps DEF b
<1>10. b \in AllocT(N, K)
  BY <1>9 DEF Good, Core
<1>11. b.freeBlockCount + 1 \in Int
  BY <1>10, AllocFields
<1>12. b1 = [b EXCEPT !.freeBlockCount = b.freeBlockCount + 1]
  BY DEF Counted
<1>13. b1 \in AllocT(N, K) /\ Alike(b, b1)
  BY <1>10, <1>11, <1>12, CountChanges DEF Alike
<1> HIDE DEF b1
<1>14. Good(b1, {}, U \union {x}, N, K)
  BY <1>9, <1>13, AlikeGood
<1>15. QED
  BY <1>14 DEF b1, b

\* The constructor inserts the pages of a region.
LEMMA RegionKeeps ==
    ASSUME NEW N, NEW K, NEW a, NEW U, Good(a, {}, U, N, K), NEW r,
           FirstPage(r) \in Nat, LastPage(r) \in Int,
           \A p \in FirstPage(r) .. LastPage(r) : p \in 0 .. N - 1 /\ p \notin U
    PROVE  Good(InsertRegion(a, r), {}, U \union (FirstPage(r) .. LastPage(r)), N, K)
<1> DEFINE f == FirstPage(r)
           l == LastPage(r)
           D == IF l < f THEN 0 ELSE l - f + 1
           F(s, n) == Counted(InsertBlock(s, f + n - 1, 0))
           P(g) == g = [n \in 0 .. D |-> IF n = 0 THEN a ELSE F(g[n - 1], n)]
           C == CHOOSE g : P(g)
           I(n) == {s \in AllocT(N, K) : Good(s, {}, U \union (f .. f + n - 1), N, K)}
           G == [n \in 0 .. D |-> I(n)]
           turn == [n \in 1 .. D |-> [s \in AllocT(N, K) |-> F(s, n)]]
<1>6. InsertRegion(a, r) = C[D]
  BY DEF InsertRegion
<1>1. f \in Nat /\ l \in Int /\ D \in Nat
  OBVIOUS
<1>2. \A n \in 1 .. D : f + n - 1 \in f .. l
  BY <1>1
<1>22. f .. f + D - 1 = f .. l
  BY <1>1
<1> HIDE DEF f, l, D
<1>3. a \in I(0)
  <2>1. a \in AllocT(N, K)
    BY DEF Good, Core
  <2>2. U \union (f .. f + 0 - 1) = U
    BY <1>1
  <2>3. QED
    BY <2>1, <2>2
<1>4. \A n \in 1 .. D : \A s \in I(n - 1) : s \in AllocT(N, K) /\ F(s, n) \in I(n)
  <2>1. SUFFICES ASSUME NEW n \in 1 .. D, NEW s \in I(n - 1)
                 PROVE  s \in AllocT(N, K) /\ F(s, n) \in I(n)
    OBVIOUS
  <2> DEFINE x == f + n - 1
             V == U \union (f .. f + (n - 1) - 1)
  <2>2. s \in AllocT(N, K) /\ Good(s, {}, V, N, K)
    OBVIOUS
  <2>3. x \in 0 .. N - 1 /\ x \notin U
    BY <1>2 DEF f, l
  <2>4. x \notin V
    BY <1>1, <2>3
  <2>5. V \union {x} = U \union (f .. f + n - 1)
    BY <1>1
  <2> HIDE DEF x, V
  <2>6. Good(Counted(InsertBlock(s, x, 0)), {}, V \union {x}, N, K)
    BY <2>2, <2>3, <2>4, PageKeeps
  <2>7. Counted(InsertBlock(s, x, 0)) \in AllocT(N, K)
    BY <2>6 DEF Good, Core
  <2>8. QED
    BY <2>2, <2>5, <2>6, <2>7 DEF x
<1> HIDE DEF I, F
<1>5. P(C)
  <2>1. \A n \in 1 .. D : \A s \in G[n - 1] : turn[n][s] = F(s, n) /\ turn[n][s] \in G[n]
    <3>1. SUFFICES ASSUME NEW n \in 1 .. D, NEW s \in G[n - 1]
                   PROVE  turn[n][s] = F(s, n) /\ turn[n][s] \in G[n]
      OBVIOUS
    <3>2. n - 1 \in 0 .. D /\ n \in 0 .. D
      BY <1>1
    <3>3. s \in AllocT(N, K) /\ F(s, n) \in I(n)
      BY <1>4, <3>2
    <3>4. QED
      BY <3>2, <3>3
  <2>2. a \in G[0]
    BY <1>1, <1>3
  <2> HIDE DEF G, turn
  <2>3. PICK g : IsLoop(g, D, a, turn) /\ \A n \in 0 .. D : g[n] \in G[n]
    BY <1>1, <2>1, <2>2, LoopInvariant
  <2>4. \A n \in 0 .. D : n # 0 => turn[n][g[n - 1]] = F(g[n - 1], n)
    <3>1. SUFFICES ASSUME NEW n \in 0 .. D, n # 0 PROVE turn[n][g[n - 1]] = F(g[n - 1], n)
      OBVIOUS
    <3>2. n \in 1 .. D /\ n - 1 \in 0 .. D
      BY <1>1, <3>1
    <3>3. QED
      BY <2>1, <2>3, <3>2
  <2>5. P(g)
    BY <2>3, <2>4 DEF IsLoop
  <2> HIDE DEF P
  <2>6. QED
    BY <2>5
<1> HIDE DEF C
<1>7. C[D] \in I(D)
  <2> DEFINE J == {n \in 0 .. D : C[n] \in I(n)}
  <2>1. 0 \in J
    BY <1>1, <1>3, <1>5
  <2>2. ASSUME NEW n \in 1 .. D, n - 1 \in J PROVE n \in J
    <3>1. n \in 0 .. D /\ n # 0 /\ C[n - 1] \in I(n - 1)
      BY <1>1, <2>2
    <3>2. C[n] = F(C[n - 1], n)
      BY <1>5, <3>1
    <3>3. QED
      BY <1>4, <3>1, <3>2
  <2> HIDE DEF J
  <2>3. \A n \in 0 .. D : n \in J
    BY <1>1, <2>1, <2>2, UpTo
  <2>4. D \in 0 .. D
    BY <1>1
  <2>5. QED
    BY <2>3, <2>4 DEF J
<1>8. Good(C[D], {}, U \union (f .. f + D - 1), N, K)
  BY <1>7 DEF I
<1>9. QED
  BY <1>6, <1>8, <1>22 DEF f, l

\* The pages of the available ones of the first n regions.
UsableIn(m, n) ==
    {p \in Nat : \E i \in 1 .. n : m[i].type = AVAILABLE /\ p \in FirstPage(m[i]) .. LastPage(m[i])}

LEMMA PagesOf ==
    ASSUME NEW r \in RegionT
    PROVE  /\ FirstPage(r) \in Nat /\ LastPage(r) \in Int /\ LastPage(r) + 1 = End(r) \div BlockSize
           /\ FirstPage(r) = (r.location + BlockSize - 1) \div BlockSize
<1>1. BlockSize \in Nat \ {0}
  BY PageAllocatorAssumption
<1>2. r.location \in Nat /\ End(r) \in Nat
  BY RegionFields
<1>3. r.location + BlockSize - 1 \in Nat
  BY <1>1, <1>2
<1>4. (r.location + BlockSize - 1) \div BlockSize \in Nat /\ End(r) \div BlockSize \in Nat
  BY <1>1, <1>2, <1>3, DivNat
<1>5. QED
  BY <1>4 DEF FirstPage, LastPage

\* A later region has later pages.
LEMMA PagesInOrder ==
    ASSUME NEW r \in RegionT, NEW s \in RegionT, End(r) <= s.location
    PROVE  LastPage(r) < FirstPage(s)
<1>1. BlockSize \in Nat \ {0}
  BY PageAllocatorAssumption
<1>2. s.location \in Nat /\ End(r) \in Nat
  BY RegionFields
<1>3. s.location + BlockSize - 1 \in Nat /\ End(r) <= s.location + BlockSize - 1
  BY <1>1, <1>2
<1>4. End(r) \div BlockSize <= (s.location + BlockSize - 1) \div BlockSize
  BY <1>1, <1>2, <1>3, DivMonotone
<1>5. LastPage(r) \in Int /\ LastPage(r) + 1 = End(r) \div BlockSize
  BY PagesOf
<1>6. FirstPage(s) \in Nat /\ FirstPage(s) = (s.location + BlockSize - 1) \div BlockSize
  BY PagesOf
<1>7. QED
  BY <1>4, <1>5, <1>6

\* The block map before anything is inserted.
LEMMA EmptyGood ==
    ASSUME NEW m, Size(Entries(m), llog2(Entries(m)))
    PROVE  Good(Empty(m), {}, {}, Entries(m), llog2(Entries(m)))
<1> DEFINE N == Entries(m)
           K == llog2(N)
           a == Empty(m)
<1>1. /\ a.maxKVal = K /\ a.avail = [k \in 0 .. K |-> <<>>] /\ a.tag = [i \in 0 .. N - 1 |-> RESERVED]
      /\ a.kval = [i \in 0 .. N - 1 |-> 0] /\ a.freeBlockCount = 0
      /\ a = [maxKVal |-> a.maxKVal, avail |-> a.avail, tag |-> a.tag, kval |-> a.kval,
              freeBlockCount |-> a.freeBlockCount]
  BY DEF Empty
<1>2. Size(N, K)
  OBVIOUS
<1> HIDE DEF N, K, a
<1>3. K \in Nat /\ N \in Nat
  BY <1>2, SizeNat
<1>4. /\ a.avail \in [0 .. K -> Seq(0 .. N - 1)] /\ a.tag \in [0 .. N - 1 -> {FREE, RESERVED}]
      /\ a.kval \in [0 .. N - 1 -> 0 .. K] /\ a.freeBlockCount \in Int /\ a.maxKVal \in {K}
  <2>1. a.avail \in [0 .. K -> Seq(0 .. N - 1)]
    BY <1>1
  <2>2. a.tag \in [0 .. N - 1 -> {FREE, RESERVED}]
    BY <1>1
  <2>3. a.kval \in [0 .. N - 1 -> 0 .. K]
    BY <1>1, <1>3
  <2>4. QED
    BY <1>1, <2>1, <2>2, <2>3
<1>5. a \in AllocT(N, K)
  BY <1>1, <1>4 DEF AllocT
<1>6. Free1st(a, N) = {}
  BY <1>1 DEF Free1st, FREE, RESERVED
<1>7. Listed(a, N, K)
  <2>1. SUFFICES ASSUME NEW k \in 0 .. K PROVE ListOf(a, N, k, a.avail[k])
    BY DEF Listed
  <2>2. a.avail[k] = <<>>
    BY <1>1
  <2>3. ListOf(a, N, k, <<>>)
    BY <1>6 DEF ListOf
  <2>4. QED
    BY <2>2, <2>3
<1>8. Merged(a, N, K)
  BY <1>6 DEF Merged
<1>9. Others(a, {}, N)
  BY DEF Others
<1>10. Tiling(Free1st(a, N) \union {}, a.kval, N, K, {})
  BY <1>6 DEF Tiling
<1>11. QED
  BY <1>2, <1>5, <1>7, <1>8, <1>9, <1>10 DEF Good, Core, N, K, a

\* The constructor makes every page of available memory free.
LEMMA ConstructKeeps ==
    ASSUME NEW m, Fits(m)
    PROVE  Good(Construct(m), {}, UsableIn(m, Len(m)), Entries(m), llog2(Entries(m)))
<1> DEFINE N == Entries(m)
           K == llog2(N)
           D == Len(m)
           a == Empty(m)
           P(g) == g = [n \in 0 .. D |-> IF n = 0 THEN a ELSE InsertAvailable(g[n - 1], m[n])]
           C == CHOOSE g : P(g)
           I(n) == {s \in AllocT(N, K) : Good(s, {}, UsableIn(m, n), N, K)}
           G == [n \in 0 .. D |-> I(n)]
           turn == [n \in 1 .. D |-> [s \in AllocT(N, K) |-> InsertAvailable(s, m[n])]]
           E == End(m[LastAvailable(m)])
<1>6. Construct(m) = C[D]
  BY DEF Construct
<1>0. m \in Seq(RegionT) /\ Ordered(m) /\ D \in Nat /\ \A i \in 1 .. D : m[i] \in RegionT
  BY DEF Fits
<1>1. /\ LastAvailable(m) \in 1 .. D /\ m[LastAvailable(m)].type = AVAILABLE
      /\ \A i \in 1 .. D : m[i].type = AVAILABLE => End(m[i]) <= E
  BY LastIs
<1>2. E \in Nat /\ EntrySize * E <= Bit[Width] /\ BlockSize \in Nat \ {0}
  BY <1>0, <1>1, RegionFields, PageAllocatorAssumption DEF Fits
<1>21. N = MapBytes(E) \div EntrySize
  BY DEF Entries, MapSize, MapBytes
<1> HIDE DEF N, D, E
<1>22. Size(N, K) /\ \A p \in Nat : p + 1 <= E \div BlockSize => p \in 0 .. N - 1
  BY <1>2, <1>21, EntriesIn
<1>23. ASSUME NEW i \in 1 .. D, m[i].type = AVAILABLE, NEW p \in FirstPage(m[i]) .. LastPage(m[i])
       PROVE  p \in 0 .. N - 1
  <2>1. /\ FirstPage(m[i]) \in Nat /\ LastPage(m[i]) \in Int
        /\ LastPage(m[i]) + 1 = End(m[i]) \div BlockSize
    BY <1>0, PagesOf
  <2>2. End(m[i]) \in Nat /\ End(m[i]) <= E
    BY <1>0, <1>1, <1>23, RegionFields
  <2>3. End(m[i]) \div BlockSize <= E \div BlockSize
    BY <1>2, <2>2, DivMonotone
  <2>4. E \div BlockSize \in Nat
    BY <1>2, DivNat
  <2>5. p \in Nat /\ p + 1 <= E \div BlockSize
    BY <2>1, <2>3, <2>4
  <2>6. QED
    BY <1>22, <2>5
<1>3. a \in I(0)
  <2>1. Good(a, {}, {}, N, K)
    BY <1>22, EmptyGood DEF N
  <2>2. UsableIn(m, 0) = {}
    BY DEF UsableIn
  <2> HIDE DEF a
  <2>3. a \in AllocT(N, K)
    BY <2>1 DEF Good, Core
  <2>4. QED
    BY <2>1, <2>2, <2>3
<1> HIDE DEF a, K
<1>4. \A n \in 1 .. D : \A s \in I(n - 1) : s \in AllocT(N, K) /\ InsertAvailable(s, m[n]) \in I(n)
  <2>1. SUFFICES ASSUME NEW n \in 1 .. D, NEW s \in I(n - 1)
                 PROVE  s \in AllocT(N, K) /\ InsertAvailable(s, m[n]) \in I(n)
    OBVIOUS
  <2> DEFINE V == UsableIn(m, n - 1)
             r == m[n]
  <2>2. s \in AllocT(N, K) /\ Good(s, {}, V, N, K)
    OBVIOUS
  <2>3. r \in RegionT /\ FirstPage(r) \in Nat /\ LastPage(r) \in Int
    BY <1>0, PagesOf
  <2>4. \A i \in 1 .. n : i \in 1 .. D /\ (i = n \/ i \in 1 .. n - 1)
    BY <1>0
  <2>5. \A i \in 1 .. n - 1 : i \in 1 .. n /\ i < n /\ i \in 1 .. D
    BY <1>0
  <2>51. n \in 1 .. n
    BY <1>0
  <2>6. CASE r.type # AVAILABLE
    <3>1. UsableIn(m, n) = V
      BY <2>4, <2>5, <2>6 DEF UsableIn
    <3>2. InsertAvailable(s, r) = s
      BY <2>6 DEF InsertAvailable
    <3>3. QED
      BY <2>2, <3>1, <3>2
  <2>7. CASE r.type = AVAILABLE
    <3> DEFINE Q == FirstPage(r) .. LastPage(r)
    <3>1. UsableIn(m, n) = V \union Q
      <4>1. \A p \in Q : p \in Nat
        BY <2>3
      <4>2. ASSUME NEW p \in UsableIn(m, n) PROVE p \in V \union Q
        <5>1. p \in Nat
          BY DEF UsableIn
        <5>2. PICK i \in 1 .. n : m[i].type = AVAILABLE /\ p \in FirstPage(m[i]) .. LastPage(m[i])
          BY DEF UsableIn
        <5>3. CASE i = n
          BY <5>2, <5>3
        <5>4. CASE i \in 1 .. n - 1
          BY <5>1, <5>2, <5>4 DEF UsableIn
        <5>5. QED
          BY <2>4, <5>3, <5>4
      <4>3. ASSUME NEW p \in V \union Q PROVE p \in UsableIn(m, n)
        <5>1. CASE p \in V
          BY <2>5, <5>1 DEF UsableIn
        <5>2. CASE p \in Q
          BY <2>51, <2>7, <4>1, <5>2 DEF UsableIn
        <5>3. QED
          BY <5>1, <5>2
      <4> HIDE DEF V, Q
      <4>4. QED
        BY <4>2, <4>3
    <3>2. \A p \in Q : p \in 0 .. N - 1
      BY <1>23, <2>7
    <3>3. ASSUME NEW p \in Q PROVE p \notin V
      <4>1. SUFFICES ASSUME p \in V PROVE FALSE
        OBVIOUS
      <4>2. PICK i \in 1 .. n - 1 : p \in FirstPage(m[i]) .. LastPage(m[i])
        BY <4>1 DEF UsableIn
      <4>3. m[i] \in RegionT /\ End(m[i]) <= r.location
        BY <1>0, <2>5 DEF Ordered, D
      <4>4. LastPage(m[i]) < FirstPage(r) /\ LastPage(m[i]) \in Int /\ FirstPage(m[i]) \in Nat
        BY <2>3, <4>3, PagesInOrder, PagesOf
      <4>5. p \in Int /\ p <= LastPage(m[i])
        BY <4>2, <4>4
      <4>6. QED
        BY <2>3, <4>4, <4>5
    <3> HIDE DEF V, r
    <3>4. Good(InsertRegion(s, r), {}, V \union Q, N, K)
      BY <2>2, <2>3, <3>2, <3>3, RegionKeeps
    <3>5. InsertRegion(s, r) \in AllocT(N, K)
      BY <3>4 DEF Good, Core
    <3>6. InsertAvailable(s, r) = InsertRegion(s, r)
      BY <2>7 DEF InsertAvailable
    <3> HIDE DEF Q
    <3>7. QED
      BY <2>2, <3>1, <3>4, <3>5, <3>6 DEF r
  <2>8. QED
    BY <2>6, <2>7
<1> HIDE DEF I
<1>5. P(C)
  <2>1. \A n \in 1 .. D : \A s \in G[n - 1] : turn[n][s] = InsertAvailable(s, m[n]) /\ turn[n][s] \in G[n]
    <3>1. SUFFICES ASSUME NEW n \in 1 .. D, NEW s \in G[n - 1]
                   PROVE  turn[n][s] = InsertAvailable(s, m[n]) /\ turn[n][s] \in G[n]
      OBVIOUS
    <3>2. n - 1 \in 0 .. D /\ n \in 0 .. D
      BY <1>0
    <3>3. s \in AllocT(N, K) /\ InsertAvailable(s, m[n]) \in I(n)
      BY <1>4, <3>2
    <3>4. QED
      BY <3>2, <3>3
  <2>2. a \in G[0]
    BY <1>0, <1>3
  <2> HIDE DEF G, turn
  <2>3. PICK g : IsLoop(g, D, a, turn) /\ \A n \in 0 .. D : g[n] \in G[n]
    BY <1>0, <2>1, <2>2, LoopInvariant
  <2>4. \A n \in 0 .. D : n # 0 => turn[n][g[n - 1]] = InsertAvailable(g[n - 1], m[n])
    <3>1. SUFFICES ASSUME NEW n \in 0 .. D, n # 0 PROVE turn[n][g[n - 1]] = InsertAvailable(g[n - 1], m[n])
      OBVIOUS
    <3>2. n \in 1 .. D /\ n - 1 \in 0 .. D
      BY <1>0, <3>1
    <3>3. QED
      BY <2>1, <2>3, <3>2
  <2>5. P(g)
    BY <2>3, <2>4 DEF IsLoop
  <2> HIDE DEF P
  <2>6. QED
    BY <2>5
<1> HIDE DEF C
<1>7. C[D] \in I(D)
  <2> DEFINE J == {n \in 0 .. D : C[n] \in I(n)}
  <2>1. 0 \in J
    BY <1>0, <1>3, <1>5
  <2>2. ASSUME NEW n \in 1 .. D, n - 1 \in J PROVE n \in J
    <3>1. n \in 0 .. D /\ n # 0 /\ C[n - 1] \in I(n - 1)
      BY <1>0, <2>2
    <3>2. C[n] = InsertAvailable(C[n - 1], m[n])
      BY <1>5, <3>1
    <3>3. QED
      BY <1>4, <3>1, <3>2
  <2> HIDE DEF J
  <2>3. \A n \in 0 .. D : n \in J
    BY <1>0, <2>1, <2>2, UpTo
  <2>4. D \in 0 .. D
    BY <1>0
  <2>5. QED
    BY <2>3, <2>4 DEF J
<1>8. Good(C[D], {}, UsableIn(m, D), N, K)
  BY <1>7 DEF I
<1>9. QED
  BY <1>6, <1>8 DEF D, N, K

-----------------------------------------------------------------------------
(* What boot has placed *)

\* BootAssumption's byte of memory of the given size that boot leaves available.
Spare(ram, a) ==
    /\ \A size \in KernelSizes : size <= a
    /\ \A end \in ImageEnds : end + MapBytes(ram) <= a
    /\ \A r \in MmioRegions \union RamDisks : a < r[1] \/ r[1] + r[2] <= a

LEMMA Spares ==
    ASSUME NEW ram \in RamSizes
    PROVE  /\ ram \in Nat \ {0} /\ EntrySize * ram <= Bit[Width]
           /\ \E a \in 0 .. ram - 1 : Spare(ram, a)
           /\ \A end \in ImageEnds, size \in KernelSizes : RoundUp(end + MapBytes(ram)) < size
BY BootAssumption DEF Spare, MapBytes

\* Memory is the only available region placed, and nothing else covers the byte a.
Memory(P, ram, a) ==
    /\ ram \in RamSizes /\ a \in 0 .. ram - 1 /\ Spare(ram, a)
    /\ Region(AVAILABLE, 0, ram) \in P
    /\ \A x \in P : x.type = AVAILABLE => x = Region(AVAILABLE, 0, ram)
    /\ \A x \in P : x.type # AVAILABLE => ~Covers(x, a)

\* Available regions of the map are memory, and there is one.
LEMMA MemoryFits ==
    ASSUME NEW m \in Seq(RegionT), Ordered(m), NEW P, P \subseteq RegionT, Wins(m, P),
           NEW ram, NEW a, Memory(P, ram, a)
    PROVE  /\ Fits(m) /\ MapSize(m) \in Nat \ {0} /\ MapSize(m) <= MapBytes(ram)
<1> DEFINE all == Region(AVAILABLE, 0, ram)
<1>0. ram \in Nat \ {0} /\ EntrySize * ram <= Bit[Width] /\ a \in Nat /\ a < ram
  BY Spares DEF Memory
<1>1. all \in RegionT /\ all.type = AVAILABLE /\ all.location = 0 /\ End(all) = 0 + ram
  <2>1. AVAILABLE \in MemoryType
    BY DEF MemoryType
  <2>2. QED
    BY <1>0, <2>1 DEF RegionT, Region, End
<1>2. all \in P /\ \A x \in P : x.type = AVAILABLE => x = all
  BY DEF Memory
<1> HIDE DEF all
<1>3. \E i \in 1 .. Len(m) : m[i].type = AVAILABLE
  <2>1. Covers(all, a)
    BY <1>0, <1>1 DEF Covers
  <2>2. PICK y \in Regions(m) : Covers(y, a)
    BY <1>0, <1>2, <2>1 DEF Wins
  <2>3. PICK x \in P : Covers(x, a) /\ x.type = y.type
    BY <1>0, <2>2 DEF Wins
  <2>4. y.type = AVAILABLE
    BY <2>3 DEF Memory
  <2>5. QED
    BY <2>4 DEF Regions
<1>4. ASSUME NEW i \in 1 .. Len(m), m[i].type = AVAILABLE
      PROVE  End(m[i]) \in Nat /\ End(m[i]) <= ram
  <2>1. m[i].location \in Nat /\ End(m[i]) \in Nat /\ m[i].location < End(m[i])
    BY SeqNumbers DEF Numbers
  <2> DEFINE b == End(m[i]) - 1
  <2>2. b \in Nat /\ Covers(m[i], b) /\ m[i] \in Regions(m)
    BY <2>1 DEF Covers, Regions
  <2>3. PICK x \in P : Covers(x, b) /\ x.type = m[i].type
    BY <2>2 DEF Wins
  <2>4. Covers(all, b)
    BY <1>2, <1>4, <2>3
  <2>5. QED
    BY <1>0, <1>1, <2>1, <2>2, <2>4 DEF Covers
<1>5. Fits(m)
  <2>1. ASSUME NEW i \in 1 .. Len(m), m[i].type = AVAILABLE PROVE EntrySize * End(m[i]) <= Bit[Width]
    BY <1>0, <1>4, <2>1, MapBytesGrow
  <2>2. QED
    BY <1>3, <2>1 DEF Fits
<1> DEFINE L == LastAvailable(m)
<1>6. L \in 1 .. Len(m) /\ m[L].type = AVAILABLE
  BY <1>5, LastIs
<1>7. MapSize(m) = MapBytes(End(m[L]))
  BY DEF MapSize, MapBytes
<1> HIDE DEF L
<1>8. End(m[L]) \in Nat /\ End(m[L]) <= ram /\ EntrySize * End(m[L]) <= Bit[Width]
  BY <1>4, <1>5, <1>6 DEF Fits
<1>9. MapBytes(End(m[L])) <= MapBytes(ram)
  BY <1>0, <1>8, MapBytesGrow
<1>10. MapBytes(End(m[L])) \in Nat \ {0}
  BY <1>8, MapBytesAre
<1>11. QED
  BY <1>5, <1>7, <1>9, <1>10

\* Placing a region that is not available does not make the block map larger.
LEMMA MapShrinks ==
    ASSUME NEW m, Fits(m), NEW m1, Fits(m1), NEW r, r.type # AVAILABLE, Placed(m, r, m1)
    PROVE  MapSize(m1) <= MapSize(m)
<1> DEFINE L == LastAvailable(m)
           M == LastAvailable(m1)
<1>1. /\ L \in 1 .. Len(m) /\ m[L].type = AVAILABLE
      /\ \A i \in 1 .. Len(m) : m[i].type = AVAILABLE => End(m[i]) <= End(m[L])
  BY LastIs
<1>2. M \in 1 .. Len(m1) /\ m1[M].type = AVAILABLE
  BY LastIs
<1>3. MapSize(m) = MapBytes(End(m[L])) /\ MapSize(m1) = MapBytes(End(m1[M]))
  BY DEF MapSize, MapBytes
<1> HIDE DEF L, M
<1>4. m \in Seq(RegionT) /\ m1 \in Seq(RegionT)
  BY DEF Fits
<1>5. End(m[L]) \in Nat /\ EntrySize * End(m[L]) <= Bit[Width]
  BY <1>1, <1>4, SeqNumbers DEF Numbers, Fits
<1>6. m1[M].location \in Nat /\ End(m1[M]) \in Nat /\ m1[M].location < End(m1[M])
  BY <1>2, <1>4, SeqNumbers DEF Numbers
<1> DEFINE b == End(m1[M]) - 1
<1>7. b \in Nat /\ Covers(m1[M], b) /\ m1[M] \in Regions(m1)
  BY <1>2, <1>6 DEF Covers, Regions
<1>8. PICK x \in Regions(m) \union {r} : Covers(x, b) /\ x.type = m1[M].type
  BY <1>7 DEF Placed
<1>9. PICK i \in 1 .. Len(m) : x = m[i]
  BY <1>2, <1>8 DEF Regions
<1>10. End(m[i]) \in Nat /\ End(m[i]) <= End(m[L])
  BY <1>1, <1>2, <1>4, <1>8, <1>9, SeqNumbers DEF Numbers
<1>11. End(m1[M]) <= End(m[L])
  BY <1>5, <1>6, <1>8, <1>9, <1>10 DEF Covers
<1>12. QED
  BY <1>3, <1>5, <1>6, <1>11, MapBytesGrow

MapOk(m, P) == m \in Seq(RegionT) /\ P \subseteq RegionT /\ Ordered(m) /\ Wins(m, P)

LEMMA PlaceStep ==
    ASSUME NEW m, NEW P, MapOk(m, P), NEW r \in RegionT, OneHigh(m, r.type)
    PROVE  LET m1 == TrimAll(Insert(m, r)) IN Placed(m, r, m1) /\ MapOk(m1, P \union {r})
<1> DEFINE m1 == TrimAll(Insert(m, r))
<1>0. m \in Seq(RegionT) /\ P \subseteq RegionT /\ Ordered(m) /\ Wins(m, P)
  BY DEF MapOk
<1>1. Placed(m, r, m1)
  BY <1>0, PlaceKeeps
<1> HIDE DEF m1
<1>2. m1 \in Seq(RegionT) /\ Ordered(m1)
  BY <1>1 DEF Placed
<1>3. Wins(m1, P \union {r})
  BY <1>0, <1>1, <1>2, WinsPlace
<1>4. P \union {r} \subseteq RegionT
  BY <1>0
<1>5. QED
  BY <1>1, <1>2, <1>3, <1>4 DEF MapOk, m1

\* The region placed is not memory and leaves the byte a alone.
LEMMA MemoryStep ==
    ASSUME NEW P, NEW ram, NEW a, Memory(P, ram, a), NEW r, r.type # AVAILABLE, ~Covers(r, a)
    PROVE  Memory(P \union {r}, ram, a)
BY DEF Memory

\* A region that ends before a byte, or begins behind it, does not cover it.
LEMMA Beside ==
    ASSUME NEW t \in MemoryType, NEW l \in Nat, NEW s \in Nat \ {0}, NEW a \in Nat, a < l \/ l + s <= a
    PROVE  ~Covers(Region(t, l, s), a)
<1>1. Region(t, l, s).location = l /\ End(Region(t, l, s)) = l + s
  BY NewRegion
<1>2. QED
  BY <1>1 DEF Covers

\* What is so after the first step - 1 regions.
BootInv ==
    /\ MapOk(map, placed) /\ OneHigh(map, 2)
    /\ step \in 1 .. 7 /\ Len(map) <= 2 * (step - 1)
    /\ step = 1 => map = <<>> /\ placed = {}
    /\ step = 2 => \A x \in placed : x.type = AVAILABLE
    /\ step > 1 => \E ram \in RamSizes : \E a \in 0 .. ram - 1 : Memory(placed, ram, a)
    /\ step > 3 => Region(UNAVAILABLE, 0, kernelSize) \in placed
    /\ step > 4 => \E s \in Nat \ {0} : MapSize(map) <= s /\ Region(UNAVAILABLE, imageEnd, s) \in placed
    /\ kernelSize \in KernelSizes /\ imageEnd \in ImageEnds /\ imageEnd < kernelSize
    /\ step = 7 => heap = <<PageMapEnd, HeapSize>>

LEMMA Types == /\ AVAILABLE \in MemoryType /\ UNAVAILABLE \in MemoryType /\ MMIO \in MemoryType
               /\ AVAILABLE = 1 /\ UNAVAILABLE = 2 /\ MMIO = 3
BY DEF MemoryType, AVAILABLE, UNAVAILABLE, MMIO

LEMMA BootNumbers ==
    ASSUME BootInv
    PROVE  kernelSize \in Nat \ {0} /\ imageEnd \in Nat \ {0} /\ Len(map) \in Nat /\ step \in Int
BY BootAssumption DEF BootInv, MapOk

LEMMA BootInit == Init => BootInv
<1> SUFFICES ASSUME Init PROVE BootInv
  OBVIOUS
<1>1. map = <<>> /\ placed = {} /\ step = 1
  BY DEF Init, MapInit
<1>2. Regions(<<>>) = {}
  BY DEF Regions
<1>3. MapOk(map, placed)
  BY <1>1, <1>2 DEF MapOk, Ordered, Wins
<1>4. OneHigh(map, 2)
  BY <1>1 DEF OneHigh
<1>5. kernelSize \in KernelSizes /\ imageEnd \in ImageEnds /\ imageEnd < kernelSize
  BY DEF Init
<1>6. Len(map) <= 2 * (step - 1)
  BY <1>1
<1>7. QED
  BY <1>1, <1>3, <1>4, <1>5, <1>6 DEF BootInv

\* The map has room whenever boot places a region.
LEMMA BootRoom == ASSUME BootInv, step <= 5 PROVE HasRoom
<1>1. Capacity \in Nat /\ Capacity >= 10
  BY CapacityAssumption, BootAssumption
<1>2. Len(map) \in Nat /\ step \in 1 .. 7 /\ Len(map) <= 2 * (step - 1)
  BY BootNumbers DEF BootInv
<1>3. QED
  BY <1>1, <1>2 DEF HasRoom

\* A step of boot that places region r.
LEMMA BootPlaces ==
    ASSUME BootInv, NEW n \in 1 .. 5, Boot(n), NEW t \in MemoryType, NEW l \in Nat, NEW s \in Nat \ {0},
           Place(t, l, s), OneHigh(map, t)
    PROVE  /\ Placed(map, Region(t, l, s), map') /\ MapOk(map', placed')
           /\ placed' = placed \union {Region(t, l, s)}
           /\ Len(map') <= 2 * (step' - 1) /\ step' \in 1 .. 7 /\ step = n /\ step' = n + 1
<1> DEFINE r == Region(t, l, s)
<1>1. step = n /\ step' = n + 1 /\ step <= 5
  BY DEF Boot
<1>2. HasRoom
  BY <1>1, BootRoom
<1>3. map' = TrimAll(Insert(map, r)) /\ placed' = placed \union {r}
  BY <1>2 DEF Place
<1>4. r \in RegionT /\ r.type = t
  BY NewRegion
<1> HIDE DEF r
<1>5. MapOk(map, placed) /\ Len(map) <= 2 * (step - 1) /\ Len(map) \in Nat
  BY BootNumbers DEF BootInv
<1>6. Placed(map, r, map') /\ MapOk(map', placed')
  BY <1>3, <1>4, <1>5, PlaceStep
<1>7. Len(map') <= Len(map) + 2 /\ Len(map') \in Nat
  BY <1>6 DEF Placed
<1>8. Len(map') <= 2 * (step' - 1) /\ step' \in 1 .. 7
  BY <1>1, <1>5, <1>7
<1>9. QED
  BY <1>1, <1>3, <1>6, <1>8 DEF r

LEMMA RamKeepsBoot == ASSUME BootInv, PlaceRam PROVE BootInv'
<1>1. PICK ram \in RamSizes : Place(AVAILABLE, 0, ram)
  BY DEF PlaceRam
<1>2. Boot(1) /\ kernelSize' = kernelSize /\ imageEnd' = imageEnd
  BY DEF PlaceRam
<1>3. step = 1 /\ step' = 2
  BY <1>2 DEF Boot
<1>4. map = <<>> /\ placed = {} /\ MapOk(map, placed)
  BY <1>3 DEF BootInv
<1>5. OneHigh(map, AVAILABLE)
  BY <1>4 DEF OneHigh
<1>6. ram \in Nat \ {0} /\ 0 \in Nat /\ 1 \in 1 .. 5
  BY Spares
<1> DEFINE r == Region(AVAILABLE, 0, ram)
<1>7. /\ Placed(map, r, map') /\ MapOk(map', placed') /\ placed' = placed \union {r}
      /\ Len(map') <= 2 * (step' - 1) /\ step' \in 1 .. 7
  BY <1>1, <1>2, <1>5, <1>6, Types, BootPlaces
<1>8. OneHigh(map', 2)
  <2>1. \A y \in Regions(map) : ~(y.type > 2)
    BY <1>4 DEF Regions
  <2> HIDE DEF r
  <2>2. QED
    BY <1>7, <2>1 DEF Placed
<1>9. placed' = {r} /\ r.type = AVAILABLE
  <2>1. r.type = AVAILABLE
    BY DEF Region
  <2>2. QED
    BY <1>4, <1>7, <2>1
<1>10. PICK a \in 0 .. ram - 1 : Spare(ram, a)
  BY Spares
<1>11. Memory(placed', ram, a)
  <2> HIDE DEF r
  <2>1. r \in placed' /\ \A x \in placed' : x = r
    BY <1>9
  <2>2. QED
    BY <1>9, <1>10, <2>1 DEF Memory, r
<1>12. /\ kernelSize' \in KernelSizes /\ imageEnd' \in ImageEnds /\ imageEnd' < kernelSize'
  BY <1>2 DEF BootInv
<1>13. \A x \in placed' : x.type = AVAILABLE
  BY <1>9
<1> HIDE DEF r
<1>14. \E u \in RamSizes : \E b \in 0 .. u - 1 : Memory(placed', u, b)
  BY <1>11
<1>15. QED
  BY <1>3, <1>7, <1>8, <1>12, <1>13, <1>14 DEF BootInv

\* The types of the map are those of the regions placed.
LEMMA TypesPlaced ==
    ASSUME NEW m, NEW P, MapOk(m, P), NEW y \in Regions(m)
    PROVE  \E x \in P : x.type = y.type
<1>1. m \in Seq(RegionT) /\ Wins(m, P)
  BY DEF MapOk
<1>2. y.location \in Nat /\ Covers(y, y.location)
  BY <1>1, SeqNumbers DEF Numbers, Regions, Covers
<1>3. QED
  BY <1>1, <1>2 DEF Wins

LEMMA MmioKeepsBoot == ASSUME BootInv, PlaceMmio PROVE BootInv'
<1>1. PICK q \in MmioRegions : Place(MMIO, q[1], q[2])
  BY DEF PlaceMmio
<1>2. Boot(2) /\ kernelSize' = kernelSize /\ imageEnd' = imageEnd
  BY DEF PlaceMmio
<1>3. step = 2 /\ step' = 3
  BY <1>2 DEF Boot
<1>4. MapOk(map, placed) /\ \A x \in placed : x.type = AVAILABLE
  BY <1>3 DEF BootInv
<1>5. \A y \in Regions(map) : y.type = 1
  BY <1>4, TypesPlaced, Types
<1>6. OneHigh(map, MMIO)
  BY <1>5, Types DEF OneHigh, Regions
<1>7. q \in Nat \X (Nat \ {0})
  BY BootAssumption
<1>8. q[1] \in Nat /\ q[2] \in Nat \ {0} /\ 2 \in 1 .. 5
  BY <1>7
<1> DEFINE r == Region(MMIO, q[1], q[2])
<1>9. /\ Placed(map, r, map') /\ MapOk(map', placed') /\ placed' = placed \union {r}
      /\ Len(map') <= 2 * (step' - 1) /\ step' \in 1 .. 7
  BY <1>1, <1>2, <1>6, <1>8, Types, BootPlaces
<1>10. OneHigh(map', 2)
  <2>1. \A y \in Regions(map) : ~(y.type > 2)
    BY <1>5
  <2> HIDE DEF r
  <2>2. QED
    BY <1>9, <2>1 DEF Placed
<1>20. PICK ram \in RamSizes : \E a \in 0 .. ram - 1 : Memory(placed, ram, a)
  BY <1>3 DEF BootInv
<1>11. PICK a \in 0 .. ram - 1 : Memory(placed, ram, a)
  BY <1>20
<1>12. ~Covers(r, a)
  <2>1. a \in Nat
    BY <1>11, Spares
  <2>2. a < q[1] \/ q[1] + q[2] <= a
    BY <1>11 DEF Memory, Spare
  <2>3. QED
    BY <1>8, <2>1, <2>2, Types, Beside
<1>13. r.type # AVAILABLE
  BY Types DEF Region
<1> HIDE DEF r
<1>14. Memory(placed', ram, a)
  BY <1>9, <1>11, <1>12, <1>13, MemoryStep
<1>15. /\ kernelSize' \in KernelSizes /\ imageEnd' \in ImageEnds /\ imageEnd' < kernelSize'
  BY <1>2 DEF BootInv
<1>16. \E u \in RamSizes : \E b \in 0 .. u - 1 : Memory(placed', u, b)
  BY <1>14
<1>17. QED
  BY <1>3, <1>9, <1>10, <1>15, <1>16 DEF BootInv

\* Placing a region of UNAVAILABLE memory that spares the byte a.
LEMMA UnavailableStep ==
    ASSUME BootInv, NEW n \in 3 .. 5, Boot(n), NEW l \in Nat, NEW s \in Nat \ {0}, Place(UNAVAILABLE, l, s),
           kernelSize' = kernelSize, imageEnd' = imageEnd,
           NEW ram \in RamSizes, NEW a \in 0 .. ram - 1, Memory(placed, ram, a), a < l \/ l + s <= a
    PROVE  /\ MapOk(map', placed') /\ OneHigh(map', 2) /\ placed' = placed \union {Region(UNAVAILABLE, l, s)}
           /\ Len(map') <= 2 * (step' - 1) /\ step' \in 1 .. 7 /\ step = n /\ step' = n + 1
           /\ \E u \in RamSizes : \E b \in 0 .. u - 1 : Memory(placed', u, b)
           /\ kernelSize' \in KernelSizes /\ imageEnd' \in ImageEnds /\ imageEnd' < kernelSize'
           /\ MapSize(map) \in Nat /\ MapSize(map') \in Nat /\ MapSize(map') <= MapSize(map)
<1> DEFINE r == Region(UNAVAILABLE, l, s)
<1>1. OneHigh(map, UNAVAILABLE) /\ OneHigh(map, 2)
  BY Types DEF BootInv
<1>2. n \in 1 .. 5
  OBVIOUS
<1>3. /\ Placed(map, r, map') /\ MapOk(map', placed') /\ placed' = placed \union {r}
      /\ Len(map') <= 2 * (step' - 1) /\ step' \in 1 .. 7 /\ step = n /\ step' = n + 1
  BY <1>1, <1>2, Types, BootPlaces
<1>4. r.type = 2 /\ r.type # AVAILABLE
  BY Types DEF Region
<1>5. a \in Nat
  BY Spares
<1>6. ~Covers(r, a)
  BY <1>5, Types, Beside
<1> HIDE DEF r
<1>7. OneHigh(map', 2)
  <2>1. ~(r.type > 2)
    BY <1>4
  <2>2. QED
    BY <1>1, <1>3, <2>1 DEF Placed
<1>8. Memory(placed', ram, a)
  BY <1>3, <1>4, <1>6, MemoryStep
<1>9. Fits(map) /\ MapSize(map) \in Nat
  BY MemoryFits DEF BootInv, MapOk
<1>10. Fits(map') /\ MapSize(map') \in Nat
  BY <1>3, <1>8, MemoryFits DEF MapOk
<1>11. MapSize(map') <= MapSize(map)
  BY <1>3, <1>4, <1>9, <1>10, MapShrinks
<1>12. /\ kernelSize' \in KernelSizes /\ imageEnd' \in ImageEnds /\ imageEnd' < kernelSize'
  BY DEF BootInv
<1>13. QED
  BY <1>3, <1>7, <1>8, <1>9, <1>10, <1>11, <1>12 DEF r

LEMMA KernelKeepsBoot == ASSUME BootInv, PlaceKernel PROVE BootInv'
<1>1. Boot(3) /\ Place(UNAVAILABLE, 0, kernelSize) /\ kernelSize' = kernelSize /\ imageEnd' = imageEnd
  BY DEF PlaceKernel
<1>2. step = 3
  BY <1>1 DEF Boot
<1>3. PICK ram \in RamSizes : \E a \in 0 .. ram - 1 : Memory(placed, ram, a)
  BY <1>2 DEF BootInv
<1>4. PICK a \in 0 .. ram - 1 : Memory(placed, ram, a)
  BY <1>3
<1>5. kernelSize \in Nat \ {0} /\ 0 \in Nat /\ 3 \in 3 .. 5 /\ kernelSize \in KernelSizes
  BY BootNumbers DEF BootInv
<1>6. 0 + kernelSize <= a
  BY <1>4, <1>5 DEF Memory, Spare
<1>7. /\ MapOk(map', placed') /\ OneHigh(map', 2)
      /\ placed' = placed \union {Region(UNAVAILABLE, 0, kernelSize)}
      /\ Len(map') <= 2 * (step' - 1) /\ step' \in 1 .. 7 /\ step' = 3 + 1
      /\ \E u \in RamSizes : \E b \in 0 .. u - 1 : Memory(placed', u, b)
      /\ kernelSize' \in KernelSizes /\ imageEnd' \in ImageEnds /\ imageEnd' < kernelSize'
  BY <1>1, <1>4, <1>5, <1>6, UnavailableStep
<1>8. Region(UNAVAILABLE, 0, kernelSize') \in placed' /\ step' = 4
  BY <1>1, <1>7
<1>9. QED
  BY <1>7, <1>8 DEF BootInv

LEMMA BlockMapKeepsBoot == ASSUME BootInv, PlaceBlockMap PROVE BootInv'
<1>1. Boot(4) /\ Place(UNAVAILABLE, imageEnd, MapSize(map)) /\ kernelSize' = kernelSize /\ imageEnd' = imageEnd
  BY DEF PlaceBlockMap
<1>2. step = 4
  BY <1>1 DEF Boot
<1>3. PICK ram \in RamSizes : \E a \in 0 .. ram - 1 : Memory(placed, ram, a)
  BY <1>2 DEF BootInv
<1>4. PICK a \in 0 .. ram - 1 : Memory(placed, ram, a)
  BY <1>3
<1>5. imageEnd \in Nat /\ 4 \in 3 .. 5 /\ imageEnd \in ImageEnds
  BY BootNumbers DEF BootInv
<1>6. MapSize(map) \in Nat \ {0} /\ MapSize(map) <= MapBytes(ram)
  BY <1>4, MemoryFits DEF BootInv, MapOk
<1>7. MapBytes(ram) \in Nat
  <2>1. ram \in Nat /\ EntrySize * ram <= Bit[Width]
    BY Spares
  <2>2. QED
    BY <2>1, MapBytesAre
<1>8. imageEnd + MapSize(map) <= a
  <2>1. imageEnd + MapBytes(ram) <= a
    BY <1>4, <1>5 DEF Memory, Spare
  <2>2. a \in Nat
    BY Spares
  <2>3. QED
    BY <1>5, <1>6, <1>7, <2>1, <2>2
<1> DEFINE s == MapSize(map)
<1> HIDE DEF s
<1>9. /\ MapOk(map', placed') /\ OneHigh(map', 2)
      /\ placed' = placed \union {Region(UNAVAILABLE, imageEnd, s)}
      /\ Len(map') <= 2 * (step' - 1) /\ step' \in 1 .. 7 /\ step' = 4 + 1
      /\ \E u \in RamSizes : \E b \in 0 .. u - 1 : Memory(placed', u, b)
      /\ kernelSize' \in KernelSizes /\ imageEnd' \in ImageEnds /\ imageEnd' < kernelSize'
      /\ MapSize(map') <= s
  <2>1. s \in Nat \ {0} /\ imageEnd + s <= a /\ Place(UNAVAILABLE, imageEnd, s)
    BY <1>1, <1>6, <1>8 DEF s
  <2>2. QED
    BY <1>1, <1>4, <1>5, <2>1, UnavailableStep DEF s
<1>10. Region(UNAVAILABLE, 0, kernelSize') \in placed' /\ step' = 5
  BY <1>1, <1>2, <1>9 DEF BootInv
<1>11. s \in Nat \ {0} /\ MapSize(map') <= s /\ Region(UNAVAILABLE, imageEnd', s) \in placed'
  BY <1>1, <1>6, <1>9 DEF s
<1>12. \E u \in Nat \ {0} : MapSize(map') <= u /\ Region(UNAVAILABLE, imageEnd', u) \in placed'
  BY <1>11
<1>13. MapSize(map)' = MapSize(map')
  BY DEF MapSize, LastAvailable
<1>14. QED
  BY <1>9, <1>10, <1>12, <1>13 DEF BootInv

LEMMA RamDiskKeepsBoot == ASSUME BootInv, PlaceRamDisk PROVE BootInv'
<1>1. PICK q \in RamDisks : Place(UNAVAILABLE, q[1], q[2])
  BY DEF PlaceRamDisk
<1>2. Boot(5) /\ kernelSize' = kernelSize /\ imageEnd' = imageEnd
  BY DEF PlaceRamDisk
<1>3. step = 5
  BY <1>2 DEF Boot
<1>4. PICK ram \in RamSizes : \E a \in 0 .. ram - 1 : Memory(placed, ram, a)
  BY <1>3 DEF BootInv
<1>5. PICK a \in 0 .. ram - 1 : Memory(placed, ram, a)
  BY <1>4
<1>6. q \in Nat \X (Nat \ {0})
  BY BootAssumption
<1>7. q[1] \in Nat /\ q[2] \in Nat \ {0} /\ 5 \in 3 .. 5
  BY <1>6
<1>8. a < q[1] \/ q[1] + q[2] <= a
  BY <1>5 DEF Memory, Spare
<1>9. /\ MapOk(map', placed') /\ OneHigh(map', 2)
      /\ placed' = placed \union {Region(UNAVAILABLE, q[1], q[2])}
      /\ Len(map') <= 2 * (step' - 1) /\ step' \in 1 .. 7 /\ step' = 5 + 1
      /\ \E u \in RamSizes : \E b \in 0 .. u - 1 : Memory(placed', u, b)
      /\ kernelSize' \in KernelSizes /\ imageEnd' \in ImageEnds /\ imageEnd' < kernelSize'
      /\ MapSize(map) \in Nat /\ MapSize(map') \in Nat /\ MapSize(map') <= MapSize(map)
  BY <1>1, <1>2, <1>5, <1>7, <1>8, UnavailableStep
<1>10. Region(UNAVAILABLE, 0, kernelSize') \in placed' /\ step' = 6
  BY <1>2, <1>3, <1>9 DEF BootInv
<1>11. PICK s \in Nat \ {0} : MapSize(map) <= s /\ Region(UNAVAILABLE, imageEnd, s) \in placed
  BY <1>3 DEF BootInv
<1>12. MapSize(map') <= s /\ Region(UNAVAILABLE, imageEnd', s) \in placed'
  BY <1>2, <1>9, <1>11
<1>13. \E u \in Nat \ {0} : MapSize(map') <= u /\ Region(UNAVAILABLE, imageEnd', u) \in placed'
  BY <1>12
<1>14. MapSize(map)' = MapSize(map')
  BY DEF MapSize, LastAvailable
<1>15. QED
  BY <1>9, <1>10, <1>13, <1>14 DEF BootInv

\* The map does not change after boot.
LEMMA MapRests ==
    ASSUME BootInv, UNCHANGED <<map, placed, kernelSize, imageEnd>>,
           (step = 6 /\ step' = 7 /\ heap' = <<PageMapEnd, HeapSize>>)
              \/ UNCHANGED <<step, heap>>
    PROVE  BootInv'
<1>1. MapSize(map)' = MapSize(map) /\ PageMapEnd' = PageMapEnd /\ HeapSize' = HeapSize
  BY DEF MapSize, LastAvailable, PageMapEnd, HeapSize, RoundUp
<1>2. CASE UNCHANGED <<step, heap>>
  BY <1>1, <1>2 DEF BootInv
<1>3. CASE step = 6 /\ step' = 7 /\ heap' = <<PageMapEnd, HeapSize>>
  <2>1. Len(map) \in Nat
    BY BootNumbers
  <2>2. Len(map') <= 2 * (step' - 1) /\ step' \in 1 .. 7
    BY <1>3, <2>1 DEF BootInv
  <2>3. heap' = <<PageMapEnd', HeapSize'>>
    BY <1>1, <1>3
  <2>4. MapOk(map, placed)' /\ OneHigh(map, 2)'
    BY DEF BootInv
  <2>5. /\ \E ram \in RamSizes : \E a \in 0 .. ram - 1 : Memory(placed', ram, a)
        /\ Region(UNAVAILABLE, 0, kernelSize') \in placed'
        /\ \E s \in Nat \ {0} : MapSize(map)' <= s /\ Region(UNAVAILABLE, imageEnd', s) \in placed'
        /\ kernelSize' \in KernelSizes /\ imageEnd' \in ImageEnds /\ imageEnd' < kernelSize'
    BY <1>1, <1>3 DEF BootInv
  <2>6. QED
    BY <1>3, <2>2, <2>3, <2>4, <2>5 DEF BootInv
<1>4. QED
  BY <1>2, <1>3

LEMMA BootNext == ASSUME BootInv, [Next]_vars PROVE BootInv'
<1>1. CASE PlaceRam
  BY <1>1, RamKeepsBoot
<1>2. CASE PlaceMmio
  BY <1>2, MmioKeepsBoot
<1>3. CASE PlaceKernel
  BY <1>3, KernelKeepsBoot
<1>4. CASE PlaceBlockMap
  BY <1>4, BlockMapKeepsBoot
<1>5. CASE PlaceRamDisk
  BY <1>5, RamDiskKeepsBoot
<1>6. CASE InitMemory
  BY <1>6, MapRests DEF InitMemory, mapVars
<1>7. CASE Calls
  BY <1>7, MapRests DEF Calls, Reserve, Free, mapVars
<1>8. CASE UNCHANGED vars
  BY <1>8, MapRests DEF vars, mapVars
<1>9. QED
  BY <1>1, <1>2, <1>3, <1>4, <1>5, <1>6, <1>7, <1>8 DEF Next

\* What boot has placed, at every step of the specification.
THEOREM BootPlacesItAll == Spec => []BootInv
<1>1. BootInv /\ [Next]_vars => BootInv'
  BY BootNext
<1>2. QED
  BY <1>1, BootInit, PTL DEF Spec

\* The regions that place() leaves behind are in ascending order and no two overlap,
\* for the five regions boot places, wherever they are; and at every address the map
\* has the highest type that boot placed there, and nothing where nothing was placed.
THEOREM HighestTypeKept == Spec => []HighestTypeWins
<1>1. BootInv => HighestTypeWins
  <2>1. SUFFICES ASSUME BootInv PROVE HighestTypeWins
    OBVIOUS
  <2>2. map \in Seq(RegionT) /\ placed \subseteq RegionT /\ Ordered(map) /\ Wins(map, placed)
    BY <2>1 DEF BootInv, MapOk
  <2>3. QED
    BY <2>2, HighestWins
<1>2. QED
  BY <1>1, BootPlacesItAll, PTL

-----------------------------------------------------------------------------
(* The allocator in use *)

\* The pages where the blocks that callers hold begin.
Held1st(R) == {r.index : r \in R}

\* The allocator's fields and the blocks R that callers hold are the pages of U.
Books(a, R, U, N, K) ==
    /\ R \subseteq [index : 0 .. N - 1, k : 0 .. K]
    /\ Good(a, Held1st(R), U, N, K)
    /\ \A r \in R : a.kval[r.index] = r.k

\* free() of a block that is held.
LEMMA FreeBooks ==
    ASSUME NEW N, NEW K, NEW a, NEW R, NEW U, Books(a, R, U, N, K), NEW r \in R
    PROVE  Books(InsertBlock(a, r.index, a.kval[r.index]), R \ {r}, U, N, K)
<1> DEFINE x == r.index
           a1 == InsertBlock(a, x, a.kval[x])
           Hd == Held1st(R)
           R1 == R \ {r}
<1>0. R \subseteq [index : 0 .. N - 1, k : 0 .. K] /\ Good(a, Hd, U, N, K) /\ \A q \in R : a.kval[q.index] = q.k
  BY DEF Books
<1>1. x \in Hd
  BY DEF Held1st
<1>2. Held1st(R1) = Hd \ {x}
  <2>1. \A q \in R : q.index = x => q = r
    <3>1. SUFFICES ASSUME NEW q \in R, q.index = x PROVE q = r
      OBVIOUS
    <3>2. q.k = r.k
      BY <1>0, <3>1
    <3>3. q \in [index : 0 .. N - 1, k : 0 .. K] /\ r \in [index : 0 .. N - 1, k : 0 .. K]
      BY <1>0
    <3>4. QED
      BY <3>1, <3>2, <3>3
  <2>2. QED
    BY <2>1 DEF Held1st
<1> HIDE DEF x, Hd
<1>3. InHand(a, x, a.kval[x], Hd \ {x}, U, N, K)
  BY <1>0, <1>1, GiveBack
<1>4. Good(a1, Hd \ {x}, U, N, K) /\ \A i \in Hd \ {x} : a1.kval[i] = a.kval[i]
  BY <1>3, InsertKeeps
<1> HIDE DEF a1, R1
<1>5. \A q \in R1 : q.index \in Hd \ {x} /\ q \in R
  BY <1>2 DEF Held1st, R1
<1>6. \A q \in R1 : a1.kval[q.index] = q.k
  BY <1>0, <1>4, <1>5
<1>7. R1 \subseteq [index : 0 .. N - 1, k : 0 .. K]
  BY <1>0, <1>5
<1>8. QED
  BY <1>2, <1>4, <1>6, <1>7 DEF Books, a1, x, R1

\* reserve() of a block of order k from list j.
LEMMA ReserveBooks ==
    ASSUME NEW N, NEW K, NEW a, NEW R, NEW U, Books(a, R, U, N, K),
           NEW j \in 0 .. K, NEW k \in 0 .. Width, Smallest(a, k, j)
    PROVE  LET x  == Last(a.avail[j])
           IN  Books(SplitTo(Take(a, x, j, k), x, j, k), R \union {[index |-> x, k |-> k]}, U, N, K)
<1> DEFINE x == Last(a.avail[j])
           a1 == SplitTo(Take(a, x, j, k), x, j, k)
           Hd == Held1st(R)
           r == [index |-> x, k |-> k]
           R1 == R \union {r}
<1>0. R \subseteq [index : 0 .. N - 1, k : 0 .. K] /\ Good(a, Hd, U, N, K) /\ \A q \in R : a.kval[q.index] = q.k
  BY DEF Books
<1> HIDE DEF Hd
<1>1. /\ Good(a1, Hd \union {x}, U, N, K) /\ a1.kval[x] = k /\ x \notin Hd
      /\ \A i \in Hd : a1.kval[i] = a.kval[i]
  <2>1. Lent(a, a1, x, k, Hd, U, N, K)
    BY <1>0, ReserveKeeps
  <2> HIDE DEF x, a1
  <2>2. QED
    BY <2>1 DEF Lent
<1> HIDE DEF x, a1
<1>2. x \in 0 .. N - 1 /\ k \in 0 .. K
  <2>1. x \in 0 .. N - 1
    BY <1>1 DEF Good, Others
  <2>2. Size(N, K)
    BY <1>1 DEF Good, Core
  <2>3. K \in Nat /\ Width \in Nat
    BY <2>2, SizeNat
  <2>4. QED
    BY <2>1, <2>3 DEF Smallest
<1>3. r \in [index : 0 .. N - 1, k : 0 .. K] /\ r.index = x /\ r.k = k
  BY <1>2
<1> HIDE DEF r
<1>4. Held1st(R1) = Hd \union {x}
  BY <1>3 DEF Held1st, Hd
<1>5. \A q \in R1 : a1.kval[q.index] = q.k
  <2>1. \A q \in R : q.index \in Hd
    BY DEF Held1st, Hd
  <2>2. QED
    BY <1>0, <1>1, <1>3, <2>1
<1>6. R1 \subseteq [index : 0 .. N - 1, k : 0 .. K]
  BY <1>0, <1>3
<1>7. QED
  BY <1>1, <1>4, <1>5, <1>6 DEF Books, a1, x, r

\* What is so once the allocator is there.
AllocInv ==
    /\ ready \in BOOLEAN /\ (ready => step = 7) /\ (~ready => reserved = {})
    /\ ready => Books(Fields, reserved, Usable, Entries(map), llog2(Entries(map)))

LEMMA UsableIs == ASSUME map \in Seq(RegionT) PROVE Usable = UsableIn(map, Len(map))
<1>1. DOMAIN map = 1 .. Len(map) /\ \A i \in 1 .. Len(map) : map[i] \in RegionT
  OBVIOUS
<1>2. ToSet(map) = {map[i] : i \in 1 .. Len(map)}
  BY <1>1 DEF ToSet
<1>3. \A i \in 1 .. Len(map) : \A p \in FirstPage(map[i]) .. LastPage(map[i]) : p \in Nat
  <2>1. SUFFICES ASSUME NEW i \in 1 .. Len(map), NEW p \in FirstPage(map[i]) .. LastPage(map[i]) PROVE p \in Nat
    OBVIOUS
  <2>2. FirstPage(map[i]) \in Nat
    BY <1>1, PagesOf
  <2>3. QED
    BY <2>2
<1>4. ASSUME NEW p \in Usable PROVE p \in UsableIn(map, Len(map))
  <2>1. PICK r \in ToSet(map) : r.type = AVAILABLE /\ p \in FirstPage(r) .. LastPage(r)
    BY DEF Usable
  <2>2. PICK i \in 1 .. Len(map) : r = map[i]
    BY <1>2
  <2>3. QED
    BY <1>3, <2>1, <2>2 DEF UsableIn
<1>5. ASSUME NEW p \in UsableIn(map, Len(map)) PROVE p \in Usable
  <2>1. PICK i \in 1 .. Len(map) : map[i].type = AVAILABLE /\ p \in FirstPage(map[i]) .. LastPage(map[i])
    BY DEF UsableIn
  <2>2. map[i] \in {x \in ToSet(map) : x.type = AVAILABLE}
    BY <1>2, <2>1
  <2>3. QED
    BY <2>1, <2>2 DEF Usable
<1>6. QED
  BY <1>4, <1>5

\* A step that makes the fields those of a.
LEMMA Becomes ==
    ASSUME NEW N, NEW K, NEW a \in AllocT(N, K), Become(a)
    PROVE  Fields' = a
<1>1. Fields' = [maxKVal |-> a.maxKVal, avail |-> a.avail, tag |-> a.tag, kval |-> a.kval,
                 freeBlockCount |-> a.freeBlockCount]
  BY DEF Become, Fields
<1>2. QED
  BY <1>1 DEF AllocT

LEMMA BooksType == ASSUME NEW N, NEW K, NEW a, NEW R, NEW U, Books(a, R, U, N, K) PROVE a \in AllocT(N, K)
BY DEF Books, Good, Core

\* The order of a request.
LEMMA OrderIs == ASSUME NEW size \in Nat PROVE Order(size) \in 0 .. Width
<1> DEFINE W == Bit[Width]
           y == (size - 1) % W
           z == y \div BlockSize
<1>1. Width \in 0 .. Width
  BY BitIs
<1>2. W \in Nat \ {0} /\ BlockSize \in Nat \ {0}
  BY <1>1, BitPositive, PageAllocatorAssumption
<1> HIDE DEF W
<1>3. y \in 0 .. W - 1
  BY <1>2
<1> HIDE DEF y
<1>4. z \in Nat
  BY <1>2, <1>3, DivNat
<1>5. y < W * BlockSize
  <2>1. W * BlockSize >= W
    BY <1>2, SMT
  <2>2. W * BlockSize \in Nat
    BY <1>2
  <2>3. QED
    BY <1>2, <1>3, <2>1, <2>2
<1>6. z < W
  BY <1>2, <1>3, <1>5, DivBelow
<1> HIDE DEF z
<1>7. z + 1 \in Nat /\ z + 1 <= W
  BY <1>2, <1>4, <1>6
<1>8. llog2(z + 1) \in 0 .. Width
  BY <1>7, Log2Is DEF W
<1>9. QED
  BY <1>8 DEF Order, z, y, W

LEMMA AllocInit == Init => AllocInv
BY DEF Init, PageInit, AllocInv

\* What the map says of the pages changes with the map only.
LEMMA PagesRest ==
    ASSUME UNCHANGED map
    PROVE  /\ Usable' = Usable /\ Entries(map)' = Entries(map)
           /\ llog2(Entries(map))' = llog2(Entries(map))
BY DEF Usable, ToSet, Entries, MapSize, LastAvailable

\* The map fits once the regions are placed.
LEMMA BootFits == ASSUME BootInv, step > 1 PROVE Fits(map)
<1>1. PICK ram \in RamSizes : \E a \in 0 .. ram - 1 : Memory(placed, ram, a)
  BY DEF BootInv
<1>2. PICK a \in 0 .. ram - 1 : Memory(placed, ram, a)
  BY <1>1
<1>3. QED
  BY <1>2, MemoryFits DEF BootInv, MapOk

LEMMA InitMemoryKeepsAlloc == ASSUME BootInv, AllocInv, InitMemory PROVE AllocInv'
<1> DEFINE N == Entries(map)
           K == llog2(N)
           a == Construct(map)
<1>1. /\ step = 6 /\ step' = 7 /\ ready' = TRUE /\ Become(a)
      /\ UNCHANGED map /\ UNCHANGED reserved
  BY DEF InitMemory, mapVars
<1>2. reserved = {}
  BY <1>1 DEF AllocInv
<1>3. Fits(map) /\ map \in Seq(RegionT)
  BY <1>1, BootFits DEF BootInv, MapOk
<1>4. Good(a, {}, Usable, N, K)
  <2>1. Usable = UsableIn(map, Len(map))
    BY <1>3, UsableIs
  <2>2. QED
    BY <1>3, <2>1, ConstructKeeps
<1> HIDE DEF a, N, K
<1>5. Books(a, reserved, Usable, N, K)
  <2>1. Held1st({}) = {}
    BY DEF Held1st
  <2>2. QED
    BY <1>2, <1>4, <2>1 DEF Books
<1>6. Fields' = a
  BY <1>1, <1>5, BooksType, Becomes
<1>7. Usable' = Usable /\ Entries(map)' = N /\ llog2(Entries(map))' = K
  BY <1>1, PagesRest DEF N, K
<1>8. Books(Fields', reserved', Usable', Entries(map)', llog2(Entries(map))')
  BY <1>1, <1>5, <1>6, <1>7
<1>9. QED
  BY <1>1, <1>8 DEF AllocInv

LEMMA ReserveKeepsAlloc == ASSUME AllocInv, NEW size \in Sizes, Reserve(size), UNCHANGED step PROVE AllocInv'
<1> DEFINE N == Entries(map)
           K == llog2(N)
           k == Order(size)
<1>1. ready /\ ready' = ready /\ UNCHANGED map /\ step = 7
  BY DEF Reserve, mapVars, AllocInv
<1>2. Books(Fields, reserved, Usable, N, K)
  BY <1>1 DEF AllocInv
<1>3. k \in 0 .. Width
  <2>1. size \in Nat
    BY BootAssumption
  <2>2. QED
    BY <2>1, OrderIs
<1> HIDE DEF N, K
<1>4. Fields \in AllocT(N, K)
  BY <1>2, BooksType
<1>5. /\ Fields.maxKVal = maxKVal /\ Fields.avail = avail /\ Fields.kval = kval
  BY DEF Fields
<1>6. maxKVal = K
  BY <1>4, <1>5, AllocFields
<1>7. K \in Nat /\ Width \in Nat
  <2>1. Size(N, K)
    BY <1>2 DEF Books, Good, Core
  <2>2. QED
    BY <2>1, SizeNat
<1>8. Usable' = Usable /\ Entries(map)' = N /\ llog2(Entries(map))' = K
  BY <1>1, PagesRest DEF N, K
<1>9. CASE Fitting(k) = {}
  <2>1. UNCHANGED <<maxKVal, avail, tag, kval, freeBlockCount, reserved>>
    BY <1>9 DEF Reserve
  <2>2. Fields' = Fields
    BY <2>1 DEF Fields
  <2>3. Books(Fields', reserved', Usable', Entries(map)', llog2(Entries(map))')
    BY <1>2, <1>8, <2>1, <2>2
  <2>4. QED
    BY <1>1, <2>3 DEF AllocInv
<1>10. CASE Fitting(k) # {}
  <2> DEFINE F == Fitting(k)
             j == CHOOSE i \in F : \A h \in F : i <= h
             x == Last(avail[j])
             a1 == SplitTo(Take(Fields, x, j, k), x, j, k)
             R1 == reserved \union {[index |-> x, k |-> k]}
  <2>1. Become(a1) /\ reserved' = R1
    BY <1>10 DEF Reserve
  <2>2. F \subseteq Nat /\ F # {}
    BY <1>3, <1>6, <1>7, <1>10 DEF Fitting
  <2> HIDE DEF F
  <2>3. j \in F /\ \A h \in F : j <= h
    BY <2>2, NatMin
  <2> HIDE DEF j
  <2>4. j \in k .. K /\ avail[j] # <<>>
    BY <1>6, <2>3 DEF F, Fitting
  <2>5. j \in 0 .. K /\ k <= j
    BY <1>3, <1>7, <2>4
  <2>6. ASSUME NEW i \in k .. j - 1 PROVE avail[i] = <<>>
    <3>1. i \in k .. K /\ ~(j <= i)
      BY <1>3, <1>7, <2>5
    <3>2. i \notin F
      BY <2>3, <3>1
    <3>3. QED
      BY <1>6, <3>1, <3>2 DEF F, Fitting
  <2>7. Smallest(Fields, k, j)
    BY <1>5, <2>4, <2>5, <2>6 DEF Smallest
  <2> HIDE DEF k
  <2>8. Books(a1, R1, Usable, N, K)
    <3>1. x = Last(Fields.avail[j])
      BY <1>5
    <3>2. QED
      BY <1>2, <1>3, <2>5, <2>7, <3>1, ReserveBooks
  <2> HIDE DEF a1, R1
  <2>9. Fields' = a1
    BY <2>1, <2>8, BooksType, Becomes
  <2>10. Books(Fields', reserved', Usable', Entries(map)', llog2(Entries(map))')
    BY <1>8, <2>1, <2>8, <2>9
  <2>11. QED
    BY <1>1, <2>10 DEF AllocInv
<1>11. QED
  BY <1>9, <1>10

LEMMA FreeKeepsAlloc == ASSUME AllocInv, NEW r \in reserved, Free(r), UNCHANGED step PROVE AllocInv'
<1> DEFINE N == Entries(map)
           K == llog2(N)
           a1 == InsertBlock(Fields, r.index, Fields.kval[r.index])
           R1 == reserved \ {r}
<1>1. ready /\ ready' = ready /\ UNCHANGED map /\ step = 7 /\ reserved' = R1
  BY DEF Free, mapVars, AllocInv
<1>2. Books(Fields, reserved, Usable, N, K)
  BY <1>1 DEF AllocInv
<1>3. Become(a1)
  <2>1. Fields.kval = kval
    BY DEF Fields
  <2>2. QED
    BY <2>1 DEF Free
<1>4. Usable' = Usable /\ Entries(map)' = N /\ llog2(Entries(map))' = K
  BY <1>1, PagesRest
<1> HIDE DEF N, K
<1>5. Books(a1, R1, Usable, N, K)
  BY <1>2, FreeBooks
<1> HIDE DEF a1, R1
<1>6. Fields' = a1
  BY <1>3, <1>5, BooksType, Becomes
<1>7. Books(Fields', reserved', Usable', Entries(map)', llog2(Entries(map))')
  BY <1>1, <1>4, <1>5, <1>6
<1>8. QED
  BY <1>1, <1>7 DEF AllocInv

LEMMA AllocNext == ASSUME BootInv, AllocInv, [Next]_vars PROVE AllocInv'
<1>1. ASSUME NEW n \in 1 .. 5, Boot(n) PROVE AllocInv'
  BY <1>1 DEF Boot, pageVars, AllocInv
<1>2. CASE PlaceRam \/ PlaceMmio \/ PlaceKernel \/ PlaceBlockMap \/ PlaceRamDisk
  BY <1>1, <1>2 DEF PlaceRam, PlaceMmio, PlaceKernel, PlaceBlockMap, PlaceRamDisk
<1>3. CASE InitMemory
  BY <1>3, InitMemoryKeepsAlloc
<1>4. CASE Calls
  <2>1. UNCHANGED step
    BY <1>4 DEF Calls
  <2>2. CASE \E size \in Sizes : Reserve(size)
    BY <2>1, <2>2, ReserveKeepsAlloc
  <2>3. CASE \E r \in reserved : Free(r)
    BY <2>1, <2>3, FreeKeepsAlloc
  <2>4. QED
    BY <1>4, <2>2, <2>3 DEF Calls
<1>5. CASE UNCHANGED vars
  <2>1. UNCHANGED map /\ UNCHANGED <<ready, step, reserved>> /\ UNCHANGED <<maxKVal, avail, tag, kval, freeBlockCount>>
    BY <1>5 DEF vars, mapVars, pageVars
  <2>2. Fields' = Fields
    BY <2>1 DEF Fields
  <2>3. Usable' = Usable /\ Entries(map)' = Entries(map) /\ llog2(Entries(map))' = llog2(Entries(map))
    BY <2>1, PagesRest
  <2>4. QED
    BY <2>1, <2>2, <2>3 DEF AllocInv
<1>6. QED
  BY <1>2, <1>3, <1>4, <1>5 DEF Next

\* The allocator's fields at every step of the specification.
THEOREM AllocatorKept == Spec => []AllocInv
<1>1. BootInv /\ AllocInv /\ [Next]_vars => AllocInv'
  BY AllocNext
<1>2. QED
  BY <1>1, AllocInit, BootPlacesItAll, PTL DEF Spec

-----------------------------------------------------------------------------
(* What that says of the pages *)

\* The facts of AllocInv about the variables, with the free blocks F and the size of
\* the block map.
View(F, N, K) ==
    /\ Size(N, K) /\ maxKVal = K /\ DOMAIN avail = 0 .. K /\ DOMAIN tag = 0 .. N - 1
    /\ kval \in [0 .. N - 1 -> 0 .. K]
    /\ F = {i \in 0 .. N - 1 : tag[i] = FREE}
    /\ \A k \in 0 .. K : DOMAIN avail[k] = 1 .. Len(avail[k])
    /\ \A k \in 0 .. K : \A n \in 1 .. Len(avail[k]) : avail[k][n] \in F /\ kval[avail[k][n]] = k
    /\ \A i \in F : \E n \in 1 .. Len(avail[kval[i]]) : avail[kval[i]][n] = i
    /\ \A k \in 0 .. K : \A n, l \in 1 .. Len(avail[k]) : avail[k][n] = avail[k][l] => n = l
    /\ \A i, j \in F : kval[i] = kval[j] /\ kval[i] < K => j # Buddy(i, kval[i])
    /\ Held1st(reserved) \intersect F = {}
    /\ Tiling(F \union Held1st(reserved), kval, N, K, Usable)
    /\ reserved \subseteq [index : 0 .. N - 1, k : 0 .. K]
    /\ \A r \in reserved : kval[r.index] = r.k

LEMMA Viewed ==
    ASSUME AllocInv, ready
    PROVE  \E F, N, K : View(F, N, K)
<1> DEFINE N == Entries(map)
           K == llog2(N)
           F == Free1st(Fields, N)
<1>1. Books(Fields, reserved, Usable, N, K)
  BY DEF AllocInv
<1> HIDE DEF N, K
<1>2. /\ Fields.maxKVal = maxKVal /\ Fields.avail = avail /\ Fields.kval = kval /\ Fields.tag = tag
  BY DEF Fields
<1>3. /\ Size(N, K) /\ Fields \in AllocT(N, K) /\ Listed(Fields, N, K) /\ Merged(Fields, N, K)
      /\ Others(Fields, Held1st(reserved), N)
      /\ Tiling(F \union Held1st(reserved), kval, N, K, Usable)
  BY <1>1, <1>2 DEF Books, Good, Core
<1>4. /\ maxKVal = K /\ avail \in [0 .. K -> Seq(0 .. N - 1)] /\ tag \in [0 .. N - 1 -> {FREE, RESERVED}]
      /\ kval \in [0 .. N - 1 -> 0 .. K]
  BY <1>2, <1>3, AllocFields
<1>5. F = {i \in 0 .. N - 1 : tag[i] = FREE}
  BY <1>2 DEF Free1st
<1> HIDE DEF F
<1>6. \A k \in 0 .. K : ListOf(Fields, N, k, avail[k])
  BY <1>2, <1>3 DEF Listed
<1>7. \A k \in 0 .. K : \A n \in 1 .. Len(avail[k]) : avail[k][n] \in F /\ kval[avail[k][n]] = k
  BY <1>2, <1>6 DEF ListOf, F
<1>8. \A i \in F : \E n \in 1 .. Len(avail[kval[i]]) : avail[kval[i]][n] = i
  <2>1. SUFFICES ASSUME NEW i \in F PROVE \E n \in 1 .. Len(avail[kval[i]]) : avail[kval[i]][n] = i
    OBVIOUS
  <2>2. kval[i] \in 0 .. K
    BY <1>4, <1>5
  <2>3. QED
    BY <1>2, <1>6, <2>2 DEF ListOf, F
<1>9. \A k \in 0 .. K : \A n, l \in 1 .. Len(avail[k]) : avail[k][n] = avail[k][l] => n = l
  BY <1>6 DEF ListOf
<1>10. \A i, j \in F : kval[i] = kval[j] /\ kval[i] < K => j # Buddy(i, kval[i])
  BY <1>2, <1>3 DEF Merged, F
<1>11. Held1st(reserved) \intersect F = {}
  BY <1>3 DEF Others, F
<1>12. reserved \subseteq [index : 0 .. N - 1, k : 0 .. K] /\ \A r \in reserved : kval[r.index] = r.k
  BY <1>1, <1>2 DEF Books
<1>13. \A k \in 0 .. K : DOMAIN avail[k] = 1 .. Len(avail[k])
  BY <1>4
<1>14. DOMAIN avail = 0 .. K /\ DOMAIN tag = 0 .. N - 1
  BY <1>4
<1>15. View(F, N, K)
  BY <1>3, <1>4, <1>5, <1>7, <1>8, <1>9, <1>10, <1>11, <1>12, <1>13, <1>14 DEF View
<1>16. QED
  BY <1>15

\* The tags and the lists agree.
LEMMA TagsAgree == ASSUME AllocInv PROVE TagsMatchLists
<1>1. SUFFICES ASSUME ready PROVE TagsMatchLists
  BY DEF TagsMatchLists
<1>2. PICK F, N, K : View(F, N, K)
  BY <1>1, Viewed
<1>3. /\ DOMAIN avail = 0 .. K /\ DOMAIN tag = 0 .. N - 1 /\ kval \in [0 .. N - 1 -> 0 .. K]
      /\ F = {i \in 0 .. N - 1 : tag[i] = FREE}
      /\ \A k \in 0 .. K : DOMAIN avail[k] = 1 .. Len(avail[k])
  BY <1>2 DEF View
<1>4. \A k \in 0 .. K : \A n \in 1 .. Len(avail[k]) : avail[k][n] \in F /\ kval[avail[k][n]] = k
  BY <1>2 DEF View
<1>5. \A i \in F : \E n \in 1 .. Len(avail[kval[i]]) : avail[kval[i]][n] = i
  BY <1>2 DEF View
<1>6. \A k \in 0 .. K : \A n, l \in 1 .. Len(avail[k]) : avail[k][n] = avail[k][l] => n = l
  BY <1>2 DEF View
<1>7. \A k \in 0 .. K : ToSet(avail[k]) = {avail[k][n] : n \in 1 .. Len(avail[k])}
  BY <1>3 DEF ToSet
<1>8. ASSUME NEW i \in DOMAIN tag
      PROVE  (tag[i] = FREE) <=> \E k \in DOMAIN avail : i \in ToSet(avail[k])
  <2>1. ASSUME tag[i] = FREE PROVE \E k \in DOMAIN avail : i \in ToSet(avail[k])
    <3>1. i \in F /\ kval[i] \in 0 .. K
      BY <1>3, <2>1
    <3>2. PICK n \in 1 .. Len(avail[kval[i]]) : avail[kval[i]][n] = i
      BY <1>5, <3>1
    <3>3. i \in ToSet(avail[kval[i]])
      BY <1>7, <3>1, <3>2
    <3>4. QED
      BY <1>3, <3>1, <3>3
  <2>2. ASSUME NEW k \in DOMAIN avail, i \in ToSet(avail[k]) PROVE tag[i] = FREE
    <3>1. k \in 0 .. K
      BY <1>3
    <3>2. PICK n \in 1 .. Len(avail[k]) : avail[k][n] = i
      BY <1>7, <2>2, <3>1
    <3>3. i \in F
      BY <1>4, <3>1, <3>2
    <3>4. QED
      BY <1>3, <3>3
  <2>3. QED
    BY <2>1, <2>2
<1>9. ASSUME NEW k \in DOMAIN avail, NEW n \in DOMAIN avail[k]
      PROVE  kval[avail[k][n]] = k /\ \A m \in DOMAIN avail[k] : avail[k][m] = avail[k][n] => m = n
  <2>1. k \in 0 .. K /\ n \in 1 .. Len(avail[k]) /\ DOMAIN avail[k] = 1 .. Len(avail[k])
    BY <1>3
  <2>2. QED
    BY <1>4, <1>6, <2>1
<1>10. QED
  BY <1>8, <1>9 DEF TagsMatchLists

\* The free blocks on a page.
LEMMA FreeOnIs ==
    ASSUME NEW F, NEW N, NEW K, View(F, N, K), NEW p \in Nat
    PROVE  FreeOn(p) = {kval[i] : i \in {t \in F : Holds(kval, t, p)}}
<1>0. /\ Size(N, K) /\ maxKVal = K /\ kval \in [0 .. N - 1 -> 0 .. K] /\ F \subseteq 0 .. N - 1
      /\ \A k \in 0 .. K : DOMAIN avail[k] = 1 .. Len(avail[k])
  BY DEF View
<1>1. \A k \in 0 .. K : \A n \in 1 .. Len(avail[k]) : avail[k][n] \in F /\ kval[avail[k][n]] = k
  BY DEF View
<1>2. \A i \in F : \E n \in 1 .. Len(avail[kval[i]]) : avail[kval[i]][n] = i
  BY DEF View
<1>3. ASSUME NEW i \in F PROVE p \in Pages(i, kval[i]) <=> Holds(kval, i, p)
  <2>1. i \in 0 .. N - 1 /\ kval[i] \in 0 .. K /\ i \in Nat
    <3>1. N \in Nat
      BY <1>0, SizeNat
    <3>2. QED
      BY <1>0, <3>1
  <2>2. Bit[kval[i]] \in Nat
    BY <1>0, <2>1, SizeNat
  <2>3. QED
    BY <2>1, <2>2 DEF Pages, Holds
<1>4. ASSUME NEW k \in FreeOn(p) PROVE k \in {kval[i] : i \in {t \in F : Holds(kval, t, p)}}
  <2>1. k \in 0 .. K
    BY <1>0 DEF FreeOn
  <2>2. PICK n \in 1 .. Len(avail[k]) : p \in Pages(avail[k][n], k)
    BY <1>0, <2>1 DEF FreeOn
  <2> DEFINE i == avail[k][n]
  <2>3. i \in F /\ kval[i] = k
    BY <1>1, <2>1
  <2> HIDE DEF i
  <2>4. Holds(kval, i, p)
    BY <1>3, <2>2, <2>3 DEF i
  <2>5. QED
    BY <2>3, <2>4
<1>5. ASSUME NEW i \in F, Holds(kval, i, p) PROVE kval[i] \in FreeOn(p)
  <2>1. kval[i] \in 0 .. K
    BY <1>0
  <2>2. PICK n \in 1 .. Len(avail[kval[i]]) : avail[kval[i]][n] = i
    BY <1>2
  <2>3. p \in Pages(avail[kval[i]][n], kval[i])
    BY <1>3, <1>5, <2>2
  <2>4. QED
    BY <1>0, <2>1, <2>2, <2>3 DEF FreeOn
<1>6. QED
  BY <1>4, <1>5

\* The held blocks on a page.
LEMMA HeldOnIs ==
    ASSUME NEW F, NEW N, NEW K, View(F, N, K), NEW p \in Nat
    PROVE  \A r \in reserved : r \in HeldOn(p) <=> Holds(kval, r.index, p)
<1>0. /\ Size(N, K) /\ reserved \subseteq [index : 0 .. N - 1, k : 0 .. K]
      /\ \A r \in reserved : kval[r.index] = r.k
  BY DEF View
<1>1. N \in Nat
  BY <1>0, SizeNat
<1>2. SUFFICES ASSUME NEW r \in reserved PROVE r \in HeldOn(p) <=> Holds(kval, r.index, p)
  OBVIOUS
<1>3. r.index \in Nat /\ r.k \in 0 .. K /\ kval[r.index] = r.k
  BY <1>0, <1>1
<1>4. Bit[r.k] \in Nat
  BY <1>0, <1>3, SizeNat
<1>5. QED
  BY <1>3, <1>4 DEF HeldOn, Holds, Pages

\* Every page of available memory is in one block, and no other page is.
LEMMA PagesAdd == ASSUME AllocInv PROVE PagesPartitioned
<1>1. SUFFICES ASSUME ready, NEW p \in DOMAIN tag
               PROVE  Cardinality(FreeOn(p)) + Cardinality(HeldOn(p)) = (IF p \in Usable THEN 1 ELSE 0)
  BY DEF PagesPartitioned
<1>2. PICK F, N, K : View(F, N, K)
  BY <1>1, Viewed
<1> DEFINE H == Held1st(reserved)
           T == F \union H
<1>3. Size(N, K) /\ DOMAIN tag = 0 .. N - 1 /\ H \intersect F = {} /\ Tiling(T, kval, N, K, Usable)
  BY <1>2 DEF View
<1>4. p \in Nat
  BY <1>3, SizeNat
<1>5. FreeOn(p) = {kval[i] : i \in {t \in F : Holds(kval, t, p)}}
  BY <1>2, <1>4, FreeOnIs
<1>6. \A r \in reserved : r \in HeldOn(p) <=> Holds(kval, r.index, p)
  BY <1>2, <1>4, HeldOnIs
<1>7. HeldOn(p) \subseteq reserved /\ H = {r.index : r \in reserved}
  BY DEF HeldOn, Held1st
<1> HIDE DEF H, T
<1>8. p \in Usable <=> \E i \in T : Holds(kval, i, p)
  BY <1>3, <1>4 DEF Tiling
<1>9. Cardinality({}) = 0 /\ \A x : Cardinality({x}) = 1
  BY FS_EmptySet, FS_Singleton
<1>10. CASE p \notin Usable
  <2>1. FreeOn(p) = {}
    BY <1>5, <1>8, <1>10 DEF T
  <2>2. HeldOn(p) = {}
    BY <1>6, <1>7, <1>8, <1>10 DEF T
  <2>3. QED
    BY <1>9, <1>10, <2>1, <2>2
<1>11. CASE p \in Usable
  <2>1. PICK i \in T : Holds(kval, i, p)
    BY <1>8, <1>11
  <2>2. \A j \in T : Holds(kval, j, p) => j = i
    BY <1>3, <1>4, <2>1, TileOne
  <2>3. CASE i \in F
    <3>1. FreeOn(p) = {kval[i]}
      BY <1>5, <2>1, <2>2, <2>3 DEF T
    <3>2. HeldOn(p) = {}
      BY <1>3, <1>6, <1>7, <2>2, <2>3 DEF T
    <3>3. Cardinality(FreeOn(p)) = 1 /\ Cardinality(HeldOn(p)) = 0
      BY <1>9, <3>1, <3>2
    <3>4. QED
      BY <1>11, <3>3
  <2>4. CASE i \notin F
    <3>1. i \in H
      BY <2>4 DEF T
    <3>2. PICK r \in reserved : r.index = i
      BY <1>7, <3>1
    <3>3. FreeOn(p) = {}
      BY <1>5, <2>2, <2>4 DEF T
    <3>4. \A q \in reserved : q.index = i => q = r
      <4>1. /\ reserved \subseteq [index : 0 .. N - 1, k : 0 .. K] /\ \A q \in reserved : kval[q.index] = q.k
        BY <1>2 DEF View
      <4>2. SUFFICES ASSUME NEW q \in reserved, q.index = i PROVE q = r
        OBVIOUS
      <4>3. q.index = r.index /\ q.k = r.k
        BY <3>2, <4>1, <4>2
      <4>4. q \in [index : 0 .. N - 1, k : 0 .. K] /\ r \in [index : 0 .. N - 1, k : 0 .. K]
        BY <4>1
      <4>5. QED
        BY <4>3, <4>4
    <3>5. HeldOn(p) = {r}
      <4>1. r \in HeldOn(p)
        BY <1>6, <2>1, <3>2
      <4>2. ASSUME NEW q \in HeldOn(p) PROVE q = r
        <5>1. q \in reserved /\ Holds(kval, q.index, p)
          BY <1>6, <1>7
        <5>2. q.index \in T
          BY <1>7, <5>1 DEF T
        <5>3. QED
          BY <2>2, <3>4, <5>1, <5>2
      <4>3. QED
        BY <4>1, <4>2
    <3>6. Cardinality(FreeOn(p)) = 0 /\ Cardinality(HeldOn(p)) = 1
      BY <1>9, <3>3, <3>5
    <3>7. QED
      BY <1>11, <3>6
  <2>5. QED
    BY <2>3, <2>4
<1>12. QED
  BY <1>10, <1>11

\* The free blocks are merged as far as they can be: a run of free pages of order k, not
\* part of a block of order k or more, has a smallest block in it, and the buddy of that
\* block is free and of the same order.
LEMMA RunIsMerged ==
    ASSUME NEW F, NEW N, NEW K, View(F, N, K), NEW k \in 0 .. K, NEW x, Aligned(x, k),
           \A p \in Nat : x <= p /\ p < x + Bit[k] => \E t \in F : Holds(kval, t, p),
           \A t \in F : kval[t] < k
    PROVE  FALSE
<1> DEFINE T == F \union Held1st(reserved)
<1>0. /\ Size(N, K) /\ Tiling(T, kval, N, K, Usable)
      /\ \A i, j \in F : kval[i] = kval[j] /\ kval[i] < K => j # Buddy(i, kval[i])
  BY DEF View
<1>1. F \subseteq T
  OBVIOUS
<1> HIDE DEF T
<1>2. \A t \in F : /\ t \in Nat /\ kval[t] \in 0 .. K /\ kval[t] \in 0 .. Width
                   /\ Bit[kval[t]] \in Nat \ {0} /\ Aligned(t, kval[t])
  BY <1>0, <1>1, TileNumbers
<1>3. K \in Nat /\ K \in 0 .. Width /\ Width \in Nat /\ k \in 0 .. Width /\ Bit[k] \in Nat \ {0}
  BY <1>0, SizeNat DEF Size
<1>4. x \in Nat
  BY <1>3, Multiples DEF Aligned
<1> DEFINE R == {t \in F : t < x + Bit[k] /\ x < t + Bit[kval[t]]}
           S == {kval[t] : t \in R}
<1>5. ASSUME NEW p \in Nat, NEW t \in F, x <= p, p < x + Bit[k], Holds(kval, t, p) PROVE t \in R
  <2>1. t \in Nat /\ Bit[kval[t]] \in Nat
    BY <1>2
  <2>2. QED
    BY <1>3, <1>4, <1>5, <2>1 DEF Holds
<1>6. R # {}
  <2>1. x <= x /\ x < x + Bit[k]
    BY <1>3, <1>4
  <2>2. PICK t \in F : Holds(kval, t, x)
    BY <1>4, <2>1
  <2> HIDE DEF R
  <2>3. t \in R
    BY <1>4, <1>5, <2>1, <2>2
  <2>4. QED
    BY <2>3
<1>7. S # {} /\ S \subseteq Nat
  BY <1>2, <1>6
<1>8. PICK g \in S : \A h \in S : g <= h
  <2> HIDE DEF S
  <2>1. QED
    BY <1>7, NatMin
<1>9. PICK t \in R : kval[t] = g
  BY <1>8
<1>10. /\ t \in F /\ t \in Nat /\ g \in 0 .. K /\ g \in 0 .. Width /\ Bit[g] \in Nat \ {0} /\ Aligned(t, g)
       /\ g < k /\ t < x + Bit[k] /\ x < t + Bit[g]
  BY <1>2, <1>9
<1>11. \A u \in R : g <= kval[u]
  BY <1>8
<1> HIDE DEF R, S
<1>12. g \in 0 .. Width - 1 /\ g + 1 \in 0 .. Width /\ g + 1 <= k /\ g < K
  BY <1>3, <1>10
<1> DEFINE b == Buddy(t, g)
<1>13. PICK lo \in Nat : Pair(t, b, g, lo)
  BY <1>10, <1>12, BuddyPair
<1>14. Aligned(lo, g + 1) /\ ((t = lo /\ b = lo + Bit[g]) \/ (b = lo /\ t = lo + Bit[g]))
  BY <1>13 DEF Pair
<1>15. Bit[g + 1] = Bit[g] + Bit[g] /\ Aligned(lo, g) /\ Aligned(lo + Bit[g], g)
  BY <1>12, <1>14, BuddiesIn
<1> HIDE DEF b
<1>16. b \in Nat /\ Aligned(b, g) /\ b # t
  BY <1>10, <1>14, <1>15
<1>17. lo < x + Bit[k] /\ x < lo + Bit[g + 1]
  BY <1>3, <1>4, <1>10, <1>14, <1>15
<1>18. x <= lo /\ lo + Bit[g + 1] <= x + Bit[k]
  BY <1>3, <1>12, <1>14, <1>17, Nest
<1>19. x <= b /\ b < x + Bit[k]
  BY <1>3, <1>4, <1>10, <1>14, <1>15, <1>18
<1>20. PICK u \in F : Holds(kval, u, b)
  BY <1>16, <1>19
<1>21. u \in R
  BY <1>5, <1>16, <1>19, <1>20
<1> DEFINE h == kval[u]
<1>22. /\ u \in Nat /\ h \in 0 .. Width /\ h \in 0 .. K /\ Bit[h] \in Nat \ {0} /\ Aligned(u, h) /\ g <= h
       /\ u <= b /\ b < u + Bit[h]
  <2>1. u <= b /\ b < u + Bit[h]
    BY <1>20 DEF Holds
  <2>2. QED
    BY <1>2, <1>11, <1>21, <2>1
<1>23. CASE g < h
  <2>1. g + 1 <= h
    BY <1>10, <1>22, <1>23
  <2>2. lo < u + Bit[h] /\ u < lo + Bit[g + 1]
    BY <1>10, <1>14, <1>15, <1>22
  <2>3. u <= lo /\ lo + Bit[g + 1] <= u + Bit[h]
    BY <1>12, <1>14, <1>22, <2>1, <2>2, Nest
  <2>4. u <= t /\ t < u + Bit[h]
    BY <1>10, <1>14, <1>15, <1>22, <2>3
  <2>5. Holds(kval, u, t) /\ Holds(kval, t, t)
    <3>1. t <= t /\ t < t + Bit[g]
      BY <1>10
    <3>2. QED
      BY <1>9, <2>4, <3>1 DEF Holds
  <2>6. u = t
    BY <1>0, <1>1, <1>10, <2>5, TileOne
  <2>7. QED
    BY <1>9, <1>10, <1>23, <2>6
<1>24. CASE g = h
  <2>1. u < b + Bit[g] /\ b < u + Bit[h]
    BY <1>10, <1>16, <1>22
  <2>2. b + Bit[g] <= u + Bit[h]
    BY <1>10, <1>16, <1>22, <2>1, Nest
  <2>3. u = b
    BY <1>10, <1>16, <1>22, <1>24, <2>2
  <2>4. b \in F /\ kval[b] = g
    BY <1>20, <1>24, <2>3
  <2>5. QED
    BY <1>0, <1>9, <1>10, <1>12, <2>4 DEF b
<1>25. QED
  BY <1>10, <1>22, <1>23, <1>24

\* A number is its quotient times the divisor and the rest.
LEMMA DivMod == ASSUME NEW x \in Nat, NEW d \in Nat \ {0} PROVE x = d * (x \div d) + (x % d)
BY SMT

\* A run of free pages can be reserved.
LEMMA RunsFit == ASSUME AllocInv PROVE FailsOnlyWhenFragmented
<1>1. SUFFICES ASSUME ready, NEW k \in 0 .. maxKVal, NEW i \in DOMAIN tag, i % Bit[k] = 0,
                      Pages(i, k) \subseteq FreePages, Fitting(k) = {}
               PROVE  FALSE
  BY DEF FailsOnlyWhenFragmented
<1>2. PICK F, N, K : View(F, N, K)
  BY <1>1, Viewed
<1>3. /\ Size(N, K) /\ maxKVal = K /\ DOMAIN tag = 0 .. N - 1 /\ kval \in [0 .. N - 1 -> 0 .. K]
      /\ F \subseteq 0 .. N - 1
  BY <1>2 DEF View
<1>4. N \in Nat /\ K \in Nat /\ Bit[k] \in Nat \ {0}
  BY <1>3, SizeNat
<1>5. i \in Nat
  BY <1>3, <1>4
<1>6. Aligned(i, k)
  <2> DEFINE d == Bit[k]
             c == i \div d
  <2> HIDE DEF d
  <2>1. d \in Nat \ {0} /\ i % d = 0
    BY <1>1, <1>4 DEF d
  <2>2. i = d * c + (i % d) /\ c \in Nat
    <3>1. i = d * c + (i % d)
      BY <1>5, <2>1, DivMod
    <3>2. c \in Nat
      BY <1>5, <2>1, DivNat
    <3>3. QED
      BY <3>1, <3>2
  <2> HIDE DEF c
  <2>3. d * c = c * d /\ d * c \in Nat
    BY <2>1, <2>2, SMT
  <2>4. i = c * d
    BY <2>1, <2>2, <2>3
  <2>5. QED
    BY <2>2, <2>4 DEF Aligned, d
<1>7. ASSUME NEW p \in Nat, i <= p, p < i + Bit[k] PROVE \E t \in F : Holds(kval, t, p)
  <2>1. p \in Pages(i, k)
    BY <1>4, <1>5, <1>7 DEF Pages
  <2>2. FreeOn(p) # {}
    BY <1>1, <2>1 DEF FreePages
  <2>3. FreeOn(p) = {kval[t] : t \in {u \in F : Holds(kval, u, p)}}
    BY <1>2, FreeOnIs
  <2>4. QED
    BY <2>2, <2>3
<1>8. ASSUME NEW t \in F PROVE kval[t] < k
  <2>1. kval[t] \in 0 .. K
    BY <1>3
  <2>2. PICK n \in 1 .. Len(avail[kval[t]]) : avail[kval[t]][n] = t
    BY <1>2 DEF View
  <2>3. avail[kval[t]] # <<>>
    BY <2>2
  <2>4. SUFFICES ASSUME ~(kval[t] < k) PROVE FALSE
    OBVIOUS
  <2>5. kval[t] \in k .. maxKVal
    BY <1>3, <1>4, <2>1, <2>4
  <2>6. QED
    BY <1>1, <2>3, <2>5 DEF Fitting
<1>9. k \in 0 .. K
  BY <1>3
<1>10. QED
  BY <1>2, <1>6, <1>7, <1>8, <1>9, RunIsMerged

\* The bytes of a usable page are in an available region of the map.
LEMMA UsableBytes ==
    ASSUME map \in Seq(RegionT), NEW p \in Usable, NEW b \in Bytes(p)
    PROVE  b \in Nat /\ \E i \in 1 .. Len(map) : map[i].type = AVAILABLE /\ Covers(map[i], b)
<1>1. p \in UsableIn(map, Len(map))
  BY UsableIs
<1>2. p \in Nat
  BY <1>1 DEF UsableIn
<1>3. PICK i \in 1 .. Len(map) : map[i].type = AVAILABLE /\ p \in FirstPage(map[i]) .. LastPage(map[i])
  BY <1>1 DEF UsableIn
<1> DEFINE r == map[i]
           d == BlockSize
           l == r.location
           e == End(r)
           f == (l + d - 1) \div d
           q == e \div d
<1>4. r \in RegionT
  OBVIOUS
<1>5. l \in Nat /\ e \in Nat /\ d \in Nat \ {0}
  BY <1>4, RegionFields, PageAllocatorAssumption
<1>6. FirstPage(r) = f /\ LastPage(r) \in Int /\ LastPage(r) + 1 = q /\ f \in Nat
  BY <1>4, PagesOf
<1> HIDE DEF r, d, l, e
<1>7. f <= p /\ p + 1 <= q
  BY <1>2, <1>3, <1>6 DEF r
<1>8. l + d - 1 \in Nat
  BY <1>5
<1>9. l + d - 1 = d * f + ((l + d - 1) % d) /\ (l + d - 1) % d \in 0 .. d - 1
  <2> DEFINE y == l + d - 1
  <2> HIDE DEF y
  <2>1. y \in Nat
    BY <1>8 DEF y
  <2>2. y = d * (y \div d) + (y % d) /\ y % d \in 0 .. d - 1
    BY <1>5, <2>1, SMT
  <2>3. QED
    BY <2>2 DEF y
<1>10. e = d * q + (e % d) /\ e % d \in 0 .. d - 1 /\ q \in Nat
  <2>1. e = d * q + (e % d) /\ e % d \in 0 .. d - 1
    BY <1>5, SMT
  <2>2. q \in Nat
    BY <1>5, DivNat
  <2>3. QED
    BY <2>1, <2>2
<1> HIDE DEF f, q
<1>11. l <= d * f /\ d * f \in Nat
  <2>1. d * f \in Nat
    BY <1>5, <1>6, SMT
  <2>2. QED
    BY <1>5, <1>9, <2>1
<1>12. d * f <= p * d /\ p * d \in Nat
  BY <1>2, <1>5, <1>6, <1>7, SMT
<1>13. (p + 1) * d <= d * q /\ (p + 1) * d \in Nat /\ d * q \in Nat
  BY <1>2, <1>5, <1>7, <1>10, SMT
<1>14. d * q <= e
  BY <1>5, <1>10, <1>13
<1>15. b \in Int /\ p * d <= b /\ b <= (p + 1) * d - 1
  BY <1>12, <1>13 DEF Bytes, d
<1>16. b \in Nat /\ l <= b /\ b < e
  BY <1>5, <1>11, <1>12, <1>13, <1>14, <1>15
<1>17. QED
  BY <1>3, <1>16 DEF Covers, r, l, e

\* A page that is free or held is usable.
LEMMA KnownPages ==
    ASSUME AllocInv, ready, NEW p \in FreePages \union UNION {Pages(r.index, r.k) : r \in reserved}
    PROVE  p \in Usable
<1>1. PICK F, N, K : View(F, N, K)
  BY Viewed
<1> DEFINE T == F \union Held1st(reserved)
<1>2. /\ Size(N, K) /\ DOMAIN tag = 0 .. N - 1 /\ Tiling(T, kval, N, K, Usable)
      /\ reserved \subseteq [index : 0 .. N - 1, k : 0 .. K] /\ \A r \in reserved : kval[r.index] = r.k
  BY <1>1 DEF View
<1>3. N \in Nat
  BY <1>2, SizeNat
<1>4. CASE p \in FreePages
  <2>1. p \in Nat /\ FreeOn(p) # {}
    BY <1>2, <1>3, <1>4 DEF FreePages
  <2>2. FreeOn(p) = {kval[t] : t \in {u \in F : Holds(kval, u, p)}}
    BY <1>1, <2>1, FreeOnIs
  <2>3. PICK t \in F : Holds(kval, t, p)
    BY <2>1, <2>2
  <2>4. QED
    BY <1>2, <2>1, <2>3 DEF Tiling
<1>5. CASE p \in UNION {Pages(r.index, r.k) : r \in reserved}
  <2>1. PICK r \in reserved : p \in Pages(r.index, r.k)
    BY <1>5
  <2>2. r.index \in Nat /\ r.k \in 0 .. K /\ kval[r.index] = r.k
    BY <1>2, <1>3
  <2>3. Bit[r.k] \in Nat
    BY <1>2, <2>2, SizeNat
  <2>4. p \in Nat /\ Holds(kval, r.index, p)
    BY <2>1, <2>2, <2>3 DEF Pages, Holds
  <2>5. r.index \in T
    BY DEF Held1st
  <2>6. QED
    BY <1>2, <2>4, <2>5 DEF Tiling
<1>6. QED
  BY <1>4, <1>5

\* Rounding up gives a number, and a larger one for a larger number.
LEMMA RoundUpGrows ==
    ASSUME NEW x \in Nat, NEW y \in Nat, x <= y
    PROVE  RoundUp(x) \in Nat /\ RoundUp(y) \in Nat /\ RoundUp(x) <= RoundUp(y)
<1> DEFINE u == x + BlockSize - 1
           v == y + BlockSize - 1
           d == BlockSize
<1>1. d \in Nat \ {0}
  BY PageAllocatorAssumption
<1>2. u \in Nat /\ v \in Nat /\ u <= v
  BY <1>1
<1>3. RoundUp(x) = (u \div d) * d /\ RoundUp(y) = (v \div d) * d
  BY DEF RoundUp
<1> HIDE DEF u, v, d
<1>4. u \div d \in Nat /\ v \div d \in Nat
  BY <1>1, <1>2, DivNat
<1>5. u \div d <= v \div d
  BY <1>1, <1>2, DivMonotone
<1> DEFINE m == u \div d
           n == v \div d
<1>6. m \in Nat /\ n \in Nat /\ m <= n
  BY <1>4, <1>5
<1> HIDE DEF m, n
<1>7. m * d \in Nat /\ n * d \in Nat /\ m * d <= n * d
  <2>1. m * d \in Nat
    BY <1>1, <1>6, SMT
  <2>2. n * d \in Nat
    BY <1>1, <1>6, SMT
  <2>3. m * d <= n * d
    BY <1>1, <1>6, SMT
  <2>4. QED
    BY <2>1, <2>2, <2>3
<1>8. QED
  BY <1>3, <1>7 DEF m, n

\* The heap lies inside the kernel's memory: its size does not wrap.
LEMMA HeapInside ==
    ASSUME BootInv, step > 1
    PROVE  PageMapEnd \in Nat /\ HeapSize = kernelSize - PageMapEnd
<1>1. PICK ram \in RamSizes : \E a \in 0 .. ram - 1 : Memory(placed, ram, a)
  BY DEF BootInv
<1>2. PICK a \in 0 .. ram - 1 : Memory(placed, ram, a)
  BY <1>1
<1>3. MapSize(map) \in Nat /\ MapSize(map) <= MapBytes(ram)
  BY <1>2, MemoryFits DEF BootInv, MapOk
<1>4. /\ ram \in Nat \ {0} /\ EntrySize * ram <= Bit[Width]
      /\ RoundUp(imageEnd + MapBytes(ram)) < kernelSize
  BY Spares DEF BootInv
<1>5. kernelSize \in Nat /\ imageEnd \in Nat /\ MapBytes(ram) \in Nat
  BY <1>4, BootNumbers, MapBytesAre
<1>6. imageEnd + MapSize(map) \in Nat /\ imageEnd + MapBytes(ram) \in Nat
      /\ imageEnd + MapSize(map) <= imageEnd + MapBytes(ram)
  BY <1>3, <1>5
<1>7. PageMapEnd \in Nat /\ RoundUp(imageEnd + MapBytes(ram)) \in Nat
      /\ PageMapEnd <= RoundUp(imageEnd + MapBytes(ram))
  BY <1>6, RoundUpGrows DEF PageMapEnd
<1>8. kernelSize < Bit[Width] /\ Bit[Width] \in Nat
  <2>1. kernelSize <= a /\ a < ram /\ a \in Nat
    BY <1>2, <1>4 DEF Memory, Spare, BootInv
  <2>2. EntrySize \in Nat \ {0} /\ Bit[Width] \in Nat
    BY PageAllocatorAssumption, BitPositive
  <2>3. ram <= EntrySize * ram
    BY <1>4, <2>2, SMT
  <2>4. EntrySize * ram \in Nat
    BY <1>4, <2>2, SMT
  <2>5. QED
    BY <1>4, <1>5, <2>1, <2>2, <2>3, <2>4
<1> DEFINE e == PageMapEnd
           n == kernelSize - e
<1>9. n \in Nat /\ n < Bit[Width]
  BY <1>4, <1>5, <1>7, <1>8
<1> HIDE DEF e, n
<1>10. n % Bit[Width] = n
  BY <1>8, <1>9, SMT
<1>11. QED
  BY <1>7, <1>10 DEF HeapSize, e, n

\* No page of the allocator overlaps what the kernel uses.
LEMMA KernelApart == ASSUME BootInv, AllocInv PROVE KernelMemoryKept
<1> DEFINE kept == {r \in placed : r.type # AVAILABLE}
                   \union {Region(UNAVAILABLE, imageEnd, MapSize(map)),
                           Region(UNAVAILABLE, heap[1], heap[2])}
<1>1. SUFFICES ASSUME ready, NEW p \in FreePages \union UNION {Pages(r.index, r.k) : r \in reserved},
                      NEW b \in Bytes(p), NEW z \in kept, b \in z.location .. End(z) - 1
               PROVE  FALSE
  BY DEF KernelMemoryKept, Addresses
<1>2. p \in Usable
  BY <1>1, KnownPages
<1>3. /\ map \in Seq(RegionT) /\ placed \subseteq RegionT /\ Ordered(map) /\ Wins(map, placed) /\ step = 7
  BY <1>1 DEF BootInv, MapOk, AllocInv
<1>4. b \in Nat /\ \E i \in 1 .. Len(map) : map[i].type = AVAILABLE /\ Covers(map[i], b)
  BY <1>1, <1>2, <1>3, UsableBytes
<1>5. PICK i \in 1 .. Len(map) : map[i].type = AVAILABLE /\ Covers(map[i], b)
  BY <1>4
\* Nothing else that was placed covers the byte.
<1>6. ASSUME NEW x \in placed, x.type # AVAILABLE, Covers(x, b) PROVE FALSE
  <2>1. PICK y \in Regions(map) : Covers(y, b) /\ x.type <= y.type
    BY <1>3, <1>4, <1>6 DEF Wins
  <2>2. PICK j \in 1 .. Len(map) : y = map[j]
    BY DEF Regions
  <2>3. i = j
    BY <1>3, <1>4, <1>5, <2>1, <2>2, OneCovers
  <2>4. x.type <= 1
    BY <1>5, <2>1, <2>2, <2>3, Types
  <2>5. x.type \in MemoryType
    BY <1>3, RegionFields
  <2>6. QED
    BY <1>6, <2>4, <2>5 DEF MemoryType, AVAILABLE, UNAVAILABLE, MMIO, DEFECTIVE
<1>7. kernelSize \in Nat \ {0} /\ imageEnd \in Nat \ {0}
  BY BootNumbers
<1>8. Region(UNAVAILABLE, 0, kernelSize) \in placed
  BY <1>3 DEF BootInv
<1>9. PICK s \in Nat \ {0} : MapSize(map) <= s /\ Region(UNAVAILABLE, imageEnd, s) \in placed
  BY <1>3 DEF BootInv
<1>10. MapSize(map) \in Nat
  <2>1. PICK ram \in RamSizes : \E a \in 0 .. ram - 1 : Memory(placed, ram, a)
    BY <1>3 DEF BootInv
  <2>2. PICK a \in 0 .. ram - 1 : Memory(placed, ram, a)
    BY <2>1
  <2>3. QED
    BY <1>3, <2>2, MemoryFits
<1>11. ASSUME NEW l \in Nat, NEW n \in Nat \ {0}, Region(UNAVAILABLE, l, n) \in placed, l <= b, b < l + n PROVE FALSE
  <2>1. Region(UNAVAILABLE, l, n).location = l /\ End(Region(UNAVAILABLE, l, n)) = l + n
        /\ Region(UNAVAILABLE, l, n).type # AVAILABLE
    BY Types DEF Region, End
  <2>2. Covers(Region(UNAVAILABLE, l, n), b)
    BY <1>11, <2>1 DEF Covers
  <2>3. QED
    BY <1>6, <1>11, <2>1, <2>2
<1>12. CASE z \in placed /\ z.type # AVAILABLE
  <2>1. z.location \in Nat /\ End(z) \in Nat
    BY <1>3, <1>12, RegionFields
  <2>2. Covers(z, b)
    BY <1>1, <1>4, <2>1 DEF Covers
  <2>3. QED
    BY <1>6, <1>12, <2>2
<1>13. CASE z = Region(UNAVAILABLE, imageEnd, MapSize(map))
  <2>1. z.location = imageEnd /\ End(z) = imageEnd + MapSize(map)
    BY <1>13 DEF Region, End
  <2>2. imageEnd <= b /\ b < imageEnd + s
    BY <1>1, <1>4, <1>7, <1>9, <1>10, <2>1
  <2>3. QED
    BY <1>7, <1>9, <1>11, <2>2
<1>14. CASE z = Region(UNAVAILABLE, heap[1], heap[2])
  <2> DEFINE h == PageMapEnd
  <2>1. heap[1] = h /\ heap[2] = HeapSize /\ step > 1
    BY <1>3 DEF BootInv
  <2>2. h \in Nat /\ HeapSize = kernelSize - h
    BY <2>1, HeapInside
  <2> HIDE DEF h
  <2>3. z.location = h /\ End(z) = h + (kernelSize - h)
    BY <1>14, <2>1, <2>2 DEF Region, End
  <2>4. 0 <= b /\ b < 0 + kernelSize
    BY <1>1, <1>4, <1>7, <2>2, <2>3
  <2>5. 0 \in Nat
    OBVIOUS
  <2>6. QED
    BY <1>7, <1>8, <1>11, <2>4, <2>5
<1>15. QED
  BY <1>12, <1>13, <1>14

\* What insert, reserve and free do to the list heads, the links and the counts never
\* loses a page or counts one twice: the pages of the listed blocks, of the reserved
\* blocks and those outside the usable memory share out the pages of the map.
THEOREM PagesAreShared == Spec => []PagesPartitioned
<1>1. AllocInv => PagesPartitioned
  BY PagesAdd
<1>2. QED
  BY <1>1, AllocatorKept, PTL

\* A block whose tag says FREE is on the list of its order, and what is on a list is
\* tagged FREE with that order: insert may trust the tag of a buddy when it unlinks it.
THEOREM TagsAndLists == Spec => []TagsMatchLists
<1>1. AllocInv => TagsMatchLists
  BY TagsAgree
<1>2. QED
  BY <1>1, AllocatorKept, PTL

\* reserve answers NOMEM only when no aligned run of free pages of the size exists,
\* because insert leaves no pair of free buddies apart.
THEOREM NoNeedlessFailure == Spec => []FailsOnlyWhenFragmented
<1>1. AllocInv => FailsOnlyWhenFragmented
  BY RunsFit
<1>2. QED
  BY <1>1, AllocatorKept, PTL

\* No page that reserve may hand out holds a byte of a device, of the RAM disk, of the
\* kernel's image, of its heap or of the block map, at any place boot may put them.
THEOREM KernelSafe == Spec => []KernelMemoryKept
<1>1. BootInv /\ AllocInv => KernelMemoryKept
  BY KernelApart
<1>2. QED
  BY <1>1, BootPlacesItAll, AllocatorKept, PTL
=============================================================================
