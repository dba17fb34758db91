-------------------------- MODULE MemoryMapProofs ---------------------------
(***************************************************************************)
(* Theorems about place() of MemoryMap: a region placed in an ordered map  *)
(* of which at most one region has a higher type leaves an ordered map, in *)
(* which the highest type placed at an address still wins.                 *)
(***************************************************************************)
EXTENDS MemoryMap, CommonProofs, TLAPS

RegionT == [type : MemoryType, location : Nat, size : Nat \ {0}]

-----------------------------------------------------------------------------
(* Arrays *)

\* A function on 1 .. n is a sequence of length n.
LEMMA FunctionIsSeq ==
    ASSUME NEW S, NEW n \in Nat, NEW f \in [1 .. n -> S]
    PROVE  f \in Seq(S) /\ Len(f) = n
OBVIOUS

\* remove() takes one entry out.
LEMMA RemoveEntryIs ==
    ASSUME NEW S, NEW m \in Seq(S), NEW i \in 1 .. Len(m)
    PROVE  /\ RemoveEntry(m, i) \in Seq(S)
           /\ Len(RemoveEntry(m, i)) = Len(m) - 1
           /\ \A j \in 1 .. Len(m) - 1 : RemoveEntry(m, i)[j] = IF j < i THEN m[j] ELSE m[j + 1]
<1>1. Len(m) - 1 \in Nat /\ \A j \in 1 .. Len(m) - 1 : m[j] \in S /\ m[j + 1] \in S
  OBVIOUS
<1>2. RemoveEntry(m, i) \in [1 .. Len(m) - 1 -> S]
  BY <1>1 DEF RemoveEntry
<1>3. QED
  BY <1>1, <1>2, FunctionIsSeq DEF RemoveEntry

\* The fields of a region.
LEMMA RegionFields ==
    ASSUME NEW r \in RegionT
    PROVE  /\ r.type \in Nat /\ r.location \in Nat /\ r.size \in Nat /\ r.size > 0
           /\ End(r) \in Nat /\ r.location < End(r)
           /\ r.type \in MemoryType
BY DEF RegionT, End, MemoryType, AVAILABLE, UNAVAILABLE, MMIO, DEFECTIVE

LEMMA NewRegion ==
    ASSUME NEW t \in MemoryType, NEW l \in Nat, NEW s \in Nat \ {0}
    PROVE  /\ Region(t, l, s) \in RegionT /\ Region(t, l, s).type = t
           /\ Region(t, l, s).location = l /\ Region(t, l, s).size = s
           /\ End(Region(t, l, s)) = l + s
BY DEF RegionT, Region, End

-----------------------------------------------------------------------------
(* insert() *)

\* The regions are in order and no two overlap.
Ordered(m) == \A i, j \in 1 .. Len(m) : i < j => End(m[i]) <= m[j].location

\* m1 is m with x at place p, behind the regions that are not greater.
Inserted(m, x, p, m1) ==
    /\ m1 \in Seq(RegionT) /\ Len(m1) = Len(m) + 1
    /\ \A j \in 1 .. Len(m) + 1 : m1[j] = IF j < p THEN m[j] ELSE IF j = p THEN x ELSE m[j - 1]
    /\ \A j \in 1 .. Len(m) : j < p => m[j].location <= x.location /\ ~Before(x, m[j])
    /\ \A j \in 1 .. Len(m) : p <= j => x.location <= m[j].location
    /\ p <= Len(m) => Before(x, m[p])

LEMMA InsertInserts ==
    ASSUME NEW m \in Seq(RegionT), Ordered(m), NEW x \in RegionT
    PROVE  \E p \in 1 .. Len(m) + 1 : Inserted(m, x, p, Insert(m, x))
<1> DEFINE N == Len(m)
           B == {j \in 1 .. N + 1 : j = N + 1 \/ Before(x, m[j])}
<1>0. N \in Nat
  OBVIOUS
<1>1. PICK p \in B : \A j \in B : p <= j
  <2>1. B \subseteq Nat /\ N + 1 \in B
    BY <1>0
  <2> HIDE DEF B
  <2>2. QED
    BY <2>1, NatMin
<1>2. p \in 1 .. N + 1 /\ (p <= N => Before(x, m[p])) /\ \A j \in 1 .. N : j < p => ~Before(x, m[j])
  BY <1>0, <1>1
<1> HIDE DEF B
<1>3. \A j \in 1 .. N : /\ m[j] \in RegionT /\ m[j].location \in Nat /\ m[j].size \in Nat
                         /\ End(m[j]) \in Nat /\ m[j].location < End(m[j])
  BY RegionFields
<1>4. x.location \in Nat /\ x.size \in Nat
  BY RegionFields
<1>5. \A i, j \in 1 .. N : i < j => m[i].location < m[j].location /\ Before(m[i], m[j])
  <2>1. SUFFICES ASSUME NEW i \in 1 .. N, NEW j \in 1 .. N, i < j
                 PROVE  m[i].location < m[j].location /\ Before(m[i], m[j])
    OBVIOUS
  <2>2. End(m[i]) <= m[j].location
    BY <2>1 DEF Ordered
  <2>3. m[i].location < m[j].location
    BY <2>2, <1>3
  <2>4. QED
    BY <2>3, <1>3 DEF Before
<1>6. \A j \in 1 .. N : j < p => m[j].location <= x.location
  BY <1>2, <1>3, <1>4 DEF Before
<1>7. \A j \in 1 .. N : p <= j => x.location <= m[j].location
  <2>1. SUFFICES ASSUME NEW j \in 1 .. N, p <= j PROVE x.location <= m[j].location
    OBVIOUS
  <2>2. p \in 1 .. N /\ Before(x, m[p])
    BY <2>1, <1>2, <1>0
  <2>3. x.location <= m[p].location
    BY <2>2, <1>3, <1>4 DEF Before
  <2>4. CASE p < j
    <3>1. m[p].location < m[j].location
      BY <2>2, <2>4, <1>5
    <3>2. QED
      BY <3>1, <2>2, <2>3, <1>3, <1>4
  <2>5. QED
    BY <2>1, <2>2, <2>3, <2>4
<1> DEFINE P(g) == g = [n \in 0 .. N |-> IF n = 0 THEN x ELSE Carried(g[n - 1], m[n])]
           V(n) == IF n < p THEN x ELSE m[n]
           C == CHOOSE g : P(g)
<1>8. \A n \in 1 .. N : V(n) = Carried(V(n - 1), m[n])
  <2>1. SUFFICES ASSUME NEW n \in 1 .. N PROVE V(n) = Carried(V(n - 1), m[n])
    OBVIOUS
  <2>2. CASE n < p
    <3>1. V(n) = x /\ V(n - 1) = x /\ ~Before(x, m[n])
      BY <2>2, <1>0, <1>2
    <3>2. QED
      BY <3>1 DEF Carried
  <2>3. CASE n = p
    <3>1. V(n) = m[n] /\ V(n - 1) = x /\ Before(x, m[n])
      BY <2>3, <1>0, <1>2
    <3>2. QED
      BY <3>1 DEF Carried
  <2>4. CASE n > p
    <3>1. n - 1 \in 1 .. N /\ n - 1 < n /\ ~(n < p) /\ ~(n - 1 < p)
      BY <2>4, <1>0, <1>2
    <3>2. V(n) = m[n] /\ V(n - 1) = m[n - 1] /\ Before(m[n - 1], m[n])
      BY <3>1, <1>5
    <3>3. QED
      BY <3>2 DEF Carried
  <2>5. QED
    BY <2>2, <2>3, <2>4, <1>0, <1>2
<1>9. V(0) = x
  BY <1>0, <1>2
<1>10. P(C)
  <2> DEFINE g == [n \in 0 .. N |-> V(n)]
             h == [n \in 0 .. N |-> IF n = 0 THEN x ELSE Carried(g[n - 1], m[n])]
  <2>1. \A n \in 0 .. N : g[n] = h[n]
    <3>1. SUFFICES ASSUME NEW n \in 0 .. N PROVE g[n] = h[n]
      OBVIOUS
    <3>2. CASE n = 0
      BY <3>2, <1>9
    <3>3. CASE n # 0
      <4>1. n \in 1 .. N /\ n - 1 \in 0 .. N
        BY <3>3, <1>0
      <4> HIDE DEF V
      <4>2. g[n] = V(n) /\ g[n - 1] = V(n - 1) /\ h[n] = Carried(g[n - 1], m[n])
        BY <4>1, <3>3
      <4>3. QED
        BY <4>1, <4>2, <1>8
    <3>4. QED
      BY <3>2, <3>3
  <2> HIDE DEF V
  <2>2. g = h
    BY <2>1
  <2>3. P(g)
    BY <2>2
  <2> HIDE DEF P, g
  <2>4. QED
    BY <2>3
<1>11. Insert(m, x) = [j \in 1 .. N + 1 |-> IF j <= N THEN Kept(C[j - 1], m[j]) ELSE C[j - 1]]
  BY DEF Insert
<1> HIDE DEF C
<1>12. \A n \in 0 .. N : C[n] = V(n)
  <2> DEFINE S == {n \in 0 .. N : C[n] = V(n)}
  <2>1. 0 \in S
    BY <1>10, <1>9, <1>0
  <2>2. ASSUME NEW n \in 1 .. N, n - 1 \in S
        PROVE  n \in S
    <3>1. n \in 0 .. N /\ n # 0
      BY <1>0
    <3>2. C[n] = Carried(C[n - 1], m[n])
      BY <1>10, <3>1
    <3> HIDE DEF V
    <3>3. C[n - 1] = V(n - 1)
      BY <2>2
    <3>4. QED
      BY <3>1, <3>2, <3>3, <1>8
  <2>3. QED
    <3> HIDE DEF S
    <3>1. \A n \in 0 .. N : n \in S
      BY <2>1, <2>2, <1>0, UpTo
    <3>2. QED
      BY <3>1 DEF S
<1>13. \A j \in 1 .. N + 1 : Insert(m, x)[j] = IF j < p THEN m[j] ELSE IF j = p THEN x ELSE m[j - 1]
  <2>1. SUFFICES ASSUME NEW j \in 1 .. N + 1
                 PROVE  Insert(m, x)[j] = IF j < p THEN m[j] ELSE IF j = p THEN x ELSE m[j - 1]
    OBVIOUS
  <2>2. j - 1 \in 0 .. N
    BY <1>0
  <2>3. CASE j = N + 1
    <3>1. Insert(m, x)[j] = V(j - 1)
      BY <1>11, <1>12, <1>0, <2>2, <2>3
    <3>2. QED
      BY <3>1, <2>3, <1>0, <1>2
  <2>4. CASE j <= N
    <3>1. j \in 1 .. N
      BY <2>4, <1>0
    <3>2. Insert(m, x)[j] = Kept(V(j - 1), m[j])
      <4> HIDE DEF V
      <4>1. QED
        BY <1>11, <1>12, <1>0, <2>2, <3>1
    <3>3. CASE j < p
      BY <3>1, <3>2, <3>3, <1>0, <1>2 DEF Kept
    <3>4. CASE j = p
      BY <3>1, <3>2, <3>4, <1>0, <1>2 DEF Kept
    <3>5. CASE j > p
      <4>1. j - 1 \in 1 .. N /\ j - 1 < j /\ ~(j - 1 < p)
        BY <3>1, <3>5, <1>0, <1>2
      <4>2. V(j - 1) = m[j - 1] /\ Before(m[j - 1], m[j])
        BY <4>1, <3>1, <1>5
      <4>3. QED
        BY <3>2, <3>5, <4>2, <1>0, <1>2 DEF Kept
    <3>6. QED
      BY <3>1, <3>3, <3>4, <3>5, <1>0, <1>2
  <2>5. QED
    BY <2>3, <2>4, <1>0
<1>14. Insert(m, x) \in Seq(RegionT) /\ Len(Insert(m, x)) = N + 1
  <2>1. \A j \in 1 .. N + 1 : Insert(m, x)[j] \in RegionT
    <3>1. SUFFICES ASSUME NEW j \in 1 .. N + 1 PROVE Insert(m, x)[j] \in RegionT
      OBVIOUS
    <3>2. j < p => j \in 1 .. N
      BY <1>0, <1>2
    <3>3. j > p => j - 1 \in 1 .. N
      BY <1>0, <1>2
    <3>4. QED
      BY <3>2, <3>3, <1>13, <1>3, <1>0, <1>2
  <2>2. Insert(m, x) \in [1 .. N + 1 -> RegionT]
    BY <2>1, <1>11
  <2>3. QED
    BY <2>2, <1>0, FunctionIsSeq
<1>15. Inserted(m, x, p, Insert(m, x))
  BY <1>2, <1>6, <1>7, <1>13, <1>14 DEF Inserted
<1>16. QED
  BY <1>2, <1>15

-----------------------------------------------------------------------------
(* trim() *)

Replaced(m, k, r, m1) ==
    /\ m1 \in Seq(RegionT) /\ Len(m1) = Len(m)
    /\ \A j \in 1 .. Len(m) : m1[j] = IF j = k THEN r ELSE m[j]

Dropped(m, k, m1) ==
    /\ m1 \in Seq(RegionT) /\ Len(m1) = Len(m) - 1
    /\ \A j \in 1 .. Len(m) - 1 : m1[j] = IF j < k THEN m[j] ELSE m[j + 1]

\* Entries i and i + 1 have become one that ends at e.
JoinedTo(m, i, e, m1) ==
    /\ m1 \in Seq(RegionT) /\ Len(m1) = Len(m) - 1
    /\ \A j \in 1 .. Len(m) - 1 :
         m1[j] = IF j < i THEN m[j]
                 ELSE IF j = i THEN Region(m[i].type, m[i].location, e - m[i].location)
                 ELSE m[j + 1]

Larger(a, b) == IF b > a THEN b ELSE a

\* Entries i and i + 1 are in the order of their locations.
Neighbours(m, i) == /\ m \in Seq(RegionT) /\ i \in 1 .. Len(m) - 1
                    /\ m[i].location <= m[i + 1].location

\* The types of what trim() looks at.
LEMMA NeighbourTypes ==
    ASSUME NEW m, NEW i, Neighbours(m, i)
    PROVE  /\ Len(m) \in Nat /\ i \in 1 .. Len(m) /\ i + 1 \in 1 .. Len(m) /\ i \in Nat
           /\ m[i] \in RegionT /\ m[i + 1] \in RegionT
           /\ m[i].type \in Nat /\ m[i].location \in Nat /\ m[i].size \in Nat /\ m[i].size > 0
           /\ m[i + 1].type \in Nat /\ m[i + 1].location \in Nat /\ m[i + 1].size \in Nat
           /\ m[i + 1].size > 0
           /\ End(m[i]) \in Nat /\ m[i].location < End(m[i])
           /\ End(m[i + 1]) \in Nat /\ m[i + 1].location < End(m[i + 1])
           /\ m[i].type \in MemoryType /\ m[i + 1].type \in MemoryType
<1>1. Len(m) \in Nat /\ i \in 1 .. Len(m) /\ i + 1 \in 1 .. Len(m) /\ i \in Nat
  BY DEF Neighbours
<1>2. m[i] \in RegionT /\ m[i + 1] \in RegionT
  BY <1>1 DEF Neighbours
<1>3. QED
  BY <1>1, <1>2, RegionFields

\* When neighbours overlap, and when one encloses the other.
LEMMA NeighboursMeet ==
    ASSUME NEW m, NEW i, Neighbours(m, i)
    PROVE  /\ Overlaps(m[i], m[i + 1]) <=> m[i + 1].location < End(m[i])
           /\ Encloses(m[i + 1], m[i]) <=>
                 m[i].location = m[i + 1].location /\ End(m[i]) <= End(m[i + 1])
           /\ Encloses(m[i], m[i + 1]) <=> End(m[i + 1]) <= End(m[i])
<1>1. /\ m[i].location \in Nat /\ m[i + 1].location \in Nat
      /\ m[i].location <= m[i + 1].location
  BY NeighbourTypes DEF Neighbours
<1>2. QED
  BY <1>1 DEF Overlaps, Encloses

\* The arrays that trim() makes.
TrimJoined(m, i) ==
    RemoveEntry([m EXCEPT ![i].size = Larger(End(m[i]), End(m[i + 1])) - m[i].location], i + 1)
TrimCut(m, i) == [m EXCEPT ![i] = Cut(m[i], m[i + 1])]

LEMMA TrimJoinedIs ==
    ASSUME NEW m, NEW i, Neighbours(m, i)
    PROVE  JoinedTo(m, i, Larger(End(m[i]), End(m[i + 1])), TrimJoined(m, i))
<1> DEFINE e == Larger(End(m[i]), End(m[i + 1]))
           s == e - m[i].location
           m0 == [m EXCEPT ![i].size = s]
<1>1. e \in Nat /\ e > m[i].location
  BY NeighbourTypes DEF Larger
<1>2. s \in Nat \ {0}
  BY <1>1, NeighbourTypes
<1> HIDE DEF s
<1>3. m0 \in Seq(RegionT) /\ Len(m0) = Len(m)
      /\ \A j \in 1 .. Len(m) : m0[j] = IF j = i THEN Region(m[i].type, m[i].location, s) ELSE m[j]
  <2>1. [m[i] EXCEPT !.size = s] = Region(m[i].type, m[i].location, s)
    BY NeighbourTypes DEF RegionT, Region
  <2>2. Region(m[i].type, m[i].location, s) \in RegionT
    <3>1. m[i].type \in MemoryType /\ m[i].location \in Nat
      BY NeighbourTypes
    <3>2. QED
      BY <1>2, <3>1, NewRegion
  <2>3. m \in Seq(RegionT) /\ i \in 1 .. Len(m)
    BY NeighbourTypes DEF Neighbours
  <2>4. m0 = [m EXCEPT ![i] = Region(m[i].type, m[i].location, s)]
    BY <2>1
  <2>5. QED
    BY <2>2, <2>3, <2>4
<1> HIDE DEF m0
<1>4. i + 1 \in 1 .. Len(m0) /\ i \in Nat /\ Len(m) \in Nat
  BY <1>3, NeighbourTypes
<1>5. /\ RemoveEntry(m0, i + 1) \in Seq(RegionT) /\ Len(RemoveEntry(m0, i + 1)) = Len(m0) - 1
      /\ \A j \in 1 .. Len(m0) - 1 :
            RemoveEntry(m0, i + 1)[j] = IF j < i + 1 THEN m0[j] ELSE m0[j + 1]
  BY <1>3, <1>4, RemoveEntryIs
<1>6. TrimJoined(m, i) = RemoveEntry(m0, i + 1)
  BY DEF TrimJoined, m0, s
<1>7. \A j \in 1 .. Len(m) - 1 :
         RemoveEntry(m0, i + 1)[j] = IF j < i THEN m[j]
                                     ELSE IF j = i THEN Region(m[i].type, m[i].location, s)
                                     ELSE m[j + 1]
  BY <1>3, <1>4, <1>5
<1>8. QED
  BY <1>3, <1>5, <1>6, <1>7 DEF JoinedTo, s

LEMMA TrimCutIs ==
    ASSUME NEW m, NEW i, Neighbours(m, i)
    PROVE  /\ m[i].location < m[i + 1].location =>
                /\ Replaced(m, i, Region(m[i].type, m[i].location, m[i + 1].location - m[i].location),
                            TrimCut(m, i))
                /\ TrimCut(m, i)[i].size # 0
           /\ m[i].location = m[i + 1].location =>
                /\ Dropped(m, i, RemoveEntry(TrimCut(m, i), i))
                /\ TrimCut(m, i)[i].size = 0
<1> DEFINE c == Cut(m[i], m[i + 1])
           d == m[i + 1].location - m[i].location
<1>1. m \in Seq(RegionT) /\ i \in 1 .. Len(m) /\ Len(m) \in Nat
  BY NeighbourTypes DEF Neighbours
<1>2. TrimCut(m, i) = [m EXCEPT ![i] = c]
  BY DEF TrimCut
<1>3. ASSUME m[i].location < m[i + 1].location
      PROVE  /\ Replaced(m, i, Region(m[i].type, m[i].location, d), TrimCut(m, i))
             /\ TrimCut(m, i)[i].size # 0
  <2>1. d \in Nat \ {0}
    BY <1>3, NeighbourTypes
  <2>2. c = Region(m[i].type, m[i].location, d)
    BY <1>3, NeighbourTypes DEF Cut, Region, RegionT
  <2> HIDE DEF c, d
  <2>3. Region(m[i].type, m[i].location, d) \in RegionT /\ Region(m[i].type, m[i].location, d).size = d
    <3>1. m[i].type \in MemoryType /\ m[i].location \in Nat
      BY NeighbourTypes
    <3>2. Region(m[i].type, m[i].location, d) \in RegionT
      BY <2>1, <3>1, NewRegion
    <3>3. QED
      BY <3>2 DEF Region
  <2>4. QED
    BY <1>1, <1>2, <2>1, <2>2, <2>3 DEF Replaced
<1>4. ASSUME m[i].location = m[i + 1].location
      PROVE  /\ Dropped(m, i, RemoveEntry(TrimCut(m, i), i))
             /\ TrimCut(m, i)[i].size = 0
  <2>1. c.size = 0
    BY <1>4, NeighbourTypes DEF Cut, RegionT
  <2>2. Len(TrimCut(m, i)) = Len(m) /\ TrimCut(m, i)[i] = c
        /\ \A j \in 1 .. Len(m) : j # i => TrimCut(m, i)[j] = m[j]
    <3> HIDE DEF c
    <3>1. QED
      BY <1>1, <1>2
  <2>3. \A j \in 1 .. Len(m) - 1 : /\ j < i => TrimCut(m, i)[j] = m[j]
                                   /\ ~(j < i) => TrimCut(m, i)[j + 1] = m[j + 1]
    BY <1>1, <2>2
  <2>4. RemoveEntry(TrimCut(m, i), i) = RemoveEntry(m, i)
    BY <2>2, <2>3 DEF RemoveEntry
  <2>5. QED
    BY <1>1, <2>1, <2>2, <2>4, RemoveEntryIs DEF Dropped
<1>5. QED
  BY <1>3, <1>4

\* What is left of entry i behind entry i + 1.
Rest(m, i) == Region(m[i].type, End(m[i + 1]), End(m[i]) - End(m[i + 1]))

\* What is left of entry i + 1 behind entry i.
Remains(m, i) == Region(m[i + 1].type, End(m[i]), End(m[i + 1]) - End(m[i]))

\* The cases of trim() for neighbours, in terms of where they begin and end.
Touch(m, i)  == m[i + 1].location <= End(m[i])
Meet(m, i)   == m[i + 1].location < End(m[i])
Lower(m, i)  == m[i].type < m[i + 1].type
Higher(m, i) == m[i + 1].type < m[i].type

LEMMA TrimValue ==
    ASSUME NEW m, NEW i, Neighbours(m, i)
    PROVE  /\ Touch(m, i) /\ m[i].type = m[i + 1].type =>
                Trim(m, i) = [map |-> TrimJoined(m, i), next |-> i]
           /\ Meet(m, i) /\ Lower(m, i) /\ m[i].location = m[i + 1].location
                /\ End(m[i]) <= End(m[i + 1]) =>
                Trim(m, i) = [map |-> RemoveEntry(m, i), next |-> i]
           /\ Meet(m, i) /\ Lower(m, i) /\ m[i].location < m[i + 1].location
                /\ End(m[i]) <= End(m[i + 1]) =>
                Trim(m, i) = [map |-> TrimCut(m, i), next |-> i + 1]
           /\ Meet(m, i) /\ Lower(m, i) /\ m[i].location < m[i + 1].location
                /\ End(m[i]) > End(m[i + 1]) =>
                Trim(m, i) = [map |-> Insert(TrimCut(m, i), Rest(m, i)), next |-> i + 2]
           /\ Meet(m, i) /\ Lower(m, i) /\ m[i].location = m[i + 1].location
                /\ End(m[i]) > End(m[i + 1]) =>
                Trim(m, i) = [map |-> Insert(RemoveEntry(TrimCut(m, i), i), Rest(m, i)), next |-> i + 2]
           /\ Meet(m, i) /\ Higher(m, i) /\ End(m[i + 1]) <= End(m[i]) =>
                Trim(m, i) = [map |-> RemoveEntry(m, i + 1), next |-> i]
           /\ Meet(m, i) /\ Higher(m, i) /\ End(m[i]) < End(m[i + 1]) =>
                Trim(m, i) = [map |-> [m EXCEPT ![i + 1] = Remains(m, i)], next |-> i + 1]
           /\ ~Meet(m, i) /\ ~(Touch(m, i) /\ m[i].type = m[i + 1].type) =>
                Trim(m, i) = [map |-> m, next |-> i + 1]
<1> DEFINE meet == Overlaps(m[i], m[i + 1])
           same == m[i].type = m[i + 1].type
           lower == m[i].type < m[i + 1].type
           higher == m[i].type > m[i + 1].type
           under == Encloses(m[i + 1], m[i])
           over == Encloses(m[i], m[i + 1])
           within == End(m[i]) <= End(m[i + 1])
           beyond == End(m[i]) > End(m[i + 1])
           touch == End(m[i]) = m[i + 1].location
           empty == TrimCut(m, i)[i].size = 0
           joined == TrimJoined(m, i)
           cut == TrimCut(m, i)
           split == Insert(IF empty THEN RemoveEntry(cut, i) ELSE cut, Rest(m, i))
           tail == [m EXCEPT ![i + 1] = Remains(m, i)]
<1>1. Trim(m, i) =
        CASE meet /\ same -> [map |-> joined, next |-> i]
          [] meet /\ lower /\ under -> [map |-> RemoveEntry(m, i), next |-> i]
          [] meet /\ lower /\ ~under /\ within -> [map |-> cut, next |-> i + 1]
          [] meet /\ lower /\ beyond -> [map |-> split, next |-> i + 2]
          [] meet /\ higher /\ over -> [map |-> RemoveEntry(m, i + 1), next |-> i]
          [] meet /\ higher /\ ~over -> [map |-> tail, next |-> i + 1]
          [] ~meet /\ touch /\ same -> [map |-> joined, next |-> i]
          [] OTHER -> [map |-> m, next |-> i + 1]
  BY DEF Trim, TrimJoined, TrimCut, Larger, Rest, Remains
<1>3. /\ meet <=> Meet(m, i)
      /\ lower <=> Lower(m, i)
      /\ higher <=> Higher(m, i)
      /\ under <=> m[i].location = m[i + 1].location /\ End(m[i]) <= End(m[i + 1])
      /\ over <=> ~(End(m[i]) < End(m[i + 1]))
      /\ Touch(m, i) <=> (meet \/ touch)
      /\ within <=> ~beyond
  BY NeighbourTypes, NeighboursMeet DEF Meet, Lower, Higher, Touch
<1>4. ~(same /\ lower) /\ ~(same /\ higher) /\ ~(lower /\ higher)
  BY NeighbourTypes
<1>5. /\ m[i].location < m[i + 1].location => ~empty
      /\ m[i].location = m[i + 1].location => empty
      /\ ~(m[i].location < m[i + 1].location /\ m[i].location = m[i + 1].location)
  BY TrimCutIs, NeighbourTypes
<1>6. (End(m[i + 1]) <= End(m[i])) <=> ~(End(m[i]) < End(m[i + 1]))
  BY NeighbourTypes
<1>7. split = IF empty THEN Insert(RemoveEntry(cut, i), Rest(m, i)) ELSE Insert(cut, Rest(m, i))
  OBVIOUS
<1> HIDE DEF meet, same, lower, higher, under, over, within, beyond, touch, empty, joined, cut, split, tail
<1>8. /\ (meet \/ touch) /\ same => Trim(m, i) = [map |-> joined, next |-> i]
      /\ meet /\ lower /\ under => Trim(m, i) = [map |-> RemoveEntry(m, i), next |-> i]
      /\ meet /\ lower /\ ~under /\ within => Trim(m, i) = [map |-> cut, next |-> i + 1]
  <2>1. (meet \/ touch) /\ same => Trim(m, i) = [map |-> joined, next |-> i]
    BY <1>1, <1>4
  <2>2. meet /\ lower /\ under => Trim(m, i) = [map |-> RemoveEntry(m, i), next |-> i]
    <3>1. meet /\ lower /\ under => ~beyond
      BY <1>3 DEF within
    <3>2. QED
      BY <1>1, <1>4, <3>1
  <2>3. meet /\ lower /\ ~under /\ within => Trim(m, i) = [map |-> cut, next |-> i + 1]
    BY <1>1, <1>3, <1>4
  <2>4. QED
    BY <2>1, <2>2, <2>3
<1>9. /\ meet /\ lower /\ beyond /\ ~under => Trim(m, i) = [map |-> split, next |-> i + 2]
      /\ meet /\ higher /\ over => Trim(m, i) = [map |-> RemoveEntry(m, i + 1), next |-> i]
      /\ meet /\ higher /\ ~over => Trim(m, i) = [map |-> tail, next |-> i + 1]
      /\ ~meet /\ ~(touch /\ same) => Trim(m, i) = [map |-> m, next |-> i + 1]
  BY <1>1, <1>3, <1>4
<1>10. QED
  BY <1>3, <1>5, <1>6, <1>7, <1>8, <1>9 DEF same, within, beyond, over, under, joined, cut, tail

-----------------------------------------------------------------------------
(* The loop of place() *)

\* At most one region has a type above h.
OneHigh(m, h) == \A a, b \in 1 .. Len(m) : m[a].type > h /\ m[b].type > h => a = b

\* The regions other than q are in order; q is the region that was placed, or what
\* is left of it, and trim(), which is at i, has not passed it.
Loose(m, i, q) ==
    /\ q \in 1 .. Len(m) /\ i <= q
    /\ \A a, b \in 1 .. Len(m) : a < b /\ a # q /\ b # q => End(m[a]) <= m[b].location
    /\ \A a \in 1 .. Len(m) : a < q => m[a].location <= m[q].location
    /\ \A b \in 1 .. Len(m) : q < b => m[q].location <= m[b].location
    /\ i = q => \A a \in 1 .. Len(m) : a < q => End(m[a]) <= m[q].location
    /\ OneHigh(m, m[q].type)
    /\ \A b \in 1 .. Len(m) : q < b /\ m[q].type < m[b].type =>
          m[q].location < m[b].location \/ End(m[q]) <= End(m[b])

\* Region q cannot be split, and cannot split another.
Spent(m, i, q) ==
    /\ \A b \in 1 .. Len(m) : q < b => m[b].type <= m[q].type
    /\ i < q => End(m[q - 1]) <= End(m[q])

\* The numbers in an array of regions.
Numbers(m) ==
    /\ Len(m) \in Nat
    /\ \A j \in 1 .. Len(m) : /\ m[j].location \in Nat /\ End(m[j]) \in Nat /\ m[j].type \in Nat
                              /\ m[j].location < End(m[j])

LEMMA SeqNumbers == ASSUME NEW m \in Seq(RegionT) PROVE Numbers(m)
<1>1. \A j \in 1 .. Len(m) : m[j] \in RegionT
  OBVIOUS
<1>2. QED
  BY <1>1, RegionFields DEF Numbers

\* A region from l to e.
LEMMA NewEnds ==
    ASSUME NEW t \in MemoryType, NEW l \in Nat, NEW e \in Nat, l < e
    PROVE  /\ Region(t, l, e - l) \in RegionT /\ Region(t, l, e - l).type = t
           /\ Region(t, l, e - l).location = l /\ End(Region(t, l, e - l)) = e
<1>1. e - l \in Nat \ {0} /\ l + (e - l) = e
  OBVIOUS
<1>2. Region(t, l, e - l) \in RegionT
  BY <1>1, NewRegion
<1>3. QED
  BY <1>1, <1>2 DEF Region, End

\* Neighbours in order do not overlap.
LEMMA OrderedNeighbours ==
    ASSUME NEW m \in Seq(RegionT), Ordered(m), NEW i \in 1 .. Len(m) - 1
    PROVE  Neighbours(m, i) /\ ~Meet(m, i)
<1>1. Numbers(m) /\ i \in 1 .. Len(m) /\ i + 1 \in 1 .. Len(m) /\ i < i + 1
  BY SeqNumbers
<1>2. End(m[i]) <= m[i + 1].location
  BY <1>1 DEF Ordered
<1>3. QED
  BY <1>1, <1>2 DEF Neighbours, Meet, Numbers

\* Nor do neighbours before the loose region, and its own are in order.
LEMMA LooseNeighbours ==
    ASSUME NEW m \in Seq(RegionT), NEW i \in 1 .. Len(m) - 1, NEW q, Loose(m, i, q)
    PROVE  Neighbours(m, i) /\ (i + 1 < q => ~Meet(m, i))
<1>1. Numbers(m) /\ i \in 1 .. Len(m) /\ i + 1 \in 1 .. Len(m) /\ i < i + 1 /\ q \in 1 .. Len(m)
      /\ i <= q
  BY SeqNumbers DEF Loose
<1>2. i + 1 < q => End(m[i]) <= m[i + 1].location
  BY <1>1 DEF Loose
<1>3. i = q => m[i].location <= m[i + 1].location
  BY <1>1 DEF Loose
<1>4. i + 1 = q => m[i].location <= m[i + 1].location
  BY <1>1 DEF Loose
<1>5. i = q \/ i + 1 = q \/ i + 1 < q
  BY <1>1
<1>6. QED
  BY <1>1, <1>2, <1>3, <1>4, <1>5 DEF Neighbours, Meet, Numbers

\* The joined region.
JoinedAt(m, i, m1) ==
    /\ m1 \in Seq(RegionT) /\ Len(m1) = Len(m) - 1
    /\ i \in 1 .. Len(m1) /\ m1[i].location = m[i].location /\ m1[i].type = m[i].type
    /\ End(m1[i]) = Larger(End(m[i]), End(m[i + 1]))
    /\ \A j \in 1 .. Len(m1) : /\ j < i => m1[j] = m[j]
                               /\ i < j => m1[j] = m[j + 1]

LEMMA JoinedRegion ==
    ASSUME NEW m, NEW i, Neighbours(m, i), NEW m1,
           JoinedTo(m, i, Larger(End(m[i]), End(m[i + 1])), m1)
    PROVE  JoinedAt(m, i, m1)
<1> DEFINE e == Larger(End(m[i]), End(m[i + 1]))
<1>1. e \in Nat /\ m[i].location < e /\ m[i].type \in MemoryType /\ m[i].location \in Nat
      /\ i \in 1 .. Len(m) - 1 /\ i \in Nat /\ Len(m) \in Nat
  <2>1. /\ End(m[i]) \in Nat /\ End(m[i + 1]) \in Nat /\ m[i].location < End(m[i])
        /\ m[i].location \in Nat
    BY NeighbourTypes
  <2>2. e \in Nat /\ m[i].location < e
    BY <2>1 DEF Larger
  <2>3. QED
    BY <2>2, NeighbourTypes DEF Neighbours
<1>2. m1[i] = Region(m[i].type, m[i].location, e - m[i].location)
  BY <1>1 DEF JoinedTo
<1> HIDE DEF e
<1>3. /\ m1[i].type = m[i].type /\ m1[i].location = m[i].location /\ End(m1[i]) = e
  BY <1>1, <1>2, NewEnds
<1>4. \A j \in 1 .. Len(m1) : /\ j < i => m1[j] = m[j]
                              /\ i < j => m1[j] = m[j + 1]
  BY <1>1 DEF JoinedTo
<1>5. Len(m1) = Len(m) - 1 /\ m1 \in Seq(RegionT)
  BY DEF JoinedTo
<1>6. QED
  BY <1>1, <1>3, <1>4, <1>5 DEF e, JoinedAt

LEMMA OrderedJoin ==
    ASSUME NEW m \in Seq(RegionT), Ordered(m), NEW i \in 1 .. Len(m) - 1, NEW m1,
           JoinedAt(m, i, m1)
    PROVE  Ordered(m1)
<1>1. Numbers(m) /\ Numbers(m1) /\ Len(m1) = Len(m) - 1
  BY SeqNumbers DEF JoinedAt
<1>3. /\ i \in 1 .. Len(m1) /\ m1[i].location = m[i].location
      /\ End(m1[i]) = Larger(End(m[i]), End(m[i + 1]))
      /\ \A j \in 1 .. Len(m1) : /\ j < i => m1[j] = m[j]
                                 /\ i < j => m1[j] = m[j + 1]
  BY DEF JoinedAt
<1>4. SUFFICES ASSUME NEW a \in 1 .. Len(m1), NEW b \in 1 .. Len(m1), a < b
               PROVE  End(m1[a]) <= m1[b].location
  BY DEF Ordered
<1>5. a \in 1 .. Len(m) /\ b \in 1 .. Len(m) /\ a + 1 \in 1 .. Len(m) /\ b + 1 \in 1 .. Len(m)
      /\ i \in 1 .. Len(m) /\ i + 1 \in 1 .. Len(m) /\ Len(m) \in Nat
  BY <1>1 DEF Numbers
<1>6. \A x, y \in 1 .. Len(m) : x < y => End(m[x]) <= m[y].location
  BY DEF Ordered
<1>7. CASE b < i
  <2>1. a < i
    BY <1>4, <1>5, <1>7
  <2>2. m1[a] = m[a] /\ m1[b] = m[b]
    BY <1>3, <1>7, <2>1
  <2>3. QED
    BY <1>4, <1>5, <1>6, <2>2
<1>8. CASE b = i
  BY <1>3, <1>5, <1>6, <1>8, <1>4
<1>9. CASE b > i /\ a < i
  <2>1. m1[a] = m[a] /\ m1[b] = m[b + 1] /\ a < b + 1
    BY <1>3, <1>5, <1>9, <1>4
  <2>2. QED
    BY <1>5, <1>6, <2>1
<1>10. CASE b > i /\ a = i
  <2>1. End(m[i]) <= m[b + 1].location /\ End(m[i + 1]) <= m[b + 1].location
    BY <1>5, <1>6, <1>10
  <2>2. QED
    BY <1>3, <1>5, <1>10, <2>1 DEF Larger
<1>11. CASE b > i /\ a > i
  <2>1. m1[a] = m[a + 1] /\ m1[b] = m[b + 1] /\ a + 1 < b + 1
    BY <1>3, <1>5, <1>11, <1>4
  <2>2. QED
    BY <1>5, <1>6, <2>1
<1>12. QED
  BY <1>5, <1>7, <1>8, <1>9, <1>10, <1>11

\* s says where the entries of m1 were in m.
Shift(m, m1, s) ==
    /\ s \in [1 .. Len(m1) -> 1 .. Len(m)]
    /\ \A a, b \in 1 .. Len(m1) : a < b => s[a] < s[b]

\* All entries but k, and all entries.
Except(m, k) == [j \in 1 .. Len(m) - 1 |-> IF j < k THEN j ELSE j + 1]
All(m) == [j \in 1 .. Len(m) |-> j]

LEMMA ExceptShifts ==
    ASSUME NEW m, Len(m) \in Nat, NEW m1, Len(m1) = Len(m) - 1, NEW k \in 1 .. Len(m)
    PROVE  /\ Shift(m, m1, Except(m, k))
           /\ \A j \in 1 .. Len(m1) : Except(m, k)[j] # k /\ j <= Except(m, k)[j]
           /\ \A j \in 1 .. Len(m1) : /\ j < k => Except(m, k)[j] = j
                                      /\ k <= j => Except(m, k)[j] = j + 1 /\ k < Except(m, k)[j]
BY DEF Shift, Except

LEMMA AllShifts ==
    ASSUME NEW m, Len(m) \in Nat, NEW m1, Len(m1) = Len(m)
    PROVE  Shift(m, m1, All(m)) /\ \A j \in 1 .. Len(m) : All(m)[j] = j
BY DEF Shift, All

\* An array that leaves the loose region out is in order.
LEMMA OrderedWithout ==
    ASSUME NEW m \in Seq(RegionT), NEW i, NEW q, Loose(m, i, q), NEW m1 \in Seq(RegionT),
           NEW s, Shift(m, m1, s), \A j \in 1 .. Len(m1) : m1[j] = m[s[j]] /\ s[j] # q
    PROVE  Ordered(m1)
<1>1. SUFFICES ASSUME NEW a \in 1 .. Len(m1), NEW b \in 1 .. Len(m1), a < b
               PROVE  End(m1[a]) <= m1[b].location
  BY DEF Ordered
<1>2. s[a] \in 1 .. Len(m) /\ s[b] \in 1 .. Len(m) /\ s[a] < s[b] /\ s[a] # q /\ s[b] # q
  BY <1>1 DEF Shift
<1>3. End(m[s[a]]) <= m[s[b]].location
  BY <1>2 DEF Loose
<1>4. QED
  BY <1>3

\* The regions before and behind c are in order, and c fits between them.
LEMMA OrderedAround ==
    ASSUME NEW m, NEW i, NEW q, Loose(m, i, q), NEW m1, NEW c \in 1 .. Len(m1),
           NEW s, Shift(m, m1, s),
           \A j \in 1 .. Len(m1) : j # c => m1[j] = m[s[j]] /\ s[j] # q,
           \A j \in 1 .. Len(m1) : j < c => End(m1[j]) <= m1[c].location,
           \A j \in 1 .. Len(m1) : c < j => End(m1[c]) <= m1[j].location
    PROVE  Ordered(m1)
<1>1. SUFFICES ASSUME NEW a \in 1 .. Len(m1), NEW b \in 1 .. Len(m1), a < b
               PROVE  End(m1[a]) <= m1[b].location
  BY DEF Ordered
<1>2. CASE a = c
  BY <1>1, <1>2
<1>3. CASE b = c
  BY <1>1, <1>3
<1>4. CASE a # c /\ b # c
  <2>1. s[a] \in 1 .. Len(m) /\ s[b] \in 1 .. Len(m) /\ s[a] < s[b] /\ s[a] # q /\ s[b] # q
    BY <1>1, <1>4 DEF Shift
  <2>2. End(m[s[a]]) <= m[s[b]].location
    BY <2>1 DEF Loose
  <2>3. QED
    BY <2>2, <1>4
<1>5. QED
  BY <1>2, <1>3, <1>4

\* A loose region remains one when its place and what is around it allow it.
LEMMA LooseBy ==
    ASSUME NEW m \in Seq(RegionT), NEW i, NEW q, Loose(m, i, q), NEW m1 \in Seq(RegionT),
           NEW q1 \in 1 .. Len(m1), NEW i1, i1 <= q1, NEW s, Shift(m, m1, s),
           \A j \in 1 .. Len(m1) : j # q1 => m1[j] = m[s[j]] /\ s[j] # q,
           m1[q1].type = m[q].type,
           \A a \in 1 .. Len(m1) : a < q1 => m1[a].location <= m1[q1].location,
           \A b \in 1 .. Len(m1) : q1 < b => m1[q1].location <= m1[b].location,
           i1 = q1 => \A a \in 1 .. Len(m1) : a < q1 => End(m1[a]) <= m1[q1].location,
           \A b \in 1 .. Len(m1) : q1 < b /\ m1[q1].type < m1[b].type =>
              m1[q1].location < m1[b].location \/ End(m1[q1]) <= End(m1[b])
    PROVE  Loose(m1, i1, q1)
<1>1. ASSUME NEW a \in 1 .. Len(m1), NEW b \in 1 .. Len(m1), a < b, a # q1, b # q1
      PROVE  End(m1[a]) <= m1[b].location
  <2>1. s[a] \in 1 .. Len(m) /\ s[b] \in 1 .. Len(m) /\ s[a] < s[b] /\ s[a] # q /\ s[b] # q
    BY <1>1 DEF Shift
  <2>2. End(m[s[a]]) <= m[s[b]].location
    BY <2>1 DEF Loose
  <2>3. QED
    BY <2>2, <1>1
<1>2. ASSUME NEW a \in 1 .. Len(m1), NEW b \in 1 .. Len(m1),
             m1[a].type > m1[q1].type, m1[b].type > m1[q1].type
      PROVE  a = b
  <2>1. Numbers(m1) /\ q \in 1 .. Len(m)
    BY SeqNumbers DEF Loose
  <2>2. a # q1 /\ b # q1
    BY <1>2, <2>1 DEF Numbers
  <2>3. s[a] \in 1 .. Len(m) /\ s[b] \in 1 .. Len(m) /\ m1[a] = m[s[a]] /\ m1[b] = m[s[b]]
    BY <2>2 DEF Shift
  <2>4. s[a] = s[b]
    BY <1>2, <2>3 DEF Loose, OneHigh
  <2>5. ~(a < b) /\ ~(b < a)
    BY <2>3, <2>4 DEF Shift
  <2>6. QED
    BY <2>5
<1>3. QED
  BY <1>1, <1>2 DEF Loose, OneHigh

\* Space for one more region, or for none when the loose region cannot be split.
Within(m, i, q, n) == Len(m) <= n + 1 \/ (Len(m) <= n + 2 /\ Spent(m, i, q))

\* The loose region is joined with its neighbour.
LEMMA LooseJoin ==
    ASSUME NEW m \in Seq(RegionT), NEW i \in 1 .. Len(m) - 1, NEW q, Loose(m, i, q),
           q \in {i, i + 1}, m[i].type = m[i + 1].type, NEW m1, JoinedAt(m, i, m1)
    PROVE  Loose(m1, i, i)
<1> DEFINE s == Except(m, i + 1)
<1>0. Neighbours(m, i)
  BY LooseNeighbours
<1>1. Numbers(m) /\ m1 \in Seq(RegionT) /\ Len(m1) = Len(m) - 1 /\ Len(m) \in Nat /\ i \in Nat
      /\ i \in 1 .. Len(m) /\ i + 1 \in 1 .. Len(m) /\ i < i + 1 /\ Neighbours(m, i)
  <2>1. Numbers(m) /\ m1 \in Seq(RegionT) /\ Len(m1) = Len(m) - 1
    BY SeqNumbers DEF JoinedAt
  <2>2. QED
    BY <1>0, <2>1 DEF Numbers
<1>2. /\ i \in 1 .. Len(m1) /\ m1[i].location = m[i].location /\ m1[i].type = m[i].type
      /\ \A j \in 1 .. Len(m1) : /\ j < i => m1[j] = m[j]
                                 /\ i < j => m1[j] = m[j + 1]
  BY DEF JoinedAt
<1>3. Shift(m, m1, s)
  BY <1>1, ExceptShifts
<1>4. \A j \in 1 .. Len(m1) : /\ j < i => s[j] = j
                              /\ i < j => s[j] = j + 1
  BY <1>1 DEF Except
<1>5. \A j \in 1 .. Len(m1) : j # i => m1[j] = m[s[j]] /\ s[j] # q
  <2> HIDE DEF s
  <2>1. SUFFICES ASSUME NEW j \in 1 .. Len(m1), j # i PROVE m1[j] = m[s[j]] /\ s[j] # q
    OBVIOUS
  <2>2. CASE j < i
    BY <1>1, <1>2, <1>4, <2>2
  <2>3. CASE i < j
    BY <1>1, <1>2, <1>4, <2>3
  <2>4. QED
    BY <1>1, <2>1, <2>2, <2>3
<1>6. m1[i].type = m[q].type
  BY <1>2
<1>7. \A a \in 1 .. Len(m1) : a < i => End(m1[a]) <= m1[i].location
  <2>1. SUFFICES ASSUME NEW a \in 1 .. Len(m1), a < i PROVE End(m[a]) <= m[i].location
    BY <1>2
  <2>2. a \in 1 .. Len(m)
    BY <1>1
  <2>3. QED
    BY <1>1, <2>1, <2>2 DEF Loose
<1>8. \A a \in 1 .. Len(m1) : a < i => m1[a].location <= m1[i].location
  <2>1. Numbers(m1)
    BY <1>1, SeqNumbers
  <2>2. QED
    BY <1>2, <1>7, <2>1 DEF Numbers
<1>9. \A b \in 1 .. Len(m1) : i < b => m1[i].location < m1[b].location /\ m1[i].location <= m1[b].location
  <2>0. Numbers(m1)
    BY <1>1, SeqNumbers
  <2>1. SUFFICES ASSUME NEW b \in 1 .. Len(m1), i < b PROVE m[i].location < m[b + 1].location
    <3>1. ASSUME NEW b \in 1 .. Len(m1), i < b
          PROVE  m1[i].location < m1[b].location /\ m1[i].location <= m1[b].location
      <4>1. m1[b] = m[b + 1] /\ m1[i].location = m[i].location
        BY <1>2, <3>1
      <4>2. m1[i].location < m1[b].location
        BY <2>1, <3>1, <4>1
      <4>3. QED
        BY <4>2, <2>0, <1>2 DEF Numbers
    <3>2. QED
      BY <3>1
  <2>2. b + 1 \in 1 .. Len(m) /\ b + 1 # i /\ b + 1 # i + 1 /\ i < b + 1 /\ i + 1 < b + 1
    BY <1>1, <2>1
  <2>3. CASE q = i
    <3>1. End(m[i + 1]) <= m[b + 1].location /\ m[i].location <= m[i + 1].location
      BY <1>1, <2>2, <2>3 DEF Loose, Neighbours
    <3>2. QED
      BY <3>1, <1>1, <2>2 DEF Numbers
  <2>4. CASE q = i + 1
    <3>1. End(m[i]) <= m[b + 1].location
      BY <1>1, <2>2, <2>4 DEF Loose
    <3>2. QED
      BY <3>1, <1>1, <2>2 DEF Numbers
  <2>5. QED
    BY <2>3, <2>4
<1> HIDE DEF s
<1>10. i <= i
  BY <1>1
<1>11. QED
  BY <1>1, <1>2, <1>3, <1>5, <1>6, <1>7, <1>8, <1>9, <1>10, LooseBy

\* Regions before the loose one are joined.
LEMMA LooseJoinBefore ==
    ASSUME NEW m \in Seq(RegionT), NEW i \in 1 .. Len(m) - 1, NEW q, Loose(m, i, q), i + 1 < q,
           NEW m1, JoinedAt(m, i, m1)
    PROVE  Loose(m1, i, q - 1)
<1>1. Numbers(m) /\ m1 \in Seq(RegionT) /\ Len(m1) = Len(m) - 1 /\ Len(m) \in Nat /\ i \in Nat
      /\ i \in 1 .. Len(m) /\ i + 1 \in 1 .. Len(m) /\ i < i + 1 /\ Neighbours(m, i)
      /\ q \in 1 .. Len(m) /\ q - 1 \in 1 .. Len(m1) /\ i < q - 1 /\ q \in Nat
  <2>1. Numbers(m) /\ m1 \in Seq(RegionT) /\ Len(m1) = Len(m) - 1 /\ Len(m) \in Nat /\ i \in Nat
        /\ i \in 1 .. Len(m) /\ i + 1 \in 1 .. Len(m) /\ Neighbours(m, i)
    BY SeqNumbers, LooseNeighbours DEF JoinedAt, Numbers
  <2>2. q \in 1 .. Len(m)
    BY DEF Loose
  <2>3. QED
    BY <2>1, <2>2
<1>2. /\ i \in 1 .. Len(m1) /\ m1[i].location = m[i].location /\ m1[i].type = m[i].type
      /\ \A j \in 1 .. Len(m1) : /\ j < i => m1[j] = m[j]
                                 /\ i < j => m1[j] = m[j + 1]
      /\ End(m1[i]) = Larger(End(m[i]), End(m[i + 1]))
  BY DEF JoinedAt
<1>3. End(m1[i]) = End(m[i + 1])
  <2>1. End(m[i]) <= m[i + 1].location
    BY <1>1 DEF Loose
  <2>2. QED
    BY <1>1, <1>2, <2>1 DEF Larger, Numbers
<1>4. m1[q - 1] = m[q]
  <2>1. m1[q - 1] = m[(q - 1) + 1] /\ (q - 1) + 1 = q
    BY <1>1, <1>2
  <2>2. QED
    BY <2>1
<1>5. Numbers(m1)
  BY <1>1, SeqNumbers
<1>6. \A a, b \in 1 .. Len(m1) : a < b /\ a # q - 1 /\ b # q - 1 => End(m1[a]) <= m1[b].location
  <2>1. SUFFICES ASSUME NEW a \in 1 .. Len(m1), NEW b \in 1 .. Len(m1), a < b, a # q - 1, b # q - 1
                 PROVE  End(m1[a]) <= m1[b].location
    OBVIOUS
  <2> DEFINE x == IF a < i THEN a ELSE a + 1
             y == IF b <= i THEN b ELSE b + 1
  <2>2. x \in 1 .. Len(m) /\ y \in 1 .. Len(m) /\ x < y /\ x # q /\ y # q
    BY <1>1, <2>1
  <2>3. End(m1[a]) = End(m[x])
    BY <1>1, <1>2, <1>3
  <2>4. m1[b].location = m[y].location
    <3>1. b < i \/ b = i \/ (i < b /\ ~(b <= i))
      BY <1>1
    <3>2. QED
      BY <1>1, <1>2, <3>1
  <2> HIDE DEF x, y
  <2>5. QED
    BY <2>2, <2>3, <2>4 DEF Loose
<1>7. \A a \in 1 .. Len(m1) : a < q - 1 => m1[a].location <= m1[q - 1].location
  <2>1. SUFFICES ASSUME NEW a \in 1 .. Len(m1), a < q - 1 PROVE m1[a].location <= m[q].location
    BY <1>4
  <2>2. a \in 1 .. Len(m) /\ a + 1 \in 1 .. Len(m) /\ a < q /\ a + 1 < q
    BY <1>1, <2>1
  <2>3. m[a].location <= m[q].location /\ m[a + 1].location <= m[q].location
    BY <1>1, <2>2 DEF Loose
  <2>4. QED
    BY <1>1, <1>2, <2>2, <2>3
<1>8. \A b \in 1 .. Len(m1) : q - 1 < b => m1[b] = m[b + 1] /\ b + 1 \in 1 .. Len(m) /\ q < b + 1
  BY <1>1, <1>2
<1>9. \A b \in 1 .. Len(m1) : q - 1 < b =>
         /\ m1[q - 1].location <= m1[b].location
         /\ m1[q - 1].type < m1[b].type =>
               m1[q - 1].location < m1[b].location \/ End(m1[q - 1]) <= End(m1[b])
  BY <1>4, <1>8 DEF Loose
<1>10. OneHigh(m1, m1[q - 1].type)
  <2>1. SUFFICES ASSUME NEW a \in 1 .. Len(m1), NEW b \in 1 .. Len(m1),
                        m1[a].type > m[q].type, m1[b].type > m[q].type
                 PROVE  a = b
    BY <1>4 DEF OneHigh
  <2> DEFINE x == IF a <= i THEN a ELSE a + 1
             y == IF b <= i THEN b ELSE b + 1
  <2>2. x \in 1 .. Len(m) /\ y \in 1 .. Len(m) /\ (x = y => a = b)
    BY <1>1
  <2>3. \A c \in 1 .. Len(m1) : m1[c].type = m[IF c <= i THEN c ELSE c + 1].type
    <3>1. \A c \in 1 .. Len(m1) : c < i \/ c = i \/ (i < c /\ ~(c <= i))
      BY <1>1
    <3>2. QED
      BY <1>1, <1>2, <3>1
  <2>30. m1[a].type = m[x].type /\ m1[b].type = m[y].type
    BY <2>3
  <2> HIDE DEF x, y
  <2>4. x = y
    BY <2>1, <2>2, <2>30 DEF Loose, OneHigh
  <2>5. QED
    BY <2>2, <2>4
<1>11. Loose(m1, i, q - 1)
  <2>1. q - 1 \in 1 .. Len(m1) /\ i <= q - 1 /\ i # q - 1
    BY <1>1
  <2>2. QED
    BY <1>6, <1>7, <1>9, <1>10, <2>1 DEF Loose
<1>12. QED
  BY <1>11

\* A loose region stays one when other regions are taken out.
LEMMA LooseSub ==
    ASSUME NEW m \in Seq(RegionT), NEW i, NEW q, Loose(m, i, q), NEW m1 \in Seq(RegionT),
           NEW q1 \in 1 .. Len(m1), NEW s, Shift(m, m1, s),
           \A j \in 1 .. Len(m1) : m1[j] = m[s[j]], s[q1] = q,
           \A a \in 1 .. Len(m1) : a < q1 => End(m1[a]) <= m[q].location
    PROVE  Loose(m1, q1, q1)
<1>1. \A j \in 1 .. Len(m1) : /\ s[j] \in 1 .. Len(m)
                              /\ j < q1 => s[j] < q
                              /\ q1 < j => q < s[j]
  BY DEF Shift
<1>2. q \in 1 .. Len(m) /\ q1 <= q1 /\ m1[q1] = m[q] /\ Len(m) \in Nat /\ Len(m1) \in Nat
  BY DEF Loose
<1>3. \A j \in 1 .. Len(m1) : j # q1 => m1[j] = m[s[j]] /\ s[j] # q
  <2>1. SUFFICES ASSUME NEW j \in 1 .. Len(m1), j # q1 PROVE s[j] # q
    OBVIOUS
  <2>2. j < q1 \/ q1 < j
    BY <2>1, <1>2
  <2>3. QED
    BY <2>2, <1>1, <1>2
<1>4. \A a \in 1 .. Len(m1) : a < q1 => m1[a].location <= m1[q1].location
  BY <1>1, <1>2 DEF Loose
<1>5. \A b \in 1 .. Len(m1) : q1 < b => m1[q1].location <= m1[b].location
  BY <1>1, <1>2 DEF Loose
<1>6. \A b \in 1 .. Len(m1) : q1 < b /\ m1[q1].type < m1[b].type =>
         m1[q1].location < m1[b].location \/ End(m1[q1]) <= End(m1[b])
  BY <1>1, <1>2 DEF Loose
<1>7. \A a \in 1 .. Len(m1) : a < q1 => End(m1[a]) <= m1[q1].location
  BY <1>2
<1>8. m1[q1].type = m[q].type
  BY <1>2
<1>9. QED
  BY <1>2, <1>3, <1>4, <1>5, <1>6, <1>7, <1>8, LooseBy

\* An array without its entry k.
LEMMA DroppedShift ==
    ASSUME NEW m \in Seq(RegionT), NEW k \in 1 .. Len(m), NEW m1, Dropped(m, k, m1)
    PROVE  /\ m1 \in Seq(RegionT) /\ Len(m1) = Len(m) - 1
           /\ Shift(m, m1, Except(m, k))
           /\ \A j \in 1 .. Len(m1) : m1[j] = m[Except(m, k)[j]] /\ Except(m, k)[j] # k
<1>0. m1 \in Seq(RegionT) /\ Len(m1) = Len(m) - 1
      /\ \A j \in 1 .. Len(m) - 1 : m1[j] = IF j < k THEN m[j] ELSE m[j + 1]
  BY DEF Dropped
<1>1. Len(m) \in Nat /\ \A j \in 1 .. Len(m1) : m1[j] = IF j < k THEN m[j] ELSE m[j + 1]
  BY <1>0
<1>2. Shift(m, m1, Except(m, k)) /\ \A j \in 1 .. Len(m1) : Except(m, k)[j] # k
  BY <1>0, <1>1, ExceptShifts
<1>3. \A j \in 1 .. Len(m1) : Except(m, k)[j] = IF j < k THEN j ELSE j + 1
  BY <1>0, <1>1 DEF Except
<1>4. QED
  BY <1>0, <1>1, <1>2, <1>3

\* The loose region is taken out.
LEMMA DropLoose ==
    ASSUME NEW m \in Seq(RegionT), NEW i, NEW q, Loose(m, i, q), NEW m1, Dropped(m, q, m1)
    PROVE  Ordered(m1)
<1>1. q \in 1 .. Len(m)
  BY DEF Loose
<1>2. /\ m1 \in Seq(RegionT) /\ Shift(m, m1, Except(m, q))
      /\ \A j \in 1 .. Len(m1) : m1[j] = m[Except(m, q)[j]] /\ Except(m, q)[j] # q
  BY <1>1, DroppedShift
<1>3. QED
  BY <1>2, OrderedWithout

\* The region before the loose one is taken out.
LEMMA DropBefore ==
    ASSUME NEW m \in Seq(RegionT), NEW i \in 1 .. Len(m) - 1, Loose(m, i, i + 1),
           NEW m1, Dropped(m, i, m1)
    PROVE  Loose(m1, i, i)
<1>0. i \in 1 .. Len(m) /\ i + 1 \in 1 .. Len(m) /\ Numbers(m) /\ Len(m) \in Nat /\ i \in Nat
  BY SeqNumbers
<1>1. /\ m1 \in Seq(RegionT) /\ Len(m1) = Len(m) - 1 /\ Shift(m, m1, Except(m, i))
      /\ \A j \in 1 .. Len(m1) : m1[j] = m[Except(m, i)[j]]
  BY <1>0, DroppedShift
<1>2. i \in 1 .. Len(m1) /\ Except(m, i)[i] = i + 1
  BY <1>0, <1>1 DEF Except
<1>3. ASSUME NEW a \in 1 .. Len(m1), a < i
      PROVE  End(m1[a]) <= m[i + 1].location
  <2>1. a \in 1 .. Len(m) /\ a # i + 1 /\ i # i + 1 /\ a < i + 1 /\ i < i + 1
    BY <1>0, <1>1, <1>3
  <2>2. m1[a] = m[a]
    BY <1>1, <1>3 DEF Dropped
  <2>3. End(m[a]) <= m[i].location /\ m[i].location <= m[i + 1].location
    BY <1>0, <1>3, <2>1 DEF Loose
  <2>4. QED
    BY <1>0, <2>1, <2>2, <2>3 DEF Numbers
<1>4. QED
  BY <1>1, <1>2, <1>3, LooseSub

\* The region behind the loose one is taken out.
LEMMA DropBehind ==
    ASSUME NEW m \in Seq(RegionT), NEW i \in 1 .. Len(m) - 1, Loose(m, i, i),
           NEW m1, Dropped(m, i + 1, m1)
    PROVE  Loose(m1, i, i)
<1>0. i \in 1 .. Len(m) /\ i + 1 \in 1 .. Len(m) /\ Numbers(m) /\ Len(m) \in Nat /\ i \in Nat
  BY SeqNumbers
<1>1. /\ m1 \in Seq(RegionT) /\ Len(m1) = Len(m) - 1 /\ Shift(m, m1, Except(m, i + 1))
      /\ \A j \in 1 .. Len(m1) : m1[j] = m[Except(m, i + 1)[j]]
  BY <1>0, DroppedShift
<1>2. i \in 1 .. Len(m1) /\ Except(m, i + 1)[i] = i
  BY <1>0, <1>1 DEF Except
<1>3. ASSUME NEW a \in 1 .. Len(m1), a < i
      PROVE  End(m1[a]) <= m[i].location
  <2>1. a \in 1 .. Len(m) /\ a < i + 1
    BY <1>0, <1>1, <1>3
  <2>2. m1[a] = m[a]
    BY <1>1, <1>3, <2>1 DEF Dropped
  <2>3. QED
    BY <1>3, <2>1, <2>2 DEF Loose
<1>4. QED
  BY <1>1, <1>2, <1>3, LooseSub

\* trim() passes a region before the loose one.
LEMMA LoosePass ==
    ASSUME NEW m \in Seq(RegionT), NEW i \in 1 .. Len(m) - 1, NEW q, Loose(m, i, q), i < q,
           i + 1 = q => ~Meet(m, i)
    PROVE  Loose(m, i + 1, q) /\ (Spent(m, i, q) => Spent(m, i + 1, q))
<1>1. q \in 1 .. Len(m) /\ i + 1 <= q /\ Numbers(m)
  BY SeqNumbers DEF Loose
<1>2. ASSUME i + 1 = q, NEW a \in 1 .. Len(m), a < q
      PROVE  End(m[a]) <= m[q].location
  <2>1. i \in 1 .. Len(m) /\ End(m[i]) <= m[q].location
    BY <1>1, <1>2 DEF Meet, Numbers
  <2>2. CASE a = i
    BY <2>1, <2>2
  <2>3. CASE a < i
    <3>1. End(m[a]) <= m[i].location
      BY <1>1, <1>2, <2>1, <2>3 DEF Loose
    <3>2. QED
      BY <1>1, <1>2, <2>1, <3>1 DEF Numbers
  <2>4. QED
    BY <1>2, <2>2, <2>3
<1>3. Loose(m, i + 1, q)
  BY <1>1, <1>2 DEF Loose
<1>4. QED
  BY <1>1, <1>3 DEF Spent

\* The loose region does not overlap the next one.
LEMMA LooseEnds ==
    ASSUME NEW m \in Seq(RegionT), NEW i \in 1 .. Len(m), Loose(m, i, i),
           i < Len(m) => ~Meet(m, i)
    PROVE  Ordered(m)
<1>1. Numbers(m) /\ Len(m) \in Nat
  BY SeqNumbers
<1>2. Shift(m, m, All(m)) /\ \A j \in 1 .. Len(m) : All(m)[j] = j
  BY <1>1, AllShifts
<1>3. \A j \in 1 .. Len(m) : j < i => End(m[j]) <= m[i].location
  BY DEF Loose
<1>4. \A j \in 1 .. Len(m) : i < j => End(m[i]) <= m[j].location
  <2>1. SUFFICES ASSUME NEW j \in 1 .. Len(m), i < j PROVE End(m[i]) <= m[j].location
    OBVIOUS
  <2>2. i + 1 \in 1 .. Len(m) /\ End(m[i]) <= m[i + 1].location
    BY <1>1, <2>1 DEF Meet, Numbers
  <2>3. CASE j = i + 1
    BY <2>2, <2>3
  <2>4. CASE i + 1 < j
    <3>1. End(m[i + 1]) <= m[j].location
      BY <2>1, <2>2, <2>4 DEF Loose
    <3>2. QED
      BY <1>1, <2>1, <2>2, <3>1 DEF Numbers
  <2>5. QED
    BY <2>1, <2>3, <2>4
<1>5. QED
  BY <1>2, <1>3, <1>4, OrderedAround

\* Entry c has become a region from l to e; the others are as they were.
Changed(m, c, l, e, m1) ==
    /\ m1 \in Seq(RegionT) /\ Len(m1) = Len(m)
    /\ m1[c].type = m[c].type /\ m1[c].location = l /\ End(m1[c]) = e
    /\ \A j \in 1 .. Len(m) : j # c => m1[j] = m[j]

LEMMA ReplacedChanges ==
    ASSUME NEW m \in Seq(RegionT), NEW c \in 1 .. Len(m), NEW l \in Nat, NEW e \in Nat, l < e,
           NEW m1, Replaced(m, c, Region(m[c].type, l, e - l), m1)
    PROVE  Changed(m, c, l, e, m1)
<1>2. /\ Region(m[c].type, l, e - l).type = m[c].type
      /\ Region(m[c].type, l, e - l).location = l /\ End(Region(m[c].type, l, e - l)) = e
  BY DEF Region, End
<1>3. QED
  BY <1>2 DEF Replaced, Changed

\* The region before the loose one is cut where that begins.
LEMMA CutBefore ==
    ASSUME NEW m \in Seq(RegionT), NEW i \in 1 .. Len(m) - 1, Loose(m, i, i + 1),
           NEW m1, Changed(m, i, m[i].location, m[i + 1].location, m1)
    PROVE  Loose(m1, i + 1, i + 1) /\ (Spent(m, i, i + 1) => Spent(m1, i + 1, i + 1))
<1>0. i \in 1 .. Len(m) /\ i + 1 \in 1 .. Len(m) /\ Numbers(m) /\ i # i + 1 /\ i < i + 1
      /\ Numbers(m1) /\ Len(m1) = Len(m)
  BY SeqNumbers DEF Changed
<1>1. \A j \in 1 .. Len(m) : m1[j].location = m[j].location /\ m1[j].type = m[j].type
  BY DEF Changed
<1>2. \A j \in 1 .. Len(m) : j # i => m1[j] = m[j]
  BY DEF Changed
<1>3. End(m1[i]) = m[i + 1].location
  BY DEF Changed
<1>4. \A a, b \in 1 .. Len(m1) : a < b /\ a # i + 1 /\ b # i + 1 => End(m1[a]) <= m1[b].location
  <2>1. SUFFICES ASSUME NEW a \in 1 .. Len(m), NEW b \in 1 .. Len(m), a < b, a # i + 1, b # i + 1
                 PROVE  End(m1[a]) <= m1[b].location
    BY <1>0
  <2>2. End(m[a]) <= m[b].location
    BY <2>1 DEF Loose
  <2>3. CASE a = i
    <3>1. i + 1 < b
      BY <1>0, <2>1, <2>3
    <3>2. m[i + 1].location <= m[b].location
      BY <1>0, <3>1 DEF Loose
    <3>3. QED
      BY <1>1, <1>3, <2>3, <3>2
  <2>4. CASE a # i
    BY <1>1, <1>2, <2>2, <2>4
  <2>5. QED
    BY <2>3, <2>4
<1>5. \A a \in 1 .. Len(m1) : a < i + 1 => End(m1[a]) <= m1[i + 1].location
  <2>1. SUFFICES ASSUME NEW a \in 1 .. Len(m), a < i + 1 PROVE End(m1[a]) <= m[i + 1].location
    BY <1>0, <1>2
  <2>2. CASE a = i
    BY <1>0, <1>3, <2>2 DEF Numbers
  <2>3. CASE a < i
    <3>1. End(m[a]) <= m[i].location /\ m[i].location <= m[i + 1].location
      BY <1>0, <2>1, <2>3 DEF Loose
    <3>2. QED
      BY <1>0, <1>2, <2>3, <3>1 DEF Numbers
  <2>4. QED
    BY <1>0, <2>1, <2>2, <2>3
<1>6. \A a \in 1 .. Len(m1) : a < i + 1 => m1[a].location <= m1[i + 1].location
  <2>1. SUFFICES ASSUME NEW a \in 1 .. Len(m1), a < i + 1
                 PROVE  m1[a].location <= m1[i + 1].location
    OBVIOUS
  <2>2. End(m1[a]) <= m1[i + 1].location
    BY <1>5, <2>1
  <2>3. QED
    BY <1>0, <2>2 DEF Numbers
<1>7. \A b \in 1 .. Len(m1) : i + 1 < b => m1[b] = m[b] /\ m[i + 1].location <= m[b].location
  BY <1>0, <1>2 DEF Loose
<1>8. m1[i + 1] = m[i + 1]
  BY <1>0, <1>2
<1>9. \A b \in 1 .. Len(m1) : i + 1 < b /\ m1[i + 1].type < m1[b].type =>
         m1[i + 1].location < m1[b].location \/ End(m1[i + 1]) <= End(m1[b])
  BY <1>0, <1>7, <1>8 DEF Loose
<1>10. OneHigh(m1, m1[i + 1].type)
  BY <1>0, <1>1, <1>8 DEF Loose, OneHigh
<1>11. Loose(m1, i + 1, i + 1)
  BY <1>0, <1>4, <1>5, <1>6, <1>7, <1>8, <1>9, <1>10 DEF Loose
<1>12. ASSUME Spent(m, i, i + 1) PROVE Spent(m1, i + 1, i + 1)
  BY <1>0, <1>7, <1>8, <1>12 DEF Spent
<1>13. QED
  BY <1>11, <1>12

\* The loose region is pushed behind a higher one.
LEMMA PushBehind ==
    ASSUME NEW m \in Seq(RegionT), NEW i \in 1 .. Len(m) - 1, Loose(m, i, i + 1), Higher(m, i),
           NEW m1, Changed(m, i + 1, End(m[i]), End(m[i + 1]), m1)
    PROVE  Loose(m1, i + 1, i + 1) /\ (Spent(m, i, i + 1) => Spent(m1, i + 1, i + 1))
<1>0. i \in 1 .. Len(m) /\ i + 1 \in 1 .. Len(m) /\ Numbers(m) /\ i # i + 1 /\ i < i + 1
      /\ Numbers(m1) /\ Len(m1) = Len(m) /\ Len(m) \in Nat /\ i + 1 <= i + 1 /\ m1 \in Seq(RegionT)
  BY SeqNumbers DEF Changed
<1>1. Shift(m, m1, All(m)) /\ \A j \in 1 .. Len(m) : All(m)[j] = j
  BY <1>0, AllShifts
<1>2. \A j \in 1 .. Len(m) : j # i + 1 => m1[j] = m[j]
  BY DEF Changed
<1>3. m1[i + 1].type = m[i + 1].type /\ m1[i + 1].location = End(m[i])
  BY DEF Changed
<1>4. \A j \in 1 .. Len(m1) : j # i + 1 => m1[j] = m[All(m)[j]] /\ All(m)[j] # i + 1
  BY <1>0, <1>1, <1>2
<1>5. \A a \in 1 .. Len(m1) : a < i + 1 => End(m1[a]) <= m1[i + 1].location
  <2>1. SUFFICES ASSUME NEW a \in 1 .. Len(m), a < i + 1 PROVE End(m[a]) <= End(m[i])
    BY <1>0, <1>2, <1>3
  <2>2. CASE a = i
    BY <1>0, <2>2 DEF Numbers
  <2>3. CASE a < i
    <3>1. End(m[a]) <= m[i].location
      BY <1>0, <2>1, <2>3 DEF Loose
    <3>2. QED
      BY <1>0, <3>1 DEF Numbers
  <2>4. QED
    BY <1>0, <2>1, <2>2, <2>3
<1>6. \A a \in 1 .. Len(m1) : a < i + 1 => m1[a].location <= m1[i + 1].location
  <2>1. SUFFICES ASSUME NEW a \in 1 .. Len(m1), a < i + 1
                 PROVE  m1[a].location <= m1[i + 1].location
    OBVIOUS
  <2>2. End(m1[a]) <= m1[i + 1].location
    BY <1>5, <2>1
  <2>3. QED
    BY <1>0, <2>2 DEF Numbers
<1>7. \A b \in 1 .. Len(m1) : i + 1 < b => m1[i + 1].location <= m1[b].location
  <2>1. SUFFICES ASSUME NEW b \in 1 .. Len(m), i + 1 < b PROVE End(m[i]) <= m[b].location
    BY <1>0, <1>2, <1>3
  <2>2. i < b /\ b # i + 1
    BY <1>0, <2>1
  <2>3. QED
    BY <1>0, <2>1, <2>2 DEF Loose
<1>8. \A b \in 1 .. Len(m1) : i + 1 < b => ~(m1[i + 1].type < m1[b].type)
  <2>1. SUFFICES ASSUME NEW b \in 1 .. Len(m), i + 1 < b, m[i + 1].type < m[b].type PROVE FALSE
    BY <1>0, <1>2, <1>3
  <2>2. m[b].type > m[i + 1].type /\ m[i].type > m[i + 1].type
    BY <2>1 DEF Higher
  <2>3. b = i
    BY <1>0, <2>2 DEF Loose, OneHigh
  <2>4. QED
    BY <1>0, <2>1, <2>3
<1>9. Loose(m1, i + 1, i + 1)
  BY <1>0, <1>1, <1>3, <1>4, <1>5, <1>6, <1>7, <1>8, LooseBy
<1>10. ASSUME Spent(m, i, i + 1) PROVE Spent(m1, i + 1, i + 1)
  BY <1>0, <1>2, <1>3, <1>10 DEF Spent
<1>11. QED
  BY <1>9, <1>10

\* The loose region is cut where the next one begins.
LEMMA CutLoose ==
    ASSUME NEW m \in Seq(RegionT), NEW i \in 1 .. Len(m) - 1, Loose(m, i, i),
           NEW m1, Changed(m, i, m[i].location, m[i + 1].location, m1)
    PROVE  Ordered(m1)
<1>0. i \in 1 .. Len(m) /\ i + 1 \in 1 .. Len(m) /\ Numbers(m) /\ i # i + 1 /\ i < i + 1
      /\ Numbers(m1) /\ Len(m1) = Len(m) /\ Len(m) \in Nat
  BY SeqNumbers DEF Changed
<1>1. Shift(m, m1, All(m)) /\ \A j \in 1 .. Len(m) : All(m)[j] = j
  BY <1>0, AllShifts
<1>2. \A j \in 1 .. Len(m) : j # i => m1[j] = m[j]
  BY DEF Changed
<1>3. m1[i].location = m[i].location /\ End(m1[i]) = m[i + 1].location
  BY DEF Changed
<1>4. \A j \in 1 .. Len(m1) : j # i => m1[j] = m[All(m)[j]] /\ All(m)[j] # i
  BY <1>0, <1>1, <1>2
<1>5. \A j \in 1 .. Len(m1) : j < i => End(m1[j]) <= m1[i].location
  BY <1>0, <1>2, <1>3 DEF Loose
<1>6. \A j \in 1 .. Len(m1) : i < j => End(m1[i]) <= m1[j].location
  <2>1. SUFFICES ASSUME NEW j \in 1 .. Len(m), i < j PROVE m[i + 1].location <= m[j].location
    BY <1>0, <1>2, <1>3
  <2>2. CASE j = i + 1
    BY <1>0, <2>2 DEF Numbers
  <2>3. CASE i + 1 < j
    <3>1. End(m[i + 1]) <= m[j].location
      BY <1>0, <2>1, <2>3 DEF Loose
    <3>2. QED
      BY <1>0, <3>1 DEF Numbers
  <2>4. QED
    BY <1>0, <2>1, <2>2, <2>3
<1>7. i \in 1 .. Len(m1)
  BY <1>0
<1>8. QED
  BY <1>1, <1>4, <1>5, <1>6, <1>7, OrderedAround

\* The region behind the loose one is cut where that ends.
LEMMA CutBehind ==
    ASSUME NEW m \in Seq(RegionT), NEW i \in 1 .. Len(m) - 1, Loose(m, i, i),
           End(m[i]) < End(m[i + 1]),
           NEW m1, Changed(m, i + 1, End(m[i]), End(m[i + 1]), m1)
    PROVE  Ordered(m1)
<1>0. i \in 1 .. Len(m) /\ i + 1 \in 1 .. Len(m) /\ Numbers(m) /\ i # i + 1 /\ i < i + 1
      /\ Numbers(m1) /\ Len(m1) = Len(m) /\ Len(m) \in Nat
  BY SeqNumbers DEF Changed
<1>1. \A j \in 1 .. Len(m) : j # i + 1 => m1[j] = m[j]
  BY DEF Changed
<1>2. m1[i + 1].location = End(m[i]) /\ End(m1[i + 1]) = End(m[i + 1])
  BY DEF Changed
<1>3. SUFFICES ASSUME NEW a \in 1 .. Len(m), NEW b \in 1 .. Len(m), a < b
               PROVE  End(m1[a]) <= m1[b].location
  BY <1>0 DEF Ordered
<1>4. \A c \in 1 .. Len(m) : c < i => End(m[c]) <= m[i].location
  BY DEF Loose
<1>5. \A c \in 1 .. Len(m) : i + 1 < c => End(m[i + 1]) <= m[c].location
  BY <1>0 DEF Loose
<1>6. CASE b < i + 1
  <2>1. a # i + 1 /\ b # i + 1 /\ m1[a] = m[a] /\ m1[b] = m[b]
    BY <1>0, <1>1, <1>3, <1>6
  <2>2. CASE b = i
    BY <1>3, <1>4, <2>1, <2>2
  <2>3. CASE b # i
    <3>1. a # i
      BY <1>0, <1>3, <1>6, <2>3
    <3>2. QED
      BY <1>3, <2>1, <2>3, <3>1 DEF Loose
  <2>4. QED
    BY <2>2, <2>3
<1>7. CASE b = i + 1
  <2>1. m1[a] = m[a] /\ (a = i \/ a < i)
    BY <1>0, <1>1, <1>3, <1>7
  <2>2. End(m[a]) <= End(m[i])
    <3>1. CASE a = i
      BY <1>0, <3>1 DEF Numbers
    <3>2. CASE a < i
      <4>1. End(m[a]) <= m[i].location
        BY <1>4, <3>2
      <4>2. QED
        BY <1>0, <4>1 DEF Numbers
    <3>3. QED
      BY <2>1, <3>1, <3>2
  <2>3. QED
    BY <1>2, <1>7, <2>1, <2>2
<1>8. CASE i + 1 < b
  <2>1. b # i /\ b # i + 1 /\ m1[b] = m[b]
    BY <1>0, <1>1, <1>8
  <2>2. CASE a = i + 1
    BY <1>2, <1>5, <1>8, <2>1, <2>2
  <2>3. CASE a = i
    <3>1. m1[a] = m[i]
      BY <1>0, <1>1, <2>3
    <3>2. QED
      BY <1>0, <1>5, <1>8, <2>1, <3>1 DEF Numbers
  <2>4. CASE a # i /\ a # i + 1
    BY <1>1, <1>3, <2>1, <2>4 DEF Loose
  <2>5. QED
    BY <2>2, <2>3, <2>4
<1>9. QED
  BY <1>0, <1>3, <1>6, <1>7, <1>8

\* A region inserted where it overlaps no other leaves the array in order.
LEMMA InsertApart ==
    ASSUME NEW m \in Seq(RegionT), Ordered(m), NEW x \in RegionT, NEW p \in 1 .. Len(m) + 1, NEW m1,
           Inserted(m, x, p, m1),
           \A j \in 1 .. Len(m) : End(m[j]) <= x.location \/ End(x) <= m[j].location
    PROVE  Ordered(m1)
<1>1. Numbers(m) /\ Len(m1) = Len(m) + 1 /\ x.location \in Nat /\ End(x) \in Nat
      /\ x.location < End(x) /\ Len(m) \in Nat
  BY SeqNumbers, RegionFields DEF Inserted
<1>2. \A j \in 1 .. Len(m) : j < p => End(m[j]) <= x.location
  <2>1. SUFFICES ASSUME NEW j \in 1 .. Len(m), j < p PROVE End(m[j]) <= x.location
    OBVIOUS
  <2>2. m[j].location <= x.location
    BY <2>1 DEF Inserted
  <2>3. QED
    BY <1>1, <2>2 DEF Numbers
<1>3. \A j \in 1 .. Len(m) : p <= j => End(x) <= m[j].location
  <2>1. SUFFICES ASSUME NEW j \in 1 .. Len(m), p <= j PROVE End(x) <= m[j].location
    OBVIOUS
  <2>2. x.location <= m[j].location
    BY <2>1 DEF Inserted
  <2>3. QED
    BY <1>1, <2>2 DEF Numbers
<1>4. SUFFICES ASSUME NEW a \in 1 .. Len(m) + 1, NEW b \in 1 .. Len(m) + 1, a < b
               PROVE  End(m1[a]) <= m1[b].location
  BY <1>1 DEF Ordered
<1>5. \A j \in 1 .. Len(m) + 1 : /\ j < p => j \in 1 .. Len(m) /\ m1[j] = m[j]
                                 /\ j = p => m1[j] = x
                                 /\ p < j => j - 1 \in 1 .. Len(m) /\ m1[j] = m[j - 1] /\ p <= j - 1
  BY <1>1 DEF Inserted
<1>6. CASE b < p
  BY <1>4, <1>5, <1>6, <1>1 DEF Ordered
<1>7. CASE b = p
  BY <1>4, <1>5, <1>2, <1>7
<1>8. CASE p < b
  <2>1. b - 1 \in 1 .. Len(m) /\ m1[b] = m[b - 1] /\ p <= b - 1
    BY <1>5, <1>8
  <2>2. CASE a < p
    <3>1. a < b - 1 /\ a \in 1 .. Len(m) /\ m1[a] = m[a]
      BY <1>1, <1>5, <2>1, <2>2
    <3>2. QED
      BY <2>1, <3>1 DEF Ordered
  <2>3. CASE a = p
    BY <1>3, <1>5, <2>1, <2>3
  <2>4. CASE p < a
    <3>1. a - 1 < b - 1 /\ a - 1 \in 1 .. Len(m) /\ m1[a] = m[a - 1]
      BY <1>1, <1>4, <1>5, <2>4
    <3>2. QED
      BY <2>1, <3>1 DEF Ordered
  <2>5. QED
    BY <1>1, <1>4, <2>2, <2>3, <2>4
<1>9. QED
  BY <1>1, <1>4, <1>6, <1>7, <1>8

\* The region before the loose one is split by it.
LEMMA SplitBefore ==
    ASSUME NEW m \in Seq(RegionT), NEW i \in 1 .. Len(m) - 1, Loose(m, i, i + 1),
           End(m[i + 1]) < End(m[i]), NEW m1,
           \/ Changed(m, i, m[i].location, m[i + 1].location, m1)
           \/ Dropped(m, i, m1)
    PROVE  /\ Ordered(m1) /\ m1 \in Seq(RegionT)
           /\ \A j \in 1 .. Len(m1) : End(m1[j]) <= End(m[i + 1]) \/ End(m[i]) <= m1[j].location
<1>0. i \in 1 .. Len(m) /\ i + 1 \in 1 .. Len(m) /\ Numbers(m) /\ i # i + 1 /\ i < i + 1
      /\ Len(m) \in Nat /\ i \in Nat
  BY SeqNumbers
<1>1. \A a, b \in 1 .. Len(m) : a < b /\ a # i + 1 /\ b # i + 1 => End(m[a]) <= m[b].location
  BY DEF Loose
<1>2. \A b \in 1 .. Len(m) : i + 1 < b => End(m[i + 1]) <= m[b].location /\ End(m[i]) <= m[b].location
  <2>1. SUFFICES ASSUME NEW b \in 1 .. Len(m), i + 1 < b
                 PROVE  End(m[i + 1]) <= m[b].location /\ End(m[i]) <= m[b].location
    OBVIOUS
  <2>2. End(m[i]) <= m[b].location
    BY <1>0, <1>1, <2>1
  <2>3. QED
    BY <1>0, <2>2 DEF Numbers
<1>3. m[i].location <= m[i + 1].location
  BY <1>0 DEF Loose
<1>4. \A a \in 1 .. Len(m) : a < i => End(m[a]) <= m[i].location /\ End(m[a]) <= m[i + 1].location
                                      /\ End(m[a]) <= End(m[i + 1])
  <2>1. SUFFICES ASSUME NEW a \in 1 .. Len(m), a < i
                 PROVE  End(m[a]) <= m[i].location /\ End(m[a]) <= m[i + 1].location
                        /\ End(m[a]) <= End(m[i + 1])
    OBVIOUS
  <2>2. End(m[a]) <= m[i].location
    BY <1>0, <1>1, <2>1
  <2>3. QED
    BY <1>0, <1>3, <2>2 DEF Numbers
<1>5. CASE Changed(m, i, m[i].location, m[i + 1].location, m1)
  <2>1. Len(m1) = Len(m) /\ m1 \in Seq(RegionT) /\ m1[i].location = m[i].location
        /\ End(m1[i]) = m[i + 1].location /\ \A j \in 1 .. Len(m) : j # i => m1[j] = m[j]
    BY <1>5 DEF Changed
  <2>2. ASSUME NEW a \in 1 .. Len(m), NEW b \in 1 .. Len(m), a < b
        PROVE  End(m1[a]) <= m1[b].location
    <3>1. CASE b < i
      BY <1>0, <1>1, <2>1, <2>2, <3>1
    <3>2. CASE b = i
      BY <1>0, <1>4, <2>1, <2>2, <3>2
    <3>3. CASE b = i + 1
      <4>1. a = i \/ a < i
        BY <1>0, <2>2, <3>3
      <4>2. m1[b] = m[i + 1]
        BY <1>0, <2>1, <3>3
      <4>3. CASE a = i
        BY <1>0, <2>1, <4>2, <4>3 DEF Numbers
      <4>4. CASE a < i
        BY <1>0, <1>4, <2>1, <4>2, <4>4
      <4>5. QED
        BY <4>1, <4>3, <4>4
    <3>4. CASE i + 1 < b
      <4>1. m1[b] = m[b] /\ b # i + 1
        BY <1>0, <2>1, <3>4
      <4>2. CASE a = i
        <5>1. m[i + 1].location <= m[b].location
          BY <1>0, <1>2, <3>4 DEF Numbers
        <5>2. QED
          BY <2>1, <4>1, <4>2, <5>1
      <4>3. CASE a = i + 1
        BY <1>0, <1>2, <2>1, <3>4, <4>1, <4>3
      <4>4. CASE a # i /\ a # i + 1
        BY <1>1, <2>1, <2>2, <4>1, <4>4
      <4>5. QED
        BY <4>2, <4>3, <4>4
    <3>5. QED
      BY <1>0, <3>1, <3>2, <3>3, <3>4
  <2>3. ASSUME NEW j \in 1 .. Len(m)
        PROVE  End(m1[j]) <= End(m[i + 1]) \/ End(m[i]) <= m1[j].location
    <3>1. CASE j < i
      BY <1>0, <1>4, <2>1, <3>1
    <3>2. CASE j = i
      BY <1>0, <2>1, <3>2 DEF Numbers
    <3>3. CASE j = i + 1
      <4>1. m1[j] = m[i + 1]
        BY <1>0, <2>1, <3>3
      <4>2. QED
        BY <1>0, <4>1 DEF Numbers
    <3>4. CASE i + 1 < j
      BY <1>0, <1>2, <2>1, <3>4
    <3>5. QED
      BY <1>0, <3>1, <3>2, <3>3, <3>4
  <2>4. QED
    BY <2>1, <2>2, <2>3 DEF Ordered
<1>6. CASE Dropped(m, i, m1)
  <2>1. Len(m1) = Len(m) - 1 /\ m1 \in Seq(RegionT)
        /\ \A j \in 1 .. Len(m) - 1 : m1[j] = IF j < i THEN m[j] ELSE m[j + 1]
    BY <1>6 DEF Dropped
  <2>2. \A j \in 1 .. Len(m1) : /\ j < i => m1[j] = m[j]
                                /\ i <= j => m1[j] = m[j + 1]
                                /\ j \in 1 .. Len(m) /\ j + 1 \in 1 .. Len(m)
    BY <1>0, <2>1
  <2>3. ASSUME NEW a \in 1 .. Len(m1), NEW b \in 1 .. Len(m1), a < b
        PROVE  End(m1[a]) <= m1[b].location
    <3>1. CASE b < i
      <4>1. m1[a] = m[a] /\ m1[b] = m[b] /\ a # i + 1 /\ b # i + 1
        BY <1>0, <2>2, <2>3, <3>1
      <4>2. QED
        BY <1>1, <2>2, <2>3, <4>1
    <3>2. CASE b = i
      <4>1. m1[a] = m[a] /\ m1[b] = m[i + 1]
        BY <1>0, <2>2, <2>3, <3>2
      <4>2. QED
        BY <1>4, <2>2, <2>3, <3>2, <4>1
    <3>3. CASE i < b
      <4>1. m1[b] = m[b + 1] /\ i + 1 < b + 1 /\ b + 1 # i + 1
        BY <1>0, <2>2, <3>3
      <4>2. CASE a < i
        <5>1. m1[a] = m[a] /\ a < b + 1 /\ a # i + 1
          BY <1>0, <2>2, <2>3, <4>2
        <5>2. QED
          BY <1>1, <2>2, <4>1, <5>1
      <4>3. CASE a = i
        BY <1>2, <2>2, <4>1, <4>3, <1>0
      <4>4. CASE i < a
        <5>1. m1[a] = m[a + 1] /\ a + 1 < b + 1 /\ a + 1 # i + 1
          BY <1>0, <2>2, <2>3, <4>4
        <5>2. QED
          BY <1>1, <2>2, <4>1, <5>1
      <4>5. QED
        BY <1>0, <4>2, <4>3, <4>4
    <3>4. QED
      BY <1>0, <3>1, <3>2, <3>3
  <2>4. ASSUME NEW j \in 1 .. Len(m1)
        PROVE  End(m1[j]) <= End(m[i + 1]) \/ End(m[i]) <= m1[j].location
    <3>1. CASE j < i
      BY <1>4, <2>2, <3>1
    <3>2. CASE j = i
      BY <1>0, <2>2, <3>2 DEF Numbers
    <3>3. CASE i < j
      <4>1. m1[j] = m[j + 1] /\ i + 1 < j + 1
        BY <1>0, <2>2, <3>3
      <4>2. QED
        BY <1>2, <2>2, <4>1
    <3>4. QED
      BY <1>0, <3>1, <3>2, <3>3
  <2>5. QED
    BY <2>1, <2>3, <2>4 DEF Ordered
<1>7. QED
  BY <1>5, <1>6

\* x is what is left of entry i behind entry i + 1.
IsRest(m, i, x) == /\ x \in RegionT /\ x.type = m[i].type
                   /\ x.location = End(m[i + 1]) /\ End(x) = End(m[i])

\* The loose region is split by a higher one; what is behind it is the loose region now.
LEMMA SplitLoose ==
    ASSUME NEW m \in Seq(RegionT), NEW i \in 1 .. Len(m) - 1, Loose(m, i, i), Lower(m, i),
           NEW m2, Changed(m, i, m[i].location, m[i + 1].location, m2), Ordered(m2),
           NEW x, IsRest(m, i, x), NEW p \in 1 .. Len(m) + 1, NEW m1, Inserted(m2, x, p, m1)
    PROVE  i + 2 <= p /\ Loose(m1, i + 2, p) /\ Spent(m1, i + 2, p)
<1>0. i \in 1 .. Len(m) /\ i + 1 \in 1 .. Len(m) /\ Numbers(m) /\ i # i + 1 /\ i < i + 1
      /\ Numbers(m2) /\ Len(m2) = Len(m) /\ Len(m) \in Nat /\ i \in Nat
  BY SeqNumbers DEF Changed
<1>1. Numbers(m1) /\ Len(m1) = Len(m) + 1
  BY <1>0, SeqNumbers DEF Inserted
<1>2. \A j \in 1 .. Len(m) : j # i => m2[j] = m[j]
  BY DEF Changed
<1>3. m2[i + 1] = m[i + 1] /\ m2[i].type = m[i].type
  BY <1>0, <1>2 DEF Changed
<1>4. \A j \in 1 .. Len(m) : m2[j].type = m[j].type
  BY <1>2, <1>3
<1>5. \A a, b \in 1 .. Len(m) : a < b => End(m2[a]) <= m2[b].location
  BY <1>0 DEF Ordered
<1>5a. /\ m[i + 1].location \in Nat /\ End(m[i + 1]) \in Nat /\ m[i + 1].location < End(m[i + 1])
       /\ x.location \in Nat /\ x.size \in Nat /\ x.type \in Nat
       /\ \A a \in 1 .. Len(m) : /\ m2[a].location \in Nat /\ End(m2[a]) \in Nat
                                 /\ m2[a].location < End(m2[a])
  BY <1>0, RegionFields DEF Numbers, IsRest
<1>5b. m[i + 1].location < x.location /\ m[i + 1].location \in Nat /\ x.location \in Nat
       /\ x.location = End(m[i + 1])
  BY <1>5a DEF IsRest
<1>5c. x.type = m[i].type
  BY DEF IsRest
<1>6. \A a \in 1 .. Len(m) : a <= i + 1 => End(m2[a]) <= x.location /\ m2[a].location < x.location
  <2>1. SUFFICES ASSUME NEW a \in 1 .. Len(m), a <= i + 1
                 PROVE  End(m2[a]) <= x.location /\ m2[a].location < x.location
    OBVIOUS
  <2>2. CASE a = i + 1
    BY <1>3, <1>5a, <1>5b, <2>2
  <2>3. CASE a < i + 1
    <3>1. End(m2[a]) <= m[i + 1].location
      BY <1>0, <1>3, <1>5, <2>3
    <3>2. m2[a].location \in Nat /\ End(m2[a]) \in Nat /\ m2[a].location < End(m2[a])
      BY <1>5a
    <3>3. QED
      BY <1>5b, <3>1, <3>2
  <2>4. QED
    BY <1>0, <2>1, <2>2, <2>3
<1>7. i + 1 < p
  <2>1. SUFFICES ASSUME p <= i + 1 PROVE FALSE
    BY <1>0
  <2>2. x.location <= m2[i + 1].location
    BY <1>0, <2>1 DEF Inserted
  <2>3. QED
    BY <1>3, <1>5b, <2>2
<1>8. \A j \in 1 .. Len(m) + 1 : /\ j < p => j \in 1 .. Len(m) /\ m1[j] = m2[j]
                                 /\ j = p => m1[j] = x
                                 /\ p < j => j - 1 \in 1 .. Len(m) /\ m1[j] = m2[j - 1] /\ p <= j - 1
  BY <1>0 DEF Inserted
<1>9. \A j \in 1 .. Len(m) : /\ j < p => m2[j].location <= x.location /\ ~Before(x, m2[j])
                             /\ p <= j => x.location <= m2[j].location
  BY <1>0 DEF Inserted
<1>10. m1[p] = x
  BY <1>8
<1>11. ASSUME NEW a \in 1 .. Len(m1), NEW b \in 1 .. Len(m1), a < b, a # p, b # p
       PROVE  End(m1[a]) <= m1[b].location
  <2>1. CASE b < p
    BY <1>1, <1>5, <1>8, <1>11, <2>1
  <2>2. CASE p < b /\ a < p
    <3>1. m1[a] = m2[a] /\ m1[b] = m2[b - 1] /\ a < b - 1 /\ a \in 1 .. Len(m) /\ b - 1 \in 1 .. Len(m)
      BY <1>0, <1>1, <1>8, <2>2
    <3>2. QED
      BY <1>5, <3>1
  <2>3. CASE p < a
    <3>1. m1[a] = m2[a - 1] /\ m1[b] = m2[b - 1] /\ a - 1 < b - 1
          /\ a - 1 \in 1 .. Len(m) /\ b - 1 \in 1 .. Len(m)
      BY <1>0, <1>1, <1>8, <1>11, <2>3
    <3>2. QED
      BY <1>5, <3>1
  <2>4. QED
    BY <1>1, <1>11, <2>1, <2>2, <2>3
<1>12. \A a \in 1 .. Len(m1) : a < p => m1[a].location <= x.location
  BY <1>1, <1>8, <1>9
<1>13. \A b \in 1 .. Len(m1) : p < b => x.location <= m1[b].location
  BY <1>1, <1>8, <1>9
<1>14. i + 2 = p => \A a \in 1 .. Len(m1) : a < p => End(m1[a]) <= x.location
  BY <1>0, <1>1, <1>6, <1>8
<1>15. \A a, b \in 1 .. Len(m) : m[a].type > m[i].type /\ m[b].type > m[i].type => a = b
  BY DEF Loose, OneHigh
<1>16. m[i + 1].type > m[i].type
  BY <1>0 DEF Lower, Numbers
<1>17. \A b \in 1 .. Len(m1) : m1[b].type > x.type => b = i + 1
  <2>1. SUFFICES ASSUME NEW b \in 1 .. Len(m1), m1[b].type > x.type PROVE b = i + 1
    OBVIOUS
  <2>2. CASE b < p
    BY <1>0, <1>1, <1>4, <1>5c, <1>8, <1>15, <1>16, <2>1, <2>2
  <2>3. CASE b = p
    BY <1>0, <1>1, <1>10, <2>1, <2>3 DEF Numbers
  <2>4. CASE p < b
    <3>1. b - 1 \in 1 .. Len(m) /\ m[b - 1].type > m[i].type /\ p <= b - 1
      BY <1>1, <1>4, <1>5c, <1>8, <2>1, <2>4
    <3>2. b - 1 = i + 1
      BY <1>0, <1>15, <1>16, <3>1
    <3>3. QED
      BY <1>0, <1>7, <3>1, <3>2
  <2>5. QED
    BY <1>1, <2>2, <2>3, <2>4
<1>18. \A b \in 1 .. Len(m1) : p < b => ~(m1[b].type > x.type)
  BY <1>0, <1>1, <1>7, <1>17
<1>19. \A b \in 1 .. Len(m1) : p < b => m1[b].type <= x.type
  <2>1. \A b \in 1 .. Len(m1) : m1[b].type \in Nat
    BY <1>1 DEF Numbers
  <2>2. QED
    <3>1. x.type \in Nat
      BY <1>5a
    <3>2. QED
      BY <1>18, <2>1, <3>1
<1>20. i + 2 < p => End(m1[p - 1]) <= End(x)
  <2>1. SUFFICES ASSUME i + 2 < p PROVE End(m1[p - 1]) <= End(x)
    OBVIOUS
  <2>2. p - 1 \in 1 .. Len(m) /\ p - 1 < p /\ i + 1 < p - 1 /\ p - 1 \in 1 .. Len(m) + 1
    BY <1>0, <1>7, <2>1
  <2>3. m1[p - 1] = m2[p - 1] /\ m2[p - 1].location <= x.location /\ ~Before(x, m2[p - 1])
    BY <1>8, <1>9, <2>2
  <2>4. End(m2[i + 1]) <= m2[p - 1].location
    BY <1>0, <1>5, <2>2
  <2>5. m2[p - 1] \in RegionT /\ x \in RegionT
    BY <1>0, <2>2 DEF Changed, IsRest
  <2>6. m2[p - 1].location = x.location
    <3>1. x.location <= m2[p - 1].location
      BY <1>3, <1>5b, <2>4
    <3>2. m2[p - 1].location \in Nat
      BY <1>5a, <2>2
    <3>3. QED
      BY <1>5b, <2>3, <3>1, <3>2
  <2>7. m2[p - 1].size \in Nat /\ x.size \in Nat /\ x.location \in Nat
    BY <2>5, RegionFields
  <2>8. m2[p - 1].size <= x.size
    BY <2>3, <2>6, <2>7 DEF Before
  <2>9. QED
    <3>1. End(m1[p - 1]) = x.location + m2[p - 1].size /\ End(x) = x.location + x.size
      BY <2>3, <2>6 DEF End
    <3>2. x.location + m2[p - 1].size <= x.location + x.size
      BY <2>7, <2>8
    <3>3. QED
      BY <3>1, <3>2
<1>21. OneHigh(m1, x.type)
  BY <1>17 DEF OneHigh
<1>22. p \in 1 .. Len(m1) /\ i + 2 <= p
  BY <1>0, <1>1, <1>7
<1>23. Loose(m1, i + 2, p)
  <2>1. \A b \in 1 .. Len(m1) : p < b => ~(x.type < m1[b].type)
    BY <1>18
  <2>2. QED
    BY <1>10, <1>11, <1>12, <1>13, <1>14, <1>21, <1>22, <2>1 DEF Loose
<1>24. Spent(m1, i + 2, p)
  BY <1>10, <1>19, <1>20 DEF Spent
<1>25. QED
  BY <1>22, <1>23, <1>24

-----------------------------------------------------------------------------
(* What trim() preserves: the highest type at every address, and that at    *)
(* most one region has a type above h.                                      *)

Regions(m) == {m[j] : j \in 1 .. Len(m)}

\* Every address of m has at least its type in m1, and m1 makes up none.
Refines(m, m1) ==
    /\ \A y \in Regions(m1) : \A a \in Nat : Covers(y, a) =>
          \E x \in Regions(m) : Covers(x, a) /\ x.type = y.type
    /\ \A x \in Regions(m) : \A a \in Nat : Covers(x, a) =>
          \E y \in Regions(m1) : Covers(y, a) /\ x.type <= y.type

Preserves(m, m1) == Refines(m, m1) /\ \A h \in Nat : OneHigh(m, h) => OneHigh(m1, h)

LEMMA RefinesSelf == ASSUME NEW m \in Seq(RegionT) PROVE Preserves(m, m)
<1>1. \A x \in Regions(m) : x.type \in Nat
  BY SeqNumbers DEF Numbers, Regions
<1>2. QED
  BY <1>1 DEF Preserves, Refines

LEMMA RefinesAgain ==
    ASSUME NEW m \in Seq(RegionT), NEW m1 \in Seq(RegionT), NEW m2 \in Seq(RegionT),
           Preserves(m, m1), Preserves(m1, m2)
    PROVE  Preserves(m, m2)
<1>1. /\ \A x \in Regions(m) : x.type \in Nat
      /\ \A x \in Regions(m1) : x.type \in Nat
      /\ \A x \in Regions(m2) : x.type \in Nat
  BY SeqNumbers DEF Numbers, Regions
<1>2. ASSUME NEW z \in Regions(m2), NEW a \in Nat, Covers(z, a)
      PROVE  \E x \in Regions(m) : Covers(x, a) /\ x.type = z.type
  <2>1. PICK y \in Regions(m1) : Covers(y, a) /\ y.type = z.type
    BY <1>2 DEF Preserves, Refines
  <2>2. PICK x \in Regions(m) : Covers(x, a) /\ x.type = y.type
    BY <2>1 DEF Preserves, Refines
  <2>3. QED
    BY <2>1, <2>2
<1>3. ASSUME NEW x \in Regions(m), NEW a \in Nat, Covers(x, a)
      PROVE  \E z \in Regions(m2) : Covers(z, a) /\ x.type <= z.type
  <2>1. PICK y \in Regions(m1) : Covers(y, a) /\ x.type <= y.type
    BY <1>3 DEF Preserves, Refines
  <2>2. PICK z \in Regions(m2) : Covers(z, a) /\ y.type <= z.type
    BY <2>1 DEF Preserves, Refines
  <2>3. x.type <= z.type
    BY <1>1, <2>1, <2>2
  <2>4. QED
    BY <2>2, <2>3
<1>4. QED
  BY <1>2, <1>3 DEF Preserves, Refines



\* Entries that keep their types keep the number of high ones.
LEMMA HighBy ==
    ASSUME NEW m, NEW m1, NEW s, Shift(m, m1, s), Len(m1) \in Nat, Len(m) \in Nat,
           \A j \in 1 .. Len(m1) : m1[j].type = m[s[j]].type
    PROVE  \A h \in Nat : OneHigh(m, h) => OneHigh(m1, h)
<1>1. SUFFICES ASSUME NEW h \in Nat, OneHigh(m, h), NEW a \in 1 .. Len(m1), NEW b \in 1 .. Len(m1),
                      m1[a].type > h, m1[b].type > h
               PROVE  a = b
  BY DEF OneHigh
<1>2. s[a] \in 1 .. Len(m) /\ s[b] \in 1 .. Len(m) /\ m[s[a]].type > h /\ m[s[b]].type > h
  BY <1>1 DEF Shift
<1>3. s[a] = s[b]
  BY <1>1, <1>2 DEF OneHigh
<1>4. a < b => s[a] < s[b]
  BY DEF Shift
<1>5. b < a => s[b] < s[a]
  BY DEF Shift
<1>6. QED
  BY <1>2, <1>3, <1>4, <1>5

\* Which regions an array without entry k has.
LEMMA DroppedRegions ==
    ASSUME NEW m \in Seq(RegionT), NEW k \in 1 .. Len(m), NEW m1, Dropped(m, k, m1)
    PROVE  /\ Regions(m1) \subseteq Regions(m)
           /\ \A j \in 1 .. Len(m) : j # k => m[j] \in Regions(m1)
<1>1. Len(m1) = Len(m) - 1 /\ Len(m) \in Nat
      /\ \A j \in 1 .. Len(m) - 1 : m1[j] = IF j < k THEN m[j] ELSE m[j + 1]
  BY DEF Dropped
<1>2. \A j \in 1 .. Len(m1) : m1[j] \in Regions(m)
  <2>1. \A j \in 1 .. Len(m1) : j \in 1 .. Len(m) /\ j + 1 \in 1 .. Len(m)
    BY <1>1
  <2>2. QED
    BY <1>1, <2>1 DEF Regions
<1>3. ASSUME NEW j \in 1 .. Len(m), j # k PROVE m[j] \in Regions(m1)
  <2>1. CASE j < k
    <3>1. j \in 1 .. Len(m1) /\ m1[j] = m[j]
      BY <1>1, <2>1
    <3>2. QED
      BY <3>1 DEF Regions
  <2>2. CASE k < j
    <3>1. j - 1 \in 1 .. Len(m1) /\ ~(j - 1 < k) /\ (j - 1) + 1 = j
      BY <1>1, <2>2
    <3>2. m1[j - 1] = m[j]
      BY <1>1, <3>1
    <3>3. QED
      BY <3>1, <3>2 DEF Regions
  <2>3. QED
    BY <1>3, <2>1, <2>2
<1>4. QED
  BY <1>2, <1>3 DEF Regions

\* A region is dropped that another of at least its type encloses.
LEMMA DropPreserves ==
    ASSUME NEW m \in Seq(RegionT), NEW k \in 1 .. Len(m), NEW m1, Dropped(m, k, m1),
           NEW c \in 1 .. Len(m), c # k, m[k].type <= m[c].type,
           m[c].location <= m[k].location, End(m[k]) <= End(m[c])
    PROVE  Preserves(m, m1)
<1>0. Numbers(m) /\ Len(m) \in Nat /\ Len(m1) \in Nat
  BY SeqNumbers DEF Dropped
<1>1. \A j \in 1 .. Len(m) : m[j].type \in Nat /\ m[j].location \in Nat /\ End(m[j]) \in Nat
  BY <1>0 DEF Numbers
<1>2. \A y \in Regions(m1) : \A a \in Nat : Covers(y, a) =>
          \E x \in Regions(m) : Covers(x, a) /\ x.type = y.type
  BY DroppedRegions
<1>3. ASSUME NEW j \in 1 .. Len(m), NEW a \in Nat, Covers(m[j], a)
      PROVE  \E y \in Regions(m1) : Covers(y, a) /\ m[j].type <= y.type
  <2>1. CASE j # k
    <3>1. m[j] \in Regions(m1)
      BY <2>1, DroppedRegions
    <3>2. m[j].type <= m[j].type
      BY <1>1
    <3>3. QED
      BY <1>3, <3>1, <3>2
  <2>2. CASE j = k
    <3>1. m[c] \in Regions(m1)
      BY DroppedRegions
    <3>2. Covers(m[c], a)
      BY <1>1, <1>3, <2>2 DEF Covers
    <3>3. QED
      BY <2>2, <3>1, <3>2
  <2>3. QED
    BY <2>1, <2>2
<1>4. Refines(m, m1)
  BY <1>2, <1>3 DEF Refines, Regions
<1>5. \A h \in Nat : OneHigh(m, h) => OneHigh(m1, h)
  <2>1. Shift(m, m1, Except(m, k)) /\ \A j \in 1 .. Len(m1) : m1[j] = m[Except(m, k)[j]]
    BY DroppedShift
  <2>2. QED
    BY <1>0, <2>1, HighBy
<1>6. QED
  BY <1>4, <1>5 DEF Preserves

\* Neighbours of the same type that touch are joined.
LEMMA JoinPreserves ==
    ASSUME NEW m, NEW i, Neighbours(m, i), Touch(m, i), m[i].type = m[i + 1].type,
           NEW m1, JoinedAt(m, i, m1)
    PROVE  Preserves(m, m1)
<1>0. m \in Seq(RegionT) /\ i \in 1 .. Len(m) - 1 /\ Numbers(m) /\ Len(m) \in Nat /\ i \in Nat
      /\ i \in 1 .. Len(m) /\ i + 1 \in 1 .. Len(m) /\ Numbers(m1) /\ Len(m1) = Len(m) - 1
  BY SeqNumbers DEF Neighbours, JoinedAt
<1>1. \A j \in 1 .. Len(m) : m[j].type \in Nat /\ m[j].location \in Nat /\ End(m[j]) \in Nat
  BY <1>0 DEF Numbers
<1>2. /\ i \in 1 .. Len(m1) /\ m1[i].location = m[i].location /\ m1[i].type = m[i].type
      /\ End(m1[i]) = Larger(End(m[i]), End(m[i + 1]))
      /\ \A j \in 1 .. Len(m1) : /\ j < i => m1[j] = m[j]
                                 /\ i < j => m1[j] = m[j + 1]
  BY DEF JoinedAt
<1>3. \A j \in 1 .. Len(m1) : j \in 1 .. Len(m) /\ j + 1 \in 1 .. Len(m)
  BY <1>0
<1>4. /\ \A j \in 1 .. Len(m) : j < i => m[j] \in Regions(m1)
      /\ \A j \in 1 .. Len(m) : i + 1 < j => m[j] \in Regions(m1)
      /\ m1[i] \in Regions(m1)
  <2>1. ASSUME NEW j \in 1 .. Len(m), j < i PROVE m[j] \in Regions(m1)
    <3>1. j \in 1 .. Len(m1) /\ m1[j] = m[j]
      BY <1>0, <1>2, <2>1
    <3>2. QED
      BY <3>1 DEF Regions
  <2>2. ASSUME NEW j \in 1 .. Len(m), i + 1 < j PROVE m[j] \in Regions(m1)
    <3>1. j - 1 \in 1 .. Len(m1) /\ i < j - 1 /\ (j - 1) + 1 = j
      BY <1>0, <2>2
    <3>2. m1[j - 1] = m[j]
      BY <1>2, <3>1
    <3>3. QED
      BY <3>1, <3>2 DEF Regions
  <2>3. QED
    BY <1>2, <2>1, <2>2 DEF Regions
<1>5. ASSUME NEW a \in Nat
      PROVE  Covers(m1[i], a) <=> Covers(m[i], a) \/ Covers(m[i + 1], a)
  <2>1. m[i].location <= m[i + 1].location /\ m[i + 1].location <= End(m[i])
    BY DEF Neighbours, Touch
  <2>2. QED
    BY <1>0, <1>1, <1>2, <2>1 DEF Covers, Larger
<1>6. ASSUME NEW j \in 1 .. Len(m1), NEW a \in Nat, Covers(m1[j], a)
      PROVE  \E x \in Regions(m) : Covers(x, a) /\ x.type = m1[j].type
  <2>1. CASE j = i
    BY <1>0, <1>2, <1>5, <1>6, <2>1 DEF Regions
  <2>2. CASE j # i
    <3>1. m1[j] \in Regions(m)
      BY <1>0, <1>2, <1>3, <2>2 DEF Regions
    <3>2. QED
      BY <1>6, <3>1
  <2>3. QED
    BY <2>1, <2>2
<1>7. ASSUME NEW j \in 1 .. Len(m), NEW a \in Nat, Covers(m[j], a)
      PROVE  \E y \in Regions(m1) : Covers(y, a) /\ m[j].type <= y.type
  <2>1. CASE j = i \/ j = i + 1
    <3>1. Covers(m1[i], a)
      BY <1>5, <1>7, <2>1
    <3>2. m[j].type <= m1[i].type
      BY <1>0, <1>1, <1>2, <2>1
    <3>3. QED
      BY <1>4, <3>1, <3>2
  <2>2. CASE j < i \/ i + 1 < j
    <3>1. m[j] \in Regions(m1) /\ m[j].type <= m[j].type
      BY <1>1, <1>4, <2>2
    <3>2. QED
      BY <1>7, <3>1
  <2>3. QED
    BY <1>0, <2>1, <2>2
<1>8. Refines(m, m1)
  BY <1>6, <1>7 DEF Refines, Regions
<1>9. \A h \in Nat : OneHigh(m, h) => OneHigh(m1, h)
  <2>1. Shift(m, m1, Except(m, i + 1))
        /\ \A j \in 1 .. Len(m1) : /\ j < i + 1 => Except(m, i + 1)[j] = j
                                   /\ i + 1 <= j => Except(m, i + 1)[j] = j + 1
    BY <1>0, ExceptShifts
  <2>2. \A j \in 1 .. Len(m1) : m1[j].type = m[Except(m, i + 1)[j]].type
    <3>1. SUFFICES ASSUME NEW j \in 1 .. Len(m1) PROVE m1[j].type = m[Except(m, i + 1)[j]].type
      OBVIOUS
    <3>2. CASE j < i
      BY <1>0, <1>2, <2>1, <3>2
    <3>3. CASE j = i
      BY <1>0, <1>2, <2>1, <3>3
    <3>4. CASE i < j
      BY <1>0, <1>2, <2>1, <3>4
    <3>5. QED
      BY <1>0, <3>2, <3>3, <3>4
  <2>3. Len(m1) \in Nat
    BY <1>0 DEF Numbers
  <2>4. QED
    BY <1>0, <2>1, <2>2, <2>3, HighBy
<1>10. QED
  BY <1>8, <1>9 DEF Preserves

\* Which regions an array with a changed entry has.
LEMMA ChangedRegions ==
    ASSUME NEW m \in Seq(RegionT), NEW c \in 1 .. Len(m), NEW l, NEW e, NEW m1, Changed(m, c, l, e, m1)
    PROVE  /\ \A y \in Regions(m1) : y \in Regions(m) \/ y = m1[c]
           /\ \A j \in 1 .. Len(m) : j # c => m[j] \in Regions(m1)
           /\ m1[c] \in Regions(m1)
           /\ \A h \in Nat : OneHigh(m, h) => OneHigh(m1, h)
<1>1. Len(m1) = Len(m) /\ Len(m) \in Nat /\ \A j \in 1 .. Len(m) : j # c => m1[j] = m[j]
  BY DEF Changed
<1>2. \A j \in 1 .. Len(m1) : m1[j].type = m[j].type
  BY <1>1 DEF Changed
<1>3. \A h \in Nat : OneHigh(m, h) => OneHigh(m1, h)
  BY <1>1, <1>2 DEF OneHigh
<1>4. \A y \in Regions(m1) : y \in Regions(m) \/ y = m1[c]
  BY <1>1 DEF Regions
<1>5. \A j \in 1 .. Len(m) : j # c => m[j] \in Regions(m1)
  BY <1>1 DEF Regions
<1>6. m1[c] \in Regions(m1)
  BY <1>1 DEF Regions
<1>7. QED
  BY <1>3, <1>4, <1>5, <1>6

\* A region is cut where another of at least its type takes over.
LEMMA CutPreserves ==
    ASSUME NEW m \in Seq(RegionT), NEW c \in 1 .. Len(m), NEW l \in Nat, NEW e \in Nat, NEW m1,
           Changed(m, c, l, e, m1), m[c].location <= l, e <= End(m[c]),
           NEW d \in 1 .. Len(m), c # d, m[c].type <= m[d].type,
           m[c].location < l => m[d].location <= m[c].location /\ l <= End(m[d]),
           e < End(m[c]) => m[d].location <= e /\ End(m[c]) <= End(m[d])
    PROVE  Preserves(m, m1)
<1>0. \A j \in 1 .. Len(m) : m[j].type \in Nat /\ m[j].location \in Nat /\ End(m[j]) \in Nat
  BY SeqNumbers DEF Numbers
<1>1. m1[c].type = m[c].type /\ m1[c].location = l /\ End(m1[c]) = e
  BY DEF Changed
<1>2. ASSUME NEW y \in Regions(m1), NEW a \in Nat, Covers(y, a)
      PROVE  \E x \in Regions(m) : Covers(x, a) /\ x.type = y.type
  <2>1. CASE y \in Regions(m)
    BY <1>2, <2>1
  <2>2. CASE y = m1[c]
    <3>1. Covers(m[c], a)
      BY <1>0, <1>1, <1>2, <2>2 DEF Covers
    <3>2. m[c] \in Regions(m) /\ m[c].type = y.type
      BY <1>1, <2>2 DEF Regions
    <3>3. QED
      BY <3>1, <3>2
  <2>3. QED
    BY <2>1, <2>2, ChangedRegions
<1>3. ASSUME NEW j \in 1 .. Len(m), NEW a \in Nat, Covers(m[j], a)
      PROVE  \E y \in Regions(m1) : Covers(y, a) /\ m[j].type <= y.type
  <2>1. CASE j # c
    <3>1. m[j] \in Regions(m1)
      BY <2>1, ChangedRegions
    <3>2. m[j].type <= m[j].type
      BY <1>0
    <3>3. QED
      BY <1>3, <3>1, <3>2
  <2>2. CASE j = c /\ l <= a /\ a < e
    <3>1. m1[c] \in Regions(m1)
      BY ChangedRegions
    <3>2. Covers(m1[c], a) /\ m[j].type <= m1[c].type
      BY <1>0, <1>1, <2>2 DEF Covers
    <3>3. QED
      BY <3>1, <3>2
  <2>3. CASE j = c /\ ~(l <= a /\ a < e)
    <3>1. m[d] \in Regions(m1)
      BY ChangedRegions
    <3>2. m[c].location <= a /\ a < End(m[c])
      BY <1>3, <2>3 DEF Covers
    <3>3. m[d].location <= a /\ a < End(m[d])
      BY <1>0, <2>3, <3>2
    <3>4. QED
      BY <2>3, <3>1, <3>3 DEF Covers
  <2>4. QED
    BY <2>1, <2>2, <2>3
<1>4. Refines(m, m1)
  BY <1>2, <1>3 DEF Refines, Regions
<1>5. QED
  BY <1>4, ChangedRegions DEF Preserves

\* Which regions an array has after an insertion.
LEMMA InsertedRegions ==
    ASSUME NEW m \in Seq(RegionT), NEW x, NEW p \in 1 .. Len(m) + 1, NEW m1, Inserted(m, x, p, m1)
    PROVE  /\ Regions(m1) = Regions(m) \union {x}
           /\ \A h \in Nat : OneHigh(m, h) /\ ~(x.type > h) => OneHigh(m1, h)
           /\ \A h \in Nat : (\A y \in Regions(m) : ~(y.type > h)) => OneHigh(m1, h)
<1>0. Len(m1) = Len(m) + 1 /\ Len(m) \in Nat /\ p \in 1 .. Len(m1)
  BY DEF Inserted
<1>1. \A j \in 1 .. Len(m1) : /\ j < p => j \in 1 .. Len(m) /\ m1[j] = m[j]
                              /\ j = p => m1[j] = x
                              /\ p < j => j - 1 \in 1 .. Len(m) /\ m1[j] = m[j - 1] /\ p <= j - 1
  BY <1>0 DEF Inserted
<1>2. ASSUME NEW j \in 1 .. Len(m) PROVE m[j] \in Regions(m1)
  <2>1. CASE j < p
    BY <1>0, <1>1, <2>1 DEF Regions
  <2>2. CASE p <= j
    <3>1. j + 1 \in 1 .. Len(m1) /\ p < j + 1 /\ (j + 1) - 1 = j
      BY <1>0, <2>2
    <3>2. m1[j + 1] = m[j]
      BY <1>1, <3>1
    <3>3. QED
      BY <3>1, <3>2 DEF Regions
  <2>3. QED
    BY <1>0, <2>1, <2>2
<1>3. ASSUME NEW j \in 1 .. Len(m1) PROVE m1[j] \in Regions(m) \union {x}
  <2>1. j < p \/ j = p \/ p < j
    BY <1>0
  <2>2. QED
    BY <1>1, <2>1 DEF Regions
<1>4. x \in Regions(m1)
  BY <1>0, <1>1 DEF Regions
<1>5. Regions(m1) = Regions(m) \union {x}
  BY <1>2, <1>3, <1>4 DEF Regions
<1>6. ASSUME NEW h \in Nat, OneHigh(m, h), ~(x.type > h), NEW a \in 1 .. Len(m1), NEW b \in 1 .. Len(m1),
             m1[a].type > h, m1[b].type > h
      PROVE  a = b
  <2>1. a # p /\ b # p
    BY <1>1, <1>6
  <2> DEFINE s(j) == IF j < p THEN j ELSE j - 1
  <2>2. s(a) \in 1 .. Len(m) /\ s(b) \in 1 .. Len(m) /\ m1[a] = m[s(a)] /\ m1[b] = m[s(b)]
    BY <1>0, <1>1, <2>1
  <2>3. s(a) = s(b)
    <3> HIDE DEF s
    <3>1. QED
      BY <1>6, <2>2 DEF OneHigh
  <2>4. QED
    BY <1>0, <2>1, <2>3
<1>7. ASSUME NEW h \in Nat, \A y \in Regions(m) : ~(y.type > h), NEW a \in 1 .. Len(m1), m1[a].type > h
      PROVE  a = p
  <2>1. CASE a < p
    BY <1>1, <1>7, <2>1 DEF Regions
  <2>2. CASE p < a
    BY <1>1, <1>7, <2>2 DEF Regions
  <2>3. QED
    BY <1>0, <2>1, <2>2
<1>8. QED
  BY <1>5, <1>6, <1>7 DEF OneHigh

\* A region is split by a higher one that it encloses.
LEMMA SplitPreserves ==
    ASSUME NEW m, NEW i, Neighbours(m, i), Lower(m, i), End(m[i + 1]) < End(m[i]),
           NEW m2 \in Seq(RegionT),
           \/ Changed(m, i, m[i].location, m[i + 1].location, m2)
           \/ Dropped(m, i, m2) /\ m[i].location = m[i + 1].location,
           NEW x, IsRest(m, i, x), NEW p \in 1 .. Len(m2) + 1, NEW m1, Inserted(m2, x, p, m1)
    PROVE  Preserves(m, m1)
<1>0. m \in Seq(RegionT) /\ i \in 1 .. Len(m) - 1 /\ Len(m) \in Nat /\ i \in Nat
      /\ i \in 1 .. Len(m) /\ i + 1 \in 1 .. Len(m) /\ i # i + 1
      /\ m[i].location <= m[i + 1].location
  BY NeighbourTypes DEF Neighbours
<1>1. \A j \in 1 .. Len(m) : m[j].type \in Nat /\ m[j].location \in Nat /\ End(m[j]) \in Nat
  BY <1>0, SeqNumbers DEF Numbers
<1>2. x.type = m[i].type /\ x.location = End(m[i + 1]) /\ End(x) = End(m[i])
  BY DEF IsRest
<1>3. Regions(m1) = Regions(m2) \union {x}
  BY InsertedRegions
<1>4. /\ \A y \in Regions(m2) : \/ y \in Regions(m)
                                \/ /\ y.type = m[i].type /\ y.location = m[i].location
                                   /\ End(y) = m[i + 1].location
      /\ \A j \in 1 .. Len(m) : j # i => m[j] \in Regions(m2)
      /\ m[i].location < m[i + 1].location =>
            \E y \in Regions(m2) : /\ y.type = m[i].type /\ y.location = m[i].location
                                   /\ End(y) = m[i + 1].location
      /\ \A h \in Nat : OneHigh(m, h) => OneHigh(m2, h)
  <2>1. CASE Changed(m, i, m[i].location, m[i + 1].location, m2)
    <3>1. m2[i].type = m[i].type /\ m2[i].location = m[i].location /\ End(m2[i]) = m[i + 1].location
      BY <2>1 DEF Changed
    <3>2. /\ \A y \in Regions(m2) : y \in Regions(m) \/ y = m2[i]
          /\ \A j \in 1 .. Len(m) : j # i => m[j] \in Regions(m2)
          /\ m2[i] \in Regions(m2)
          /\ \A h \in Nat : OneHigh(m, h) => OneHigh(m2, h)
      BY <1>0, <2>1, ChangedRegions
    <3>3. QED
      BY <3>1, <3>2
  <2>2. CASE Dropped(m, i, m2) /\ m[i].location = m[i + 1].location
    <3>1. /\ Regions(m2) \subseteq Regions(m)
          /\ \A j \in 1 .. Len(m) : j # i => m[j] \in Regions(m2)
      BY <1>0, <2>2, DroppedRegions
    <3>2. Shift(m, m2, Except(m, i)) /\ \A j \in 1 .. Len(m2) : m2[j] = m[Except(m, i)[j]]
      BY <1>0, <2>2, DroppedShift
    <3>3. Len(m2) \in Nat
      BY <1>0
    <3>4. \A h \in Nat : OneHigh(m, h) => OneHigh(m2, h)
      BY <1>0, <3>2, <3>3, HighBy
    <3>5. ~(m[i].location < m[i + 1].location)
      BY <1>0, <1>1, <2>2
    <3>6. QED
      BY <3>1, <3>4, <3>5
  <2>3. QED
    BY <2>1, <2>2
<1>5. ASSUME NEW y \in Regions(m1), NEW a \in Nat, Covers(y, a)
      PROVE  \E z \in Regions(m) : Covers(z, a) /\ z.type = y.type
  <2>1. CASE y \in Regions(m)
    BY <1>5, <2>1
  <2>2. CASE y \notin Regions(m)
    <3>1. \/ y.type = m[i].type /\ y.location = m[i].location /\ End(y) = m[i + 1].location
          \/ y.type = m[i].type /\ y.location = End(m[i + 1]) /\ End(y) = End(m[i])
      BY <1>2, <1>3, <1>4, <2>2
    <3>2. m[i + 1].location < End(m[i + 1])
      BY NeighbourTypes
    <3>3. Covers(m[i], a)
      BY <1>0, <1>1, <1>5, <3>1, <3>2 DEF Covers
    <3>4. m[i] \in Regions(m) /\ m[i].type = y.type
      BY <1>0, <3>1 DEF Regions
    <3>5. QED
      BY <3>3, <3>4
  <2>3. QED
    BY <2>1, <2>2
<1>6. ASSUME NEW j \in 1 .. Len(m), NEW a \in Nat, Covers(m[j], a)
      PROVE  \E y \in Regions(m1) : Covers(y, a) /\ m[j].type <= y.type
  <2>1. CASE j # i
    <3>1. m[j] \in Regions(m1)
      BY <1>3, <1>4, <2>1
    <3>2. m[j].type <= m[j].type
      BY <1>1
    <3>3. QED
      BY <1>6, <3>1, <3>2
  <2>2. CASE j = i /\ a < m[i + 1].location
    <3>1. m[i].location <= a
      BY <1>6, <2>2 DEF Covers
    <3>2. m[i].location < m[i + 1].location
      BY <1>0, <1>1, <2>2, <3>1
    <3>3. PICK y \in Regions(m2) : /\ y.type = m[i].type /\ y.location = m[i].location
                                   /\ End(y) = m[i + 1].location
      BY <1>4, <3>2
    <3>4. Covers(y, a) /\ m[j].type <= y.type
      BY <1>0, <1>1, <2>2, <3>1, <3>3 DEF Covers
    <3>5. QED
      BY <1>3, <3>4
  <2>3. CASE j = i /\ m[i + 1].location <= a /\ a < End(m[i + 1])
    <3>1. m[i + 1] \in Regions(m1)
      BY <1>0, <1>3, <1>4
    <3>2. m[j].type <= m[i + 1].type
      <4>1. m[i].type \in Nat /\ m[i + 1].type \in Nat /\ m[i].type < m[i + 1].type
        BY <1>0, <1>1 DEF Lower
      <4>2. QED
        BY <2>3, <4>1
    <3>3. QED
      BY <2>3, <3>1, <3>2 DEF Covers
  <2>4. CASE j = i /\ End(m[i + 1]) <= a
    <3>1. a < End(m[i])
      BY <1>6, <2>4 DEF Covers
    <3>2. Covers(x, a)
      BY <1>2, <2>4, <3>1 DEF Covers
    <3>3. m[j].type <= x.type /\ x \in Regions(m1)
      BY <1>0, <1>1, <1>2, <1>3, <2>4
    <3>4. QED
      BY <3>2, <3>3
  <2>5. QED
    BY <1>0, <1>1, <2>1, <2>2, <2>3, <2>4
<1>7. Refines(m, m1)
  BY <1>5, <1>6 DEF Refines, Regions
<1>8. ASSUME NEW h \in Nat, OneHigh(m, h) PROVE OneHigh(m1, h)
  <2>1. ~(x.type > h)
    <3>1. SUFFICES ASSUME m[i].type > h PROVE FALSE
      BY <1>2
    <3>2. m[i + 1].type > h
      BY <1>0, <1>1, <3>1 DEF Lower
    <3>3. i = i + 1
      BY <1>0, <1>8, <3>1, <3>2 DEF OneHigh
    <3>4. QED
      BY <1>0, <3>3
  <2>2. QED
    BY <1>4, <1>8, <2>1, InsertedRegions
<1>9. QED
  BY <1>7, <1>8 DEF Preserves

-----------------------------------------------------------------------------
(* A call of trim() *)

\* What holds between calls of trim() in a place() that began with n regions: the
\* array is in order, or one region is loose and the array may still grow by it.
Going(m, i, n) ==
    /\ m \in Seq(RegionT) /\ i \in Nat \ {0}
    /\ \/ Ordered(m) /\ Len(m) <= n + 2
       \/ \E q : Loose(m, i, q) /\ Within(m, i, q, n)

\* A call keeps that, gets closer to the end of the array, and keeps what the map says.
Stepped(m, i, n, t) ==
    /\ t = [map |-> t.map, next |-> t.next]
    /\ Going(t.map, t.next, n) /\ Len(t.map) - t.next < Len(m) - i
    /\ Preserves(m, t.map)

LEMMA GoingNeighbours ==
    ASSUME NEW m, NEW n \in Nat, NEW i \in 1 .. Len(m) - 1, Going(m, i, n)
    PROVE  /\ m \in Seq(RegionT) /\ Len(m) \in Nat /\ i \in Nat \ {0}
           /\ Neighbours(m, i)
           /\ \/ Ordered(m) /\ Len(m) <= n + 2 /\ ~Meet(m, i)
              \/ \E q \in 1 .. Len(m) : i + 1 < q /\ Loose(m, i, q) /\ Within(m, i, q, n) /\ ~Meet(m, i)
              \/ Loose(m, i, i + 1) /\ Within(m, i, i + 1, n)
              \/ Loose(m, i, i) /\ Within(m, i, i, n)
<1>1. m \in Seq(RegionT) /\ Len(m) \in Nat /\ i \in Nat \ {0}
  BY DEF Going
<1>2. CASE Ordered(m) /\ Len(m) <= n + 2
  BY <1>1, <1>2, OrderedNeighbours
<1>3. CASE \E q : Loose(m, i, q) /\ Within(m, i, q, n)
  <2>1. PICK q : Loose(m, i, q) /\ Within(m, i, q, n)
    BY <1>3
  <2>2. q \in 1 .. Len(m) /\ i <= q
    BY <2>1 DEF Loose
  <2>3. Neighbours(m, i) /\ (i + 1 < q => ~Meet(m, i))
    BY <1>1, <2>1, LooseNeighbours
  <2>4. q = i \/ q = i + 1 \/ i + 1 < q
    BY <1>1, <2>2
  <2>5. QED
    BY <1>1, <2>1, <2>2, <2>3, <2>4
<1>4. QED
  BY <1>2, <1>3 DEF Going

LEMMA GoesOnOrdered ==
    ASSUME NEW n \in Nat, NEW m1 \in Seq(RegionT), NEW i \in Nat \ {0}, Ordered(m1), Len(m1) <= n + 2
    PROVE  Going(m1, i, n)
BY DEF Going

LEMMA GoesOnLoose ==
    ASSUME NEW n \in Nat, NEW m1 \in Seq(RegionT), NEW i \in Nat \ {0}, NEW q, Loose(m1, i, q),
           Within(m1, i, q, n)
    PROVE  Going(m1, i, n)
BY DEF Going

\* Entries of the same type that touch are joined.
LEMMA StepJoin ==
    ASSUME NEW m, NEW n \in Nat, NEW i \in 1 .. Len(m) - 1, Going(m, i, n),
           Touch(m, i), m[i].type = m[i + 1].type
    PROVE  Stepped(m, i, n, Trim(m, i))
<1>0. m \in Seq(RegionT) /\ Len(m) \in Nat /\ i \in Nat \ {0} /\ Neighbours(m, i)
  BY GoingNeighbours
<1> DEFINE m1 == TrimJoined(m, i)
<1>1. JoinedAt(m, i, m1)
  BY <1>0, TrimJoinedIs, JoinedRegion
<1>2. Trim(m, i) = [map |-> m1, next |-> i]
  BY <1>0, TrimValue
<1> HIDE DEF m1
<1>3. m1 \in Seq(RegionT) /\ Len(m1) = Len(m) - 1 /\ Len(m1) \in Nat
  BY <1>1 DEF JoinedAt
<1>4. Preserves(m, m1)
  BY <1>0, <1>1, JoinPreserves
<1>5. ASSUME Ordered(m), Len(m) <= n + 2 PROVE Going(m1, i, n)
  <2>1. Ordered(m1)
    BY <1>0, <1>1, <1>5, OrderedJoin
  <2>2. Len(m1) <= n + 2
    BY <1>0, <1>3, <1>5
  <2>3. QED
    BY <1>0, <1>3, <2>1, <2>2, GoesOnOrdered
<1>6. ASSUME NEW q, Loose(m, i, q), Within(m, i, q, n), NEW q1, Loose(m1, i, q1) PROVE Going(m1, i, n)
  <2>1. Len(m1) <= n + 1
    BY <1>0, <1>3, <1>6 DEF Within
  <2>2. Within(m1, i, q1, n)
    BY <2>1 DEF Within
  <2>3. QED
    BY <1>0, <1>3, <1>6, <2>2, GoesOnLoose
<1>7. Going(m1, i, n)
  <2>1. CASE \E q \in 1 .. Len(m) : i + 1 < q /\ Loose(m, i, q) /\ Within(m, i, q, n)
    <3>1. PICK q \in 1 .. Len(m) : i + 1 < q /\ Loose(m, i, q) /\ Within(m, i, q, n)
      BY <2>1
    <3>2. Loose(m1, i, q - 1)
      BY <1>0, <1>1, <3>1, LooseJoinBefore
    <3>3. QED
      BY <1>6, <3>1, <3>2
  <2>2. CASE Loose(m, i, i + 1) /\ Within(m, i, i + 1, n)
    <3>1. i + 1 \in {i, i + 1}
      OBVIOUS
    <3>2. Loose(m1, i, i)
      BY <1>0, <1>1, <2>2, <3>1, LooseJoin
    <3>3. QED
      BY <1>6, <2>2, <3>2
  <2>3. CASE Loose(m, i, i) /\ Within(m, i, i, n)
    <3>1. i \in {i, i + 1}
      OBVIOUS
    <3>2. Loose(m1, i, i)
      BY <1>0, <1>1, <2>3, <3>1, LooseJoin
    <3>3. QED
      BY <1>6, <2>3, <3>2
  <2>4. QED
    BY <1>5, <2>1, <2>2, <2>3, GoingNeighbours
<1>8. Len(m1) - i < Len(m) - i
  BY <1>0, <1>3
<1>9. QED
  BY <1>2, <1>4, <1>7, <1>8 DEF Stepped

\* Entries that do not meet are passed.
LEMMA StepPass ==
    ASSUME NEW m, NEW n \in Nat, NEW i \in 1 .. Len(m) - 1, Going(m, i, n),
           ~Meet(m, i), ~(Touch(m, i) /\ m[i].type = m[i + 1].type)
    PROVE  Stepped(m, i, n, Trim(m, i))
<1>0. m \in Seq(RegionT) /\ Len(m) \in Nat /\ i \in Nat \ {0} /\ Neighbours(m, i)
      /\ i + 1 \in Nat \ {0} /\ i \in 1 .. Len(m)
  BY GoingNeighbours
<1>1. Trim(m, i) = [map |-> m, next |-> i + 1]
  BY <1>0, TrimValue
<1>2. ASSUME Ordered(m), Len(m) <= n + 2 PROVE Going(m, i + 1, n)
  BY <1>0, <1>2, GoesOnOrdered
<1>3. ASSUME NEW q, i < q, Loose(m, i, q), Within(m, i, q, n) PROVE Going(m, i + 1, n)
  <2>1. Loose(m, i + 1, q) /\ (Spent(m, i, q) => Spent(m, i + 1, q))
    BY <1>0, <1>3, LoosePass
  <2>2. Within(m, i + 1, q, n)
    BY <1>3, <2>1 DEF Within
  <2>3. QED
    BY <1>0, <2>1, <2>2, GoesOnLoose
<1>4. ASSUME Loose(m, i, i), Within(m, i, i, n) PROVE Going(m, i + 1, n)
  <2>1. Ordered(m)
    BY <1>0, <1>4, LooseEnds
  <2>2. Len(m) <= n + 2
    BY <1>0, <1>4 DEF Within
  <2>3. QED
    BY <1>2, <2>1, <2>2
<1>5. Going(m, i + 1, n)
  <2>1. i < i + 1
    BY <1>0
  <2>2. CASE \E q \in 1 .. Len(m) : i + 1 < q /\ Loose(m, i, q) /\ Within(m, i, q, n)
    <3>1. PICK q \in 1 .. Len(m) : i + 1 < q /\ Loose(m, i, q) /\ Within(m, i, q, n)
      BY <2>2
    <3>2. i < q
      BY <1>0, <3>1
    <3>3. QED
      BY <1>3, <3>1, <3>2
  <2>3. QED
    BY <1>2, <1>3, <1>4, <2>1, <2>2, GoingNeighbours
<1>6. Len(m) - (i + 1) < Len(m) - i
  BY <1>0
<1>7. QED
  BY <1>0, <1>1, <1>5, <1>6, RefinesSelf DEF Stepped

\* Of entries that meet, one is loose.
LEMMA MeetLoose ==
    ASSUME NEW m, NEW n \in Nat, NEW i \in 1 .. Len(m) - 1, Going(m, i, n), Meet(m, i)
    PROVE  /\ m \in Seq(RegionT) /\ Len(m) \in Nat /\ i \in Nat \ {0} /\ i + 1 \in Nat \ {0}
           /\ Neighbours(m, i) /\ i \in 1 .. Len(m) /\ i + 1 \in 1 .. Len(m) /\ i # i + 1
           /\ Len(m) <= n + 2
           /\ \/ Loose(m, i, i + 1) /\ Within(m, i, i + 1, n)
              \/ Loose(m, i, i) /\ Within(m, i, i, n)
<1>1. m \in Seq(RegionT) /\ Len(m) \in Nat /\ i \in Nat \ {0} /\ Neighbours(m, i)
  BY GoingNeighbours
<1>2. \/ Loose(m, i, i + 1) /\ Within(m, i, i + 1, n)
      \/ Loose(m, i, i) /\ Within(m, i, i, n)
  BY GoingNeighbours
<1>3. Len(m) <= n + 2
  BY <1>1, <1>2 DEF Within
<1>4. QED
  BY <1>1, <1>2, <1>3

\* An array that has become shorter, and where trim() goes on.
LEMMA Shorter ==
    ASSUME NEW m, NEW n \in Nat, NEW i \in 1 .. Len(m) - 1, Going(m, i, n), Meet(m, i),
           NEW m1 \in Seq(RegionT), Len(m1) = Len(m) - 1, Ordered(m1) \/ Loose(m1, i, i),
           Preserves(m, m1)
    PROVE  Stepped(m, i, n, [map |-> m1, next |-> i])
<1>1. Len(m) \in Nat /\ i \in Nat \ {0} /\ Len(m) <= n + 2
  BY MeetLoose
<1>2. Len(m1) <= n + 1 /\ Len(m1) <= n + 2 /\ Len(m1) - i < Len(m) - i
  BY <1>1
<1>3. Within(m1, i, i, n)
  BY <1>2 DEF Within
<1>4. Going(m1, i, n)
  BY <1>1, <1>2, <1>3, GoesOnOrdered, GoesOnLoose
<1>5. QED
  BY <1>2, <1>4 DEF Stepped

\* Entry i is enclosed by a higher one.
LEMMA StepDropLeft ==
    ASSUME NEW m, NEW n \in Nat, NEW i \in 1 .. Len(m) - 1, Going(m, i, n), Meet(m, i), Lower(m, i),
           m[i].location = m[i + 1].location, End(m[i]) <= End(m[i + 1])
    PROVE  Stepped(m, i, n, Trim(m, i))
<1>0. m \in Seq(RegionT) /\ Len(m) \in Nat /\ i \in Nat \ {0} /\ Neighbours(m, i)
      /\ i \in 1 .. Len(m) /\ i + 1 \in 1 .. Len(m) /\ i # i + 1
  BY MeetLoose
<1>1. Trim(m, i) = [map |-> RemoveEntry(m, i), next |-> i]
  BY <1>0, TrimValue
<1> DEFINE m1 == RemoveEntry(m, i)
<1>2. Dropped(m, i, m1) /\ m1 \in Seq(RegionT) /\ Len(m1) = Len(m) - 1
  BY <1>0, RemoveEntryIs DEF Dropped
<1> HIDE DEF m1
<1>3. m[i].type <= m[i + 1].type /\ m[i + 1].location <= m[i].location
  BY <1>0, NeighbourTypes DEF Lower
<1>4. Preserves(m, m1)
  BY <1>0, <1>2, <1>3, DropPreserves
<1>5. Ordered(m1) \/ Loose(m1, i, i)
  <2>1. CASE Loose(m, i, i + 1)
    BY <1>0, <1>2, <2>1, DropBefore
  <2>2. CASE Loose(m, i, i)
    BY <1>0, <1>2, <2>2, DropLoose
  <2>3. QED
    BY <2>1, <2>2, MeetLoose
<1>6. QED
  BY <1>1, <1>2, <1>4, <1>5, Shorter DEF m1

\* Entry i + 1 is enclosed by a higher one.
LEMMA StepDropRight ==
    ASSUME NEW m, NEW n \in Nat, NEW i \in 1 .. Len(m) - 1, Going(m, i, n), Meet(m, i), Higher(m, i),
           End(m[i + 1]) <= End(m[i])
    PROVE  Stepped(m, i, n, Trim(m, i))
<1>0. m \in Seq(RegionT) /\ Len(m) \in Nat /\ i \in Nat \ {0} /\ Neighbours(m, i)
      /\ i \in 1 .. Len(m) /\ i + 1 \in 1 .. Len(m) /\ i # i + 1
  BY MeetLoose
<1>1. Trim(m, i) = [map |-> RemoveEntry(m, i + 1), next |-> i]
  BY <1>0, TrimValue
<1> DEFINE m1 == RemoveEntry(m, i + 1)
<1>2. Dropped(m, i + 1, m1) /\ m1 \in Seq(RegionT) /\ Len(m1) = Len(m) - 1
  BY <1>0, RemoveEntryIs DEF Dropped
<1> HIDE DEF m1
<1>3. m[i + 1].type <= m[i].type /\ m[i].location <= m[i + 1].location
  <2>1. m[i + 1].type <= m[i].type
    BY <1>0, NeighbourTypes DEF Higher
  <2>2. QED
    BY <1>0, <2>1 DEF Neighbours
<1>4. Preserves(m, m1)
  BY <1>0, <1>2, <1>3, DropPreserves
<1>5. Ordered(m1) \/ Loose(m1, i, i)
  <2>1. CASE Loose(m, i, i + 1)
    BY <1>0, <1>2, <2>1, DropLoose
  <2>2. CASE Loose(m, i, i)
    BY <1>0, <1>2, <2>2, DropBehind
  <2>3. QED
    BY <2>1, <2>2, MeetLoose
<1>6. QED
  BY <1>1, <1>2, <1>4, <1>5, Shorter DEF m1

\* An array of the same length, and where trim() goes on.
LEMMA AsLong ==
    ASSUME NEW m, NEW n \in Nat, NEW i \in 1 .. Len(m) - 1, Going(m, i, n), Meet(m, i),
           NEW m1 \in Seq(RegionT), Len(m1) = Len(m), Preserves(m, m1),
           \/ Ordered(m1)
           \/ /\ Within(m, i, i + 1, n) /\ Loose(m1, i + 1, i + 1)
              /\ Spent(m, i, i + 1) => Spent(m1, i + 1, i + 1)
    PROVE  Stepped(m, i, n, [map |-> m1, next |-> i + 1])
<1>1. Len(m) \in Nat /\ i \in Nat \ {0} /\ i + 1 \in Nat \ {0} /\ Len(m) <= n + 2
  BY MeetLoose
<1>2. Len(m1) <= n + 2 /\ Len(m1) - (i + 1) < Len(m) - i
  BY <1>1
<1>3. Going(m1, i + 1, n)
  <2>1. CASE Ordered(m1)
    BY <1>1, <1>2, <2>1, GoesOnOrdered
  <2>2. CASE /\ Within(m, i, i + 1, n) /\ Loose(m1, i + 1, i + 1)
             /\ Spent(m, i, i + 1) => Spent(m1, i + 1, i + 1)
    <3>1. Within(m1, i + 1, i + 1, n)
      BY <2>2 DEF Within
    <3>2. QED
      BY <1>1, <2>2, <3>1, GoesOnLoose
  <2>3. QED
    BY <2>1, <2>2
<1>4. QED
  BY <1>2, <1>3 DEF Stepped

\* Entry i is cut where a higher one begins.
LEMMA StepCut ==
    ASSUME NEW m, NEW n \in Nat, NEW i \in 1 .. Len(m) - 1, Going(m, i, n), Meet(m, i), Lower(m, i),
           m[i].location < m[i + 1].location, End(m[i]) <= End(m[i + 1])
    PROVE  Stepped(m, i, n, Trim(m, i))
<1>0. m \in Seq(RegionT) /\ Len(m) \in Nat /\ i \in Nat \ {0} /\ Neighbours(m, i)
      /\ i \in 1 .. Len(m) /\ i + 1 \in 1 .. Len(m) /\ i # i + 1
  BY MeetLoose
<1>1. /\ m[i].location \in Nat /\ m[i + 1].location \in Nat /\ m[i].type \in Nat /\ m[i + 1].type \in Nat
      /\ End(m[i]) \in Nat /\ End(m[i + 1]) \in Nat
  BY <1>0, NeighbourTypes
<1>2. Trim(m, i) = [map |-> TrimCut(m, i), next |-> i + 1]
  BY <1>0, TrimValue
<1> DEFINE m1 == TrimCut(m, i)
<1>3. Replaced(m, i, Region(m[i].type, m[i].location, m[i + 1].location - m[i].location), m1)
  BY <1>0, TrimCutIs
<1> HIDE DEF m1
<1>4. Changed(m, i, m[i].location, m[i + 1].location, m1)
  BY <1>0, <1>1, <1>3, ReplacedChanges
<1>5. m1 \in Seq(RegionT) /\ Len(m1) = Len(m)
  BY <1>4 DEF Changed
<1>6. Preserves(m, m1)
  <2>1. m[i].type <= m[i + 1].type /\ m[i].location <= m[i].location /\ ~(m[i].location < m[i].location)
        /\ m[i + 1].location <= End(m[i]) /\ m[i + 1].location <= m[i + 1].location
    BY <1>1 DEF Lower, Meet
  <2>2. QED
    BY <1>0, <1>1, <1>4, <2>1, CutPreserves
<1>7. \/ Ordered(m1)
      \/ /\ Within(m, i, i + 1, n) /\ Loose(m1, i + 1, i + 1)
         /\ Spent(m, i, i + 1) => Spent(m1, i + 1, i + 1)
  <2>1. CASE Loose(m, i, i + 1) /\ Within(m, i, i + 1, n)
    BY <1>0, <1>4, <2>1, CutBefore
  <2>2. CASE Loose(m, i, i)
    BY <1>0, <1>4, <2>2, CutLoose
  <2>3. QED
    BY <2>1, <2>2, MeetLoose
<1>8. QED
  BY <1>2, <1>5, <1>6, <1>7, AsLong DEF m1

\* Entry i + 1 is cut where a higher one ends.
LEMMA StepPush ==
    ASSUME NEW m, NEW n \in Nat, NEW i \in 1 .. Len(m) - 1, Going(m, i, n), Meet(m, i), Higher(m, i),
           End(m[i]) < End(m[i + 1])
    PROVE  Stepped(m, i, n, Trim(m, i))
<1>0. m \in Seq(RegionT) /\ Len(m) \in Nat /\ i \in Nat \ {0} /\ Neighbours(m, i)
      /\ i \in 1 .. Len(m) /\ i + 1 \in 1 .. Len(m) /\ i # i + 1
  BY MeetLoose
<1>1. /\ m[i].location \in Nat /\ m[i + 1].location \in Nat /\ m[i].type \in Nat /\ m[i + 1].type \in Nat
      /\ End(m[i]) \in Nat /\ End(m[i + 1]) \in Nat /\ m[i + 1].type \in MemoryType
      /\ m[i].location <= m[i + 1].location
  BY <1>0, NeighbourTypes DEF Neighbours
<1> DEFINE m1 == [m EXCEPT ![i + 1] = Remains(m, i)]
<1>2. Trim(m, i) = [map |-> m1, next |-> i + 1]
  BY <1>0, TrimValue
<1>3. Replaced(m, i + 1, Region(m[i + 1].type, End(m[i]), End(m[i + 1]) - End(m[i])), m1)
  <2>1. Remains(m, i) \in RegionT
    BY <1>1, NewEnds DEF Remains
  <2>2. QED
    BY <1>0, <2>1 DEF Replaced, Remains
<1> HIDE DEF m1
<1>4. Changed(m, i + 1, End(m[i]), End(m[i + 1]), m1)
  BY <1>0, <1>1, <1>3, ReplacedChanges
<1>5. m1 \in Seq(RegionT) /\ Len(m1) = Len(m)
  BY <1>4 DEF Changed
<1>6. Preserves(m, m1)
  <2>1. m[i + 1].type <= m[i].type /\ m[i + 1].location <= End(m[i]) /\ End(m[i]) <= End(m[i])
        /\ End(m[i + 1]) <= End(m[i + 1]) /\ ~(End(m[i + 1]) < End(m[i + 1]))
    BY <1>1 DEF Higher, Meet
  <2>2. QED
    BY <1>0, <1>1, <1>4, <2>1, CutPreserves
<1>7. \/ Ordered(m1)
      \/ /\ Within(m, i, i + 1, n) /\ Loose(m1, i + 1, i + 1)
         /\ Spent(m, i, i + 1) => Spent(m1, i + 1, i + 1)
  <2>1. CASE Loose(m, i, i + 1) /\ Within(m, i, i + 1, n)
    BY <1>0, <1>4, <2>1, PushBehind
  <2>2. CASE Loose(m, i, i)
    BY <1>0, <1>4, <2>2, CutBehind
  <2>3. QED
    BY <2>1, <2>2, MeetLoose
<1>8. QED
  BY <1>2, <1>5, <1>6, <1>7, AsLong DEF m1

\* What is left of entry i behind entry i + 1 is a region.
LEMMA RestIs ==
    ASSUME NEW m, NEW i, Neighbours(m, i), End(m[i + 1]) < End(m[i])
    PROVE  IsRest(m, i, Rest(m, i)) /\ Rest(m, i) \in RegionT
<1>1. m[i].type \in MemoryType /\ End(m[i]) \in Nat /\ End(m[i + 1]) \in Nat
  BY NeighbourTypes
<1>2. QED
  BY <1>1, NewEnds DEF Rest, IsRest

\* Entry i is split by a higher one.
LEMMA StepSplit ==
    ASSUME NEW m, NEW n \in Nat, NEW i \in 1 .. Len(m) - 1, Going(m, i, n), Meet(m, i), Lower(m, i),
           m[i].location < m[i + 1].location, End(m[i + 1]) < End(m[i])
    PROVE  Stepped(m, i, n, Trim(m, i))
<1>0. m \in Seq(RegionT) /\ Len(m) \in Nat /\ i \in Nat \ {0} /\ Neighbours(m, i)
      /\ i \in 1 .. Len(m) /\ i + 1 \in 1 .. Len(m) /\ i # i + 1 /\ i + 2 \in Nat \ {0} /\ i < i + 1
  <2>1. m \in Seq(RegionT) /\ Len(m) \in Nat /\ i \in Nat \ {0} /\ Neighbours(m, i)
        /\ i \in 1 .. Len(m) /\ i + 1 \in 1 .. Len(m) /\ i # i + 1
    BY MeetLoose
  <2>2. QED
    BY <2>1
<1>1. /\ m[i].location \in Nat /\ m[i + 1].location \in Nat /\ m[i].type \in Nat /\ m[i + 1].type \in Nat
      /\ End(m[i]) \in Nat /\ End(m[i + 1]) \in Nat
  BY <1>0, NeighbourTypes
<1> DEFINE m2 == TrimCut(m, i)
           x  == Rest(m, i)
           m1 == Insert(m2, x)
<1>2. Trim(m, i) = [map |-> m1, next |-> i + 2]
  <2>1. End(m[i]) > End(m[i + 1])
    BY <1>1
  <2>2. QED
    BY <1>0, <2>1, TrimValue
<1>3. Replaced(m, i, Region(m[i].type, m[i].location, m[i + 1].location - m[i].location), m2)
  BY <1>0, TrimCutIs
<1>4. IsRest(m, i, x) /\ x \in RegionT
  BY <1>0, RestIs
<1> HIDE DEF m2, x
<1>5. Changed(m, i, m[i].location, m[i + 1].location, m2)
  BY <1>0, <1>1, <1>3, ReplacedChanges
<1>6. m2 \in Seq(RegionT) /\ Len(m2) = Len(m)
  BY <1>5 DEF Changed
<1>7. Ordered(m2)
  <2>1. CASE Loose(m, i, i + 1)
    BY <1>0, <1>5, <2>1, SplitBefore
  <2>2. CASE Loose(m, i, i)
    BY <1>0, <1>5, <2>2, CutLoose
  <2>3. QED
    BY <2>1, <2>2, MeetLoose
<1>8. PICK p \in 1 .. Len(m2) + 1 : Inserted(m2, x, p, m1)
  BY <1>4, <1>6, <1>7, InsertInserts
<1> HIDE DEF m1
<1>9. m1 \in Seq(RegionT) /\ Len(m1) = Len(m) + 1 /\ p \in 1 .. Len(m) + 1
  BY <1>6, <1>8 DEF Inserted
<1>10. Preserves(m, m1)
  BY <1>0, <1>4, <1>5, <1>6, <1>8, SplitPreserves
<1>11. Going(m1, i + 2, n)
  <2>1. CASE Loose(m, i, i + 1) /\ Within(m, i, i + 1, n)
    <3>1. ~Spent(m, i, i + 1)
      <4>1. (i + 1) - 1 = i
        BY <1>0
      <4>2. Spent(m, i, i + 1) => End(m[i]) <= End(m[i + 1])
        BY <1>0, <4>1 DEF Spent
      <4>3. QED
        BY <1>1, <4>2
    <3>2. Len(m1) <= n + 2
      BY <1>0, <1>9, <2>1, <3>1 DEF Within
    <3>3. \A j \in 1 .. Len(m2) : End(m2[j]) <= End(m[i + 1]) \/ End(m[i]) <= m2[j].location
      BY <1>0, <1>5, <2>1, SplitBefore
    <3>4. \A j \in 1 .. Len(m2) : End(m2[j]) <= x.location \/ End(x) <= m2[j].location
      BY <1>4, <3>3 DEF IsRest
    <3>5. Ordered(m1)
      BY <1>4, <1>6, <1>7, <1>8, <3>4, InsertApart
    <3>6. QED
      BY <1>0, <1>9, <3>2, <3>5, GoesOnOrdered
  <2>2. CASE Loose(m, i, i) /\ Within(m, i, i, n)
    <3>1. ~Spent(m, i, i)
      <4>1. Spent(m, i, i) => m[i + 1].type <= m[i].type
        BY <1>0 DEF Spent
      <4>2. QED
        BY <1>1, <4>1 DEF Lower
    <3>2. Len(m1) <= n + 2
      BY <1>0, <1>9, <2>2, <3>1 DEF Within
    <3>3. Loose(m1, i + 2, p) /\ Spent(m1, i + 2, p)
      BY <1>0, <1>4, <1>5, <1>7, <1>8, <1>9, <2>2, SplitLoose
    <3>4. Within(m1, i + 2, p, n)
      BY <3>2, <3>3 DEF Within
    <3>5. QED
      BY <1>0, <1>9, <3>3, <3>4, GoesOnLoose
  <2>3. QED
    BY <2>1, <2>2, MeetLoose
<1>12. Len(m1) - (i + 2) < Len(m) - i
  BY <1>0, <1>9
<1>13. QED
  BY <1>2, <1>10, <1>11, <1>12 DEF Stepped

\* Entry i is split by a higher one that begins where it does.
LEMMA StepSplitFront ==
    ASSUME NEW m, NEW n \in Nat, NEW i \in 1 .. Len(m) - 1, Going(m, i, n), Meet(m, i), Lower(m, i),
           m[i].location = m[i + 1].location, End(m[i + 1]) < End(m[i])
    PROVE  Stepped(m, i, n, Trim(m, i))
<1>0. m \in Seq(RegionT) /\ Len(m) \in Nat /\ i \in Nat \ {0} /\ Neighbours(m, i)
      /\ i \in 1 .. Len(m) /\ i + 1 \in 1 .. Len(m) /\ i # i + 1 /\ i + 2 \in Nat \ {0} /\ i < i + 1
      /\ Len(m) <= n + 2
  <2>1. m \in Seq(RegionT) /\ Len(m) \in Nat /\ i \in Nat \ {0} /\ Neighbours(m, i)
        /\ i \in 1 .. Len(m) /\ i + 1 \in 1 .. Len(m) /\ i # i + 1 /\ Len(m) <= n + 2
    BY MeetLoose
  <2>2. QED
    BY <2>1
<1>1. /\ m[i].location \in Nat /\ m[i + 1].location \in Nat /\ m[i].type \in Nat /\ m[i + 1].type \in Nat
      /\ End(m[i]) \in Nat /\ End(m[i + 1]) \in Nat
  BY <1>0, NeighbourTypes
<1>2. Loose(m, i, i + 1)
  <2>1. SUFFICES ASSUME Loose(m, i, i) PROVE FALSE
    BY MeetLoose
  <2>2. m[i].location < m[i + 1].location \/ End(m[i]) <= End(m[i + 1])
    BY <1>0, <2>1 DEF Loose, Lower
  <2>3. QED
    BY <1>1, <2>2
<1> DEFINE m2 == RemoveEntry(TrimCut(m, i), i)
           x  == Rest(m, i)
           m1 == Insert(m2, x)
<1>3. Trim(m, i) = [map |-> m1, next |-> i + 2]
  <2>1. End(m[i]) > End(m[i + 1])
    BY <1>1
  <2>2. QED
    BY <1>0, <2>1, TrimValue
<1>4. Dropped(m, i, m2)
  BY <1>0, TrimCutIs
<1>5. IsRest(m, i, x) /\ x \in RegionT
  BY <1>0, RestIs
<1> HIDE DEF m2, x
<1>6. m2 \in Seq(RegionT) /\ Len(m2) = Len(m) - 1
  BY <1>4 DEF Dropped
<1>7. Ordered(m2)
      /\ \A j \in 1 .. Len(m2) : End(m2[j]) <= End(m[i + 1]) \/ End(m[i]) <= m2[j].location
  BY <1>0, <1>2, <1>4, SplitBefore
<1>8. PICK p \in 1 .. Len(m2) + 1 : Inserted(m2, x, p, m1)
  BY <1>5, <1>6, <1>7, InsertInserts
<1> HIDE DEF m1
<1>9. m1 \in Seq(RegionT) /\ Len(m1) = Len(m)
  BY <1>0, <1>6, <1>8 DEF Inserted
<1>10. Preserves(m, m1)
  BY <1>0, <1>4, <1>5, <1>6, <1>8, SplitPreserves
<1>11. Ordered(m1)
  <2>1. \A j \in 1 .. Len(m2) : End(m2[j]) <= x.location \/ End(x) <= m2[j].location
    BY <1>5, <1>7 DEF IsRest
  <2>2. QED
    BY <1>5, <1>6, <1>7, <1>8, <2>1, InsertApart
<1>12. Len(m1) <= n + 2 /\ Len(m1) - (i + 2) < Len(m) - i
  BY <1>0, <1>9
<1>13. Going(m1, i + 2, n)
  BY <1>0, <1>9, <1>11, <1>12, GoesOnOrdered
<1>14. QED
  BY <1>3, <1>10, <1>12, <1>13 DEF Stepped

\* Every call of trim() keeps the map going.
LEMMA TrimSteps ==
    ASSUME NEW m, NEW n \in Nat, NEW i \in 1 .. Len(m) - 1, Going(m, i, n)
    PROVE  Stepped(m, i, n, Trim(m, i))
<1>0. Neighbours(m, i)
  BY GoingNeighbours
<1>1. /\ m[i].location \in Nat /\ m[i + 1].location \in Nat /\ m[i].type \in Nat /\ m[i + 1].type \in Nat
      /\ End(m[i]) \in Nat /\ End(m[i + 1]) \in Nat
  BY <1>0, NeighbourTypes
<1>2. m[i].location <= m[i + 1].location
  BY <1>0 DEF Neighbours
<1>3. CASE Touch(m, i) /\ m[i].type = m[i + 1].type
  BY <1>3, StepJoin
<1>4. CASE ~Meet(m, i) /\ ~(Touch(m, i) /\ m[i].type = m[i + 1].type)
  BY <1>4, StepPass
<1>5. CASE Meet(m, i) /\ Lower(m, i)
  <2>1. m[i].location < m[i + 1].location \/ m[i].location = m[i + 1].location
    BY <1>1, <1>2
  <2>2. End(m[i]) <= End(m[i + 1]) \/ End(m[i + 1]) < End(m[i])
    BY <1>1
  <2>3. QED
    BY <1>5, <2>1, <2>2, StepDropLeft, StepCut, StepSplit, StepSplitFront
<1>6. CASE Meet(m, i) /\ Higher(m, i)
  <2>1. End(m[i]) < End(m[i + 1]) \/ End(m[i + 1]) <= End(m[i])
    BY <1>1
  <2>2. QED
    BY <1>6, <2>1, StepDropRight, StepPush
<1>7. Meet(m, i) => Touch(m, i)
  BY <1>1 DEF Meet, Touch
<1>8. m[i].type = m[i + 1].type \/ Lower(m, i) \/ Higher(m, i)
  BY <1>1 DEF Lower, Higher
<1>9. QED
  BY <1>3, <1>4, <1>5, <1>6, <1>7, <1>8

-----------------------------------------------------------------------------
(* place() *)

\* The loop is at s after i of at most k calls of trim() on m.
After(m, n, k, i) ==
    {s \in [map : Seq(RegionT), next : Nat] :
        /\ Going(s.map, s.next, n) /\ Preserves(m, s.map)
        /\ Len(s.map) - s.next <= k - 1 - i \/ s.next + 1 > Len(s.map)}

LEMMA TrimmedSteps ==
    ASSUME NEW m \in Seq(RegionT), NEW n \in Nat, NEW k \in Nat, NEW i \in Nat \ {0}, NEW s \in After(m, n, k, i - 1)
    PROVE  Trimmed(s) \in After(m, n, k, i)
<1>1. /\ s \in [map : Seq(RegionT), next : Nat] /\ Going(s.map, s.next, n) /\ Preserves(m, s.map)
      /\ Len(s.map) - s.next <= k - 1 - (i - 1) \/ s.next + 1 > Len(s.map)
  BY DEF After
<1>2. s.map \in Seq(RegionT) /\ Len(s.map) \in Nat /\ s.next \in Nat \ {0}
  BY <1>1 DEF Going
<1>3. CASE s.next + 1 > Len(s.map)
  BY <1>1, <1>3 DEF Trimmed, After
<1>4. CASE ~(s.next + 1 > Len(s.map))
  <2> DEFINE t == Trim(s.map, s.next)
  <2>1. Trimmed(s) = t
    BY <1>4 DEF Trimmed
  <2>2. Stepped(s.map, s.next, n, t)
    BY <1>1, <1>2, <1>4, TrimSteps
  <2> HIDE DEF t
  <2>3. /\ t = [map |-> t.map, next |-> t.next] /\ t.map \in Seq(RegionT) /\ t.next \in Nat
        /\ Len(t.map) \in Nat
    BY <2>2 DEF Stepped, Going
  <2>4. t \in [map : Seq(RegionT), next : Nat]
    BY <2>3
  <2>5. Preserves(m, t.map)
    BY <1>1, <1>2, <2>2, <2>3, RefinesAgain DEF Stepped
  <2>6. Len(t.map) - t.next < Len(s.map) - s.next /\ Going(t.map, t.next, n)
    BY <2>2 DEF Stepped
  <2>7. Len(t.map) - t.next <= k - 1 - i
    BY <1>1, <1>2, <1>4, <2>3, <2>6
  <2>8. QED
    BY <2>1, <2>4, <2>5, <2>6, <2>7 DEF After
<1>5. QED
  BY <1>3, <1>4

\* Where the loop of place() ends.
LEMMA TrimAllEnds ==
    ASSUME NEW m \in Seq(RegionT), NEW n \in Nat, Going(m, 1, n)
    PROVE  /\ TrimAll(m) \in Seq(RegionT) /\ Ordered(TrimAll(m)) /\ Len(TrimAll(m)) <= n + 2
           /\ Preserves(m, TrimAll(m))
<1> DEFINE N == Len(m)
           s0 == [map |-> m, next |-> 1]
           S == [map : Seq(RegionT), next : Nat]
           P(g) == g = [j \in 0 .. N |-> IF j = 0 THEN s0 ELSE Trimmed(g[j - 1])]
           C == CHOOSE g : P(g)
           G == [j \in 0 .. N |-> After(m, n, N, j)]
           step == [j \in 1 .. N |-> [s \in S |-> Trimmed(s)]]
<1>0. N \in Nat
  OBVIOUS
<1>1. s0 \in After(m, n, N, 0)
  <2>1. s0 \in S /\ s0.map = m /\ s0.next = 1
    OBVIOUS
  <2>2. Len(m) - 1 <= N - 1 - 0
    BY <1>0
  <2> HIDE DEF s0, N
  <2>3. QED
    BY <2>1, <2>2, RefinesSelf DEF After
<1>2. \A j \in 1 .. N : \A s \in After(m, n, N, j - 1) : s \in S /\ Trimmed(s) \in After(m, n, N, j)
  <2>1. SUFFICES ASSUME NEW j \in 1 .. N, NEW s \in After(m, n, N, j - 1)
                 PROVE  s \in S /\ Trimmed(s) \in After(m, n, N, j)
    OBVIOUS
  <2>2. s \in S
    BY DEF After
  <2> HIDE DEF N
  <2>3. j \in Nat \ {0}
    BY <1>0
  <2>4. QED
    BY <1>0, <2>2, <2>3, TrimmedSteps
<1> HIDE DEF s0, S
<1>3. P(C)
  <2> HIDE DEF N
  <2>1. \A j \in 1 .. N : \A s \in G[j - 1] : step[j][s] = Trimmed(s) /\ step[j][s] \in G[j]
    <3>1. SUFFICES ASSUME NEW j \in 1 .. N, NEW s \in G[j - 1]
                   PROVE  step[j][s] = Trimmed(s) /\ step[j][s] \in G[j]
      OBVIOUS
    <3>2. j - 1 \in 0 .. N /\ j \in 0 .. N
      BY <1>0
    <3>3. s \in S /\ Trimmed(s) \in After(m, n, N, j)
      BY <1>2, <3>2
    <3>4. QED
      BY <3>2, <3>3
  <2>2. s0 \in G[0]
    BY <1>0, <1>1
  <2> HIDE DEF G, step
  <2>3. PICK g : IsLoop(g, N, s0, step) /\ \A j \in 0 .. N : g[j] \in G[j]
    BY <1>0, <2>1, <2>2, LoopInvariant
  <2>4. \A j \in 0 .. N : j # 0 => step[j][g[j - 1]] = Trimmed(g[j - 1])
    <3>1. SUFFICES ASSUME NEW j \in 0 .. N, j # 0 PROVE step[j][g[j - 1]] = Trimmed(g[j - 1])
      OBVIOUS
    <3>2. j \in 1 .. N /\ j - 1 \in 0 .. N
      BY <1>0, <3>1
    <3>3. QED
      BY <2>1, <2>3, <3>2
  <2>5. P(g)
    BY <2>3, <2>4 DEF IsLoop
  <2> HIDE DEF P
  <2>6. QED
    BY <2>5
<1>4. TrimAll(m) = C[N].map
  BY DEF TrimAll, s0
<1> HIDE DEF C, N
<1>5. C[N] \in After(m, n, N, N)
  <2> DEFINE I == {j \in 0 .. N : C[j] \in After(m, n, N, j)}
  <2>1. 0 \in I
    BY <1>0, <1>1, <1>3
  <2>2. ASSUME NEW j \in 1 .. N, j - 1 \in I PROVE j \in I
    <3>1. j \in 0 .. N /\ j # 0 /\ C[j - 1] \in After(m, n, N, j - 1)
      BY <1>0, <2>2
    <3>2. C[j] = Trimmed(C[j - 1])
      BY <1>3, <3>1
    <3>3. QED
      BY <1>2, <3>1, <3>2
  <2> HIDE DEF I
  <2>3. N \in I
    BY <1>0, <2>1, <2>2, UpTo
  <2>4. QED
    BY <2>3 DEF I
<1> DEFINE t == C[N]
<1> HIDE DEF t
<1>6. /\ t.map \in Seq(RegionT) /\ t.next \in Nat \ {0} /\ Len(t.map) \in Nat
      /\ Going(t.map, t.next, n) /\ Preserves(m, t.map)
      /\ Len(t.map) - t.next <= N - 1 - N \/ t.next + 1 > Len(t.map)
  BY <1>5 DEF After, Going, t
<1>7. t.next >= Len(t.map)
  BY <1>0, <1>6
<1>8. Ordered(t.map) /\ Len(t.map) <= n + 2
  <2>1. SUFFICES ASSUME NEW q, Loose(t.map, t.next, q), Within(t.map, t.next, q, n)
                 PROVE  Ordered(t.map) /\ Len(t.map) <= n + 2
    BY <1>6 DEF Going
  <2>2. q \in 1 .. Len(t.map) /\ t.next <= q
    BY <2>1 DEF Loose
  <2>3. q = t.next /\ t.next \in 1 .. Len(t.map) /\ ~(t.next < Len(t.map))
    BY <1>6, <1>7, <2>2
  <2>4. Ordered(t.map)
    BY <1>6, <2>1, <2>3, LooseEnds
  <2>5. Len(t.map) <= n + 2
    BY <1>6, <2>1 DEF Within
  <2>6. QED
    BY <2>4, <2>5
<1>9. QED
  BY <1>4, <1>6, <1>8 DEF t

\* A region that was just inserted is loose.
LEMMA InsertedLoose ==
    ASSUME NEW m \in Seq(RegionT), Ordered(m), NEW r \in RegionT, OneHigh(m, r.type),
           NEW p \in 1 .. Len(m) + 1, NEW m0, Inserted(m, r, p, m0)
    PROVE  Loose(m0, 1, p)
<1>0. Len(m0) = Len(m) + 1 /\ Len(m) \in Nat /\ p \in 1 .. Len(m0)
  BY DEF Inserted
<1>1. \A j \in 1 .. Len(m0) : /\ j < p => j \in 1 .. Len(m) /\ m0[j] = m[j]
                              /\ j = p => m0[j] = r
                              /\ p < j => j - 1 \in 1 .. Len(m) /\ m0[j] = m[j - 1] /\ p <= j - 1
  BY <1>0 DEF Inserted
<1>2. /\ \A j \in 1 .. Len(m) : m[j].location \in Nat /\ End(m[j]) \in Nat /\ m[j].location < End(m[j])
      /\ r.location \in Nat /\ r.size \in Nat /\ r.type \in Nat
  BY SeqNumbers, RegionFields DEF Numbers
<1>3. m0[p] = r
  BY <1>0, <1>1
<1>4. ASSUME NEW a \in 1 .. Len(m0), NEW b \in 1 .. Len(m0), a < b, a # p, b # p
      PROVE  End(m0[a]) <= m0[b].location
  <2>1. \A i, j \in 1 .. Len(m) : i < j => End(m[i]) <= m[j].location
    BY DEF Ordered
  <2>2. CASE b < p
    BY <1>0, <1>1, <1>4, <2>1, <2>2
  <2>3. CASE p < b /\ a < p
    <3>1. m0[a] = m[a] /\ m0[b] = m[b - 1] /\ a < b - 1 /\ a \in 1 .. Len(m) /\ b - 1 \in 1 .. Len(m)
      BY <1>0, <1>1, <2>3
    <3>2. QED
      BY <2>1, <3>1
  <2>4. CASE p < a
    <3>1. m0[a] = m[a - 1] /\ m0[b] = m[b - 1] /\ a - 1 < b - 1
          /\ a - 1 \in 1 .. Len(m) /\ b - 1 \in 1 .. Len(m)
      BY <1>0, <1>1, <1>4, <2>4
    <3>2. QED
      BY <2>1, <3>1
  <2>5. QED
    BY <1>0, <1>4, <2>2, <2>3, <2>4
<1>5. \A a \in 1 .. Len(m0) : a < p => m0[a].location <= m0[p].location
  BY <1>0, <1>1, <1>3 DEF Inserted
<1>6. \A b \in 1 .. Len(m0) : p < b => m0[p].location <= m0[b].location
  BY <1>0, <1>1, <1>3 DEF Inserted
<1>7. 1 = p => \A a \in 1 .. Len(m0) : a < p => End(m0[a]) <= m0[p].location
  BY <1>0
<1>8. OneHigh(m0, m0[p].type)
  <2>1. ~(r.type > r.type)
    BY <1>2
  <2>2. QED
    BY <1>2, <1>3, <2>1, InsertedRegions
<1>9. ASSUME NEW b \in 1 .. Len(m0), p < b
      PROVE  m0[p].location < m0[b].location \/ End(m0[p]) <= End(m0[b])
  <2>1. b - 1 \in 1 .. Len(m) /\ m0[b] = m[b - 1] /\ p <= b - 1 /\ p <= Len(m) /\ p \in 1 .. Len(m)
    BY <1>0, <1>1, <1>9
  <2>2. Before(r, m[p]) /\ r.location <= m[p].location
    BY <2>1 DEF Inserted
  <2>3. CASE b - 1 = p
    <3>1. m[p] \in RegionT
      BY <2>1
    <3>2. m[p].size \in Nat
      BY <3>1, RegionFields
    <3>3. r.location < m[p].location \/ (r.location = m[p].location /\ r.size < m[p].size)
      BY <1>2, <2>1, <2>2, <3>2 DEF Before
    <3>4. CASE r.location < m[p].location
      BY <1>3, <2>1, <2>3, <3>4
    <3>5. CASE r.location = m[p].location /\ r.size < m[p].size
      <4>1. r.location + r.size <= m[p].location + m[p].size
        BY <1>2, <3>2, <3>5
      <4>2. QED
        BY <1>3, <2>1, <2>3, <4>1 DEF End
    <3>6. QED
      BY <3>3, <3>4, <3>5
  <2>4. CASE p < b - 1
    <3>1. End(m[p]) <= m[b - 1].location
      BY <2>1, <2>4 DEF Ordered
    <3>2. r.location < m[b - 1].location
      <4>1. m[p].location \in Nat /\ End(m[p]) \in Nat /\ m[p].location < End(m[p])
            /\ m[b - 1].location \in Nat /\ r.location \in Nat
        BY <1>2, <2>1
      <4>2. QED
        BY <2>2, <3>1, <4>1
    <3>3. QED
      BY <1>3, <2>1, <3>2
  <2>5. QED
    BY <1>0, <2>1, <2>3, <2>4
<1>10. 1 <= p
  OBVIOUS
<1>11. QED
  BY <1>0, <1>4, <1>5, <1>6, <1>7, <1>8, <1>9, <1>10 DEF Loose

\* m1 is what place() makes of m and r, seen as a refinement of both.
Placed(m, r, m1) ==
    /\ m1 \in Seq(RegionT) /\ Ordered(m1) /\ Len(m1) <= Len(m) + 2
    /\ \A y \in Regions(m1) : \A a \in Nat : Covers(y, a) =>
          \E x \in Regions(m) \union {r} : Covers(x, a) /\ x.type = y.type
    /\ \A x \in Regions(m) \union {r} : \A a \in Nat : Covers(x, a) =>
          \E y \in Regions(m1) : Covers(y, a) /\ x.type <= y.type
    /\ \A h \in Nat : OneHigh(m, h) /\ ~(r.type > h) => OneHigh(m1, h)
    /\ \A h \in Nat : (\A y \in Regions(m) : ~(y.type > h)) => OneHigh(m1, h)

LEMMA PlaceKeeps ==
    ASSUME NEW m \in Seq(RegionT), Ordered(m), NEW r \in RegionT, OneHigh(m, r.type)
    PROVE  Placed(m, r, TrimAll(Insert(m, r)))
<1> DEFINE n == Len(m)
           m0 == Insert(m, r)
           m1 == TrimAll(m0)
<1>1. PICK p \in 1 .. Len(m) + 1 : Inserted(m, r, p, m0)
  BY InsertInserts
<1>2. n \in Nat
  OBVIOUS
<1> HIDE DEF m0
<1>3. Loose(m0, 1, p)
  BY <1>1, InsertedLoose
<1>4. m0 \in Seq(RegionT) /\ Len(m0) <= n + 1
  BY <1>1, <1>2 DEF Inserted
<1> HIDE DEF n
<1>5. Within(m0, 1, p, n)
  BY <1>4 DEF Within
<1>6. Going(m0, 1, n)
  <2>1. 1 \in Nat \ {0}
    OBVIOUS
  <2>2. QED
    BY <1>2, <1>3, <1>4, <1>5, <2>1, GoesOnLoose
<1>7. m1 \in Seq(RegionT) /\ Ordered(m1) /\ Len(m1) <= n + 2 /\ Preserves(m0, m1)
  BY <1>2, <1>4, <1>6, TrimAllEnds
<1> HIDE DEF m1
<1>8. /\ Regions(m0) = Regions(m) \union {r}
      /\ \A h \in Nat : OneHigh(m, h) /\ ~(r.type > h) => OneHigh(m0, h)
      /\ \A h \in Nat : (\A y \in Regions(m) : ~(y.type > h)) => OneHigh(m0, h)
  BY <1>1, InsertedRegions
<1>9. Refines(m0, m1) /\ \A h \in Nat : OneHigh(m0, h) => OneHigh(m1, h)
  BY <1>7 DEF Preserves
<1>10. /\ \A h \in Nat : OneHigh(m, h) /\ ~(r.type > h) => OneHigh(m1, h)
       /\ \A h \in Nat : (\A y \in Regions(m) : ~(y.type > h)) => OneHigh(m1, h)
  BY <1>8, <1>9
<1>11. /\ \A y \in Regions(m1) : \A a \in Nat : Covers(y, a) =>
             \E x \in Regions(m) \union {r} : Covers(x, a) /\ x.type = y.type
       /\ \A x \in Regions(m) \union {r} : \A a \in Nat : Covers(x, a) =>
             \E y \in Regions(m1) : Covers(y, a) /\ x.type <= y.type
  BY <1>8, <1>9 DEF Refines
<1>12. QED
  BY <1>7, <1>10, <1>11 DEF Placed, n, m0, m1

-----------------------------------------------------------------------------
(* The highest type wins *)

\* m has at every address the highest type of P there, and nothing else.
Wins(m, P) ==
    /\ \A y \in Regions(m) : \A a \in Nat : Covers(y, a) =>
          \E x \in P : Covers(x, a) /\ x.type = y.type
    /\ \A x \in P : \A a \in Nat : Covers(x, a) =>
          \E y \in Regions(m) : Covers(y, a) /\ x.type <= y.type

LEMMA WinsPlace ==
    ASSUME NEW m \in Seq(RegionT), NEW P, P \subseteq RegionT, Wins(m, P), NEW r \in RegionT,
           NEW m1 \in Seq(RegionT), Placed(m, r, m1)
    PROVE  Wins(m1, P \union {r})
<1>0. /\ \A x \in P \union {r} : x.type \in Nat
      /\ \A x \in Regions(m) : x.type \in Nat
      /\ \A x \in Regions(m1) : x.type \in Nat
  <2>1. \A x \in P \union {r} : x \in RegionT
    OBVIOUS
  <2>2. QED
    BY <2>1, RegionFields, SeqNumbers DEF Numbers, Regions
<1>1. ASSUME NEW y \in Regions(m1), NEW a \in Nat, Covers(y, a)
      PROVE  \E x \in P \union {r} : Covers(x, a) /\ x.type = y.type
  <2>1. PICK z \in Regions(m) \union {r} : Covers(z, a) /\ z.type = y.type
    BY <1>1 DEF Placed
  <2>2. CASE z = r
    BY <2>1, <2>2
  <2>3. CASE z \in Regions(m)
    <3>1. PICK x \in P : Covers(x, a) /\ x.type = z.type
      BY <2>1, <2>3 DEF Wins
    <3>2. QED
      BY <2>1, <3>1
  <2>4. QED
    BY <2>2, <2>3
<1>2. ASSUME NEW x \in P \union {r}, NEW a \in Nat, Covers(x, a)
      PROVE  \E y \in Regions(m1) : Covers(y, a) /\ x.type <= y.type
  <2>1. CASE x = r
    BY <1>2, <2>1 DEF Placed
  <2>2. CASE x \in P
    <3>1. PICK z \in Regions(m) : Covers(z, a) /\ x.type <= z.type
      BY <1>2, <2>2 DEF Wins
    <3>2. PICK y \in Regions(m1) : Covers(y, a) /\ z.type <= y.type
      BY <3>1 DEF Placed
    <3>3. x.type <= y.type
      BY <1>0, <3>1, <3>2
    <3>4. QED
      BY <3>2, <3>3
  <2>3. QED
    BY <2>1, <2>2
<1>3. QED
  BY <1>1, <1>2 DEF Wins

\* Of an array in order, at most one region covers an address.
LEMMA OneCovers ==
    ASSUME NEW m \in Seq(RegionT), Ordered(m), NEW i \in 1 .. Len(m), NEW j \in 1 .. Len(m),
           NEW a \in Nat, Covers(m[i], a), Covers(m[j], a)
    PROVE  i = j
<1>1. /\ m[i].location \in Nat /\ End(m[i]) \in Nat /\ m[j].location \in Nat /\ End(m[j]) \in Nat
  BY SeqNumbers DEF Numbers
<1>2. /\ m[i].location <= a /\ a < End(m[i]) /\ m[j].location <= a /\ a < End(m[j])
  BY DEF Covers
<1>3. ~(i < j) /\ ~(j < i)
  <2>1. i < j => End(m[i]) <= m[j].location
    BY DEF Ordered
  <2>2. j < i => End(m[j]) <= m[i].location
    BY DEF Ordered
  <2>3. QED
    BY <1>1, <1>2, <2>1, <2>2
<1>4. QED
  BY <1>3

LEMMA HighestWins ==
    ASSUME map \in Seq(RegionT), placed \subseteq RegionT, Ordered(map), Wins(map, placed)
    PROVE  HighestTypeWins
<1>0. /\ \A x \in placed : x.type \in Nat /\ x.location \in Nat /\ End(x) \in Nat
      /\ \A x \in Regions(map) : x.type \in Nat /\ x.location \in Nat /\ End(x) \in Nat
      /\ DOMAIN map = 1 .. Len(map)
  <2>1. \A x \in placed : x \in RegionT
    OBVIOUS
  <2>2. QED
    BY <2>1, RegionFields, SeqNumbers DEF Numbers, Regions
<1>1. ToSet(map) = Regions(map)
  BY <1>0 DEF ToSet, Regions
<1> DEFINE InOrder == RegionsInOrder
<1>1a. InOrder
  BY <1>0 DEF RegionsInOrder, Ordered
<1> HIDE DEF InOrder
<1>2. SUFFICES ASSUME NEW a \in Addresses(placed) \union Addresses(Regions(map))
               PROVE  LET types == {r.type : r \in {p \in placed : Covers(p, a)}}
                      IN  /\ types # {}
                          /\ \E i \in DOMAIN map :
                               /\ Covers(map[i], a)
                               /\ \A t \in types : map[i].type >= t
                               /\ map[i].type \in types
                               /\ \A j \in DOMAIN map : Covers(map[j], a) => j = i
  BY <1>1, <1>1a DEF HighestTypeWins, InOrder
<1>3. a \in Nat /\ ((\E x \in placed : Covers(x, a)) \/ (\E y \in Regions(map) : Covers(y, a)))
  <2>1. PICK x \in placed \union Regions(map) : a \in x.location .. End(x) - 1
    BY DEF Addresses
  <2>2. x.location \in Nat /\ End(x) \in Nat
    BY <1>0
  <2>3. a \in Nat /\ x.location <= a /\ a < End(x)
    BY <2>1, <2>2
  <2>4. QED
    BY <2>3 DEF Covers
<1>4. PICK y \in Regions(map) : Covers(y, a)
  BY <1>3 DEF Wins
<1>5. PICK i \in 1 .. Len(map) : y = map[i]
  BY DEF Regions
<1>6. PICK x \in placed : Covers(x, a) /\ x.type = y.type
  BY <1>3, <1>4 DEF Wins
<1>7. \A j \in 1 .. Len(map) : Covers(map[j], a) => j = i
  BY <1>3, <1>4, <1>5, OneCovers
<1>8. ASSUME NEW p \in placed, Covers(p, a) PROVE y.type >= p.type
  <2>1. PICK z \in Regions(map) : Covers(z, a) /\ p.type <= z.type
    BY <1>3, <1>8 DEF Wins
  <2>2. z = y
    BY <1>5, <1>7, <2>1 DEF Regions
  <2>3. QED
    BY <1>0, <2>1, <2>2
<1> DEFINE types == {r.type : r \in {p \in placed : Covers(p, a)}}
<1>9. y.type \in types
  BY <1>6
<1>10. \A t \in types : y.type >= t
  BY <1>8
<1>11. QED
  BY <1>0, <1>4, <1>5, <1>7, <1>9, <1>10
=============================================================================
