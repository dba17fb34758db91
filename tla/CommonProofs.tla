---------------------------- MODULE CommonProofs ----------------------------
(***************************************************************************)
(* Facts that several of the proofs rest on: least and greatest numbers,   *)
(* loops, quotients, and where the entries of a table move when one of     *)
(* them is removed (Relocation).                                           *)
(***************************************************************************)
EXTENDS Relocation, NaturalsInduction, WellFoundedInduction, TLAPS

\* Every non-empty set of naturals has a least element.
LEMMA NatMin ==
    ASSUME NEW S, S \subseteq Nat, S # {}
    PROVE  \E m \in S : \A s \in S : m <= s
<1>1. PICK m \in S : \A s \in S : ~(<<s, m>> \in OpToRel(<, Nat))
  BY NatLessThanWellFounded, WFMin
<1>2. ASSUME NEW s \in S PROVE m <= s
  <2>1. ~(s < m)
    BY <1>1, <1>2 DEF OpToRel
  <2>2. QED
    BY <2>1
<1>3. QED
  BY <1>2

\* Every non-empty set of naturals below a bound has a greatest element.
LEMMA NatMax ==
    ASSUME NEW n \in Nat, NEW S, S \subseteq 0 .. n, S # {}
    PROVE  \E m \in S : \A s \in S : s <= m
<1> DEFINE T == {n - s : s \in S}
<1>1. T \subseteq Nat /\ T # {}
  OBVIOUS
<1>2. PICK k \in T : \A j \in T : k <= j
  BY <1>1, NatMin
<1>3. PICK m \in S : k = n - m
  BY <1>2
<1>4. ASSUME NEW s \in S PROVE s <= m
  <2>1. n - m <= n - s
    BY <1>2, <1>3
  <2>2. s \in 0 .. n /\ m \in 0 .. n
    BY <1>4
  <2>3. QED
    BY <2>1, <2>2
<1>5. QED
  BY <1>4

-----------------------------------------------------------------------------
(* Loops *)

\* Induction up to a bound.
LEMMA UpTo ==
    ASSUME NEW N \in Nat, NEW S, 0 \in S, \A i \in 1 .. N : i - 1 \in S => i \in S
    PROVE  \A i \in 0 .. N : i \in S
<1> DEFINE bad == {i \in 0 .. N : i \notin S}
<1>1. SUFFICES ASSUME bad # {} PROVE FALSE
  OBVIOUS
<1>2. PICK m \in bad : \A i \in bad : m <= i
  <2>1. bad \subseteq Nat
    OBVIOUS
  <2> HIDE DEF bad
  <2>2. QED
    BY <2>1, <1>1, NatMin
<1>3. m \in 1 .. N /\ m - 1 \in 0 .. N /\ ~(m <= m - 1)
  BY <1>2
<1>4. m - 1 \in S
  BY <1>2, <1>3
<1>5. QED
  BY <1>2, <1>3, <1>4

\* g[i] is what i steps make of s0.
IsLoop(g, N, s0, step) == g = [i \in 0 .. N |-> IF i = 0 THEN s0 ELSE step[i][g[i - 1]]]

\* A function defined by its value at 0 and a step exists.
LEMMA LoopExists ==
    ASSUME NEW N \in Nat, NEW s0, NEW step
    PROVE  \E g : IsLoop(g, N, s0, step)
<1> DEFINE Ok(k) == \E g : g = [i \in 0 .. k |-> IF i = 0 THEN s0 ELSE step[i][g[i - 1]]]
           S == {k \in 0 .. N : Ok(k)}
<1>1. Ok(0)
  <2> DEFINE g == [i \in 0 .. 0 |-> s0]
  <2>1. g = [i \in 0 .. 0 |-> IF i = 0 THEN s0 ELSE step[i][g[i - 1]]]
    OBVIOUS
  <2>2. QED
    BY <2>1
<1>2. ASSUME NEW k \in 1 .. N, Ok(k - 1)
      PROVE  Ok(k)
  <2>1. PICK g : g = [i \in 0 .. k - 1 |-> IF i = 0 THEN s0 ELSE step[i][g[i - 1]]]
    BY <1>2
  <2> DEFINE h == [i \in 0 .. k |-> IF i = k THEN step[k][g[k - 1]] ELSE g[i]]
             h2 == [i \in 0 .. k |-> IF i = 0 THEN s0 ELSE step[i][h[i - 1]]]
  <2>2. ASSUME NEW i \in 0 .. k
        PROVE  h[i] = h2[i]
    <3>1. CASE i = k
      <4>1. k - 1 \in 0 .. k /\ k - 1 # k /\ k # 0
        OBVIOUS
      <4>2. h[k - 1] = g[k - 1]
        BY <4>1
      <4>3. QED
        BY <3>1, <4>1, <4>2
    <3>2. CASE i # k /\ i # 0
      <4>1. i - 1 \in 0 .. k /\ i - 1 # k /\ i \in 0 .. k - 1
        BY <3>2
      <4>2. h[i - 1] = g[i - 1] /\ h[i] = g[i]
        BY <4>1, <3>2
      <4>3. g[i] = step[i][g[i - 1]]
        BY <4>1, <3>2, <2>1
      <4>4. QED
        BY <4>2, <4>3, <3>2
    <3>3. CASE i = 0
      <4>1. 0 \in 0 .. k - 1 /\ 0 # k
        OBVIOUS
      <4>2. g[0] = s0
        BY <4>1, <2>1
      <4>3. QED
        BY <3>3, <4>1, <4>2
    <3>4. QED
      BY <3>1, <3>2, <3>3
  <2>3. h = h2
    BY <2>2
  <2>4. QED
    BY <2>3
<1> HIDE DEF Ok
<1>3. 0 \in S /\ \A k \in 1 .. N : k - 1 \in S => k \in S
  BY <1>1, <1>2
<1>4. \A k \in 0 .. N : k \in S
  BY <1>3, UpTo
<1>5. Ok(N)
  BY <1>4
<1>6. QED
  BY <1>5 DEF Ok, IsLoop

\* What every step keeps holds of a loop, which exists if every step does.
LEMMA LoopInvariant ==
    ASSUME NEW N \in Nat, NEW G, NEW s0 \in G[0], NEW step,
           \A i \in 1 .. N : \A x \in G[i - 1] : step[i][x] \in G[i]
    PROVE  \E g : IsLoop(g, N, s0, step) /\ \A i \in 0 .. N : g[i] \in G[i]
<1>1. PICK g : IsLoop(g, N, s0, step)
  BY LoopExists
<1> DEFINE S == {i \in 0 .. N : g[i] \in G[i]}
<1>2. 0 \in S
  BY <1>1 DEF IsLoop
<1>3. ASSUME NEW i \in 1 .. N, i - 1 \in S
      PROVE  i \in S
  <2>1. i # 0 /\ i \in 0 .. N /\ g[i - 1] \in G[i - 1]
    BY <1>3
  <2>2. g[i] = step[i][g[i - 1]]
    BY <1>1, <2>1 DEF IsLoop
  <2>3. QED
    BY <2>1, <2>2
<1>4. \A i \in 0 .. N : i \in S
  <2> HIDE DEF S
  <2>1. QED
    BY <1>2, <1>3, UpTo
<1>5. QED
  BY <1>1, <1>4

-----------------------------------------------------------------------------
(* Quotients *)

\* A quotient is below a bound when the dividend is below its multiple.
LEMMA DivBelow ==
    ASSUME NEW x \in Nat, NEW b \in Nat, NEW d \in Nat \ {0}, x < b * d
    PROVE  x \div d \in Nat /\ x \div d < b
<1>1. x = d * (x \div d) + (x % d) /\ x % d \in 0 .. d - 1 /\ x \div d \in Int
  BY SMT
<1> DEFINE q == x \div d
           m == x % d
<1>2. q \in Int /\ m \in 0 .. d - 1 /\ x = d * q + m
  BY <1>1
<1> HIDE DEF q, m
<1>3. q >= 0
  <2>1. SUFFICES ASSUME q <= -1 PROVE FALSE
    BY <1>2
  <2>2. d * q <= d * (-1)
    BY <2>1, <1>2, SMT
  <2>3. QED
    BY <2>2, <1>2, SMT
<1>4. q < b
  <2>1. SUFFICES ASSUME b <= q PROVE FALSE
    BY <1>2
  <2>2. b * d <= d * q
    BY <2>1, <1>2, <1>3, SMT
  <2>3. QED
    BY <2>2, <1>2, SMT
<1>5. QED
  BY <1>3, <1>4, <1>2 DEF q

\* A quotient of naturals is a natural.
LEMMA DivNat == ASSUME NEW x \in Nat, NEW d \in Nat \ {0} PROVE x \div d \in Nat
<1>1. x < (x + 1) * d
  <2>1. (x + 1) * d >= (x + 1) * 1
    BY SMT
  <2>2. QED
    BY <2>1
<1>2. QED
  BY <1>1, DivBelow

\* A quotient is determined by its remainder.
LEMMA DivUnique ==
    ASSUME NEW d \in Nat \ {0}, NEW q \in Int, NEW r \in 0 .. d - 1
    PROVE  (d * q + r) \div d = q
<1> DEFINE x == d * q + r
           y == x \div d
           m == x % d
<1>1. x \in Int /\ y \in Int /\ m \in 0 .. d - 1 /\ x = d * y + m
  BY SMT
<1>2. d * y + m = d * q + r
  BY <1>1
<1> HIDE DEF x, y, m
<1>3. ~(y >= q + 1)
  <2>1. SUFFICES ASSUME y >= q + 1 PROVE FALSE
    OBVIOUS
  <2>2. d * y >= d * (q + 1)
    BY <2>1, <1>1, SMT
  <2>3. d * (q + 1) = d * q + d
    BY SMT
  <2>4. QED
    BY <2>2, <2>3, <1>1, <1>2, SMT
<1>4. ~(q >= y + 1)
  <2>1. SUFFICES ASSUME q >= y + 1 PROVE FALSE
    OBVIOUS
  <2>2. d * q >= d * (y + 1)
    BY <2>1, <1>1, SMT
  <2>3. d * (y + 1) = d * y + d
    BY <1>1, SMT
  <2>4. QED
    BY <2>2, <2>3, <1>1, <1>2, SMT
<1>5. y = q
  BY <1>1, <1>3, <1>4
<1>6. QED
  BY <1>5 DEF x, y

\* Multiples of the divisor can be taken out.
LEMMA DivPlus ==
    ASSUME NEW d \in Nat \ {0}, NEW k \in Int, NEW x \in Nat
    PROVE  (d * k + x) \div d = k + (x \div d)
<1> DEFINE q == x \div d
           r == x % d
<1>1. q \in Int /\ r \in 0 .. d - 1 /\ x = d * q + r
  BY SMT
<1> HIDE DEF q, r
<1>2. d * k + x = d * (k + q) + r
  BY <1>1, SMT
<1>3. (d * (k + q) + r) \div d = k + q
  BY <1>1, DivUnique
<1>4. QED
  BY <1>2, <1>3 DEF q

\* A quotient does not fall when the dividend grows.
LEMMA DivMonotone ==
    ASSUME NEW d \in Nat \ {0}, NEW x \in Nat, NEW y \in Nat, x <= y
    PROVE  x \div d <= y \div d
<1> DEFINE q == x \div d
           z == y \div d
<1>1. /\ q \in Int /\ x % d \in 0 .. d - 1 /\ x = d * q + (x % d)
      /\ z \in Int /\ y % d \in 0 .. d - 1 /\ y = d * z + (y % d)
  BY SMT
<1> HIDE DEF q, z
<1>2. ~(q >= z + 1)
  <2>1. SUFFICES ASSUME q >= z + 1 PROVE FALSE
    OBVIOUS
  <2>2. d * q >= d * (z + 1)
    BY <2>1, <1>1, SMT
  <2>3. d * (z + 1) = d * z + d
    BY <1>1, SMT
  <2>4. QED
    BY <2>2, <2>3, <1>1, SMT
<1>3. QED
  BY <1>1, <1>2 DEF q, z

-----------------------------------------------------------------------------
(* Relocation *)

\* A relocated entry moves to its nearest neighbour towards the removed one.
LEMMA TowardNearest ==
    ASSUME NEW M, M \subseteq Nat, NEW p \in Nat, p \notin M, NEW q \in M
    PROVE  /\ Toward(p, M, q) \in (M \cup {p}) \ {q}
           /\ \A s \in (M \cup {p}) \ {q} :
                 IF p < q THEN s < q => (Toward(p, M, q) < q /\ s <= Toward(p, M, q))
                          ELSE s > q => (Toward(p, M, q) > q /\ Toward(p, M, q) <= s)
<1> DEFINE Near(r) == /\ r # q
                      /\ \A s \in (M \cup {p}) \ {q} :
                            IF p < q THEN s < q => (r < q /\ s <= r)
                                     ELSE s > q => (r > q /\ r <= s)
<1>0. p \in Int /\ q \in Int /\ M \subseteq Int /\ p # q /\ q \in Nat
  OBVIOUS
<1>1. \E r \in M \cup {p} : Near(r)
  <2>1. CASE p < q
    <3> DEFINE S == {s \in M \cup {p} : s < q}
    <3>0. p \in S
      BY <2>1
    <3>1. ASSUME NEW s \in S PROVE s \in 0 .. q
      <4>1. s \in Nat /\ s <= q
        BY <1>0, <3>1
      <4>2. QED
        BY <1>0, <4>1
    <3>2. PICK m \in S : \A s \in S : s <= m
      BY <1>0, <3>0, <3>1, NatMax
    <3>3. Near(m)
      BY <1>0, <2>1, <3>2
    <3>4. QED
      BY <3>3
  <2>2. CASE ~(p < q)
    <3> DEFINE S == {s \in M \cup {p} : s > q}
    <3>0. p > q
      BY <1>0, <2>2
    <3>1. S \subseteq Nat /\ p \in S
      BY <1>0, <3>0
    <3>2. PICK m \in S : \A s \in S : m <= s
      BY <3>1, NatMin
    <3>3. Near(m)
      BY <1>0, <2>2, <3>2
    <3>4. QED
      BY <3>3
  <2>3. QED
    BY <2>1, <2>2
<1>2. Toward(p, M, q) = CHOOSE r \in M \cup {p} : Near(r)
  BY DEF Toward
<1>3. Toward(p, M, q) \in M \cup {p} /\ Near(Toward(p, M, q))
  BY <1>1, <1>2
<1>4. QED
  BY <1>3

\* In particular to the place of another entry of the chain, or of the removed
\* one.
LEMMA TowardInChain ==
    ASSUME NEW M, M \subseteq Nat, NEW p \in Nat, p \notin M, NEW q \in M
    PROVE  Toward(p, M, q) \in (M \cup {p}) \ {q}
BY TowardNearest

\* A removal relocates entries of the table other than the removed one.
LEMMA ChainsAreOfOthers ==
    ASSUME NEW t, DOMAIN t \subseteq Nat, NEW p \in DOMAIN t, NEW M \in Chains(t, p)
    PROVE  M \subseteq DOMAIN t /\ p \notin M
<1>1. p \in Int
  OBVIOUS
<1>2. QED
  BY <1>1 DEF Chains

\* Of a chain, no two entries move to the same place.
LEMMA TowardInjective ==
    ASSUME NEW t, DOMAIN t \subseteq Nat, NEW p \in DOMAIN t, NEW M \in Chains(t, p),
           NEW x \in M, NEW y \in M, Toward(p, M, x) = Toward(p, M, y)
    PROVE  x = y
<1>1. M \subseteq Nat /\ p \in Nat /\ p \notin M
  BY ChainsAreOfOthers
<1>2. x \in Int /\ y \in Int /\ p \in Int
  BY <1>1
<1>3. (p < x /\ p < y) \/ (x < p /\ y < p)
  BY <1>2 DEF Chains
<1> DEFINE r == Toward(p, M, x)
<1>4. r \in Int
  <2>1. r \in Nat
    BY <1>1, TowardInChain
  <2>2. QED
    BY <2>1
<1>5. \A s \in (M \cup {p}) \ {x} :
         IF p < x THEN s < x => (r < x /\ s <= r) ELSE s > x => (r > x /\ r <= s)
  BY <1>1, TowardNearest
<1>6. \A s \in (M \cup {p}) \ {y} :
         IF p < y THEN s < y => (r < y /\ s <= r) ELSE s > y => (r > y /\ r <= s)
  BY <1>1, TowardNearest
<1>7. ASSUME x # y PROVE FALSE
  <2>1. x \in (M \cup {p}) \ {y} /\ y \in (M \cup {p}) \ {x}
    BY <1>7
  <2>2. p \in (M \cup {p}) \ {y} /\ p \in (M \cup {p}) \ {x}
    BY <1>1
  <2> HIDE DEF r
  <2>3. CASE p < x /\ p < y
    BY <1>2, <1>4, <1>5, <1>6, <1>7, <2>1, <2>2, <2>3
  <2>4. CASE x < p /\ y < p
    <3>1. ~(p < x) /\ ~(p < y)
      BY <1>2, <2>4
    <3>2. (y > x => (r > x /\ r <= y)) /\ (x > y => (r > y /\ r <= x))
      BY <1>5, <1>6, <2>1, <3>1
    <3>3. (p > x => (r > x /\ r <= p)) /\ (p > y => (r > y /\ r <= p))
      BY <1>5, <1>6, <2>2, <3>1
    <3>4. QED
      BY <1>2, <1>4, <1>7, <2>4, <3>2, <3>3
  <2>5. QED
    BY <1>3, <2>3, <2>4
<1>8. QED
  BY <1>7

\* The place an entry moves to is next to it in the table, and not beyond the
\* removed one.
LEMMA TowardNeighbour ==
    ASSUME NEW t, DOMAIN t \subseteq Nat, NEW p \in DOMAIN t, NEW M \in Chains(t, p),
           NEW q \in M
    PROVE  LET o == Toward(p, M, q)
           IN  \/ /\ p <= o /\ o < q
                  /\ \A s \in DOMAIN t : s <= o \/ q <= s
               \/ /\ q < o /\ o <= p
                  /\ \A s \in DOMAIN t : s <= q \/ o <= s
<1> DEFINE o == Toward(p, M, q)
<1>1. M \subseteq DOMAIN t /\ p \notin M
  BY ChainsAreOfOthers
<1>2. o \in (M \cup {p}) \ {q} /\ o \in Int
  BY <1>1, TowardInChain
<1>3. p \in Int /\ q \in Int /\ DOMAIN t \subseteq Int
  BY <1>1
<1>4. \A s \in (M \cup {p}) \ {q} :
         IF p < q THEN s < q => (o < q /\ s <= o) ELSE s > q => (o > q /\ o <= s)
  BY <1>1, TowardNearest
<1>5. p \in (M \cup {p}) \ {q}
  BY <1>1
<1> HIDE DEF o
<1>6. PICK b \in DOMAIN t : \/ M = {s \in DOMAIN t : p < s /\ s <= b}
                            \/ M = {s \in DOMAIN t : s < p /\ b <= s}
  BY DEF Chains
<1>7. CASE M = {s \in DOMAIN t : p < s /\ s <= b}
  <2>1. p < q /\ q <= b
    BY <1>7
  <2>2. o < q /\ p <= o
    BY <1>4, <1>5, <2>1
  <2>3. ASSUME NEW s \in DOMAIN t, ~(q <= s) PROVE s <= o
    <3>1. s < q /\ s \in Int /\ b \in Int
      BY <1>3, <2>3
    <3>2. CASE s <= p
      BY <1>2, <1>3, <2>2, <3>1, <3>2
    <3>3. CASE p < s
      <4>1. s \in (M \cup {p}) \ {q}
        BY <1>3, <1>7, <2>1, <3>1, <3>3
      <4>2. QED
        BY <1>4, <2>1, <3>1, <4>1
    <3>4. QED
      BY <1>3, <3>1, <3>2, <3>3
  <2>4. QED
    BY <2>2, <2>3 DEF o
<1>8. CASE M = {s \in DOMAIN t : s < p /\ b <= s}
  <2>1. q < p /\ b <= q /\ ~(p < q)
    BY <1>3, <1>8
  <2>2. o > q /\ o <= p
    BY <1>3, <1>4, <1>5, <2>1
  <2>3. ASSUME NEW s \in DOMAIN t, ~(s <= q) PROVE o <= s
    <3>1. q < s /\ s \in Int /\ b \in Int
      BY <1>3, <2>3
    <3>2. CASE p <= s
      BY <1>2, <1>3, <2>2, <3>1, <3>2
    <3>3. CASE s < p
      <4>1. s \in (M \cup {p}) \ {q}
        BY <1>3, <1>8, <2>1, <3>1, <3>3
      <4>2. QED
        BY <1>4, <2>1, <3>1, <4>1
    <3>4. QED
      BY <1>3, <3>1, <3>2, <3>3
  <2>4. QED
    BY <1>2, <1>3, <2>2, <2>3 DEF o
<1>9. QED
  BY <1>6, <1>7, <1>8
=============================================================================
