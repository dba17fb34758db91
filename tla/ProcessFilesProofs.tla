------------------------- MODULE ProcessFilesProofs -------------------------
(***************************************************************************)
(* What holds of the open files for every number of processes, descriptors *)
(* and FileContexts: a context counts all its names, is deleted with the   *)
(* last one, and is a process's own until an exit relocates two processes. *)
(***************************************************************************)
EXTENDS ProcessFiles, CommonProofs, FiniteSetTheorems, TLAPS

-----------------------------------------------------------------------------
(* Counting names *)

\* The names in a finite set are counted by a natural number, which is zero
\* just when there is none.
LEMMA CountNat ==
    ASSUME NEW N, IsFiniteSet(N), NEW c
    PROVE  /\ NamesIn(N, c) \in Nat
           /\ \A n \in N : n[2].context = c => NamesIn(N, c) > 0
           /\ (\A n \in N : n[2].context # c) => NamesIn(N, c) = 0
<1> DEFINE S == {n \in N : n[2].context = c}
<1>1. S \in SUBSET N
  OBVIOUS
<1> HIDE DEF S
<1>2. IsFiniteSet(S)
  BY <1>1, FS_Subset
<1>3. Cardinality(S) \in Nat /\ (Cardinality(S) = 0 <=> S = {})
  BY <1>2, FS_CardinalityType, FS_EmptySet
<1>4. NamesIn(N, c) = Cardinality(S)
  BY DEF NamesIn, S
<1>5. /\ \A n \in N : n[2].context = c => S # {}
      /\ (\A n \in N : n[2].context # c) => S = {}
  BY DEF S
<1>6. QED
  BY <1>3, <1>4, <1>5

\* A union has at most as many names as its parts.
LEMMA CountUnion ==
    ASSUME NEW N, IsFiniteSet(N), NEW T, IsFiniteSet(T), NEW c
    PROVE  NamesIn(N \cup T, c) <= NamesIn(N, c) + NamesIn(T, c)
<1> DEFINE Sel(X) == {n \in X : n[2].context = c}
<1>1. Sel(N \cup T) = Sel(N) \cup Sel(T)
  OBVIOUS
<1>2. Sel(N) \in SUBSET N /\ Sel(T) \in SUBSET T
  OBVIOUS
<1>3. /\ NamesIn(N, c) = Cardinality(Sel(N))
      /\ NamesIn(T, c) = Cardinality(Sel(T))
      /\ NamesIn(N \cup T, c) = Cardinality(Sel(N \cup T))
  BY DEF NamesIn
<1> HIDE DEF Sel
<1>4. IsFiniteSet(Sel(N)) /\ IsFiniteSet(Sel(T))
  BY <1>2, FS_Subset
<1>5. Cardinality(Sel(N) \cup Sel(T))
        = Cardinality(Sel(N)) + Cardinality(Sel(T)) - Cardinality(Sel(N) \cap Sel(T))
  BY <1>4, FS_Union
<1>6. IsFiniteSet(Sel(N) \cap Sel(T))
  BY <1>4, FS_Intersection
<1>7. /\ Cardinality(Sel(N)) \in Nat
      /\ Cardinality(Sel(T)) \in Nat
      /\ Cardinality(Sel(N) \cap Sel(T)) \in Nat
  BY <1>4, <1>6, FS_CardinalityType
<1>8. Cardinality(Sel(N) \cup Sel(T)) <= Cardinality(Sel(N)) + Cardinality(Sel(T))
  BY <1>5, <1>7
<1>9. QED
  BY <1>1, <1>3, <1>8

\* Names that are taken out are counted off.
LEMMA CountDifference ==
    ASSUME NEW N, IsFiniteSet(N), NEW C, C \subseteq N, NEW c
    PROVE  NamesIn(N \ C, c) = NamesIn(N, c) - NamesIn(C, c)
<1> DEFINE Sel(X) == {n \in X : n[2].context = c}
<1>1. Sel(N \ C) = Sel(N) \ Sel(C) /\ Sel(N) \cap Sel(C) = Sel(C)
  OBVIOUS
<1>2. Sel(N) \in SUBSET N
  OBVIOUS
<1>3. \A X : NamesIn(X, c) = Cardinality(Sel(X))
  BY DEF NamesIn
<1> HIDE DEF Sel
<1>4. IsFiniteSet(Sel(N))
  BY <1>2, FS_Subset
<1>5. Cardinality(Sel(N) \ Sel(C)) = Cardinality(Sel(N)) - Cardinality(Sel(N) \cap Sel(C))
  BY <1>4, FS_Difference
<1>6. QED
  BY <1>1, <1>3, <1>5

\* Names that move to other processes, no two to the same place, stay as many.
LEMMA CountMoved ==
    ASSUME NEW N, IsFiniteSet(N), NEW A, NEW f \in Injection(A, N),
           \A a \in A : f[a][2] = a[2], NEW c
    PROVE  IsFiniteSet(A) /\ NamesIn(A, c) <= NamesIn(N, c)
<1> DEFINE Sel(X) == {n \in X : n[2].context = c}
           g == [a \in Sel(A) |-> f[a]]
<1>1. Sel(N) \in SUBSET N
  OBVIOUS
<1>2. g \in Injection(Sel(A), Sel(N))
  BY DEF Injection, IsInjective
<1>3. \A X : NamesIn(X, c) = Cardinality(Sel(X))
  BY DEF NamesIn
<1> HIDE DEF Sel, g
<1>4. IsFiniteSet(Sel(N))
  BY <1>1, FS_Subset
<1>5. Cardinality(Sel(A)) <= Cardinality(Sel(N))
  BY <1>2, <1>4, FS_Injection
<1>6. IsFiniteSet(A)
  BY FS_Injection
<1>7. QED
  BY <1>3, <1>5, <1>6

-----------------------------------------------------------------------------
(* Contexts that count all their names *)

FileContext == [refs : Nat, file : {"uart", "file", "reader", "writer"}]

\* The contexts cs count every name in N.
Covers(cs, N) ==
    \A n \in N : /\ n[2].context \in DOMAIN cs
                 /\ cs[n[2].context].refs >= NamesIn(N, n[2].context)

\* addReference changes the counts only.
LEMMA ReferencedFacts ==
    ASSUME NEW D, NEW cs \in [D -> FileContext], NEW T, IsFiniteSet(T)
    PROVE  /\ Referenced(cs, T) \in [D -> FileContext]
           /\ \A c \in D : /\ Referenced(cs, T)[c].refs = cs[c].refs + NamesIn(T, c)
                           /\ Referenced(cs, T)[c].file = cs[c].file
<1>1. ASSUME NEW c \in D
      PROVE  /\ Referenced(cs, T)[c] \in FileContext
             /\ Referenced(cs, T)[c].refs = cs[c].refs + NamesIn(T, c)
             /\ Referenced(cs, T)[c].file = cs[c].file
  <2>1. Referenced(cs, T)[c] = [cs[c] EXCEPT !.refs = @ + NamesIn(T, c)]
    BY DEF Referenced
  <2>2. cs[c] \in FileContext /\ NamesIn(T, c) \in Nat
    BY CountNat
  <2>3. QED
    BY <2>1, <2>2 DEF FileContext
<1>2. Referenced(cs, T) = [c \in D |-> Referenced(cs, T)[c]]
  BY DEF Referenced
<1>3. QED
  BY <1>1, <1>2

\* removeReference and delete: what is left, and its counts.
Kept(cs, C) == {d \in DOMAIN cs : NamesIn(C, d) = 0 \/ cs[d].refs > NamesIn(C, d)}

\* removeReference takes the closed names off the counts of what is kept.
LEMMA UnreferencedFacts ==
    ASSUME NEW D, NEW cs \in [D -> FileContext], NEW C, IsFiniteSet(C)
    PROVE  /\ Unreferenced(cs, C) \in [Kept(cs, C) -> FileContext]
           /\ Kept(cs, C) \subseteq D
           /\ \A c \in Kept(cs, C) :
                 Unreferenced(cs, C)[c].refs = cs[c].refs - NamesIn(C, c)
<1>1. ASSUME NEW c \in Kept(cs, C)
      PROVE  /\ Unreferenced(cs, C)[c] \in FileContext
             /\ Unreferenced(cs, C)[c].refs = cs[c].refs - NamesIn(C, c)
  <2>1. Unreferenced(cs, C)[c] = [cs[c] EXCEPT !.refs = @ - NamesIn(C, c)]
    BY DEF Unreferenced, Kept
  <2>2. cs[c] \in FileContext /\ NamesIn(C, c) \in Nat
    BY CountNat DEF Kept
  <2>3. cs[c].refs - NamesIn(C, c) \in Nat
    <3>1. cs[c].refs \in Nat
      BY <2>2 DEF FileContext
    <3>2. NamesIn(C, c) = 0 \/ cs[c].refs > NamesIn(C, c)
      BY DEF Kept
    <3>3. QED
      BY <2>2, <3>1, <3>2
  <2>4. QED
    BY <2>1, <2>2, <2>3 DEF FileContext
<1>2. Unreferenced(cs, C) = [c \in Kept(cs, C) |-> Unreferenced(cs, C)[c]]
  BY DEF Unreferenced, Kept
<1>3. Kept(cs, C) \subseteq D
  BY DEF Kept
<1>4. QED
  BY <1>1, <1>2, <1>3

\* Names stored are counted.
LEMMA StoringCovers ==
    ASSUME NEW D, NEW cs \in [D -> FileContext], NEW N, IsFiniteSet(N), Covers(cs, N),
           NEW T, IsFiniteSet(T), \A n \in T : n[2].context \in D
    PROVE  Covers(Referenced(cs, T), N \cup T)
<1> SUFFICES ASSUME NEW n \in N \cup T
             PROVE  /\ n[2].context \in DOMAIN Referenced(cs, T)
                    /\ Referenced(cs, T)[n[2].context].refs
                           >= NamesIn(N \cup T, n[2].context)
  BY DEF Covers
<1> DEFINE c == n[2].context
<1>1. c \in D
  BY DEF Covers
<1>2. cs[c].refs \in Nat
  BY <1>1 DEF FileContext
<1>3. cs[c].refs >= NamesIn(N, c)
  <2>1. CASE \E m \in N : m[2].context = c
    BY <2>1 DEF Covers
  <2>2. CASE \A m \in N : m[2].context # c
    BY <1>2, <2>2, CountNat
  <2>3. QED
    BY <2>1, <2>2
<1> HIDE DEF c
<1>4. NamesIn(N \cup T, c) <= NamesIn(N, c) + NamesIn(T, c)
  BY CountUnion
<1>5. /\ NamesIn(N, c) \in Nat
      /\ NamesIn(T, c) \in Nat
  BY CountNat
<1>6. IsFiniteSet(N \cup T)
  BY FS_Union
<1>7. NamesIn(N \cup T, c) \in Nat
  BY <1>6, CountNat
<1>8. /\ DOMAIN Referenced(cs, T) = D
      /\ Referenced(cs, T)[c].refs = cs[c].refs + NamesIn(T, c)
  BY <1>1, ReferencedFacts
<1>9. Referenced(cs, T)[c].refs >= NamesIn(N \cup T, c)
  BY <1>2, <1>3, <1>4, <1>5, <1>7, <1>8
<1>10. QED
  BY <1>1, <1>8, <1>9 DEF c

\* Names closed are counted off, and what others name is not deleted.
LEMMA ClosingCovers ==
    ASSUME NEW D, NEW cs \in [D -> FileContext], NEW N, IsFiniteSet(N), Covers(cs, N),
           NEW C, C \subseteq N
    PROVE  Covers(Unreferenced(cs, C), N \ C)
<1> SUFFICES ASSUME NEW n \in N \ C
             PROVE  /\ n[2].context \in DOMAIN Unreferenced(cs, C)
                    /\ Unreferenced(cs, C)[n[2].context].refs
                           >= NamesIn(N \ C, n[2].context)
  BY DEF Covers
<1> DEFINE c == n[2].context
<1>1. c \in D /\ cs[c].refs >= NamesIn(N, c)
  BY DEF Covers
<1>2. cs[c].refs \in Nat
  BY <1>1 DEF FileContext
<1>3. IsFiniteSet(C) /\ IsFiniteSet(N \ C)
  BY FS_Subset
<1>4. NamesIn(N \ C, c) > 0
  BY <1>3, CountNat
<1> HIDE DEF c
<1>5. NamesIn(N \ C, c) = NamesIn(N, c) - NamesIn(C, c)
  BY CountDifference
<1>6. /\ NamesIn(N, c) \in Nat
      /\ NamesIn(C, c) \in Nat
  BY <1>3, CountNat
<1>7. c \in Kept(cs, C)
  BY <1>1, <1>2, <1>4, <1>5, <1>6 DEF Kept
<1>8. /\ DOMAIN Unreferenced(cs, C) = Kept(cs, C)
      /\ Unreferenced(cs, C)[c].refs = cs[c].refs - NamesIn(C, c)
  BY <1>3, <1>7, UnreferencedFacts
<1>9. QED
  BY <1>1, <1>2, <1>5, <1>6, <1>7, <1>8 DEF c

\* An exit stores the names S and closes C while the names that are left, A,
\* change their processes.
LEMMA ExitCovers ==
    ASSUME NEW D, NEW cs \in [D -> FileContext], NEW N, IsFiniteSet(N), Covers(cs, N),
           NEW C, C \subseteq N, NEW S, S \subseteq N,
           NEW A, NEW f \in Injection(A, N \ C), \A a \in A : f[a][2] = a[2]
    PROVE  Covers(Unreferenced(Referenced(cs, S), C), A \cup S)
<1> DEFINE R == Referenced(cs, S)
           U == Unreferenced(R, C)
<1> SUFFICES ASSUME NEW n \in A \cup S
             PROVE  /\ n[2].context \in DOMAIN U
                    /\ U[n[2].context].refs >= NamesIn(A \cup S, n[2].context)
  BY DEF Covers
<1> DEFINE c == n[2].context
<1>1. c \in D /\ cs[c].refs >= NamesIn(N, c)
  <2>1. CASE n \in S
    BY <2>1 DEF Covers
  <2>2. CASE n \in A
    <3>1. f[n] \in N /\ f[n][2] = n[2]
      BY <2>2 DEF Injection
    <3>2. QED
      BY <3>1 DEF Covers
  <2>3. QED
    BY <2>1, <2>2
<1>2. cs[c].refs \in Nat
  BY <1>1 DEF FileContext
<1>3. IsFiniteSet(C) /\ IsFiniteSet(S) /\ IsFiniteSet(N \ C)
  BY FS_Subset
<1>4. IsFiniteSet(A) /\ NamesIn(A, c) <= NamesIn(N \ C, c)
  BY <1>3, CountMoved
<1>5. IsFiniteSet(A \cup S)
  BY <1>3, <1>4, FS_Union
<1>6. NamesIn(A \cup S, c) > 0
  BY <1>5, CountNat
<1> HIDE DEF c
<1>7. NamesIn(N \ C, c) = NamesIn(N, c) - NamesIn(C, c)
  BY CountDifference
<1>8. NamesIn(A \cup S, c) <= NamesIn(A, c) + NamesIn(S, c)
  BY <1>3, <1>4, CountUnion
<1>9. NamesIn(A, c) \in Nat /\ NamesIn(S, c) \in Nat
  BY <1>3, <1>4, CountNat
<1>10. NamesIn(N, c) \in Nat /\ NamesIn(C, c) \in Nat
  BY <1>3, CountNat
<1>11. NamesIn(A \cup S, c) \in Nat
  BY <1>5, CountNat
<1>12. R \in [D -> FileContext] /\ R[c].refs = cs[c].refs + NamesIn(S, c)
  BY <1>1, <1>3, ReferencedFacts
<1> HIDE DEF R
<1>13. R[c].refs > NamesIn(C, c) /\ R[c].refs - NamesIn(C, c) >= NamesIn(A \cup S, c)
  BY <1>1, <1>2, <1>4, <1>6, <1>7, <1>8, <1>9, <1>10, <1>11, <1>12
<1>14. c \in Kept(R, C)
  BY <1>1, <1>12, <1>13 DEF Kept
<1>15. /\ DOMAIN Unreferenced(R, C) = Kept(R, C)
       /\ Unreferenced(R, C)[c].refs = R[c].refs - NamesIn(C, c)
  BY <1>3, <1>12, <1>14, UnreferencedFacts
<1>16. QED
  BY <1>13, <1>14, <1>15 DEF c

\* A new context has no references yet and is open on what it was made for.
LEMMA NewContext ==
    ASSUME NEW X, NEW new \in Fresh(X), NEW what, NEW x \in X
    PROVE  /\ new[x] \in Range(new)
           /\ new[x] \in Context \ DOMAIN contexts
           /\ WithNew(new, what)[new[x]] = [refs |-> 0, file |-> what[x]]
<1>1. /\ new \in [X -> Context \ DOMAIN contexts]
      /\ \A y, z \in X : new[y] = new[z] => y = z
  BY DEF Fresh, Injection, IsInjective
<1>2. new[x] \in Range(new) /\ new[x] \in Context \ DOMAIN contexts
  BY <1>1 DEF Range
<1>3. WithNew(new, what)[new[x]]
        = [refs |-> 0, file |-> what[CHOOSE y \in DOMAIN new : new[y] = new[x]]]
  BY <1>2 DEF WithNew
<1>4. (CHOOSE y \in DOMAIN new : new[y] = new[x]) = x
  BY <1>1
<1>5. WithNew(new, what)[new[x]] = [refs |-> 0, file |-> what[x]]
  BY <1>3, <1>4
<1>6. QED
  BY <1>2, <1>5

\* The same for the field file alone.
LEMMA NewContextFile ==
    ASSUME NEW X, NEW new \in Fresh(X), NEW what, NEW x \in X
    PROVE  WithNew(new, what)[new[x]].file = what[x]
<1>1. WithNew(new, what)[new[x]] = [refs |-> 0, file |-> what[x]]
  BY NewContext
<1>2. \A r, v : r = [refs |-> 0, file |-> v] => r.file = v
  OBVIOUS
<1>3. QED
  BY <1>1, <1>2

\* New contexts are added to the others, which stay as they are.
LEMMA WithNewFacts ==
    ASSUME contexts \in [DOMAIN contexts -> FileContext], NEW X, NEW new \in Fresh(X),
           NEW file \in [X -> {"uart", "file", "reader", "writer"}]
    PROVE  WithNew(new, file) \in [DOMAIN contexts \cup Range(new) -> FileContext]
<1> DEFINE W == WithNew(new, file)
           D == DOMAIN contexts
<1>1. W = [c \in D \cup Range(new) |-> W[c]]
  BY DEF WithNew
<1>2. \A c \in D : W[c] = contexts[c]
  BY DEF WithNew
<1>3. ASSUME NEW x \in X PROVE W[new[x]] \in FileContext
  <2>1. W[new[x]] = [refs |-> 0, file |-> file[x]]
    BY NewContext
  <2>2. file[x] \in {"uart", "file", "reader", "writer"}
    OBVIOUS
  <2> HIDE DEF W
  <2>3. QED
    BY <2>1, <2>2 DEF FileContext
<1>4. DOMAIN new = X
  BY DEF Fresh, Injection
<1> HIDE DEF W
<1>5. ASSUME NEW c \in D \cup Range(new) PROVE W[c] \in FileContext
  <2>1. CASE c \in D
    BY <1>2, <2>1
  <2>2. CASE c \notin D
    <3>1. PICK x \in X : c = new[x]
      BY <1>4, <1>5, <2>2 DEF Range
    <3>2. QED
      BY <1>3, <3>1
  <2>3. QED
    BY <2>1, <2>2
<1>6. W \in [D \cup Range(new) -> FileContext]
  BY <1>1, <1>5
<1>7. QED
  BY <1>6 DEF W

-----------------------------------------------------------------------------
(* Tables and the names in them *)

\* All names in the tables of t.
AllNames(t) == UNION {{p} \X t[p] : p \in DOMAIN t}

\* A name is a process and an entry of its table.
LEMMA AllNamesMember ==
    ASSUME NEW t, NEW n
    PROVE  n \in AllNames(t) <=> \E p \in DOMAIN t : \E e \in t[p] : n = <<p, e>>
BY DEF AllNames

\* Tables of finitely many entries, of processes whose ids are bounded.
Tables(t) == /\ DOMAIN t \subseteq Pid
             /\ \A p \in DOMAIN t : t[p] \subseteq Entry /\ IsFiniteSet(t[p])

\* Process ids are naturals, and finitely many.
LEMMA PidNat == Pid \subseteq Nat /\ IsFiniteSet(Pid)
<1>1. 0 \in Int /\ MaxPid \in Int
  BY BoundsAssumption
<1>2. QED
  BY <1>1, FS_Interval, BoundsAssumption DEF Pid

\* What a function takes from a finite set is finite.
LEMMA FiniteRange ==
    ASSUME NEW S, IsFiniteSet(S), NEW f, DOMAIN f = S, f = [x \in S |-> f[x]]
    PROVE  IsFiniteSet(Range(f))
<1>1. f \in Surjection(S, Range(f))
  BY DEF Surjection, Range
<1>2. QED
  BY <1>1, FS_Surjection

\* Such tables hold finitely many names.
LEMMA AllNamesFinite ==
    ASSUME NEW t, Tables(t)
    PROVE  IsFiniteSet(AllNames(t))
<1> DEFINE f == [p \in DOMAIN t |-> {p} \X t[p]]
<1>1. IsFiniteSet(DOMAIN t)
  BY PidNat, FS_Subset DEF Tables
<1>2. IsFiniteSet(Range(f))
  BY <1>1, FiniteRange
<1>3. \A T \in Range(f) : IsFiniteSet(T)
  <2>1. ASSUME NEW p \in DOMAIN t PROVE IsFiniteSet({p} \X t[p])
    <3>1. IsFiniteSet({p}) /\ IsFiniteSet(t[p])
      BY FS_Singleton DEF Tables
    <3>2. QED
      BY <3>1, FS_Product
  <2>2. QED
    BY <2>1 DEF Range
<1>4. AllNames(t) = UNION Range(f)
  BY DEF AllNames, Range
<1>5. QED
  BY <1>2, <1>3, <1>4, FS_UNION

\* One table gets entries.
LEMMA NamesAdded ==
    ASSUME NEW t, NEW p \in DOMAIN t, NEW S, NEW u, DOMAIN u = DOMAIN t,
           u[p] = t[p] \cup S, \A q \in DOMAIN t \ {p} : u[q] = t[q]
    PROVE  AllNames(u) = AllNames(t) \cup ({p} \X S)
<1>1. ASSUME NEW n PROVE n \in AllNames(u) <=> n \in AllNames(t) \cup ({p} \X S)
  BY AllNamesMember
<1>2. QED
  BY <1>1

\* One table loses entries.
LEMMA NamesRemoved ==
    ASSUME NEW t, NEW p \in DOMAIN t, NEW C
    PROVE  AllNames([t EXCEPT ![p] = @ \ C]) = AllNames(t) \ ({p} \X C)
<1> DEFINE u == [t EXCEPT ![p] = @ \ C]
<1>1. DOMAIN u = DOMAIN t /\ u[p] = t[p] \ C /\ \A q \in DOMAIN t \ {p} : u[q] = t[q]
  OBVIOUS
<1> HIDE DEF u
<1>2. ASSUME NEW n PROVE n \in AllNames(u) <=> n \in AllNames(t) \ ({p} \X C)
  <2>1. ASSUME NEW q \in DOMAIN t, NEW e \in t[q], n = <<q, e>>
        PROVE  n \in AllNames(u) <=> n \notin {p} \X C
    BY <1>1, <2>1, AllNamesMember
  <2>2. QED
    BY <1>1, <2>1, AllNamesMember
<1>3. QED
  BY <1>2 DEF u

-----------------------------------------------------------------------------
(* The invariant *)

Typed == /\ currPid \in Nat
         /\ Tables(files)
         /\ \A p \in DOMAIN files : p < currPid
         /\ contexts \in [DOMAIN contexts -> FileContext]

\* A context counts its names in all processes: the count is inductive only as
\* a whole, because an exit moves names from one process to another.  Only
\* fddup of a descriptor onto itself ends that, and the kernel with it.
FilesInv ==
    /\ Typed
    /\ Covers(contexts, AllNames(files)) \/ (SelfDup /\ fault = "freed")

\* What the invariant says of names and counts is NamesLive.
LEMMA CoversNamesLive == NamesLive <=> Covers(contexts, AllNames(files))
<1>1. Names(live) = AllNames(files)
  BY DEF Names, AllNames, live
<1>2. ASSUME NEW n \in AllNames(files)
      PROVE  n[1] \in live /\ n[2] \in files[n[1]]
  BY <1>2, AllNamesMember DEF live
<1>3. ASSUME NEW p \in live, NEW e \in files[p]
      PROVE  <<p, e>> \in AllNames(files) /\ <<p, e>>[2] = e
  BY <1>3, AllNamesMember DEF live
<1>4. Covers(contexts, AllNames(files))
        <=> \A p \in live : \A e \in files[p] :
               /\ e.context \in DOMAIN contexts
               /\ contexts[e.context].refs >= NamesIn(AllNames(files), e.context)
  <2>1. ASSUME Covers(contexts, AllNames(files)), NEW p \in live, NEW e \in files[p]
        PROVE  /\ e.context \in DOMAIN contexts
               /\ contexts[e.context].refs >= NamesIn(AllNames(files), e.context)
    BY <1>3, <2>1 DEF Covers
  <2>2. ASSUME \A p \in live : \A e \in files[p] :
                  /\ e.context \in DOMAIN contexts
                  /\ contexts[e.context].refs >= NamesIn(AllNames(files), e.context)
        PROVE  Covers(contexts, AllNames(files))
    BY <1>2, <2>2 DEF Covers
  <2>3. QED
    BY <2>1, <2>2
<1>5. QED
  BY <1>1, <1>4 DEF NamesLive

\* The first process names its three contexts once each.
LEMMA InitFilesInv == Init => FilesInv
<1> SUFFICES ASSUME Init PROVE FilesInv
  OBVIOUS
<1>1. PICK new \in Injection(0 .. 2, Context) :
         /\ files = [p \in {0} |-> {[fd |-> d, context |-> new[d]] : d \in 0 .. 2}]
         /\ contexts = [c \in Range(new) |-> [refs |-> 1, file |-> "uart"]]
         /\ currPid = 1
  BY DEF Init
<1>2. new \in [0 .. 2 -> Context] /\ \A x, y \in 0 .. 2 : new[x] = new[y] => x = y
  BY DEF Injection, IsInjective
<1> DEFINE g == [d \in 0 .. 2 |-> [fd |-> d, context |-> new[d]]]
<1>3. DOMAIN files = {0} /\ files[0] = Range(g)
  BY <1>1 DEF Range
<1>4. IsFiniteSet(0 .. 2)
  <2>1. 0 \in Int /\ 2 \in Int
    OBVIOUS
  <2>2. QED
    BY <2>1, FS_Interval
<1>5. IsFiniteSet(Range(g))
  BY <1>4, FiniteRange
<1>6. Range(g) \subseteq Entry
  BY <1>2 DEF Range, Entry
<1>7. Tables(files)
  BY <1>3, <1>5, <1>6, BoundsAssumption DEF Tables, Pid
<1>8. contexts \in [DOMAIN contexts -> FileContext] /\ DOMAIN contexts = Range(new)
  BY <1>1 DEF FileContext
<1>9. Typed
  BY <1>1, <1>3, <1>7, <1>8 DEF Typed
<1>10. ASSUME NEW n \in AllNames(files)
       PROVE  /\ n[2].context \in DOMAIN contexts
              /\ contexts[n[2].context].refs >= NamesIn(AllNames(files), n[2].context)
  <2> DEFINE c == n[2].context
             S == {m \in AllNames(files) : m[2].context = c}
  <2>1. \A m \in AllNames(files) :
           \E d \in 0 .. 2 : m = <<0, [fd |-> d, context |-> new[d]]>>
    BY <1>3, AllNamesMember DEF Range
  <2>2. S = {n}
    <3>1. n \in S
      OBVIOUS
    <3>2. ASSUME NEW m \in S PROVE m = n
      <4>1. PICK x \in 0 .. 2 : m = <<0, [fd |-> x, context |-> new[x]]>>
        BY <2>1
      <4>2. PICK y \in 0 .. 2 : n = <<0, [fd |-> y, context |-> new[y]]>>
        BY <2>1
      <4>3. new[x] = new[y]
        BY <4>1, <4>2
      <4>4. QED
        BY <1>2, <4>1, <4>2, <4>3
    <3>3. QED
      BY <3>1, <3>2
  <2>3. Cardinality(S) = 1
    BY <2>2, FS_Singleton
  <2>4. c \in Range(new)
    <3>1. PICK y \in 0 .. 2 : n = <<0, [fd |-> y, context |-> new[y]]>>
      BY <2>1
    <3>2. QED
      BY <1>2, <3>1 DEF Range
  <2>5. contexts[c].refs = 1
    BY <1>1, <2>4
  <2>6. NamesIn(AllNames(files), c) = 1
    BY <2>3 DEF NamesIn
  <2>7. QED
    BY <1>8, <2>4, <2>5, <2>6
<1>11. QED
  BY <1>9, <1>10 DEF FilesInv, Covers

\* Contexts that are added cover no name less.
LEMMA NewCovers ==
    ASSUME NEW D, NEW cs, DOMAIN cs = D, NEW N, Covers(cs, N),
           NEW ds, D \subseteq DOMAIN ds, \A c \in D : ds[c] = cs[c]
    PROVE  Covers(ds, N)
BY DEF Covers

\* storeFileContext of new contexts, for open, create_pipe and exec.
LEMMA StoreNewFilesInv ==
    ASSUME FilesInv, NEW p, Running(p), NEW file, DOMAIN file \subseteq Nat,
           IsFiniteSet(DOMAIN file),
           file \in [DOMAIN file -> {"uart", "file", "reader", "writer"}],
           StoreNew(p, file)
    PROVE  FilesInv'
<1> DEFINE X == DOMAIN file
<1>1. PICK new \in Fresh(X) :
         LET stored == {[fd |-> d, context |-> new[d]] : d \in X}
         IN /\ files' = [files EXCEPT ![p] = @ \cup stored]
            /\ contexts' = Referenced(WithNew(new, file), {p} \X stored)
  BY DEF StoreNew
<1> DEFINE D == DOMAIN contexts
           g == [d \in X |-> [fd |-> d, context |-> new[d]]]
           stored == Range(g)
           W == WithNew(new, file)
<1>2. /\ files' = [files EXCEPT ![p] = @ \cup stored]
      /\ contexts' = Referenced(W, {p} \X stored)
      /\ currPid' = currPid /\ fault' = fault
  <2>1. stored = {[fd |-> d, context |-> new[d]] : d \in X}
    BY DEF Range
  <2>2. currPid' = currPid /\ fault' = fault
    BY DEF StoreNew
  <2> HIDE DEF stored
  <2>3. QED
    BY <1>1, <2>1, <2>2
<1>3. p \in DOMAIN files /\ fault = "none"
  BY DEF Running, live
<1>4. contexts \in [D -> FileContext] /\ Tables(files)
  BY DEF FilesInv, Typed
<1>5. /\ W \in [D \cup Range(new) -> FileContext]
      /\ \A c \in D : W[c] = contexts[c]
      /\ \A x \in X : new[x] \in Range(new) /\ new[x] \in Context
  <2>1. file \in [X -> {"uart", "file", "reader", "writer"}]
    OBVIOUS
  <2> HIDE DEF X
  <2>0. contexts \in [DOMAIN contexts -> FileContext]
    BY <1>4
  <2>2. WithNew(new, file) \in [DOMAIN contexts \cup Range(new) -> FileContext]
    BY <2>0, <2>1, WithNewFacts
  <2>3. \A c \in DOMAIN contexts : WithNew(new, file)[c] = contexts[c]
    BY DEF WithNew
  <2>4. \A x \in X : new[x] \in Range(new) /\ new[x] \in Context \ DOMAIN contexts
    BY NewContext
  <2>5. QED
    BY <2>2, <2>3, <2>4
<1>6. stored \subseteq Entry /\ IsFiniteSet(stored)
  <2>1. IsFiniteSet(stored)
    BY FiniteRange
  <2>2. QED
    BY <1>5, <2>1 DEF Range, Entry
<1>7. \A n \in {p} \X stored : n[2].context \in Range(new)
  BY <1>5 DEF Range
<1> HIDE DEF W, stored
<1>8. IsFiniteSet({p} \X stored)
  BY <1>6, FS_Singleton, FS_Product
<1>9. Tables(files')
  <2>1. DOMAIN files' = DOMAIN files
    BY <1>2
  <2>2. ASSUME NEW q \in DOMAIN files PROVE files'[q] \subseteq Entry /\ IsFiniteSet(files'[q])
    <3>1. CASE q = p
      <4>1. files'[q] = files[p] \cup stored
        BY <1>2, <1>3, <3>1
      <4>2. QED
        BY <1>3, <1>4, <1>6, <4>1, FS_Union DEF Tables
    <3>2. CASE q # p
      BY <1>2, <1>4, <3>2 DEF Tables
    <3>3. QED
      BY <3>1, <3>2
  <2>3. QED
    BY <1>4, <2>1, <2>2 DEF Tables
<1>10. contexts' \in [D \cup Range(new) -> FileContext]
  BY <1>2, <1>5, <1>8, ReferencedFacts
<1>11. Typed'
  <2>1. DOMAIN contexts' = D \cup Range(new)
    BY <1>10
  <2>2. contexts' \in [DOMAIN contexts' -> FileContext]
    BY <1>10, <2>1
  <2>3. DOMAIN files' = DOMAIN files
    BY <1>2
  <2>4. currPid' \in Nat /\ \A q \in DOMAIN files' : q < currPid'
    BY <1>2, <2>3 DEF FilesInv, Typed
  <2>5. QED
    BY <1>9, <2>2, <2>4 DEF Typed, Tables, Pid, Entry
<1>12. Covers(contexts', AllNames(files'))
  <2>1. Covers(contexts, AllNames(files)) /\ IsFiniteSet(AllNames(files))
    BY <1>3, <1>4, AllNamesFinite DEF FilesInv
  <2>2. Covers(W, AllNames(files))
    BY <1>5, <2>1, NewCovers
  <2>3. Covers(Referenced(W, {p} \X stored), AllNames(files) \cup ({p} \X stored))
    BY <1>5, <1>7, <1>8, <2>1, <2>2, StoringCovers
  <2>4. AllNames(files') = AllNames(files) \cup ({p} \X stored)
    <3>1. /\ DOMAIN files' = DOMAIN files /\ files'[p] = files[p] \cup stored
          /\ \A q \in DOMAIN files \ {p} : files'[q] = files[q]
      BY <1>2, <1>3
    <3>2. QED
      BY <1>3, <3>1, NamesAdded
  <2>5. QED
    BY <1>2, <2>3, <2>4
<1>13. (Covers(contexts, AllNames(files)))'
  BY <1>12 DEF Covers, AllNames, NamesIn
<1>14. QED
  BY <1>11, <1>13 DEF FilesInv

\* storeFileContext takes a natural number as the next descriptor.
LEMMA NextFdNat ==
    ASSUME FilesInv, NEW p, Running(p)
    PROVE  NextFd(p) \in Nat
<1>1. IsFiniteSet(files[p])
  BY DEF FilesInv, Typed, Tables, Running, live
<1>2. QED
  BY <1>1, FS_CardinalityType DEF NextFd

\* open stores one new context.
LEMMA OpenFilesInv ==
    ASSUME FilesInv, NEW p, Open(p)
    PROVE  FilesInv'
<1> DEFINE fd == NextFd(p)
           file == [d \in {fd} |-> "file"]
<1>1. Running(p) /\ StoreNew(p, file)
  BY DEF Open
<1>2. fd \in Nat
  BY <1>1, NextFdNat
<1> HIDE DEF fd
<1>3. DOMAIN file = {fd} /\ file \in [{fd} -> {"uart", "file", "reader", "writer"}]
  OBVIOUS
<1>4. IsFiniteSet({fd})
  BY FS_Singleton
<1> HIDE DEF file
<1>5. QED
  BY <1>1, <1>2, <1>3, <1>4, StoreNewFilesInv

\* create_pipe stores two.
LEMMA CreatePipeFilesInv ==
    ASSUME FilesInv, NEW p, CreatePipe(p)
    PROVE  FilesInv'
<1> DEFINE fd == NextFd(p)
           X == {fd, fd + 1}
           file == [d \in X |-> IF d = fd THEN "reader" ELSE "writer"]
<1>1. Running(p) /\ StoreNew(p, file)
  BY DEF CreatePipe
<1>2. fd \in Nat
  BY <1>1, NextFdNat
<1> HIDE DEF fd
<1>3. file \in [X -> {"uart", "file", "reader", "writer"}] /\ DOMAIN file = X
  OBVIOUS
<1>4. X \subseteq Nat
  BY <1>2
<1>5. IsFiniteSet(X)
  <2>1. IsFiniteSet({fd} \cup {fd + 1})
    BY FS_Singleton, FS_Union
  <2>2. X = {fd} \cup {fd + 1}
    OBVIOUS
  <2>3. QED
    BY <2>1, <2>2
<1> HIDE DEF X, file
<1>6. QED
  BY <1>1, <1>3, <1>4, <1>5, StoreNewFilesInv

\* exec stores one for each standard descriptor that is missing.
LEMMA ExecFilesInv ==
    ASSUME FilesInv, NEW p, Exec(p)
    PROVE  FilesInv'
<1> DEFINE X == 0 .. 2 \ Descriptors(files[p])
           file == [d \in X |-> "uart"]
<1>1. Running(p) /\ StoreNew(p, file)
  BY DEF Exec
<1>2. X \in SUBSET (0 .. 2)
  OBVIOUS
<1>3. IsFiniteSet(0 .. 2)
  <2>1. 0 \in Int /\ 2 \in Int
    OBVIOUS
  <2>2. QED
    BY <2>1, FS_Interval
<1>4. IsFiniteSet(X)
  BY <1>2, <1>3, FS_Subset
<1> HIDE DEF X
<1>5. file \in [X -> {"uart", "file", "reader", "writer"}] /\ DOMAIN file = X
  OBVIOUS
<1> HIDE DEF file
<1>6. X \subseteq Nat
  BY <1>2
<1>7. QED
  BY <1>1, <1>4, <1>5, <1>6, StoreNewFilesInv

\* What closeFileContext takes out of a table is in it.
LEMMA ClosedNames ==
    ASSUME Tables(files), NEW p \in DOMAIN files, NEW fd,
           NEW closed \in Closes(files[p], fd)
    PROVE  /\ closed \subseteq files[p]
           /\ {p} \X closed \subseteq AllNames(files)
           /\ IsFiniteSet({p} \X closed)
           /\ Tables([files EXCEPT ![p] = @ \ closed])
<1>1. closed \in SUBSET files[p]
  BY DEF Closes
<1>2. {p} \X closed \subseteq AllNames(files)
  BY <1>1 DEF AllNames
<1>3. IsFiniteSet(files[p]) /\ files[p] \subseteq Entry
  BY DEF Tables
<1>4. IsFiniteSet(closed)
  BY <1>1, <1>3, FS_Subset
<1>5. IsFiniteSet({p} \X closed)
  BY <1>4, FS_Singleton, FS_Product
<1>6. IsFiniteSet(files[p] \ closed) /\ files[p] \ closed \subseteq Entry
  BY <1>3, FS_Difference
<1>7. Tables([files EXCEPT ![p] = @ \ closed])
  BY <1>6 DEF Tables
<1>8. QED
  BY <1>1, <1>2, <1>5, <1>7

\* close drops one name.
LEMMA CloseFilesInv ==
    ASSUME FilesInv, NEW p, NEW fd, Close(p, fd)
    PROVE  FilesInv'
<1>1. PICK closed \in Closes(files[p], fd) :
         /\ files' = [files EXCEPT ![p] = @ \ closed]
         /\ contexts' = Unreferenced(contexts, {p} \X closed)
  BY DEF Close
<1>2. p \in DOMAIN files /\ fault = "none" /\ UNCHANGED <<currPid, fault>>
  BY DEF Close, Running, live
<1> DEFINE D == DOMAIN contexts
           C == {p} \X closed
<1>3. contexts \in [D -> FileContext] /\ Tables(files)
  BY DEF FilesInv, Typed
<1>4. C \subseteq AllNames(files) /\ IsFiniteSet(C) /\ Tables(files')
  BY <1>1, <1>2, <1>3, ClosedNames
<1> HIDE DEF C
<1>5. contexts' \in [Kept(contexts, C) -> FileContext]
  BY <1>1, <1>3, <1>4, UnreferencedFacts DEF C
<1>6. Typed'
  <2>1. contexts' \in [DOMAIN contexts' -> FileContext]
    BY <1>5
  <2>2. DOMAIN files' = DOMAIN files
    BY <1>1
  <2>3. currPid' \in Nat /\ \A q \in DOMAIN files' : q < currPid'
    BY <1>2, <2>2 DEF FilesInv, Typed
  <2>4. QED
    BY <1>4, <2>1, <2>3 DEF Typed, Tables, Pid, Entry
<1>7. Covers(contexts', AllNames(files'))
  <2>1. Covers(contexts, AllNames(files)) /\ IsFiniteSet(AllNames(files))
    BY <1>2, <1>3, AllNamesFinite DEF FilesInv
  <2>2. Covers(Unreferenced(contexts, C), AllNames(files) \ C)
    BY <1>3, <1>4, <2>1, ClosingCovers
  <2>3. AllNames([files EXCEPT ![p] = @ \ closed]) = AllNames(files) \ C
    BY <1>2, NamesRemoved DEF C
  <2>4. QED
    BY <1>1, <2>2, <2>3 DEF C
<1>8. (Covers(contexts, AllNames(files)))'
  BY <1>7 DEF Covers, AllNames, NamesIn
<1>9. QED
  BY <1>6, <1>8 DEF FilesInv

\* fddup drops a name and adds one, or follows a freed context and stops.
LEMMA FddupFilesInv ==
    ASSUME FilesInv, NEW p, NEW oldfd \in Fd, NEW newfd \in Fd, Fddup(p, oldfd, newfd)
    PROVE  FilesInv'
<1> DEFINE alias(e) == [e EXCEPT !.fd = newfd]
           stores(closed) == newfd \notin Descriptors(files[p] \ closed)
           after(closed) == Unreferenced(contexts, {p} \X closed)
<1>1. PICK e \in files[p], closed \in Closes(files[p], newfd) :
         /\ files' = [files EXCEPT ![p] =
                        IF stores(closed) THEN (files[p] \ closed) \cup {alias(e)}
                                          ELSE files[p] \ closed]
         /\ contexts' = IF stores(closed)
                        THEN Referenced(after(closed), {<<p, alias(e)>>})
                        ELSE after(closed)
         /\ fault' = IF stores(closed) /\ e.context \notin DOMAIN after(closed)
                     THEN "freed" ELSE "none"
         /\ e.fd = oldfd
  BY DEF Fddup
<1>2. p \in DOMAIN files /\ fault = "none" /\ currPid' = currPid
  BY DEF Fddup, Running, live
<1> DEFINE D == DOMAIN contexts
           N == AllNames(files)
           C == {p} \X closed
           U == Unreferenced(contexts, C)
           kept == [files EXCEPT ![p] = @ \ closed]
           a == alias(e)
           T == {<<p, a>>}
<1>3. contexts \in [D -> FileContext] /\ Tables(files)
  BY DEF FilesInv, Typed
<1>4. C \subseteq N /\ IsFiniteSet(C) /\ Tables(kept)
  BY <1>2, <1>3, ClosedNames
<1>5. e \in Entry /\ a \in Entry /\ a.context = e.context
  BY <1>2, <1>3, BoundsAssumption DEF Tables, Entry
<1>6. U \in [Kept(contexts, C) -> FileContext]
  BY <1>3, <1>4, UnreferencedFacts
<1>7. Covers(U, N \ C) /\ IsFiniteSet(N \ C)
  <2>1. Covers(contexts, N) /\ IsFiniteSet(N)
    BY <1>2, <1>3, AllNamesFinite DEF FilesInv
  <2>2. Covers(U, N \ C)
    BY <1>3, <1>4, <2>1, ClosingCovers
  <2>3. QED
    BY <2>1, <2>2, FS_Difference
<1>8. AllNames(kept) = N \ C
  BY <1>2, NamesRemoved
<1>9. DOMAIN kept = DOMAIN files /\ kept[p] = files[p] \ closed
  BY <1>2
<1>10. IsFiniteSet(T)
  BY FS_Singleton
<1>11. SelfDup \/ e.context \in DOMAIN U
  <2>1. ASSUME ~SelfDup PROVE e.context \in DOMAIN U
    <3>1. e.fd # newfd
      BY <1>1, <2>1 DEF Fddup
    <3>2. e \notin closed
      BY <3>1 DEF Closes, Descriptors
    <3>3. <<p, e>> \in N \ C /\ <<p, e>>[2] = e
      BY <1>2, <3>2, AllNamesMember
    <3>4. QED
      BY <1>7, <3>3 DEF Covers
  <2>2. QED
    BY <2>1
<1>12. CASE ~stores(closed)
  <2>1. files' = kept /\ contexts' = U
    BY <1>1, <1>12
  <2> HIDE DEF kept, U, C, N
  <2>2. Covers(contexts', AllNames(files')) /\ Tables(files')
    BY <1>4, <1>7, <1>8, <2>1
  <2>3. contexts' \in [DOMAIN contexts' -> FileContext] /\ DOMAIN files' = DOMAIN files
    BY <1>6, <1>9, <2>1
  <2>4. Typed'
    BY <1>2, <2>2, <2>3 DEF FilesInv, Typed, Tables, Pid, Entry
  <2>5. (Covers(contexts, AllNames(files)))'
    BY <2>2 DEF Covers, AllNames, NamesIn
  <2>6. QED
    BY <2>4, <2>5 DEF FilesInv
<1>13. CASE stores(closed)
  <2>1. files' = [kept EXCEPT ![p] = @ \cup {a}]
    BY <1>1, <1>9, <1>13
  <2>2. contexts' = Referenced(U, T) /\ (e.context \notin DOMAIN U => fault' = "freed")
    BY <1>1, <1>13
  <2> HIDE DEF kept, U, C, N, a
  <2>3. \A n \in T : n[2].context = e.context
    <3>1. <<p, a>>[2] = a
      OBVIOUS
    <3>2. QED
      BY <1>5, <3>1
  <2>4. contexts' \in [Kept(contexts, C) -> FileContext]
    BY <1>6, <1>10, <2>2, ReferencedFacts
  <2>5. Tables(files') /\ DOMAIN files' = DOMAIN files
    <3>1. DOMAIN files' = DOMAIN files /\ \A q \in DOMAIN files \ {p} : files'[q] = kept[q]
      BY <1>9, <2>1
    <3>2. files'[p] = kept[p] \cup {a}
      BY <1>2, <1>9, <2>1
    <3>3. IsFiniteSet(kept[p] \cup {a}) /\ kept[p] \cup {a} \subseteq Entry
      BY <1>2, <1>4, <1>5, <1>9, FS_AddElement DEF Tables
    <3>4. QED
      BY <1>4, <1>9, <3>1, <3>2, <3>3 DEF Tables
  <2>6. Typed'
    <3>1. contexts' \in [DOMAIN contexts' -> FileContext]
      BY <2>4
    <3>2. QED
      BY <1>2, <2>5, <3>1 DEF FilesInv, Typed, Tables, Pid, Entry
  <2>7. ASSUME ~(SelfDup /\ fault' = "freed") PROVE Covers(contexts', AllNames(files'))
    <3>1. e.context \in DOMAIN U
      BY <1>11, <2>2, <2>7
    <3>2. \A n \in T : n[2].context \in Kept(contexts, C)
      BY <1>6, <2>3, <3>1
    <3> HIDE DEF T
    <3>3. Covers(Referenced(U, T), (N \ C) \cup T)
      BY <1>6, <1>7, <1>10, <3>2, StoringCovers
    <3> DEFINE A == {a}
    <3>5. {p} \X A = T
      BY DEF T
    <3> HIDE DEF A
    <3>4. AllNames(files') = AllNames(kept) \cup ({p} \X A)
      <4>1. /\ DOMAIN files' = DOMAIN kept /\ files'[p] = kept[p] \cup A
            /\ \A q \in DOMAIN kept \ {p} : files'[q] = kept[q]
        BY <1>2, <1>9, <2>1 DEF A
      <4>2. p \in DOMAIN kept
        BY <1>2, <1>9
      <4>3. \A S : /\ DOMAIN files' = DOMAIN kept /\ files'[p] = kept[p] \cup S
                   /\ \A q \in DOMAIN kept \ {p} : files'[q] = kept[q]
                   => AllNames(files') = AllNames(kept) \cup ({p} \X S)
        BY <4>2, NamesAdded
      <4>4. QED
        BY <4>1, <4>3
    <3>6. QED
      BY <1>8, <2>2, <3>3, <3>4, <3>5
  <2>8. (Covers(contexts, AllNames(files)) \/ (SelfDup /\ fault = "freed"))'
    BY <2>7 DEF Covers, AllNames, NamesIn
  <2>9. QED
    BY <2>6, <2>8 DEF FilesInv
<1>14. QED
  BY <1>12, <1>13

\* What clone stores: a copy of each entry that it finds, open on what the
\* parent's descriptor is open on.
Found(from, fd) == CHOOSE e \in from : e.fd = fd
CopiesOf(from, new) == {[e EXCEPT !.context = new[e]] : e \in from}
CopiedFile(p, from) == [e \in files[p] |-> contexts[Found(from, e.fd).context].file]

Clones(p, from, new) ==
    /\ from \in Lookups(files[p])
    /\ new \in Fresh(files[p])
    /\ files' = [q \in live \cup {currPid} |->
                   IF q = currPid THEN CopiesOf(from, new) ELSE files[q]]
    /\ contexts' = Referenced(Referenced(WithNew(new, CopiedFile(p, from)),
                                         {currPid} \X CopiesOf(from, new)),
                              {currPid} \X CopiesOf(from, new))

\* The action in terms of the operators above.
LEMMA CloneClones ==
    ASSUME NEW p, Clone(p)
    PROVE  /\ Running(p) /\ currPid <= MaxPid /\ currPid' = currPid + 1 /\ fault' = fault
           /\ \E from, new : Clones(p, from, new)
<1>1. /\ Running(p) /\ currPid <= MaxPid /\ currPid' = currPid + 1 /\ fault' = fault
  BY DEF Clone
<1>2. PICK from \in Lookups(files[p]), new \in Fresh(files[p]) :
         /\ files' = [q \in live \cup {currPid} |->
                        IF q = currPid THEN CopiesOf(from, new) ELSE files[q]]
         /\ contexts' = Referenced(Referenced(WithNew(new, CopiedFile(p, from)),
                                              {currPid} \X CopiesOf(from, new)),
                                   {currPid} \X CopiesOf(from, new))
  BY DEF Clone, CopiesOf, CopiedFile, Found
<1>3. QED
  BY <1>1, <1>2 DEF Clones

\* Every descriptor of the parent is found, at an entry whose context is there.
LEMMA FoundEntry ==
    ASSUME FilesInv, NEW p, Running(p), NEW from \in Lookups(files[p]), NEW e \in files[p]
    PROVE  /\ Found(from, e.fd) \in from
           /\ Found(from, e.fd) \in files[p]
           /\ Found(from, e.fd).fd = e.fd
           /\ contexts[Found(from, e.fd).context] \in FileContext
<1>1. from \subseteq files[p] /\ Descriptors(from) = Descriptors(files[p])
  BY DEF Lookups
<1>2. p \in DOMAIN files /\ Covers(contexts, AllNames(files))
  BY DEF FilesInv, Running, live
<1>3. e.fd \in Descriptors(from)
  BY <1>1 DEF Descriptors
<1>4. \E d \in from : d.fd = e.fd
  BY <1>3 DEF Descriptors
<1>5. Found(from, e.fd) \in from /\ Found(from, e.fd).fd = e.fd
  BY <1>4 DEF Found
<1> DEFINE d == Found(from, e.fd)
<1> HIDE DEF d
<1>6. <<p, d>> \in AllNames(files) /\ <<p, d>>[2] = d
  BY <1>1, <1>2, <1>5, AllNamesMember DEF d
<1>7. d.context \in DOMAIN contexts
  BY <1>2, <1>6 DEF Covers
<1>8. contexts[d.context] \in FileContext
  BY <1>7 DEF FilesInv, Typed
<1>9. QED
  BY <1>1, <1>5, <1>8 DEF d

\* The contexts that clone makes.
LEMMA CopiesFacts ==
    ASSUME FilesInv, NEW p, Running(p), NEW from \in Lookups(files[p]),
           NEW new \in Fresh(files[p])
    PROVE  /\ WithNew(new, CopiedFile(p, from))
                  \in [DOMAIN contexts \cup Range(new) -> FileContext]
           /\ \A e \in files[p] :
                 new[e] \in Range(new) /\ new[e] \in Context \ DOMAIN contexts
           /\ CopiesOf(from, new) \subseteq Entry
           /\ \A e \in CopiesOf(from, new) : e.context \in Range(new)
           /\ IsFiniteSet(CopiesOf(from, new))
<1> DEFINE t == files[p]
           what == CopiedFile(p, from)
<1>1. /\ p \in DOMAIN files /\ from \subseteq t
      /\ contexts \in [DOMAIN contexts -> FileContext]
  BY DEF FilesInv, Typed, Running, live, Lookups
<1>2. t \subseteq Entry /\ IsFiniteSet(t)
  BY <1>1 DEF FilesInv, Typed, Tables
<1>3. what \in [t -> {"uart", "file", "reader", "writer"}]
  <2>1. ASSUME NEW e \in t
        PROVE  contexts[Found(from, e.fd).context].file
                  \in {"uart", "file", "reader", "writer"}
    BY FoundEntry DEF FileContext
  <2>2. QED
    BY <2>1 DEF CopiedFile
<1> HIDE DEF what, t
<1>4. new \in Fresh(t)
  BY DEF t
<1>5. WithNew(new, what) \in [DOMAIN contexts \cup Range(new) -> FileContext]
  BY <1>1, <1>3, <1>4, WithNewFacts
<1>6. \A e \in t : new[e] \in Range(new) /\ new[e] \in Context \ DOMAIN contexts
  BY <1>4, NewContext
<1>7. /\ CopiesOf(from, new) \subseteq Entry
      /\ \A e \in CopiesOf(from, new) : e.context \in Range(new)
  BY <1>1, <1>2, <1>6 DEF Entry, CopiesOf, t
<1>8. IsFiniteSet(CopiesOf(from, new))
  <2> DEFINE g == [e \in from |-> [e EXCEPT !.context = new[e]]]
  <2>1. IsFiniteSet(from)
    BY <1>1, <1>2, FS_Subset DEF t
  <2>2. IsFiniteSet(Range(g))
    BY <2>1, FiniteRange
  <2>3. Range(g) = CopiesOf(from, new)
    BY DEF Range, CopiesOf
  <2>4. QED
    BY <2>2, <2>3
<1>9. QED
  BY <1>5, <1>6, <1>7, <1>8 DEF what, t

\* The child's names are counted twice: for the table and for the object that
\* clone never deletes.
LEMMA CloneFilesInv ==
    ASSUME FilesInv, NEW p, Clone(p)
    PROVE  FilesInv'
<1>1. PICK from, new : Clones(p, from, new)
  BY CloneClones
<1>2. /\ p \in DOMAIN files /\ fault = "none" /\ fault' = fault
      /\ currPid' = currPid + 1 /\ currPid <= MaxPid /\ Running(p)
  BY CloneClones DEF Running, live
<1> DEFINE D == DOMAIN contexts
           W == WithNew(new, CopiedFile(p, from))
           stored == CopiesOf(from, new)
           T == {currPid} \X stored
           N == AllNames(files)
<1>3. Tables(files) /\ currPid \in Nat
  BY DEF FilesInv, Typed
<1>4. Covers(contexts, N) /\ IsFiniteSet(N)
  BY <1>2, <1>3, AllNamesFinite DEF FilesInv
<1>5. from \in Lookups(files[p]) /\ new \in Fresh(files[p])
  BY <1>1 DEF Clones
<1>6. W \in [D \cup Range(new) -> FileContext]
  BY <1>2, <1>5, CopiesFacts
<1>7. \A c \in D : W[c] = contexts[c]
  BY DEF WithNew
<1>8. stored \subseteq Entry /\ \A e \in stored : e.context \in Range(new)
  BY <1>2, <1>5, CopiesFacts
<1>9. IsFiniteSet(stored)
  BY <1>2, <1>5, CopiesFacts
<1> HIDE DEF W, stored, N, D
<1>10. IsFiniteSet(T) /\ \A n \in T : n[2].context \in D \cup Range(new)
  <2>1. IsFiniteSet(T)
    BY <1>9, FS_Singleton, FS_Product
  <2>2. QED
    BY <1>8, <2>1
<1>11. contexts' = Referenced(Referenced(W, T), T)
  BY <1>1 DEF Clones, W, stored
<1>12. /\ DOMAIN files' = DOMAIN files \cup {currPid}
       /\ files'[currPid] = stored
       /\ currPid \notin DOMAIN files
       /\ \A q \in DOMAIN files : files'[q] = files[q]
  <2>1. currPid \notin DOMAIN files
    BY <1>3 DEF FilesInv, Typed
  <2>2. QED
    BY <1>1, <2>1 DEF Clones, stored, live
<1>13. AllNames(files') = N \cup T
  <2>1. ASSUME NEW n PROVE n \in AllNames(files') <=> n \in AllNames(files) \cup T
    BY <1>12, AllNamesMember
  <2>2. QED
    BY <2>1 DEF N
<1> HIDE DEF T
<1>14. Covers(W, N)
  BY <1>4, <1>6, <1>7, NewCovers DEF D
<1>15. Referenced(W, T) \in [D \cup Range(new) -> FileContext]
  BY <1>6, <1>10, ReferencedFacts
<1>16. Covers(Referenced(W, T), N \cup T) /\ IsFiniteSet(N \cup T)
  BY <1>4, <1>6, <1>10, <1>14, StoringCovers, FS_Union
<1>17. Covers(Referenced(Referenced(W, T), T), (N \cup T) \cup T)
  BY <1>10, <1>15, <1>16, StoringCovers
<1>18. Covers(contexts', AllNames(files'))
  <2>1. (N \cup T) \cup T = N \cup T
    OBVIOUS
  <2>2. QED
    BY <1>11, <1>13, <1>17, <2>1
<1>19. contexts' \in [D \cup Range(new) -> FileContext]
  BY <1>10, <1>11, <1>15, ReferencedFacts
<1>20. Tables(files')
  <2>1. currPid \in Pid
    BY <1>2, <1>3, BoundsAssumption DEF Pid
  <2>2. QED
    BY <1>3, <1>8, <1>9, <1>12, <2>1 DEF Tables
<1>21. Typed'
  <2>1. contexts' \in [DOMAIN contexts' -> FileContext]
    BY <1>19
  <2>2. currPid' \in Nat /\ \A q \in DOMAIN files' : q < currPid'
    <3>1. \A q \in DOMAIN files : q < currPid /\ q \in Nat
      BY PidNat DEF FilesInv, Typed, Tables
    <3>2. QED
      BY <1>2, <1>3, <1>12, <3>1
  <2>3. QED
    BY <1>20, <2>1, <2>2 DEF Typed, Tables, Pid, Entry
<1>22. (Covers(contexts, AllNames(files)))'
  BY <1>18 DEF Covers, AllNames, NamesIn
<1>23. QED
  BY <1>21, <1>22 DEF FilesInv

-----------------------------------------------------------------------------
(* Exit *)

\* What an exit of p does when the tree relocates the chain M, its loops close
\* the names in closed, and its lookups find those in found.
Of(names, o) == {e \in files[o] : <<o, e>> \in names}
Left(closed, o) == files[o] \ Of(closed, o)
StoredOf(p, M, closed, found, q) ==
    {e \in Of(found, q) : e.fd \notin Descriptors(Left(closed, Toward(p, M, q)))}
StoredNames(p, M, closed, found) ==
    UNION {{q} \X StoredOf(p, M, closed, found, q) : q \in M}

Exits(p, M, closed, found) ==
    /\ M \in Chains(files, p)
    /\ closed \subseteq Names(M \cup {p})
    /\ files' = [q \in live \ {p} |->
                   IF q \in M
                   THEN Left(closed, Toward(p, M, q)) \cup StoredOf(p, M, closed, found, q)
                   ELSE files[q]]
    /\ contexts' = Unreferenced(Referenced(contexts, StoredNames(p, M, closed, found)),
                                closed)
    /\ currPid' = currPid

\* The action in terms of the operators above.
LEMMA TerminateExits ==
    ASSUME NEW p, Terminate(p)
    PROVE  Running(p) /\ \E M, closed, found : Exits(p, M, closed, found)
<1>1. Running(p) /\ currPid' = currPid
  BY DEF Terminate
<1>2. PICK M \in Chains(files, p) :
         \E closed \in SUBSET Names(M \cup {p}) : \E found \in SUBSET Names(M) :
            /\ files' = [q \in live \ {p} |->
                           IF q \in M
                           THEN Left(closed, Toward(p, M, q))
                                    \cup StoredOf(p, M, closed, found, q)
                           ELSE files[q]]
            /\ contexts' = Unreferenced(
                   Referenced(contexts, StoredNames(p, M, closed, found)), closed)
  BY DEF Terminate, Of, Left, StoredOf, StoredNames
<1>3. QED
  BY <1>1, <1>2 DEF Exits

\* The names that stay in an object which a process moves to, or in a process
\* that stays where it is, and the name that each of them was before.
KeptNames(p, M, closed) ==
    UNION {{q} \X (IF q \in M THEN Left(closed, Toward(p, M, q)) ELSE files[q]) :
           q \in DOMAIN files \ {p}}
Before(p, M, closed) ==
    [a \in KeptNames(p, M, closed) |->
        <<IF a[1] \in M THEN Toward(p, M, a[1]) ELSE a[1], a[2]>>]

\* No two of them were the same name, and none was closed.
LEMMA BeforeInjective ==
    ASSUME Tables(files), NEW p \in DOMAIN files, NEW M \in Chains(files, p),
           NEW closed, closed \subseteq Names(M \cup {p})
    PROVE  /\ Before(p, M, closed)
                  \in Injection(KeptNames(p, M, closed), AllNames(files) \ closed)
           /\ \A a \in KeptNames(p, M, closed) : Before(p, M, closed)[a][2] = a[2]
<1> DEFINE A == KeptNames(p, M, closed)
           home(q) == IF q \in M THEN Toward(p, M, q) ELSE q
           f == Before(p, M, closed)
<1>0. DOMAIN files \subseteq Nat
  BY PidNat DEF Tables
<1>1. M \subseteq DOMAIN files /\ p \notin M
  BY <1>0, ChainsAreOfOthers
<1>2. \A q \in M : Toward(p, M, q) \in M \cup {p}
  BY <1>0, <1>1, TowardInChain
<1>3. \A x, y \in M : Toward(p, M, x) = Toward(p, M, y) => x = y
  BY <1>0, TowardInjective
<1>4. \A n \in closed : n[1] \in M \cup {p}
  BY DEF Names
<1>5. ASSUME NEW a \in A
      PROVE  /\ a = <<a[1], a[2]>> /\ a[1] \in DOMAIN files \ {p}
             /\ f[a] = <<home(a[1]), a[2]>>
             /\ f[a] \in AllNames(files) \ closed
  <2>1. PICK q \in DOMAIN files \ {p} :
           a \in {q} \X (IF q \in M THEN Left(closed, Toward(p, M, q)) ELSE files[q])
    BY DEF KeptNames
  <2>2. a = <<q, a[2]>> /\ a[1] = q
    BY <2>1
  <2>3. f[a] = <<home(q), a[2]>>
    BY <2>2 DEF Before
  <2>4. CASE q \in M
    <3> DEFINE o == Toward(p, M, q)
    <3>1. a[2] \in Left(closed, o) /\ home(q) = o
      BY <2>1, <2>4
    <3>2. o \in DOMAIN files
      BY <1>1, <1>2, <2>4
    <3>3. a[2] \in files[o] /\ <<o, a[2]>> \notin closed
      BY <3>1 DEF Left, Of
    <3> HIDE DEF o
    <3>4. <<o, a[2]>> \in AllNames(files)
      BY <3>2, <3>3, AllNamesMember
    <3>5. QED
      BY <2>2, <2>3, <3>1, <3>3, <3>4
  <2>5. CASE q \notin M
    <3>1. a[2] \in files[q] /\ home(q) = q
      BY <2>1, <2>5
    <3>2. <<q, a[2]>> \in AllNames(files)
      BY <3>1, AllNamesMember
    <3>3. <<q, a[2]>> \notin closed
      BY <1>4, <2>5
    <3>4. QED
      BY <2>2, <2>3, <3>1, <3>2, <3>3
  <2>6. QED
    BY <2>4, <2>5
<1>6. ASSUME NEW x \in DOMAIN files \ {p}, NEW y \in DOMAIN files \ {p}, home(x) = home(y)
      PROVE  x = y
  BY <1>2, <1>3, <1>6
<1> HIDE DEF home
<1>7. ASSUME NEW a \in A, NEW b \in A, f[a] = f[b] PROVE a = b
  <2>1. home(a[1]) = home(b[1]) /\ a[2] = b[2]
    BY <1>5, <1>7
  <2>2. a[1] = b[1]
    BY <1>5, <1>6, <2>1
  <2>3. QED
    BY <1>5, <2>1, <2>2
<1>8. f \in [A -> AllNames(files) \ closed]
  <2>1. f = [a \in A |-> f[a]]
    BY DEF Before
  <2>2. QED
    BY <1>5, <2>1
<1>9. \A a \in A : f[a][2] = a[2]
  BY <1>5
<1> HIDE DEF f, A
<1>10. f \in Injection(A, AllNames(files) \ closed)
  BY <1>7, <1>8 DEF Injection, IsInjective
<1>11. QED
  BY <1>9, <1>10 DEF f, A

\* An exit moves, closes and stores names of every process of the chain.
LEMMA TerminateFilesInv ==
    ASSUME FilesInv, NEW p, Terminate(p)
    PROVE  FilesInv'
<1>1. Running(p)
  BY TerminateExits
<1>2. PICK M, closed, found : Exits(p, M, closed, found)
  BY TerminateExits
<1> DEFINE D == DOMAIN contexts
           N == AllNames(files)
           A == KeptNames(p, M, closed)
           S == StoredNames(p, M, closed, found)
           f == Before(p, M, closed)
<1>3. p \in DOMAIN files /\ fault = "none" /\ M \in Chains(files, p)
  BY <1>1, <1>2 DEF Running, live, Exits
<1>4. contexts \in [D -> FileContext] /\ Tables(files)
  BY DEF FilesInv, Typed
<1>5. Covers(contexts, N) /\ IsFiniteSet(N)
  BY <1>3, <1>4, AllNamesFinite DEF FilesInv
<1>6. M \subseteq DOMAIN files /\ p \notin M
  <2>1. DOMAIN files \subseteq Nat
    BY <1>4, PidNat DEF Tables
  <2>2. QED
    BY <1>3, <2>1, ChainsAreOfOthers
<1>7. closed \subseteq Names(M \cup {p}) /\ closed \subseteq N
  BY <1>2, <1>3, <1>6 DEF Exits, Names, AllNames
<1>8. S \subseteq N
  <2>1. ASSUME NEW n \in S PROVE n \in N
    <3>1. PICK q \in M : n \in {q} \X StoredOf(p, M, closed, found, q)
      BY DEF StoredNames
    <3>2. PICK e \in StoredOf(p, M, closed, found, q) : n = <<q, e>>
      BY <3>1
    <3>3. e \in files[q] /\ q \in DOMAIN files
      BY <1>6 DEF StoredOf, Of
    <3>4. QED
      BY <3>2, <3>3, AllNamesMember
  <2>2. QED
    BY <2>1
<1>9. f \in Injection(A, N \ closed) /\ \A a \in A : f[a][2] = a[2]
  BY <1>3, <1>4, <1>7, BeforeInjective
<1>10. contexts' = Unreferenced(Referenced(contexts, S), closed) /\ currPid' = currPid
  BY <1>2 DEF Exits
<1>11. /\ DOMAIN files' = DOMAIN files \ {p}
       /\ \A q \in M : files'[q] = Left(closed, Toward(p, M, q))
                                       \cup StoredOf(p, M, closed, found, q)
       /\ \A q \in (DOMAIN files \ {p}) \ M : files'[q] = files[q]
  BY <1>2, <1>6 DEF Exits, live
<1>12. AllNames(files') = A \cup S
  <2>1. ASSUME NEW n PROVE n \in AllNames(files') <=> n \in A \cup S
    <3>1. n \in A <=> \E q \in DOMAIN files \ {p} :
                         \E e \in (IF q \in M THEN Left(closed, Toward(p, M, q))
                                              ELSE files[q]) : n = <<q, e>>
      BY DEF KeptNames
    <3>2. n \in S <=> \E q \in M : \E e \in StoredOf(p, M, closed, found, q) : n = <<q, e>>
      BY DEF StoredNames
    <3>3. n \in AllNames(files') <=> \E q \in DOMAIN files' : \E e \in files'[q] : n = <<q, e>>
      BY AllNamesMember
    <3> HIDE DEF A, S
    <3>4. QED
      BY <1>6, <1>11, <3>1, <3>2, <3>3
  <2>2. QED
    BY <2>1
<1> HIDE DEF N, A, S, f
<1>13. Covers(contexts', AllNames(files'))
  <2>1. Covers(Unreferenced(Referenced(contexts, S), closed), A \cup S)
    BY <1>4, <1>5, <1>7, <1>8, <1>9, ExitCovers
  <2>2. QED
    BY <1>10, <1>12, <2>1
<1>14. Tables(files')
  <2>1. ASSUME NEW q \in DOMAIN files' PROVE files'[q] \subseteq Entry /\ IsFiniteSet(files'[q])
    <3>1. CASE q \in M
      <4> DEFINE o == Toward(p, M, q)
                 L == Left(closed, o)
                 St == StoredOf(p, M, closed, found, q)
      <4>1. o \in DOMAIN files
        <5>1. DOMAIN files \subseteq Nat
          BY <1>4, PidNat DEF Tables
        <5>2. o \in M \cup {p}
          BY <1>3, <1>6, <3>1, <5>1, TowardInChain
        <5>3. QED
          BY <1>3, <1>6, <5>2
      <4>2. L \in SUBSET files[o] /\ St \in SUBSET files[q]
        BY DEF Left, StoredOf, Of
      <4> HIDE DEF o, L, St
      <4>3. IsFiniteSet(files[o]) /\ IsFiniteSet(files[q])
        BY <1>4, <1>6, <3>1, <4>1 DEF Tables
      <4>4. IsFiniteSet(L) /\ IsFiniteSet(St)
        BY <4>2, <4>3, FS_Subset
      <4>5. IsFiniteSet(L \cup St)
        BY <4>4, FS_Union
      <4>6. L \cup St \subseteq Entry
        BY <1>4, <1>6, <3>1, <4>1, <4>2 DEF Tables
      <4>7. files'[q] = L \cup St
        BY <1>11, <3>1 DEF L, St, o
      <4>8. QED
        BY <4>5, <4>6, <4>7
    <3>2. CASE q \notin M
      BY <1>4, <1>11, <3>2 DEF Tables
    <3>3. QED
      BY <3>1, <3>2
  <2>2. QED
    BY <1>4, <1>11, <2>1 DEF Tables
<1>15. contexts' \in [DOMAIN contexts' -> FileContext]
  <2>1. IsFiniteSet(S) /\ IsFiniteSet(closed)
    BY <1>5, <1>7, <1>8, FS_Subset
  <2>2. Referenced(contexts, S) \in [D -> FileContext]
    BY <1>4, <2>1, ReferencedFacts
  <2>3. contexts' \in [Kept(Referenced(contexts, S), closed) -> FileContext]
    BY <1>10, <2>1, <2>2, UnreferencedFacts
  <2>4. QED
    BY <2>3
<1>16. Typed'
  <2>1. currPid' \in Nat /\ \A q \in DOMAIN files' : q < currPid'
    BY <1>10, <1>11 DEF FilesInv, Typed
  <2>2. QED
    BY <1>14, <1>15, <2>1 DEF Typed, Tables, Pid, Entry
<1>17. (Covers(contexts, AllNames(files)))'
  BY <1>13 DEF Covers, AllNames, NamesIn
<1>18. QED
  BY <1>16, <1>17 DEF FilesInv

-----------------------------------------------------------------------------
(* The theorems *)

\* Every step keeps the counts.
LEMMA NextFilesInv == FilesInv /\ [Next]_vars => FilesInv'
<1> SUFFICES ASSUME FilesInv, [Next]_vars
             PROVE  FilesInv'
  OBVIOUS
<1>1. ASSUME NEW p \in Pid, Open(p)
      PROVE  FilesInv'
  BY <1>1, OpenFilesInv
<1>2. ASSUME NEW p \in Pid, CreatePipe(p)
      PROVE  FilesInv'
  BY <1>2, CreatePipeFilesInv
<1>3. ASSUME NEW p \in Pid, Exec(p)
      PROVE  FilesInv'
  BY <1>3, ExecFilesInv
<1>4. ASSUME NEW p \in Pid, NEW fd \in Fd, Close(p, fd)
      PROVE  FilesInv'
  BY <1>4, CloseFilesInv
<1>5. ASSUME NEW p \in Pid, NEW oldfd \in Fd, NEW newfd \in Fd, Fddup(p, oldfd, newfd)
      PROVE  FilesInv'
  BY <1>5, FddupFilesInv
<1>6. ASSUME NEW p \in Pid, Clone(p)
      PROVE  FilesInv'
  BY <1>6, CloneFilesInv
<1>7. ASSUME NEW p \in Pid, Terminate(p)
      PROVE  FilesInv'
  BY <1>7, TerminateFilesInv
<1>8. CASE UNCHANGED vars
  BY <1>8 DEF FilesInv, Typed, Tables, Covers, AllNames, NamesIn, vars, Pid, Entry
<1>9. QED
  BY <1>1, <1>2, <1>3, <1>4, <1>5, <1>6, <1>7, <1>8 DEF Next, Stopped

\* The invariant holds throughout.
LEMMA FilesInvCorrect == Spec => []FilesInv
BY InitFilesInv, NextFilesInv, PTL DEF Spec

\* No open, close, fddup, create_pipe, exec, clone or exit, in any number of
\* processes, leaves a descriptor that names a freed FileContext or a context
\* that counts fewer references than it has names, when no program duplicates
\* a descriptor onto itself.
THEOREM NamesLiveCorrect == ASSUME ~SelfDup PROVE Spec => []NamesLive
<1>1. FilesInv => NamesLive
  BY CoversNamesLive DEF FilesInv
<1>2. QED
  BY <1>1, FilesInvCorrect, PTL

-----------------------------------------------------------------------------
(* What a child starts with *)

Inherits(q) ==
    /\ Distinct(files'[q])
    /\ \E p \in live :
          /\ Descriptors(files'[q]) = Descriptors(files[p])
          /\ \A e \in files'[q] : \E d \in files[p] :
                /\ d.fd = e.fd
                /\ contexts'[e.context].file = contexts[d.context].file

\* A clone is the only step that adds a process.
LEMMA CloneInherits ==
    ASSUME FilesInv, NEW p, Clone(p), NEW q \in live' \ live
    PROVE  Inherits(q)
<1>1. PICK from, new : Clones(p, from, new)
  BY CloneClones
<1>2. Running(p) /\ p \in DOMAIN files /\ p \in live
  BY CloneClones DEF Running, live
<1>3. from \in Lookups(files[p]) /\ new \in Fresh(files[p])
  BY <1>1 DEF Clones
<1> DEFINE W == WithNew(new, CopiedFile(p, from))
           stored == CopiesOf(from, new)
           T == {currPid} \X stored
           D == DOMAIN contexts \cup Range(new)
<1>4. q = currPid /\ files'[q] = stored /\ contexts' = Referenced(Referenced(W, T), T)
  <2>1. DOMAIN files' = live \cup {currPid} /\ files'[currPid] = stored
    BY <1>1 DEF Clones
  <2>2. q = currPid
    BY <2>1 DEF live
  <2>3. QED
    BY <1>1, <2>1, <2>2 DEF Clones
<1>5. W \in [D -> FileContext]
  BY <1>2, <1>3, CopiesFacts
<1>6. IsFiniteSet(T)
  <2>1. IsFiniteSet(stored)
    BY <1>2, <1>3, CopiesFacts
  <2>2. QED
    BY <2>1, FS_Singleton, FS_Product
<1> HIDE DEF T
<1>7. \A c \in D : contexts'[c].file = W[c].file
  <2>1. Referenced(W, T) \in [D -> FileContext]
    BY <1>5, <1>6, ReferencedFacts
  <2>2. \A c \in D : Referenced(W, T)[c].file = W[c].file
    BY <1>5, <1>6, ReferencedFacts
  <2>3. \A c \in D : Referenced(Referenced(W, T), T)[c].file = Referenced(W, T)[c].file
    BY <1>6, <2>1, ReferencedFacts
  <2>4. QED
    BY <1>4, <2>2, <2>3
<1>8. /\ from \subseteq files[p] /\ Descriptors(from) = Descriptors(files[p])
      /\ \A d, e \in from : d.fd = e.fd => d = e
  BY <1>3 DEF Lookups
<1>9. from \subseteq Entry
  BY <1>2, <1>8 DEF FilesInv, Typed, Tables
<1>10. ASSUME NEW c \in stored
       PROVE  \E e \in from : c = [e EXCEPT !.context = new[e]] /\ c.fd = e.fd
                              /\ c.context = new[e]
  BY <1>9 DEF CopiesOf, Entry
<1>11. Distinct(stored)
  BY <1>8, <1>10 DEF Distinct
<1>12. Descriptors(stored) = Descriptors(files[p])
  <2>1. \A e \in from : [e EXCEPT !.context = new[e]].fd = e.fd
    BY <1>9 DEF Entry
  <2>2. Descriptors(stored) = Descriptors(from)
    BY <2>1 DEF Descriptors, CopiesOf
  <2>3. QED
    BY <1>8, <2>2
<1>13. ASSUME NEW c \in stored
       PROVE  \E d \in files[p] : /\ d.fd = c.fd
                                  /\ contexts'[c.context].file = contexts[d.context].file
  <2>1. PICK e \in from : c.fd = e.fd /\ c.context = new[e]
    BY <1>10
  <2>2. e \in files[p]
    BY <1>8
  <2> DEFINE d == Found(from, e.fd)
  <2>3. d \in files[p] /\ d.fd = e.fd
    BY <1>2, <1>3, <2>2, FoundEntry
  <2>4. new[e] \in Range(new)
    BY <1>2, <1>3, <2>2, CopiesFacts
  <2>5. W[new[e]].file = contexts[d.context].file
    <3>1. ASSUME NEW v PROVE WithNew(new, v)[new[e]].file = v[e]
      BY <1>3, <2>2, NewContextFile
    <3>2. CopiedFile(p, from)[e] = contexts[d.context].file
      BY <2>2 DEF CopiedFile
    <3> HIDE DEF d
    <3>3. QED
      BY <3>1, <3>2
  <2>6. contexts'[new[e]].file = W[new[e]].file
    BY <1>7, <2>4
  <2> HIDE DEF d
  <2>7. QED
    BY <2>1, <2>3, <2>5, <2>6
<1> HIDE DEF stored
<1>14. QED
  BY <1>2, <1>4, <1>11, <1>12, <1>13 DEF Inherits

\* clone gives the child the parent's descriptors, each once, and copies of the
\* files that the parent has open there.
THEOREM ChildInheritsCorrect == Spec => ChildInherits
<1>1. FilesInv /\ [Next]_vars => [\A q \in live' \ live : Inherits(q)]_vars
  <2> SUFFICES ASSUME FilesInv, Next, NEW q \in live' \ live
               PROVE  Inherits(q)
    OBVIOUS
  <2>1. ASSUME NEW p \in Pid, NEW file, StoreNew(p, file) PROVE live' = live
    BY <2>1 DEF StoreNew, live
  <2>2. ASSUME NEW p \in Pid, Open(p) \/ CreatePipe(p) \/ Exec(p) PROVE FALSE
    <3>1. live' = live
      BY <2>1, <2>2 DEF Open, CreatePipe, Exec
    <3>2. QED
      BY <3>1
  <2>3. ASSUME NEW p \in Pid, NEW fd \in Fd, Close(p, fd) PROVE FALSE
    BY <2>3 DEF Close, live
  <2>4. ASSUME NEW p \in Pid, NEW oldfd \in Fd, NEW newfd \in Fd, Fddup(p, oldfd, newfd)
        PROVE  FALSE
    BY <2>4 DEF Fddup, live
  <2>5. ASSUME NEW p \in Pid, Clone(p) PROVE Inherits(q)
    BY <2>5, CloneInherits
  <2>6. ASSUME NEW p \in Pid, Terminate(p) PROVE FALSE
    <3>1. PICK M, closed, found : Exits(p, M, closed, found)
      BY <2>6, TerminateExits
    <3>2. DOMAIN files' \subseteq live
      BY <3>1 DEF Exits
    <3>3. QED
      BY <3>2 DEF live
  <2>7. CASE Stopped
    BY <2>7 DEF Stopped, vars, live
  <2>8. QED
    BY <2>2, <2>3, <2>4, <2>5, <2>6, <2>7 DEF Next
<1>2. QED
  BY <1>1, FilesInvCorrect, PTL DEF Spec, ChildInherits, Inherits

-----------------------------------------------------------------------------
(* Whose a context is *)

\* New contexts in the table of one process, x, and no others.
LEMMA FreshPrivate ==
    ASSUME FilesInv, fault = "none", Private, NEW x,
           \A q \in DOMAIN files' : \A d \in files'[q] :
               \/ q \in DOMAIN files /\ d \in files[q]
               \/ q = x /\ d.context \notin DOMAIN contexts
    PROVE  Private'
<1>1. ASSUME NEW q \in DOMAIN files, NEW d \in files[q] PROVE d.context \in DOMAIN contexts
  <2>1. <<q, d>> \in AllNames(files) /\ <<q, d>>[2] = d
    BY AllNamesMember
  <2>2. QED
    BY <2>1 DEF FilesInv, Covers
<1>2. QED
  BY <1>1 DEF Private, live

\* No new names but for the contexts that the same process names.
LEMMA OwnPrivate ==
    ASSUME Private, DOMAIN files' = DOMAIN files,
           \A q \in DOMAIN files : \A d \in files'[q] :
               \E e \in files[q] : e.context = d.context
    PROVE  Private'
BY DEF Private, live

\* The contexts that open, create_pipe and exec store are new.
LEMMA StoreNewPrivate ==
    ASSUME FilesInv, Private, NEW p, Running(p), NEW file, StoreNew(p, file)
    PROVE  Private'
<1>1. PICK new \in Fresh(DOMAIN file) :
         files' = [files EXCEPT ![p] = @ \cup
                      {[fd |-> d, context |-> new[d]] : d \in DOMAIN file}]
  BY DEF StoreNew
<1>2. \A d \in DOMAIN file : new[d] \in Context \ DOMAIN contexts
  BY NewContext
<1>3. ASSUME NEW q \in DOMAIN files', NEW d \in files'[q]
      PROVE  \/ q \in DOMAIN files /\ d \in files[q]
             \/ q = p /\ d.context \notin DOMAIN contexts
  BY <1>1, <1>2
<1>4. fault = "none"
  BY DEF Running
<1>5. QED
  BY <1>3, <1>4, FreshPrivate

\* So are those of a child.
LEMMA ClonePrivate ==
    ASSUME FilesInv, Private, NEW p, Clone(p)
    PROVE  Private'
<1>1. PICK from, new : Clones(p, from, new)
  BY CloneClones
<1>2. Running(p) /\ fault = "none"
  BY CloneClones DEF Running
<1>3. from \in Lookups(files[p]) /\ new \in Fresh(files[p])
  BY <1>1 DEF Clones
<1>4. \A e \in CopiesOf(from, new) : e.context \in Range(new)
  BY <1>2, <1>3, CopiesFacts
<1>5. \A c \in Range(new) : c \notin DOMAIN contexts
  BY <1>3 DEF Fresh, Injection, Range
<1>6. ASSUME NEW q \in DOMAIN files', NEW d \in files'[q]
      PROVE  \/ q \in DOMAIN files /\ d \in files[q]
             \/ q = currPid /\ d.context \notin DOMAIN contexts
  <2>1. CASE q = currPid
    <3>1. files'[q] = CopiesOf(from, new)
      BY <1>1, <2>1 DEF Clones
    <3>2. QED
      BY <1>4, <1>5, <2>1, <3>1
  <2>2. CASE q # currPid
    BY <1>1, <2>2 DEF Clones, live
  <2>3. QED
    BY <2>1, <2>2
<1>7. QED
  BY <1>2, <1>6, FreshPrivate

\* After an exit, a file of q was one of q's own or one of the object that q
\* was moved to.
LEMMA ExitOwner ==
    ASSUME NEW p, NEW M, NEW closed, NEW found, Exits(p, M, closed, found),
           NEW q \in DOMAIN files', NEW d \in files'[q]
    PROVE  \/ d \in files[q]
           \/ q \in M /\ d \in files[Toward(p, M, q)]
BY DEF Exits, Left, StoredOf, Of

SharedByExit ==
    \A q, r \in live' : \A d \in files'[q], e \in files'[r] :
        q < r /\ d.context = e.context =>
            /\ \E p \in live \ live' : p < q \/ r < p
            /\ \A s \in live : s <= q \/ r <= s

\* Two files with one context had one owner before the exit, so one of the two
\* processes was moved to the object of the other.
LEMMA TerminateShared ==
    ASSUME FilesInv, Private, NEW p, Terminate(p)
    PROVE  SharedByExit
<1>1. PICK M, closed, found : Exits(p, M, closed, found)
  BY TerminateExits
<1>2. /\ p \in DOMAIN files /\ M \in Chains(files, p)
      /\ live = DOMAIN files /\ live' = DOMAIN files' /\ DOMAIN files' = DOMAIN files \ {p}
  <2>1. p \in live /\ M \in Chains(files, p) /\ DOMAIN files' = live \ {p}
    BY <1>1, TerminateExits DEF Running, Exits
  <2>2. QED
    BY <2>1 DEF live
<1>3. DOMAIN files \subseteq Nat
  BY PidNat DEF FilesInv, Typed, Tables
<1>4. M \subseteq DOMAIN files /\ p \notin M
  BY <1>2, <1>3, ChainsAreOfOthers
<1>5. \A q \in M : Toward(p, M, q) \in DOMAIN files
  BY <1>2, <1>3, <1>4, TowardInChain
<1> SUFFICES ASSUME NEW q \in live', NEW r \in live',
                    NEW d \in files'[q], NEW e \in files'[r],
                    q < r, d.context = e.context
             PROVE  /\ \E x \in live \ live' : x < q \/ r < x
                    /\ \A s \in live : s <= q \/ r <= s
  BY DEF SharedByExit
<1>6. q \in Int /\ r \in Int /\ p \in Int /\ p # q /\ p # r /\ q # r
  BY <1>2, <1>3
<1>7. d \in files[q] \/ (q \in M /\ d \in files[Toward(p, M, q)])
  BY <1>1, <1>2, ExitOwner
<1>8. e \in files[r] \/ (r \in M /\ e \in files[Toward(p, M, r)])
  BY <1>1, <1>2, ExitOwner
<1>9. \A x, y \in DOMAIN files : d \in files[x] /\ e \in files[y] => x = y
  BY <1>2 DEF Private
<1>10. \/ q \in M /\ Toward(p, M, q) = r
       \/ r \in M /\ Toward(p, M, r) = q
  <2>1. ~(q \in M /\ r \in M /\ Toward(p, M, q) = Toward(p, M, r))
    BY <1>2, <1>3, <1>6, TowardInjective
  <2>2. q \in DOMAIN files /\ r \in DOMAIN files
    BY <1>2
  <2>3. QED
    BY <1>5, <1>6, <1>7, <1>8, <1>9, <2>1, <2>2
<1>11. p \in live \ live'
  BY <1>2
<1>12. CASE q \in M /\ Toward(p, M, q) = r
  <2>1. \/ p <= r /\ r < q
        \/ r <= p /\ \A s \in DOMAIN files : s <= q \/ r <= s
    BY <1>2, <1>3, <1>12, TowardNeighbour
  <2>2. r < p /\ \A s \in DOMAIN files : s <= q \/ r <= s
    BY <1>6, <2>1
  <2>3. QED
    BY <1>2, <1>11, <2>2
<1>13. CASE r \in M /\ Toward(p, M, r) = q
  <2>1. \/ r < q /\ q <= p
        \/ p <= q /\ \A s \in DOMAIN files : s <= q \/ r <= s
    BY <1>2, <1>3, <1>13, TowardNeighbour
  <2>2. p < q /\ \A s \in DOMAIN files : s <= q \/ r <= s
    BY <1>6, <2>1
  <2>3. QED
    BY <1>2, <1>11, <2>2
<1>14. QED
  BY <1>10, <1>12, <1>13

\* No call but exit makes two processes share a FileContext, and an exit does
\* so only for two neighbours in the table that it relocates both.
THEOREM StaysPrivateCorrect == Spec => StaysPrivate
<1>1. FilesInv /\ [Next]_vars => [Private => SharedByExit]_vars
  <2> SUFFICES ASSUME FilesInv, Next, Private
               PROVE  SharedByExit
    OBVIOUS
  <2>1. ASSUME Private', FilesInv' PROVE SharedByExit
    <3>1. \A q, r \in live' : q < r => q # r
      BY <2>1, PidNat DEF FilesInv, Typed, Tables, live, Pid
    <3>2. QED
      BY <2>1, <3>1 DEF Private, SharedByExit
  <2>2. FilesInv'
    BY NextFilesInv
  <2>3. ASSUME NEW p \in Pid, Open(p) \/ CreatePipe(p) \/ Exec(p) PROVE Private'
    BY <2>3, StoreNewPrivate DEF Open, CreatePipe, Exec
  <2>4. ASSUME NEW p \in Pid, NEW fd \in Fd, Close(p, fd) PROVE Private'
    <3>1. PICK closed : files' = [files EXCEPT ![p] = @ \ closed]
      BY <2>4 DEF Close
    <3>2. QED
      BY <3>1, OwnPrivate
  <2>5. ASSUME NEW p \in Pid, NEW oldfd \in Fd, NEW newfd \in Fd, Fddup(p, oldfd, newfd)
        PROVE  Private'
    <3>1. PICK e \in files[p], closed \in Closes(files[p], newfd), stores \in BOOLEAN :
             files' = [files EXCEPT ![p] =
                          IF stores THEN (files[p] \ closed) \cup {[e EXCEPT !.fd = newfd]}
                                    ELSE files[p] \ closed]
      BY <2>5 DEF Fddup
    <3>2. e \in Entry
      BY <2>5 DEF Fddup, Running, live, FilesInv, Typed, Tables
    <3>3. [e EXCEPT !.fd = newfd].context = e.context
      BY <3>2 DEF Entry
    <3>4. QED
      BY <3>1, <3>3, OwnPrivate
  <2>6. ASSUME NEW p \in Pid, Clone(p) PROVE Private'
    BY <2>6, ClonePrivate
  <2>7. ASSUME NEW p \in Pid, Terminate(p) PROVE SharedByExit
    BY <2>7, TerminateShared
  <2>8. ASSUME Stopped PROVE Private'
    BY <2>8 DEF Stopped, vars, Private, live
  <2>9. QED
    BY <2>1, <2>2, <2>3, <2>4, <2>5, <2>6, <2>7, <2>8 DEF Next
<1>2. QED
  BY <1>1, FilesInvCorrect, PTL DEF Spec, StaysPrivate, SharedByExit

-----------------------------------------------------------------------------
(* Descriptors without a gap *)

\* As many descriptors as files, so each names one, and the next is free.
LEMMA DenseDistinct ==
    ASSUME NEW t, IsFiniteSet(t), Dense(t)
    PROVE  /\ Cardinality(t) \in Nat
           /\ Distinct(t)
           /\ \A d \in Descriptors(t) : d \in Nat /\ d < Cardinality(t)
<1> DEFINE n == Cardinality(t)
           f == [e \in t |-> e.fd]
<1>1. n \in Nat
  BY FS_CardinalityType
<1> HIDE DEF n
<1>2. Descriptors(t) = 0 .. n - 1
  BY DEF Dense, n
<1>3. f \in Surjection(t, 0 .. n - 1)
  BY <1>2 DEF Surjection, Descriptors
<1>4. Cardinality(0 .. n - 1) = n
  <2>1. 0 \in Int /\ n - 1 \in Int
    BY <1>1
  <2>2. Cardinality(0 .. n - 1) = IF 0 > n - 1 THEN 0 ELSE (n - 1) - 0 + 1
    BY <2>1, FS_Interval
  <2>3. QED
    BY <1>1, <2>2
<1>5. f \in Injection(t, 0 .. n - 1)
  BY <1>3, <1>4, FS_Surjection DEF n
<1>6. Distinct(t)
  BY <1>5 DEF Injection, IsInjective, Distinct
<1>7. \A d \in Descriptors(t) : d \in Nat /\ d < n
  BY <1>1, <1>2
<1>8. QED
  BY <1>1, <1>6, <1>7 DEF n

\* Entries at descriptors that are free keep a table's descriptors apart.
LEMMA StoreNewDistinct ==
    ASSUME NEW p, NEW file, StoreNew(p, file), NEW q \in live, Distinct(files[q]),
           q = p => DOMAIN file \cap Descriptors(files[p]) = {}
    PROVE  Distinct(files'[q])
<1>1. PICK new :
         files' = [files EXCEPT ![p] = @ \cup
                      {[fd |-> d, context |-> new[d]] : d \in DOMAIN file}]
  BY DEF StoreNew
<1>2. CASE q # p
  BY <1>1, <1>2 DEF live
<1>3. CASE q = p
  <2> DEFINE stored == {[fd |-> d, context |-> new[d]] : d \in DOMAIN file}
  <2>1. files'[q] = files[p] \cup stored
    BY <1>1, <1>3 DEF live
  <2>2. \A d, e \in stored : d.fd = e.fd => d = e
    OBVIOUS
  <2>3. \A e \in stored : e.fd \in DOMAIN file
    OBVIOUS
  <2> HIDE DEF stored
  <2>4. \A d \in files[p], e \in stored : d.fd # e.fd
    BY <1>3, <2>3 DEF Descriptors
  <2>5. QED
    BY <1>3, <2>1, <2>2, <2>4 DEF Distinct
<1>4. QED
  BY <1>2, <1>3

\* open, create_pipe, exec, close, fddup and clone leave a process whose
\* descriptors had no gap with descriptors that name one file each.
THEOREM DescriptorsStayDistinctCorrect == Spec => DescriptorsStayDistinct
<1>1. FilesInv /\ [Next]_vars =>
         [\A p \in live :
             live \subseteq live' /\ Dense(files[p]) => Distinct(files'[p])]_vars
  <2> SUFFICES ASSUME FilesInv, Next, NEW q \in live, live \subseteq live', Dense(files[q])
               PROVE  Distinct(files'[q])
    OBVIOUS
  <2>1. q \in DOMAIN files /\ IsFiniteSet(files[q]) /\ files[q] \subseteq Entry
    BY DEF FilesInv, Typed, Tables, live
  <2>2. /\ Cardinality(files[q]) \in Nat
        /\ Distinct(files[q])
        /\ \A d \in Descriptors(files[q]) : d \in Nat /\ d < Cardinality(files[q])
    BY <2>1, DenseDistinct
  <2>3. ASSUME NEW p \in Pid, Open(p) PROVE Distinct(files'[q])
    <3> DEFINE file == [d \in {NextFd(p)} |-> "file"]
    <3>1. StoreNew(p, file) /\ DOMAIN file = {NextFd(p)}
      BY <2>3 DEF Open
    <3>2. q = p => DOMAIN file \cap Descriptors(files[p]) = {}
      BY <2>2, <3>1 DEF NextFd
    <3> HIDE DEF file
    <3>3. QED
      BY <2>2, <3>1, <3>2, StoreNewDistinct
  <2>4. ASSUME NEW p \in Pid, CreatePipe(p) PROVE Distinct(files'[q])
    <3> DEFINE file == [d \in {NextFd(p), NextFd(p) + 1} |->
                          IF d = NextFd(p) THEN "reader" ELSE "writer"]
    <3>1. StoreNew(p, file) /\ DOMAIN file = {NextFd(p), NextFd(p) + 1}
      BY <2>4 DEF CreatePipe
    <3>2. ASSUME q = p PROVE DOMAIN file \cap Descriptors(files[p]) = {}
      BY <2>2, <3>1, <3>2 DEF NextFd
    <3> HIDE DEF file
    <3>3. QED
      BY <2>2, <3>1, <3>2, StoreNewDistinct
  <2>5. ASSUME NEW p \in Pid, Exec(p) PROVE Distinct(files'[q])
    <3> DEFINE file == [d \in 0 .. 2 \ Descriptors(files[p]) |-> "uart"]
    <3>1. StoreNew(p, file) /\ DOMAIN file = 0 .. 2 \ Descriptors(files[p])
      BY <2>5 DEF Exec
    <3> HIDE DEF file
    <3>2. QED
      BY <2>2, <3>1, StoreNewDistinct
  <2>6. ASSUME NEW p \in Pid, NEW fd \in Fd, Close(p, fd) PROVE Distinct(files'[q])
    <3>1. PICK closed : files' = [files EXCEPT ![p] = @ \ closed]
      BY <2>6 DEF Close
    <3>2. files'[q] \subseteq files[q]
      BY <2>1, <3>1
    <3>3. QED
      BY <2>2, <3>2 DEF Distinct
  <2>7. ASSUME NEW p \in Pid, NEW oldfd \in Fd, NEW newfd \in Fd, Fddup(p, oldfd, newfd)
        PROVE  Distinct(files'[q])
    <3>1. PICK e \in files[p], closed \in Closes(files[p], newfd) :
             files' = [files EXCEPT ![p] =
                          IF newfd \notin Descriptors(files[p] \ closed)
                          THEN (files[p] \ closed) \cup {[e EXCEPT !.fd = newfd]}
                          ELSE files[p] \ closed]
      BY <2>7 DEF Fddup
    <3>2. CASE q # p
      BY <2>1, <2>2, <3>1, <3>2
    <3>3. CASE q = p
      <4> DEFINE left == files[p] \ closed
                 a == [e EXCEPT !.fd = newfd]
      <4>1. Distinct(left)
        BY <2>2, <3>3 DEF Distinct
      <4>2. files'[q] = IF newfd \notin Descriptors(left) THEN left \cup {a} ELSE left
        BY <2>1, <3>1, <3>3
      <4>3. a.fd = newfd
        BY <2>1, <3>3 DEF Entry
      <4> HIDE DEF left, a
      <4>4. ASSUME newfd \notin Descriptors(left) PROVE Distinct(left \cup {a})
        <5>1. \A d \in left : d.fd # newfd
          BY <4>4 DEF Descriptors
        <5>2. QED
          BY <4>1, <4>3, <5>1 DEF Distinct
      <4>5. QED
        BY <4>1, <4>2, <4>4
    <3>4. QED
      BY <3>2, <3>3
  <2>8. ASSUME NEW p \in Pid, Clone(p) PROVE Distinct(files'[q])
    <3>1. PICK from, new : Clones(p, from, new)
      BY <2>8, CloneClones
    <3>2. q # currPid
      BY <2>1 DEF FilesInv, Typed
    <3>3. files'[q] = files[q]
      BY <3>1, <3>2 DEF Clones
    <3>4. QED
      BY <2>2, <3>3
  <2>9. ASSUME NEW p \in Pid, Terminate(p) PROVE FALSE
    <3>1. PICK M, closed, found : Exits(p, M, closed, found)
      BY <2>9, TerminateExits
    <3>2. p \in live /\ DOMAIN files' = live \ {p}
      BY <2>9, <3>1, TerminateExits DEF Exits, Running
    <3>3. QED
      BY <3>2 DEF live
  <2>10. CASE Stopped
    BY <2>2, <2>10 DEF Stopped, vars
  <2>11. QED
    BY <2>3, <2>4, <2>5, <2>6, <2>7, <2>8, <2>9, <2>10 DEF Next
<1>2. QED
  BY <1>1, FilesInvCorrect, PTL DEF Spec, DescriptorsStayDistinct, Dense, Distinct
=============================================================================
