----------------------------- MODULE UartProofs -----------------------------
(***************************************************************************)
(* What holds of Uart for every size of the ring and of the FIFO, every    *)
(* number of bytes and of open contexts: a reader that was never a whole   *)
(* ring behind sees the bytes of the FIFO, in order and each once.         *)
(***************************************************************************)
EXTENDS Uart, TLAPS

-----------------------------------------------------------------------------
(* Positions in a ring *)

\* Division by the size of the ring.
LEMMA Division ==
    ASSUME NEW B \in Nat \ {0}, NEW a \in Int
    PROVE  /\ a = (B * (a \div B)) + (a % B)
           /\ a \div B \in Int
           /\ a % B \in 0 .. B - 1
OBVIOUS

\* The remainder is the only one.
LEMMA Remainder ==
    ASSUME NEW B \in Nat \ {0}, NEW q \in Int, NEW r \in 0 .. B - 1
    PROVE  ((B * q) + r) % B = r
OBVIOUS

\* The position after the one of byte a.
LEMMA NextPosition ==
    ASSUME NEW B \in Nat \ {0}, NEW a \in Nat
    PROVE  (a + 1) % B = IF (a % B) + 1 >= B THEN 0 ELSE (a % B) + 1
<1> DEFINE d == a \div B
           r == a % B
<1>1. a = (B * d) + r /\ d \in Int /\ r \in 0 .. B - 1
  BY Division
<1> HIDE DEF d, r
<1>2. CASE r + 1 >= B
  <2>1. a + 1 = (B * (d + 1)) + 0
    BY <1>1, <1>2
  <2>2. ((B * (d + 1)) + 0) % B = 0
    BY <1>1, Remainder
  <2>3. QED
    BY <1>2, <2>1, <2>2 DEF r
<1>3. CASE r + 1 < B
  <2>1. a + 1 = (B * d) + (r + 1) /\ r + 1 \in 0 .. B - 1
    BY <1>1, <1>3
  <2>2. ((B * d) + (r + 1)) % B = r + 1
    BY <1>1, <2>1, Remainder
  <2>3. ~(r + 1 >= B)
    BY <1>1, <1>3
  <2>4. QED
    BY <2>1, <2>2, <2>3 DEF r
<1>4. QED
  BY <1>1, <1>2, <1>3

\* The position k bytes after the one of byte g.
LEMMA LaterPosition ==
    ASSUME NEW B \in Nat \ {0}, NEW g \in Nat, NEW k \in Nat
    PROVE  ((g % B) + k) % B = (g + k) % B
<1> DEFINE d == g \div B
           r == g % B
           e == (r + k) \div B
           f == (r + k) % B
<1>1. g = (B * d) + r /\ d \in Int /\ r \in 0 .. B - 1
  BY Division
<1>2. r + k = (B * e) + f /\ e \in Int /\ f \in 0 .. B - 1
  <2>1. r + k \in Int
    BY <1>1
  <2>2. QED
    BY <2>1, Division
<1> HIDE DEF d, r, e, f
<1>3. g + k = (B * (d + e)) + f
  BY <1>1, <1>2
<1>4. ((B * (d + e)) + f) % B = f
  <2>1. d + e \in Int
    BY <1>1, <1>2
  <2>2. QED
    BY <1>2, <2>1, Remainder
<1>5. QED
  BY <1>3, <1>4 DEF f, r

\* How far byte s is ahead of byte g, from their positions.
LEMMA Distance ==
    ASSUME NEW B \in Nat \ {0}, NEW s \in Nat, NEW g \in Nat, g <= s, s - g < B
    PROVE  ((s % B) - (g % B) + B) % B = s - g
<1> DEFINE d == g \div B
           r == g % B
           e == s \div B
           f == s % B
<1>1. g = (B * d) + r /\ d \in Int /\ r \in 0 .. B - 1
  BY Division
<1>2. s = (B * e) + f /\ e \in Int /\ f \in 0 .. B - 1
  BY Division
<1> HIDE DEF d, r, e, f
<1>3. f - r + B = (B * (d + 1 - e)) + (s - g)
  BY <1>1, <1>2
<1>4. s - g \in 0 .. B - 1 /\ d + 1 - e \in Int
  BY <1>1, <1>2
<1>5. ((B * (d + 1 - e)) + (s - g)) % B = s - g
  BY <1>4, Remainder
<1>6. QED
  BY <1>3, <1>5 DEF f, r

\* Two bytes less than a ring apart are at different positions.
LEMMA Positions ==
    ASSUME NEW B \in Nat \ {0}, NEW a \in Nat, NEW b \in Nat, b <= a, a - b < B,
           a % B = b % B
    PROVE  a = b
<1>1. ((a % B) - (b % B) + B) % B = a - b
  BY Distance
<1>2. b % B \in Int
  BY Division
<1>3. (a % B) - (b % B) + B = (B * 1) + 0
  BY <1>2
<1>4. ((B * 1) + 0) % B = 0
  BY Remainder
<1>5. QED
  BY <1>1, <1>3, <1>4

\* The bytes of a sequence that another is appended to.
LEMMA Joined ==
    ASSUME NEW s \in Seq(Nat), NEW t \in Seq(Nat)
    PROVE  /\ s \o t \in Seq(Nat) /\ Len(s \o t) = Len(s) + Len(t)
           /\ Len(s) \in Nat
           /\ \A i \in 1 .. Len(s) : (s \o t)[i] = s[i]
           /\ \A i \in Len(s) + 1 .. Len(s) + Len(t) : (s \o t)[i] = t[i - Len(s)]
OBVIOUS

-----------------------------------------------------------------------------
(* The inductive invariant *)

\* The ring holds the last bytes moved to it, and the FIFO those that follow.
RingInv ==
    /\ stored \in Nat /\ fifo \in Seq(Nat)
    /\ received = stored + Len(fifo)
    /\ \A i \in 1 .. Len(fifo) : fifo[i] = stored + i
    /\ buffer \in [0 .. BufferSize - 1 -> Nat]
    /\ bufferIndex = stored % BufferSize
    /\ \A k \in 1 .. stored :
          stored - BufferSize < k => buffer[(k - 1) % BufferSize] = k

\* What context c has read, and that the position it goes on from is that of
\* the byte after.
InStream(c) ==
    /\ start[c] + Len(got[c]) <= stored
    /\ stored - start[c] - Len(got[c]) < BufferSize
    /\ pos[c] = (start[c] + Len(got[c])) % BufferSize
    /\ \A i \in 1 .. Len(got[c]) : got[c][i] = start[c] + i

ReadersInv ==
    /\ pos \in [Contexts -> Int]
    /\ start \in [Contexts -> Nat]
    /\ got \in [Contexts -> Seq(Nat)]
    /\ late \in [Contexts -> BOOLEAN]
    /\ \A c \in Contexts : IsOpen(c) => pos[c] \in 0 .. BufferSize - 1
    /\ \A c \in Contexts : ~IsOpen(c) => got[c] = <<>>
    /\ \A c \in Contexts : IsOpen(c) /\ ~late[c] => InStream(c)

StreamInv == RingInv /\ ReadersInv

\* The byte a reader finds i places after its position.
LEMMA RingHolds ==
    ASSUME RingInv, NEW g \in Nat, NEW i \in Nat, g + i < stored, stored - g < BufferSize
    PROVE  buffer[((g % BufferSize) + i) % BufferSize] = g + i + 1
<1>1. ((g % BufferSize) + i) % BufferSize = (g + i) % BufferSize
  BY LaterPosition, SizesAssumption
<1> DEFINE k == g + i + 1
<1>2. k \in 1 .. stored /\ stored - BufferSize < k /\ k - 1 = g + i
  BY SizesAssumption DEF RingInv
<1>3. buffer[(k - 1) % BufferSize] = k
  BY <1>2 DEF RingInv
<1>4. QED
  BY <1>1, <1>2, <1>3

\* The invariant gives the property.
LEMMA StreamInvImplies == StreamInv => ReadersSeeStream
<1> SUFFICES ASSUME StreamInv, NEW c \in Contexts, IsOpen(c), ~late[c]
             PROVE  /\ got[c] = [i \in 1 .. Len(got[c]) |-> start[c] + i]
                    /\ Available(pos[c]) = stored - start[c] - Len(got[c])
                    /\ \A i \in 0 .. Available(pos[c]) - 1 :
                         buffer[(pos[c] + i) % BufferSize] = start[c] + Len(got[c]) + i + 1
  BY DEF ReadersSeeStream
<1> DEFINE g == start[c] + Len(got[c])
<1>1. /\ g <= stored /\ stored - g < BufferSize /\ pos[c] = g % BufferSize
      /\ \A i \in 1 .. Len(got[c]) : got[c][i] = start[c] + i
      /\ got[c] \in Seq(Nat) /\ start[c] \in Nat /\ Len(got[c]) \in Nat
      /\ g \in Nat /\ stored \in Nat
  BY DEF StreamInv, ReadersInv, RingInv, InStream
<1>2. got[c] = [i \in 1 .. Len(got[c]) |-> start[c] + i]
  <2>1. got[c] = [i \in 1 .. Len(got[c]) |-> got[c][i]]
    BY <1>1
  <2>2. QED
    BY <1>1, <2>1
<1>3. Available(pos[c]) = stored - g
  <2>1. ((stored % BufferSize) - (g % BufferSize) + BufferSize) % BufferSize = stored - g
    <3> HIDE DEF g
    <3>1. QED
      BY <1>1, Distance, SizesAssumption
  <2>2. QED
    BY <1>1, <2>1 DEF Available, StreamInv, RingInv
<1>4. ASSUME NEW i \in 0 .. Available(pos[c]) - 1
      PROVE  buffer[(pos[c] + i) % BufferSize] = g + i + 1
  <2> HIDE DEF g
  <2>1. i \in Nat /\ g + i < stored
    BY <1>1, <1>3
  <2>2. buffer[((g % BufferSize) + i) % BufferSize] = g + i + 1
    BY <1>1, <2>1, RingHolds DEF StreamInv
  <2>3. QED
    BY <1>1, <2>2
<1>5. QED
  BY <1>1, <1>2, <1>3, <1>4

-----------------------------------------------------------------------------
(* The steps *)

\* Nothing is stored and nobody reads at boot.
LEMMA InitStream == Init => StreamInv
<1> SUFFICES ASSUME Init PROVE StreamInv
  OBVIOUS
<1>1. 0 % BufferSize = 0
  <2>1. ((BufferSize * 0) + 0) % BufferSize = 0
    BY Remainder, SizesAssumption
  <2>2. QED
    BY <2>1, SizesAssumption
<1>2. RingInv
  BY <1>1 DEF Init, RingInv
<1>3. ReadersInv
  BY DEF Init, ReadersInv, IsOpen, Closed
<1>4. QED
  BY <1>2, <1>3 DEF StreamInv

\* A byte that the FIFO accepts is the one after those it holds.
LEMMA ArriveStream == ASSUME StreamInv, Arrive PROVE StreamInv'
<1>1. ReadersInv'
  BY DEF StreamInv, ReadersInv, Arrive, files, ring, IsOpen, InStream
<1>2. CASE Len(fifo) = FifoDepth
  BY <1>1, <1>2 DEF StreamInv, RingInv, Arrive, ring
<1>3. CASE Len(fifo) # FifoDepth
  <2>1. /\ stored \in Nat /\ fifo \in Seq(Nat) /\ received = stored + Len(fifo)
        /\ \A i \in 1 .. Len(fifo) : fifo[i] = stored + i
    BY DEF StreamInv, RingInv
  <2>2. /\ fifo' = Append(fifo, received + 1) /\ received' = received + 1
        /\ UNCHANGED <<buffer, bufferIndex, stored>>
    BY <1>3 DEF Arrive, ring
  <2>3. /\ fifo' \in Seq(Nat) /\ Len(fifo') = Len(fifo) + 1
        /\ fifo'[Len(fifo) + 1] = received + 1
        /\ \A i \in 1 .. Len(fifo) : fifo'[i] = fifo[i]
    BY <2>1, <2>2
  <2>4. \A i \in 1 .. Len(fifo') : fifo'[i] = stored' + i
    BY <2>1, <2>2, <2>3
  <2>5. received' = stored' + Len(fifo')
    BY <2>1, <2>2, <2>3
  <2>6. RingInv'
    BY <2>1, <2>2, <2>3, <2>4, <2>5 DEF StreamInv, RingInv
  <2>7. QED
    BY <1>1, <2>6 DEF StreamInv
<1>4. QED
  BY <1>2, <1>3

\* The handler moves the front byte of the FIFO to the ring, over the byte a
\* whole ring before it.
LEMMA ReadByteRing == ASSUME RingInv, readByte PROVE RingInv'
<1>1. /\ stored \in Nat /\ fifo \in Seq(Nat) /\ received = stored + Len(fifo)
      /\ \A i \in 1 .. Len(fifo) : fifo[i] = stored + i
      /\ buffer \in [0 .. BufferSize - 1 -> Nat]
      /\ bufferIndex = stored % BufferSize
      /\ \A k \in 1 .. stored :
            stored - BufferSize < k => buffer[(k - 1) % BufferSize] = k
  BY DEF RingInv
<1>2. /\ fifo # <<>> /\ fifo' = Tail(fifo) /\ stored' = stored + 1
      /\ buffer' = [buffer EXCEPT ![bufferIndex] = Head(fifo)]
      /\ bufferIndex' = NextIndex /\ received' = received
  BY DEF readByte
<1>3. /\ Head(fifo) = stored + 1 /\ fifo' \in Seq(Nat) /\ Len(fifo') = Len(fifo) - 1
      /\ \A i \in 1 .. Len(fifo') : fifo'[i] = fifo[i + 1] /\ i + 1 \in 1 .. Len(fifo)
      /\ Len(fifo) \in Nat /\ Len(fifo) > 0
  BY <1>1, <1>2
<1>4. \A i \in 1 .. Len(fifo') : fifo'[i] = stored' + i
  BY <1>1, <1>2, <1>3
<1>5. received' = stored' + Len(fifo')
  BY <1>1, <1>2, <1>3
<1>6. bufferIndex \in 0 .. BufferSize - 1 /\ bufferIndex' = stored' % BufferSize
  <2>1. stored % BufferSize \in 0 .. BufferSize - 1
    BY <1>1, Division, SizesAssumption
  <2>2. (stored + 1) % BufferSize = IF (stored % BufferSize) + 1 >= BufferSize
                                    THEN 0 ELSE (stored % BufferSize) + 1
    BY <1>1, NextPosition, SizesAssumption
  <2>3. QED
    BY <1>1, <1>2, <2>1, <2>2 DEF NextIndex
<1>7. buffer' \in [0 .. BufferSize - 1 -> Nat]
  BY <1>1, <1>2, <1>3, <1>6
<1>8. ASSUME NEW k \in 1 .. stored + 1, stored + 1 - BufferSize < k
      PROVE  buffer'[(k - 1) % BufferSize] = k
  <2>1. k - 1 \in Nat /\ (k - 1) % BufferSize \in 0 .. BufferSize - 1
    <3>1. k - 1 \in Nat
      BY <1>1
    <3>2. QED
      BY <3>1, Division, SizesAssumption
  <2>2. CASE k = stored + 1
    <3>1. (k - 1) % BufferSize = bufferIndex
      BY <1>1, <2>2
    <3>2. QED
      BY <1>1, <1>2, <1>3, <1>6, <2>2, <3>1
  <2>3. CASE k # stored + 1
    <3>1. k \in 1 .. stored /\ stored - BufferSize < k
      BY <1>1, <1>8, <2>3, SizesAssumption
    <3>2. (k - 1) % BufferSize # stored % BufferSize
      <4>1. k - 1 <= stored /\ stored - (k - 1) < BufferSize /\ stored # k - 1
        BY <1>1, <1>8, <3>1, SizesAssumption
      <4>2. QED
        BY <1>1, <2>1, <4>1, Positions, SizesAssumption
    <3>3. buffer'[(k - 1) % BufferSize] = buffer[(k - 1) % BufferSize]
      BY <1>1, <1>2, <2>1, <3>2
    <3>4. QED
      BY <1>1, <3>1, <3>3
  <2>4. QED
    BY <2>2, <2>3
<1>9. \A k \in 1 .. stored' :
         stored' - BufferSize < k => buffer'[(k - 1) % BufferSize] = k
  <2>1. ASSUME NEW k \in 1 .. stored', stored' - BufferSize < k
        PROVE  buffer'[(k - 1) % BufferSize] = k
    <3>1. stored' = stored + 1 /\ stored \in Nat
      BY <1>1, <1>2
    <3>2. k \in 1 .. stored + 1 /\ stored + 1 - BufferSize < k
      BY <2>1, <3>1, SizesAssumption
    <3>3. QED
      BY <1>8, <3>2
  <2>2. QED
    BY <2>1
<1>10. stored' \in Nat
  BY <1>1, <1>2
<1>11. QED
  BY <1>3, <1>4, <1>5, <1>6, <1>7, <1>9, <1>10 DEF RingInv

\* A reader that this leaves a whole ring behind is late; the others have one
\* byte more to read.
LEMMA ReadByteReaders == ASSUME StreamInv, readByte PROVE ReadersInv'
<1>1. /\ pos \in [Contexts -> Int] /\ start \in [Contexts -> Nat]
      /\ got \in [Contexts -> Seq(Nat)] /\ late \in [Contexts -> BOOLEAN]
      /\ stored \in Nat
  BY DEF StreamInv, ReadersInv, RingInv
<1>2. /\ UNCHANGED <<pos, start, got>> /\ stored' = stored + 1
      /\ late' = [c \in Contexts |->
            late[c] \/ (IsOpen(c) /\ stored + 1 - start[c] - Len(got[c]) >= BufferSize)]
  BY DEF readByte, files
<1>3. late' \in [Contexts -> BOOLEAN]
  BY <1>1, <1>2 DEF IsOpen
<1>4. ASSUME NEW c \in Contexts, IsOpen(c)', ~late'[c] PROVE InStream(c)'
  <2>1. IsOpen(c)
    BY <1>2, <1>4 DEF IsOpen
  <2>2. ~late[c] /\ ~(stored + 1 - start[c] - Len(got[c]) >= BufferSize)
    BY <1>2, <1>4, <2>1
  <2>3. InStream(c)
    BY <2>1, <2>2 DEF StreamInv, ReadersInv
  <2>4. start[c] \in Nat /\ Len(got[c]) \in Nat
    BY <1>1
  <2>5. /\ start[c] + Len(got[c]) <= stored
        /\ pos[c] = (start[c] + Len(got[c])) % BufferSize
        /\ \A i \in 1 .. Len(got[c]) : got[c][i] = start[c] + i
    BY <2>3 DEF InStream
  <2>6. /\ start'[c] + Len(got'[c]) <= stored'
        /\ stored' - start'[c] - Len(got'[c]) < BufferSize
    <3>1. BufferSize \in Nat
      BY SizesAssumption
    <3>2. start'[c] = start[c] /\ got'[c] = got[c] /\ stored' = stored + 1
      BY <1>2
    <3>3. QED
      BY <1>1, <2>2, <2>4, <2>5, <3>1, <3>2
  <2>7. QED
    BY <1>2, <2>5, <2>6 DEF InStream
<1>5. QED
  BY <1>1, <1>2, <1>3, <1>4 DEF StreamInv, ReadersInv, IsOpen

\* A context opens at the end of what was stored.
LEMMA OpenStream == ASSUME StreamInv, NEW c \in Contexts, Open(c) PROVE StreamInv'
<1>1. /\ pos' = [pos EXCEPT ![c] = bufferIndex]
      /\ start' = [start EXCEPT ![c] = stored]
      /\ UNCHANGED <<fifo, received, buffer, bufferIndex, stored, got, late>>
      /\ ~IsOpen(c)
  BY DEF Open, device, ring
<1>2. RingInv'
  BY <1>1 DEF StreamInv, RingInv
<1>3. /\ pos \in [Contexts -> Int] /\ start \in [Contexts -> Nat]
      /\ got \in [Contexts -> Seq(Nat)] /\ late \in [Contexts -> BOOLEAN]
      /\ stored \in Nat /\ bufferIndex = stored % BufferSize /\ got[c] = <<>>
  BY <1>1 DEF StreamInv, ReadersInv, RingInv
<1>4. bufferIndex \in 0 .. BufferSize - 1
  BY <1>3, Division, SizesAssumption
<1>5. pos' \in [Contexts -> Int] /\ start' \in [Contexts -> Nat]
  BY <1>1, <1>3, <1>4
<1>6. InStream(c)' /\ pos'[c] \in 0 .. BufferSize - 1 /\ IsOpen(c)'
  <2>1. pos'[c] = bufferIndex /\ start'[c] = stored /\ got'[c] = <<>>
    BY <1>1, <1>3
  <2>2. QED
    BY <1>1, <1>3, <1>4, <2>1, SizesAssumption DEF InStream, IsOpen, Closed
<1>7. ASSUME NEW d \in Contexts, d # c
      PROVE  /\ IsOpen(d)' <=> IsOpen(d)
             /\ InStream(d)' <=> InStream(d)
             /\ pos'[d] = pos[d]
  BY <1>1, <1>3, <1>7 DEF IsOpen, InStream
<1>8. ReadersInv'
  BY <1>1, <1>3, <1>5, <1>6, <1>7 DEF StreamInv, ReadersInv
<1>9. QED
  BY <1>2, <1>8 DEF StreamInv

\* A read gets the bytes from the position of its context on, in order, and
\* leaves the context at the byte after.
LEMMA ReadStream ==
    ASSUME StreamInv, NEW c \in Contexts, NEW n \in Counts, Read(c, n)
    PROVE  StreamInv'
<1> DEFINE k == IF Available(pos[c]) < n THEN Available(pos[c]) ELSE n
           data == [i \in 1 .. k |-> buffer[(pos[c] + i - 1) % BufferSize]]
<1>1. /\ got' = [got EXCEPT ![c] = @ \o data]
      /\ pos' = [pos EXCEPT ![c] = (@ + k) % BufferSize]
      /\ UNCHANGED <<fifo, received, buffer, bufferIndex, stored, start, late>>
      /\ IsOpen(c)
  BY DEF Read, device, ring
<1>2. RingInv'
  BY <1>1 DEF StreamInv, RingInv
<1>3. /\ pos \in [Contexts -> Int] /\ start \in [Contexts -> Nat]
      /\ got \in [Contexts -> Seq(Nat)] /\ late \in [Contexts -> BOOLEAN]
      /\ stored \in Nat /\ bufferIndex = stored % BufferSize
      /\ buffer \in [0 .. BufferSize - 1 -> Nat]
      /\ pos[c] \in 0 .. BufferSize - 1
  BY <1>1 DEF StreamInv, ReadersInv, RingInv
<1>4. Available(pos[c]) \in Nat /\ n \in Nat
  <2>1. bufferIndex \in 0 .. BufferSize - 1
    BY <1>3, Division, SizesAssumption
  <2>2. bufferIndex - pos[c] + BufferSize \in Int
    BY <1>3, <2>1, SizesAssumption
  <2>3. Available(pos[c]) \in 0 .. BufferSize - 1
    BY <2>2, Division, SizesAssumption DEF Available
  <2>4. QED
    BY <2>3, SizesAssumption
<1>5. k \in Nat /\ k <= Available(pos[c])
  BY <1>4
<1> HIDE DEF k
<1>6. data \in Seq(Nat) /\ Len(data) = k /\ \A i \in 1 .. k : data[i] = buffer[(pos[c] + i - 1) % BufferSize]
  <2>1. ASSUME NEW i \in 1 .. k PROVE buffer[(pos[c] + i - 1) % BufferSize] \in Nat
    <3>1. pos[c] + i - 1 \in Int
      BY <1>3, <1>5
    <3>2. (pos[c] + i - 1) % BufferSize \in 0 .. BufferSize - 1
      BY <3>1, Division, SizesAssumption
    <3>3. QED
      BY <1>3, <3>2
  <2>2. QED
    BY <1>5, <2>1
<1> HIDE DEF data
<1>7. /\ got'[c] = got[c] \o data /\ got[c] \in Seq(Nat) /\ got'[c] \in Seq(Nat)
      /\ Len(got'[c]) = Len(got[c]) + k /\ Len(got[c]) \in Nat
      /\ \A i \in 1 .. Len(got[c]) : got'[c][i] = got[c][i]
      /\ \A i \in Len(got[c]) + 1 .. Len(got[c]) + k : got'[c][i] = data[i - Len(got[c])]
  <2>1. got[c] \in Seq(Nat) /\ got'[c] = got[c] \o data
    BY <1>1, <1>3
  <2>2. /\ got[c] \o data \in Seq(Nat) /\ Len(got[c] \o data) = Len(got[c]) + Len(data)
        /\ Len(got[c]) \in Nat
        /\ \A i \in 1 .. Len(got[c]) : (got[c] \o data)[i] = got[c][i]
        /\ \A i \in Len(got[c]) + 1 .. Len(got[c]) + Len(data) :
              (got[c] \o data)[i] = data[i - Len(got[c])]
    BY <1>6, <2>1, Joined
  <2>3. Len(data) = k
    BY <1>6
  <2>4. QED
    BY <2>1, <2>2, <2>3
<1>8. pos'[c] = (pos[c] + k) % BufferSize /\ pos'[c] \in 0 .. BufferSize - 1
  <2>1. pos[c] + k \in Int
    BY <1>3, <1>5
  <2>2. pos'[c] = (pos[c] + k) % BufferSize
    BY <1>1, <1>3
  <2>3. QED
    BY <2>1, <2>2, Division, SizesAssumption
<1>9. ASSUME ~late[c] PROVE InStream(c)'
  <2> DEFINE g == start[c] + Len(got[c])
  <2>1. /\ g <= stored /\ stored - g < BufferSize /\ pos[c] = g % BufferSize
        /\ \A i \in 1 .. Len(got[c]) : got[c][i] = start[c] + i
        /\ g \in Nat /\ start[c] \in Nat
    BY <1>1, <1>3, <1>7, <1>9 DEF StreamInv, ReadersInv, InStream
  <2>2. Available(pos[c]) = stored - g
    <3>1. StreamInv => ReadersSeeStream
      BY StreamInvImplies
    <3>2. Available(pos[c]) = stored - start[c] - Len(got[c])
      BY <1>1, <1>9, <3>1 DEF ReadersSeeStream
    <3>3. QED
      BY <1>3, <1>7, <2>1, <3>2
  <2>3. start'[c] + Len(got'[c]) = g + k /\ g + k <= stored
    BY <1>1, <1>3, <1>5, <1>7, <2>1, <2>2
  <2>4. pos'[c] = (g + k) % BufferSize
    <3> HIDE DEF g
    <3>1. ((g % BufferSize) + k) % BufferSize = (g + k) % BufferSize
      BY <1>5, <2>1, LaterPosition, SizesAssumption
    <3>2. QED
      BY <1>8, <2>1, <3>1
  <2>5. ASSUME NEW i \in 1 .. k PROVE data[i] = g + i
    <3> HIDE DEF g
    <3>1. i - 1 \in Nat /\ g + (i - 1) < stored
      BY <1>3, <1>5, <2>1, <2>2
    <3>2. buffer[((g % BufferSize) + (i - 1)) % BufferSize] = g + (i - 1) + 1
      BY <2>1, <3>1, RingHolds DEF StreamInv
    <3>3. pos[c] + i - 1 = (g % BufferSize) + (i - 1)
      BY <1>3, <1>5, <2>1
    <3>4. QED
      BY <1>5, <1>6, <2>1, <3>2, <3>3
  <2>6. ASSUME NEW i \in 1 .. Len(got'[c]) PROVE got'[c][i] = start'[c] + i
    <3>1. start'[c] = start[c]
      BY <1>1
    <3>2. CASE i \in 1 .. Len(got[c])
      BY <1>7, <2>1, <3>1, <3>2
    <3>3. CASE i \notin 1 .. Len(got[c])
      <4>1. i \in Len(got[c]) + 1 .. Len(got[c]) + k /\ i - Len(got[c]) \in 1 .. k
        BY <1>5, <1>7, <3>3
      <4>2. data[i - Len(got[c])] = g + (i - Len(got[c]))
        BY <2>5, <4>1
      <4>3. QED
        BY <1>7, <2>1, <3>1, <4>1, <4>2
    <3>4. QED
      BY <3>2, <3>3
  <2>7. /\ start'[c] + Len(got'[c]) <= stored' /\ start'[c] = start[c]
        /\ stored' - start'[c] - Len(got'[c]) < BufferSize
    <3>1. stored' = stored /\ start'[c] = start[c] /\ Len(got'[c]) = Len(got[c]) + k
      BY <1>1, <1>7
    <3>2. /\ stored \in Nat /\ start[c] \in Nat /\ Len(got[c]) \in Nat /\ k \in Nat
          /\ BufferSize \in Nat
      BY <1>3, <1>5, <1>7, <2>1, SizesAssumption
    <3>3. stored - (start[c] + Len(got[c])) < BufferSize
      BY <2>1
    <3>4. start[c] + (Len(got[c]) + k) <= stored
      BY <2>3, <3>1
    <3>5. QED
      BY <3>1, <3>2, <3>3, <3>4
  <2>8. pos'[c] = (start'[c] + Len(got'[c])) % BufferSize
    BY <2>3, <2>4
  <2> HIDE DEF g
  <2>9. QED
    BY <2>6, <2>7, <2>8 DEF InStream
<1>10. ASSUME NEW d \in Contexts, d # c
       PROVE  /\ IsOpen(d)' <=> IsOpen(d)
              /\ InStream(d)' <=> InStream(d)
              /\ pos'[d] = pos[d] /\ got'[d] = got[d]
  BY <1>1, <1>3, <1>10 DEF IsOpen, InStream
<1>11. pos' \in [Contexts -> Int] /\ got' \in [Contexts -> Seq(Nat)]
  BY <1>1, <1>3, <1>7, <1>8
<1>12. IsOpen(c)'
  BY <1>8 DEF IsOpen, Closed
<1>13. ReadersInv'
  BY <1>1, <1>3, <1>8, <1>9, <1>10, <1>11, <1>12 DEF StreamInv, ReadersInv
<1>14. QED
  BY <1>2, <1>13 DEF StreamInv

\* A copy goes on from where its original is.
LEMMA CopyStream ==
    ASSUME StreamInv, NEW c \in Contexts, NEW d \in Contexts, Copy(c, d)
    PROVE  StreamInv'
<1>1. /\ pos' = [pos EXCEPT ![d] = pos[c]]
      /\ start' = [start EXCEPT ![d] = start[c]]
      /\ got' = [got EXCEPT ![d] = got[c]]
      /\ late' = [late EXCEPT ![d] = late[c]]
      /\ UNCHANGED <<fifo, received, buffer, bufferIndex, stored>>
      /\ IsOpen(c)
  BY DEF Copy, device, ring
<1>2. RingInv'
  BY <1>1 DEF StreamInv, RingInv
<1>3. /\ pos \in [Contexts -> Int] /\ start \in [Contexts -> Nat]
      /\ got \in [Contexts -> Seq(Nat)] /\ late \in [Contexts -> BOOLEAN]
  BY DEF StreamInv, ReadersInv
<1>4. /\ pos' \in [Contexts -> Int] /\ start' \in [Contexts -> Nat]
      /\ got' \in [Contexts -> Seq(Nat)] /\ late' \in [Contexts -> BOOLEAN]
  BY <1>1, <1>3
<1>5. /\ pos'[d] = pos[c] /\ start'[d] = start[c] /\ got'[d] = got[c]
      /\ late'[d] = late[c]
  BY <1>1, <1>3
<1>6. (IsOpen(d)' <=> IsOpen(c)) /\ (InStream(d)' <=> InStream(c))
  BY <1>1, <1>5 DEF IsOpen, InStream
<1>7. ASSUME NEW e \in Contexts, e # d
      PROVE  /\ IsOpen(e)' <=> IsOpen(e)
             /\ InStream(e)' <=> InStream(e)
             /\ pos'[e] = pos[e] /\ got'[e] = got[e] /\ late'[e] = late[e]
  BY <1>1, <1>3, <1>7 DEF IsOpen, InStream
<1>8. ReadersInv'
  BY <1>1, <1>4, <1>5, <1>6, <1>7 DEF StreamInv, ReadersInv
<1>9. QED
  BY <1>2, <1>8 DEF StreamInv

\* Closing a context leaves the others alone.
LEMMA CloseStream == ASSUME StreamInv, NEW c \in Contexts, Close(c) PROVE StreamInv'
<1>1. /\ pos' = [pos EXCEPT ![c] = Closed]
      /\ start' = [start EXCEPT ![c] = 0]
      /\ got' = [got EXCEPT ![c] = <<>>]
      /\ late' = [late EXCEPT ![c] = FALSE]
      /\ UNCHANGED <<fifo, received, buffer, bufferIndex, stored>>
  BY DEF Close, device, ring
<1>2. RingInv'
  BY <1>1 DEF StreamInv, RingInv
<1>3. /\ pos \in [Contexts -> Int] /\ start \in [Contexts -> Nat]
      /\ got \in [Contexts -> Seq(Nat)] /\ late \in [Contexts -> BOOLEAN]
  BY DEF StreamInv, ReadersInv
<1>4. /\ pos' \in [Contexts -> Int] /\ start' \in [Contexts -> Nat]
      /\ got' \in [Contexts -> Seq(Nat)] /\ late' \in [Contexts -> BOOLEAN]
  BY <1>1, <1>3 DEF Closed
<1>5. ~IsOpen(c)' /\ got'[c] = <<>>
  BY <1>1, <1>3 DEF IsOpen
<1>6. ASSUME NEW e \in Contexts, e # c
      PROVE  /\ IsOpen(e)' <=> IsOpen(e)
             /\ InStream(e)' <=> InStream(e)
             /\ pos'[e] = pos[e] /\ got'[e] = got[e] /\ late'[e] = late[e]
  BY <1>1, <1>3, <1>6 DEF IsOpen, InStream
<1>7. ReadersInv'
  BY <1>1, <1>4, <1>5, <1>6 DEF StreamInv, ReadersInv
<1>8. QED
  BY <1>2, <1>7 DEF StreamInv

\* Every step of the device, of the handler and of the programs.
LEMMA NextStream == StreamInv /\ [Next]_vars => StreamInv'
<1> SUFFICES ASSUME StreamInv, [Next]_vars PROVE StreamInv'
  OBVIOUS
<1>1. CASE \/ Timeout \/ TimerFires \/ HandleTimer \/ HandleInterrupt
           \/ ReadByteDone \/ LogErrors \/ ClearInterrupt \/ UNCHANGED vars
  <2>1. UNCHANGED <<fifo, received, ring, files, late>>
    BY <1>1 DEF Timeout, TimerFires, HandleTimer, HandleInterrupt, ReadByteDone,
       LogErrors, ClearInterrupt, vars, device
  <2>2. QED
    BY <2>1 DEF StreamInv, RingInv, ReadersInv, IsOpen, InStream, ring, files
<1>2. CASE readByte
  BY <1>2, ReadByteRing, ReadByteReaders DEF StreamInv
<1>3. QED
  BY <1>1, <1>2, ArriveStream, OpenStream, ReadStream, CopyStream, CloseStream
     DEF Next, Device, Handler

\* For every ring, FIFO and number of readers, and with bytes arriving between
\* any two steps: a context hands out the bytes stored since it was opened, in
\* order and each once, as long as it never was a whole ring behind.
THEOREM ReadersSeeStreamCorrect == Spec => []ReadersSeeStream
<1>1. Spec => []StreamInv
  BY InitStream, NextStream, PTL DEF Spec
<1>2. QED
  BY <1>1, StreamInvImplies, PTL
=============================================================================
