----------------------------- MODULE PipeProofs -----------------------------
(***************************************************************************)
(* Theorems about Pipe, for a ring and transfers of any size and any       *)
(* finite sets of ends.                                                    *)
(***************************************************************************)
EXTENDS Pipe, FiniteSetTheorems, SequenceTheorems, TLAPS

\* put and read keep their positions inside the ring.
LEMMA NextPosInRing ==
    ASSUME NEW pos \in 0 .. PIPE_SIZE - 1
    PROVE  NextPos(pos) \in 0 .. PIPE_SIZE - 1
BY SizeAssumption DEF NextPos

\* What a caller hands over, and a read of fewer bytes than was asked for plus
\* one more, are data of the allowed length.
LEMMA DataIsBounded ==
    ASSUME NEW d \in Data
    PROVE  d \in Seq(Byte) /\ Len(d) \in 0 .. MaxTransfer
<1>1. PICK n \in 0 .. MaxTransfer : d \in [1 .. n -> Byte]
  BY DEF Data
<1>2. n \in Nat
  BY TransferAssumption
<1>3. QED
  BY <1>1, <1>2

\* A sequence of at most MaxTransfer bytes is what a call may hand over.
LEMMA SeqIsData ==
    ASSUME NEW d \in Seq(Byte), Len(d) \in 0 .. MaxTransfer
    PROVE  d \in Data
<1>1. d \in [1 .. Len(d) -> Byte]
  OBVIOUS
<1>2. QED
  BY <1>1 DEF Data

\* No bytes at all may be handed over.
LEMMA EmptyIsData == <<>> \in Data
<1>1. <<>> \in Seq(Byte) /\ Len(<<>>) \in 0 .. MaxTransfer
  BY TransferAssumption
<1>2. QED
  BY <1>1, SeqIsData

\* The pipe that syscall_create_pipe makes is well typed.
LEMMA InitTyped == Init => TypeOK
<1> SUFFICES ASSUME Init PROVE TypeOK
  OBVIOUS
<1>1. <<>> \in Data /\ 0 \in 0 .. MaxTransfer
  BY EmptyIsData, TransferAssumption
<1>2. answer \in [status : Status, data : Data, asked : 0 .. MaxTransfer]
  BY <1>1 DEF Init, Status
<1>3. call \in {Idle} \cup Put \cup Get /\ call.op = "none"
  BY DEF Init, Idle
<1>4. QED
  BY <1>2, <1>3, SizeAssumption DEF Init, TypeOK

\* Every return gives its caller a status, the data read and the count asked.
LEMMA ReturnTyped ==
    ASSUME NEW status \in Status, NEW data \in Data, NEW n \in 0 .. MaxTransfer,
           Return(status, data, n)
    PROVE  /\ call' \in {Idle} \cup Put \cup Get /\ call'.op = "none"
           /\ answer' \in [status : Status, data : Data, asked : 0 .. MaxTransfer]
           /\ UNCHANGED <<readerCount, writerCount, readers, writers, allocated>>
BY DEF Return, Idle, ends

\* Each step of a call, and each copy and destruction of an end, keeps the types:
\* the loops stay inside the ring and copy at most what was asked for.
LEMMA StepTyped == TypeOK /\ [Next]_vars => TypeOK'
<1> SUFFICES ASSUME TypeOK, [Next]_vars PROVE TypeOK'
  OBVIOUS
<1>1. CASE UNCHANGED vars
  BY <1>1 DEF TypeOK, vars
<1>2. ASSUME NEW w \in Writers, NEW data \in Data, Write(w, data) PROVE TypeOK'
  <2>1. CASE readerCount = 0
    <3>1. Return(EPIPE, <<>>, Len(data)) /\ UNCHANGED ring
      BY <1>2, <2>1 DEF Write
    <3>2. EPIPE \in Status /\ Len(data) \in 0 .. MaxTransfer
      BY DataIsBounded DEF Status
    <3>3. QED
      BY <3>1, <3>2, EmptyIsData, ReturnTyped DEF TypeOK, ring
  <2>2. CASE readerCount # 0
    <3>1. /\ call' = [op |-> "put", data |-> data, c |-> 0]
          /\ UNCHANGED <<ring, ends, answer>>
      BY <1>2, <2>2 DEF Write
    <3>2. call' \in Put /\ 0 <= Len(data)
      BY <3>1, DataIsBounded, TransferAssumption DEF Put
    <3>3. QED
      BY <3>1, <3>2 DEF TypeOK, ring, ends
  <2>3. QED
    BY <2>1, <2>2
<1>3. CASE PutByte
  <2>1. call \in Put /\ call.c < Len(call.data)
    BY <1>3 DEF PutByte, TypeOK, Idle, Get
  <2>2. call.data \in Seq(Byte) /\ Len(call.data) \in 0 .. MaxTransfer
    BY <2>1, DataIsBounded DEF Put
  <2>3. call' = [call EXCEPT !.c = @ + 1]
    BY <1>3 DEF PutByte
  <2>4. call' \in Put /\ call'.c <= Len(call'.data) /\ call'.op = "put"
    BY <2>1, <2>2, <2>3, TransferAssumption DEF Put
  <2>5. buffer' \in [0 .. PIPE_SIZE - 1 -> Byte]
    <3>1. call.data[call.c + 1] \in Byte
      BY <2>1, <2>2 DEF Put
    <3>2. QED
      BY <1>3, <3>1 DEF PutByte, TypeOK
  <2>6. writePos' \in 0 .. PIPE_SIZE - 1
    BY <1>3, NextPosInRing DEF PutByte, TypeOK
  <2>7. QED
    BY <1>3, <2>4, <2>5, <2>6 DEF PutByte, TypeOK, ends
<1>4. CASE PutReturn
  <2>1. call \in Put
    BY <1>4 DEF PutReturn, TypeOK, Idle, Get
  <2>2. Len(call.data) \in 0 .. MaxTransfer /\ call.c \in 0 .. MaxTransfer
    BY <2>1, DataIsBounded DEF Put
  <2>3. (IF Len(call.data) > 0 /\ call.c = 0 THEN EFULL ELSE call.c) \in Status
    BY <2>2 DEF Status
  <2>4. QED
    BY <1>4, <2>2, <2>3, EmptyIsData, ReturnTyped DEF PutReturn, TypeOK, ring
<1>5. ASSUME NEW r \in Readers, NEW n \in 0 .. MaxTransfer, Read(r, n) PROVE TypeOK'
  <2>1. call' = [op |-> "read", n |-> n, data |-> <<>>]
    BY <1>5 DEF Read
  <2>2. call' \in Get /\ Len(call'.data) <= call'.n /\ call'.op = "read"
    BY <2>1, EmptyIsData DEF Get
  <2>3. QED
    BY <1>5, <2>2 DEF Read, TypeOK, ring, ends
<1>6. CASE ReadByte
  <2>1. call \in Get /\ Len(call.data) < call.n
    BY <1>6 DEF ReadByte, TypeOK, Idle, Put
  <2>2. call.data \in Seq(Byte) /\ Len(call.data) \in 0 .. MaxTransfer
    BY <2>1, DataIsBounded DEF Get
  <2>3. buffer[readPos] \in Byte
    BY DEF TypeOK
  <2>4. /\ Append(call.data, buffer[readPos]) \in Seq(Byte)
        /\ Len(Append(call.data, buffer[readPos])) = Len(call.data) + 1
    BY <2>2, <2>3
  <2>5. call.n \in 0 .. MaxTransfer
    BY <2>1 DEF Get
  <2>6. Append(call.data, buffer[readPos]) \in Data
    <3>1. Len(Append(call.data, buffer[readPos])) \in 0 .. MaxTransfer
      BY <2>1, <2>2, <2>4, <2>5, TransferAssumption
    <3>2. QED
      BY <2>4, <3>1, SeqIsData
  <2>7. call' = [call EXCEPT !.data = Append(@, buffer[readPos])]
    BY <1>6 DEF ReadByte
  <2>8. call' \in Get /\ Len(call'.data) <= call'.n /\ call'.op = "read"
    <3>1. call' \in Get /\ call'.data = Append(call.data, buffer[readPos]) /\ call'.n = call.n
      BY <2>1, <2>6, <2>7 DEF Get
    <3>2. Len(call'.data) <= call'.n
      BY <2>1, <2>2, <2>4, <2>5, <3>1
    <3>3. QED
      BY <3>1, <3>2 DEF Get
  <2>9. readPos' \in 0 .. PIPE_SIZE - 1
    BY <1>6, NextPosInRing DEF ReadByte, TypeOK
  <2>10. QED
    BY <1>6, <2>8, <2>9 DEF ReadByte, TypeOK, ends
<1>7. CASE ReadReturn
  <2>1. call \in Get
    BY <1>7 DEF ReadReturn, TypeOK, Idle, Put
  <2>2. /\ call.data \in Data /\ Len(call.data) \in 0 .. MaxTransfer
        /\ call.n \in 0 .. MaxTransfer
    BY <2>1, DataIsBounded DEF Get
  <2>3. (IF EndOfData(Len(call.data)) THEN EEOF ELSE Len(call.data)) \in Status
    BY <2>2 DEF Status
  <2>4. QED
    BY <1>7, <2>2, <2>3, ReturnTyped DEF ReadReturn, TypeOK, ring
<1>8. ASSUME NEW n \in 0 .. MaxTransfer, WrongEnd(n) PROVE TypeOK'
  <2>1. EIO \in Status
    BY DEF Status
  <2>2. QED
    BY <1>8, <2>1, EmptyIsData, ReturnTyped DEF WrongEnd, TypeOK, ring
<1>9. ASSUME NEW r \in Readers, CopyReader(r) \/ CloseReader(r) PROVE TypeOK'
  <2>1. allocated' \in BOOLEAN
    BY <1>9 DEF CopyReader, CloseReader, TypeOK
  <2>2. /\ readers' \subseteq Readers /\ writers' \subseteq Writers
        /\ readerCount' \in Int /\ writerCount' \in Int
    BY <1>9 DEF CopyReader, CloseReader, TypeOK
  <2>3. UNCHANGED <<buffer, writePos, readPos, call, answer>>
    BY <1>9 DEF CopyReader, CloseReader, ring
  <2>4. QED
    BY <2>1, <2>2, <2>3 DEF TypeOK
<1>10. ASSUME NEW w \in Writers, CopyWriter(w) \/ CloseWriter(w) PROVE TypeOK'
  <2>1. allocated' \in BOOLEAN
    BY <1>10 DEF CopyWriter, CloseWriter, TypeOK
  <2>2. /\ readers' \subseteq Readers /\ writers' \subseteq Writers
        /\ readerCount' \in Int /\ writerCount' \in Int
    BY <1>10 DEF CopyWriter, CloseWriter, TypeOK
  <2>3. UNCHANGED <<buffer, writePos, readPos, call, answer>>
    BY <1>10 DEF CopyWriter, CloseWriter, ring
  <2>4. QED
    BY <2>1, <2>2, <2>3 DEF TypeOK
<1>11. QED
  BY <1>1, <1>2, <1>3, <1>4, <1>5, <1>6, <1>7, <1>8, <1>9, <1>10 DEF Next

\* The types hold in every state of a pipe's life.
THEOREM TypeCorrect == Spec => []TypeOK
BY InitTyped, StepTyped, PTL DEF Spec

-----------------------------------------------------------------------------
Counted == TypeOK /\ FreedWithLastEnd

\* A count of ends is zero exactly when no end is left.
LEMMA CountZero ==
    ASSUME NEW S, IsFiniteSet(S)
    PROVE  Cardinality(S) = 0 <=> S = {}
BY FS_EmptySet

\* There are finitely many ends.
LEMMA EndsFinite ==
    ASSUME TypeOK
    PROVE  IsFiniteSet(readers) /\ IsFiniteSet(writers)
BY EndsAssumption, FS_Subset DEF TypeOK

\* syscall_create_pipe makes one end of each kind.
LEMMA InitCounted == Init => Counted
<1> SUFFICES ASSUME Init PROVE Counted
  OBVIOUS
<1>1. PICK r \in Readers, w \in Writers : readers = {r} /\ writers = {w}
  BY DEF Init
<1>2. Cardinality(readers) = 1 /\ Cardinality(writers) = 1
  BY <1>1, FS_Singleton
<1>3. readers \cup writers # {}
  BY <1>1
<1>4. QED
  BY <1>2, <1>3, InitTyped DEF Init, Counted, FreedWithLastEnd

\* A call in progress changes no end; a copy is made from an end that keeps the
\* pipe allocated; a destructor frees the pipe exactly when it counts no end.
LEMMA StepCounted == Counted /\ [Next]_vars => Counted'
<1> SUFFICES ASSUME Counted, [Next]_vars PROVE Counted'
  OBVIOUS
<1>1. TypeOK /\ FreedWithLastEnd /\ TypeOK'
  BY StepTyped DEF Counted
<1> USE <1>1
<1>2. SUFFICES FreedWithLastEnd'
  BY DEF Counted
<1>3. ASSUME UNCHANGED <<readerCount, writerCount, readers, writers, allocated>>
      PROVE  FreedWithLastEnd'
  BY <1>3 DEF FreedWithLastEnd
<1>4. CASE UNCHANGED vars
  BY <1>3, <1>4 DEF vars
<1>5. ASSUME NEW w \in Writers, NEW data \in Data, Write(w, data) PROVE FreedWithLastEnd'
  BY <1>3, <1>5 DEF Write, Return, ends
<1>6. CASE PutByte \/ PutReturn \/ ReadByte \/ ReadReturn
  BY <1>3, <1>6 DEF PutByte, PutReturn, ReadByte, ReadReturn, Return, ends
<1>7. ASSUME NEW r, NEW n, Read(r, n) \/ WrongEnd(n) PROVE FreedWithLastEnd'
  BY <1>3, <1>7 DEF Read, WrongEnd, Return, ends
<1>8. ASSUME NEW r \in Readers, CopyReader(r) PROVE FreedWithLastEnd'
  <2>1. Cardinality(readers \cup {r}) = Cardinality(readers) + 1
    BY <1>8, EndsFinite, FS_AddElement DEF CopyReader
  <2>2. QED
    BY <1>8, <2>1 DEF CopyReader, FreedWithLastEnd
<1>9. ASSUME NEW w \in Writers, CopyWriter(w) PROVE FreedWithLastEnd'
  <2>1. Cardinality(writers \cup {w}) = Cardinality(writers) + 1
    BY <1>9, EndsFinite, FS_AddElement DEF CopyWriter
  <2>2. QED
    BY <1>9, <2>1 DEF CopyWriter, FreedWithLastEnd
<1>10. ASSUME NEW r \in Readers, CloseReader(r) PROVE FreedWithLastEnd'
  <2>1. /\ readers' = readers \ {r} /\ r \in readers /\ readerCount' = readerCount - 1
        /\ allocated' = (allocated /\ ~(readerCount' = 0 /\ writerCount = 0))
        /\ writers' = writers /\ writerCount' = writerCount
    BY <1>10 DEF CloseReader
  <2>2. IsFiniteSet(readers') /\ Cardinality(readers') = Cardinality(readers) - 1
    BY <2>1, EndsFinite, FS_RemoveElement
  <2>3. readerCount' = Cardinality(readers') /\ writerCount' = Cardinality(writers')
    BY <2>1, <2>2 DEF FreedWithLastEnd
  <2>4. (readerCount' = 0 <=> readers' = {}) /\ (writerCount = 0 <=> writers = {})
    BY <2>2, <2>3, EndsFinite, CountZero DEF FreedWithLastEnd
  <2>5. allocated = TRUE
    BY <2>1 DEF FreedWithLastEnd, TypeOK
  <2>6. allocated' <=> readers' \cup writers' # {}
    BY <2>1, <2>4, <2>5
  <2>7. QED
    BY <2>3, <2>6 DEF FreedWithLastEnd
<1>11. ASSUME NEW w \in Writers, CloseWriter(w) PROVE FreedWithLastEnd'
  <2>1. /\ writers' = writers \ {w} /\ w \in writers /\ writerCount' = writerCount - 1
        /\ allocated' = (allocated /\ ~(readerCount = 0 /\ writerCount' = 0))
        /\ readers' = readers /\ readerCount' = readerCount
    BY <1>11 DEF CloseWriter
  <2>2. IsFiniteSet(writers') /\ Cardinality(writers') = Cardinality(writers) - 1
    BY <2>1, EndsFinite, FS_RemoveElement
  <2>3. readerCount' = Cardinality(readers') /\ writerCount' = Cardinality(writers')
    BY <2>1, <2>2 DEF FreedWithLastEnd
  <2>4. (writerCount' = 0 <=> writers' = {}) /\ (readerCount = 0 <=> readers = {})
    BY <2>2, <2>3, EndsFinite, CountZero DEF FreedWithLastEnd
  <2>5. allocated = TRUE
    BY <2>1 DEF FreedWithLastEnd, TypeOK
  <2>6. allocated' <=> readers' \cup writers' # {}
    BY <2>1, <2>4, <2>5
  <2>7. QED
    BY <2>3, <2>6 DEF FreedWithLastEnd
<1>12. QED
  BY <1>4, <1>5, <1>6, <1>7, <1>8, <1>9, <1>10, <1>11 DEF Next

\* However ends are copied and closed, the Pipe is deleted with the last of them
\* and not before.
THEOREM FreedWithLastEndCorrect == Spec => []FreedWithLastEnd
<1>1. Counted => FreedWithLastEnd
  BY DEF Counted
<1>2. QED
  BY <1>1, InitCounted, StepCounted, PTL DEF Spec

-----------------------------------------------------------------------------
(* The refinement of Fifo *)

\* The ring holds Used bytes, at distinct places that writePos is none of.
LEMMA RingPlaces ==
    ASSUME TypeOK
    PROVE  /\ Used \in 0 .. PIPE_SIZE - 1
           /\ \A i \in 1 .. Used : Slot(i) \in 0 .. PIPE_SIZE - 1 /\ Slot(i) # writePos
           /\ Full <=> Used = PIPE_SIZE - 1
           /\ Used = 0 <=> readPos = writePos
BY SizeAssumption DEF TypeOK, Used, Slot, Full

\* The contents are a sequence of Used bytes, read from the ring's places.
LEMMA ContentsSeq ==
    ASSUME TypeOK
    PROVE  /\ Contents \in Seq(Byte)
           /\ Len(Contents) = Used
           /\ \A i \in 1 .. Used : Contents[i] = buffer[Slot(i)]
<1>1. Used \in Nat /\ \A i \in 1 .. Used : Slot(i) \in 0 .. PIPE_SIZE - 1
  BY RingPlaces, SizeAssumption
<1>2. \A i \in 1 .. Used : buffer[Slot(i)] \in Byte
  BY <1>1 DEF TypeOK
<1>3. QED
  BY <1>1, <1>2 DEF Contents

\* The same of the ring after a step.
LEMMA ContentsSeqNext ==
    ASSUME TypeOK'
    PROVE  Contents' \in Seq(Byte) /\ Len(Contents') = Used'
<1>1. Used' \in Nat /\ \A i \in 1 .. Used' : Slot(i)' \in 0 .. PIPE_SIZE - 1
  BY SizeAssumption DEF TypeOK, Used, Slot
<1>2. \A i \in 1 .. Used' : buffer'[Slot(i)'] \in Byte
  BY <1>1 DEF TypeOK
<1>3. QED
  BY <1>1, <1>2 DEF Contents

\* One byte put: it comes after the ones in the ring.
LEMMA RingAfterPut ==
    ASSUME TypeOK, TypeOK', PutByte
    PROVE  /\ Used' = Used + 1
           /\ \A i \in 1 .. Used : Contents'[i] = Contents[i]
           /\ Contents'[Used + 1] = call.data[call.c + 1]
<1>1. Used' = Used + 1
  <2>1. /\ writePos \in 0 .. PIPE_SIZE - 1 /\ readPos \in 0 .. PIPE_SIZE - 1
        /\ readPos' = readPos /\ ~Full
        /\ writePos' = IF writePos + 1 >= PIPE_SIZE THEN 0 ELSE writePos + 1
    BY DEF TypeOK, PutByte, NextPos
  <2>2. QED
    BY <2>1, SizeAssumption DEF Used, Full
<1>2. \A i \in 1 .. Used + 1 : Slot(i)' = Slot(i)
  BY DEF PutByte, Slot
<1>3. Slot(Used + 1) = writePos
  BY SizeAssumption DEF TypeOK, PutByte, Used, Slot, Full
<1>4. /\ buffer' = [buffer EXCEPT ![writePos] = call.data[call.c + 1]]
      /\ buffer \in [0 .. PIPE_SIZE - 1 -> Byte] /\ writePos \in 0 .. PIPE_SIZE - 1
  BY DEF PutByte, TypeOK
<1>5. Used \in Nat
  BY RingPlaces, SizeAssumption
<1>6. \A i \in 1 .. Used + 1 : Contents'[i] = buffer'[Slot(i)]
  BY <1>1, <1>2 DEF Contents
<1>7. QED
  BY <1>1, <1>3, <1>4, <1>5, <1>6, RingPlaces, ContentsSeq

\* One byte read: the ring begins with the next one.
LEMMA RingAfterRead ==
    ASSUME TypeOK, TypeOK', ReadByte
    PROVE  /\ Used > 0 /\ Used' = Used - 1
           /\ \A i \in 1 .. Used - 1 : Contents'[i] = Contents[i + 1]
           /\ buffer[readPos] = Contents[1]
<1>0. /\ writePos \in 0 .. PIPE_SIZE - 1 /\ readPos \in 0 .. PIPE_SIZE - 1
      /\ writePos' = writePos /\ readPos # writePos
      /\ readPos' = IF readPos + 1 >= PIPE_SIZE THEN 0 ELSE readPos + 1
  BY DEF TypeOK, ReadByte, NextPos
<1>1. Used > 0 /\ Used' = Used - 1
  BY <1>0, SizeAssumption DEF Used
<1>2. \A i \in 1 .. Used - 1 : Slot(i)' = Slot(i + 1)
  BY <1>0, SizeAssumption DEF Used, Slot
<1>3. Slot(1) = readPos
  BY SizeAssumption DEF TypeOK, Slot
<1>4. Used \in Nat /\ buffer' = buffer
  BY RingPlaces, SizeAssumption DEF ReadByte
<1>5. \A i \in 1 .. Used - 1 : Contents'[i] = buffer[Slot(i + 1)]
  BY <1>1, <1>2, <1>4 DEF Contents
<1>6. QED
  BY <1>1, <1>3, <1>4, <1>5, ContentsSeq

\* What a call in progress has done: put's copied bytes are the last ones in the
\* ring, and the ends that the call found are still there.
InPut == call.op = "put" =>
             /\ readers # {} /\ writers # {}
             /\ call.c <= Used
             /\ \A i \in 1 .. call.c : Contents[Used - call.c + i] = call.data[i]
InRead == call.op = "read" => readers # {}
InCall == Counted /\ InPut /\ InRead

\* A new pipe has no call in progress.
LEMMA InitInCall == Init => InCall
BY InitCounted DEF Init, Idle, InCall, InPut, InRead

\* What the ring holds depends on the buffer and the positions only.
LEMMA SameRing ==
    ASSUME UNCHANGED ring
    PROVE  Used' = Used /\ Contents' = Contents
BY DEF ring, Used, Contents, Slot

\* Each step of a call extends what it has done by one byte; no end changes
\* during a call.
LEMMA StepInCall == InCall /\ [Next]_vars => InCall'
<1> SUFFICES ASSUME InCall, [Next]_vars PROVE InCall'
  OBVIOUS
<1>1. Counted /\ Counted' /\ TypeOK /\ TypeOK' /\ FreedWithLastEnd /\ InPut /\ InRead
  BY StepCounted DEF InCall, Counted
<1>2. SUFFICES InPut' /\ InRead'
  BY <1>1 DEF InCall
<1>3. ASSUME call' = Idle PROVE InPut' /\ InRead'
  BY <1>3 DEF InPut, InRead, Idle
<1>4. CASE UNCHANGED vars
  <2>1. UNCHANGED ring /\ UNCHANGED <<call, readers, writers>>
    BY <1>4 DEF vars, ring
  <2>2. QED
    BY <1>1, <2>1, SameRing DEF InPut, InRead
<1>5. ASSUME NEW w \in Writers, NEW data \in Data, Write(w, data) PROVE InPut' /\ InRead'
  <2>1. CASE readerCount = 0
    BY <1>3, <1>5, <2>1 DEF Write, Return
  <2>2. CASE readerCount # 0
    <3>1. readers # {} /\ writers # {}
      BY <1>1, <1>5, <2>2, EndsFinite, CountZero DEF FreedWithLastEnd, Write
    <3>2. /\ call' = [op |-> "put", data |-> data, c |-> 0]
          /\ UNCHANGED ring /\ readers' = readers /\ writers' = writers
      BY <1>5, <2>2 DEF Write, ends
    <3>3. Used' \in Nat
      BY <1>1, <3>2, RingPlaces, SameRing, SizeAssumption
    <3>4. QED
      BY <3>1, <3>2, <3>3 DEF InPut, InRead
  <2>3. QED
    BY <2>1, <2>2
<1>6. CASE PutByte
  <2>1. /\ call \in Put /\ call.op = "put"
        /\ call' = [call EXCEPT !.c = @ + 1]
        /\ readers' = readers /\ writers' = writers
    BY <1>1, <1>6 DEF PutByte, TypeOK, Idle, Get, ends
  <2>2. call'.op = "put" /\ call'.c = call.c + 1 /\ call'.data = call.data /\ call.c \in Nat
    BY <2>1, TransferAssumption DEF Put
  <2>3. Used \in Nat
    BY <1>1, RingPlaces, SizeAssumption
  <2>4. /\ Used' = Used + 1
        /\ \A i \in 1 .. Used : Contents'[i] = Contents[i]
        /\ Contents'[Used + 1] = call.data[call.c + 1]
    BY <1>1, <1>6, RingAfterPut
  <2>5. /\ readers # {} /\ writers # {} /\ call.c <= Used
        /\ \A i \in 1 .. call.c : Contents[Used - call.c + i] = call.data[i]
    BY <1>1, <2>1 DEF InPut
  <2>6. \A i \in 1 .. call.c + 1 : Contents'[Used - call.c + i] = call.data[i]
    BY <2>2, <2>3, <2>4, <2>5
  <2>7. Used' - call'.c = Used - call.c /\ call'.c <= Used'
    BY <2>2, <2>3, <2>4, <2>5
  <2>8. QED
    BY <2>1, <2>2, <2>5, <2>6, <2>7 DEF InPut, InRead
<1>7. CASE PutReturn \/ ReadReturn
  BY <1>3, <1>7 DEF PutReturn, ReadReturn, Return
<1>8. ASSUME NEW r \in Readers, NEW n \in 0 .. MaxTransfer, Read(r, n) PROVE InPut' /\ InRead'
  BY <1>8 DEF Read, InPut, InRead, ends
<1>9. CASE ReadByte
  <2>1. call \in Get /\ call.op = "read" /\ call' = [call EXCEPT !.data = Append(@, buffer[readPos])]
    BY <1>1, <1>9 DEF ReadByte, TypeOK, Idle, Put
  <2>2. call'.op = "read"
    BY <2>1 DEF Get
  <2>3. QED
    BY <1>1, <1>9, <2>1, <2>2 DEF ReadByte, InPut, InRead, ends
<1>10. ASSUME NEW n \in 0 .. MaxTransfer, WrongEnd(n) PROVE InPut' /\ InRead'
  BY <1>3, <1>10 DEF WrongEnd, Return
<1>11. ASSUME NEW r \in Readers, CopyReader(r) \/ CloseReader(r) PROVE InPut' /\ InRead'
  BY <1>3, <1>11 DEF CopyReader, CloseReader
<1>12. ASSUME NEW w \in Writers, CopyWriter(w) \/ CloseWriter(w) PROVE InPut' /\ InRead'
  BY <1>3, <1>12 DEF CopyWriter, CloseWriter
<1>13. QED
  BY <1>4, <1>5, <1>6, <1>7, <1>8, <1>9, <1>10, <1>11, <1>12 DEF Next

\* Initially the queue is empty.
LEMMA InitRefines == Init => F!Init
<1> SUFFICES ASSUME Init PROVE F!Init
  OBVIOUS
<1>1. TypeOK
  BY InitTyped
<1>2. Used = 0
  BY DEF Init, Used
<1>3. Contents = <<>>
  BY <1>1, <1>2, ContentsSeq, EmptySeq
<1>4. Queue = Contents
  BY DEF Init, Queue, Idle
<1>5. QED
  BY <1>3, <1>4 DEF Init, F!Init

\* The first bytes of a sequence, and all of it.
LEMMA Prefix ==
    ASSUME NEW s \in Seq(Byte), NEW n \in 0 .. Len(s)
    PROVE  /\ SubSeq(s, 1, n) \in Seq(Byte) /\ Len(SubSeq(s, 1, n)) = n
           /\ \A i \in 1 .. n : SubSeq(s, 1, n)[i] = s[i]
<1>1. \A i \in 1 .. n : s[i] \in Byte
  BY ElementOfSeq
<1>2. QED
  BY <1>1, SubSeqProperties

\* The prefix of full length is the sequence.
LEMMA WholePrefix ==
    ASSUME NEW s \in Seq(Byte)
    PROVE  SubSeq(s, 1, Len(s)) = s
<1>1. Len(s) \in 0 .. Len(s)
  OBVIOUS
<1>2. QED
  BY <1>1, Prefix, SeqEqual

\* The bytes of one sequence after those of another.
LEMMA Joined ==
    ASSUME NEW s \in Seq(Byte), NEW t \in Seq(Byte)
    PROVE  /\ s \o t \in Seq(Byte) /\ Len(s \o t) = Len(s) + Len(t)
           /\ \A i \in 1 .. Len(s) + Len(t) :
                 (s \o t)[i] = IF i <= Len(s) THEN s[i] ELSE t[i - Len(s)]
BY ConcatProperties

\* The bytes of a sequence after the first k.
LEMMA Suffix ==
    ASSUME NEW s \in Seq(Byte), NEW k \in 0 .. Len(s)
    PROVE  /\ SubSeq(s, k + 1, Len(s)) \in Seq(Byte)
           /\ Len(SubSeq(s, k + 1, Len(s))) = Len(s) - k
           /\ \A i \in 1 .. Len(s) - k : SubSeq(s, k + 1, Len(s))[i] = s[k + i]
<1>1. \A i \in k + 1 .. Len(s) : s[i] \in Byte
  BY ElementOfSeq
<1> DEFINE p == SubSeq(s, k + 1, Len(s))
<1>2. p \in Seq(Byte) /\ Len(p) = IF k + 1 <= Len(s) THEN Len(s) - (k + 1) + 1 ELSE 0
  BY <1>1, SubSeqProperties
<1>3. \A i \in 1 .. Len(s) - (k + 1) + 1 : p[i] = s[(k + 1) + i - 1]
  BY SubSeqProperties
<1> HIDE DEF p
<1>4. \A i \in 1 .. Len(s) - k : p[i] = s[k + i]
  <2>1. ASSUME NEW i \in 1 .. Len(s) - k PROVE p[i] = s[k + i]
    <3>1. i \in 1 .. Len(s) - (k + 1) + 1 /\ (k + 1) + i - 1 = k + i
      OBVIOUS
    <3>2. QED
      BY <1>3, <3>1
  <2>2. QED
    BY <2>1
<1>5. QED
  BY <1>2, <1>4 DEF p

\* A byte copied by put is not in the queue before put returns.
LEMMA PutByteStutters ==
    ASSUME InCall, InCall', PutByte
    PROVE  Queue' = Queue
<1>1. TypeOK /\ TypeOK' /\ InPut
  BY DEF InCall, Counted
<1>2. call \in Put /\ call.op = "put" /\ call' = [call EXCEPT !.c = @ + 1]
  BY <1>1 DEF PutByte, TypeOK, Idle, Get
<1>3. call'.op = "put" /\ call'.c = call.c + 1 /\ call.c \in Nat
  BY <1>2, TransferAssumption DEF Put
<1>4. Used \in Nat /\ Used' = Used + 1 /\ call.c <= Used
  BY <1>1, <1>2, RingPlaces, RingAfterPut, SizeAssumption DEF InPut
<1> DEFINE n == Used - call.c
<1>5. Queue = SubSeq(Contents, 1, n) /\ Queue' = SubSeq(Contents', 1, n)
  <2>1. Used' - call'.c = n
    BY <1>3, <1>4
  <2>2. QED
    BY <1>2, <1>3, <2>1 DEF Queue
<1>6. /\ Contents \in Seq(Byte) /\ Contents' \in Seq(Byte)
      /\ n \in 0 .. Len(Contents) /\ n \in 0 .. Len(Contents')
  <2>1. /\ Contents \in Seq(Byte) /\ Len(Contents) = Used
        /\ Contents' \in Seq(Byte) /\ Len(Contents') = Used'
    BY <1>1, ContentsSeq, ContentsSeqNext
  <2>2. QED
    BY <1>3, <1>4, <2>1
<1>7. \A i \in 1 .. n : Contents'[i] = Contents[i]
  BY <1>1, <1>3, <1>4, RingAfterPut
<1>8. QED
  <2> HIDE DEF n
  <2>1. /\ Queue \in Seq(Byte) /\ Len(Queue) = n
        /\ \A i \in 1 .. n : Queue[i] = Contents[i]
    BY <1>5, <1>6, Prefix
  <2>2. /\ Queue' \in Seq(Byte) /\ Len(Queue') = n
        /\ \A i \in 1 .. n : Queue'[i] = Contents'[i]
    BY <1>5, <1>6, Prefix
  <2>3. QED
    BY <1>7, <2>1, <2>2, SeqEqual

\* A byte copied by read stays in the queue until read returns.
LEMMA ReadByteStutters ==
    ASSUME InCall, InCall', ReadByte
    PROVE  Queue' = Queue
<1>1. TypeOK /\ TypeOK'
  BY DEF InCall, Counted
<1>2. call \in Get /\ call.op = "read" /\ call' = [call EXCEPT !.data = Append(@, buffer[readPos])]
  BY <1>1 DEF ReadByte, TypeOK, Idle, Put
<1>3. call'.op = "read" /\ call'.data = Append(call.data, buffer[readPos])
  BY <1>2 DEF Get
<1> DEFINE d == call.data
           b == buffer[readPos]
<1>4. Queue = d \o Contents /\ Queue' = Append(d, b) \o Contents'
  BY <1>2, <1>3 DEF Queue
<1>5. d \in Seq(Byte) /\ Len(d) \in Nat /\ b \in Byte
  BY <1>1, <1>2, DataIsBounded DEF Get, TypeOK
<1>6. /\ Contents \in Seq(Byte) /\ Len(Contents) = Used
      /\ Contents' \in Seq(Byte) /\ Len(Contents') = Used'
  BY <1>1, ContentsSeq, ContentsSeqNext
<1>7. /\ Used \in Nat /\ Used > 0 /\ Used' = Used - 1
      /\ \A i \in 1 .. Used - 1 : Contents'[i] = Contents[i + 1]
      /\ b = Contents[1]
  BY <1>1, RingPlaces, RingAfterRead, SizeAssumption
<1> HIDE DEF d, b
<1>8. /\ Append(d, b) \in Seq(Byte) /\ Len(Append(d, b)) = Len(d) + 1
      /\ \A i \in 1 .. Len(d) : Append(d, b)[i] = d[i]
      /\ Append(d, b)[Len(d) + 1] = b
  BY <1>5, AppendProperties
<1>9. /\ Queue \in Seq(Byte) /\ Len(Queue) = Len(d) + Used
      /\ \A i \in 1 .. Len(d) + Used :
            Queue[i] = IF i <= Len(d) THEN d[i] ELSE Contents[i - Len(d)]
  BY <1>4, <1>5, <1>6, ConcatProperties
<1>10. /\ Queue' \in Seq(Byte) /\ Len(Queue') = Len(d) + 1 + Used'
       /\ \A i \in 1 .. Len(d) + 1 + Used' :
             Queue'[i] = IF i <= Len(d) + 1 THEN Append(d, b)[i]
                                            ELSE Contents'[i - (Len(d) + 1)]
  <2> DEFINE e == Append(d, b)
             t == Contents'
  <2>1. e \in Seq(Byte) /\ Len(e) = Len(d) + 1 /\ t \in Seq(Byte) /\ Len(t) = Used'
    BY <1>6, <1>8
  <2>2. Queue' = e \o t
    BY <1>4
  <2> HIDE DEF e, t
  <2>3. /\ e \o t \in Seq(Byte) /\ Len(e \o t) = Len(d) + 1 + Used'
        /\ \A i \in 1 .. Len(d) + 1 + Used' :
              (e \o t)[i] = IF i <= Len(d) + 1 THEN e[i] ELSE t[i - (Len(d) + 1)]
    <3>1. /\ e \o t \in Seq(Byte) /\ Len(e \o t) = Len(e) + Len(t)
          /\ \A i \in 1 .. Len(e) + Len(t) :
                (e \o t)[i] = IF i <= Len(e) THEN e[i] ELSE t[i - Len(e)]
      BY <2>1, Joined
    <3>2. QED
      BY <2>1, <3>1
  <2>4. QED
    BY <2>2, <2>3 DEF e, t
<1>11. Len(Queue') = Len(Queue)
  BY <1>5, <1>7, <1>9, <1>10
<1>12. ASSUME NEW i \in 1 .. Len(Queue) PROVE Queue'[i] = Queue[i]
  <2>1. i \in 1 .. Len(d) + Used /\ i \in 1 .. Len(d) + 1 + Used'
    BY <1>7, <1>9, <1>11, <1>10
  <2>2. CASE i <= Len(d)
    BY <1>5, <1>8, <1>9, <1>10, <2>1, <2>2
  <2>3. CASE i = Len(d) + 1
    <3>1. Queue'[i] = b
      BY <1>5, <1>8, <1>10, <2>1, <2>3
    <3>2. Queue[i] = Contents[1]
      BY <1>5, <1>9, <2>1, <2>3
    <3>3. QED
      BY <1>7, <3>1, <3>2
  <2>4. CASE i > Len(d) + 1
    <3>1. Queue'[i] = Contents'[i - (Len(d) + 1)]
      BY <1>5, <1>10, <2>1, <2>4
    <3>2. Queue[i] = Contents[i - Len(d)]
      BY <1>5, <1>9, <2>1, <2>4
    <3>3. i - (Len(d) + 1) \in 1 .. Used - 1 /\ (i - (Len(d) + 1)) + 1 = i - Len(d)
      BY <1>5, <1>7, <2>1, <2>4
    <3>4. QED
      BY <1>7, <3>1, <3>2, <3>3
  <2>5. QED
    BY <1>5, <2>1, <2>2, <2>3, <2>4
<1>13. QED
  BY <1>9, <1>10, <1>11, <1>12, SeqEqual
\* put returns: the bytes it copied, as many as there was room for, enter the
\* queue at once.
LEMMA PutReturnWrites ==
    ASSUME InCall, InCall', PutReturn
    PROVE  call.data \in Data /\ F!Write(call.data)
<1>1. TypeOK /\ InPut /\ FreedWithLastEnd
  BY DEF InCall, Counted
<1>2. call \in Put /\ call.op = "put"
  BY <1>1 DEF PutReturn, TypeOK, Idle, Get
<1> DEFINE d == call.data
           c == call.c
           q == Used - c
<1>3. /\ d \in Data /\ d \in Seq(Byte) /\ Len(d) \in Nat /\ c \in Nat /\ c <= Len(d)
      /\ d # <<>> <=> Len(d) > 0
  <2>1. d \in Data /\ c \in Nat /\ c <= Len(d)
    BY <1>1, <1>2, TransferAssumption DEF Put, TypeOK
  <2>2. d \in Seq(Byte) /\ Len(d) \in Nat
    BY <2>1, DataIsBounded, TransferAssumption
  <2>3. d # <<>> <=> Len(d) > 0
    BY <2>2, EmptySeq
  <2>4. QED
    BY <2>1, <2>2, <2>3
<1>4. /\ readers # {} /\ writers # {} /\ c <= Used /\ Used \in 0 .. PIPE_SIZE - 1
      /\ \A i \in 1 .. c : Contents[q + i] = d[i]
      /\ Full <=> Used = PIPE_SIZE - 1
  BY <1>1, <1>2, RingPlaces DEF InPut
<1>5. Contents \in Seq(Byte) /\ Len(Contents) = Used
  BY <1>1, ContentsSeq
<1>6. Queue = SubSeq(Contents, 1, q)
  BY <1>2 DEF Queue
<1>7. Queue' = Contents
  <2>1. call' = Idle /\ UNCHANGED ring
    BY DEF PutReturn, Return
  <2>2. Contents' = Contents
    BY <2>1, SameRing
  <2>3. QED
    BY <2>1, <2>2 DEF Queue, Idle
<1>8. c >= Len(d) \/ Full
  BY DEF PutReturn
<1>9. /\ answer' = [status |-> IF Len(d) > 0 /\ c = 0 THEN EFULL ELSE c,
                    data |-> <<>>, asked |-> Len(d)]
      /\ readers' = readers /\ writers' = writers
  BY DEF PutReturn, Return, ends
<1> HIDE DEF d, c
<1>10. q \in 0 .. Len(Contents) /\ q \in Nat /\ q + c = Used
  BY <1>3, <1>4, <1>5, SizeAssumption
<1>11. c = F!Least(Len(d), PIPE_SIZE - 1 - q)
  BY <1>3, <1>4, <1>8, <1>10, SizeAssumption DEF F!Least
<1> HIDE DEF q
<1>12. Len(Queue) = q /\ Queue \in Seq(Byte) /\ \A i \in 1 .. q : Queue[i] = Contents[i]
  BY <1>5, <1>6, <1>10, Prefix
<1>13. Contents = Queue \o SubSeq(d, 1, c)
  <2> DEFINE t == SubSeq(d, 1, c)
  <2>1. t \in Seq(Byte) /\ Len(t) = c /\ \A i \in 1 .. c : t[i] = d[i]
    <3>1. c \in 0 .. Len(d)
      BY <1>3
    <3>2. QED
      BY <1>3, <3>1, Prefix
  <2> HIDE DEF t
  <2> DEFINE j == Queue \o t
  <2>2. /\ j \in Seq(Byte) /\ Len(j) = q + c
        /\ \A i \in 1 .. q + c : j[i] = IF i <= q THEN Queue[i] ELSE t[i - q]
    <3>1. /\ j \in Seq(Byte) /\ Len(j) = Len(Queue) + Len(t)
          /\ \A i \in 1 .. Len(Queue) + Len(t) :
                j[i] = IF i <= Len(Queue) THEN Queue[i] ELSE t[i - Len(Queue)]
      BY <1>12, <2>1, Joined
    <3>2. QED
      BY <1>12, <2>1, <3>1
  <2> HIDE DEF j
  <2>3. ASSUME NEW i \in 1 .. Len(Contents) PROVE Contents[i] = j[i]
    <3>1. i \in 1 .. q + c /\ i \in Nat
      BY <1>5, <1>10
    <3>2. CASE i <= q
      BY <1>10, <1>12, <2>2, <3>1, <3>2
    <3>3. CASE i > q
      <4>1. i - q \in 1 .. c /\ q + (i - q) = i
        BY <1>3, <1>10, <3>1, <3>3
      <4>2. Contents[i] = d[i - q]
        BY <1>4, <4>1 DEF q
      <4>3. j[i] = t[i - q]
        BY <1>10, <2>2, <3>1, <3>3
      <4>4. QED
        BY <2>1, <4>1, <4>2, <4>3
    <3>4. QED
      BY <1>10, <3>1, <3>2, <3>3
  <2>4. Contents = j
    BY <1>5, <1>10, <2>2, <2>3, SeqEqual
  <2>5. QED
    BY <2>4 DEF j, t
<1>14. F!Write(d)
  BY <1>3, <1>4, <1>7, <1>9, <1>11, <1>12, <1>13 DEF F!Write, EFULL, F!EFULL
<1>15. QED
  BY <1>3, <1>14 DEF d

\* read returns: the bytes it copied, the oldest ones, leave the queue at once.
LEMMA ReadReturnReads ==
    ASSUME InCall, InCall', ReadReturn
    PROVE  call.n \in 0 .. MaxTransfer /\ F!Read(call.n)
<1>1. TypeOK /\ InRead /\ FreedWithLastEnd
  BY DEF InCall, Counted
<1>2. call \in Get /\ call.op = "read"
  BY <1>1 DEF ReadReturn, TypeOK, Idle, Put
<1> DEFINE d == call.data
           n == call.n
<1>3. /\ n \in 0 .. MaxTransfer /\ n \in Nat
      /\ d \in Seq(Byte) /\ Len(d) \in Nat /\ Len(d) <= n
  <2>1. d \in Data /\ n \in 0 .. MaxTransfer /\ n \in Nat /\ Len(d) <= n
    BY <1>1, <1>2, TransferAssumption DEF Get, TypeOK
  <2>2. QED
    BY <2>1, DataIsBounded, TransferAssumption
<1>4. /\ readers # {} /\ Used \in Nat
      /\ Used = 0 <=> readPos = writePos
      /\ writerCount = 0 <=> writers = {}
  <2>1. writerCount = 0 <=> writers = {}
    BY <1>1, EndsFinite, CountZero DEF FreedWithLastEnd
  <2>2. QED
    BY <1>1, <1>2, <2>1, RingPlaces, SizeAssumption DEF InRead
<1>5. Contents \in Seq(Byte) /\ Len(Contents) = Used
  BY <1>1, ContentsSeq
<1>6. Queue = d \o Contents
  BY <1>2 DEF Queue
<1>7. Queue' = Contents
  <2>1. call' = Idle /\ UNCHANGED ring
    BY DEF ReadReturn, Return
  <2>2. Contents' = Contents
    BY <2>1, SameRing
  <2>3. QED
    BY <2>1, <2>2 DEF Queue, Idle
<1>8. readPos = writePos \/ Len(d) >= n
  BY DEF ReadReturn
<1>9. /\ answer' = [status |-> IF Len(d) = 0 /\ writerCount = 0 THEN EEOF ELSE Len(d),
                    data |-> d, asked |-> n]
      /\ readers' = readers /\ writers' = writers
  BY DEF ReadReturn, Return, EndOfData, ends
<1> HIDE DEF d, n
<1>10. /\ Queue \in Seq(Byte) /\ Len(Queue) = Len(d) + Used
       /\ \A i \in 1 .. Len(d) + Used :
             Queue[i] = IF i <= Len(d) THEN d[i] ELSE Contents[i - Len(d)]
  BY <1>3, <1>5, <1>6, Joined
<1>11. Len(d) = F!Least(n, Len(Queue))
  BY <1>3, <1>4, <1>8, <1>10 DEF F!Least
<1>12. SubSeq(Queue, 1, Len(d)) = d
  <2> DEFINE p == SubSeq(Queue, 1, Len(d))
  <2>1. Len(d) \in 0 .. Len(Queue)
    BY <1>3, <1>4, <1>10
  <2>2. p \in Seq(Byte) /\ Len(p) = Len(d) /\ \A i \in 1 .. Len(d) : p[i] = Queue[i]
    BY <1>10, <2>1, Prefix
  <2>3. \A i \in 1 .. Len(d) : Queue[i] = d[i]
    BY <1>3, <1>4, <1>10
  <2> HIDE DEF p
  <2>4. p = d
    BY <1>3, <2>2, <2>3, SeqEqual
  <2>5. QED
    BY <2>4 DEF p
<1>13. SubSeq(Queue, Len(d) + 1, Len(Queue)) = Contents
  <2> DEFINE p == SubSeq(Queue, Len(d) + 1, Len(Queue))
  <2>1. /\ p \in Seq(Byte) /\ Len(p) = Used
        /\ \A i \in 1 .. Used : p[i] = Queue[Len(d) + i]
    <3>1. Queue \in Seq(Byte) /\ Len(d) \in 0 .. Len(Queue) /\ Len(Queue) - Len(d) = Used
      BY <1>3, <1>4, <1>10
    <3>2. QED
      BY <3>1, Suffix
  <2>2. ASSUME NEW i \in 1 .. Used PROVE Queue[Len(d) + i] = Contents[i]
    <3>1. Len(d) + i \in 1 .. Len(d) + Used /\ Len(d) + i > Len(d) /\ Len(d) + i - Len(d) = i
      BY <1>3, <1>4
    <3>2. QED
      BY <1>3, <1>10, <3>1
  <2> HIDE DEF p
  <2>3. p = Contents
    BY <1>5, <2>1, <2>2, SeqEqual
  <2>4. QED
    BY <2>3 DEF p
<1>14. F!Read(n)
  <2>1. EEOF = F!EEOF
    BY DEF EEOF, F!EEOF
  <2>2. QED
    BY <1>4, <1>7, <1>9, <1>11, <1>12, <1>13, <2>1 DEF F!Read
<1>15. QED
  BY <1>3, <1>14 DEF n

\* A write without readers fails, and the queue stays as it is.
LEMMA WriteRefused ==
    ASSUME InCall, NEW w \in Writers, NEW data \in Data, Write(w, data), readerCount = 0
    PROVE  F!Write(data)
<1>1. TypeOK /\ FreedWithLastEnd
  BY DEF InCall, Counted
<1>2. readers = {} /\ writers # {}
  BY <1>1, EndsFinite, CountZero DEF FreedWithLastEnd, Write
<1>3. /\ call = Idle /\ call' = Idle /\ UNCHANGED ring
      /\ answer' = [status |-> EPIPE, data |-> <<>>, asked |-> Len(data)]
      /\ readers' = readers /\ writers' = writers
  BY DEF Write, Return, ends
<1>4. Queue = Contents /\ Queue' = Contents
  BY <1>3, SameRing DEF Queue, Idle
<1>5. Contents \in Seq(Byte)
  BY <1>1, ContentsSeq
<1>6. SubSeq(data, 1, 0) = <<>>
  BY DataIsBounded
<1>7. Contents \o <<>> = Contents
  BY <1>5
<1>8. QED
  BY <1>2, <1>3, <1>4, <1>6, <1>7 DEF F!Write, EPIPE, F!EPIPE

\* Every step of the pipe is a step of the queue or leaves it unchanged.
LEMMA StepRefines ==
    ASSUME InCall, InCall', [Next]_vars
    PROVE  [F!Next]_F!vars
<1>1. TypeOK /\ TypeOK' /\ FreedWithLastEnd
  BY DEF InCall, Counted
<1>2. Contents \in Seq(Byte) /\ Len(Contents) = Used /\ Used \in Nat
  BY <1>1, ContentsSeq, RingPlaces, SizeAssumption
<1>3. ASSUME Queue' = Queue, UNCHANGED <<readers, writers, answer>>
      PROVE  [F!Next]_F!vars
  BY <1>3 DEF F!vars
<1>4. CASE UNCHANGED vars
  <2>1. UNCHANGED ring /\ UNCHANGED <<call, readers, writers, answer>>
    BY <1>4 DEF vars, ring
  <2>2. Queue' = Queue
    BY <2>1, SameRing DEF Queue
  <2>3. QED
    BY <1>3, <2>1, <2>2
<1>5. ASSUME NEW w \in Writers, NEW data \in Data, Write(w, data)
      PROVE  [F!Next]_F!vars
  <2>1. CASE readerCount = 0
    <3>1. F!Write(data) /\ data \in F!Data
      BY <1>5, <2>1, WriteRefused DEF Data, F!Data
    <3>2. QED
      BY <3>1 DEF F!Next
  <2>2. CASE readerCount # 0
    <3>1. /\ call = Idle /\ call' = [op |-> "put", data |-> data, c |-> 0]
          /\ UNCHANGED ring /\ UNCHANGED <<readers, writers, answer>>
      BY <1>5, <2>2 DEF Write, ends
    <3>2. Queue = Contents
      BY <3>1 DEF Queue, Idle
    <3>3. Queue' = SubSeq(Contents, 1, Used - 0)
      BY <3>1, SameRing DEF Queue
    <3>4. Queue' = Contents
      BY <1>2, <3>3, WholePrefix
    <3>5. QED
      BY <1>3, <3>1, <3>2, <3>4
  <2>3. QED
    BY <2>1, <2>2
<1>6. CASE PutByte
  <2>1. UNCHANGED <<readers, writers, answer>>
    BY <1>6 DEF PutByte, ends
  <2>2. QED
    BY <1>3, <1>6, <2>1, PutByteStutters
<1>7. CASE PutReturn
  <2>1. F!Write(call.data) /\ call.data \in F!Data
    BY <1>7, PutReturnWrites DEF Data, F!Data
  <2>2. QED
    BY <2>1 DEF F!Next
<1>8. ASSUME NEW r \in Readers, NEW n \in 0 .. MaxTransfer, Read(r, n)
      PROVE  [F!Next]_F!vars
  <2>1. /\ call = Idle /\ call' = [op |-> "read", n |-> n, data |-> <<>>]
        /\ UNCHANGED ring /\ UNCHANGED <<readers, writers, answer>>
    BY <1>8 DEF Read, ends
  <2>2. Queue = Contents /\ Queue' = <<>> \o Contents
    BY <2>1, SameRing DEF Queue, Idle
  <2>3. <<>> \o Contents = Contents
    BY <1>2
  <2>4. QED
    BY <1>3, <2>1, <2>2, <2>3
<1>9. CASE ReadByte
  <2>1. UNCHANGED <<readers, writers, answer>>
    BY <1>9 DEF ReadByte, ends
  <2>2. QED
    BY <1>3, <1>9, <2>1, ReadByteStutters
<1>10. CASE ReadReturn
  <2>1. F!Read(call.n) /\ call.n \in 0 .. MaxTransfer
    BY <1>10, ReadReturnReads
  <2>2. QED
    BY <2>1 DEF F!Next
<1>11. ASSUME call = Idle, call' = Idle, UNCHANGED ring PROVE Queue' = Queue
  BY <1>11, SameRing DEF Queue
<1>12. ASSUME NEW n \in 0 .. MaxTransfer, WrongEnd(n) PROVE [F!Next]_F!vars
  <2>1. Queue' = Queue
    BY <1>11, <1>12 DEF WrongEnd, Return
  <2>2. F!WrongEnd(n)
    BY <1>12, <2>1 DEF WrongEnd, Return, ends, F!WrongEnd, EIO, F!EIO
  <2>3. QED
    BY <2>2 DEF F!Next
<1>13. ASSUME NEW r \in Readers, CopyReader(r) \/ CloseReader(r)
       PROVE  [F!Next]_F!vars
  <2>1. Queue' = Queue
    BY <1>11, <1>13 DEF CopyReader, CloseReader
  <2>2. F!Ends
    BY <1>1, <1>13, <2>1 DEF CopyReader, CloseReader, F!Ends, TypeOK
  <2>3. QED
    BY <2>2 DEF F!Next
<1>14. ASSUME NEW w \in Writers, CopyWriter(w) \/ CloseWriter(w)
       PROVE  [F!Next]_F!vars
  <2>1. Queue' = Queue
    BY <1>11, <1>14 DEF CopyWriter, CloseWriter
  <2>2. F!Ends
    BY <1>1, <1>14, <2>1 DEF CopyWriter, CloseWriter, F!Ends, TypeOK
  <2>3. QED
    BY <2>2 DEF F!Next
<1>15. QED
  BY <1>4, <1>5, <1>6, <1>7, <1>8, <1>9, <1>10, <1>12, <1>13, <1>14 DEF Next

\* The ring and the loops of put and read implement the bounded queue: whatever
\* the sizes and however often the positions wrap, every byte comes out once, in
\* the order it went in.
THEOREM FifoCorrect == Spec => ImplementsFifo
<1>1. InCall /\ InCall' /\ [Next]_vars => [F!Next]_F!vars
  BY StepRefines
<1>2. QED
  BY <1>1, InitRefines, InitInCall, StepInCall, PTL DEF Spec, ImplementsFifo, F!Spec
-----------------------------------------------------------------------------
(* The end of the data *)

ToldEof == answer.status = EEOF /\ answer.asked > 0

\* A pipe without writers and without data, and no call that has found any.
Drained ==
    /\ writers = {} /\ readPos = writePos
    /\ answer.data = <<>>
    /\ call.op # "put"
    /\ call.op = "read" => call.data = <<>>

EofDrained == ToldEof => Drained

\* A drained pipe has no writer that could write or be copied, and its readers
\* find nothing.
LEMMA StaysDrained ==
    ASSUME TypeOK, Drained, [Next]_vars
    PROVE  Drained'
<1>1. CASE UNCHANGED vars
  BY <1>1 DEF vars, Drained
<1>2. ASSUME NEW w \in Writers, NEW data \in Data,
             Write(w, data) \/ CopyWriter(w) \/ CloseWriter(w)
      PROVE  Drained'
  BY <1>2 DEF Write, CopyWriter, CloseWriter, Drained
<1>3. CASE PutByte \/ PutReturn \/ ReadByte
  BY <1>3 DEF PutByte, PutReturn, ReadByte, Drained
<1>4. ASSUME NEW r \in Readers, NEW n \in 0 .. MaxTransfer, Read(r, n) PROVE Drained'
  BY <1>4 DEF Read, Drained, ring, ends
<1>5. CASE ReadReturn
  BY <1>5 DEF ReadReturn, Return, Idle, Drained, ring, ends
<1>6. ASSUME NEW n \in 0 .. MaxTransfer, WrongEnd(n) PROVE Drained'
  BY <1>6 DEF WrongEnd, Return, Idle, Drained, ring, ends
<1>7. ASSUME NEW r \in Readers, CopyReader(r) \/ CloseReader(r) PROVE Drained'
  BY <1>7 DEF CopyReader, CloseReader, Drained, ring
<1>8. Data # {}
  BY EmptyIsData
<1>9. QED
  BY <1>1, <1>2, <1>3, <1>4, <1>5, <1>6, <1>7, <1>8 DEF Next

\* A reader that asked for data is told EEOF only when the pipe is drained.
LEMMA StepEofDrained == InCall /\ EofDrained /\ [Next]_vars => EofDrained'
<1> SUFFICES ASSUME InCall, EofDrained, [Next]_vars, ToldEof' PROVE Drained'
  BY DEF EofDrained
<1>1. TypeOK /\ FreedWithLastEnd
  BY DEF InCall, Counted
<1>2. ASSUME answer' = answer PROVE Drained'
  <2>1. ToldEof
    BY <1>2 DEF ToldEof
  <2>2. QED
    BY <1>1, <2>1, StaysDrained DEF EofDrained
<1>3. CASE UNCHANGED vars
  BY <1>2, <1>3 DEF vars
<1>4. ASSUME NEW w \in Writers, NEW data \in Data, Write(w, data) PROVE Drained'
  <2>1. EPIPE # EEOF
    BY DEF EPIPE, EEOF
  <2>2. readerCount # 0
    BY <1>4, <2>1 DEF Write, Return, ToldEof
  <2>3. QED
    BY <1>2, <1>4, <2>2 DEF Write
<1>5. CASE PutReturn
  <2>1. call \in Put
    BY <1>1, <1>5 DEF PutReturn, TypeOK, Idle, Get
  <2>2. call.c \in Nat
    BY <2>1, TransferAssumption DEF Put
  <2>3. answer'.status # EEOF
    BY <1>5, <2>2 DEF PutReturn, Return, EFULL, EEOF
  <2>4. QED
    BY <2>3 DEF ToldEof
<1>6. ASSUME NEW n \in 0 .. MaxTransfer, WrongEnd(n) PROVE Drained'
  BY <1>6 DEF WrongEnd, Return, ToldEof, EIO, EEOF
<1>7. CASE ReadReturn
  <2>1. call \in Get
    BY <1>1, <1>7 DEF ReadReturn, TypeOK, Idle, Put
  <2>2. call.data \in Seq(Byte) /\ Len(call.data) \in Nat /\ call.n \in Nat
    BY <2>1, DataIsBounded, TransferAssumption DEF Get
  <2>3. /\ call' = Idle /\ UNCHANGED ring /\ writers' = writers
        /\ answer'.data = call.data /\ answer'.asked = call.n
        /\ answer'.status = IF EndOfData(Len(call.data)) THEN EEOF ELSE Len(call.data)
        /\ readPos = writePos \/ Len(call.data) >= call.n
    BY <1>7 DEF ReadReturn, Return, ends
  <2>4. EndOfData(Len(call.data)) /\ call.n > 0
    BY <2>2, <2>3 DEF ToldEof, EEOF
  <2>5. Len(call.data) = 0 /\ writers = {}
    BY <1>1, <2>4, EndsFinite, CountZero DEF EndOfData, FreedWithLastEnd
  <2>6. call.data = <<>> /\ readPos = writePos
    BY <2>2, <2>3, <2>4, <2>5, EmptySeq
  <2>7. QED
    BY <2>3, <2>5, <2>6 DEF Drained, Idle, ring
<1>8. CASE PutByte \/ ReadByte
  BY <1>2, <1>8 DEF PutByte, ReadByte
<1>9. ASSUME NEW r \in Readers, NEW n \in 0 .. MaxTransfer,
             Read(r, n) \/ CopyReader(r) \/ CloseReader(r)
      PROVE  Drained'
  BY <1>2, <1>9 DEF Read, CopyReader, CloseReader
<1>10. ASSUME NEW w \in Writers, CopyWriter(w) \/ CloseWriter(w) PROVE Drained'
  BY <1>2, <1>10 DEF CopyWriter, CloseWriter
<1>11. 0 .. MaxTransfer # {}
  BY TransferAssumption
<1>12. QED
  BY <1>3, <1>4, <1>5, <1>6, <1>7, <1>8, <1>9, <1>10, <1>11 DEF Next

\* Once a reader that asked for data is told EEOF, no reader gets another byte,
\* whatever ends are copied and closed afterwards.
THEOREM EofIsFinalCorrect == Spec => EofIsFinal
<1>1. Init => EofDrained
  BY DEF Init, EofDrained, ToldEof, EEOF
<1>2. Drained => answer.data = <<>>
  BY DEF Drained
<1>3. InCall => TypeOK
  BY DEF InCall, Counted
<1>4. TypeOK /\ Drained /\ [Next]_vars => Drained'
  BY StaysDrained
<1>5. EofIsFinal <=> [](ToldEof => [](answer.data = <<>>))
  BY DEF EofIsFinal, ToldEof
<1>6. EofDrained <=> (ToldEof => Drained)
  BY DEF EofDrained
<1>7. QED
  BY <1>1, <1>2, <1>3, <1>4, <1>5, <1>6, InitInCall, StepInCall, StepEofDrained, PTL DEF Spec
=============================================================================
