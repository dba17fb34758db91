-------------------------------- MODULE Pipe --------------------------------
(***************************************************************************)
(* A pipe (src/fs/pipe.cpp): a ring buffer, the counts of its ends, and    *)
(* the PipeReader and PipeWriter objects that share it.  Each iteration of *)
(* the copying loops is a step; system calls run with interrupts masked,   *)
(* so no other call starts before the loop returns.                        *)
(***************************************************************************)
EXTENDS Integers, Sequences, FiniteSets

CONSTANTS
    Byte,           \* the values of a byte
    Readers,        \* addresses of PipeReader objects
    Writers,        \* addresses of PipeWriter objects
    PIPE_SIZE,      \* the size of the ring (4096 in the code)
    MaxTransfer     \* bound: the bytes one call asks for

ASSUME SizeAssumption == PIPE_SIZE \in Nat \ {0}
ASSUME TransferAssumption == MaxTransfer \in Nat
ASSUME EndsAssumption == IsFiniteSet(Readers) /\ IsFiniteSet(Writers)
ASSUME ByteAssumption == Byte # {}

VARIABLES
    buffer, writePos, readPos,      \* the ring
    readerCount, writerCount,       \* the counts of the ends
    readers, writers,               \* the PipeReaders and PipeWriters
    allocated,                      \* the Pipe has not been deleted
    call,                           \* the call in progress
    answer                          \* what the last call gave its caller

vars == <<buffer, writePos, readPos, readerCount, writerCount,
          readers, writers, allocated, call, answer>>
ring == <<buffer, writePos, readPos>>
ends == <<readerCount, writerCount, readers, writers, allocated>>

EEOF == -3
EIO == -7
EPIPE == -9
EFULL == -10

Status == {EEOF, EIO, EPIPE, EFULL} \cup 0 .. MaxTransfer
Data == UNION {[1 .. n -> Byte] : n \in 0 .. MaxTransfer}

\* put has the bytes of its caller in data and has copied c of them; read has
\* copied data and was asked for n bytes.
Idle == [op |-> "none"]
Put == [op : {"put"}, data : Data, c : 0 .. MaxTransfer]
Get == [op : {"read"}, n : 0 .. MaxTransfer, data : Data]

Init ==                                 \* syscall_create_pipe
    /\ buffer \in [0 .. PIPE_SIZE - 1 -> Byte]
    /\ writePos = 0
    /\ readPos = 0
    /\ \E r \in Readers : readers = {r}
    /\ \E w \in Writers : writers = {w}
    /\ readerCount = 1
    /\ writerCount = 1
    /\ allocated = TRUE
    /\ call = Idle
    /\ answer = [status |-> 0, data |-> <<>>, asked |-> 0]

Return(status, data, n) ==
    /\ call' = Idle
    /\ answer' = [status |-> status, data |-> data, asked |-> n]
    /\ UNCHANGED ends

-----------------------------------------------------------------------------
\* PipeWriter::write and the test at the beginning of Pipe::put.
Write(w, data) ==
    /\ call = Idle
    /\ w \in writers
    /\ IF readerCount = 0
       THEN Return(EPIPE, <<>>, Len(data))
       ELSE /\ call' = [op |-> "put", data |-> data, c |-> 0]
            /\ UNCHANGED <<ends, answer>>
    /\ UNCHANGED ring

FullAlmost ==                           \* mutant: the wrapped case forgotten
    writePos + 1 = readPos
Full == \/ writePos = PIPE_SIZE - 1 /\ readPos = 0
        \/ writePos + 1 = readPos

NextPosLate(pos) ==                     \* mutant: > for >=
    IF pos + 1 > PIPE_SIZE THEN 0 ELSE pos + 1
NextPos(pos) == IF pos + 1 >= PIPE_SIZE THEN 0 ELSE pos + 1

PutByte ==
    /\ call.op = "put"
    /\ call.c < Len(call.data)
    /\ ~Full
    /\ buffer' = [buffer EXCEPT ![writePos] = call.data[call.c + 1]]
    /\ writePos' = NextPos(writePos)
    /\ call' = [call EXCEPT !.c = @ + 1]
    /\ UNCHANGED <<readPos, ends, answer>>

PutReturn ==
    /\ call.op = "put"
    /\ call.c >= Len(call.data) \/ Full
    /\ Return(IF Len(call.data) > 0 /\ call.c = 0 THEN EFULL ELSE call.c,
              <<>>, Len(call.data))
    /\ UNCHANGED ring

-----------------------------------------------------------------------------
Read(r, n) ==
    /\ call = Idle
    /\ r \in readers
    /\ call' = [op |-> "read", n |-> n, data |-> <<>>]
    /\ UNCHANGED <<ring, ends, answer>>

ReadByte ==
    /\ call.op = "read"
    /\ readPos # writePos
    /\ Len(call.data) < call.n
    /\ call' = [call EXCEPT !.data = Append(@, buffer[readPos])]
    /\ readPos' = NextPos(readPos)
    /\ UNCHANGED <<buffer, writePos, ends, answer>>

\* Pipe::read returns and PipeReader::read looks for the end of the data.
EndOfDataEarly(c) == c = 0              \* mutant: the writers not counted
EndOfData(c) == c = 0 /\ writerCount = 0
ReadReturn ==
    /\ call.op = "read"
    /\ readPos = writePos \/ Len(call.data) >= call.n
    /\ Return(IF EndOfData(Len(call.data)) THEN EEOF ELSE Len(call.data),
              call.data, call.n)
    /\ UNCHANGED ring

\* PipeReader::write and PipeWriter::read.
WrongEnd(n) ==
    /\ call = Idle
    /\ readers # {} \/ writers # {}
    /\ Return(EIO, <<>>, n)
    /\ UNCHANGED ring

-----------------------------------------------------------------------------
\* PipeReader::copy and PipeWriter::copy, called when a process is cloned.
CopyReader(r) ==
    /\ call = Idle
    /\ readers # {} /\ r \in Readers \ readers
    /\ readers' = readers \cup {r}
    /\ readerCount' = readerCount + 1
    /\ UNCHANGED <<ring, writers, writerCount, allocated, call, answer>>

CopyWriter(w) ==
    /\ call = Idle
    /\ writers # {} /\ w \in Writers \ writers
    /\ writers' = writers \cup {w}
    /\ writerCount' = writerCount + 1
    /\ UNCHANGED <<ring, readers, readerCount, allocated, call, answer>>

\* The destructors, called when the last descriptor of an end is closed.
CloseReader(r) ==
    /\ call = Idle
    /\ r \in readers
    /\ readers' = readers \ {r}
    /\ readerCount' = readerCount - 1
    /\ allocated' = (allocated /\ ~(readerCount' = 0 /\ writerCount = 0))
    /\ UNCHANGED <<ring, writers, writerCount, call, answer>>

CloseWriterFrees(w) ==                  \* mutant: the readers not counted
    /\ call = Idle
    /\ w \in writers
    /\ writers' = writers \ {w}
    /\ writerCount' = writerCount - 1
    /\ allocated' = (allocated /\ writerCount' # 0)
    /\ UNCHANGED <<ring, readers, readerCount, call, answer>>
CloseWriter(w) ==
    /\ call = Idle
    /\ w \in writers
    /\ writers' = writers \ {w}
    /\ writerCount' = writerCount - 1
    /\ allocated' = (allocated /\ ~(readerCount = 0 /\ writerCount' = 0))
    /\ UNCHANGED <<ring, readers, readerCount, call, answer>>

Next ==
    \/ \E w \in Writers, data \in Data : Write(w, data)
    \/ PutByte
    \/ PutReturn
    \/ \E r \in Readers, n \in 0 .. MaxTransfer : Read(r, n)
    \/ ReadByte
    \/ ReadReturn
    \/ \E n \in 0 .. MaxTransfer : WrongEnd(n)
    \/ \E r \in Readers : CopyReader(r) \/ CloseReader(r)
    \/ \E w \in Writers : CopyWriter(w) \/ CloseWriter(w)

Spec == Init /\ [][Next]_vars

-----------------------------------------------------------------------------
\* The state keeps its types: in particular the positions never leave the
\* ring, so put and read never touch memory outside buffer.
TypeOK ==
    /\ buffer \in [0 .. PIPE_SIZE - 1 -> Byte]
    /\ writePos \in 0 .. PIPE_SIZE - 1
    /\ readPos \in 0 .. PIPE_SIZE - 1
    /\ readerCount \in Int
    /\ writerCount \in Int
    /\ readers \subseteq Readers
    /\ writers \subseteq Writers
    /\ allocated \in BOOLEAN
    /\ call \in {Idle} \cup Put \cup Get
    /\ call.op = "put" => call.c <= Len(call.data)
    /\ call.op = "read" => Len(call.data) <= call.n
    /\ answer \in [status : Status, data : Data, asked : 0 .. MaxTransfer]

\* The Pipe is deleted with its last end and not before: no PipeReader or
\* PipeWriter is left with a pointer to a freed pipe, and a pipe without ends
\* is not leaked, in whatever order ends are copied and closed.
FreedWithLastEnd ==
    /\ readerCount = Cardinality(readers)
    /\ writerCount = Cardinality(writers)
    /\ allocated <=> readers \cup writers # {}

-----------------------------------------------------------------------------
\* The bytes in the ring, oldest first.
Used == IF writePos >= readPos THEN writePos - readPos
                               ELSE writePos + PIPE_SIZE - readPos
Slot(i) == IF readPos + i - 1 < PIPE_SIZE THEN readPos + i - 1
                                          ELSE readPos + i - 1 - PIPE_SIZE
Contents == [i \in 1 .. Used |-> buffer[Slot(i)]]

\* The queue as its users see it: a call in progress has not happened yet, so
\* what put has copied is not in it and what read has copied still is.
Queue == CASE call.op = "none" -> Contents
           [] call.op = "put"  -> SubSeq(Contents, 1, Used - call.c)
           [] call.op = "read" -> call.data \o Contents

F == INSTANCE Fifo WITH chan <- Queue, Capacity <- PIPE_SIZE - 1

\* The ring and its loops implement the bounded queue: bytes come out once, in
\* the order they went in, through any number of wraps, and the status of
\* every call is the number of bytes it moved, or EPIPE, EFULL or EEOF.
ImplementsFifo == F!Spec

\* After a reader that asked for data is told EEOF no reader of the pipe gets
\* another byte: EEOF is only given without writers and data, and writers are
\* only copied from writers.
EofIsFinal ==
    [](answer.status = EEOF /\ answer.asked > 0 => [](answer.data = <<>>))
=============================================================================
