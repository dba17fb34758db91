-------------------------------- MODULE Fifo --------------------------------
(***************************************************************************)
(* What a pipe promises the processes that hold its ends: a bounded queue  *)
(* of bytes.  A write takes effect at once, and takes as many bytes as     *)
(* there is room for; a read delivers the oldest bytes.  Without readers   *)
(* writing is an error, and a reader of an empty queue without writers is  *)
(* told that nothing more will come.                                       *)
(***************************************************************************)
EXTENDS Integers, Sequences, FiniteSets

CONSTANTS Byte, Readers, Writers, Capacity, MaxTransfer

EEOF == -3
EIO == -7
EPIPE == -9
EFULL == -10

VARIABLES chan, readers, writers, answer

vars == <<chan, readers, writers, answer>>

Least(a, b) == IF a <= b THEN a ELSE b
Data == UNION {[1 .. n -> Byte] : n \in 0 .. MaxTransfer}

Init == /\ chan = <<>>
        /\ \E r \in Readers : readers = {r}
        /\ \E w \in Writers : writers = {w}
        /\ answer = [status |-> 0, data |-> <<>>, asked |-> 0]

Write(data) ==
    /\ writers # {}
    /\ LET c == IF readers = {} THEN 0
                ELSE Least(Len(data), Capacity - Len(chan))
       IN /\ chan' = chan \o SubSeq(data, 1, c)
          /\ answer' = [data |-> <<>>, asked |-> Len(data),
                        status |-> IF readers = {} THEN EPIPE
                                   ELSE IF data # <<>> /\ c = 0 THEN EFULL
                                   ELSE c]
    /\ UNCHANGED <<readers, writers>>

Read(n) ==
    /\ readers # {}
    /\ LET c == Least(n, Len(chan))
       IN /\ chan' = SubSeq(chan, c + 1, Len(chan))
          /\ answer' = [data |-> SubSeq(chan, 1, c), asked |-> n,
                        status |-> IF c = 0 /\ writers = {} THEN EEOF ELSE c]
    /\ UNCHANGED <<readers, writers>>

\* Reading a writer, or writing a reader.
WrongEnd(n) ==
    /\ readers \cup writers # {}
    /\ answer' = [status |-> EIO, data |-> <<>>, asked |-> n]
    /\ UNCHANGED <<chan, readers, writers>>

\* An end is copied from an end of the same kind, and never comes back.
Ends == /\ \/ readers # {} /\ readers' \in SUBSET Readers /\ writers' = writers
           \/ writers # {} /\ writers' \in SUBSET Writers /\ readers' = readers
        /\ UNCHANGED <<chan, answer>>

Next == \/ \E data \in Data : Write(data)
        \/ \E n \in 0 .. MaxTransfer : Read(n) \/ WrongEnd(n)
        \/ Ends

Spec == Init /\ [][Next]_vars
=============================================================================
