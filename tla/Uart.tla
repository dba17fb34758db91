-------------------------------- MODULE Uart --------------------------------
(***************************************************************************)
(* Serial input (devices/uart.cpp) and the dispatch of its interrupt       *)
(* (aarch64/irq/irq.cpp, irq/interrupts.cpp).  The device puts bytes in a  *)
(* FIFO and asserts interrupts; the handler moves the FIFO into a ring     *)
(* that every open context reads at a position of its own.  System calls   *)
(* run with interrupts masked, so only the device interleaves with the     *)
(* steps of the handler.  The k-th byte the FIFO accepts is the number k.  *)
(*                                                                         *)
(* The device is a PL011: external, modelled from how the driver uses it.  *)
(***************************************************************************)
EXTENDS Integers, Sequences

CONSTANTS BufferSize,   \* 4096 in the code
          FifoDepth,    \* of the device
          TriggerLevel, \* bytes in the FIFO that assert Receive
          LineErrors,   \* the errors on the line that a byte may come with
          MaxBytes,     \* bound: bytes sent to the device
          Contexts,     \* contexts that may be open at a time
          Counts        \* sizes of reads

ASSUME SizesAssumption ==
  /\ BufferSize \in Nat \ {0}
  /\ FifoDepth \in Nat /\ TriggerLevel \in 1 .. FifoDepth
  /\ Counts \subseteq Nat
  /\ LineErrors \subseteq {"Framing", "Parity", "Break"}

VARIABLES fifo,         \* the device's FIFO
          sent,         \* bytes sent to the device, lost ones too
          received,     \* how many bytes the FIFO accepted
          asserted,     \* raw interrupt status
          waiting,      \* a byte arrived since the last receive timeout
          timer,        \* the system timer's interrupt is pending
          pc, status,   \* the handler's step and the status it read
          buffer, bufferIndex,
          stored,       \* history: bytes moved to the ring so far
          pos,          \* pos[c] of an open context, Closed otherwise
          start, got,   \* history: bytes stored when c's stream began, bytes read
          late,         \* history: c fell behind by a whole ring
          exposed       \* history: bytes received when an error was last logged for a timeout

device == <<fifo, sent, received, asserted, waiting>>
ring   == <<buffer, bufferIndex, stored>>
files  == <<pos, start, got>>
vars   == <<device, timer, pc, status, ring, files, late, exposed>>

Closed == -1
IsOpen(c) == pos[c] # Closed

TimerIrq == 1
UartIrq  == 57

(* The handlers that boot inserts.                                         *)
handlers == [id \in 0 .. 255 |-> CASE id \in 0 .. 3   -> "timer"
                                   [] id = UartIrq   -> "uart"
                                   [] OTHER          -> "none"]

(* What the constructor writes to IMSC.                                    *)
Errors == {"Framing", "Parity", "Break", "Overrun"}

MaskReceiveOnly == {"Receive"} \cup Errors
Mask == {"Receive", "ReceiveTimeout"} \cup Errors

Init ==
  /\ fifo = <<>> /\ sent = 0 /\ received = 0 /\ asserted = {} /\ waiting = FALSE
  /\ timer = FALSE
  /\ pc = "idle" /\ status = {}
  /\ buffer = [i \in 0 .. BufferSize - 1 |-> 0] /\ bufferIndex = 0 /\ stored = 0
  /\ pos = [c \in Contexts |-> Closed]
  /\ start = [c \in Contexts |-> 0] /\ got = [c \in Contexts |-> <<>>]
  /\ late = [c \in Contexts |-> FALSE]
  /\ exposed = 0

(***************************************************************************)
(* The device.  A byte that finds the FIFO full is lost; one may come with *)
(* an error.  The receive timeout is asserted when bytes wait and none has *)
(* come for 32 bit times, whatever the handler is doing: the one time too  *)
(* short for that is between its last look at the FIFO and its write to    *)
(* ICR, unless it logs an error there.                                     *)
(***************************************************************************)
Arrive ==
  /\ sent < MaxBytes /\ sent' = sent + 1
  /\ IF Len(fifo) = FifoDepth
     THEN asserted' = asserted \cup {"Overrun"} /\ UNCHANGED <<fifo, received, waiting>>
     ELSE /\ fifo' = Append(fifo, received + 1)
          /\ received' = received + 1
          /\ waiting' = TRUE
          /\ \E error \in {{}} \cup {{e} : e \in LineErrors} :
               asserted' = asserted \cup error
                             \cup (IF Len(fifo) + 1 >= TriggerLevel THEN {"Receive"} ELSE {})
  /\ UNCHANGED <<timer, pc, status, ring, files, late, exposed>>

Timeout ==
  /\ waiting /\ fifo # <<>>
  /\ pc = "Clear" => "ReceiveTimeout" \notin status
  /\ asserted' = asserted \cup {"ReceiveTimeout"}
  /\ waiting' = FALSE
  /\ UNCHANGED <<fifo, sent, received, timer, pc, status, ring, files, late, exposed>>

TimerFires ==
  /\ ~timer /\ timer' = TRUE
  /\ UNCHANGED <<device, pc, status, ring, files, late, exposed>>

(***************************************************************************)
(* handle_irq: one source at a time, the timer's before the others.        *)
(***************************************************************************)
find_irq_source ==
  CASE timer                    -> TimerIrq
    [] asserted \cap Mask # {}  -> UartIrq
    [] OTHER                    -> -1

Calls(handler) == pc = "idle" /\ find_irq_source >= 0 /\ handlers[find_irq_source] = handler

HandleTimer ==
  /\ Calls("timer")
  /\ timer' = FALSE
  /\ UNCHANGED <<device, pc, status, ring, files, late, exposed>>

HandleInterrupt ==
  /\ Calls("uart")
  /\ status' = asserted \cap Mask
  /\ pc' = "Receive"
  /\ UNCHANGED <<device, timer, ring, files, late, exposed>>

(* readByte's loop, for Receive and again for ReceiveTimeout.  Reading the *)
(* FIFO below the trigger level, or empty, withdraws the interrupt.        *)
AfterStep == CASE pc = "Receive"             -> "ReceiveTimeout"
               [] status \cap Errors # {}   -> "Log"
               [] OTHER                     -> "Clear"

NextIndexStuck == IF bufferIndex + 1 >= BufferSize THEN bufferIndex ELSE bufferIndex + 1

NextIndex == IF bufferIndex + 1 >= BufferSize THEN 0 ELSE bufferIndex + 1

readByte ==
  /\ pc \in status \cap {"Receive", "ReceiveTimeout"} /\ fifo # <<>>
  /\ buffer' = [buffer EXCEPT ![bufferIndex] = Head(fifo)]
  /\ bufferIndex' = NextIndex
  /\ stored' = stored + 1
  /\ late' = [c \in Contexts |->
                late[c] \/ (IsOpen(c) /\ stored + 1 - start[c] - Len(got[c]) >= BufferSize)]
  /\ fifo' = Tail(fifo)
  /\ asserted' = asserted \ ((IF Len(fifo) - 1 < TriggerLevel THEN {"Receive"} ELSE {})
                               \cup (IF Len(fifo) = 1 THEN {"ReceiveTimeout"} ELSE {}))
  /\ waiting' = (waiting /\ Len(fifo) > 1)
  /\ UNCHANGED <<sent, received, timer, pc, status, files, exposed>>

ReadByteDone ==
  /\ pc \in {"Receive", "ReceiveTimeout"}
  /\ pc \in status => fifo = <<>>
  /\ pc' = AfterStep
  /\ UNCHANGED <<device, timer, status, ring, files, late, exposed>>

(* Every error is logged: kernelLog polls a line out through this UART.    *)
LogErrors ==
  /\ pc = "Log"
  /\ pc' = "Clear"
  /\ exposed' = IF "ReceiveTimeout" \in status THEN received ELSE exposed
  /\ UNCHANGED <<device, timer, status, ring, files, late>>

(* The write of ICR at the end clears what was pending at the beginning.   *)
ClearInterrupt ==
  /\ pc = "Clear"
  /\ asserted' = asserted \ status
  /\ pc' = "idle" /\ status' = {}
  /\ UNCHANGED <<fifo, sent, received, waiting, timer, ring, files, late, exposed>>

(***************************************************************************)
(* System calls on a context.                                              *)
(***************************************************************************)
Open(c) ==
  /\ pc = "idle" /\ ~IsOpen(c)
  /\ pos' = [pos EXCEPT ![c] = bufferIndex]
  /\ start' = [start EXCEPT ![c] = stored]
  /\ UNCHANGED <<device, timer, pc, status, ring, got, late, exposed>>

(* How many bytes read copies: up to n, or until it meets bufferIndex.     *)
Available(p) == (bufferIndex - p + BufferSize) % BufferSize

Read(c, n) ==
  LET k == IF Available(pos[c]) < n THEN Available(pos[c]) ELSE n
  IN  /\ pc = "idle" /\ IsOpen(c)
      /\ got' = [got EXCEPT ![c] = @ \o [i \in 1 .. k |-> buffer[(pos[c] + i - 1) % BufferSize]]]
      /\ pos' = [pos EXCEPT ![c] = (@ + k) % BufferSize]
      /\ UNCHANGED <<device, timer, pc, status, ring, start, late, exposed>>

Copy(c, d) ==
  /\ pc = "idle" /\ IsOpen(c) /\ ~IsOpen(d)
  /\ pos' = [pos EXCEPT ![d] = pos[c]]
  /\ start' = [start EXCEPT ![d] = start[c]]
  /\ got' = [got EXCEPT ![d] = got[c]]
  /\ late' = [late EXCEPT ![d] = late[c]]
  /\ UNCHANGED <<device, timer, pc, status, ring, exposed>>

Close(c) ==
  /\ pc = "idle" /\ IsOpen(c)
  /\ pos' = [pos EXCEPT ![c] = Closed]
  /\ start' = [start EXCEPT ![c] = 0]
  /\ got' = [got EXCEPT ![c] = <<>>]
  /\ late' = [late EXCEPT ![c] = FALSE]
  /\ UNCHANGED <<device, timer, pc, status, ring, exposed>>

Device  == Arrive \/ Timeout \/ TimerFires
Handler == readByte \/ ReadByteDone \/ LogErrors \/ ClearInterrupt
Next ==
  \/ Device \/ HandleTimer \/ HandleInterrupt \/ Handler
  \/ \E c \in Contexts : Open(c) \/ Close(c)
  \/ \E c \in Contexts, n \in Counts : Read(c, n)
  \/ \E c, d \in Contexts : Copy(c, d)

(***************************************************************************)
(* The handler's steps are a program's.  The timer's period is long        *)
(* compared with the handlers, so an interrupt that is pending between     *)
(* timer interrupts is taken: strong fairness.  That the sender pauses and *)
(* the timeout then comes is assumed of the device, not of this code: a    *)
(* PL011 has it, an emulator of one may not.                               *)
(***************************************************************************)
DeviceFairness  == WF_vars(Timeout)
HandlerFairness == WF_vars(Handler) /\ WF_vars(HandleTimer) /\ SF_vars(HandleInterrupt)

Spec == Init /\ [][Next]_vars /\ DeviceFairness /\ HandlerFairness

(* A context hands out the bytes stored since it was opened, in order and  *)
(* each once, and a read now would go on where it stopped, as long as it   *)
(* never was a whole ring behind; copies go on by themselves.              *)
ReadersSeeStream ==
  \A c \in Contexts : (IsOpen(c) /\ ~late[c]) =>
    /\ got[c] = [i \in 1 .. Len(got[c]) |-> start[c] + i]
    /\ Available(pos[c]) = stored - start[c] - Len(got[c])
    /\ \A i \in 0 .. Available(pos[c]) - 1 :
         buffer[(pos[c] + i) % BufferSize] = start[c] + Len(got[c]) + i + 1

(* Every byte that the FIFO accepts is moved to the ring in the end, also  *)
(* one that comes between the handler's last look at the FIFO and its      *)
(* write to ICR, and one that finds the timer's interrupts before it.  The *)
(* one exception: a handler that runs for a timeout and logs an error may  *)
(* clear the timeout of the bytes that came meanwhile, and these stay in   *)
(* the FIFO if it accepts none after them.                                 *)
BytesReachRing ==
  \A k \in 1 .. MaxBytes : (received >= k) ~> (stored >= k \/ [](received = exposed))
=============================================================================
