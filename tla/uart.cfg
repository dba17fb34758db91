\* A ring of three bytes, a FIFO of three that interrupts at two, two readers.
SPECIFICATION Spec
CONSTANTS
  BufferSize = 3
  FifoDepth = 3
  TriggerLevel = 2
  LineErrors = {"Framing"}
  MaxBytes = 5
  Contexts = {1, 2}
  Counts = {1, 3}
INVARIANT ReadersSeeStream
PROPERTY BytesReachRing
