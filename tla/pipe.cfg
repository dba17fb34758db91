\* A ring of three bytes that calls of up to three bytes fill, drain and wrap.
\* It stops when every end is closed.
SPECIFICATION Spec
CONSTANTS
    Byte = {0, 1}
    Readers = {r1, r2}
    Writers = {w1, w2}
    PIPE_SIZE = 3
    MaxTransfer = 3
INVARIANTS TypeOK FreedWithLastEnd
PROPERTIES ImplementsFifo EofIsFinal
CHECK_DEADLOCK FALSE
