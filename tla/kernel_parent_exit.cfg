\* The first of two processes exits.
SPECIFICATION Spec
CONSTANTS
    Nodes = {n1, n2}
    Spaces = {s1, s2}
    Null = null
    Signals <- MCSignals
    Rules <- AnyExit
    MaxPid = 1
    MaxQueue = 3
    MaxLevel = 2

INVARIANTS NoFault
