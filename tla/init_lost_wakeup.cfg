\* test/main.c with one child at a time, whose table entry is a leaf.
SPECIFICATION ProgSpec
CONSTANTS
    Nodes = {n1, n2}
    Spaces = {s1}
    Null = null
    Signals = {17}
    Rules = {"leaf_exit", "memory", "keeps_files"}
    MaxPid = 3
    MaxQueue = 2
    MaxLevel = 2
INVARIANTS ProgNoFault
