\* Any programs at all: three processes, two address spaces.
SPECIFICATION Spec
CONSTANTS
    Nodes = {n1, n2, n3}
    Spaces = {s1, s2}
    Null = null
    Signals <- MCSignals
    Rules = {}
    MaxPid = 2
    MaxQueue = 2
    MaxLevel = 1
SYMMETRY MCSymmetry
INVARIANTS TypeOK SignalFrames AddressSpaceLive LoadedSpaceLive NodesDistinct
