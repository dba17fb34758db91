\* Seven keys, of which one may repeat; enough nodes for stale heights.
SPECIFICATION Spec
CONSTANTS
    Keys = {1, 2, 3, 4, 5, 6, 7}
    Values <- MCValues
    ValuesOf <- MCValuesOf
    MaxEntries <- MCMaxEntries
    Nodes = {n1, n2, n3, n4, n5, n6, n7}
    Null = null
SYMMETRY MCSymmetry
INVARIANTS TypeOK Linked Ordered ImplementsDictionary
PROPERTIES MovesOnlyRuns
