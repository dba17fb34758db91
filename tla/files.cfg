\* Three processes with up to four files each.
SPECIFICATION Spec
CONSTANTS
    Context = {c1, c2, c3, c4}
    MaxPid = 2
    MaxOpen = 4
    Fd = {0, 2}
    SelfDup = FALSE
SYMMETRY Symmetry
INVARIANTS NamesLive
PROPERTIES StaysPrivate DescriptorsStayDistinct ChildInherits
