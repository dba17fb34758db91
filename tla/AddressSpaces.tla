--------------------------- MODULE AddressSpaces ---------------------------
(***************************************************************************)
(* What memory/mmap.h promises of address spaces: each is a partial map    *)
(* from pages to frames, map_region and unmap_region change only the       *)
(* active one, and a frame that a program is given was in no space before. *)
(* 0 stands for "no frame".  The exception is a program started without    *)
(* memory for its stack: its pages show frames that are the kernel's, the  *)
(* same in every such space.                                               *)
(***************************************************************************)
EXTENDS Integers, Sequences

CONSTANTS Page,
          NoStack        \* the pages of a stack -> what they map to without memory

VARIABLES view,          \* view[s][p]: the frame page p of space s maps to
          active         \* the space loaded, 0 before the first

absVars == <<view, active>>

Mapped == {view[s][p] : s \in DOMAIN view, p \in Page} \ {0}

\* Where new differs from old it maps to frames that are unused and distinct.
GivesNewFrames(old, new) ==
  LET given == {p \in Page : new[p] # old[p] /\ new[p] # 0}
  IN  /\ \A p \in given : new[p] \notin Mapped
      /\ \A p, q \in given : new[p] = new[q] => p = q

OthersKept(s) == \A t \in DOMAIN view \ {s} : view'[t] = view[t]

Init == view = <<>> /\ active = 0

\* A new space, before its program has frames.
Fresh(new) ==
  [p \in Page |-> IF p \in DOMAIN NoStack /\ new[p] = NoStack[p] THEN new[p] ELSE 0]

\* exec: a new space holding the program's image and stack becomes active.
Exec ==
  /\ active' = Len(view) + 1
  /\ Len(view') = active' /\ OthersKept(active')
  /\ GivesNewFrames(Fresh(view'[active']), view'[active'])

Switch == active' \in DOMAIN view /\ UNCHANGED view

Map ==
  /\ active # 0 /\ UNCHANGED active
  /\ Len(view') = Len(view) /\ OthersKept(active)
  /\ GivesNewFrames(view[active], view'[active])

Next == Exec \/ Switch \/ Map

Spec == Init /\ [][Next]_absVars
=============================================================================
