----------------------------- MODULE SearchTree -----------------------------
(***************************************************************************)
(* The operations of src/containers/binary_search_tree.h, pointer by       *)
(* pointer.  A tree t is a record of its root, its _size and mem, the      *)
(* nodes that are allocated.                                               *)
(***************************************************************************)
EXTENDS Integers, Sequences, SequencesExt, FiniteSets

CONSTANT Null   \* the null pointer

EmptyTree == [root |-> Null, size |-> 0, mem |-> [n \in {} |-> n]]

Side == {"left", "right"}
Opposite(side) == IF side = "left" THEN "right" ELSE "left"

Allocated(t) == DOMAIN t.mem

\* A null pointer counts as a subtree of height 0.
Height(t, n) == IF n = Null THEN 0 ELSE t.mem[n].height

balance(t, n) == Height(t, t.mem[n].left) - Height(t, t.mem[n].right)

update_height(t, n) ==
    LET l == Height(t, t.mem[n].left)
        r == Height(t, t.mem[n].right)
    IN  [t EXCEPT !.mem[n].height = 1 + (IF l > r THEN l ELSE r)]

SetParent(t, n, p) == IF n = Null THEN t ELSE [t EXCEPT !.mem[n].parent = p]

\* Makes new the child of p, or the root, in the place of old.
RelinkKeepsRoot(t, p, old, new) ==      \* mutant: root is not updated
    IF p = Null THEN t
    ELSE IF t.mem[p].left = old THEN [t EXCEPT !.mem[p].left = new]
    ELSE [t EXCEPT !.mem[p].right = new]
Relink(t, p, old, new) ==
    IF p = Null THEN [t EXCEPT !.root = new]
    ELSE IF t.mem[p].left = old THEN [t EXCEPT !.mem[p].left = new]
    ELSE [t EXCEPT !.mem[p].right = new]

\* rotate_left and rotate_right: n goes down on the given side and its other
\* child comes up.
rotateDropsSubtree(t, n, side) ==       \* mutant: the inner subtree is lost
    LET up == t.mem[n][Opposite(side)]
        p == t.mem[n].parent
        turned == [t EXCEPT !.mem[up][side] = n,
                            !.mem[n][Opposite(side)] = Null,
                            !.mem[up].parent = p,
                            !.mem[n].parent = up]
    IN  update_height(update_height(Relink(turned, p, n, up), n), up)
rotate(t, n, side) ==
    LET up == t.mem[n][Opposite(side)]
        inner == t.mem[up][side]
        p == t.mem[n].parent
        turned == [t EXCEPT !.mem[up][side] = n,
                            !.mem[n][Opposite(side)] = inner,
                            !.mem[up].parent = p,
                            !.mem[n].parent = up]
        linked == Relink(SetParent(turned, inner, n), p, n, up)
    IN  update_height(update_height(linked, n), up)

rebalance(t, n) ==
    LET fresh == update_height(t, n)
        bal == balance(fresh, n)
        Turn(side) ==
            LET child == fresh.mem[n][Opposite(side)]
                inward == balance(fresh, child)
                zigzag == IF side = "right" THEN inward < 0 ELSE inward > 0
            IN  rotate(IF zigzag THEN rotate(fresh, child, Opposite(side))
                                 ELSE fresh, n, side)
    IN  CASE bal > 1  -> Turn("right")
          [] bal < -1 -> Turn("left")
          [] OTHER    -> fresh

\* The callers on the stack rebalance their nodes, innermost first.
Unwind(t, path) == FoldRight(LAMBDA n, u : rebalance(u, n), path, t)

-----------------------------------------------------------------------------
\* The nodes from the root to the place of key.  add_rec goes right at an
\* equal key, and search_rec and remove_rec stop there.
RECURSIVE Descend(_, _, _, _)
Descend(t, n, key, stopAtEqual) ==
    IF n = Null THEN <<>>
    ELSE IF t.mem[n].key = key /\ stopAtEqual THEN <<n>>
    ELSE <<n>> \o Descend(t, IF t.mem[n].key > key THEN t.mem[n].left
                                                   ELSE t.mem[n].right,
                          key, stopAtEqual)

\* The leftmost node below n, or the rightmost.
RECURSIVE Outermost(_, _, _)
Outermost(t, n, side) ==
    IF t.mem[n][side] = Null THEN n ELSE Outermost(t, t.mem[n][side], side)

successorFar(t, n) ==                   \* mutant: the wrong end of the subtree
    IF t.mem[n].right # Null THEN Outermost(t, t.mem[n].right, "right")
    ELSE IF t.mem[n].left # Null THEN Outermost(t, t.mem[n].left, "left")
    ELSE Null
successor(t, n) ==
    IF t.mem[n].right # Null THEN Outermost(t, t.mem[n].right, "left")
    ELSE IF t.mem[n].left # Null THEN Outermost(t, t.mem[n].left, "right")
    ELSE Null

add_rec(t, n, key, val) ==
    LET path == Descend(t, t.root, key, FALSE)
        p == IF path = <<>> THEN Null ELSE Last(path)
        node == [key |-> key, value |-> val, left |-> Null, right |-> Null,
                 parent |-> p, height |-> 1]
        stored == [root |-> IF p = Null THEN n ELSE t.root,
                   size |-> t.size + 1,
                   mem |-> [m \in Allocated(t) \cup {n} |->
                               IF m = n THEN node ELSE t.mem[m]]]
    IN  IF p = Null THEN rebalance(stored, n)
        ELSE Unwind(IF t.mem[p].key > key
                    THEN [stored EXCEPT !.mem[p].left = n]
                    ELSE [stored EXCEPT !.mem[p].right = n], path)

\* n, its successor, the successor of that, down to a leaf.
RECURSIVE Replacements(_, _)
Replacements(t, n) ==
    IF n = Null THEN <<>> ELSE <<n>> \o Replacements(t, successor(t, n))

\* Node::replace: each node of the run takes the key and the value of the
\* next.
ShiftedKeysOnly(t, run) ==              \* mutant: the value is not copied
    [t EXCEPT !.mem = [m \in Allocated(t) |->
        IF \E i \in 1 .. Len(run) - 1 : run[i] = m
        THEN LET i == CHOOSE i \in 1 .. Len(run) - 1 : run[i] = m
             IN  [t.mem[m] EXCEPT !.key = t.mem[run[i + 1]].key]
        ELSE t.mem[m]]]
Shifted(t, run) ==
    [t EXCEPT !.mem = [m \in Allocated(t) |->
        IF \E i \in 1 .. Len(run) - 1 : run[i] = m
        THEN LET i == CHOOSE i \in 1 .. Len(run) - 1 : run[i] = m
             IN  [t.mem[m] EXCEPT !.key = t.mem[run[i + 1]].key,
                                  !.value = t.mem[run[i + 1]].value]
        ELSE t.mem[m]]]

\* unlink and delete of a leaf.
Unlinked(t, n) ==
    LET u == Relink(t, t.mem[n].parent, n, Null)
    IN  [u EXCEPT !.mem = [m \in Allocated(t) \ {n} |-> u.mem[m]]]

\* The nodes rebalanced when the last node of the run is gone, outermost
\* first: replace rebalances the parent of the node it deletes, and each
\* caller the parent of the node it took the value from.
Rebalanced(t, run) ==
    LET parents == [i \in 1 .. Len(run) - 1 |-> t.mem[run[i + 1]].parent]
    IN  IF Len(run) = 1
        THEN IF t.mem[run[1]].parent = Null THEN <<>>
                                            ELSE <<t.mem[run[1]].parent>>
        ELSE <<run[1]>> \o parents \o <<Last(parents)>>

remove_rec(t, key) ==
    LET path == Descend(t, t.root, key, TRUE)
    IN  IF path = <<>> \/ t.mem[Last(path)].key # key
        THEN Unwind(t, path)
        ELSE LET run == Replacements(t, Last(path))
                 gone == Unlinked(Shifted(t, run), Last(run))
             IN  [Unwind(gone, Front(path) \o Rebalanced(t, run))
                     EXCEPT !.size = t.size - 1]

search_rec(t, key) ==
    LET path == Descend(t, t.root, key, TRUE)
    IN  IF path = <<>> THEN Null ELSE Last(path)
contains(t, key) ==
    search_rec(t, key) # Null /\ t.mem[search_rec(t, key)].key = key
\* get of a missing key gives the value of the root.
get(t, key) == IF contains(t, key) THEN t.mem[search_rec(t, key)].value
                                   ELSE t.mem[t.root].value

\* tree_iterator: begin and operator++.
RECURSIVE FirstLeftAncestor(_, _)
FirstLeftAncestor(t, n) ==
    LET p == t.mem[n].parent
    IN  IF p = Null \/ t.mem[p].left = n THEN p ELSE FirstLeftAncestor(t, p)
Advanced(t, n) ==
    IF t.mem[n].right # Null THEN Outermost(t, t.mem[n].right, "left")
    ELSE FirstLeftAncestor(t, n)
RECURSIVE IterateFrom(_, _)
IterateFrom(t, n) ==
    IF n = Null THEN <<>> ELSE <<n>> \o IterateFrom(t, Advanced(t, n))
Iterated(t) ==
    IterateFrom(t, IF t.root = Null THEN Null
                                    ELSE Outermost(t, t.root, "left"))
=============================================================================
