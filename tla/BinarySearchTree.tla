-------------------------- MODULE BinarySearchTree --------------------------
(***************************************************************************)
(* An AVL tree (SearchTree) under any sequence of inserts and removals:    *)
(* the process table and the tables of open files are such trees.  The     *)
(* scheduler keeps pointers to the values inside the nodes, so which node  *)
(* holds which value matters to the kernel.                                *)
(***************************************************************************)
EXTENDS Relocation, SearchTree

CONSTANTS
    Keys,       \* a set of integers
    Values,
    ValuesOf,   \* the values that may be inserted at a key
    MaxEntries, \* bound: how many entries a key may have at once
    Nodes       \* addresses of nodes

ASSUME KeysAssumption == Keys \subseteq Int
ASSUME ValuesAssumption == ValuesOf \in [Keys -> SUBSET Values]
ASSUME EntriesAssumption == MaxEntries \in [Keys -> Nat]
ASSUME NodesAssumption == Null \notin Nodes

VARIABLES
    tree,
    dict    \* history: the entries that the calls so far left in a Dictionary

vars == <<tree, dict>>

Node == [key : Keys, value : Values, left : Nodes \cup {Null},
         right : Nodes \cup {Null}, parent : Nodes \cup {Null}, height : Nat]

-----------------------------------------------------------------------------
\* A process is inserted under a new pid; a file may be stored under a
\* descriptor that another file has.
insert(key, val) ==
    /\ Cardinality({n \in Allocated(tree) : tree.mem[n].key = key}) < MaxEntries[key]
    /\ \E n \in Nodes \ Allocated(tree) : tree' = add_rec(tree, n, key, val)

remove(key) == tree' = remove_rec(tree, key)

\* The dictionary that the calls are compared with; found is what the tree's
\* own lookup gives.
D == INSTANCE Dictionary WITH
         None <- Null,
         found <- [key \in Keys |-> IF contains(tree, key) THEN get(tree, key)
                                                          ELSE Null]

Init == tree = EmptyTree /\ D!Init

Next == \/ \E key \in Keys : \E val \in ValuesOf[key] :
              insert(key, val) /\ D!Insert(key, val)
        \/ \E key \in Keys : remove(key) /\ D!Remove(key)

Spec == Init /\ [][Next]_vars

-----------------------------------------------------------------------------
\* The root is null or an allocated node, also after the last removal.
TypeOK ==
    /\ Allocated(tree) \subseteq Nodes
    /\ tree.mem \in [Allocated(tree) -> Node]
    /\ tree.root \in Allocated(tree) \cup {Null}
    /\ tree.size \in Nat

\* The tree is a tree over exactly the allocated nodes: a child's parent
\* pointer leads back, only the root has none, and the iterator reaches every
\* node once.  No rotation or removal leaks, shares or loses a node, and
\* _size, from which the next file descriptor is taken, counts them.
Linked ==
    /\ \A n \in Allocated(tree), side \in Side :
          tree.mem[n][side] # Null =>
              /\ tree.mem[n][side] \in Allocated(tree)
              /\ tree.mem[tree.mem[n][side]].parent = n
    /\ \A n \in Allocated(tree) : tree.mem[n].parent = Null <=> n = tree.root
    /\ ToSet(Iterated(tree)) = Allocated(tree)
    /\ Len(Iterated(tree)) = Cardinality(Allocated(tree))
    /\ tree.size = Cardinality(Allocated(tree))

\* Iteration is in the order of the keys, equal keys included, whatever
\* rotations the inserts and removals before it made.
Ordered ==
    LET it == Iterated(tree)
    IN  \A i \in 1 .. Len(it) - 1 :
            tree.mem[it[i]].key <= tree.mem[it[i + 1]].key

Held == {tree.mem[n].key : n \in Allocated(tree)}
With(e) == {n \in Allocated(tree) : tree.mem[n].key = e[1] /\ tree.mem[n].value = e[2]}

\* The tree is a map.  After any calls its nodes hold exactly the entries that
\* the inserts added and the removals have not dropped, each as often, and a
\* lookup finds a key whenever one of them has it, also after rotations moved a
\* node to the left of one with an equal key.  A removal drops the entry that
\* get returned just before it.
ImplementsDictionary ==
    /\ \A e \in D!Entries : Cardinality(With(e)) = dict[e]
    /\ D!Complete

Table == [key \in Held |-> [node |-> search_rec(tree, key)]]
OnceEach == Cardinality(Held) = Cardinality(Allocated(tree))
\* What the kernel's pointers into the table depend on, where each key occurs
\* once: an insert moves no entry to another node, and a removal moves exactly a
\* run of neighbours of the removed key, each into the node of the next
\* (Relocation).
MovesOnlyRuns ==
    [][OnceEach /\ OnceEach' =>
       /\ \A key \in Held \cap Held' : Held \subseteq Held'
              => Table'[key] = Table[key]
       /\ \A key \in Held \ Held' :
              \E M \in Chains(Table, key) : Table' = Removed(Table, key, M)]_tree
=============================================================================
