------------------------- MODULE MCFileContextFAT32 -------------------------
(* Disks with a root directory in cluster 2, a directory in cluster 3 and   *)
(* data in the clusters 4 to 6: a file with a long name of two parts in the *)
(* root, one with a short name in the directory.  Their chains are any      *)
(* disjoint sequences of the data clusters, in any order, and the table has *)
(* three entries a sector.  Every slot outside the two directories looks    *)
(* like a part of a long name.  The root directory starts with a volume     *)
(* label; on four more disks with a file, a directory, a part of a long     *)
(* name or a read-only file.                                                *)
EXTENDS FileContextFAT32

Slot(attr, name, first, size) ==
  [attr |-> attr, name |-> <<name, SPACE>>, pieces |-> <<>>, first |-> first, size |-> size]
LongName(p1, p2, p3) == [attr |-> 15, name |-> <<>>, pieces |-> <<p1, p2, p3>>, first |-> 0, size |-> 0]
Unused == Slot(0, SPACE, 0, 0)
Junk   == LongName(<<"junk">>, <<"junk">>, <<"junk">>)

Path(names) == [absolute |-> TRUE, names |-> names]
PathA == Path(<<<<"a", "long", "file", "name">>>>)
PathB == Path(<<<<"DIR">>, <<"B">>>>)

Table(chains) ==
  [c \in 0 .. 8 |->
     IF c \in {0, 1} THEN LAST
     ELSE IF c \in {2, 3} THEN LAST
     ELSE LET held == {i \in DOMAIN chains : \E k \in DOMAIN chains[i] : chains[i][k] = c}
          IN  IF held = {} THEN 0
              ELSE LET s == chains[CHOOSE i \in held : TRUE]
                       k == CHOOSE k \in DOMAIN s : s[k] = c
                   IN  IF k < Len(s) THEN s[k + 1] ELSE IF s[1] = 4 THEN END ELSE LAST]

First(s) == IF s = <<>> THEN 0 ELSE s[1]

RootSlots(start, a, size) ==
  <<start, LongName(<<"name", PAD>>, <<PAD>>, <<PAD>>),
    LongName(<<"a">>, <<"long">>, <<"file">>), Slot(32, "ALONGF~1", First(a), size),
    Slot(64 + 16, "DIR", 3, 0), Unused>>

DirSlots(b, size) ==
  <<Slot(16, ".", 3, 0), Slot(16, "..", 0, 0), Unused,
    Slot(32, "B", First(b), size), Unused, Unused>>

MakeDisk(start, a, sizeA, b, sizeB) ==
  [fat |-> Table(<<a, b>>),
   slot |-> [p \in 0 .. (DataStart + 5) * SlotsPerCluster - 1 |->
               LET k == (p % SlotsPerCluster) + 1
               IN  CASE p \div SlotsPerCluster = DataStart     -> RootSlots(start, a, sizeA)[k]
                     [] p \div SlotsPerCluster = DataStart + 1 -> DirSlots(b, sizeB)[k]
                     [] OTHER -> Junk],
   files |-> {[path |-> PathA, chain |-> a, size |-> sizeA],
              [path |-> PathB, chain |-> b, size |-> sizeB]}]

Chains == {s \in UNION {[1 .. n -> 4 .. 6] : n \in 0 .. 3} : IsInjective(s)}
Disjoint(a, b) == \A i \in DOMAIN a, j \in DOMAIN b : a[i] # b[j]

(* The last cluster of a file is full or holds one byte.                   *)
SizeA(a) == IF a = <<>> THEN 0 ELSE Len(a) * BytesPerCluster - (IF a[1] = 5 THEN 0 ELSE 1)
SizeB(b) == IF b = <<>> THEN 0 ELSE (Len(b) - 1) * BytesPerCluster + 1

LabelledDisks ==
  {MakeDisk(Slot(8, "LABEL", 0, 0), ab[1], SizeA(ab[1]), ab[2], SizeB(ab[2])) :
     ab \in {x \in Chains \X Chains : Disjoint(x[1], x[2])}}

UnlabelledDisks ==
  {MakeDisk(start, <<4>>, 4, <<5>>, 1) :
     start \in {Slot(32, "C", 6, 3), Slot(16, "DIR", 3, 0), Junk, Slot(33, "C", 6, 3)}}

MCDisks == LabelledDisks \cup UnlabelledDisks

MCPaths == {PathA, PathB, Path(<<>>), Path(<<<<"DIR">>>>),
            [absolute |-> FALSE, names |-> <<<<"ALONGF~1">>>>]}
=============================================================================
