--------------------------- MODULE FileContextFAT32 ---------------------------
(***************************************************************************)
(* Open files on the FAT32 disk (fs/fat32/filecontextfat32.cpp) as the     *)
(* open, read, write, clone and close calls of programs drive them, and    *)
(* the part of exec that reads a program's file.  A context keeps a        *)
(* position; lastSector is never set, so every pass of read's loop reads   *)
(* its sector again.                                                       *)
(***************************************************************************)
EXTENDS FAT32, FiniteSets

CONSTANTS Disks,       \* the disks to mount
          Paths,       \* the paths that programs use
          Counts,      \* the sizes of reads
          MaxContexts  \* bound: contexts that exist at a time

VARIABLES disk,
          root_dir,    \* the tree of entries built by the mount
          context,     \* context[c]: [path, pos, lastSector, sectorBuffer], or Closed
          got,         \* history: the bytes that reached the user of c, in order
          ret          \* what the last call returned: [call, path, n, pos, value]

vars == <<disk, root_dir, context, got, ret>>

EIO     == -7
EEOF    == -3
ENOFILE == -4

Contexts == 1 .. MaxContexts
Nowhere  == [absolute |-> FALSE, names |-> <<>>]
Closed   == [path |-> Nowhere, pos |-> -1,
             lastSector |-> -1, sectorBuffer |-> NoBuffer]
IsOpen(c) == context[c] # Closed

Result(call, path, n, pos, value) ==
  [call |-> call, path |-> path, n |-> n, pos |-> pos, value |-> value]

Init ==
  /\ disk \in Disks
  /\ root_dir = NoEntry
  /\ context = [c \in Contexts |-> Closed]
  /\ got = [c \in Contexts |-> <<>>]
  /\ ret = Result("boot", Nowhere, 0, 0, 0)

(* initRamFS, before the first process exists.  Of a size that is not set  *)
(* only zero or not is told apart.                                         *)
Mounted == root_dir # NoEntry
Mount ==
  /\ ~Mounted
  /\ \E heap \in {0, 1} : root_dir' = init(disk, heap)
  /\ disk' = clear_entry(disk, RootSlot)
  /\ ret' = Result("mount", Nowhere, 0, 0, 0)
  /\ UNCHANGED <<context, got>>

FileType(path) == find_entry(root_dir, path).type
FileSize(path) == find_entry(root_dir, path).size

NewContext(path) == [path |-> path, pos |-> 0, lastSector |-> -1, sectorBuffer |-> NoBuffer]

(***************************************************************************)
(* read's loop.  s is [context, bytes, count]; n does not shrink as bytes  *)
(* are copied, so a read that crosses a sector copies up to n bytes again  *)
(* from the next one.                                                      *)
(***************************************************************************)
Copied(s, offset, n) ==
  LET k == IF n > BytesPerSector - offset THEN BytesPerSector - offset ELSE n
  IN  [context |-> [s.context EXCEPT !.pos = @ + k],
       bytes |-> s.bytes \o [i \in 1 .. k |-> DiskByte(s.context.sectorBuffer, offset + i - 1)],
       count |-> s.count + k]

RECURSIVE ReadLoop(_, _)

ReadLoop(s, n) ==
  IF s.count >= n THEN s
  ELSE LET sector == s.context.pos \div BytesPerSector
           buffer == IF sector = s.context.lastSector THEN s.context.sectorBuffer
                     ELSE read_file(root_dir, s.context.path, sector)
           t == [s EXCEPT !.context.sectorBuffer = buffer]
       IN  IF sector # s.context.lastSector /\ buffer = NoBuffer THEN t
           ELSE ReadLoop(Copied(t, s.context.pos % BytesPerSector, n), n)

LimitedLate(n, pos, size) == IF pos + n > size + 1 THEN size - pos ELSE n

Limited(n, pos, size) == IF pos + n > size THEN size - pos ELSE n

Read(c, n) ==
  LET x == context[c]
      s == ReadLoop([context |-> x, bytes |-> <<>>, count |-> 0],
                    Limited(n, x.pos, FileSize(x.path)))
  IN  /\ IsOpen(c)
      /\ IF find_entry(root_dir, x.path) = NoEntry
         THEN ret' = Result("read", x.path, n, x.pos, EIO) /\ UNCHANGED <<context, got>>
         ELSE IF x.pos >= FileSize(x.path)
         THEN ret' = Result("read", x.path, n, x.pos, EEOF) /\ UNCHANGED <<context, got>>
         ELSE /\ context' = [context EXCEPT ![c] = s.context]
              /\ got' = [got EXCEPT ![c] = @ \o s.bytes]
              /\ ret' = Result("read", x.path, n, x.pos, s.count)
      /\ UNCHANGED <<disk, root_dir>>

Write(c, n) ==
  /\ IsOpen(c)
  /\ ret' = Result("write", context[c].path, n, 0, EIO)
  /\ UNCHANGED <<disk, root_dir, context, got>>

(* open refuses a path that is not found or not a file: a directory, or    *)
(* the root.                                                               *)
Open(c, path) ==
  /\ Mounted /\ ~IsOpen(c)
  /\ IF FileType(path) # "FILE"
     THEN ret' = Result("open", path, 0, 0, ENOFILE) /\ UNCHANGED <<context, got>>
     ELSE /\ context' = [context EXCEPT ![c] = NewContext(path)]
          /\ got' = [got EXCEPT ![c] = <<>>]
          /\ ret' = Result("open", path, 0, 0, 0)
  /\ UNCHANGED <<disk, root_dir>>

(* The copy that clone makes for a child: it goes on at the same position  *)
(* without a buffer.  What its user sees continues what c's user saw.      *)
CopyFromStart(c, d) ==
  /\ IsOpen(c) /\ ~IsOpen(d)
  /\ context' = [context EXCEPT ![d] = NewContext(context[c].path)]
  /\ got' = [got EXCEPT ![d] = got[c]]
  /\ ret' = Result("copy", context[c].path, 0, 0, 0)
  /\ UNCHANGED <<disk, root_dir>>

Copy(c, d) ==
  /\ IsOpen(c) /\ ~IsOpen(d)
  /\ context' = [context EXCEPT ![d] = [NewContext(context[c].path) EXCEPT !.pos = context[c].pos]]
  /\ got' = [got EXCEPT ![d] = got[c]]
  /\ ret' = Result("copy", context[c].path, 0, 0, 0)
  /\ UNCHANGED <<disk, root_dir>>

Close(c) ==
  /\ IsOpen(c)
  /\ context' = [context EXCEPT ![c] = Closed]
  /\ got' = [got EXCEPT ![c] = <<>>]
  /\ ret' = Result("close", context[c].path, 0, 0, 0)
  /\ UNCHANGED <<disk, root_dir>>

(***************************************************************************)
(* exec reads its file sector by sector into a buffer of the file's size;  *)
(* it does not ask for a file, so exec of a directory is an I/O error      *)
(* unless its size is 0.                                                   *)
(***************************************************************************)
Image(path, size) ==
  [i \in 1 .. size |-> DiskByte(read_file(root_dir, path, (i - 1) \div BytesPerSector),
                                (i - 1) % BytesPerSector)]

LoadFile(path) ==
  LET entry == find_entry(root_dir, path)
      sectors == {i \div BytesPerSector : i \in 0 .. entry.size - 1}
  IN  /\ Mounted
      /\ ret' = IF entry = NoEntry THEN Result("exec", path, 0, 0, ENOFILE)
                ELSE IF \E s \in sectors : read_file(root_dir, path, s) = NoBuffer
                THEN Result("exec", path, 0, 0, EIO)
                ELSE [call |-> "exec", path |-> path, image |-> Image(path, entry.size)]
      /\ UNCHANGED <<disk, root_dir, context, got>>

Next ==
  \/ Mount
  \/ \E c \in Contexts, path \in Paths : Open(c, path)
  \/ \E c \in Contexts, n \in Counts : Read(c, n)
  \/ \E c \in Contexts : Write(c, 1)
  \/ \E c, d \in Contexts : Copy(c, d)
  \/ \E c \in Contexts : Close(c)
  \/ \E path \in Paths : LoadFile(path)

Spec == Init /\ [][Next]_vars

(***************************************************************************)
(* Properties.  disk.files describes the files on the disk independently   *)
(* of the code: [path, chain, size].  They hold of disks with a volume     *)
(* label, which mkfs.fat -n puts first; on another disk the code takes the *)
(* first entry for the root.                                               *)
(***************************************************************************)
BytesPerCluster == SectorsPerCluster * BytesPerSector

(* The addresses of the bytes of a file's clusters, in order.              *)
Stored(f) ==
  [i \in 1 .. Len(f.chain) * BytesPerCluster |->
     (ReservedSectors + FatSectors) * BytesPerSector
       + (f.chain[(i - 1) \div BytesPerCluster + 1] - 2) * BytesPerCluster
       + ((i - 1) % BytesPerCluster)]

FileAt(path) == CHOOSE f \in disk.files : f.path = path
IsFile(path) == \E f \in disk.files : f.path = path

RECURSIVE Entries(_)
Entries(entry) ==
  {entry} \cup UNION {Entries(entry.sub_dirs[i]) : i \in DOMAIN entry.sub_dirs}

(* Mounting finds every file under its full name, with its size and its    *)
(* chain of clusters, and nothing that is not a file of the disk: the      *)
(* chain may cross sectors of the table, data that looks like long names   *)
(* may lie next to a directory.                                            *)
MountFindsFiles == Mounted /\ Labelled(disk) =>
  /\ \A f \in disk.files :
       LET entry == find_entry(root_dir, f.path)
       IN  /\ entry.type = "FILE"
           /\ entry.size = f.size
           /\ IsPrefix(f.chain, entry.fat_allocations)
  /\ Cardinality({e \in Entries(root_dir) : e.type = "FILE"}) = Cardinality(disk.files)

(* Every context hands out the bytes of its file's clusters in order and   *)
(* without gaps, whatever the other contexts of the file and its own       *)
(* copies do, and never a byte of another cluster.                         *)
DeliversInOrder ==
  \A c \in Contexts : IsOpen(c) /\ Labelled(disk) =>
    /\ IsPrefix(got[c], Stored(FileAt(context[c].path)))
    /\ Len(got[c]) = context[c].pos

(* A read returns EEOF exactly at the end of the file.  Otherwise it       *)
(* returns what was asked for or is left, when the sector has that much;   *)
(* past the end of a sector it goes on in pieces of that many bytes, or of *)
(* a sector, and stops at the first that is enough.  So it never returns   *)
(* too little, but may return up to a piece less one byte too much, into   *)
(* the user's buffer and past the file's end: nothing takes what has been  *)
(* copied off n.                                                           *)
ReadsWhatIsDue ==
  ret.call = "read" /\ Labelled(disk) =>
    LET size  == FileAt(ret.path).size
        due   == IF ret.n > size - ret.pos THEN size - ret.pos ELSE ret.n
        room  == BytesPerSector - (ret.pos % BytesPerSector)
        piece == IF due > BytesPerSector THEN BytesPerSector ELSE due
    IN  IF ret.pos >= size THEN ret.value = EEOF
        ELSE IF due <= room THEN ret.value = due
        ELSE /\ ret.value \in due .. due + piece - 1
             /\ (ret.value - room) % piece = 0

(* exec loads exactly the bytes of the file it names.                      *)
LoadsWholeFile ==
  (ret.call = "exec" /\ IsFile(ret.path) /\ Labelled(disk)) =>
     "image" \in DOMAIN ret /\ ret.image = SubSeq(Stored(FileAt(ret.path)), 1, FileAt(ret.path).size)
===============================================================================
