-------------------------------- MODULE FAT32 --------------------------------
(***************************************************************************)
(* The read side of the FAT32 file system (fs/fat32): how mounting a disk  *)
(* builds the tree of entries, how a path is looked up and how a sector of *)
(* a file is read.  The calls of programs never write to the disk (create  *)
(* and unlink return ENOSYS and the files they open refuse to write); the  *)
(* mount does when the root directory does not start with a volume label.  *)
(*                                                                         *)
(* A disk has a table of chains, disk.fat, and directory slots at          *)
(* disk.slot[a], a counting slots of 32 bytes from the start of the disk.  *)
(* A slot has the attribute byte and what its type gives a meaning to: a   *)
(* short name padded with SPACE, the first cluster and the size, or the    *)
(* three pieces of a long name, padded with PAD.  A name is a sequence of  *)
(* characters and a path a sequence of names.  A data byte is its address  *)
(* on the disk, so that reading the wrong sector shows.                    *)
(***************************************************************************)
EXTENDS Integers, Sequences, SequencesExt

CONSTANTS SectorsPerCluster, BytesPerSector, ReservedSectors, FatSectors,
          TotalSectors,
          FatEntriesPerSector,    \* 128 in the code
          SlotsPerCluster         \* directory slots of a cluster

(***************************************************************************)
(* init divides the start of the data region by the cluster size, so the   *)
(* region must start on a cluster; and the largest cluster number, which   *)
(* counts from 2, must be below the number check_fat_entry_type allows.    *)
(* mkfs.fat makes disks like this.                                         *)
(***************************************************************************)
ASSUME GeometryAssumption ==
  /\ (ReservedSectors + FatSectors) % SectorsPerCluster = 0
  /\ ReservedSectors + FatSectors >= 2 * SectorsPerCluster

END       == -1              \* 0xFFFFFFFF, as the int the code makes of it
LAST      == 2^28 - 1        \* 0x0FFFFFFF, the end mark that mkfs.fat writes
DEFECTIVE == 2^28 - 2

DataStart == (ReservedSectors + FatSectors) \div SectorsPerCluster
ReservedFatEntries == 2
SlotBytes == 32

NoEntry == [type |-> "NONE"]

check_fat_entry_type(val) ==
  CASE val = END       -> "END"
    [] val = 0         -> "FREE"
    [] val = DEFECTIVE -> "DEFECTIVE"
    [] OTHER -> IF val < TotalSectors \div SectorsPerCluster THEN "ALLOCATED" ELSE "RESERVED"

fat_entry_to_cluster_offset(entry) == (entry - ReservedFatEntries) + DataStart

(* Walk the chain from cur.  buf is the sector of the table that the       *)
(* buffer holds; the entry of cur is read from the buffer.                 *)
RECURSIVE Walk(_, _, _, _)

FatSector(entry) == entry \div FatEntriesPerSector
FatEntry(disk, buf, entry) == disk.fat[buf * FatEntriesPerSector + (entry % FatEntriesPerSector)]

WalkStaleBuffer(disk, allocations, cur, buf) ==
  IF check_fat_entry_type(cur) # "ALLOCATED" THEN Append(allocations, cur)
  ELSE Walk(disk, Append(allocations, cur),
            FatEntry(disk, buf, cur), buf)

Walk(disk, allocations, cur, buf) ==
  IF check_fat_entry_type(cur) # "ALLOCATED"
  THEN Append(allocations, cur)
  ELSE LET next == FatEntry(disk, buf, cur)
       IN  Walk(disk, Append(allocations, cur), next,
                IF check_fat_entry_type(next) = "ALLOCATED" THEN FatSector(next) ELSE buf)

find_cluster_allocations(disk, first) ==
  IF first = 0 THEN <<>>
  ELSE IF check_fat_entry_type(disk.fat[first]) = "ALLOCATED"
       THEN Walk(disk, <<>>, first, FatSector(first))
       ELSE <<first>>

SPACE == " "
PAD   == "0xFFFF"
NUL   == "0x00"

(* The upper two bits of the attribute byte are reserved.  Any other       *)
(* combination of flags, a read-only file's too, is no entry.              *)
parse_attribute(disk, a) ==
  LET attribute == disk.slot[a].attr % 64
  IN  CASE attribute = 8  -> "ROOT"
        [] attribute = 16 -> "DIRECTORY"
        [] attribute = 32 -> "FILE"
        [] attribute = 15 -> "LONG_NAME"
        [] OTHER          -> "EMPTY"

(* The extension is kept apart and no lookup uses it.                      *)
parse_short_file_name(disk, a) == SelectSeq(disk.slot[a].name, LAMBDA c : c # SPACE)

(* Each of the three pieces ends at its first padding.                     *)
parse_long_name(disk, a) ==
  LET Piece(s) == LET pads == {i \in DOMAIN s : s[i] = PAD}
                  IN  IF pads = {} THEN s
                      ELSE SubSeq(s, 1, (CHOOSE i \in pads : \A j \in pads : i <= j) - 1)
      pieces == disk.slot[a].pieces
  IN  Piece(pieces[1]) \o Piece(pieces[2]) \o Piece(pieces[3])

(* The slots before a are searched backwards for the parts of the long     *)
(* name; the code compares the byte offset with a cluster number, so the   *)
(* search is not confined to the cluster.                                  *)
RECURSIVE find_long_name_entries(_, _, _)

find_long_name_entries(disk, loc, a) ==
  IF SlotBytes * a >= loc \div SlotsPerCluster /\ parse_attribute(disk, a) = "LONG_NAME"
  THEN parse_long_name(disk, a) \o find_long_name_entries(disk, loc, a - 1)
  ELSE <<>>

(***************************************************************************)
(* The constructor of Entry for the slot at loc: a directory constructs    *)
(* its sub-entries, in the order of its clusters and slots.  What an       *)
(* address outside the disk holds is taken to be no entry.  The size of an *)
(* EMPTY entry is not set: it is whatever the heap held (heap).            *)
(***************************************************************************)
RECURSIVE Entry(_, _, _)

Searched(allocations) ==
  LET Slots(i) == [j \in 1 .. SlotsPerCluster |->
                     fat_entry_to_cluster_offset(allocations[i]) * SlotsPerCluster + j - 1]
  IN  FlattenSeq([i \in DOMAIN allocations |-> Slots(i)])

find_sub_dir_entries(disk, allocations, heap) ==
  LET Listed(a) == /\ a \in DOMAIN disk.slot
                   /\ parse_attribute(disk, a) \in {"DIRECTORY", "FILE"}
                   /\ parse_short_file_name(disk, a) \notin {<<".">>, <<"..">>}
      found == SelectSeq(Searched(allocations), Listed)
  IN  [i \in DOMAIN found |-> Entry(disk, found[i], heap)]

parse_root_entry(disk, loc, heap) ==
  LET allocations == find_cluster_allocations(disk, ReservedFatEntries)
  IN  [type |-> "ROOT", name |-> <<>>, size |-> disk.slot[loc].size,
       fat_allocations |-> allocations,
       sub_dirs |-> find_sub_dir_entries(disk, allocations, heap)]

parse_dir_entry(disk, loc, heap) ==
  LET slot == disk.slot[loc]
      type == parse_attribute(disk, loc)
      allocations == find_cluster_allocations(disk, slot.first)
      long == find_long_name_entries(disk, loc, loc - 1)
  IN  [type |-> type, size |-> slot.size, fat_allocations |-> allocations,
       name |-> IF long = <<>> THEN parse_short_file_name(disk, loc) ELSE long,
       sub_dirs |-> IF type = "DIRECTORY" THEN find_sub_dir_entries(disk, allocations, heap)
                                               ELSE <<>>]

NoClusters(type, name, size) ==
  [type |-> type, name |-> name, size |-> size, fat_allocations |-> <<>>, sub_dirs |-> <<>>]

Entry(disk, loc, heap) ==
  LET type == parse_attribute(disk, loc)
  IN  CASE type = "ROOT"                  -> parse_root_entry(disk, loc, heap)
        [] type \in {"DIRECTORY", "FILE"} -> parse_dir_entry(disk, loc, heap)
        [] type = "LONG_NAME"             -> NoClusters(type, parse_long_name(disk, loc), -1)
        [] type = "EMPTY"                 -> NoClusters(type, <<>>, heap)

(***************************************************************************)
(* init takes the first slot of the root directory's cluster for the root, *)
(* whatever it is.  One that is EMPTY to parse_attribute, a read-only file *)
(* too, is filled with zeroes on the disk.                                 *)
(***************************************************************************)
RootSlot == DataStart * SlotsPerCluster
Labelled(disk) == parse_attribute(disk, RootSlot) = "ROOT"
Cleared == [attr |-> 0, name |-> <<NUL, NUL>>, pieces |-> <<>>, first |-> 0, size |-> 0]

init(disk, heap) == Entry(disk, RootSlot, heap)

clear_entry(disk, loc) ==
  IF parse_attribute(disk, loc) = "EMPTY" THEN [disk EXCEPT !.slot[loc] = Cleared] ELSE disk

(***************************************************************************)
(* Lookups.  A relative path has no entries to follow and fails.           *)
(***************************************************************************)
find_sub_dir(entry, name) ==
  LET found == SelectSeq(entry.sub_dirs, LAMBDA d : d.name = name)
  IN  IF found = <<>> THEN NoEntry ELSE Head(found)

RECURSIVE Follow(_, _)

Follow(entry, names) ==
  IF names = <<>> \/ entry = NoEntry THEN entry
  ELSE Follow(find_sub_dir(entry, Head(names)), Tail(names))

find_entry(root, path) == IF path.absolute THEN Follow(root, path.names) ELSE NoEntry

(***************************************************************************)
(* Reading the sector_offset-th sector of an entry: the sector's number on *)
(* the disk, or -1 for a null buffer.                                      *)
(***************************************************************************)
NoBuffer == -1

SectorFlat(entry, sector) ==
  IF entry.type # "FILE" \/ sector \div SectorsPerCluster >= Len(entry.fat_allocations)
  THEN NoBuffer
  ELSE fat_entry_to_cluster_offset(entry.fat_allocations[1]) * SectorsPerCluster + sector

read_data(entry, sector) ==
  LET target == sector \div SectorsPerCluster
  IN  IF entry.type # "FILE" \/ target >= Len(entry.fat_allocations) THEN NoBuffer
      ELSE fat_entry_to_cluster_offset(entry.fat_allocations[target + 1]) * SectorsPerCluster
             + (sector % SectorsPerCluster)

read_file(root, path, sector) ==
  LET entry == find_entry(root, path)
  IN  IF entry = NoEntry THEN NoBuffer ELSE read_data(entry, sector)

(* DiskInterface::read copies a sector: byte i of the copy.                *)
DiskByte(sector, i) == sector * BytesPerSector + i
==============================================================================
