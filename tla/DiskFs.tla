-------------------------------- MODULE DiskFs --------------------------------
(***************************************************************************)
(* The persistent file system of LionOS (src/diskfs.c) on its disk, with   *)
(* power failures and failing sector writes.                               *)
(*                                                                         *)
(* The calls run one at a time (vfs_lock); what they write reaches the     *)
(* disk sector by sector (ata_write_sector), so each sector is a step.  A  *)
(* sector is written whole or not at all.  A directory entry is a name, a  *)
(* size and a start sector; the ones that lie across two sectors have the  *)
(* size and the start in the second, the name (when it is short: names are *)
(* that short here) in the first.  A mount drops a name whose half of an   *)
(* entry is not there.  Sizes count sectors.                               *)
(***************************************************************************)
EXTENDS Integers, Sequences, FiniteSets

CONSTANTS
  Names,        \* the names programs use
  Contents,     \* the files they write: sequences of sectors
  MaxFiles,     \* DISKFS_MAX_FILES
  FileSectors,  \* DISKFS_SECTORS_PER_FILE
  EntrySize,    \* sizeof(struct diskfs_entry)
  SectorSize,   \* ATA_SECTOR_SIZE
  DirSectors,   \* DISKFS_DIR_SECTORS
  MaxTrouble,   \* bound: power failures and failed writes in a run
  Troubles      \* which of the two happen: "crash", "fail"

DiskAssumption ==
  /\ MaxFiles \in Nat \ {0} /\ FileSectors \in Nat \ {0}
  /\ EntrySize \in Nat \ {0} /\ SectorSize \in Nat /\ SectorSize >= EntrySize
  /\ DirSectors \in Nat /\ DirSectors * SectorSize >= MaxFiles * EntrySize
  /\ \A c \in Contents : c \in Seq(Nat \ {0}) /\ Len(c) <= FileSectors
  /\ MaxTrouble \in Nat /\ Troubles \subseteq {"crash", "fail"}

SuperLba == 0
DirLba == 1
DataLba == DirLba + DirSectors
Indices == 0 .. MaxFiles - 1
Region(i) == DataLba + i * FileSectors
Lbas == 0 .. DataLba + MaxFiles * FileSectors - 1

NoName == "none"
Zero == 0

VARIABLES
  disk,        \* the sectors
  entries,     \* entries[]: the directory in memory
  file_count,
  available,
  todo,        \* the sector writes left of the call in progress
  call         \* the call in progress, and what it will have done

\* History: what each name must read as, the names a remove of which failed, the names a
\* mount dropped (they are still on the disk), and the troubles so far.
VARIABLES settled, ghosts, torn, trouble

vars == <<disk, entries, file_count, available, todo, call, settled, ghosts, torn, trouble>>

-----------------------------------------------------------------------------
(***************************************************************************)
(* The format.                                                             *)
(***************************************************************************)
NoEntry == [name |-> NoName, size |-> 0, start_lba |-> 0]

First(i) == (i * EntrySize) \div SectorSize
Last(i) == ((i + 1) * EntrySize - 1) \div SectorSize

Super(count) == [kind |-> "super", count |-> count]
Data(v) == [kind |-> "data", value |-> v]

\* Mutant: a directory sector is written with one entry only.
DirSector_Alone(E, s, i) ==
  [kind |-> "dir",
   names |-> [k \in {j \in Indices : First(j) = s} |-> IF k = i THEN E[k].name ELSE NoName],
   tails |-> [k \in {j \in Indices : Last(j) = s} |->
                IF k = i THEN <<E[k].size, E[k].start_lba>> ELSE <<0, 0>>]]

\* Directory sector s, written for entry i: it holds the entries beside it, too.
DirSector(E, s, i) ==
  [kind |-> "dir",
   names |-> [k \in {j \in Indices : First(j) = s} |-> E[k].name],
   tails |-> [k \in {j \in Indices : Last(j) = s} |-> <<E[k].size, E[k].start_lba>>]]

\* Entry i as it lies on the disk: half of it in each sector, when it is split.
EntryOn(i) ==
  LET head == disk[DirLba + First(i)]
      tail == disk[DirLba + Last(i)]
  IN [name |-> head.names[i], size |-> tail.tails[i][1], start_lba |-> tail.tails[i][2]]

Located(e, i) == e.size <= FileSectors /\ e.start_lba = Region(i)

\* Mutant: a mount takes the entries as they lie there.
Loaded_Unchecked(i) == EntryOn(i)

\* Entry i as a mount takes it: a name whose size is too large, or whose place is not the
\* entry's own, is dropped; size and start sector stay as they are.
Loaded(i) ==
  IF Located(EntryOn(i), i) THEN EntryOn(i) ELSE [EntryOn(i) EXCEPT !.name = NoName]

Dropped == {i \in Indices : EntryOn(i).name # NoName /\ ~Located(EntryOn(i), i)}

Files(E) == {i \in Indices : E[i].name # NoName}

\* diskfs_init: a superblock it does not know, or a count out of range, disables the
\* file system.
Mountable == disk[SuperLba].kind = "super" /\ disk[SuperLba].count <= MaxFiles

\* Mutant: a mount goes by the superblock's count.
FoundCount_Super(E) == disk[SuperLba].count

\* The count is made new at each mount: the superblock's is older or newer than the entries
\* when power failed between them.
FoundCount(E) == Cardinality(Files(E))

Find(name) ==
  {i \in Indices : entries[i].name = name /\ \A j \in Indices : entries[j].name = name => i <= j}

FreeEntry == Find(NoName)

-----------------------------------------------------------------------------
Idle == [name |-> NoName, index |-> 0, size |-> 0, makes |-> <<>>]
Unsure == <<-1>>
Absent == <<-2>>

\* The superblock, then the directory sectors of entry i.
MetaWrites(E, count, i) ==
  <<<<SuperLba, Super(count)>>>>
    \o [k \in 1 .. Last(i) - First(i) + 1 |->
          <<DirLba + First(i) + k - 1, DirSector(E, First(i) + k - 1, i)>>]

DataWrites(start, content) ==
  [k \in 1 .. FileSectors |->
     <<start + k - 1, Data(IF k <= Len(content) THEN content[k] ELSE Zero)>>]

NewEntry(name, i) == [entries[i] EXCEPT !.name = name, !.start_lba = Region(i)]

\* diskfs_write, up to its first sector.
BeginWrite(name, content) ==
  /\ available /\ call = Idle
  /\ LET old == Find(name)
         place == IF old # {} THEN old ELSE FreeEntry
     IN \E i \in place :
          LET entry == IF old # {} THEN entries[i] ELSE NewEntry(name, i)
          IN /\ entries' = [entries EXCEPT ![i] = entry]
             /\ file_count' = file_count + IF old # {} THEN 0 ELSE 1
             /\ todo' = DataWrites(entry.start_lba, content)
             /\ call' = [name |-> name, index |-> i, size |-> Len(content), makes |-> content]
  /\ settled' = [settled EXCEPT ![name] = Unsure]
  /\ UNCHANGED <<disk, available, ghosts, torn, trouble>>

\* diskfs_remove, up to its first sector.
BeginRemove(name) ==
  /\ available /\ call = Idle
  /\ \E i \in Find(name) :
       /\ entries' = [entries EXCEPT ![i] = NoEntry]
       /\ file_count' = IF file_count > 0 THEN file_count - 1 ELSE 0
       /\ todo' = MetaWrites(entries', file_count', i)
       /\ call' = [name |-> name, index |-> i, size |-> 0, makes |-> Absent]
  /\ settled' = [settled EXCEPT ![name] = Unsure]
  /\ UNCHANGED <<disk, available, ghosts, torn, trouble>>

\* One sector reaches the disk.  After the last one of the data the size is set and the
\* metadata follows; after the last one of the metadata the call returns.
WriteSector ==
  /\ todo # <<>>
  /\ disk' = [disk EXCEPT ![todo[1][1]] = todo[1][2]]
  /\ \/ /\ Len(todo) > 1
        /\ todo' = Tail(todo)
        /\ UNCHANGED <<entries, call, settled>>
     \/ /\ Len(todo) = 1 /\ todo[1][2].kind = "data"
        /\ entries' = [entries EXCEPT ![call.index].size = call.size]
        /\ todo' = MetaWrites(entries', file_count, call.index)
        /\ UNCHANGED <<call, settled>>
     \/ /\ Len(todo) = 1 /\ todo[1][2].kind # "data"
        /\ todo' = <<>>
        /\ call' = Idle
        /\ settled' = [settled EXCEPT ![call.name] = call.makes]
        /\ UNCHANGED entries
  /\ UNCHANGED <<file_count, available, ghosts, torn, trouble>>

\* The drive reports an error, before or after the sector was stored: the call gives up,
\* and leaves what it changed in memory.
FailSector ==
  /\ "fail" \in Troubles /\ trouble < MaxTrouble
  /\ todo # <<>>
  /\ disk' \in {disk, [disk EXCEPT ![todo[1][1]] = todo[1][2]]}
  /\ todo' = <<>>
  /\ call' = Idle
  /\ trouble' = trouble + 1
  /\ ghosts' = IF call.makes = Absent THEN ghosts \cup {call.name} ELSE ghosts
  /\ UNCHANGED <<entries, file_count, available, settled, torn>>

\* The machine is started again, at any moment if the power may fail, and mounts the disk.
Reboot ==
  /\ \/ call = Idle /\ trouble' = trouble
     \/ call # Idle /\ "crash" \in Troubles /\ trouble < MaxTrouble /\ trouble' = trouble + 1
  /\ todo' = <<>>
  /\ call' = Idle
  /\ available' = Mountable
  /\ entries' = [i \in Indices |-> IF Mountable THEN Loaded(i) ELSE NoEntry]
  /\ file_count' = IF Mountable THEN FoundCount(entries') ELSE 0
  /\ torn' = torn \cup {EntryOn(i).name : i \in Dropped}
  /\ UNCHANGED <<disk, settled, ghosts>>

-----------------------------------------------------------------------------
\* The image scripts/init_disk_image.py makes, mounted.
Init ==
  /\ disk = [b \in Lbas |->
       IF b = SuperLba THEN Super(0)
       ELSE IF b < DataLba THEN DirSector([i \in Indices |-> NoEntry], b - DirLba, 0)
       ELSE Data(Zero)]
  /\ entries = [i \in Indices |-> NoEntry]
  /\ file_count = 0
  /\ available = TRUE
  /\ todo = <<>>
  /\ call = Idle
  /\ settled = [n \in Names |-> Absent]
  /\ ghosts = {} /\ torn = {}
  /\ trouble = 0

Next ==
  \/ \E n \in Names, c \in Contents : BeginWrite(n, c)
  \/ \E n \in Names : BeginRemove(n)
  \/ WriteSector
  \/ FailSector
  \/ Reboot

Spec == Init /\ [][Next]_vars

-----------------------------------------------------------------------------
\* What diskfs_read returns.
ReadBack(name) ==
  IF Find(name) = {} THEN Absent
  ELSE LET e == entries[CHOOSE i \in Find(name) : TRUE]
       IN [k \in 1 .. e.size |-> disk[e.start_lba + k - 1].value]

Kept(names) ==
  available => \A n \in names : settled[n] # Unsure => ReadBack(n) = settled[n]

\* A file that was written, or removed, with success reads as written, or is gone, until
\* the next call on its name: whatever happens to the calls on other names, and across
\* power failures and reboots.  The names a remove of which failed are set apart, and those
\* a mount dropped.
Durable == Kept(Names \ (ghosts \cup torn))

\* The same of the names a mount dropped (diskfs_init drops them in memory and leaves them on
\* the disk).
TornKept == Kept(Names \ ghosts)

\* The file system is still there after a reboot, whatever power failures and failed writes
\* left on the disk, and the count is the number of the files.
StaysMounted == available /\ file_count = Cardinality(Files(entries))

\* On the disk, too, every name has its own place while no call runs (the check of
\* scripts/check_disk_log.py, "invalid data location").
ImageLocated == call = Idle => Dropped = {}
=============================================================================
