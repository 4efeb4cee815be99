-------------------------------- MODULE Files --------------------------------
(***************************************************************************)
(* The VFS of src/vfs.c over its two file systems: the RAM files of    *)
(* src/ramfs_userland.c, which also hold the embedded programs, and    *)
(* the disk's, of which only what a call returns and leaves in the table   *)
(* of entries matters here (DiskFs has the sectors).  A path is known by   *)
(* its normal form.  Each call holds vfs_lock from its first look at the   *)
(* files to its last, and is one step.                                     *)
(*                                                                         *)
(* A descriptor names a path and the file system it was found in when it   *)
(* was opened; the file behind it is looked up again by every read and     *)
(* write.                                                                  *)
(***************************************************************************)
EXTENDS Naturals, Sequences, FiniteSets

CONSTANTS Names,       \* normal paths
          Program,     \* the one that is an embedded program
          Shipped,     \* those that ramfs_init writes
          Owners,      \* processes, and the kernel: each has a table of descriptors
          FdMax,       \* VFS_FD_MAX, PROCESS_FD_MAX
          RamSlots,    \* RAMFS_MAX_FILES less the programs
          RamMax,      \* RAMFS_DATA_MAX
          DiskSlots,   \* DISKFS_MAX_FILES
          DiskMax,     \* DISKFS_MAX_FILE_SIZE, and VFS_IO_MAX
          Payloads,    \* what a call writes
          OpenRemoved, \* whether a file may be removed while a descriptor names it
          DiskFails    \* whether the disk write that makes a file may fail

FilesAssumption ==
    /\ Program \in Names /\ Shipped \subseteq Names \ {Program}
    /\ FdMax \in Nat \ {0} /\ RamSlots \in Nat /\ DiskSlots \in Nat
    /\ RamMax \in Nat /\ DiskMax \in Nat /\ RamMax <= DiskMax
    /\ \A d \in Payloads : d \in Seq(Nat) /\ Len(d) <= DiskMax
    /\ OpenRemoved \in BOOLEAN /\ DiskFails \in BOOLEAN

VARIABLES available,   \* diskfs_available()
          ram, disk,   \* files of each: those that exist, and what is in them
          fds,         \* the tables of descriptors
          told,        \* history: what the calls that returned success put into each name
          ghosts       \* history: names made by an open that failed

filesVars == <<available, ram, disk, fds, told, ghosts>>

Absent == [exists |-> FALSE, data |-> <<>>]
Holding(data) == [exists |-> TRUE, data |-> data]
Closed == [used |-> FALSE, backend |-> "none", flags |-> {}, offset |-> 0, path |-> Program]
FileCount(files) == Cardinality({n \in Names : files[n].exists})

FilesInit ==
    /\ available \in BOOLEAN
    /\ ram = [n \in Names |-> IF n \in Shipped \cup {Program} THEN Holding(<<>>) ELSE Absent]
    /\ disk = [n \in Names |-> Absent]
    /\ fds = [o \in Owners |-> [i \in 1 .. FdMax |-> Closed]]
    /\ told = ram /\ ghosts = {}

(***************************************************************************)
(* ramfs_write and diskfs_write.  The first takes what fits and says that  *)
(* it took all; the second has made the entry when a sector cannot be      *)
(* written.  The files after a call:                                       *)
(***************************************************************************)
RamTakes(n) == n # Program /\ (ram[n].exists \/ FileCount(ram) < RamSlots + 1)
InRam(n, data) == [ram EXCEPT ![n] = Holding(SubSeq(data, 1, IF Len(data) < RamMax THEN Len(data) ELSE RamMax))]

DiskTakes(n) == available /\ (disk[n].exists \/ FileCount(disk) < DiskSlots)
DiskWith(n, data) == [disk EXCEPT ![n] = Holding(data)]
HalfMade(n) == [disk EXCEPT ![n].exists = TRUE]

(***************************************************************************)
(* open_slot and vfs_open_for_process: the file is made before a free      *)
(* descriptor is looked for.                                               *)
(***************************************************************************)
Modes == {{"read"}, {"write"}, {"read", "write"}, {"write", "append"}}

BackendFor(n) ==
    IF ram[n].exists THEN "ram" ELSE IF available /\ disk[n].exists THEN "disk" ELSE "none"
Content(backend, n) == IF backend = "disk" THEN disk[n].data ELSE ram[n].data
Visible(n) == IF BackendFor(n) = "none" THEN Absent ELSE Holding(Content(BackendFor(n), n))

\* The lowest free descriptor gets the file.
FreeFds(o) == {i \in 1 .. FdMax : ~fds[o][i].used}
Lowest(S) == CHOOSE i \in S : \A j \in S : i <= j
Descriptor(o, n, flags, backend, size) ==
    IF FreeFds(o) = {} THEN UNCHANGED fds
    ELSE fds' = [fds EXCEPT ![o][Lowest(FreeFds(o))] =
                   [used |-> TRUE, backend |-> backend, flags |-> flags, path |-> n,
                    offset |-> IF "append" \in flags THEN size ELSE 0]]

OpenFound(o, n, flags) ==
    /\ BackendFor(n) # "none"
    /\ Descriptor(o, n, flags, BackendFor(n), Len(Content(BackendFor(n), n)))
    /\ IF FreeFds(o) # {} /\ n \in ghosts
       THEN told' = [told EXCEPT ![n] = Holding(<<>>)] /\ ghosts' = ghosts \ {n}
       ELSE UNCHANGED <<told, ghosts>>
    /\ UNCHANGED <<available, ram, disk>>

\* The open that makes a file is the first to tell of it.
Made(o, n, flags, backend) ==
    /\ Descriptor(o, n, flags, backend, 0)
    /\ told' = [told EXCEPT ![n] = IF FreeFds(o) = {} THEN @ ELSE Holding(<<>>)]
    /\ ghosts' = IF FreeFds(o) = {} THEN ghosts \cup {n} ELSE ghosts
    /\ UNCHANGED available

\* Mutant: the RAM file is made whether or not the disk has taken it.
OpenNew_Both(o, n, flags) ==
    /\ BackendFor(n) = "none" /\ "write" \in flags /\ RamTakes(n)
    /\ disk' = IF DiskTakes(n) THEN DiskWith(n, <<>>) ELSE disk
    /\ ram' = InRam(n, <<>>) /\ Made(o, n, flags, "ram")

OpenNew(o, n, flags) ==
    /\ BackendFor(n) = "none" /\ "write" \in flags
    /\ \/ DiskTakes(n) /\ disk' = DiskWith(n, <<>>) /\ UNCHANGED ram /\ Made(o, n, flags, "disk")
       \/ ~DiskTakes(n) /\ RamTakes(n) /\ ram' = InRam(n, <<>>) /\ UNCHANGED disk /\ Made(o, n, flags, "ram")
       \/ /\ DiskFails /\ DiskTakes(n) /\ disk' = HalfMade(n)
          /\ RamTakes(n) /\ ram' = InRam(n, <<>>) /\ Made(o, n, flags, "ram")

Close(o, i) ==
    /\ fds[o][i].used
    /\ fds' = [fds EXCEPT ![o][i] = Closed]
    /\ UNCHANGED <<available, ram, disk, told, ghosts>>

\* process_fork copies the descriptors; clear_process drops them.
Fork(o, child) ==
    /\ o # child /\ "kernel" \notin {o, child}
    /\ fds' = [fds EXCEPT ![child] = fds[o]]
    /\ UNCHANGED <<available, ram, disk, told, ghosts>>

(***************************************************************************)
(* read_slot: the next bytes after the descriptor's offset.                *)
(***************************************************************************)
ReadSlot(o, i, length) ==
    LET f == fds[o][i]
        size == Len(Content(f.backend, f.path))
        left == size - f.offset
    IN  /\ f.used /\ "read" \in f.flags /\ f.offset < size
        /\ fds' = [fds EXCEPT ![o][i].offset = @ + (IF length < left THEN length ELSE left)]
        /\ UNCHANGED <<available, ram, disk, told, ghosts>>

(***************************************************************************)
(* write_slot: with "append" the old content, read under the same lock,    *)
(* and the new; without it the new content alone, and only once.  The      *)
(* buffer of an append may not be had: then nothing changes.               *)
(***************************************************************************)
LengthMax(backend) == IF backend = "disk" THEN DiskMax ELSE RamMax

\* Mutant: an append goes on from the descriptor's offset.
Whole_FromOffset(f, data) == SubSeq(Content(f.backend, f.path), 1, f.offset) \o data

Whole(f, data) == Content(f.backend, f.path) \o data

Stored(f, data) ==
    \/ /\ f.backend = "ram" /\ RamTakes(f.path)
       /\ ram' = InRam(f.path, data) /\ UNCHANGED disk
    \/ /\ f.backend = "disk" /\ DiskTakes(f.path)
       /\ disk' = DiskWith(f.path, data) /\ UNCHANGED ram

WriteSlot(o, i, data) ==
    LET f == fds[o][i]
        append == "append" \in f.flags
        whole == IF append THEN Whole(f, data) ELSE data
    IN  /\ f.used /\ "write" \in f.flags
        /\ append \/ f.offset = 0
        /\ append => Len(data) + Len(Content(f.backend, f.path)) <= LengthMax(f.backend)
        /\ Stored(f, whole)
        /\ fds' = [fds EXCEPT ![o][i].offset = IF append THEN Len(whole) ELSE @ + Len(data)]
        /\ told' = [told EXCEPT ![f.path] = Holding(IF append THEN @.data \o data ELSE data)]
        /\ UNCHANGED <<available, ghosts>>

(***************************************************************************)
(* vfs_remove: the RAM file if there is one, else the disk's.              *)
(***************************************************************************)
Named(n) == \E o \in Owners, i \in 1 .. FdMax : fds[o][i].used /\ fds[o][i].path = n

RemoveFile(n) ==
    /\ OpenRemoved \/ ~Named(n)
    /\ BackendFor(n) # "none" /\ n # Program
    /\ IF BackendFor(n) = "ram" THEN ram' = [ram EXCEPT ![n] = Absent] /\ UNCHANGED disk
       ELSE disk' = [disk EXCEPT ![n] = Absent] /\ UNCHANGED ram
    /\ told' = [told EXCEPT ![n] = Absent]
    /\ ghosts' = ghosts \ {n}
    /\ UNCHANGED <<available, fds>>

FilesNext ==
    \/ \E o \in Owners, n \in Names, flags \in Modes : OpenFound(o, n, flags) \/ OpenNew(o, n, flags)
    \/ \E o \in Owners, i \in 1 .. FdMax :
         \/ Close(o, i)
         \/ \E length \in 1 .. DiskMax : ReadSlot(o, i, length)
         \/ \E data \in Payloads : WriteSlot(o, i, data)
    \/ \E o, child \in Owners : Fork(o, child)
    \/ \E n \in Names : RemoveFile(n)

FilesSpec == FilesInit /\ [][FilesNext]_filesVars

-----------------------------------------------------------------------------
\* What a caller was told is what anybody finds: the file a name stands for holds what
\* the writes to that name, through whichever descriptors, put there with success.
Honest == \A n \in Names \ (ghosts \cup {Program}) : Visible(n) = told[n]

\* A name stands for one file: it is never in both file systems at once, where the RAM
\* file hides the one on the disk and comes back as the disk's after a restart.
OneHome == \A n \in Names : ~(ram[n].exists /\ disk[n].exists)

\* Both at once: the files that are found are the files that were written, in one place each.
FilesKept == Honest /\ OneHome

\* An open that fails leaves nothing behind.
NoGhost == ghosts = {}
=============================================================================
