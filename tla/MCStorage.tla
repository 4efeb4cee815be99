------------------------------- MODULE MCStorage -------------------------------
(***************************************************************************)
(* What outlives a call, for TLC: the kernel log of the configuration, the *)
(* sectors under the disk's file system, each in behaviours of its own,    *)
(* while the other stands still.                                           *)
(***************************************************************************)
EXTENDS MCKernelLog, TLC

CONSTANT DiskNames   \* the names on the disk: model values, interchangeable

VARIABLES sectors, entries, file_count, mounted, todo, call, settled, removed, torn, trouble
VARIABLE part   \* fixed

\* A disk of three files of up to two sectors, whose directory takes two: the second file's
\* entry lies across them.
D == INSTANCE DiskFs WITH
  Names <- DiskNames, Contents <- {<<>>, <<1, 2>>},
  MaxFiles <- 3, FileSectors <- 2, EntrySize <- 2, SectorSize <- 3, DirSectors <- 2,
  MaxTrouble <- 2, Troubles <- {"crash", "fail"},
  disk <- sectors, available <- mounted, ghosts <- removed

ASSUME D!DiskAssumption

\* The kernel log of a machine with no disk.
R == INSTANCE KernelLog WITH OnDisk <- FALSE, MaxBoots <- 1, Panics <- {}

Interchangeable == Permutations(DiskNames)

logVars == vars
diskVars == <<sectors, entries, file_count, mounted, todo, call, settled, removed, torn, trouble>>

MCInit ==
    /\ part \in {"log", "ram log", "disk"}
    /\ Init /\ D!Init

\* Bound: a panic beside the main loop logs the third line of a boot at most, after which the
\* main loop logs none but a second.
LogBound == where' = "other" /\ head' > head => head' <= IF where = "none" THEN 3 ELSE 2

MCNext ==
    /\ UNCHANGED part
    /\ \/ part = "log" /\ Next /\ LogBound /\ UNCHANGED diskVars
       \/ part = "ram log" /\ R!Next /\ UNCHANGED diskVars
       \/ part = "disk" /\ D!Next /\ UNCHANGED logVars

MCSpec == MCInit /\ [][MCNext]_<<part, logVars, diskVars>>

-----------------------------------------------------------------------------
\* Whatever power failures and failed sector writes left on the disk, it can be mounted,
\* the count is the number of the files found, and a file is what its last successful write
\* made it (diskfs_init, diskfs_write, diskfs_remove).
DiskKept == part = "disk" => D!StaysMounted /\ D!Durable
=============================================================================
