--------------------------------- MODULE Heap ---------------------------------
(***************************************************************************)
(* The kernel heap of src/heap.c: a table of page runs, without a lock.    *)
(* The desktop calls it from the main loop with interrupts on (buffers of  *)
(* src/framebuffer.c and src/gui_lion.c); a timer interrupt may come       *)
(* between any two of its steps and let processes run, whose file calls    *)
(* take and give back a buffer with interrupts off (src/vfs.c), and who    *)
(* take and give back pages for themselves.                                *)
(*                                                                         *)
(* page_alloc_contiguous and page_free are atomic.  No page of the heap is *)
(* shared, so that a page is free or not.                                  *)
(***************************************************************************)
EXTENDS Integers, FiniteSets

CONSTANTS
  PageTotal,   \* pages of the allocator, 0 .. PageTotal - 1
  MaxAllocs,   \* MAX_HEAP_ALLOCS
  Sizes,       \* pages of the desktop's buffers
  CallSize     \* pages of the buffer of a file call (VFS_IO_MAX: one page)

ASSUME HeapAssumption ==
  /\ PageTotal \in Nat /\ MaxAllocs \in Nat
  /\ Sizes \subseteq Nat \ {0} /\ CallSize \in Nat \ {0}

VARIABLES
  used,        \* frames that are not free
  table,       \* allocations[]
  main,        \* the desktop's call of kmalloc or kfree, with its locals
  blocks,      \* history: what the desktop holds: the runs kmalloc returned
  held,        \* frames of processes
  torn         \* history: a file call came while an entry was half written or freed

heapVars == <<used, table, main, blocks, held, torn>>

Index == 0 .. MaxAllocs - 1
Unused == [base |-> -1, pages |-> 0, used |-> FALSE]     \* the null pointer is -1
Fields == {"base", "pages", "used"}
AtRest == [pc |-> "rest"]

HeapInit ==
  /\ used = {} /\ table = [i \in Index |-> Unused]
  /\ main = AtRest /\ blocks = {} /\ held = {} /\ torn = FALSE

-----------------------------------------------------------------------------
Least(S) == CHOOSE n \in S : \A m \in S : n <= m
Run(base, pages) == base .. base + pages - 1

\* page_alloc_contiguous: the lowest run that is free.
Runs(taken, pages) == {b \in 0 .. PageTotal - pages : Run(b, pages) \cap taken = {}}

\* Mutant: the last page of a run is not looked at.
Runs_ButLast(taken, pages) == {b \in 0 .. PageTotal - pages : Run(b, pages - 1) \cap taken = {}}

\* The entries a look-up may return: kmalloc's, kfree's.
FreeEntries(t) == {i \in Index : ~t[i].used}
EntriesAt(t, base) == {i \in Index : t[i].used /\ t[i].base = base}

-----------------------------------------------------------------------------
\* kmalloc by the desktop: an entry is chosen,
Malloc(n) ==
  /\ main = AtRest /\ FreeEntries(table) # {}
  /\ main' = [pc |-> "pages", entry |-> Least(FreeEntries(table)), pages |-> n]
  /\ UNCHANGED <<used, table, blocks, held, torn>>

\* then pages, which may fail,
MallocPages ==
  /\ main.pc = "pages"
  /\ IF Runs(used, main.pages) = {}
     THEN main' = AtRest /\ UNCHANGED used
     ELSE LET b == Least(Runs(used, main.pages)) IN
          /\ used' = used \cup Run(b, main.pages)
          /\ main' = [pc |-> "fill", entry |-> main.entry, todo |-> Fields,
                      new |-> [base |-> b, pages |-> main.pages, used |-> TRUE]]
  /\ UNCHANGED <<table, blocks, held, torn>>

\* and its fields are stored, in an order the compiler chooses.
MallocFill ==
  /\ main.pc = "fill"
  /\ \E f \in main.todo :
       /\ table' = [table EXCEPT ![main.entry][f] = main.new[f]]
       /\ IF main.todo = {f}
          THEN /\ main' = AtRest
               /\ blocks' = blocks \cup {[base |-> main.new.base, pages |-> main.new.pages]}
          ELSE /\ main' = [main EXCEPT !.todo = @ \ {f}]
               /\ UNCHANGED blocks
  /\ UNCHANGED <<used, held, torn>>

\* kfree by the desktop, which forgets the block whether or not it is found,
Kfree(block) ==
  /\ main = AtRest
  /\ blocks' = blocks \ {block}
  /\ main' = IF EntriesAt(table, block.base) = {} THEN AtRest
             ELSE [pc |-> "free", entry |-> Least(EntriesAt(table, block.base)),
                   base |-> block.base, page |-> 0]
  /\ UNCHANGED <<used, table, held, torn>>

\* frees page by page, as long as the entry says,
FreePage ==
  /\ main.pc = "free" /\ main.page < table[main.entry].pages
  /\ used' = used \ {main.base + main.page}
  /\ main' = [main EXCEPT !.page = @ + 1]
  /\ UNCHANGED <<table, blocks, held, torn>>

\* Mutant: the entry is left as it was.
FreeEnd_Kept ==
  /\ main.pc = "free" /\ main.page >= table[main.entry].pages
  /\ main' = AtRest
  /\ UNCHANGED <<used, table, blocks, held, torn>>

FreeEnd ==
  /\ main.pc = "free" /\ main.page >= table[main.entry].pages
  /\ main' = [pc |-> "clear", entry |-> main.entry, todo |-> Fields]
  /\ UNCHANGED <<used, table, blocks, held, torn>>

\* and clears the entry's fields, in an order the compiler chooses.
FreeClear ==
  /\ main.pc = "clear"
  /\ \E f \in main.todo :
       /\ table' = [table EXCEPT ![main.entry][f] = Unused[f]]
       /\ main' = IF main.todo = {f} THEN AtRest ELSE [main EXCEPT !.todo = @ \ {f}]
  /\ UNCHANGED <<used, blocks, held, torn>>

\* kmalloc and kfree of a file call of a process (read_slot, write_slot).
Between == main.pc \in {"free", "clear"} \/ (main.pc = "fill" /\ main.todo # Fields)

FileCall ==
  /\ FreeEntries(table) # {} /\ Runs(used, CallSize) # {}
  /\ LET i == Least(FreeEntries(table))
         b == Least(Runs(used, CallSize))
         filled == [table EXCEPT ![i] = [base |-> b, pages |-> CallSize, used |-> TRUE]]
         j == Least(EntriesAt(filled, b))
     IN /\ used' = (used \cup Run(b, CallSize)) \ Run(b, filled[j].pages)
        /\ table' = [filled EXCEPT ![j] = Unused]
  /\ torn' = (torn \/ Between)
  /\ UNCHANGED <<main, blocks, held>>

\* A process takes a page and gives it back.
TakePage ==
  /\ Runs(used, 1) # {}
  /\ used' = used \cup {Least(Runs(used, 1))}
  /\ held' = held \cup {Least(Runs(used, 1))}
  /\ UNCHANGED <<table, main, blocks, torn>>

GivePage(f) ==
  /\ used' = used \ {f} /\ held' = held \ {f}
  /\ UNCHANGED <<table, main, blocks, torn>>

HeapNext ==
  \/ \E n \in Sizes : Malloc(n)
  \/ MallocPages \/ MallocFill
  \/ \E block \in blocks : Kfree(block)
  \/ FreePage \/ FreeEnd \/ FreeClear
  \/ FileCall \/ TakePage \/ \E f \in held : GivePage(f)

HeapSpec == HeapInit /\ [][HeapNext]_heapVars

-----------------------------------------------------------------------------
(***************************************************************************)
(* Properties.                                                             *)
(***************************************************************************)
Of(block) == Run(block.base, block.pages)

\* Nobody else has a page of a buffer: the buffers and the processes' pages are taken,
\* and none twice (kmalloc, kfree, page_alloc_contiguous), wherever interrupts come.
Apart ==
  /\ held \subseteq used
  /\ \A b \in blocks : Of(b) \subseteq used \ held
  /\ \A b, c \in blocks : b # c => Of(b) \cap Of(c) = {}

\* At rest the table lists the buffers, each once, and every page taken is somebody's.
Listed ==
  main = AtRest =>
    /\ used = held \cup UNION {Of(b) : b \in blocks}
    /\ {table[i] : i \in Index \ FreeEntries(table)} =
       {[base |-> b.base, pages |-> b.pages, used |-> TRUE] : b \in blocks}
    /\ Cardinality(Index \ FreeEntries(table)) = Cardinality(blocks)

\* So it is as long as no file call comes while the desktop writes an entry or frees its
\* pages; one that comes before takes and leaves the entry kmalloc has chosen.
ApartUnlessTorn == ~torn => Apart
ListedUnlessTorn == ~torn => Listed

\* Both, of the heap that kmalloc and kfree share between the desktop and file calls.
HeapWhole == ApartUnlessTorn /\ ListedUnlessTorn
===============================================================================
