-------------------------------- MODULE Memory --------------------------------
(***************************************************************************)
(* Physical pages, their reference counts, and the user address spaces of  *)
(* LionOS: page_alloc, page_retain and page_free (src/memory.c), the page  *)
(* tables and the copy-on-write fault (src/paging.c), and the places of    *)
(* src/process.c and src/exec.c that take, share and give back pages:      *)
(* program start, fork, exec, thread creation, reaping.                    *)
(*                                                                         *)
(* Every operation runs with interrupts off under process_lock, so each is *)
(* one action.  A frame's content is the value last stored in it; a page   *)
(* of a program is one value.  The allocator is first fit; that the page   *)
(* directory's frames are contiguous is left out.                          *)
(***************************************************************************)
EXTENDS Integers, FiniteSets

CONSTANTS
  Procs,        \* the slots of the process table
  FrameCount,   \* the physical pages of the allocator
  PageCount,    \* the pages of a program's image, its stack the last
  Writable,     \* the pages mapped writable
  TableFrames,  \* the frames an address space takes for its directory and tables
  Values,       \* what programs store
  Workload      \* the operations of this instance

Ops == {"load", "fork", "exec", "write", "status", "reap", "schedule", "thread"}

ASSUME MemoryAssumption ==
  /\ IsFiniteSet(Procs)
  /\ FrameCount \in Nat /\ PageCount \in Nat \ {0} /\ TableFrames \in Nat
  /\ Writable \subseteq 1 .. PageCount
  /\ Values \subseteq Nat \ {0}
  /\ Workload \subseteq Ops

Frames == 1 .. FrameCount
Pages == 1 .. PageCount
ThreadPage == PageCount + 1      \* where a thread's stack is mapped
NoFrame == 0
Zero == 0
KernelData == -1

VARIABLES
  page_refs,   \* page_refs[]: 0 for a free frame
  content,     \* what each frame holds
  space        \* the memory side of each slot of the process table

(***************************************************************************)
(* History: what each page of each program should hold, by its own stores  *)
(* and those it inherited at fork; and the kernel stacks that a second     *)
(* exec in one time slice forgot.  No action reads them.                   *)
(***************************************************************************)
VARIABLES expected, forgotten

vars == <<page_refs, content, space, expected, forgotten>>

-----------------------------------------------------------------------------
Unmapped == [frame |-> NoFrame, mode |-> "none"]

\* A slot: user_pages[], the page-table entries, the frames of the directory and its
\* tables, the kernel stacks, and the stacks of the thread it may have.
NoSpace ==
  [live |-> FALSE, user_pages |-> [k \in Pages |-> NoFrame],
   pte |-> [k \in Pages \cup {ThreadPage} |-> Unmapped], tables |-> {},
   kstack |-> NoFrame, deferred |-> NoFrame, tstack |-> NoFrame, tkstack |-> NoFrame]

Free == {f \in Frames : page_refs[f] = 0}

\* The n lowest frames of S, and the k-th lowest: what n calls of page_alloc return.
Lowest(S, n) == {f \in S : Cardinality({g \in S : g < f}) < n}
Nth(S, k) == CHOOSE f \in S : Cardinality({g \in S : g < f}) = k - 1

\* page_free is called times[f] times on each frame f: at zero it does nothing.
Dropped(refs, times) ==
  [f \in Frames |-> IF refs[f] > times[f] THEN refs[f] - times[f] ELSE 0]

Entries(user_pages, f) == Cardinality({k \in Pages : user_pages[k] = f})

Once(f, S) == IF f \in S THEN 1 ELSE 0

-----------------------------------------------------------------------------
(***************************************************************************)
(* Starting a program: load_image allocates and clears the image's pages,  *)
(* then the address space, and process_create (or exec) a kernel stack.    *)
(***************************************************************************)
ImageFrames == PageCount + TableFrames + 1

Image ==
  [NoSpace EXCEPT
     !.live = TRUE,
     !.user_pages = [k \in Pages |-> Nth(Free, k)],
     !.pte = [k \in Pages \cup {ThreadPage} |->
                IF k \in Pages
                THEN [frame |-> Nth(Free, k), mode |-> IF k \in Writable THEN "rw" ELSE "ro"]
                ELSE Unmapped],
     !.tables = Lowest(Free, PageCount + TableFrames) \ Lowest(Free, PageCount),
     !.kstack = Nth(Free, ImageFrames)]

\* The content after the image's frames were taken, as far as they went.
Cleared ==
  [f \in Frames |-> IF f \in Lowest(Free, PageCount) THEN Zero
                    ELSE IF f \in Lowest(Free, ImageFrames) THEN KernelData
                    ELSE content[f]]

Taken == [f \in Frames |-> IF f \in Lowest(Free, ImageFrames) THEN 1 ELSE page_refs[f]]

\* exec_run_file.  Short of memory, every page taken is given back.
Load(p) ==
  /\ ~space[p].live
  /\ content' = Cleared
  /\ UNCHANGED forgotten
  /\ \/ /\ Cardinality(Free) >= ImageFrames
        /\ page_refs' = Taken
        /\ space' = [space EXCEPT ![p] = Image]
        /\ expected' = [expected EXCEPT ![p] = [k \in Pages \cup {ThreadPage} |-> Zero]]
     \/ /\ Cardinality(Free) < ImageFrames
        /\ UNCHANGED <<page_refs, space, expected>>

\* exec_replace_current: the new image is built before the old one is given back; the
\* kernel stack in use is left to the next pass through the scheduler.
Exec(p) ==
  /\ space[p].live /\ space[p].tstack = NoFrame
  /\ content' = Cleared
  /\ \/ /\ Cardinality(Free) >= ImageFrames
        /\ page_refs' = Dropped(Taken, [f \in Frames |->
             Entries(space[p].user_pages, f) + Once(f, space[p].tables)])
        /\ space' = [space EXCEPT ![p] = [Image EXCEPT !.deferred = space[p].kstack]]
        /\ expected' = [expected EXCEPT ![p] = [k \in Pages \cup {ThreadPage} |-> Zero]]
        /\ forgotten' = forgotten \cup ({space[p].deferred} \ {NoFrame})
     \/ /\ Cardinality(Free) < ImageFrames
        /\ UNCHANGED <<page_refs, space, expected, forgotten>>

\* process_schedule leaves the slot: the kernel stack an exec replaced is given back.
Schedule(p) ==
  /\ space[p].deferred # NoFrame
  /\ page_refs' = Dropped(page_refs, [f \in Frames |-> Once(f, {space[p].deferred})])
  /\ space' = [space EXCEPT ![p].deferred = NoFrame]
  /\ UNCHANGED <<content, expected, forgotten>>

-----------------------------------------------------------------------------
(***************************************************************************)
(* fork: the child maps every page of the parent, read-only and marked     *)
(* copy-on-write where the parent could write; so does the parent.         *)
(***************************************************************************)
Shared(pte) ==
  [k \in DOMAIN pte |->
     IF k \in Pages /\ pte[k].mode = "rw" THEN [pte[k] EXCEPT !.mode = "cow"] ELSE pte[k]]

Cowed(pte) == {k \in Pages : pte[k].mode = "rw"}

\* The failed fork puts back the flags of as many entries as it had marked, counted from
\* the first page of the list.
Restored(pte) ==
  [k \in DOMAIN pte |->
     IF k \in 1 .. Cardinality(Cowed(pte)) THEN pte[k] ELSE Shared(pte)[k]]

ForkFrames == TableFrames + 1

\* Mutant: the parent goes on writing to the pages it shares.
ParentAfterFork_Writes(pte) == pte
ParentAfterFork(pte) == Shared(pte)

\* Mutant: the shared pages are not retained.
Retained_None(pte) == page_refs
Retained(pte) ==
  [f \in Frames |-> page_refs[f] + Cardinality({k \in Pages : pte[k].frame = f})]

Fork(p, c) ==
  /\ space[p].live /\ ~space[c].live
  /\ LET pte == space[p].pte
         n == Cardinality(Free)
     IN /\ content' = [f \in Frames |->
             IF f \in Lowest(Free, ForkFrames) THEN KernelData ELSE content[f]]
        /\ \/ /\ n >= ForkFrames
              /\ page_refs' = [f \in Frames |->
                   IF f \in Lowest(Free, ForkFrames) THEN 1 ELSE Retained(pte)[f]]
              /\ space' = [space EXCEPT
                   ![p].pte = ParentAfterFork(pte),
                   ![c] = [NoSpace EXCEPT
                             !.live = TRUE,
                             !.user_pages = [k \in Pages |-> pte[k].frame],
                             !.pte = [Shared(pte) EXCEPT ![ThreadPage] = Unmapped],
                             !.tables = Lowest(Free, TableFrames),
                             !.kstack = Nth(Free, ForkFrames)]]
              /\ expected' = [expected EXCEPT ![c] = expected[p]]
           \/ /\ n = TableFrames
              /\ space' = [space EXCEPT ![p].pte = Restored(pte)]
              /\ UNCHANGED <<page_refs, expected>>
           \/ /\ n < TableFrames
              /\ UNCHANGED <<page_refs, space, expected>>
  /\ UNCHANGED forgotten

-----------------------------------------------------------------------------
(***************************************************************************)
(* A store through the program's mapping, by the program or by the kernel  *)
(* for a system call (user_range_ok_write): one to a copy-on-write page    *)
(* resolves it first.  The page-table entry is replaced; user_pages[] is   *)
(* left alone.  A store that cannot be resolved ends the program, or its   *)
(* system call.                                                            *)
(***************************************************************************)
\* Mutant: the page that was shared keeps its reference.
DropOld_Kept(f) == page_refs
DropOld(f) == Dropped(page_refs, [g \in Frames |-> Once(g, {f})])

Write(p, k, v) ==
  /\ space[p].live
  /\ UNCHANGED forgotten
  /\ expected' = [expected EXCEPT ![p][k] = v]
  /\ LET old == space[p].pte[k].frame
         new == Nth(Free, 1)
     IN \/ /\ space[p].pte[k].mode = "rw"
           /\ content' = [content EXCEPT ![old] = v]
           /\ UNCHANGED <<page_refs, space>>
        \/ /\ space[p].pte[k].mode = "cow"
           /\ page_refs[old] = 1
           /\ content' = [content EXCEPT ![old] = v]
           /\ space' = [space EXCEPT ![p].pte[k].mode = "rw"]
           /\ UNCHANGED page_refs
        \/ /\ space[p].pte[k].mode = "cow"
           /\ page_refs[old] > 1
           /\ Free # {}
           /\ content' = [content EXCEPT ![new] = v]
           /\ page_refs' = [DropOld(old) EXCEPT ![new] = 1]
           /\ space' = [space EXCEPT ![p].pte[k] = [frame |-> new, mode |-> "rw"]]

\* write_user_u32, for the status that waitpid and join hand over: it stores through the
\* physical address, and asks only whether the page is copy-on-write, not whether it may
\* be written.
WriteStatus(p, k, v) ==
  \/ Write(p, k, v)
  \/ /\ space[p].live
     /\ space[p].pte[k].mode = "ro"
     /\ content' = [content EXCEPT ![space[p].pte[k].frame] = v]
     /\ expected' = [expected EXCEPT ![p][k] = v]
     /\ UNCHANGED <<page_refs, space, forgotten>>

-----------------------------------------------------------------------------
ClearSlot(s) == NoSpace

\* reap_process: the pages user_pages[] lists, the address space, the kernel stack.  (The
\* stack an exec left behind went when the scheduler left the dying program.)
Reap(p) ==
  /\ space[p].live /\ space[p].tstack = NoFrame
  /\ page_refs' = Dropped(page_refs, [f \in Frames |->
       Entries(space[p].user_pages, f) + Once(f, space[p].tables)
         + Once(f, {space[p].kstack}) + Once(f, {space[p].deferred})])
  /\ space' = [space EXCEPT ![p] = ClearSlot(@)]
  /\ expected' = [expected EXCEPT ![p] = [k \in Pages \cup {ThreadPage} |-> Zero]]
  /\ UNCHANGED <<content, forgotten>>

\* process_create_user_thread: a cleared stack page mapped in the program's address
\* space, and a kernel stack.
CreateUserThread(p) ==
  /\ space[p].live /\ space[p].tstack = NoFrame
  /\ Cardinality(Free) >= 2
  /\ LET stack == Nth(Free, 1)
         kstack == Nth(Free, 2)
     IN /\ page_refs' = [page_refs EXCEPT ![stack] = 1, ![kstack] = 1]
        /\ content' = [content EXCEPT ![stack] = Zero, ![kstack] = KernelData]
        /\ space' = [space EXCEPT ![p].tstack = stack, ![p].tkstack = kstack,
                                  ![p].pte[ThreadPage] = [frame |-> stack, mode |-> "rw"]]
  /\ expected' = [expected EXCEPT ![p][ThreadPage] = Zero]
  /\ UNCHANGED forgotten

\* reap_process of a joined thread: both stacks are given back; the mapping stays.
ReapThread(p) ==
  /\ space[p].live /\ space[p].tstack # NoFrame
  /\ page_refs' = Dropped(page_refs, [f \in Frames |-> Once(f, {space[p].tstack, space[p].tkstack})])
  /\ space' = [space EXCEPT ![p].tstack = NoFrame, ![p].tkstack = NoFrame]
  /\ UNCHANGED <<content, expected, forgotten>>

-----------------------------------------------------------------------------
Init ==
  /\ page_refs = [f \in Frames |-> 0]
  /\ content = [f \in Frames |-> Zero]
  /\ space = [p \in Procs |-> NoSpace]
  /\ expected = [p \in Procs |-> [k \in Pages \cup {ThreadPage} |-> Zero]]
  /\ forgotten = {}

\* A step of programs that do the operations of ops.
NextOf(ops) ==
  \/ \E p \in Procs : \/ "load" \in ops /\ Load(p)
                      \/ "exec" \in ops /\ Exec(p)
                      \/ "schedule" \in ops /\ Schedule(p)
                      \/ "reap" \in ops /\ Reap(p)
                      \/ "thread" \in ops /\ (CreateUserThread(p) \/ ReapThread(p))
  \/ "fork" \in ops /\ \E p, c \in Procs : Fork(p, c)
  \/ \E p \in Procs, k \in Pages \cup {ThreadPage}, v \in Values :
       \/ "write" \in ops /\ Write(p, k, v)
       \/ "status" \in ops /\ WriteStatus(p, k, v)

Next == NextOf(Workload)

Spec == Init /\ [][Next]_vars

-----------------------------------------------------------------------------
Mapping == [frame : Frames \cup {NoFrame}, mode : {"none", "ro", "rw", "cow"}]

Space ==
  [live : BOOLEAN, user_pages : [Pages -> Frames \cup {NoFrame}],
   pte : [Pages \cup {ThreadPage} -> Mapping], tables : SUBSET Frames,
   kstack : Frames \cup {NoFrame}, deferred : Frames \cup {NoFrame},
   tstack : Frames \cup {NoFrame}, tkstack : Frames \cup {NoFrame}]

\* The counters are counters, and a slot that is not in use names no frame.
TypeOK ==
  /\ page_refs \in [Frames -> Nat]
  /\ content \in [Frames -> Values \cup {Zero, KernelData}]
  /\ space \in [Procs -> Space]
  /\ expected \in [Procs -> [Pages \cup {ThreadPage} -> Values \cup {Zero}]]
  /\ forgotten \subseteq Frames
  /\ \A p \in Procs : ~space[p].live => space[p] = NoSpace

Mapped(p) == {k \in Pages \cup {ThreadPage} : space[p].pte[k].mode # "none"}

\* How many holders frame f has: the pages that map it, and the structures and stacks the
\* kernel keeps for a slot.  (The mapping a joined thread leaves behind is no holder.)
Holders(f) ==
  Cardinality({x \in Procs \X Pages : space[x[1]].pte[x[2]].frame = f})
    + Cardinality({p \in Procs : f \in space[p].tables})
    + Cardinality({p \in Procs : f = space[p].kstack})
    + Cardinality({p \in Procs : f = space[p].deferred})
    + Cardinality({p \in Procs : f = space[p].tstack})
    + Cardinality({p \in Procs : f = space[p].tkstack})

Finds(p, k) == content[space[p].pte[k].frame] = expected[p][k]

\* Every program finds in its image what it stored there, or inherited: no store of
\* another program, no new image and no kernel structure ever lands in its pages
\* (copy-on-write fork, paging_resolve_cow, page_free).
Isolation ==
  \A p \in Procs : space[p].live => \A k \in Mapped(p) \ {ThreadPage} : Finds(p, k)

\* The same of the stack of a thread, which stays mapped after it was given back.
StackIsolation ==
  \A p \in Procs : space[p].live => \A k \in Mapped(p) \cap {ThreadPage} : Finds(p, k)

\* A frame's count is the number of its holders: forks, execs, copy-on-write faults, reaps
\* and operations that run out of memory half-way lose and invent no reference, so no frame
\* is free that somebody holds, and none is lost.  The exception is the kernel stack that a
\* second exec in one time slice overwrites in deferred_kernel_stack: it is never freed.
RefsExact == \A f \in Frames : page_refs[f] = Holders(f) + Once(f, forgotten)
=============================================================================
