----------------------------- MODULE MCMemoryParts -----------------------------
(***************************************************************************)
(* Three workloads on the pages, and the kernel heap, for TLC, each in     *)
(* behaviours of its own: the configuration's programs fork and store;     *)
(* those of the second come and go, and replace their image, and run a     *)
(* thread; those of the third come and go without a fork, and have a       *)
(* status stored.  (Programs that fork, store and go: memory_cow_reap.cfg.)*)
(***************************************************************************)
EXTENDS MCMemory, Heap

VARIABLE part   \* fixed

Coming == {"load", "fork", "exec", "reap", "schedule", "thread"}
Alone == {"load", "exec", "reap", "schedule", "status"}

MCInit == part \in {"stores", "comings", "alone", "heap"} /\ HeapInit /\ Init

\* (Bound: no step is taken after a file call has torn the heap's table, of which the
\* properties say nothing.)
MCNext ==
    /\ UNCHANGED part
    /\ \/ part = "stores" /\ Next /\ UNCHANGED heapVars
       \/ part = "comings" /\ NextOf(Coming) /\ UNCHANGED heapVars
       \/ part = "alone" /\ NextOf(Alone) /\ UNCHANGED heapVars
       \/ part = "heap" /\ ~torn /\ HeapNext /\ UNCHANGED vars

MCSpec == MCInit /\ [][MCNext]_<<part, vars, heapVars>>
=============================================================================
