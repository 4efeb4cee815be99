------------------------------- MODULE MCMemory -------------------------------
(***************************************************************************)
(* Instances of Memory for TLC.                                            *)
(***************************************************************************)
EXTENDS Memory, TLC

\* The slots of the table are interchangeable: no action orders them.
AnySlot == Permutations(Procs)
=============================================================================
