------------------------------- MODULE MCClock -------------------------------
(***************************************************************************)
(* The processors, for TLC, each in behaviours of its own: the others are  *)
(* started, and then the clock of the boot processor runs while they hold  *)
(* process_lock now and then.                                              *)
(***************************************************************************)
EXTENDS MCProcess, Smp

VARIABLE part   \* fixed

MCInit == part \in {"boot", "clock"} /\ Init /\ SmpInit

MCNext ==
    /\ UNCHANGED part
    /\ \/ part = "boot" /\ SmpNext /\ UNCHANGED vars
       \/ part = "clock" /\ Next /\ UNCHANGED smpVars

\* The fairness of FairSpec.
MCSpec ==
    /\ MCInit /\ [][MCNext]_<<part, vars, smpVars>>
    /\ WF_vars(part = "clock" /\ LockedTick)
=============================================================================
