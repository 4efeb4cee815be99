------------------------------ MODULE MCChildren ------------------------------
(***************************************************************************)
(* Two workloads on the process table for TLC, each in behaviours of its   *)
(* own: "signals" is the configuration's; "wait" has no signals, but       *)
(* everything else a process without threads may do; and its processes are *)
(* shown to implement ChildLife.                                           *)
(***************************************************************************)
EXTENDS MCProcess

VARIABLE part   \* fixed

W == INSTANCE Process WITH Signals <- {}, Workload <- Unsignalled

MCInit == part \in {"signals", "wait"} /\ Init

MCNext ==
    /\ UNCHANGED part
    /\ \/ part = "signals" /\ Next
       \/ part = "wait" /\ W!Next

MCSpec == MCInit /\ [][MCNext]_<<part, vars>>

-----------------------------------------------------------------------------
\* The life of the processes of the second workload.
WaitLife == INSTANCE ChildLife WITH
  Pids <- 2 .. MaxPid,
  Codes <- ExitCodes \cup {128 + GeneralProtection},
  life <- IF part = "wait" THEN Lives(proc, next_pid) ELSE [p \in 2 .. MaxPid |-> "unborn"],
  verdict <- IF part = "wait" THEN Verdicts(proc, died) ELSE [p \in 2 .. MaxPid |-> NoStatus],
  handed <- IF part = "wait" THEN Handovers(delivered) ELSE [p \in 2 .. MaxPid |-> 0]

\* Fork, exit, fault, exec and waitpid implement the abstract life of a process: each pid
\* is used once, dies once, and is reaped once its one status has been handed over.
WaitsImplementLife == WaitLife!LifeSpec
=============================================================================
