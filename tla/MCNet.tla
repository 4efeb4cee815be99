-------------------------------- MODULE MCNet --------------------------------
(* What a program reaches by a descriptor: instances of Net and Loopback,  *)
(* and of Files.  The three share no state, so that each is explored with  *)
(* the others at rest.                                                     *)
EXTENDS Net, Loopback, MCFiles

ASSUME FilesAssumption

VARIABLE part   \* fixed

MCInit ==
  /\ part \in {"physical", "loopback", "files"}
  /\ Init /\ LoopInit /\ FilesInit
  /\ part # "files" => ~available
MCNext ==
  /\ UNCHANGED part
  /\ \/ part = "physical" /\ Next /\ UNCHANGED <<loopVars, filesVars>>
     \/ part = "loopback" /\ LoopNext /\ UNCHANGED <<vars, filesVars>>
     \/ part = "files" /\ FilesNext /\ UNCHANGED <<vars, loopVars>>
MCSpec == MCInit /\ [][MCNext]_<<part, vars, loopVars, filesVars>>
=============================================================================
