------------------------------ MODULE ChildLife ------------------------------
(***************************************************************************)
(* What fork, exit and waitpid promise about the life of a process,        *)
(* whatever table, scheduler and wakeups implement them: a pid is given    *)
(* out once, its process dies once with one code, the code is handed over  *)
(* once, and the pid is forgotten only after that.                         *)
(***************************************************************************)
EXTENDS Integers

CONSTANTS Pids, Codes

VARIABLES
  life,       \* the stage each pid has reached
  verdict,    \* the code it died with, as the table tells it
  handed      \* how often that code was handed over

lifeVars == <<life, verdict, handed>>

Stages == {"unborn", "alive", "exited", "released"}
Unknown == -1

LifeTypeOK ==
  /\ life \in [Pids -> Stages]
  /\ verdict \in [Pids -> Codes \cup {Unknown}]
  /\ handed \in [Pids -> 0 .. 1]

LifeInit ==
  /\ life = [p \in Pids |-> "unborn"]
  /\ verdict = [p \in Pids |-> Unknown]
  /\ handed = [p \in Pids |-> 0]

Create(p) ==
  /\ life[p] = "unborn"
  /\ life' = [life EXCEPT ![p] = "alive"]
  /\ UNCHANGED <<verdict, handed>>

Die(p, code) ==
  /\ life[p] = "alive"
  /\ life' = [life EXCEPT ![p] = "exited"]
  /\ verdict' = [verdict EXCEPT ![p] = code]
  /\ UNCHANGED handed

\* A death a waiting parent learns of at once.
DieCollected(p, code) ==
  /\ life[p] = "alive"
  /\ life' = [life EXCEPT ![p] = "released"]
  /\ verdict' = [verdict EXCEPT ![p] = code]
  /\ handed' = [handed EXCEPT ![p] = 1]

Collect(p) ==
  /\ life[p] = "exited"
  /\ handed[p] = 0
  /\ life' = [life EXCEPT ![p] = "released"]
  /\ handed' = [handed EXCEPT ![p] = 1]
  /\ UNCHANGED verdict

LifeNext ==
  \E p \in Pids :
    \/ Create(p)
    \/ Collect(p)
    \/ \E code \in Codes : Die(p, code) \/ DieCollected(p, code)

LifeSpec == LifeInit /\ [][LifeNext]_lifeVars
=============================================================================
