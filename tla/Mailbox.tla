-------------------------------- MODULE Mailbox --------------------------------
(***************************************************************************)
(* What LionOS's IPC promises: a message that was accepted waits for the   *)
(* process it was sent to, is handed to that process and to no other, and  *)
(* is handed over once.  Messages may overtake each other.                 *)
(***************************************************************************)
EXTENDS Naturals

CONSTANTS Receivers, Messages

VARIABLES
  box,   \* the messages that wait for each receiver
  got    \* the messages each receiver was handed

vars == <<box, got>>

Fresh(m) == \A r \in Receivers : m \notin box[r] \cup got[r]

Init ==
  /\ box = [r \in Receivers |-> {}]
  /\ got = [r \in Receivers |-> {}]

Accept(r, m) ==
  /\ Fresh(m)
  /\ box' = [box EXCEPT ![r] = @ \cup {m}]
  /\ UNCHANGED got

HandOver(r, m) ==
  /\ m \in box[r]
  /\ box' = [box EXCEPT ![r] = @ \ {m}]
  /\ got' = [got EXCEPT ![r] = @ \cup {m}]

Next == \E r \in Receivers, m \in Messages : Accept(r, m) \/ HandOver(r, m)

Spec == Init /\ [][Next]_vars
=============================================================================
