------------------------------ MODULE Loopback ------------------------------
(***************************************************************************)
(* The loopback of src/net.c: one table of packets for all ports, under    *)
(* one lock.  A packet takes the first free entry; a receiver takes the    *)
(* first entry for its port, cut to the room it has.  Whoever has the      *)
(* network capability may receive on any port.                             *)
(*                                                                         *)
(* A packet is its number; a length is "short" or "long".                  *)
(***************************************************************************)
EXTENDS Integers, FiniteSets

CONSTANTS
  Entries,    \* NET_QUEUE_MAX
  Ports,      \* the ports that are not 0
  MaxSent     \* bound: packets sent

ASSUME LoopbackAssumption == Entries \in Nat \ {0} /\ MaxSent \in Nat

VARIABLES
  queue,      \* the table
  sent,       \* history: how many packets net_send took,
  taken       \* history: and those that net_recv returned, with their ports

loopVars == <<queue, sent, taken>>

Index == 1 .. Entries
Free == [n |-> 0]
Packet == [n : 1 .. MaxSent, port : Ports]

LoopInit ==
  /\ queue = [i \in Index |-> Free]
  /\ sent = 0
  /\ taken = {}

Used == {i \in Index : queue[i] # Free}

\* The first entry of a set, if there is one.
First(i, S) == i \in S /\ \A j \in S : i <= j

\* Mutant: the entry after the first free one is taken, free or not.
NetSend_Next(port) ==
  /\ sent < MaxSent /\ sent' = sent + 1
  /\ IF Used = Index THEN UNCHANGED queue
     ELSE \E i \in Index :
            /\ First(i, Index \ Used)
            /\ queue' = [queue EXCEPT ![(i % Entries) + 1] = [n |-> sent + 1, port |-> port]]
  /\ UNCHANGED taken

\* net_send: with no entry free it fails.
NetSend(port) ==
  /\ sent < MaxSent
  /\ \E i \in Index :
       /\ First(i, Index \ Used)
       /\ queue' = [queue EXCEPT ![i] = [n |-> sent + 1, port |-> port]]
  /\ sent' = sent + 1
  /\ UNCHANGED taken

ForPort(port) == {i \in Used : queue[i].port = port}

\* net_recv: with nothing for the port it returns NET_RECV_EMPTY.
NetRecv(port) ==
  /\ \E i \in Index :
       /\ First(i, ForPort(port))
       /\ queue' = [queue EXCEPT ![i] = Free]
       /\ taken' = taken \cup {[n |-> queue[i].n, port |-> port]}
  /\ UNCHANGED sent

LoopNext == \E port \in Ports : NetSend(port) \/ NetRecv(port)

LoopSpec == LoopInit /\ [][LoopNext]_loopVars

-----------------------------------------------------------------------------
Queued == {queue[i].n : i \in Used}
Returned == {p.n : p \in taken}

LoopTypeOK ==
  /\ queue \in [Index -> Packet \cup {Free}]
  /\ sent \in 0 .. MaxSent
  /\ taken \subseteq Packet

\* A packet that net_send took is in the table or was returned, and not both; no two
\* entries hold the same: nothing is lost, repeated or made up.
Conserved ==
  /\ Queued \cup Returned = 1 .. sent
  /\ Queued \cap Returned = {}
  /\ \A i, j \in Used : queue[i].n = queue[j].n => i = j

\* Packets of a port arrive in the order they were sent.  (They do not: a free entry
\* before a used one is filled first.)
InOrder ==
  \A i, j \in Used : queue[i].port = queue[j].port /\ i < j => queue[i].n < queue[j].n
=============================================================================
