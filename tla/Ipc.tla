---------------------------------- MODULE Ipc ----------------------------------
(***************************************************************************)
(* The message table of LionOS (src/ipc.c) and the system calls that use   *)
(* it (src/syscall.c), composed with the process table: a blocking receive *)
(* sleeps on its receiver's wait channel, a send wakes that channel.       *)
(*                                                                         *)
(* A message is a number; its bytes, their length and the receiver's       *)
(* capacity are left out.                                                  *)
(***************************************************************************)
EXTENDS Process

CONSTANTS
  QueueMax,      \* IPC_QUEUE_MAX, the size of the table
  ChannelBase,   \* IPC_WAIT_CHANNEL_BASE
  MaxSend        \* bound: the messages accepted in a run

Receivers == 1 .. MaxPid
Messages == 1 .. MaxSend
ChannelOf(pid) == ChannelBase + pid

ASSUME IpcAssumption ==
  /\ QueueMax \in Nat /\ ChannelBase \in Nat /\ MaxSend \in Nat
  /\ {ChannelOf(pid) : pid \in Receivers} \subseteq Channels

VARIABLE messages   \* messages[]: the table

\* History: the messages accepted so far, and those each receiver was handed.
VARIABLES accepted, received

ipcVars == <<vars, messages, accepted, received>>

QueueSlots == 1 .. QueueMax
NoMessage == [used |-> FALSE, sender_pid |-> 0, receiver_pid |-> 0, id |-> 0]

CurrentPid == proc[current].pid

ProcessExists(pid) == \E i \in Slots : proc[i].state # "UNUSED" /\ proc[i].pid = pid

\* Mutant: the search for a free place does not look whether it is used.
FreePlace_Any == First({k \in QueueSlots : TRUE})
FreePlace == First({k \in QueueSlots : ~messages[k].used})

\* The messages a receive scans for: the lowest place, not the oldest message.
Found(pid) ==
  First({k \in QueueSlots : messages[k].used /\ messages[k].receiver_pid = pid})

\* Mutant: the receiver's channel is not woken.
Notified_Nobody(P, pid) == P

\* The wakeup that follows a send, and a blocking receive that found a message.
Notified(P, pid) == Woken(P, ChannelOf(pid))

Fails ==
  /\ ReturnWith([Entered(proc) EXCEPT ![current].eax = SysErr])
  /\ UNCHANGED <<messages, accepted, received>>

-----------------------------------------------------------------------------
\* SYS_IPC_SEND: the receiver must be in the process table, as a zombie if need be.
Send(to) ==
  /\ InUser
  /\ accepted < MaxSend
  /\ \/ /\ ~ProcessExists(to) \/ to = CurrentPid \/ FreePlace = {}
        /\ Fails
     \/ \E k \in FreePlace :
          /\ ProcessExists(to) /\ to # CurrentPid
          /\ messages' = [messages EXCEPT ![k] =
               [used |-> TRUE, sender_pid |-> CurrentPid, receiver_pid |-> to,
                id |-> accepted + 1]]
          /\ accepted' = accepted + 1
          /\ ReturnWith(Notified(Entered(proc), to))
          /\ UNCHANGED received
  /\ UNCHANGED <<next_pid, next_tid, died, delivered>>

\* The message of place k is copied out and its place freed.
HandedOver(k) ==
  /\ messages' = [messages EXCEPT ![k].used = FALSE]
  /\ received' = [received EXCEPT ![CurrentPid] = @ \cup {messages[k].id}]
  /\ UNCHANGED accepted

\* SYS_IPC_RECV: with nothing to receive it returns IPC_RECV_EMPTY, which the dispatcher
\* takes for a call that blocked: the caller is preempted.  Threads have pid 0 and fail.
Recv ==
  /\ InUser
  /\ \/ /\ CurrentPid = 0
        /\ Fails
     \/ /\ CurrentPid # 0
        /\ Found(CurrentPid) = {}
        /\ Schedule([Entered(proc) EXCEPT ![current].eax = Blocked], TRUE)
        /\ UNCHANGED <<messages, accepted, received>>
     \/ /\ CurrentPid # 0
        /\ \E k \in Found(CurrentPid) : HandedOver(k)
        /\ ReturnWith(Entered(proc))
  /\ UNCHANGED <<next_pid, next_tid, died, delivered>>

\* SYS_IPC_RECV_BLOCKING: the table is searched and the caller put to sleep under one
\* hold of ipc_lock.
RecvBlocking ==
  /\ InUser
  /\ \/ /\ CurrentPid = 0
        /\ Fails
     \/ /\ CurrentPid # 0
        /\ Found(CurrentPid) = {}
        /\ Schedule(Slept(ChannelOf(CurrentPid)), TRUE)
        /\ UNCHANGED <<messages, accepted, received>>
     \/ /\ CurrentPid # 0
        /\ \E k \in Found(CurrentPid) : HandedOver(k)
        /\ ReturnWith(Notified(Entered(proc), CurrentPid))
  /\ UNCHANGED <<next_pid, next_tid, died, delivered>>

-----------------------------------------------------------------------------
IpcInit ==
  /\ Init
  /\ messages = [k \in QueueSlots |-> NoMessage]
  /\ accepted = 0
  /\ received = [r \in Receivers |-> {}]

IpcNext ==
  \/ Next /\ UNCHANGED <<messages, accepted, received>>
  \/ \E to \in Receivers : Send(to)
  \/ Recv
  \/ RecvBlocking

IpcSpec == IpcInit /\ [][IpcNext]_ipcVars

-----------------------------------------------------------------------------
Waiting(r) ==
  {messages[k].id : k \in {j \in QueueSlots : messages[j].used /\ messages[j].receiver_pid = r}}

Mail == INSTANCE Mailbox WITH box <- [r \in Receivers |-> Waiting(r)], got <- received

\* Whatever the programs do, fork, die and reuse slots included, the table is a set of
\* mailboxes: no accepted message is overwritten, misdelivered or delivered twice.
ImplementsMailbox == Mail!Spec

\* No lost wakeup in a blocking receive: a process asleep in it has no message in the
\* table, whichever of the send and the decision to sleep came first (the comment in
\* process_sleep_on on the lock held across both), and stopped in between or not.
NoLostMessage ==
  \A s \in UserSlots :
    proc[s].state = "WAITING" /\ proc[s].call = "sleep" => Waiting(proc[s].pid) = {}
=============================================================================
