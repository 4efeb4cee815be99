------------------------------ MODULE IpcProofs ------------------------------
(***************************************************************************)
(* The message table implements Mailbox, and no process sleeps in a        *)
(* blocking receive while it has a message, for tables of every size and   *)
(* any number of processes and messages.                                   *)
(*                                                                         *)
(* The search of a receive goes by the place, and a place is freed with    *)
(* its message still in it and taken again: that a message waits in one    *)
(* mailbox, once, follows from the numbers in the places in use being      *)
(* distinct, and none of them among those received.                        *)
(***************************************************************************)
EXTENDS Ipc, ProcessProofs

\* A place of the table, with its sender s.
MessageOf(s) == [used : BOOLEAN, sender_pid : {s}, receiver_pid : Nat, id : Nat]
IsMessage(m) == m \in MessageOf(m.sender_pid)

TableOK ==
  /\ DOMAIN messages = QueueSlots
  /\ \A k \in QueueSlots :
       /\ IsMessage(messages[k])
       /\ messages[k].used =>
            messages[k].receiver_pid \in Receivers /\ messages[k].id \in 1 .. accepted

Books ==
  /\ accepted \in 0 .. MaxSend
  /\ received \in [Receivers -> SUBSET (1 .. accepted)]

\* No two places hold one message, and none holds one that was received.
Once ==
  /\ \A j, k \in QueueSlots :
       messages[j].used /\ messages[k].used /\ messages[j].id = messages[k].id => j = k
  /\ \A k \in QueueSlots, r \in Receivers :
       messages[k].used => messages[k].id \notin received[r]

IpcInv == TableOK /\ Books /\ Once

Boxes == [r \in Receivers |-> Waiting(r)]
tableVars == <<messages, accepted, received>>

-----------------------------------------------------------------------------
(***************************************************************************)
(* What a send and a receive do to the table.                              *)
(***************************************************************************)
Sent(k, to, s) ==
  /\ messages' = [messages EXCEPT ![k] =
       [used |-> TRUE, sender_pid |-> s, receiver_pid |-> to, id |-> accepted + 1]]
  /\ accepted' = accepted + 1
  /\ UNCHANGED received

Handed(k, r) ==
  /\ messages' = [messages EXCEPT ![k].used = FALSE]
  /\ received' = [received EXCEPT ![r] = @ \cup {messages[k].id}]
  /\ UNCHANGED accepted

\* m waits for r in place k.
WaitsAt(k, r, m) == messages[k].used /\ messages[k].receiver_pid = r /\ messages[k].id = m

LEMMA WaitingIs ==
  ASSUME NEW r, NEW m
  PROVE  m \in Waiting(r) <=> \E k \in QueueSlots : WaitsAt(k, r, m)
BY DEF Waiting, WaitsAt

LEMMA StillKeeps == IpcInv /\ UNCHANGED tableVars => IpcInv' /\ UNCHANGED Mail!vars
<1> SUFFICES ASSUME IpcInv, UNCHANGED tableVars PROVE IpcInv' /\ UNCHANGED Mail!vars OBVIOUS
<1>1. messages' = messages /\ accepted' = accepted /\ received' = received BY DEF tableVars
<1>2. IpcInv' BY <1>1 DEF IpcInv, TableOK, Books, Once
<1>3. UNCHANGED Mail!vars BY <1>1 DEF Mail!vars, Waiting
<1> QED BY <1>2, <1>3

LEMMA SentTable ==
  ASSUME IpcInv, NEW k \in QueueSlots, NEW to \in Receivers, NEW s, ~messages[k].used,
         Sent(k, to, s)
  PROVE  /\ DOMAIN messages' = QueueSlots
         /\ \A j \in QueueSlots \ {k} : messages'[j] = messages[j]
         /\ messages'[k] \in MessageOf(s)
         /\ messages'[k].sender_pid = s /\ messages'[k].used
         /\ messages'[k].receiver_pid = to /\ messages'[k].id = accepted + 1
<1> DEFINE new == [used |-> TRUE, sender_pid |-> s, receiver_pid |-> to, id |-> accepted + 1]
<1>1. messages' = [messages EXCEPT ![k] = new] BY DEF Sent
<1>2. accepted + 1 \in Nat /\ to \in Nat BY DEF IpcInv, Books, Receivers
<1>3. new \in MessageOf(s) BY <1>2 DEF MessageOf
<1>4. new.sender_pid = s /\ new.used /\ new.receiver_pid = to /\ new.id = accepted + 1 OBVIOUS
<1> HIDE DEF new
<1> QED BY <1>1, <1>3, <1>4 DEF IpcInv, TableOK

LEMMA SentKeeps ==
  ASSUME IpcInv, NEW k \in QueueSlots, NEW to \in Receivers, NEW s, ~messages[k].used,
         accepted < MaxSend, Sent(k, to, s)
  PROVE  IpcInv' /\ Mail!Accept(to, accepted + 1) /\ accepted + 1 \in Messages
<1>1. /\ DOMAIN messages' = QueueSlots
      /\ \A j \in QueueSlots \ {k} : messages'[j] = messages[j]
      /\ messages'[k] \in MessageOf(s)
      /\ messages'[k].sender_pid = s /\ messages'[k].used
      /\ messages'[k].receiver_pid = to /\ messages'[k].id = accepted + 1
  BY SentTable
<1>2. accepted' = accepted + 1 /\ received' = received BY DEF Sent
<1>3. accepted \in Nat /\ MaxSend \in Nat /\ accepted + 1 \in 1 .. MaxSend
  BY IpcAssumption DEF IpcInv, Books
<1>4. TableOK'
  <2>1. IsMessage(messages'[k]) BY <1>1 DEF IsMessage
  <2> QED BY <1>1, <1>2, <1>3, <2>1 DEF IpcInv, TableOK
<1>5. Books' BY <1>2, <1>3 DEF IpcInv, Books
<1>6. \A r \in Receivers : accepted + 1 \notin received[r] /\ accepted + 1 \notin Waiting(r)
  <2> SUFFICES ASSUME NEW r \in Receivers
               PROVE  accepted + 1 \notin received[r] /\ accepted + 1 \notin Waiting(r)
    OBVIOUS
  <2>1. accepted + 1 \notin 1 .. accepted BY <1>3
  <2>2. received[r] \subseteq 1 .. accepted BY DEF IpcInv, Books
  <2>3. \A j \in QueueSlots : messages[j].used => messages[j].id \in 1 .. accepted
    BY DEF IpcInv, TableOK
  <2> QED BY <2>1, <2>2, <2>3, WaitingIs DEF WaitsAt
<1>7. \A j \in QueueSlots : messages[j].used => messages[j].id # accepted + 1
  BY <1>3 DEF IpcInv, TableOK
<1>8. Once' BY <1>1, <1>2, <1>6, <1>7 DEF IpcInv, Once
<1>9. \A r \in Receivers : Waiting(r)' = IF r = to THEN Waiting(r) \cup {accepted + 1} ELSE Waiting(r)
  <2> SUFFICES ASSUME NEW r \in Receivers, NEW m
               PROVE  m \in Waiting(r)' <=> m \in Waiting(r) \/ (r = to /\ m = accepted + 1)
    OBVIOUS
  <2>1. m \in Waiting(r)' <=> \E j \in QueueSlots : WaitsAt(j, r, m)' BY DEF Waiting, WaitsAt
  <2>2. \A j \in QueueSlots \ {k} : WaitsAt(j, r, m)' <=> WaitsAt(j, r, m) BY <1>1 DEF WaitsAt
  <2>3. WaitsAt(k, r, m)' <=> r = to /\ m = accepted + 1 BY <1>1 DEF WaitsAt
  <2>4. ~WaitsAt(k, r, m) BY DEF WaitsAt
  <2> QED BY <2>1, <2>2, <2>3, <2>4, WaitingIs
<1>10. Boxes' = [Boxes EXCEPT ![to] = @ \cup {accepted + 1}] BY <1>9 DEF Boxes
<1>11. Mail!Accept(to, accepted + 1)
  BY <1>2, <1>6, <1>10 DEF Mail!Accept, Mail!Fresh, Boxes
<1> QED BY <1>3, <1>4, <1>5, <1>8, <1>11 DEF IpcInv, Messages

LEMMA HandedKeeps ==
  ASSUME IpcInv, NEW r0, NEW k \in Found(r0), Handed(k, r0)
  PROVE  /\ IpcInv' /\ Mail!HandOver(r0, messages[k].id)
         /\ r0 \in Receivers /\ messages[k].id \in Messages
<1> DEFINE m0 == messages[k].id
           old == messages[k]
           new == [old EXCEPT !.used = FALSE]
<1>1. k \in QueueSlots /\ old.used /\ old.receiver_pid = r0 BY DEF Found, First
<1>2. IsMessage(old) /\ r0 \in Receivers /\ m0 \in 1 .. accepted BY <1>1 DEF IpcInv, TableOK
<1>3. m0 \in Messages
  <2>1. accepted \in 0 .. MaxSend /\ MaxSend \in Nat BY IpcAssumption DEF IpcInv, Books
  <2> HIDE DEF m0
  <2> QED BY <1>2, <2>1 DEF Messages
<1>4. messages' = [messages EXCEPT ![k] = new] BY DEF Handed
<1> HIDE DEF old
<1>5. IsMessage(new) /\ ~new.used BY <1>2 DEF IsMessage, MessageOf
<1> HIDE DEF new
<1>6. /\ DOMAIN messages' = QueueSlots /\ messages'[k] = new
      /\ \A j \in QueueSlots \ {k} : messages'[j] = messages[j]
  BY <1>1, <1>4 DEF IpcInv, TableOK
<1>7. accepted' = accepted /\ received' = [received EXCEPT ![r0] = @ \cup {m0}] BY DEF Handed
<1>8. TableOK' BY <1>1, <1>5, <1>6, <1>7 DEF IpcInv, TableOK
<1>9. Books' BY <1>2, <1>7 DEF IpcInv, Books
<1>10. \A j \in QueueSlots \ {k} : messages[j].used => messages[j].id # m0
  BY <1>1 DEF IpcInv, Once, old
<1> HIDE DEF m0
<1>11. \A r \in Receivers : received'[r] = IF r = r0 THEN received[r] \cup {m0} ELSE received[r]
  BY <1>2, <1>7 DEF IpcInv, Books
<1>12. Once'
  <2>1. \A j \in QueueSlots : messages'[j].used => j # k /\ messages'[j] = messages[j]
    BY <1>5, <1>6
  <2>2. \A i, j \in QueueSlots :
          messages'[i].used /\ messages'[j].used /\ messages'[i].id = messages'[j].id => i = j
    BY <2>1 DEF IpcInv, Once
  <2>3. \A j \in QueueSlots, r \in Receivers :
          messages'[j].used => messages'[j].id \notin received'[r]
    <3> SUFFICES ASSUME NEW j \in QueueSlots, NEW r \in Receivers, messages'[j].used
                 PROVE  messages'[j].id \notin received'[r]
      OBVIOUS
    <3>1. j # k /\ messages'[j] = messages[j] /\ messages[j].used BY <2>1
    <3>2. messages[j].id # m0 BY <1>10, <3>1
    <3>3. messages[j].id \notin received[r] BY <3>1 DEF IpcInv, Once
    <3> QED BY <1>11, <3>1, <3>2, <3>3
  <2> QED BY <2>2, <2>3 DEF Once
<1>13. \A r \in Receivers : Waiting(r)' = IF r = r0 THEN Waiting(r) \ {m0} ELSE Waiting(r)
  <2> SUFFICES ASSUME NEW r \in Receivers, NEW m
               PROVE  m \in Waiting(r)' <=> m \in Waiting(r) /\ ~(r = r0 /\ m = m0)
    OBVIOUS
  <2>1. m \in Waiting(r)' <=> \E j \in QueueSlots : WaitsAt(j, r, m)' BY DEF Waiting, WaitsAt
  <2>2. \A j \in QueueSlots \ {k} : WaitsAt(j, r, m)' <=> WaitsAt(j, r, m) BY <1>6 DEF WaitsAt
  <2>3. ~WaitsAt(k, r, m)' BY <1>5, <1>6 DEF WaitsAt
  <2>4. WaitsAt(k, r, m) <=> r = r0 /\ m = m0 BY <1>1 DEF WaitsAt, old, m0
  <2>5. \A j \in QueueSlots \ {k} : ~WaitsAt(j, r, m0) BY <1>10 DEF WaitsAt
  <2> QED BY <1>1, <2>1, <2>2, <2>3, <2>4, <2>5, WaitingIs
<1>14. Boxes' = [Boxes EXCEPT ![r0] = @ \ {m0}] BY <1>13 DEF Boxes
<1>15. m0 \in Waiting(r0) BY <1>1, WaitingIs DEF WaitsAt, old, m0
<1>16. Mail!HandOver(r0, m0) BY <1>2, <1>7, <1>14, <1>15 DEF Mail!HandOver, Boxes
<1> QED BY <1>2, <1>3, <1>8, <1>9, <1>12, <1>16 DEF IpcInv, m0

-----------------------------------------------------------------------------
LEMMA IpcInitInv == IpcInit => IpcInv /\ Mail!Init
<1> SUFFICES ASSUME IpcInit PROVE IpcInv /\ Mail!Init OBVIOUS
<1>1. /\ messages = [k \in QueueSlots |-> NoMessage] /\ accepted = 0
      /\ received = [r \in Receivers |-> {}]
  BY DEF IpcInit
<1>2. IsMessage(NoMessage) /\ ~NoMessage.used BY DEF IsMessage, MessageOf, NoMessage
<1>3. TableOK BY <1>1, <1>2 DEF TableOK
<1>4. Books BY <1>1, IpcAssumption DEF Books
<1>5. Once BY <1>1, <1>2 DEF Once
<1>6. \A r \in Receivers : Waiting(r) = {} BY <1>1, <1>2 DEF Waiting
<1>7. Mail!Init BY <1>1, <1>6 DEF Mail!Init
<1> QED BY <1>3, <1>4, <1>5, <1>7 DEF IpcInv

LEMMA SendKeeps ==
  ASSUME IpcInv, NEW to \in Receivers, Send(to) PROVE IpcInv' /\ [Mail!Next]_Mail!vars
<1>1. CASE UNCHANGED tableVars BY <1>1, StillKeeps
<1>2. CASE \E k \in FreePlace : Sent(k, to, CurrentPid)
  <2>1. PICK k \in QueueSlots : ~messages[k].used /\ Sent(k, to, CurrentPid)
    BY <1>2 DEF FreePlace, First
  <2>2. accepted < MaxSend BY DEF Send
  <2>3. IpcInv' /\ Mail!Accept(to, accepted + 1) /\ accepted + 1 \in Messages
    BY <2>1, <2>2, SentKeeps
  <2> QED BY <2>3 DEF Mail!Next
<1> QED BY <1>1, <1>2 DEF Send, Sent, Fails, tableVars

LEMMA ReceiveKeeps ==
  ASSUME IpcInv, Recv \/ RecvBlocking PROVE IpcInv' /\ [Mail!Next]_Mail!vars
<1>1. CASE UNCHANGED tableVars BY <1>1, StillKeeps
<1>2. CASE \E k \in Found(CurrentPid) : HandedOver(k)
  <2>1. PICK k \in Found(CurrentPid) : Handed(k, CurrentPid) BY <1>2 DEF HandedOver, Handed
  <2>2. /\ IpcInv' /\ Mail!HandOver(CurrentPid, messages[k].id)
        /\ CurrentPid \in Receivers /\ messages[k].id \in Messages
    BY <2>1, HandedKeeps
  <2> QED BY <2>2 DEF Mail!Next
<1> QED BY <1>1, <1>2 DEF Recv, RecvBlocking, Fails, tableVars

LEMMA IpcStep == IpcInv /\ [IpcNext]_ipcVars => IpcInv' /\ [Mail!Next]_Mail!vars
<1> SUFFICES ASSUME IpcInv, [IpcNext]_ipcVars PROVE IpcInv' /\ [Mail!Next]_Mail!vars OBVIOUS
<1>1. CASE Next /\ UNCHANGED <<messages, accepted, received>> BY <1>1, StillKeeps DEF tableVars
<1>2. CASE \E to \in Receivers : Send(to) BY <1>2, SendKeeps
<1>3. CASE Recv \/ RecvBlocking BY <1>3, ReceiveKeeps
<1>4. CASE UNCHANGED ipcVars BY <1>4, StillKeeps DEF ipcVars, tableVars
<1> QED BY <1>1, <1>2, <1>3, <1>4 DEF IpcNext

\* src/ipc.c keeps the promise of IPC: a message that a send accepted waits for its
\* receiver, is handed to it and to no other, and once, however processes fork, die and
\* sleep and however places of the table are used again.
THEOREM MailboxImplemented == IpcSpec => ImplementsMailbox
<1>1. IpcInit => IpcInv /\ Mail!Init BY IpcInitInv
<1>2. IpcInv /\ [IpcNext]_ipcVars => IpcInv' /\ [Mail!Next]_Mail!vars BY IpcStep
<1> QED BY <1>1, <1>2, PTL DEF IpcSpec, ImplementsMailbox, Mail!Spec

-----------------------------------------------------------------------------
(***************************************************************************)
(* Sleepers.  Whatever a handler or the scheduler does to the table of     *)
(* processes, who sleeps after it slept before it, on the same channel,    *)
(* but for the one that a blocking receive puts to sleep.                  *)
(***************************************************************************)
Sleeps(p) == p.state = "WAITING" /\ p.call = "sleep"

\* A slot p that becomes q sleeps only if it did.
AsBefore(p, q) == Sleeps(q) => Sleeps(p) /\ q.wait_channel = p.wait_channel /\ q.pid = p.pid

NoneNew(P, Q) == \A s \in Slots : AsBefore(P[s], Q[s])

LEMMA NoneNewTwice ==
  ASSUME NEW P, NEW Q, NEW R, NoneNew(P, Q), NoneNew(Q, R) PROVE NoneNew(P, R)
BY DEF NoneNew, AsBefore

LEMMA NoneNewSame == \A P : NoneNew(P, P)
BY DEF NoneNew, AsBefore

LEMMA NoneNewPut ==
  ASSUME NEW P \in Table, NEW i \in Slots, NEW r, AsBefore(P[i], r)
  PROVE  NoneNew(P, [P EXCEPT ![i] = r])
BY DEF NoneNew, AsBefore, Table

\* The caller has entered another call than a sleep.
LEMMA CallerAwake ==
  ASSUME NEW P \in Table, NEW Q, Q[current].call # "sleep",
         \A s \in Slots \ {current} : Q[s] = P[s]
  PROVE  NoneNew(P, Q)
BY DEF NoneNew, AsBefore, Sleeps

LEMMA EnteredIs ==
  ASSUME TypeOK
  PROVE  /\ Entered(proc) \in Table
         /\ Entered(proc)[current].call = "none"
         /\ \A s \in Slots \ {current} : Entered(proc)[s] = proc[s]
         /\ NoneNew(proc, Entered(proc))
         /\ \A s \in Slots : Entered(proc)[s].pid = proc[s].pid
<1>1. current \in Slots /\ proc \in Table BY DEF TypeOK, Table
<1>2. Legal(Entered(proc)) /\ \A s \in Slots : Entered(proc)[s].pid = proc[s].pid
  BY <1>1, ProcLegal, LegalEntered
<1>3. Entered(proc) \in Table BY <1>2 DEF Legal
<1>4. Entered(proc)[current].call = "none" BY <1>1 DEF Entered, Table, Slot
<1>5. \A s \in Slots \ {current} : Entered(proc)[s] = proc[s] BY <1>1 DEF Entered, Table
<1>6. NoneNew(proc, Entered(proc)) BY <1>1, <1>4, <1>5, CallerAwake
<1> QED BY <1>2, <1>3, <1>4, <1>5, <1>6

LEMMA KilledNew ==
  ASSUME NEW P \in Table, NEW i \in Slots, NEW code PROVE NoneNew(P, Killed(P, i, code))
<1> DEFINE Q == Killed(P, i, code)
<1>1. Q[i].state = "ZOMBIE" BY DEF Killed, Table, Slot
<1>2. \A s \in Slots \ {i} : Q[s] = P[s] BY DEF Killed, Table
<1> QED BY <1>1, <1>2 DEF NoneNew, AsBefore, Sleeps

LEMMA ReapNew ==
  ASSUME NEW P \in Table, NEW i \in Slots PROVE NoneNew(P, ReapProcess(P, i))
<1>1. AsBefore(P[i], ClearProcess) BY DEF AsBefore, Sleeps, ClearProcess
<1> QED BY <1>1, NoneNewPut, NoneNewSame DEF ReapProcess

LEMMA WokenNew ==
  ASSUME NEW P \in Table, NEW ch
  PROVE  /\ NoneNew(P, Woken(P, ch))
         /\ \A s \in UserSlots : Sleeps(Woken(P, ch)[s]) => Woken(P, ch)[s].wait_channel # ch
<1> DEFINE Q == Woken(P, ch)
<1>1. \A s \in Slots : Q[s] = IF s # Bootstrap /\ P[s].state = "WAITING" /\ P[s].wait_channel = ch
                              THEN [P[s] EXCEPT !.wait_channel = NoChannel, !.state = "READY"]
                              ELSE P[s]
  BY DEF Woken
<1>2. \A s \in Slots : [P[s] EXCEPT !.wait_channel = NoChannel, !.state = "READY"].state = "READY"
  BY DEF Table, Slot
<1> HIDE DEF Q
<1>3. NoneNew(P, Q) BY <1>1, <1>2 DEF NoneNew, AsBefore, Sleeps
<1>4. \A s \in UserSlots : Sleeps(Q[s]) => Q[s].wait_channel # ch
  BY <1>1, <1>2 DEF Sleeps, UserSlots
<1> QED BY <1>3, <1>4 DEF Q

LEMMA WakeParentNew ==
  ASSUME NEW P \in Table, NEW c \in Slots PROVE NoneNew(P, WakeWaitingParent(P, c))
<1> DEFINE Q == WakeWaitingParent(P, c)
           Wakes(i) == [P[i] EXCEPT !.eax = P[c].pid,
                       !.status = IF P[i].wait_status THEN P[c].exit_code ELSE @,
                       !.wait_pid = 0, !.wait_status = FALSE,
                       !.wait_channel = NoChannel, !.state = "READY"]
           Marks(i) == [P[i] EXCEPT !.reap_pending = TRUE]
<1>1. \A i \in Slots : Wakes(i).state = "READY" BY DEF Table, Slot
<1>2. \A i \in Slots : /\ Marks(i).state = P[i].state /\ Marks(i).call = P[i].call
                       /\ Marks(i).wait_channel = P[i].wait_channel /\ Marks(i).pid = P[i].pid
  BY DEF Table, Slot
<1>3. \A i \in Slots : Q[i] \in {Wakes(i), Marks(i), P[i]} BY DEF WakeWaitingParent
<1> HIDE DEF Q, Wakes, Marks
<1>4. NoneNew(P, Q) BY <1>1, <1>2, <1>3 DEF NoneNew, AsBefore, Sleeps
<1> QED BY <1>4 DEF Q

LEMMA WakeJoinerNew ==
  ASSUME NEW P \in Table, NEW c \in Slots PROVE NoneNew(P, WakeJoiner(P, c))
<1> DEFINE Q == WakeJoiner(P, c)
           Wakes(i) == [P[i] EXCEPT !.eax = P[c].tid, !.status = P[c].exit_code, !.join_tid = 0,
                                    !.state = "READY"]
<1>1. \A i \in Slots : Wakes(i).state = "READY" BY DEF Table, Slot
<1>2. \A i \in Slots : Q[i] \in {Wakes(i), P[i]} BY DEF WakeJoiner
<1> HIDE DEF Q, Wakes
<1>3. NoneNew(P, Q) BY <1>1, <1>2 DEF NoneNew, AsBefore, Sleeps
<1> QED BY <1>3 DEF Q

LEMMA DiedNew ==
  ASSUME TypeOK, NEW P \in Table, NEW i \in Slots, NEW code \in Nat
  PROVE  NoneNew(P, Died(P, i, code))
<1> DEFINE Q == Killed(P, i, code)
<1>1. NoneNew(P, Q) BY KilledNew
<1>2. Q \in Table
  <2> DEFINE p1 == [P[i] EXCEPT !.exit_code = code]
             p2 == [p1 EXCEPT !.state = "ZOMBIE"]
  <2>1. p1 \in Slot BY DEF Table, Slot
  <2> HIDE DEF p1
  <2>2. p2 \in Slot BY <2>1 DEF Slot, States
  <2>3. Q = [P EXCEPT ![i] = p2] BY DEF Killed, p1, Table
  <2> HIDE DEF p2
  <2> QED BY <2>2, <2>3 DEF Table
<1> HIDE DEF Q
<1>3. NoneNew(Q, WakeJoiner(Q, i)) /\ NoneNew(Q, WakeWaitingParent(Q, i))
  BY <1>2, WakeJoinerNew, WakeParentNew
<1>4. Died(P, i, code) = IF P[i].is_thread THEN WakeJoiner(Q, i) ELSE WakeWaitingParent(Q, i)
  BY DEF Died, Q
<1> QED BY <1>1, <1>3, <1>4, NoneNewTwice

LEMMA ScheduleNew ==
  ASSUME TypeOK, NEW P \in Table, NEW flag \in BOOLEAN, Schedule(P, flag)
  PROVE  NoneNew(P, proc')
<1> DEFINE Q == Charge(P, flag)
<1>0. current \in Slots BY DEF TypeOK
<1>1. CASE proc' = P BY <1>1, NoneNewSame
<1>2. CASE proc' = [P EXCEPT ![current].ticks_used = @ + 1]
  <2> DEFINE r == [P[current] EXCEPT !.ticks_used = @ + 1]
  <2>1. AsBefore(P[current], r) BY <1>0 DEF AsBefore, Sleeps, Table, Slot
  <2>2. proc' = [P EXCEPT ![current] = r] BY <1>2
  <2> HIDE DEF r
  <2> QED BY <1>0, <2>1, <2>2, NoneNewPut
<1>3. Q \in Table BY <1>0, ChargeKeeps
<1>4. NoneNew(P, Q)
  <2>1. CASE ~Running(P) BY <2>1, NoneNewSame DEF Charge
  <2>2. CASE Running(P)
    <3>1. Q[current].state = "RUNNING" BY <1>0, <2>2, ChargeKeeps DEF SameStates, Running
    <3>2. \A s \in Slots \ {current} : Q[s] = P[s] BY <2>2 DEF Charge, Table
    <3> QED BY <3>1, <3>2 DEF NoneNew, AsBefore, Sleeps
  <2> QED BY <2>1, <2>2
<1> HIDE DEF Q
<1>5. ASSUME NEW n \in Successor(Q), proc' = SwitchTo(Q, n) PROVE NoneNew(Q, proc')
  <2> DEFINE put == IF Running(Q) THEN [Q EXCEPT ![current].state = "READY"] ELSE Q
             run == [put EXCEPT ![n].state = "RUNNING"]
  <2>0. n \in Slots BY SuccessorIn
  <2>1. put \in Table /\ NoneNew(Q, put)
    <3> DEFINE r == [Q[current] EXCEPT !.state = "READY"]
    <3>1. r \in Slot /\ r.state = "READY" BY <1>0, <1>3 DEF Table, Slot, States
    <3>2. put = IF Running(Q) THEN [Q EXCEPT ![current] = r] ELSE Q OBVIOUS
    <3>3. AsBefore(Q[current], r) BY <3>1 DEF AsBefore, Sleeps
    <3> HIDE DEF put, r
    <3>4. [Q EXCEPT ![current] = r] \in Table BY <1>3, <3>1 DEF Table
    <3> QED BY <1>0, <1>3, <3>2, <3>3, <3>4, NoneNewPut, NoneNewSame
  <2> HIDE DEF put
  <2>2. run \in Table /\ NoneNew(put, run)
    <3> DEFINE r == [put[n] EXCEPT !.state = "RUNNING"]
    <3>1. r \in Slot /\ r.state = "RUNNING" BY <2>0, <2>1 DEF Table, Slot, States
    <3>2. run = [put EXCEPT ![n] = r] OBVIOUS
    <3>3. AsBefore(put[n], r) BY <3>1 DEF AsBefore, Sleeps
    <3> HIDE DEF run, r
    <3>4. [put EXCEPT ![n] = r] \in Table BY <2>1, <3>1 DEF Table
    <3> QED BY <2>0, <2>1, <3>2, <3>3, <3>4, NoneNewPut
  <2>3. proc' = IF Q[current].reap_pending THEN ReapProcess(run, current) ELSE run
    BY <1>5 DEF SwitchTo, put
  <2> HIDE DEF run
  <2>4. NoneNew(run, proc') BY <1>0, <2>2, <2>3, ReapNew, NoneNewSame
  <2> QED BY <2>1, <2>2, <2>4, NoneNewTwice
<1>6. CASE \E n \in Successor(Q) : proc' = SwitchTo(Q, n)
  BY <1>4, <1>5, <1>6, NoneNewTwice
<1>7. CASE proc' = Q BY <1>4, <1>7
<1> QED BY <1>1, <1>2, <1>6, <1>7 DEF Schedule, LockedSchedule, Q

-----------------------------------------------------------------------------
(***************************************************************************)
(* One lemma per handler of the process table that is more than a call of  *)
(* the above.                                                              *)
(***************************************************************************)
LEMMA PutNew ==
  ASSUME NEW P \in Table, NEW i \in Slots, NEW r \in Slot, r.state # "WAITING"
  PROVE  [P EXCEPT ![i] = r] \in Table /\ NoneNew(P, [P EXCEPT ![i] = r])
<1>1. AsBefore(P[i], r) BY DEF AsBefore, Sleeps
<1>2. [P EXCEPT ![i] = r] \in Table BY DEF Table
<1> QED BY <1>1, <1>2, NoneNewPut

LEMMA EaxNew ==
  ASSUME NEW P \in Table, NEW i \in Slots, NEW v
  PROVE  NoneNew(P, [P EXCEPT ![i].eax = v])
<1> DEFINE r == [P[i] EXCEPT !.eax = v]
<1>1. AsBefore(P[i], r) BY DEF AsBefore, Sleeps, Table, Slot
<1> QED BY <1>1, NoneNewPut

LEMMA CallerPut ==
  ASSUME TypeOK, NEW P \in Table, \A s \in Slots \ {current} : P[s] = proc[s],
         NEW r \in Slot, r.call # "sleep"
  PROVE  [P EXCEPT ![current] = r] \in Table /\ NoneNew(proc, [P EXCEPT ![current] = r])
<1> DEFINE Q == [P EXCEPT ![current] = r]
<1>1. current \in Slots /\ proc \in Table BY DEF TypeOK, Table
<1>2. Q \in Table BY <1>1 DEF Table
<1>3. Q[current].call # "sleep" /\ \A s \in Slots \ {current} : Q[s] = proc[s]
  BY <1>1 DEF Table
<1> HIDE DEF Q
<1>4. NoneNew(proc, Q) BY <1>1, <1>3, CallerAwake
<1> QED BY <1>2, <1>4 DEF Q

LEMMA WaitsIs ==
  ASSUME TypeOK, NEW pid \in 0 .. MaxPid
  PROVE  /\ Waits(proc, pid) \in Table /\ Waits(proc, pid)[current].call = "waitpid"
         /\ \A s \in Slots \ {current} : Waits(proc, pid)[s] = proc[s]
<1> DEFINE E == Entered(proc)
<1>0. current \in Slots BY DEF TypeOK
<1>1. Waits(proc, pid) \in Table BY LegalWaits DEF Legal
<1>2. E \in Table /\ \A s \in Slots \ {current} : E[s] = proc[s] BY EnteredIs
<1> HIDE DEF E
<1>3. Waits(proc, pid) = [E EXCEPT ![current].call = "waitpid", ![current].arg = pid]
  BY DEF Waits, E
<1>4. Waits(proc, pid)[current].call = "waitpid" BY <1>0, <1>2, <1>3 DEF Table, Slot
<1>5. \A s \in Slots \ {current} : Waits(proc, pid)[s] = E[s] BY <1>2, <1>3 DEF Table
<1> QED BY <1>1, <1>2, <1>4, <1>5

LEMMA JoinsIs ==
  ASSUME TypeOK, NEW tid \in Nat
  PROVE  /\ Joins(proc, tid) \in Table /\ Joins(proc, tid)[current].call = "join"
         /\ \A s \in Slots \ {current} : Joins(proc, tid)[s] = proc[s]
<1> DEFINE E == Entered(proc)
<1>0. current \in Slots BY DEF TypeOK
<1>1. Joins(proc, tid) \in Table BY LegalJoins DEF Legal
<1>2. E \in Table /\ \A s \in Slots \ {current} : E[s] = proc[s] BY EnteredIs
<1> HIDE DEF E
<1>3. Joins(proc, tid) = [E EXCEPT ![current].call = "join", ![current].arg = tid]
  BY DEF Joins, E
<1>4. Joins(proc, tid)[current].call = "join" BY <1>0, <1>2, <1>3 DEF Table, Slot
<1>5. \A s \in Slots \ {current} : Joins(proc, tid)[s] = E[s] BY <1>2, <1>3 DEF Table
<1> QED BY <1>1, <1>2, <1>4, <1>5

LEMMA SpawnNew == TypeOK /\ SpawnProcess => NoneNew(proc, proc')
<1> SUFFICES ASSUME TypeOK, SpawnProcess PROVE NoneNew(proc, proc') OBVIOUS
<1> DEFINE r == NewProcess(next_pid, proc[current].pid, next_pid, next_tid, PriorityDefault)
<1>0. proc \in Table BY DEF TypeOK, Table
<1>1. PICK s \in FindFreeSlot(proc) : proc' = [proc EXCEPT ![s] = r]
  BY DEF SpawnProcess, ReturnWith
<1>2. s \in Slots BY FreeSlot
<1>3. r \in Slot /\ r.state = "READY"
  <2>1. next_pid \in 0 .. MaxPid /\ next_tid \in Nat BY ProcessAssumption DEF TypeOK, SpawnProcess
  <2>2. proc[current].pid \in 0 .. MaxPid BY DEF TypeOK, Slot
  <2>3. PriorityDefault \in 0 .. Levels - 1 BY ProcessAssumption DEF PriorityDefault
  <2> QED BY <2>1, <2>2, <2>3, NewProcessType
<1> HIDE DEF r
<1> QED BY <1>0, <1>1, <1>2, <1>3, PutNew

LEMMA CreatedNew ==
  ASSUME TypeOK, NEW s \in Slots, NEW r \in Slot, r.state = "READY", NEW v,
         proc' = [Entered(proc) EXCEPT ![s] = r, ![current].eax = v]
  PROVE  NoneNew(proc, proc')
<1> DEFINE E == Entered(proc)
           Q == [E EXCEPT ![s] = r]
<1>0. current \in Slots BY DEF TypeOK
<1>1. E \in Table /\ NoneNew(proc, E) BY EnteredIs
<1> HIDE DEF E
<1>2. Q \in Table /\ NoneNew(E, Q) BY <1>1, PutNew
<1>3. proc' = [Q EXCEPT ![current].eax = v] BY DEF E
<1> HIDE DEF Q
<1>4. NoneNew(Q, [Q EXCEPT ![current].eax = v]) BY <1>0, <1>2, EaxNew
<1> QED BY <1>1, <1>2, <1>3, <1>4, NoneNewTwice

LEMMA ForkNew == TypeOK /\ ForkCurrent => NoneNew(proc, proc')
<1> SUFFICES ASSUME TypeOK, ForkCurrent PROVE NoneNew(proc, proc') OBVIOUS
<1> DEFINE parent == proc[current]
           r == NewProcess(next_pid, parent.pid, parent.thread_group_pid,
                           next_tid + 1, parent.priority)
<1>1. PICK s \in FindFreeSlot(proc) :
        proc' = [Entered(proc) EXCEPT ![s] = r, ![current].eax = next_pid]
  BY DEF ForkCurrent, ReturnWith
<1>2. s \in Slots BY FreeSlot
<1>3. r \in Slot /\ r.state = "READY"
  <2>1. next_pid \in 0 .. MaxPid /\ next_tid + 1 \in Nat
    BY ProcessAssumption DEF TypeOK, ForkCurrent
  <2>2. /\ parent.pid \in 0 .. MaxPid /\ parent.thread_group_pid \in 0 .. MaxPid
        /\ parent.priority \in 0 .. Levels - 1
    BY DEF TypeOK, Slot
  <2> HIDE DEF parent
  <2> QED BY <2>1, <2>2, NewProcessType
<1> HIDE DEF r
<1> QED BY <1>1, <1>2, <1>3, CreatedNew

LEMMA ThreadNew == TypeOK /\ CreateUserThread => NoneNew(proc, proc')
<1> SUFFICES ASSUME TypeOK, CreateUserThread PROVE NoneNew(proc, proc') OBVIOUS
<1> DEFINE parent == proc[current]
           q == NewProcess(0, 0, parent.thread_group_pid, next_tid, parent.priority)
           r == [q EXCEPT !.is_thread = TRUE]
<1>1. PICK s \in FindFreeSlot(proc) :
        proc' = [Entered(proc) EXCEPT ![s] = r, ![current].eax = next_tid]
  BY DEF CreateUserThread, ReturnWith
<1>2. s \in Slots BY FreeSlot
<1>3. q \in Slot /\ q.state = "READY"
  <2>1. 0 \in 0 .. MaxPid /\ next_tid \in Nat BY ProcessAssumption DEF TypeOK
  <2>2. /\ parent.thread_group_pid \in 0 .. MaxPid /\ parent.priority \in 0 .. Levels - 1
    BY DEF TypeOK, Slot
  <2> HIDE DEF parent
  <2> QED BY <2>1, <2>2, NewProcessType
<1> HIDE DEF q
<1>4. r \in Slot /\ r.state = "READY" BY <1>3 DEF Slot
<1> HIDE DEF r
<1> QED BY <1>1, <1>2, <1>4, CreatedNew

LEMMA ExecNew == TypeOK /\ ExecReplaceCurrent => NoneNew(proc, proc')
<1> SUFFICES ASSUME TypeOK, ExecReplaceCurrent PROVE NoneNew(proc, proc') OBVIOUS
<1> DEFINE E == Entered(proc)
<1>0. current \in Slots /\ proc \in Table BY DEF TypeOK, Table
<1>1. /\ E \in Table /\ E[current].call = "none"
      /\ \A s \in Slots \ {current} : E[s] = proc[s]
  BY EnteredIs
<1>2. proc' = [E EXCEPT
        ![current].exit_code = 0, ![current].wait_pid = 0,
        ![current].wait_status = FALSE, ![current].reap_pending = FALSE]
  BY DEF ExecReplaceCurrent, ReturnWith
<1> HIDE DEF E
<1>3. proc'[current].call = "none" BY <1>0, <1>1, <1>2 DEF Table, Slot
<1>4. \A s \in Slots \ {current} : proc'[s] = proc[s] BY <1>1, <1>2 DEF Table
<1> QED BY <1>0, <1>3, <1>4, CallerAwake

LEMMA WaitNew == ASSUME TypeOK, NEW pid \in 0 .. MaxPid, WaitPid(pid) PROVE NoneNew(proc, proc')
<1> DEFINE P0 == Waits(proc, pid)
           p0 == P0[current]
<1>0. current \in Slots /\ proc \in Table BY DEF TypeOK, Table
<1>1. /\ P0 \in Table /\ p0.call = "waitpid" /\ p0 \in Slot
      /\ \A s \in Slots \ {current} : P0[s] = proc[s]
  <2>1. P0 \in Table /\ p0.call = "waitpid" /\ \A s \in Slots \ {current} : P0[s] = proc[s]
    BY WaitsIs
  <2> HIDE DEF P0
  <2> QED BY <1>0, <2>1 DEF Table
<1> HIDE DEF P0
<1>2. CASE WaitCollects(pid)
  <2>1. PICK z \in FindZombieChild(proc, proc[current].pid, pid) :
          proc' = ReapProcess([P0 EXCEPT
            ![current].eax = proc[z].pid, ![current].status = proc[z].exit_code], z)
    BY <1>2 DEF WaitCollects, ReturnWith, P0
  <2>2. z \in Slots BY FirstIn DEF FindZombieChild, UserSlots
  <2>3. proc[z].pid \in Int /\ proc[z].exit_code \in Int BY <2>2 DEF TypeOK, Slot
  <2> DEFINE r == [p0 EXCEPT !.eax = proc[z].pid, !.status = proc[z].exit_code]
             Q == [P0 EXCEPT ![current] = r]
  <2>4. r \in Slot /\ r.call = "waitpid" BY <1>1, <2>3 DEF Slot
  <2>5. proc' = ReapProcess(Q, z) BY <2>1
  <2> HIDE DEF r
  <2>6. Q \in Table /\ NoneNew(proc, Q) BY <1>1, <2>4, CallerPut
  <2> HIDE DEF Q
  <2>7. NoneNew(Q, proc') BY <2>2, <2>5, <2>6, ReapNew
  <2> QED BY <2>6, <2>7, NoneNewTwice
<1>3. CASE WaitFails(pid)
  <2> DEFINE r == [p0 EXCEPT !.eax = SysErr]
  <2>1. r \in Slot /\ r.call = "waitpid" BY <1>1 DEF Slot, SysErr
  <2>2. proc' = [P0 EXCEPT ![current] = r] BY <1>3 DEF WaitFails, ReturnWith, P0
  <2> HIDE DEF r
  <2> QED BY <1>1, <2>1, <2>2, CallerPut
<1>4. CASE WaitBlocks(pid)
  <2> DEFINE r == [p0 EXCEPT !.eax = Blocked, !.state = "WAITING", !.wait_pid = pid,
                             !.wait_status = TRUE, !.wait_channel = NoChannel]
             Q == [P0 EXCEPT ![current] = r]
  <2>0. Blocked \in Int /\ "WAITING" \in States BY DEF Blocked, States
  <2> HIDE DEF p0
  <2>1. r \in Slot /\ r.call = "waitpid"
    <3> DEFINE r1 == [p0 EXCEPT !.eax = Blocked, !.state = "WAITING"]
               r2 == [r1 EXCEPT !.wait_pid = pid, !.wait_status = TRUE]
    <3>1. p0 \in Slot /\ p0.call = "waitpid" BY <1>1
    <3>2. r1 \in Slot /\ r1.call = "waitpid" BY <2>0, <3>1 DEF Slot
    <3> HIDE DEF r1
    <3>3. r2 \in Slot /\ r2.call = "waitpid" BY <3>2 DEF Slot
    <3>4. r = [r2 EXCEPT !.wait_channel = NoChannel] BY DEF r1
    <3> HIDE DEF r, r2
    <3> QED BY <3>3, <3>4 DEF Slot
  <2>2. Schedule(Q, TRUE) BY <1>4 DEF WaitBlocks, P0, p0
  <2> HIDE DEF r
  <2>3. Q \in Table /\ NoneNew(proc, Q) BY <1>1, <2>1, CallerPut
  <2> HIDE DEF Q
  <2>4. NoneNew(Q, proc') BY <2>2, <2>3, ScheduleNew
  <2> QED BY <2>3, <2>4, NoneNewTwice
<1> QED BY <1>2, <1>3, <1>4 DEF WaitPid

LEMMA JoinNew == ASSUME TypeOK, NEW tid \in 1 .. MaxTid, JoinThread(tid) PROVE NoneNew(proc, proc')
<1> DEFINE P0 == Joins(proc, tid)
           p0 == P0[current]
           found == Threads(proc, proc[current].thread_group_pid, tid)
<1>0. current \in Slots /\ proc \in Table /\ tid \in Nat BY DEF TypeOK, Table
<1>1. /\ P0 \in Table /\ p0.call = "join" /\ p0 \in Slot
      /\ \A s \in Slots \ {current} : P0[s] = proc[s]
  <2>1. P0 \in Table /\ p0.call = "join" /\ \A s \in Slots \ {current} : P0[s] = proc[s]
    BY <1>0, JoinsIs
  <2> HIDE DEF P0
  <2> QED BY <1>0, <2>1 DEF Table
<1> HIDE DEF P0, found
<1>2. CASE proc' = [P0 EXCEPT ![current].eax = SysErr]
  <2> DEFINE r == [p0 EXCEPT !.eax = SysErr]
  <2>1. r \in Slot /\ r.call = "join" BY <1>1 DEF Slot, SysErr
  <2>2. proc' = [P0 EXCEPT ![current] = r] BY <1>2
  <2> HIDE DEF r
  <2> QED BY <1>1, <2>1, <2>2, CallerPut
<1>3. ASSUME NEW t \in found,
             proc' = ReapProcess([P0 EXCEPT
               ![current].eax = tid, ![current].status = proc[t].exit_code], t)
      PROVE  NoneNew(proc, proc')
  <2>1. t \in Slots BY FirstIn DEF found, Threads, UserSlots
  <2>2. proc[t].exit_code \in Int BY <2>1 DEF TypeOK, Slot
  <2> DEFINE r == [p0 EXCEPT !.eax = tid, !.status = proc[t].exit_code]
             Q == [P0 EXCEPT ![current] = r]
  <2> HIDE DEF p0
  <2>3. r \in Slot /\ r.call = "join"
    <3>1. tid \in Int /\ p0 \in Slot /\ p0.call = "join" BY <1>0, <1>1
    <3> QED BY <2>2, <3>1 DEF Slot
  <2>4. proc' = ReapProcess(Q, t) BY <1>3 DEF p0
  <2> HIDE DEF r
  <2>5. Q \in Table /\ NoneNew(proc, Q) BY <1>1, <2>3, CallerPut
  <2> HIDE DEF Q
  <2>6. NoneNew(Q, proc') BY <2>1, <2>4, <2>5, ReapNew
  <2> QED BY <2>5, <2>6, NoneNewTwice
<1>4. CASE Schedule([P0 EXCEPT ![current].eax = Blocked, ![current].join_tid = tid,
                              ![current].state = "WAITING"], TRUE)
  <2> DEFINE r == [p0 EXCEPT !.eax = Blocked, !.join_tid = tid, !.state = "WAITING"]
             Q == [P0 EXCEPT ![current] = r]
  <2>0. Blocked \in Int /\ "WAITING" \in States BY DEF Blocked, States
  <2> HIDE DEF p0
  <2>1. r \in Slot /\ r.call = "join"
    <3> DEFINE r1 == [p0 EXCEPT !.eax = Blocked]
               r2 == [r1 EXCEPT !.join_tid = tid]
    <3>1. p0 \in Slot /\ p0.call = "join" BY <1>1
    <3>2. r1 \in Slot /\ r1.call = "join" BY <2>0, <3>1 DEF Slot
    <3> HIDE DEF r1
    <3>3. r2 \in Slot /\ r2.call = "join" BY <1>0, <3>2 DEF Slot
    <3>4. r = [r2 EXCEPT !.state = "WAITING"] BY DEF r1
    <3> HIDE DEF r, r2
    <3> QED BY <2>0, <3>3, <3>4 DEF Slot
  <2>2. Schedule(Q, TRUE) BY <1>4 DEF p0
  <2> HIDE DEF r
  <2>3. Q \in Table /\ NoneNew(proc, Q) BY <1>1, <2>1, CallerPut
  <2> HIDE DEF Q
  <2>4. NoneNew(Q, proc') BY <2>2, <2>3, ScheduleNew
  <2> QED BY <2>3, <2>4, NoneNewTwice
<1> QED BY <1>2, <1>3, <1>4 DEF JoinThread, ReturnWith, P0, found

LEMMA DeadNew ==
  ASSUME TypeOK, current # Bootstrap, NEW i \in Slots \ {Bootstrap}, NEW code \in Nat
  PROVE  /\ Died(Entered(proc), i, code) \in Table
         /\ NoneNew(proc, Died(Entered(proc), i, code))
<1> DEFINE E == Entered(proc)
<1>1. E \in Table /\ NoneNew(proc, E) BY EnteredIs
<1>2. Legal(E) /\ Runs(E) BY CurrentLegal, LegalEntered DEF Runs, SameStates
<1> HIDE DEF E
<1>3. Legal(Died(E, i, code)) BY <1>2, LegalDied DEF TypeOK
<1>4. NoneNew(E, Died(E, i, code)) BY <1>1, DiedNew
<1> QED BY <1>1, <1>3, <1>4, NoneNewTwice DEF Legal, E

LEMMA ExitNew ==
  ASSUME TypeOK, NEW code \in Nat, NEW flag \in BOOLEAN, current # Bootstrap,
         Schedule(Died(Entered(proc), current, code), flag)
  PROVE  NoneNew(proc, proc')
<1> DEFINE D == Died(Entered(proc), current, code)
<1>1. D \in Table /\ NoneNew(proc, D) BY DeadNew DEF TypeOK
<1> HIDE DEF D
<1>2. NoneNew(D, proc') BY <1>1, ScheduleNew DEF D
<1> QED BY <1>1, <1>2, NoneNewTwice

LEMMA SignalNew ==
  ASSUME TypeOK, NEW t \in UserSlots, NEW sig \in Signals, Signal(t, sig)
  PROVE  NoneNew(proc, proc')
<1> DEFINE E == Entered(proc)
<1>0. current # Bootstrap /\ t \in Slots \ {Bootstrap} BY DEF Signal, Issues, InUser, UserSlots
<1>1. E \in Table /\ NoneNew(proc, E) BY EnteredIs
<1>2. CASE proc' = Died(E, t, 128 + sig)
  <2>1. 128 + sig \in Nat BY ProcessAssumption
  <2> QED BY <1>0, <1>2, <2>1, DeadNew
<1> HIDE DEF E
<1>3. ASSUME NEW v \in {"READY", E[t].state}, proc' = [E EXCEPT ![t].state = v]
      PROVE  NoneNew(proc, proc')
  <2> DEFINE r == [E[t] EXCEPT !.state = v]
  <2>1. AsBefore(E[t], r) BY <1>0, <1>1 DEF AsBefore, Sleeps, Table, Slot
  <2>2. proc' = [E EXCEPT ![t] = r] BY <1>3
  <2> HIDE DEF r
  <2>3. NoneNew(E, proc') BY <1>0, <1>1, <2>1, <2>2, NoneNewPut
  <2> QED BY <1>1, <2>3, NoneNewTwice
<1>4. CASE proc' = [E EXCEPT ![t].state = IF @ = "STOPPED" THEN "READY" ELSE @]
  <2> DEFINE v == IF E[t].state = "STOPPED" THEN "READY" ELSE E[t].state
  <2>1. proc' = [E EXCEPT ![t].state = v] BY <1>4
  <2>2. v \in {"READY", E[t].state} OBVIOUS
  <2> HIDE DEF v
  <2> QED BY <1>3, <2>1, <2>2
<1>5. CASE proc' = Stopped(E, t)
  <2> DEFINE r == Stopped(E, t)[t]
  <2>1. /\ r.state = "STOPPED" /\ r.pid = E[t].pid /\ Stopped(E, t) \in Table
        /\ \A s \in Slots \ {t} : Stopped(E, t)[s] = E[s]
    BY <1>0, <1>1, StoppedFields
  <2>2. AsBefore(E[t], r) BY <2>1 DEF AsBefore, Sleeps
  <2>3. proc' = [E EXCEPT ![t] = r] BY <1>0, <1>1, <1>5, <2>1 DEF Table
  <2> HIDE DEF r
  <2>4. NoneNew(E, proc') BY <1>0, <1>1, <2>2, <2>3, NoneNewPut
  <2> QED BY <1>1, <2>4, NoneNewTwice
<1> QED BY <1>2, <1>4, <1>5 DEF Signal, ReturnWith, E

LEMMA ReissueNew == TypeOK /\ Reissue => NoneNew(proc, proc')
<1> SUFFICES ASSUME TypeOK, Reissue PROVE NoneNew(proc, proc') OBVIOUS
<1>0. current \in Slots /\ proc \in Table BY DEF TypeOK, Table
<1> DEFINE v == IF proc[current].eax = Blocked THEN SysErr ELSE 0
           r == [proc[current] EXCEPT !.rewound = FALSE, !.eax = v]
<1> HIDE DEF v
<1>1. proc' = [proc EXCEPT ![current] = r] BY <1>0 DEF Reissue, ReturnWith, v, Table, Slot
<1>2. AsBefore(proc[current], r) BY <1>0 DEF AsBefore, Sleeps, Table, Slot
<1> HIDE DEF r
<1> QED BY <1>0, <1>1, <1>2, NoneNewPut

LEMMA WakeupNew ==
  ASSUME TypeOK, NEW ch, Wakeup(ch) \/ DeviceWakeup(ch) PROVE NoneNew(proc, proc')
<1> DEFINE E == Entered(proc)
<1>0. proc \in Table BY DEF TypeOK, Table
<1>1. E \in Table /\ NoneNew(proc, E) BY EnteredIs
<1>2. proc' = Woken(E, ch) \/ proc' = Woken(proc, ch)
  BY DEF Wakeup, DeviceWakeup, ReturnWith
<1> HIDE DEF E
<1>3. NoneNew(E, Woken(E, ch)) BY <1>1, WokenNew
<1>4. NoneNew(proc, Woken(proc, ch)) BY <1>0, WokenNew
<1>5. NoneNew(proc, Woken(E, ch)) BY <1>1, <1>3, NoneNewTwice
<1> QED BY <1>2, <1>4, <1>5

LEMMA YieldNew == TypeOK /\ Yield => NoneNew(proc, proc')
<1> SUFFICES ASSUME TypeOK, Yield PROVE NoneNew(proc, proc') OBVIOUS
<1> DEFINE E == Entered(proc)
<1>1. E \in Table /\ NoneNew(proc, E) BY EnteredIs
<1>2. Schedule(E, TRUE) BY DEF Yield
<1> HIDE DEF E
<1>3. NoneNew(E, proc') BY <1>1, <1>2, ScheduleNew
<1> QED BY <1>1, <1>3, NoneNewTwice

LEMMA TimerNew == SchedInv /\ TimerInterrupt => NoneNew(proc, proc')
<1> SUFFICES ASSUME SchedInv, TimerInterrupt PROVE NoneNew(proc, proc') OBVIOUS
<1>0. TypeOK /\ proc \in Table /\ resched \in BOOLEAN /\ current \in Slots
  BY DEF SchedInv, TypeOK, Table
<1>1. PICK P \in Polled : Schedule(P, resched) BY DEF TimerInterrupt
<1>2. P \in Table /\ NoneNew(proc, P)
  <2>1. CASE P = proc BY <1>0, <2>1, NoneNewSame
  <2>2. CASE P # proc
    <3>1. PICK ch : P = Woken(proc, ch) BY <2>2 DEF Polled
    <3>2. Legal(Woken(proc, ch)) BY <1>0, CurrentLegal, LegalWoken DEF Runs
    <3>3. NoneNew(proc, Woken(proc, ch)) BY <1>0, WokenNew
    <3> QED BY <3>1, <3>2, <3>3 DEF Legal
  <2> QED BY <2>1, <2>2
<1>3. NoneNew(P, proc') BY <1>0, <1>1, <1>2, ScheduleNew
<1> QED BY <1>2, <1>3, NoneNewTwice

\* Without processes that sleep on a channel for another reason, no step of the process
\* table puts anyone to sleep.
LEMMA NextNew ==
  ASSUME SchedInv, "sleep" \notin Workload, Next PROVE NoneNew(proc, proc')
<1>0. TypeOK /\ resched \in BOOLEAN BY DEF SchedInv, TypeOK
<1>1. CASE SpawnProcess BY <1>0, <1>1, SpawnNew
<1>2. CASE ForkCurrent BY <1>0, <1>2, ForkNew
<1>3. CASE CreateUserThread BY <1>0, <1>3, ThreadNew
<1>4. CASE ExecReplaceCurrent BY <1>0, <1>4, ExecNew
<1>5. CASE OtherSyscall BY <1>0, <1>5, EnteredIs DEF OtherSyscall, ReturnWith
<1>6. CASE \E pid \in 0 .. MaxPid : WaitPid(pid) BY <1>0, <1>6, WaitNew
<1>7. CASE \E code \in ExitCodes : ExitCurrent(code)
  <2>1. PICK code \in ExitCodes : ExitCurrent(code) BY <1>7
  <2>2. code \in Nat /\ current # Bootstrap /\ TRUE \in BOOLEAN
    BY <2>1, ProcessAssumption DEF ExitCurrent, Issues, InUser
  <2>3. Schedule(Died(Entered(proc), current, code), TRUE) BY <2>1 DEF ExitCurrent
  <2> QED BY <1>0, <2>2, <2>3, ExitNew
<1>8. CASE FaultCurrent
  <2>1. 128 + GeneralProtection \in Nat /\ current # Bootstrap
    BY <1>8 DEF FaultCurrent, Issues, InUser, GeneralProtection
  <2>2. Schedule(Died(Entered(proc), current, 128 + GeneralProtection), resched)
    BY <1>8 DEF FaultCurrent
  <2> QED BY <1>0, <2>1, <2>2, ExitNew
<1>9. CASE \E t \in UserSlots, sig \in Signals : Signal(t, sig) BY <1>0, <1>9, SignalNew
<1>10. CASE \E z \in UserSlots : ReapPid(z)
  <2>1. PICK z \in UserSlots : proc' = ReapProcess(proc, z) BY <1>10 DEF ReapPid, ReturnWith
  <2>2. z \in Slots /\ proc \in Table BY <1>0 DEF UserSlots, TypeOK, Table
  <2> QED BY <2>1, <2>2, ReapNew
<1>11. CASE \E tid \in 1 .. MaxTid : JoinThread(tid) BY <1>0, <1>11, JoinNew
<1>12. CASE \E ch \in Channels : SleepOn(ch) \/ Wakeup(ch) \/ DeviceWakeup(ch)
  BY <1>0, <1>12, WakeupNew DEF SleepOn, Issues
<1>13. CASE Reissue BY <1>0, <1>13, ReissueNew
<1>14. CASE Yield BY <1>0, <1>14, YieldNew
<1>15. CASE TimerInterrupt BY <1>15, TimerNew
<1> QED BY <1>1, <1>2, <1>3, <1>4, <1>5, <1>6, <1>7, <1>8, <1>9, <1>10, <1>11, <1>12,
           <1>13, <1>14, <1>15 DEF Next

-----------------------------------------------------------------------------
(***************************************************************************)
(* Who is asleep.  A sleeper waits on the channel of its pid, with nothing *)
(* in the table for it: the receive that put it to sleep had searched the  *)
(* table, and a send to it wakes that channel.                             *)
(***************************************************************************)
Asleep ==
  \A s \in UserSlots :
    Sleeps(proc[s]) =>
      \E r \in Receivers :
        proc[s].pid = r /\ proc[s].wait_channel = ChannelOf(r) /\ Waiting(r) = {}

MailInv == SchedInv /\ IpcInv /\ Asleep

LEMMA ErrorIs ==
  ASSUME SchedInv, NEW v \in {SysErr, Blocked}
  PROVE  /\ Legal([Entered(proc) EXCEPT ![current].eax = v])
         /\ Runs([Entered(proc) EXCEPT ![current].eax = v])
         /\ NoneNew(proc, [Entered(proc) EXCEPT ![current].eax = v])
<1> DEFINE E == Entered(proc)
           Q == [E EXCEPT ![current].eax = v]
<1>0. TypeOK /\ current \in Slots /\ v \in Int BY DEF SchedInv, TypeOK, SysErr, Blocked
<1>1. Legal(E) /\ SameStates(proc, E) BY <1>0, CurrentLegal, LegalEntered
<1>2. E \in Table /\ NoneNew(proc, E) BY <1>0, EnteredIs
<1> HIDE DEF E
<1>3. Legal(Q) /\ SameStates(E, Q) BY <1>0, <1>1, LegalEax
<1>4. NoneNew(E, Q) BY <1>0, <1>2, EaxNew
<1> HIDE DEF Q
<1>5. NoneNew(proc, Q) BY <1>2, <1>4, NoneNewTwice
<1>6. Runs(Q) BY <1>0, <1>1, <1>3 DEF Runs, SameStates
<1> QED BY <1>3, <1>5, <1>6 DEF Q, E

LEMMA FailsDoes == SchedInv /\ Fails => Kept /\ NoneNew(proc, proc')
<1> SUFFICES ASSUME SchedInv, Fails PROVE Kept /\ NoneNew(proc, proc') OBVIOUS
<1>1. ReturnWith([Entered(proc) EXCEPT ![current].eax = SysErr]) BY DEF Fails
<1> QED BY <1>1, ErrorIs, ReturnKeeps DEF ReturnWith

\* A wakeup after the call was entered.
LEMMA NotifiedDoes ==
  ASSUME SchedInv, NEW r, ReturnWith(Notified(Entered(proc), r))
  PROVE  /\ Kept /\ NoneNew(proc, proc')
         /\ \A s \in UserSlots : Sleeps(proc'[s]) => proc'[s].wait_channel # ChannelOf(r)
<1> DEFINE E == Entered(proc)
           W == Woken(E, ChannelOf(r))
<1>0. TypeOK /\ current \in Slots BY DEF SchedInv, TypeOK
<1>1. Legal(E) /\ Runs(E) BY <1>0, CurrentLegal, LegalEntered DEF Runs, SameStates
<1>2. E \in Table /\ NoneNew(proc, E) BY <1>0, EnteredIs
<1>3. ReturnWith(W) BY DEF Notified
<1> HIDE DEF E
<1>4. Legal(W) /\ Runs(W) BY <1>0, <1>1, LegalWoken
<1>5. NoneNew(E, W) /\ \A s \in UserSlots : Sleeps(W[s]) => W[s].wait_channel # ChannelOf(r)
  BY <1>2, WokenNew
<1> HIDE DEF W
<1>6. NoneNew(proc, W) BY <1>2, <1>5, NoneNewTwice
<1>7. proc' = W BY <1>3 DEF ReturnWith
<1> QED BY <1>3, <1>4, <1>5, <1>6, <1>7, ReturnKeeps

LEMMA EnteredDoes ==
  ASSUME SchedInv, ReturnWith(Entered(proc)) PROVE Kept /\ NoneNew(proc, proc')
<1>0. TypeOK /\ current \in Slots BY DEF SchedInv, TypeOK
<1>1. Legal(Entered(proc)) /\ Runs(Entered(proc))
  BY <1>0, CurrentLegal, LegalEntered DEF Runs, SameStates
<1> QED BY <1>0, <1>1, EnteredIs, ReturnKeeps DEF ReturnWith

LEMMA EmptyDoes ==
  ASSUME SchedInv, Schedule([Entered(proc) EXCEPT ![current].eax = Blocked], TRUE)
  PROVE  Kept /\ NoneNew(proc, proc')
<1> DEFINE Q == [Entered(proc) EXCEPT ![current].eax = Blocked]
<1>1. Legal(Q) /\ NoneNew(proc, Q) BY ErrorIs
<1>2. Schedule(Q, TRUE) OBVIOUS
<1> HIDE DEF Q
<1>3. Kept BY <1>1, <1>2, ScheduleKeeps
<1>4. NoneNew(Q, proc') BY <1>1, <1>2, ScheduleNew DEF SchedInv, Legal
<1> QED BY <1>1, <1>3, <1>4, NoneNewTwice

LEMMA SleptDoes ==
  ASSUME SchedInv, current # Bootstrap, NEW ch \in Channels, Schedule(Slept(ch), TRUE)
  PROVE  /\ Kept
         /\ \A s \in Slots :
              Sleeps(proc'[s]) =>
                \/ /\ Sleeps(proc[s]) /\ proc'[s].wait_channel = proc[s].wait_channel
                   /\ proc'[s].pid = proc[s].pid
                \/ /\ s = current /\ proc'[s].wait_channel = ch
                   /\ proc'[s].pid = proc[current].pid
<1> DEFINE E == Entered(proc)
           Q == Slept(ch)
<1>0. TypeOK /\ current \in Slots BY DEF SchedInv, TypeOK
<1>1. Legal(Q) BY <1>0, LegalSlept
<1>2. E \in Table /\ E[current].pid = proc[current].pid
      /\ \A s \in Slots \ {current} : E[s] = proc[s]
  BY <1>0, EnteredIs
<1> HIDE DEF E
<1>3. Q = [E EXCEPT
        ![current].call = "sleep", ![current].eax = Blocked, ![current].rewound = TRUE,
        ![current].wait_channel = ch, ![current].state = "WAITING"]
  BY DEF Slept, E
<1>4. Q[current].wait_channel = ch /\ Q[current].pid = proc[current].pid
  BY <1>0, <1>2, <1>3 DEF Table, Slot
<1>5. \A s \in Slots \ {current} : Q[s] = proc[s] BY <1>2, <1>3 DEF Table
<1> HIDE DEF Q
<1>6. Schedule(Q, TRUE) BY DEF Q
<1>7. Kept BY <1>1, <1>6, ScheduleKeeps
<1>8. NoneNew(Q, proc') BY <1>0, <1>1, <1>6, ScheduleNew DEF Legal
<1> QED BY <1>4, <1>5, <1>7, <1>8 DEF NoneNew, AsBefore

\* A step that puts nobody to sleep and adds no message for a sleeper.
LEMMA AsleepStays ==
  ASSUME Asleep, NoneNew(proc, proc'),
         \A s \in UserSlots, r \in Receivers :
           Sleeps(proc'[s]) /\ proc'[s].pid = r => Waiting(r)' \subseteq Waiting(r)
  PROVE  Asleep'
<1> SUFFICES ASSUME NEW s \in UserSlots, Sleeps(proc'[s])
             PROVE  \E r \in Receivers : /\ proc'[s].pid = r
                                         /\ proc'[s].wait_channel = ChannelOf(r)
                                         /\ Waiting(r)' = {}
  BY DEF Asleep, Sleeps, ChannelOf
<1>1. /\ Sleeps(proc[s]) /\ proc'[s].wait_channel = proc[s].wait_channel
      /\ proc'[s].pid = proc[s].pid
  BY DEF NoneNew, AsBefore, UserSlots
<1>2. PICK r \in Receivers :
        proc[s].pid = r /\ proc[s].wait_channel = ChannelOf(r) /\ Waiting(r) = {}
  BY <1>1 DEF Asleep
<1>3. Waiting(r)' = {} BY <1>1, <1>2
<1> QED BY <1>1, <1>2, <1>3

\* The search of a receive finds a message if there is one.
LEMMA NothingFound == ASSUME NEW r, Found(r) = {} PROVE Waiting(r) = {}
<1> DEFINE S == {k \in QueueSlots : messages[k].used /\ messages[k].receiver_pid = r}
<1>1. S \in SUBSET Nat BY IpcAssumption DEF QueueSlots
<1>2. Found(r) = First(S) BY DEF Found
<1> HIDE DEF S
<1>3. S = {} BY <1>1, <1>2, LowestIn
<1> QED BY <1>3 DEF S, Waiting

-----------------------------------------------------------------------------
LEMMA StillAsleep ==
  ASSUME Asleep, NoneNew(proc, proc'), UNCHANGED <<messages, accepted, received>> PROVE Asleep'
<1>1. \A r : Waiting(r)' = Waiting(r) BY DEF Waiting
<1> QED BY <1>1, AsleepStays

LEMMA SendInv == ASSUME MailInv, NEW to \in Receivers, Send(to) PROVE SchedInv' /\ Asleep'
<1>0. Counters' BY StillCounters DEF MailInv, Send
<1>1. CASE Fails
  <2>1. Kept /\ NoneNew(proc, proc') BY <1>1, FailsDoes DEF MailInv
  <2>2. Asleep' BY <1>1, <2>1, StillAsleep DEF Fails, MailInv
  <2> QED BY <1>0, <2>1, <2>2, Assemble
<1>2. CASE \E k \in FreePlace :
             Sent(k, to, CurrentPid) /\ ReturnWith(Notified(Entered(proc), to))
  <2>1. PICK k \in QueueSlots :
          /\ ~messages[k].used /\ Sent(k, to, CurrentPid)
          /\ ReturnWith(Notified(Entered(proc), to))
    BY <1>2 DEF FreePlace, First
  <2>2. /\ Kept /\ NoneNew(proc, proc')
        /\ \A s \in UserSlots : Sleeps(proc'[s]) => proc'[s].wait_channel # ChannelOf(to)
    BY <2>1, NotifiedDoes DEF MailInv
  <2>3. Mail!Accept(to, accepted + 1) BY <2>1, SentKeeps DEF MailInv, Send
  <2>4. \A r \in Receivers \ {to} : Waiting(r)' = Waiting(r)
    <3>1. Boxes' = [Boxes EXCEPT ![to] = @ \cup {accepted + 1}] BY <2>3 DEF Mail!Accept, Boxes
    <3>2. \A r \in Receivers \ {to} : Boxes'[r] = Boxes[r] BY <3>1 DEF Boxes
    <3> QED BY <3>2 DEF Boxes
  <2>5. ASSUME NEW s \in UserSlots, NEW r \in Receivers, Sleeps(proc'[s]), proc'[s].pid = r
        PROVE  Waiting(r)' \subseteq Waiting(r)
    <3>1. /\ Sleeps(proc[s]) /\ proc'[s].wait_channel = proc[s].wait_channel
          /\ proc'[s].pid = proc[s].pid
      BY <2>2, <2>5 DEF NoneNew, AsBefore, UserSlots
    <3>2. proc[s].wait_channel = ChannelOf(proc[s].pid) BY <3>1 DEF MailInv, Asleep
    <3>3. r # to BY <2>2, <2>5, <3>1, <3>2
    <3> QED BY <2>4, <3>3
  <2>6. Asleep' BY <2>2, <2>5, AsleepStays DEF MailInv
  <2> QED BY <1>0, <2>2, <2>6, Assemble
<1> QED BY <1>1, <1>2 DEF Send, Sent

\* A message handed over is one less in the table.
LEMMA HandedAsleep ==
  ASSUME MailInv, NoneNew(proc, proc'), NEW k \in Found(CurrentPid), HandedOver(k)
  PROVE  Asleep'
<1>1. Handed(k, CurrentPid) BY DEF HandedOver, Handed
<1>2. Mail!HandOver(CurrentPid, messages[k].id) /\ CurrentPid \in Receivers
  BY <1>1, HandedKeeps DEF MailInv
<1>3. Boxes' = [Boxes EXCEPT ![CurrentPid] = @ \ {messages[k].id}]
  BY <1>2 DEF Mail!HandOver, Boxes
<1>4. \A r \in Receivers : Boxes'[r] \subseteq Boxes[r] BY <1>3 DEF Boxes
<1>5. \A r \in Receivers : Waiting(r)' \subseteq Waiting(r) BY <1>4 DEF Boxes
<1> QED BY <1>5, AsleepStays DEF MailInv

LEMMA RecvInv == ASSUME MailInv, Recv PROVE SchedInv' /\ Asleep'
<1>0. Counters' BY StillCounters DEF MailInv, Recv
<1>1. CASE Fails
  <2>1. Kept /\ NoneNew(proc, proc') BY <1>1, FailsDoes DEF MailInv
  <2>2. Asleep' BY <1>1, <2>1, StillAsleep DEF Fails, MailInv
  <2> QED BY <1>0, <2>1, <2>2, Assemble
<1>2. CASE /\ Schedule([Entered(proc) EXCEPT ![current].eax = Blocked], TRUE)
           /\ UNCHANGED <<messages, accepted, received>>
  <2>1. Kept /\ NoneNew(proc, proc') BY <1>2, EmptyDoes DEF MailInv
  <2>2. Asleep' BY <1>2, <2>1, StillAsleep DEF MailInv
  <2> QED BY <1>0, <2>1, <2>2, Assemble
<1>3. CASE (\E k \in Found(CurrentPid) : HandedOver(k)) /\ ReturnWith(Entered(proc))
  <2>1. Kept /\ NoneNew(proc, proc') BY <1>3, EnteredDoes DEF MailInv
  <2>2. Asleep' BY <1>3, <2>1, HandedAsleep
  <2> QED BY <1>0, <2>1, <2>2, Assemble
<1> QED BY <1>1, <1>2, <1>3 DEF Recv

LEMMA RecvBlockingInv == ASSUME MailInv, RecvBlocking PROVE SchedInv' /\ Asleep'
<1>0. Counters' BY StillCounters DEF MailInv, RecvBlocking
<1>1. CASE Fails
  <2>1. Kept /\ NoneNew(proc, proc') BY <1>1, FailsDoes DEF MailInv
  <2>2. Asleep' BY <1>1, <2>1, StillAsleep DEF Fails, MailInv
  <2> QED BY <1>0, <2>1, <2>2, Assemble
<1>2. CASE /\ CurrentPid # 0 /\ Found(CurrentPid) = {}
           /\ Schedule(Slept(ChannelOf(CurrentPid)), TRUE)
           /\ UNCHANGED <<messages, accepted, received>>
  <2> DEFINE r0 == CurrentPid
             ch == ChannelOf(r0)
  <2>1. r0 \in Receivers /\ r0 = proc[current].pid
    <3>1. proc[current] \in Slot BY DEF MailInv, SchedInv, TypeOK
    <3>2. proc[current].pid \in 0 .. MaxPid BY <3>1 DEF Slot
    <3> QED BY <1>2, <3>2, ProcessAssumption DEF CurrentPid, Receivers
  <2>2. Waiting(r0) = {} BY <1>2, NothingFound
  <2>3. current # Bootstrap /\ Schedule(Slept(ch), TRUE) BY <1>2 DEF RecvBlocking, InUser
  <2> HIDE DEF r0
  <2>4. ch \in Channels BY <2>1, IpcAssumption
  <2> HIDE DEF ch
  <2>5. /\ Kept
        /\ \A s \in Slots :
             Sleeps(proc'[s]) =>
               \/ /\ Sleeps(proc[s]) /\ proc'[s].wait_channel = proc[s].wait_channel
                  /\ proc'[s].pid = proc[s].pid
               \/ /\ s = current /\ proc'[s].wait_channel = ch
                  /\ proc'[s].pid = proc[current].pid
    BY <2>3, <2>4, SleptDoes DEF MailInv
  <2>6. \A r : Waiting(r)' = Waiting(r) BY <1>2 DEF Waiting
  <2>7. ASSUME NEW s \in UserSlots, Sleeps(proc'[s])
        PROVE  \E r \in Receivers : /\ proc'[s].pid = r /\ proc'[s].wait_channel = ChannelOf(r)
                                    /\ Waiting(r) = {}
    <3>1. s \in Slots BY DEF UserSlots
    <3>2. CASE /\ Sleeps(proc[s]) /\ proc'[s].wait_channel = proc[s].wait_channel
               /\ proc'[s].pid = proc[s].pid
      BY <3>2 DEF MailInv, Asleep
    <3>3. CASE proc'[s].wait_channel = ch /\ proc'[s].pid = proc[current].pid
      BY <2>1, <2>2, <3>3 DEF ch
    <3> QED BY <2>5, <2>7, <3>1, <3>2, <3>3
  <2>8. Asleep' BY <2>6, <2>7 DEF Asleep, Sleeps, ChannelOf
  <2> QED BY <1>0, <2>5, <2>8, Assemble
<1>3. CASE /\ \E k \in Found(CurrentPid) : HandedOver(k)
           /\ ReturnWith(Notified(Entered(proc), CurrentPid))
  <2> DEFINE r0 == CurrentPid
  <2>1. ReturnWith(Notified(Entered(proc), r0)) BY <1>3
  <2> HIDE DEF r0
  <2>2. Kept /\ NoneNew(proc, proc') BY <2>1, NotifiedDoes DEF MailInv
  <2>3. Asleep' BY <1>3, <2>2, HandedAsleep
  <2> QED BY <1>0, <2>2, <2>3, Assemble
<1> QED BY <1>1, <1>2, <1>3 DEF RecvBlocking

LEMMA MailInitInv == IpcInit => MailInv
<1> SUFFICES ASSUME IpcInit PROVE MailInv OBVIOUS
<1>1. SchedInv BY SchedInit DEF IpcInit
<1>2. \A s \in UserSlots : proc[s].state = "UNUSED"
  BY ClearType DEF IpcInit, Init, UserSlots
<1>3. Asleep BY <1>2 DEF Asleep, Sleeps
<1> QED BY <1>1, <1>3, IpcInitInv DEF MailInv

LEMMA MailStep ==
  ASSUME "sleep" \notin Workload, MailInv, [IpcNext]_ipcVars PROVE MailInv'
<1>1. IpcInv' BY IpcStep DEF MailInv
<1>2. CASE Next /\ UNCHANGED <<messages, accepted, received>>
  <2>1. SchedInv' BY <1>2, SchedNext DEF MailInv, Stays
  <2>2. Asleep' BY <1>2, NextNew, StillAsleep DEF MailInv
  <2> QED BY <1>1, <2>1, <2>2 DEF MailInv
<1>3. CASE \E to \in Receivers : Send(to) BY <1>1, <1>3, SendInv DEF MailInv
<1>4. CASE Recv BY <1>1, <1>4, RecvInv DEF MailInv
<1>5. CASE RecvBlocking BY <1>1, <1>5, RecvBlockingInv DEF MailInv
<1>6. CASE UNCHANGED ipcVars
  <2>1. UNCHANGED vars /\ proc' = proc /\ UNCHANGED <<messages, accepted, received>>
    BY <1>6 DEF ipcVars, vars
  <2>2. SchedInv' BY <2>1, SchedNext DEF MailInv, Stays
  <2>3. Asleep' BY <2>1, NoneNewSame, StillAsleep DEF MailInv
  <2> QED BY <1>1, <2>2, <2>3 DEF MailInv
<1> QED BY <1>2, <1>3, <1>4, <1>5, <1>6 DEF IpcNext

\* No lost wakeup in SYS_IPC_RECV_BLOCKING, in a system whose channels are those of IPC: a
\* process asleep in it has no message in the table, whatever the order in which it
\* searched, slept and was sent to, and whoever died, was stopped or preempted meanwhile,
\* with process_lock contended or not.
THEOREM NoMessageMissed == "sleep" \notin Workload => (IpcSpec => []NoLostMessage)
<1> SUFFICES ASSUME "sleep" \notin Workload PROVE IpcSpec => []NoLostMessage OBVIOUS
<1>1. IpcInit => MailInv BY MailInitInv
<1>2. MailInv /\ [IpcNext]_ipcVars => MailInv' BY MailStep
<1>3. MailInv => NoLostMessage BY DEF MailInv, Asleep, Sleeps, NoLostMessage
<1> QED BY <1>1, <1>2, <1>3, PTL DEF IpcSpec
=============================================================================
