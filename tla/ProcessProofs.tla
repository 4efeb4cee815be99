---------------------------- MODULE ProcessProofs ----------------------------
(***************************************************************************)
(* Theorems about the process table and the scheduler, for every size of   *)
(* the table, every workload and every set of bounds.                      *)
(***************************************************************************)
EXTENDS Process, WellFoundedInduction, TLAPS

Table == [Slots -> Slot]

\* A table the handlers may hand to the scheduler: it makes no slot RUNNING, and if the
\* running program no longer runs it is because it died or waits.
Legal(P) ==
  /\ P \in Table
  /\ \A s \in Slots : P[s].state = "RUNNING" => proc[s].state = "RUNNING"
  /\ proc[current].state = "RUNNING" =>
       \/ P[current].state = "RUNNING"
       \/ current # Bootstrap /\ P[current].state \in {"ZOMBIE", "WAITING"}

\* It leaves a running program running, so that the handler may return to it.
Runs(P) == proc[current].state = "RUNNING" => P[current].state = "RUNNING"

SameStates(P, Q) == \A s \in Slots : Q[s].state = P[s].state

-----------------------------------------------------------------------------
(***************************************************************************)
(* Setting one field of one slot.                                          *)
(***************************************************************************)
LEMMA SlotZero == Bootstrap \in Slots
BY ProcessAssumption DEF Bootstrap, Slots

LEMMA LegalPut ==
  ASSUME NEW P, Legal(P), NEW i \in Slots, NEW r \in Slot, r.state = P[i].state,
         current \in Slots
  PROVE  Legal([P EXCEPT ![i] = r])
BY DEF Legal, Table

LEMMA StatePut ==
  ASSUME NEW p \in Slot, NEW v \in States
  PROVE  [p EXCEPT !.state = v] \in Slot /\ [p EXCEPT !.state = v].state = v
BY DEF Slot

LEMMA ReapPut ==
  ASSUME NEW p \in Slot
  PROVE  [p EXCEPT !.reap_pending = TRUE] \in Slot /\ [p EXCEPT !.reap_pending = TRUE].state = p.state
BY DEF Slot

LEMMA LegalState ==
  ASSUME NEW P, Legal(P), NEW i \in Slots, NEW v \in States \ {"RUNNING"},
         i = current => current # Bootstrap /\ v \in {"ZOMBIE", "WAITING"},
         current \in Slots
  PROVE  Legal([P EXCEPT ![i].state = v])
<1> DEFINE r == [P[i] EXCEPT !.state = v]
<1>1. r \in Slot /\ r.state = v BY DEF Legal, Table, Slot
<1>2. Legal([P EXCEPT ![i] = r]) BY <1>1 DEF Legal, Table
<1> QED BY <1>2

LEMMA LegalExitCode ==
  ASSUME NEW P, Legal(P), NEW i \in Slots, NEW v \in Nat, current \in Slots
  PROVE  Legal([P EXCEPT ![i].exit_code = v]) /\ SameStates(P, [P EXCEPT ![i].exit_code = v])
<1> DEFINE r == [P[i] EXCEPT !.exit_code = v]
<1>1. r \in Slot /\ r.state = P[i].state BY DEF Legal, Table, Slot
<1>2. Legal([P EXCEPT ![i] = r]) BY <1>1, LegalPut
<1>3. SameStates(P, [P EXCEPT ![i] = r]) BY <1>1 DEF SameStates, Legal, Table
<1> QED BY <1>2, <1>3

LEMMA LegalWaitPid ==
  ASSUME NEW P, Legal(P), NEW i \in Slots, NEW v \in 0 .. MaxPid, current \in Slots
  PROVE  Legal([P EXCEPT ![i].wait_pid = v]) /\ SameStates(P, [P EXCEPT ![i].wait_pid = v])
<1> DEFINE r == [P[i] EXCEPT !.wait_pid = v]
<1>1. r \in Slot /\ r.state = P[i].state BY DEF Legal, Table, Slot
<1>2. Legal([P EXCEPT ![i] = r]) BY <1>1, LegalPut
<1>3. SameStates(P, [P EXCEPT ![i] = r]) BY <1>1 DEF SameStates, Legal, Table
<1> QED BY <1>2, <1>3

LEMMA LegalWaitStatus ==
  ASSUME NEW P, Legal(P), NEW i \in Slots, NEW v \in BOOLEAN, current \in Slots
  PROVE  Legal([P EXCEPT ![i].wait_status = v]) /\ SameStates(P, [P EXCEPT ![i].wait_status = v])
<1> DEFINE r == [P[i] EXCEPT !.wait_status = v]
<1>1. r \in Slot /\ r.state = P[i].state BY DEF Legal, Table, Slot
<1>2. Legal([P EXCEPT ![i] = r]) BY <1>1, LegalPut
<1>3. SameStates(P, [P EXCEPT ![i] = r]) BY <1>1 DEF SameStates, Legal, Table
<1> QED BY <1>2, <1>3

LEMMA LegalWaitChannel ==
  ASSUME NEW P, Legal(P), NEW i \in Slots, NEW v \in Channels \cup {NoChannel}, current \in Slots
  PROVE  Legal([P EXCEPT ![i].wait_channel = v]) /\ SameStates(P, [P EXCEPT ![i].wait_channel = v])
<1> DEFINE r == [P[i] EXCEPT !.wait_channel = v]
<1>1. r \in Slot /\ r.state = P[i].state BY DEF Legal, Table, Slot
<1>2. Legal([P EXCEPT ![i] = r]) BY <1>1, LegalPut
<1>3. SameStates(P, [P EXCEPT ![i] = r]) BY <1>1 DEF SameStates, Legal, Table
<1> QED BY <1>2, <1>3

LEMMA LegalReapPending ==
  ASSUME NEW P, Legal(P), NEW i \in Slots, NEW v \in BOOLEAN, current \in Slots
  PROVE  Legal([P EXCEPT ![i].reap_pending = v]) /\ SameStates(P, [P EXCEPT ![i].reap_pending = v])
<1> DEFINE r == [P[i] EXCEPT !.reap_pending = v]
<1>1. r \in Slot /\ r.state = P[i].state BY DEF Legal, Table, Slot
<1>2. Legal([P EXCEPT ![i] = r]) BY <1>1, LegalPut
<1>3. SameStates(P, [P EXCEPT ![i] = r]) BY <1>1 DEF SameStates, Legal, Table
<1> QED BY <1>2, <1>3

LEMMA LegalPriority ==
  ASSUME NEW P, Legal(P), NEW i \in Slots, NEW v \in 0 .. Levels - 1, current \in Slots
  PROVE  Legal([P EXCEPT ![i].priority = v]) /\ SameStates(P, [P EXCEPT ![i].priority = v])
<1> DEFINE r == [P[i] EXCEPT !.priority = v]
<1>1. r \in Slot /\ r.state = P[i].state BY DEF Legal, Table, Slot
<1>2. Legal([P EXCEPT ![i] = r]) BY <1>1, LegalPut
<1>3. SameStates(P, [P EXCEPT ![i] = r]) BY <1>1 DEF SameStates, Legal, Table
<1> QED BY <1>2, <1>3

LEMMA LegalTicksUsed ==
  ASSUME NEW P, Legal(P), NEW i \in Slots, NEW v \in Nat, current \in Slots
  PROVE  Legal([P EXCEPT ![i].ticks_used = v]) /\ SameStates(P, [P EXCEPT ![i].ticks_used = v])
<1> DEFINE r == [P[i] EXCEPT !.ticks_used = v]
<1>1. r \in Slot /\ r.state = P[i].state BY DEF Legal, Table, Slot
<1>2. Legal([P EXCEPT ![i] = r]) BY <1>1, LegalPut
<1>3. SameStates(P, [P EXCEPT ![i] = r]) BY <1>1 DEF SameStates, Legal, Table
<1> QED BY <1>2, <1>3

LEMMA LegalJoinTid ==
  ASSUME NEW P, Legal(P), NEW i \in Slots, NEW v \in Nat, current \in Slots
  PROVE  Legal([P EXCEPT ![i].join_tid = v]) /\ SameStates(P, [P EXCEPT ![i].join_tid = v])
<1> DEFINE r == [P[i] EXCEPT !.join_tid = v]
<1>1. r \in Slot /\ r.state = P[i].state BY DEF Legal, Table, Slot
<1>2. Legal([P EXCEPT ![i] = r]) BY <1>1, LegalPut
<1>3. SameStates(P, [P EXCEPT ![i] = r]) BY <1>1 DEF SameStates, Legal, Table
<1> QED BY <1>2, <1>3

LEMMA LegalEax ==
  ASSUME NEW P, Legal(P), NEW i \in Slots, NEW v \in Int, current \in Slots
  PROVE  Legal([P EXCEPT ![i].eax = v]) /\ SameStates(P, [P EXCEPT ![i].eax = v])
<1> DEFINE r == [P[i] EXCEPT !.eax = v]
<1>1. r \in Slot /\ r.state = P[i].state BY DEF Legal, Table, Slot
<1>2. Legal([P EXCEPT ![i] = r]) BY <1>1, LegalPut
<1>3. SameStates(P, [P EXCEPT ![i] = r]) BY <1>1 DEF SameStates, Legal, Table
<1> QED BY <1>2, <1>3

LEMMA LegalRewound ==
  ASSUME NEW P, Legal(P), NEW i \in Slots, NEW v \in BOOLEAN, current \in Slots
  PROVE  Legal([P EXCEPT ![i].rewound = v]) /\ SameStates(P, [P EXCEPT ![i].rewound = v])
<1> DEFINE r == [P[i] EXCEPT !.rewound = v]
<1>1. r \in Slot /\ r.state = P[i].state BY DEF Legal, Table, Slot
<1>2. Legal([P EXCEPT ![i] = r]) BY <1>1, LegalPut
<1>3. SameStates(P, [P EXCEPT ![i] = r]) BY <1>1 DEF SameStates, Legal, Table
<1> QED BY <1>2, <1>3

LEMMA LegalCall ==
  ASSUME NEW P, Legal(P), NEW i \in Slots, NEW v \in {"none", "waitpid", "join", "sleep"}, current \in Slots
  PROVE  Legal([P EXCEPT ![i].call = v]) /\ SameStates(P, [P EXCEPT ![i].call = v])
<1> DEFINE r == [P[i] EXCEPT !.call = v]
<1>1. r \in Slot /\ r.state = P[i].state BY DEF Legal, Table, Slot
<1>2. Legal([P EXCEPT ![i] = r]) BY <1>1, LegalPut
<1>3. SameStates(P, [P EXCEPT ![i] = r]) BY <1>1 DEF SameStates, Legal, Table
<1> QED BY <1>2, <1>3

LEMMA LegalArg ==
  ASSUME NEW P, Legal(P), NEW i \in Slots, NEW v \in Nat, current \in Slots
  PROVE  Legal([P EXCEPT ![i].arg = v]) /\ SameStates(P, [P EXCEPT ![i].arg = v])
<1> DEFINE r == [P[i] EXCEPT !.arg = v]
<1>1. r \in Slot /\ r.state = P[i].state BY DEF Legal, Table, Slot
<1>2. Legal([P EXCEPT ![i] = r]) BY <1>1, LegalPut
<1>3. SameStates(P, [P EXCEPT ![i] = r]) BY <1>1 DEF SameStates, Legal, Table
<1> QED BY <1>2, <1>3

LEMMA LegalStatus ==
  ASSUME NEW P, Legal(P), NEW i \in Slots, NEW v \in Int, current \in Slots
  PROVE  Legal([P EXCEPT ![i].status = v]) /\ SameStates(P, [P EXCEPT ![i].status = v])
<1> DEFINE r == [P[i] EXCEPT !.status = v]
<1>1. r \in Slot /\ r.state = P[i].state BY DEF Legal, Table, Slot
<1>2. Legal([P EXCEPT ![i] = r]) BY <1>1, LegalPut
<1>3. SameStates(P, [P EXCEPT ![i] = r]) BY <1>1 DEF SameStates, Legal, Table
<1> QED BY <1>2, <1>3

-----------------------------------------------------------------------------
(***************************************************************************)
(* The tables the handlers build.                                          *)
(***************************************************************************)
LEMMA ProcLegal ==
  ASSUME TypeOK PROVE Legal(proc)
BY DEF TypeOK, Legal, Table

LEMMA LegalEntered ==
  ASSUME NEW P, Legal(P), current \in Slots
  PROVE  /\ Legal(Entered(P))
         /\ SameStates(P, Entered(P))
         /\ \A s \in Slots : Entered(P)[s].pid = P[s].pid
<1> DEFINE P1 == [P EXCEPT ![current].call = "none"]
           P2 == [P1 EXCEPT ![current].arg = 0]
           P3 == [P2 EXCEPT ![current].eax = 0]
           P4 == [P3 EXCEPT ![current].status = NoStatus]
<1> HIDE DEF P1, P2, P3, P4
<1>0. 0 \in Nat /\ NoStatus \in Int BY DEF NoStatus
<1>1. Legal(P1) BY LegalCall DEF P1
<1>2. Legal(P2) BY <1>0, <1>1, LegalArg DEF P2
<1>3. Legal(P3) BY <1>2, LegalEax DEF P3
<1>4. Legal(P4) BY <1>0, <1>3, LegalStatus DEF P4
<1>5. Entered(P) = P4 BY DEF Entered, P1, P2, P3, P4
<1>6. SameStates(P, Entered(P)) /\ \A s \in Slots : Entered(P)[s].pid = P[s].pid
  BY DEF Entered, SameStates, Legal, Table, Slot
<1> QED BY <1>4, <1>5, <1>6

LEMMA ClearType == ClearProcess \in Slot /\ ClearProcess.state = "UNUSED"
BY ProcessAssumption DEF ClearProcess, Slot, States, PriorityDefault, WaitAny, NoStatus

LEMMA NewProcessType ==
  ASSUME NEW pid \in 0 .. MaxPid, NEW parent_pid \in 0 .. MaxPid, NEW tgid \in 0 .. MaxPid,
         NEW tid \in Nat, NEW priority \in 0 .. Levels - 1
  PROVE  /\ NewProcess(pid, parent_pid, tgid, tid, priority) \in Slot
         /\ NewProcess(pid, parent_pid, tgid, tid, priority).state = "READY"
         /\ [NewProcess(pid, parent_pid, tgid, tid, priority) EXCEPT !.is_thread = TRUE] \in Slot
<1>1. Quantum[priority] \in Nat BY ProcessAssumption
<1>2. ClearProcess \in Slot BY ClearType
<1> QED BY <1>1, <1>2 DEF NewProcess, Slot, States

LEMMA LegalReap ==
  ASSUME NEW P, Legal(P), NEW i \in Slots, current \in Slots, Runs(P)
  PROVE  Legal(ReapProcess(P, i)) /\ Runs(ReapProcess(P, i))
<1>1. CASE P[i].state = "ZOMBIE"
  <2>1. Legal([P EXCEPT ![i] = ClearProcess]) /\ Runs([P EXCEPT ![i] = ClearProcess])
    BY <1>1, ClearType DEF Legal, Table, Runs
  <2> QED BY <1>1, <2>1 DEF ReapProcess
<1>2. CASE P[i].state # "ZOMBIE" BY <1>2 DEF ReapProcess
<1> QED BY <1>1, <1>2

LEMMA FirstIn == \A S : First(S) \subseteq S
BY DEF First

LEMMA LegalWoken ==
  ASSUME NEW P, Legal(P), NEW ch, current \in Slots, Runs(P)
  PROVE  Legal(Woken(P, ch)) /\ Runs(Woken(P, ch))
<1>1. \A i \in Slots : P[i] \in Slot BY DEF Legal, Table
<1>2. \A i \in Slots : [P[i] EXCEPT !.wait_channel = NoChannel, !.state = "READY"] \in Slot
  <2> SUFFICES ASSUME NEW i \in Slots
               PROVE  [P[i] EXCEPT !.wait_channel = NoChannel, !.state = "READY"] \in Slot
    OBVIOUS
  <2> DEFINE p1 == [P[i] EXCEPT !.wait_channel = NoChannel]
             p2 == [p1 EXCEPT !.state = "READY"]
  <2> HIDE DEF p1, p2
  <2>1. p1 \in Slot BY <1>1 DEF p1, Slot
  <2>2. p2 \in Slot BY <2>1 DEF p2, Slot, States
  <2>3. [P[i] EXCEPT !.wait_channel = NoChannel, !.state = "READY"] = p2 BY DEF p1, p2
  <2> QED BY <2>2, <2>3
<1>3. Woken(P, ch) \in Table BY <1>1, <1>2 DEF Woken, Table
<1>4. \A i \in Slots : Woken(P, ch)[i].state \in {P[i].state, "READY"}
  BY <1>1 DEF Woken, Slot
<1>5. P[current].state = "RUNNING" => Woken(P, ch)[current].state = "RUNNING"
  BY <1>1 DEF Woken
<1> QED BY <1>3, <1>4, <1>5 DEF Legal, Runs

LEMMA LegalKilled ==
  ASSUME NEW P, Legal(P), NEW i \in Slots \ {Bootstrap}, NEW code \in Nat, current \in Slots
  PROVE  /\ Legal(Killed(P, i, code))
         /\ \A j \in Slots \ {i} : Killed(P, i, code)[j] = P[j]
         /\ Killed(P, i, code)[i].state = "ZOMBIE"
<1> DEFINE P1 == [P EXCEPT ![i].exit_code = code]
           P2 == [P1 EXCEPT ![i].state = "ZOMBIE"]
<1> HIDE DEF P1, P2
<1>1. Legal(P1) BY LegalExitCode DEF P1
<1>2. "ZOMBIE" \in States \ {"RUNNING"} BY DEF States
<1>3. i = current => current # Bootstrap OBVIOUS
<1>4. Legal(P2) BY <1>1, <1>2, <1>3, LegalState DEF P2
<1>5. Killed(P, i, code) = P2 BY DEF Killed, P1, P2
<1>6. \A j \in Slots \ {i} : P2[j] = P[j] BY DEF P1, P2, Legal, Table
<1>7. P2[i].state = "ZOMBIE" BY DEF P1, P2, Legal, Table, Slot
<1> QED BY <1>4, <1>5, <1>6, <1>7

LEMMA LegalWakeParent ==
  ASSUME NEW P, Legal(P), NEW c \in Slots, current \in Slots,
         P[current].state # "WAITING" \/ proc[current].state # "RUNNING"
  PROVE  /\ Legal(WakeWaitingParent(P, c))
         /\ Runs(P) => Runs(WakeWaitingParent(P, c))
<1> DEFINE W == WakeWaitingParent(P, c)
           Wakes(i) == [P[i] EXCEPT !.eax = P[c].pid,
                       !.status = IF P[i].wait_status THEN P[c].exit_code ELSE @,
                       !.wait_pid = 0, !.wait_status = FALSE,
                       !.wait_channel = NoChannel, !.state = "READY"]
<1>1. \A i \in Slots : P[i] \in Slot BY DEF Legal, Table
<1>2. ASSUME NEW i \in Slots PROVE Wakes(i) \in Slot /\ Wakes(i).state = "READY"
  <2> DEFINE p1 == [P[i] EXCEPT !.eax = P[c].pid]
             p2 == [p1 EXCEPT !.status = IF P[i].wait_status THEN P[c].exit_code ELSE @]
             p3 == [p2 EXCEPT !.wait_pid = 0]
             p4 == [p3 EXCEPT !.wait_status = FALSE]
             p5 == [p4 EXCEPT !.wait_channel = NoChannel]
             p6 == [p5 EXCEPT !.state = "READY"]
  <2> HIDE DEF p1, p2, p3, p4, p5, p6
  <2>1. p1 \in Slot BY <1>1 DEF p1, Slot
  <2>2. p2 \in Slot BY <1>1, <2>1 DEF p2, Slot
  <2>0. 0 \in 0 .. MaxPid BY ProcessAssumption
  <2>3. p3 \in Slot BY <2>0, <2>2 DEF p3, Slot
  <2>4. p4 \in Slot BY <2>3 DEF p4, Slot
  <2>5. p5 \in Slot BY <2>4 DEF p5, Slot
  <2>6. p6 \in Slot /\ p6.state = "READY" BY <2>5 DEF p6, Slot, States
  <2>7. Wakes(i) = p6 BY DEF p1, p2, p3, p4, p5, p6
  <2> HIDE DEF Wakes
  <2> QED BY <2>6, <2>7
<1>3. ASSUME NEW i \in Slots
      PROVE  /\ [P[i] EXCEPT !.reap_pending = TRUE] \in Slot
             /\ [P[i] EXCEPT !.reap_pending = TRUE].state = P[i].state
  BY <1>1, ReapPut
<1>4. WaitingParent(P, c) \subseteq {i \in Slots : P[i].state = "WAITING"}
  BY FirstIn DEF WaitingParent, UserSlots
<1>5. ASSUME NEW i \in Slots
      PROVE  /\ W[i] \in Slot
             /\ W[i].state \in {P[i].state, "READY"}
             /\ P[i].state # "WAITING" => W[i].state = P[i].state
  <2> HIDE DEF Wakes
  <2>1. W[i] = IF i \in WaitingParent(P, c) THEN Wakes(i)
               ELSE IF i = c /\ WaitingParent(P, c) # {}
                    THEN [P[i] EXCEPT !.reap_pending = TRUE] ELSE P[i]
    BY DEF WakeWaitingParent, Wakes
  <2>2. CASE i \in WaitingParent(P, c) BY <2>1, <2>2, <1>2, <1>4
  <2>3. CASE i \notin WaitingParent(P, c) BY <2>1, <2>3, <1>1, <1>3
  <2> QED BY <2>2, <2>3
<1>6. W \in Table BY <1>5 DEF WakeWaitingParent, Table
<1> HIDE DEF W
<1>7. Legal(W) /\ (Runs(P) => Runs(W)) BY <1>5, <1>6 DEF Legal, Runs
<1> QED BY <1>7 DEF W

LEMMA LegalWakeJoiner ==
  ASSUME NEW P, Legal(P), NEW c \in Slots, current \in Slots,
         P[current].state # "WAITING" \/ proc[current].state # "RUNNING"
  PROVE  /\ Legal(WakeJoiner(P, c))
         /\ Runs(P) => Runs(WakeJoiner(P, c))
<1> DEFINE W == WakeJoiner(P, c)
           Wakes(i) == [P[i] EXCEPT !.eax = P[c].tid, !.status = P[c].exit_code,
                                    !.join_tid = 0, !.state = "READY"]
<1>1. \A i \in Slots : P[i] \in Slot BY DEF Legal, Table
<1>2. ASSUME NEW i \in Slots PROVE Wakes(i) \in Slot /\ Wakes(i).state = "READY"
  <2> DEFINE p1 == [P[i] EXCEPT !.eax = P[c].tid]
             p2 == [p1 EXCEPT !.status = P[c].exit_code]
             p3 == [p2 EXCEPT !.join_tid = 0]
             p4 == [p3 EXCEPT !.state = "READY"]
  <2> HIDE DEF p1, p2, p3, p4
  <2>1. p1 \in Slot BY <1>1 DEF p1, Slot
  <2>2. p2 \in Slot BY <1>1, <2>1 DEF p2, Slot
  <2>3. p3 \in Slot BY <2>2 DEF p3, Slot
  <2>4. p4 \in Slot /\ p4.state = "READY" BY <2>3 DEF p4, Slot, States
  <2>5. Wakes(i) = p4 BY DEF p1, p2, p3, p4
  <2> HIDE DEF Wakes
  <2> QED BY <2>4, <2>5
<1>3. Joiner(P, c) \subseteq {i \in Slots : P[i].state = "WAITING"}
  BY FirstIn DEF Joiner, UserSlots
<1>4. ASSUME NEW i \in Slots
      PROVE  /\ W[i] \in Slot
             /\ W[i].state \in {P[i].state, "READY"}
             /\ P[i].state # "WAITING" => W[i].state = P[i].state
  <2> HIDE DEF Wakes
  <2>1. W[i] = IF i \in Joiner(P, c) THEN Wakes(i) ELSE P[i]
    BY DEF WakeJoiner, Wakes
  <2> QED BY <2>1, <1>1, <1>2, <1>3
<1>5. W \in Table BY <1>4 DEF WakeJoiner, Table
<1> HIDE DEF W
<1>6. Legal(W) /\ (Runs(P) => Runs(W)) BY <1>4, <1>5 DEF Legal, Runs
<1> QED BY <1>6 DEF W

LEMMA LegalDied ==
  ASSUME NEW P, Legal(P), NEW i \in Slots \ {Bootstrap}, NEW code \in Nat, current \in Slots,
         Runs(P)
  PROVE  /\ Legal(Died(P, i, code))
         /\ i # current => Runs(Died(P, i, code))
<1> DEFINE Q == Killed(P, i, code)
<1>1. Legal(Q) /\ (i # current => Runs(Q)) BY LegalKilled DEF Runs
<1>2. Q[current].state # "WAITING" \/ proc[current].state # "RUNNING" BY LegalKilled DEF Runs
<1> HIDE DEF Q
<1>3. /\ Legal(WakeJoiner(Q, i)) /\ (Runs(Q) => Runs(WakeJoiner(Q, i)))
      /\ Legal(WakeWaitingParent(Q, i)) /\ (Runs(Q) => Runs(WakeWaitingParent(Q, i)))
  BY <1>1, <1>2, LegalWakeJoiner, LegalWakeParent
<1> QED BY <1>1, <1>3 DEF Died, Q

LEMMA LegalWaits ==
  ASSUME TypeOK, NEW pid \in 0 .. MaxPid
  PROVE  Legal(Waits(proc, pid)) /\ SameStates(proc, Waits(proc, pid))
<1> DEFINE P1 == Entered(proc)
           P2 == [P1 EXCEPT ![current].call = "waitpid"]
           P3 == [P2 EXCEPT ![current].arg = pid]
<1> HIDE DEF P1, P2, P3
<1>0. current \in Slots /\ pid \in Nat BY DEF TypeOK
<1>1. Legal(P1) /\ SameStates(proc, P1) BY <1>0, ProcLegal, LegalEntered DEF P1
<1>2. Legal(P2) /\ SameStates(P1, P2) BY <1>0, <1>1, LegalCall DEF P2
<1>3. Legal(P3) /\ SameStates(P2, P3) BY <1>0, <1>2, LegalArg DEF P3
<1>4. Waits(proc, pid) = P3 BY DEF Waits, P1, P2, P3
<1> QED BY <1>1, <1>2, <1>3, <1>4 DEF SameStates

LEMMA LegalJoins ==
  ASSUME TypeOK, NEW tid \in Nat
  PROVE  Legal(Joins(proc, tid)) /\ SameStates(proc, Joins(proc, tid))
<1> DEFINE P1 == Entered(proc)
           P2 == [P1 EXCEPT ![current].call = "join"]
           P3 == [P2 EXCEPT ![current].arg = tid]
<1> HIDE DEF P1, P2, P3
<1>0. current \in Slots BY DEF TypeOK
<1>1. Legal(P1) /\ SameStates(proc, P1) BY <1>0, ProcLegal, LegalEntered DEF P1
<1>2. Legal(P2) /\ SameStates(P1, P2) BY <1>0, <1>1, LegalCall DEF P2
<1>3. Legal(P3) /\ SameStates(P2, P3) BY <1>0, <1>2, LegalArg DEF P3
<1>4. Joins(proc, tid) = P3 BY DEF Joins, P1, P2, P3
<1> QED BY <1>1, <1>2, <1>3, <1>4 DEF SameStates

-----------------------------------------------------------------------------
(***************************************************************************)
(* The scheduler.  SchedInv is inductive; that the current slot runs       *)
(* survives a step where process_lock is free (Stays), and is kept apart   *)
(* because a program composed with the table may go on without it: a short *)
(* pipe_write marks its caller as asleep and returns to it.                *)
(***************************************************************************)
SchedInv == TypeOK /\ OneRunning

\* What every handler establishes of the table, the processor and the flag.
Kept ==
  /\ proc' \in Table
  /\ current' \in Slots
  /\ resched' \in BOOLEAN
  /\ OneRunning'
  /\ CurrentRuns => Contended \/ CurrentRuns'

\* What every handler's step establishes.
Stays == SchedInv' /\ (CurrentRuns => Contended \/ CurrentRuns')

LEMMA ChargeKeeps ==
  ASSUME NEW P \in Table, NEW flag \in BOOLEAN, current \in Slots
  PROVE  Charge(P, flag) \in Table /\ SameStates(P, Charge(P, flag))
<1> DEFINE lower == IF ~flag /\ P[current].priority + 1 < Levels
                    THEN P[current].priority + 1 ELSE P[current].priority
           p1 == [P[current] EXCEPT !.ticks_used = 0]
           p2 == [p1 EXCEPT !.priority = lower]
<1>0. lower \in 0 .. Levels - 1 /\ 0 \in Nat
  <2>1. P[current].priority \in 0 .. Levels - 1 BY DEF Table, Slot
  <2>2. Levels \in Nat BY ProcessAssumption
  <2> QED BY <2>1, <2>2
<1> HIDE DEF lower, p1, p2
<1>1. p1 \in Slot /\ p1.state = P[current].state BY <1>0 DEF p1, Table, Slot
<1>2. p2 \in Slot /\ p2.state = p1.state BY <1>0, <1>1 DEF p2, Slot
<1>3. CASE ~Running(P) BY <1>3 DEF Charge, SameStates
<1>4. CASE Running(P)
  <2>1. Charge(P, flag) = [P EXCEPT ![current] = p2]
    BY <1>4 DEF Charge, Table, Slot, lower, p1, p2
  <2> QED BY <1>1, <1>2, <2>1 DEF SameStates, Table
<1> QED BY <1>3, <1>4

\* The slots the scheduler may choose exist, and a task that cannot go on always gives way.
LEMMA SuccessorIn ==
  ASSUME NEW P
  PROVE  /\ Successor(P) \subseteq Slots
         /\ P[current].state \in {"ZOMBIE", "WAITING"} => Successor(P) # {}
BY SlotZero DEF Successor, NextReady

\* A switch leaves the chosen slot RUNNING, and it alone.
LEMMA SwitchKeeps ==
  ASSUME NEW P \in Table, NEW n \in Slots, current \in Slots,
         \A s \in Slots : P[s].state = "RUNNING" => s = current
  PROVE  /\ SwitchTo(P, n) \in Table
         /\ SwitchTo(P, n)[n].state = "RUNNING"
         /\ \A s \in Slots : SwitchTo(P, n)[s].state = "RUNNING" => s = n
<1> DEFINE put == IF Running(P) THEN [P EXCEPT ![current].state = "READY"] ELSE P
           run == [put EXCEPT ![n].state = "RUNNING"]
<1>1. put \in Table /\ \A s \in Slots : put[s].state # "RUNNING"
  <2>1. CASE Running(P)
    <3>1. /\ [P[current] EXCEPT !.state = "READY"] \in Slot
          /\ [P[current] EXCEPT !.state = "READY"].state = "READY"
      <4>1. P[current] \in Slot /\ "READY" \in States BY DEF Table, States
      <4> QED BY <4>1, StatePut
    <3>2. put = [P EXCEPT ![current] = [P[current] EXCEPT !.state = "READY"]] BY <2>1
    <3> HIDE DEF put
    <3> QED BY <3>1, <3>2 DEF Table
  <2>2. CASE ~Running(P) BY <2>2 DEF Running
  <2> QED BY <2>1, <2>2
<1> HIDE DEF put
<1>2. /\ run \in Table /\ run[n].state = "RUNNING"
      /\ \A s \in Slots : run[s].state = "RUNNING" => s = n
  <2>1. put[n] \in Slot /\ "RUNNING" \in States BY <1>1 DEF Table, States
  <2>2. /\ [put[n] EXCEPT !.state = "RUNNING"] \in Slot
        /\ [put[n] EXCEPT !.state = "RUNNING"].state = "RUNNING"
    BY <2>1, StatePut
  <2> QED BY <1>1, <2>2 DEF Table
<1>3. SwitchTo(P, n) = IF P[current].reap_pending THEN ReapProcess(run, current) ELSE run
  BY DEF SwitchTo, put
<1> HIDE DEF run
<1>4. CASE P[current].reap_pending /\ run[current].state = "ZOMBIE"
  <2>1. SwitchTo(P, n) = [run EXCEPT ![current] = ClearProcess]
    BY <1>3, <1>4 DEF ReapProcess
  <2>2. n # current BY <1>2, <1>4
  <2> QED BY <1>2, <2>1, <2>2, ClearType DEF Table
<1>5. CASE ~(P[current].reap_pending /\ run[current].state = "ZOMBIE")
  <2>1. SwitchTo(P, n) = run BY <1>3, <1>5 DEF ReapProcess
  <2> QED BY <1>2, <2>1
<1> QED BY <1>4, <1>5

\* Whatever legal table a handler leaves, process_schedule keeps the invariant.
LEMMA ScheduleKeeps ==
  ASSUME SchedInv, NEW P, Legal(P), NEW flag \in BOOLEAN, Schedule(P, flag)
  PROVE  Kept
<1> DEFINE Q == Charge(P, flag)
<1>0. P \in Table /\ current \in Slots BY DEF SchedInv, TypeOK, Legal
<1>1. \A s \in Slots : P[s].state = "RUNNING" => s = current
  BY DEF SchedInv, OneRunning, Legal
<1>2. CurrentRuns => P[current].state \in {"RUNNING", "ZOMBIE", "WAITING"}
  BY DEF CurrentRuns, Legal
<1>3. Q \in Table /\ SameStates(P, Q) BY <1>0, ChargeKeeps
<1>4. (flag /\ ~Running(P)) \in BOOLEAN OBVIOUS
<1>5. CASE Contended /\ proc' = P /\ resched' = flag /\ UNCHANGED current
  BY <1>0, <1>1, <1>5 DEF Kept, OneRunning
<1>6. CASE /\ HasSliceLeft(P, flag)
           /\ proc' = [P EXCEPT ![current].ticks_used = @ + 1]
           /\ resched' = FALSE
           /\ UNCHANGED current
  <2> DEFINE r == [P[current] EXCEPT !.ticks_used = P[current].ticks_used + 1]
  <2>0. P[current].ticks_used + 1 \in Nat BY <1>0 DEF Table, Slot
  <2>1. r \in Slot /\ r.state = P[current].state BY <1>0, <2>0 DEF Table, Slot
  <2>2. proc' = [P EXCEPT ![current] = r] BY <1>6
  <2> HIDE DEF r
  <2>3. proc' \in Table /\ SameStates(P, proc') BY <1>0, <2>1, <2>2 DEF SameStates, Table
  <2>4. P[current].state = "RUNNING" BY <1>6 DEF HasSliceLeft, Running
  <2> QED BY <1>0, <1>1, <1>6, <2>3, <2>4 DEF Kept, SameStates, OneRunning, CurrentRuns
<1>7. CASE /\ resched' = (flag /\ ~Running(P))
           /\ Successor(Q) = {}
           /\ proc' = Q
           /\ UNCHANGED current
  <2>1. CurrentRuns => Q[current].state = "RUNNING"
    BY <1>0, <1>2, <1>3, <1>7, SuccessorIn DEF SameStates
  <2> QED BY <1>0, <1>1, <1>3, <1>4, <1>7, <2>1 DEF Kept, SameStates, OneRunning, CurrentRuns
<1>8. ASSUME resched' = (flag /\ ~Running(P)),
             NEW n \in Successor(Q), proc' = SwitchTo(Q, n), current' = n
      PROVE  Kept
  <2>1. n \in Slots BY SuccessorIn
  <2>2. \A s \in Slots : Q[s].state = "RUNNING" => s = current
    BY <1>1, <1>3 DEF SameStates
  <2>3. /\ proc' \in Table
        /\ proc'[n].state = "RUNNING"
        /\ \A s \in Slots : proc'[s].state = "RUNNING" => s = n
    BY <1>0, <1>3, <1>8, <2>1, <2>2, SwitchKeeps
  <2> QED BY <1>4, <1>8, <2>1, <2>3 DEF Kept, OneRunning, CurrentRuns
<1> QED BY <1>5, <1>6, <1>7, <1>8 DEF Schedule, LockedSchedule

LEMMA ReturnKeeps ==
  ASSUME SchedInv, NEW P, Legal(P), Runs(P), ReturnWith(P)
  PROVE  Kept
BY DEF SchedInv, TypeOK, OneRunning, CurrentRuns, Legal, Runs, ReturnWith, Kept

-----------------------------------------------------------------------------
(***************************************************************************)
(* One lemma per handler.                                                  *)
(***************************************************************************)
Counters ==
  /\ next_pid \in 2 .. MaxPid + 1
  /\ next_tid \in Nat
  /\ died \in [Pids -> Int]
  /\ delivered \in [Pids -> 0 .. 2]

LEMMA Assemble ==
  ASSUME Kept, Counters' PROVE Stays /\ SchedInv'
BY DEF Kept, Counters, Stays, SchedInv, TypeOK, Table

LEMMA StillCounters ==
  ASSUME SchedInv, UNCHANGED <<next_pid, next_tid, died, delivered>> PROVE Counters'
BY DEF SchedInv, TypeOK, Counters

LEMMA DeliveredType ==
  ASSUME TypeOK, NEW P, NEW i PROVE Delivered(P, i) \in [Pids -> 0 .. 2]
<1> DEFINE p == P[i].pid
           v == IF delivered[p] < 2 THEN delivered[p] + 1 ELSE delivered[p]
<1>1. delivered \in [Pids -> 0 .. 2] BY DEF TypeOK
<1>2. Delivered(P, i) = [delivered EXCEPT ![p] = v] BY DEF Delivered
<1>3. CASE p \in Pids
  <2>1. v \in 0 .. 2 BY <1>1, <1>3
  <2> HIDE DEF v
  <2> QED BY <1>1, <1>2, <2>1
<1>4. CASE p \notin Pids BY <1>1, <1>2, <1>4
<1> QED BY <1>3, <1>4

LEMMA RecordDeathType ==
  ASSUME TypeOK, NEW P, NEW i, NEW code \in Nat, RecordDeath(P, i, code)
  PROVE  died' \in [Pids -> Int] /\ delivered' \in [Pids -> 0 .. 2]
<1>1. CASE P[i].pid = 0 BY <1>1 DEF RecordDeath, TypeOK
<1>2. CASE P[i].pid # 0
  <2>1. died' = [died EXCEPT ![P[i].pid] = IF @ = NoStatus THEN code ELSE Disturbed]
    BY <1>2 DEF RecordDeath
  <2>2. delivered' \in {Delivered(P, i), delivered} BY <1>2 DEF RecordDeath
  <2>3. died' \in [Pids -> Int]
    <3> DEFINE v == IF died[P[i].pid] = NoStatus THEN code ELSE Disturbed
    <3>1. died \in [Pids -> Int] BY DEF TypeOK
    <3>2. died' = [died EXCEPT ![P[i].pid] = v] BY <2>1
    <3>3. v \in Int BY DEF Disturbed
    <3> HIDE DEF v
    <3> QED BY <3>1, <3>2, <3>3
  <2>4. delivered' \in [Pids -> 0 .. 2] BY <2>2, DeliveredType DEF TypeOK
  <2> QED BY <2>3, <2>4
<1> QED BY <1>1, <1>2

LEMMA FreeSlot ==
  ASSUME NEW s \in FindFreeSlot(proc)
  PROVE  s \in Slots /\ proc[s].state = "UNUSED"
BY FirstIn DEF FindFreeSlot

\* Putting a new, READY slot into a free one.
LEMMA LegalCreate ==
  ASSUME TypeOK, NEW P, Legal(P), SameStates(proc, P), NEW s \in FindFreeSlot(proc),
         NEW r \in Slot, r.state = "READY"
  PROVE  /\ Legal([P EXCEPT ![s] = r])
         /\ Runs([P EXCEPT ![s] = r])
<1>1. s \in Slots /\ proc[s].state = "UNUSED" /\ current \in Slots BY FreeSlot DEF TypeOK
<1>2. P \in Table BY DEF Legal
<1> QED BY <1>1, <1>2 DEF Legal, Runs, SameStates, Table

LEMMA CurrentLegal ==
  ASSUME TypeOK PROVE current \in Slots /\ proc[current] \in Slot /\ Legal(proc)
BY ProcLegal DEF TypeOK

LEMMA SpawnKeeps == SchedInv /\ SpawnProcess => Stays
<1> SUFFICES ASSUME SchedInv, SpawnProcess PROVE Stays OBVIOUS
<1>0. TypeOK BY DEF SchedInv
<1>1. PICK s \in FindFreeSlot(proc) :
        ReturnWith([proc EXCEPT
          ![s] = NewProcess(next_pid, proc[current].pid, next_pid, next_tid, PriorityDefault)])
  BY DEF SpawnProcess
<1> DEFINE r == NewProcess(next_pid, proc[current].pid, next_pid, next_tid, PriorityDefault)
<1>2. r \in Slot /\ r.state = "READY"
  <2>1. next_pid \in 0 .. MaxPid /\ next_tid \in Nat BY <1>0, ProcessAssumption DEF TypeOK, SpawnProcess
  <2>2. proc[current].pid \in 0 .. MaxPid BY <1>0 DEF TypeOK, Slot
  <2>3. PriorityDefault \in 0 .. Levels - 1 BY ProcessAssumption DEF PriorityDefault
  <2> QED BY <2>1, <2>2, <2>3, NewProcessType
<1> HIDE DEF r
<1>3. Legal([proc EXCEPT ![s] = r]) /\ Runs([proc EXCEPT ![s] = r])
  BY <1>0, <1>2, CurrentLegal, LegalCreate DEF SameStates
<1>4. ReturnWith([proc EXCEPT ![s] = r]) BY <1>1 DEF r
<1>5. Kept BY <1>3, <1>4, ReturnKeeps
<1>6. Counters'
  BY <1>0, ProcessAssumption DEF TypeOK, SpawnProcess, Counters
<1> QED BY <1>5, <1>6, Assemble

LEMMA ForkKeeps == SchedInv /\ ForkCurrent => Stays
<1> SUFFICES ASSUME SchedInv, ForkCurrent PROVE Stays OBVIOUS
<1>0. TypeOK BY DEF SchedInv
<1> DEFINE parent == proc[current]
           r == NewProcess(next_pid, parent.pid, parent.thread_group_pid,
                           next_tid + 1, parent.priority)
<1>1. PICK s \in FindFreeSlot(proc) :
        ReturnWith([Entered(proc) EXCEPT ![s] = r, ![current].eax = next_pid])
  BY DEF ForkCurrent
<1>2. r \in Slot /\ r.state = "READY"
  <2>1. next_pid \in 0 .. MaxPid /\ next_tid + 1 \in Nat
    BY <1>0, ProcessAssumption DEF TypeOK, ForkCurrent
  <2>2. /\ parent.pid \in 0 .. MaxPid /\ parent.thread_group_pid \in 0 .. MaxPid
        /\ parent.priority \in 0 .. Levels - 1
    BY <1>0 DEF TypeOK, Slot
  <2> HIDE DEF parent
  <2> QED BY <2>1, <2>2, NewProcessType
<1> HIDE DEF r
<1> DEFINE P1 == [Entered(proc) EXCEPT ![s] = r]
           P2 == [P1 EXCEPT ![current].eax = next_pid]
<1> HIDE DEF P1, P2
<1>3. Legal(P1) /\ Runs(P1)
  BY <1>0, <1>2, CurrentLegal, LegalEntered, LegalCreate DEF P1
<1>4. Legal(P2) /\ SameStates(P1, P2)
  BY <1>0, <1>3, CurrentLegal, LegalEax DEF P2, TypeOK
<1>5. Runs(P2) BY <1>0, <1>3, <1>4, CurrentLegal DEF Runs, SameStates
<1>6. ReturnWith(P2) BY <1>1 DEF P1, P2
<1>7. Kept BY <1>4, <1>5, <1>6, ReturnKeeps
<1>8. Counters'
  BY <1>0, ProcessAssumption DEF TypeOK, ForkCurrent, Counters
<1> QED BY <1>7, <1>8, Assemble

LEMMA ThreadKeeps == SchedInv /\ CreateUserThread => Stays
<1> SUFFICES ASSUME SchedInv, CreateUserThread PROVE Stays OBVIOUS
<1>0. TypeOK BY DEF SchedInv
<1> DEFINE parent == proc[current]
           r == [NewProcess(0, 0, parent.thread_group_pid, next_tid, parent.priority)
                   EXCEPT !.is_thread = TRUE]
<1>1. PICK s \in FindFreeSlot(proc) :
        ReturnWith([Entered(proc) EXCEPT ![s] = r, ![current].eax = next_tid])
  BY DEF CreateUserThread
<1>2. r \in Slot /\ r.state = "READY"
  <2>1. 0 \in 0 .. MaxPid /\ next_tid \in Nat BY <1>0, ProcessAssumption DEF TypeOK
  <2>2. /\ parent.thread_group_pid \in 0 .. MaxPid /\ parent.priority \in 0 .. Levels - 1
    BY <1>0 DEF TypeOK, Slot
  <2> HIDE DEF parent
  <2> DEFINE q == NewProcess(0, 0, parent.thread_group_pid, next_tid, parent.priority)
  <2>3. q \in Slot /\ q.state = "READY" BY <2>1, <2>2, NewProcessType
  <2> HIDE DEF q
  <2>4. [q EXCEPT !.is_thread = TRUE] \in Slot /\ [q EXCEPT !.is_thread = TRUE].state = q.state
    BY <2>3 DEF Slot
  <2> QED BY <2>3, <2>4 DEF q
<1> HIDE DEF r
<1> DEFINE P1 == [Entered(proc) EXCEPT ![s] = r]
           P2 == [P1 EXCEPT ![current].eax = next_tid]
<1> HIDE DEF P1, P2
<1>3. Legal(P1) /\ Runs(P1)
  BY <1>0, <1>2, CurrentLegal, LegalEntered, LegalCreate DEF P1
<1>4. Legal(P2) /\ SameStates(P1, P2)
  BY <1>0, <1>3, CurrentLegal, LegalEax DEF P2, TypeOK
<1>5. Runs(P2) BY <1>0, <1>3, <1>4, CurrentLegal DEF Runs, SameStates
<1>6. ReturnWith(P2) BY <1>1 DEF P1, P2
<1>7. Kept BY <1>4, <1>5, <1>6, ReturnKeeps
<1>8. Counters' BY <1>0 DEF TypeOK, CreateUserThread, Counters
<1> QED BY <1>7, <1>8, Assemble

LEMMA OtherKeeps == SchedInv /\ OtherSyscall => Stays
<1> SUFFICES ASSUME SchedInv, OtherSyscall PROVE Stays OBVIOUS
<1>0. TypeOK BY DEF SchedInv
<1>1. Legal(Entered(proc)) /\ Runs(Entered(proc))
  BY <1>0, CurrentLegal, LegalEntered DEF Runs, SameStates
<1>2. Kept BY <1>1, ReturnKeeps DEF OtherSyscall
<1>3. Counters' BY StillCounters DEF OtherSyscall
<1> QED BY <1>2, <1>3, Assemble

LEMMA ExecKeeps == SchedInv /\ ExecReplaceCurrent => Stays
<1> SUFFICES ASSUME SchedInv, ExecReplaceCurrent PROVE Stays OBVIOUS
<1>0. TypeOK /\ current \in Slots /\ 0 \in Nat BY DEF SchedInv, TypeOK
<1>1. 0 \in 0 .. MaxPid BY ProcessAssumption
<1> DEFINE P0 == Entered(proc)
           P1 == [P0 EXCEPT ![current].exit_code = 0]
           P2 == [P1 EXCEPT ![current].wait_pid = 0]
           P3 == [P2 EXCEPT ![current].wait_status = FALSE]
           P4 == [P3 EXCEPT ![current].reap_pending = FALSE]
<1> HIDE DEF P0, P1, P2, P3, P4
<1>2. Legal(P0) /\ SameStates(proc, P0) BY <1>0, CurrentLegal, LegalEntered DEF P0
<1>3. Legal(P1) /\ SameStates(P0, P1) BY <1>0, <1>2, LegalExitCode DEF P1
<1>4. Legal(P2) /\ SameStates(P1, P2) BY <1>0, <1>1, <1>3, LegalWaitPid DEF P2
<1>5. Legal(P3) /\ SameStates(P2, P3) BY <1>0, <1>4, LegalWaitStatus DEF P3
<1>6. Legal(P4) /\ SameStates(P3, P4) BY <1>0, <1>5, LegalReapPending DEF P4
<1>7. Runs(P4) BY <1>0, <1>2, <1>3, <1>4, <1>5, <1>6 DEF Runs, SameStates
<1>8. ReturnWith(P4) BY DEF ExecReplaceCurrent, P0, P1, P2, P3, P4
<1>9. Kept BY <1>6, <1>7, <1>8, ReturnKeeps
<1>10. Counters' BY StillCounters DEF ExecReplaceCurrent
<1> QED BY <1>9, <1>10, Assemble

LEMMA WaitKeeps ==
  ASSUME SchedInv, NEW pid \in 0 .. MaxPid, WaitPid(pid) PROVE Stays
<1>0. TypeOK /\ current \in Slots BY DEF SchedInv, TypeOK
<1> DEFINE P0 == Waits(proc, pid)
<1> HIDE DEF P0
<1>1. Legal(P0) /\ SameStates(proc, P0) BY <1>0, LegalWaits DEF P0
<1>2. ASSUME WaitCollects(pid) PROVE Kept /\ delivered' \in [Pids -> 0 .. 2]
  <2>1. PICK z \in FindZombieChild(proc, proc[current].pid, pid) :
          /\ ReturnWith(ReapProcess([P0 EXCEPT
               ![current].eax = proc[z].pid, ![current].status = proc[z].exit_code], z))
          /\ delivered' = IF proc[z].pid = 0 THEN delivered ELSE Delivered(proc, z)
    BY <1>2 DEF WaitCollects, P0
  <2>2. z \in Slots BY FirstIn DEF FindZombieChild, UserSlots
  <2>3. proc[z].pid \in Int /\ proc[z].exit_code \in Int BY <1>0, <2>2 DEF TypeOK, Slot
  <2> DEFINE P1 == [P0 EXCEPT ![current].eax = proc[z].pid]
             P2 == [P1 EXCEPT ![current].status = proc[z].exit_code]
  <2> HIDE DEF P1, P2
  <2>4. Legal(P1) /\ SameStates(P0, P1) BY <1>0, <1>1, <2>3, LegalEax DEF P1
  <2>5. Legal(P2) /\ SameStates(P1, P2) BY <1>0, <2>3, <2>4, LegalStatus DEF P2
  <2>6. Runs(P2) BY <1>0, <1>1, <2>4, <2>5 DEF Runs, SameStates
  <2>7. Legal(ReapProcess(P2, z)) /\ Runs(ReapProcess(P2, z))
    BY <1>0, <2>2, <2>5, <2>6, LegalReap
  <2>8. ReturnWith(ReapProcess(P2, z)) BY <2>1 DEF P1, P2
  <2>9. delivered' \in [Pids -> 0 .. 2] BY <1>0, <2>1, DeliveredType DEF TypeOK
  <2> QED BY <2>7, <2>8, <2>9, ReturnKeeps
<1>3. ASSUME WaitFails(pid) PROVE Kept /\ delivered' \in [Pids -> 0 .. 2]
  <2> DEFINE P1 == [P0 EXCEPT ![current].eax = SysErr]
  <2> HIDE DEF P1
  <2>1. SysErr \in Int BY DEF SysErr
  <2>2. Legal(P1) /\ SameStates(P0, P1) BY <1>0, <1>1, <2>1, LegalEax DEF P1
  <2>3. Runs(P1) BY <1>0, <1>1, <2>2 DEF Runs, SameStates
  <2>4. ReturnWith(P1) BY <1>3 DEF WaitFails, P0, P1
  <2>5. delivered' \in [Pids -> 0 .. 2] BY <1>0, <1>3 DEF WaitFails, TypeOK
  <2> QED BY <2>2, <2>3, <2>4, <2>5, ReturnKeeps
<1>4. ASSUME WaitBlocks(pid) PROVE Kept /\ delivered' \in [Pids -> 0 .. 2]
  <2> DEFINE P1 == [P0 EXCEPT ![current].eax = Blocked]
             P2 == [P1 EXCEPT ![current].state = "WAITING"]
             P3 == [P2 EXCEPT ![current].wait_pid = pid]
             P4 == [P3 EXCEPT ![current].wait_status = TRUE]
             P5 == [P4 EXCEPT ![current].wait_channel = NoChannel]
  <2> HIDE DEF P1, P2, P3, P4, P5
  <2>0. Blocked \in Int BY DEF Blocked
  <2>1. current # Bootstrap BY DEF WaitPid, Issues, InUser
  <2>2. Legal(P1) BY <1>0, <1>1, <2>0, LegalEax DEF P1
  <2>3. Legal(P2) BY <1>0, <2>1, <2>2, LegalState DEF P2, States
  <2>4. Legal(P3) BY <1>0, <2>3, LegalWaitPid DEF P3
  <2>5. Legal(P4) BY <1>0, <2>4, LegalWaitStatus DEF P4
  <2>6. Legal(P5) BY <1>0, <2>5, LegalWaitChannel DEF P5
  <2>7. Schedule(P5, TRUE) BY <1>4 DEF WaitBlocks, P0, P1, P2, P3, P4, P5
  <2>8. delivered' \in [Pids -> 0 .. 2] BY <1>0, <1>4 DEF WaitBlocks, TypeOK
  <2> QED BY <2>6, <2>7, <2>8, ScheduleKeeps
<1>5. Kept /\ delivered' \in [Pids -> 0 .. 2] BY <1>2, <1>3, <1>4 DEF WaitPid
<1>6. Counters' BY <1>0, <1>5 DEF WaitPid, TypeOK, Counters
<1> QED BY <1>5, <1>6, Assemble

LEMMA ExitKeeps ==
  ASSUME SchedInv, NEW code \in ExitCodes, ExitCurrent(code) PROVE Stays
<1>0. TypeOK /\ current \in Slots \ {Bootstrap} BY DEF SchedInv, TypeOK, ExitCurrent, Issues, InUser
<1>1. code \in Nat BY ProcessAssumption
<1>2. Legal(Entered(proc)) /\ Runs(Entered(proc))
  BY <1>0, CurrentLegal, LegalEntered DEF Runs, SameStates
<1>3. Legal(Died(Entered(proc), current, code)) BY <1>0, <1>1, <1>2, LegalDied
<1>4. Kept BY <1>3, ScheduleKeeps DEF ExitCurrent
<1>5. Counters' BY <1>0, <1>1, RecordDeathType DEF ExitCurrent, Counters, TypeOK
<1> QED BY <1>4, <1>5, Assemble

LEMMA FaultKeeps == SchedInv /\ FaultCurrent => Stays
<1> SUFFICES ASSUME SchedInv, FaultCurrent PROVE Stays OBVIOUS
<1>0. /\ TypeOK /\ current \in Slots \ {Bootstrap} /\ resched \in BOOLEAN
  BY DEF SchedInv, TypeOK, FaultCurrent, Issues, InUser
<1> DEFINE code == 128 + GeneralProtection
<1>1. code \in Nat BY DEF GeneralProtection
<1> HIDE DEF code
<1>2. Legal(Entered(proc)) /\ Runs(Entered(proc))
  BY <1>0, CurrentLegal, LegalEntered DEF Runs, SameStates
<1>3. Legal(Died(Entered(proc), current, code)) BY <1>0, <1>1, <1>2, LegalDied
<1>4. Schedule(Died(Entered(proc), current, code), resched) /\ RecordDeath(proc, current, code)
  BY DEF FaultCurrent, code
<1>5. Kept BY <1>0, <1>3, <1>4, ScheduleKeeps
<1>6. Counters' BY <1>0, <1>1, <1>4, RecordDeathType DEF FaultCurrent, Counters, TypeOK
<1> QED BY <1>5, <1>6, Assemble

LEMMA StoppedFields ==
  ASSUME NEW P \in Table, NEW t \in Slots
  PROVE  /\ Stopped(P, t) \in Table
         /\ \A s \in Slots \ {t} : Stopped(P, t)[s] = P[s]
         /\ LET p == P[t]  q == Stopped(P, t)[t] IN
            /\ q.state = "STOPPED" /\ q.pid = p.pid /\ q.parent_pid = p.parent_pid
            /\ q.is_thread = p.is_thread /\ q.join_tid = p.join_tid
            /\ q.eax = p.eax /\ q.arg = p.arg /\ q.status = p.status /\ q.rewound = p.rewound
            /\ q.call = IF p.state \in {"WAITING", "ZOMBIE"} THEN "none" ELSE p.call
<1> DEFINE c == IF P[t].state \in {"WAITING", "ZOMBIE"} THEN "none" ELSE P[t].call
           r == [P[t] EXCEPT !.state = "STOPPED", !.call = c]
<1>1. P[t] \in Slot BY DEF Table
<1>2. c \in {"none", "waitpid", "join", "sleep"} BY <1>1 DEF Slot
<1>3. Stopped(P, t) = [P EXCEPT ![t] = r] BY <1>1 DEF Stopped, Table, Slot
<1> HIDE DEF c
<1>4. /\ r \in Slot /\ r.state = "STOPPED" /\ r.call = c /\ r.pid = P[t].pid
      /\ r.parent_pid = P[t].parent_pid /\ r.is_thread = P[t].is_thread
      /\ r.join_tid = P[t].join_tid /\ r.eax = P[t].eax /\ r.arg = P[t].arg
      /\ r.status = P[t].status /\ r.rewound = P[t].rewound
  <2> DEFINE r1 == [P[t] EXCEPT !.state = "STOPPED"]
  <2>1. /\ r1 \in Slot /\ r1.state = "STOPPED" /\ r1.pid = P[t].pid
        /\ r1.parent_pid = P[t].parent_pid /\ r1.is_thread = P[t].is_thread
        /\ r1.join_tid = P[t].join_tid /\ r1.eax = P[t].eax /\ r1.arg = P[t].arg
        /\ r1.status = P[t].status /\ r1.rewound = P[t].rewound
    BY <1>1 DEF Slot, States
  <2>2. r = [r1 EXCEPT !.call = c] OBVIOUS
  <2> HIDE DEF r1, r
  <2> QED BY <1>2, <2>1, <2>2 DEF Slot
<1> HIDE DEF r
<1>5. Stopped(P, t)[t] = r /\ \A s \in Slots \ {t} : Stopped(P, t)[s] = P[s]
  BY <1>3 DEF Table
<1>6. Stopped(P, t) \in Table BY <1>3, <1>4 DEF Table
<1> QED BY <1>4, <1>5, <1>6 DEF c

LEMMA ReachedType ==
  ASSUME TypeOK, NEW P, NEW t PROVE Reached(P, t) \in [Pids -> Int]
<1>1. died \in [Pids -> Int] /\ Disturbed \in Int BY DEF TypeOK, Disturbed
<1> DEFINE x == P[t].pid
<1>2. [died EXCEPT ![x] = Disturbed] \in [Pids -> Int] BY <1>1
<1> QED BY <1>1, <1>2 DEF Reached

LEMMA SignalKeeps ==
  ASSUME SchedInv, NEW t \in UserSlots, NEW sig \in Signals, Signal(t, sig) PROVE Stays
<1>0. /\ TypeOK /\ current \in Slots /\ t \in Slots \ {Bootstrap}
      /\ t # current
  BY DEF SchedInv, TypeOK, UserSlots, Signal
<1>1. sig \in Nat BY ProcessAssumption
<1> DEFINE P0 == Entered(proc)
<1> HIDE DEF P0
<1>2. Legal(P0) /\ SameStates(proc, P0) /\ Runs(P0)
  BY <1>0, CurrentLegal, LegalEntered DEF Runs, SameStates, P0
<1>3. CASE ReturnWith(Died(P0, t, 128 + sig)) /\ RecordDeath(proc, t, 128 + sig)
  <2>1. 128 + sig \in Nat BY <1>1
  <2>2. Legal(Died(P0, t, 128 + sig)) /\ Runs(Died(P0, t, 128 + sig))
    BY <1>0, <1>2, <2>1, LegalDied
  <2>3. Kept BY <1>3, <2>2, ReturnKeeps
  <2>4. Counters' BY <1>0, <1>3, <2>1, RecordDeathType DEF Signal, Counters, TypeOK
  <2> QED BY <2>3, <2>4, Assemble
<1>4. ASSUME NEW v \in {P0[t].state, "READY"},
             ReturnWith([P0 EXCEPT ![t].state = v]), UNCHANGED <<died, delivered>>
      PROVE  Stays
  <2> DEFINE r == [P0[t] EXCEPT !.state = v]
  <2>1. P0[t] \in Slot BY <1>0, <1>2 DEF Legal, Table
  <2>2. v \in States BY <2>1 DEF States, Slot
  <2>3. r \in Slot /\ r.state = v BY <2>1, <2>2 DEF Slot
  <2>4. [P0 EXCEPT ![t].state = v] = [P0 EXCEPT ![t] = r] OBVIOUS
  <2> HIDE DEF r
  <2>5. Legal([P0 EXCEPT ![t] = r]) /\ Runs([P0 EXCEPT ![t] = r])
    BY <1>0, <1>2, <1>4, <2>3 DEF Legal, Runs, Table
  <2>6. Kept BY <1>4, <2>4, <2>5, ReturnKeeps
  <2>7. Counters' BY <1>4, StillCounters DEF Signal
  <2> QED BY <2>6, <2>7, Assemble
<1>5. CASE ReturnWith(Stopped(P0, t)) /\ died' = Reached(proc, t) /\ UNCHANGED delivered
  <2>1. P0 \in Table BY <1>2 DEF Legal
  <2>2. /\ Stopped(P0, t) \in Table /\ Stopped(P0, t)[t].state = "STOPPED"
        /\ \A s \in Slots \ {t} : Stopped(P0, t)[s] = P0[s]
    BY <1>0, <2>1, StoppedFields
  <2>3. Legal(Stopped(P0, t)) /\ Runs(Stopped(P0, t))
    BY <1>0, <1>2, <2>2 DEF Legal, Runs
  <2>4. Kept BY <1>5, <2>3, ReturnKeeps
  <2>5. Counters' BY <1>0, <1>5, ReachedType DEF Signal, Counters, TypeOK
  <2> QED BY <2>4, <2>5, Assemble
<1>6. CASE /\ ReturnWith([P0 EXCEPT ![t].state = IF @ = "STOPPED" THEN "READY" ELSE @])
           /\ UNCHANGED <<died, delivered>>
  <2>1. CASE P0[t].state = "STOPPED"
    <3>1. ReturnWith([P0 EXCEPT ![t].state = "READY"]) BY <1>6, <2>1
    <3> QED BY <1>4, <1>6, <3>1
  <2>2. CASE P0[t].state # "STOPPED"
    <3>1. ReturnWith([P0 EXCEPT ![t].state = P0[t].state]) BY <1>6, <2>2
    <3> QED BY <1>4, <1>6, <3>1
  <2> QED BY <2>1, <2>2
<1> QED BY <1>3, <1>5, <1>6 DEF Signal, P0

LEMMA ReapKeeps ==
  ASSUME SchedInv, NEW z \in UserSlots, ReapPid(z) PROVE Stays
<1>0. TypeOK /\ z \in Slots /\ current \in Slots BY DEF SchedInv, TypeOK, UserSlots
<1>1. Legal(ReapProcess(proc, z)) /\ Runs(ReapProcess(proc, z))
  BY <1>0, CurrentLegal, LegalReap DEF Runs
<1>2. Kept BY <1>1, ReturnKeeps DEF ReapPid
<1>3. Counters' BY <1>0, DeliveredType DEF ReapPid, TypeOK, Counters
<1> QED BY <1>2, <1>3, Assemble

LEMMA JoinKeeps ==
  ASSUME SchedInv, NEW tid \in 1 .. MaxTid, JoinThread(tid) PROVE Stays
<1>0. TypeOK /\ current \in Slots /\ tid \in Nat /\ current # Bootstrap
  BY ProcessAssumption DEF SchedInv, TypeOK, JoinThread, Issues, InUser
<1> DEFINE P0 == Joins(proc, tid)
           found == Threads(proc, proc[current].thread_group_pid, tid)
<1> HIDE DEF P0, found
<1>1. Legal(P0) /\ SameStates(proc, P0) BY <1>0, LegalJoins DEF P0
<1>2. Counters' BY StillCounters DEF JoinThread
<1>3. CASE ReturnWith([P0 EXCEPT ![current].eax = SysErr])
  <2> DEFINE P1 == [P0 EXCEPT ![current].eax = SysErr]
  <2> HIDE DEF P1
  <2>1. SysErr \in Int BY DEF SysErr
  <2>2. Legal(P1) /\ SameStates(P0, P1) BY <1>0, <1>1, <2>1, LegalEax DEF P1
  <2>3. Runs(P1) BY <1>0, <1>1, <2>2 DEF Runs, SameStates
  <2>4. Kept BY <1>3, <2>2, <2>3, ReturnKeeps DEF P1
  <2> QED BY <1>2, <2>4, Assemble
<1>4. ASSUME NEW t \in found,
             ReturnWith(ReapProcess([P0 EXCEPT
               ![current].eax = tid, ![current].status = proc[t].exit_code], t))
      PROVE  Stays
  <2> DEFINE P1 == [P0 EXCEPT ![current].eax = tid]
             P2 == [P1 EXCEPT ![current].status = proc[t].exit_code]
  <2> HIDE DEF P1, P2
  <2>1. t \in Slots BY FirstIn DEF found, Threads, UserSlots
  <2>2. proc[t].exit_code \in Int BY <1>0, <2>1 DEF TypeOK, Slot
  <2>3. Legal(P1) /\ SameStates(P0, P1) BY <1>0, <1>1, LegalEax DEF P1
  <2>4. Legal(P2) /\ SameStates(P1, P2) BY <1>0, <2>2, <2>3, LegalStatus DEF P2
  <2>5. Runs(P2) BY <1>0, <1>1, <2>3, <2>4 DEF Runs, SameStates
  <2>6. Legal(ReapProcess(P2, t)) /\ Runs(ReapProcess(P2, t))
    BY <1>0, <2>1, <2>4, <2>5, LegalReap
  <2>7. ReturnWith(ReapProcess(P2, t)) BY <1>4 DEF P1, P2
  <2>8. Kept BY <2>6, <2>7, ReturnKeeps
  <2> QED BY <1>2, <2>8, Assemble
<1>5. CASE Schedule([P0 EXCEPT ![current].eax = Blocked, ![current].join_tid = tid,
                              ![current].state = "WAITING"], TRUE)
  <2> DEFINE P1 == [P0 EXCEPT ![current].eax = Blocked]
             P2 == [P1 EXCEPT ![current].join_tid = tid]
             P3 == [P2 EXCEPT ![current].state = "WAITING"]
  <2> HIDE DEF P1, P2, P3
  <2>1. Blocked \in Int BY DEF Blocked
  <2>2. Legal(P1) BY <1>0, <1>1, <2>1, LegalEax DEF P1
  <2>3. Legal(P2) BY <1>0, <2>2, LegalJoinTid DEF P2
  <2>4. Legal(P3) BY <1>0, <2>3, LegalState DEF P3, States
  <2>5. Schedule(P3, TRUE) BY <1>5 DEF P1, P2, P3
  <2>6. Kept BY <2>4, <2>5, ScheduleKeeps
  <2> QED BY <1>2, <2>6, Assemble
<1> QED BY <1>3, <1>4, <1>5 DEF JoinThread, P0, found

LEMMA LegalSlept ==
  ASSUME TypeOK, current # Bootstrap, NEW ch \in Channels PROVE Legal(Slept(ch))
<1>0. current \in Slots BY DEF TypeOK
<1> DEFINE P0 == Entered(proc)
           P1 == [P0 EXCEPT ![current].call = "sleep"]
           P2 == [P1 EXCEPT ![current].eax = Blocked]
           P3 == [P2 EXCEPT ![current].rewound = TRUE]
           P4 == [P3 EXCEPT ![current].wait_channel = ch]
           P5 == [P4 EXCEPT ![current].state = "WAITING"]
<1> HIDE DEF P0, P1, P2, P3, P4, P5
<1>1. Blocked \in Int BY DEF Blocked
<1>2. Legal(P0) BY <1>0, CurrentLegal, LegalEntered DEF P0
<1>3. Legal(P1) BY <1>0, <1>2, LegalCall DEF P1
<1>4. Legal(P2) BY <1>0, <1>1, <1>3, LegalEax DEF P2
<1>5. Legal(P3) BY <1>0, <1>4, LegalRewound DEF P3
<1>6. Legal(P4) BY <1>0, <1>5, LegalWaitChannel DEF P4
<1>7. Legal(P5) BY <1>0, <1>6, LegalState DEF P5, States
<1> QED BY <1>7 DEF Slept, P0, P1, P2, P3, P4, P5

LEMMA SleepKeeps ==
  ASSUME SchedInv, NEW ch \in Channels, SleepOn(ch) PROVE Stays
<1>1. TypeOK /\ current # Bootstrap BY DEF SchedInv, SleepOn, Issues, InUser
<1>2. Legal(Slept(ch)) BY <1>1, LegalSlept
<1>3. Kept BY <1>2, ScheduleKeeps DEF SleepOn
<1>4. Counters' BY StillCounters DEF SleepOn
<1> QED BY <1>3, <1>4, Assemble

LEMMA ReissueKeeps == SchedInv /\ Reissue => Stays
<1> SUFFICES ASSUME SchedInv, Reissue PROVE Stays OBVIOUS
<1>0. TypeOK /\ current \in Slots BY DEF SchedInv, TypeOK
<1> DEFINE v == IF proc[current].eax = Blocked THEN SysErr ELSE 0
           P1 == [proc EXCEPT ![current].rewound = FALSE]
           P2 == [P1 EXCEPT ![current].eax = v]
<1> HIDE DEF P1, P2
<1>1. v \in Int BY DEF SysErr
<1>2. Legal(P1) /\ SameStates(proc, P1) BY <1>0, CurrentLegal, LegalRewound DEF P1
<1> HIDE DEF v
<1>3. Legal(P2) /\ SameStates(P1, P2) BY <1>0, <1>1, <1>2, LegalEax DEF P2
<1>4. Runs(P2) BY <1>0, <1>2, <1>3 DEF Runs, SameStates
<1>5. ReturnWith(P2) BY DEF Reissue, v, P1, P2
<1>6. Kept BY <1>3, <1>4, <1>5, ReturnKeeps
<1>7. Counters' BY StillCounters DEF Reissue
<1> QED BY <1>6, <1>7, Assemble

LEMMA WakeupKeeps ==
  ASSUME SchedInv, NEW ch, Wakeup(ch) \/ DeviceWakeup(ch) PROVE Stays
<1>0. TypeOK /\ current \in Slots BY DEF SchedInv, TypeOK
<1>1. /\ Legal(Entered(proc)) /\ Runs(Entered(proc))
      /\ Legal(proc) /\ Runs(proc)
  BY <1>0, CurrentLegal, LegalEntered DEF Runs, SameStates
<1>2. /\ Legal(Woken(Entered(proc), ch)) /\ Runs(Woken(Entered(proc), ch))
      /\ Legal(Woken(proc, ch)) /\ Runs(Woken(proc, ch))
  BY <1>0, <1>1, LegalWoken
<1>3. Kept BY <1>2, ReturnKeeps DEF Wakeup, DeviceWakeup
<1>4. Counters' BY StillCounters DEF Wakeup, DeviceWakeup
<1> QED BY <1>3, <1>4, Assemble

LEMMA YieldKeeps == SchedInv /\ Yield => Stays
<1> SUFFICES ASSUME SchedInv, Yield PROVE Stays OBVIOUS
<1>0. TypeOK BY DEF SchedInv
<1>1. Legal(Entered(proc)) BY <1>0, CurrentLegal, LegalEntered
<1>2. Kept BY <1>1, ScheduleKeeps DEF Yield
<1>3. Counters' BY StillCounters DEF Yield
<1> QED BY <1>2, <1>3, Assemble

LEMMA TimerKeeps == SchedInv /\ TimerInterrupt => Stays
<1> SUFFICES ASSUME SchedInv, TimerInterrupt PROVE Stays OBVIOUS
<1>0. TypeOK /\ current \in Slots /\ resched \in BOOLEAN BY DEF SchedInv, TypeOK
<1>1. PICK P \in Polled : Schedule(P, resched) BY DEF TimerInterrupt
<1>2. Legal(proc) /\ Runs(proc) BY <1>0, CurrentLegal DEF Runs
<1>3. Legal(P)
  <2>1. CASE P = proc BY <1>2, <2>1
  <2>2. CASE P # proc
    <3>1. PICK ch : P = Woken(proc, ch) BY <2>2 DEF Polled
    <3> QED BY <1>0, <1>2, <3>1, LegalWoken
  <2> QED BY <2>1, <2>2
<1>4. Kept BY <1>0, <1>1, <1>3, ScheduleKeeps
<1>5. Counters' BY StillCounters DEF TimerInterrupt
<1> QED BY <1>4, <1>5, Assemble

-----------------------------------------------------------------------------
LEMMA SchedInit == Init => SchedInv /\ CurrentRuns
<1> SUFFICES ASSUME Init PROVE SchedInv /\ CurrentRuns OBVIOUS
<1> DEFINE boot1 == [ClearProcess EXCEPT !.pid = 1]
           boot2 == [boot1 EXCEPT !.state = "RUNNING"]
<1>0. 1 \in 0 .. MaxPid /\ MaxPid \in Nat /\ MaxPid >= 1 BY ProcessAssumption
<1> HIDE DEF boot1, boot2
<1>1. boot1 \in Slot BY <1>0, ClearType DEF boot1, Slot
<1>2. boot2 \in Slot /\ boot2.state = "RUNNING" BY <1>1 DEF boot2, Slot, States
<1>3. proc = [i \in Slots |-> IF i = Bootstrap THEN boot2 ELSE ClearProcess]
  BY DEF Init, boot1, boot2
<1>4. proc \in [Slots -> Slot] BY <1>2, <1>3, ClearType
<1>5. proc[Bootstrap].state = "RUNNING" /\ current = Bootstrap
  BY <1>2, <1>3, SlotZero DEF Init
<1>6. \A s \in Slots : proc[s].state = "RUNNING" => s = Bootstrap
  BY <1>3, ClearType
<1>7. TypeOK
  <2>1. next_pid \in 2 .. MaxPid + 1 BY <1>0 DEF Init
  <2>2. next_tid \in Nat /\ resched \in BOOLEAN BY DEF Init
  <2>3. died \in [Pids -> Int] BY DEF Init, Pids, NoStatus
  <2>4. delivered \in [Pids -> 0 .. 2] BY DEF Init, Pids
  <2> QED BY <1>4, <1>5, <2>1, <2>2, <2>3, <2>4, SlotZero DEF TypeOK
<1> QED BY <1>5, <1>6, <1>7 DEF SchedInv, OneRunning, CurrentRuns

LEMMA SchedNext == SchedInv /\ [Next]_vars => Stays
<1> SUFFICES ASSUME SchedInv, [Next]_vars PROVE Stays OBVIOUS
<1>1. CASE SpawnProcess BY <1>1, SpawnKeeps
<1>2. CASE ForkCurrent BY <1>2, ForkKeeps
<1>3. CASE CreateUserThread BY <1>3, ThreadKeeps
<1>4. CASE ExecReplaceCurrent BY <1>4, ExecKeeps
<1>5. CASE OtherSyscall BY <1>5, OtherKeeps
<1>6. CASE \E pid \in 0 .. MaxPid : WaitPid(pid) BY <1>6, WaitKeeps
<1>7. CASE \E code \in ExitCodes : ExitCurrent(code) BY <1>7, ExitKeeps
<1>8. CASE FaultCurrent BY <1>8, FaultKeeps
<1>9. CASE \E t \in UserSlots, sig \in Signals : Signal(t, sig) BY <1>9, SignalKeeps
<1>10. CASE \E z \in UserSlots : ReapPid(z) BY <1>10, ReapKeeps
<1>11. CASE \E tid \in 1 .. MaxTid : JoinThread(tid) BY <1>11, JoinKeeps
<1>12. CASE \E ch \in Channels : SleepOn(ch) \/ Wakeup(ch) \/ DeviceWakeup(ch)
  BY <1>12, SleepKeeps, WakeupKeeps
<1>13. CASE Reissue BY <1>13, ReissueKeeps
<1>14. CASE Yield BY <1>14, YieldKeeps
<1>15. CASE TimerInterrupt BY <1>15, TimerKeeps
<1>16. CASE UNCHANGED vars
  BY <1>16 DEF vars, Stays, SchedInv, TypeOK, OneRunning, CurrentRuns
<1> QED BY <1>1, <1>2, <1>3, <1>4, <1>5, <1>6, <1>7, <1>8, <1>9, <1>10, <1>11, <1>12,
           <1>13, <1>14, <1>15, <1>16 DEF Next

LEMMA SchedAlways == Spec => []SchedInv
<1>1. Init => SchedInv BY SchedInit
<1>2. SchedInv /\ [Next]_vars => SchedInv' BY SchedNext DEF Stays
<1> QED BY <1>1, <1>2, PTL DEF Spec

\* The process table, the current slot, the counters and the reschedule flag stay in
\* range whatever the programs do (process_create, process_schedule and every handler).
THEOREM TypeCorrect == Spec => []TypeOK
<1>1. SchedInv => TypeOK BY DEF SchedInv
<1> QED BY <1>1, SchedAlways, PTL

\* process_schedule never leaves two slots RUNNING, even when ticks and switches are
\* dropped because another processor holds process_lock.
THEOREM OneRunner == Spec => []OneRunning
<1>1. SchedInv => OneRunning BY DEF SchedInv
<1> QED BY <1>1, SchedAlways, PTL

\* With process_lock uncontended, no program runs on after it exited, blocked or was
\* stopped: interrupt_dispatch always returns to a RUNNING slot.
THEOREM CurrentRunner == ~Contended => (Spec => []CurrentRuns)
<1> SUFFICES ASSUME ~Contended PROVE Spec => []CurrentRuns OBVIOUS
<1>1. Init => CurrentRuns BY SchedInit
<1>2. SchedInv /\ CurrentRuns /\ [Next]_vars => CurrentRuns' BY SchedNext DEF Stays
<1> QED BY <1>1, <1>2, SchedAlways, PTL DEF Spec

-----------------------------------------------------------------------------
(***************************************************************************)
(* Calm steps.  Most of what handlers and the scheduler do to the table    *)
(* creates no process, kills none, and puts none to sleep.                 *)
(***************************************************************************)
KinSlot(p, q) ==
  /\ q.state # "UNUSED" =>
       /\ p.state # "UNUSED" /\ q.pid = p.pid
       /\ q.parent_pid = p.parent_pid /\ q.is_thread = p.is_thread
  /\ q.state = "ZOMBIE" => p.state = "ZOMBIE"
  /\ q.state = "WAITING" =>
       /\ p.state = "WAITING"
       /\ q.call = "waitpid" => p.call = "waitpid" /\ q.wait_pid = p.wait_pid

\* Who waits, and not for a thread, waited before, on the same channel.
WaitsSo(p) == p.state = "WAITING" /\ p.join_tid = 0
ChannelSlot(p, q) ==
  WaitsSo(q) => WaitsSo(p) /\ q.wait_channel = p.wait_channel /\ q.pid = p.pid

Kin(P, Q) == \A s \in Slots : KinSlot(P[s], Q[s])
SameChannels(P, Q) == \A s \in Slots : ChannelSlot(P[s], Q[s])

\* The kernel's own slot is READY or RUNNING.
Up == {"READY", "RUNNING"}
KeepsBoot(P, Q) == P[Bootstrap].state \in Up => Q[Bootstrap].state \in Up

Calm(P, Q) == Kin(P, Q) /\ SameChannels(P, Q) /\ KeepsBoot(P, Q)

LEMMA KinTwice == ASSUME NEW P, NEW Q, NEW R, Kin(P, Q), Kin(Q, R) PROVE Kin(P, R)
BY DEF Kin, KinSlot

LEMMA ChannelsTwice ==
  ASSUME NEW P, NEW Q, NEW R, SameChannels(P, Q), SameChannels(Q, R) PROVE SameChannels(P, R)
BY DEF SameChannels, ChannelSlot

LEMMA CalmTwice == ASSUME NEW P, NEW Q, NEW R, Calm(P, Q), Calm(Q, R) PROVE Calm(P, R)
BY KinTwice, ChannelsTwice DEF Calm, KeepsBoot

LEMMA CalmSame == \A P : Calm(P, P)
BY DEF Calm, Kin, KinSlot, SameChannels, ChannelSlot, KeepsBoot

LEMMA CalmPut ==
  ASSUME NEW P \in Table, NEW i \in Slots, NEW r, KinSlot(P[i], r), ChannelSlot(P[i], r),
         P[i].state \in Up => r.state \in Up
  PROVE  Calm(P, [P EXCEPT ![i] = r])
BY DEF Calm, Kin, KinSlot, SameChannels, ChannelSlot, Table, KeepsBoot

\* The fields of a slot that do not matter here.
LEMMA CalmFields ==
  ASSUME NEW P \in Table, NEW i \in Slots, NEW v
  PROVE  /\ Calm(P, [P EXCEPT ![i].eax = v])
         /\ Calm(P, [P EXCEPT ![i].status = v])
         /\ Calm(P, [P EXCEPT ![i].arg = v])
         /\ Calm(P, [P EXCEPT ![i].rewound = v])
         /\ Calm(P, [P EXCEPT ![i].exit_code = v])
         /\ Calm(P, [P EXCEPT ![i].wait_status = v])
         /\ Calm(P, [P EXCEPT ![i].reap_pending = v])
         /\ Calm(P, [P EXCEPT ![i].ticks_used = v])
<1>0. P[i] \in Slot BY DEF Table
<1>1. /\ Calm(P, [P EXCEPT ![i] = [P[i] EXCEPT !.eax = v]])
      /\ Calm(P, [P EXCEPT ![i] = [P[i] EXCEPT !.status = v]])
      /\ Calm(P, [P EXCEPT ![i] = [P[i] EXCEPT !.arg = v]])
      /\ Calm(P, [P EXCEPT ![i] = [P[i] EXCEPT !.rewound = v]])
      /\ Calm(P, [P EXCEPT ![i] = [P[i] EXCEPT !.exit_code = v]])
      /\ Calm(P, [P EXCEPT ![i] = [P[i] EXCEPT !.wait_status = v]])
      /\ Calm(P, [P EXCEPT ![i] = [P[i] EXCEPT !.reap_pending = v]])
      /\ Calm(P, [P EXCEPT ![i] = [P[i] EXCEPT !.ticks_used = v]])
  BY <1>0, CalmPut DEF KinSlot, ChannelSlot, WaitsSo, Slot
<1> QED BY <1>1

\* The program enters a call.
LEMMA EnteredCalm ==
  ASSUME TypeOK
  PROVE  /\ Calm(proc, Entered(proc)) /\ Entered(proc) \in Table
         /\ \A s \in Slots \ {current} : Entered(proc)[s] = proc[s]
         /\ LET q == Entered(proc)[current]  p == proc[current] IN
            /\ q.state = p.state /\ q.pid = p.pid /\ q.parent_pid = p.parent_pid
            /\ q.is_thread = p.is_thread /\ q.wait_channel = p.wait_channel
            /\ q.wait_pid = p.wait_pid /\ q.join_tid = p.join_tid /\ q.call = "none"
<1> DEFINE p == proc[current]
           q == Entered(proc)[current]
<1>1. current \in Slots /\ proc \in Table /\ p \in Slot BY DEF TypeOK, Table
<1>2. Entered(proc) \in Table BY <1>1, ProcLegal, LegalEntered DEF Legal
<1>3. \A s \in Slots \ {current} : Entered(proc)[s] = proc[s] BY <1>1 DEF Entered, Table
<1>4. /\ q.state = p.state /\ q.pid = p.pid /\ q.parent_pid = p.parent_pid
      /\ q.is_thread = p.is_thread /\ q.wait_channel = p.wait_channel
      /\ q.wait_pid = p.wait_pid /\ q.join_tid = p.join_tid /\ q.call = "none"
  BY <1>1 DEF Entered, Table, Slot
<1>5. Calm(proc, Entered(proc))
  BY <1>1, <1>3, <1>4, SlotZero DEF Calm, Kin, KinSlot, SameChannels, ChannelSlot, WaitsSo, KeepsBoot
<1> QED BY <1>2, <1>3, <1>4, <1>5

LEMMA ReapCalm ==
  ASSUME NEW P \in Table, NEW i \in Slots PROVE Calm(P, ReapProcess(P, i))
<1>1. KinSlot(P[i], ClearProcess) /\ ChannelSlot(P[i], ClearProcess)
  BY DEF KinSlot, ChannelSlot, WaitsSo, ClearProcess
<1>2. P[i].state = "ZOMBIE" => Calm(P, [P EXCEPT ![i] = ClearProcess])
  BY <1>1, CalmPut DEF Up
<1> QED BY <1>2, CalmSame DEF ReapProcess

LEMMA WokenCalm ==
  ASSUME NEW P \in Table, NEW ch
  PROVE  /\ Calm(P, Woken(P, ch))
         /\ \A s \in UserSlots :
              Woken(P, ch)[s].state = "WAITING" => Woken(P, ch)[s].wait_channel # ch
<1> DEFINE Q == Woken(P, ch)
           Risen(s) == [P[s] EXCEPT !.wait_channel = NoChannel, !.state = "READY"]
<1>1. \A s \in Slots : Q[s] = IF s # Bootstrap /\ P[s].state = "WAITING" /\ P[s].wait_channel = ch
                              THEN Risen(s) ELSE P[s]
  BY DEF Woken
<1>2. \A s \in Slots : /\ Risen(s).state = "READY" /\ Risen(s).pid = P[s].pid
                       /\ Risen(s).parent_pid = P[s].parent_pid
                       /\ Risen(s).is_thread = P[s].is_thread
  BY DEF Table, Slot
<1> HIDE DEF Q, Risen
<1>3. Calm(P, Q)
  BY <1>1, <1>2, SlotZero DEF Calm, Kin, KinSlot, SameChannels, ChannelSlot, WaitsSo, KeepsBoot
<1>4. \A s \in UserSlots : Q[s].state = "WAITING" => Q[s].wait_channel # ch
  BY <1>1, <1>2 DEF UserSlots
<1> QED BY <1>3, <1>4 DEF Q

\* Whoever waits for a child that dies is READY when its parent has been woken.
LEMMA WakeParentCalm ==
  ASSUME NEW P \in Table, NEW c \in Slots
  PROVE  /\ Calm(P, WakeWaitingParent(P, c))
         /\ \A s \in WaitingParent(P, c) : WakeWaitingParent(P, c)[s].state = "READY"
<1> DEFINE Q == WakeWaitingParent(P, c)
           Wakes(i) == [P[i] EXCEPT !.eax = P[c].pid,
                       !.status = IF P[i].wait_status THEN P[c].exit_code ELSE @,
                       !.wait_pid = 0, !.wait_status = FALSE,
                       !.wait_channel = NoChannel, !.state = "READY"]
           Marks(i) == [P[i] EXCEPT !.reap_pending = TRUE]
<1>1. \A i \in Slots : /\ Wakes(i).state = "READY" /\ Wakes(i).pid = P[i].pid
                       /\ Wakes(i).parent_pid = P[i].parent_pid
                       /\ Wakes(i).is_thread = P[i].is_thread
  BY DEF Table, Slot
<1>2. \A i \in Slots : /\ Marks(i).state = P[i].state /\ Marks(i).call = P[i].call
                       /\ Marks(i).wait_channel = P[i].wait_channel /\ Marks(i).pid = P[i].pid
                       /\ Marks(i).parent_pid = P[i].parent_pid
                       /\ Marks(i).is_thread = P[i].is_thread
                       /\ Marks(i).wait_pid = P[i].wait_pid /\ Marks(i).join_tid = P[i].join_tid
  BY DEF Table, Slot
<1>3. \A i \in Slots : Q[i] = IF i \in WaitingParent(P, c) THEN Wakes(i)
                              ELSE IF i = c /\ WaitingParent(P, c) # {} THEN Marks(i) ELSE P[i]
  BY DEF WakeWaitingParent
<1>4. WaitingParent(P, c) \subseteq {i \in Slots : P[i].state = "WAITING"}
  BY FirstIn DEF WaitingParent, UserSlots
<1> HIDE DEF Q, Wakes, Marks
<1>5. Kin(P, Q) BY <1>1, <1>2, <1>3, <1>4 DEF Kin, KinSlot
<1>6. SameChannels(P, Q) BY <1>1, <1>2, <1>3 DEF SameChannels, ChannelSlot, WaitsSo
<1>7. \A s \in WaitingParent(P, c) : Q[s].state = "READY" BY <1>1, <1>3, <1>4
<1>8. KeepsBoot(P, Q) BY <1>1, <1>2, <1>3, SlotZero DEF KeepsBoot, Up
<1> QED BY <1>5, <1>6, <1>7, <1>8 DEF Calm, Q

LEMMA WakeJoinerCalm ==
  ASSUME NEW P \in Table, NEW c \in Slots PROVE Calm(P, WakeJoiner(P, c))
<1> DEFINE Q == WakeJoiner(P, c)
           Wakes(i) == [P[i] EXCEPT !.eax = P[c].tid, !.status = P[c].exit_code, !.join_tid = 0,
                                    !.state = "READY"]
<1>1. \A i \in Slots : /\ Wakes(i).state = "READY" /\ Wakes(i).pid = P[i].pid
                       /\ Wakes(i).parent_pid = P[i].parent_pid
                       /\ Wakes(i).is_thread = P[i].is_thread
  BY DEF Table, Slot
<1>2. \A i \in Slots : Q[i] = IF i \in Joiner(P, c) THEN Wakes(i) ELSE P[i] BY DEF WakeJoiner
<1>3. Joiner(P, c) \subseteq {i \in Slots : P[i].state = "WAITING"}
  BY FirstIn DEF Joiner, UserSlots
<1> HIDE DEF Q, Wakes
<1>4. Calm(P, Q)
  BY <1>1, <1>2, <1>3, SlotZero
     DEF Calm, Kin, KinSlot, SameChannels, ChannelSlot, WaitsSo, KeepsBoot, Up
<1> QED BY <1>4 DEF Q

\* The scheduler.
LEMMA ChargeCalm ==
  ASSUME NEW P \in Table, NEW flag \in BOOLEAN, current \in Slots
  PROVE  Calm(P, Charge(P, flag)) /\ Charge(P, flag) \in Table
<1> DEFINE Q == Charge(P, flag)
<1>1. Q \in Table /\ SameStates(P, Q) BY ChargeKeeps
<1>2. CASE ~Running(P) BY <1>1, <1>2, CalmSame DEF Charge
<1>3. CASE Running(P)
  <2>1. P[current] \in Slot /\ P[current].state = "RUNNING" BY <1>3 DEF Table, Running
  <2>2. /\ Q[current].state = "RUNNING" /\ Q[current].pid = P[current].pid
        /\ Q[current].parent_pid = P[current].parent_pid
        /\ Q[current].is_thread = P[current].is_thread
    BY <1>3, <2>1 DEF Charge, Table, Slot
  <2>3. \A s \in Slots \ {current} : Q[s] = P[s] BY <1>3 DEF Charge, Table
  <2> HIDE DEF Q
  <2>4. Calm(P, Q)
    BY <2>1, <2>2, <2>3, SlotZero
       DEF Calm, Kin, KinSlot, SameChannels, ChannelSlot, WaitsSo, KeepsBoot, Up
  <2> QED BY <1>1, <2>4 DEF Q
<1> QED BY <1>2, <1>3

\* A slot gets a state in which it may run.
LEMMA CalmUp ==
  ASSUME NEW P \in Table, NEW i \in Slots, NEW v \in Up, P[i].state # "UNUSED"
  PROVE  Calm(P, [P EXCEPT ![i].state = v]) /\ [P EXCEPT ![i].state = v] \in Table
<1> DEFINE r == [P[i] EXCEPT !.state = v]
<1>1. /\ r \in Slot /\ r.state = v /\ r.pid = P[i].pid /\ r.parent_pid = P[i].parent_pid
      /\ r.is_thread = P[i].is_thread
  BY DEF Table, Slot, States, Up
<1>2. [P EXCEPT ![i].state = v] = [P EXCEPT ![i] = r] OBVIOUS
<1> HIDE DEF r
<1>3. KinSlot(P[i], r) /\ ChannelSlot(P[i], r) BY <1>1 DEF KinSlot, ChannelSlot, WaitsSo, Up
<1>4. [P EXCEPT ![i] = r] \in Table BY <1>1 DEF Table
<1> QED BY <1>1, <1>2, <1>3, <1>4, CalmPut

\* A scheduler that finds no slot to run takes the bootstrap, which exists.
LEMMA ScheduleCalm ==
  ASSUME TypeOK, NEW P \in Table, NEW flag \in BOOLEAN, Schedule(P, flag),
         P[Bootstrap].state # "UNUSED"
  PROVE  Calm(P, proc')
<1> DEFINE Q == Charge(P, flag)
<1>0. current \in Slots BY DEF TypeOK
<1>1. CASE proc' = P BY <1>1, CalmSame
<1>2. CASE proc' = [P EXCEPT ![current].ticks_used = @ + 1]
  <2> DEFINE v == P[current].ticks_used + 1
  <2>1. proc' = [P EXCEPT ![current].ticks_used = v] BY <1>2
  <2> HIDE DEF v
  <2> QED BY <1>0, <2>1, CalmFields
<1>3. Calm(P, Q) /\ Q \in Table BY <1>0, ChargeCalm
<1>4. CASE proc' = Q BY <1>3, <1>4
<1>5. Q[Bootstrap].state # "UNUSED"
  BY <1>0, SlotZero, ChargeKeeps DEF SameStates
<1> HIDE DEF Q
<1>6. ASSUME NEW n \in Successor(Q), proc' = SwitchTo(Q, n) PROVE Calm(Q, proc')
  <2> DEFINE put == IF Running(Q) THEN [Q EXCEPT ![current].state = "READY"] ELSE Q
             run == [put EXCEPT ![n].state = "RUNNING"]
  <2>1. n \in Slots BY SuccessorIn
  <2>2. Q[n].state # "UNUSED" BY <1>5 DEF Successor, NextReady
  <2>3. put \in Table /\ Calm(Q, put) BY <1>0, <1>3, CalmUp, CalmSame DEF Running, Up
  <2>4. put[n].state # "UNUSED"
    <3>1. Running(Q) /\ n = current => put[n].state = "READY"
      BY <1>0, <1>3 DEF Table, Slot
    <3>2. ~(Running(Q) /\ n = current) => put[n] = Q[n] BY <1>3, <2>1 DEF Table
    <3> QED BY <2>2, <3>1, <3>2
  <2> HIDE DEF put
  <2>5. run \in Table /\ Calm(put, run) BY <2>1, <2>3, <2>4, CalmUp DEF Up
  <2>6. proc' = IF Q[current].reap_pending THEN ReapProcess(run, current) ELSE run
    BY <1>6 DEF SwitchTo, put
  <2> HIDE DEF run
  <2>7. Calm(run, proc') BY <1>0, <2>5, <2>6, ReapCalm, CalmSame
  <2> QED BY <2>3, <2>5, <2>7, CalmTwice
<1>7. ASSUME NEW n \in Successor(Q), proc' = SwitchTo(Q, n) PROVE Calm(P, proc')
  BY <1>3, <1>6, <1>7, CalmTwice
<1> QED BY <1>1, <1>2, <1>4, <1>7 DEF Schedule, LockedSchedule, Q

-----------------------------------------------------------------------------
(***************************************************************************)
(* Parents and children.  A pid names one slot, threads have none and are  *)
(* nobody's children, and who waits for a child waits for a living one.    *)
(***************************************************************************)
Family(P, n) ==
  \A s \in Slots : P[s].state # "UNUSED" =>
    /\ P[s].is_thread => P[s].pid = 0 /\ P[s].parent_pid = 0
    /\ ~P[s].is_thread => P[s].pid \in 1 .. n - 1
    /\ \A t \in Slots : P[t].state # "UNUSED" /\ P[t].pid = P[s].pid /\ P[s].pid # 0 => t = s

DeadChild(P, c, pid, wait_pid) == IsChildOf(P[c], pid, wait_pid) /\ P[c].state = "ZOMBIE"

\* The process of slot s is blocked in waitpid although the child in slot c is dead.
Missed(P, s, c) ==
  /\ P[s].state = "WAITING" /\ P[s].call = "waitpid" /\ ~P[s].is_thread
  /\ DeadChild(P, c, P[s].pid, P[s].wait_pid)

ChildInv(P, n) ==
  /\ Family(P, n)
  /\ \A s, c \in UserSlots : ~Missed(P, s, c)
  /\ P[Bootstrap].state \in Up

LEMMA CalmKeeps ==
  ASSUME NEW P, NEW Q, NEW n, ChildInv(P, n), Calm(P, Q) PROVE ChildInv(Q, n)
<1>1. Family(Q, n)
  <2>1. \A s \in Slots : Q[s].state # "UNUSED" =>
          /\ P[s].state # "UNUSED" /\ Q[s].pid = P[s].pid
          /\ Q[s].parent_pid = P[s].parent_pid /\ Q[s].is_thread = P[s].is_thread
    BY DEF Calm, Kin, KinSlot
  <2> QED BY <2>1 DEF ChildInv, Family
<1>2. ASSUME NEW s \in UserSlots, NEW c \in UserSlots, Missed(Q, s, c) PROVE FALSE
  <2>1. KinSlot(P[s], Q[s]) /\ KinSlot(P[c], Q[c]) BY DEF Calm, Kin, UserSlots
  <2>2. Missed(P, s, c) BY <1>2, <2>1 DEF Missed, DeadChild, IsChildOf, KinSlot
  <2> QED BY <2>2 DEF ChildInv
<1> QED BY <1>1, <1>2 DEF ChildInv, Calm, KeepsBoot

\* Only slot i changes.
LEMMA CalmAt ==
  ASSUME NEW P, NEW Q, NEW i \in Slots, \A s \in Slots \ {i} : Q[s] = P[s],
         KinSlot(P[i], Q[i]), ChannelSlot(P[i], Q[i]),
         i # Bootstrap \/ Q[i].state \in Up
  PROVE  Calm(P, Q)
<1>1. \A p : KinSlot(p, p) /\ ChannelSlot(p, p) BY DEF KinSlot, ChannelSlot
<1>2. ASSUME NEW s \in Slots PROVE KinSlot(P[s], Q[s]) /\ ChannelSlot(P[s], Q[s])
  <2>1. CASE s = i BY <2>1
  <2>2. CASE s # i
    <3>1. Q[s] = P[s] BY <2>2
    <3> QED BY <1>1, <3>1
  <2> QED BY <2>1, <2>2
<1>3. KeepsBoot(P, Q) BY SlotZero DEF KeepsBoot
<1> QED BY <1>2, <1>3 DEF Calm, Kin, SameChannels

\* A new slot, with a pid that no slot has, or with none.
LEMMA NewKeeps ==
  ASSUME NEW P, NEW Q, NEW n \in Nat \ {0}, NEW m \in {n, n + 1}, NEW f \in Slots, ChildInv(P, n),
         P[f].state = "UNUSED", \A s \in Slots \ {f} : Q[s] = P[s],
         Q[f].state = "READY",
         \/ Q[f].is_thread /\ Q[f].pid = 0 /\ Q[f].parent_pid = 0
         \/ ~Q[f].is_thread /\ Q[f].pid = n /\ m = n + 1
  PROVE  ChildInv(Q, m)
<1>1. Family(Q, m)
  <2>1. \A s \in Slots : P[s].state # "UNUSED" => P[s].pid \in 0 .. n - 1
    BY DEF ChildInv, Family
  <2>2. ASSUME NEW s \in Slots, Q[s].state # "UNUSED"
        PROVE  /\ Q[s].is_thread => Q[s].pid = 0 /\ Q[s].parent_pid = 0
               /\ ~Q[s].is_thread => Q[s].pid \in 1 .. m - 1
    <3>1. CASE s = f BY <3>1
    <3>2. CASE s # f BY <2>2, <3>2 DEF ChildInv, Family
    <3> QED BY <3>1, <3>2
  <2>3. ASSUME NEW s \in Slots, NEW t \in Slots, Q[s].state # "UNUSED", Q[t].state # "UNUSED",
               Q[t].pid = Q[s].pid, Q[s].pid # 0
        PROVE  t = s
    <3>1. CASE s # f /\ t # f BY <2>3, <3>1 DEF ChildInv, Family
    <3>2. CASE s = f /\ t # f BY <2>1, <2>3, <3>2
    <3>3. CASE s # f /\ t = f BY <2>1, <2>3, <3>3
    <3> QED BY <3>1, <3>2, <3>3
  <2> QED BY <2>2, <2>3 DEF Family
<1>2. ASSUME NEW s \in UserSlots, NEW c \in UserSlots, Missed(Q, s, c) PROVE FALSE
  <2>1. s # f /\ c # f BY <1>2 DEF Missed, DeadChild
  <2>2. Q[s] = P[s] /\ Q[c] = P[c] BY <2>1 DEF UserSlots
  <2>3. Missed(P, s, c) BY <1>2, <2>2 DEF Missed, DeadChild
  <2> QED BY <2>3 DEF ChildInv
<1>3. Q[Bootstrap].state \in Up BY SlotZero DEF ChildInv, Up
<1> QED BY <1>1, <1>2, <1>3 DEF ChildInv

\* A slot begins to wait: for no child, or for one that is not dead.
LEMMA BlockKeeps ==
  ASSUME NEW P, NEW Q, NEW n, NEW i \in UserSlots, ChildInv(P, n),
         \A s \in Slots \ {i} : Q[s] = P[s],
         P[i].state # "UNUSED", Q[i].state = "WAITING", Q[i].pid = P[i].pid,
         Q[i].parent_pid = P[i].parent_pid, Q[i].is_thread = P[i].is_thread,
         Q[i].call = "waitpid" =>
           \A c \in UserSlots : ~DeadChild(P, c, Q[i].pid, Q[i].wait_pid)
  PROVE  ChildInv(Q, n)
<1>0. i \in Slots /\ i # Bootstrap BY DEF UserSlots
<1>1. Family(Q, n)
  <2>1. \A s \in Slots : Q[s].state # "UNUSED" =>
          /\ P[s].state # "UNUSED" /\ Q[s].pid = P[s].pid
          /\ Q[s].parent_pid = P[s].parent_pid /\ Q[s].is_thread = P[s].is_thread
    BY <1>0
  <2> QED BY <2>1 DEF ChildInv, Family
<1>2. ASSUME NEW s \in UserSlots, NEW c \in UserSlots, Missed(Q, s, c) PROVE FALSE
  <2>1. c # i BY <1>2 DEF Missed, DeadChild
  <2>2. Q[c] = P[c] BY <2>1 DEF UserSlots
  <2>3. CASE s = i BY <1>2, <2>2, <2>3 DEF Missed, DeadChild
  <2>4. CASE s # i
    <3>1. Q[s] = P[s] BY <2>4 DEF UserSlots
    <3> QED BY <1>2, <2>2, <3>1 DEF Missed, DeadChild, ChildInv
  <2> QED BY <2>3, <2>4
<1>3. Q[Bootstrap].state \in Up BY <1>0, SlotZero DEF ChildInv
<1> QED BY <1>1, <1>2, <1>3 DEF ChildInv

LEMMA LowestIn == ASSUME NEW S \in SUBSET Nat, S # {} PROVE First(S) # {}
<1>1. \E n \in S : \A m \in S : ~(<<m, n>> \in OpToRel(<, Nat))
  BY NatLessThanWellFounded, WFMin
<1>2. PICK n \in S : \A m \in S : ~(<<m, n>> \in OpToRel(<, Nat)) BY <1>1
<1>3. \A m \in S : m \in Nat /\ n \in Nat => ~(m < n) BY <1>2, Zenon DEF OpToRel
<1>4. \A m \in S : n <= m BY <1>3
<1> QED BY <1>4 DEF First

LEMMA SlotsNat == Slots \subseteq Nat
BY ProcessAssumption DEF Slots

\* A process that dies is collected by its parent if that waits for it.
LEMMA DiedKeeps ==
  ASSUME NEW P \in Table, NEW i \in UserSlots, NEW code, NEW n, ChildInv(P, n),
         P[i].state # "UNUSED", code \in Nat
  PROVE  ChildInv(Died(P, i, code), n)
<1> DEFINE Q == Killed(P, i, code)
           R == Died(P, i, code)
<1>0. i \in Slots /\ i # Bootstrap BY DEF UserSlots
<1>1. /\ \A s \in Slots \ {i} : Q[s] = P[s]
      /\ Q[i].state = "ZOMBIE" /\ Q[i].pid = P[i].pid
      /\ Q[i].parent_pid = P[i].parent_pid /\ Q[i].is_thread = P[i].is_thread
  BY <1>0 DEF Killed, Table, Slot
<1>2. Q \in Table
  <2> DEFINE P1 == [P EXCEPT ![i].exit_code = code]
  <2>1. P1 \in Table BY <1>0 DEF Table, Slot
  <2> HIDE DEF P1
  <2>2. [P1 EXCEPT ![i].state = "ZOMBIE"] \in Table BY <1>0, <2>1 DEF Table, Slot, States
  <2> QED BY <2>2 DEF Killed, P1
<1>3. R = IF P[i].is_thread THEN WakeJoiner(Q, i) ELSE WakeWaitingParent(Q, i) BY DEF Died
<1> HIDE DEF Q, R
<1>4. Calm(Q, R) BY <1>0, <1>2, <1>3, WakeJoinerCalm, WakeParentCalm
<1>5. Family(Q, n)
  <2>1. \A s \in Slots : Q[s].state # "UNUSED" =>
          /\ P[s].state # "UNUSED" /\ Q[s].pid = P[s].pid
          /\ Q[s].parent_pid = P[s].parent_pid /\ Q[s].is_thread = P[s].is_thread
    BY <1>1
  <2> QED BY <2>1 DEF ChildInv, Family
<1>6. Family(R, n)
  <2>1. \A s \in Slots : R[s].state # "UNUSED" =>
          /\ Q[s].state # "UNUSED" /\ R[s].pid = Q[s].pid
          /\ R[s].parent_pid = Q[s].parent_pid /\ R[s].is_thread = Q[s].is_thread
    BY <1>4 DEF Calm, Kin, KinSlot
  <2> QED BY <1>5, <2>1 DEF Family
<1>7. ASSUME NEW s \in UserSlots, NEW c \in UserSlots, Missed(R, s, c) PROVE FALSE
  <2>1. KinSlot(Q[s], R[s]) /\ KinSlot(Q[c], R[c]) BY <1>4 DEF Calm, Kin, UserSlots
  <2>2. Missed(Q, s, c) BY <1>7, <2>1 DEF Missed, DeadChild, IsChildOf, KinSlot
  <2>3. s # i /\ s \in Slots BY <1>1, <2>2 DEF Missed, UserSlots
  <2>4. CASE c # i
    <3>1. Q[s] = P[s] /\ Q[c] = P[c] BY <1>1, <2>3, <2>4 DEF UserSlots
    <3>2. Missed(P, s, c) BY <2>2, <3>1 DEF Missed, DeadChild
    <3> QED BY <3>2 DEF ChildInv
  <2>5. CASE c = i
    <3>1. /\ Q[s].state = "WAITING" /\ ~Q[s].is_thread
          /\ Q[i].parent_pid = Q[s].pid /\ Q[s].wait_pid \in {WaitAny, Q[i].pid}
      BY <2>2, <2>5 DEF Missed, DeadChild, IsChildOf
    <3>2. Q[s].pid # 0 BY <1>5, <2>3, <3>1 DEF Family
    <3>3. ~P[i].is_thread BY <1>0, <1>1, <1>5, <3>1, <3>2 DEF Family
    <3> DEFINE S == {j \in UserSlots : /\ Q[j].state = "WAITING"
                                       /\ Q[j].pid = Q[i].parent_pid
                                       /\ Q[j].wait_pid \in {WaitAny, Q[i].pid}}
    <3>4. s \in S /\ S \in SUBSET Nat BY <3>1, SlotsNat DEF UserSlots
    <3>5. WaitingParent(Q, i) = First(S) BY DEF WaitingParent
    <3>6. First(S) # {} BY <3>4, LowestIn
    <3>7. PICK w \in WaitingParent(Q, i) : TRUE BY <3>5, <3>6
    <3>8. w \in S BY <3>5, <3>7, FirstIn
    <3>9. w = s BY <1>5, <2>3, <3>1, <3>2, <3>8 DEF Family, UserSlots
    <3>10. R[s].state = "READY" BY <1>0, <1>2, <1>3, <3>3, <3>7, <3>9, WakeParentCalm
    <3> QED BY <1>7, <3>10 DEF Missed
  <2> QED BY <2>4, <2>5
<1>8. R[Bootstrap].state \in Up
  BY <1>0, <1>1, <1>4, SlotZero DEF ChildInv, Calm, KeepsBoot
<1> QED BY <1>6, <1>7, <1>8 DEF ChildInv, R

-----------------------------------------------------------------------------
(***************************************************************************)
(* NoLostChild, one lemma per handler that creates, kills or blocks.       *)
(***************************************************************************)
ChildHyp == SchedInv /\ CurrentRuns /\ ChildInv(proc, next_pid)

LEMMA ChildFacts ==
  ASSUME ChildHyp
  PROVE  /\ TypeOK /\ proc \in Table /\ current \in Slots /\ next_pid \in Nat \ {0}
         /\ proc[current] \in Slot /\ proc[current].state = "RUNNING"
         /\ ChildInv(proc, next_pid)
         /\ ChildInv(Entered(proc), next_pid)
<1>1. TypeOK BY DEF ChildHyp, SchedInv
<1>2. proc \in Table /\ current \in Slots /\ next_pid \in Nat \ {0} /\ proc[current] \in Slot
  BY <1>1, ProcessAssumption DEF TypeOK, Table
<1>3. ChildInv(Entered(proc), next_pid) BY <1>1, EnteredCalm, CalmKeeps DEF ChildHyp
<1> QED BY <1>1, <1>2, <1>3 DEF ChildHyp, CurrentRuns

LEMMA CalmChild ==
  ASSUME ChildHyp, UNCHANGED next_pid,
         Calm(proc, proc') \/ Calm(Entered(proc), proc')
  PROVE  ChildInv(proc', next_pid')
BY ChildFacts, CalmKeeps

LEMMA ScheduleChild ==
  ASSUME ChildHyp, NEW P \in Table, NEW flag \in BOOLEAN, Schedule(P, flag),
         ChildInv(P, next_pid), UNCHANGED next_pid
  PROVE  ChildInv(proc', next_pid')
<1>1. P[Bootstrap].state # "UNUSED" BY DEF ChildInv, Up
<1>2. Calm(P, proc') BY <1>1, ChildFacts, ScheduleCalm
<1> QED BY <1>2, CalmKeeps

LEMMA NewFields ==
  ASSUME NEW pid, NEW parent_pid, NEW tgid, NEW tid, NEW priority
  PROVE  LET r == NewProcess(pid, parent_pid, tgid, tid, priority) IN
         /\ r.state = "READY" /\ r.pid = pid /\ r.parent_pid = parent_pid /\ ~r.is_thread
         /\ LET t == [r EXCEPT !.is_thread = TRUE] IN
            t.state = "READY" /\ t.pid = pid /\ t.parent_pid = parent_pid /\ t.is_thread
BY DEF NewProcess, ClearProcess

LEMMA SpawnChild ==
  ASSUME ChildHyp, SpawnProcess PROVE ChildInv(proc', next_pid')
<1> DEFINE r == NewProcess(next_pid, proc[current].pid, next_pid, next_tid, PriorityDefault)
<1>1. PICK s \in FindFreeSlot(proc) : proc' = [proc EXCEPT ![s] = r]
  BY DEF SpawnProcess, ReturnWith
<1>2. r.state = "READY" /\ r.pid = next_pid /\ ~r.is_thread BY NewFields
<1> HIDE DEF r
<1>3. s \in Slots /\ proc[s].state = "UNUSED" BY FreeSlot
<1>4. proc'[s] = r /\ \A t \in Slots \ {s} : proc'[t] = proc[t]
  BY <1>1, <1>3, ChildFacts DEF Table
<1>5. next_pid' = next_pid + 1 BY DEF SpawnProcess
<1> QED BY <1>2, <1>3, <1>4, <1>5, ChildFacts, NewKeeps

\* Fork and thread creation: the caller's eax is set besides.
LEMMA CreateChild ==
  ASSUME ChildHyp, NEW s \in FindFreeSlot(proc), NEW r \in Slot, NEW v, NEW m,
         proc' = [Entered(proc) EXCEPT ![s] = r, ![current].eax = v],
         m \in {next_pid, next_pid + 1}, r.state = "READY",
         \/ r.is_thread /\ r.pid = 0 /\ r.parent_pid = 0
         \/ ~r.is_thread /\ r.pid = next_pid /\ m = next_pid + 1
  PROVE  ChildInv(proc', m)
<1> DEFINE P == Entered(proc)
           P1 == [P EXCEPT ![s] = r]
<1>1. s \in Slots /\ proc[s].state = "UNUSED" /\ s # current BY FreeSlot, ChildFacts
<1>2. P \in Table /\ P[s].state = "UNUSED" BY <1>1, ChildFacts, EnteredCalm
<1>3. ChildInv(P, next_pid) BY ChildFacts
<1> HIDE DEF P
<1>4. P1[s] = r /\ \A t \in Slots \ {s} : P1[t] = P[t] BY <1>1, <1>2 DEF Table
<1>5. proc' = [P1 EXCEPT ![current].eax = v] BY DEF P
<1>6. P1 \in Table BY <1>1, <1>2 DEF Table
<1> HIDE DEF P1
<1>7. ChildInv(P1, m)
  <2>1. next_pid \in Nat \ {0} BY ChildFacts
  <2>2. /\ P1[s].state = "READY"
        /\ \/ P1[s].is_thread /\ P1[s].pid = 0 /\ P1[s].parent_pid = 0
           \/ ~P1[s].is_thread /\ P1[s].pid = next_pid /\ m = next_pid + 1
    BY <1>4
  <2> QED BY <1>1, <1>2, <1>3, <1>4, <2>1, <2>2, NewKeeps
<1>8. Calm(P1, [P1 EXCEPT ![current].eax = v]) BY <1>6, ChildFacts, CalmFields
<1>9. ChildInv([P1 EXCEPT ![current].eax = v], m) BY <1>7, <1>8, CalmKeeps
<1> QED BY <1>5, <1>9

LEMMA ForkChild ==
  ASSUME ChildHyp, ForkCurrent PROVE ChildInv(proc', next_pid')
<1> DEFINE parent == proc[current]
           r == NewProcess(next_pid, parent.pid, parent.thread_group_pid,
                           next_tid + 1, parent.priority)
<1>1. PICK s \in FindFreeSlot(proc) :
        proc' = [Entered(proc) EXCEPT ![s] = r, ![current].eax = next_pid]
  BY DEF ForkCurrent, ReturnWith
<1>2. r.state = "READY" /\ r.pid = next_pid /\ ~r.is_thread BY NewFields
<1>3. next_pid' = next_pid + 1 BY DEF ForkCurrent
<1>4. r \in Slot
  <2>1. next_pid \in 0 .. MaxPid /\ next_tid + 1 \in Nat
    BY ChildFacts, ProcessAssumption DEF TypeOK, ForkCurrent
  <2>2. /\ parent.pid \in 0 .. MaxPid /\ parent.thread_group_pid \in 0 .. MaxPid
        /\ parent.priority \in 0 .. Levels - 1
    BY ChildFacts DEF Slot
  <2> HIDE DEF parent
  <2> QED BY <2>1, <2>2, NewProcessType
<1> HIDE DEF r
<1> QED BY <1>1, <1>2, <1>3, <1>4, CreateChild

LEMMA ThreadChild ==
  ASSUME ChildHyp, CreateUserThread PROVE ChildInv(proc', next_pid')
<1> DEFINE parent == proc[current]
           q == NewProcess(0, 0, parent.thread_group_pid, next_tid, parent.priority)
           r == [q EXCEPT !.is_thread = TRUE]
<1>1. PICK s \in FindFreeSlot(proc) :
        proc' = [Entered(proc) EXCEPT ![s] = r, ![current].eax = next_tid]
  BY DEF CreateUserThread, ReturnWith
<1>2. r.state = "READY" /\ r.pid = 0 /\ r.parent_pid = 0 /\ r.is_thread BY NewFields
<1>3. next_pid' = next_pid BY DEF CreateUserThread
<1>4. r \in Slot
  <2>1. 0 \in 0 .. MaxPid /\ next_tid \in Nat BY ChildFacts, ProcessAssumption DEF TypeOK
  <2>2. /\ parent.thread_group_pid \in 0 .. MaxPid /\ parent.priority \in 0 .. Levels - 1
    BY ChildFacts DEF Slot
  <2> HIDE DEF parent
  <2> QED BY <2>1, <2>2, NewProcessType
<1> HIDE DEF r
<1> QED BY <1>1, <1>2, <1>3, <1>4, CreateChild

\* What waitpid and join leave in the caller's slot before they look for the child.
LEMMA CallFields ==
  ASSUME TypeOK, NEW n
  PROVE  LET p == proc[current] IN
         \A Q \in {Waits(proc, n), Joins(proc, n)} :
           /\ \A s \in Slots \ {current} : Q[s] = proc[s]
           /\ Q[current].state = p.state /\ Q[current].pid = p.pid
           /\ Q[current].parent_pid = p.parent_pid /\ Q[current].is_thread = p.is_thread
           /\ Q[current].wait_pid = p.wait_pid /\ Q[current].join_tid = p.join_tid
           /\ Q[current].wait_channel = p.wait_channel
<1>1. proc \in Table /\ current \in Slots /\ proc[current] \in Slot BY DEF TypeOK, Table
<1>2. Entered(proc) \in Table BY EnteredCalm
<1> DEFINE E == Entered(proc)
<1>3. /\ \A s \in Slots \ {current} : E[s] = proc[s]
      /\ E[current].state = proc[current].state /\ E[current].pid = proc[current].pid
      /\ E[current].parent_pid = proc[current].parent_pid
      /\ E[current].is_thread = proc[current].is_thread
      /\ E[current].wait_pid = proc[current].wait_pid
      /\ E[current].join_tid = proc[current].join_tid
      /\ E[current].wait_channel = proc[current].wait_channel
  BY EnteredCalm
<1> HIDE DEF E
<1>4. ASSUME NEW c, NEW Q, Q = [E EXCEPT ![current].call = c, ![current].arg = n]
      PROVE  /\ \A s \in Slots \ {current} : Q[s] = proc[s]
             /\ Q[current].state = proc[current].state /\ Q[current].pid = proc[current].pid
             /\ Q[current].parent_pid = proc[current].parent_pid
             /\ Q[current].is_thread = proc[current].is_thread
             /\ Q[current].wait_pid = proc[current].wait_pid
             /\ Q[current].join_tid = proc[current].join_tid
             /\ Q[current].wait_channel = proc[current].wait_channel
  BY <1>1, <1>2, <1>3, <1>4 DEF Table, Slot, E
<1> QED BY <1>4 DEF Waits, Joins, E

\* The caller runs, so that what it writes into its own slot puts nobody to sleep.
LEMMA CallCalm ==
  ASSUME TypeOK, proc[current].state = "RUNNING", NEW n
  PROVE  Calm(proc, Waits(proc, n)) /\ Calm(proc, Joins(proc, n))
<1>1. current \in Slots BY DEF TypeOK
<1>2. ASSUME NEW Q \in {Waits(proc, n), Joins(proc, n)} PROVE Calm(proc, Q)
  <2>1. /\ \A s \in Slots \ {current} : Q[s] = proc[s]
        /\ Q[current].state = "RUNNING" /\ Q[current].pid = proc[current].pid
        /\ Q[current].parent_pid = proc[current].parent_pid
        /\ Q[current].is_thread = proc[current].is_thread
    BY <1>2, CallFields
  <2>2. KinSlot(proc[current], Q[current]) /\ ChannelSlot(proc[current], Q[current])
    BY <2>1 DEF KinSlot, ChannelSlot, WaitsSo
  <2> QED BY <1>1, <2>1, <2>2, CalmAt DEF Up
<1> QED BY <1>2

\* Two or three fields at once, and a slot that may be reaped then.
LEMMA EaxCalm ==
  ASSUME NEW P \in Table, NEW i \in Slots, NEW v \in Int, NEW w \in Int, NEW z \in Slots
  PROVE  /\ Calm(P, [P EXCEPT ![i].eax = v])
         /\ Calm(P, ReapProcess([P EXCEPT ![i].eax = v, ![i].status = w], z))
<1> DEFINE P1 == [P EXCEPT ![i].eax = v]
           P2 == [P1 EXCEPT ![i].status = w]
<1>1. [P[i] EXCEPT !.eax = v] \in Slot BY DEF Table, Slot
<1>2. Calm(P, P1) /\ P1 \in Table BY <1>1, CalmFields DEF Table
<1> HIDE DEF P1
<1>3. [P1[i] EXCEPT !.status = w] \in Slot BY <1>2 DEF Table, Slot
<1>4. Calm(P1, P2) /\ P2 \in Table BY <1>2, <1>3, CalmFields DEF Table
<1> HIDE DEF P2
<1>5. Calm(P2, ReapProcess(P2, z)) BY <1>4, ReapCalm
<1>6. Calm(P, ReapProcess(P2, z)) BY <1>2, <1>4, <1>5, CalmTwice
<1> QED BY <1>2, <1>6 DEF P1, P2

LEMMA WaitBlocksChild ==
  ASSUME ChildHyp, NEW pid \in 0 .. MaxPid, WaitPid(pid), WaitBlocks(pid)
  PROVE  ChildInv(proc', next_pid')
<1>0. /\ TypeOK /\ current \in UserSlots /\ current \in Slots /\ proc[current].state = "RUNNING"
      /\ pid \in Nat
  BY ChildFacts, ProcessAssumption DEF WaitPid, Issues, InUser, UserSlots
<1> DEFINE P0 == Waits(proc, pid)
           P1 == [P0 EXCEPT ![current].eax = Blocked]
           P2 == [P1 EXCEPT ![current].state = "WAITING"]
           P3 == [P2 EXCEPT ![current].wait_pid = pid]
           P4 == [P3 EXCEPT ![current].wait_status = TRUE]
           P5 == [P4 EXCEPT ![current].wait_channel = NoChannel]
<1> HIDE DEF P0, P1, P2, P3, P4, P5
<1>1. Legal(P0) BY <1>0, LegalWaits DEF P0
<1>2. Legal(P1) BY <1>0, <1>1, LegalEax DEF P1, Blocked
<1>3. Legal(P2) BY <1>0, <1>2, LegalState DEF P2, States, UserSlots
<1>4. Legal(P3) BY <1>0, <1>3, LegalWaitPid DEF P3
<1>5. Legal(P4) BY <1>0, <1>4, LegalWaitStatus DEF P4
<1>6. P0 \in Table /\ P5 \in Table BY <1>0, <1>1, <1>5, LegalWaitChannel DEF P5, Legal
<1>7. Schedule(P5, TRUE) BY DEF WaitBlocks, P0, P1, P2, P3, P4, P5
<1>8. P5 = [P0 EXCEPT ![current] = [P0[current] EXCEPT
              !.eax = Blocked, !.state = "WAITING", !.wait_pid = pid, !.wait_status = TRUE,
              !.wait_channel = NoChannel]]
  BY <1>0, <1>6 DEF P1, P2, P3, P4, P5, Table
<1>9. /\ \A s \in Slots \ {current} : P5[s] = P0[s]
      /\ P5[current].state = "WAITING" /\ P5[current].pid = P0[current].pid
      /\ P5[current].parent_pid = P0[current].parent_pid
      /\ P5[current].is_thread = P0[current].is_thread /\ P5[current].wait_pid = pid
  BY <1>0, <1>6, <1>8 DEF Table, Slot
<1>10. /\ \A s \in Slots \ {current} : P0[s] = proc[s]
       /\ P0[current].pid = proc[current].pid
       /\ P0[current].parent_pid = proc[current].parent_pid
       /\ P0[current].is_thread = proc[current].is_thread
  BY <1>0, CallFields DEF P0
<1>11. \A c \in UserSlots : ~DeadChild(proc, c, proc[current].pid, pid)
  <2> DEFINE S == {c \in UserSlots :
                     IsChildOf(proc[c], proc[current].pid, pid) /\ proc[c].state = "ZOMBIE"}
  <2>1. First(S) = {} BY DEF WaitBlocks, FindZombieChild
  <2>2. S \in SUBSET Nat BY SlotsNat DEF UserSlots
  <2> HIDE DEF S
  <2>3. S = {} BY <2>1, <2>2, LowestIn
  <2> QED BY <2>3 DEF S, DeadChild
<1> HIDE DEF P0, P5
<1>12. ChildInv(P5, next_pid)
  BY <1>0, <1>9, <1>10, <1>11, BlockKeeps, ChildFacts
<1> QED BY <1>6, <1>7, <1>12, ScheduleChild DEF WaitPid

LEMMA WaitChild ==
  ASSUME ChildHyp, NEW pid \in 0 .. MaxPid, WaitPid(pid) PROVE ChildInv(proc', next_pid')
<1> DEFINE P0 == Waits(proc, pid)
<1>0. TypeOK /\ current \in Slots /\ proc[current].state = "RUNNING" /\ proc \in Table
  BY ChildFacts
<1>1. Calm(proc, P0) /\ P0 \in Table BY <1>0, CallCalm, LegalWaits DEF Legal
<1> HIDE DEF P0
<1>2. CASE WaitCollects(pid)
  <2>1. PICK z \in FindZombieChild(proc, proc[current].pid, pid) :
          proc' = ReapProcess([P0 EXCEPT
            ![current].eax = proc[z].pid, ![current].status = proc[z].exit_code], z)
    BY <1>2 DEF WaitCollects, ReturnWith, P0
  <2>2. z \in Slots BY FirstIn DEF FindZombieChild, UserSlots
  <2>3. proc[z] \in Slot BY <1>0, <2>2 DEF Table
  <2>4. proc[z].pid \in Int /\ proc[z].exit_code \in Int BY <2>3 DEF Slot
  <2>5. Calm(P0, proc') BY <1>0, <1>1, <2>1, <2>2, <2>4, EaxCalm
  <2> QED BY <1>1, <2>5, CalmTwice, CalmChild DEF WaitPid
<1>3. CASE WaitFails(pid)
  <2>1. proc' = [P0 EXCEPT ![current].eax = SysErr] BY <1>3 DEF WaitFails, ReturnWith, P0
  <2>2. Calm(P0, [P0 EXCEPT ![current].eax = SysErr]) BY <1>0, <1>1, CalmFields
  <2>3. Calm(proc, proc') BY <1>1, <2>1, <2>2, CalmTwice
  <2> QED BY <2>3, CalmChild DEF WaitPid
<1> QED BY <1>2, <1>3, WaitBlocksChild DEF WaitPid

LEMMA ExitChild ==
  ASSUME ChildHyp, NEW code \in Nat, NEW flag \in BOOLEAN, current # Bootstrap,
         Schedule(Died(Entered(proc), current, code), flag), UNCHANGED next_pid
  PROVE  ChildInv(proc', next_pid')
<1> DEFINE P == Entered(proc)
<1>0. TypeOK /\ current \in UserSlots /\ current \in Slots BY ChildFacts DEF UserSlots
<1>1. P \in Table /\ P[current].state = "RUNNING" /\ ChildInv(P, next_pid)
  BY <1>0, ChildFacts, EnteredCalm
<1>2. Legal(P) /\ Runs(P) BY <1>0, <1>1, ProcLegal, LegalEntered DEF Runs
<1> HIDE DEF P
<1>3. ChildInv(Died(P, current, code), next_pid) BY <1>0, <1>1, DiedKeeps
<1>4. Died(P, current, code) \in Table BY <1>0, <1>2, LegalDied DEF Legal, UserSlots
<1> QED BY <1>3, <1>4, ScheduleChild DEF P

LEMMA SignalChild ==
  ASSUME ChildHyp, NEW t \in UserSlots, NEW sig \in Signals, Signal(t, sig)
  PROVE  ChildInv(proc', next_pid')
<1> DEFINE P == Entered(proc)
<1>0. TypeOK /\ t \in Slots /\ t # current /\ t # Bootstrap BY ChildFacts DEF UserSlots, Signal
<1>1. P \in Table /\ P[t] = proc[t] /\ ChildInv(P, next_pid)
  BY <1>0, ChildFacts, EnteredCalm
<1>2. P[t].state # "UNUSED" BY <1>1, FirstIn DEF Signal, FindPid
<1>3. UNCHANGED next_pid BY DEF Signal
<1> HIDE DEF P
<1>4. CASE proc' = Died(P, t, 128 + sig)
  <2>1. 128 + sig \in Nat BY ProcessAssumption
  <2> QED BY <1>1, <1>2, <1>3, <1>4, <2>1, DiedKeeps
<1>5. CASE proc' = Stopped(P, t)
  <2>1. /\ \A s \in Slots \ {t} : proc'[s] = P[s]
        /\ proc'[t].state = "STOPPED" /\ proc'[t].pid = P[t].pid
        /\ proc'[t].parent_pid = P[t].parent_pid /\ proc'[t].is_thread = P[t].is_thread
    BY <1>0, <1>1, <1>5, StoppedFields
  <2>2. KinSlot(P[t], proc'[t]) /\ ChannelSlot(P[t], proc'[t])
    BY <1>2, <2>1 DEF KinSlot, ChannelSlot, WaitsSo
  <2> QED BY <1>0, <1>3, <2>1, <2>2, CalmAt, CalmChild DEF P
<1>6. CASE proc' = [P EXCEPT ![t].state = IF @ = "STOPPED" THEN "READY" ELSE @]
  <2>1. CASE P[t].state = "STOPPED"
    <3>1. proc' = [P EXCEPT ![t].state = "READY"] BY <1>6, <2>1
    <3>2. Calm(P, proc') BY <1>0, <1>1, <1>2, <3>1, CalmUp DEF Up
    <3> QED BY <1>3, <3>2, CalmChild DEF P
  <2>2. CASE P[t].state # "STOPPED"
    <3>1. proc' = P BY <1>0, <1>1, <1>6, <2>2 DEF Table, Slot
    <3> QED BY <1>1, <1>3, <3>1
  <2> QED BY <2>1, <2>2
<1> QED BY <1>4, <1>5, <1>6 DEF Signal, ReturnWith, P

\* A join: the thread is no child of anybody, and who joins waits for no child.
LEMMA JoinChild ==
  ASSUME ChildHyp, NEW tid \in 1 .. MaxTid, JoinThread(tid) PROVE ChildInv(proc', next_pid')
<1> DEFINE P0 == Joins(proc, tid)
           found == Threads(proc, proc[current].thread_group_pid, tid)
<1>0. /\ TypeOK /\ current \in Slots /\ current \in UserSlots /\ proc \in Table
      /\ proc[current].state = "RUNNING" /\ tid \in Nat /\ tid \in Int
  BY ChildFacts, ProcessAssumption DEF JoinThread, Issues, InUser, UserSlots
<1>1. Calm(proc, P0) /\ Legal(P0) BY <1>0, CallCalm, LegalJoins
<1>2. /\ P0[current].state = "RUNNING" /\ P0[current].pid = proc[current].pid
      /\ P0[current].parent_pid = proc[current].parent_pid
      /\ P0[current].is_thread = proc[current].is_thread
      /\ \A s \in Slots \ {current} : P0[s] = proc[s]
  BY <1>0, CallFields
<1>7. P0[current].call = "join"
  <2>1. Entered(proc) \in Table BY <1>0, EnteredCalm
  <2> QED BY <1>0, <2>1 DEF Joins, Table, Slot
<1> HIDE DEF P0, found
<1>3. UNCHANGED next_pid /\ P0 \in Table BY <1>1 DEF JoinThread, Legal
<1>4. CASE proc' = [P0 EXCEPT ![current].eax = SysErr]
  <2>1. Calm(P0, [P0 EXCEPT ![current].eax = SysErr]) BY <1>0, <1>3, CalmFields
  <2>2. Calm(proc, proc') BY <1>1, <1>4, <2>1, CalmTwice
  <2> QED BY <1>3, <2>2, CalmChild
<1>5. ASSUME NEW t \in found,
             proc' = ReapProcess([P0 EXCEPT
               ![current].eax = tid, ![current].status = proc[t].exit_code], t)
      PROVE  ChildInv(proc', next_pid')
  <2>1. t \in Slots BY FirstIn DEF found, Threads, UserSlots
  <2>2. proc[t] \in Slot BY <1>0, <2>1 DEF Table
  <2>3. proc[t].exit_code \in Int BY <2>2 DEF Slot
  <2>4. Calm(P0, proc') BY <1>0, <1>3, <1>5, <2>1, <2>3, EaxCalm
  <2> QED BY <1>1, <1>3, <2>4, CalmTwice, CalmChild
<1>6. CASE Schedule([P0 EXCEPT ![current].eax = Blocked, ![current].join_tid = tid,
                              ![current].state = "WAITING"], TRUE)
  <2> DEFINE P1 == [P0 EXCEPT ![current].eax = Blocked]
             P2 == [P1 EXCEPT ![current].join_tid = tid]
             P3 == [P2 EXCEPT ![current].state = "WAITING"]
  <2> HIDE DEF P1, P2, P3
  <2>1. Legal(P1) BY <1>0, <1>1, LegalEax DEF P1, Blocked
  <2>2. Legal(P2) BY <1>0, <2>1, LegalJoinTid DEF P2
  <2>3. P3 \in Table BY <1>0, <2>2, LegalState DEF P3, States, Legal, UserSlots
  <2>4. P3 = [P0 EXCEPT ![current] = [P0[current] EXCEPT
                !.eax = Blocked, !.join_tid = tid, !.state = "WAITING"]]
    BY <1>0, <1>3 DEF P1, P2, P3, Table
  <2>5. /\ \A s \in Slots \ {current} : P3[s] = P0[s]
        /\ P3[current].state = "WAITING" /\ P3[current].pid = P0[current].pid
        /\ P3[current].parent_pid = P0[current].parent_pid
        /\ P3[current].is_thread = P0[current].is_thread /\ P3[current].call = P0[current].call
    BY <1>0, <1>3, <2>4 DEF Table, Slot
  <2>6. Schedule(P3, TRUE) BY <1>6 DEF P1, P2, P3
  <2>7. ChildInv(P3, next_pid) BY <1>0, <1>2, <1>7, <2>5, BlockKeeps, ChildFacts
  <2> QED BY <1>3, <2>3, <2>6, <2>7, ScheduleChild
<1> QED BY <1>4, <1>5, <1>6 DEF JoinThread, ReturnWith, P0, found

LEMMA SleepChild ==
  ASSUME ChildHyp, NEW ch \in Channels, SleepOn(ch) PROVE ChildInv(proc', next_pid')
<1> DEFINE P == Entered(proc)
           Q == Slept(ch)
<1>0. TypeOK /\ current \in Slots /\ current \in UserSlots /\ proc[current].state = "RUNNING"
  BY ChildFacts DEF SleepOn, Issues, InUser, UserSlots
<1>1. /\ P \in Table /\ ChildInv(P, next_pid) /\ P[current].state = "RUNNING"
  BY <1>0, ChildFacts, EnteredCalm
<1>2. Q \in Table BY <1>0, LegalSlept DEF Legal, UserSlots
<1>3. Q = [P EXCEPT ![current] = [P[current] EXCEPT
             !.call = "sleep", !.eax = Blocked, !.rewound = TRUE, !.wait_channel = ch,
             !.state = "WAITING"]]
  BY <1>0, <1>1 DEF Slept, Table
<1> HIDE DEF P, Q
<1>4. /\ \A s \in Slots \ {current} : Q[s] = P[s]
      /\ Q[current].state = "WAITING" /\ Q[current].pid = P[current].pid
      /\ Q[current].parent_pid = P[current].parent_pid
      /\ Q[current].is_thread = P[current].is_thread /\ Q[current].call = "sleep"
  BY <1>0, <1>1, <1>3 DEF Table, Slot
<1>5. ChildInv(Q, next_pid) BY <1>0, <1>1, <1>4, BlockKeeps
<1>6. Schedule(Q, TRUE) /\ UNCHANGED next_pid BY DEF SleepOn, Q
<1> QED BY <1>2, <1>5, <1>6, ScheduleChild

\* The handlers that neither create, kill nor block.
LEMMA CalmHandlers ==
  ASSUME ChildHyp,
         \/ ExecReplaceCurrent \/ OtherSyscall \/ Reissue
         \/ \E z \in UserSlots : ReapPid(z)
         \/ \E ch \in Channels : Wakeup(ch) \/ DeviceWakeup(ch)
  PROVE  ChildInv(proc', next_pid')
<1>0. TypeOK /\ current \in Slots /\ proc[current].state = "RUNNING" /\ proc \in Table
  BY ChildFacts
<1> DEFINE P == Entered(proc)
<1>1. Calm(proc, P) /\ P \in Table /\ P[current].state = "RUNNING" BY <1>0, EnteredCalm
<1> HIDE DEF P
<1>2. CASE ExecReplaceCurrent
  <2>1. proc' = [P EXCEPT ![current] = [P[current] EXCEPT
          !.exit_code = 0, !.wait_pid = 0, !.wait_status = FALSE, !.reap_pending = FALSE]]
    BY <1>0, <1>1, <1>2 DEF ExecReplaceCurrent, ReturnWith, P, Table
  <2>2. /\ \A s \in Slots \ {current} : proc'[s] = P[s]
        /\ proc'[current].state = "RUNNING" /\ proc'[current].pid = P[current].pid
        /\ proc'[current].parent_pid = P[current].parent_pid
        /\ proc'[current].is_thread = P[current].is_thread
    BY <1>0, <1>1, <2>1 DEF Table, Slot
  <2>3. KinSlot(P[current], proc'[current]) /\ ChannelSlot(P[current], proc'[current])
    BY <1>1, <2>2 DEF KinSlot, ChannelSlot, WaitsSo
  <2>4. Calm(P, proc') BY <1>0, <2>2, <2>3, CalmAt DEF Up
  <2> QED BY <1>2, <2>4, CalmChild DEF ExecReplaceCurrent, P
<1>3. CASE OtherSyscall BY <1>1, <1>3, CalmChild DEF OtherSyscall, ReturnWith, P
<1>4. CASE Reissue
  <2> DEFINE P1 == [proc EXCEPT ![current].rewound = FALSE]
             v == IF proc[current].eax = Blocked THEN SysErr ELSE 0
  <2>1. Calm(proc, P1) /\ P1 \in Table
    <3>1. Legal(P1) BY <1>0, ProcLegal, LegalRewound
    <3> QED BY <1>0, <3>1, CalmFields DEF Legal
  <2>2. proc' = [P1 EXCEPT ![current].eax = v] BY <1>0, <1>4 DEF Reissue, ReturnWith, Table
  <2> HIDE DEF P1, v
  <2>3. Calm(P1, [P1 EXCEPT ![current].eax = v]) BY <1>0, <2>1, CalmFields
  <2>4. Calm(proc, proc') BY <2>1, <2>2, <2>3, CalmTwice
  <2> QED BY <1>4, <2>4, CalmChild DEF Reissue
<1>5. CASE \E z \in UserSlots : ReapPid(z)
  <2>1. PICK z \in UserSlots : ReapPid(z) BY <1>5
  <2>2. Calm(proc, proc') BY <1>0, <2>1, ReapCalm DEF ReapPid, ReturnWith, UserSlots
  <2> QED BY <2>1, <2>2, CalmChild DEF ReapPid
<1>6. CASE \E ch \in Channels : Wakeup(ch) \/ DeviceWakeup(ch)
  <2>1. PICK ch \in Channels : Wakeup(ch) \/ DeviceWakeup(ch) BY <1>6
  <2>2. proc' \in {Woken(P, ch), Woken(proc, ch)}
    BY <2>1 DEF Wakeup, DeviceWakeup, ReturnWith, P
  <2>3. Calm(P, Woken(P, ch)) /\ Calm(proc, Woken(proc, ch)) BY <1>0, <1>1, WokenCalm
  <2> QED BY <2>1, <2>2, <2>3, CalmChild DEF Wakeup, DeviceWakeup, P
<1> QED BY <1>2, <1>3, <1>4, <1>5, <1>6

LEMMA PolledTable ==
  ASSUME SchedInv, NEW P \in Polled PROVE P \in Table /\ Calm(proc, P)
<1>1. TypeOK /\ current \in Slots /\ proc \in Table BY DEF SchedInv, TypeOK, Table
<1>2. Legal(proc) /\ Runs(proc) BY <1>1, ProcLegal DEF Runs
<1>3. CASE P = proc BY <1>1, <1>3, CalmSame
<1>4. CASE P # proc
  <2>1. PICK ch : P = Woken(proc, ch) BY <1>4 DEF Polled
  <2>2. Legal(P) BY <1>1, <1>2, <2>1, LegalWoken
  <2> QED BY <1>1, <2>1, <2>2, WokenCalm DEF Legal
<1> QED BY <1>3, <1>4

LEMMA SwitchChild ==
  ASSUME ChildHyp, Yield \/ TimerInterrupt PROVE ChildInv(proc', next_pid')
<1>1. CASE Yield
  <2>1. Entered(proc) \in Table /\ ChildInv(Entered(proc), next_pid) BY ChildFacts, EnteredCalm
  <2> QED BY <1>1, <2>1, ScheduleChild DEF Yield
<1>2. CASE TimerInterrupt
  <2>1. PICK P \in Polled : Schedule(P, resched) BY <1>2 DEF TimerInterrupt
  <2>2. P \in Table /\ Calm(proc, P) BY PolledTable DEF ChildHyp
  <2>3. ChildInv(P, next_pid) BY <2>2, ChildFacts, CalmKeeps
  <2>4. resched \in BOOLEAN /\ UNCHANGED next_pid BY <1>2, ChildFacts DEF TypeOK, TimerInterrupt
  <2> QED BY <2>1, <2>2, <2>3, <2>4, ScheduleChild
<1> QED BY <1>1, <1>2

LEMMA ChildInit == Init => ChildInv(proc, next_pid)
<1> SUFFICES ASSUME Init PROVE ChildInv(proc, next_pid) OBVIOUS
<1> DEFINE boot == [ClearProcess EXCEPT !.pid = 1, !.state = "RUNNING"]
<1>1. boot.state = "RUNNING" /\ boot.pid = 1 /\ ~boot.is_thread BY DEF ClearProcess
<1>2. ClearProcess.state = "UNUSED" BY ClearType
<1>3. proc = [i \in Slots |-> IF i = Bootstrap THEN boot ELSE ClearProcess] BY DEF Init
<1> HIDE DEF boot
<1>4. \A s \in Slots : proc[s] = IF s = Bootstrap THEN boot ELSE ClearProcess BY <1>3
<1>5. Family(proc, next_pid)
  <2>1. next_pid = 2 BY DEF Init
  <2>2. \A s \in Slots : proc[s].state # "UNUSED" => s = Bootstrap BY <1>2, <1>4
  <2>3. 1 \in 1 .. next_pid - 1 BY <2>1
  <2> QED BY <1>1, <1>4, <2>2, <2>3, SlotZero DEF Family
<1>6. \A s, c \in UserSlots : ~Missed(proc, s, c) BY <1>2, <1>4 DEF Missed, UserSlots
<1>7. proc[Bootstrap].state \in Up BY <1>1, <1>4, SlotZero DEF Up
<1> QED BY <1>5, <1>6, <1>7 DEF ChildInv

LEMMA ChildNext == ChildHyp /\ [Next]_vars => ChildInv(proc, next_pid)'
<1> SUFFICES ASSUME ChildHyp, [Next]_vars PROVE ChildInv(proc', next_pid') OBVIOUS
<1>1. CASE SpawnProcess BY <1>1, SpawnChild
<1>2. CASE ForkCurrent BY <1>2, ForkChild
<1>3. CASE CreateUserThread BY <1>3, ThreadChild
<1>4. CASE ExecReplaceCurrent \/ OtherSyscall \/ Reissue BY <1>4, CalmHandlers
<1>5. CASE \E pid \in 0 .. MaxPid : WaitPid(pid) BY <1>5, WaitChild
<1>6. CASE \E code \in ExitCodes : ExitCurrent(code)
  <2>1. PICK code \in ExitCodes : ExitCurrent(code) BY <1>6
  <2>2. code \in Nat BY ProcessAssumption
  <2> QED BY <2>1, <2>2, ExitChild DEF ExitCurrent, Issues, InUser
<1>7. CASE FaultCurrent
  <2> DEFINE code == 128 + GeneralProtection
  <2>1. code \in Nat BY DEF GeneralProtection
  <2>2. Schedule(Died(Entered(proc), current, code), resched) BY <1>7 DEF FaultCurrent
  <2>3. resched \in BOOLEAN BY ChildFacts DEF TypeOK
  <2> HIDE DEF code
  <2> QED BY <1>7, <2>1, <2>2, <2>3, ExitChild DEF FaultCurrent, Issues, InUser
<1>8. CASE \E t \in UserSlots, sig \in Signals : Signal(t, sig) BY <1>8, SignalChild
<1>9. CASE \E z \in UserSlots : ReapPid(z) BY <1>9, CalmHandlers
<1>10. CASE \E tid \in 1 .. MaxTid : JoinThread(tid) BY <1>10, JoinChild
<1>11. CASE \E ch \in Channels : SleepOn(ch) \/ Wakeup(ch) \/ DeviceWakeup(ch)
  BY <1>11, SleepChild, CalmHandlers
<1>12. CASE Yield \/ TimerInterrupt BY <1>12, SwitchChild
<1>13. CASE UNCHANGED vars BY <1>13, ChildFacts DEF vars
<1> QED BY <1>1, <1>2, <1>3, <1>4, <1>5, <1>6, <1>7, <1>8, <1>9, <1>10, <1>11, <1>12, <1>13
        DEF Next

\* With process_lock uncontended, a process blocked in waitpid never has a dead child that
\* it waits for: the death of a child wakes it whatever killed the child, and the check of
\* process_wait_current for a dead child and its going to sleep are one step.
THEOREM NoChildMissed == ~Contended => (Spec => []NoLostChild)
<1> SUFFICES ASSUME ~Contended PROVE Spec => []NoLostChild OBVIOUS
<1>1. Spec => []CurrentRuns BY CurrentRunner
<1>2. Init => ChildInv(proc, next_pid) BY ChildInit
<1>3. SchedInv /\ CurrentRuns /\ ChildInv(proc, next_pid) /\ [Next]_vars
        => ChildInv(proc, next_pid)'
  BY ChildNext DEF ChildHyp
<1>4. ChildInv(proc, next_pid) => NoLostChild
  <2> SUFFICES ASSUME ChildInv(proc, next_pid), NEW s \in UserSlots,
                      proc[s].state = "WAITING", proc[s].call = "waitpid", ~proc[s].is_thread
               PROVE  FindZombieChild(proc, proc[s].pid, proc[s].wait_pid) = {}
    BY DEF NoLostChild
  <2>1. \A c \in UserSlots : ~Missed(proc, s, c) BY DEF ChildInv
  <2> QED BY <2>1, FirstIn DEF FindZombieChild, Missed, DeadChild
<1> QED BY <1>1, <1>2, <1>3, <1>4, SchedAlways, PTL DEF Spec

-----------------------------------------------------------------------------
(***************************************************************************)
(* What the scheduler does to a slot: it goes on or has to wait for the    *)
(* processor, or it was dead and is freed.                                 *)
(***************************************************************************)
SameTask(p, q) ==
  /\ q.pid = p.pid /\ q.parent_pid = p.parent_pid /\ q.exit_code = p.exit_code
  /\ q.tid = p.tid /\ q.thread_group_pid = p.thread_group_pid
  /\ q.wait_pid = p.wait_pid /\ q.wait_status = p.wait_status
  /\ q.wait_channel = p.wait_channel /\ q.reap_pending = p.reap_pending
  /\ q.is_thread = p.is_thread /\ q.join_tid = p.join_tid
  /\ q.eax = p.eax /\ q.rewound = p.rewound
  /\ q.call = p.call /\ q.arg = p.arg /\ q.status = p.status

Resumed(p, q) ==
  /\ SameTask(p, q)
  /\ q.state = p.state \/ (q.state \in Up /\ p.state \in Up)

Freed(p, q) == p.reap_pending /\ p.state = "ZOMBIE" /\ q = ClearProcess

LEMMA ChargeResumes ==
  ASSUME NEW P \in Table, NEW flag \in BOOLEAN, current \in Slots
  PROVE  /\ \A s \in Slots : Resumed(P[s], Charge(P, flag)[s])
         /\ Charge(P, flag)[current].state = P[current].state
         /\ ~Running(P) => Charge(P, flag) = P
<1> DEFINE Q == Charge(P, flag)
<1>1. CASE ~Running(P) BY <1>1 DEF Charge, Resumed, SameTask
<1>2. CASE Running(P)
  <2> DEFINE lower == IF ~flag /\ P[current].priority + 1 < Levels
                      THEN P[current].priority + 1 ELSE P[current].priority
             r == [P[current] EXCEPT !.ticks_used = 0, !.priority = lower]
  <2>1. P[current] \in Slot BY DEF Table
  <2>2. Q = [P EXCEPT ![current] = r] BY <1>2, <2>1 DEF Charge, Table, Slot
  <2> HIDE DEF lower
  <2>3. SameTask(P[current], r) /\ r.state = P[current].state BY <2>1 DEF SameTask, Slot
  <2> HIDE DEF r, Q
  <2>4. Q[current] = r /\ \A s \in Slots \ {current} : Q[s] = P[s] BY <2>2 DEF Table
  <2>5. \A s \in Slots : Resumed(P[s], Q[s]) BY <2>3, <2>4 DEF Resumed, SameTask
  <2> QED BY <1>2, <2>3, <2>4, <2>5 DEF Q
<1> QED BY <1>1, <1>2

\* A slot that may run gets another state in which it may.
LEMMA StateResumes ==
  ASSUME NEW P \in Table, NEW i \in Slots, NEW v \in Up, P[i].state \in Up
  PROVE  LET Q == [P EXCEPT ![i].state = v] IN
         /\ Q \in Table /\ Q[i].state = v
         /\ \A s \in Slots : Resumed(P[s], Q[s])
         /\ \A s \in Slots \ {i} : Q[s] = P[s]
<1> DEFINE r == [P[i] EXCEPT !.state = v]
           Q == [P EXCEPT ![i].state = v]
<1>1. P[i] \in Slot /\ v \in States BY DEF Table, Up, States
<1>2. r \in Slot /\ r.state = v /\ SameTask(P[i], r) BY <1>1 DEF SameTask, Slot
<1>3. Q = [P EXCEPT ![i] = r] OBVIOUS
<1> HIDE DEF r, Q
<1>4. Q \in Table /\ Q[i] = r /\ \A s \in Slots \ {i} : Q[s] = P[s] BY <1>2, <1>3 DEF Table
<1>5. \A s \in Slots : Resumed(P[s], Q[s]) BY <1>2, <1>4 DEF Resumed, SameTask
<1> QED BY <1>2, <1>4, <1>5 DEF Q

LEMMA ResumedTwice ==
  ASSUME NEW p, NEW q, NEW r, Resumed(p, q), Resumed(q, r) PROVE Resumed(p, r)
BY DEF Resumed, SameTask

LEMMA SwitchResumes ==
  ASSUME NEW P \in Table, current \in Slots, NEW n \in Slots, P[n].state \in Up
  PROVE  \A s \in Slots : \/ Resumed(P[s], SwitchTo(P, n)[s])
                          \/ s = current /\ Freed(P[s], SwitchTo(P, n)[s])
<1> DEFINE put == IF Running(P) THEN [P EXCEPT ![current].state = "READY"] ELSE P
           run == [put EXCEPT ![n].state = "RUNNING"]
           R == SwitchTo(P, n)
<1>1. /\ put \in Table /\ put[n].state \in Up
      /\ \A s \in Slots : Resumed(P[s], put[s])
  <2>1. CASE Running(P)
    <3>1. P[current].state \in Up /\ "READY" \in Up BY <2>1 DEF Running, Up
    <3> DEFINE Q == [P EXCEPT ![current].state = "READY"]
    <3>2. put = Q BY <2>1
    <3>3. /\ Q \in Table /\ Q[current].state \in Up
          /\ \A s \in Slots : Resumed(P[s], Q[s])
          /\ \A s \in Slots \ {current} : Q[s] = P[s]
      BY <3>1, StateResumes
    <3> HIDE DEF put, Q
    <3> QED BY <3>2, <3>3
  <2>2. CASE ~Running(P)
    <3>1. put = P BY <2>2
    <3> HIDE DEF put
    <3> QED BY <3>1 DEF Resumed, SameTask
  <2> QED BY <2>1, <2>2
<1>2. R = IF P[current].reap_pending THEN ReapProcess(run, current) ELSE run
  BY DEF SwitchTo
<1> HIDE DEF put, R
<1>3. "RUNNING" \in Up BY DEF Up
<1>4. run \in Table /\ \A s \in Slots : Resumed(put[s], run[s]) BY <1>1, <1>3, StateResumes
<1> HIDE DEF run
<1>5. \A s \in Slots : Resumed(P[s], run[s]) BY <1>1, <1>4, ResumedTwice
<1>6. CASE P[current].reap_pending /\ run[current].state = "ZOMBIE"
  <2>1. R = [run EXCEPT ![current] = ClearProcess] BY <1>2, <1>6 DEF ReapProcess
  <2>2. R[current] = ClearProcess /\ \A s \in Slots \ {current} : R[s] = run[s]
    BY <1>4, <2>1 DEF Table
  <2>3. Resumed(P[current], run[current]) BY <1>5
  <2>4. P[current].state = "ZOMBIE" BY <1>6, <2>3 DEF Resumed, Up
  <2>5. Freed(P[current], R[current]) BY <1>6, <2>2, <2>4 DEF Freed
  <2> QED BY <1>5, <2>2, <2>5 DEF R
<1>7. CASE ~(P[current].reap_pending /\ run[current].state = "ZOMBIE")
  <2>1. R = run BY <1>2, <1>7 DEF ReapProcess
  <2> QED BY <1>5, <2>1 DEF R
<1> QED BY <1>6, <1>7

LEMMA ScheduleResumes ==
  ASSUME TypeOK, ~Contended, NEW P \in Table, NEW flag \in BOOLEAN, Schedule(P, flag),
         P[Bootstrap].state \in Up
  PROVE  \A s \in Slots : \/ Resumed(P[s], proc'[s])
                          \/ s = current /\ Freed(P[s], proc'[s])
<1> DEFINE Q == Charge(P, flag)
<1>0. current \in Slots BY DEF TypeOK
<1>1. /\ \A s \in Slots : Resumed(P[s], Q[s])
      /\ Q[current].state = P[current].state /\ ~Running(P) => Q = P
  BY <1>0, ChargeResumes
<1>2. Q \in Table BY <1>0, ChargeKeeps
<1>3. CASE proc' = [P EXCEPT ![current].ticks_used = @ + 1]
  <2> DEFINE r == [P[current] EXCEPT !.ticks_used = P[current].ticks_used + 1]
  <2>1. P[current] \in Slot BY <1>0 DEF Table
  <2>2. proc' = [P EXCEPT ![current] = r] BY <1>3
  <2>3. SameTask(P[current], r) /\ r.state = P[current].state BY <2>1 DEF SameTask, Slot
  <2> HIDE DEF r
  <2>4. proc'[current] = r /\ \A s \in Slots \ {current} : proc'[s] = P[s]
    BY <1>0, <2>2 DEF Table
  <2> QED BY <2>3, <2>4 DEF Resumed, SameTask
<1>4. CASE proc' = Q BY <1>1, <1>4
<1> HIDE DEF Q
<1>5. ASSUME NEW n \in Successor(Q), proc' = SwitchTo(Q, n)
      PROVE  \A s \in Slots : \/ Resumed(P[s], proc'[s])
                              \/ s = current /\ Freed(P[s], proc'[s])
  <2>1. n \in Slots BY SuccessorIn
  <2>2. Q[n].state \in Up
    <3>1. Q[Bootstrap].state \in Up BY <1>1, SlotZero DEF Resumed
    <3>2. Q[n].state = "READY" \/ n = Bootstrap BY DEF Successor, NextReady
    <3> QED BY <3>1, <3>2 DEF Up
  <2>3. \A s \in Slots : \/ Resumed(Q[s], proc'[s])
                         \/ s = current /\ Freed(Q[s], proc'[s])
    BY <1>0, <1>2, <1>5, <2>1, <2>2, SwitchResumes
  <2>4. ASSUME NEW s \in Slots
        PROVE  Resumed(P[s], proc'[s]) \/ (s = current /\ Freed(P[s], proc'[s]))
    <3>1. CASE Resumed(Q[s], proc'[s]) BY <1>1, <3>1, ResumedTwice
    <3>2. CASE s = current /\ Freed(Q[s], proc'[s])
      <4>1. Resumed(P[s], Q[s]) BY <1>1
      <4>2. P[s].reap_pending /\ P[s].state = "ZOMBIE"
        BY <3>2, <4>1 DEF Freed, Resumed, SameTask, Up
      <4> QED BY <3>2, <4>2 DEF Freed
    <3> QED BY <2>3, <3>1, <3>2
  <2> QED BY <2>4
<1> QED BY <1>3, <1>4, <1>5 DEF Schedule, LockedSchedule, Q


-----------------------------------------------------------------------------
(***************************************************************************)
(* What a waitpid returns.  Of a dead process the table has the code that  *)
(* the history has, of one that lives the history has none yet, and who    *)
(* waits has said for whom: then whoever dies leaves his parent its pid    *)
(* and its code.  (A join leaves join_tid set in a thread that a child's   *)
(* death woke from it, and a thread's exit then answers its next waitpid:  *)
(* this is about programs without threads.)                                *)
(***************************************************************************)
Answered(p, D) ==
  \/ p.eax = SysErr
  \/ /\ p.eax \in Pids
     /\ p.arg \in {WaitAny, p.eax}
     /\ p.status \in Nat
     /\ D[p.eax] \in {p.status, Disturbed}

Expects(p) == p.wait_status /\ p.wait_pid = p.arg /\ p.wait_channel = NoChannel

Going == {"READY", "RUNNING", "STOPPED"}

Sound(p, D) ==
  /\ ~p.is_thread /\ p.join_tid = 0
  /\ p.call = "waitpid" => /\ ~p.rewound
                           /\ p.state \in Going => Answered(p, D)
                           /\ p.state = "WAITING" => Expects(p)
  /\ p.state \in Going \cup {"WAITING"} => D[p.pid] \in {NoStatus, Disturbed}
  /\ p.state = "ZOMBIE" => D[p.pid] \in {p.exit_code, Disturbed}

AllSound(P, D) == \A s \in UserSlots : Sound(P[s], D)

\* Pids to come have no history.
Unborn(D, n) == \A p \in Pids : p >= n => D[p] = NoStatus

\* The dead are dead afterwards, or their slot is free.
Buried(P, Q) ==
  \A s \in UserSlots : P[s].state = "ZOMBIE" => Q[s].state \in {"ZOMBIE", "UNUSED"}

LEMMA BuriedTwice ==
  ASSUME NEW P, NEW Q, NEW R, Buried(P, Q),
         \A s \in UserSlots : Q[s].state \in {"ZOMBIE", "UNUSED"} => R[s].state \in {"ZOMBIE", "UNUSED"}
  PROVE  Buried(P, R)
BY DEF Buried

LEMMA SoundClear == ASSUME NEW D PROVE Sound(ClearProcess, D)
BY DEF Sound, ClearProcess, Going

LEMMA SoundResumed ==
  ASSUME NEW p, NEW q, NEW D, Sound(p, D), Resumed(p, q) PROVE Sound(q, D)
<1>1. p.state \in Up => p.state \in Going BY DEF Up, Going
<1>2. q.state \in Up => q.state \notin {"WAITING", "ZOMBIE"} BY DEF Up
<1>3. q.state \in Going => p.state \in Going BY <1>1 DEF Resumed
<1> QED BY <1>2, <1>3 DEF Sound, Resumed, SameTask, Answered, Expects

\* The history grows by first deaths, and some of it is disturbed.
Later(D, E) == \A x \in Pids : E[x] = D[x] \/ D[x] = NoStatus \/ E[x] = Disturbed

LEMMA SoundLater ==
  ASSUME NEW p, NEW D, NEW E, Sound(p, D), Later(D, E),
         p.state # "UNUSED" => E[p.pid] = D[p.pid] \/ E[p.pid] = Disturbed,
         p.state \in States
  PROVE  Sound(p, E)
<1>1. Answered(p, D) => Answered(p, E)
  <2>1. p.status \in Nat => p.status # NoStatus BY DEF NoStatus
  <2>2. NoStatus # Disturbed BY DEF NoStatus, Disturbed
  <2> QED BY <2>1, <2>2 DEF Answered, Later
<1> QED BY <1>1 DEF Sound, Going, States

LEMMA PutSound ==
  ASSUME NEW P, NEW Q, NEW i \in Slots, NEW D, AllSound(P, D),
         \A s \in Slots \ {i} : Q[s] = P[s], Sound(Q[i], D) \/ i = Bootstrap,
         P[i].state = "ZOMBIE" => Q[i].state \in {"ZOMBIE", "UNUSED"}
  PROVE  AllSound(Q, D) /\ Buried(P, Q)
BY DEF AllSound, Buried, UserSlots

\* The scheduler keeps all that, whatever it does.
LEMMA ScheduleSound ==
  ASSUME TypeOK, ~Contended, NEW P \in Table, NEW flag \in BOOLEAN, Schedule(P, flag),
         P[Bootstrap].state \in Up, NEW D, AllSound(P, D)
  PROVE  /\ AllSound(proc', D)
         /\ \A s \in UserSlots : P[s].state \in {"ZOMBIE", "UNUSED"}
                                   => proc'[s].state \in {"ZOMBIE", "UNUSED"}
<1>1. ASSUME NEW s \in UserSlots
      PROVE  /\ Sound(proc'[s], D)
             /\ P[s].state \in {"ZOMBIE", "UNUSED"} => proc'[s].state \in {"ZOMBIE", "UNUSED"}
  <2>1. s \in Slots /\ Sound(P[s], D) BY DEF UserSlots, AllSound
  <2>2. CASE Resumed(P[s], proc'[s])
    <3>1. P[s].state \in {"ZOMBIE", "UNUSED"} => proc'[s].state = P[s].state
      BY <2>2 DEF Resumed, Up
    <3> QED BY <2>1, <2>2, <3>1, SoundResumed
  <2>3. CASE Freed(P[s], proc'[s]) BY <2>3, SoundClear, ClearType DEF Freed
  <2> QED BY <2>1, <2>2, <2>3, ScheduleResumes
<1> QED BY <1>1 DEF AllSound

\* A waiting parent is woken by the death of slot p's process; the other slot is marked.
Answers(p, q, c) ==
  /\ p.state = "WAITING" /\ p.pid = c.parent_pid /\ p.wait_pid \in {WaitAny, c.pid}
  /\ q.state = "READY" /\ q.pid = p.pid /\ q.call = p.call
  /\ q.is_thread = p.is_thread /\ q.join_tid = p.join_tid
  /\ q.rewound = p.rewound /\ q.arg = p.arg /\ q.reap_pending = p.reap_pending
  /\ q.eax = c.pid
  /\ p.wait_status => q.status = c.exit_code

Marked(p, q) ==
  /\ q.state = p.state /\ q.pid = p.pid /\ q.exit_code = p.exit_code
  /\ q.is_thread = p.is_thread /\ q.join_tid = p.join_tid
  /\ q.call = p.call /\ q.rewound = p.rewound
  /\ q.eax = p.eax /\ q.arg = p.arg /\ q.status = p.status
  /\ q.wait_status = p.wait_status /\ q.wait_pid = p.wait_pid
  /\ q.wait_channel = p.wait_channel

LEMMA WakeFields ==
  ASSUME NEW P \in Table, NEW c \in Slots, NEW s \in Slots
  PROVE  LET W == WaitingParent(P, c)  q == WakeWaitingParent(P, c)[s] IN
         /\ s \in W => Answers(P[s], q, P[c])
         /\ s \notin W /\ s # c => q = P[s]
         /\ s \notin W /\ s = c =>
              /\ Marked(P[s], q)
              /\ q.reap_pending = (P[s].reap_pending \/ W # {})
<1> DEFINE W == WaitingParent(P, c)
           q == WakeWaitingParent(P, c)[s]
           wakes == [P[s] EXCEPT !.eax = P[c].pid,
                       !.status = IF P[s].wait_status THEN P[c].exit_code ELSE @,
                       !.wait_pid = 0, !.wait_status = FALSE,
                       !.wait_channel = NoChannel, !.state = "READY"]
           marks == [P[s] EXCEPT !.reap_pending = TRUE]
<1>0. P[s] \in Slot BY DEF Table
<1>1. q = IF s \in W THEN wakes ELSE IF s = c /\ W # {} THEN marks ELSE P[s]
  BY DEF WakeWaitingParent
<1>2. s \in W => P[s].state = "WAITING" /\ P[s].pid = P[c].parent_pid
                 /\ P[s].wait_pid \in {WaitAny, P[c].pid}
  BY FirstIn DEF WaitingParent
<1> HIDE DEF W
<1>3. s \in W => Answers(P[s], wakes, P[c]) BY <1>0, <1>2 DEF Answers, Slot
<1>4. Marked(P[s], marks) /\ marks.reap_pending /\ Marked(P[s], P[s])
  BY <1>0 DEF Marked, Slot
<1>5. P[s].reap_pending \in BOOLEAN BY <1>0 DEF Slot
<1> HIDE DEF q, wakes, marks
<1>6. /\ s \in W => Answers(P[s], q, P[c])
      /\ s \notin W /\ s # c => q = P[s]
      /\ s \notin W /\ s = c => /\ Marked(P[s], q)
                               /\ q.reap_pending = (P[s].reap_pending \/ W # {})
  <2>1. CASE s \in W BY <1>1, <1>3, <2>1
  <2>2. CASE s \notin W /\ s # c BY <1>1, <2>2
  <2>3. CASE s \notin W /\ s = c /\ W # {} BY <1>1, <1>4, <2>3
  <2>4. CASE s \notin W /\ s = c /\ W = {} BY <1>1, <1>4, <1>5, <2>4
  <2> QED BY <2>1, <2>2, <2>3, <2>4
<1> QED BY <1>6 DEF q, W


\* The history of a death.
DeathIn(D, pid, code) ==
  [D EXCEPT ![pid] = IF @ = NoStatus THEN code ELSE Disturbed]

LEMMA KilledFields ==
  ASSUME NEW P \in Table, NEW c \in Slots, NEW code \in Nat
  PROVE  LET Q == Killed(P, c, code) IN
         /\ Q \in Table
         /\ \A s \in Slots \ {c} : Q[s] = P[s]
         /\ Q[c].state = "ZOMBIE" /\ Q[c].exit_code = code /\ Q[c].pid = P[c].pid
         /\ Q[c].parent_pid = P[c].parent_pid /\ Q[c].is_thread = P[c].is_thread
         /\ Q[c].join_tid = P[c].join_tid /\ Q[c].call = P[c].call
         /\ Q[c].rewound = P[c].rewound /\ Q[c].reap_pending = P[c].reap_pending
         /\ Q[c].tid = P[c].tid /\ Q[c].thread_group_pid = P[c].thread_group_pid
<1> DEFINE r == [P[c] EXCEPT !.exit_code = code, !.state = "ZOMBIE"]
           Q == Killed(P, c, code)
<1>1. P[c] \in Slot BY DEF Table
<1>2. Q = [P EXCEPT ![c] = r] BY <1>1 DEF Killed, Table
<1>3. /\ r \in Slot
      /\ r.state = "ZOMBIE" /\ r.exit_code = code /\ r.pid = P[c].pid
      /\ r.parent_pid = P[c].parent_pid /\ r.is_thread = P[c].is_thread
      /\ r.join_tid = P[c].join_tid /\ r.call = P[c].call
      /\ r.rewound = P[c].rewound /\ r.reap_pending = P[c].reap_pending
      /\ r.tid = P[c].tid /\ r.thread_group_pid = P[c].thread_group_pid
  BY <1>1 DEF Slot, States
<1> HIDE DEF r, Q
<1>4. Q \in Table /\ Q[c] = r /\ \A s \in Slots \ {c} : Q[s] = P[s] BY <1>2, <1>3 DEF Table
<1> QED BY <1>3, <1>4 DEF Q

LEMMA PidIn ==
  ASSUME NEW P, NEW n \in Nat, n <= MaxPid + 1, Family(P, n),
         NEW s \in Slots, P[s].state # "UNUSED", ~P[s].is_thread
  PROVE  P[s].pid \in Pids /\ P[s].pid # 0 /\ P[s].pid < n
<1>1. P[s].pid \in 1 .. n - 1 BY DEF Family
<1>2. MaxPid \in Nat BY ProcessAssumption
<1> QED BY <1>1, <1>2 DEF Pids

\* A death leaves the code in its slot, in the history and with a parent that waits.
LEMMA DiedSound ==
  ASSUME NEW P \in Table, NEW c \in UserSlots, NEW code \in Nat, NEW D \in [Pids -> Int],
         AllSound(P, D), NEW n \in Nat, n <= MaxPid + 1, Family(P, n),
         P[c].state # "UNUSED"
  PROVE  LET R == Died(P, c, code) IN
         /\ AllSound(R, DeathIn(D, P[c].pid, code))
         /\ R[c].state = "ZOMBIE"
         /\ Buried(P, R)
<1> DEFINE Q == Killed(P, c, code)
           R == Died(P, c, code)
           W == WaitingParent(Q, c)
           E == DeathIn(D, P[c].pid, code)
           x == P[c].pid
<1>0. c \in Slots /\ ~P[c].is_thread BY DEF UserSlots, AllSound, Sound
<1>1. /\ Q \in Table
      /\ \A s \in Slots \ {c} : Q[s] = P[s]
      /\ Q[c].state = "ZOMBIE" /\ Q[c].exit_code = code /\ Q[c].pid = P[c].pid
      /\ Q[c].parent_pid = P[c].parent_pid /\ Q[c].is_thread = P[c].is_thread
      /\ Q[c].join_tid = P[c].join_tid /\ Q[c].call = P[c].call
      /\ Q[c].rewound = P[c].rewound
  BY <1>0, KilledFields
<1>2. R = WakeWaitingParent(Q, c) BY <1>0 DEF Died
<1>3. \A s \in Slots : P[s].state \in States BY DEF Table, Slot
<1>4. x \in Pids BY <1>0, PidIn
<1>5. /\ E[x] = IF D[x] = NoStatus THEN code ELSE Disturbed
      /\ \A y \in Pids \ {x} : E[y] = D[y]
  BY <1>4 DEF DeathIn
<1> HIDE DEF Q, E, x
<1>6. Later(D, E) BY <1>5 DEF Later
<1>7. \A s \in Slots : s \in W => P[s].state = "WAITING" /\ s # c
  <2>1. \A s \in Slots : s \in W => Q[s].state = "WAITING" BY FirstIn DEF WaitingParent
  <2> QED BY <1>1, <2>1
<1> HIDE DEF R, W
<1>8. ASSUME NEW s \in UserSlots
      PROVE  /\ Sound(R[s], E)
             /\ P[s].state = "ZOMBIE" => R[s].state = "ZOMBIE"
             /\ s = c => R[s].state = "ZOMBIE"
  <2>0. s \in Slots /\ Sound(P[s], D) /\ P[s].state \in States BY <1>3 DEF UserSlots, AllSound
  <2>1. /\ s \in W => Answers(Q[s], R[s], Q[c])
        /\ s \notin W /\ s # c => R[s] = Q[s]
        /\ s \notin W /\ s = c => Marked(Q[s], R[s])
    BY <1>0, <1>1, <1>2, <2>0, WakeFields DEF W
  <2>2. s # c /\ P[s].state # "UNUSED" => E[P[s].pid] = D[P[s].pid]
    <3> SUFFICES ASSUME s # c, P[s].state # "UNUSED" PROVE E[P[s].pid] = D[P[s].pid] OBVIOUS
    <3>0. P[s].pid \in Pids /\ P[s].pid # 0 BY <2>0, PidIn DEF Sound
    <3>1. P[s].pid # x BY <1>0, <2>0, <3>0 DEF Family, x
    <3> QED BY <1>5, <3>0, <3>1
  <2>3. CASE s = c
    <3>1. s \notin W BY <1>0, <1>7, <2>3
    <3>2. Marked(Q[c], R[c]) BY <2>1, <2>3, <3>1
    <3>3. R[c].state = "ZOMBIE" /\ R[c].exit_code = code /\ R[c].pid = x
      BY <1>1, <3>2 DEF Marked, x
    <3>4. /\ ~R[c].is_thread /\ R[c].join_tid = 0
          /\ R[c].call = "waitpid" => ~R[c].rewound
      BY <1>1, <2>0, <2>3, <3>2 DEF Marked, Sound
    <3>5. E[x] \in {code, Disturbed} BY <1>5
    <3>6. Sound(R[c], E) BY <3>3, <3>4, <3>5 DEF Sound, Going
    <3> QED BY <2>3, <3>3, <3>6
  <2>4. CASE s # c /\ s \notin W
    <3>1. R[s] = P[s] BY <1>1, <2>0, <2>1, <2>4
    <3>2. Sound(P[s], E) BY <1>6, <2>0, <2>2, <2>4, SoundLater
    <3> QED BY <2>4, <3>1, <3>2
  <2>5. CASE s # c /\ s \in W
    <3>1. Answers(P[s], R[s], Q[c]) BY <1>1, <2>0, <2>1, <2>5
    <3>2. R[s].eax = x /\ P[s].state = "WAITING" BY <1>1, <3>1 DEF Answers, x
    <3>3. P[s].call = "waitpid" => Answered(R[s], E)
      <4> SUFFICES ASSUME P[s].call = "waitpid" PROVE Answered(R[s], E) OBVIOUS
      <4>1. Expects(P[s]) BY <2>0, <3>2 DEF Sound
      <4>2. R[s].arg \in {WaitAny, x} /\ R[s].status = code
        BY <1>1, <3>1, <4>1 DEF Answers, Expects, x
      <4> QED BY <1>4, <1>5, <3>2, <4>2 DEF Answered
    <3>4. E[R[s].pid] \in {NoStatus, Disturbed}
      <4>1. D[P[s].pid] \in {NoStatus, Disturbed} BY <2>0, <3>2 DEF Sound
      <4>2. R[s].pid = P[s].pid BY <3>1 DEF Answers
      <4> QED BY <2>2, <2>5, <3>2, <4>1, <4>2
    <3>5. Sound(R[s], E) BY <2>0, <3>1, <3>3, <3>4 DEF Sound, Answers
    <3> QED BY <2>5, <3>2, <3>5
  <2> QED BY <2>3, <2>4, <2>5
<1>9. AllSound(R, E) /\ Buried(P, R) BY <1>8 DEF AllSound, Buried
<1> QED BY <1>8, <1>9 DEF R, E, x


-----------------------------------------------------------------------------
(***************************************************************************)
(* One lemma per handler.                                                  *)
(***************************************************************************)
ResultHyp ==
  /\ ChildHyp /\ ~Contended /\ "thread" \notin Workload
  /\ AllSound(proc, died) /\ Unborn(died, next_pid)

Told == AllSound(proc', died') /\ Unborn(died', next_pid') /\ DeadStay

LEMMA ResultFacts ==
  ASSUME ResultHyp
  PROVE  /\ TypeOK /\ proc \in Table /\ current \in Slots /\ proc[current] \in Slot
         /\ proc[current].state = "RUNNING"
         /\ died \in [Pids -> Int] /\ next_pid \in Nat /\ next_pid <= MaxPid + 1
         /\ Family(proc, next_pid) /\ proc[Bootstrap].state \in Up
         /\ AllSound(proc, died) /\ ~Contended
<1>1. TypeOK /\ proc \in Table /\ current \in Slots /\ proc[current] \in Slot
  BY ChildFacts DEF ResultHyp
<1>2. next_pid \in Nat /\ next_pid <= MaxPid + 1 BY <1>1, ProcessAssumption DEF TypeOK
<1> QED BY <1>1, <1>2, ChildFacts DEF ResultHyp, TypeOK, ChildInv

LEMMA BuriedStay == Buried(proc, proc') => DeadStay
BY DEF Buried, DeadStay

LEMMA StillTold ==
  ASSUME ResultHyp, AllSound(proc', died), Buried(proc, proc'), UNCHANGED <<next_pid, died>>
  PROVE  Told
BY BuriedStay DEF Told, ResultHyp

\* The running program's slot changes, and no other.
LEMMA CallerSound ==
  ASSUME ResultHyp, NEW Q, \A s \in Slots \ {current} : Q[s] = proc[s],
         Q[current].state = "RUNNING", Q[current].pid = proc[current].pid,
         Q[current].is_thread = proc[current].is_thread,
         Q[current].join_tid = proc[current].join_tid,
         Q[current].call = "waitpid" => ~Q[current].rewound /\ Answered(Q[current], died)
  PROVE  AllSound(Q, died) /\ Buried(proc, Q)
<1>1. current # Bootstrap => Sound(proc[current], died) BY ResultFacts DEF AllSound, UserSlots
<1>2. proc[current].state = "RUNNING" /\ current \in Slots BY ResultFacts
<1>3. "RUNNING" \in Going BY DEF Going
<1>4. current # Bootstrap => Sound(Q[current], died) BY <1>1, <1>2, <1>3 DEF Sound
<1> QED BY <1>2, <1>4, ResultFacts, PutSound

LEMMA EnteredSound ==
  ASSUME ResultHyp
  PROVE  /\ Entered(proc) \in Table /\ AllSound(Entered(proc), died)
         /\ Buried(proc, Entered(proc)) /\ Family(Entered(proc), next_pid)
         /\ Entered(proc)[Bootstrap].state \in Up
         /\ \A s \in Slots \ {current} : Entered(proc)[s] = proc[s]
         /\ LET q == Entered(proc)[current]  p == proc[current] IN
            /\ q.state = "RUNNING" /\ q.pid = p.pid /\ q.is_thread = p.is_thread
            /\ q.join_tid = p.join_tid /\ q.call = "none"
<1>1. TypeOK /\ proc[current].state = "RUNNING" BY ResultFacts
<1>2. ChildInv(Entered(proc), next_pid) BY ChildFacts DEF ResultHyp
<1>3. AllSound(Entered(proc), died) /\ Buried(proc, Entered(proc))
  BY <1>1, EnteredCalm, CallerSound
<1> QED BY <1>1, <1>2, <1>3, EnteredCalm DEF ChildInv

\* A new process has asked for nothing, and its pid has no history.
LEMMA NewSound ==
  ASSUME ResultHyp, next_pid <= MaxPid, NEW parent_pid, NEW tgid, NEW tid, NEW priority
  PROVE  Sound(NewProcess(next_pid, parent_pid, tgid, tid, priority), died)
<1> DEFINE r == NewProcess(next_pid, parent_pid, tgid, tid, priority)
<1>1. /\ r.call = "none" /\ r.join_tid = 0 /\ ~r.is_thread /\ r.state = "READY" /\ r.pid = next_pid
  BY DEF NewProcess, ClearProcess
<1> HIDE DEF r
<1>2. next_pid \in Pids
  <2>1. next_pid \in 2 .. MaxPid + 1 /\ MaxPid \in Nat
    BY ResultFacts, ProcessAssumption DEF TypeOK
  <2> QED BY <2>1 DEF Pids
<1>3. died[next_pid] = NoStatus BY <1>2, ResultFacts DEF ResultHyp, Unborn
<1>4. Sound(r, died) BY <1>1, <1>3 DEF Sound
<1> QED BY <1>4 DEF r

LEMMA CreatedTold ==
  ASSUME ResultHyp, AllSound(proc', died), Buried(proc, proc'),
         next_pid' = next_pid + 1, UNCHANGED died
  PROVE  Told
<1>1. Unborn(died, next_pid + 1)
  <2>1. next_pid \in Nat BY ResultFacts
  <2>2. \A p \in Pids : p >= next_pid + 1 => p >= next_pid BY <2>1 DEF Pids
  <2> QED BY <2>2 DEF ResultHyp, Unborn
<1> QED BY <1>1, BuriedStay DEF Told

LEMMA SpawnTold ==
  ASSUME ResultHyp, SpawnProcess PROVE Told
<1> DEFINE r == NewProcess(next_pid, proc[current].pid, next_pid, next_tid, PriorityDefault)
<1>1. PICK s \in FindFreeSlot(proc) : proc' = [proc EXCEPT ![s] = r]
  BY DEF SpawnProcess, ReturnWith
<1>2. Sound(r, died) BY NewSound DEF SpawnProcess
<1> HIDE DEF r
<1>3. s \in Slots /\ proc[s].state = "UNUSED" BY FreeSlot
<1>4. proc'[s] = r /\ \A t \in Slots \ {s} : proc'[t] = proc[t]
  BY <1>1, <1>3, ResultFacts DEF Table
<1>5. AllSound(proc', died) /\ Buried(proc, proc')
  BY <1>2, <1>3, <1>4, ResultFacts, PutSound
<1> QED BY <1>5, CreatedTold DEF SpawnProcess

LEMMA ForkTold ==
  ASSUME ResultHyp, ForkCurrent PROVE Told
<1> DEFINE parent == proc[current]
           r == NewProcess(next_pid, parent.pid, parent.thread_group_pid,
                           next_tid + 1, parent.priority)
           P == Entered(proc)
<1>1. PICK s \in FindFreeSlot(proc) :
        proc' = [P EXCEPT ![s] = r, ![current].eax = next_pid]
  BY DEF ForkCurrent, ReturnWith
<1>2. Sound(r, died) BY NewSound DEF ForkCurrent
<1>3. s \in Slots /\ proc[s].state = "UNUSED" /\ s # current BY FreeSlot, ResultFacts
<1>4. /\ P \in Table /\ \A t \in Slots \ {current} : P[t] = proc[t]
      /\ P[current].state = "RUNNING" /\ P[current].pid = parent.pid
      /\ P[current].is_thread = parent.is_thread /\ P[current].join_tid = parent.join_tid
      /\ P[current].call = "none"
  BY EnteredSound
<1> DEFINE Q == [P EXCEPT ![current].eax = next_pid]
<1>5. current \in Slots BY ResultFacts
<1> HIDE DEF P, r
<1>6. proc' = [Q EXCEPT ![s] = r] BY <1>1, <1>3, <1>4, <1>5 DEF Table
<1>7. /\ \A t \in Slots \ {current} : Q[t] = P[t]
      /\ Q[current].state = "RUNNING" /\ Q[current].pid = parent.pid
      /\ Q[current].is_thread = parent.is_thread /\ Q[current].join_tid = parent.join_tid
      /\ Q[current].call = "none"
  BY <1>4, <1>5 DEF Table, Slot
<1>8. Q \in [Slots -> {Q[t] : t \in Slots}] BY <1>4 DEF Table
<1> HIDE DEF Q
<1>9. AllSound(Q, died) /\ Buried(proc, Q) BY <1>4, <1>7, CallerSound
<1>10. proc'[s] = r /\ \A t \in Slots \ {s} : proc'[t] = Q[t] BY <1>3, <1>6, <1>8
<1>11. Q[s].state = "UNUSED" BY <1>3, <1>4, <1>7
<1>12. AllSound(proc', died) /\ Buried(Q, proc')
  BY <1>2, <1>3, <1>9, <1>10, <1>11, PutSound
<1>13. Buried(proc, proc') BY <1>9, <1>10, <1>3, <1>4, <1>7, <1>5, ResultFacts DEF Buried, UserSlots
<1> QED BY <1>12, <1>13, CreatedTold DEF ForkCurrent

LEMMA QuietTold ==
  ASSUME ResultHyp, ExecReplaceCurrent \/ OtherSyscall \/ Reissue PROVE Told
<1> DEFINE P == Entered(proc)
<1>0. current \in Slots /\ proc \in Table /\ proc[current] \in Slot
      /\ proc[current].state = "RUNNING"
  BY ResultFacts
<1>1. /\ P \in Table /\ \A t \in Slots \ {current} : P[t] = proc[t]
      /\ P[current].state = "RUNNING" /\ P[current].pid = proc[current].pid
      /\ P[current].is_thread = proc[current].is_thread
      /\ P[current].join_tid = proc[current].join_tid
      /\ P[current].call = "none"
  BY EnteredSound
<1>2. CASE ExecReplaceCurrent
  <2>1. proc' = [P EXCEPT ![current] = [P[current] EXCEPT
          !.exit_code = 0, !.wait_pid = 0, !.wait_status = FALSE, !.reap_pending = FALSE]]
    BY <1>0, <1>1, <1>2 DEF ExecReplaceCurrent, ReturnWith, Table
  <2> HIDE DEF P
  <2>2. /\ \A s \in Slots \ {current} : proc'[s] = P[s]
        /\ proc'[current].state = "RUNNING" /\ proc'[current].pid = P[current].pid
        /\ proc'[current].is_thread = P[current].is_thread
        /\ proc'[current].join_tid = P[current].join_tid
        /\ proc'[current].call = "none"
    BY <1>0, <1>1, <2>1 DEF Table, Slot
  <2>3. AllSound(proc', died) /\ Buried(proc, proc') BY <1>1, <2>2, CallerSound
  <2> QED BY <1>2, <2>3, StillTold DEF ExecReplaceCurrent
<1>3. CASE OtherSyscall
  BY <1>3, EnteredSound, StillTold DEF OtherSyscall, ReturnWith
<1>4. CASE Reissue
  <2> DEFINE v == IF proc[current].eax = Blocked THEN SysErr ELSE 0
             r == [proc[current] EXCEPT !.rewound = FALSE, !.eax = v]
  <2>1. proc' = [proc EXCEPT ![current] = r] BY <1>0, <1>4 DEF Reissue, ReturnWith, Table
  <2> HIDE DEF v
  <2>2. /\ r.state = "RUNNING" /\ r.pid = proc[current].pid
        /\ r.is_thread = proc[current].is_thread /\ r.join_tid = proc[current].join_tid
        /\ r.call = proc[current].call
    BY <1>0 DEF Slot
  <2> HIDE DEF r
  <2>3. proc'[current] = r /\ \A s \in Slots \ {current} : proc'[s] = proc[s]
    BY <1>0, <2>1 DEF Table
  <2>4. proc[current].call # "waitpid"
    <3>1. current \in UserSlots /\ proc[current].rewound BY <1>0, <1>4 DEF Reissue, UserSlots
    <3> QED BY <3>1 DEF ResultHyp, AllSound, Sound
  <2>5. AllSound(proc', died) /\ Buried(proc, proc') BY <2>2, <2>3, <2>4, CallerSound
  <2> QED BY <1>4, <2>5, StillTold DEF Reissue
<1> QED BY <1>2, <1>3, <1>4

LEMMA ReapTold ==
  ASSUME ResultHyp, NEW z \in UserSlots, ReapPid(z) PROVE Told
<1>1. z \in Slots /\ proc' = [proc EXCEPT ![z] = ClearProcess]
  BY DEF ReapPid, ReturnWith, ReapProcess, UserSlots
<1>2. proc'[z] = ClearProcess /\ \A s \in Slots \ {z} : proc'[s] = proc[s]
  BY <1>1, ResultFacts DEF Table
<1>3. Sound(proc'[z], died) /\ proc'[z].state = "UNUSED" BY <1>2, SoundClear, ClearType
<1>4. AllSound(proc, died) BY ResultFacts
<1>5. AllSound(proc', died) /\ Buried(proc, proc') BY <1>1, <1>2, <1>3, <1>4, PutSound
<1> QED BY <1>5, StillTold DEF ReapPid


LEMMA WokenSound ==
  ASSUME ResultHyp, NEW P \in Table, AllSound(P, died), Buried(proc, P), NEW ch \in Channels
  PROVE  AllSound(Woken(P, ch), died) /\ Buried(proc, Woken(P, ch))
<1> DEFINE Q == Woken(P, ch)
           Risen(s) == [P[s] EXCEPT !.wait_channel = NoChannel, !.state = "READY"]
<1>1. \A s \in Slots : Q[s] = IF s # Bootstrap /\ P[s].state = "WAITING" /\ P[s].wait_channel = ch
                              THEN Risen(s) ELSE P[s]
  BY DEF Woken
<1>2. ASSUME NEW s \in Slots
      PROVE  /\ Risen(s).state = "READY" /\ Risen(s).pid = P[s].pid
             /\ Risen(s).is_thread = P[s].is_thread /\ Risen(s).join_tid = P[s].join_tid
             /\ Risen(s).call = P[s].call
  <2>1. P[s] \in Slot BY DEF Table
  <2> QED BY <2>1 DEF Slot
<1>3. ch # NoChannel BY ProcessAssumption
<1> HIDE DEF Q, Risen
<1>4. ASSUME NEW s \in UserSlots
      PROVE  /\ Sound(Q[s], died)
             /\ P[s].state \in {"ZOMBIE", "UNUSED"} => Q[s] = P[s]
  <2>0. s \in Slots /\ Sound(P[s], died) BY DEF UserSlots, AllSound
  <2>1. CASE P[s].state = "WAITING" /\ P[s].wait_channel = ch /\ s # Bootstrap
    <3>1. Q[s] = Risen(s) BY <1>1, <2>0, <2>1
    <3>2. P[s].call # "waitpid" BY <1>3, <2>0, <2>1 DEF Sound, Expects
    <3>3. Sound(Risen(s), died) BY <1>2, <2>0, <2>1, <3>2 DEF Sound, Going
    <3> QED BY <2>1, <3>1, <3>3
  <2>2. CASE ~(P[s].state = "WAITING" /\ P[s].wait_channel = ch /\ s # Bootstrap)
    BY <1>1, <2>0, <2>2
  <2> QED BY <2>1, <2>2
<1>5. AllSound(Q, died) BY <1>4 DEF AllSound
<1>6. Buried(proc, Q) BY <1>4 DEF Buried
<1> QED BY <1>5, <1>6 DEF Q

LEMMA WakeupTold ==
  ASSUME ResultHyp, NEW ch \in Channels, Wakeup(ch) \/ DeviceWakeup(ch) PROVE Told
<1>1. proc' \in {Woken(Entered(proc), ch), Woken(proc, ch)}
  BY DEF Wakeup, DeviceWakeup, ReturnWith
<1>2. Buried(proc, proc) BY DEF Buried
<1>3. AllSound(proc', died) /\ Buried(proc, proc')
  BY <1>1, <1>2, EnteredSound, ResultFacts, WokenSound
<1> QED BY <1>3, StillTold DEF Wakeup, DeviceWakeup

\* A handler that ends in process_schedule.
LEMMA ScheduleTold ==
  ASSUME ResultHyp, NEW P \in Table, NEW flag \in BOOLEAN, Schedule(P, flag),
         P[Bootstrap].state \in Up, AllSound(P, died'), Buried(proc, P),
         Unborn(died', next_pid')
  PROVE  Told
<1>1. /\ AllSound(proc', died')
      /\ \A s \in UserSlots : P[s].state \in {"ZOMBIE", "UNUSED"}
                                => proc'[s].state \in {"ZOMBIE", "UNUSED"}
  BY ResultFacts, ScheduleSound
<1>2. Buried(proc, proc') BY <1>1, BuriedTwice
<1> QED BY <1>1, <1>2, BuriedStay DEF Told

LEMMA SwitchTold ==
  ASSUME ResultHyp, Yield \/ TimerInterrupt PROVE Told
<1>1. CASE Yield
  <2>1. /\ Schedule(Entered(proc), TRUE) /\ Unborn(died', next_pid') /\ died' = died
    BY <1>1 DEF Yield, ResultHyp
  <2> QED BY <2>1, EnteredSound, ScheduleTold
<1>2. CASE TimerInterrupt
  <2>1. PICK P \in Polled : Schedule(P, resched) BY <1>2 DEF TimerInterrupt
  <2>2. P \in Table /\ Calm(proc, P) BY PolledTable DEF ResultHyp, ChildHyp
  <2>3. P[Bootstrap].state \in Up BY <2>2, ResultFacts DEF Calm, KeepsBoot
  <2>4. AllSound(P, died) /\ Buried(proc, P)
    <3>1. Buried(proc, proc) BY DEF Buried
    <3>2. CASE P = proc BY <3>1, <3>2, ResultFacts
    <3>3. CASE P # proc
      <4>1. PICK ch \in Channels : P = Woken(proc, ch) BY <3>3 DEF Polled
      <4> QED BY <3>1, <4>1, ResultFacts, WokenSound
    <3> QED BY <3>2, <3>3
  <2>5. /\ Unborn(died', next_pid') /\ died' = died /\ resched \in BOOLEAN
    BY <1>2, ResultFacts DEF TimerInterrupt, ResultHyp, TypeOK
  <2> QED BY <2>1, <2>2, <2>3, <2>4, <2>5, ScheduleTold
<1> QED BY <1>1, <1>2

LEMMA SleepTold ==
  ASSUME ResultHyp, NEW ch \in Channels, SleepOn(ch) PROVE Told
<1> DEFINE P == Entered(proc)
           r == [P[current] EXCEPT
                  !.call = "sleep", !.eax = Blocked, !.rewound = TRUE, !.wait_channel = ch,
                  !.state = "WAITING"]
           Q == Slept(ch)
<1>0. TypeOK /\ current \in UserSlots /\ current \in Slots /\ current # Bootstrap
      /\ proc[current].state = "RUNNING"
  BY ResultFacts DEF SleepOn, Issues, InUser, UserSlots
<1>1. /\ P \in Table /\ AllSound(P, died) /\ Buried(proc, P) /\ P[Bootstrap].state \in Up
      /\ P[current].state = "RUNNING"
  BY EnteredSound
<1>2. Q \in Table BY <1>0, LegalSlept DEF Legal
<1>3. Q = [P EXCEPT ![current] = r] BY <1>0, <1>1 DEF Slept, Table
<1>4. /\ r.call = "sleep" /\ r.state = "WAITING" /\ r.pid = P[current].pid
      /\ r.is_thread = P[current].is_thread /\ r.join_tid = P[current].join_tid
  BY <1>0, <1>1 DEF Table, Slot
<1> HIDE DEF P, Q, r
<1>5. Q[current] = r /\ \A s \in Slots \ {current} : Q[s] = P[s] BY <1>0, <1>1, <1>3 DEF Table
<1>6. Sound(r, died)
  <2>1. Sound(P[current], died) BY <1>0, <1>1 DEF AllSound
  <2> QED BY <1>1, <1>4, <2>1 DEF Sound, Going
<1>7. AllSound(Q, died) /\ Buried(P, Q) BY <1>0, <1>1, <1>5, <1>6, PutSound
<1>8. Buried(proc, Q) /\ Q[Bootstrap].state \in Up
  <2>1. Q[Bootstrap] = P[Bootstrap] BY <1>0, <1>5, SlotZero
  <2>2. \A s \in UserSlots : P[s].state \in {"ZOMBIE", "UNUSED"} => Q[s].state \in {"ZOMBIE", "UNUSED"}
    BY <1>1, <1>5 DEF UserSlots
  <2> QED BY <1>1, <2>1, <2>2, BuriedTwice
<1>9. Schedule(Q, TRUE) /\ Unborn(died', next_pid') /\ died' = died BY DEF SleepOn, Q, ResultHyp
<1> QED BY <1>2, <1>7, <1>8, <1>9, ScheduleTold


\* What waitpid writes into the caller's slot before it looks for a child.
LEMMA WaitsFields ==
  ASSUME TypeOK, NEW n \in 0 .. MaxPid
  PROVE  LET q == Waits(proc, n)[current] IN
         /\ Waits(proc, n) \in Table
         /\ \A s \in Slots \ {current} : Waits(proc, n)[s] = proc[s]
         /\ q.state = proc[current].state /\ q.pid = proc[current].pid
         /\ q.is_thread = proc[current].is_thread /\ q.join_tid = proc[current].join_tid
         /\ q.call = "waitpid" /\ q.arg = n /\ q.rewound = proc[current].rewound
<1>1. proc \in Table /\ current \in Slots /\ proc[current] \in Slot BY DEF TypeOK, Table
<1>2. Entered(proc) \in Table BY EnteredCalm
<1>3. Entered(proc)[current].rewound = proc[current].rewound BY <1>1 DEF Entered, Table, Slot
<1>4. Waits(proc, n) \in Table BY LegalWaits DEF Legal
<1> DEFINE E == Entered(proc)
           r == [E[current] EXCEPT !.call = "waitpid", !.arg = n]
<1>5. Waits(proc, n) = [E EXCEPT ![current] = r] BY <1>1, <1>2 DEF Waits, Table
<1>6. /\ r.call = "waitpid" /\ r.arg = n /\ r.rewound = E[current].rewound
  BY <1>1, <1>2 DEF Table, Slot
<1> HIDE DEF r
<1>7. Waits(proc, n)[current] = r BY <1>1, <1>2, <1>5 DEF Table
<1> HIDE DEF E
<1>8. /\ r.call = "waitpid" /\ r.arg = n /\ r.rewound = proc[current].rewound
  BY <1>3, <1>6 DEF E
<1> QED BY <1>4, <1>7, <1>8, CallFields

LEMMA CollectTold ==
  ASSUME ResultHyp, NEW pid \in 0 .. MaxPid, WaitPid(pid), WaitCollects(pid) PROVE Told
<1> DEFINE P == Waits(proc, pid)
<1>0. /\ TypeOK /\ proc \in Table /\ current \in Slots /\ proc[current].state = "RUNNING"
      /\ ~proc[current].rewound /\ current # Bootstrap
  BY ResultFacts DEF WaitPid, Issues, InUser
<1>1. /\ P \in Table /\ \A s \in Slots \ {current} : P[s] = proc[s]
      /\ P[current].state = "RUNNING" /\ P[current].pid = proc[current].pid
      /\ P[current].is_thread = proc[current].is_thread
      /\ P[current].join_tid = proc[current].join_tid
      /\ P[current].call = "waitpid" /\ P[current].arg = pid /\ ~P[current].rewound
  BY <1>0, WaitsFields
<1> HIDE DEF P
<1>2. PICK z \in FindZombieChild(proc, proc[current].pid, pid) :
        proc' = ReapProcess([P EXCEPT
          ![current].eax = proc[z].pid, ![current].status = proc[z].exit_code], z)
  BY DEF WaitCollects, ReturnWith, P
<1>3. /\ z \in UserSlots /\ proc[z].state = "ZOMBIE"
      /\ pid = WaitAny \/ proc[z].pid = pid
  BY FirstIn DEF FindZombieChild, IsChildOf
<1>4. z \in Slots /\ z # current BY <1>0, <1>3 DEF UserSlots
<1>5. Sound(proc[z], died) /\ proc[z] \in Slot BY <1>0, <1>3, <1>4, ResultFacts DEF AllSound, Table
<1>6. proc[z].pid \in Pids
  BY <1>3, <1>4, <1>5, ResultFacts, PidIn DEF Sound
<1>7. proc[z].exit_code \in Nat /\ died[proc[z].pid] \in {proc[z].exit_code, Disturbed}
  BY <1>3, <1>5 DEF Sound, Slot
<1> DEFINE v == proc[z].pid
           w == proc[z].exit_code
           r == [P[current] EXCEPT !.eax = v, !.status = w]
           Q == [P EXCEPT ![current] = r]
<1>8. proc' = ReapProcess(Q, z)
  <2>1. Q = [P EXCEPT ![current].eax = proc[z].pid, ![current].status = proc[z].exit_code]
    BY <1>0, <1>1 DEF Table
  <2> QED BY <1>2, <2>1
<1> HIDE DEF v, w
<1>9. /\ r.state = P[current].state /\ r.pid = P[current].pid
      /\ r.is_thread = P[current].is_thread /\ r.join_tid = P[current].join_tid
      /\ r.call = P[current].call /\ r.arg = P[current].arg /\ r.rewound = P[current].rewound
      /\ r.eax = v /\ r.status = w
  BY <1>0, <1>1 DEF Table, Slot
<1> HIDE DEF r
<1>10. Q[current] = r /\ \A s \in Slots \ {current} : Q[s] = proc[s]
  BY <1>0, <1>1 DEF Table
<1>11. DOMAIN Q = Slots BY <1>1 DEF Table
<1> HIDE DEF Q
<1>12. Answered(r, died)
  <2>1. v \in Pids /\ w \in Nat /\ died[v] \in {w, Disturbed} BY <1>6, <1>7 DEF v, w
  <2>2. pid \in {WaitAny, v} BY <1>3 DEF v
  <2> QED BY <1>1, <1>9, <2>1, <2>2 DEF Answered
<1>13. AllSound(Q, died) /\ Buried(proc, Q)
  <2>1. /\ Q[current].state = "RUNNING" /\ Q[current].pid = proc[current].pid
        /\ Q[current].is_thread = proc[current].is_thread
        /\ Q[current].join_tid = proc[current].join_tid
        /\ ~Q[current].rewound /\ Answered(Q[current], died)
    BY <1>1, <1>9, <1>10, <1>12
  <2> QED BY <1>10, <2>1, CallerSound
<1>14. Q[z].state = "ZOMBIE" BY <1>3, <1>4, <1>10
<1>15. proc' = [Q EXCEPT ![z] = ClearProcess] BY <1>8, <1>14 DEF ReapProcess
<1>16. proc'[z] = ClearProcess /\ \A s \in Slots \ {z} : proc'[s] = Q[s]
  BY <1>4, <1>11, <1>15
<1>17. Sound(proc'[z], died) /\ proc'[z].state = "UNUSED" BY <1>16, SoundClear, ClearType
<1>18. AllSound(proc', died) /\ Buried(Q, proc') BY <1>4, <1>13, <1>16, <1>17, PutSound
<1>19. Buried(proc, proc')
  BY <1>3, <1>10, <1>13, <1>16, <1>17 DEF Buried, UserSlots
<1> QED BY <1>18, <1>19, StillTold DEF WaitPid

LEMMA RefuseTold ==
  ASSUME ResultHyp, NEW pid \in 0 .. MaxPid, WaitPid(pid), WaitFails(pid) PROVE Told
<1> DEFINE P == Waits(proc, pid)
           r == [P[current] EXCEPT !.eax = SysErr]
<1>0. TypeOK /\ current \in Slots /\ proc[current].state = "RUNNING" /\ ~proc[current].rewound
  BY ResultFacts DEF WaitPid, Issues, InUser
<1>1. /\ P \in Table /\ \A s \in Slots \ {current} : P[s] = proc[s]
      /\ P[current].state = "RUNNING" /\ P[current].pid = proc[current].pid
      /\ P[current].is_thread = proc[current].is_thread
      /\ P[current].join_tid = proc[current].join_tid
      /\ ~P[current].rewound
  BY <1>0, WaitsFields
<1>2. proc' = [P EXCEPT ![current] = r] BY DEF WaitFails, ReturnWith
<1> HIDE DEF P
<1>3. /\ r.state = P[current].state /\ r.pid = P[current].pid
      /\ r.is_thread = P[current].is_thread /\ r.join_tid = P[current].join_tid
      /\ r.rewound = P[current].rewound /\ r.eax = SysErr
  BY <1>0, <1>1 DEF Table, Slot
<1> HIDE DEF r
<1>4. proc'[current] = r /\ \A s \in Slots \ {current} : proc'[s] = proc[s]
  BY <1>0, <1>1, <1>2 DEF Table
<1>5. Answered(r, died) BY <1>3 DEF Answered
<1>6. AllSound(proc', died) /\ Buried(proc, proc') BY <1>1, <1>3, <1>4, <1>5, CallerSound
<1> QED BY <1>6, StillTold DEF WaitPid

LEMMA BlockTold ==
  ASSUME ResultHyp, NEW pid \in 0 .. MaxPid, WaitPid(pid), WaitBlocks(pid) PROVE Told
<1> DEFINE P0 == Waits(proc, pid)
           P1 == [P0 EXCEPT ![current].eax = Blocked]
           P2 == [P1 EXCEPT ![current].state = "WAITING"]
           P3 == [P2 EXCEPT ![current].wait_pid = pid]
           P4 == [P3 EXCEPT ![current].wait_status = TRUE]
           P5 == [P4 EXCEPT ![current].wait_channel = NoChannel]
           r == [P0[current] EXCEPT
                  !.eax = Blocked, !.state = "WAITING", !.wait_pid = pid, !.wait_status = TRUE,
                  !.wait_channel = NoChannel]
<1> HIDE DEF P0, P1, P2, P3, P4, P5
<1>0. /\ TypeOK /\ current \in UserSlots /\ current \in Slots /\ current # Bootstrap
      /\ proc[current].state = "RUNNING" /\ ~proc[current].rewound /\ pid \in Nat
  BY ResultFacts, ProcessAssumption DEF WaitPid, Issues, InUser, UserSlots
<1>1. Legal(P0) BY <1>0, LegalWaits DEF P0
<1>2. Legal(P1) BY <1>0, <1>1, LegalEax DEF P1, Blocked
<1>3. Legal(P2) BY <1>0, <1>2, LegalState DEF P2, States, UserSlots
<1>4. Legal(P3) BY <1>0, <1>3, LegalWaitPid DEF P3
<1>5. Legal(P4) BY <1>0, <1>4, LegalWaitStatus DEF P4
<1>6. P0 \in Table /\ P5 \in Table BY <1>0, <1>1, <1>5, LegalWaitChannel DEF P5, Legal
<1>7. Schedule(P5, TRUE) BY DEF WaitBlocks, P0, P1, P2, P3, P4, P5
<1>8. P5 = [P0 EXCEPT ![current] = r] BY <1>0, <1>6 DEF P1, P2, P3, P4, P5, Table
<1>9. /\ r.state = "WAITING" /\ r.pid = P0[current].pid
      /\ r.is_thread = P0[current].is_thread /\ r.join_tid = P0[current].join_tid
      /\ r.rewound = P0[current].rewound /\ r.arg = P0[current].arg
      /\ r.wait_pid = pid /\ r.wait_status /\ r.wait_channel = NoChannel
  BY <1>0, <1>6 DEF Table, Slot
<1>10. /\ \A s \in Slots \ {current} : P0[s] = proc[s]
       /\ P0[current].pid = proc[current].pid
       /\ P0[current].is_thread = proc[current].is_thread
       /\ P0[current].join_tid = proc[current].join_tid
       /\ ~P0[current].rewound /\ P0[current].arg = pid
  BY <1>0, WaitsFields DEF P0
<1> HIDE DEF r
<1>11. P5[current] = r /\ \A s \in Slots \ {current} : P5[s] = proc[s]
  BY <1>0, <1>6, <1>8, <1>10 DEF Table
<1>12. Sound(P5[current], died)
  <2>1. Sound(proc[current], died) BY <1>0, ResultFacts DEF AllSound
  <2>2. Expects(r) BY <1>9, <1>10 DEF Expects
  <2>3. "RUNNING" \in Going /\ "WAITING" \notin Going BY DEF Going
  <2> QED BY <1>0, <1>9, <1>10, <1>11, <2>1, <2>2, <2>3 DEF Sound
<1>13. AllSound(P5, died) /\ Buried(proc, P5) BY <1>0, <1>11, <1>12, ResultFacts, PutSound
<1>14. P5[Bootstrap].state \in Up BY <1>0, <1>11, ResultFacts, SlotZero
<1>15. died' = died /\ Unborn(died', next_pid') BY DEF WaitPid, ResultHyp
<1>16. AllSound(P5, died') BY <1>13, <1>15
<1> QED BY <1>6, <1>7, <1>13, <1>14, <1>15, <1>16, ScheduleTold

\* The history of a death goes with the table's.
LEMMA DeathTold ==
  ASSUME ResultHyp, NEW c \in UserSlots, NEW code \in Nat, proc[c].state # "UNUSED",
         RecordDeath(proc, c, code), UNCHANGED next_pid
  PROVE  LET R == Died(Entered(proc), c, code) IN
         /\ AllSound(R, died') /\ Buried(proc, R) /\ R \in Table
         /\ R[Bootstrap].state \in Up
         /\ Unborn(died', next_pid')
<1> DEFINE P == Entered(proc)
           R == Died(P, c, code)
           x == proc[c].pid
<1>0. /\ c \in Slots /\ TypeOK /\ current \in Slots /\ proc[current].state = "RUNNING"
      /\ next_pid \in Nat /\ next_pid <= MaxPid + 1 /\ Family(proc, next_pid)
      /\ died \in [Pids -> Int]
  BY ResultFacts DEF UserSlots
<1>1. /\ P \in Table /\ AllSound(P, died) /\ Buried(proc, P) /\ Family(P, next_pid)
      /\ P[Bootstrap].state \in Up
  BY EnteredSound
<1>2. P[c].pid = x /\ P[c].state # "UNUSED" BY <1>0, EnteredSound
<1>3. x \in Pids /\ x # 0 /\ x < next_pid
  <2>1. ~proc[c].is_thread BY ResultFacts DEF AllSound, Sound
  <2> QED BY <1>0, <2>1, PidIn
<1>4. died' = DeathIn(died, x, code)
  BY <1>3 DEF RecordDeath, DeathIn
<1>5. R \in Table
  <2>1. Legal(P) /\ Runs(P)
    <3>1. Legal(P) BY <1>0, ProcLegal, LegalEntered
    <3>2. P[current].state = "RUNNING" BY EnteredSound
    <3> QED BY <3>1, <3>2 DEF Runs
  <2>2. c \in Slots \ {Bootstrap} BY DEF UserSlots
  <2> QED BY <1>0, <2>1, <2>2, LegalDied DEF Legal
<1>6. \A s \in UserSlots : proc[s].state = "ZOMBIE" => P[s] = proc[s]
  BY <1>0, EnteredSound DEF UserSlots
<1> HIDE DEF P
<1>7. AllSound(R, DeathIn(died, P[c].pid, code)) /\ Buried(P, R) /\ R[c].state = "ZOMBIE"
  BY <1>0, <1>1, <1>2, DiedSound
<1>8. R[Bootstrap].state \in Up
  <2>1. ChildInv(P, next_pid) BY ChildFacts DEF ResultHyp, P
  <2>2. ChildInv(R, next_pid) BY <1>0, <1>1, <1>2, <2>1, DiedKeeps
  <2> QED BY <2>2 DEF ChildInv
<1> HIDE DEF R, x
<1>9. AllSound(R, died') BY <1>2, <1>4, <1>7
<1>10. Buried(proc, R) BY <1>7, <1>6 DEF Buried
<1>11. Unborn(died', next_pid')
  <2>1. \A y \in Pids \ {x} : died'[y] = died[y] BY <1>0, <1>3, <1>4 DEF DeathIn
  <2>2. \A y \in Pids : y >= next_pid => y # x
    <3>1. x \in Nat BY <1>3 DEF Pids
    <3> QED BY <1>0, <1>3, <3>1 DEF Pids
  <2> QED BY <2>1, <2>2 DEF Unborn, ResultHyp
<1> QED BY <1>5, <1>8, <1>9, <1>10, <1>11 DEF R, P

LEMMA ExitTold ==
  ASSUME ResultHyp, NEW code \in Nat, NEW flag \in BOOLEAN, current # Bootstrap,
         Schedule(Died(Entered(proc), current, code), flag),
         RecordDeath(proc, current, code), UNCHANGED next_pid
  PROVE  Told
<1> DEFINE R == Died(Entered(proc), current, code)
<1>1. current \in UserSlots /\ proc[current].state # "UNUSED" BY ResultFacts DEF UserSlots
<1>2. /\ AllSound(R, died') /\ Buried(proc, R) /\ R \in Table
      /\ R[Bootstrap].state \in Up /\ Unborn(died', next_pid')
  BY <1>1, DeathTold
<1>3. Schedule(R, flag) OBVIOUS
<1> HIDE DEF R
<1> QED BY <1>2, <1>3, ScheduleTold


\* A stop: what it cuts short has no result, and the dead it reaches are disturbed.
LEMMA StopTold ==
  ASSUME ResultHyp, NEW t \in UserSlots, t # current, proc[t].state # "UNUSED",
         proc' = Stopped(Entered(proc), t), died' = Reached(proc, t), UNCHANGED next_pid
  PROVE  Told
<1> DEFINE P == Entered(proc)
           x == proc[t].pid
<1>0. t \in Slots /\ died \in [Pids -> Int] /\ proc \in Table /\ next_pid \in Nat
  BY ResultFacts DEF UserSlots
<1>1. P \in Table /\ AllSound(P, died) /\ P[t] = proc[t]
      /\ \A s \in UserSlots : proc[s].state = "ZOMBIE" => P[s] = proc[s]
  BY <1>0, EnteredSound, ResultFacts DEF UserSlots
<1>2. Sound(proc[t], died) /\ proc[t] \in Slot BY <1>0, ResultFacts DEF AllSound, Table
<1>3. x \in Pids /\ x # 0 /\ x < next_pid BY <1>0, <1>2, ResultFacts, PidIn DEF Sound
<1>4. \A y \in Pids : died'[y] = IF y = x /\ proc[t].state = "ZOMBIE" THEN Disturbed ELSE died[y]
  BY <1>0, <1>3 DEF Reached
<1>5. Later(died, died') BY <1>4 DEF Later
<1>6. LET p == P[t]  q == proc'[t] IN
      /\ q.state = "STOPPED" /\ q.pid = p.pid
      /\ q.is_thread = p.is_thread /\ q.join_tid = p.join_tid
      /\ q.eax = p.eax /\ q.arg = p.arg /\ q.status = p.status /\ q.rewound = p.rewound
      /\ q.call = IF p.state \in {"WAITING", "ZOMBIE"} THEN "none" ELSE p.call
  BY <1>0, <1>1, StoppedFields
<1>7. \A s \in Slots \ {t} : proc'[s] = P[s] BY <1>0, <1>1, StoppedFields
<1> HIDE DEF P
<1>8. Sound(proc'[t], died')
  <2>1. "STOPPED" \in Going /\ "STOPPED" # "ZOMBIE" /\ "STOPPED" # "WAITING" BY DEF Going
  <2>2. proc[t].state \in Going \cup {"WAITING", "ZOMBIE"} BY <1>2 DEF Slot, States, Going
  <2>3. died'[x] \in {NoStatus, Disturbed}
    <3>1. CASE proc[t].state = "ZOMBIE" BY <1>3, <1>4, <3>1
    <3>2. CASE proc[t].state # "ZOMBIE" BY <1>2, <1>3, <1>4, <2>2, <3>2 DEF Sound
    <3> QED BY <3>1, <3>2
  <2>4. proc'[t].pid = x BY <1>1, <1>6
  <2>5. ASSUME proc'[t].call = "waitpid" PROVE ~proc'[t].rewound /\ Answered(proc'[t], died')
    <3>1. proc[t].call = "waitpid" /\ proc[t].state \in Going
      BY <1>1, <1>6, <2>2, <2>5
    <3>2. Answered(proc[t], died) /\ ~proc[t].rewound BY <1>2, <3>1 DEF Sound
    <3>3. Answered(proc'[t], died)
      BY <1>1, <1>6, <3>2 DEF Answered
    <3>4. died' = died BY <1>0, <3>1 DEF Reached, Going
    <3> QED BY <1>1, <1>6, <3>2, <3>3, <3>4
  <2>6. ~proc'[t].is_thread /\ proc'[t].join_tid = 0 BY <1>1, <1>2, <1>6 DEF Sound
  <2> QED BY <1>6, <2>1, <2>3, <2>4, <2>5, <2>6 DEF Sound
<1>9. ASSUME NEW s \in UserSlots, s # t PROVE Sound(proc'[s], died')
  <2>1. s \in Slots /\ Sound(P[s], died) /\ P[s].state \in States
    BY <1>1, <1>9 DEF UserSlots, AllSound, Table, Slot
  <2>2. P[s].state # "UNUSED" => died'[P[s].pid] = died[P[s].pid]
    <3> SUFFICES ASSUME P[s].state # "UNUSED" PROVE died'[P[s].pid] = died[P[s].pid] OBVIOUS
    <3>1. Family(P, next_pid) BY EnteredSound DEF P
    <3>2. P[s].pid \in Pids /\ P[s].pid # 0 BY <1>1, <2>1, <3>1, ResultFacts, PidIn DEF Sound
    <3>3. P[s].pid # x BY <1>0, <1>1, <1>9, <2>1, <3>1, <3>2, <1>3 DEF Family
    <3> QED BY <1>4, <3>2, <3>3
  <2>3. Sound(P[s], died') BY <1>5, <2>1, <2>2, SoundLater
  <2> QED BY <1>7, <1>9, <2>1, <2>3
<1>10. AllSound(proc', died') BY <1>8, <1>9 DEF AllSound
<1>11. Unborn(died', next_pid')
  <2>1. \A y \in Pids : y >= next_pid => y # x
    <3>1. x \in Nat BY <1>3 DEF Pids
    <3> QED BY <1>0, <1>3, <3>1 DEF Pids
  <2> QED BY <1>4, <2>1 DEF Unborn, ResultHyp
<1>12. DeadStay
  <2> SUFFICES ASSUME NEW s \in UserSlots, proc[s].state = "ZOMBIE"
               PROVE  \/ proc'[s].state \in {"ZOMBIE", "UNUSED"}
                      \/ proc[s].pid \in Pids /\ died'[proc[s].pid] = Disturbed
    BY DEF DeadStay
  <2>1. CASE s = t BY <1>3, <1>4, <2>1
  <2>2. CASE s # t BY <1>1, <1>7, <2>2 DEF UserSlots
  <2> QED BY <2>1, <2>2
<1> QED BY <1>10, <1>11, <1>12 DEF Told

LEMMA ContinueTold ==
  ASSUME ResultHyp, NEW t \in UserSlots, t # current, proc[t].state # "UNUSED",
         proc' = [Entered(proc) EXCEPT ![t].state = IF @ = "STOPPED" THEN "READY" ELSE @],
         UNCHANGED <<died, next_pid>>
  PROVE  Told
<1> DEFINE P == Entered(proc)
           v == IF P[t].state = "STOPPED" THEN "READY" ELSE P[t].state
           r == [P[t] EXCEPT !.state = v]
<1>0. t \in Slots BY DEF UserSlots
<1>1. P \in Table /\ AllSound(P, died) /\ Buried(proc, P)
      /\ \A s \in UserSlots : proc[s].state = "ZOMBIE" => P[s] = proc[s]
  BY <1>0, EnteredSound, ResultFacts DEF UserSlots
<1>2. proc' = [P EXCEPT ![t] = r] BY <1>0, <1>1 DEF Table
<1>3. P[t] \in Slot /\ Sound(P[t], died) BY <1>0, <1>1 DEF Table, AllSound
<1>4. /\ r.state = v /\ r.pid = P[t].pid /\ r.exit_code = P[t].exit_code
      /\ r.is_thread = P[t].is_thread /\ r.join_tid = P[t].join_tid
      /\ r.eax = P[t].eax /\ r.arg = P[t].arg /\ r.status = P[t].status
      /\ r.rewound = P[t].rewound /\ r.call = P[t].call
      /\ r.wait_pid = P[t].wait_pid /\ r.wait_status = P[t].wait_status
      /\ r.wait_channel = P[t].wait_channel
  BY <1>3 DEF Slot
<1>5. /\ v = P[t].state \/ (v = "READY" /\ P[t].state = "STOPPED") OBVIOUS
<1> HIDE DEF v, r, P
<1>6. Sound(r, died) BY <1>3, <1>4, <1>5 DEF Sound, Answered, Expects, Going
<1>7. proc'[t] = r /\ \A s \in Slots \ {t} : proc'[s] = P[s] BY <1>0, <1>1, <1>2 DEF Table
<1>8. P[t].state = "ZOMBIE" => r.state = "ZOMBIE" BY <1>4, <1>5
<1>9. Sound(proc'[t], died) /\ (P[t].state = "ZOMBIE" => proc'[t].state \in {"ZOMBIE", "UNUSED"})
  BY <1>6, <1>7, <1>8
<1>10. AllSound(proc', died) BY <1>1, <1>7, <1>9 DEF AllSound, UserSlots
<1>11. Buried(proc, proc') BY <1>1, <1>7, <1>9 DEF Buried, UserSlots
<1> QED BY <1>10, <1>11, StillTold

LEMMA SignalTold ==
  ASSUME ResultHyp, NEW t \in UserSlots, NEW sig \in Signals, Signal(t, sig) PROVE Told
<1>1. t \in Slots /\ t # current /\ proc[t].state # "UNUSED" /\ UNCHANGED next_pid
  BY FirstIn DEF Signal, FindPid, UserSlots
<1>2. CASE ReturnWith(Died(Entered(proc), t, 128 + sig)) /\ RecordDeath(proc, t, 128 + sig)
  <2> DEFINE R == Died(Entered(proc), t, 128 + sig)
  <2>1. 128 + sig \in Nat BY ProcessAssumption
  <2>2. AllSound(R, died') /\ Buried(proc, R) /\ Unborn(died', next_pid')
    BY <1>1, <1>2, <2>1, DeathTold
  <2>3. proc' = R BY <1>2 DEF ReturnWith
  <2> HIDE DEF R
  <2> QED BY <2>2, <2>3, BuriedStay DEF Told
<1>3. CASE ReturnWith(Stopped(Entered(proc), t)) /\ died' = Reached(proc, t)
  BY <1>1, <1>3, StopTold DEF ReturnWith
<1>4. CASE /\ ReturnWith([Entered(proc) EXCEPT
                 ![t].state = IF @ = "STOPPED" THEN "READY" ELSE @])
           /\ UNCHANGED <<died, delivered>>
  BY <1>1, <1>4, ContinueTold DEF ReturnWith
<1> QED BY <1>2, <1>3, <1>4 DEF Signal

LEMMA ResultInit == Init => AllSound(proc, died) /\ Unborn(died, next_pid)
<1> SUFFICES ASSUME Init PROVE AllSound(proc, died) /\ Unborn(died, next_pid) OBVIOUS
<1>1. \A s \in UserSlots : proc[s] = ClearProcess BY DEF Init, UserSlots
<1>2. AllSound(proc, died) BY <1>1, SoundClear DEF AllSound
<1>3. Unborn(died, next_pid) BY DEF Init, Unborn, Pids
<1> QED BY <1>2, <1>3

LEMMA ResultNext == ResultHyp /\ [Next]_vars => Told
<1> SUFFICES ASSUME ResultHyp, [Next]_vars PROVE Told OBVIOUS
<1>1. CASE SpawnProcess BY <1>1, SpawnTold
<1>2. CASE ForkCurrent BY <1>2, ForkTold
<1>3. ~CreateUserThread /\ ~\E tid \in 1 .. MaxTid : JoinThread(tid)
  BY DEF ResultHyp, CreateUserThread, JoinThread, Issues
<1>4. CASE ExecReplaceCurrent \/ OtherSyscall \/ Reissue BY <1>4, QuietTold
<1>5. CASE \E pid \in 0 .. MaxPid : WaitPid(pid)
  BY <1>5, CollectTold, RefuseTold, BlockTold DEF WaitPid
<1>6. CASE \E code \in ExitCodes : ExitCurrent(code)
  <2>1. PICK code \in ExitCodes : ExitCurrent(code) BY <1>6
  <2>2. code \in Nat BY ProcessAssumption
  <2> QED BY <2>1, <2>2, ExitTold DEF ExitCurrent, Issues, InUser
<1>7. CASE FaultCurrent
  <2> DEFINE code == 128 + GeneralProtection
  <2>1. code \in Nat BY DEF GeneralProtection
  <2>2. Schedule(Died(Entered(proc), current, code), resched) /\ RecordDeath(proc, current, code)
    BY <1>7 DEF FaultCurrent
  <2>3. resched \in BOOLEAN BY ResultFacts DEF TypeOK
  <2> HIDE DEF code
  <2> QED BY <1>7, <2>1, <2>2, <2>3, ExitTold DEF FaultCurrent, Issues, InUser
<1>8. CASE \E t \in UserSlots, sig \in Signals : Signal(t, sig) BY <1>8, SignalTold
<1>9. CASE \E z \in UserSlots : ReapPid(z) BY <1>9, ReapTold
<1>10. CASE \E ch \in Channels : SleepOn(ch) \/ Wakeup(ch) \/ DeviceWakeup(ch)
  BY <1>10, SleepTold, WakeupTold
<1>11. CASE Yield \/ TimerInterrupt BY <1>11, SwitchTold
<1>12. CASE UNCHANGED vars
  BY <1>12, ResultFacts, StillTold DEF vars, Buried
<1> QED BY <1>1, <1>2, <1>3, <1>4, <1>5, <1>6, <1>7, <1>8, <1>9, <1>10, <1>11, <1>12 DEF Next

LEMMA ResultAlways ==
  ASSUME ~Contended, "thread" \notin Workload
  PROVE  Spec => [](AllSound(proc, died) /\ Unborn(died, next_pid)) /\ [][DeadStay]_vars
<1>1. Spec => []CurrentRuns BY CurrentRunner
<1>2. Spec => []ChildInv(proc, next_pid)
  <2>1. Init => ChildInv(proc, next_pid) BY ChildInit
  <2>2. SchedInv /\ CurrentRuns /\ ChildInv(proc, next_pid) /\ [Next]_vars
          => ChildInv(proc, next_pid)'
    BY ChildNext DEF ChildHyp
  <2> QED BY <1>1, <2>1, <2>2, SchedAlways, PTL DEF Spec
<1>3. Init => AllSound(proc, died) /\ Unborn(died, next_pid) BY ResultInit
<1>4. SchedInv /\ CurrentRuns /\ ChildInv(proc, next_pid)
        /\ AllSound(proc, died) /\ Unborn(died, next_pid) /\ [Next]_vars
      => (AllSound(proc, died) /\ Unborn(died, next_pid))' /\ DeadStay
  BY ResultNext DEF ResultHyp, ChildHyp, Told
<1> QED BY <1>1, <1>2, <1>3, <1>4, SchedAlways, PTL DEF Spec

\* With process_lock uncontended and programs without threads, what a waitpid has returned
\* is true: a child the caller asked for, and the code that child died with, whether the
\* caller found it dead (process_wait_current) or its death wrote the caller's saved frame
\* and status word while it slept (wake_waiting_parent).
THEOREM StatusIsTrue ==
  ~Contended /\ "thread" \notin Workload => (Spec => []WaitResult)
<1> SUFFICES ASSUME ~Contended, "thread" \notin Workload PROVE Spec => []WaitResult OBVIOUS
<1>1. AllSound(proc, died) => WaitResult
  <2> SUFFICES ASSUME AllSound(proc, died), NEW s \in UserSlots, proc[s].call = "waitpid",
                      proc[s].state \in {"READY", "RUNNING"}
               PROVE  \/ proc[s].eax = SysErr
                      \/ /\ proc[s].eax \in Pids
                         /\ proc[s].arg \in {WaitAny, proc[s].eax}
                         /\ died[proc[s].eax] \in {proc[s].status, Disturbed}
    BY DEF WaitResult
  <2>1. Answered(proc[s], died) BY DEF AllSound, Sound, Going
  <2> QED BY <2>1 DEF Answered
<1> QED BY <1>1, ResultAlways, PTL

\* Under the same assumptions the dead are dead: no step gives the processor or another life
\* to a slot that died, save a stop that reaches it; it becomes free only by being reaped.
THEOREM DeadRest ==
  ~Contended /\ "thread" \notin Workload => (Spec => DeadStaysDead)
<1> SUFFICES ASSUME ~Contended, "thread" \notin Workload PROVE Spec => DeadStaysDead OBVIOUS
<1> QED BY ResultAlways, PTL DEF DeadStaysDead

-----------------------------------------------------------------------------
(***************************************************************************)
(* ChildLife.  In a program without signals, channels and threads, what    *)
(* blocks is a waitpid, whose caller gives a place for the status; a dead  *)
(* slot is marked for reaping only until the scheduler leaves it, within   *)
(* the step; and a status was handed over when the pid's slot is free.     *)
(***************************************************************************)
Plain(p, D, H) ==
  /\ ~p.reap_pending
  /\ p.state = "WAITING" => p.wait_status
  /\ p.state # "UNUSED" => H[p.pid] = 0
  /\ p.state = "ZOMBIE" => D[p.pid] = p.exit_code
  /\ p.state \notin {"UNUSED", "ZOMBIE"} => D[p.pid] = NoStatus

AllPlain(P, D, H) == \A s \in UserSlots : Plain(P[s], D, H)

\* The kernel's slot has pid 1, a pid to come has no history.
Rooted(P) == P[Bootstrap].pid = 1 /\ ~P[Bootstrap].is_thread

Unhanded(H, n) == \A p \in Pids : p >= n => H[p] = 0

\* The slot of a pid other than the kernel's.
Owner(P, s, p) == s \in UserSlots /\ P[s].state # "UNUSED" /\ P[s].pid = p

Stage(P, n, p) ==
  IF \E s \in UserSlots : Owner(P, s, p)
  THEN IF \E s \in UserSlots : Owner(P, s, p) /\ P[s].state = "ZOMBIE" THEN "exited" ELSE "alive"
  ELSE IF p < n THEN "released" ELSE "unborn"

LifeHyp ==
  /\ ResultHyp /\ Workload \subseteq Unsignalled
  /\ Rooted(proc) /\ AllPlain(proc, died, delivered) /\ Unhanded(delivered, next_pid)

\* What the abstract variables are, where pids are unique and the dead have their own code.
LEMMA OwnerIs ==
  ASSUME NEW P, NEW n, Family(P, n), Rooted(P), P[Bootstrap].state \in Up,
         NEW p \in 2 .. MaxPid
  PROVE  /\ FindPid(P, p) = {s \in UserSlots : Owner(P, s, p)}
         /\ \A s, t \in UserSlots : Owner(P, s, p) /\ Owner(P, t, p) => s = t
<1> DEFINE S == {s \in UserSlots : Owner(P, s, p)}
           T == {i \in Slots : P[i].state # "UNUSED" /\ P[i].pid = p}
<1>0. p # 0 /\ p # 1 /\ MaxPid \in Nat BY ProcessAssumption
<1>1. S = T BY <1>0 DEF Owner, UserSlots, Rooted
<1>2. \A i, j \in T : i = j BY <1>0 DEF Family
<1>3. T \subseteq Nat BY SlotsNat
<1>4. FindPid(P, p) = First(T) BY DEF FindPid
<1> HIDE DEF S, T
<1>5. First(T) = T
  <2>1. \A i, j \in T : i <= j BY <1>2, <1>3
  <2> QED BY <2>1 DEF First
<1>6. \A s, t \in UserSlots : Owner(P, s, p) /\ Owner(P, t, p) => s = t
  BY <1>1, <1>2 DEF S
<1> QED BY <1>1, <1>4, <1>5, <1>6 DEF S

LEMMA StageIs ==
  ASSUME NEW P, NEW n, NEW D, NEW H, Family(P, n), Rooted(P), P[Bootstrap].state \in Up,
         AllPlain(P, D, H), NEW p \in 2 .. MaxPid
  PROVE  LifeIn(P, n, p) = Stage(P, n, p) /\ VerdictIn(P, D, p) = D[p]
<1> DEFINE S == {s \in UserSlots : Owner(P, s, p)}
<1>1. FindPid(P, p) = S BY OwnerIs
<1>2. LifeIn(P, n, p) = Stage(P, n, p)
  <2>1. S = {} <=> ~\E s \in UserSlots : Owner(P, s, p) OBVIOUS
  <2>2. (\E s \in S : P[s].state = "ZOMBIE")
          <=> \E s \in UserSlots : Owner(P, s, p) /\ P[s].state = "ZOMBIE"
    OBVIOUS
  <2> HIDE DEF S
  <2> QED BY <1>1, <2>1, <2>2 DEF LifeIn, Stage
<1>3. VerdictIn(P, D, p) = D[p]
  <2> DEFINE Z == {s \in S : P[s].state = "ZOMBIE"}
             z == CHOOSE s \in Z : TRUE
  <2>1. VerdictIn(P, D, p) = IF Z = {} THEN D[p] ELSE P[z].exit_code BY <1>1 DEF VerdictIn
  <2>2. ASSUME Z # {} PROVE P[z].exit_code = D[p]
    <3>1. z \in Z BY <2>2
    <3>2. z \in UserSlots /\ P[z].state = "ZOMBIE" /\ P[z].pid = p BY <3>1 DEF Owner
    <3> HIDE DEF z
    <3> QED BY <3>2 DEF AllPlain, Plain
  <2> HIDE DEF Z, z
  <2> QED BY <2>1, <2>2
<1> QED BY <1>2, <1>3

\* A slot that goes on in the same life.
Alike(p, q) ==
  /\ q.pid = p.pid /\ q.is_thread = p.is_thread /\ q.reap_pending = p.reap_pending
  /\ (q.state = "UNUSED") = (p.state = "UNUSED")
  /\ (q.state = "ZOMBIE") = (p.state = "ZOMBIE")
  /\ q.exit_code = p.exit_code \/ q.state # "ZOMBIE"
  /\ q.state = "WAITING" => q.wait_status

LEMMA AlikePlain ==
  ASSUME NEW p, NEW q, NEW D, NEW H, Plain(p, D, H), Alike(p, q) PROVE Plain(q, D, H)
BY DEF Plain, Alike

LEMMA ResumedAlike ==
  ASSUME NEW p, NEW q, NEW r, Alike(p, q), Resumed(q, r) PROVE Alike(p, r)
BY DEF Alike, Resumed, SameTask, Up

\* Two tables whose slots with a pid other than the kernel's are alike have the same stages.
LEMMA StageAlike ==
  ASSUME NEW P, NEW Q, NEW n, NEW p,
         \A s \in UserSlots : Alike(P[s], Q[s]) \/ (~Owner(P, s, p) /\ ~Owner(Q, s, p))
  PROVE  Stage(Q, n, p) = Stage(P, n, p)
<1>1. \A s \in UserSlots : /\ Owner(Q, s, p) <=> Owner(P, s, p)
                           /\ Owner(P, s, p) => (Q[s].state = "ZOMBIE" <=> P[s].state = "ZOMBIE")
  BY DEF Owner, Alike
<1> QED BY <1>1 DEF Stage

-----------------------------------------------------------------------------
LifeKept == Rooted(proc') /\ AllPlain(proc', died', delivered') /\ Unhanded(delivered', next_pid')

LifeStep == LifeKept /\ [Life!LifeNext]_(Life!lifeVars)

LEMMA LifeFacts ==
  ASSUME LifeHyp
  PROVE  /\ TypeOK /\ proc \in Table /\ current \in Slots /\ proc[current] \in Slot
         /\ proc[current].state = "RUNNING"
         /\ died \in [Pids -> Int] /\ delivered \in [Pids -> 0 .. 2]
         /\ next_pid \in 2 .. MaxPid + 1 /\ MaxPid \in Nat
         /\ Family(proc, next_pid) /\ proc[Bootstrap].state \in Up
         /\ \A s \in Slots : Alike(proc[s], proc[s])
         /\ \A s \in UserSlots : ~proc[s].is_thread
<1>1. /\ TypeOK /\ proc \in Table /\ current \in Slots /\ proc[current] \in Slot
      /\ proc[current].state = "RUNNING"
      /\ Family(proc, next_pid) /\ proc[Bootstrap].state \in Up /\ AllSound(proc, died)
  BY ResultFacts DEF LifeHyp
<1>2. \A s \in Slots : proc[s].state = "WAITING" => proc[s].wait_status
  <2>1. \A s \in UserSlots : proc[s].state = "WAITING" => proc[s].wait_status
    BY DEF LifeHyp, AllPlain, Plain
  <2>2. proc[Bootstrap].state # "WAITING" BY <1>1 DEF Up
  <2> QED BY <2>1, <2>2 DEF UserSlots
<1>3. \A s \in Slots : Alike(proc[s], proc[s]) BY <1>2 DEF Alike
<1>4. \A s \in UserSlots : ~proc[s].is_thread BY <1>1 DEF AllSound, Sound
<1>5. died \in [Pids -> Int] /\ delivered \in [Pids -> 0 .. 2] /\ next_pid \in 2 .. MaxPid + 1
  BY <1>1 DEF TypeOK
<1> QED BY <1>1, <1>3, <1>4, <1>5, ProcessAssumption

\* The pid of a slot in use, which no other slot has.
LEMMA UserPid ==
  ASSUME LifeHyp, NEW s \in UserSlots, proc[s].state # "UNUSED"
  PROVE  /\ proc[s].pid \in 2 .. MaxPid /\ proc[s].pid \in Pids /\ proc[s].pid < next_pid
         /\ \A t \in UserSlots \ {s} : proc[t].state # "UNUSED" => proc[t].pid # proc[s].pid
<1>0. s \in Slots /\ s # Bootstrap /\ Bootstrap \in Slots BY SlotZero DEF UserSlots
<1>1. proc[s].pid \in 1 .. next_pid - 1 BY <1>0, LifeFacts DEF Family
<1>2. proc[s].pid # 1
  <2>1. proc[Bootstrap].pid = 1 /\ proc[Bootstrap].state # "UNUSED"
    BY LifeFacts DEF LifeHyp, Rooted, Up
  <2> QED BY <1>0, <2>1, LifeFacts DEF Family
<1>3. next_pid \in 2 .. MaxPid + 1 /\ MaxPid \in Nat BY LifeFacts
<1>4. proc[s].pid # 0 BY <1>1
<1>5. \A t \in UserSlots \ {s} : proc[t].state # "UNUSED" => proc[t].pid # proc[s].pid
  BY <1>0, <1>4, LifeFacts DEF Family, UserSlots
<1>6. proc[s].pid \in 2 .. MaxPid /\ proc[s].pid \in 1 .. MaxPid /\ proc[s].pid < next_pid
  BY <1>1, <1>2, <1>3
<1> QED BY <1>5, <1>6 DEF Pids

\* What the abstract variables are before and after the step.
LEMMA MapsAre ==
  ASSUME LifeHyp, ChildInv(proc', next_pid'), LifeKept
  PROVE  /\ Lives(proc, next_pid) = [p \in 2 .. MaxPid |-> Stage(proc, next_pid, p)]
         /\ Lives(proc', next_pid') = [p \in 2 .. MaxPid |-> Stage(proc', next_pid', p)]
         /\ Verdicts(proc, died) = [p \in 2 .. MaxPid |-> died[p]]
         /\ Verdicts(proc', died') = [p \in 2 .. MaxPid |-> died'[p]]
<1>1. \A p \in 2 .. MaxPid : /\ LifeIn(proc, next_pid, p) = Stage(proc, next_pid, p)
                             /\ VerdictIn(proc, died, p) = died[p]
  BY LifeFacts, StageIs DEF LifeHyp
<1>2. \A p \in 2 .. MaxPid : /\ LifeIn(proc', next_pid', p) = Stage(proc', next_pid', p)
                             /\ VerdictIn(proc', died', p) = died'[p]
  BY StageIs DEF LifeKept, ChildInv
<1> QED BY <1>1, <1>2 DEF Lives, Verdicts

LEMMA StutterLife ==
  ASSUME LifeHyp, ChildInv(proc', next_pid'), UNCHANGED <<next_pid, died, delivered>>,
         \A s \in Slots : Alike(proc[s], proc'[s])
  PROVE  LifeStep
<1>1. LifeKept
  <2>1. Rooted(proc') BY SlotZero DEF LifeHyp, Rooted, Alike
  <2>2. AllPlain(proc', died', delivered') BY AlikePlain DEF LifeHyp, AllPlain, UserSlots
  <2>3. Unhanded(delivered', next_pid') BY DEF LifeHyp
  <2> QED BY <2>1, <2>2, <2>3 DEF LifeKept
<1>2. \A p \in 2 .. MaxPid : Stage(proc', next_pid', p) = Stage(proc, next_pid, p)
  BY StageAlike DEF UserSlots
<1>3. Lives(proc', next_pid') = Lives(proc, next_pid) BY <1>1, <1>2, MapsAre
<1>4. Verdicts(proc', died') = Verdicts(proc, died) BY <1>1, MapsAre
<1>5. UNCHANGED Life!lifeVars BY <1>3, <1>4 DEF Life!lifeVars
<1> QED BY <1>1, <1>5 DEF LifeStep

\* All the slots but i go on, and their pids are not p.
LEMMA OthersStage ==
  ASSUME LifeHyp, NEW i \in UserSlots, \A s \in Slots \ {i} : Alike(proc[s], proc'[s]),
         NEW p, proc[i].state # "UNUSED" => proc[i].pid # p,
         proc'[i].state # "UNUSED" => proc'[i].pid # p
  PROVE  \A n : Stage(proc', n, p) = Stage(proc, n, p)
<1>1. \A s \in UserSlots : Alike(proc[s], proc'[s]) \/ (~Owner(proc, s, p) /\ ~Owner(proc', s, p))
  BY DEF Owner, UserSlots
<1> QED BY <1>1, StageAlike

LEMMA CreateLife ==
  ASSUME LifeHyp, ChildInv(proc', next_pid'), NEW f \in UserSlots, proc[f].state = "UNUSED",
         proc'[f].state = "READY", proc'[f].pid = next_pid, ~proc'[f].reap_pending,
         \A s \in Slots \ {f} : Alike(proc[s], proc'[s]),
         next_pid <= MaxPid, next_pid' = next_pid + 1, UNCHANGED <<died, delivered>>
  PROVE  LifeStep
<1> DEFINE n == next_pid
<1>0. n \in 2 .. MaxPid /\ n \in Pids /\ n \in Nat /\ MaxPid \in Nat BY LifeFacts DEF Pids
<1>1. died[n] = NoStatus /\ delivered[n] = 0
  BY <1>0 DEF LifeHyp, ResultHyp, Unborn, Unhanded
<1>2. LifeKept
  <2>1. Rooted(proc') BY SlotZero DEF LifeHyp, Rooted, Alike, UserSlots
  <2>2. Plain(proc'[f], died, delivered) BY <1>1 DEF Plain
  <2>3. AllPlain(proc', died', delivered')
    BY <2>2, AlikePlain DEF LifeHyp, AllPlain, UserSlots
  <2>4. Unhanded(delivered', next_pid')
    <3>1. \A p \in Pids : p >= n + 1 => p >= n BY <1>0 DEF Pids
    <3> QED BY <3>1 DEF LifeHyp, Unhanded
  <2> QED BY <2>1, <2>3, <2>4 DEF LifeKept
<1>3. ASSUME NEW p \in 2 .. MaxPid, p # n
      PROVE  Stage(proc', next_pid', p) = Stage(proc, next_pid, p)
  <2>1. Stage(proc', n, p) = Stage(proc, n, p) BY <1>3, OthersStage
  <2>2. p < n + 1 <=> p < n BY <1>0, <1>3
  <2> QED BY <2>1, <2>2 DEF Stage
<1>4. Stage(proc, next_pid, n) = "unborn"
  <2>1. \A s \in UserSlots : ~Owner(proc, s, n) BY UserPid, <1>0 DEF Owner
  <2> QED BY <1>0, <2>1 DEF Stage
<1>5. Stage(proc', next_pid', n) = "alive"
  <2>1. \A s \in UserSlots \ {f} : ~Owner(proc', s, n)
    BY UserPid, <1>0 DEF Owner, Alike, UserSlots
  <2>2. Owner(proc', f, n) /\ proc'[f].state # "ZOMBIE" BY DEF Owner
  <2> QED BY <2>1, <2>2 DEF Stage
<1>6. Lives(proc', next_pid') = [Lives(proc, next_pid) EXCEPT ![n] = "alive"]
  <2>1. /\ Lives(proc, next_pid) = [p \in 2 .. MaxPid |-> Stage(proc, next_pid, p)]
        /\ Lives(proc', next_pid') = [p \in 2 .. MaxPid |-> Stage(proc', next_pid', p)]
    BY <1>2, MapsAre
  <2> HIDE DEF n
  <2> QED BY <1>0, <1>3, <1>5, <2>1
<1>7. Lives(proc, next_pid)[n] = "unborn" BY <1>0, <1>2, <1>4, MapsAre
<1>8. Verdicts(proc', died') = Verdicts(proc, died) BY <1>2, MapsAre
<1>9. Life!Create(n) BY <1>6, <1>7, <1>8 DEF Life!Create
<1>10. Life!LifeNext BY <1>0, <1>9 DEF Life!LifeNext
<1> QED BY <1>2, <1>10 DEF LifeStep

LEMMA CollectLife ==
  ASSUME LifeHyp, ChildInv(proc', next_pid'), NEW z \in UserSlots, proc[z].state = "ZOMBIE",
         proc'[z] = ClearProcess, \A s \in Slots \ {z} : Alike(proc[s], proc'[s]),
         delivered' = Delivered(proc, z), UNCHANGED <<next_pid, died>>
  PROVE  LifeStep
<1> DEFINE x == proc[z].pid
<1>0. /\ x \in 2 .. MaxPid /\ x \in Pids /\ x < next_pid
      /\ \A t \in UserSlots \ {z} : proc[t].state # "UNUSED" => proc[t].pid # x
  BY UserPid
<1>1. proc'[z].state = "UNUSED" /\ ~proc'[z].reap_pending BY ClearType DEF ClearProcess
<1>2. delivered[x] = 0 BY DEF LifeHyp, AllPlain, Plain
<1>3. delivered' = [delivered EXCEPT ![x] = 1] BY <1>2 DEF Delivered
<1>4. delivered'[x] = 1 /\ \A p \in Pids \ {x} : delivered'[p] = delivered[p]
  BY <1>0, <1>3, LifeFacts
<1> HIDE DEF x
<1>5. LifeKept
  <2>1. Rooted(proc') BY SlotZero DEF LifeHyp, Rooted, Alike, UserSlots
  <2>2. ASSUME NEW s \in UserSlots PROVE Plain(proc'[s], died', delivered')
    <3>1. CASE s = z BY <1>1, <3>1 DEF Plain
    <3>2. CASE s # z
      <4>1. Alike(proc[s], proc'[s]) /\ Plain(proc[s], died, delivered)
        BY <3>2 DEF LifeHyp, AllPlain, UserSlots
      <4>2. proc[s].state # "UNUSED" => delivered'[proc[s].pid] = delivered[proc[s].pid]
        BY <1>0, <1>4, <3>2, UserPid
      <4>3. Plain(proc[s], died', delivered') BY <4>1, <4>2 DEF Plain
      <4> QED BY <4>1, <4>3, AlikePlain
    <3> QED BY <3>1, <3>2
  <2>3. Unhanded(delivered', next_pid')
    <3>1. \A p \in Pids : p >= next_pid => p # x BY <1>0, LifeFacts DEF Pids
    <3> QED BY <1>4, <3>1 DEF LifeHyp, Unhanded
  <2> QED BY <2>1, <2>2, <2>3 DEF LifeKept, AllPlain
<1>6. \A p \in 2 .. MaxPid : p # x => Stage(proc', next_pid', p) = Stage(proc, next_pid, p)
  BY <1>1, OthersStage DEF x
<1>7. Stage(proc, next_pid, x) = "exited" BY DEF Stage, Owner, x
<1>8. Stage(proc', next_pid', x) = "released"
  <2>1. \A s \in UserSlots : ~Owner(proc', s, x) BY <1>0, <1>1 DEF Owner, Alike, UserSlots
  <2> QED BY <1>0, <2>1 DEF Stage
<1>9. Lives(proc', next_pid') = [Lives(proc, next_pid) EXCEPT ![x] = "released"]
  BY <1>0, <1>5, <1>6, <1>8, MapsAre
<1>10. Lives(proc, next_pid)[x] = "exited" BY <1>0, <1>5, <1>7, MapsAre
<1>11. Verdicts(proc', died') = Verdicts(proc, died) BY <1>5, MapsAre
<1>12. Handovers(delivered') = [Handovers(delivered) EXCEPT ![x] = 1] /\ Handovers(delivered)[x] = 0
  <2>1. 2 .. MaxPid \subseteq Pids BY LifeFacts DEF Pids
  <2> QED BY <1>0, <1>2, <1>4, <2>1 DEF Handovers, x
<1>13. Life!Collect(x) BY <1>9, <1>10, <1>11, <1>12 DEF Life!Collect
<1>14. Life!LifeNext BY <1>0, <1>13 DEF Life!LifeNext
<1> QED BY <1>5, <1>14 DEF LifeStep

\* A death, of which the parent learns later or at once.
LEMMA DieLife ==
  ASSUME LifeHyp, ChildInv(proc', next_pid'), NEW c \in UserSlots, NEW code \in DeathCodes,
         proc[c].state \notin {"UNUSED", "ZOMBIE"},
         died' = DeathIn(died, proc[c].pid, code),
         \A s \in Slots \ {c} : Alike(proc[s], proc'[s]),
         \/ /\ proc'[c].state = "ZOMBIE" /\ proc'[c].pid = proc[c].pid
            /\ proc'[c].exit_code = code /\ ~proc'[c].reap_pending
            /\ UNCHANGED delivered
         \/ proc'[c] = ClearProcess /\ delivered' = Delivered(proc, c),
         UNCHANGED next_pid
  PROVE  LifeStep
<1> DEFINE x == proc[c].pid
           dead == proc'[c].state = "ZOMBIE"
<1>0. /\ x \in 2 .. MaxPid /\ x \in Pids /\ x < next_pid
      /\ \A t \in UserSlots \ {c} : proc[t].state # "UNUSED" => proc[t].pid # x
  BY UserPid
<1>1. delivered[x] = 0 /\ died[x] = NoStatus BY DEF LifeHyp, AllPlain, Plain
<1>2. died'[x] = code /\ \A p \in Pids \ {x} : died'[p] = died[p]
  BY <1>0, <1>1, LifeFacts DEF DeathIn
<1>3. delivered' = IF dead THEN delivered ELSE [delivered EXCEPT ![x] = 1]
  <2>1. ClearProcess.state # "ZOMBIE" BY ClearType
  <2> QED BY <1>1, <2>1 DEF Delivered
<1>4. /\ delivered'[x] = IF dead THEN 0 ELSE 1
      /\ \A p \in Pids \ {x} : delivered'[p] = delivered[p]
  BY <1>0, <1>1, <1>3, LifeFacts
<1>5. /\ dead => proc'[c].pid = x /\ proc'[c].exit_code = code /\ ~proc'[c].reap_pending
      /\ ~dead => proc'[c].state = "UNUSED" /\ ~proc'[c].reap_pending
  BY ClearType DEF ClearProcess
<1>6. \A p \in 2 .. MaxPid : p # x => Stage(proc', next_pid', p) = Stage(proc, next_pid, p)
  BY <1>5, OthersStage
<1>7. Stage(proc, next_pid, x) = "alive"
  BY <1>0 DEF Stage, Owner
<1> HIDE DEF x, dead
<1>8. LifeKept
  <2>1. Rooted(proc') BY SlotZero DEF LifeHyp, Rooted, Alike, UserSlots
  <2>2. ASSUME NEW s \in UserSlots PROVE Plain(proc'[s], died', delivered')
    <3>1. CASE s = c BY <1>2, <1>4, <1>5, <3>1 DEF Plain, dead
    <3>2. CASE s # c
      <4>1. Alike(proc[s], proc'[s]) /\ Plain(proc[s], died, delivered)
        BY <3>2 DEF LifeHyp, AllPlain, UserSlots
      <4>2. proc[s].state # "UNUSED" => /\ delivered'[proc[s].pid] = delivered[proc[s].pid]
                                        /\ died'[proc[s].pid] = died[proc[s].pid]
        BY <1>0, <1>2, <1>4, <3>2, UserPid
      <4>3. Plain(proc[s], died', delivered') BY <4>1, <4>2 DEF Plain
      <4> QED BY <4>1, <4>3, AlikePlain
    <3> QED BY <3>1, <3>2
  <2>3. Unhanded(delivered', next_pid')
    <3>1. \A p \in Pids : p >= next_pid => p # x BY <1>0, LifeFacts DEF Pids
    <3> QED BY <1>4, <3>1 DEF LifeHyp, Unhanded
  <2> QED BY <2>1, <2>2, <2>3 DEF LifeKept, AllPlain
<1>9. Stage(proc', next_pid', x) = IF dead THEN "exited" ELSE "released"
  <2>1. \A s \in UserSlots \ {c} : ~Owner(proc', s, x) BY <1>0 DEF Owner, Alike, UserSlots
  <2>2. Owner(proc', c, x) <=> dead BY <1>5 DEF Owner, dead
  <2> QED BY <1>0, <2>1, <2>2 DEF Stage, dead
<1>10. Lives(proc, next_pid)[x] = "alive" BY <1>0, <1>7, <1>8, MapsAre
<1> DEFINE v == IF dead THEN "exited" ELSE "released"
<1>11. Lives(proc', next_pid') = [Lives(proc, next_pid) EXCEPT ![x] = v]
  <2>1. /\ Lives(proc, next_pid) = [p \in 2 .. MaxPid |-> Stage(proc, next_pid, p)]
        /\ Lives(proc', next_pid') = [p \in 2 .. MaxPid |-> Stage(proc', next_pid', p)]
    BY <1>8, MapsAre
  <2>2. Stage(proc', next_pid', x) = v BY <1>9
  <2>3. x \in 2 .. MaxPid BY <1>0
  <2> HIDE DEF v
  <2>4. \A p \in 2 .. MaxPid : Stage(proc', next_pid', p) = IF p = x THEN v ELSE Stage(proc, next_pid, p)
    BY <1>6, <2>2
  <2> QED BY ONLY <2>1, <2>3, <2>4
<1>12. 2 .. MaxPid \subseteq Pids BY LifeFacts DEF Pids
<1>13. Verdicts(proc', died') = [Verdicts(proc, died) EXCEPT ![x] = code]
  <2>1. /\ Verdicts(proc, died) = [p \in 2 .. MaxPid |-> died[p]]
        /\ Verdicts(proc', died') = [p \in 2 .. MaxPid |-> died'[p]]
    BY <1>8, MapsAre
  <2>2. x \in 2 .. MaxPid BY <1>0
  <2>3. \A p \in 2 .. MaxPid : died'[p] = IF p = x THEN code ELSE died[p] BY <1>2, <1>12
  <2> QED BY ONLY <2>1, <2>2, <2>3
<1>14. dead => Handovers(delivered') = Handovers(delivered) BY <1>3
<1>15. ~dead => Handovers(delivered') = [Handovers(delivered) EXCEPT ![x] = 1]
  BY <1>0, <1>4, <1>12 DEF Handovers
<1>16. Life!Die(x, code) \/ Life!DieCollected(x, code)
  <2>1. CASE dead BY <1>10, <1>11, <1>13, <1>14, <2>1 DEF Life!Die
  <2>2. CASE ~dead BY <1>10, <1>11, <1>13, <1>15, <2>2 DEF Life!DieCollected
  <2> QED BY <2>1, <2>2
<1>17. Life!LifeNext BY <1>0, <1>16 DEF Life!LifeNext
<1> QED BY <1>8, <1>17 DEF LifeStep

-----------------------------------------------------------------------------
(***************************************************************************)
(* What the handlers leave of the slots they do not mean.                  *)
(***************************************************************************)
LEMMA EnteredAlike ==
  ASSUME LifeHyp
  PROVE  /\ \A s \in Slots : Alike(proc[s], Entered(proc)[s])
         /\ Entered(proc) \in Table
<1> DEFINE p == proc[current]
           q == Entered(proc)[current]
<1>0. proc \in Table /\ current \in Slots /\ p \in Slot /\ p.state = "RUNNING" /\ TypeOK
  BY LifeFacts
<1>1. q.reap_pending = p.reap_pending /\ q.is_thread = p.is_thread
  BY <1>0 DEF Entered, Table, Slot
<1>2. q.state = p.state /\ q.pid = p.pid BY <1>0, EnteredCalm
<1> HIDE DEF p, q
<1>3. Alike(p, q) BY <1>0, <1>1, <1>2 DEF Alike
<1>4. \A s \in Slots \ {current} : Entered(proc)[s] = proc[s] BY <1>0, EnteredCalm
<1>5. \A s \in Slots : Alike(proc[s], Entered(proc)[s])
  BY <1>3, <1>4, LifeFacts DEF p, q
<1> QED BY <1>0, <1>5, EnteredCalm

\* A handler that schedules after it left every slot in its life.
LEMMA ScheduleAlike ==
  ASSUME LifeHyp, NEW P \in Table, NEW flag \in BOOLEAN, Schedule(P, flag),
         \A s \in Slots : Alike(proc[s], P[s]), P[Bootstrap].state \in Up
  PROVE  \A s \in Slots : Alike(proc[s], proc'[s])
<1>1. \A s \in Slots : Resumed(P[s], proc'[s]) \/ Freed(P[s], proc'[s])
  BY ScheduleResumes, LifeFacts DEF LifeHyp, ResultHyp
<1>2. \A s \in Slots : ~Freed(P[s], proc'[s])
  <2>1. \A s \in UserSlots : ~proc[s].reap_pending BY DEF LifeHyp, AllPlain, Plain
  <2>2. ~(P[Bootstrap].state = "ZOMBIE") BY DEF Up
  <2>3. \A s \in UserSlots : ~P[s].reap_pending BY <2>1 DEF Alike, UserSlots
  <2> QED BY <2>2, <2>3 DEF Freed, UserSlots
<1> QED BY <1>1, <1>2, ResumedAlike

LEMMA SpawnLife ==
  ASSUME LifeHyp, ChildInv(proc', next_pid'), SpawnProcess PROVE LifeStep
<1> DEFINE r == NewProcess(next_pid, proc[current].pid, next_pid, next_tid, PriorityDefault)
<1>1. PICK s \in FindFreeSlot(proc) : proc' = [proc EXCEPT ![s] = r]
  BY DEF SpawnProcess, ReturnWith
<1>2. r.state = "READY" /\ r.pid = next_pid /\ ~r.reap_pending
  BY DEF NewProcess, ClearProcess
<1> HIDE DEF r
<1>3. s \in Slots /\ proc[s].state = "UNUSED" BY FreeSlot
<1>4. s \in UserSlots BY <1>3, LifeFacts DEF UserSlots, Up
<1>5. proc'[s] = r /\ \A t \in Slots \ {s} : proc'[t] = proc[t]
  BY <1>1, <1>3, LifeFacts DEF Table
<1>6. \A t \in Slots \ {s} : Alike(proc[t], proc'[t]) BY <1>5, LifeFacts
<1>7. /\ next_pid <= MaxPid /\ next_pid' = next_pid + 1 /\ UNCHANGED <<died, delivered>>
  BY DEF SpawnProcess
<1> QED BY <1>2, <1>3, <1>4, <1>5, <1>6, <1>7, CreateLife

LEMMA ForkLife ==
  ASSUME LifeHyp, ChildInv(proc', next_pid'), ForkCurrent PROVE LifeStep
<1> DEFINE parent == proc[current]
           r == NewProcess(next_pid, parent.pid, parent.thread_group_pid,
                           next_tid + 1, parent.priority)
           P == Entered(proc)
           Q == [P EXCEPT ![current].eax = next_pid]
<1>1. PICK s \in FindFreeSlot(proc) :
        proc' = [P EXCEPT ![s] = r, ![current].eax = next_pid]
  BY DEF ForkCurrent, ReturnWith
<1>2. r.state = "READY" /\ r.pid = next_pid /\ ~r.reap_pending
  BY DEF NewProcess, ClearProcess
<1>3. s \in Slots /\ proc[s].state = "UNUSED" BY FreeSlot
<1>4. s \in UserSlots /\ s # current BY <1>3, LifeFacts DEF UserSlots, Up
<1>5. P \in Table /\ current \in Slots /\ \A t \in Slots : Alike(proc[t], P[t])
  BY EnteredAlike, LifeFacts
<1> HIDE DEF P, r
<1>6. proc' = [Q EXCEPT ![s] = r] BY <1>1, <1>4, <1>5 DEF Table
<1>7. /\ \A t \in Slots \ {current} : Q[t] = P[t]
      /\ Alike(P[current], Q[current]) \/ P[current].state = "WAITING"
  BY <1>5 DEF Table, Slot, Alike
<1>8. DOMAIN Q = Slots BY <1>5 DEF Table
<1>9. P[current].state # "WAITING"
  BY LifeFacts, EnteredCalm DEF P
<1> HIDE DEF Q
<1>10. proc'[s] = r /\ \A t \in Slots \ {s} : proc'[t] = Q[t] BY <1>3, <1>6, <1>8
<1>11. \A t \in Slots \ {s} : Alike(proc[t], proc'[t])
  BY <1>5, <1>7, <1>9, <1>10 DEF Alike
<1>12. next_pid <= MaxPid /\ next_pid' = next_pid + 1 /\ UNCHANGED <<died, delivered>>
  BY DEF ForkCurrent
<1> QED BY <1>2, <1>3, <1>4, <1>10, <1>11, <1>12, CreateLife

\* A slot that runs and goes on running, or waits in waitpid then.
LEMMA WrittenAlike ==
  ASSUME LifeHyp, NEW P \in Table, NEW r, \A s \in Slots \ {current} : P[s] = proc[s],
         P[current] = r, current # Bootstrap \/ r.state = "RUNNING",
         r.pid = proc[current].pid, r.is_thread = proc[current].is_thread,
         r.reap_pending = proc[current].reap_pending,
         r.state = "RUNNING" \/ (r.state = "WAITING" /\ r.wait_status)
  PROVE  \A s \in Slots : Alike(proc[s], P[s])
<1>1. Alike(proc[current], r) BY LifeFacts DEF Alike
<1> QED BY <1>1, LifeFacts

LEMMA QuietLife ==
  ASSUME LifeHyp, ChildInv(proc', next_pid'), ExecReplaceCurrent \/ OtherSyscall \/ Reissue
  PROVE  LifeStep
<1> DEFINE P == Entered(proc)
<1>0. current \in Slots /\ proc \in Table /\ proc[current] \in Slot
      /\ proc[current].state = "RUNNING"
  BY LifeFacts
<1>1. P \in Table /\ \A s \in Slots : Alike(proc[s], P[s]) BY EnteredAlike
<1>2. \A s \in Slots \ {current} : P[s] = proc[s] BY EnteredCalm, LifeFacts
<1>3. P[current].state = "RUNNING" BY EnteredCalm, LifeFacts
<1>4. ASSUME ExecReplaceCurrent PROVE \A s \in Slots : Alike(proc[s], proc'[s])
  <2> DEFINE r == [P[current] EXCEPT
                    !.exit_code = 0, !.wait_pid = 0, !.wait_status = FALSE, !.reap_pending = FALSE]
  <2>1. proc' = [P EXCEPT ![current] = r]
    BY <1>0, <1>1, <1>4 DEF ExecReplaceCurrent, ReturnWith, Table
  <2> HIDE DEF P
  <2>2. /\ r.state = "RUNNING" /\ r.pid = P[current].pid /\ r.is_thread = P[current].is_thread
        /\ r.reap_pending = FALSE
    BY <1>0, <1>1, <1>3 DEF Table, Slot
  <2> HIDE DEF r
  <2>3. proc'[current] = r /\ \A s \in Slots \ {current} : proc'[s] = P[s]
    BY <1>0, <1>1, <2>1 DEF Table
  <2>4. P[current].reap_pending = FALSE
    <3>1. current \in UserSlots BY <1>0, <1>4 DEF ExecReplaceCurrent, Issues, InUser, UserSlots
    <3>2. ~proc[current].reap_pending BY <3>1 DEF LifeHyp, AllPlain, Plain
    <3>3. proc[current].reap_pending \in BOOLEAN BY <1>0 DEF Slot
    <3> QED BY <1>0, <1>1, <3>2, <3>3 DEF Alike
  <2>5. Alike(proc[current], r) BY <1>0, <1>1, <1>3, <2>2, <2>4 DEF Alike
  <2> QED BY <1>1, <2>3, <2>5
<1>5. ASSUME OtherSyscall PROVE \A s \in Slots : Alike(proc[s], proc'[s])
  BY <1>1, <1>5 DEF OtherSyscall, ReturnWith
<1>6. ASSUME Reissue PROVE \A s \in Slots : Alike(proc[s], proc'[s])
  <2> DEFINE v == IF proc[current].eax = Blocked THEN SysErr ELSE 0
             r == [proc[current] EXCEPT !.rewound = FALSE, !.eax = v]
  <2>1. proc' = [proc EXCEPT ![current] = r] BY <1>0, <1>6 DEF Reissue, ReturnWith, Table
  <2> HIDE DEF v
  <2>2. /\ r.state = "RUNNING" /\ r.pid = proc[current].pid
        /\ r.is_thread = proc[current].is_thread
        /\ r.reap_pending = proc[current].reap_pending
    BY <1>0 DEF Slot
  <2> HIDE DEF r
  <2>3. proc'[current] = r /\ \A s \in Slots \ {current} : proc'[s] = proc[s]
    BY <1>0, <2>1 DEF Table
  <2>4. Alike(proc[current], r) BY <1>0, <2>2 DEF Alike
  <2> QED BY <2>3, <2>4, LifeFacts
<1>7. UNCHANGED <<next_pid, died, delivered>>
  BY DEF ExecReplaceCurrent, OtherSyscall, Reissue
<1> QED BY <1>4, <1>5, <1>6, <1>7, StutterLife

LEMMA ReapLife ==
  ASSUME LifeHyp, ChildInv(proc', next_pid'), NEW z \in UserSlots, ReapPid(z) PROVE LifeStep
<1>1. /\ z \in Slots /\ proc[z].state = "ZOMBIE" /\ proc' = [proc EXCEPT ![z] = ClearProcess]
      /\ delivered' = Delivered(proc, z) /\ UNCHANGED <<next_pid, died>>
  BY DEF ReapPid, ReturnWith, ReapProcess, UserSlots
<1>2. proc'[z] = ClearProcess /\ \A s \in Slots \ {z} : proc'[s] = proc[s]
  BY <1>1, LifeFacts DEF Table
<1>3. \A s \in Slots \ {z} : Alike(proc[s], proc'[s]) BY <1>2, LifeFacts
<1> QED BY <1>1, <1>2, <1>3, CollectLife

\* waitpid writes the caller's slot, which goes on in its life.
LEMMA WaitsAlike ==
  ASSUME LifeHyp, NEW n \in 0 .. MaxPid
  PROVE  LET q == Waits(proc, n)[current]  p == proc[current] IN
         /\ Waits(proc, n) \in Table /\ \A s \in Slots \ {current} : Waits(proc, n)[s] = proc[s]
         /\ q.state = "RUNNING" /\ q.pid = p.pid /\ q.is_thread = p.is_thread
         /\ q.reap_pending = p.reap_pending
<1>0. TypeOK /\ proc \in Table /\ current \in Slots /\ proc[current].state = "RUNNING"
  BY LifeFacts
<1>1. Entered(proc) \in Table /\ Alike(proc[current], Entered(proc)[current])
  BY <1>0, EnteredAlike
<1> DEFINE E == Entered(proc)
           r == [E[current] EXCEPT !.call = "waitpid", !.arg = n]
<1>2. Waits(proc, n) = [E EXCEPT ![current] = r] BY <1>0, <1>1 DEF Waits, Table
<1>3. r.reap_pending = E[current].reap_pending BY <1>0, <1>1 DEF Table, Slot
<1> HIDE DEF r
<1>4. Waits(proc, n)[current] = r BY <1>0, <1>1, <1>2 DEF Table
<1>5. E[current].reap_pending = proc[current].reap_pending BY <1>1 DEF Alike
<1> HIDE DEF E
<1> QED BY <1>0, <1>3, <1>4, <1>5, WaitsFields

LEMMA CollectsLife ==
  ASSUME LifeHyp, ChildInv(proc', next_pid'), NEW pid \in 0 .. MaxPid, WaitPid(pid),
         WaitCollects(pid)
  PROVE  LifeStep
<1> DEFINE P == Waits(proc, pid)
<1>0. /\ proc \in Table /\ current \in Slots /\ proc[current].state = "RUNNING"
  BY LifeFacts
<1>1. /\ P \in Table /\ \A s \in Slots \ {current} : P[s] = proc[s]
      /\ P[current].state = "RUNNING" /\ P[current].pid = proc[current].pid
      /\ P[current].is_thread = proc[current].is_thread
      /\ P[current].reap_pending = proc[current].reap_pending
  BY WaitsAlike
<1> HIDE DEF P
<1>2. PICK z \in FindZombieChild(proc, proc[current].pid, pid) :
        /\ proc' = ReapProcess([P EXCEPT
             ![current].eax = proc[z].pid, ![current].status = proc[z].exit_code], z)
        /\ delivered' = IF proc[z].pid = 0 THEN delivered ELSE Delivered(proc, z)
  BY DEF WaitCollects, ReturnWith, P
<1>3. z \in UserSlots /\ proc[z].state = "ZOMBIE" BY FirstIn DEF FindZombieChild
<1>4. z \in Slots /\ z # current BY <1>0, <1>3 DEF UserSlots
<1>5. proc[z].pid # 0
  <2>1. proc[z].pid \in 2 .. MaxPid BY <1>3, UserPid
  <2> QED BY <2>1
<1> DEFINE v == proc[z].pid
           w == proc[z].exit_code
           r == [P[current] EXCEPT !.eax = v, !.status = w]
           Q == [P EXCEPT ![current] = r]
<1>6. proc' = ReapProcess(Q, z)
  <2>1. Q = [P EXCEPT ![current].eax = proc[z].pid, ![current].status = proc[z].exit_code]
    BY <1>0, <1>1 DEF Table
  <2> QED BY <1>2, <2>1
<1> HIDE DEF v, w
<1>7. /\ r.state = "RUNNING" /\ r.pid = P[current].pid
      /\ r.is_thread = P[current].is_thread /\ r.reap_pending = P[current].reap_pending
  BY <1>0, <1>1 DEF Table, Slot
<1> HIDE DEF r
<1>8. Q[current] = r /\ (\A s \in Slots \ {current} : Q[s] = proc[s]) /\ DOMAIN Q = Slots
  BY <1>0, <1>1 DEF Table
<1> HIDE DEF Q
<1>9. \A s \in Slots : Alike(proc[s], Q[s])
  <2>1. Alike(proc[current], r) BY <1>0, <1>1, <1>7 DEF Alike
  <2> QED BY <1>8, <2>1, LifeFacts
<1>10. proc' = [Q EXCEPT ![z] = ClearProcess] BY <1>3, <1>4, <1>6, <1>8 DEF ReapProcess
<1>11. proc'[z] = ClearProcess /\ \A s \in Slots \ {z} : proc'[s] = Q[s]
  BY <1>4, <1>8, <1>10
<1>12. \A s \in Slots \ {z} : Alike(proc[s], proc'[s]) BY <1>9, <1>11
<1>13. delivered' = Delivered(proc, z) /\ UNCHANGED <<next_pid, died>>
  BY <1>2, <1>5 DEF WaitPid
<1> QED BY <1>3, <1>11, <1>12, <1>13, CollectLife

LEMMA RefusesLife ==
  ASSUME LifeHyp, ChildInv(proc', next_pid'), NEW pid \in 0 .. MaxPid, WaitPid(pid),
         WaitFails(pid)
  PROVE  LifeStep
<1> DEFINE P == Waits(proc, pid)
           r == [P[current] EXCEPT !.eax = SysErr]
<1>0. current \in Slots /\ proc[current].state = "RUNNING" BY LifeFacts
<1>1. /\ P \in Table /\ \A s \in Slots \ {current} : P[s] = proc[s]
      /\ P[current].state = "RUNNING" /\ P[current].pid = proc[current].pid
      /\ P[current].is_thread = proc[current].is_thread
      /\ P[current].reap_pending = proc[current].reap_pending
  BY WaitsAlike
<1>2. proc' = [P EXCEPT ![current] = r] BY DEF WaitFails, ReturnWith
<1> HIDE DEF P
<1>3. /\ r.state = P[current].state /\ r.pid = P[current].pid
      /\ r.is_thread = P[current].is_thread /\ r.reap_pending = P[current].reap_pending
  BY <1>0, <1>1 DEF Table, Slot
<1> HIDE DEF r
<1>4. proc'[current] = r /\ \A s \in Slots \ {current} : proc'[s] = proc[s]
  BY <1>0, <1>1, <1>2 DEF Table
<1>5. Alike(proc[current], r) BY <1>0, <1>1, <1>3 DEF Alike
<1>6. \A s \in Slots : Alike(proc[s], proc'[s]) BY <1>4, <1>5, LifeFacts
<1>7. UNCHANGED <<next_pid, died, delivered>> BY DEF WaitPid, WaitFails
<1> QED BY <1>6, <1>7, StutterLife

LEMMA BlocksLife ==
  ASSUME LifeHyp, ChildInv(proc', next_pid'), NEW pid \in 0 .. MaxPid, WaitPid(pid),
         WaitBlocks(pid)
  PROVE  LifeStep
<1> DEFINE P0 == Waits(proc, pid)
           P1 == [P0 EXCEPT ![current].eax = Blocked]
           P2 == [P1 EXCEPT ![current].state = "WAITING"]
           P3 == [P2 EXCEPT ![current].wait_pid = pid]
           P4 == [P3 EXCEPT ![current].wait_status = TRUE]
           P5 == [P4 EXCEPT ![current].wait_channel = NoChannel]
           r == [P0[current] EXCEPT
                  !.eax = Blocked, !.state = "WAITING", !.wait_pid = pid, !.wait_status = TRUE,
                  !.wait_channel = NoChannel]
<1> HIDE DEF P0, P1, P2, P3, P4, P5
<1>0. /\ TypeOK /\ current \in UserSlots /\ current \in Slots /\ current # Bootstrap
      /\ proc[current].state = "RUNNING" /\ pid \in Nat
  BY LifeFacts, ProcessAssumption DEF WaitPid, Issues, InUser, UserSlots
<1>1. Legal(P0) BY <1>0, LegalWaits DEF P0
<1>2. Legal(P1) BY <1>0, <1>1, LegalEax DEF P1, Blocked
<1>3. Legal(P2) BY <1>0, <1>2, LegalState DEF P2, States, UserSlots
<1>4. Legal(P3) BY <1>0, <1>3, LegalWaitPid DEF P3
<1>5. Legal(P4) BY <1>0, <1>4, LegalWaitStatus DEF P4
<1>6. P0 \in Table /\ P5 \in Table BY <1>0, <1>1, <1>5, LegalWaitChannel DEF P5, Legal
<1>7. Schedule(P5, TRUE) BY DEF WaitBlocks, P0, P1, P2, P3, P4, P5
<1>8. P5 = [P0 EXCEPT ![current] = r] BY <1>0, <1>6 DEF P1, P2, P3, P4, P5, Table
<1>9. /\ r.state = "WAITING" /\ r.pid = P0[current].pid /\ r.is_thread = P0[current].is_thread
      /\ r.reap_pending = P0[current].reap_pending /\ r.wait_status
  BY <1>0, <1>6 DEF Table, Slot
<1>10. /\ \A s \in Slots \ {current} : P0[s] = proc[s]
       /\ P0[current].pid = proc[current].pid
       /\ P0[current].is_thread = proc[current].is_thread
       /\ P0[current].reap_pending = proc[current].reap_pending
  BY WaitsAlike DEF P0
<1> HIDE DEF r
<1>11. P5[current] = r /\ \A s \in Slots \ {current} : P5[s] = proc[s]
  BY <1>0, <1>6, <1>8, <1>10 DEF Table
<1>12. Alike(proc[current], r) BY <1>0, <1>9, <1>10 DEF Alike
<1>13. \A s \in Slots : Alike(proc[s], P5[s]) BY <1>11, <1>12, LifeFacts
<1>14. P5[Bootstrap].state \in Up BY <1>0, <1>11, LifeFacts, SlotZero
<1>15. \A s \in Slots : Alike(proc[s], proc'[s])
  BY <1>6, <1>7, <1>13, <1>14, ScheduleAlike
<1>16. UNCHANGED <<next_pid, died, delivered>> BY DEF WaitPid, WaitBlocks
<1> QED BY <1>15, <1>16, StutterLife

LEMMA SwitchLife ==
  ASSUME LifeHyp, ChildInv(proc', next_pid'), Yield \/ TimerInterrupt PROVE LifeStep
<1>1. UNCHANGED <<next_pid, died, delivered>> BY DEF Yield, TimerInterrupt
<1>2. ASSUME Yield PROVE \A s \in Slots : Alike(proc[s], proc'[s])
  <2>1. Schedule(Entered(proc), TRUE) BY <1>2 DEF Yield
  <2>2. Entered(proc)[Bootstrap].state \in Up BY EnteredSound DEF LifeHyp
  <2> QED BY <2>1, <2>2, EnteredAlike, ScheduleAlike
<1>3. ASSUME TimerInterrupt PROVE \A s \in Slots : Alike(proc[s], proc'[s])
  <2>1. "wakeup" \notin Workload BY DEF LifeHyp, Unsignalled
  <2>2. Schedule(proc, resched) /\ resched \in BOOLEAN
    BY <1>3, <2>1, LifeFacts DEF TimerInterrupt, Polled, TypeOK
  <2> QED BY <2>2, LifeFacts, ScheduleAlike
<1> QED BY <1>1, <1>2, <1>3, StutterLife

\* The scheduler frees the slot it leaves, if it is dead and marked.
LEMMA LeavesFreed ==
  ASSUME ~Contended, current \in UserSlots, NEW P \in Table, NEW flag \in BOOLEAN,
         Schedule(P, flag), P[current].state = "ZOMBIE", P[current].reap_pending
  PROVE  proc'[current] = ClearProcess
<1>0. current \in Slots /\ current # Bootstrap /\ ~Running(P) BY DEF UserSlots, Running
<1>1. ~HasSliceLeft(P, flag) /\ Charge(P, flag) = P BY <1>0 DEF HasSliceLeft, Charge
<1>2. Successor(P) # {} BY DEF Successor
<1>3. PICK n \in Successor(P) : proc' = SwitchTo(P, n)
  BY <1>1, <1>2 DEF Schedule, LockedSchedule
<1>4. n \in Slots BY SuccessorIn
<1>5. n # current
  <2>1. P[n].state = "READY" \/ n = Bootstrap BY DEF Successor, NextReady
  <2> QED BY <1>0, <2>1
<1> DEFINE run == [P EXCEPT ![n].state = "RUNNING"]
<1>6. run[current] = P[current] /\ DOMAIN run = Slots BY <1>5 DEF Table
<1>7. proc' = ReapProcess(run, current) BY <1>0, <1>3 DEF SwitchTo
<1> HIDE DEF run
<1>8. proc' = [run EXCEPT ![current] = ClearProcess] BY <1>6, <1>7 DEF ReapProcess
<1> QED BY <1>0, <1>6, <1>8

\* Who waits is the same before and after the caller entered the call.
LEMMA SameParent ==
  ASSUME NEW P, NEW Q, NEW c \in Slots, P[c].parent_pid = Q[c].parent_pid, P[c].pid = Q[c].pid,
         \A s \in UserSlots : /\ P[s].state = Q[s].state /\ P[s].pid = Q[s].pid
                              /\ P[s].wait_pid = Q[s].wait_pid
  PROVE  WaitingParent(P, c) = WaitingParent(Q, c)
<1> DEFINE S(T) == {i \in UserSlots : /\ T[i].state = "WAITING"
                                      /\ T[i].pid = T[c].parent_pid
                                      /\ T[i].wait_pid \in {WaitAny, T[c].pid}}
<1>1. S(P) = S(Q) OBVIOUS
<1>2. WaitingParent(P, c) = First(S(P)) /\ WaitingParent(Q, c) = First(S(Q))
  BY DEF WaitingParent
<1> QED BY <1>1, <1>2

LEMMA KilledParent ==
  ASSUME LifeHyp, NEW code \in Nat
  PROVE  WaitingParent(Killed(proc, current, code), current)
           = WaitingParent(Killed(Entered(proc), current, code), current)
<1> DEFINE E == Entered(proc)
           P == Killed(proc, current, code)
           Q == Killed(E, current, code)
<1>0. proc \in Table /\ current \in Slots /\ E \in Table /\ TypeOK
  BY LifeFacts, EnteredAlike
<1>1. /\ E[current].pid = proc[current].pid /\ E[current].parent_pid = proc[current].parent_pid
      /\ E[current].wait_pid = proc[current].wait_pid
      /\ \A s \in Slots \ {current} : E[s] = proc[s]
  BY <1>0, EnteredCalm
<1> HIDE DEF E
<1>2. ASSUME NEW T \in {proc, E}
      PROVE  /\ \A s \in Slots \ {current} : Killed(T, current, code)[s] = T[s]
             /\ LET k == Killed(T, current, code)[current] IN
                /\ k.state = "ZOMBIE" /\ k.pid = T[current].pid
                /\ k.parent_pid = T[current].parent_pid /\ k.wait_pid = T[current].wait_pid
  <2>1. T \in Table BY <1>0
  <2> DEFINE r == [T[current] EXCEPT !.exit_code = code, !.state = "ZOMBIE"]
  <2>2. Killed(T, current, code) = [T EXCEPT ![current] = r] BY <1>0, <2>1 DEF Killed, Table
  <2>3. /\ r.state = "ZOMBIE" /\ r.pid = T[current].pid
        /\ r.parent_pid = T[current].parent_pid /\ r.wait_pid = T[current].wait_pid
    BY <1>0, <2>1 DEF Table, Slot
  <2> HIDE DEF r
  <2> QED BY <1>0, <2>1, <2>2, <2>3 DEF Table
<1>3. /\ \A s \in Slots \ {current} : P[s] = proc[s] /\ Q[s] = E[s]
      /\ P[current].state = "ZOMBIE" /\ Q[current].state = "ZOMBIE"
      /\ P[current].pid = proc[current].pid /\ Q[current].pid = E[current].pid
      /\ P[current].parent_pid = proc[current].parent_pid
      /\ Q[current].parent_pid = E[current].parent_pid
      /\ P[current].wait_pid = proc[current].wait_pid /\ Q[current].wait_pid = E[current].wait_pid
  BY <1>2
<1> HIDE DEF P, Q
<1>4. /\ P[current].parent_pid = Q[current].parent_pid /\ P[current].pid = Q[current].pid
      /\ \A s \in UserSlots : /\ P[s].state = Q[s].state /\ P[s].pid = Q[s].pid
                              /\ P[s].wait_pid = Q[s].wait_pid
  BY <1>1, <1>3 DEF UserSlots
<1>5. WaitingParent(P, current) = WaitingParent(Q, current) BY <1>0, <1>4, SameParent
<1> QED BY <1>5 DEF P, Q, E

LEMMA ExitLife ==
  ASSUME LifeHyp, ChildInv(proc', next_pid'), NEW code \in DeathCodes, code \in Nat,
         NEW flag \in BOOLEAN, current # Bootstrap,
         Schedule(Died(Entered(proc), current, code), flag),
         RecordDeath(proc, current, code), UNCHANGED next_pid
  PROVE  LifeStep
<1> DEFINE c == current
           P == Entered(proc)
           Q == Killed(P, c, code)
           R == Died(P, c, code)
           W == WaitingParent(Q, c)
<1>0. /\ TypeOK /\ proc \in Table /\ c \in Slots /\ c \in UserSlots
      /\ proc[c].state = "RUNNING" /\ ~Contended
  BY LifeFacts DEF UserSlots, LifeHyp, ResultHyp
<1>1. P \in Table /\ \A s \in Slots : Alike(proc[s], P[s]) BY EnteredAlike
<1>2. P[c].pid = proc[c].pid /\ P[c].is_thread = proc[c].is_thread /\ P[c].state = "RUNNING"
  BY <1>0, EnteredCalm
<1>3. /\ ~proc[c].is_thread /\ ~proc[c].reap_pending
      /\ proc[c].pid \in 2 .. MaxPid
  BY <1>0, LifeFacts, UserPid DEF LifeHyp, AllPlain, Plain
<1>4. ~P[c].is_thread /\ ~P[c].reap_pending
  BY <1>0, <1>1, <1>3 DEF Alike
<1>5. /\ R \in Table /\ R[Bootstrap].state \in Up
  BY <1>0, DeathTold DEF LifeHyp
<1>6. Schedule(R, flag) OBVIOUS
<1>7. died' = DeathIn(died, proc[c].pid, code)
      /\ delivered' = IF \E w \in W : proc[w].wait_status THEN Delivered(proc, c) ELSE delivered
  <2>1. WaitingParent(Killed(proc, c, code), c) = W BY KilledParent
  <2>2. proc[c].pid # 0 BY <1>3
  <2> HIDE DEF W
  <2> QED BY <2>1, <2>2 DEF RecordDeath, DeathIn
<1> HIDE DEF c, P
<1>8. /\ Q \in Table /\ \A s \in Slots \ {c} : Q[s] = P[s]
      /\ Q[c].state = "ZOMBIE" /\ Q[c].exit_code = code /\ Q[c].pid = P[c].pid
      /\ Q[c].is_thread = P[c].is_thread /\ Q[c].reap_pending = P[c].reap_pending
  BY <1>0, <1>1, KilledFields
<1>9. R = WakeWaitingParent(Q, c) BY <1>4 DEF Died
<1> HIDE DEF Q, R
<1>10. ASSUME NEW s \in Slots
       PROVE  /\ s \in W => Answers(Q[s], R[s], Q[c])
              /\ s \notin W /\ s # c => R[s] = Q[s]
              /\ s \notin W /\ s = c => /\ Marked(Q[s], R[s])
                                       /\ R[s].reap_pending = (Q[s].reap_pending \/ W # {})
  BY <1>0, <1>8, <1>9, WakeFields
<1>11. W \subseteq UserSlots /\ \A w \in W : Q[w].state = "WAITING"
  BY FirstIn DEF WaitingParent
<1> HIDE DEF W
<1>12. c \notin W BY <1>8, <1>11
<1>13. W # {} <=> \E w \in W : proc[w].wait_status
  <2>1. ASSUME NEW w \in W PROVE proc[w].wait_status
    <3>1. w \in UserSlots /\ w \in Slots /\ w # c BY <1>11, <1>12 DEF UserSlots
    <3>2. P[w].state = "WAITING" BY <1>8, <1>11, <3>1
    <3>3. proc[w] = P[w] BY <1>0, <3>1, EnteredCalm DEF P, c
    <3> QED BY <3>1, <3>2, <3>3 DEF LifeHyp, AllPlain, Plain
  <2> QED BY <2>1
<1>14. \A s \in Slots \ {c} : Alike(proc[s], R[s])
  <2> SUFFICES ASSUME NEW s \in Slots, s # c PROVE Alike(proc[s], R[s]) OBVIOUS
  <2>1. CASE s \in W
    <3>1. Answers(P[s], R[s], Q[c]) BY <1>8, <1>10, <2>1
    <3> QED BY <1>1, <3>1 DEF Answers, Alike
  <2>2. CASE s \notin W BY <1>1, <1>8, <1>10, <2>2
  <2> QED BY <2>1, <2>2
<1>15. /\ R[c].state = "ZOMBIE" /\ R[c].pid = proc[c].pid /\ R[c].exit_code = code
       /\ R[c].reap_pending = (W # {})
  <2>1. Marked(Q[c], R[c]) /\ R[c].reap_pending = (Q[c].reap_pending \/ W # {})
    BY <1>0, <1>10, <1>12
  <2>2. Q[c].reap_pending = FALSE
    <3>1. Q[c].reap_pending \in BOOLEAN BY <1>0, <1>8 DEF Table, Slot
    <3> QED BY <1>4, <1>8, <3>1
  <2> QED BY <1>2, <1>8, <2>1, <2>2 DEF Marked
<1>16. \A s \in Slots : Resumed(R[s], proc'[s]) \/ (s = c /\ Freed(R[s], proc'[s]))
  BY <1>0, <1>5, <1>6, ScheduleResumes DEF c
<1>17. \A s \in Slots \ {c} : Alike(proc[s], proc'[s]) BY <1>14, <1>16, ResumedAlike
<1>18. CASE W = {}
  <2>1. Resumed(R[c], proc'[c]) BY <1>0, <1>15, <1>16, <1>18 DEF Freed
  <2>2. /\ proc'[c].state = "ZOMBIE" /\ proc'[c].pid = proc[c].pid
        /\ proc'[c].exit_code = code /\ ~proc'[c].reap_pending
    BY <1>15, <1>18, <2>1 DEF Resumed, SameTask, Up
  <2>3. delivered' = delivered BY <1>7, <1>18
  <2> QED BY <1>0, <1>7, <1>17, <2>2, <2>3, DieLife
<1>19. CASE W # {}
  <2>1. proc'[c] = ClearProcess
    BY <1>0, <1>5, <1>6, <1>15, <1>19, LeavesFreed DEF c
  <2>2. delivered' = Delivered(proc, c) BY <1>7, <1>13, <1>19
  <2> QED BY <1>0, <1>7, <1>17, <2>1, <2>2, DieLife
<1> QED BY <1>18, <1>19

LEMMA LifeInitially ==
  Init => /\ Rooted(proc) /\ AllPlain(proc, died, delivered) /\ Unhanded(delivered, next_pid)
          /\ Life!LifeInit
<1> SUFFICES ASSUME Init
             PROVE  /\ Rooted(proc) /\ AllPlain(proc, died, delivered)
                    /\ Unhanded(delivered, next_pid) /\ Life!LifeInit
  OBVIOUS
<1>1. /\ \A s \in UserSlots : proc[s] = ClearProcess
      /\ proc[Bootstrap].pid = 1 /\ proc[Bootstrap].is_thread = FALSE
  BY SlotZero DEF Init, UserSlots, ClearProcess
<1>2. Rooted(proc) BY <1>1 DEF Rooted
<1>3. AllPlain(proc, died, delivered) BY <1>1 DEF AllPlain, Plain, ClearProcess
<1>4. Unhanded(delivered, next_pid) BY DEF Init, Unhanded, Pids
<1>5. next_pid = 2 /\ MaxPid \in Nat /\ Family(proc, next_pid) /\ proc[Bootstrap].state \in Up
  BY ChildInit, ProcessAssumption DEF Init, ChildInv
<1>6. ASSUME NEW p \in 2 .. MaxPid
      PROVE  LifeIn(proc, next_pid, p) = "unborn" /\ VerdictIn(proc, died, p) = -1
             /\ delivered[p] = 0
  <2>1. Stage(proc, next_pid, p) = "unborn"
    <3>1. \A s \in UserSlots : ~Owner(proc, s, p) BY <1>1, ClearType DEF Owner
    <3> QED BY <1>5, <3>1 DEF Stage
  <2>2. p \in 1 .. MaxPid BY <1>5
  <2>3. died[p] = -1 /\ delivered[p] = 0 BY <2>2 DEF Init, NoStatus
  <2> QED BY <1>2, <1>3, <1>5, <2>1, <2>3, StageIs
<1>7. Life!LifeInit
  BY <1>6 DEF Life!LifeInit, Life!Unknown, Lives, Verdicts, Handovers
<1> QED BY <1>2, <1>3, <1>4, <1>7

LEMMA LifeNextStep == LifeHyp /\ ChildInv(proc', next_pid') /\ [Next]_vars => LifeStep
<1> SUFFICES ASSUME LifeHyp, ChildInv(proc', next_pid'), [Next]_vars PROVE LifeStep OBVIOUS
<1>0. /\ "kill" \notin Workload /\ "sleep" \notin Workload
      /\ "wakeup" \notin Workload /\ "thread" \notin Workload
  BY DEF LifeHyp, Unsignalled
<1>1. CASE SpawnProcess BY <1>1, SpawnLife
<1>2. CASE ForkCurrent BY <1>2, ForkLife
<1>3. /\ ~CreateUserThread /\ ~\E tid \in 1 .. MaxTid : JoinThread(tid)
      /\ ~\E t \in UserSlots, sig \in Signals : Signal(t, sig)
      /\ ~\E ch \in Channels : SleepOn(ch) \/ Wakeup(ch) \/ DeviceWakeup(ch)
  BY <1>0 DEF CreateUserThread, JoinThread, Signal, SleepOn, Wakeup, DeviceWakeup, Issues
<1>4. CASE ExecReplaceCurrent \/ OtherSyscall \/ Reissue BY <1>4, QuietLife
<1>5. CASE \E pid \in 0 .. MaxPid : WaitPid(pid)
  BY <1>5, CollectsLife, RefusesLife, BlocksLife DEF WaitPid
<1>6. CASE \E code \in ExitCodes : ExitCurrent(code)
  <2>1. PICK code \in ExitCodes : ExitCurrent(code) BY <1>6
  <2>2. code \in Nat /\ code \in DeathCodes BY ProcessAssumption DEF DeathCodes
  <2> QED BY <2>1, <2>2, ExitLife DEF ExitCurrent, Issues, InUser
<1>7. CASE FaultCurrent
  <2> DEFINE code == 128 + GeneralProtection
  <2>1. code \in Nat /\ code \in DeathCodes BY DEF GeneralProtection, DeathCodes
  <2>2. /\ Schedule(Died(Entered(proc), current, code), resched)
        /\ RecordDeath(proc, current, code)
    BY <1>7 DEF FaultCurrent
  <2>3. resched \in BOOLEAN BY LifeFacts DEF TypeOK
  <2> HIDE DEF code
  <2> QED BY <1>7, <2>1, <2>2, <2>3, ExitLife DEF FaultCurrent, Issues, InUser
<1>8. CASE \E z \in UserSlots : ReapPid(z) BY <1>8, ReapLife
<1>9. CASE Yield \/ TimerInterrupt BY <1>9, SwitchLife
<1>10. CASE UNCHANGED vars BY <1>10, LifeFacts, StutterLife DEF vars
<1> QED BY <1>1, <1>2, <1>3, <1>4, <1>5, <1>6, <1>7, <1>8, <1>9, <1>10 DEF Next

\* fork, exit, fault, exec and waitpid implement the abstract life of a process, for programs
\* without signals, channels and threads and with process_lock uncontended: a pid is given
\* out once, dies once with one code, and its slot is free once that code was handed over.
THEOREM LifeImplemented ==
  ~Contended /\ Workload \subseteq Unsignalled => (Spec => Life!LifeSpec)
<1> SUFFICES ASSUME ~Contended, Workload \subseteq Unsignalled PROVE Spec => Life!LifeSpec
  OBVIOUS
<1> DEFINE Inv == /\ SchedInv /\ CurrentRuns /\ ChildInv(proc, next_pid)
                  /\ AllSound(proc, died) /\ Unborn(died, next_pid)
                  /\ Rooted(proc) /\ AllPlain(proc, died, delivered)
                  /\ Unhanded(delivered, next_pid)
<1>1. "thread" \notin Workload BY DEF Unsignalled
<1>2. Init => Inv /\ Life!LifeInit BY SchedInit, ChildInit, ResultInit, LifeInitially
<1>3. Inv /\ [Next]_vars => Inv' /\ [Life!LifeNext]_(Life!lifeVars)
  <2> SUFFICES ASSUME Inv, [Next]_vars PROVE Inv' /\ [Life!LifeNext]_(Life!lifeVars) OBVIOUS
  <2>1. LifeHyp BY <1>1 DEF LifeHyp, ResultHyp, ChildHyp
  <2>2. SchedInv' /\ CurrentRuns' BY SchedNext DEF Stays
  <2>3. ChildInv(proc', next_pid') BY ChildNext DEF ChildHyp
  <2>4. Told BY <2>1, ResultNext DEF LifeHyp
  <2>5. LifeStep BY <2>1, <2>3, LifeNextStep
  <2> QED BY <2>2, <2>3, <2>4, <2>5 DEF Told, LifeStep, LifeKept
<1> QED BY <1>2, <1>3, PTL DEF Spec, Life!LifeSpec

-----------------------------------------------------------------------------
(***************************************************************************)
(* Joins.  Who sleeps in a join belongs to a thread that has not exited,   *)
(* of its own group and with the tid it named.  Threads have tids of their *)
(* own and a group has one process, so that the exit of a thread finds its *)
(* joiner and nobody else.  (A forked child is of its parent's group, and  *)
(* its death wakes a parent from a join: this is about programs that       *)
(* neither fork nor kill.)                                                 *)
(***************************************************************************)
JoinSlot(p, n) ==
  /\ p.state # "STOPPED"
  /\ p.is_thread => p.state # "UNUSED" /\ p.tid \in 1 .. n - 1
  /\ p.state # "UNUSED" /\ ~p.is_thread => p.parent_pid = 1 /\ p.thread_group_pid = p.pid
  /\ p.rewound => p.call = "sleep"
  /\ p.state \in Up => /\ p.join_tid = 0 /\ p.wait_channel = NoChannel
                       /\ p.call = "join" => p.eax \in {SysErr, p.arg}
  /\ p.state = "WAITING" =>
       \/ p.join_tid = 0 /\ p.call # "join"
       \/ /\ p.join_tid # 0 /\ p.join_tid = p.arg
          /\ p.call = "join" /\ ~p.is_thread /\ p.wait_channel = NoChannel

Alive(p, tid, group) ==
  p.is_thread /\ p.state # "ZOMBIE" /\ p.tid = tid /\ p.thread_group_pid = group

Sleeper(p) == p.state = "WAITING" /\ p.join_tid # 0

JoinPairs(P) ==
  /\ \A s, t \in UserSlots : P[s].is_thread /\ P[t].is_thread /\ P[s].tid = P[t].tid => s = t
  /\ \A s \in UserSlots :
       Sleeper(P[s]) =>
         \E t \in UserSlots : Alive(P[t], P[s].join_tid, P[s].thread_group_pid)

JoinInv(P, n) ==
  /\ n \in Nat \ {0}
  /\ \A s \in UserSlots : JoinSlot(P[s], n)
  /\ JoinPairs(P) /\ Rooted(P)

\* A step of a slot after which no joiner waits in vain.
JoinKept(p, q) ==
  /\ q.is_thread => /\ p.is_thread /\ q.tid = p.tid /\ q.thread_group_pid = p.thread_group_pid
                    /\ q.state = "ZOMBIE" => p.state = "ZOMBIE"
  /\ p.is_thread /\ ~q.is_thread => p.state = "ZOMBIE"
  /\ Sleeper(q) => /\ Sleeper(p) /\ q.join_tid = p.join_tid
                   /\ q.thread_group_pid = p.thread_group_pid

LEMMA PairsKept ==
  ASSUME NEW P, NEW Q, JoinPairs(P), \A s \in UserSlots : JoinKept(P[s], Q[s])
  PROVE  JoinPairs(Q)
<1>1. ASSUME NEW s \in UserSlots, Sleeper(Q[s])
      PROVE  \E t \in UserSlots : Alive(Q[t], Q[s].join_tid, Q[s].thread_group_pid)
  <2>1. Sleeper(P[s]) /\ Q[s].join_tid = P[s].join_tid
        /\ Q[s].thread_group_pid = P[s].thread_group_pid
    BY <1>1 DEF JoinKept
  <2>2. PICK t \in UserSlots : Alive(P[t], P[s].join_tid, P[s].thread_group_pid)
    BY <2>1 DEF JoinPairs
  <2>3. Alive(Q[t], P[s].join_tid, P[s].thread_group_pid) BY <2>2 DEF Alive, JoinKept
  <2> QED BY <2>1, <2>3
<1>2. ASSUME NEW s \in UserSlots, NEW t \in UserSlots,
             Q[s].is_thread, Q[t].is_thread, Q[s].tid = Q[t].tid
      PROVE  s = t
  <2>1. P[s].is_thread /\ P[t].is_thread /\ P[s].tid = P[t].tid BY <1>2 DEF JoinKept
  <2> QED BY <2>1 DEF JoinPairs
<1> QED BY <1>1, <1>2 DEF JoinPairs

LEMMA JoinClear == \A n : JoinSlot(ClearProcess, n)
BY DEF JoinSlot, ClearProcess, Up

LEMMA FreedJoin ==
  ASSUME NEW p, p.state = "ZOMBIE" PROVE JoinKept(p, ClearProcess)
BY DEF JoinKept, Sleeper, ClearProcess

LEMMA ResumedJoin ==
  ASSUME NEW p, NEW q, NEW n, JoinSlot(p, n), Resumed(p, q)
  PROVE  JoinSlot(q, n) /\ JoinKept(p, q)
<1>1. SameTask(p, q) BY DEF Resumed
<1>2. CASE q.state = p.state
  BY <1>1, <1>2 DEF JoinSlot, JoinKept, Sleeper, SameTask
<1>3. CASE q.state \in Up /\ p.state \in Up
  <2>1. q.state \notin {"STOPPED", "UNUSED", "WAITING", "ZOMBIE"} BY <1>3 DEF Up
  <2>2. p.state \notin {"STOPPED", "UNUSED", "WAITING", "ZOMBIE"} BY <1>3 DEF Up
  <2> QED BY <1>1, <1>3, <2>1, <2>2 DEF JoinSlot, JoinKept, Sleeper, SameTask
<1> QED BY <1>2, <1>3 DEF Resumed

JoinHyp ==
  /\ ChildHyp /\ ~Contended /\ "fork" \notin Workload /\ "kill" \notin Workload
  /\ JoinInv(proc, next_tid)

Joined == JoinInv(proc', next_tid')

LEMMA JoinFacts ==
  ASSUME JoinHyp
  PROVE  /\ TypeOK /\ proc \in Table /\ current \in Slots /\ proc[current] \in Slot
         /\ proc[current].state = "RUNNING" /\ next_tid \in Nat /\ ~Contended
         /\ Family(proc, next_pid) /\ proc[Bootstrap].state \in Up
         /\ JoinInv(proc, next_tid)
BY ChildFacts DEF JoinHyp, ChildInv, TypeOK

LEMMA ScheduleJoin ==
  ASSUME JoinHyp, NEW P \in Table, NEW flag \in BOOLEAN, Schedule(P, flag),
         P[Bootstrap].state \in Up, NEW n, JoinInv(P, n)
  PROVE  JoinInv(proc', n)
<1>1. ASSUME NEW s \in UserSlots
      PROVE  JoinSlot(proc'[s], n) /\ JoinKept(P[s], proc'[s])
  <2>1. s \in Slots /\ JoinSlot(P[s], n) BY DEF UserSlots, JoinInv
  <2>2. CASE Resumed(P[s], proc'[s]) BY <2>1, <2>2, ResumedJoin
  <2>3. CASE Freed(P[s], proc'[s]) BY <2>3, JoinClear, FreedJoin DEF Freed
  <2> QED BY <2>1, <2>2, <2>3, JoinFacts, ScheduleResumes
<1>2. Rooted(proc')
  <2>1. P[Bootstrap].state # "ZOMBIE" BY DEF Up
  <2>2. Resumed(P[Bootstrap], proc'[Bootstrap])
    BY <2>1, JoinFacts, ScheduleResumes, SlotZero DEF Freed
  <2> QED BY <2>2 DEF Resumed, SameTask, JoinInv, Rooted
<1>3. JoinPairs(proc') BY <1>1, PairsKept DEF JoinInv
<1> QED BY <1>1, <1>2, <1>3 DEF JoinInv

\* A dead slot is freed.
LEMMA ReapJoin ==
  ASSUME NEW P \in Table, NEW n, JoinInv(P, n), NEW z \in UserSlots
  PROVE  JoinInv(ReapProcess(P, z), n)
<1> DEFINE Q == ReapProcess(P, z)
<1>1. CASE P[z].state = "ZOMBIE"
  <2>1. z \in Slots /\ z # Bootstrap BY DEF UserSlots
  <2>2. Q[z] = ClearProcess /\ \A s \in Slots \ {z} : Q[s] = P[s]
    BY <1>1, <2>1 DEF ReapProcess, Table
  <2> HIDE DEF Q
  <2>3. ASSUME NEW s \in UserSlots PROVE JoinSlot(Q[s], n) /\ JoinKept(P[s], Q[s])
    <3>1. CASE s = z BY <1>1, <2>2, <3>1, JoinClear, FreedJoin
    <3>2. CASE s # z
      <4>1. Q[s] = P[s] BY <2>2, <3>2 DEF UserSlots
      <4> QED BY <4>1 DEF JoinInv, JoinKept
    <3> QED BY <3>1, <3>2
  <2>4. Rooted(Q) BY <2>1, <2>2, SlotZero DEF JoinInv, Rooted
  <2>5. JoinPairs(Q) BY <2>3, PairsKept DEF JoinInv
  <2> QED BY <2>3, <2>4, <2>5 DEF JoinInv, Q
<1>2. CASE P[z].state # "ZOMBIE" BY <1>2 DEF ReapProcess
<1> QED BY <1>1, <1>2

\* The running program's slot changes, and no other: the task is the same, it sleeps in no
\* join, and if it has died it was a process.
SameTids(p, q) ==
  /\ q.is_thread = p.is_thread /\ q.pid = p.pid /\ q.parent_pid = p.parent_pid
  /\ q.tid = p.tid /\ q.thread_group_pid = p.thread_group_pid

LEMMA CallerJoin ==
  ASSUME JoinHyp, NEW Q, \A s \in Slots \ {current} : Q[s] = proc[s],
         SameTids(proc[current], Q[current]), ~Sleeper(Q[current]),
         Q[current].is_thread => Q[current].state # "ZOMBIE",
         current # Bootstrap => JoinSlot(Q[current], next_tid)
  PROVE  JoinInv(Q, next_tid)
<1>0. JoinInv(proc, next_tid) BY JoinFacts
<1>1. ASSUME NEW s \in UserSlots PROVE JoinSlot(Q[s], next_tid) /\ JoinKept(proc[s], Q[s])
  <2>1. CASE s = current BY <2>1 DEF JoinKept, SameTids, UserSlots
  <2>2. CASE s # current
    <3>1. Q[s] = proc[s] BY <2>2 DEF UserSlots
    <3> QED BY <1>0, <3>1 DEF JoinInv, JoinKept
  <2> QED BY <2>1, <2>2
<1>2. JoinPairs(Q) BY <1>0, <1>1, PairsKept DEF JoinInv
<1>3. Rooted(Q) BY <1>0, SlotZero DEF JoinInv, Rooted, SameTids
<1> QED BY <1>0, <1>1, <1>2, <1>3 DEF JoinInv

\* A program in a call: the slot as it was, but for what the call writes.
InCall(q) ==
  /\ SameTids(proc[current], q) /\ q.state = "RUNNING" /\ ~q.rewound
  /\ q.join_tid = 0 /\ q.wait_channel = NoChannel

LEMMA EnteredJoin ==
  ASSUME JoinHyp, InUser
  PROVE  /\ Entered(proc) \in Table
         /\ \A s \in Slots \ {current} : Entered(proc)[s] = proc[s]
         /\ current \in UserSlots
         /\ Entered(proc)[Bootstrap].state \in Up
         /\ InCall(Entered(proc)[current]) /\ Entered(proc)[current].call = "none"
<1>0. /\ TypeOK /\ current \in UserSlots /\ proc \in Table /\ current \in Slots
      /\ proc[current] \in Slot /\ proc[current].state = "RUNNING" /\ ~proc[current].rewound
  BY JoinFacts DEF InUser, UserSlots
<1>1. JoinSlot(proc[current], next_tid) BY <1>0, JoinFacts DEF JoinInv
<1>2. proc[current].join_tid = 0 /\ proc[current].wait_channel = NoChannel
  BY <1>0, <1>1 DEF JoinSlot, Up
<1> DEFINE q == Entered(proc)[current]
<1>3. /\ q.state = "RUNNING" /\ q.is_thread = proc[current].is_thread
      /\ q.pid = proc[current].pid /\ q.parent_pid = proc[current].parent_pid
      /\ q.join_tid = 0 /\ q.wait_channel = NoChannel /\ q.call = "none"
  BY <1>0, <1>2, EnteredCalm
<1>4. /\ q.tid = proc[current].tid /\ q.thread_group_pid = proc[current].thread_group_pid
      /\ q.rewound = proc[current].rewound
  BY <1>0 DEF Entered, Table, Slot
<1> HIDE DEF q
<1>5. InCall(q) BY <1>0, <1>3, <1>4 DEF InCall, SameTids
<1>6. Entered(proc)[Bootstrap].state \in Up
  BY <1>0, EnteredCalm, JoinFacts, SlotZero DEF UserSlots
<1> QED BY <1>0, <1>3, <1>5, <1>6, EnteredCalm DEF q

\* A call that returns, sleeps on a channel or waits for a child.
LEMMA InCallJoin ==
  ASSUME JoinHyp, InUser, NEW q, InCall(q), q.call = "join" => q.eax \in {SysErr, q.arg}
  PROVE  JoinSlot(q, next_tid) /\ ~Sleeper(q)
<1>1. current \in UserSlots BY EnteredJoin
<1>2. JoinSlot(proc[current], next_tid) BY <1>1, JoinFacts DEF JoinInv
<1>3. proc[current].state = "RUNNING" BY JoinFacts
<1> QED BY <1>2, <1>3 DEF InCall, SameTids, JoinSlot, Sleeper, Up

LEMMA ReturnsJoin ==
  ASSUME JoinHyp, InUser, NEW Q, \A s \in Slots \ {current} : Q[s] = proc[s],
         InCall(Q[current]), Q[current].call = "join" => Q[current].eax \in {SysErr, Q[current].arg}
  PROVE  JoinInv(Q, next_tid)
<1>1. JoinSlot(Q[current], next_tid) /\ ~Sleeper(Q[current]) BY InCallJoin
<1>2. SameTids(proc[current], Q[current]) /\ Q[current].state = "RUNNING" BY DEF InCall
<1> QED BY <1>1, <1>2, CallerJoin

LEMMA BlocksJoin ==
  ASSUME JoinHyp, InUser, NEW Q, \A s \in Slots \ {current} : Q[s] = proc[s],
         SameTids(proc[current], Q[current]), Q[current].state = "WAITING",
         Q[current].join_tid = 0, Q[current].call # "join",
         Q[current].rewound => Q[current].call = "sleep"
  PROVE  JoinInv(Q, next_tid)
<1>1. current \in UserSlots BY EnteredJoin
<1>2. JoinSlot(proc[current], next_tid) BY <1>1, JoinFacts DEF JoinInv
<1>3. proc[current].state = "RUNNING" BY JoinFacts
<1>4. JoinSlot(Q[current], next_tid) /\ ~Sleeper(Q[current])
  BY <1>2, <1>3 DEF SameTids, JoinSlot, Sleeper, Up
<1> QED BY <1>4, CallerJoin

CalledWith(Q, c, n) ==
  /\ \A s \in Slots \ {current} : Q[s] = proc[s]
  /\ InCall(Q[current]) /\ Q[current].arg = n /\ Q[current].call = c
  /\ Q[Bootstrap].state \in Up

LEMMA CallJoin ==
  ASSUME JoinHyp, InUser, NEW n \in Nat
  PROVE  CalledWith(Waits(proc, n), "waitpid", n) /\ CalledWith(Joins(proc, n), "join", n)
<1> DEFINE E == Entered(proc)
           Rec(c) == [E[current] EXCEPT !.call = c, !.arg = n]
           Tab(c) == [E EXCEPT ![current] = Rec(c)]
<1>1. /\ E \in Table /\ \A s \in Slots \ {current} : E[s] = proc[s]
      /\ current \in UserSlots /\ current \in Slots /\ E[Bootstrap].state \in Up
      /\ InCall(E[current])
  BY EnteredJoin, JoinFacts
<1>2. Waits(proc, n) = Tab("waitpid") BY <1>1 DEF Waits, Table
<1>3. Joins(proc, n) = Tab("join") BY <1>1 DEF Joins, Table
<1> HIDE DEF E
<1>4. ASSUME NEW c PROVE CalledWith(Tab(c), c, n)
  <2> DEFINE r == Rec(c)
             R == Tab(c)
  <2>1. E[current] \in Slot BY <1>1 DEF Table
  <2>2. InCall(r) /\ r.arg = n /\ r.call = c BY <1>1, <2>1 DEF InCall, SameTids, Slot
  <2> HIDE DEF r
  <2>3. R = [E EXCEPT ![current] = r] BY DEF r
  <2> HIDE DEF R
  <2>4. R[current] = r /\ \A s \in Slots \ {current} : R[s] = E[s] BY <1>1, <2>3 DEF Table
  <2>5. CalledWith(R, c, n) BY <1>1, <2>2, <2>4, SlotZero DEF CalledWith, UserSlots
  <2> QED BY <2>5 DEF R
<1> HIDE DEF Tab
<1> QED BY <1>2, <1>3, <1>4

\* A slot in use that was free: a process of its own group, or a thread with the next tid.
LEMMA AddJoin ==
  ASSUME NEW P, NEW n \in Nat, NEW m \in Nat, n <= m, JoinInv(P, n),
         NEW f \in UserSlots, P[f].state = "UNUSED",
         NEW Q, \A s \in Slots \ {f} : Q[s] = P[s], JoinSlot(Q[f], m), ~Sleeper(Q[f]),
         Q[f].is_thread => Q[f].tid = n
  PROVE  JoinInv(Q, m)
<1>0. /\ f \in Slots /\ f # Bootstrap /\ ~P[f].is_thread
      /\ \A s \in UserSlots : s # f => Q[s] = P[s]
  BY DEF UserSlots, JoinInv, JoinSlot
<1>1. ASSUME NEW s \in UserSlots PROVE JoinSlot(Q[s], m)
  <2>1. CASE s = f BY <2>1
  <2>2. CASE s # f
    <3>1. Q[s] = P[s] /\ JoinSlot(P[s], n) BY <1>0, <2>2 DEF JoinInv
    <3>2. \A t \in 1 .. n - 1 : t \in 1 .. m - 1 OBVIOUS
    <3> QED BY <3>1, <3>2 DEF JoinSlot
  <2> QED BY <2>1, <2>2
<1>2. ASSUME NEW s \in UserSlots, NEW t \in UserSlots,
             Q[s].is_thread, Q[t].is_thread, Q[s].tid = Q[t].tid
      PROVE  s = t
  <2>1. \A u \in UserSlots : u # f /\ Q[u].is_thread => Q[u].tid < n /\ P[u].is_thread /\ Q[u].tid = P[u].tid
    BY <1>0 DEF JoinInv, JoinSlot
  <2>2. CASE s = f /\ t # f BY <1>2, <2>1, <2>2
  <2>3. CASE s # f /\ t = f BY <1>2, <2>1, <2>3
  <2>4. CASE s # f /\ t # f
    <3>1. P[s].is_thread /\ P[t].is_thread /\ P[s].tid = P[t].tid BY <1>2, <2>1, <2>4
    <3> QED BY <3>1 DEF JoinInv, JoinPairs
  <2> QED BY <2>2, <2>3, <2>4
<1>3. ASSUME NEW s \in UserSlots, Sleeper(Q[s])
      PROVE  \E t \in UserSlots : Alive(Q[t], Q[s].join_tid, Q[s].thread_group_pid)
  <2>1. s # f /\ Q[s] = P[s] BY <1>0, <1>3
  <2>2. PICK t \in UserSlots : Alive(P[t], P[s].join_tid, P[s].thread_group_pid)
    BY <1>3, <2>1 DEF JoinInv, JoinPairs
  <2>3. t # f BY <1>0, <2>2 DEF Alive
  <2>4. Q[t] = P[t] BY <1>0, <2>3
  <2> QED BY <2>1, <2>2, <2>4
<1>4. Rooted(Q) BY <1>0, SlotZero DEF JoinInv, Rooted
<1> QED BY <1>1, <1>2, <1>3, <1>4 DEF JoinInv, JoinPairs

LEMMA SpawnJoin == ASSUME JoinHyp, SpawnProcess PROVE Joined
<1> DEFINE r == NewProcess(next_pid, proc[current].pid, next_pid, next_tid, PriorityDefault)
<1>1. PICK s \in FindFreeSlot(proc) : proc' = [proc EXCEPT ![s] = r]
  BY DEF SpawnProcess, ReturnWith
<1>2. /\ r.state = "READY" /\ ~r.is_thread /\ r.parent_pid = proc[current].pid
      /\ r.thread_group_pid = next_pid /\ r.pid = next_pid /\ ~r.rewound
      /\ r.join_tid = 0 /\ r.wait_channel = NoChannel /\ r.call = "none"
  BY DEF NewProcess, ClearProcess
<1> HIDE DEF r
<1>3. s \in Slots /\ proc[s].state = "UNUSED" BY FreeSlot
<1>4. s \in UserSlots BY <1>3, JoinFacts DEF UserSlots, Up
<1>5. proc'[s] = r /\ \A t \in Slots \ {s} : proc'[t] = proc[t]
  BY <1>1, <1>3, JoinFacts DEF Table
<1>6. r.parent_pid = 1 BY <1>2, JoinFacts DEF SpawnProcess, JoinInv, Rooted
<1>7. next_tid' = next_tid + 1 BY DEF SpawnProcess
<1>8. JoinSlot(r, next_tid') /\ ~Sleeper(r) BY <1>2, <1>6 DEF JoinSlot, Sleeper, Up
<1> QED BY <1>2, <1>3, <1>4, <1>5, <1>7, <1>8, JoinFacts, AddJoin DEF Joined

LEMMA ThreadJoin == ASSUME JoinHyp, CreateUserThread PROVE Joined
<1> DEFINE p == proc[current]
           t == NewProcess(0, 0, p.thread_group_pid, next_tid, p.priority)
           r == [t EXCEPT !.is_thread = TRUE]
           P == Entered(proc)
           Q == [P EXCEPT ![current].eax = next_tid]
<1>0. InUser /\ next_tid' = next_tid + 1 BY DEF CreateUserThread, Issues
<1>1. PICK s \in FindFreeSlot(proc) : proc' = [P EXCEPT ![s] = r, ![current].eax = next_tid]
  BY DEF CreateUserThread, ReturnWith
<1>2. /\ r.state = "READY" /\ r.is_thread /\ r.tid = next_tid /\ ~r.rewound
      /\ r.join_tid = 0 /\ r.wait_channel = NoChannel /\ r.call = "none"
  BY DEF NewProcess, ClearProcess
<1>3. s \in Slots /\ proc[s].state = "UNUSED" /\ s # current /\ current \in Slots
  BY FreeSlot, JoinFacts
<1>4. /\ P \in Table /\ \A u \in Slots \ {current} : P[u] = proc[u]
      /\ InCall(P[current]) /\ P[current].call = "none"
  BY <1>0, EnteredJoin
<1> HIDE DEF r, P
<1>5. proc' = [Q EXCEPT ![s] = r] BY <1>1, <1>3, <1>4 DEF Table
<1>6. /\ \A u \in Slots \ {current} : Q[u] = P[u]
      /\ InCall(Q[current]) /\ Q[current].call = "none"
  <2> DEFINE q == [P[current] EXCEPT !.eax = next_tid]
  <2>1. P[current] \in Slot BY <1>3, <1>4 DEF Table
  <2>2. InCall(q) /\ q.call = "none" BY <1>4, <2>1 DEF InCall, SameTids, Slot
  <2>3. Q = [P EXCEPT ![current] = q] OBVIOUS
  <2> HIDE DEF q, Q
  <2>4. Q[current] = q /\ \A u \in Slots \ {current} : Q[u] = P[u] BY <1>3, <1>4, <2>3 DEF Table
  <2> QED BY <2>2, <2>4
<1>7. \A u \in Slots : proc'[u] = IF u = s THEN r ELSE Q[u] BY <1>3, <1>4, <1>5 DEF Table
<1> HIDE DEF Q
<1>8. JoinInv(Q, next_tid) BY <1>0, <1>4, <1>6, ReturnsJoin
<1>9. s \in UserSlots BY <1>3, JoinFacts DEF UserSlots, Up
<1>10. Q[s].state = "UNUSED" BY <1>3, <1>4, <1>6
<1>11. next_tid \in Nat \ {0} BY JoinFacts DEF JoinInv
<1>12. JoinSlot(r, next_tid') /\ ~Sleeper(r)
  BY <1>0, <1>2, <1>11, JoinFacts DEF JoinSlot, Sleeper, Up
<1> QED BY <1>0, <1>2, <1>3, <1>7, <1>8, <1>9, <1>10, <1>12, JoinFacts, AddJoin DEF Joined

LEMMA QuietJoin ==
  ASSUME JoinHyp, ExecReplaceCurrent \/ OtherSyscall \/ Reissue PROVE Joined
<1> DEFINE P == Entered(proc)
<1>0. current \in Slots /\ proc \in Table /\ proc[current] \in Slot /\ UNCHANGED next_tid
  BY JoinFacts DEF ExecReplaceCurrent, OtherSyscall, Reissue
<1>1. CASE ExecReplaceCurrent
  <2> DEFINE r == [P[current] EXCEPT !.exit_code = 0, !.wait_pid = 0,
                                     !.wait_status = FALSE, !.reap_pending = FALSE]
  <2>1. InUser BY <1>1 DEF ExecReplaceCurrent, Issues
  <2>2. /\ P \in Table /\ \A s \in Slots \ {current} : P[s] = proc[s]
        /\ InCall(P[current]) /\ P[current].call = "none"
    BY <2>1, EnteredJoin
  <2>3. proc' = [P EXCEPT ![current] = r]
    BY <1>0, <1>1, <2>2 DEF ExecReplaceCurrent, ReturnWith, Table
  <2> HIDE DEF P
  <2>4. P[current] \in Slot BY <1>0, <2>2 DEF Table
  <2>5. InCall(r) /\ r.call = "none" BY <2>2, <2>4 DEF InCall, SameTids, Slot
  <2> HIDE DEF r
  <2>6. proc'[current] = r /\ \A s \in Slots \ {current} : proc'[s] = P[s]
    BY <1>0, <2>2, <2>3 DEF Table
  <2>7. JoinInv(proc', next_tid) BY <2>1, <2>2, <2>5, <2>6, ReturnsJoin
  <2> QED BY <1>0, <2>7 DEF Joined
<1>2. CASE OtherSyscall
  <2>1. InUser /\ proc' = P BY <1>2 DEF OtherSyscall, Issues, ReturnWith
  <2>2. JoinInv(P, next_tid) BY <2>1, EnteredJoin, ReturnsJoin
  <2> QED BY <1>0, <2>1, <2>2 DEF Joined
<1>3. CASE Reissue
  <2> DEFINE v == IF proc[current].eax = Blocked THEN SysErr ELSE 0
             r == [proc[current] EXCEPT !.rewound = FALSE, !.eax = v]
  <2>1. current \in UserSlots /\ proc[current].rewound BY <1>0, <1>3 DEF Reissue, UserSlots
  <2>2. JoinSlot(proc[current], next_tid) /\ proc[current].state = "RUNNING"
    BY <2>1, JoinFacts DEF JoinInv
  <2>3. proc' = [proc EXCEPT ![current] = r] BY <1>0, <1>3 DEF Reissue, ReturnWith, Table
  <2> HIDE DEF v
  <2>4. /\ SameTids(proc[current], r) /\ r.state = "RUNNING" /\ ~r.rewound
        /\ r.join_tid = proc[current].join_tid /\ r.wait_channel = proc[current].wait_channel
        /\ r.call = proc[current].call
    BY <1>0, <2>2 DEF SameTids, Slot
  <2> HIDE DEF r
  <2>5. proc'[current] = r /\ \A s \in Slots \ {current} : proc'[s] = proc[s]
    BY <1>0, <2>3 DEF Table
  <2>6. r.call = "sleep" BY <2>1, <2>2, <2>4 DEF JoinSlot
  <2>7. JoinSlot(r, next_tid) /\ ~Sleeper(r)
    BY <2>2, <2>4, <2>6 DEF JoinSlot, SameTids, Sleeper, Up
  <2>8. JoinInv(proc', next_tid) BY <2>4, <2>5, <2>7, CallerJoin
  <2> QED BY <1>0, <2>8 DEF Joined
<1> QED BY <1>1, <1>2, <1>3

LEMMA ReapPidJoin == ASSUME JoinHyp, NEW z \in UserSlots, ReapPid(z) PROVE Joined
BY JoinFacts, ReapJoin DEF ReapPid, ReturnWith, Joined

\* A sleeper on a channel goes on: it is in no join.
LEMMA WokenJoin ==
  ASSUME JoinHyp, NEW P \in Table, JoinInv(P, next_tid), NEW ch \in Channels
  PROVE  JoinInv(Woken(P, ch), next_tid)
<1> DEFINE Q == Woken(P, ch)
           Risen(s) == [P[s] EXCEPT !.wait_channel = NoChannel, !.state = "READY"]
           Rises(s) == s # Bootstrap /\ P[s].state = "WAITING" /\ P[s].wait_channel = ch
<1>1. \A s \in Slots : Q[s] = IF Rises(s) THEN Risen(s) ELSE P[s] BY DEF Woken
<1>2. ASSUME NEW s \in Slots
      PROVE  /\ Risen(s).state = "READY" /\ SameTids(P[s], Risen(s))
             /\ Risen(s).wait_channel = NoChannel /\ Risen(s).join_tid = P[s].join_tid
             /\ Risen(s).call = P[s].call /\ Risen(s).rewound = P[s].rewound
  <2>1. P[s] \in Slot BY DEF Table
  <2> QED BY <2>1 DEF Slot, SameTids
<1>3. ch # NoChannel BY ProcessAssumption
<1> HIDE DEF Q, Risen
<1>4. ASSUME NEW s \in UserSlots PROVE JoinSlot(Q[s], next_tid) /\ JoinKept(P[s], Q[s])
  <2>0. s \in Slots /\ JoinSlot(P[s], next_tid) BY DEF UserSlots, JoinInv
  <2>1. CASE Rises(s)
    <3>1. Q[s] = Risen(s) BY <1>1, <2>0, <2>1
    <3>2. P[s].join_tid = 0 /\ P[s].call # "join" BY <1>3, <2>0, <2>1 DEF JoinSlot
    <3>3. JoinSlot(Risen(s), next_tid)
      BY <1>2, <2>0, <2>1, <3>2 DEF JoinSlot, SameTids, Up
    <3>4. JoinKept(P[s], Risen(s)) BY <1>2, <2>0 DEF JoinKept, SameTids, Sleeper
    <3> QED BY <3>1, <3>3, <3>4
  <2>2. CASE ~Rises(s)
    <3>1. Q[s] = P[s] BY <1>1, <2>0, <2>2
    <3> QED BY <2>0, <3>1 DEF JoinKept
  <2> QED BY <2>1, <2>2
<1>5. Rooted(Q) BY <1>1, SlotZero DEF JoinInv, Rooted
<1>6. JoinPairs(Q) BY <1>4, PairsKept DEF JoinInv
<1> QED BY <1>4, <1>5, <1>6 DEF JoinInv, Q

LEMMA WakeupJoin ==
  ASSUME JoinHyp, NEW ch \in Channels, Wakeup(ch) \/ DeviceWakeup(ch) PROVE Joined
<1>1. UNCHANGED next_tid BY DEF Wakeup, DeviceWakeup
<1>2. CASE Wakeup(ch)
  <2>1. InUser /\ proc' = Woken(Entered(proc), ch) BY <1>2 DEF Wakeup, Issues, ReturnWith
  <2>2. Entered(proc) \in Table /\ JoinInv(Entered(proc), next_tid)
    BY <2>1, EnteredJoin, ReturnsJoin
  <2> QED BY <1>1, <2>1, <2>2, WokenJoin DEF Joined
<1>3. CASE DeviceWakeup(ch)
  BY <1>1, <1>3, JoinFacts, WokenJoin DEF DeviceWakeup, ReturnWith, Joined
<1> QED BY <1>2, <1>3

LEMMA SwitchJoin == ASSUME JoinHyp, Yield \/ TimerInterrupt PROVE Joined
<1>1. UNCHANGED next_tid BY DEF Yield, TimerInterrupt
<1>2. CASE Yield
  <2>1. InUser /\ Schedule(Entered(proc), TRUE) BY <1>2 DEF Yield, Issues
  <2>2. /\ Entered(proc) \in Table /\ Entered(proc)[Bootstrap].state \in Up
        /\ JoinInv(Entered(proc), next_tid)
    BY <2>1, EnteredJoin, ReturnsJoin
  <2> QED BY <1>1, <2>1, <2>2, ScheduleJoin DEF Joined
<1>3. CASE TimerInterrupt
  <2>1. PICK P \in Polled : Schedule(P, resched) BY <1>3 DEF TimerInterrupt
  <2>2. P \in Table /\ Calm(proc, P) BY PolledTable DEF JoinHyp, ChildHyp
  <2>3. P[Bootstrap].state \in Up BY <2>2, JoinFacts DEF Calm, KeepsBoot
  <2>4. resched \in BOOLEAN BY JoinFacts DEF TypeOK
  <2>5. JoinInv(P, next_tid)
    <3>1. CASE P = proc BY <3>1, JoinFacts
    <3>2. CASE P # proc
      <4>1. PICK ch \in Channels : P = Woken(proc, ch) BY <3>2 DEF Polled
      <4> QED BY <4>1, JoinFacts, WokenJoin
    <3> QED BY <3>1, <3>2
  <2> QED BY <1>1, <2>1, <2>2, <2>3, <2>4, <2>5, ScheduleJoin DEF Joined
<1> QED BY <1>2, <1>3

LEMMA SleepJoin == ASSUME JoinHyp, NEW ch \in Channels, SleepOn(ch) PROVE Joined
<1> DEFINE P == Entered(proc)
           Q == Slept(ch)
           r == [P[current] EXCEPT !.call = "sleep", !.eax = Blocked, !.rewound = TRUE,
                                   !.wait_channel = ch, !.state = "WAITING"]
<1>0. InUser /\ Schedule(Q, TRUE) /\ UNCHANGED next_tid BY DEF SleepOn, Issues
<1>1. /\ P \in Table /\ \A s \in Slots \ {current} : P[s] = proc[s]
      /\ InCall(P[current]) /\ current \in UserSlots /\ current \in Slots /\ TypeOK
      /\ P[Bootstrap].state \in Up
  BY <1>0, EnteredJoin, JoinFacts
<1>2. Q \in Table BY <1>1, LegalSlept, JoinFacts DEF Legal, UserSlots
<1>3. Q = [P EXCEPT ![current] = r] BY <1>1 DEF Slept, Table
<1> HIDE DEF P, Q
<1>4. /\ SameTids(proc[current], r) /\ r.state = "WAITING" /\ r.join_tid = 0 /\ r.call = "sleep"
  BY <1>1 DEF Table, Slot, InCall, SameTids
<1> HIDE DEF r
<1>5. Q[current] = r /\ \A s \in Slots \ {current} : Q[s] = P[s] BY <1>1, <1>3 DEF Table
<1>6. JoinInv(Q, next_tid) BY <1>0, <1>1, <1>4, <1>5, BlocksJoin
<1>7. Q[Bootstrap].state \in Up BY <1>1, <1>5, SlotZero DEF UserSlots
<1> QED BY <1>0, <1>2, <1>6, <1>7, ScheduleJoin DEF Joined, Q

\* A call that gives eax, or eax and the status, a value; then another slot may be freed.
GivesEax(W, v) == [W EXCEPT ![current].eax = v]
GivesBoth(W, v, w) == [W EXCEPT ![current].eax = v, ![current].status = w]

LEMMA AnswerJoin ==
  ASSUME JoinHyp, InUser, NEW c, NEW n \in Nat, NEW W \in Table, CalledWith(W, c, n),
         NEW v \in Int, NEW w \in Int, c = "join" => v \in {SysErr, n}
  PROVE  /\ JoinInv(GivesEax(W, v), next_tid)
         /\ \A z \in UserSlots : JoinInv(ReapProcess(GivesBoth(W, v, w), z), next_tid)
<1> DEFINE q == [W[current] EXCEPT !.eax = v]
           r == [W[current] EXCEPT !.eax = v, !.status = w]
           Q == [W EXCEPT ![current] = q]
           R == [W EXCEPT ![current] = r]
<1>0. current \in Slots /\ W[current] \in Slot BY JoinFacts DEF Table
<1>1. /\ \A s \in Slots \ {current} : W[s] = proc[s]
      /\ InCall(W[current]) /\ W[current].arg = n /\ W[current].call = c
  BY DEF CalledWith
<1>2. /\ InCall(q) /\ q.arg = n /\ q.call = c /\ q.eax = v
      /\ InCall(r) /\ r.arg = n /\ r.call = c /\ r.eax = v /\ r \in Slot
  <2>1. q \in Slot /\ InCall(q) /\ q.arg = n /\ q.call = c /\ q.eax = v
    BY <1>0, <1>1 DEF InCall, SameTids, Slot
  <2>2. r = [q EXCEPT !.status = w] BY <1>0 DEF Slot
  <2> HIDE DEF q, r
  <2>3. r \in Slot BY <2>1, <2>2 DEF Slot
  <2>4. InCall(r) /\ r.arg = n /\ r.call = c /\ r.eax = v
    BY <2>1, <2>2 DEF InCall, SameTids, Slot
  <2> QED BY <2>1, <2>3, <2>4
<1> HIDE DEF q, r
<1>3. /\ Q[current] = q /\ \A s \in Slots \ {current} : Q[s] = W[s]
      /\ R[current] = r /\ \A s \in Slots \ {current} : R[s] = W[s]
      /\ R \in Table
  BY <1>0, <1>2 DEF Table
<1> HIDE DEF Q, R
<1>4. JoinInv(Q, next_tid) BY <1>1, <1>2, <1>3, ReturnsJoin
<1>5. JoinInv(R, next_tid) BY <1>1, <1>2, <1>3, ReturnsJoin
<1>6. \A z \in UserSlots : JoinInv(ReapProcess(R, z), next_tid) BY <1>3, <1>5, ReapJoin
<1>7. GivesEax(W, v) = Q BY DEF GivesEax, Q, q
<1>8. GivesBoth(W, v, w) = R BY <1>0 DEF GivesBoth, R, r, Table
<1> QED BY <1>4, <1>6, <1>7, <1>8

LEMMA WaitJoin == ASSUME JoinHyp, NEW pid \in 0 .. MaxPid, WaitPid(pid) PROVE Joined
<1> DEFINE W == Waits(proc, pid)
<1>0. /\ InUser /\ UNCHANGED next_tid /\ pid \in Nat /\ TypeOK
      /\ current \in UserSlots /\ current \in Slots /\ proc \in Table
  BY JoinFacts, EnteredJoin, ProcessAssumption DEF WaitPid, Issues
<1>1. CalledWith(W, "waitpid", pid) /\ W \in Table BY <1>0, CallJoin, LegalWaits DEF Legal
<1>2. CASE WaitCollects(pid)
  <2>1. PICK z \in FindZombieChild(proc, proc[current].pid, pid) :
          proc' = ReapProcess([W EXCEPT ![current].eax = proc[z].pid,
                                        ![current].status = proc[z].exit_code], z)
    BY <1>2 DEF WaitCollects, ReturnWith
  <2>2. z \in UserSlots BY FirstIn DEF FindZombieChild
  <2>3. proc[z].pid \in Int /\ proc[z].exit_code \in Int
    <3>1. proc[z] \in Slot BY <1>0, <2>2 DEF UserSlots, Table
    <3>2. MaxPid \in Nat BY ProcessAssumption
    <3>3. proc[z].pid \in 0 .. MaxPid /\ proc[z].exit_code \in Nat BY <3>1 DEF Slot
    <3> QED BY <3>2, <3>3
  <2> DEFINE v == proc[z].pid
             w == proc[z].exit_code
  <2>4. proc' = ReapProcess(GivesBoth(W, v, w), z) BY <2>1 DEF GivesBoth
  <2>5. v \in Int /\ w \in Int BY <2>3
  <2> HIDE DEF W, v, w
  <2>6. \A u \in UserSlots :
          JoinInv(ReapProcess(GivesBoth(W, v, w), u), next_tid)
    BY <1>0, <1>1, <2>5, AnswerJoin
  <2>7. JoinInv(proc', next_tid) BY <2>2, <2>4, <2>6
  <2> QED BY <1>0, <2>7 DEF Joined
<1>3. CASE WaitFails(pid)
  <2>1. proc' = GivesEax(W, SysErr) BY <1>3 DEF WaitFails, ReturnWith, GivesEax
  <2>2. SysErr \in Int BY DEF SysErr
  <2> HIDE DEF W
  <2> QED BY <1>0, <1>1, <2>1, <2>2, AnswerJoin DEF Joined
<1>4. CASE WaitBlocks(pid)
  <2> DEFINE r == [W[current] EXCEPT !.eax = Blocked, !.state = "WAITING", !.wait_pid = pid,
                                     !.wait_status = TRUE, !.wait_channel = NoChannel]
             Q == [W EXCEPT ![current] = r]
  <2>1. Schedule([W EXCEPT
          ![current].eax = Blocked, ![current].state = "WAITING", ![current].wait_pid = pid,
          ![current].wait_status = TRUE, ![current].wait_channel = NoChannel], TRUE)
    BY <1>4 DEF WaitBlocks
  <2> HIDE DEF W
  <2>2. W[current] \in Slot BY <1>0, <1>1 DEF Table
  <2>3. Schedule(Q, TRUE) BY <1>0, <1>1, <2>1 DEF Table
  <2>4. /\ SameTids(proc[current], r) /\ r.state = "WAITING" /\ r.join_tid = 0
        /\ r.call = "waitpid" /\ ~r.rewound
    BY <1>1, <2>2 DEF CalledWith, InCall, SameTids, Slot
  <2>5. r \in Slot
    <3>1. Blocked \in Int /\ NoChannel \in Channels \cup {NoChannel} /\ "WAITING" \in States
      BY DEF Blocked, States
    <3> QED BY <2>2, <3>1 DEF Slot
  <2> HIDE DEF r
  <2>6. Q[current] = r /\ Q \in Table /\ \A s \in Slots \ {current} : Q[s] = W[s]
    BY <1>0, <1>1, <2>5 DEF Table
  <2> HIDE DEF Q
  <2>7. JoinInv(Q, next_tid) BY <1>0, <1>1, <2>4, <2>6, BlocksJoin DEF CalledWith
  <2>8. Q[Bootstrap].state \in Up BY <1>0, <1>1, <2>6, SlotZero DEF CalledWith, UserSlots
  <2> QED BY <1>0, <2>3, <2>6, <2>7, <2>8, ScheduleJoin DEF Joined
<1> QED BY <1>2, <1>3, <1>4 DEF WaitPid

\* A join: the thread is found in the caller's group, and as long as it lives the caller sleeps.
LEMMA JoinThreadJoin == ASSUME JoinHyp, NEW tid \in 1 .. MaxTid, JoinThread(tid) PROVE Joined
<1> DEFINE W == Joins(proc, tid)
           found == Threads(proc, proc[current].thread_group_pid, tid)
<1>0. /\ InUser /\ ~proc[current].is_thread /\ UNCHANGED next_tid
      /\ tid \in Nat /\ tid \in Int /\ tid # 0 /\ TypeOK
      /\ current \in UserSlots /\ current \in Slots /\ proc \in Table
  BY JoinFacts, EnteredJoin, ProcessAssumption DEF JoinThread, Issues
<1>1. CalledWith(W, "join", tid) /\ W \in Table BY <1>0, CallJoin, LegalJoins DEF Legal
<1>2. ASSUME NEW t \in found
      PROVE  /\ t \in UserSlots /\ proc[t].is_thread /\ proc[t].tid = tid
             /\ proc[t].thread_group_pid = proc[current].thread_group_pid
  BY FirstIn DEF Threads
<1>3. CASE proc' = GivesEax(W, SysErr)
  <2>1. SysErr \in Int BY DEF SysErr
  <2> HIDE DEF W
  <2> QED BY <1>0, <1>1, <1>3, <2>1, AnswerJoin DEF Joined
<1>4. ASSUME NEW t \in found,
             proc' = ReapProcess(GivesBoth(W, tid, proc[t].exit_code), t)
      PROVE  Joined
  <2>1. t \in UserSlots BY <1>2
  <2>2. proc[t].exit_code \in Int
    <3>1. proc[t] \in Slot BY <1>0, <2>1 DEF UserSlots, Table
    <3> QED BY <3>1 DEF Slot
  <2> HIDE DEF W
  <2> QED BY <1>0, <1>1, <1>4, <2>1, <2>2, AnswerJoin DEF Joined
<1>5. ASSUME NEW t \in found, proc[t].state # "ZOMBIE",
             Schedule([W EXCEPT ![current].eax = Blocked, ![current].join_tid = tid,
                                ![current].state = "WAITING"], TRUE)
      PROVE  Joined
  <2> DEFINE r == [W[current] EXCEPT !.eax = Blocked, !.join_tid = tid, !.state = "WAITING"]
             Q == [W EXCEPT ![current] = r]
  <2> HIDE DEF W
  <2>1. W[current] \in Slot BY <1>0, <1>1 DEF Table
  <2>2. Schedule(Q, TRUE) BY <1>0, <1>1, <1>5 DEF Table
  <2>3. /\ SameTids(proc[current], r) /\ r.state = "WAITING" /\ r.join_tid = tid
        /\ r.call = "join" /\ r.arg = tid /\ ~r.rewound /\ r.wait_channel = NoChannel
    BY <1>1, <2>1 DEF CalledWith, InCall, SameTids, Slot
  <2>4. r \in Slot
    <3>1. Blocked \in Int /\ "WAITING" \in States BY DEF Blocked, States
    <3> QED BY <1>0, <2>1, <3>1 DEF Slot
  <2> HIDE DEF r
  <2>5. Q[current] = r /\ Q \in Table /\ \A s \in Slots \ {current} : Q[s] = W[s]
    BY <1>0, <1>1, <2>4 DEF Table
  <2> HIDE DEF Q, found
  <2>6. \A s \in UserSlots : s # current => Q[s] = proc[s]
    BY <1>1, <2>5 DEF CalledWith, UserSlots
  <2>7. JoinInv(proc, next_tid) /\ JoinSlot(proc[current], next_tid) /\ proc[current].state = "RUNNING"
    BY <1>0, JoinFacts DEF JoinInv
  <2>8. JoinSlot(Q[current], next_tid)
    BY <1>0, <2>3, <2>5, <2>7 DEF JoinSlot, SameTids, Up
  <2>9. t # current /\ Alive(Q[t], tid, proc[current].thread_group_pid)
    BY <1>0, <1>2, <1>5, <2>6 DEF Alive
  <2>10. ASSUME NEW s \in UserSlots, Sleeper(Q[s])
         PROVE  \E u \in UserSlots : Alive(Q[u], Q[s].join_tid, Q[s].thread_group_pid)
    <3>1. CASE s = current
      <4>1. Q[s].join_tid = tid /\ Q[s].thread_group_pid = proc[current].thread_group_pid
        BY <2>3, <2>5, <3>1 DEF SameTids
      <4> QED BY <1>2, <1>5, <2>9, <4>1
    <3>2. CASE s # current
      <4>1. Q[s] = proc[s] BY <2>6, <3>2
      <4>2. PICK u \in UserSlots : Alive(proc[u], proc[s].join_tid, proc[s].thread_group_pid)
        BY <2>7, <2>10, <4>1 DEF JoinInv, JoinPairs
      <4>3. u # current BY <1>0, <4>2 DEF Alive
      <4> QED BY <2>6, <4>1, <4>2, <4>3
    <3> QED BY <3>1, <3>2
  <2>11. ASSUME NEW s \in UserSlots, NEW u \in UserSlots,
                Q[s].is_thread, Q[u].is_thread, Q[s].tid = Q[u].tid
         PROVE  s = u
    <3>1. s # current /\ u # current BY <1>0, <2>3, <2>5, <2>11 DEF SameTids
    <3> QED BY <2>6, <2>7, <2>11, <3>1 DEF JoinInv, JoinPairs
  <2>12. JoinPairs(Q) BY <2>10, <2>11 DEF JoinPairs
  <2>13. Q[Bootstrap] = proc[Bootstrap] BY <1>0, <1>1, <2>5, SlotZero DEF CalledWith, UserSlots
  <2>14. JoinInv(Q, next_tid) BY <2>6, <2>7, <2>8, <2>12, <2>13 DEF JoinInv, Rooted
  <2>15. Q[Bootstrap].state \in Up BY <2>13, JoinFacts
  <2> QED BY <1>0, <2>2, <2>5, <2>14, <2>15, ScheduleJoin DEF Joined
<1> QED BY <1>3, <1>4, <1>5 DEF JoinThread, ReturnWith, GivesEax, GivesBoth

\* The slots of a table after the thread of slot c has exited and woken its joiner.
LEMMA JoinerFields ==
  ASSUME NEW P \in Table, NEW c \in Slots, NEW i \in Slots
  PROVE  LET q == WakeJoiner(P, c)[i]  p == P[i] IN
         /\ i \notin Joiner(P, c) => q = p
         /\ i \in Joiner(P, c) =>
              /\ SameTids(p, q) /\ q.state = "READY" /\ q.join_tid = 0 /\ q.eax = P[c].tid
              /\ q.wait_channel = p.wait_channel /\ q.call = p.call /\ q.arg = p.arg
              /\ q.rewound = p.rewound
<1> DEFINE r == [P[i] EXCEPT !.eax = P[c].tid, !.status = P[c].exit_code, !.join_tid = 0,
                             !.state = "READY"]
           q == WakeJoiner(P, c)[i]
<1>1. q = IF i \in Joiner(P, c) THEN r ELSE P[i] BY DEF WakeJoiner
<1>2. P[i] \in Slot BY DEF Table
<1>3. /\ SameTids(P[i], r) /\ r.state = "READY" /\ r.join_tid = 0 /\ r.eax = P[c].tid
      /\ r.wait_channel = P[i].wait_channel /\ r.call = P[i].call /\ r.arg = P[i].arg
      /\ r.rewound = P[i].rewound
  BY <1>2 DEF Slot, SameTids
<1> HIDE DEF q, r
<1> QED BY <1>1, <1>3 DEF q

\* Who sleeps until the thread of slot c exits is one slot: its joiner is found and woken.
LEMMA OneJoiner ==
  ASSUME NEW P, NEW n, JoinInv(P, n), NEW m, Family(P, m),
         NEW c \in UserSlots, P[c].is_thread, NEW s \in UserSlots, Sleeper(P[s]),
         P[s].join_tid = P[c].tid,
         NEW Q, \A u \in Slots \ {c} : Q[u] = P[u], Q[c].state = "ZOMBIE", Q[c].tid = P[c].tid
  PROVE  s \in Joiner(Q, c)
<1> DEFINE S == {i \in UserSlots : /\ Q[i].state = "WAITING" /\ ~Q[i].is_thread
                                   /\ Q[i].join_tid = Q[c].tid}
<1>1. /\ \A i \in UserSlots : JoinSlot(P[i], n)
      /\ \A i \in UserSlots : i # c => Q[i] = P[i]
  BY DEF JoinInv, UserSlots
<1>2. P[c].tid # 0 BY <1>1 DEF Sleeper
<1>3. ASSUME NEW i \in S
      PROVE  /\ i \in UserSlots /\ i # c /\ Sleeper(P[i]) /\ ~P[i].is_thread
             /\ P[i].thread_group_pid = P[i].pid /\ P[i].thread_group_pid = P[c].thread_group_pid
             /\ P[i].pid # 0
  <2>1. i \in UserSlots /\ i # c /\ Q[i] = P[i] BY <1>1
  <2>2. Sleeper(P[i]) /\ ~P[i].is_thread /\ P[i].join_tid = P[c].tid BY <1>2, <2>1 DEF Sleeper
  <2>3. P[i].state # "UNUSED" BY <2>2 DEF Sleeper
  <2>4. P[i].thread_group_pid = P[i].pid BY <1>1, <2>1, <2>2, <2>3 DEF JoinSlot
  <2>5. PICK t \in UserSlots : Alive(P[t], P[c].tid, P[i].thread_group_pid)
    BY <2>1, <2>2 DEF JoinInv, JoinPairs
  <2>6. t = c BY <2>5 DEF Alive, JoinInv, JoinPairs
  <2>7. P[i].pid \in 1 .. m - 1 BY <2>1, <2>2, <2>3 DEF Family, UserSlots
  <2> QED BY <2>1, <2>2, <2>4, <2>5, <2>6, <2>7 DEF Alive
<1>4. s \in S
  <2>1. s # c /\ ~P[s].is_thread
    <3>1. JoinSlot(P[s], n) BY <1>1
    <3> QED BY <3>1 DEF JoinSlot, Sleeper
  <2> QED BY <1>1, <2>1 DEF Sleeper
<1>5. S \in SUBSET Nat BY SlotsNat DEF UserSlots
<1>6. Joiner(Q, c) = First(S) BY DEF Joiner
<1>7. PICK j \in First(S) : TRUE BY <1>4, <1>5, LowestIn
<1>8. j \in S BY <1>7, FirstIn
<1> HIDE DEF S
<1>9. j = s
  <2>1. P[j].pid = P[s].pid /\ P[s].pid # 0 BY <1>3, <1>4, <1>8
  <2>2. P[j].state # "UNUSED" /\ P[s].state # "UNUSED" BY <1>3, <1>4, <1>8 DEF Sleeper
  <2>3. j \in Slots /\ s \in Slots BY <1>3, <1>4, <1>8 DEF UserSlots
  <2> QED BY <2>1, <2>2, <2>3 DEF Family
<1> QED BY <1>6, <1>7, <1>9

\* The exit of a process wakes nobody, for its parent is the kernel; that of a thread wakes
\* its joiner.
LEMMA DeathJoin ==
  ASSUME JoinHyp, InUser, NEW code \in Nat
  PROVE  JoinInv(Died(Entered(proc), current, code), next_tid)
<1> DEFINE c == current
           P == Entered(proc)
           Q == Killed(P, c, code)
<1>1. /\ P \in Table /\ \A s \in Slots \ {c} : P[s] = proc[s]
      /\ c \in UserSlots /\ c \in Slots /\ InCall(P[c]) /\ P[c].call = "none"
      /\ JoinInv(P, next_tid)
  BY EnteredJoin, JoinFacts, ReturnsJoin
<1>2. Family(P, next_pid) /\ P[Bootstrap].state \in Up
  BY ChildFacts DEF JoinHyp, ChildInv
<1>3. SameTids(proc[c], P[c]) BY <1>1 DEF InCall
<1>4. P[c].state = "RUNNING" /\ ~P[c].rewound /\ P[c].join_tid = 0 BY <1>1 DEF InCall
<1>5. JoinInv(proc, next_tid) BY JoinFacts
<1> HIDE DEF P, c
<1>6. /\ Q \in Table /\ \A s \in Slots \ {c} : Q[s] = P[s]
      /\ Q[c].state = "ZOMBIE" /\ SameTids(P[c], Q[c]) /\ ~Q[c].rewound
  BY <1>1, <1>4, KilledFields DEF SameTids
<1>7. SameTids(proc[c], Q[c]) BY <1>3, <1>6 DEF SameTids
<1> HIDE DEF Q
<1>8. JoinSlot(P[c], next_tid) BY <1>1 DEF JoinInv
<1>9. JoinSlot(Q[c], next_tid) /\ ~Sleeper(Q[c])
  BY <1>4, <1>6, <1>8 DEF JoinSlot, SameTids, Sleeper, Up
<1>10. CASE ~P[c].is_thread
  <2>1. JoinInv(Q, next_tid)
    <3>1. \A s \in Slots \ {c} : Q[s] = proc[s] BY <1>1, <1>6
    <3>2. ~Q[c].is_thread BY <1>6, <1>10 DEF SameTids
    <3> QED BY <1>7, <1>9, <3>1, <3>2, CallerJoin DEF c
  <2>2. WaitingParent(Q, c) = {}
    <3>1. Q[c].parent_pid = 1 BY <1>4, <1>6, <1>8, <1>10 DEF JoinSlot, SameTids
    <3>2. ASSUME NEW i \in UserSlots, Q[i].state = "WAITING", Q[i].pid = 1 PROVE FALSE
      <4>1. i # c /\ i \in Slots /\ i # Bootstrap BY <1>6, <3>2 DEF UserSlots
      <4>2. P[i].state = "WAITING" /\ P[i].pid = 1 BY <1>6, <3>2, <4>1
      <4>3. P[Bootstrap].pid = 1 /\ P[Bootstrap].state # "UNUSED"
        BY <1>1, <1>2 DEF JoinInv, Rooted, Up
      <4> QED BY <1>2, <4>1, <4>2, <4>3, SlotZero DEF Family
    <3> QED BY <3>1, <3>2, FirstIn DEF WaitingParent
  <2>3. Died(P, c, code) = WakeWaitingParent(Q, c) BY <1>10 DEF Died, Q
  <2>4. WakeWaitingParent(Q, c) = Q BY <1>6, <2>2 DEF WakeWaitingParent, Table
  <2> QED BY <2>1, <2>3, <2>4 DEF P, c
<1>11. CASE P[c].is_thread
  <2> DEFINE R == WakeJoiner(Q, c)
  <2>1. Died(P, c, code) = R BY <1>11 DEF Died, Q
  <2>2. ASSUME NEW s \in Slots
        PROVE  /\ s \notin Joiner(Q, c) => R[s] = Q[s]
               /\ s \in Joiner(Q, c) =>
                    /\ SameTids(Q[s], R[s]) /\ R[s].state = "READY" /\ R[s].join_tid = 0
                    /\ R[s].eax = Q[c].tid /\ R[s].wait_channel = Q[s].wait_channel
                    /\ R[s].call = Q[s].call /\ R[s].arg = Q[s].arg /\ R[s].rewound = Q[s].rewound
    BY <1>1, <1>6, JoinerFields
  <2> HIDE DEF R
  <2>3. Q[c].tid = P[c].tid /\ Q[c].tid # 0 BY <1>6, <1>8, <1>11 DEF SameTids, JoinSlot
  <2>4. ASSUME NEW s \in Joiner(Q, c)
        PROVE  /\ s \in UserSlots /\ s # c /\ Q[s] = P[s] /\ Sleeper(P[s])
               /\ ~P[s].is_thread /\ P[s].join_tid = P[c].tid
    <3>1. /\ s \in UserSlots /\ Q[s].state = "WAITING" /\ ~Q[s].is_thread
          /\ Q[s].join_tid = Q[c].tid
      BY FirstIn DEF Joiner
    <3> QED BY <1>6, <2>3, <3>1 DEF UserSlots, Sleeper
  <2>5. ASSUME NEW s \in UserSlots PROVE JoinSlot(R[s], next_tid)
    <3>1. s \in Slots /\ JoinSlot(P[s], next_tid) BY <1>1 DEF UserSlots, JoinInv
    <3>2. CASE s \in Joiner(Q, c)
      <4>1. P[s].join_tid = P[s].arg /\ P[s].call = "join" /\ P[s].wait_channel = NoChannel
        BY <2>4, <3>1, <3>2 DEF JoinSlot, Sleeper
      <4>2. P[s].state # "UNUSED" /\ ~P[s].rewound BY <2>4, <3>1, <3>2, <4>1 DEF JoinSlot, Sleeper
      <4> QED BY <2>2, <2>3, <2>4, <3>1, <3>2, <4>1, <4>2 DEF JoinSlot, SameTids, Up
    <3>3. CASE s \notin Joiner(Q, c)
      <4>1. R[s] = Q[s] BY <2>2, <3>1, <3>3
      <4>2. Q[s] = P[s] \/ s = c BY <1>6, <3>1
      <4> QED BY <1>9, <3>1, <4>1, <4>2
    <3> QED BY <3>2, <3>3
  <2>6. ASSUME NEW s \in UserSlots
        PROVE  /\ R[s].is_thread = P[s].is_thread /\ R[s].tid = P[s].tid
               /\ R[s].thread_group_pid = P[s].thread_group_pid
               /\ Sleeper(R[s]) => s \notin Joiner(Q, c) /\ Sleeper(P[s])
                                   /\ R[s].join_tid = P[s].join_tid
               /\ s # c /\ P[s].is_thread => R[s].state = P[s].state
    <3>1. s \in Slots BY DEF UserSlots
    <3>2. CASE s \in Joiner(Q, c) BY <2>2, <2>4, <3>1, <3>2 DEF SameTids, Sleeper
    <3>3. CASE s \notin Joiner(Q, c)
      <4>1. R[s] = Q[s] BY <2>2, <3>1, <3>3
      <4>2. CASE s = c BY <1>6, <1>9, <4>1, <4>2 DEF SameTids
      <4>3. CASE s # c
        <5>1. R[s] = P[s] BY <1>6, <3>1, <4>1, <4>3
        <5> QED BY <3>3, <5>1
      <4> QED BY <4>2, <4>3
    <3> QED BY <3>2, <3>3
  <2>7. ASSUME NEW s \in UserSlots, Sleeper(R[s])
        PROVE  \E t \in UserSlots : Alive(R[t], R[s].join_tid, R[s].thread_group_pid)
    <3>1. /\ s \notin Joiner(Q, c) /\ Sleeper(P[s]) /\ R[s].join_tid = P[s].join_tid
          /\ R[s].thread_group_pid = P[s].thread_group_pid
      BY <2>6, <2>7
    <3>2. PICK t \in UserSlots : Alive(P[t], P[s].join_tid, P[s].thread_group_pid)
      BY <1>1, <3>1 DEF JoinInv, JoinPairs
    <3>3. t # c
      <4>1. SUFFICES ASSUME t = c PROVE FALSE OBVIOUS
      <4>2. P[s].join_tid = P[c].tid BY <3>2, <4>1 DEF Alive
      <4> QED BY <1>1, <1>2, <1>6, <1>11, <2>3, <3>1, <4>2, OneJoiner
    <3>4. Alive(R[t], P[s].join_tid, P[s].thread_group_pid) BY <2>6, <3>2, <3>3 DEF Alive
    <3> QED BY <3>1, <3>4
  <2>8. ASSUME NEW s \in UserSlots, NEW t \in UserSlots,
               R[s].is_thread, R[t].is_thread, R[s].tid = R[t].tid
        PROVE  s = t
    BY <1>1, <2>6, <2>8 DEF JoinInv, JoinPairs
  <2>9. JoinPairs(R) BY <2>7, <2>8 DEF JoinPairs
  <2>10. Rooted(R)
    <3>1. Bootstrap \in Slots /\ Bootstrap # c /\ Bootstrap \notin Joiner(Q, c)
      BY <1>1, <2>4, SlotZero DEF UserSlots
    <3>2. R[Bootstrap] = P[Bootstrap] BY <1>6, <2>2, <3>1
    <3> QED BY <1>1, <3>2 DEF JoinInv, Rooted
  <2>11. JoinInv(R, next_tid) BY <1>5, <2>5, <2>9, <2>10 DEF JoinInv
  <2> QED BY <2>1, <2>11 DEF P, c
<1> QED BY <1>10, <1>11

LEMMA ExitJoin ==
  ASSUME JoinHyp, InUser, NEW code \in Nat, NEW flag \in BOOLEAN,
         Schedule(Died(Entered(proc), current, code), flag), UNCHANGED next_tid
  PROVE  Joined
<1> DEFINE P == Entered(proc)
           R == Died(P, current, code)
<1>0. TypeOK /\ current \in UserSlots /\ current \in Slots BY JoinFacts, EnteredJoin
<1>1. P \in Table /\ P[current].state = "RUNNING" /\ ChildInv(P, next_pid)
  BY <1>0, ChildFacts, EnteredCalm DEF JoinHyp
<1>2. Legal(P) /\ Runs(P) BY <1>0, <1>1, ProcLegal, LegalEntered DEF Runs
<1>3. JoinInv(R, next_tid) BY DeathJoin
<1> HIDE DEF P
<1>4. R \in Table BY <1>0, <1>2, LegalDied DEF Legal, UserSlots
<1>5. ChildInv(R, next_pid) BY <1>0, <1>1, DiedKeeps
<1>6. R[Bootstrap].state \in Up BY <1>5 DEF ChildInv
<1>7. Schedule(R, flag) BY DEF P
<1> HIDE DEF R
<1> QED BY <1>3, <1>4, <1>6, <1>7, ScheduleJoin DEF Joined

LEMMA JoinNext == JoinHyp /\ [Next]_vars => Joined
<1> SUFFICES ASSUME JoinHyp, [Next]_vars PROVE Joined OBVIOUS
<1>1. CASE SpawnProcess BY <1>1, SpawnJoin
<1>2. CASE ForkCurrent BY <1>2 DEF ForkCurrent, Issues, JoinHyp
<1>3. CASE CreateUserThread BY <1>3, ThreadJoin
<1>4. CASE ExecReplaceCurrent \/ OtherSyscall \/ Reissue BY <1>4, QuietJoin
<1>5. CASE \E pid \in 0 .. MaxPid : WaitPid(pid) BY <1>5, WaitJoin
<1>6. CASE \E code \in ExitCodes : ExitCurrent(code)
  <2>1. PICK code \in ExitCodes : ExitCurrent(code) BY <1>6
  <2>2. code \in Nat BY ProcessAssumption
  <2> QED BY <2>1, <2>2, ExitJoin DEF ExitCurrent, Issues
<1>7. CASE FaultCurrent
  <2> DEFINE code == 128 + GeneralProtection
  <2>1. code \in Nat BY DEF GeneralProtection
  <2>2. Schedule(Died(Entered(proc), current, code), resched) BY <1>7 DEF FaultCurrent
  <2>3. resched \in BOOLEAN BY JoinFacts DEF TypeOK
  <2> HIDE DEF code
  <2> QED BY <1>7, <2>1, <2>2, <2>3, ExitJoin DEF FaultCurrent, Issues
<1>8. CASE \E t \in UserSlots, sig \in Signals : Signal(t, sig)
  BY <1>8 DEF Signal, Issues, JoinHyp
<1>9. CASE \E z \in UserSlots : ReapPid(z) BY <1>9, ReapPidJoin
<1>10. CASE \E tid \in 1 .. MaxTid : JoinThread(tid) BY <1>10, JoinThreadJoin
<1>11. CASE \E ch \in Channels : SleepOn(ch) \/ Wakeup(ch) \/ DeviceWakeup(ch)
  BY <1>11, SleepJoin, WakeupJoin
<1>12. CASE Yield \/ TimerInterrupt BY <1>12, SwitchJoin
<1>13. CASE UNCHANGED vars BY <1>13, JoinFacts DEF vars, Joined
<1> QED BY <1>1, <1>2, <1>3, <1>4, <1>5, <1>6, <1>7, <1>8, <1>9, <1>10, <1>11, <1>12, <1>13
        DEF Next

LEMMA JoinInit == Init => JoinInv(proc, next_tid)
<1> SUFFICES ASSUME Init PROVE JoinInv(proc, next_tid) OBVIOUS
<1> DEFINE boot == [ClearProcess EXCEPT !.pid = 1, !.state = "RUNNING"]
<1>1. boot.pid = 1 /\ ~boot.is_thread BY DEF ClearProcess
<1>2. proc = [i \in Slots |-> IF i = Bootstrap THEN boot ELSE ClearProcess] BY DEF Init
<1> HIDE DEF boot
<1>3. proc[Bootstrap] = boot /\ \A s \in UserSlots : proc[s] = ClearProcess
  BY <1>2, SlotZero DEF UserSlots
<1>4. ~ClearProcess.is_thread /\ ClearProcess.state = "UNUSED" BY DEF ClearProcess
<1>5. JoinPairs(proc) BY <1>3, <1>4 DEF JoinPairs, Sleeper
<1>6. \A s \in UserSlots : JoinSlot(proc[s], next_tid) BY <1>3, JoinClear
<1>7. next_tid \in Nat \ {0} BY DEF Init
<1> QED BY <1>1, <1>3, <1>5, <1>6, <1>7 DEF JoinInv, Rooted

\* In programs that neither fork nor kill, nobody sleeps in process_join_thread for a thread
\* that has exited, and a join that has returned names the thread it was called for: the
\* exit of a thread finds the one that joins it by its tid, whoever else exits or joins.
THEOREM JoinsAlways ==
  ~Contended /\ "fork" \notin Workload /\ "kill" \notin Workload => (Spec => []JoinsHold)
<1> SUFFICES ASSUME ~Contended, "fork" \notin Workload, "kill" \notin Workload
             PROVE  Spec => []JoinsHold
  OBVIOUS
<1> DEFINE Inv == /\ SchedInv /\ CurrentRuns /\ ChildInv(proc, next_pid)
                  /\ JoinInv(proc, next_tid)
<1>1. Init => Inv BY SchedInit, ChildInit, JoinInit
<1>2. Inv /\ [Next]_vars => Inv'
  <2> SUFFICES ASSUME Inv, [Next]_vars PROVE Inv' OBVIOUS
  <2>1. JoinHyp BY DEF JoinHyp, ChildHyp
  <2>2. SchedInv' /\ CurrentRuns' BY SchedNext DEF Stays
  <2>3. ChildInv(proc', next_pid') BY ChildNext DEF ChildHyp
  <2> QED BY <2>1, <2>2, <2>3, JoinNext DEF Joined
<1>3. Inv => JoinsHold
  <2> SUFFICES ASSUME Inv PROVE NoLostJoin /\ JoinResult BY DEF JoinsHold
  <2>1. ASSUME NEW s \in UserSlots, proc[s].state = "WAITING", proc[s].join_tid # 0
        PROVE  \E t \in UserSlots : /\ proc[t].is_thread /\ proc[t].tid = proc[s].join_tid
                                    /\ proc[t].state # "ZOMBIE"
    BY <2>1 DEF JoinInv, JoinPairs, Sleeper, Alive
  <2>2. ASSUME NEW s \in UserSlots, proc[s].call = "join", proc[s].state \in {"READY", "RUNNING"}
        PROVE  proc[s].eax \in {SysErr, proc[s].arg}
    BY <2>2 DEF JoinInv, JoinSlot, Up
  <2> QED BY <2>1, <2>2 DEF NoLostJoin, JoinResult
<1> QED BY <1>1, <1>2, <1>3, PTL DEF Spec
=============================================================================
