------------------------------- MODULE Process -------------------------------
(***************************************************************************)
(* The process table and the scheduler of LionOS (src/process.c), together *)
(* with the part of the interrupt dispatcher that calls them (src/idt.c).  *)
(*                                                                         *)
(* System calls and interrupts enter through interrupt gates, so each runs *)
(* with interrupts off, from the trap to the frame it returns: every one   *)
(* is a single action here, the trailing process_schedule included.  Only  *)
(* the bootstrap processor runs tasks: a task's cpu_owner is the processor *)
(* that created it, and the application processors create none, so the     *)
(* field is left out.  All the other processors do is to take process_lock *)
(* in their own timer interrupts, which makes the try-lock at the head of  *)
(* process_schedule fail: Contended says whether that can happen.          *)
(*                                                                         *)
(* User programs are unconstrained: the running one may issue any system   *)
(* call of Workload at any time.                                           *)
(***************************************************************************)
EXTENDS Integers, FiniteSets

CONSTANTS
  SlotCount,   \* LIONOS_PROCESS_MAX, the size of the table; slot 0 is the kernel's
  MaxPid,      \* bound: no process is created once next_pid exceeds it
  MaxTid,      \* bound: no thread is created once next_tid exceeds it
  Levels,      \* PROCESS_PRIORITY_LEVELS
  Quantum,     \* quantum_for_priority: the time slice of each level, in ticks
  ExitCodes,   \* the codes programs pass to exit
  Channels,    \* the wait channels of IPC, pipes and the mouse
  Signals,     \* the signals programs send
  Workload,    \* the system calls the programs of this instance issue
  Contended    \* TRUE: another processor may hold process_lock

PriorityDefault == 2
WaitAny == 0
Blocked == -2
SysErr == -1
SIGKILL == 9
SIGTERM == 15
SIGCONT == 18
SIGSTOP == 19
GeneralProtection == 13
NoChannel == 0
NoStatus == -1
Disturbed == -3

Calls == {"spawn", "fork", "waitpid", "exit", "fault", "yield", "exec", "kill",
          "sleep", "wakeup", "thread", "reap_pid", "other"}

ASSUME ProcessAssumption ==
  /\ SlotCount \in Nat /\ SlotCount > 1
  /\ MaxPid \in Nat \ {0} /\ MaxTid \in Nat
  /\ Levels \in Nat /\ Levels > PriorityDefault
  /\ Quantum \in [0 .. Levels - 1 -> Nat]
  /\ ExitCodes \subseteq Nat
  /\ Channels \subseteq Nat \ {NoChannel}
  /\ Signals \subseteq 1 .. 31
  /\ Workload \subseteq Calls
  /\ Contended \in BOOLEAN

Slots == 0 .. SlotCount - 1
Bootstrap == 0
UserSlots == Slots \ {Bootstrap}

VARIABLES
  proc,       \* processes[]: the table, a record per slot
  current,    \* current_by_cpu[0]: the slot whose frame the processor runs
  next_pid,
  next_tid,
  resched     \* reschedule_requested

(***************************************************************************)
(* History: the code each pid died with, and how often its status was      *)
(* handed to a waiting parent (or to the kernel).  No action reads it.  A  *)
(* pid that dies again, or is stopped when it is dead, has died Disturbed. *)
(***************************************************************************)
VARIABLES died, delivered

vars == <<proc, current, next_pid, next_tid, resched, died, delivered>>

-----------------------------------------------------------------------------
(***************************************************************************)
(* A slot.  The last five fields are the program's side of it: eax and     *)
(* rewound are the saved frame (rewound: the trap moved eip back over      *)
(* int 0x80, so that the call is issued again), call and arg the waiting   *)
(* call it made last, status the word that call's status pointer names.    *)
(* wait_status and join_tid stand for the pointers being set.              *)
(***************************************************************************)
States == {"UNUSED", "READY", "RUNNING", "ZOMBIE", "WAITING", "STOPPED"}

ClearProcess ==
  [pid |-> 0, state |-> "UNUSED", parent_pid |-> 0, exit_code |-> 0,
   wait_pid |-> 0, wait_status |-> FALSE, wait_channel |-> NoChannel,
   reap_pending |-> FALSE, priority |-> PriorityDefault, time_slice |-> 0,
   ticks_used |-> 0, tid |-> 0, thread_group_pid |-> 0, is_thread |-> FALSE,
   join_tid |-> 0,
   eax |-> 0, rewound |-> FALSE, call |-> "none", arg |-> 0, status |-> NoStatus]

\* The first slot of a set, the one a scan from the bottom of the table finds.
First(S) == {i \in S : \A j \in S : i <= j}

FindFreeSlot(P) == First({i \in Slots : P[i].state = "UNUSED"})

FindPid(P, pid) == First({i \in Slots : P[i].state # "UNUSED" /\ P[i].pid = pid})

IsChildOf(p, parent_pid, pid) ==
  /\ p.state # "UNUSED"
  /\ p.parent_pid = parent_pid
  /\ pid = WaitAny \/ p.pid = pid

FindZombieChild(P, parent_pid, pid) ==
  First({i \in UserSlots : IsChildOf(P[i], parent_pid, pid) /\ P[i].state = "ZOMBIE"})

HasChild(P, parent_pid, pid) == \E i \in UserSlots : IsChildOf(P[i], parent_pid, pid)

ReapProcess(P, i) ==
  IF P[i].state = "ZOMBIE" THEN [P EXCEPT ![i] = ClearProcess] ELSE P

\* The parent chain of a slot, one parent_pid link at a time.
Ancestors(P, i) ==
  LET up[d \in 0 .. SlotCount] ==
        IF d = 0 THEN {i}
        ELSE UNION {FindPid(P, P[j].parent_pid) : j \in {k \in up[d - 1] : P[k].parent_pid # 0}}
  IN UNION {up[d] : d \in 1 .. SlotCount}

IsDescendantOrChild(P, i, ancestor_pid) ==
  /\ ancestor_pid # 0
  /\ \E a \in Ancestors(P, i) : P[a].pid = ancestor_pid

-----------------------------------------------------------------------------
(***************************************************************************)
(* process_schedule, applied to the table P the handler leaves behind and  *)
(* to the reschedule flag.                                                 *)
(***************************************************************************)
Running(P) == P[current].state = "RUNNING"

HasSliceLeft(P, flag) ==
  Running(P) /\ ~flag /\ P[current].ticks_used + 1 < P[current].time_slice

\* Mutant: demotion below the last level.
Charge_NoFloor(P, flag) ==
  IF ~Running(P) THEN P
  ELSE [P EXCEPT ![current].ticks_used = 0,
                 ![current].priority = IF ~flag THEN @ + 1 ELSE @]

\* The end of a slice: an involuntary one costs a priority level.
Charge(P, flag) ==
  IF ~Running(P) THEN P
  ELSE [P EXCEPT ![current].ticks_used = 0,
                 ![current].priority = IF ~flag /\ @ + 1 < Levels THEN @ + 1 ELSE @]

\* Mutant: every scan starts from the bottom of the table.
Distance_FromBottom(c, i) == i

\* How far the round-robin scan that starts after slot c goes to reach slot i.
Distance(c, i) == IF i > c THEN i - c ELSE i - c + SlotCount

NextReady(P) ==
  LET ready == {i \in Slots : P[i].state = "READY"}
      top == {i \in ready : \A j \in ready : P[i].priority <= P[j].priority}
  IN {i \in top : \A j \in top : Distance(current, i) <= Distance(current, j)}

\* With no READY slot, a task that cannot go on gives way to the bootstrap.
Successor(P) ==
  IF NextReady(P) # {} THEN NextReady(P)
  ELSE IF P[current].state \in {"ZOMBIE", "STOPPED", "WAITING"} THEN {Bootstrap} ELSE {}

\* Mutant: the preempted task is not put back.
SwitchTo_KeepsPrevious(P, n) ==
  LET run == [P EXCEPT ![n].state = "RUNNING"]
  IN IF P[current].reap_pending THEN ReapProcess(run, current) ELSE run

SwitchTo(P, n) ==
  LET put == IF Running(P) THEN [P EXCEPT ![current].state = "READY"] ELSE P
      run == [put EXCEPT ![n].state = "RUNNING"]
  IN IF P[current].reap_pending THEN ReapProcess(run, current) ELSE run

\* With process_lock held: the slice is charged, or the processor changes hands.
LockedSchedule(P, flag) ==
  \/ /\ HasSliceLeft(P, flag)
     /\ proc' = [P EXCEPT ![current].ticks_used = @ + 1]
     /\ resched' = FALSE
     /\ UNCHANGED current
  \/ /\ ~HasSliceLeft(P, flag)
     /\ resched' = (flag /\ ~Running(P))
     /\ LET Q == Charge(P, flag)
        IN \/ /\ Successor(Q) = {}
              /\ proc' = Q
              /\ UNCHANGED current
           \/ \E n \in Successor(Q) :
                /\ proc' = SwitchTo(Q, n)
                /\ current' = n

\* A try-lock that fails drops the switch, whoever asked for it.
Schedule(P, flag) ==
  \/ /\ Contended
     /\ proc' = P
     /\ resched' = flag
     /\ UNCHANGED current
  \/ LockedSchedule(P, flag)

\* A handler that returns the frame it was given.
ReturnWith(P) == proc' = P /\ UNCHANGED <<current, resched>>

-----------------------------------------------------------------------------
(***************************************************************************)
(* Creation.                                                               *)
(***************************************************************************)
NewProcess(pid, parent_pid, tgid, tid, priority) ==
  [ClearProcess EXCEPT !.pid = pid, !.state = "READY", !.parent_pid = parent_pid,
                       !.thread_group_pid = tgid, !.tid = tid, !.priority = priority,
                       !.time_slice = Quantum[priority]]

\* exec_run_file in the kernel's main loop.
SpawnProcess ==
  /\ "spawn" \in Workload
  /\ current = Bootstrap
  /\ next_pid <= MaxPid
  /\ \E s \in FindFreeSlot(proc) :
       ReturnWith([proc EXCEPT
         ![s] = NewProcess(next_pid, proc[current].pid, next_pid, next_tid,
                           PriorityDefault)])
  /\ next_pid' = next_pid + 1
  /\ next_tid' = next_tid + 1
  /\ UNCHANGED <<died, delivered>>

\* The running program may issue a system call; the instance makes it call c.
InUser == current # Bootstrap /\ ~proc[current].rewound
Issues(c) == c \in Workload /\ InUser

\* The program starts a new call: what the last one returned is forgotten.
Entered(P) == [P EXCEPT ![current].call = "none", ![current].arg = 0,
                        ![current].eax = 0, ![current].status = NoStatus]

\* user_page_count is not zero: threads list no pages of their own.
HasUserPages(p) == p.pid # 0

\* A fork takes two thread ids: one in the creation, one after it.
ForkCurrent ==
  /\ Issues("fork")
  /\ HasUserPages(proc[current])
  /\ next_pid <= MaxPid
  /\ \E s \in FindFreeSlot(proc) :
       LET parent == proc[current]
       IN ReturnWith([Entered(proc) EXCEPT
            ![s] = NewProcess(next_pid, parent.pid, parent.thread_group_pid,
                              next_tid + 1, parent.priority),
            ![current].eax = next_pid])
  /\ next_pid' = next_pid + 1
  /\ next_tid' = next_tid + 2
  /\ UNCHANGED <<died, delivered>>

CreateUserThread ==
  /\ Issues("thread")
  /\ next_tid <= MaxTid
  /\ \E s \in FindFreeSlot(proc) :
       LET parent == proc[current]
       IN ReturnWith([Entered(proc) EXCEPT
            ![s] = [NewProcess(0, 0, parent.thread_group_pid, next_tid, parent.priority)
                      EXCEPT !.is_thread = TRUE],
            ![current].eax = next_tid])
  /\ next_tid' = next_tid + 1
  /\ UNCHANGED <<next_pid, died, delivered>>

\* Any other call, a failed creation included: it returns a value to the program.
OtherSyscall ==
  /\ Issues("other")
  /\ ReturnWith(Entered(proc))
  /\ UNCHANGED <<next_pid, next_tid, died, delivered>>

\* Programs call exec from their main thread.
ExecReplaceCurrent ==
  /\ Issues("exec")
  /\ HasUserPages(proc[current])
  /\ ReturnWith([Entered(proc) EXCEPT
       ![current].exit_code = 0, ![current].wait_pid = 0,
       ![current].wait_status = FALSE, ![current].reap_pending = FALSE])
  /\ UNCHANGED <<next_pid, next_tid, died, delivered>>

-----------------------------------------------------------------------------
(***************************************************************************)
(* Waiting for children.                                                   *)
(***************************************************************************)

\* The history of a status handed over for the pid of slot i.
Delivered(P, i) == [delivered EXCEPT ![P[i].pid] = IF @ < 2 THEN @ + 1 ELSE @]

Waits(P, pid) == [Entered(P) EXCEPT ![current].call = "waitpid", ![current].arg = pid]

\* waitpid with a dead child at hand: its status and its slot are taken at once.
WaitCollects(pid) ==
  \E z \in FindZombieChild(proc, proc[current].pid, pid) :
    /\ ReturnWith(ReapProcess([Waits(proc, pid) EXCEPT
         ![current].eax = proc[z].pid, ![current].status = proc[z].exit_code], z))
    /\ delivered' = IF proc[z].pid = 0 THEN delivered ELSE Delivered(proc, z)

WaitFails(pid) ==
  /\ ~HasChild(proc, proc[current].pid, pid)
  /\ ReturnWith([Waits(proc, pid) EXCEPT ![current].eax = SysErr])
  /\ UNCHANGED delivered

\* Mutant: a child that is dead already does not keep the caller from blocking.
WaitBlocks_IgnoresDead(pid) ==
  /\ HasChild(proc, proc[current].pid, pid)
  /\ Schedule([Waits(proc, pid) EXCEPT
       ![current].eax = Blocked, ![current].state = "WAITING", ![current].wait_pid = pid,
       ![current].wait_status = TRUE, ![current].wait_channel = NoChannel], TRUE)
  /\ UNCHANGED delivered

\* Mutant: the caller is marked as waiting and goes on running.
WaitBlocks_NoSwitch(pid) ==
  /\ HasChild(proc, proc[current].pid, pid)
  /\ FindZombieChild(proc, proc[current].pid, pid) = {}
  /\ ReturnWith([Waits(proc, pid) EXCEPT
       ![current].eax = Blocked, ![current].state = "WAITING", ![current].wait_pid = pid,
       ![current].wait_status = TRUE, ![current].wait_channel = NoChannel])
  /\ UNCHANGED delivered

WaitBlocks(pid) ==
  /\ HasChild(proc, proc[current].pid, pid)
  /\ FindZombieChild(proc, proc[current].pid, pid) = {}
  /\ Schedule([Waits(proc, pid) EXCEPT
       ![current].eax = Blocked, ![current].state = "WAITING", ![current].wait_pid = pid,
       ![current].wait_status = TRUE, ![current].wait_channel = NoChannel], TRUE)
  /\ UNCHANGED delivered

WaitPid(pid) ==
  /\ Issues("waitpid")
  /\ WaitCollects(pid) \/ WaitFails(pid) \/ WaitBlocks(pid)
  /\ UNCHANGED <<next_pid, next_tid, died>>

(***************************************************************************)
(* Dying.  wake_waiting_parent completes the parent's waitpid from the     *)
(* outside: it writes the saved frame and the status word, and leaves the  *)
(* child's slot to be reaped when the scheduler leaves it.                 *)
(***************************************************************************)
\* Mutant: a parent that waits for one child is woken by another.
WaitingParent_AnyChild(P, c) ==
  First({i \in UserSlots : P[i].state = "WAITING" /\ P[i].pid = P[c].parent_pid})

\* Mutant: the parent is woken in whatever state it is.
WaitingParent_AnyState(P, c) ==
  First({i \in UserSlots : P[i].pid = P[c].parent_pid
                           /\ P[i].wait_pid \in {WaitAny, P[c].pid}})

WaitingParent(P, c) ==
  First({i \in UserSlots : /\ P[i].state = "WAITING"
                           /\ P[i].pid = P[c].parent_pid
                           /\ P[i].wait_pid \in {WaitAny, P[c].pid}})

\* Mutant: the collected child is not marked for reaping.
WakeWaitingParent_NoReap(P, c) ==
  [i \in Slots |->
     IF i \in WaitingParent(P, c)
     THEN [P[i] EXCEPT !.eax = P[c].pid,
                       !.status = IF P[i].wait_status THEN P[c].exit_code ELSE @,
                       !.wait_pid = 0, !.wait_status = FALSE,
                       !.wait_channel = NoChannel, !.state = "READY"]
     ELSE P[i]]

WakeWaitingParent(P, c) ==
  [i \in Slots |->
     IF i \in WaitingParent(P, c)
     THEN [P[i] EXCEPT !.eax = P[c].pid,
                       !.status = IF P[i].wait_status THEN P[c].exit_code ELSE @,
                       !.wait_pid = 0, !.wait_status = FALSE,
                       !.wait_channel = NoChannel, !.state = "READY"]
     ELSE IF i = c /\ WaitingParent(P, c) # {}
     THEN [P[i] EXCEPT !.reap_pending = TRUE]
     ELSE P[i]]

\* Mutant: a joiner is woken by any thread's exit.
Joiner_AnyThread(P, c) ==
  First({i \in UserSlots : P[i].state = "WAITING" /\ ~P[i].is_thread /\ P[i].join_tid # 0})

\* The thread that waits in process_join_thread for the thread of slot c.
Joiner(P, c) ==
  First({i \in UserSlots : /\ P[i].state = "WAITING" /\ ~P[i].is_thread
                           /\ P[i].join_tid = P[c].tid})

WakeJoiner(P, c) ==
  [i \in Slots |->
     IF i \in Joiner(P, c)
     THEN [P[i] EXCEPT !.eax = P[c].tid, !.status = P[c].exit_code, !.join_tid = 0,
                       !.state = "READY"]
     ELSE P[i]]

Killed(P, i, code) == [P EXCEPT ![i].exit_code = code, ![i].state = "ZOMBIE"]

\* Mutant: nobody is told of the death.
Died_Silent(P, i, code) == Killed(P, i, code)

\* The table after slot i dies with the code.
Died(P, i, code) ==
  LET Q == Killed(P, i, code)
  IN IF P[i].is_thread THEN WakeJoiner(Q, i) ELSE WakeWaitingParent(Q, i)

RecordDeath(P, i, code) ==
  LET pid == P[i].pid
  IN IF pid = 0 THEN UNCHANGED <<died, delivered>>
     ELSE /\ died' = [died EXCEPT ![pid] = IF @ = NoStatus THEN code ELSE Disturbed]
          /\ delivered' = IF \E w \in WaitingParent(Killed(P, i, code), i) : P[w].wait_status
                          THEN Delivered(P, i) ELSE delivered

\* exit and thread_exit: the scheduler is asked to switch.
ExitCurrent(code) ==
  /\ Issues("exit")
  /\ Schedule(Died(Entered(proc), current, code), TRUE)
  /\ RecordDeath(proc, current, code)
  /\ UNCHANGED <<next_pid, next_tid>>

\* An exception in user mode, which the dispatcher turns into an exit.
FaultCurrent ==
  /\ Issues("fault")
  /\ Schedule(Died(Entered(proc), current, 128 + GeneralProtection), resched)
  /\ RecordDeath(proc, current, 128 + GeneralProtection)
  /\ UNCHANGED <<next_pid, next_tid>>

\* A stop cuts short the call its target is blocked in, or was blocked in when it died:
\* what the program finds in eax if it goes on is no result of that call.
Stopped(P, t) ==
  [P EXCEPT ![t].state = "STOPPED",
            ![t].call = IF P[t].state \in {"WAITING", "ZOMBIE"} THEN "none" ELSE @]

\* The history of a stop that reaches the dead.
Reached(P, t) ==
  IF P[t].state = "ZOMBIE" THEN [died EXCEPT ![P[t].pid] = Disturbed] ELSE died

\* kill: the target must exist, differ from the caller and descend from it.
Signal(t, sig) ==
  /\ Issues("kill")
  /\ proc[t].pid \notin {0, proc[current].pid}
  /\ t \in FindPid(proc, proc[t].pid)
  /\ IsDescendantOrChild(proc, t, proc[current].pid)
  /\ \/ /\ sig \in {SIGKILL, SIGTERM}
        /\ ReturnWith(Died(Entered(proc), t, 128 + sig))
        /\ RecordDeath(proc, t, 128 + sig)
     \/ /\ sig = SIGSTOP
        /\ ReturnWith(Stopped(Entered(proc), t))
        /\ died' = Reached(proc, t)
        /\ UNCHANGED delivered
     \/ /\ sig = SIGCONT
        /\ ReturnWith([Entered(proc) EXCEPT
             ![t].state = IF @ = "STOPPED" THEN "READY" ELSE @])
        /\ UNCHANGED <<died, delivered>>
  /\ UNCHANGED <<next_pid, next_tid>>

\* process_reap_pid, which the kernel's main loop calls for the programs it started.
ReapPid(z) ==
  /\ "reap_pid" \in Workload
  /\ current = Bootstrap
  /\ proc[z].state = "ZOMBIE" /\ proc[z].parent_pid = proc[Bootstrap].pid
  /\ ReturnWith(ReapProcess(proc, z))
  /\ delivered' = Delivered(proc, z)
  /\ UNCHANGED <<next_pid, next_tid, died>>

-----------------------------------------------------------------------------
(***************************************************************************)
(* Threads, channels, the timer.                                           *)
(***************************************************************************)
Threads(P, group, tid) ==
  First({i \in UserSlots : P[i].is_thread /\ P[i].thread_group_pid = group /\ P[i].tid = tid})

Joins(P, tid) == [Entered(P) EXCEPT ![current].call = "join", ![current].arg = tid]

JoinThread(tid) ==
  /\ Issues("thread")
  /\ ~proc[current].is_thread
  /\ LET found == Threads(proc, proc[current].thread_group_pid, tid)
     IN \/ /\ found = {}
           /\ ReturnWith([Joins(proc, tid) EXCEPT ![current].eax = SysErr])
        \/ \E t \in found :
             \/ /\ proc[t].state = "ZOMBIE"
                /\ ReturnWith(ReapProcess([Joins(proc, tid) EXCEPT
                     ![current].eax = tid, ![current].status = proc[t].exit_code], t))
             \/ /\ proc[t].state # "ZOMBIE"
                /\ Schedule([Joins(proc, tid) EXCEPT
                     ![current].eax = Blocked, ![current].join_tid = tid,
                     ![current].state = "WAITING"], TRUE)
  /\ UNCHANGED <<next_pid, next_tid, died, delivered>>

\* process_sleep_on from a mouse, IPC or pipe read: the call is to be issued again.
Slept(ch) ==
  [Entered(proc) EXCEPT
     ![current].call = "sleep", ![current].eax = Blocked, ![current].rewound = TRUE,
     ![current].wait_channel = ch, ![current].state = "WAITING"]

SleepOn(ch) ==
  /\ Issues("sleep")
  /\ proc[current].state # "UNUSED"
  /\ Schedule(Slept(ch), TRUE)
  /\ UNCHANGED <<next_pid, next_tid, died, delivered>>

\* The call issued again after a sleep: its number is what eax holds by then.
\* Blocked is the number of no call; a pid is the number of some other one, whose
\* effect is that of the action for it.
Reissue ==
  /\ current # Bootstrap
  /\ proc[current].rewound
  /\ ReturnWith([proc EXCEPT ![current].rewound = FALSE,
                             ![current].eax = IF @ = Blocked THEN SysErr ELSE 0])
  /\ UNCHANGED <<next_pid, next_tid, died, delivered>>

Woken(P, ch) ==
  [i \in Slots |->
     IF i # Bootstrap /\ P[i].state = "WAITING" /\ P[i].wait_channel = ch
     THEN [P[i] EXCEPT !.wait_channel = NoChannel, !.state = "READY"]
     ELSE P[i]]

\* process_wakeup by the running program's system call.
Wakeup(ch) ==
  /\ Issues("wakeup")
  /\ ReturnWith(Woken(Entered(proc), ch))
  /\ UNCHANGED <<next_pid, next_tid, died, delivered>>

\* process_wakeup by a device interrupt (the mouse's): no scheduling.
DeviceWakeup(ch) ==
  /\ "wakeup" \in Workload
  /\ ReturnWith(Woken(proc, ch))
  /\ UNCHANGED <<next_pid, next_tid, died, delivered>>

Yield ==
  /\ Issues("yield")
  /\ Schedule(Entered(proc), TRUE)
  /\ UNCHANGED <<next_pid, next_tid, died, delivered>>

\* What polling the mouse may do before the timer interrupt schedules.
Polled == {proc} \cup {Woken(proc, ch) : ch \in IF "wakeup" \in Workload THEN Channels ELSE {}}

TimerInterrupt ==
  /\ \E P \in Polled : Schedule(P, resched)
  /\ UNCHANGED <<next_pid, next_tid, died, delivered>>

\* A tick that gets process_lock.
LockedTick ==
  /\ \E P \in Polled : LockedSchedule(P, resched)
  /\ UNCHANGED <<next_pid, next_tid, died, delivered>>

-----------------------------------------------------------------------------
\* process_init.
Init ==
  /\ proc = [i \in Slots |->
       IF i = Bootstrap THEN [ClearProcess EXCEPT !.pid = 1, !.state = "RUNNING"]
       ELSE ClearProcess]
  /\ current = Bootstrap
  /\ next_pid = 2
  /\ next_tid = 1
  /\ resched = FALSE
  /\ died = [k \in 1 .. MaxPid |-> NoStatus]
  /\ delivered = [k \in 1 .. MaxPid |-> 0]

Next ==
  \/ SpawnProcess
  \/ ForkCurrent
  \/ CreateUserThread
  \/ ExecReplaceCurrent
  \/ OtherSyscall
  \/ \E pid \in 0 .. MaxPid : WaitPid(pid)
  \/ \E code \in ExitCodes : ExitCurrent(code)
  \/ FaultCurrent
  \/ \E t \in UserSlots, sig \in Signals : Signal(t, sig)
  \/ \E z \in UserSlots : ReapPid(z)
  \/ \E tid \in 1 .. MaxTid : JoinThread(tid)
  \/ \E ch \in Channels : SleepOn(ch) \/ Wakeup(ch) \/ DeviceWakeup(ch)
  \/ Reissue
  \/ Yield
  \/ TimerInterrupt

Spec == Init /\ [][Next]_vars

\* The interval timer keeps ticking, whatever the programs do, and some of its ticks find
\* process_lock free: the other processors hold it for a few instructions at a time.
FairSpec == Spec /\ WF_vars(LockedTick)

-----------------------------------------------------------------------------
Pids == 1 .. MaxPid

Slot == [pid : 0 .. MaxPid, state : States, parent_pid : 0 .. MaxPid, exit_code : Nat,
         wait_pid : 0 .. MaxPid, wait_status : BOOLEAN,
         wait_channel : Channels \cup {NoChannel}, reap_pending : BOOLEAN,
         priority : 0 .. Levels - 1, time_slice : Nat, ticks_used : Nat,
         tid : Nat, thread_group_pid : 0 .. MaxPid, is_thread : BOOLEAN, join_tid : Nat,
         eax : Int, rewound : BOOLEAN, call : {"none", "waitpid", "join", "sleep"},
         arg : Nat, status : Int]

\* Every slot of the table, and what the scheduler keeps beside it, stays in range.
TypeOK ==
  /\ proc \in [Slots -> Slot]
  /\ current \in Slots
  /\ next_pid \in 2 .. MaxPid + 1
  /\ next_tid \in Nat
  /\ resched \in BOOLEAN
  /\ died \in [Pids -> Int]
  /\ delivered \in [Pids -> 0 .. 2]

\* Only the slot whose frame the processor runs is RUNNING, in whatever order tasks
\* block, die, are killed, stopped, woken and preempted (process_schedule's bookkeeping).
OneRunning == \A s \in Slots : proc[s].state = "RUNNING" => s = current

\* No program runs on after it exited, blocked or was stopped: whenever a handler
\* returns, the slot it returns to is RUNNING.
CurrentRuns == proc[current].state = "RUNNING"

\* No lost wakeup in waitpid: a process blocked in it never has a dead child that it
\* waits for, however the child died and whatever the process's other children did.
\* (A thread has pid 0 and would wait for the children of every thread.)
NoLostChild ==
  \A s \in UserSlots :
    proc[s].state = "WAITING" /\ proc[s].call = "waitpid" /\ ~proc[s].is_thread
      => FindZombieChild(proc, proc[s].pid, proc[s].wait_pid) = {}

\* A waitpid that has returned a child returned one the caller asked for, with the code
\* that child died with (the checks of user/process_test.c), unless a signal has reached
\* the child since: a KILL of a dead process overwrites its code.
WaitResult ==
  \A s \in UserSlots :
    proc[s].call = "waitpid" /\ proc[s].state \in {"READY", "RUNNING"} =>
      \/ proc[s].eax = SysErr
      \/ /\ proc[s].eax \in Pids
         /\ proc[s].arg \in {WaitAny, proc[s].eax}
         /\ died[proc[s].eax] \in {proc[s].status, Disturbed}

\* No lost wakeup in a join: a process blocked in it waits for a thread that is still
\* to exit, whichever thread exited while it was blocking.
NoLostJoin ==
  \A s \in UserSlots :
    proc[s].state = "WAITING" /\ proc[s].join_tid # 0 =>
      \E t \in UserSlots : /\ proc[t].is_thread /\ proc[t].tid = proc[s].join_tid
                           /\ proc[t].state # "ZOMBIE"

\* A join that has returned names the thread that was joined.
JoinResult ==
  \A s \in UserSlots :
    proc[s].call = "join" /\ proc[s].state \in {"READY", "RUNNING"} =>
      proc[s].eax \in {SysErr, proc[s].arg}

\* Nobody sleeps on after the thread he joined has exited, and a join that has returned
\* names the thread that was joined.
JoinsHold == NoLostJoin /\ JoinResult

\* A joined thread is gone from the table (the lifecycle README.md:464 lists as done).
JoinReleases ==
  \A s, t \in UserSlots :
    /\ proc[s].call = "join" /\ proc[s].state = "RUNNING" /\ proc[s].eax = proc[s].arg
    /\ proc[t].is_thread /\ proc[t].tid = proc[s].arg
    => proc[t].state # "ZOMBIE"

\* The code a dead process is found with is the one it died with first: nothing that
\* happens between its exit and its parent's wait changes it ("child exit status
\* mismatch" in user/process_test.c).
ExitCodeKept ==
  \A s \in UserSlots :
    proc[s].state = "ZOMBIE" /\ ~proc[s].is_thread => proc[s].exit_code = died[proc[s].pid]

\* A dead process stays dead: its slot is not given the processor again, and becomes
\* free only by being reaped, unless a STOP reaches it (a CONT makes it run again then).
DeadStay ==
  \A s \in UserSlots :
    proc[s].state = "ZOMBIE" =>
      \/ proc'[s].state \in {"ZOMBIE", "UNUSED"}
      \/ proc[s].pid \in Pids /\ died'[proc[s].pid] = Disturbed
DeadStaysDead == [][DeadStay]_vars

\* A task asleep on a channel goes on only by that channel's wakeup, or by a signal.
SleepHolds ==
  [][\A s \in UserSlots :
       proc[s].state = "WAITING" /\ proc[s].wait_channel # NoChannel
         => \/ proc'[s] = proc[s]
            \/ proc'[s].state \in {"ZOMBIE", "STOPPED", "UNUSED"}
            \/ proc'[s].eax = Blocked]_vars

\* A call that slept is completed when it is issued again: it does not come back with an
\* error (the blocking mouse and pipe reads README.md lists as done).
RestartSucceeds ==
  [][\A s \in UserSlots : proc[s].rewound /\ ~proc'[s].rewound /\ proc'[s].state = "RUNNING"
       => proc'[s].eax # SysErr]_vars

\* Once the programs stop giving the processor away early, every READY slot gets it:
\* the levels of the run queue only sink, and round robin serves the lowest fairly.
EveryReadyRuns ==
  (<>[][~(Yield \/ \E ch \in Channels : SleepOn(ch))]_vars)
    => \A s \in Slots : proc[s].state = "READY" ~> proc[s].state # "READY"
-----------------------------------------------------------------------------
(***************************************************************************)
(* The life of the processes of a program without signals, channels and    *)
(* threads, as ChildLife tells it.                                         *)
(***************************************************************************)
Unsignalled == {"spawn", "fork", "waitpid", "exit", "fault", "yield", "exec", "reap_pid", "other"}

\* The stage of pid p's life in a table, where pids from n on are to come.
LifeIn(P, n, p) ==
  LET slots == FindPid(P, p)
  IN IF slots = {} THEN (IF p < n THEN "released" ELSE "unborn")
     ELSE IF \E s \in slots : P[s].state = "ZOMBIE" THEN "exited" ELSE "alive"

\* The code it died with, as the table tells it as long as it is there.
VerdictIn(P, D, p) ==
  LET zombies == {s \in FindPid(P, p) : P[s].state = "ZOMBIE"}
  IN IF zombies = {} THEN D[p] ELSE P[CHOOSE s \in zombies : TRUE].exit_code

\* The codes a program can die with: its own, a fault's, a signal's.
DeathCodes == ExitCodes \cup {128 + GeneralProtection, 128 + SIGKILL, 128 + SIGTERM}

Lives(P, n) == [p \in 2 .. MaxPid |-> LifeIn(P, n, p)]
Verdicts(P, D) == [p \in 2 .. MaxPid |-> VerdictIn(P, D, p)]
Handovers(H) == [p \in 2 .. MaxPid |-> H[p]]

Life == INSTANCE ChildLife WITH
  Pids <- 2 .. MaxPid,
  Codes <- DeathCodes,
  life <- Lives(proc, next_pid),
  verdict <- Verdicts(proc, died),
  handed <- Handovers(delivered)
=============================================================================
