# LionOS: specification, model checking and proofs

This directory holds the formal models of LionOS, a 32-bit x86 kernel with preemptive user
processes, copy-on-write fork, IPC, pipes, a persistent file system, a window system and
drivers. Paths such as `src/process.c` are relative to the repository's root; the table in
`PROJECT.json` ("map") names the source lines behind every definition.

## 1. The system

### 1.1 Parts, state and operations

| Component | State | Operations | Hard behaviour | What makes it correct |
|---|---|---|---|---|
| Process table, scheduler (`src/process.c`, `signal.c`) | `processes[32]`, `current_by_cpu[]`, `next_pid`, `next_tid`, `reschedule_requested` | create, fork, exec, exit, fault, waitpid, reap, signal, thread create/exit/join, sleep_on, wakeup, yield, timer tick | a death against the parent's wait; signals in any state; a try-lock that drops switches; priorities with demotion | one RUNNING slot; no lost wakeup; each death reported once with its code; nothing runs after it died |
| Dispatcher, system calls (`src/idt.c`, `syscall.c`) | the saved frame | decode a call, act on its result: return, block, issue again, yield, exit | the frame of a blocked call is changed by others | a blocked call is completed or issued again as it was |
| Physical memory, address spaces (`src/memory.c`, `paging.c`, `exec.c`) | `page_refs[]`, page tables, `user_pages[]`, kernel stacks | alloc, retain, free, map, resolve copy-on-write, load an image | running out of pages half-way; two records of one fact (page tables and `user_pages[]`) | isolation; reference counts equal to holders |
| IPC (`src/ipc.c`) | `messages[]` | send, receive, blocking receive | sleep against send; slots freed out of order | each message once, to its receiver; no lost wakeup |
| Pipes (`src/pipe.c`) | 16 rings with two end counts | create, read, write, close | full and empty rings, a short write that has already slept | bytes once and in order; whoever sleeps has reason to |
| Disk and LionFS (`src/diskfs.c`, `ata.c`) | superblock, directory, file regions; a copy of the directory in memory | mount, write, remove, read | power failures between sectors; a sector write that fails | what was reported done is on the disk |
| RAM files, VFS (`src/ramfs_userland.c`, `vfs.c`) | descriptor tables, RAM files | open, read, write, append, close, remove, inherit on fork | two backends, limits, an open that fails half-way, descriptors that outlive a file | a name is one file; what was written with success reads back |
| Kernel heap (`src/heap.c`) | the table of page runs | kmalloc, kfree | no lock: processes run between two steps of the desktop's call | no page lost or given twice |
| Kernel log (`src/gui_lion.c`, `zlog.c`, `kernel_diag.c`) | line ring, log file | log, read, persist, rotate, replay, panic | a reader without a lock, rotation against power failure, a panic over the lock's holder | lines whole, in order, none missing |
| Keyboard, mouse (`src/keyboard.c`, `mouse.c`) | decoder state, character and event rings | interrupt, poll, read, blocking read, boot sequences | one output buffer for two devices; interrupt against main loop; answers that do not come | characters as typed; packets whole; the keyboard stays on |
| xHCI (`src/xhci.c`) | command, event, control and report rings with cycle bits; slots | enqueue, poll events, enumerate, time out, recover, report | wrap and cycle bit; late answers; an enumeration between reports | every report handled once; an answer is taken for its own request |
| Network (`src/net.c`) | receive ring, ARP's buffer, the TCP client's position; loopback table | resolve, fetch a page, ping; send and receive on a port | loss, duplication, reordering; two users of one ring | the page in order; nothing acknowledged that is not kept |
| SMP start (`src/smp.c`, `cpu.c`, `boot/boot.asm`) | trampoline words, masks, online count | start an application processor, time out | a processor that comes up late | each processor has its own stack and index |
| Desktop (`src/gui_lion.c`, `browser.c`, `framebuffer.c`) | windows, focus, drag, start menu, terminal, notepad, file manager, dirty rectangle | a step per timer tick: mouse, keys, redraw | every order of clicks, drags and keys; redrawing only what is dirty | keys go where the focus is; the screen is true; notes are saved |
| Kernel main loop (`src/kernel.c`, `kernel_runtime.c`) | test program's phase | launch, watch and reap the integration programs | a step per idle turn, interleaved with everything | every program launched is reaped |
| Loader, console, graphics, shell, platform devices, user library | | | straight-line code, drawing, text | |

### 1.2 How they interact

* User programs enter through `int 0x80` and interrupts; `interrupt_dispatch` calls the
  handler and then, when a call blocked, yielded or exited, or on a timer tick,
  `process_schedule`, which returns the frame of the task to run. All this is done with interrupts
  off: a handler is one atomic step on the processor that runs tasks.
* IPC, pipes and the mouse put their readers to sleep with `process_sleep_on(channel)` and
  wake them with `process_wakeup(channel)`. A sleeper's instruction pointer is moved back
  over `int 0x80`: it is to look again when it is woken.
* `process.c` takes and gives back pages through `memory.c` and `paging.c`; `exec.c` builds
  images; kernel stores into a program's memory resolve a copy-on-write page first (`paging_resolve_cow`).
* The application processors run the timer interrupt's `process_schedule`, too. They own no
  tasks: `cpu_owner` is the creator's processor, and the loop that would look at another
  owner's tasks is disabled (`src/process.c:290-295`, although `README.md:85` lists work
  stealing). All they do is hold `process_lock` for a moment, which is enough to make the
  bootstrap processor's try-lock fail.
* The file systems run under `vfs_lock`, one call at a time, with polled disk I/O.
* The main loop is task 0. It runs the desktop with interrupts on: device interrupts, and the
  system calls of every process the timer lets run, come between any two of its steps. The heap, the
  receive ring of the network card, ARP's buffer, the input rings and the log's ring are shared
  across that border, some with a lock, some without.
* `mouse.c` drives the i8042 and, through `xhci.c`, a USB mouse and keyboard; `keyboard.c` decodes for both.
* `kernel_log` writes the ring of `gui_lion.c` and, once persistence is ready, the file
  behind it through `zlog.c` and the VFS.

## 2. The modules

| Module | Models | Notes |
|---|---|---|
| `Process` | process table, scheduler, dispatcher | one action per system call or interrupt, its trailing `process_schedule` included |
| `ChildLife` | what fork, exit and waitpid promise, whatever implements it | refined by `Process`: checked in `MCChildren`, proved in `ProcessProofs` |
| `Memory` | frames, counts, page tables, fork/exec/reap's page traffic | a frame's content is one value |
| `Heap` | kmalloc and kfree between the calls of processes | one action per store of an entry |
| `Ipc` | the message table on top of `Process` | EXTENDS `Process`: every process behaviour interleaves |
| `Mailbox` | what IPC promises | refined by `Ipc` |
| `Pipe` | rings, ends, blocking, on top of `Process` | bytes are numbered in the order they are written |
| `DiskFs` | diskfs on a disk that is written sector by sector | crashes, failed writes, reboots |
| `Files` | the VFS and its descriptors over RAM files and the disk's files | a call is one action |
| `KernelLog` | the log's ring, its file on the disk or in memory, rotation, replay, panic | two threads of control, failing calls, reboots |
| `TrbRing` | rings of TRBs with cycle bits and links | used by `Xhci` on both sides |
| `Xhci` | the USB driver and the controller | one awaited answer at a time |
| `Input` | i8042, keyboard, mouse, their rings and readers | boot, interrupts, main loop, a process |
| `Net` | the RTL8139's ring, ARP, the TCP client, ping | a network that loses, repeats, reorders |
| `Loopback` | the loopback table | |
| `Desktop` | windows, focus, drag, keys, redraw | one step of `gui_step` in up to five actions |
| `Smp` | starting the other processors | late processors, lost startup messages |
| `ProcessProofs`, `MemoryProofs`, `HeapSmpFilesProofs`, `NetProofs`, `PipeProofs`, `IpcProofs`, `KernelLogProofs`, `InputDesktopProofs` | the theorems | see 4 |
| `MC...` | constants, refinement mappings, parts of a run | see 2.10 |

### 2.1 Process

`proc[s]` is `processes[s]`; `current` is `current_by_cpu[0]`; `resched` is
`reschedule_requested`. The saved frame's eax, the moved-back instruction pointer
(`rewound`) and the word a status pointer names (`status`) belong to the slot, since other
tasks write them (`wake_waiting_parent`). `wait_status` and `join_tid` stand for "the pointer
is set". `Schedule(P, flag)` is `process_schedule` applied to the table P the handler left,
with the three ways it ends: the try-lock fails (only if `Contended`), the slice has time left,
or the processor changes hands (`SwitchTo`, which also reaps a task with `reap_pending`).
`Workload` names the calls the programs of an instance issue; which one comes next is free.

`died` and `delivered` are history: the code each pid first died with, and how often its
status was handed over.

Left out: page lists and stacks (they are in `Memory`), descriptors, capabilities,
`pending_signals` (nobody reads them), floating-point state, kernel threads and setters that
nothing calls, status pointers outside the program, `cpu_owner` (see 1.2). exec is called
from main threads only. `process_reap_pid` is called by the kernel's main loop for programs
it started, and by nobody else (`src/kernel.c:102-167`). With the lock contended, the
frame a dropped switch leaves behind in `saved_frame` is not told from the program's own.

### 2.2 Memory

`page_refs` is the array of that name; `space[p]` is the memory side of a slot: `user_pages[]`,
the page-table entries with their mode (`ro`, `rw`, or read-only and marked `cow`), the
directory's frames, the kernel stacks, a thread's stack. The two records of a program's
pages, `user_pages[]` and the page tables, are kept apart, as the code does: fork copies from
the tables, exec and reap go by the list. `page_alloc` is first fit. `content` and `expected`
say what is in a frame and what the program should find there.

Each operation that can run out of pages has a branch for each place where the code undoes
what it did; fork's third branch is the one where the address space is there and the kernel
stack is not. `forgotten` is history: the kernel stacks that `process_exec_replace_current`
overwrites in `deferred_kernel_stack` when a program calls exec twice in one time slice.

Stores come in two kinds. `Write` goes through the program's mapping: the program's own, and those of system calls
that asked `user_range_ok_write` (or fault like the program, as `CR0.WP` is set). `WriteStatus` is
`write_user_u32`, by which waitpid and join hand a status over: it resolves a copy-on-write page and stores in any other,
read-only ones too, since the two calls ask only whether the page is mapped (`src/syscall.c:65`, 78).

Left out: that a directory's frames are contiguous, how many tables an address space needs
(`TableFrames` is a constant), more than one thread per program (joined before exit and exec),
the argument page, the statistics counters.

### 2.3 Ipc, Mailbox, Pipe

`messages` and `pipes` are the arrays. A send or a write changes the table and wakes the
channel in the same step, since both are done under the component's lock with interrupts off.
A call that finds nothing goes to sleep under the same hold of the lock. A message is a number,
its bytes and length are left out. In `Pipe` the ring, its head, tail and count, the short write
and the closing of ends are complete; `PipeWrite` keeps the order of `pipe_write`, which marks the
caller as asleep *before* it returns a short count.

### 2.4 DiskFs

A call (`BeginWrite`, `BeginRemove`) changes the directory in memory and leaves the list of
sectors it will write in `todo`; `WriteSector` writes one; `FailSector` is a write that the drive
reports as failed, stored or not; `Reboot` may come at any moment and mounts what is on the disk. The
mount checks each entry (`Located`): a name whose size is too large or whose start sector is not that of its
place is dropped from memory (`Loaded`), and the files are counted anew (`FoundCount`). A directory entry has 72 bytes, so that entries 7, 14, 21 and 28 lie across two
sectors; `First` and `Last` are the code's arithmetic on entry and sector size. A short name lies in
the first part of such an entry, size and start sector in the second. `settled` is history: what
each name must read as, or `Unsure` while a call on it is under way or failed; `ghosts` are the
names a remove of which failed, `torn` those a mount dropped, of which the disk still has the name.

Left out: the register protocol of a sector, reads that fail, names longer than the first part of
a split entry, sizes within a sector. A sector is written whole or not at all.

### 2.5 Files

`ram`, `disk` and `fds` are the files of the two backends and the descriptor tables. A descriptor is a
path and a backend, as in `struct vfs_fd`: the file behind it is looked up at each call. Names are normal
paths (`path_normalize` maps what it accepts to them). `told` is history: what the calls that reported
success put under each name; `ghosts` the names that a failed open left behind. `available` may be either
at the start, and stays.

### 2.6 KernelLog

`main` and `panic` are two threads of control with a program counter and their locals; `lock` is
`persistence_lock`. A line is its boot, number, author and length; a file is a sequence of units, the
last of a line its newline, so that a cut in the middle of a line shows. `kernel_log_read` copies an entry
in two halves without a lock and compares the sequence number before and after. `PowerOff` may come at any
moment and keeps the disk alone.

`file` has the log in each of its `Homes`: the RAM file system, the disk's directory in memory, and the disk itself. As
`backend_for` does, every call finds the one in RAM first. Each vfs_ call is one step and may fail: a write to the disk leaves the
old file, the new one in memory, or on the disk as well (`HalfDone`); a remove that fails has forgotten the file and may have left
it on the disk; an open whose disk write fails makes the file in RAM (`Created`), where a write keeps `RamLimit` units and says
nothing (`RamHas`). The steps of `append_log_file_locked` are `Ensure`, `Room`, `Remove`, `Reopen`, `Rewrite`,
`Recheck` (the second look at the file, with the limit of the home it has by then) and `WriteLine`. `damaged` is history: a
rewrite was cut in RAM, or a failed write ran over the sectors of a file that a failed remove had left. Left out: a
full RAM file system, a kmalloc that fails and two files of one name, the rest of what happens inside a call (`DiskFs`, `Files`).

### 2.7 TrbRing, Xhci, Input

A TRB belongs to the consumer when its cycle bit is the one the consumer expects. `TrbRing` has the
producer's enqueue with its links (`AdvanceLink`), the consumer's step past a link, and the event ring;
`Xhci` uses it for the command ring, ep0, one report ring per device, and the events. `job` is the
enumeration that runs, as a list of what it will ask next; `dev` the driver's variables of each device,
`slot` the controller's. The controller executes a command or a transfer, reports, faults or delays an
answer in actions of its own; `tally` counts what a scenario allows and notes what the properties set
apart (`lost`: reports read away; `adrift`: ep0's index was set back; `late`: answers that came after their
time-out; `kept`: a Disable Slot that failed or was given up; `foreign`: an answer taken for another's).

In `Input` the output buffer `out` holds one byte of one source. Each stage of the boot takes the
next byte as the code does, whoever sent it; `ForeStatus`/`ForeData` and `GetRead`/`GetAdvance` are the
main loop's two steps between which an interrupt may come. `machine` names the devices present;
`hist.spoiled` says whose bytes were taken for another's. Left out: a controller that does not answer the
request for its command byte (`src/keyboard.c:93`, 203, 397, `src/mouse.c:197-202`) and a keyboard that answers a
command not at all (`src/keyboard.c:123`). These branches log or return, the mouse's gives up the PS/2 mouse, and none
turns the keyboard off.

### 2.8 Net, Loopback, Desktop

`rx` is the receive ring and `http` the position of `net_http_get`: ARP, SYN, segments. A poll takes a
frame from the ring and drops what it does not wait for, and may find it misaligned (`PollGarbage`), since
`rtl_rx_offset` is moved on by another sum than the chip's. Counted waits may end at any time. The server
is the environment: it sends any segment that is not acknowledged, again, in any order, its FIN and RST.

`Desktop` is one-dimensional: a window covers an interval of `Width` cells, which keeps overlaps,
z-order, bounding boxes and clipping. `Look` is what a window draws: two cells are equal when the same
state draws them. `view` has the dirty rectangle and what each cell shows; a step draws what is dirty and
nothing else. `Signature` has of the notes their length, as the hash of `ui_signature` has; that the hash
of two different states may be the same is left out. A file call of the notepad may fail, silently as in the
code: `SaveFails` leaves the file as it was, a new one empty, or one of the disk partly written, and a load
that fails leaves the notepad empty. `Fit` cuts what a file in memory cannot hold.

### 2.9 Heap, Smp

`Heap` splits the desktop's kmalloc and kfree where an interrupt can fall: choosing an entry, taking
pages, storing each field (in any order, as the compiler may), freeing each page. `FileCall` is a
process's kmalloc and kfree within one system call. `torn` notes that one came in the middle of an entry.

`Smp` has `smp_init` on one side and the trampoline and `smp_ap_main` on the other. `stackWord` and
`cpuWord` are the two shared words. A startup message may be lost, each wait may end before the processor
has come, and the processor may go on at any later time.

### 2.10 MC modules

An MC module gives the constants their values. Several of them put two or three components, or two
workloads on one component, beside each other in one run: a variable `part`, fixed in the initial state,
says which one moves in this behaviour, and the others stand still. No property relates two parts; the
reachable states of a run are the union of those of its parts. `MCChildren` ("signals", "wait"), `MCClock`
("clock", "boot"), `MCIpc` ("full", "wait", "threads"), `MCMemoryParts` ("stores", "comings", "heap"), `MCNet`
("physical", "loopback", "files"), `MCStorage` ("log", "ram log", "disk"). In `MCDesktop` the users, and in `MCXhci` and
`MCInput` the scenarios and machines, are chosen in the same way.

## 3. The runs

| Run | Question | Bounds |
|---|---|---|
| `process` | Does a waitpid ever miss a death, report a wrong one or report one twice? Do the dead stay dead? Does the processor return to a task that cannot run, under KILL, STOP, CONT? Does the table implement `ChildLife`? | 4 slots, 3 pids besides the kernel (child, grandchild, sibling); one-tick slices; with signals, processes die of KILL only |
| `clock` | With the lock contended at any moment, never two RUNNING slots? Does every READY task get the processor? Does a late processor run on a wrong stack? | 3 slots, 4 levels, two-tick slices, one exit code, that of a fault (nothing here looks at codes); 6 processors, one of them unknown to `cpu_get` |
| `ipc` | Does the message table implement `Mailbox`? Is a receiver asleep on a message that is there? Does a join miss an exit or report another thread? | 2 places; 3 processes that fork, exit, are stopped and continued and send 3 messages, and the same who wait for children too and send 2; a process and its threads in 4 slots, asleep on a channel, in a receive and in a join |
| `pipe` | Bytes in order, ring counters, ends; does anybody sleep at a pipe without reason? | 2 pipes (the first is unusable), 2-byte rings, reads and writes of 1 and 3; 2 pids besides the kernel, 3 thread numbers, spawn, exit and threads |
| `memory` | Does anybody see another's store? Are counts exact in every branch that runs out of pages? Does the heap lose or share a page? | 3 programs of 3 pages, 10 frames, 2 values; those that fork and store, those that fork, exec, go and run a thread, those that do not fork and have statuses stored; 4 heap pages, 3 entries |
| `xhci` | Is each report handled once and each answer taken for its own request? Does every enumeration end? | 2 ports, 2 slots; segments of 2 and 3 TRBs; both devices and one plugged or pulled, both and a report of each, one device with a report that is pulled or joined by the other, one device and a fault, one device and three reports, one device and a late answer |
| `input` | Are characters and packets as typed and moved? Does the boot leave the keyboard on? Does a reader sleep on an event? Is every key read? | 6 machines, 2 keys and 2 packets, three of both, rings of 3 and 2 |
| `net` | Is the page a beginning of what was served? Is anything acknowledged that is not kept? Are loopback packets conserved? Is a name one file, and what was told? | 2 segments, 2 fetches, 1 ping, 10 frames, 2 in the ring; 3 entries, 2 ports, 6 packets; 3 names, 2 owners |
| `desktop` | Do keys follow the focus? Is the screen true? Are the notes saved? | 4 cells, 10 users of one to three windows each, five of whom drag one or two of them, shortcut keys for shut windows only (`OpensShut`), no file of the same length opened into the notepad in front (`OtherLength`), 1 character of notes; one writes 2, with new or old notes, of which a file in memory holds 1, and his saves may fail |
| `storage` | Are the log's lines whole, in order, none missing? Is there room for a line after a rotation? Is what was reported done on the disk after any power failure? | ring of 2 lines, 9 units on the disk and 6 in memory, 3 lines of 2 units and a panic's of 1 (beside the main loop: the third line of a boot at most, `LogBound`), 2 boots, 1 failing call in each; the same without a disk and panic, one boot; 3 interchangeable names in 2 directory sectors, one entry across both, 2 troubles |
| `memory_cow_reap` | violation of `Isolation` | finding 1 |
| `process_restart` | violation of `RestartSucceeds` | finding 2 |

Deadlock is checked where the timer ticks for ever: `process`, `clock`, `ipc`, `pipe`. The
other systems may stop: the kernel heap's calls are bounded, the network's frames, the keys, the mouse's packets, the log's boots and the disk's
troubles are bounded, and a user may stop clicking.

*Why the bounds are enough.* The properties of waits, joins and sleeps are about a waiter, the
one it waits for, and a third party: three user slots let all of them exist at once, and slots are
reused within the bounds. A frame shared by three generations has a count of three, the first at which
a wrong drop is told from a right one; 10 frames run out in every branch of fork, exec
and fault. A ring of 2 or 3 wraps, fills and empties within the bytes of a run, and a write of 3 fits
in part. Three messages through two places make an overtaking. Two troubles in a run are a failure in
the recovery from a failure. A report ring of two TRBs per segment crosses a link with every report, and three
reports go round it; an event ring of three is full behind an enumeration. Two keys with prefix and Shift are more
bytes than the character ring has places. Two fetches let segments of the first connection arrive in the
second. Three lines in a ring of two overwrite one, and a file of nine units, or six, rotates within them. Four
cells let two windows overlap, cover each other and lie apart. Six processors are more than one late, one unknown and
one after them. TLC visits every disjunct of the next-state relations in the runs that pass.

*Fairness.* Three runs state liveness.

* `clock`: `WF(LockedTick)`. The interval timer keeps ticking (`src/pit.c` programs it once, every handler
  ends with an end-of-interrupt), and some of its ticks find `process_lock` free, since the other processors
  hold it for a few instructions in a tick of their own. Nothing is assumed about programs, which may loop
  for ever. `EveryReadyRuns` is conditional: once programs stop giving up the processor before their slice
  ends. Without that condition two programs that yield early stay above a third for ever, as strict
  priorities do.
* `xhci`: weak fairness of the controller's and of the driver's steps. The controller is hardware that works
  through its rings; the driver runs in the boot or in an interrupt, and every wait in it is counted.
  Nothing is assumed about devices: they may never report, fault, or be pulled. `Enumerates` says that
  every enumeration and poll ends.
* `input`: weak fairness of the controller's filling of its buffer, of the boot's steps, of interrupts and of
  the main loop's and the process's next read. Interrupts are on after the boot and the timer's handler
  serves the buffer too; the desktop reads keys in each step. Nothing is assumed about the main loop's
  own polling. `EveryKeyRead` sets apart bytes that were misread and characters the full ring dropped.

## 4. What is proved

Eight modules hold theorems; each holds for every value of the constants under the module's assumption, which TLC
evaluates in the runs (`ProcessAssumption`, `MemoryAssumption`, `HeapAssumption`, `SmpAssumption`, `LoopbackAssumption`,
`NetAssumption`, `PipeAssumption`, `IpcAssumption`, `LogAssumption`, `InputAssumption`).

### 4.1 ProcessProofs

* `TypeCorrect`: `Spec => []TypeOK`.
* `OneRunner`: `Spec => []OneRunning`, also when the lock is contended and switches are dropped.
* `CurrentRunner`: `~Contended => (Spec => []CurrentRuns)`, every handler returns to a RUNNING slot.
* `NoChildMissed`: `~Contended => (Spec => []NoLostChild)`, no waitpid sleeps on a child that is dead.
* `StatusIsTrue`, `DeadRest`: `~Contended /\ "thread" \notin Workload => (Spec => []WaitResult)` and `=> (Spec => DeadStaysDead)`:
  a waitpid returns what its child died with, and the dead stay dead.
* `LifeImplemented`: `~Contended /\ Workload \subseteq Unsignalled => (Spec => Life!LifeSpec)`, the process table implements
  `ChildLife`: a pid is given out once, dies once with one code, and its slot is free when that code has been handed over.
* `JoinsAlways`: `~Contended /\ "fork" \notin Workload /\ "kill" \notin Workload => (Spec => []JoinsHold)`, no join sleeps
  on after its thread has exited, and one that has returned names its thread.

None is inductive alone: that a switch leaves one RUNNING slot needs that the slot it leaves
was the only one; that the task a handler leaves in the table cannot go on is what forces the
switch. The invariant is

    SchedInv == TypeOK /\ OneRunning

and `Stays` says of a step that it keeps it, and `CurrentRuns` too where the lock is not contended. `Legal(P)` says what a handler may do to the table before it schedules: no slot but the current
one is RUNNING, and that one is RUNNING, or a ZOMBIE or WAITING. The lemmas `Legal...` show that each
kind of change keeps it (an entry, a death, a wakeup, a wait); `ScheduleKeeps` that
`process_schedule` turns a legal table into one that satisfies the invariant; the rest has one lemma
per action.

`NoLostChild` is about two slots and everything that may happen to either: `Missed(P, s, c)` says that the process of
slot s is blocked although the child of slot c is dead. No step makes such a pair: a death comes with the search for
a parent that waits, and a waitpid blocks only after it found no dead child. The search names a parent by its pid, so
the invariant `ChildInv` adds `Family`: a pid names one slot, and threads have pid 0 and are nobody's children. A
fork or a spawn takes a pid beyond all of them. `Calm` gathers the steps that neither kill, nor put to sleep, nor make a
process. Without contention, since a program that runs on after it died or went to sleep issues its next call from
a slot that is not RUNNING, and what that call finds there is not what the handlers were written for.

`WaitResult` and `DeadStaysDead` relate the table to its history. `Sound(p, D)` says of a slot what both need: a dead one
has the code that the history has, the pid of one that lives has none yet, one that blocks in waitpid has said for
whom (`Expects`), and what a waitpid that is over left in the caller's slot is `Answered`. `Unborn` keeps the history of
pids to come empty, so that a first death is told from a second. `DiedSound` carries it over a death, which writes three
things at once: the dead slot, the history, and the frame of a parent that sleeps. `ScheduleResumes` says field by field
that the scheduler does nothing to a slot but let it go on, put it back, or free it when it is dead. `Disturbed` marks in the
history the pids that a signal reached after their death, of which nothing is claimed. Threads are left out for a reason
of the code: a child's death wakes a parent that blocks in a join and leaves `join_tid` set (`src/process.c:182`), and
a thread's exit then answers that process's next waitpid with a thread's id.

`LifeImplemented` is about programs without signals, channels and threads (`Unsignalled`), the ones of which part "wait" of
the run `process` checks the same as `WaitsImplementLife`; with KILL, a dead process can be marked to die again. The mapping
reads a pid's life off the table (`LifeIn`): released when it was given out and no slot has it any more. To the
invariants above the proof adds `Plain`, of each slot: between two steps none is marked for reaping, so that a handover and the
freeing of the slot are one step; a task blocks only in waitpid, with a place for the status; the pid of a slot in use was not
handed over, and a dead slot has the code of the history. `Stage` says a life by the one slot that has the pid, and
`MapsAre` that the mapping computes it; `OthersStage` that a step that touches one slot moves one life. Each handler is then a
`Create`, a `Die`, a `DieCollected` (the parent waits: death, handover and, in the trailing `process_schedule`, the freeing, at
once: `LeavesFreed`), a `Collect`, or a stutter.

`JoinsAlways`: the exit of a thread looks for its joiner by the tid alone and wakes the first slot it finds, so the invariant
`JoinInv` has to say that there is only one. `JoinPairs`: no two slots hold threads of one tid, and who sleeps in a join has a
living thread of that tid in its own group; `JoinSlot`: a process is the only one of its group, and a task that does not sleep
has no join under way. With `Family` the joiner is found and is the right one (`OneJoiner`, `DeathJoin`); `PairsKept` is the step
of all the handlers that touch no join. That programs do not fork is a hypothesis about the code: a forked child belongs to its
parent's group, its exit ends the parent's join with the child's pid, and when both join one thread its exit wakes only one of
them (section 5). A signal reaches only descendants, of which there are none without fork; since `Ancestors` follows the parents
with a recursive function, about which nothing can be proved here, "kill" is excluded by hypothesis too.

### 4.2 MemoryProofs

* `CountsHold`: `~StaleListing => (Spec => []RefsExact)`.
* `IsolationHolds`: `~StaleListing /\ ~StaleStack /\ ~SharedText => (Spec => []Isolation)`.
* `MemoryTypesHold`: `~StaleListing => (Spec => []TypeOK)`.

*Hypotheses.* They leave out the three combinations of operations that break the properties in the code, all listed in section
5: programs that fork, store, and go or exec (`StaleListing`: the fault leaves `user_pages[]` as it was), stores of a
program with threads (`StaleStack`: a joined thread's stack stays mapped), and statuses stored where programs fork
(`SharedText`: a read-only page is shared and `write_user_u32` stores in it). What is left is every workload without such a
combination: fork and store; fork, exec, go and run threads; exec, go, store and have statuses stored. The run `memory` has
the three.

*Counts.* `RefsExact` compares a counter with six cardinalities over the whole table, and an action changes one slot of it, or two at a
fork. `Held(s, f)` is how often a slot holds a frame; `HoldersChange` says that the sum over the table changes by what the one
slot that changed held and holds, and that it is at least that. With that an action is a sum over one slot: `SlotStep` and
`ForkStep` (the parent keeps its frames, the child's slot is the one that changes) and `ReleaseStep` (`page_free` is called on each
frame as often as the slot ceases to hold it, which is no oftener than it is counted) give the invariant for all of them. What n
calls of `page_alloc` return are the n frames of lowest rank (`RankReached`, `NthIs`, `LowestOf`), so a new image and a
forked child hold each of the frames taken once (`ImageHeld`, `ChildHeld`).

`MemInv` adds to `RefsExact` what the drops and the stores need: `SlotOK` (a slot by itself: an unused one is empty, a live one has a frame in
every page, and where reaping and exec read `user_pages[]` it lists what is mapped), `OwnPages` (a page that may
be written has a count of one) and `OwnStacks` (so have the kernel stacks and those forgotten, so that a second exec forgets no
stack twice).

*Isolation.* A frame that an operation clears was free, so nobody maps it (`MappedTaken`): such a step changes no page of any program
(`IsoKept`). A store goes to a page with a count of one, or to a copy just taken; a page whose frame is counted once is the only
one in that frame, in any program (`OwnFrame`), so nobody else sees the store (`StoreIso`). A status may go to a
read-only page: without a fork no count is above one (`Unshared`, an invariant of its own), so that page has one holder as well.

### 4.3 HeapSmpFilesProofs

The heap, the start of the processors and the files share nothing but the module.

*Heap.*

* `HeapHolds`: `HeapSpec => []HeapWhole`.

Between two stores of the desktop's kmalloc or kfree the table says nothing of the entry it works on (`Working`) and
of the run that is neither a buffer any more, or yet, nor free (`Mine`). With these set apart, `PagesFit` says that each
page taken is a process's, a buffer's or the run's, and only one of them, `ListFits` that the other
entries in use are the buffers one to one, at every step; `EntryFits` says how far the stores into the
entry have come, in any order. A file call takes the lowest free entry, which may be the one kmalloc has chosen, and
the lowest free run: its base is no buffer's, so that its own kfree finds that entry and no other
(`FileCallKeeps`). The invariant holds until `torn`.

*Processors.*

* `StacksOwned`: `SmpSpec => []OwnStack`.
* `CountedAreOnline`: `SmpSpec => []CountedRun`.

The two words of the trampoline belong to one processor at a time. That is so because `smp_init` gives
up at the first processor that does not come: whenever it writes the words, every processor it woke before
has come all the way (`Done`), and nobody beyond the one being woken is awake (`Awake`). So whoever may
still read the words is the one they were last written for (`Words`). A bit of `ap_online_mask` is set after
the mark online (`Bits`, `Marks`), and those counted come before the one being woken (`Counted`). The
invariant `SmpInv` is the conjunction of these with the types.

*Files.*

* `FilesAreKept`: `Fitting => (FilesSpec => []FilesKept)`.

`Fitting` sets aside the three things that break the property in the code, each in section 5: a write too long for a RAM
file, a disk write that fails when a file is made, and an open file that is removed. With the constants of the `net` run
it holds. `NameOK` says what a name stands for and what was told of it: at most one file, the embedded program always in RAM,
the file of an open that failed empty. It is not inductive alone, because a write looks for its file again in the file
system that the open found it in: `HeldIn` says that the file of an open descriptor is still there, so that a write never
makes a second one (`WholeIs`). An open that makes a file finds none in either file system, so no other descriptor names it.

### 4.4 NetProofs

* `PageIsOrdered`: `Spec => []PageInOrder`.
* `AcknowledgedIsKept`: `Spec => []AckedIsKept`.
* `LoopbackConserves`: `LoopSpec => []Conserved`, of `Loopback`.

`Conserved` is inductive with the type invariant: `net_send` numbers a packet beyond all that were sent and
puts it into a free entry, `net_recv` moves one number out of the table, where no other entry holds it.

Neither of the other two is inductive: which segment `net_http_get` keeps next is decided by the number it expects. `Expects` ties
that number to what was kept: it is the segment after the last one kept, of the same connection, or, after a
wait that timed out, one that no segment has; before the body nothing is kept and nothing acknowledged. The number is set
from a frame of the ring, so `FramesOK` says what a frame of the server can be: a SYN has number 0, data comes
behind it. `NetInv` is the conjunction of these, the types and the two properties; there is one lemma per
action. Frames of another connection, repeated or late ones, are in the ring like any others.

### 4.5 PipeProofs

* `RingsAgree`: `PipeSpec => []RingOK`.
* `BytesInOrder`: `PipeSpec => []PipeOrder`.

A ring is judged by `Front`, its bytes from the tail on. `ReadSplits`: a read moves the tail past what
`Front` begins with and leaves the rest. `WriteAppends`: a write stores behind its end, and nothing that was in
the ring is overwritten. Both rest on `Step`, which wraps at most once for a count up to the size of the buffer
(`StepIs`), so that steps add up (`StepTwice`) and two offsets below the size never name one place (`StepApart`).
`PipeInv` adds to the two properties the types of a ring and of the bytes. A process action leaves the rings
alone; nothing about processes is needed, so these two hold whatever the rest of the process table does.

* `PipeWakeups`: `"sleep" \notin Workload => (PipeSpec => []NoLostPipeWakeup)`, contended or not. The hypothesis says that
  processes sleep on the channels of pipes only through pipe_read and pipe_write; the run's workload meets it.

The property names a pipe that the sleeper owns; nothing in it says that the sleeper is the owner of the pipe whose channel it
sleeps on, nor that the pipe is in use. `PipeSleep` does: whoever sleeps on the channel of a side of a pipe is of
the process that owns it, and the pipe is empty, or full, as that side says. A read or write that changes the count
wakes the other side's channel; the channels of two pipes, or of two sides, differ (`ChannelsApart`), so that it
leaves every other sleeper as it was. A close frees the pipe only with its channels woken. The types come from `SchedInv`.

### 4.6 IpcProofs

* `MailboxImplemented`: `IpcSpec => ImplementsMailbox`, the refinement: the initial table is a set of empty
  mailboxes, a send is `Accept`, a receive `HandOver`, and every other step leaves the mailboxes alone.

That a message put into one mailbox is new, and that a message taken out of a place is in no other, does not follow
from the mailboxes. `IpcInv` says it of the table: the numbers in the places in use are distinct (`Once`), none of
them was received, and all of them, and all that were received, are among those accepted so far (`TableOK`, `Books`). A
place that was freed keeps its message, and is taken again; only `used` tells.

* `NoMessageMissed`: `"sleep" \notin Workload => (IpcSpec => []NoLostMessage)`. The hypothesis says that processes
  sleep on the channels of IPC only through a blocking receive; the run's workload meets it.

`NoLostMessage` says nothing of the channel a sleeper waits on, so a send could miss it: `Asleep` adds that the channel
is the one of the sleeper's pid. A receive sleeps only when its search found nothing, and a search finds what there
is (`NothingFound`). A send fills the mailbox of one pid and leaves no sleeper on that pid's channel (`WokenNew`). No
other handler, nor the scheduler, puts anybody to sleep or renames a sleeper: `NoneNew` compares the table before
and after, one lemma for each handler of `Process` (`NextNew`). The types of the slots come from `SchedInv` of
`ProcessProofs`, kept by the calls of IPC too.

### 4.7 KernelLogProofs

* `LogHasRoom`: `Spec => []RoomMade`.
* `ReadsWhole`: `~Laps /\ Capacity > 1 => (Spec => []ReadWhole)`.
* `LogIsKept`: `~Laps /\ Capacity > 1 => (Spec => []LogKept)`, that is, until `damaged`, `FileWhole`, `FileInOrder` and `NothingMissing`.

*Hypotheses.* The ring has 64 entries (`src/gui_lion.c`), so `Capacity > 1` holds of the code; with one entry, a
panic beside the main loop would fill the very entry the main loop is filling. `~Laps` sets one case apart that the code
allows: 64 lines logged on one processor while another one copies or fills one entry. It breaks `ReadWhole` (section 5), and
with it what the replay writes. Everything else is as in the code: a panic on the same processor or on another one at any step, calls
that fail, a rotation that goes on in memory, power failures. The bounds of `LogAssumption` are the code's sizes: a line is shorter than
the reserve of a rotation, the reserve at most half the limit in memory, and that limit at most the disk's.

*Room* (`RoomInv`). Between a look at the file's size and the write nobody else may append: whoever is
inside `append_log_file_locked` holds the lock, the replay between two lines and in its reads included (`Held`), so there is one.
`Tidy` says which homes have a file: a name in memory hides one on the disk, which is then empty, and without a failure a machine
with a disk has none in memory. So the file is there where a step relies on it (`There`) and empty between the remove and
the rewrite (`Emptied`). What a rotation keeps aside is short enough for the limit it went by (`Rotated`, by `RetainedIs`), and the
reserve it leaves is longer than any line. `RoomMade` claims nothing of the line when the home the file has after the
rotation has a smaller limit (the disk failed in between, section 5) but that it is written only if it fits (`Recheck`).

*Whole lines from the ring* (`RingInv`). `Stage` says what an entry holds at each of a writer's four stores, `Numbered` that no
number is beyond `head`. Two writers at a time fill two entries (`Apart`, `SlotsApart`: numbers less than a ring apart have
entries of their own), so an entry with a number is one that nobody fills and both of its halves are of that line (`Whole`).
`Reader` is the copy in progress: while the entry still has the number asked for, the halves copied so far are the
entry's, and no panic is filling it under that number. The second look turns this into `ReadWhole`.

*The file* (`KeptInv`, with the two before). `Mark` is the number below which all lines of the main loop are that stand in
the file, or in what a rotation keeps aside: the line it has, the page the replay is at, or the next line. It never goes
back within a boot (`Ahead`, one lemma per action): the ring's first page may move on while the replay goes on, because a panic logs
a line (`Pages`); nobody writes to the file before the persistence is ready (`Opened`); a panic does not sign as the main loop
(`Signed`). `Book` says of a sequence of units: whole lines (`Lined`), in order (`Ordered`), below the mark (`Below`). A suffix
after a newline is one again (`BookSuffix`, `BookRetained`), and so is one with the line at the mark appended (`BookAppend`).
`Books` says it of every home of the file and of what is kept aside: a failing call moves a text from one home to another, or leaves
it in one, but makes none of its own unless it cuts or runs over one (`From`, `CreatedFrom`, `PutFrom`, `RemovedFrom`), and from
then on, with `damaged`, nothing is claimed.

*Nothing missing* (`CalmInv`). As long as no call failed and no processor panicked, the ring has every line it can still
hold (`Stocked`), the line the main loop has is the next one (`Turn`), and the lines of this boot in the file reach from any
of them to the mark without a gap (`Closed`), the last one included (`Reached`). So the replay finds each line it
asks for (`ReplayFinds`). That a suffix of the file has no gap either needs that the file is in order (`ClosedSuffix`). `CalmCall`
says what a call leaves while none fails: the file as it was, empty, what was kept aside, or the file with the line. The second
look never turns the line away then, since the file is still in its home.

### 4.8 InputDesktopProofs

* `KeyboardIsArmed`: `Spec => []KeyboardArmed`.
* `MouseReaderWoken`: `Spec => []NoLostMouseWakeup`.
* `RingKeepsOrder`: `Spec => []CharsInOrder`.
* `PacketsAreWhole`: `Spec => []WholeUnlessMisread`.
* `CharsAreTyped`: `Spec => []CharsAsTyped`, if no machine has both a PS/2 and a USB keyboard.

*Hypotheses.* The last theorem's is a disagreement of section 5: with two keyboards a report of the one releases the Shift
held on the other. All the others hold on every machine. `CharsInOrder` is about the machines on which the main loop alone
reads characters, as the property says; `WholeUnlessMisread` and the first half of `CharsAsTyped` speak of histories in which no
byte was taken for another device's, which the boot and a polling main loop can do (section 5).

*Arming* (`Armed`) and *waking* are inductive nearly as they stand. *The ring* (`Ring`): `Held`, which is defined with `%`, is
`Contents`, whose places are counted without it (`Place`, `Count`, `HeldIs`); a push makes it longer at the end
(`ContentsPush`) and a read takes its first (`ContentsTake`). The character that the main loop read and has not yet
advanced over is the first of the ring, since an interrupt only adds at the end.

*Streams.* Both devices share one buffer, so the proof looks at each device's bytes apart: what the buffer holds of them, then
what the device has still to send (`MoveStream`, `KeyStream`). `Fill` leaves both as they are (`FillStream`); reading takes the
head; a person adds at the end. Once a byte is misread, nothing is claimed any more (`CleanBefore`), and as long as none is,
the one who reads the buffer is the one whose byte it holds (`Right`).

*Packets* (`Moves`): the mouse's stream is whole packets, of the first of which the decoder has taken `cycle` bytes, after the
acknowledgement that the boot waits for, if one is due (`AckDue`). *Keystrokes*: decoded from the decoder's present state, the
keyboard's stream gives exactly the characters typed and not yet pushed (`Chain`: a state of the decoder before each byte).
`Asked` and `OneAck` say that an answer of the controller or the keyboard comes only where the boot waits for it.

*The desktop* shares nothing with the input but the module. The users of the run (2.10) are a bound of TLC's: no theorem
supposes anything of a user but the third, which excludes some shortcut keys (`OpensShut`) and some files (`OtherLength`).

* `FocusIsOne`: `DesktopSpec => []KeysFollowFocus`.
* `NotesAreSaved`: `DesktopSpec => []Autosaved`.
* `ScreenShows`: `DesktopSpec /\ [][OpensShut]_desktopVars /\ [][OtherLength]_desktopVars => []ScreenIsTrue`.

Each function that shows, hides, minimizes or maximizes a window sets the window's flags and the two key focuses by
itself; `RaiseIs`, `HiddenIs`, `MinimizedIs`, `MaximizedIs` and `UiIs` say what each leaves. `FocusFits` is
`KeysFollowFocus` as it is inductive, one lemma per action. `Stored` needs it: a key changes the text only while the notepad has the
keys, so it is on the screen, and every way off the screen saves. The code cannot keep more than `Autosaved` says: a save that failed
tells no one, and a file in memory holds 256 bytes of a text of up to 4095 (section 5).

`ScreenShows` is for every width of the screen and every set of windows. `OpensShut` excludes the shortcut keys, and `OtherLength`
the files opened, after which the code does leave the screen stale (section 5); TLC holds the run `desktop` to both too. The invariant says of each cell that it
shows what it should unless it is dirty (`CleanInv`). A drag breaks that: `drag_cache_move` draws at once and then declares
everything clean, whatever was dirty. So `CacheInv` adds that, while pixels are kept, they are the desktop without the
dragged window, and the screen shows them wherever that window is not, dirty or not; the move draws the rest (`OverIs`). It
lasts because whatever changes in a drag is a key's doing, goes to the window with the focus, and that is the dragged one
(`HeldInv`, `FocusFits`); and because no press reaches a window while the button is down. `HullCovers` is about the bounding box
(`dirty_rect`), `SignedDirty` about `ui_signature`, `KeyDirty` about `dirty_focused`, with one lemma per action on top.

### 4.9 Model-checked only

The properties of `DiskFs` and `Xhci`. Liveness under fairness and `ENABLED` are out of the prover's reach and stay so.

## 5. Where the code and its documents disagree

Listed in `PROJECT.json`, each with the run that shows it:

1. `memory_cow_reap`: a copy-on-write fault replaces the page-table entry and not the entry of
   `user_pages[]` (`src/paging.c:227`). Reaping drops the shared page a second time and never the
   copy; the page is given to another program while the first still maps it.
2. `process_restart`: the call issued again after a sleep has the sleep's return value as its number
   (`src/idt.c:26`): every blocking read that had to wait fails.

Met while modelling, each with the property that states what one expects and that the code breaks. Where the
table names a configuration, `tlc -config X.cfg M` with the module in parentheses finds the violation within a
minute; where it says "as X", the property takes the place of those of X.cfg, with the changes given.

| Property | What the code does | Configuration |
|---|---|---|
| `SleepHolds` | A child's exit wakes a parent that sleeps on a channel and never called waitpid, and its status is lost (`src/process.c:182`). | `process_sleep` (`MCProcess`) |
| `ExitCodeKept` | A try-lock that fails while a program exits lets it run on; what it does next overwrites its exit code (`src/process.c:251`). | as `process_sleep`, `Contended = TRUE`, "waitpid", "fault" in `Workload`, no channels |
| `JoinsHold` | A child's exit ends its parent's join of a thread, which returns the child's pid (`src/process.c:182`); a thread that parent and child both join wakes one of them (`src/process.c:183`). | as `process_sleep`, `MaxTid = 4`, `Workload = {"spawn", "fork", "exit", "thread"}` |
| `JoinReleases` | A join that had to block never frees the thread's slot (`src/process.c:183`). | as `process_sleep`, `MaxTid = 4`, `Workload = {"spawn", "exit", "thread"}` |
| `StackIsolation` | A joined thread's stack stays mapped after its page was given back (`src/process.c:127`). | as `memory_cow_reap` (`MCMemory`), `Workload = {"load", "thread", "write"}` |
| `Isolation` | The status of waitpid or join is stored in a read-only page that a fork shares: parent and child both see it, although "kernel cannot bypass user read-only/COW pages" (`src/process.c:41`, `src/paging.c:72`). | as `memory_cow_reap` (`MCMemory`), `Workload = {"load", "fork", "status"}` |
| `Apart` | A file call in the middle of the desktop's kfree frees pages that a process has taken meanwhile (`src/heap.c:57`). | `heap_race` (`Heap`) |
| `Listed` | A file call between two stores of kmalloc clears the entry: the buffer can never be freed (`src/heap.c:46`). | as `heap_race` |
| `CurrentRuns` | A short write marks its caller as WAITING and lets it run on (`src/pipe.c:14`). | as `pipe` (`MCPipe`) |
| `EndsUsable` | The first pipe's handles, 0 and 1, are refused by decode (`src/pipe.c:10`). | as `pipe` |
| `ImageLocated` | A power failure between the two sectors of a split entry leaves a name with start sector 0 on the disk: the mount drops it in memory only, and `scripts/check_disk_log.py` calls the image invalid (`src/diskfs.c:28`). | `disk_torn` (`MCDisk`) |
| `TornKept` | The name such a mount dropped comes back: when its place is taken by a file whose write then fails, and the name is written elsewhere, the next mount finds the name twice, and first the one that was never written (`src/diskfs.c:37`). | as `disk_torn`, `Names = {"a", "b", "c"}`, `Troubles = {"crash", "fail"}` |
| `OneHome` | A write through a descriptor of a removed file makes the file again, next to a new one of that name in the other file system (`src/vfs.c:86`). | `files_removed` (`MCFiles`) |
| `OneHome` | A create whose disk write fails after the entry was made goes on in memory: the name is in both (`src/vfs.c:124`). | as `files_removed`, `OpenRemoved = FALSE`, `DiskFails = TRUE` |
| `NoGhost` | An open that finds no free descriptor has made the file (`src/vfs.c:63`). | as `files_removed`, `OpenRemoved = FALSE` |
| `Honest` | A RAM file too long is cut, and the write reports success (`src/ramfs_userland.c:43`). | as `files_removed`, `OpenRemoved = FALSE`, `Payloads <- Long` |
| `PanicPrints` | A panic on the processor that holds the log's lock waits for itself and prints nothing (`src/kernel_diag.c:53`). | `klog_panic` (`MCKernelLog`) |
| `PowerKeepsLog` | A power failure in a rotation loses the whole log (`src/zlog.c:107`). | as `klog_panic`, `Spec`, `Panics <- Nobody`, `MaxBoots = 2`, `MaxFails = 1` |
| `RoomAlways` | The disk fails after a rotation removed the file, which goes on in memory: what was kept fills it, and the line is lost (`src/zlog.c:116`). | the same with `Limit = 12` |
| `FileWhole` | In the same case what was kept is cut to 256 bytes in the middle of a line, and the write reports success (`src/vfs.c:55`, `src/ramfs_userland.c:43`). | the same |
| `EachOnce` | A panic during the replay writes its line, and the replay writes it again (`src/zlog.c:176`). | as for `PowerKeepsLog` with `Panics <- Beside` |
| `ReadWhole` | A reader that is overtaken by a lap of 64 lines finds the sequence number it expects in another line (`src/gui_lion.c:92`). | the same with `Panics <- Both`, `Laps = TRUE` |
| `NoneReadAway` | An enumeration reads the other device's report away and it is deaf from then on, although "a mouse retry must never reset a working USB keyboard" (`src/xhci.c:1436`). | as `xhci` (`MCXhci`), `Spec`, `Scenarios <- HotPlug` |
| `OneTransfer` | A command answered after its time-out lets the driver and the controller disagree on a device (`src/xhci.c:647`). | the same with `Scenarios <- LateAnswer` |
| `OwnWhenLate` | An answer that comes after its time-out is taken for the next Enable or Disable Slot's, which wait for any command's (`src/xhci.c:703`, 722). | the same |
| `ContextsApart` | A Disable Slot that fails leaves a slot enabled, whose context the next enumeration uses for its own (`src/xhci.c:722`). | the same with `Scenarios <- TwoFaults` |
| `PacketsWhole` | A byte of a mouse packet is dropped by the keyboard's part of the boot (`src/keyboard.c:115`). | as `input` (`MCInput`), `Spec`, `Machines <- BootMoves`, `MaxKeys = 1` |
| `MouseArmed` | A key during the boot is taken for the command byte and written back: the mouse is off (`src/keyboard.c:398`). | the same |
| `PacketsWhole` | The main loop reads a byte of the other device, or the last one again (`src/keyboard.c:375`, "while preserving mouse packets"). | the same with `Machines <- Polled` |
| `RingIsTyped` | A report of the USB keyboard releases the Shift held on the other (`src/keyboard.c`). | the same with `Machines <- OnlyDocked`, `MaxKeys = 3` |
| `PageWhole` | A FIN that overtakes the last segment ends the page, which is shown as whole (`src/net.c:434`). | as `net` (`MCNet`) |
| `EveryFrameRead` | The ring's offset is moved on by another sum than the chip's (`src/net.c:198`). | as `net` |
| `MacOfHop` | A ping between two steps of the browser's ARP leaves its own answer in the shared buffer (`src/net.c:230`). | as `net` |
| `InOrder` | Loopback packets of one port overtake each other (`src/net.c:303`). | as `net` |
| `NotesAreNotes` | Looking at a file in the notepad writes it over `/notepad.txt` (`src/gui_lion.c:415`). | as `desktop` (`MCDesktop`), `AnySpec`, `Windows <- Opening`, `Users = {}`, `TextMax = 2`, "x" for "s" in `Keys` |
| `AutosavedWhole` | A save that fails leaves the old text, and one into a file in memory keeps 256 bytes of up to 4095; both are silent (`src/gui_lion.c:340`, `src/ramfs_userland.c:43`). | the same |
| `NotesSurvive` | A load that fails shows an empty notepad, which the next save writes over the notes (`src/gui_lion.c:314`). | the same with `FirstNotes <- OldNotes`, no "back" in `Keys` |
| `AutosavedAtExit` | Leaving the desktop for the shell, which does not return, loses the notes (`src/gui_lion.c:906`). | the same with `Windows <- Writing`, `FirstNotes <- NoNotes` |
| `FrontGetsClick` | A press goes to the window with the lowest number at that place, not to the one in front (`src/gui_lion.c:1070`). | the same |
| `ScreenIsTrue` | A shortcut key for a window that is open or minimized has only that window redrawn: the start menu it closes, or the focus of another window, stays on the screen (`src/gui_lion.c:285`). | as `desktop` without `OpensShut` in `MCNext`, `Windows = {"files", "about"}` and one user, who opens both, `Keys = {"f", "a"}`, `Width = 5` |
| `ScreenIsTrue` | A window that a key opens during a drag is not in the pixels kept for the drag: the next move paints it over (`src/gui_lion.c:1172`). | the same with `{"terminal", "about"}`, "drag" for the user, `Keys = {"t", "a"}` |
| `ScreenIsTrue` | A file opened into a notepad that has the focus (the notepad was clicked between the two clicks on the file) leaves the old text on the screen when it is as long: `ui_signature` has only its length (`src/gui_lion.c:300`). | as `desktop` without `OtherLength` in `MCNext` |
| `OwnDirectory` | A starting processor notes its address space in the boot processor's place (`src/smp.c:42`). | `smp_late` (`Smp`) |
| `CountExact` | A processor that comes after its time-out runs and is not counted (`src/smp.c:93`). | as `smp_late` |

The properties that pass set the known cases apart, each named in the property's comment: the
kernel stack lost by a second exec (`RefsExact`), a status stored in a page that a fork shares (`Isolation`, which has no such workload), the return of a file whose remove failed
and of a name a mount dropped (`Durable`), the waitpid of threads, which all have pid 0 (`NoLostChild`), reports read away (`OneTransfer`), the
control ring set back and late answers (`OwnAnswer`), a Disable Slot that failed (`OwnContexts`), a save of the notes that failed or was cut (`Autosaved`), a rotation that went on in memory (`RoomMade`) and
a log that it cut, or a failed write ran over (`LogKept`), misread bytes (`Input`), a heap torn by a file call
(`ApartUnlessTorn`), the dead that a signal reaches (`WaitResult`, `DeadStaysDead`). `ChildLife` is about processes without
signals: a process killed by a grandparent while its parent waits keeps its slot
after its status was handed over, and STOP and CONT of a zombie run it again
(`src/process.c:186`).

## 6. Not modelled

* *Program loader* (`exec.c`'s validation of an image, `elf.c`): a pure check of bytes; its page traffic is in
  `Memory`.
* *Framebuffer, fonts, console*: drawing. What is redrawn, and when, is in `Desktop`.
* *Shell*: a command loop over the other components, with no state between two commands.
* *Platform devices* (PIC, PIT, GDT, TSS, PCI, LAPIC, GPU): register set-up. What they deliver, interrupts and
  their order, is in the models that need it.
* *Boot and main loop*: the start-up sequence is straight-line. The main loop's steps are `Service` and `Get` in
  `Input`, the steps of `Desktop` and `ReapPid` in `Process`; the integration test's phases are not modelled.
* *User programs and library*: they are the environment, which each model leaves free.
* Within the modelled parts: kernel threads and setters without callers (`process.c`), check sums and lengths
  (`net.c`), descriptors' contents and ports' protocols (`xhci.c`), key maps (`keyboard.c`), the PIO protocol of a
  sector (`ata.c`), the enumeration of names (`vfs.c`). `gui_desktop.c`, `gui_runtime.c` and `ramfs.c` are not built.

## 7. What is left

In this order: theorems about the properties of `Xhci` and `DiskFs`; the integration test's
phases on `Process`; a composition of `Heap` with `Memory`'s exhaustion.
