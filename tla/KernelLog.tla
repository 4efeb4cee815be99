------------------------------ MODULE KernelLog ------------------------------
(***************************************************************************)
(* The kernel log: the ring of src/gui_lion.c that every kernel_log    *)
(* call writes and the System Log window reads without a lock, and the     *)
(* file /var/log/lionos.log that src/zlog.c keeps behind it, on the disk   *)
(* or, when the disk fails, in the RAM file system.                        *)
(*                                                                         *)
(* Two threads of control: the boot processor's main loop, which logs,     *)
(* reads and starts the persistence, and one kernel_panic, which runs over *)
(* the main loop on its processor or beside it on another one.  The power  *)
(* may fail at any step.  A line is known by its boot, its number and who  *)
(* logged it; of its text only the length counts, in units, the last of    *)
(* which is the newline.  A vfs_ call on the file is one step: DiskFs has  *)
(* what happens inside it.                                                 *)
(***************************************************************************)
EXTENDS Integers, Sequences, FiniteSets

CONSTANTS Capacity,    \* KLOG_RING_CAPACITY
          Limit,       \* the largest file on the disk, in units
          RamLimit,    \* and in the RAM file system
          Reserve,     \* what a rotation leaves free: 128 bytes, in units
          Lens,        \* lengths of a line: up to 127 bytes, so less than Reserve;
                       \* kernel_panic has one text, of length 1
          OnDisk,      \* diskfs_available
          MaxLines,    \* bound: lines the main loop logs in a boot
          MaxBoots,    \* bound: boots
          Panics,      \* where a kernel_panic may run: "same", "other" processor
          MaxFails,    \* bound: vfs_ calls that fail in a boot
          Laps         \* whether 64 lines can be logged while one is copied

ASSUME LogAssumption ==
    /\ Capacity \in Nat \ {0} /\ Limit \in Nat /\ RamLimit \in Nat /\ Reserve \in Nat
    /\ 2 < Reserve /\ 2 * Reserve <= RamLimit /\ RamLimit <= Limit   \* 128, 256, 4096 bytes
    /\ \A n \in Lens : n \in Nat /\ 0 < n /\ n < Reserve
    /\ OnDisk \in BOOLEAN /\ Laps \in BOOLEAN /\ MaxFails \in Nat
    /\ MaxLines \in Nat /\ MaxBoots \in Nat /\ Panics \subseteq {"same", "other"}

VARIABLES head,      \* log_sequence
          ring,      \* the entries: sequence, and the message in two halves
          file,      \* the log's file in each of its homes: whether it exists, its units
          ready,     \* persistence_ready
          lock,      \* holder of persistence_lock
          main,      \* the main loop: where it is, and its local variables
          panic,     \* the same for kernel_panic
          where,     \* the processor of kernel_panic, "none" before it
          boot,      \* boots so far
          failed,    \* vfs_ calls that failed in this boot
          damaged    \* history: a file in RAM has cut what a rotation kept, or a failed
                     \* write to the disk has run over what a failed remove left there

vars == <<head, ring, file, ready, lock, main, panic, where, boot, failed, damaged>>

NoLine == [n |-> 0, len |-> 0, by |-> "none"]
NoFile == [exists |-> FALSE, units |-> <<>>]
Entry == [sequence |-> 0, a |-> NoLine, b |-> NoLine]
Slot(n) == n % Capacity

\* Locals: the line being logged, of a rotation what it keeps and the limit it went by,
\* the replay's index and bound, and of kernel_log_read the number asked for and the
\* halves copied.
Thread(pc) == [pc |-> pc, line |-> NoLine, retained |-> <<>>, limit |-> 0, next |-> 0,
               count |-> 0, asked |-> 0, a |-> NoLine, b |-> NoLine]

\* The RAM file system, the disk's directory in memory, and the disk itself: what the next
\* boot finds.
Homes == {"ram", "disk", "stored"}

\* Memory after a reset.
Reset ==
    /\ head = 0 /\ ring = [s \in 0 .. Capacity - 1 |-> Entry]
    /\ ready = FALSE /\ lock = "none" /\ failed = 0
    /\ main = Thread("early") /\ panic = Thread("off") /\ where = "none"

Init == Reset /\ file = [h \in Homes |-> NoFile] /\ boot = 1 /\ damaged = FALSE

(***************************************************************************)
(* kernel_log_ring_record, by the thread t whose locals are Me(t).  The    *)
(* main loop is "early" before the persistence is started, "idle" after.   *)
(***************************************************************************)
Me(t) == IF t = "main" THEN main ELSE panic
Becomes(t, me) ==
    IF t = "main" THEN main' = me /\ UNCHANGED panic ELSE panic' = me /\ UNCHANGED main

\* A panic on the main loop's processor stops the main loop for good.
At(t, pc) == Me(t).pc = pc /\ (t = "main" => where # "same")
Goes(t, pc) == Becomes(t, [Me(t) EXCEPT !.pc = pc])
Ends(t, pc) == Becomes(t, [Me(t) EXCEPT !.pc = pc, !.line = NoLine])
Rest == IF ready THEN "idle" ELSE "early"

\* A writer is between its two stores of the sequence.
Copying == {"clear", "half", "rest", "publish"}
Log(len) ==
    /\ At("main", Rest) /\ head < MaxLines
    /\ Laps \/ panic.pc \notin Copying \/ head + 1 < panic.line.n + Capacity
    /\ head' = head + 1
    /\ main' = [main EXCEPT !.pc = "clear", !.line = [n |-> head + 1, len |-> len, by |-> "main"]]
    /\ UNCHANGED <<ring, file, ready, lock, panic, where, boot, failed, damaged>>

\* kernel_panic: the first one wins panic_active, a second one halts.
Panic(cpu) ==
    /\ where = "none" /\ cpu \in Panics
    /\ where' = cpu
    /\ head' = head + 1
    /\ panic' = [Thread("clear") EXCEPT !.line = [n |-> head + 1, len |-> 1, by |-> "panic"]]
    /\ UNCHANGED <<ring, file, ready, lock, main, boot, failed, damaged>>

Write(t, from, to, field, value) ==
    /\ At(t, from) /\ Goes(t, to)
    /\ ring' = [ring EXCEPT ![Slot(Me(t).line.n)] = [@ EXCEPT ![field] = value]]
    /\ UNCHANGED <<head, file, ready, lock, where, boot, failed, damaged>>

Record(t) ==
    \/ Write(t, "clear", "half", "sequence", 0)
    \/ Write(t, "half", "rest", "a", Me(t).line)
    \/ Write(t, "rest", "publish", "b", Me(t).line)
    \/ Write(t, "publish", "persist", "sequence", Me(t).line.n)

\* Mutant: a line goes to the file before the persistence is ready, which replays it.
Persist_Always(t) ==
    /\ At(t, "persist") /\ lock = "none" /\ lock' = t /\ Goes(t, "ensure")
    /\ UNCHANGED <<head, ring, file, ready, where, boot, failed, damaged>>

\* kernel_log_persistence_write: nothing before the persistence is ready.
Persist(t) ==
    /\ At(t, "persist")
    /\ \/ ~ready /\ Ends(t, IF t = "main" THEN "early" ELSE "printed") /\ UNCHANGED lock
       \/ ready /\ lock = "none" /\ lock' = t /\ Goes(t, "ensure")
    /\ UNCHANGED <<head, ring, file, ready, where, boot, failed, damaged>>

(***************************************************************************)
(* The file through vfs_: the one in RAM if there is one, else the disk's. *)
(* With takes what a file system was given: a RAM file what fits in it,    *)
(* with no word of the rest.  A disk write that fails leaves the old file, *)
(* or the new one in memory, or on the disk as well; its sectors may have  *)
(* run over what a failed remove left there.                               *)
(***************************************************************************)
With(units) == [exists |-> TRUE, units |-> units]
RamHas(f, units) ==
    [f EXCEPT !["ram"] = With(SubSeq(units, 1, IF Len(units) < RamLimit THEN Len(units) ELSE RamLimit))]
InMemory(f, units) == [f EXCEPT !["disk"] = With(units)]
DiskHas(units) == [file EXCEPT !["disk"] = With(units), !["stored"] = With(units)]
Zero == [boot |-> 0, n |-> 0, by |-> "none", k |-> 0, of |-> 0]
Overlaid(old, units, to) == [i \in DOMAIN old |->
    IF i > to THEN old[i] ELSE IF i <= Len(units) THEN units[i] ELSE Zero]
HalfDone(units) ==
    LET old == file["stored"].units
        overrun == {[file EXCEPT !["stored"].units = Overlaid(old, units, to)] : to \in 0 .. Len(old)}
    IN  {DiskHas(units)} \cup overrun \cup {InMemory(f, units) : f \in overrun}

RunsOver == file'["stored"] \notin {file["stored"], file'["disk"]}

Home == IF file["ram"].exists THEN "ram" ELSE "disk"
Exists == file[Home].exists
Units == file[Home].units
LimitOf(home) == IF home = "ram" THEN RamLimit ELSE Limit

Failing == failed < MaxFails /\ failed' = failed + 1

\* vfs_open makes a file that is not there: on the disk, in RAM if the disk fails; or it
\* fails, having made it or not.
Created ==
    \/ OnDisk /\ file' = DiskHas(<<>>) /\ UNCHANGED failed
    \/ OnDisk /\ Failing /\ \E f \in HalfDone(<<>>) : file' = RamHas(f, <<>>)
    \/ ~OnDisk /\ file' = RamHas(file, <<>>) /\ UNCHANGED failed

NotCreated ==
    /\ Failing
    /\ \E f \in IF OnDisk THEN HalfDone(<<>>) ELSE {file} : file' = f \/ file' = RamHas(f, <<>>)

(***************************************************************************)
(* append_log_file_locked, of the line of thread t.  Its return goes to    *)
(* "unlock".                                                               *)
(***************************************************************************)
\* The session line is an empty line and a line of dashes.
Session == [n |-> 0, len |-> 1, by |-> "init"]
Unit(line, k) == [boot |-> boot, n |-> line.n, by |-> line.by, k |-> k, of |-> line.len]
Text(line) ==
    IF line = Session THEN <<Unit(line, 1), Unit(line, 1)>>
    ELSE [k \in 1 .. line.len |-> Unit(line, k)]

\* Mutant: a rotation keeps as much as the file may hold.
Keep_Limit(limit) == limit

Keep(limit) == limit - Reserve

\* Mutant: a rotation cuts wherever the bytes end.
Retained_AnyByte(units, keep) ==
    IF Len(units) > keep THEN SubSeq(units, Len(units) - keep + 1, Len(units)) ELSE units

\* What a rotation keeps: the end of the file, from the beginning of a line on.
Newline(unit) == unit.k = unit.of
Retained(units, keep) ==
    LET cutAt == Len(units) - keep
        after == {i \in cutAt + 1 .. Len(units) : Newline(units[i])}
    IN  IF cutAt <= 0 THEN units
        ELSE IF after = {} THEN <<>>
        ELSE SubSeq(units, 1 + CHOOSE i \in after : \A j \in after : i <= j, Len(units))

Fits(t) == Len(Units) + Len(Text(Me(t).line)) <= LimitOf(Home)

\* Mutant: the size is not looked at again after a rotation.
Refits_Assumed(t) == TRUE

\* The second look at the file, which may have another home and another limit by now.
Refits(t) == Fits(t)

Put(t, to, new) == Goes(t, to) /\ file' = new /\ UNCHANGED failed

\* Returns: of a call that failed, or did what it should.
Returns(t) == Becomes(t, [Me(t) EXCEPT !.pc = "unlock", !.retained = <<>>, !.limit = 0])
Fail(t, new) == Failing /\ Returns(t) /\ file' = new

Ensure(t) ==
    /\ At(t, "ensure")
    /\ \/ Exists /\ Put(t, "room", file)
       \/ ~Exists /\ Created /\ Goes(t, "room")
       \/ ~Exists /\ NotCreated /\ Returns(t)

Room(t) ==
    /\ At(t, "room")
    /\ \/ Fits(t) /\ Put(t, "write", file)
       \/ /\ ~Fits(t)
          /\ Becomes(t, [Me(t) EXCEPT !.pc = "remove", !.limit = LimitOf(Home),
                                      !.retained = Retained(Units, Keep(LimitOf(Home)))])
          /\ UNCHANGED <<file, failed>>
       \/ ~Fits(t) /\ Fail(t, file)

\* A remove that fails has forgotten the file, which the disk may still have.
Remove(t) ==
    /\ At(t, "remove")
    /\ \/ Home = "ram" /\ Put(t, "reopen", [file EXCEPT !["ram"] = NoFile])
       \/ /\ Home = "disk"
          /\ Put(t, "reopen", [file EXCEPT !["disk"] = NoFile, !["stored"] = NoFile])
       \/ /\ Home = "disk"
          /\ \/ Fail(t, [file EXCEPT !["disk"] = NoFile])
             \/ Fail(t, [file EXCEPT !["disk"] = NoFile, !["stored"] = NoFile])

\* What a disk write that failed left under a file in RAM is found there.
Reopen(t) ==
    /\ At(t, "reopen")
    /\ \/ Exists /\ (Put(t, "rewrite", file) \/ Fail(t, file))
       \/ ~Exists /\ Created /\ Goes(t, "rewrite")
       \/ ~Exists /\ NotCreated /\ Returns(t)

Rewrite(t) ==
    LET kept == Me(t).retained IN
    /\ At(t, "rewrite")
    /\ \/ kept = <<>> /\ Put(t, "recheck", file)
       \/ kept # <<>> /\ Home = "ram" /\ Put(t, "recheck", RamHas(file, kept))
       \/ kept # <<>> /\ Home = "disk" /\ Put(t, "recheck", DiskHas(kept))
       \/ kept # <<>> /\ Home = "disk" /\ \E f \in HalfDone(kept) : Fail(t, f)

Cuts(t) == At(t, "rewrite") /\ Home = "ram" /\ Len(Me(t).retained) > RamLimit

Recheck(t) ==
    /\ At(t, "recheck") /\ UNCHANGED <<file, failed>>
    /\ \/ Refits(t) /\ Becomes(t, [Me(t) EXCEPT !.pc = "write", !.retained = <<>>, !.limit = 0])
       \/ ~Refits(t) /\ Returns(t)

WriteLine(t) ==
    LET units == Units \o Text(Me(t).line) IN
    /\ At(t, "write")
    /\ \/ Fail(t, file)
       \/ Fits(t) /\ Home = "ram" /\ Put(t, "unlock", RamHas(file, units))
       \/ Fits(t) /\ Home = "disk" /\ Put(t, "unlock", DiskHas(units))
       \/ Fits(t) /\ Home = "disk" /\ \E f \in HalfDone(units) : Fail(t, f)

AppendLine(t) ==
    /\ Ensure(t) \/ Room(t) \/ Remove(t) \/ Reopen(t) \/ Rewrite(t) \/ Recheck(t) \/ WriteLine(t)
    /\ damaged' = (damaged \/ RunsOver \/ Cuts(t))
    /\ UNCHANGED <<head, ring, ready, lock, where, boot>>

\* The replay of kernel_log_persistence_init keeps the lock for all its lines.
Replaying == main.count > 0
Unlock(t) ==
    /\ At(t, "unlock")
    /\ IF t = "main" /\ Replaying THEN Ends(t, "replay") /\ UNCHANGED lock
       ELSE Ends(t, IF t = "main" THEN Rest ELSE "printed") /\ lock' = "none"
    /\ UNCHANGED <<head, ring, file, ready, where, boot, failed, damaged>>

(***************************************************************************)
(* kernel_log_read, by the main loop: draw_logs from "idle", the replay    *)
(* from "replay".  The halves are copied while a writer may change them.   *)
(***************************************************************************)
Count == IF head > Capacity THEN Capacity ELSE head

\* Mutant: the oldest entry of a full ring is one too old.
First_TooOld == IF head > Capacity THEN head - Capacity ELSE 1

First == IF head > Capacity THEN head - Capacity + 1 ELSE 1

\* Mutant: the sequence number is not looked at again.
StillThere_Assumed(entry) == TRUE

\* The second look at the sequence number.
StillThere(entry) == entry.sequence = main.asked

\* After a read: draw_logs is done, the replay goes on with the next entry.
Return(line) ==
    main' = IF ~Replaying THEN [main EXCEPT !.pc = Rest, !.a = NoLine, !.b = NoLine, !.asked = 0]
            ELSE [main EXCEPT !.pc = IF line = NoLine THEN "replay" ELSE "ensure",
                              !.line = line, !.a = NoLine, !.b = NoLine, !.asked = 0]

Ask(index) ==
    /\ index < Count
    /\ main' = [main EXCEPT !.pc = "check", !.asked = First + index]

\* draw_logs, for one of its rows: the desktop comes after the persistence.
Draw ==
    /\ At("main", Rest) /\ (ready \/ main.next = 1)
    /\ \E index \in 0 .. Capacity - 1 : Ask(index)
    /\ UNCHANGED <<head, ring, file, ready, lock, panic, where, boot, failed, damaged>>

Read ==
    /\ LET entry == ring[Slot(main.asked)] IN
       \/ At("main", "check") /\ entry.sequence # main.asked /\ Return(NoLine)
       \/ /\ At("main", "check") /\ entry.sequence = main.asked
          /\ main' = [main EXCEPT !.pc = "copy"]
       \/ At("main", "copy") /\ main' = [main EXCEPT !.pc = "more", !.a = entry.a]
       \/ At("main", "more") /\ main' = [main EXCEPT !.pc = "again", !.b = entry.b]
       \/ At("main", "again") /\ ~StillThere(entry) /\ Return(NoLine)
       \/ /\ At("main", "again") /\ StillThere(entry)
          /\ main' = [main EXCEPT !.pc = "got"]
       \/ At("main", "got") /\ Return(main.a)
    /\ UNCHANGED <<head, ring, file, ready, lock, panic, where, boot, failed, damaged>>

(***************************************************************************)
(* kernel_log_persistence_init.  When the file cannot be made it gives up, *)
(* and nothing of this boot is kept; main.next = 1 tells that it has run.  *)
(***************************************************************************)
Start ==
    /\ At("main", "early") /\ main.next = 0
    /\ \/ /\ (Exists /\ UNCHANGED <<file, failed>>) \/ (~Exists /\ Created)
          /\ main' = [main EXCEPT !.pc = "begin", !.next = 1, !.count = Count]
       \/ ~Exists /\ NotCreated /\ main' = [main EXCEPT !.next = 1]
    /\ damaged' = (damaged \/ RunsOver)
    /\ UNCHANGED <<head, ring, ready, lock, panic, where, boot>>

Begin ==
    /\ At("main", "begin") /\ lock = "none"
    /\ lock' = "main" /\ ready' = TRUE
    /\ main' = [main EXCEPT !.pc = "ensure", !.line = Session, !.next = 0]
    /\ UNCHANGED <<head, ring, file, panic, where, boot, failed, damaged>>

Replay ==
    /\ At("main", "replay")
    /\ IF main.next = main.count
       THEN /\ main' = [main EXCEPT !.pc = "idle", !.next = 0, !.count = 0]
            /\ lock' = "none"
       ELSE /\ main.next < Count
            /\ main' = [main EXCEPT !.pc = "check", !.asked = First + main.next,
                                    !.next = main.next + 1]
            /\ UNCHANGED lock
    /\ UNCHANGED <<head, ring, file, ready, panic, where, boot, failed, damaged>>

\* The power fails, or the machine is turned off after a panic: the next boot mounts the
\* disk.
PowerOff ==
    /\ boot < MaxBoots
    /\ boot' = boot + 1
    /\ file' = [h \in Homes |-> IF h = "ram" THEN NoFile ELSE file["stored"]]
    /\ head' = 0 /\ ring' = [s \in 0 .. Capacity - 1 |-> Entry]
    /\ ready' = FALSE /\ lock' = "none" /\ failed' = 0
    /\ main' = Thread("early") /\ panic' = Thread("off") /\ where' = "none"
    /\ UNCHANGED damaged

Works(t) == Record(t) \/ Persist(t) \/ AppendLine(t) \/ Unlock(t)

Next ==
    \/ \E len \in Lens : Log(len)
    \/ \E cpu \in Panics : Panic(cpu)
    \/ \E t \in {"main", "panic"} : Works(t)
    \/ Draw \/ Read \/ Start \/ Begin \/ Replay
    \/ PowerOff

Spec == Init /\ [][Next]_vars

\* Each processor goes on with what it does.
FairSpec == /\ Spec
            /\ WF_vars(Works("main") \/ Read \/ Begin \/ Replay)
            /\ WF_vars(Works("panic"))

-----------------------------------------------------------------------------
\* What every variable holds.
Lines == [n : Nat, len : Nat, by : {"none", "main", "panic", "init"}]
TypeOK ==
    /\ head \in Nat /\ boot \in Nat /\ ready \in BOOLEAN /\ failed \in Nat
    /\ \A s \in 0 .. Capacity - 1 : ring[s].sequence \in Nat /\ ring[s].a \in Lines /\ ring[s].b \in Lines
    /\ lock \in {"none", "main", "panic"} /\ where \in {"none", "same", "other"}
    /\ \A h \in Homes : file[h].exists \in BOOLEAN
    /\ damaged \in BOOLEAN

\* A read of kernel_log_read that succeeds returns one whole line, and the line that
\* was asked for, whatever is logged over the entry while it is copied.
ReadWhole == main.pc = "got" => main.a = main.b /\ main.a.n = main.asked

\* The file never outgrows its backend's limit, no line is written where it does not fit,
\* and once a rotation has been made there is room for any line, unless it left the file
\* with a smaller limit than it went by (the disk failed, and vfs_open went on in RAM):
\* append_log_file_locked loses no line for lack of room on the disk.
RoomMade ==
    /\ Len(file["ram"].units) <= RamLimit
    /\ Len(file["disk"].units) <= Limit /\ Len(file["stored"].units) <= Limit
    /\ \A t \in {"main", "panic"} :
         /\ Me(t).pc = "write" => Fits(t)
         /\ Me(t).pc = "recheck" /\ LimitOf(Home) >= Me(t).limit => Fits(t)

\* The same with no exception: what a rotation leaves has room for the line.
RoomAlways == \A t \in {"main", "panic"} : Me(t).pc = "recheck" => Fits(t)

\* The file holds whole lines: whatever is rotated, fails or loses power between two
\* calls, no line begins or ends in its middle.
Follows(u, v) == v = [u EXCEPT !.k = @ + 1]
FileWhole ==
    LET units == Units IN
    \A i \in 1 .. Len(units) :
        /\ units[i].k = 1 \/ (i > 1 /\ Follows(units[i - 1], units[i]))
        /\ Newline(units[i]) \/ (i < Len(units) /\ Follows(units[i], units[i + 1]))

\* The lines the main loop logs stand in the file in the order it logged them, each at
\* most once, although the replay and the later writes both put lines there.
Earlier(u, v) == \/ u.boot < v.boot
                 \/ u.boot = v.boot /\ (u.n < v.n \/ (u.n = v.n /\ u.k < v.k))
FileInOrder ==
    LET units == Units IN
    \A i, j \in 1 .. Len(units) :
        i < j /\ units[i].by = "main" /\ units[j].by = "main" => Earlier(units[i], units[j])

\* While no call fails and no processor panics, nothing of the end of the log is missing:
\* with the persistence ready and the main loop at rest, the lines of this boot that the
\* file holds are the last ones, without a gap.
NothingMissing ==
    (ready /\ main.pc = "idle" /\ where = "none" /\ failed = 0 /\ head > 0) =>
        LET kept == {u.n : u \in {Units[i] : i \in
                       {j \in 1 .. Len(Units) : Units[j].boot = boot /\ Units[j].by = "main"}}}
        IN  head \in kept /\ \A n \in kept : \A m \in n .. head : m \in kept

\* The log's file, whatever is rotated, fails or loses power: whole lines, those of the
\* main loop in the order they were logged, and of the end of the log none missing.  (A
\* rotation that goes on in RAM, where a file is cut without a word, and a failed write over
\* what a failed remove left are set apart.)
LogKept == damaged \/ (FileWhole /\ FileInOrder /\ NothingMissing)

\* A kernel panic prints its message.
PanicPrints == where # "none" ~> (panic.pc \in {"printed", "off"})

\* A power failure leaves what the log file held, or its end.
PowerKeepsLog == [][boot' > boot => main.retained = <<>> \/ Units' # <<>>]_vars

\* A line is in the file once.
EachOnce ==
    \A i, j \in 1 .. Len(Units) : i # j /\ Units[i].n > 0 => Units[i] # Units[j]
=============================================================================
