--------------------------------- MODULE Pipe ---------------------------------
(***************************************************************************)
(* The pipes of LionOS (src/pipe.c), composed with the process table: the  *)
(* ring buffer of each, the two ends, and the two wait channels a blocked  *)
(* reader or writer sleeps on.                                             *)
(*                                                                         *)
(* Handles are pipe number * 2 + side.  decode refuses the handles below   *)
(* 2, so pipe 0 can be created and never used.                             *)
(***************************************************************************)
EXTENDS Process, Sequences

CONSTANTS
  PipeMax,       \* LIONOS_PIPE_MAX
  PipeBuffer,    \* LIONOS_PIPE_BUFFER
  ChannelBase,   \* the channels start at 0x50495000
  Lengths,       \* the sizes programs ask to read and to write
  MaxByte        \* bound: the bytes written in a run

Ids == 0 .. PipeMax - 1
Read == 0
Writing == 1
PipeChannel(id, side) == ChannelBase + 2 * id + side
Handles == 0 .. 2 * PipeMax - 1

ASSUME PipeAssumption ==
  /\ PipeMax \in Nat \ {0} /\ PipeBuffer \in Nat \ {0} /\ ChannelBase \in Nat
  /\ Lengths \subseteq Nat \ {0} /\ MaxByte \in Nat
  /\ {PipeChannel(id, side) : id \in Ids, side \in {Read, Writing}} \subseteq Channels

VARIABLE pipes

\* History: what was written to each pipe and what was read from it since it was created;
\* the bytes of a run are numbered.
VARIABLES written, taken, bytes

pipeVars == <<vars, pipes, written, taken, bytes>>
history == <<written, taken, bytes>>

CurrentPid == proc[current].pid
Unchanged == UNCHANGED <<next_pid, next_tid, died, delivered>>

\* The call returns v and the program goes on.
Returns(P, v) == ReturnWith([P EXCEPT ![current].eax = v])

\* Mutant: the other end is not woken.
Rouse_Nobody(P, id, side) == P

\* process_wakeup of those who wait at an end of the pipe.
Rouse(P, id, side) == Woken(P, PipeChannel(id, side))

\* The pipe and the side of a handle: decode, then the check of the pipe's owner.
Denotes(h, id, side) == h >= 2 /\ id = h \div 2 /\ side = h % 2
Owns(pid, id) == pipes[id].used /\ pipes[id].owner_pid = pid
Owned(id) == Owns(CurrentPid, id)

Refused(h, side) ==
  /\ ~ \E id \in Ids : Denotes(h, id, side) /\ Owned(id)
  /\ Returns(Entered(proc), SysErr)
  /\ UNCHANGED <<pipes, history>>

-----------------------------------------------------------------------------
NewPipe(pid) ==
  [used |-> TRUE, owner_pid |-> pid, readers |-> 1, writers |-> 1, head |-> 0, tail |-> 0,
   count |-> 0, data |-> [k \in 0 .. PipeBuffer - 1 |-> 0]]

Create ==
  /\ InUser
  /\ LET free == First({id \in Ids : ~pipes[id].used})
     IN \/ /\ CurrentPid = 0 \/ free = {}
           /\ Returns(Entered(proc), SysErr)
           /\ UNCHANGED <<pipes, history>>
        \/ /\ CurrentPid # 0
           /\ \E id \in free :
                /\ pipes' = [pipes EXCEPT ![id] = [NewPipe(CurrentPid) EXCEPT !.data = pipes[id].data]]
                /\ written' = [written EXCEPT ![id] = <<>>]
                /\ taken' = [taken EXCEPT ![id] = <<>>]
           /\ Returns(Entered(proc), 0)
           /\ UNCHANGED bytes
  /\ Unchanged

Least(m, n) == IF m < n THEN m ELSE n

\* The index n bytes further round the ring.
Step(k, n) == (k + n) % PipeBuffer

\* The first n bytes from the tail.
Front(p, n) == [k \in 1 .. n |-> p.data[Step(p.tail, k - 1)]]

PipeRead(h, capacity) ==
  /\ InUser
  /\ \/ Refused(h, Read)
     \/ \E id \in Ids :
          /\ Denotes(h, id, Read) /\ Owned(id)
          /\ LET p == pipes[id]
                 n == Least(p.count, capacity)
             IN \/ /\ p.count > 0
                   /\ pipes' = [pipes EXCEPT ![id].tail = Step(@, n), ![id].count = @ - n]
                   /\ taken' = [taken EXCEPT ![id] = @ \o Front(p, n)]
                   /\ Returns(Rouse(Entered(proc), id, Writing), n)
                   /\ UNCHANGED <<written, bytes>>
                \/ /\ p.count = 0 /\ p.writers = 0
                   /\ Returns(Entered(proc), 0)
                   /\ UNCHANGED <<pipes, history>>
                \/ /\ p.count = 0 /\ p.writers > 0
                   /\ Schedule(Slept(PipeChannel(id, Read)), TRUE)
                   /\ UNCHANGED <<pipes, history>>
  /\ Unchanged

\* Mutant: the room in the ring is one byte more than it is.
Space_OneMore(p) == PipeBuffer - p.count + 1
Space(p) == PipeBuffer - p.count

Stored(p, n) ==
  [p EXCEPT !.data = [k \in DOMAIN p.data |->
                        IF \E j \in 0 .. n - 1 : k = Step(p.head, j)
                        THEN bytes + 1 + (CHOOSE j \in 0 .. n - 1 : k = Step(p.head, j))
                        ELSE p.data[k]],
            !.head = Step(@, n), !.count = @ + n]

\* A write that finds too little room stores what fits, marks the caller as asleep, and
\* returns the short count: no PIPE_BLOCKED, so the dispatcher does not reschedule.
PipeWrite(h, length) ==
  /\ InUser
  /\ bytes + length <= MaxByte
  /\ \/ Refused(h, Writing)
     \/ \E id \in Ids :
          /\ Denotes(h, id, Writing) /\ Owned(id)
          /\ LET p == pipes[id]
                 n == Least(Space(p), length)
                 put == Rouse(Entered(proc), id, Read)
             IN \/ /\ p.readers = 0
                   /\ Returns(Entered(proc), SysErr)
                   /\ UNCHANGED <<pipes, history>>
                \/ /\ p.readers > 0 /\ n = 0
                   /\ Schedule(Slept(PipeChannel(id, Writing)), TRUE)
                   /\ UNCHANGED <<pipes, history>>
                \/ /\ p.readers > 0 /\ n > 0
                   /\ pipes' = [pipes EXCEPT ![id] = Stored(p, n)]
                   /\ written' = [written EXCEPT ![id] = @ \o [k \in 1 .. n |-> bytes + k]]
                   /\ bytes' = bytes + n
                   /\ UNCHANGED taken
                   /\ IF n = length THEN Returns(put, n)
                      ELSE Returns([put EXCEPT
                             ![current].wait_channel = PipeChannel(id, Writing),
                             ![current].state = "WAITING"], n)
  /\ Unchanged

\* Mutant: an end that was closed leaves the other one open for ever.
Released_Never(p) == TRUE
Released(p) == p.readers > 0 \/ p.writers > 0

Ended(p, side) ==
  LET q == [p EXCEPT !.readers = IF side = Read /\ @ > 0 THEN @ - 1 ELSE @,
                     !.writers = IF side = Writing /\ @ > 0 THEN @ - 1 ELSE @]
  IN [q EXCEPT !.used = Released(q)]

PipeClose(h) ==
  /\ InUser
  /\ \/ Refused(h, h % 2)
     \/ \E id \in Ids, side \in {Read, Writing} :
          /\ Denotes(h, id, side) /\ Owned(id)
          /\ pipes' = [pipes EXCEPT ![id] = Ended(@, side)]
          /\ Returns(Rouse(Rouse(Entered(proc), id, Read), id, Writing), 0)
          /\ UNCHANGED history
  /\ Unchanged

-----------------------------------------------------------------------------
PipeInit ==
  /\ Init
  /\ pipes = [id \in Ids |-> [NewPipe(0) EXCEPT !.used = FALSE, !.readers = 0, !.writers = 0]]
  /\ written = [id \in Ids |-> <<>>]
  /\ taken = [id \in Ids |-> <<>>]
  /\ bytes = 0

PipeNext ==
  \/ Next /\ UNCHANGED <<pipes, history>>
  \/ Create
  \/ \E h \in Handles, n \in Lengths : PipeRead(h, n) \/ PipeWrite(h, n)
  \/ \E h \in Handles : PipeClose(h)

PipeSpec == PipeInit /\ [][PipeNext]_pipeVars

-----------------------------------------------------------------------------
\* Every pipe hands out the bytes written to it, each once and in their order, whatever
\* the sizes of the reads and writes and wherever the ring wraps: what was read, and what
\* is still in the ring, is what was written.
PipeOrder ==
  \A id \in Ids : pipes[id].used =>
    written[id] = taken[id] \o Front(pipes[id], pipes[id].count)

\* A reader that sleeps has an empty pipe before it, and a writer a full one: whatever
\* the owner does to the pipe after it was marked as asleep has woken it.  (One that
\* waits for a thread may still name the channel of a write that was cut short.)
NoLostPipeWakeup ==
  \A s \in UserSlots, id \in Ids :
    proc[s].state = "WAITING" /\ proc[s].join_tid = 0 /\ Owns(proc[s].pid, id) =>
      /\ proc[s].wait_channel = PipeChannel(id, Read) => pipes[id].count = 0
      /\ proc[s].wait_channel = PipeChannel(id, Writing) => pipes[id].count = PipeBuffer

\* A ring's counters agree, and a pipe is in the table as long as one of its ends is open.
RingOK ==
  \A id \in Ids :
    /\ pipes[id].count \in 0 .. PipeBuffer
    /\ pipes[id].tail \in 0 .. PipeBuffer - 1
    /\ pipes[id].head = Step(pipes[id].tail, pipes[id].count)
    /\ pipes[id].used <=> pipes[id].readers + pipes[id].writers > 0

\* Each end of a pipe that exists can be named to pipe_read, pipe_write and pipe_close (the
\* pipes README.md:475 lists as done).
EndsUsable ==
  \A id \in Ids, side \in {Read, Writing} :
    pipes[id].used => \E h \in Handles : Denotes(h, id, side)
=============================================================================
