-------------------------------- MODULE Xhci --------------------------------
(***************************************************************************)
(* The USB driver of src/xhci.c with its caller in src/mouse.c: one xHCI   *)
(* controller, one mouse, one keyboard.  The processor drives an           *)
(* enumeration (job) one awaited answer at a time, while the controller    *)
(* works through the rings on its own.  At the boot the kernel enumerates  *)
(* the mouse, then the keyboard; from then on the timer interrupt polls,   *)
(* and a mouse that is missing is looked for again from the desktop loop.  *)
(*                                                                         *)
(* Descriptors, packet sizes and delays are left out; a device is of the   *)
(* kind find_hid looks for or of the other.  An answer that does not come  *)
(* ends in a time-out.  cmd_abort sets USBCMD.INTE where CRCR.CA is meant, *)
(* so no command is ever stopped: what cmd_recover does after it cannot be *)
(* reached, and recovering is only the draining of the event ring.         *)
(* xhci_mouse_recover has no caller and is left out.                       *)
(***************************************************************************)
EXTENDS TrbRing, FiniteSets

CONSTANTS
  NPorts, NSlots,                    \* root ports, device slots
  CmdSize, Ep0Size, IntrSize, EventSize,  \* TRBs per segment (256 in the code)
  Scenarios,                         \* what is plugged in at the boot, and bounds:
                                     \* [devices, plugs, reports, faults, late]
  MaxRetries                         \* usb_retry_count's limit (3 in the code)

Kinds == {"mouse", "keyboard"}
Ports == 1 .. NPorts
Slots == 1 .. NSlots

VARIABLES
  port,      \* what is in each root port, and whether the port is enabled (PED)
  on,        \* controller_ready
  cmd, ep0, intr, evt,               \* the rings; intr has one per kind
  evc,       \* event_index and event_cycle
  ctl,       \* the controller's own position in the command ring
  slot,      \* the controller's device slots
  dev,       \* what the driver knows of the mouse and of the keyboard
  job,       \* the enumeration that runs
  usb,       \* mouse.c: usb_initialized, usb_retry_pending, usb_retry_count
  stage,     \* how far the boot is
  scenario,  \* how often what may happen in this behaviour
  tally      \* how often it did, and history

vars == <<port, on, cmd, ep0, intr, evt, evc, ctl, slot, dev, job, usb, stage, tally,
          scenario>>

NoSlot == [ctx |-> "none", port |-> 0, ep0 |-> Start, state |-> "off",
           hid |-> Start, armed |-> "off"]
Idle == [phase |-> "idle"]

IntrRings == [k \in Kinds |-> LinkedRing(2, IntrSize)]

Init ==
  /\ scenario \in Scenarios
  /\ port = [p \in Ports |-> [device |-> scenario.devices[p], enabled |-> FALSE]]
  /\ on = FALSE
  /\ cmd = LinkedRing(1, CmdSize) /\ ep0 = LinkedRing(1, Ep0Size)
  /\ intr = IntrRings /\ evt = EventRing(EventSize)
  /\ evc = Start /\ ctl = Start
  /\ slot = [s \in Slots |-> NoSlot]
  /\ dev = [k \in Kinds |-> [ready |-> FALSE, slot |-> 0, port |-> 0, pending |-> FALSE]]
  /\ job = Idle
  /\ usb = [init |-> FALSE, retry |-> FALSE, count |-> 0]
  /\ stage = "mouse"
  /\ tally = [plugs |-> 0, faults |-> 0,
              made |-> [k \in Kinds |-> 0], heard |-> [k \in Kinds |-> 0],
              lost |-> [k \in Kinds |-> 0], adrift |-> FALSE, late |-> 0, foreign |-> FALSE,
              kept |-> FALSE]

CanFault == tally.faults < scenario.faults
Spend(c) == IF c THEN [tally EXCEPT !.faults = @ + 1] ELSE tally

\* The controller publishes an event only where the driver has read the last one.
EventRoom == EventAvailableCount(evt, evc) < EventSize
Event(what, s, ok, pos) == [what |-> what, slot |-> s, ok |-> ok, pos |-> pos]

-----------------------------------------------------------------------------
(***************************************************************************)
(* The controller and the devices.                                         *)
(***************************************************************************)
Connected(s) == slot[s].port \in Ports /\ port[slot[s].port].enabled

\* What a command does to the slots, and its answer.
Refused == [slot |-> slot, s |-> 0, ok |-> FALSE]
Done(new, s) == [slot |-> new, s |-> s, ok |-> TRUE]

Executed(c) ==
  LET s == c.slot
      free == {f \in Slots : slot[f].state = "off"} IN
  CASE c.what = "enable" /\ free # {} ->
         LET f == CHOOSE f \in free : \A g \in free : f <= g
         IN Done([slot EXCEPT ![f].state = "enabled"], f)
    [] c.what = "disable" -> Done([slot EXCEPT ![s] = NoSlot], s)
    [] c.what = "address" /\ port[c.port].enabled ->
         Done([slot EXCEPT ![s].ctx = c.ctx, ![s].port = c.port,
                           ![s].ep0 = c.deq, ![s].state = "running"], s)
    [] c.what = "configure" ->
         Done([slot EXCEPT ![s].hid = c.deq, ![s].armed = "running"], s)
    [] c.what = "resetep" /\ slot[s].state = "halted" ->
         Done([slot EXCEPT ![s].state = "stopped"], s)
    [] c.what = "setdeq" /\ slot[s].state = "stopped" ->
         Done([slot EXCEPT ![s].ep0 = c.deq], s)
    [] c.what \in {"noop", "evaluate"} -> Done(slot, s)
    [] OTHER -> [Refused EXCEPT !.s = s]

RunCommand ==
  /\ Ready(cmd, ctl) /\ EventRoom
  /\ LET at == Followed(cmd, ctl).deq IN
     \E r \in {Executed(Body(cmd, ctl))}, failed \in {FALSE, TRUE} :
       /\ failed => CanFault
       /\ slot' = IF failed THEN slot ELSE r.slot
       /\ evt' = Post(evt, Event("command", r.s, r.ok /\ ~failed, at))
       /\ tally' = Spend(failed)
  /\ ctl' = Taken(cmd, ctl)
  /\ UNCHANGED <<port, on, cmd, ep0, intr, evc, dev, job, usb, stage>>

\* A stage of a control transfer; only the last one, or an error, makes an event.
RunControl(s) ==
  /\ slot[s].state = "running" /\ Ready(ep0, slot[s].ep0) /\ EventRoom
  /\ LET f == Followed(ep0, slot[s].ep0) IN
     \/ /\ Connected(s)
        /\ slot' = [slot EXCEPT ![s].ep0 = Taken(ep0, f)]
        /\ evt' = IF Body(ep0, f).what = "status"
                  THEN Post(evt, Event("control", s, TRUE, f.deq)) ELSE evt
        /\ UNCHANGED tally
     \/ /\ Connected(s) => CanFault
        /\ slot' = [slot EXCEPT ![s].ep0 = f, ![s].state = "halted"]
        /\ evt' = Post(evt, Event("control", s, FALSE, f.deq))
        /\ tally' = Spend(Connected(s))
  /\ UNCHANGED <<port, on, cmd, ep0, intr, evc, ctl, dev, job, usb, stage>>

\* A device has a report, or its endpoint fails.
RunReport(s) ==
  LET k == slot[s].ctx IN
  /\ slot[s].armed = "running" /\ Ready(intr[k], slot[s].hid) /\ EventRoom
  /\ LET f == Followed(intr[k], slot[s].hid) IN
     \/ /\ Connected(s) /\ tally.made[k] < scenario.reports
        /\ slot' = [slot EXCEPT ![s].hid = Taken(intr[k], f)]
        /\ evt' = Post(evt, Event("report", s, TRUE, f.deq))
        /\ tally' = [tally EXCEPT !.made[k] = @ + 1]
     \/ /\ Connected(s) => CanFault
        /\ slot' = [slot EXCEPT ![s].hid = Taken(intr[k], f), ![s].armed = "halted"]
        /\ evt' = Post(evt, Event("report", s, FALSE, f.deq))
        /\ tally' = [Spend(Connected(s)) EXCEPT !.made[k] = @ + 1]
  /\ UNCHANGED <<port, on, cmd, ep0, intr, evc, ctl, dev, job, usb, stage>>

\* A device is plugged in or pulled; the port is enabled by its next reset only.
Replug(p) ==
  /\ tally.plugs < scenario.plugs
  /\ \E d \in (Kinds \cup {"empty"}) \ {port[p].device} :
       /\ port[p].device = "empty" \/ d = "empty"
       /\ port' = [port EXCEPT ![p] = [device |-> d, enabled |-> FALSE]]
  /\ evt' = IF on /\ EventRoom THEN Post(evt, Event("port", 0, TRUE, 0)) ELSE evt
  /\ tally' = [tally EXCEPT !.plugs = @ + 1]
  /\ UNCHANGED <<on, cmd, ep0, intr, evc, ctl, slot, dev, job, usb, stage>>

Controller == RunCommand \/ \E s \in Slots : RunControl(s) \/ RunReport(s)

-----------------------------------------------------------------------------
(***************************************************************************)
(* An enumeration.  job.at is the control transfer it is in, left and      *)
(* rounds the retries that remain to ctrl() and to its caller, ask the     *)
(* transfer or command at hand, then where to go on after a recovery.      *)
(***************************************************************************)
Retries(step) ==
  CASE step \in {"desc8", "config"} -> 2
    [] step \in {"desc8again", "desc18", "desc18small"} -> 3
    [] OTHER -> 1

Goto(step) == [job EXCEPT !.phase = "ask", !.ask = "transfer", !.at = step,
                          !.left = Retries(step)]
Command(c, then) == [job EXCEPT !.phase = "ask", !.ask = c, !.then = then]
Again == [job EXCEPT !.phase = "ask", !.ask = "transfer"]

\* ep0_index = 0; ep0_cycle = 1; cmd_reset_ep0().
Rewind(then) == [Command("resetep", then) EXCEPT !.rewind = TRUE]

NextPort == [job EXCEPT !.phase = "scan", !.port = @ + 1]

\* Mutant: the slot of a device that is not wanted stays enabled.
Fail_KeepSlot == NextPort

Fail == IF job.enum = 0 THEN NextPort ELSE Command("disable", "released")

Submit == [job EXCEPT !.phase = "submit"]

\* Where read_device_descriptor goes on when a transfer of its own is done (ok) or
\* ctrl() gave it up.
ReadDeviceDescriptor(ok) ==
  CASE ok /\ job.at \in {"desc8", "desc8again"} -> {Goto("desc18")}
    [] ok -> {[j EXCEPT !.rounds = 0] :
                j \in {Goto("config9"), Command("evaluate", "anyway")}}
    [] job.at = "desc8" -> {Rewind("desc8again")}
    [] job.at = "desc18" -> {Command("evaluate", "small"), Rewind("desc18small")}
    [] OTHER -> {Fail}

FindHid == IF port[job.port].device = job.kind
           THEN [Goto("setconfig") EXCEPT !.rounds = 0] ELSE Fail

ReadConfigDescriptor(ok) ==
  CASE ok -> {IF job.at = "config9" THEN Goto("config") ELSE FindHid}
    [] OTHER -> {[Rewind("config9") EXCEPT !.rounds = @ + 1]}

\* SET_CONFIGURATION is repeated, SET_PROTOCOL and SET_IDLE may fail.
ConfigureHid(ok) ==
  CASE job.at = "setconfig" -> {IF ok THEN Command("configure", "configured")
                                ELSE [Rewind("setconfig") EXCEPT !.rounds = @ + 1]}
    [] job.at = "protocol" -> {Goto("idle")}
    [] job.at = "idle" -> {Submit}

Stepped(ok) ==
  CASE job.at \in {"desc8", "desc8again", "desc18", "desc18small"} -> ReadDeviceDescriptor(ok)
    [] job.at \in {"config9", "config"} -> ReadConfigDescriptor(ok)
    [] OTHER -> ConfigureHid(ok)

\* A transfer ended with -2 (recovered) or with -1.
TransferFailed(recovered) ==
  IF job.left = 0 THEN Stepped(FALSE)
  ELSE {[IF recovered THEN Rewind("again") ELSE Again EXCEPT !.left = @ - 1]}

\* cmd_reset_ep0 returned to where it was called.
ResetDone(ok) ==
  CASE job.then = "errored" -> TransferFailed(ok)
    [] job.then = "again" -> {Again}
    [] job.then \in {"desc8again", "desc18small"} -> {Goto(job.then)}
    [] job.then = "config9" -> {IF job.rounds < 4 THEN Goto("config9") ELSE Fail}
    [] job.then = "setconfig" ->
         {IF ok /\ job.rounds < 3 THEN Goto("setconfig") ELSE Fail}

\* The command at hand was answered, or given up; s is the slot in the answer.
CommandDone(ok, s) ==
  CASE job.ask = "noop" -> {[job EXCEPT !.phase = IF ok THEN "scan" ELSE "failed"]}
    [] job.ask = "enable" ->
         {IF ok THEN [Command("address", "addressed") EXCEPT !.slot = s, !.enum = s] ELSE Fail}
    [] job.ask = "address" -> {IF ok THEN Goto("desc8") ELSE Fail}
    [] job.ask = "evaluate" ->
         {IF job.then = "anyway" THEN Goto("config9")
          ELSE IF ok THEN Rewind("desc18small") ELSE Fail}
    [] job.ask = "configure" -> {IF ok THEN Goto("protocol") ELSE Fail}
    [] job.ask = "disable" -> {NextPort}
    [] job.ask = "resetep" -> IF ok THEN {Command("setdeq", job.then)} ELSE ResetDone(FALSE)
    [] job.ask = "setdeq" -> ResetDone(ok)

-----------------------------------------------------------------------------
(***************************************************************************)
(* The driver's side of the rings.                                         *)
(***************************************************************************)
Rewound(r) == [r EXCEPT !.enq = 0, !.cyc = 1]

NoData == {"setconfig", "protocol", "idle"}

\* Setup, data if there is any, status.
ControlTd(r, step) ==
  LET s == Put(r, [what |-> "setup"])
      d == IF step \in NoData THEN s ELSE PutRelinking(s, [what |-> "data"])
  IN [ring |-> PutRelinking(d, [what |-> "status"]), pos |-> {r.enq, s.enq, d.enq}]

Here(r) == [deq |-> r.enq, ccs |-> r.cyc]

\* Mutant: a device's control endpoint starts where the ring starts.
CommandTrb_FromStart ==
  [what |-> job.ask, slot |-> IF job.ask = "disable" THEN job.enum ELSE job.slot,
   ctx |-> job.kind, port |-> job.port, deq |-> Start]

CommandTrb ==
  [what |-> job.ask, slot |-> IF job.ask = "disable" THEN job.enum ELSE job.slot,
   ctx |-> job.kind, port |-> job.port,
   deq |-> IF job.ask = "configure" THEN [deq |-> 0, ccs |-> intr[job.kind].cyc]
           ELSE Here(IF job.rewind THEN Rewound(ep0) ELSE ep0)]

\* Write the transfer or the command at hand and ring the doorbell.
Ask ==
  /\ job.phase = "ask"
  /\ IF job.ask = "transfer"
     THEN LET td == ControlTd(ep0, job.at) IN
          /\ ep0' = td.ring
          /\ job' = [job EXCEPT !.phase = "wait", !.pos = td.pos]
          /\ slot' = [slot EXCEPT ![job.slot].state =
                        IF @ = "stopped" THEN "running" ELSE @]
          /\ UNCHANGED <<cmd, tally>>
     ELSE /\ cmd' = Put(cmd, CommandTrb)
          /\ ep0' = IF job.rewind THEN Rewound(ep0) ELSE ep0
          /\ job' = [job EXCEPT !.phase = "wait", !.pos = {cmd.enq}, !.rewind = FALSE]
          /\ tally' = [tally EXCEPT !.adrift = @ \/ job.rewind]
          /\ UNCHANGED slot
  /\ UNCHANGED <<port, on, intr, evt, evc, ctl, dev, usb, stage>>

\* Which events the waiting loops of ep0_xfer, cmd_enable_slot and cmd_wait stop at.
Accepts(e) ==
  IF job.ask = "transfer" THEN e.what = "control" /\ e.slot = job.slot
  ELSE /\ e.what = "command"
       /\ job.ask \in {"noop", "enable", "disable"} \/ e.slot = job.slot

\* An event read by an enumeration is gone, a report of a device too.
Dropped(e) ==
  IF e.what = "report" THEN [tally EXCEPT !.lost[slot[e.slot].ctx] = @ + 1] ELSE tally

TakeEvent ==
  /\ job.phase = "wait" /\ HasEvent(evt, evc)
  /\ LET e == EventAt(evt, evc) IN
     IF Accepts(e)
     THEN /\ job' \in CASE job.ask = "transfer" /\ e.ok -> Stepped(TRUE)
                        [] job.ask = "transfer" /\ ~e.ok -> {Command("resetep", "errored")}
                        [] e.ok -> CommandDone(TRUE, e.slot)
                        [] OTHER -> {[job EXCEPT !.phase = "recover"]}
          /\ tally' = [tally EXCEPT !.foreign = @ \/ e.pos \notin job.pos]
          /\ on' = (on \/ (job.ask = "noop" /\ e.ok))
     ELSE tally' = Dropped(e) /\ UNCHANGED <<job, on>>
  /\ evc' = NextEvent(evt, evc)
  /\ UNCHANGED <<port, cmd, ep0, intr, evt, ctl, slot, dev, usb, stage>>

\* Nothing more will come of what the driver waits for.
Stuck ==
  IF job.ask = "transfer"
  THEN slot[job.slot].state # "running" \/ ~Ready(ep0, slot[job.slot].ep0)
  ELSE ~Ready(cmd, ctl)

\* Mutant: ep0_xfer waits for its answer without end.
TimeOut_CommandsOnly ==
  /\ job.phase = "wait" /\ job.ask # "transfer" /\ ~HasEvent(evt, evc)
  /\ Stuck
  /\ job' = [job EXCEPT !.phase = "recover"]
  /\ UNCHANGED <<port, on, cmd, ep0, intr, evt, evc, ctl, slot, dev, usb, stage, tally>>

TimeOut ==
  /\ job.phase = "wait" /\ ~HasEvent(evt, evc)
  /\ Stuck \/ tally.late < scenario.late
  /\ job' \in IF job.ask = "transfer" THEN TransferFailed(FALSE)
              ELSE {[job EXCEPT !.phase = "recover"]}
  /\ tally' = IF Stuck THEN tally ELSE [tally EXCEPT !.late = @ + 1]
  /\ UNCHANGED <<port, on, cmd, ep0, intr, evt, evc, ctl, slot, dev, usb, stage>>

\* cmd_abort reads events until a stopped command that never comes.
Drain ==
  /\ job.phase = "recover" /\ HasEvent(evt, evc)
  /\ tally' = Dropped(EventAt(evt, evc))
  /\ evc' = NextEvent(evt, evc)
  /\ UNCHANGED <<port, on, cmd, ep0, intr, evt, ctl, slot, dev, job, usb, stage>>

Recovered ==
  /\ job.phase = "recover" /\ ~HasEvent(evt, evc)
  /\ job' \in CommandDone(FALSE, 0)
  /\ tally' = [tally EXCEPT !.adrift = @ \/ job.ask \in {"resetep", "setdeq"},
                            !.kept = @ \/ job.ask = "disable"]
  /\ UNCHANGED <<port, on, cmd, ep0, intr, evt, evc, ctl, slot, dev, usb, stage>>

-----------------------------------------------------------------------------
(***************************************************************************)
(* Enumerating: which ports are tried, and what is left behind.            *)
(***************************************************************************)
Other(k) == CHOOSE o \in Kinds : o # k

\* The port of the other device, once that device works, is left alone.
Spared(p) == dev[Other(job.kind)].ready /\ dev[Other(job.kind)].port = p

Enumeration(k, phase) ==
  [phase |-> phase, kind |-> k, port |-> 1, pass |-> 0, saw |-> FALSE,
   slot |-> 0, enum |-> 0, at |-> "", left |-> 0, rounds |-> 0, ask |-> "noop",
   then |-> "", rewind |-> FALSE, pos |-> {}, saved |-> <<ep0.enq, ep0.cyc>>]

PortReset ==
  /\ port[job.port].device # "empty" /\ ~Spared(job.port)
  /\ \/ /\ port' = [port EXCEPT ![job.port].enabled = TRUE]
        /\ job' = [Command("enable", "") EXCEPT !.saw = TRUE, !.enum = 0]
        /\ UNCHANGED tally
     \/ /\ CanFault
        /\ job' = [NextPort EXCEPT !.saw = TRUE]
        /\ tally' = Spend(TRUE)
        /\ UNCHANGED port

Scan ==
  /\ job.phase = "scan"
  /\ IF job.port \in Ports
     THEN \/ PortReset
          \/ /\ port[job.port].device = "empty" \/ Spared(job.port)
             /\ job' = NextPort
             /\ UNCHANGED <<port, tally>>
     ELSE /\ job' = IF job.kind = "mouse" /\ ~job.saw /\ job.pass = 0
                    THEN [job EXCEPT !.pass = 1, !.port = 1]
                    ELSE [job EXCEPT !.phase = "failed"]
          /\ UNCHANGED <<port, tally>>
  /\ UNCHANGED <<on, cmd, ep0, intr, evt, evc, ctl, slot, dev, usb, stage>>

\* Mutant: a report is asked for although one is under way.
WithReport_Again(d, k) ==
  [d EXCEPT !.intr[k] = Put(@, [what |-> "normal"]), !.dev[k].pending = TRUE]

\* submit_report and submit_keyboard_report: one transfer at a time per device.
WithReport(d, k) ==
  IF d.dev[k].pending THEN d
  ELSE [d EXCEPT !.intr[k] = Put(@, [what |-> "normal"]), !.dev[k].pending = TRUE]

\* What the callers make of the end: keyboard discovery puts ep0's index back.
Ended(ok) ==
  /\ job' = Idle
  /\ stage' = IF job.kind = "keyboard" THEN "run"
              ELSE IF stage = "mouse" THEN "keyboard" ELSE stage
  /\ usb' = IF ok /\ job.kind = "mouse" THEN [usb EXCEPT !.init = TRUE, !.count = 0] ELSE usb
  /\ ep0' = IF job.kind = "keyboard"
            THEN [ep0 EXCEPT !.enq = job.saved[1], !.cyc = job.saved[2]] ELSE ep0
  /\ tally' = [tally EXCEPT !.adrift = @ \/ ep0' # ep0]

Succeed ==
  /\ job.phase = "submit"
  /\ LET k == job.kind
         d == WithReport([intr |-> intr,
                dev |-> [dev EXCEPT ![k] = [ready |-> TRUE, slot |-> job.slot,
                                            port |-> job.port, pending |-> FALSE]]], k)
     IN intr' = d.intr /\ dev' = d.dev
  /\ Ended(TRUE)
  /\ UNCHANGED <<port, on, cmd, evt, evc, ctl, slot>>

GiveUp ==
  /\ job.phase = "failed"
  /\ Ended(FALSE)
  /\ UNCHANGED <<port, on, cmd, intr, evt, evc, ctl, slot, dev>>

-----------------------------------------------------------------------------
(***************************************************************************)
(* The callers: the boot, the desktop loop, the timer interrupt.           *)
(***************************************************************************)
\* hc_reset, alloc_memory, setup_rings, start_controller: all of it anew.
Restarted ==
  /\ cmd' = LinkedRing(1, CmdSize) /\ ep0' = LinkedRing(1, Ep0Size)
  /\ intr' = IntrRings /\ evt' = EventRing(EventSize)
  /\ evc' = Start /\ ctl' = Start
  /\ slot' = [s \in Slots |-> NoSlot]
  /\ port' = [p \in Ports |-> [port[p] EXCEPT !.enabled = FALSE]]
  /\ dev' = [dev EXCEPT !["keyboard"].ready = FALSE, !["keyboard"].pending = FALSE]
  /\ job' = [Enumeration("mouse", "ask") EXCEPT !.saved = <<0, 1>>]

MouseInit ==
  /\ job = Idle
  /\ \/ stage = "mouse" /\ usb' = usb
     \/ stage = "run" /\ usb.retry /\ ~usb.init /\ ~dev["mouse"].ready
        /\ usb' = [usb EXCEPT !.retry = FALSE]
  /\ IF on
     THEN /\ job' = Enumeration("mouse", "scan")
          /\ UNCHANGED <<port, cmd, ep0, intr, evt, evc, ctl, slot, dev, tally>>
     ELSE \/ Restarted /\ UNCHANGED tally
          \/ /\ CanFault
             /\ job' = Enumeration("mouse", "failed")
             /\ tally' = Spend(TRUE)
             /\ UNCHANGED <<port, cmd, ep0, intr, evt, evc, ctl, slot, dev>>
  /\ UNCHANGED <<on, stage>>

\* The mouse is taken for working again where nothing was done for it.
MouseInitReady ==
  /\ job = Idle /\ stage = "run" /\ usb.retry
  /\ usb.init \/ dev["mouse"].ready
  /\ usb' = IF usb.init THEN [usb EXCEPT !.retry = FALSE]
            ELSE [init |-> TRUE, retry |-> FALSE, count |-> 0]
  /\ UNCHANGED <<port, on, cmd, ep0, intr, evt, evc, ctl, slot, dev, job, stage, tally>>

KeyboardInit ==
  /\ job = Idle /\ stage = "keyboard"
  /\ job' = Enumeration("keyboard", IF on THEN "scan" ELSE "failed")
  /\ UNCHANGED <<port, on, cmd, ep0, intr, evt, evc, ctl, slot, dev, usb, stage, tally>>

Is(k, e) == dev[k].ready /\ e.slot = dev[k].slot

\* The mouse's port or endpoint is down.
MouseDown ==
  dev["mouse"].ready /\ (~Connected(dev["mouse"].slot) \/
                         slot[dev["mouse"].slot].armed = "halted")

\* mouse_poll in the timer interrupt: it takes the events that are there now, but
\* looks at none while the mouse is down.  500 polls without a mouse ask for a new look.
MousePoll ==
  /\ stage = "run" /\ job = Idle
  /\ dev["mouse"].ready \/ dev["keyboard"].ready
  /\ IF MouseDown
     THEN usb' = [usb EXCEPT !.init = FALSE] /\ UNCHANGED job
     ELSE job' = [phase |-> "poll", budget |-> EventAvailableCount(evt, evc)] /\ UNCHANGED usb
  /\ UNCHANGED <<port, on, cmd, ep0, intr, evt, evc, ctl, slot, dev, stage, tally>>

LookAgain ==
  /\ stage = "run" /\ job = Idle
  /\ ~usb.init /\ ~usb.retry /\ usb.count < MaxRetries
  /\ usb' = [usb EXCEPT !.retry = TRUE, !.count = @ + 1]
  /\ UNCHANGED <<port, on, cmd, ep0, intr, evt, evc, ctl, slot, dev, job, stage, tally>>

\* Mutant: the keyboard's reports are not looked at without a mouse.
Reporter_NeedsMouse(e) ==
  {k \in Kinds : e.what = "report" /\ dev["mouse"].ready /\ dev[k].ready /\ dev[k].slot = e.slot}

\* The device of which this is a report, if it works.
Reporter(e) == {k \in Kinds : e.what = "report" /\ dev[k].ready /\ dev[k].slot = e.slot}

\* A report is handled and the next one asked for; a mouse's error ends the poll.
PollEvent ==
  /\ job.phase = "poll" /\ job.budget > 0
  /\ LET e == EventAt(evt, evc)
         heard(k) == [intr |-> intr, dev |-> [dev EXCEPT ![k].pending = FALSE]]
         d == IF Reporter(e) = {} THEN [intr |-> intr, dev |-> dev]
              ELSE LET k == CHOOSE k \in Reporter(e) : TRUE
                   IN IF k = "mouse" /\ ~e.ok THEN heard(k) ELSE WithReport(heard(k), k)
         failed == "mouse" \in Reporter(e) /\ ~e.ok
     IN /\ intr' = d.intr /\ dev' = d.dev
        /\ tally' = [tally EXCEPT !.heard =
                       [k \in Kinds |-> @[k] + (IF k \in Reporter(e) THEN 1 ELSE 0)]]
        /\ job' = IF failed THEN Idle ELSE [job EXCEPT !.budget = @ - 1]
        /\ usb' = IF failed THEN [usb EXCEPT !.init = FALSE] ELSE usb
  /\ evc' = NextEvent(evt, evc)
  /\ UNCHANGED <<port, on, cmd, ep0, evt, ctl, slot, stage>>

\* The end of the poll: a device with no transfer under way gets one.
PollEnd ==
  /\ job.phase = "poll" /\ job.budget = 0
  /\ LET rearm(d, k) == IF d.dev[k].ready THEN WithReport(d, k) ELSE d
         d == rearm(rearm([intr |-> intr, dev |-> dev], "keyboard"), "mouse")
     IN intr' = d.intr /\ dev' = d.dev
  /\ job' = Idle
  /\ UNCHANGED <<port, on, cmd, ep0, evt, evc, ctl, slot, usb, stage, tally>>

Driver == \/ Ask \/ TakeEvent \/ TimeOut \/ Drain \/ Recovered
          \/ Scan \/ Succeed \/ GiveUp \/ PollEvent \/ PollEnd
Callers == MouseInit \/ MouseInitReady \/ KeyboardInit

Next ==
  /\ Controller \/ Driver \/ Callers \/ MousePoll \/ LookAgain \/ \E p \in Ports : Replug(p)
  /\ UNCHANGED scenario

Spec == Init /\ [][Next]_vars

FairSpec == Spec /\ WF_vars(Controller /\ UNCHANGED scenario)
                 /\ WF_vars(Driver /\ UNCHANGED scenario)

-----------------------------------------------------------------------------
Waits(k) ==
  {n \in 0 .. EventAvailableCount(evt, evc) - 1 :
     LET e == EventAt(evt, EventsOn(evt, evc, n))
     IN e.what = "report" /\ slot[e.slot].ctx = k}

\* What is under way for a device: transfers handed to the controller, answers not read.
UnderWay(k) == Waiting(intr[k], slot[dev[k].slot].hid) + Cardinality(Waits(k))

\* The driver has one report buffer per device: never two transfers of it under
\* way, and none that the driver does not know of (report_pending).  One that it
\* awaits is under way, unless an enumeration has read the report away; so the
\* device is heard.
OneTransfer ==
  \A k \in Kinds : dev[k].ready =>
    /\ UnderWay(k) <= IF dev[k].pending THEN 1 ELSE 0
    /\ dev[k].pending /\ tally.lost[k] = 0 => UnderWay(k) = 1

\* Every report a device made is handled once, waits, or was read away.
EveryReportOnce ==
  \A k \in Kinds :
    tally.made[k] = tally.heard[k] + tally.lost[k] + Cardinality(Waits(k))

\* Two slots of the controller never share a device context, whatever failed.
ContextsApart ==
  \A s, t \in Slots : s # t /\ slot[s].ctx = slot[t].ctx => slot[s].ctx = "none"

\* They share none unless a Disable Slot failed or was given up (cmd_disable_slot): its slot
\* keeps the context that the next enumeration uses again.
OwnContexts == ~tally.kept => ContextsApart

\* The answer the driver takes is the answer to its own transfer or command, as long as
\* ep0's index was not set back and its recovery did not fail, and no answer came after the
\* driver had given up waiting for it.
OwnAnswer == tally.foreign => tally.adrift \/ tally.late > 0

\* The same of late answers: cmd_enable_slot and cmd_wait(0) take any command's.
OwnWhenLate == tally.foreign => tally.adrift

\* No report of a working device is read away by an enumeration of the other: not
\* so in this code (xhci.c:1436 "A mouse retry must never reset a working USB keyboard").
NoneReadAway == \A k \in Kinds : tally.lost[k] = 0

\* Every enumeration and every poll ends.
Enumerates == job # Idle ~> job = Idle
=============================================================================
