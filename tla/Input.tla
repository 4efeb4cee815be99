-------------------------------- MODULE Input --------------------------------
(***************************************************************************)
(* Keyboard and mouse input: src/keyboard.c and the PS/2 side of           *)
(* src/mouse.c.  Both devices share the one output buffer of the i8042     *)
(* controller, whose status tells whose byte it holds; both feed rings     *)
(* that the kernel's main loop and the processes read.                     *)
(*                                                                         *)
(* The boot runs with interrupts off and reads the buffer itself.  After   *)
(* it every interrupt of the devices and of the timer reads the buffer     *)
(* until it is empty; the main loop (shell_run, gui_step) does so too,     *)
(* with interrupts on, so that an interrupt may come between its look at   *)
(* the status and at the data.                                             *)
(*                                                                         *)
(* A key is a letter, Shift, or a key with the prefix E0; key maps, Ctrl,  *)
(* Alt and Caps Lock only choose the character and are left out, as is     *)
(* scan-code set 2, which is never chosen.  A mouse packet has a number;   *)
(* of its bytes matter their place and bit 3, of the first the overflow    *)
(* bits.  Bytes with a parity or time-out flag do not occur.               *)
(***************************************************************************)
EXTENDS Integers, FiniteSets, Sequences, SequencesExt

CONSTANTS
  Machines,      \* the machines: each the set of its Devices and Uses
  RingSize, EventSize,                 \* 128 and 256 in the code
  MaxKeys, MaxMoves,                   \* bounds: events of the keyboards, of the mice
  MaxEvents                            \* bound: of all of them

Devices == {"i8042", "ps2 keyboard", "ps2 mouse", "usb keyboard", "usb mouse"}

\* "poll": the main loop polls the i8042 (shell_run, gui_step); "process": a process
\* reads characters too; "boot": the devices are used during the boot.
Uses == {"poll", "process", "boot"}

ASSUME InputAssumption ==
  /\ Machines \subseteq SUBSET (Devices \cup Uses)
  /\ RingSize \in Nat \ {0, 1} /\ EventSize \in Nat \ {0, 1}
  /\ MaxKeys \in Nat /\ MaxMoves \in Nat /\ MaxEvents \in Nat

VARIABLES
  machine,     \* what it has; fixed
  stage,       \* how far the boot is, then "run"
  cfg,         \* the controller's command byte: what is set in it
  out, last,   \* the output buffer, or Empty; the byte read last
  answer,      \* the controller owes its command byte
  kq, mq,      \* bytes the devices have still to send
  streaming,   \* the mouse sends packets
  prefix, shift,                      \* extended_prefix, shift_down
  held,        \* usb_prev_keys
  cycle, flags, middle,               \* the decoder of mouse packets
  chars, cread, cwrite,               \* the character ring
  events, evlock,                     \* the event ring, mouse_event_lock_ready
  fore,        \* the main loop's call of keyboard_ps2_service
  getter,      \* the main loop's call of keyboard_getchar
  reader,      \* a process in mouse_read_event
  usb,         \* the USB mouse: whether it works, and its retries
  hist         \* history of what was typed, moved, read and lost

devices == <<out, last, answer, kq, mq, streaming>>
decoder == <<prefix, shift, held, cycle, flags, middle>>
rings == <<chars, cread, cwrite, events, evlock>>
calls == <<fore, getter, reader, usb>>
vars == <<machine, stage, cfg, devices, decoder, rings, calls, hist>>

Empty == [from |-> "nobody"]
Key(code) == [from |-> "keyboard", code |-> code]
Ack(d) == [from |-> d, code |-> "ack"]
CommandByte == [from |-> "controller", code |-> "cfg"]

Init ==
  /\ machine \in Machines
  /\ stage = "keyboard"
  /\ cfg = {}
  /\ out = Empty /\ last = Empty /\ answer = FALSE
  /\ kq = <<>> /\ mq = <<>> /\ streaming = FALSE
  /\ prefix = FALSE /\ shift = FALSE /\ held = {}
  /\ cycle = 0 /\ flags = Empty /\ middle = Empty
  /\ chars = [i \in 0 .. RingSize - 1 |-> "none"] /\ cread = 0 /\ cwrite = 0
  /\ events = <<>> /\ evlock = FALSE
  /\ fore = "none" /\ getter = "none" /\ reader = "away"
  /\ usb = [on |-> FALSE, tries |-> 0, pending |-> FALSE, busy |-> FALSE]
  /\ hist = [keys |-> 0, moves |-> 0, down |-> FALSE, typed |-> <<>>, pushed |-> <<>>,
             got |-> <<>>, full |-> 0, made |-> <<>>, spoiled |-> {}]

Spoil(d) == [hist EXCEPT !.spoiled = @ \cup {d}]

-----------------------------------------------------------------------------
(***************************************************************************)
(* People and devices.                                                     *)
(***************************************************************************)
InUse == "boot" \in machine \/ stage = "run"

More == hist.keys + hist.moves < MaxEvents
MoreKeys == More /\ hist.keys < MaxKeys
MoreMoves == More /\ hist.moves < MaxMoves

Moved == [hist EXCEPT !.moves = @ + 1]
Typed(c) == [hist EXCEPT !.keys = @ + 1, !.typed = Append(@, c)]

PressKey ==
  /\ "ps2 keyboard" \in machine /\ "kclock" \in cfg /\ InUse /\ MoreKeys
  /\ \E k \in {"letter", "shift", "arrow"} :
       CASE k = "letter" ->
              /\ kq' = kq \o <<Key("a"), Key("a up")>>
              /\ hist' = Typed(IF hist.down THEN "A" ELSE "a")
         [] k = "shift" ->
              /\ kq' = Append(kq, Key(IF hist.down THEN "shift up" ELSE "shift"))
              /\ hist' = [hist EXCEPT !.keys = @ + 1, !.down = ~@]
         [] k = "arrow" ->
              /\ kq' = kq \o <<Key("E0"), Key("a")>>
              /\ hist' = [hist EXCEPT !.keys = @ + 1]
  /\ UNCHANGED <<machine, stage, cfg, out, last, answer, mq, streaming, decoder, rings, calls>>

MoveMouse ==
  /\ streaming /\ InUse /\ MoreMoves
  /\ \E over, s \in BOOLEAN :
       LET Byte(i) == [from |-> "mouse", n |-> hist.moves, i |-> i, sync |-> i = 0 \/ s,
                       over |-> over /\ i = 0]
       IN mq' = mq \o <<Byte(0), Byte(1), Byte(2)>>
  /\ hist' = Moved
  /\ UNCHANGED <<machine, stage, cfg, out, last, answer, kq, streaming, decoder, rings, calls>>

\* The controller fills its buffer: its own answer goes before the devices' bytes.
Fill ==
  /\ out = Empty
  /\ \/ answer /\ out' = CommandByte /\ answer' = FALSE /\ UNCHANGED <<kq, mq>>
     \/ /\ ~answer /\ kq # <<>> /\ "kclock" \in cfg
        /\ out' = Head(kq) /\ kq' = Tail(kq) /\ UNCHANGED <<answer, mq>>
     \/ /\ ~answer /\ mq # <<>> /\ "mclock" \in cfg
        /\ out' = Head(mq) /\ mq' = Tail(mq) /\ UNCHANGED <<answer, kq>>
  /\ UNCHANGED <<machine, stage, cfg, last, streaming, decoder, rings, calls, hist>>

IsAux(b) == b.from = "mouse"

-----------------------------------------------------------------------------
(***************************************************************************)
(* The decoders and the rings they feed.                                   *)
(***************************************************************************)
Next1(i) == (i + 1) % RingSize

\* Mutant: the ring is filled to its last place, where it looks empty.
Pushed_Full(h, c) ==
  [chars |-> [chars EXCEPT ![cwrite] = c], cwrite |-> Next1(cwrite),
   hist |-> [h EXCEPT !.pushed = Append(@, c)]]

\* push_char: a character that finds the ring full is dropped.
Pushed(h, c) ==
  IF Next1(cwrite) = cread
  THEN [chars |-> chars, cwrite |-> cwrite, hist |-> [h EXCEPT !.full = @ + 1]]
  ELSE [chars |-> [chars EXCEPT ![cwrite] = c], cwrite |-> Next1(cwrite),
        hist |-> [h EXCEPT !.pushed = Append(@, c)]]

\* Mutant: the key after the prefix E0 is taken for a key without it.
Scancode_NoPrefix(code, h) ==
  /\ prefix' = FALSE
  /\ shift' = IF code = "shift" THEN TRUE ELSE IF code = "shift up" THEN FALSE ELSE shift
  /\ LET p == IF code = "a" THEN Pushed(h, IF shift THEN "A" ELSE "a")
              ELSE [chars |-> chars, cwrite |-> cwrite, hist |-> h]
     IN chars' = p.chars /\ cwrite' = p.cwrite /\ hist' = p.hist

\* keyboard_handle_scancode
Scancode(code, h) ==
  /\ prefix' = (code = "E0")
  /\ shift' = CASE ~prefix /\ code = "shift" -> TRUE
                [] ~prefix /\ code = "shift up" -> FALSE
                [] OTHER -> shift
  /\ LET p == IF ~prefix /\ code = "a" THEN Pushed(h, IF shift THEN "A" ELSE "a")
              ELSE [chars |-> chars, cwrite |-> cwrite, hist |-> h]
     IN chars' = p.chars /\ cwrite' = p.cwrite /\ hist' = p.hist

\* Mutant: an event wakes nobody.
Event_NoWake(e, h) ==
  /\ reader' = reader
  /\ IF ~evlock \/ Len(events) = EventSize - 1 THEN events' = events /\ hist' = h
     ELSE events' = Append(events, e) /\ hist' = [h EXCEPT !.made = Append(@, e)]

\* mouse_event_push: a full ring drops the event, and an event wakes the reader.
Event(e, h) ==
  IF ~evlock THEN events' = events /\ reader' = reader /\ hist' = h
  ELSE IF Len(events) = EventSize - 1
  THEN events' = events /\ reader' = reader /\ hist' = [h EXCEPT !.full = @ + 1]
  ELSE /\ events' = Append(events, e)
       /\ reader' = IF reader = "asleep" THEN "ready" ELSE reader
       /\ hist' = [h EXCEPT !.made = Append(@, e)]

\* What the three bytes of a packet become.
PacketEvent(b) == [from |-> "ps2 mouse", bytes |-> <<flags, middle, b>>]

\* Mutant: a packet that overflows is given up at its first byte.
MouseByte_DropEarly(b, h) ==
  CASE cycle = 0 -> /\ IF b.from = "mouse" /\ "sync" \in DOMAIN b /\ (~b.sync \/ b.over)
                       THEN UNCHANGED <<flags, cycle>> ELSE flags' = b /\ cycle' = 1
                    /\ UNCHANGED <<middle, events, reader>> /\ hist' = h
    [] cycle = 1 -> /\ middle' = b /\ cycle' = 2
                    /\ UNCHANGED <<flags, events, reader>> /\ hist' = h
    [] cycle = 2 -> /\ cycle' = 0
                    /\ Event(PacketEvent(b), h)
                    /\ UNCHANGED <<flags, middle>>

\* mouse_handle_ps2_byte
MouseByte(b, h) ==
  LET sync == IF b.from = "mouse" /\ "sync" \in DOMAIN b THEN b.sync ELSE TRUE
      over == "over" \in DOMAIN flags /\ flags.over IN
  CASE cycle = 0 -> /\ IF sync THEN flags' = b /\ cycle' = 1 ELSE UNCHANGED <<flags, cycle>>
                    /\ UNCHANGED <<middle, events, reader>> /\ hist' = h
    [] cycle = 1 -> /\ middle' = b /\ cycle' = 2
                    /\ UNCHANGED <<flags, events, reader>> /\ hist' = h
    [] cycle = 2 -> /\ cycle' = 0
                    /\ IF over THEN UNCHANGED <<events, reader>> /\ hist' = h
                       ELSE Event(PacketEvent(b), h)
                    /\ UNCHANGED <<flags, middle>>

\* What keyboard_ps2_service does with a byte, by whose it was said to be.
Dispatch(aux, b, h) ==
  IF aux THEN MouseByte(b, h) /\ UNCHANGED <<prefix, shift, chars, cwrite>>
  ELSE /\ Scancode(IF "code" \in DOMAIN b THEN b.code ELSE "mouse byte", h)
       /\ UNCHANGED <<cycle, flags, middle, events, reader>>

-----------------------------------------------------------------------------
(***************************************************************************)
(* The boot: keyboard_init, mouse_init, mouse_usb_init.                    *)
(***************************************************************************)
Forced == {"kclock", "xlate"}

\* keyboard_init: with both ports off the command byte is read undisturbed, and
\* what the firmware left behind is flushed.
KeyboardInit ==
  /\ stage = "keyboard"
  /\ IF "i8042" \in machine THEN cfg' = Forced /\ stage' = "aux"
     ELSE cfg' = {} /\ stage' = "usb"
  /\ UNCHANGED <<machine, devices, decoder, rings, calls, hist>>

\* mouse_init turns the port on and asks for the command byte.
AuxOn ==
  /\ stage = "aux" /\ stage' = "cfg"
  /\ answer' = TRUE
  /\ cfg' = cfg \cup {"mclock"}
  /\ evlock' = TRUE /\ cycle' = 0
  /\ UNCHANGED <<machine, out, last, kq, mq, streaming, prefix, shift, held, flags, middle,
                 chars, cread, cwrite, events, calls, hist>>

\* The last byte stays to be read again; only the main loop ever does so.
Taken == out # Empty /\ out' = Empty /\ last' = IF "poll" \in machine THEN out ELSE last

\* The bits of the command byte a byte of another device would set, or clear.
Read(b) == IF b = CommandByte THEN {cfg} ELSE SUBSET {"kclock", "xlate", "mclock"}

\* ps2_read_controller_byte: a byte of the mouse is decoded, any other is the answer.
ReadConfig ==
  /\ stage = "cfg" /\ Taken
  /\ IF IsAux(out)
     THEN /\ MouseByte(out, hist)
          /\ UNCHANGED <<stage, cfg, mq>>
     ELSE /\ \E c \in Read(out) : cfg' = c \cup {"mclock"}
          /\ stage' = "defaults"
          /\ mq' = IF "ps2 mouse" \in machine THEN Append(mq, Ack("mouse")) ELSE mq
          /\ hist' = IF out = CommandByte THEN hist ELSE Spoil("keys")
          /\ UNCHANGED <<cycle, flags, middle, events, reader>>
  /\ UNCHANGED <<machine, answer, kq, streaming, prefix, shift, held, chars, cread, cwrite,
                 evlock, fore, getter, usb>>

\* ps2_read_aux_byte: a byte of the keyboard is decoded, any other is the answer; the
\* answer to "defaults" is followed by the command to send packets.
ReadAck ==
  /\ stage \in {"defaults", "enable"} /\ Taken
  /\ IF IsAux(out)
     THEN /\ IF stage = "defaults" /\ out = Ack("mouse")
             THEN stage' = "enable" /\ mq' = Append(mq, Ack("mouse")) /\ streaming' = TRUE
             ELSE stage' = "rearm" /\ UNCHANGED <<mq, streaming>>
          /\ UNCHANGED <<prefix, shift, chars, cwrite, hist>>
     ELSE /\ Scancode(out.code, hist)
          /\ UNCHANGED <<stage, mq, streaming>>
  /\ UNCHANGED <<machine, cfg, answer, kq, held, cycle, flags, middle, cread, events, evlock, calls>>

\* Nothing comes until the wait is given up.
Quiet == out = Empty /\ ~answer /\ mq = <<>> /\ (kq = <<>> \/ "kclock" \notin cfg)

\* Mutant: a mouse that does not answer ends mouse_init without the keyboard's repair.
NoAck_Return ==
  /\ stage \in {"defaults", "enable"} /\ Quiet
  /\ stage' = "usb"
  /\ UNCHANGED <<machine, cfg, devices, decoder, rings, calls, hist>>

NoAck ==
  /\ stage \in {"defaults", "enable"} /\ Quiet
  /\ stage' = "rearm"
  /\ UNCHANGED <<machine, cfg, devices, decoder, rings, calls, hist>>

\* keyboard_rearm_after_mouse_init asks for the command byte,
Rearm ==
  /\ stage = "rearm" /\ stage' = "rearmcfg"
  /\ answer' = TRUE
  /\ UNCHANGED <<machine, cfg, out, last, kq, mq, streaming, decoder, rings, calls, hist>>

Stolen(b) == IF IsAux(b) THEN Spoil("moves") ELSE Spoil("keys")

\* takes any byte for it, and has the keyboard send,
RearmConfig ==
  /\ stage = "rearmcfg" /\ Taken
  /\ \E c \in Read(out) : cfg' = c \cup Forced
  /\ kq' = Append(kq, Ack("keyboard"))
  /\ stage' = "rescan"
  /\ hist' = IF out = CommandByte THEN hist ELSE Stolen(out)
  /\ UNCHANGED <<machine, answer, mq, streaming, decoder, rings, calls>>

\* dropping what comes before the acknowledgement.
RearmAck ==
  /\ stage = "rescan" /\ Taken
  /\ stage' = IF out = Ack("keyboard") THEN "usb" ELSE stage
  /\ hist' = IF out \in {Ack("keyboard"), CommandByte} THEN hist ELSE Stolen(out)
  /\ UNCHANGED <<machine, cfg, answer, kq, mq, streaming, decoder, rings, calls>>

\* mouse_usb_init, and interrupts are turned on.
UsbInit ==
  /\ stage = "usb" /\ stage' = "run"
  /\ \E ok \in {b \in BOOLEAN : b => "usb mouse" \in machine} : usb' = [usb EXCEPT !.on = ok]
  /\ UNCHANGED <<machine, cfg, devices, decoder, rings, fore, getter, reader, hist>>

-----------------------------------------------------------------------------
(***************************************************************************)
(* Interrupts and the main loop.                                           *)
(***************************************************************************)
Running == stage = "run" /\ "i8042" \in machine

\* Mutant: a byte of the mouse is left in the buffer.
Service_KeysOnly ==
  /\ Running /\ Taken /\ ~IsAux(out)
  /\ Dispatch(FALSE, out, hist)
  /\ UNCHANGED <<machine, stage, cfg, answer, kq, mq, streaming, held, cread, evlock, fore,
                 getter, usb>>

\* An interrupt of a device or of the timer: one turn of keyboard_ps2_service.
Service ==
  /\ Running /\ Taken
  /\ Dispatch(IsAux(out), out, hist)
  /\ UNCHANGED <<machine, stage, cfg, answer, kq, mq, streaming, held, cread, evlock, fore, getter, usb>>

\* The same by the main loop: it looks at the status,
ForeStatus ==
  /\ Running /\ "poll" \in machine /\ fore = "none" /\ out # Empty
  /\ fore' = IF IsAux(out) THEN "aux" ELSE "key"
  /\ UNCHANGED <<machine, stage, cfg, devices, decoder, rings, getter, reader, usb, hist>>

\* and reads the data, which is another byte, or the last one again, when an
\* interrupt came in between.
ForeData ==
  /\ fore # "none" /\ fore' = "none"
  /\ LET b == IF out # Empty THEN out ELSE last IN
     /\ out' = Empty /\ last' = b
     /\ Dispatch(fore = "aux", b,
                 IF out = Empty \/ IsAux(b) # (fore = "aux") THEN Stolen(b) ELSE hist)
  /\ UNCHANGED <<machine, stage, cfg, answer, kq, mq, streaming, held, cread, evlock, getter, usb>>

\* keyboard_getchar in the main loop: the character is read,  (Bound: with two
\* readers the read index may pass the write index, and the ring be read for ever.)
MaxGot == MaxKeys + 1
GetRead ==
  /\ stage = "run" /\ getter = "none" /\ cread # cwrite /\ Len(hist.got) < MaxGot
  /\ getter' = chars[cread]
  /\ UNCHANGED <<machine, stage, cfg, devices, decoder, rings, fore, reader, usb, hist>>

Got(c) == [hist EXCEPT !.got = Append(@, c)]

\* and the index moved on.
GetAdvance ==
  /\ getter # "none" /\ getter' = "none"
  /\ cread' = Next1(cread)
  /\ hist' = Got(getter)
  /\ UNCHANGED <<machine, stage, cfg, devices, decoder, chars, cwrite, events, evlock, fore, reader, usb>>

\* keyboard_getchar in a system call, which no process interrupts.
GetcharCall ==
  /\ stage = "run" /\ "process" \in machine /\ cread # cwrite /\ Len(hist.got) < MaxGot
  /\ cread' = Next1(cread)
  /\ hist' = Got(chars[cread])
  /\ UNCHANGED <<machine, stage, cfg, devices, decoder, chars, cwrite, events, evlock, calls>>

\* mouse_read_event: a reader takes an event, or sleeps until one is pushed and
\* calls again.
ReadEvent ==
  /\ stage = "run" /\ evlock /\ reader \in {"away", "ready"}
  /\ IF events # <<>>
     THEN events' = Tail(events) /\ reader' = "away"
     ELSE reader' = "asleep" /\ UNCHANGED events
  /\ UNCHANGED <<machine, stage, cfg, devices, decoder, chars, cread, cwrite, evlock, fore, getter, usb, hist>>

-----------------------------------------------------------------------------
(***************************************************************************)
(* USB input: what the timer's poll of the host controller brings.         *)
(***************************************************************************)
UsbKeys == {"x", "y"}

\* keyboard_handle_usb_report: the keys that were not held are typed (at most one is
\* new in a report here), and Shift is the report's.
UsbReport ==
  /\ stage = "run" /\ "usb keyboard" \in machine /\ MoreKeys
  /\ \E keys \in {k \in SUBSET UsbKeys : Cardinality(k \ held) <= 1}, sh \in BOOLEAN :
       /\ shift' = sh
       /\ LET h == [hist EXCEPT !.keys = @ + 1]
              new == IF keys \subseteq held THEN "none" ELSE CHOOSE k \in keys \ held : TRUE
              p == IF new = "none" THEN [chars |-> chars, cwrite |-> cwrite, hist |-> h]
                   ELSE Pushed(Typed(new), new)
          IN chars' = p.chars /\ cwrite' = p.cwrite /\ hist' = p.hist
       /\ held' = keys
  /\ UNCHANGED <<machine, stage, cfg, devices, prefix, cycle, flags, middle, cread, events, evlock, calls>>

UsbEvent == [from |-> "usb mouse", n |-> hist.moves]

\* mouse_poll with a working mouse: a report is an event, an error ends its use.
UsbMove ==
  /\ stage = "run" /\ usb.on /\ MoreMoves
  /\ \/ /\ Event(UsbEvent, Moved)
        /\ UNCHANGED usb
     \/ usb' = [usb EXCEPT !.on = FALSE] /\ UNCHANGED <<events, reader, hist>>
  /\ UNCHANGED <<machine, stage, cfg, devices, decoder, chars, cread, cwrite, evlock, fore, getter>>

\* mouse_poll without one: 500 polls later a retry is asked for, three times at most
\* before one succeeds.
UsbWait ==
  /\ stage = "run" /\ ~usb.on /\ usb.tries < 3 /\ ~usb.pending /\ ~usb.busy
  /\ usb' = [usb EXCEPT !.tries = @ + 1, !.pending = TRUE]
  /\ UNCHANGED <<machine, stage, cfg, devices, decoder, rings, fore, getter, reader, hist>>

\* mouse_retry_service in the main loop owns the event ring of the controller meanwhile.
UsbRetry ==
  /\ stage = "run" /\ usb.pending /\ ~usb.busy
  /\ usb' = [usb EXCEPT !.pending = FALSE, !.busy = TRUE]
  /\ UNCHANGED <<machine, stage, cfg, devices, decoder, rings, fore, getter, reader, hist>>

UsbRetried ==
  /\ usb.busy
  /\ \/ usb' = [usb EXCEPT !.busy = FALSE]
     \/ "usb mouse" \in machine /\ usb' = [usb EXCEPT !.busy = FALSE, !.on = TRUE, !.tries = 0]
  /\ UNCHANGED <<machine, stage, cfg, devices, decoder, rings, fore, getter, reader, hist>>

-----------------------------------------------------------------------------
Boot == KeyboardInit \/ AuxOn \/ ReadConfig \/ ReadAck \/ NoAck \/ Rearm \/ RearmConfig
        \/ RearmAck \/ UsbInit
Get == GetRead \/ GetAdvance
Usb == UsbReport \/ UsbMove \/ UsbWait \/ UsbRetry \/ UsbRetried

Next == \/ PressKey \/ MoveMouse \/ Fill
        \/ Boot
        \/ Service \/ ForeStatus \/ ForeData
        \/ Get \/ GetcharCall \/ ReadEvent
        \/ Usb

\* Interrupts come, the boot goes on, and the main loop and the process call again.
Spec == Init /\ [][Next]_vars
FairSpec == Spec /\ WF_vars(Fill) /\ WF_vars(Boot) /\ WF_vars(Service) /\ WF_vars(Get)
                 /\ WF_vars(ReadEvent)

-----------------------------------------------------------------------------
(***************************************************************************)
(* Properties.                                                             *)
(***************************************************************************)
TypeOK ==
  /\ stage \in {"keyboard", "aux", "cfg", "defaults", "enable", "rearm", "rearmcfg", "rescan",
                "usb", "run"}
  /\ cfg \subseteq {"kclock", "xlate", "mclock"}
  /\ cycle \in 0 .. 2
  /\ chars \in [0 .. RingSize - 1 -> {"none", "a", "A", "x", "y"}]
  /\ cread \in 0 .. RingSize - 1 /\ cwrite \in 0 .. RingSize - 1
  /\ reader \in {"away", "asleep", "ready"}
  /\ usb.tries \in 0 .. 3

\* An event of the PS/2 mouse is made of the three bytes of one packet, whatever its
\* bytes look like and wherever the keyboard's come in between: "dispatch ... while
\* preserving mouse packets" (keyboard_ps2_service).
Packet(e) ==
  e.from = "ps2 mouse" =>
    /\ \A k \in 1 .. 3 : "i" \in DOMAIN e.bytes[k] /\ e.bytes[k].i = k - 1
    /\ e.bytes[1].n = e.bytes[2].n /\ e.bytes[2].n = e.bytes[3].n
PacketsWhole == \A k \in DOMAIN hist.made : Packet(hist.made[k])

\* So it is as long as no byte was taken for another device's or thrown away.
WholeUnlessMisread == hist.spoiled = {} => PacketsWhole

\* The characters that enter the ring are the ones typed, in their order and with the
\* Shift of their time, as long as none is misread, or dropped for want of room.
RingIsTyped == hist.full = 0 /\ hist.spoiled = {} => IsPrefix(hist.pushed, hist.typed)

\* What keyboard_getchar has returned and what the ring holds is what was pushed: the
\* reader of the ring, its writer in an interrupt and the test for a full ring agree.
\* It takes one reader: a process that reads between the main loop's two steps gets the
\* same character, and the next is lost or the read index passes the write index.
Held == [k \in 1 .. (cwrite + RingSize - cread) % RingSize |-> chars[(cread + k - 1) % RingSize]]
CharsInOrder == "process" \notin machine => hist.got \o Held = hist.pushed

\* So what keyboard_getchar returns is what was typed, under the conditions of both.
CharsAsTyped == RingIsTyped /\ CharsInOrder

\* A process sleeps in mouse_read_event only while there is no event.
NoLostMouseWakeup == reader = "asleep" => events = <<>>

\* The boot leaves the keyboard's clock and the translation to set 1 on, whatever the
\* command byte was taken for (keyboard_rearm_after_mouse_init).
KeyboardArmed == stage = "run" /\ "i8042" \in machine => Forced \subseteq cfg

\* A mouse that was told to send packets is heard after the boot.
MouseArmed == stage = "run" /\ streaming => "mclock" \in cfg

\* Every character that is typed is read, unless it was dropped because the ring was
\* full or its bytes were misread.
EveryKeyRead ==
  \A n \in 1 .. MaxKeys :
    Len(hist.typed) >= n ~> (Len(hist.got) + hist.full >= n \/ hist.spoiled # {})

=============================================================================
