--------------------------- MODULE InputDesktopProofs --------------------------
(***************************************************************************)
(* Theorems about the keyboard and the mouse, for every machine, every     *)
(* size of the rings and any number of keys and moves, and about the       *)
(* desktop, for any windows, texts and keys.  They share nothing.          *)
(*                                                                         *)
(* Desktop.  Who has the focus is on the screen, is one window and gets    *)
(* the keys (FocusFits); so a key changes the notepad's text only while    *)
(* the notepad is on the screen (Stored).  The screen: every cell that is  *)
(* not dirty shows the windows as they are (CleanInv), but for those a     *)
(* drag has still to draw, over pixels that are everything but the dragged *)
(* window (CacheInv); nothing is dragged while the button is up (HeldInv). *)
(*                                                                         *)
(* Input.  The bytes of a device on their way form a stream: what the      *)
(* controller's buffer holds of it, then what the device has still to      *)
(* send.  The mouse's is made of whole packets, of which the decoder has   *)
(* taken the beginning of the first (Packets); the keyboard's, decoded     *)
(* from where the decoder is, gives what was typed and is not yet pushed   *)
(* (Keystrokes).  Reading takes the head of a stream, a person lengthens   *)
(* it, and Fill leaves both as they are.                                   *)
(***************************************************************************)
EXTENDS Input, Desktop, SequenceTheorems, FiniteSetTheorems, TLAPS

Places == 0 .. RingSize - 1
Letters == {"none", "a", "A", "x", "y"}

KeyBytes == [from : {"keyboard"}, code : {"a", "a up", "shift", "shift up", "E0", "ack"}]
MoveBytes == [from : {"mouse"}, n : Nat, i : 0 .. 2, sync : BOOLEAN, over : BOOLEAN]
MouseBytes == MoveBytes \cup {Ack("mouse")}
AnyByte == KeyBytes \cup MouseBytes \cup {CommandByte, Empty}
MouseEvents == [from : {"usb mouse"}, n : Nat]
                 \cup [from : {"ps2 mouse"}, bytes : AnyByte \X AnyByte \X AnyByte]

History ==
  [keys : Nat, moves : Nat, down : BOOLEAN, typed : Seq(Letters), pushed : Seq(Letters),
   got : Seq(Letters), full : Nat, made : Seq(MouseEvents), spoiled : SUBSET {"keys", "moves"}]

Bytes ==
  /\ out \in AnyByte /\ last \in AnyByte /\ flags \in AnyByte /\ middle \in AnyByte
  /\ kq \in Seq(KeyBytes) /\ mq \in Seq(MouseBytes)

Retries == [on : BOOLEAN, tries : 0 .. 3, pending : BOOLEAN, busy : BOOLEAN]

Types ==
  /\ TypeOK /\ Bytes
  /\ machine \in Machines
  /\ answer \in BOOLEAN /\ streaming \in BOOLEAN /\ evlock \in BOOLEAN
  /\ prefix \in BOOLEAN /\ shift \in BOOLEAN
  /\ held \subseteq UsbKeys
  /\ events \in Seq(MouseEvents)
  /\ getter \in Letters
  /\ fore # "none" => stage = "run"
  /\ usb \in Retries
  /\ hist \in History

\* Once it is repaired, the keyboard stays so.
Armed == stage \in {"rescan", "usb", "run"} /\ "i8042" \in machine => Forced \subseteq cfg

\* The ring holds what was pushed and not read; a character that is being read is its first.
Ring ==
  "process" \notin machine =>
    /\ hist.got \o Held = hist.pushed
    /\ getter # "none" => cread # cwrite /\ chars[cread] = getter

KeyStream == IF out.from = "keyboard" THEN <<out>> \o kq ELSE kq
MoveStream == IF out.from = "mouse" THEN <<out>> \o mq ELSE mq

\* No byte was misread so far.
Clean == hist.spoiled = {}

\* The controller's answer is awaited where it comes.
Asked ==
  /\ answer \/ out = CommandByte => stage \in {"cfg", "rearmcfg"}
  /\ ~(answer /\ out = CommandByte)

Follows(b, c) == IF b.i < 2 THEN c.i = b.i + 1 /\ c.n = b.n ELSE c.i = 0

\* Whole packets, of the first of which f and m were taken already.
Packets(s, taken, f, m) ==
  /\ s \in Seq(MoveBytes)
  /\ \A k \in 1 .. Len(s) : s[k].i = 0 => s[k].sync
  /\ \A k \in 1 .. Len(s) - 1 : Follows(s[k], s[k + 1])
  /\ s # <<>> => s[1].i = taken /\ s[Len(s)].i = 2
  /\ taken >= 1 => s # <<>> /\ f \in MoveBytes /\ f.i = 0 /\ s[1].n = f.n
  /\ taken = 2 => m \in MoveBytes /\ m.i = 1 /\ m.n = f.n

\* The mouse has acknowledged a command.
AckDue == stage \in {"defaults", "enable"} /\ "ps2 mouse" \in machine

Moves ==
  /\ AckDue => MoveStream # <<>> /\ Head(MoveStream) = Ack("mouse") /\ cycle = 0
  /\ LET s == IF AckDue THEN Tail(MoveStream) ELSE MoveStream
     IN /\ Packets(s, cycle, flags, middle)
        /\ ~streaming => s = <<>> /\ cycle = 0
  /\ streaming => "ps2 mouse" \in machine
                  /\ stage \notin {"keyboard", "aux", "cfg", "defaults"}

\* The decoder's state before each byte of the keyboard: the flags, and how many
\* characters it has pushed.
State == [prefix : BOOLEAN, shift : BOOLEAN, n : Nat]

Decodes(s, code, t, typed) ==
  IF code = "ack" THEN t = s
  ELSE /\ t.prefix = (code = "E0")
       /\ t.shift = IF ~s.prefix /\ code = "shift" THEN TRUE
                    ELSE IF ~s.prefix /\ code = "shift up" THEN FALSE ELSE s.shift
       /\ IF ~s.prefix /\ code = "a"
          THEN t.n = s.n + 1 /\ s.n < Len(typed)
               /\ typed[s.n + 1] = IF s.shift THEN "A" ELSE "a"
          ELSE t.n = s.n

\* From state a, the bytes b lead to state z.
Chain(b, typed, a, z) ==
  \E f \in [1 .. Len(b) + 1 -> State] :
    /\ f[1] = a /\ f[Len(b) + 1] = z
    /\ \A k \in 1 .. Len(b) : Decodes(f[k], b[k].code, f[k + 1], typed)

At(p, s, n) == [prefix |-> p, shift |-> s, n |-> n]

IsAck(b) == b.code = "ack"

Begun == /\ Len(hist.pushed) <= Len(hist.typed)
         /\ \A k \in 1 .. Len(hist.pushed) : hist.pushed[k] = hist.typed[k]

Keystrokes == Chain(KeyStream, hist.typed, At(prefix, shift, Len(hist.pushed)),
                    At(FALSE, hist.down, Len(hist.typed)))

NoAcks(b) == \A k \in 1 .. Len(b) : ~IsAck(b[k])
OneAt(b) == \A j, k \in 1 .. Len(b) : IsAck(b[j]) /\ IsAck(b[k]) => j = k
AllAcks(b) == \A k \in 1 .. Len(b) : IsAck(b[k])

\* The acknowledgement of the keyboard is one, and comes when it is awaited.
OneAck == OneAt(KeyStream) /\ (stage # "rescan" => NoAcks(KeyStream))

\* Unless a character was dropped, what is pushed and what is still to be decoded is what
\* was typed; without a PS/2 keyboard nothing is still to be decoded.
Decoded ==
  hist.full = 0 =>
    /\ Begun
    /\ IF "ps2 keyboard" \in machine THEN Keystrokes
       ELSE hist.pushed = hist.typed /\ AllAcks(KeyStream)

KeysInv == OneAck /\ Decoded

-----------------------------------------------------------------------------
(***************************************************************************)
(* Types.                                                                  *)
(***************************************************************************)
LEMMA Sizes == RingSize \in Nat /\ RingSize > 1 /\ EventSize \in Nat /\ EventSize > 1
BY InputAssumption

LEMMA PlacesAre == \A k \in Places : k \in Nat /\ k < RingSize
BY Sizes DEF Places

LEMMA AcksTyped == Ack("keyboard") \in KeyBytes /\ Ack("mouse") \in MouseBytes
BY DEF Ack, KeyBytes, MouseBytes

LEMMA KeysTyped ==
  \A c \in {"a", "a up", "shift", "shift up", "E0"} : Key(c) \in KeyBytes
BY DEF Key, KeyBytes

\* Whose a byte is.
LEMMA From ==
  /\ \A b \in KeyBytes : b.from = "keyboard"
  /\ \A b \in MouseBytes : b.from = "mouse"
  /\ CommandByte.from = "controller" /\ Empty.from = "nobody"
<1>1. \A b \in KeyBytes : b.from = "keyboard" BY DEF KeyBytes
<1>2. \A b \in MoveBytes : b.from = "mouse" BY DEF MoveBytes
<1>3. Ack("mouse").from = "mouse" BY DEF Ack
<1>4. CommandByte.from = "controller" /\ Empty.from = "nobody" BY DEF CommandByte, Empty
<1> QED BY <1>1, <1>2, <1>3, <1>4 DEF MouseBytes

LEMMA FromIs ==
  ASSUME NEW b \in AnyByte
  PROVE  /\ b.from = "keyboard" <=> b \in KeyBytes
         /\ b.from = "mouse" <=> b \in MouseBytes
<1>1. b \in KeyBytes \/ b \in MouseBytes \/ b = CommandByte \/ b = Empty BY DEF AnyByte
<1>2. b \in KeyBytes => b.from = "keyboard" BY From
<1>3. b \in MouseBytes => b.from = "mouse" BY From
<1>4. b = CommandByte => b.from = "controller" BY From
<1>5. b = Empty => b.from = "nobody" BY From
<1> QED BY <1>1, <1>2, <1>3, <1>4, <1>5

\* History, one field at a time.
LEMMA HistoryIs ==
  ASSUME NEW h \in History
  PROVE  /\ h.keys \in Nat /\ h.moves \in Nat /\ h.down \in BOOLEAN /\ h.full \in Nat
         /\ h.typed \in Seq(Letters) /\ h.pushed \in Seq(Letters) /\ h.got \in Seq(Letters)
         /\ h.made \in Seq(MouseEvents) /\ h.spoiled \subseteq {"keys", "moves"}
BY DEF History

LEMMA HistoryKept ==
  ASSUME NEW h \in History
  PROVE  /\ [h EXCEPT !.keys = @ + 1] \in History
         /\ [h EXCEPT !.moves = @ + 1] \in History
         /\ [h EXCEPT !.full = @ + 1] \in History
         /\ [h EXCEPT !.keys = @ + 1, !.down = ~@] \in History
         /\ \A d \in {"keys", "moves"} : [h EXCEPT !.spoiled = @ \cup {d}] \in History
<1>1. h.keys + 1 \in Nat /\ h.moves + 1 \in Nat /\ h.full + 1 \in Nat BY HistoryIs
<1>2. \A d \in {"keys", "moves"} : h.spoiled \cup {d} \in SUBSET {"keys", "moves"} BY HistoryIs
<1>3. (~h.down) \in BOOLEAN OBVIOUS
<1> QED BY <1>1, <1>2, <1>3 DEF History

LEMMA LettersKept ==
  ASSUME NEW h \in History, NEW c \in Letters
  PROVE  /\ [h EXCEPT !.pushed = Append(@, c)] \in History
         /\ [h EXCEPT !.got = Append(@, c)] \in History
         /\ [h EXCEPT !.keys = @ + 1, !.typed = Append(@, c)] \in History
<1>1. /\ Append(h.pushed, c) \in Seq(Letters) /\ Append(h.got, c) \in Seq(Letters)
      /\ Append(h.typed, c) \in Seq(Letters)
  BY HistoryIs, AppendProperties
<1>2. h.keys + 1 \in Nat BY HistoryIs
<1> QED BY <1>1, <1>2 DEF History

LEMMA EventKept ==
  ASSUME NEW h \in History, NEW e \in MouseEvents
  PROVE  [h EXCEPT !.made = Append(@, e)] \in History
<1>1. Append(h.made, e) \in Seq(MouseEvents) BY HistoryIs, AppendProperties
<1> QED BY <1>1 DEF History

\* What push_char leaves.
LEMMA PushedTyped ==
  ASSUME Types, NEW h \in History, NEW c \in Letters \ {"none"}
  PROVE  LET p == Pushed(h, c) IN
         /\ p.chars \in [Places -> Letters] /\ p.cwrite \in Places /\ p.hist \in History
<1>1. chars \in [Places -> Letters] /\ cwrite \in Places BY DEF Types, TypeOK, Places, Letters
<1>2. Next1(cwrite) \in Places BY <1>1, PlacesAre, Sizes DEF Next1, Places
<1>3. [chars EXCEPT ![cwrite] = c] \in [Places -> Letters] BY <1>1
<1> QED BY <1>1, <1>2, <1>3, HistoryKept, LettersKept DEF Pushed

\* The decoder of the keyboard.
LEMMA ScancodeTyped ==
  ASSUME Types, NEW h \in History, NEW code, Scancode(code, h)
  PROVE  /\ prefix' \in BOOLEAN /\ shift' \in BOOLEAN /\ hist' \in History
         /\ chars' \in [Places -> Letters] /\ cwrite' \in Places
<1>1. prefix' \in BOOLEAN /\ shift' \in BOOLEAN
  <2>1. shift \in BOOLEAN BY DEF Types
  <2> QED BY <2>1 DEF Scancode
<1>2. chars \in [Places -> Letters] /\ cwrite \in Places BY DEF Types, TypeOK, Places, Letters
<1>3. CASE ~prefix /\ code = "a"
  <2> DEFINE p == Pushed(h, IF shift THEN "A" ELSE "a")
  <2>1. (IF shift THEN "A" ELSE "a") \in Letters \ {"none"} BY DEF Letters
  <2>2. p.chars \in [Places -> Letters] /\ p.cwrite \in Places /\ p.hist \in History
    BY <2>1, PushedTyped
  <2>3. chars' = p.chars /\ cwrite' = p.cwrite /\ hist' = p.hist BY <1>3 DEF Scancode
  <2> QED BY <1>1, <2>2, <2>3
<1>4. CASE ~(~prefix /\ code = "a")
  <2>1. chars' = chars /\ cwrite' = cwrite /\ hist' = h BY <1>4 DEF Scancode
  <2> QED BY <1>1, <1>2, <2>1
<1> QED BY <1>3, <1>4

\* The event ring.
LEMMA EventTyped ==
  ASSUME Types, NEW h \in History, NEW e \in MouseEvents, Event(e, h)
  PROVE  /\ events' \in Seq(MouseEvents) /\ reader' \in {"away", "asleep", "ready"}
         /\ hist' \in History
<1>1. events \in Seq(MouseEvents) /\ reader \in {"away", "asleep", "ready"}
  BY DEF Types, TypeOK
<1>2. Append(events, e) \in Seq(MouseEvents) BY <1>1, AppendProperties
<1>3. [h EXCEPT !.full = @ + 1] \in History /\ [h EXCEPT !.made = Append(@, e)] \in History
  BY HistoryKept, EventKept
<1>4. \/ events' = events /\ reader' = reader /\ hist' = h
      \/ events' = events /\ reader' = reader /\ hist' = [h EXCEPT !.full = @ + 1]
      \/ /\ events' = Append(events, e)
         /\ reader' = IF reader = "asleep" THEN "ready" ELSE reader
         /\ hist' = [h EXCEPT !.made = Append(@, e)]
  BY DEF Event
<1> QED BY <1>1, <1>2, <1>3, <1>4

\* The decoder of the mouse, by the place in the packet.
LEMMA MouseByteIs ==
  ASSUME NEW h, NEW b, MouseByte(b, h)
  PROVE  LET over == "over" \in DOMAIN flags /\ flags.over IN
         /\ cycle = 0 => /\ middle' = middle /\ events' = events /\ reader' = reader /\ hist' = h
                         /\ \/ flags' = b /\ cycle' = 1
                            \/ b.from = "mouse" /\ ~b.sync /\ flags' = flags /\ cycle' = cycle
         /\ cycle = 1 => /\ middle' = b /\ cycle' = 2 /\ flags' = flags
                         /\ events' = events /\ reader' = reader /\ hist' = h
         /\ cycle = 2 => /\ cycle' = 0 /\ flags' = flags /\ middle' = middle
                         /\ \/ over /\ events' = events /\ reader' = reader /\ hist' = h
                            \/ ~over /\ Event(PacketEvent(b), h)
<1> DEFINE sync == IF b.from = "mouse" /\ "sync" \in DOMAIN b THEN b.sync ELSE TRUE
           over == "over" \in DOMAIN flags /\ flags.over
<1>1. cycle = 0 => /\ IF sync THEN flags' = b /\ cycle' = 1 ELSE flags' = flags /\ cycle' = cycle
                   /\ middle' = middle /\ events' = events /\ reader' = reader /\ hist' = h
  BY DEF MouseByte
<1>2. ~sync => b.from = "mouse" /\ ~b.sync OBVIOUS
<1>3. cycle = 1 => /\ middle' = b /\ cycle' = 2 /\ flags' = flags
                   /\ events' = events /\ reader' = reader /\ hist' = h
  BY DEF MouseByte
<1>4. cycle = 2 => /\ cycle' = 0 /\ flags' = flags /\ middle' = middle
                   /\ IF over THEN events' = events /\ reader' = reader /\ hist' = h
                      ELSE Event(PacketEvent(b), h)
  BY DEF MouseByte
<1> HIDE DEF sync, over
<1>5. cycle = 0 => /\ middle' = middle /\ events' = events /\ reader' = reader /\ hist' = h
                   /\ \/ flags' = b /\ cycle' = 1
                      \/ b.from = "mouse" /\ ~b.sync /\ flags' = flags /\ cycle' = cycle
  BY <1>1, <1>2
<1>6. cycle = 2 => /\ cycle' = 0 /\ flags' = flags /\ middle' = middle
                   /\ \/ over /\ events' = events /\ reader' = reader /\ hist' = h
                      \/ ~over /\ Event(PacketEvent(b), h)
  BY <1>4
<1> QED BY <1>3, <1>5, <1>6 DEF over

\* The decoder of the mouse.
LEMMA MouseByteTyped ==
  ASSUME Types, NEW h \in History, NEW b \in AnyByte, MouseByte(b, h)
  PROVE  /\ cycle' \in 0 .. 2 /\ flags' \in AnyByte /\ middle' \in AnyByte
         /\ events' \in Seq(MouseEvents) /\ reader' \in {"away", "asleep", "ready"}
         /\ hist' \in History
<1>1. /\ events \in Seq(MouseEvents) /\ reader \in {"away", "asleep", "ready"}
      /\ cycle \in 0 .. 2 /\ flags \in AnyByte /\ middle \in AnyByte
  BY DEF Types, TypeOK, Bytes
<1>2. PacketEvent(b) \in MouseEvents BY <1>1 DEF MouseEvents, PacketEvent
<1>3. Event(PacketEvent(b), h) => /\ events' \in Seq(MouseEvents)
                                 /\ reader' \in {"away", "asleep", "ready"}
                                 /\ hist' \in History
  BY <1>2, EventTyped
<1> QED BY <1>1, <1>3, MouseByteIs

\* All of Types but what an action that decodes a byte changes.
LEMMA SpoilTyped == Types => \A d \in {"keys", "moves"} : Spoil(d) \in History
BY HistoryKept DEF Types, Spoil

LEMMA StolenTyped == Types => \A b \in AnyByte : Stolen(b) \in History
BY SpoilTyped DEF Stolen

\* What taking the byte of the buffer leaves of Bytes.
LEMMA TakenTyped == Types /\ Taken => out' \in AnyByte /\ last' \in AnyByte /\ out # Empty
<1> SUFFICES ASSUME Types, Taken PROVE out' \in AnyByte /\ last' \in AnyByte /\ out # Empty
  OBVIOUS
<1>1. out \in AnyByte /\ last \in AnyByte /\ Empty \in AnyByte BY DEF Types, Bytes, AnyByte
<1> QED BY <1>1 DEF Taken

LEMMA PairIs ==
  ASSUME NEW S, NEW a \in S, NEW b \in S
  PROVE  <<a, b>> \in Seq(S) /\ Len(<<a, b>>) = 2 /\ <<a, b>>[1] = a /\ <<a, b>>[2] = b
OBVIOUS

\* The keys a person presses.
LEMMA PressKeyIs ==
  ASSUME PressKey
  PROVE  \/ /\ kq' = kq \o <<Key("a"), Key("a up")>>
            /\ hist' = IF hist.down THEN Typed("A") ELSE Typed("a")
         \/ /\ kq' = IF hist.down THEN Append(kq, Key("shift up")) ELSE Append(kq, Key("shift"))
            /\ hist' = [hist EXCEPT !.keys = @ + 1, !.down = ~@]
         \/ /\ kq' = kq \o <<Key("E0"), Key("a")>>
            /\ hist' = [hist EXCEPT !.keys = @ + 1]
<1>1. PICK k \in {"letter", "shift", "arrow"} :
       CASE k = "letter" ->
              /\ kq' = kq \o <<Key("a"), Key("a up")>>
              /\ hist' = Typed(IF hist.down THEN "A" ELSE "a")
         [] k = "shift" ->
              /\ kq' = Append(kq, Key(IF hist.down THEN "shift up" ELSE "shift"))
              /\ hist' = [hist EXCEPT !.keys = @ + 1, !.down = ~@]
         [] k = "arrow" ->
              /\ kq' = kq \o <<Key("E0"), Key("a")>>
              /\ hist' = [hist EXCEPT !.keys = @ + 1]
  BY DEF PressKey
<1>2. CASE k = "letter"
  <2>1. kq' = kq \o <<Key("a"), Key("a up")>> /\ hist' = Typed(IF hist.down THEN "A" ELSE "a")
    BY <1>1, <1>2
  <2>2. hist' = IF hist.down THEN Typed("A") ELSE Typed("a") BY <2>1
  <2> QED BY <2>1, <2>2
<1>3. CASE k = "shift"
  <2>1. /\ kq' = Append(kq, Key(IF hist.down THEN "shift up" ELSE "shift"))
        /\ hist' = [hist EXCEPT !.keys = @ + 1, !.down = ~@]
    BY <1>1, <1>3
  <2>2. kq' = IF hist.down THEN Append(kq, Key("shift up")) ELSE Append(kq, Key("shift")) BY <2>1
  <2> QED BY <2>1, <2>2
<1>4. CASE k = "arrow"
  <2>1. kq' = kq \o <<Key("E0"), Key("a")>> /\ hist' = [hist EXCEPT !.keys = @ + 1]
    BY <1>1, <1>4
  <2> QED BY <2>1
<1> QED BY <1>1, <1>2, <1>3, <1>4

\* A person at the keyboard.
LEMMA PressTyped == Types /\ PressKey => Types'
<1> SUFFICES ASSUME Types, PressKey PROVE Types'
  OBVIOUS
<1>1. hist \in History /\ kq \in Seq(KeyBytes) BY DEF Types, Bytes
<1>2. /\ Typed("A") \in History /\ Typed("a") \in History
      /\ [hist EXCEPT !.keys = @ + 1] \in History
      /\ [hist EXCEPT !.keys = @ + 1, !.down = ~@] \in History
  <2>1. "a" \in Letters /\ "A" \in Letters BY DEF Letters
  <2> QED BY <1>1, <2>1, LettersKept, HistoryKept DEF Typed
<1>3. /\ Key("a") \in KeyBytes /\ Key("a up") \in KeyBytes /\ Key("E0") \in KeyBytes
      /\ Key("shift") \in KeyBytes /\ Key("shift up") \in KeyBytes
  BY KeysTyped
<1>4. /\ kq \o <<Key("a"), Key("a up")>> \in Seq(KeyBytes)
      /\ kq \o <<Key("E0"), Key("a")>> \in Seq(KeyBytes)
  <2>1. <<Key("a"), Key("a up")>> \in Seq(KeyBytes) /\ <<Key("E0"), Key("a")>> \in Seq(KeyBytes)
    BY <1>3, PairIs
  <2> QED BY <1>1, <2>1, ConcatProperties
<1>5. /\ Append(kq, Key("shift")) \in Seq(KeyBytes)
      /\ Append(kq, Key("shift up")) \in Seq(KeyBytes)
  BY <1>1, <1>3, AppendProperties
<1>6. hist' \in History /\ kq' \in Seq(KeyBytes)
  <2> QED BY <1>2, <1>4, <1>5, PressKeyIs
<1>7. UNCHANGED <<machine, stage, cfg, out, last, answer, mq, streaming, decoder, rings, calls>>
  BY DEF PressKey
<1> QED BY <1>6, <1>7 DEF Types, TypeOK, Bytes, decoder, rings, calls

\* A person at the mouse.
Packet3(n, over, s) ==
  LET Byte(i) == [from |-> "mouse", n |-> n, i |-> i, sync |-> i = 0 \/ s, over |-> over /\ i = 0]
  IN <<Byte(0), Byte(1), Byte(2)>>

LEMMA Packet3Is ==
  ASSUME NEW n \in Nat, NEW over \in BOOLEAN, NEW s \in BOOLEAN
  PROVE  LET p == Packet3(n, over, s) IN
         /\ p \in Seq(MoveBytes) /\ p \in Seq(MouseBytes) /\ Len(p) = 3
         /\ p[1].i = 0 /\ p[1].sync /\ p[2].i = 1 /\ p[3].i = 2
         /\ p[1].n = n /\ p[2].n = n /\ p[3].n = n
<1> DEFINE Byte(i) == [from |-> "mouse", n |-> n, i |-> i, sync |-> i = 0 \/ s,
                       over |-> over /\ i = 0]
<1>1. Byte(0) \in MoveBytes /\ Byte(1) \in MoveBytes /\ Byte(2) \in MoveBytes
  <2>1. \A i \in 0 .. 2 : (i = 0 \/ s) \in BOOLEAN /\ (over /\ i = 0) \in BOOLEAN OBVIOUS
  <2> QED BY <2>1 DEF MoveBytes
<1>2. /\ Byte(0).i = 0 /\ Byte(0).sync /\ Byte(1).i = 1 /\ Byte(2).i = 2
      /\ Byte(0).n = n /\ Byte(1).n = n /\ Byte(2).n = n
  OBVIOUS
<1>3. Packet3(n, over, s) = <<Byte(0), Byte(1), Byte(2)>> BY DEF Packet3
<1> HIDE DEF Byte
<1>4. <<Byte(0), Byte(1), Byte(2)>> \in Seq(MoveBytes) BY <1>1
<1>5. <<Byte(0), Byte(1), Byte(2)>> \in Seq(MouseBytes) BY <1>1 DEF MouseBytes
<1> QED BY <1>2, <1>3, <1>4, <1>5

LEMMA MoveMouseIs ==
  MoveMouse => /\ streaming /\ hist' = Moved /\ out' = out
               /\ \E over, s \in BOOLEAN : mq' = mq \o Packet3(hist.moves, over, s)
BY DEF MoveMouse, Packet3

LEMMA MoveTyped == Types /\ MoveMouse => Types'
<1> SUFFICES ASSUME Types, MoveMouse PROVE Types'
  OBVIOUS
<1>1. hist \in History /\ mq \in Seq(MouseBytes) /\ hist.moves \in Nat
  BY HistoryIs DEF Types, Bytes
<1>2. PICK over \in BOOLEAN, s \in BOOLEAN : mq' = mq \o Packet3(hist.moves, over, s)
  BY MoveMouseIs
<1>3. mq' \in Seq(MouseBytes) BY <1>1, <1>2, Packet3Is, ConcatProperties
<1>4. hist' \in History BY <1>1, MoveMouseIs, HistoryKept DEF Moved
<1> QED BY <1>3, <1>4 DEF Types, TypeOK, Bytes, MoveMouse, decoder, rings, calls

LEMMA FillTyped == Types /\ Fill => Types'
<1> SUFFICES ASSUME Types, Fill PROVE Types'
  OBVIOUS
<1>1. kq \in Seq(KeyBytes) /\ mq \in Seq(MouseBytes) BY DEF Types, Bytes
<1>2. kq # <<>> => Head(kq) \in KeyBytes /\ Tail(kq) \in Seq(KeyBytes)
  BY <1>1, HeadTailProperties
<1>3. mq # <<>> => Head(mq) \in MouseBytes /\ Tail(mq) \in Seq(MouseBytes)
  BY <1>1, HeadTailProperties
<1>4. /\ out' \in AnyByte /\ kq' \in Seq(KeyBytes) /\ mq' \in Seq(MouseBytes)
      /\ answer' \in BOOLEAN
  BY <1>1, <1>2, <1>3 DEF Fill, AnyByte, Types
<1> QED BY <1>4 DEF Types, TypeOK, Bytes, Fill, decoder, rings, calls

LEMMA DispatchTyped ==
  ASSUME Types, NEW h \in History, NEW b \in AnyByte, NEW aux, Dispatch(aux, b, h)
  PROVE  /\ prefix' \in BOOLEAN /\ shift' \in BOOLEAN /\ hist' \in History
         /\ chars' \in [Places -> Letters] /\ cwrite' \in Places
         /\ cycle' \in 0 .. 2 /\ flags' \in AnyByte /\ middle' \in AnyByte
         /\ events' \in Seq(MouseEvents) /\ reader' \in {"away", "asleep", "ready"}
<1>1. /\ events \in Seq(MouseEvents) /\ reader \in {"away", "asleep", "ready"}
      /\ cycle \in 0 .. 2 /\ flags \in AnyByte /\ middle \in AnyByte
      /\ prefix \in BOOLEAN /\ shift \in BOOLEAN
      /\ chars \in [Places -> Letters] /\ cwrite \in Places
  BY DEF Types, TypeOK, Bytes, Places, Letters
<1>2. CASE aux
  <2>1. MouseByte(b, h) /\ UNCHANGED <<prefix, shift, chars, cwrite>> BY <1>2 DEF Dispatch
  <2> QED BY <1>1, <2>1, MouseByteTyped
<1>3. CASE ~aux
  <2> DEFINE code == IF "code" \in DOMAIN b THEN b.code ELSE "mouse byte"
  <2>1. Scancode(code, h) /\ UNCHANGED <<cycle, flags, middle, events, reader>>
    BY <1>3 DEF Dispatch
  <2> HIDE DEF code
  <2> QED BY <1>1, <2>1, ScancodeTyped
<1> QED BY <1>2, <1>3

\* The retries of the USB mouse.
LEMMA RetriesKept ==
  ASSUME NEW u \in Retries
  PROVE  /\ u.tries \in 0 .. 3
         /\ \A b \in BOOLEAN : [u EXCEPT !.on = b] \in Retries
         /\ u.tries < 3 => [u EXCEPT !.tries = @ + 1, !.pending = TRUE] \in Retries
         /\ [u EXCEPT !.pending = FALSE, !.busy = TRUE] \in Retries
         /\ [u EXCEPT !.busy = FALSE] \in Retries
         /\ [u EXCEPT !.busy = FALSE, !.on = TRUE, !.tries = 0] \in Retries
<1>1. \A b \in BOOLEAN : [u EXCEPT !.on = b] \in Retries BY DEF Retries
<1>2. u.tries < 3 => [u EXCEPT !.tries = @ + 1, !.pending = TRUE] \in Retries
  <2>1. u.tries < 3 => u.tries + 1 \in 0 .. 3 BY DEF Retries
  <2> QED BY <2>1 DEF Retries
<1>3. [u EXCEPT !.pending = FALSE, !.busy = TRUE] \in Retries BY DEF Retries
<1>4. [u EXCEPT !.busy = FALSE] \in Retries BY DEF Retries
<1>5. [u EXCEPT !.busy = FALSE, !.on = TRUE, !.tries = 0] \in Retries
  <2>1. [u EXCEPT !.busy = FALSE, !.on = TRUE] \in Retries BY DEF Retries
  <2>2. \A v \in Retries : [v EXCEPT !.tries = 0] \in Retries BY DEF Retries
  <2>3. [u EXCEPT !.busy = FALSE, !.on = TRUE, !.tries = 0]
          = [[u EXCEPT !.busy = FALSE, !.on = TRUE] EXCEPT !.tries = 0]
    OBVIOUS
  <2> QED BY <2>1, <2>2, <2>3
<1>6. u.tries \in 0 .. 3 BY DEF Retries
<1> QED BY <1>6, <1>1, <1>2, <1>3, <1>4, <1>5

\* The boot.
LEMMA ReadTyped == Types => \A b : \A c \in Read(b) : c \subseteq {"kclock", "xlate", "mclock"}
BY DEF Read, Types, TypeOK

LEMMA BootTyped == Types /\ Boot => Types'
<1> SUFFICES ASSUME Types, Boot PROVE Types'
  OBVIOUS
<1>0. /\ hist \in History /\ out \in AnyByte /\ last \in AnyByte
      /\ kq \in Seq(KeyBytes) /\ mq \in Seq(MouseBytes)
      /\ cfg \subseteq {"kclock", "xlate", "mclock"}
  BY DEF Types, TypeOK, Bytes
<1>a. Append(mq, Ack("mouse")) \in Seq(MouseBytes) /\ Append(kq, Ack("keyboard")) \in Seq(KeyBytes)
  BY <1>0, AcksTyped, AppendProperties
<1>b. Forced \subseteq {"kclock", "xlate", "mclock"} BY DEF Forced
<1>1. CASE KeyboardInit
  BY <1>1, <1>b DEF KeyboardInit, Types, TypeOK, Bytes, devices, decoder, rings, calls
<1>2. CASE AuxOn
  BY <1>2 DEF AuxOn, Types, TypeOK, Bytes, calls
<1>3. CASE ReadConfig
  <2>0. /\ stage = "cfg" /\ Taken
        /\ UNCHANGED <<machine, answer, kq, streaming, prefix, shift, held, chars, cread, cwrite,
                       evlock, fore, getter, usb>>
    BY <1>3 DEF ReadConfig
  <2>1. out' \in AnyByte /\ last' \in AnyByte BY <2>0, TakenTyped
  <2>2. CASE IsAux(out)
    <3>1. MouseByte(out, hist) /\ UNCHANGED <<stage, cfg, mq>> BY <1>3, <2>2 DEF ReadConfig
    <3>2. /\ cycle' \in 0 .. 2 /\ flags' \in AnyByte /\ middle' \in AnyByte
          /\ events' \in Seq(MouseEvents) /\ reader' \in {"away", "asleep", "ready"}
          /\ hist' \in History
      BY <1>0, <3>1, MouseByteTyped
    <3> QED BY <2>0, <2>1, <3>1, <3>2 DEF Types, TypeOK, Bytes
  <2>3. CASE ~IsAux(out)
    <3>1. /\ \E c \in Read(out) : cfg' = c \cup {"mclock"}
          /\ stage' = "defaults"
          /\ mq' = mq \/ mq' = Append(mq, Ack("mouse"))
          /\ hist' = hist \/ hist' = Spoil("keys")
          /\ UNCHANGED <<cycle, flags, middle, events, reader>>
      BY <1>3, <2>3 DEF ReadConfig
    <3>2. cfg' \subseteq {"kclock", "xlate", "mclock"} BY <3>1, ReadTyped
    <3>3. hist' \in History BY <1>0, <3>1, SpoilTyped
    <3>4. mq' \in Seq(MouseBytes) BY <1>0, <1>a, <3>1
    <3> QED BY <2>0, <2>1, <3>1, <3>2, <3>3, <3>4 DEF Types, TypeOK, Bytes
  <2> QED BY <2>2, <2>3
<1>4. CASE ReadAck
  <2>0. /\ stage \in {"defaults", "enable"} /\ Taken
        /\ UNCHANGED <<machine, cfg, answer, kq, held, cycle, flags, middle, cread, events, evlock,
                       calls>>
    BY <1>4 DEF ReadAck
  <2>1. out' \in AnyByte /\ last' \in AnyByte BY <2>0, TakenTyped
  <2>2. CASE IsAux(out)
    <3>1. /\ \/ stage' = "enable" /\ mq' = Append(mq, Ack("mouse")) /\ streaming' = TRUE
             \/ stage' = "rearm" /\ UNCHANGED <<mq, streaming>>
          /\ UNCHANGED <<prefix, shift, chars, cwrite, hist>>
      BY <1>4, <2>2 DEF ReadAck
    <3>2. mq' \in Seq(MouseBytes) BY <1>0, <1>a, <3>1
    <3> QED BY <2>0, <2>1, <3>1, <3>2 DEF Types, TypeOK, Bytes, calls
  <2>3. CASE ~IsAux(out)
    <3>1. Scancode(out.code, hist) /\ UNCHANGED <<stage, mq, streaming>>
      BY <1>4, <2>3 DEF ReadAck
    <3>2. /\ prefix' \in BOOLEAN /\ shift' \in BOOLEAN /\ hist' \in History
          /\ chars' \in [Places -> Letters] /\ cwrite' \in Places
      BY <1>0, <3>1, ScancodeTyped
    <3> QED BY <2>0, <2>1, <3>1, <3>2 DEF Types, TypeOK, Bytes, calls, Places, Letters
  <2> QED BY <2>2, <2>3
<1>5. CASE NoAck
  BY <1>5 DEF NoAck, Types, TypeOK, Bytes, devices, decoder, rings, calls
<1>6. CASE Rearm
  BY <1>6 DEF Rearm, Types, TypeOK, Bytes, decoder, rings, calls
<1>7. CASE RearmConfig
  <2>0. /\ stage = "rearmcfg" /\ Taken /\ stage' = "rescan"
        /\ \E c \in Read(out) : cfg' = c \cup Forced
        /\ kq' = Append(kq, Ack("keyboard"))
        /\ hist' = hist \/ hist' = Stolen(out)
        /\ UNCHANGED <<machine, answer, mq, streaming, decoder, rings, calls>>
    BY <1>7 DEF RearmConfig
  <2>1. out' \in AnyByte /\ last' \in AnyByte BY <2>0, TakenTyped
  <2>2. cfg' \subseteq {"kclock", "xlate", "mclock"} BY <1>b, <2>0, ReadTyped
  <2>3. hist' \in History BY <1>0, <2>0, StolenTyped
  <2> QED BY <1>a, <2>0, <2>1, <2>2, <2>3 DEF Types, TypeOK, Bytes, decoder, rings, calls
<1>8. CASE RearmAck
  <2>0. /\ stage = "rescan" /\ Taken /\ stage' \in {stage, "usb"}
        /\ hist' = hist \/ hist' = Stolen(out)
        /\ UNCHANGED <<machine, cfg, answer, kq, mq, streaming, decoder, rings, calls>>
    BY <1>8 DEF RearmAck
  <2>1. out' \in AnyByte /\ last' \in AnyByte BY <2>0, TakenTyped
  <2>2. hist' \in History BY <1>0, <2>0, StolenTyped
  <2> QED BY <2>0, <2>1, <2>2 DEF Types, TypeOK, Bytes, decoder, rings, calls
<1>9. CASE UsbInit
  <2>1. usb \in Retries BY DEF Types
  <2>2. usb' \in Retries BY <1>9, <2>1, RetriesKept DEF UsbInit
  <2>3. usb'.tries \in 0 .. 3 BY <2>2, RetriesKept
  <2> QED BY <1>9, <2>2, <2>3 DEF UsbInit, Types, TypeOK, Bytes, devices, decoder, rings
<1> QED BY <1>1, <1>2, <1>3, <1>4, <1>5, <1>6, <1>7, <1>8, <1>9 DEF Boot

\* Interrupts and the main loop.
LEMMA ServiceTyped == Types /\ Service => Types'
<1> SUFFICES ASSUME Types, Service PROVE Types'
  OBVIOUS
<1>1. /\ Taken /\ Dispatch(IsAux(out), out, hist)
      /\ UNCHANGED <<machine, stage, cfg, answer, kq, mq, streaming, held, cread, evlock, fore,
                     getter, usb>>
  BY DEF Service
<1>2. out \in AnyByte /\ hist \in History BY DEF Types, Bytes
<1>3. out' \in AnyByte /\ last' \in AnyByte BY <1>1, TakenTyped
<1>4. /\ prefix' \in BOOLEAN /\ shift' \in BOOLEAN /\ hist' \in History
      /\ chars' \in [Places -> Letters] /\ cwrite' \in Places
      /\ cycle' \in 0 .. 2 /\ flags' \in AnyByte /\ middle' \in AnyByte
      /\ events' \in Seq(MouseEvents) /\ reader' \in {"away", "asleep", "ready"}
  BY <1>1, <1>2, DispatchTyped
<1> QED BY <1>1, <1>3, <1>4 DEF Types, TypeOK, Bytes, Places, Letters

\* What the main loop decodes, and the history it leaves.
ForeByte == IF out # Empty THEN out ELSE last
Misread == out = Empty \/ IsAux(ForeByte) # (fore = "aux")

LEMMA ForeDataIs ==
  ASSUME ForeData
  PROVE  /\ fore # "none" /\ fore' = "none" /\ out' = Empty /\ last' = ForeByte
         /\ \/ Misread /\ Dispatch(fore = "aux", ForeByte, Stolen(ForeByte))
            \/ ~Misread /\ Dispatch(fore = "aux", ForeByte, hist)
         /\ UNCHANGED <<machine, stage, cfg, answer, kq, mq, streaming, held, cread, evlock,
                        getter, usb>>
<1>1. /\ fore # "none" /\ fore' = "none" /\ out' = Empty /\ last' = ForeByte
      /\ UNCHANGED <<machine, stage, cfg, answer, kq, mq, streaming, held, cread, evlock,
                     getter, usb>>
  BY DEF ForeData, ForeByte
<1>2. Dispatch(fore = "aux", ForeByte, IF Misread THEN Stolen(ForeByte) ELSE hist)
  BY DEF ForeData, ForeByte, Misread
<1>3. CASE Misread
  <2>1. (IF Misread THEN Stolen(ForeByte) ELSE hist) = Stolen(ForeByte) BY <1>3
  <2> QED BY <1>1, <1>2, <1>3, <2>1
<1>4. CASE ~Misread
  <2>1. (IF Misread THEN Stolen(ForeByte) ELSE hist) = hist BY <1>4
  <2> QED BY <1>1, <1>2, <1>4, <2>1
<1> QED BY <1>3, <1>4

LEMMA ForeDataTyped == Types /\ ForeData => Types'
<1> SUFFICES ASSUME Types, ForeData PROVE Types'
  OBVIOUS
<1>1. out \in AnyByte /\ last \in AnyByte /\ hist \in History /\ Empty \in AnyByte
  BY DEF Types, Bytes, AnyByte
<1>2. ForeByte \in AnyByte BY <1>1 DEF ForeByte
<1>3. PICK h \in History : Dispatch(fore = "aux", ForeByte, h)
  BY <1>1, <1>2, ForeDataIs, StolenTyped
<1> DEFINE aux == fore = "aux"
<1>4. Dispatch(aux, ForeByte, h) BY <1>3
<1> HIDE DEF aux
<1>5. /\ prefix' \in BOOLEAN /\ shift' \in BOOLEAN /\ hist' \in History
      /\ chars' \in [Places -> Letters] /\ cwrite' \in Places
      /\ cycle' \in 0 .. 2 /\ flags' \in AnyByte /\ middle' \in AnyByte
      /\ events' \in Seq(MouseEvents) /\ reader' \in {"away", "asleep", "ready"}
  BY <1>2, <1>4, DispatchTyped
<1>6. /\ fore' = "none" /\ out' = Empty /\ last' = ForeByte
      /\ UNCHANGED <<machine, stage, cfg, answer, kq, mq, streaming, held, cread, evlock,
                     getter, usb>>
  BY ForeDataIs
<1> QED BY <1>1, <1>2, <1>5, <1>6 DEF Types, TypeOK, Bytes, Places, Letters

LEMMA ReadersTyped ==
  Types /\ (ForeStatus \/ Get \/ GetcharCall \/ ReadEvent) => Types'
<1> SUFFICES ASSUME Types, ForeStatus \/ Get \/ GetcharCall \/ ReadEvent PROVE Types'
  OBVIOUS
<1>1. /\ chars \in [Places -> Letters] /\ cread \in Places /\ hist \in History
      /\ getter \in Letters /\ events \in Seq(MouseEvents)
  BY DEF Types, TypeOK, Places, Letters
<1>2. Next1(cread) \in Places BY <1>1, PlacesAre, Sizes DEF Next1, Places
<1>3. Got(getter) \in History /\ Got(chars[cread]) \in History
  BY <1>1, LettersKept DEF Got
<1>4. CASE ForeStatus
  BY <1>4 DEF ForeStatus, Running, Types, TypeOK, Bytes, devices, decoder, rings
<1>5. CASE GetRead
  BY <1>1, <1>5 DEF GetRead, Types, TypeOK, Bytes, devices, decoder, rings
<1>6. CASE GetAdvance
  <2>1. "none" \in Letters BY DEF Letters
  <2> QED BY <1>2, <1>3, <1>6, <2>1
        DEF GetAdvance, Types, TypeOK, Bytes, devices, decoder, Places
<1>7. CASE GetcharCall
  BY <1>2, <1>3, <1>7 DEF GetcharCall, Types, TypeOK, Bytes, devices, decoder, calls, Places
<1>8. CASE ReadEvent
  <2>1. events # <<>> => Tail(events) \in Seq(MouseEvents) BY <1>1, HeadTailProperties
  <2>2. events' \in Seq(MouseEvents) /\ reader' \in {"away", "asleep", "ready"}
    BY <1>1, <1>8, <2>1 DEF ReadEvent
  <2>3. UNCHANGED <<machine, stage, cfg, devices, decoder, chars, cread, cwrite, evlock, fore,
                    getter, usb, hist>>
    BY <1>8 DEF ReadEvent
  <2> QED BY <2>2, <2>3 DEF Types, TypeOK, Bytes, devices, decoder
<1> QED BY <1>4, <1>5, <1>6, <1>7, <1>8 DEF Get

\* USB.
HeardKeys == [hist EXCEPT !.keys = @ + 1]

\* A report types at most one key.
LEMMA UsbReportIs ==
  ASSUME UsbReport
  PROVE  /\ "usb keyboard" \in machine /\ stage = "run"
         /\ shift' \in BOOLEAN /\ held' \subseteq UsbKeys
         /\ \/ chars' = chars /\ cwrite' = cwrite /\ hist' = HeardKeys
            \/ \E c \in UsbKeys : LET p == Pushed(Typed(c), c) IN
                 chars' = p.chars /\ cwrite' = p.cwrite /\ hist' = p.hist
         /\ UNCHANGED <<machine, stage, cfg, devices, prefix, cycle, flags, middle, cread, events,
                        evlock, calls>>
<1>1. PICK keys \in {k \in SUBSET UsbKeys : Cardinality(k \ held) <= 1}, sh \in BOOLEAN :
       /\ shift' = sh
       /\ LET h == [hist EXCEPT !.keys = @ + 1]
              new == IF keys \subseteq held THEN "none" ELSE CHOOSE k \in keys \ held : TRUE
              p == IF new = "none" THEN [chars |-> chars, cwrite |-> cwrite, hist |-> h]
                   ELSE Pushed(Typed(new), new)
          IN chars' = p.chars /\ cwrite' = p.cwrite /\ hist' = p.hist
       /\ held' = keys
  BY DEF UsbReport
<1> DEFINE new == IF keys \subseteq held THEN "none" ELSE CHOOSE k \in keys \ held : TRUE
           p == Pushed(Typed(new), new)
<1>2. /\ new = "none" => chars' = chars /\ cwrite' = cwrite /\ hist' = HeardKeys
      /\ new # "none" => chars' = p.chars /\ cwrite' = p.cwrite /\ hist' = p.hist
  BY <1>1 DEF HeardKeys
<1>3. keys \subseteq held => new = "none" OBVIOUS
<1>4. ~(keys \subseteq held) => new \in keys \ held
  <2>1. ~(keys \subseteq held) => \E k : k \in keys \ held OBVIOUS
  <2> QED BY <2>1
<1>5. new = "none" \/ new \in UsbKeys BY <1>3, <1>4
<1>6. "none" \notin UsbKeys BY DEF UsbKeys
<1>7. UNCHANGED <<machine, stage, cfg, devices, prefix, cycle, flags, middle, cread, events,
                  evlock, calls>> /\ "usb keyboard" \in machine /\ stage = "run"
  BY DEF UsbReport
<1> HIDE DEF new
<1>8. \/ chars' = chars /\ cwrite' = cwrite /\ hist' = HeardKeys
      \/ \E c \in UsbKeys : LET q == Pushed(Typed(c), c) IN
           chars' = q.chars /\ cwrite' = q.cwrite /\ hist' = q.hist
  BY <1>2, <1>5, <1>6
<1> QED BY <1>1, <1>7, <1>8

LEMMA UsbMoveIs ==
  ASSUME UsbMove
  PROVE  /\ \/ Event(UsbEvent, Moved) /\ usb' = usb
            \/ /\ usb' = [usb EXCEPT !.on = FALSE]
               /\ events' = events /\ reader' = reader /\ hist' = hist
         /\ UNCHANGED <<machine, stage, cfg, devices, decoder, chars, cread, cwrite, evlock, fore,
                        getter>>
BY DEF UsbMove

LEMMA UsbTyped == Types /\ Usb => Types'
<1> SUFFICES ASSUME Types, Usb PROVE Types'
  OBVIOUS
<1>1. /\ usb \in Retries
      /\ chars \in [Places -> Letters] /\ cwrite \in Places /\ hist \in History
  BY DEF Types, TypeOK, Places, Letters
<1>2. CASE UsbReport
  <2>1. HeardKeys \in History BY <1>1, HistoryKept DEF HeardKeys
  <2>2. \A c \in UsbKeys : Typed(c) \in History /\ c \in Letters \ {"none"}
    BY <1>1, LettersKept DEF UsbKeys, Typed, Letters
  <2>3. chars' \in [Places -> Letters] /\ cwrite' \in Places /\ hist' \in History
    <3>1. CASE chars' = chars /\ cwrite' = cwrite /\ hist' = HeardKeys BY <1>1, <2>1, <3>1
    <3>2. ASSUME NEW c \in UsbKeys,
                 LET p == Pushed(Typed(c), c) IN
                   chars' = p.chars /\ cwrite' = p.cwrite /\ hist' = p.hist
          PROVE  chars' \in [Places -> Letters] /\ cwrite' \in Places /\ hist' \in History
      BY <2>2, <3>2, PushedTyped
    <3> QED BY <1>2, <3>1, <3>2, UsbReportIs
  <2>4. /\ shift' \in BOOLEAN /\ held' \subseteq UsbKeys
        /\ UNCHANGED <<machine, stage, cfg, devices, prefix, cycle, flags, middle, cread, events,
                       evlock, calls>>
    BY <1>2, UsbReportIs
  <2> QED BY <2>3, <2>4 DEF Types, TypeOK, Bytes, devices, calls, Places, Letters
<1>3. CASE UsbMove
  <2>1. Moved \in History /\ UsbEvent \in MouseEvents
    BY <1>1, HistoryKept, HistoryIs DEF Moved, UsbEvent, MouseEvents
  <2>2. /\ events' \in Seq(MouseEvents) /\ reader' \in {"away", "asleep", "ready"}
        /\ hist' \in History
    <3>1. events \in Seq(MouseEvents) /\ reader \in {"away", "asleep", "ready"}
      BY DEF Types, TypeOK
    <3> QED BY <1>1, <1>3, <2>1, <3>1, EventTyped, UsbMoveIs
  <2>3. usb' \in Retries
    <3>1. usb' = usb \/ usb' = [usb EXCEPT !.on = FALSE] BY <1>3, UsbMoveIs
    <3> QED BY <1>1, <3>1, RetriesKept
  <2>4. UNCHANGED <<machine, stage, cfg, devices, decoder, chars, cread, cwrite, evlock, fore,
                    getter>>
    BY <1>3, UsbMoveIs
  <2>5. usb'.tries \in 0 .. 3 BY <2>3, RetriesKept
  <2> QED BY <2>2, <2>3, <2>4, <2>5 DEF Types, TypeOK, Bytes, devices, decoder
<1>4. CASE UsbWait
  <2>1. usb' \in Retries
    BY <1>1, <1>4, RetriesKept DEF UsbWait
  <2>2. usb'.tries \in 0 .. 3 BY <2>1, RetriesKept
  <2> QED BY <1>4, <2>1, <2>2 DEF UsbWait, Types, TypeOK, Bytes, devices, decoder, rings
<1>5. CASE UsbRetry
  <2>1. usb' \in Retries
    BY <1>1, <1>5, RetriesKept DEF UsbRetry
  <2>2. usb'.tries \in 0 .. 3 BY <2>1, RetriesKept
  <2> QED BY <1>5, <2>1, <2>2 DEF UsbRetry, Types, TypeOK, Bytes, devices, decoder, rings
<1>6. CASE UsbRetried
  <2>1. usb' \in Retries
    BY <1>1, <1>6, RetriesKept DEF UsbRetried
  <2>2. UNCHANGED <<machine, stage, cfg, devices, decoder, rings, fore, getter, reader, hist>>
    BY <1>6 DEF UsbRetried
  <2>3. usb'.tries \in 0 .. 3 BY <2>1, RetriesKept
  <2> QED BY <2>1, <2>2, <2>3 DEF Types, TypeOK, Bytes, devices, decoder, rings
<1> QED BY <1>2, <1>3, <1>4, <1>5, <1>6 DEF Usb

LEMMA TypesStep == Types /\ [Next]_vars => Types'
<1>1. Types /\ UNCHANGED vars => Types'
  BY DEF vars, Types, TypeOK, Bytes, devices, decoder, rings, calls
<1> QED BY <1>1, PressTyped, MoveTyped, FillTyped, BootTyped, ServiceTyped, ForeDataTyped,
           ReadersTyped, UsbTyped DEF Next

LEMMA TypesInit == Init => Types
<1> SUFFICES ASSUME Init PROVE Types
  OBVIOUS
<1>1. Empty \in AnyByte BY DEF AnyByte
<1>2. hist \in History
  <2>1. <<>> \in Seq(Letters) /\ <<>> \in Seq(MouseEvents) BY EmptySeq
  <2> QED BY <2>1 DEF Init, History
<1>3. /\ chars \in [0 .. RingSize - 1 -> {"none", "a", "A", "x", "y"}]
      /\ cread \in 0 .. RingSize - 1 /\ cwrite \in 0 .. RingSize - 1
  BY Sizes DEF Init
<1>4. kq \in Seq(KeyBytes) /\ mq \in Seq(MouseBytes) /\ events \in Seq(MouseEvents)
  BY EmptySeq DEF Init
<1>5. usb \in Retries /\ usb.tries \in 0 .. 3
  BY DEF Init, Retries
<1>6. TypeOK BY <1>3, <1>5 DEF Init, TypeOK
<1>7. Bytes BY <1>1, <1>4 DEF Init, Bytes
<1>8. machine \in Machines /\ held \subseteq UsbKeys /\ getter \in Letters BY DEF Init, Letters
<1>9. /\ answer \in BOOLEAN /\ streaming \in BOOLEAN /\ evlock \in BOOLEAN
      /\ prefix \in BOOLEAN /\ shift \in BOOLEAN /\ (fore # "none" => stage = "run")
  BY DEF Init
<1> QED BY <1>2, <1>4, <1>5, <1>6, <1>7, <1>8, <1>9 DEF Types

LEMMA TypesAlways == Spec => []Types
BY TypesInit, TypesStep, PTL DEF Spec

-----------------------------------------------------------------------------
(***************************************************************************)
(* The keyboard is armed, and a reader of events is woken.                 *)
(***************************************************************************)
Fixed == <<machine, stage, cfg>>

\* Only the boot has to do with the controller's command byte.
LEMMA BootOnly == Next => Boot \/ UNCHANGED Fixed
<1>1. PressKey => UNCHANGED Fixed BY DEF PressKey, Fixed
<1>2. MoveMouse => UNCHANGED Fixed BY DEF MoveMouse, Fixed
<1>3. Fill => UNCHANGED Fixed BY DEF Fill, Fixed
<1>4. Service => UNCHANGED Fixed BY DEF Service, Fixed
<1>5. ForeStatus => UNCHANGED Fixed BY DEF ForeStatus, Fixed
<1>6. ForeData => UNCHANGED Fixed BY ForeDataIs DEF Fixed
<1>7. Get => UNCHANGED Fixed BY DEF Get, GetRead, GetAdvance, Fixed
<1>8. GetcharCall => UNCHANGED Fixed BY DEF GetcharCall, Fixed
<1>9. ReadEvent => UNCHANGED Fixed BY DEF ReadEvent, Fixed
<1>10. Usb => UNCHANGED Fixed
  BY UsbReportIs, UsbMoveIs DEF Usb, UsbWait, UsbRetry, UsbRetried, Fixed
<1> QED BY <1>1, <1>2, <1>3, <1>4, <1>5, <1>6, <1>7, <1>8, <1>9, <1>10 DEF Next

LEMMA MachineFixed == Next => machine' = machine
<1>1. Boot => machine' = machine
  BY DEF Boot, KeyboardInit, AuxOn, ReadConfig, ReadAck, NoAck, Rearm, RearmConfig, RearmAck,
         UsbInit
<1> QED BY <1>1, BootOnly DEF Fixed

LEMMA ArmedStep == Armed /\ [Next]_vars => Armed'
<1> SUFFICES ASSUME Armed, [Next]_vars PROVE Armed'
  OBVIOUS
<1>1. CASE UNCHANGED Fixed \/ UNCHANGED vars BY <1>1 DEF Armed, Fixed, vars
<1>2. CASE Boot
  <2>1. CASE KeyboardInit BY <2>1 DEF KeyboardInit, Armed
  <2>2. CASE AuxOn BY <2>2 DEF AuxOn, Armed
  <2>3. CASE ReadConfig
    <3>1. stage = "cfg" /\ stage' \in {"cfg", "defaults"} BY <2>3 DEF ReadConfig
    <3> QED BY <3>1 DEF Armed
  <2>4. CASE ReadAck
    <3>1. stage' \in {"defaults", "enable", "rearm"} BY <2>4 DEF ReadAck
    <3> QED BY <3>1 DEF Armed
  <2>5. CASE NoAck BY <2>5 DEF NoAck, Armed
  <2>6. CASE Rearm BY <2>6 DEF Rearm, Armed
  <2>7. CASE RearmConfig BY <2>7 DEF RearmConfig, Armed
  <2>8. CASE RearmAck BY <2>8 DEF RearmAck, Armed
  <2>9. CASE UsbInit BY <2>9 DEF UsbInit, Armed
  <2> QED BY <1>2, <2>1, <2>2, <2>3, <2>4, <2>5, <2>6, <2>7, <2>8, <2>9 DEF Boot
<1> QED BY <1>1, <1>2, BootOnly

\* keyboard_rearm_after_mouse_init repairs the command byte on every path of the boot,
\* whatever byte was taken for it: afterwards the keyboard's clock and the translation
\* to scan-code set 1 are on.
THEOREM KeyboardIsArmed == Spec => []KeyboardArmed
<1>1. Init => Armed BY DEF Init, Armed
<1>2. Armed => KeyboardArmed BY DEF Armed, KeyboardArmed
<1> QED BY <1>1, <1>2, ArmedStep, PTL DEF Spec

\* An event is kept with a reader who sleeps only if it is dropped.
Woken == reader' = "asleep" => reader = "asleep" /\ events' = events

LEMMA EventWakes == ASSUME NEW e, NEW h, Event(e, h) PROVE Woken
BY DEF Event, Woken

LEMMA MouseByteWakes == ASSUME Types, NEW b, NEW h, MouseByte(b, h) PROVE Woken
<1>1. cycle \in 0 .. 2 BY DEF Types, TypeOK
<1>2. Event(PacketEvent(b), h) => Woken BY EventWakes
<1>3. events' = events /\ reader' = reader => Woken BY DEF Woken
<1> QED BY <1>1, <1>2, <1>3, MouseByteIs

LEMMA DispatchWakes == ASSUME Types, NEW aux, NEW b, NEW h, Dispatch(aux, b, h) PROVE Woken
<1>1. CASE aux
  <2>1. MouseByte(b, h) BY <1>1 DEF Dispatch
  <2> QED BY <2>1, MouseByteWakes
<1>2. CASE ~aux
  <2>1. events' = events /\ reader' = reader BY <1>2 DEF Dispatch
  <2> QED BY <2>1 DEF Woken
<1> QED BY <1>1, <1>2

LEMMA WakeStep == Types /\ NoLostMouseWakeup /\ [Next]_vars => NoLostMouseWakeup'
<1> SUFFICES ASSUME Types, NoLostMouseWakeup, [Next]_vars PROVE NoLostMouseWakeup'
  OBVIOUS
<1> DEFINE Same == events' = events /\ reader' = reader
<1>1. Woken => NoLostMouseWakeup' BY DEF Woken, NoLostMouseWakeup
<1>2. Same => NoLostMouseWakeup' BY DEF NoLostMouseWakeup
<1>3. CASE ReadEvent
  <2>1. reader' = "asleep" => events = <<>> /\ events' = events BY <1>3 DEF ReadEvent
  <2> QED BY <2>1 DEF NoLostMouseWakeup
<1>4. CASE Boot
  <2>1. KeyboardInit \/ NoAck => Same BY DEF KeyboardInit, NoAck, rings, calls
  <2>2. AuxOn \/ Rearm => Same BY DEF AuxOn, Rearm, rings, calls
  <2>3. ReadConfig => Woken \/ Same
    <3>1. ReadConfig /\ IsAux(out) => MouseByte(out, hist) BY DEF ReadConfig
    <3>2. ReadConfig /\ ~IsAux(out) => Same BY DEF ReadConfig
    <3> QED BY <3>1, <3>2, MouseByteWakes
  <2>4. ReadAck \/ RearmConfig \/ RearmAck => Same
    BY DEF ReadAck, RearmConfig, RearmAck, rings, calls
  <2>5. UsbInit => Same BY DEF UsbInit, rings
  <2> QED BY <1>1, <1>2, <1>4, <2>1, <2>2, <2>3, <2>4, <2>5 DEF Boot
<1>5. CASE Service
  <2> DEFINE aux == IsAux(out)
  <2>1. Dispatch(aux, out, hist) BY <1>5 DEF Service
  <2> HIDE DEF aux
  <2> QED BY <1>1, <2>1, DispatchWakes
<1>6. CASE ForeData
  <2> DEFINE aux == fore = "aux"
  <2>1. PICK h : Dispatch(aux, ForeByte, h) BY <1>6, ForeDataIs
  <2> HIDE DEF aux
  <2> QED BY <1>1, <2>1, DispatchWakes
<1>7. CASE Usb
  <2>1. UsbReport => Same BY UsbReportIs DEF calls
  <2>2. UsbMove => Woken \/ Same
    <3>1. UsbMove => Event(UsbEvent, Moved) \/ Same BY UsbMoveIs
    <3> QED BY <3>1, EventWakes
  <2>3. UsbWait \/ UsbRetry \/ UsbRetried => Same
    BY DEF UsbWait, UsbRetry, UsbRetried, rings
  <2> QED BY <1>1, <1>2, <1>7, <2>1, <2>2, <2>3 DEF Usb
<1>8. CASE PressKey \/ MoveMouse \/ Fill \/ ForeStatus \/ Get \/ GetcharCall
  <2>1. PressKey => Same BY DEF PressKey, rings, calls
  <2>2. MoveMouse => Same BY DEF MoveMouse, rings, calls
  <2>3. Fill \/ ForeStatus => Same BY DEF Fill, ForeStatus, rings, calls
  <2>4. Get \/ GetcharCall => Same BY DEF Get, GetRead, GetAdvance, GetcharCall, rings, calls
  <2> QED BY <1>2, <1>8, <2>1, <2>2, <2>3, <2>4
<1>9. CASE UNCHANGED vars BY <1>2, <1>9 DEF vars, rings, calls
<1> QED BY <1>3, <1>4, <1>5, <1>6, <1>7, <1>8, <1>9 DEF Next

\* mouse_event_push wakes the reader with every event it stores, so a process sleeps in
\* mouse_read_event only while the ring is empty.
THEOREM MouseReaderWoken == Spec => []NoLostMouseWakeup
<1>1. Init => NoLostMouseWakeup BY DEF Init, NoLostMouseWakeup
<1> QED BY <1>1, TypesAlways, WakeStep, PTL DEF Spec

-----------------------------------------------------------------------------
(***************************************************************************)
(* The ring of characters.                                                 *)
(***************************************************************************)
\* A remainder, below twice the size.
LEMMA WrapIs ==
  ASSUME NEW x \in Nat, x < RingSize + RingSize
  PROVE  x % RingSize = IF x < RingSize THEN x ELSE x - RingSize
<1> DEFINE q == x \div RingSize
           m == RingSize * q
           r == x % RingSize
<1>1. q \in Int /\ r \in Nat /\ r < RingSize BY Sizes
<1>2. x = m + r BY Sizes
<1>3. m \in Int BY <1>1, Sizes
<1>4. q <= 0 - 1 => m <= 0 - RingSize
  <2>1. q <= 0 - 1 => RingSize * (q + 1) <= 0 BY <1>1, Sizes
  <2>2. RingSize * (q + 1) = m + RingSize BY <1>1, Sizes
  <2> HIDE DEF m
  <2> QED BY <1>3, <2>1, <2>2, Sizes
<1>5. q >= 2 => m >= RingSize + RingSize
  <2>1. q >= 2 => RingSize * (q - 2) >= 0 BY <1>1, Sizes
  <2>2. RingSize * (q - 2) = m - (RingSize + RingSize) BY <1>1, Sizes
  <2> HIDE DEF m
  <2> QED BY <1>3, <2>1, <2>2, Sizes
<1>6. q = 0 => m = 0 BY Sizes
<1>7. q = 1 => m = RingSize BY Sizes
<1> HIDE DEF q, m, r
<1>8. q = 0 \/ q = 1 BY <1>1, <1>2, <1>3, <1>4, <1>5, Sizes
<1>9. r = IF x < RingSize THEN x ELSE x - RingSize BY <1>1, <1>2, <1>6, <1>7, <1>8, Sizes
<1> QED BY <1>9 DEF r

\* The place k further on than the one before r, and how many there are from r to w.
Place(r, k) == IF r + k - 1 < RingSize THEN r + k - 1 ELSE r + k - 1 - RingSize
Count(r, w) == IF r <= w THEN w - r ELSE w + RingSize - r
Contents(r, w, ch) == [k \in 1 .. Count(r, w) |-> ch[Place(r, k)]]

LEMMA PlaceIs ==
  ASSUME NEW r \in Places, NEW k \in 1 .. RingSize
  PROVE  Place(r, k) \in Places /\ (r + k - 1) % RingSize = Place(r, k)
<1>1. r \in Nat /\ r < RingSize /\ k \in Nat /\ k >= 1 /\ k <= RingSize BY PlacesAre, Sizes
<1>2. r + k - 1 \in Nat /\ r + k - 1 < RingSize + RingSize BY <1>1, Sizes
<1>3. (r + k - 1) % RingSize = IF r + k - 1 < RingSize THEN r + k - 1 ELSE r + k - 1 - RingSize
  <2> DEFINE x == r + k - 1
  <2>1. x \in Nat /\ x < RingSize + RingSize BY <1>2
  <2> HIDE DEF x
  <2>2. x % RingSize = IF x < RingSize THEN x ELSE x - RingSize BY <2>1, WrapIs
  <2> QED BY <1>1, <1>2, <2>2, Sizes DEF x
<1> QED BY <1>1, <1>2, <1>3, Sizes DEF Place, Places

LEMMA CountIs ==
  ASSUME NEW r \in Places, NEW w \in Places
  PROVE  Count(r, w) \in 0 .. RingSize - 1 /\ (w + RingSize - r) % RingSize = Count(r, w)
<1>1. r \in Nat /\ r < RingSize /\ w \in Nat /\ w < RingSize BY PlacesAre
<1>2. w + RingSize - r \in Nat /\ w + RingSize - r < RingSize + RingSize BY <1>1, Sizes
<1>3. (w + RingSize - r) % RingSize
        = IF w + RingSize - r < RingSize THEN w + RingSize - r ELSE w + RingSize - r - RingSize
  <2> DEFINE x == w + RingSize - r
  <2>1. x \in Nat /\ x < RingSize + RingSize BY <1>2
  <2> HIDE DEF x
  <2>2. x % RingSize = IF x < RingSize THEN x ELSE x - RingSize BY <2>1, WrapIs
  <2> QED BY <1>1, <1>2, <2>2, Sizes DEF x
<1> QED BY <1>1, <1>3, Sizes DEF Count

LEMMA Next1Is ==
  ASSUME NEW r \in Places
  PROVE  Next1(r) \in Places /\ Next1(r) = IF r + 1 < RingSize THEN r + 1 ELSE 0
<1>1. r \in Nat /\ r < RingSize BY PlacesAre
<1>2. (r + 1) % RingSize = IF r + 1 < RingSize THEN r + 1 ELSE r + 1 - RingSize
  BY <1>1, Sizes, WrapIs
<1> QED BY <1>1, <1>2, Sizes DEF Next1, Places

LEMMA ContentsIs ==
  ASSUME NEW r \in Places, NEW w \in Places, NEW ch
  PROVE  [k \in 1 .. (w + RingSize - r) % RingSize |-> ch[(r + k - 1) % RingSize]]
           = Contents(r, w, ch)
<1>1. (w + RingSize - r) % RingSize = Count(r, w) /\ Count(r, w) \in 0 .. RingSize - 1
  BY CountIs
<1>2. \A k \in 1 .. Count(r, w) : k \in 1 .. RingSize BY <1>1, Sizes
<1>3. \A k \in 1 .. Count(r, w) : ch[(r + k - 1) % RingSize] = ch[Place(r, k)]
  BY <1>2, PlaceIs
<1> QED BY <1>1, <1>3 DEF Contents

LEMMA HeldIs ==
  /\ Types => Held = Contents(cread, cwrite, chars)
  /\ Types' => Held' = Contents(cread', cwrite', chars')
<1>1. ASSUME Types PROVE Held = Contents(cread, cwrite, chars)
  <2>1. cread \in Places /\ cwrite \in Places BY <1>1 DEF Types, TypeOK, Places
  <2> QED BY <2>1, ContentsIs DEF Held
<1>2. ASSUME Types' PROVE Held' = Contents(cread', cwrite', chars')
  <2>1. cread' \in Places /\ cwrite' \in Places BY <1>2 DEF Types, TypeOK, Places
  <2> QED BY <2>1, ContentsIs DEF Held
<1> QED BY <1>1, <1>2

LEMMA ContentsTyped ==
  ASSUME NEW r \in Places, NEW w \in Places, NEW ch \in [Places -> Letters]
  PROVE  /\ Contents(r, w, ch) \in Seq(Letters) /\ Len(Contents(r, w, ch)) = Count(r, w)
         /\ \A k \in 1 .. Count(r, w) : Contents(r, w, ch)[k] = ch[Place(r, k)]
<1>1. Count(r, w) \in 0 .. RingSize - 1 BY CountIs
<1>2. \A k \in 1 .. Count(r, w) : k \in 1 .. RingSize BY <1>1, Sizes
<1>3. \A k \in 1 .. Count(r, w) : ch[Place(r, k)] \in Letters BY <1>2, PlaceIs
<1>4. Count(r, w) \in Nat BY <1>1, Sizes
<1> QED BY <1>3, <1>4 DEF Contents

\* push_char stores behind the end of what the ring holds,
LEMMA ContentsPush ==
  ASSUME NEW r \in Places, NEW w \in Places, NEW ch \in [Places -> Letters],
         NEW c \in Letters, Next1(w) # r, NEW d \in [Places -> Letters],
         d[w] = c, \A j \in Places : j # w => d[j] = ch[j]
  PROVE  /\ Contents(r, Next1(w), d) = Append(Contents(r, w, ch), c)
         /\ r # w => d[r] = ch[r]
         /\ r # Next1(w)
<1> DEFINE n == Count(r, w)
<1>1. r \in Nat /\ r < RingSize /\ w \in Nat /\ w < RingSize BY PlacesAre
<1>2. Next1(w) \in Places /\ Next1(w) = IF w + 1 < RingSize THEN w + 1 ELSE 0 BY Next1Is
<1>3. n \in 0 .. RingSize - 1 BY CountIs
<1>4. Count(r, Next1(w)) = n + 1 BY <1>1, <1>2, Sizes DEF Count
<1>5. Place(r, n + 1) = w BY <1>1, Sizes DEF Place, Count
<1>6. \A k \in 1 .. n : Place(r, k) # w BY <1>1, Sizes DEF Place, Count
<1>7. \A k \in 1 .. n : Place(r, k) \in Places
  <2>1. \A k \in 1 .. n : k \in 1 .. RingSize BY <1>3, Sizes
  <2> QED BY <2>1, PlaceIs
<1>8. d \in [Places -> Letters] OBVIOUS
<1> DEFINE s == Contents(r, w, ch)
           t == Contents(r, Next1(w), d)
<1>9. s \in Seq(Letters) /\ Len(s) = n /\ \A k \in 1 .. n : s[k] = ch[Place(r, k)]
  BY ContentsTyped
<1>10. t \in Seq(Letters) /\ Len(t) = n + 1 /\ \A k \in 1 .. n + 1 : t[k] = d[Place(r, k)]
  <2> DEFINE v == Next1(w)
  <2>1. v \in Places /\ Count(r, v) = n + 1 BY <1>2, <1>4
  <2> HIDE DEF v, n
  <2>2. /\ Contents(r, v, d) \in Seq(Letters) /\ Len(Contents(r, v, d)) = Count(r, v)
        /\ \A k \in 1 .. Count(r, v) : Contents(r, v, d)[k] = d[Place(r, k)]
    BY <1>8, <2>1, ContentsTyped
  <2>3. /\ Contents(r, v, d) \in Seq(Letters) /\ Len(Contents(r, v, d)) = n + 1
        /\ \A k \in 1 .. n + 1 : Contents(r, v, d)[k] = d[Place(r, k)]
    BY <2>1, <2>2
  <2> QED BY <2>3 DEF v
<1>11. \A k \in 1 .. n : d[Place(r, k)] = ch[Place(r, k)] BY <1>6, <1>7
<1>12. d[w] = c OBVIOUS
<1> HIDE DEF s, t, n
<1>13. /\ Append(s, c) \in Seq(Letters) /\ Len(Append(s, c)) = n + 1
       /\ \A k \in 1 .. n : Append(s, c)[k] = s[k]
       /\ Append(s, c)[n + 1] = c
  BY <1>9, AppendProperties
<1>14. \A k \in 1 .. n + 1 : t[k] = Append(s, c)[k]
  <2> TAKE k \in 1 .. n + 1
  <2>1. CASE k = n + 1 BY <1>3, <1>5, <1>10, <1>12, <1>13, <2>1
  <2>2. CASE k # n + 1
    <3>1. k \in 1 .. n BY <1>3, <2>2
    <3> QED BY <1>9, <1>10, <1>11, <1>13, <3>1
  <2> QED BY <2>1, <2>2
<1>15. t = Append(s, c) BY <1>10, <1>13, <1>14, SeqEqual
<1> QED BY <1>8, <1>11, <1>15 DEF s, t

\* and keyboard_getchar takes its first.
LEMMA ContentsTake ==
  ASSUME NEW r \in Places, NEW w \in Places, NEW ch \in [Places -> Letters], r # w
  PROVE  Contents(r, w, ch) = <<ch[r]>> \o Contents(Next1(r), w, ch)
<1> DEFINE n == Count(r, w)
           s == Contents(r, w, ch)
           t == Contents(Next1(r), w, ch)
<1>1. r \in Nat /\ r < RingSize /\ w \in Nat /\ w < RingSize BY PlacesAre
<1>2. Next1(r) \in Places /\ Next1(r) = IF r + 1 < RingSize THEN r + 1 ELSE 0 BY Next1Is
<1>3. n \in 0 .. RingSize - 1 BY CountIs
<1>4. n >= 1 /\ Count(Next1(r), w) = n - 1 BY <1>1, <1>2, Sizes DEF Count
<1>5. Place(r, 1) = r BY <1>1, Sizes DEF Place
<1>6. \A k \in 1 .. n - 1 : Place(Next1(r), k) = Place(r, k + 1)
  BY <1>1, <1>2, <1>3, Sizes DEF Place
<1>7. s \in Seq(Letters) /\ Len(s) = n /\ \A k \in 1 .. n : s[k] = ch[Place(r, k)]
  BY ContentsTyped
<1>8. /\ t \in Seq(Letters) /\ Len(t) = n - 1
      /\ \A k \in 1 .. n - 1 : t[k] = ch[Place(Next1(r), k)]
  BY <1>2, <1>4, ContentsTyped
<1>9. ch[r] \in Letters OBVIOUS
<1>10. <<ch[r]>> \in Seq(Letters) /\ Len(<<ch[r]>>) = 1 /\ <<ch[r]>>[1] = ch[r] BY <1>9
<1> HIDE DEF s, t, n
<1>11. /\ <<ch[r]>> \o t \in Seq(Letters) /\ Len(<<ch[r]>> \o t) = n
       /\ \A k \in 1 .. n : (<<ch[r]>> \o t)[k] = IF k <= 1 THEN <<ch[r]>>[k] ELSE t[k - 1]
  BY <1>3, <1>8, <1>10, ConcatProperties
<1>12. \A k \in 1 .. n : s[k] = (<<ch[r]>> \o t)[k]
  <2> TAKE k \in 1 .. n
  <2>1. CASE k = 1 BY <1>5, <1>7, <1>10, <1>11, <2>1
  <2>2. CASE k # 1
    <3>1. k - 1 \in 1 .. n - 1 /\ k > 1 /\ (k - 1) + 1 = k BY <1>3, <2>2
    <3>2. t[k - 1] = ch[Place(r, (k - 1) + 1)] BY <1>6, <1>8, <3>1
    <3> QED BY <1>7, <1>11, <3>1, <3>2
  <2> QED BY <2>1, <2>2
<1>13. s = <<ch[r]>> \o t BY <1>7, <1>11, <1>12, SeqEqual
<1> QED BY <1>13 DEF s, t

\* What a step does to the ring: nothing, or it pushes a character, or reads one.
Still(h) == chars' = chars /\ cwrite' = cwrite /\ hist'.pushed = h.pushed
Grows(h) ==
  \E c \in Letters \ {"none"} :
    /\ Next1(cwrite) # cread
    /\ chars' = [chars EXCEPT ![cwrite] = c] /\ cwrite' = Next1(cwrite)
    /\ hist'.pushed = Append(h.pushed, c)
Pushes(h) == hist'.got = h.got /\ (Still(h) \/ Grows(h))

LEMMA PushedRing ==
  ASSUME NEW h \in History, NEW c \in Letters \ {"none"},
         LET p == Pushed(h, c) IN chars' = p.chars /\ cwrite' = p.cwrite /\ hist' = p.hist
  PROVE  Pushes(h)
<1>1. CASE Next1(cwrite) = cread
  <2>1. chars' = chars /\ cwrite' = cwrite /\ hist' = [h EXCEPT !.full = @ + 1]
    BY <1>1 DEF Pushed
  <2>2. hist'.got = h.got /\ hist'.pushed = h.pushed BY <2>1 DEF History
  <2> QED BY <2>1, <2>2 DEF Pushes, Still
<1>2. CASE Next1(cwrite) # cread
  <2>1. /\ chars' = [chars EXCEPT ![cwrite] = c] /\ cwrite' = Next1(cwrite)
        /\ hist' = [h EXCEPT !.pushed = Append(@, c)]
    BY <1>2 DEF Pushed
  <2>2. hist'.got = h.got /\ hist'.pushed = Append(h.pushed, c) BY <2>1 DEF History
  <2> QED BY <1>2, <2>1, <2>2 DEF Pushes, Grows
<1> QED BY <1>1, <1>2

LEMMA ScancodeRing ==
  ASSUME NEW h \in History, NEW code, Scancode(code, h) PROVE Pushes(h)
<1>1. CASE ~prefix /\ code = "a"
  <2> DEFINE c == IF shift THEN "A" ELSE "a"
  <2>1. c \in Letters \ {"none"} BY DEF Letters
  <2>2. LET p == Pushed(h, c) IN chars' = p.chars /\ cwrite' = p.cwrite /\ hist' = p.hist
    BY <1>1 DEF Scancode
  <2> HIDE DEF c
  <2> QED BY <2>1, <2>2, PushedRing
<1>2. CASE ~(~prefix /\ code = "a")
  <2>1. chars' = chars /\ cwrite' = cwrite /\ hist' = h BY <1>2 DEF Scancode
  <2> QED BY <2>1 DEF Pushes, Still
<1> QED BY <1>1, <1>2

LEMMA EventRing ==
  ASSUME NEW h \in History, NEW e, Event(e, h)
  PROVE  hist'.got = h.got /\ hist'.pushed = h.pushed
<1>1. hist' = h \/ hist' = [h EXCEPT !.full = @ + 1] \/ hist' = [h EXCEPT !.made = Append(@, e)]
  BY DEF Event
<1> QED BY <1>1 DEF History

LEMMA MouseByteRing ==
  ASSUME Types, NEW h \in History, NEW b, MouseByte(b, h)
  PROVE  hist'.got = h.got /\ hist'.pushed = h.pushed
<1>1. cycle \in 0 .. 2 BY DEF Types, TypeOK
<1>2. Event(PacketEvent(b), h) => hist'.got = h.got /\ hist'.pushed = h.pushed BY EventRing
<1> QED BY <1>1, <1>2, MouseByteIs

LEMMA DispatchRing ==
  ASSUME Types, NEW h \in History, NEW aux, NEW b, Dispatch(aux, b, h) PROVE Pushes(h)
<1>1. CASE aux
  <2>1. MouseByte(b, h) /\ chars' = chars /\ cwrite' = cwrite BY <1>1 DEF Dispatch
  <2> QED BY <2>1, MouseByteRing DEF Pushes, Still
<1>2. CASE ~aux
  <2> DEFINE code == IF "code" \in DOMAIN b THEN b.code ELSE "mouse byte"
  <2>1. Scancode(code, h) BY <1>2 DEF Dispatch
  <2> HIDE DEF code
  <2> QED BY <2>1, ScancodeRing
<1> QED BY <1>1, <1>2

\* Spoiled or not, the history of the characters is the same.
LEMMA StolenSame ==
  ASSUME Types, NEW b
  PROVE  /\ Stolen(b).got = hist.got /\ Stolen(b).pushed = hist.pushed
         /\ Stolen(b).typed = hist.typed /\ Stolen(b).full = hist.full
         /\ Stolen(b).made = hist.made
         /\ Stolen(b).spoiled # {}
<1>1. hist \in History BY DEF Types
<1>2. PICK d : Stolen(b) = [hist EXCEPT !.spoiled = @ \cup {d}] BY DEF Stolen, Spoil
<1> QED BY <1>1, <1>2 DEF History

Writes == Pushes(hist) /\ cread' = cread /\ getter' = getter /\ machine' = machine

LEMMA RingSteps ==
  Types /\ [Next]_vars => Writes \/ Get \/ GetcharCall
<1> SUFFICES ASSUME Types, [Next]_vars PROVE Writes \/ Get \/ GetcharCall
  OBVIOUS
<1>0. hist \in History BY DEF Types
<1> DEFINE Same == UNCHANGED <<chars, cwrite, cread, getter, machine>>
                   /\ hist'.pushed = hist.pushed /\ hist'.got = hist.got
           Others == cread' = cread /\ getter' = getter /\ machine' = machine
<1>1. Same => Writes BY DEF Writes, Pushes, Still
<1>2. CASE UNCHANGED vars BY <1>1, <1>2 DEF vars, rings, calls
<1>3. CASE PressKey
  <2>1. hist'.pushed = hist.pushed /\ hist'.got = hist.got
    <3>1. \/ hist' = Typed("A") \/ hist' = Typed("a") \/ hist' = [hist EXCEPT !.keys = @ + 1]
          \/ hist' = [hist EXCEPT !.keys = @ + 1, !.down = ~@]
      BY <1>3, PressKeyIs
    <3> QED BY <1>0, <3>1 DEF Typed, History
  <2>2. UNCHANGED <<chars, cwrite, cread, getter, machine>> BY <1>3 DEF PressKey, rings, calls
  <2> QED BY <1>1, <2>1, <2>2
<1>4. CASE MoveMouse
  <2>1. hist'.pushed = hist.pushed /\ hist'.got = hist.got
    BY <1>0, <1>4, MoveMouseIs DEF Moved, History
  <2>2. UNCHANGED <<chars, cwrite, cread, getter, machine>> BY <1>4 DEF MoveMouse, rings, calls
  <2> QED BY <1>1, <2>1, <2>2
<1>5. CASE Fill \/ ForeStatus \/ ReadEvent
  BY <1>1, <1>5 DEF Fill, ForeStatus, ReadEvent, rings, calls
<1>6. CASE Boot
  <2>1. KeyboardInit \/ NoAck => Same BY DEF KeyboardInit, NoAck, rings, calls
  <2>2. AuxOn \/ Rearm => Same BY DEF AuxOn, Rearm, rings, calls
  <2>3. ReadConfig => Same
    <3>1. ReadConfig => UNCHANGED <<chars, cwrite, cread, getter, machine>> BY DEF ReadConfig
    <3>2. ReadConfig => MouseByte(out, hist) \/ hist' = hist \/ hist' = Spoil("keys")
      BY DEF ReadConfig
    <3>3. Spoil("keys").pushed = hist.pushed /\ Spoil("keys").got = hist.got
      BY <1>0 DEF Spoil, History
    <3> QED BY <1>0, <3>1, <3>2, <3>3, MouseByteRing
  <2>4. ReadAck => Writes
    <3>1. ReadAck => Others BY DEF ReadAck, calls
    <3>2. ReadAck /\ IsAux(out) => chars' = chars /\ cwrite' = cwrite /\ hist' = hist
      BY DEF ReadAck
    <3>3. ReadAck /\ ~IsAux(out) => Scancode(out.code, hist) BY DEF ReadAck
    <3> QED BY <1>0, <3>1, <3>2, <3>3, ScancodeRing DEF Writes, Pushes, Still
  <2>5. RearmConfig \/ RearmAck => Same
    <3>1. RearmConfig \/ RearmAck => UNCHANGED <<chars, cwrite, cread, getter, machine>>
                                     /\ (hist' = hist \/ hist' = Stolen(out))
      BY DEF RearmConfig, RearmAck, rings, calls
    <3> QED BY <3>1, StolenSame
  <2>6. UsbInit => Same BY DEF UsbInit, rings
  <2> QED BY <1>1, <1>6, <2>1, <2>2, <2>3, <2>4, <2>5, <2>6 DEF Boot
<1>7. CASE Service
  <2> DEFINE aux == IsAux(out)
  <2>1. Dispatch(aux, out, hist) /\ Others BY <1>7 DEF Service
  <2> HIDE DEF aux
  <2> QED BY <1>0, <2>1, DispatchRing DEF Writes
<1>8. CASE ForeData
  <2> DEFINE aux == fore = "aux"
  <2>1. Dispatch(aux, ForeByte, hist) \/ Dispatch(aux, ForeByte, Stolen(ForeByte))
    BY <1>8, ForeDataIs
  <2> HIDE DEF aux
  <2>2. ForeByte \in AnyByte BY DEF ForeByte, Types, Bytes
  <2>3. Stolen(ForeByte) \in History BY <2>2, StolenTyped
  <2>4. Pushes(hist) \/ Pushes(Stolen(ForeByte)) BY <1>0, <2>1, <2>3, DispatchRing
  <2>5. Pushes(hist) BY <2>4, StolenSame DEF Pushes, Still, Grows
  <2>6. Others BY <1>8, ForeDataIs
  <2> QED BY <2>5, <2>6 DEF Writes
<1>9. CASE Usb
  <2>1. CASE UsbReport
    <3>1. Others BY <2>1, UsbReportIs DEF calls
    <3>2. HeardKeys.pushed = hist.pushed /\ HeardKeys.got = hist.got
      BY <1>0 DEF HeardKeys, History
    <3>3. \A c \in UsbKeys : /\ Typed(c) \in History /\ c \in Letters \ {"none"}
                             /\ Typed(c).pushed = hist.pushed /\ Typed(c).got = hist.got
      <4>1. \A c \in UsbKeys : c \in Letters /\ c # "none" BY DEF UsbKeys, Letters
      <4>2. \A c \in UsbKeys : Typed(c) \in History BY <1>0, <4>1, LettersKept DEF Typed
      <4>3. \A c : Typed(c).pushed = hist.pushed /\ Typed(c).got = hist.got
        BY <1>0 DEF Typed, History
      <4> QED BY <4>1, <4>2, <4>3
    <3>4. CASE chars' = chars /\ cwrite' = cwrite /\ hist' = HeardKeys
      BY <3>1, <3>2, <3>4 DEF Writes, Pushes, Still
    <3>5. ASSUME NEW c \in UsbKeys,
                 LET p == Pushed(Typed(c), c) IN
                   chars' = p.chars /\ cwrite' = p.cwrite /\ hist' = p.hist
          PROVE  Writes
      <4>1. Pushes(Typed(c)) BY <3>3, <3>5, PushedRing
      <4> QED BY <3>1, <3>3, <4>1 DEF Writes, Pushes, Still, Grows
    <3> QED BY <2>1, <3>4, <3>5, UsbReportIs
  <2>2. CASE UsbMove
    <3>1. Event(UsbEvent, Moved) \/ hist' = hist BY <2>2, UsbMoveIs
    <3>2. Moved \in History /\ Moved.pushed = hist.pushed /\ Moved.got = hist.got
      BY <1>0, HistoryKept DEF Moved, History
    <3>3. hist'.pushed = hist.pushed /\ hist'.got = hist.got BY <3>1, <3>2, EventRing
    <3> QED BY <1>1, <2>2, <3>3, UsbMoveIs
  <2>3. UsbWait \/ UsbRetry \/ UsbRetried => Same BY DEF UsbWait, UsbRetry, UsbRetried, rings
  <2> QED BY <1>1, <1>9, <2>1, <2>2, <2>3 DEF Usb
<1> QED BY <1>2, <1>3, <1>4, <1>5, <1>6, <1>7, <1>8, <1>9 DEF Next

LEMMA Associative ==
  \A s, t, u \in Seq(Letters) : (s \o t) \o u = s \o (t \o u)
BY ConcatAssociative

LEMMA RingStep == Types /\ Ring /\ [Next]_vars => Ring'
<1> SUFFICES ASSUME Types, Ring, [Next]_vars, "process" \notin machine'
             PROVE  /\ hist'.got \o Held' = hist'.pushed
                    /\ getter' # "none" => cread' # cwrite' /\ chars'[cread'] = getter'
  BY DEF Ring
<1>1. Types' BY TypesStep
<1>2. /\ chars \in [Places -> Letters] /\ cread \in Places /\ cwrite \in Places
      /\ getter \in Letters /\ hist.got \in Seq(Letters) /\ hist.pushed \in Seq(Letters)
      /\ hist \in History
  BY HistoryIs DEF Types, TypeOK, Places, Letters
<1>3. machine' = machine BY MachineFixed DEF vars
<1>4. /\ Held = Contents(cread, cwrite, chars)
      /\ Held' = Contents(cread', cwrite', chars')
      /\ Held \in Seq(Letters)
  BY <1>1, <1>2, HeldIs, ContentsTyped
<1>5. /\ hist.got \o Held = hist.pushed
      /\ getter # "none" => cread # cwrite /\ chars[cread] = getter
  BY <1>3 DEF Ring
<1>6. CASE Writes
  <2>1. hist'.got = hist.got /\ cread' = cread /\ getter' = getter BY <1>6 DEF Writes, Pushes
  <2>2. CASE Still(hist)
    <3>1. chars' = chars /\ cwrite' = cwrite /\ hist'.pushed = hist.pushed BY <2>2 DEF Still
    <3> QED BY <1>4, <1>5, <2>1, <3>1
  <2>3. CASE Grows(hist)
    <3>1. PICK c \in Letters \ {"none"} :
            /\ Next1(cwrite) # cread
            /\ chars' = [chars EXCEPT ![cwrite] = c] /\ cwrite' = Next1(cwrite)
            /\ hist'.pushed = Append(hist.pushed, c)
      BY <2>3 DEF Grows
    <3>2. /\ Held' = Append(Held, c) /\ cread # cwrite'
          /\ cread # cwrite => chars'[cread] = chars[cread]
      <4>1. c \in Letters OBVIOUS
      <4>2. chars' = [chars EXCEPT ![cwrite] = c] /\ cread' = cread /\ cwrite' = Next1(cwrite)
        BY <2>1, <3>1
      <4>3. /\ Contents(cread, Next1(cwrite), chars') = Append(Contents(cread, cwrite, chars), c)
            /\ cread # cwrite => chars'[cread] = chars[cread]
            /\ cread # Next1(cwrite)
        <5>1. /\ chars' \in [Places -> Letters] /\ chars'[cwrite] = c
              /\ \A j \in Places : j # cwrite => chars'[j] = chars[j]
          BY <1>2, <4>1, <4>2
        <5> DEFINE v == Next1(cwrite)
        <5>2. cread \in Places /\ cwrite \in Places /\ chars \in [Places -> Letters]
          BY <1>2
        <5>3. c \in Letters /\ v # cread BY <3>1, <4>1
        <5> QED BY <5>1, <5>2, <5>3, ContentsPush
      <4> QED BY <1>4, <4>2, <4>3
    <3>3. hist.got \o Append(Held, c) = Append(hist.got \o Held, c)
      <4> DEFINE s == Append(Held, c)
                 t == Append(hist.got \o Held, c)
      <4>1. c \in Letters OBVIOUS
      <4>2. Append(Held, c) = Held \o <<c>> /\ <<c>> \in Seq(Letters)
        BY <1>4, <4>1, AppendIsConcat
      <4>3. hist.got \o Held \in Seq(Letters) BY <1>2, <1>4, ConcatProperties
      <4>4. Append(hist.got \o Held, c) = (hist.got \o Held) \o <<c>>
        BY <4>1, <4>3, AppendIsConcat
      <4>5. (hist.got \o Held) \o <<c>> = hist.got \o (Held \o <<c>>)
        BY <1>2, <1>4, <4>2, Associative, ZenonT(60)
      <4> QED BY <4>2, <4>4, <4>5
    <3>4. hist'.got \o Held' = hist'.pushed BY <1>5, <2>1, <3>1, <3>2, <3>3
    <3>5. getter' # "none" => cread' # cwrite' /\ chars'[cread'] = getter'
      BY <1>5, <2>1, <3>2
    <3> QED BY <3>4, <3>5
  <2> QED BY <1>6, <2>2, <2>3 DEF Writes, Pushes
<1>7. CASE GetRead
  <2>1. /\ cread # cwrite /\ getter' = chars[cread]
        /\ UNCHANGED <<chars, cread, cwrite, hist>>
    BY <1>7 DEF GetRead, rings
  <2> QED BY <1>4, <1>5, <2>1
<1>8. CASE GetAdvance
  <2>1. /\ getter # "none" /\ getter' = "none" /\ cread' = Next1(cread) /\ hist' = Got(getter)
        /\ chars' = chars /\ cwrite' = cwrite
    BY <1>8 DEF GetAdvance
  <2>2. hist'.got = Append(hist.got, getter) /\ hist'.pushed = hist.pushed
    BY <1>2, <2>1 DEF Got, History
  <2>3. Held = <<getter>> \o Held'
    BY <1>2, <1>4, <1>5, <2>1, ContentsTake
  <2>4. Held' \in Seq(Letters)
    <3>1. cread' \in Places BY <1>2, <2>1, Next1Is
    <3> QED BY <1>2, <1>4, <2>1, <3>1, ContentsTyped
  <2>5. Append(hist.got, getter) = hist.got \o <<getter>> /\ <<getter>> \in Seq(Letters)
    BY <1>2, AppendIsConcat
  <2>6. (hist.got \o <<getter>>) \o Held' = hist.got \o (<<getter>> \o Held')
    BY <1>2, <2>4, <2>5, Associative
  <2> QED BY <1>5, <2>1, <2>2, <2>3, <2>5, <2>6
<1>9. CASE GetcharCall BY <1>3, <1>9 DEF GetcharCall
<1> QED BY <1>6, <1>7, <1>8, <1>9, RingSteps DEF Get
LEMMA RingInit == Init => Ring
<1> SUFFICES ASSUME Init PROVE /\ hist.got \o Held = hist.pushed /\ getter = "none"
  BY DEF Ring
<1>1. getter = "none" /\ hist.got = <<>> /\ hist.pushed = <<>> /\ cread = 0 /\ cwrite = 0
  BY DEF Init
<1>2. 0 \in Places /\ Types BY Sizes, TypesInit DEF Places
<1>3. Held = Contents(0, 0, chars) BY <1>1, <1>2, HeldIs
<1>4. Count(0, 0) = 0 BY DEF Count
<1>5. Contents(0, 0, chars) = <<>>
  <2>1. chars \in [Places -> Letters] BY <1>2 DEF Types, TypeOK, Places, Letters
  <2>2. Len(Contents(0, 0, chars)) = 0 /\ Contents(0, 0, chars) \in Seq(Letters)
    BY <1>2, <1>4, <2>1, ContentsTyped
  <2> QED BY <2>2, EmptySeq
<1> QED BY <1>1, <1>3, <1>5

\* What keyboard_getchar has returned and what the ring holds is always what was pushed:
\* the writer in the interrupt, the main loop's reader and the test for a full ring
\* agree, for a ring of any size (push_char, keyboard_getchar).
THEOREM RingKeepsOrder == Spec => []CharsInOrder
<1>1. Init => Types /\ Ring BY TypesInit, RingInit
<1>2. Types /\ Ring /\ [Next]_vars => Types' /\ Ring' BY TypesStep, RingStep
<1>3. Ring => CharsInOrder BY DEF Ring, CharsInOrder
<1> QED BY <1>1, <1>2, <1>3, PTL DEF Spec

-----------------------------------------------------------------------------
(***************************************************************************)
(* Bytes that were misread.                                                *)
(***************************************************************************)
LEMMA SpoilIs ==
  Types => \A d : Spoil(d).spoiled # {} /\ Spoil(d).made = hist.made
<1> SUFFICES ASSUME Types PROVE \A d : Spoil(d).spoiled # {} /\ Spoil(d).made = hist.made
  OBVIOUS
<1>1. hist \in History BY DEF Types
<1>2. \A d : Spoil(d).spoiled = hist.spoiled \cup {d} /\ Spoil(d).made = hist.made
  BY <1>1 DEF Spoil, History
<1> QED BY <1>2

\* Decoding a byte misreads none.
Reads(h) == hist'.spoiled = h.spoiled

LEMMA ScancodeReads ==
  ASSUME Types, NEW h \in History, NEW code, Scancode(code, h)
  PROVE  Reads(h) /\ hist'.made = h.made
<1>1. \A c : Pushed(h, c).hist.spoiled = h.spoiled /\ Pushed(h, c).hist.made = h.made
  BY DEF Pushed, History
<1>2. hist' = h \/ \E c : hist' = Pushed(h, c).hist BY DEF Scancode
<1> QED BY <1>1, <1>2 DEF Reads

LEMMA EventReads ==
  ASSUME NEW h \in History, NEW e, Event(e, h)
  PROVE  Reads(h) /\ (hist'.made = h.made \/ hist'.made = Append(h.made, e))
<1>1. hist' = h \/ hist' = [h EXCEPT !.full = @ + 1] \/ hist' = [h EXCEPT !.made = Append(@, e)]
  BY DEF Event
<1>2. [h EXCEPT !.full = @ + 1].spoiled = h.spoiled /\ [h EXCEPT !.full = @ + 1].made = h.made
  BY DEF History
<1>3. /\ [h EXCEPT !.made = Append(@, e)].spoiled = h.spoiled
      /\ [h EXCEPT !.made = Append(@, e)].made = Append(h.made, e)
  BY DEF History
<1> QED BY <1>1, <1>2, <1>3 DEF Reads

LEMMA MouseByteReads ==
  ASSUME Types, NEW h \in History, NEW b, MouseByte(b, h)
  PROVE  Reads(h)
<1>1. cycle \in 0 .. 2 BY DEF Types, TypeOK
<1>2. Event(PacketEvent(b), h) => Reads(h) BY EventReads
<1>3. hist' = h => Reads(h) BY DEF Reads
<1> QED BY <1>1, <1>2, <1>3, MouseByteIs

LEMMA DispatchReads ==
  ASSUME Types, NEW aux \in BOOLEAN, NEW h \in History, NEW b, Dispatch(aux, b, h)
  PROVE  Reads(h)
<1>1. CASE aux
  <2>1. MouseByte(b, h) BY <1>1 DEF Dispatch
  <2> QED BY <2>1, MouseByteReads
<1>2. CASE ~aux
  <2> DEFINE code == IF "code" \in DOMAIN b THEN b.code ELSE "mouse byte"
  <2>1. Scancode(code, h) BY <1>2 DEF Dispatch
  <2> HIDE DEF code
  <2> QED BY <2>1, ScancodeReads
<1> QED BY <1>1, <1>2

\* A byte that was misread is not forgotten; and what a step took for what it was.
Right ==
  /\ ForeData => ~Misread
  /\ ReadConfig /\ ~IsAux(out) => out = CommandByte
  /\ RearmConfig => out = CommandByte
  /\ RearmAck => out \in {Ack("keyboard"), CommandByte}

LEMMA CleanBefore == Types /\ [Next]_vars /\ Clean' => Clean /\ (Next => Right)
<1> SUFFICES ASSUME Types, [Next]_vars, hist'.spoiled = {} PROVE Clean /\ Right
  BY DEF Clean
<1> USE DEF Clean
<1>0. hist \in History BY DEF Types
<1>1. ReadConfig => Clean /\ (IsAux(out) \/ out = CommandByte)
  <2>1. ReadConfig /\ IsAux(out) => MouseByte(out, hist) BY DEF ReadConfig
  <2>2. ReadConfig /\ ~IsAux(out) => hist' = IF out = CommandByte THEN hist ELSE Spoil("keys")
    BY DEF ReadConfig
  <2> QED BY <1>0, <2>1, <2>2, MouseByteReads, SpoilIs DEF Reads
<1>2. RearmConfig => Clean /\ out = CommandByte
  <2>1. RearmConfig => hist' = IF out = CommandByte THEN hist ELSE Stolen(out)
    BY DEF RearmConfig
  <2> QED BY <2>1, StolenSame
<1>3. RearmAck => Clean /\ out \in {Ack("keyboard"), CommandByte}
  <2>1. RearmAck => hist' = IF out \in {Ack("keyboard"), CommandByte} THEN hist ELSE Stolen(out)
    BY DEF RearmAck
  <2> QED BY <2>1, StolenSame
<1>4. ForeData => Clean /\ ~Misread
  <2> SUFFICES ASSUME ForeData PROVE Clean /\ ~Misread
    OBVIOUS
  <2> DEFINE aux == fore = "aux"
  <2>1. \/ Misread /\ Dispatch(aux, ForeByte, Stolen(ForeByte))
        \/ ~Misread /\ Dispatch(aux, ForeByte, hist)
    BY ForeDataIs
  <2>2. aux \in BOOLEAN OBVIOUS
  <2> HIDE DEF aux
  <2>3. ForeByte \in AnyByte BY DEF ForeByte, Types, Bytes
  <2>4. Stolen(ForeByte) \in History BY <2>3, StolenTyped
  <2>5. Dispatch(aux, ForeByte, hist) => Reads(hist) BY <1>0, <2>2, DispatchReads
  <2>6. Dispatch(aux, ForeByte, Stolen(ForeByte)) => Reads(Stolen(ForeByte))
    BY <2>2, <2>4, DispatchReads
  <2> QED BY <2>1, <2>5, <2>6, StolenSame DEF Reads
<1>5. Service => Clean
  <2> SUFFICES ASSUME Service PROVE Clean
    OBVIOUS
  <2> DEFINE aux == IsAux(out)
  <2>1. Dispatch(aux, out, hist) BY DEF Service
  <2>2. aux \in BOOLEAN BY DEF IsAux
  <2> HIDE DEF aux
  <2> QED BY <1>0, <2>1, <2>2, DispatchReads DEF Reads
<1>6. PressKey => Clean
  <2>1. \A c : Typed(c).spoiled = hist.spoiled BY <1>0 DEF Typed, History
  <2>2. /\ [hist EXCEPT !.keys = @ + 1, !.down = ~@].spoiled = hist.spoiled
        /\ [hist EXCEPT !.keys = @ + 1].spoiled = hist.spoiled
    BY <1>0 DEF History
  <2> QED BY <2>1, <2>2, PressKeyIs
<1>7. Moved.spoiled = hist.spoiled /\ Moved \in History /\ HeardKeys.spoiled = hist.spoiled
  BY <1>0, HistoryKept DEF Moved, HeardKeys, History
<1>8. MoveMouse => Clean BY <1>7, MoveMouseIs
<1>9. UsbReport => Clean
  <2>1. \A c : Typed(c).spoiled = hist.spoiled BY <1>0 DEF Typed, History
  <2>2. \A c \in UsbKeys : Typed(c) \in History
    <3>1. \A c \in UsbKeys : c \in Letters BY DEF UsbKeys, Letters
    <3> QED BY <1>0, <3>1, LettersKept DEF Typed
  <2>3. \A c \in UsbKeys : Pushed(Typed(c), c).hist.spoiled = Typed(c).spoiled
    BY <2>2 DEF Pushed, History
  <2> QED BY <1>7, <2>1, <2>3, UsbReportIs
<1>10. UsbMove => Clean BY <1>7, EventReads, UsbMoveIs DEF Reads
<1>11. GetAdvance \/ GetcharCall => Clean
  <2>1. \A c : Got(c).spoiled = hist.spoiled BY <1>0 DEF Got, History
  <2> QED BY <2>1 DEF GetAdvance, GetcharCall
<1>12. ReadAck => Clean
  <2>1. ReadAck => hist' = hist \/ Scancode(out.code, hist) BY DEF ReadAck
  <2> QED BY <1>0, <2>1, ScancodeReads DEF Reads
<1>13. hist' = hist => Clean OBVIOUS
<1>14. /\ Fill \/ ForeStatus \/ GetRead \/ ReadEvent => hist' = hist
       /\ KeyboardInit \/ AuxOn \/ NoAck \/ Rearm \/ UsbInit => hist' = hist
       /\ UsbWait \/ UsbRetry \/ UsbRetried => hist' = hist
  BY DEF Fill, ForeStatus, GetRead, ReadEvent, KeyboardInit, AuxOn, NoAck, Rearm, UsbInit,
         UsbWait, UsbRetry, UsbRetried
<1>15. Right BY <1>1, <1>2, <1>3, <1>4 DEF Right
<1>16. Clean
  <2>1. CASE UNCHANGED vars BY <2>1 DEF vars
  <2>2. Boot => Clean BY <1>1, <1>2, <1>3, <1>12, <1>13, <1>14 DEF Boot
  <2>3. Usb => Clean BY <1>9, <1>10, <1>13, <1>14 DEF Usb
  <2>4. Get => Clean BY <1>11, <1>13, <1>14 DEF Get
  <2> QED BY <1>4, <1>5, <1>6, <1>8, <1>11, <1>13, <1>14, <2>1, <2>2, <2>3, <2>4 DEF Next
<1> QED BY <1>15, <1>16

-----------------------------------------------------------------------------
(***************************************************************************)
(* The packets of the mouse.                                               *)
(***************************************************************************)
LEMMA StreamTyped == Types => MoveStream \in Seq(MouseBytes) /\ KeyStream \in Seq(KeyBytes)
<1> SUFFICES ASSUME Types PROVE MoveStream \in Seq(MouseBytes) /\ KeyStream \in Seq(KeyBytes)
  OBVIOUS
<1>1. out \in AnyByte /\ kq \in Seq(KeyBytes) /\ mq \in Seq(MouseBytes) BY DEF Types, Bytes
<1>2. out.from = "mouse" => <<out>> \in Seq(MouseBytes) BY <1>1, FromIs
<1>3. out.from = "keyboard" => <<out>> \in Seq(KeyBytes) BY <1>1, FromIs
<1> QED BY <1>1, <1>2, <1>3, ConcatProperties DEF MoveStream, KeyStream

LEMMA FirstIs ==
  ASSUME NEW S, NEW b \in S, NEW t \in Seq(S)
  PROVE  /\ <<b>> \o t \in Seq(S) /\ <<b>> \o t # <<>>
         /\ Head(<<b>> \o t) = b /\ Tail(<<b>> \o t) = t
<1> DEFINE s == <<b>> \o t
<1>1. <<b>> \in Seq(S) /\ Len(<<b>>) = 1 /\ <<b>>[1] = b OBVIOUS
<1>2. /\ s \in Seq(S) /\ Len(s) = 1 + Len(t) /\ Len(t) \in Nat
      /\ \A i \in 1 .. 1 + Len(t) : s[i] = IF i <= 1 THEN <<b>>[i] ELSE t[i - 1]
  BY <1>1, ConcatProperties, LenProperties
<1>3. s # <<>> /\ s[1] = b BY <1>1, <1>2
<1> HIDE DEF s
<1>4. /\ Tail(s) \in Seq(S) /\ Len(Tail(s)) = Len(t)
      /\ \A i \in 1 .. Len(Tail(s)) : Tail(s)[i] = s[i + 1]
  BY <1>2, <1>3, HeadTailProperties
<1>5. \A i \in 1 .. Len(t) : s[i + 1] = t[i] BY <1>2
<1>6. Tail(s) = t BY <1>4, <1>5, SeqEqual
<1>7. Head(s) = b BY <1>2, <1>3
<1> QED BY <1>2, <1>3, <1>6, <1>7 DEF s

LEMMA LaterIs ==
  ASSUME NEW S, NEW s \in Seq(S), NEW p \in Seq(S), s # <<>>
  PROVE  s \o p # <<>> /\ Head(s \o p) = Head(s) /\ Tail(s \o p) = Tail(s) \o p
<1> DEFINE u == s \o p
<1>1. /\ u \in Seq(S) /\ Len(u) = Len(s) + Len(p)
      /\ \A i \in 1 .. Len(s) + Len(p) : u[i] = IF i <= Len(s) THEN s[i] ELSE p[i - Len(s)]
  BY ConcatProperties
<1>2. Len(s) \in Nat /\ Len(s) > 0 /\ Len(p) \in Nat BY EmptySeq, LenProperties
<1>3. u # <<>> /\ u[1] = s[1] BY <1>1, <1>2
<1>4. /\ Tail(s) \in Seq(S) /\ Len(Tail(s)) = Len(s) - 1
      /\ \A i \in 1 .. Len(Tail(s)) : Tail(s)[i] = s[i + 1]
  BY HeadTailProperties
<1> HIDE DEF u
<1>5. /\ Tail(u) \in Seq(S) /\ Len(Tail(u)) = Len(u) - 1
      /\ \A i \in 1 .. Len(Tail(u)) : Tail(u)[i] = u[i + 1]
  BY <1>1, <1>3, HeadTailProperties
<1> DEFINE v == Tail(s) \o p
           t == Tail(s)
<1>6. t \in Seq(S) /\ Len(t) = Len(s) - 1 /\ \A i \in 1 .. Len(t) : t[i] = s[i + 1] BY <1>4
<1> HIDE DEF t
<1>7. /\ t \o p \in Seq(S) /\ Len(t \o p) = Len(t) + Len(p)
      /\ \A i \in 1 .. Len(t) + Len(p) : (t \o p)[i] = IF i <= Len(t) THEN t[i] ELSE p[i - Len(t)]
  BY <1>6, ConcatProperties
<1>8. \A i \in 1 .. Len(u) - 1 : Tail(u)[i] = (t \o p)[i]
  <2> TAKE i \in 1 .. Len(u) - 1
  <2>1. i \in Int /\ i >= 1 /\ i <= Len(s) + Len(p) - 1 BY <1>1, <1>2
  <2>2. Tail(u)[i] = u[i + 1] BY <1>1, <1>2, <1>5, <2>1
  <2>3. u[i + 1] = IF i + 1 <= Len(s) THEN s[i + 1] ELSE p[i + 1 - Len(s)] BY <1>1, <1>2, <2>1
  <2>4. (t \o p)[i] = IF i <= Len(s) - 1 THEN t[i] ELSE p[i - (Len(s) - 1)]
    BY <1>2, <1>6, <1>7, <2>1
  <2>5. i <= Len(s) - 1 => t[i] = s[i + 1] BY <1>2, <1>6, <2>1
  <2>6. i + 1 - Len(s) = i - (Len(s) - 1) BY <1>2, <2>1
  <2>7. i + 1 <= Len(s) <=> i <= Len(s) - 1 BY <1>2, <2>1
  <2> QED BY <2>2, <2>3, <2>4, <2>5, <2>6, <2>7
<1>9. Tail(u) = t \o p
  <2>1. Len(Tail(u)) = Len(t \o p) BY <1>1, <1>2, <1>5, <1>6, <1>7
  <2>2. \A i \in 1 .. Len(Tail(u)) : Tail(u)[i] = (t \o p)[i] BY <1>5, <1>8
  <2> QED BY <1>5, <1>7, <2>1, <2>2, SeqEqual
<1>10. Head(u) = Head(s) BY <1>3
<1> QED BY <1>3, <1>9, <1>10 DEF t, u

\* A person lengthens the stream by a packet,
LEMMA PacketsGrow ==
  ASSUME NEW s, NEW taken \in 0 .. 2, NEW f, NEW m, Packets(s, taken, f, m),
         NEW n \in Nat, NEW over \in BOOLEAN, NEW sy \in BOOLEAN
  PROVE  Packets(s \o Packet3(n, over, sy), taken, f, m)
<1> DEFINE q == Packet3(n, over, sy)
<1>1. /\ q \in Seq(MoveBytes) /\ Len(q) = 3
      /\ q[1].i = 0 /\ q[1].sync /\ q[2].i = 1 /\ q[3].i = 2
      /\ q[1].n = n /\ q[2].n = n /\ q[3].n = n
  BY Packet3Is
<1> HIDE DEF q
<1>2. /\ s \in Seq(MoveBytes)
      /\ \A k \in 1 .. Len(s) : s[k].i = 0 => s[k].sync
      /\ \A k \in 1 .. Len(s) - 1 : Follows(s[k], s[k + 1])
      /\ s # <<>> => s[1].i = taken /\ s[Len(s)].i = 2
      /\ taken >= 1 => s # <<>> /\ f \in MoveBytes /\ f.i = 0 /\ s[1].n = f.n
      /\ taken = 2 => m \in MoveBytes /\ m.i = 1 /\ m.n = f.n
  BY DEF Packets
<1> DEFINE u == s \o q
           l == Len(s)
<1>3. l \in Nat /\ (s = <<>> <=> l = 0) BY <1>2, EmptySeq, LenProperties
<1>4. /\ u \in Seq(MoveBytes) /\ Len(u) = l + 3
      /\ \A i \in 1 .. l + 3 : u[i] = IF i <= l THEN s[i] ELSE q[i - l]
  <2>1. /\ s \o q \in Seq(MoveBytes) /\ Len(s \o q) = Len(s) + Len(q)
        /\ \A i \in 1 .. Len(s) + Len(q) :
              (s \o q)[i] = IF i <= Len(s) THEN s[i] ELSE q[i - Len(s)]
    <3>1. s \in Seq(MoveBytes) /\ q \in Seq(MoveBytes) BY <1>1, <1>2
    <3> QED BY ONLY <3>1, ConcatProperties
  <2> QED BY <1>1, <2>1
<1>5. u[l + 1] = q[1] /\ u[l + 2] = q[2] /\ u[l + 3] = q[3] BY <1>3, <1>4
<1>6. \A i \in 1 .. l : u[i] = s[i] BY <1>3, <1>4
<1> HIDE DEF u
<1>7. \A k \in 1 .. l + 3 : u[k].i = 0 => u[k].sync
  <2> TAKE k \in 1 .. l + 3
  <2>1. k \in 1 .. l \/ k = l + 1 \/ k = l + 2 \/ k = l + 3 BY <1>3
  <2> QED BY <1>1, <1>2, <1>5, <1>6, <2>1
<1>8. \A k \in 1 .. l + 2 : Follows(u[k], u[k + 1])
  <2> TAKE k \in 1 .. l + 2
  <2>1. CASE k <= l - 1
    <3>1. k \in 1 .. l - 1 /\ k \in 1 .. l /\ k + 1 \in 1 .. l BY <1>3, <2>1
    <3> QED BY <1>2, <1>6, <3>1
  <2>2. CASE k = l
    <3>1. l \in 1 .. l /\ s # <<>> BY <1>3, <2>2
    <3>2. u[k].i = 2 /\ u[k + 1].i = 0 BY <1>1, <1>2, <1>5, <1>6, <2>2, <3>1
    <3> QED BY <3>2 DEF Follows
  <2>3. CASE k = l + 1
    <3>1. k + 1 = l + 2 BY <1>3, <2>3
    <3> QED BY <1>1, <1>5, <2>3, <3>1 DEF Follows
  <2>4. CASE k = l + 2
    <3>1. k + 1 = l + 3 BY <1>3, <2>4
    <3> QED BY <1>1, <1>5, <2>4, <3>1 DEF Follows
  <2> QED BY <1>3, <2>1, <2>2, <2>3, <2>4
<1>9. u # <<>> /\ u[1].i = taken /\ u[l + 3].i = 2
  <2>1. u # <<>> BY <1>3, <1>4
  <2>2. u[l + 3].i = 2 BY <1>1, <1>5
  <2>3. CASE l = 0
    <3>1. taken = 0 BY <1>2, <1>3, <2>3
    <3>2. u[1] = q[1] BY <1>5, <2>3
    <3> QED BY <1>1, <2>1, <2>2, <3>1, <3>2
  <2>4. CASE l > 0
    <3>1. u[1] = s[1] BY <1>3, <1>6, <2>4
    <3> QED BY <1>2, <1>3, <2>1, <2>2, <2>4, <3>1
  <2> QED BY <1>3, <2>3, <2>4
<1>10. taken >= 1 => u # <<>> /\ f \in MoveBytes /\ f.i = 0 /\ u[1].n = f.n
  <2>1. taken >= 1 => u[1] = s[1] BY <1>2, <1>3, <1>6
  <2> QED BY <1>2, <1>9, <2>1
<1>11. Packets(u, taken, f, m)
  <2>1. Len(u) - 1 = l + 2 BY <1>3, <1>4
  <2> HIDE DEF l
  <2> QED BY <1>2, <1>4, <1>7, <1>8, <1>9, <1>10, <2>1 DEF Packets
<1> QED BY <1>11 DEF u, q

\* and the decoder takes its head.
LEMMA PacketsShrink ==
  ASSUME NEW s, NEW taken \in 0 .. 2, NEW f, NEW m, Packets(s, taken, f, m), s # <<>>
  PROVE  LET b == Head(s) IN
         /\ b \in MoveBytes /\ b.i = taken
         /\ taken = 0 => b.sync /\ Packets(Tail(s), 1, b, m)
         /\ taken = 1 => f \in MoveBytes /\ f.i = 0 /\ b.n = f.n /\ Packets(Tail(s), 2, f, b)
         /\ taken = 2 => /\ f \in MoveBytes /\ m \in MoveBytes /\ f.i = 0 /\ m.i = 1
                         /\ m.n = f.n /\ b.n = f.n
                         /\ Packets(Tail(s), 0, f, m)
<1> DEFINE b == Head(s)
           t == Tail(s)
           l == Len(s)
<1>1. /\ s \in Seq(MoveBytes)
      /\ \A k \in 1 .. l : s[k].i = 0 => s[k].sync
      /\ \A k \in 1 .. l - 1 : Follows(s[k], s[k + 1])
      /\ s[1].i = taken /\ s[l].i = 2
      /\ taken >= 1 => f \in MoveBytes /\ f.i = 0 /\ s[1].n = f.n
      /\ taken = 2 => m \in MoveBytes /\ m.i = 1 /\ m.n = f.n
  BY DEF Packets
<1>2. l \in Nat /\ l > 0 BY <1>1, EmptySeq
<1>3. b = s[1] /\ b \in MoveBytes BY <1>1, <1>2, HeadTailProperties
<1>4. t \in Seq(MoveBytes) /\ Len(t) = l - 1 /\ \A i \in 1 .. l - 1 : t[i] = s[i + 1]
  BY <1>1, HeadTailProperties
<1>5. t = <<>> <=> l = 1
  <2> HIDE DEF t, l
  <2>1. Len(t) = 0 <=> t = <<>> BY <1>4, EmptySeq
  <2> QED BY <1>2, <1>4, <2>1
<1>6. l > 1 => /\ t[1] = s[2] /\ t[l - 1] = s[l] /\ Follows(b, t[1])
  BY <1>1, <1>2, <1>3, <1>4
<1>7. b.i = taken /\ (l = 1 => taken = 2) /\ (taken = 0 => b.sync) BY <1>1, <1>2, <1>3
<1> HIDE DEF b, t
<1>8. \A k \in 1 .. Len(t) : t[k].i = 0 => t[k].sync
  <2> TAKE k \in 1 .. Len(t)
  <2>1. k \in 1 .. l - 1 /\ k + 1 \in 1 .. l BY <1>2, <1>4
  <2> QED BY <1>1, <1>4, <2>1
<1>9. \A k \in 1 .. Len(t) - 1 : Follows(t[k], t[k + 1])
  <2> TAKE k \in 1 .. Len(t) - 1
  <2>1. k \in 1 .. l - 1 /\ k + 1 \in 1 .. l - 1 BY <1>2, <1>4
  <2> QED BY <1>1, <1>4, <2>1
<1> DEFINE Whole(n) == t # <<>> => t[1].i = n /\ t[Len(t)].i = 2
<1>10. taken = 0 => t # <<>> /\ Whole(1) /\ t[1].n = b.n
  BY <1>1, <1>2, <1>4, <1>5, <1>6, <1>7 DEF Follows
<1>11. taken = 1 => t # <<>> /\ Whole(2) /\ t[1].n = b.n
  BY <1>1, <1>2, <1>4, <1>5, <1>6, <1>7 DEF Follows
<1>12. taken = 2 => Whole(0) BY <1>1, <1>2, <1>4, <1>5, <1>6, <1>7 DEF Follows
<1>13. taken = 0 => Packets(t, 1, b, m)
  BY <1>3, <1>4, <1>7, <1>8, <1>9, <1>10 DEF Packets
<1>14. taken = 1 => Packets(t, 2, f, b)
  BY <1>1, <1>3, <1>4, <1>7, <1>8, <1>9, <1>11 DEF Packets
<1>15. taken = 2 => Packets(t, 0, f, m) BY <1>4, <1>8, <1>9, <1>12 DEF Packets
<1> QED BY <1>1, <1>3, <1>7, <1>13, <1>14, <1>15 DEF b, t

\* An event that is made is of a whole packet.
Makes(h) ==
  hist'.made = h.made \/ \E e : Packet(e) /\ hist'.made = Append(h.made, e)

LEMMA WholePacket ==
  ASSUME flags \in MoveBytes, middle \in MoveBytes, NEW b \in MoveBytes,
         flags.i = 0, middle.i = 1, b.i = 2, middle.n = flags.n, b.n = flags.n
  PROVE  Packet(PacketEvent(b))
<1> DEFINE e == PacketEvent(b)
<1>1. e.from = "ps2 mouse" /\ e.bytes = <<flags, middle, b>> BY DEF PacketEvent
<1>2. \A c \in MoveBytes : "i" \in DOMAIN c BY DEF MoveBytes
<1> HIDE DEF e
<1>3. e.bytes[1] = flags /\ e.bytes[2] = middle /\ e.bytes[3] = b
  <2> DEFINE t == <<flags, middle, b>>
  <2>1. t[1] = flags /\ t[2] = middle /\ t[3] = b OBVIOUS
  <2>2. e.bytes = t BY <1>1
  <2> HIDE DEF t
  <2> QED BY <2>1, <2>2
<1>4. \A k \in 1 .. 3 : k = 1 \/ k = 2 \/ k = 3 OBVIOUS
<1>5. \A k \in 1 .. 3 : "i" \in DOMAIN e.bytes[k] /\ e.bytes[k].i = k - 1
  BY <1>2, <1>3, <1>4
<1>6. e.bytes[1].n = e.bytes[2].n /\ e.bytes[2].n = e.bytes[3].n BY <1>3
<1>7. Packet(e) BY <1>5, <1>6 DEF Packet
<1> QED BY <1>7 DEF e

\* The decoder in step with the stream takes its head.
LEMMA DecoderTakes ==
  ASSUME Types, NEW h \in History, NEW b, MouseByte(b, h),
         NEW s, Packets(s, cycle, flags, middle), s # <<>>, Head(s) = b
  PROVE  Packets(Tail(s), cycle', flags', middle') /\ Makes(h)
<1>1. cycle \in 0 .. 2 BY DEF Types, TypeOK
<1>2. /\ b \in MoveBytes /\ b.i = cycle
      /\ cycle = 0 => b.sync /\ Packets(Tail(s), 1, b, middle)
      /\ cycle = 1 => Packets(Tail(s), 2, flags, b)
      /\ cycle = 2 => /\ flags \in MoveBytes /\ middle \in MoveBytes
                      /\ flags.i = 0 /\ middle.i = 1
                      /\ middle.n = flags.n /\ b.n = flags.n
                      /\ Packets(Tail(s), 0, flags, middle)
  BY <1>1, PacketsShrink
<1>3. CASE cycle = 0
  <2>1. hist' = h /\ middle' = middle /\ flags' = b /\ cycle' = 1 BY <1>2, <1>3, MouseByteIs
  <2> QED BY <1>2, <1>3, <2>1 DEF Makes
<1>4. CASE cycle = 1
  <2>1. hist' = h /\ middle' = b /\ flags' = flags /\ cycle' = 2 BY <1>4, MouseByteIs
  <2> QED BY <1>2, <1>4, <2>1 DEF Makes
<1>5. CASE cycle = 2
  <2>1. /\ cycle' = 0 /\ flags' = flags /\ middle' = middle
        /\ hist' = h \/ Event(PacketEvent(b), h)
    BY <1>5, MouseByteIs
  <2>2. Packet(PacketEvent(b)) BY <1>2, <1>5, WholePacket
  <2>3. Makes(h) BY <2>1, <2>2, EventReads DEF Makes
  <2> QED BY <1>2, <1>5, <2>1, <2>3
<1> QED BY <1>1, <1>3, <1>4, <1>5

\* What taking a byte does to the streams, and what filling the buffer does not.
LEMMA TakenStream ==
  ASSUME Types, out # Empty, out' = Empty
  PROVE  /\ MoveStream' = mq' /\ KeyStream' = kq'
         /\ out.from = "mouse" => MoveStream # <<>> /\ Head(MoveStream) = out /\ Tail(MoveStream) = mq
         /\ out.from = "keyboard" => KeyStream # <<>> /\ Head(KeyStream) = out /\ Tail(KeyStream) = kq
         /\ out.from # "mouse" => MoveStream = mq
         /\ out.from # "keyboard" => KeyStream = kq
<1>1. out \in AnyByte /\ kq \in Seq(KeyBytes) /\ mq \in Seq(MouseBytes) BY DEF Types, Bytes
<1>2. out'.from = "nobody" BY From
<1>3. MoveStream' = mq' /\ KeyStream' = kq' BY <1>2 DEF MoveStream, KeyStream
<1>4. ASSUME out.from = "mouse"
      PROVE  MoveStream # <<>> /\ Head(MoveStream) = out /\ Tail(MoveStream) = mq
  <2>1. out \in MouseBytes BY <1>1, <1>4, FromIs
  <2>2. MoveStream = <<out>> \o mq BY <1>4 DEF MoveStream
  <2> QED BY <1>1, <2>1, <2>2, FirstIs
<1>5. ASSUME out.from = "keyboard"
      PROVE  KeyStream # <<>> /\ Head(KeyStream) = out /\ Tail(KeyStream) = kq
  <2>1. out \in KeyBytes BY <1>1, <1>5, FromIs
  <2>2. KeyStream = <<out>> \o kq BY <1>5 DEF KeyStream
  <2> QED BY <1>1, <2>1, <2>2, FirstIs
<1>6. out.from # "mouse" => MoveStream = mq BY DEF MoveStream
<1>7. out.from # "keyboard" => KeyStream = kq BY DEF KeyStream
<1> QED BY <1>3, <1>4, <1>5, <1>6, <1>7

LEMMA RejoinIs ==
  ASSUME NEW S, NEW s \in Seq(S), s # <<>>
  PROVE  <<Head(s)>> \o Tail(s) = s
<1> DEFINE b == Head(s)
           t == Tail(s)
<1>1. b \in S /\ t \in Seq(S) /\ Len(t) = Len(s) - 1 /\ \A i \in 1 .. Len(t) : t[i] = s[i + 1]
  BY HeadTailProperties
<1>2. Len(s) \in Nat /\ Len(s) > 0 BY EmptySeq
<1>3. b = s[1] BY <1>2
<1> HIDE DEF b, t
<1>4. <<b>> \in Seq(S) /\ Len(<<b>>) = 1 /\ <<b>>[1] = b BY <1>1
<1>5. /\ <<b>> \o t \in Seq(S) /\ Len(<<b>> \o t) = 1 + Len(t)
      /\ \A i \in 1 .. 1 + Len(t) : (<<b>> \o t)[i] = IF i <= 1 THEN <<b>>[i] ELSE t[i - 1]
  BY <1>1, <1>4, ConcatProperties
<1>6. \A i \in 1 .. Len(s) : (<<b>> \o t)[i] = s[i]
  <2> TAKE i \in 1 .. Len(s)
  <2>1. CASE i = 1 BY <1>1, <1>2, <1>3, <1>4, <1>5, <2>1
  <2>2. CASE i # 1
    <3>1. i - 1 \in 1 .. Len(t) /\ i \in 1 .. 1 + Len(t) BY <1>1, <1>2, <2>2
    <3>2. (<<b>> \o t)[i] = t[i - 1] BY <1>5, <2>2, <3>1
    <3> QED BY <1>1, <3>1, <3>2
  <2> QED BY <2>1, <2>2
<1>7. Len(<<b>> \o t) = Len(s) BY <1>1, <1>2, <1>5
<1>8. <<b>> \o t = s BY <1>5, <1>6, <1>7, SeqEqual
<1> QED BY <1>8 DEF b, t

LEMMA FillStream == Types /\ Fill => MoveStream' = MoveStream /\ KeyStream' = KeyStream
<1> SUFFICES ASSUME Types, Fill PROVE MoveStream' = MoveStream /\ KeyStream' = KeyStream
  OBVIOUS
<1>1. kq \in Seq(KeyBytes) /\ mq \in Seq(MouseBytes) BY DEF Types, Bytes
<1>2. MoveStream = mq /\ KeyStream = kq
  <2>1. out.from = "nobody" BY From DEF Fill
  <2> QED BY <2>1 DEF MoveStream, KeyStream
<1>3. CASE out' = CommandByte /\ kq' = kq /\ mq' = mq
  <2>1. out'.from = "controller" BY <1>3, From
  <2> QED BY <1>2, <1>3, <2>1 DEF MoveStream, KeyStream
<1>4. CASE kq # <<>> /\ out' = Head(kq) /\ kq' = Tail(kq) /\ mq' = mq
  <2>1. out'.from = "keyboard" BY <1>1, <1>4, From, HeadTailProperties
  <2>2. <<Head(kq)>> \o Tail(kq) = kq BY <1>1, <1>4, RejoinIs
  <2>3. MoveStream' = mq' /\ KeyStream' = <<out'>> \o kq' BY <2>1 DEF MoveStream, KeyStream
  <2> QED BY <1>2, <1>4, <2>2, <2>3
<1>5. CASE mq # <<>> /\ out' = Head(mq) /\ mq' = Tail(mq) /\ kq' = kq
  <2>1. out'.from = "mouse" BY <1>1, <1>5, From, HeadTailProperties
  <2>2. <<Head(mq)>> \o Tail(mq) = mq BY <1>1, <1>5, RejoinIs
  <2>3. KeyStream' = kq' /\ MoveStream' = <<out'>> \o mq' BY <2>1 DEF MoveStream, KeyStream
  <2> QED BY <1>2, <1>5, <2>2, <2>3
<1> QED BY <1>3, <1>4, <1>5 DEF Fill

\* The stream without the acknowledgement at its head.
Packed == IF AckDue THEN Tail(MoveStream) ELSE MoveStream

Early == {"keyboard", "aux", "cfg", "defaults"}

LEMMA MovesAre ==
  /\ Moves <=> /\ AckDue => MoveStream # <<>> /\ Head(MoveStream) = Ack("mouse") /\ cycle = 0
               /\ Packets(Packed, cycle, flags, middle)
               /\ ~streaming => Packed = <<>> /\ cycle = 0
               /\ streaming => "ps2 mouse" \in machine /\ stage \notin Early
  /\ Moves' <=> /\ AckDue' => MoveStream' # <<>> /\ Head(MoveStream') = Ack("mouse") /\ cycle' = 0
                /\ Packets(Packed', cycle', flags', middle')
                /\ ~streaming' => Packed' = <<>> /\ cycle' = 0
                /\ streaming' => "ps2 mouse" \in machine' /\ stage' \notin Early
BY DEF Moves, Packed, Early

LEMMA NoPackets == ASSUME NEW f, NEW m PROVE Packets(<<>>, 0, f, m)
BY DEF Packets

\* What neither sends, takes nor decodes a byte of the mouse.
LEMMA MovesSame ==
  ASSUME Moves, UNCHANGED <<machine, streaming, cycle, flags, middle>>, MoveStream' = MoveStream,
         AckDue' <=> AckDue, streaming => stage' \notin Early
  PROVE  Moves'
<1>1. Packed' = Packed BY DEF Packed
<1> QED BY <1>1, MovesAre

\* In the running system a byte is taken for what it is.
LEMMA DispatchMoves ==
  ASSUME Types, Moves, NEW h \in History, out # Empty, out' = Empty, Dispatch(IsAux(out), out, h),
         stage = "run", UNCHANGED <<machine, stage, mq, streaming>>
  PROVE  Moves' /\ Makes(h)
<1>1. ~AckDue /\ ~AckDue' BY DEF AckDue
<1>2. Packed = MoveStream /\ Packed' = MoveStream' BY <1>1 DEF Packed
<1>3. MoveStream' = mq BY TakenStream
<1>4. CASE IsAux(out)
  <2>1. MouseByte(out, h) BY <1>4 DEF Dispatch
  <2>2. MoveStream # <<>> /\ Head(MoveStream) = out /\ Tail(MoveStream) = mq
    BY <1>4, TakenStream DEF IsAux
  <2>3. Packets(MoveStream, cycle, flags, middle) BY <1>2, MovesAre
  <2>4. Packets(Tail(MoveStream), cycle', flags', middle') /\ Makes(h)
    BY <2>1, <2>2, <2>3, DecoderTakes
  <2>5. streaming BY <1>2, <2>2, MovesAre
  <2> QED BY <1>1, <1>2, <1>3, <2>2, <2>4, <2>5, MovesAre
<1>5. CASE ~IsAux(out)
  <2> DEFINE code == IF "code" \in DOMAIN out THEN out.code ELSE "mouse byte"
  <2>1. Scancode(code, h) /\ UNCHANGED <<cycle, flags, middle>> BY <1>5 DEF Dispatch
  <2> HIDE DEF code
  <2>2. Makes(h) BY <2>1, ScancodeReads DEF Makes
  <2>3. MoveStream' = MoveStream BY <1>3, <1>5, TakenStream DEF IsAux
  <2>4. streaming => stage' \notin Early BY MovesAre
  <2> QED BY <1>1, <2>1, <2>2, <2>3, <2>4, MovesSame
<1> QED BY <1>4, <1>5

LEMMA BootMoves ==
  ASSUME Types, Moves, Boot, Right
  PROVE  Moves' /\ Makes(hist)
<1>0. hist \in History /\ out \in AnyByte /\ mq \in Seq(MouseBytes) BY DEF Types, Bytes
<1>1. hist' = hist => Makes(hist) BY DEF Makes
<1>2. Ack("mouse") \in MouseBytes /\ Ack("mouse").from = "mouse" BY AcksTyped, From
<1>3. stage \in Early => ~streaming BY MovesAre
<1>4. CASE KeyboardInit
  <2>1. /\ UNCHANGED <<machine, streaming, out, mq, cycle, flags, middle, hist>>
        /\ stage = "keyboard" /\ stage' \in {"aux", "usb"}
    BY <1>4 DEF KeyboardInit, devices, decoder
  <2>2. MoveStream' = MoveStream /\ ~AckDue /\ ~AckDue' BY <2>1 DEF MoveStream, AckDue
  <2>3. ~streaming BY <1>3, <2>1 DEF Early
  <2> QED BY <1>1, <2>1, <2>2, <2>3, MovesSame
<1>5. CASE AuxOn
  <2>1. /\ UNCHANGED <<machine, streaming, out, mq, flags, middle, hist>> /\ cycle' = 0
        /\ stage = "aux" /\ stage' = "cfg"
    BY <1>5 DEF AuxOn
  <2>2. MoveStream' = MoveStream /\ ~AckDue /\ ~AckDue' BY <2>1 DEF MoveStream, AckDue
  <2>3. ~streaming BY <1>3, <2>1 DEF Early
  <2>4. cycle = 0 BY <2>3, MovesAre
  <2> QED BY <1>1, <2>1, <2>2, <2>3, <2>4, MovesSame
<1>6. CASE ReadConfig
  <2>1. /\ stage = "cfg" /\ out # Empty /\ out' = Empty
        /\ UNCHANGED <<machine, streaming>>
    BY <1>6 DEF ReadConfig, Taken
  <2>2. ~streaming /\ ~AckDue BY <1>3, <2>1 DEF Early, AckDue
  <2>3. MoveStream = <<>> /\ cycle = 0 BY <2>2, MovesAre DEF Packed
  <2>4. out.from # "mouse" BY <2>1, <2>3, TakenStream
  <2>5. ~IsAux(out) /\ out = CommandByte BY <1>6, <2>4 DEF IsAux, Right
  <2>6. /\ stage' = "defaults" /\ UNCHANGED <<cycle, flags, middle>>
        /\ mq' = IF "ps2 mouse" \in machine THEN Append(mq, Ack("mouse")) ELSE mq
        /\ hist' = hist
    BY <1>6, <2>5 DEF ReadConfig
  <2>7. mq = <<>> /\ MoveStream' = mq' BY <2>1, <2>3, <2>4, TakenStream
  <2>8. CASE "ps2 mouse" \in machine
    <3>1. mq' = <<Ack("mouse")>>
      <4>1. mq' = Append(mq, Ack("mouse")) BY <2>6, <2>8
      <4> QED BY <2>7, <4>1
    <3>2. AckDue' BY <2>1, <2>6, <2>8 DEF AckDue
    <3>3. Packed' = <<>> BY <2>7, <3>1, <3>2 DEF Packed
    <3>4. MoveStream' # <<>> /\ Head(MoveStream') = Ack("mouse") BY <2>7, <3>1
    <3> QED BY <1>1, <2>1, <2>2, <2>3, <2>6, <3>2, <3>3, <3>4, MovesAre, NoPackets
  <2>9. CASE "ps2 mouse" \notin machine
    <3>1. ~AckDue' /\ MoveStream' = <<>> BY <2>1, <2>6, <2>7, <2>9 DEF AckDue
    <3>2. Packed' = <<>> BY <3>1 DEF Packed
    <3> QED BY <1>1, <2>1, <2>2, <2>3, <2>6, <3>1, <3>2, MovesAre, NoPackets
  <2> QED BY <2>8, <2>9
<1>7. CASE ReadAck
  <2>1. /\ stage \in {"defaults", "enable"} /\ out # Empty /\ out' = Empty
        /\ UNCHANGED <<machine, cycle, flags, middle>>
    BY <1>7 DEF ReadAck, Taken
  <2>2. CASE IsAux(out)
    <3>1. MoveStream # <<>> /\ Head(MoveStream) = out /\ Tail(MoveStream) = mq /\ MoveStream' = mq'
      BY <2>1, <2>2, TakenStream DEF IsAux
    <3>2. "ps2 mouse" \in machine
      <4>1. "ps2 mouse" \notin machine => ~streaming /\ ~AckDue BY MovesAre DEF AckDue
      <4>2. "ps2 mouse" \notin machine => MoveStream = <<>> BY <4>1, MovesAre DEF Packed
      <4> QED BY <3>1, <4>2
    <3>3. AckDue BY <2>1, <3>2 DEF AckDue
    <3>4. out = Ack("mouse") /\ cycle = 0 /\ Packed = mq BY <3>1, <3>3, MovesAre DEF Packed
    <3>5. Packets(mq, cycle, flags, middle) BY <3>4, MovesAre
    <3>6. hist' = hist BY <1>7, <2>2 DEF ReadAck
    <3>7. CASE stage = "defaults"
      <4>1. stage' = "enable" /\ mq' = Append(mq, Ack("mouse")) /\ streaming' = TRUE
        BY <1>7, <2>2, <3>4, <3>7 DEF ReadAck
      <4>2. mq = <<>> BY <1>3, <3>4, <3>7, MovesAre DEF Early
      <4>3. MoveStream' = <<Ack("mouse")>> BY <3>1, <4>1, <4>2
      <4>4. AckDue' BY <2>1, <3>2, <4>1 DEF AckDue
      <4>5. Packed' = <<>> /\ MoveStream' # <<>> /\ Head(MoveStream') = Ack("mouse")
        BY <4>3, <4>4 DEF Packed
      <4>6. stage' \notin Early BY <4>1 DEF Early
      <4> QED BY <1>1, <2>1, <3>2, <3>4, <3>6, <4>1, <4>5, <4>6, MovesAre, NoPackets
    <3>8. CASE stage = "enable"
      <4>1. stage' = "rearm" /\ mq' = mq /\ streaming' = streaming
        BY <1>7, <2>2, <3>8 DEF ReadAck
      <4>2. ~AckDue' BY <4>1 DEF AckDue
      <4>3. Packed' = mq BY <3>1, <4>1, <4>2 DEF Packed
      <4>4. stage' \notin Early BY <4>1 DEF Early
      <4>5. ~streaming => mq = <<>> BY <3>4, MovesAre
      <4> QED BY <1>1, <2>1, <3>2, <3>4, <3>5, <3>6, <4>1, <4>2, <4>3, <4>4, <4>5, MovesAre
    <3> QED BY <2>1, <3>7, <3>8
  <2>3. CASE ~IsAux(out)
    <3>1. Scancode(out.code, hist) /\ UNCHANGED <<stage, mq, streaming>>
      BY <1>7, <2>3 DEF ReadAck
    <3>2. MoveStream' = MoveStream BY <2>1, <2>3, <3>1, TakenStream DEF IsAux
    <3>3. AckDue' <=> AckDue BY <2>1, <3>1 DEF AckDue
    <3>4. streaming => stage' \notin Early BY <3>1, MovesAre
    <3>5. Makes(hist) BY <1>0, <3>1, ScancodeReads DEF Makes
    <3> QED BY <2>1, <3>1, <3>2, <3>3, <3>4, <3>5, MovesSame
  <2> QED BY <2>2, <2>3
<1>8. CASE NoAck
  <2>1. /\ UNCHANGED <<machine, streaming, out, mq, cycle, flags, middle, hist>>
        /\ stage \in {"defaults", "enable"} /\ stage' = "rearm" /\ out = Empty /\ mq = <<>>
    BY <1>8 DEF NoAck, Quiet, devices, decoder
  <2>2. MoveStream = <<>> /\ MoveStream' = MoveStream
    <3>1. out.from = "nobody" BY <2>1, From
    <3> QED BY <2>1, <3>1 DEF MoveStream
  <2>3. ~AckDue /\ ~AckDue' BY <2>1, <2>2, MovesAre DEF AckDue
  <2>4. stage' \notin Early BY <2>1 DEF Early
  <2> QED BY <1>1, <2>1, <2>2, <2>3, <2>4, MovesSame
<1>9. CASE Rearm
  <2>1. /\ UNCHANGED <<machine, streaming, out, mq, cycle, flags, middle, hist>>
        /\ stage = "rearm" /\ stage' = "rearmcfg"
    BY <1>9 DEF Rearm, decoder
  <2>2. MoveStream' = MoveStream /\ ~AckDue /\ ~AckDue' BY <2>1 DEF MoveStream, AckDue
  <2>3. stage' \notin Early BY <2>1 DEF Early
  <2> QED BY <1>1, <2>1, <2>2, <2>3, MovesSame
<1>10. CASE RearmConfig
  <2>1. /\ UNCHANGED <<machine, streaming, mq, cycle, flags, middle>>
        /\ stage = "rearmcfg" /\ stage' = "rescan" /\ out # Empty /\ out' = Empty
    BY <1>10 DEF RearmConfig, Taken, decoder
  <2>2. out = CommandByte BY <1>10 DEF Right
  <2>3. hist' = hist BY <1>10, <2>2 DEF RearmConfig
  <2>4. MoveStream' = MoveStream BY <2>1, <2>2, From, TakenStream
  <2>5. ~AckDue /\ ~AckDue' BY <2>1 DEF AckDue
  <2>6. stage' \notin Early BY <2>1 DEF Early
  <2> QED BY <1>1, <2>1, <2>3, <2>4, <2>5, <2>6, MovesSame
<1>11. CASE RearmAck
  <2>1. /\ UNCHANGED <<machine, streaming, mq, cycle, flags, middle>>
        /\ stage = "rescan" /\ stage' \in {"rescan", "usb"} /\ out # Empty /\ out' = Empty
    BY <1>11 DEF RearmAck, Taken, decoder
  <2>2. out \in {Ack("keyboard"), CommandByte} BY <1>11 DEF Right
  <2>3. hist' = hist BY <1>11, <2>2 DEF RearmAck
  <2>4. out.from # "mouse" BY <2>2, From, AcksTyped
  <2>5. MoveStream' = MoveStream BY <2>1, <2>4, TakenStream
  <2>6. ~AckDue /\ ~AckDue' BY <2>1 DEF AckDue
  <2>7. stage' \notin Early BY <2>1 DEF Early
  <2> QED BY <1>1, <2>1, <2>3, <2>5, <2>6, <2>7, MovesSame
<1>12. CASE UsbInit
  <2>1. /\ UNCHANGED <<machine, streaming, out, mq, cycle, flags, middle, hist>>
        /\ stage = "usb" /\ stage' = "run"
    BY <1>12 DEF UsbInit, devices, decoder
  <2>2. MoveStream' = MoveStream /\ ~AckDue /\ ~AckDue' BY <2>1 DEF MoveStream, AckDue
  <2>3. stage' \notin Early BY <2>1 DEF Early
  <2> QED BY <1>1, <2>1, <2>2, <2>3, MovesSame
<1> QED BY <1>4, <1>5, <1>6, <1>7, <1>8, <1>9, <1>10, <1>11, <1>12 DEF Boot

\* Whatever a step makes, it keeps the mouse and its decoder in step.
LEMMA MovesStep ==
  ASSUME Types, Moves, Next, Right
  PROVE  Moves' /\ Makes(hist)
<1>0. hist \in History BY DEF Types
<1> DEFINE Frame == UNCHANGED <<machine, stage, streaming, out, mq, cycle, flags, middle>>
<1>1. Frame => Moves'
  <2>1. Frame => MoveStream' = MoveStream /\ (AckDue' <=> AckDue) BY DEF MoveStream, AckDue
  <2>2. streaming => stage \notin Early BY MovesAre
  <2> QED BY <2>1, <2>2, MovesSame
<1>2. hist' = hist => Makes(hist) BY DEF Makes
<1>3. hist'.made = hist.made => Makes(hist) BY DEF Makes
<1>4. CASE PressKey
  <2>1. Frame BY <1>4 DEF PressKey, decoder
  <2>2. \A c : Typed(c).made = hist.made BY <1>0 DEF Typed, History
  <2>3. /\ [hist EXCEPT !.keys = @ + 1, !.down = ~@].made = hist.made
        /\ [hist EXCEPT !.keys = @ + 1].made = hist.made
    BY <1>0 DEF History
  <2>4. hist'.made = hist.made BY <1>4, <2>2, <2>3, PressKeyIs
  <2> QED BY <1>1, <1>3, <2>1, <2>4
<1>5. CASE MoveMouse
  <2>1. hist.moves \in Nat /\ mq \in Seq(MouseBytes) /\ out \in AnyByte
    BY <1>0, HistoryIs DEF Types, Bytes
  <2>2. PICK over \in BOOLEAN, s \in BOOLEAN : mq' = mq \o Packet3(hist.moves, over, s)
    BY <1>5, MoveMouseIs
  <2> DEFINE p == Packet3(hist.moves, over, s)
  <2>3. p \in Seq(MouseBytes) /\ p \in Seq(MoveBytes) BY <2>1, Packet3Is
  <2>4. /\ UNCHANGED <<machine, stage, streaming, out, cycle, flags, middle>> /\ streaming
        /\ hist' = Moved
    BY <1>5 DEF MoveMouse, decoder
  <2> HIDE DEF p
  <2>5. MoveStream' = MoveStream \o p
    <3>1. mq' = mq \o p BY <2>2 DEF p
    <3>2. CASE out.from = "mouse"
      <4>1. out \in MouseBytes BY <2>1, <3>2, FromIs
      <4>2. <<out>> \in Seq(MouseBytes) BY <4>1
      <4>3. (<<out>> \o mq) \o p = <<out>> \o (mq \o p) BY <2>1, <2>3, <4>2, ConcatAssociative
      <4>4. MoveStream = <<out>> \o mq /\ MoveStream' = <<out>> \o mq'
        BY <2>4, <3>2 DEF MoveStream
      <4> QED BY <3>1, <4>3, <4>4
    <3>3. CASE out.from # "mouse" BY <2>4, <3>1, <3>3 DEF MoveStream
    <3> QED BY <3>2, <3>3
  <2>6. AckDue' <=> AckDue BY <2>4 DEF AckDue
  <2>7. AckDue => MoveStream' # <<>> /\ Head(MoveStream') = Ack("mouse") /\ cycle' = 0
    <3>1. AckDue => MoveStream # <<>> /\ Head(MoveStream) = Ack("mouse") /\ cycle = 0
      BY MovesAre
    <3> QED BY <2>3, <2>4, <2>5, <3>1, LaterIs, StreamTyped
  <2>8. Packed' = Packed \o p
    <3>1. AckDue => Tail(MoveStream \o p) = Tail(MoveStream) \o p
      <4>1. AckDue => MoveStream # <<>> BY MovesAre
      <4> QED BY <2>3, <4>1, LaterIs, StreamTyped
    <3> QED BY <2>5, <2>6, <3>1 DEF Packed
  <2>9. Packets(Packed', cycle', flags', middle')
    <3>1. cycle \in 0 .. 2 BY DEF Types, TypeOK
    <3>2. Packets(Packed, cycle, flags, middle) BY MovesAre
    <3>3. Packets(Packed \o p, cycle, flags, middle) BY <2>1, <3>1, <3>2, PacketsGrow DEF p
    <3> QED BY <2>4, <2>8, <3>3
  <2>10. Makes(hist)
    <3>1. hist'.made = hist.made BY <1>0, <2>4 DEF Moved, History
    <3> QED BY <1>3, <3>1
  <2>11. "ps2 mouse" \in machine' /\ stage' \notin Early BY <2>4, MovesAre
  <2> QED BY <2>4, <2>6, <2>7, <2>9, <2>10, <2>11, MovesAre
<1>6. CASE Fill
  <2>1. UNCHANGED <<machine, stage, streaming, cycle, flags, middle, hist>>
    BY <1>6 DEF Fill, decoder
  <2>2. MoveStream' = MoveStream /\ (AckDue' <=> AckDue) BY <1>6, <2>1, FillStream DEF AckDue
  <2>3. streaming => stage' \notin Early BY <2>1, MovesAre
  <2> QED BY <1>2, <2>1, <2>2, <2>3, MovesSame
<1>7. CASE Boot BY <1>7, BootMoves
<1>8. CASE Service
  <2>1. /\ stage = "run" /\ out # Empty /\ out' = Empty /\ Dispatch(IsAux(out), out, hist)
        /\ UNCHANGED <<machine, stage, mq, streaming>>
    BY <1>8 DEF Service, Running, Taken
  <2> QED BY <1>0, <2>1, DispatchMoves
<1>9. CASE ForeData
  <2>1. /\ ~Misread /\ fore # "none" /\ out' = Empty /\ Dispatch(fore = "aux", ForeByte, hist)
        /\ UNCHANGED <<machine, stage, mq, streaming>>
    BY <1>9, ForeDataIs DEF Right
  <2>2. out # Empty /\ ForeByte = out BY <2>1 DEF Misread, ForeByte
  <2>3. stage = "run" BY <2>1 DEF Types
  <2> DEFINE aux == fore = "aux"
  <2>4. IsAux(out) = aux BY <2>1, <2>2 DEF Misread
  <2>5. Dispatch(aux, out, hist) BY <2>1, <2>2
  <2> HIDE DEF aux
  <2>6. Dispatch(IsAux(out), out, hist) BY <2>4, <2>5
  <2> QED BY <1>0, <2>1, <2>2, <2>3, <2>6, DispatchMoves
<1>10. CASE ForeStatus \/ GetRead \/ ReadEvent
  <2>1. Frame /\ hist' = hist BY <1>10 DEF ForeStatus, GetRead, ReadEvent, devices, decoder
  <2> QED BY <1>1, <1>2, <2>1
<1>11. CASE GetAdvance \/ GetcharCall
  <2>1. Frame /\ \E c : hist' = Got(c) BY <1>11 DEF GetAdvance, GetcharCall, devices, decoder
  <2>2. \A c : Got(c).made = hist.made BY <1>0 DEF Got, History
  <2> QED BY <1>1, <1>3, <2>1, <2>2
<1>12. CASE UsbWait \/ UsbRetry \/ UsbRetried
  <2>1. Frame /\ hist' = hist BY <1>12 DEF UsbWait, UsbRetry, UsbRetried, devices, decoder
  <2> QED BY <1>1, <1>2, <2>1
<1>13. CASE UsbReport
  <2>1. Frame BY <1>13, UsbReportIs DEF devices
  <2>2. HeardKeys.made = hist.made BY <1>0 DEF HeardKeys, History
  <2>3. \A c \in UsbKeys : Typed(c) \in History /\ Typed(c).made = hist.made
    <3>1. \A c \in UsbKeys : c \in Letters BY DEF UsbKeys, Letters
    <3>2. \A c \in UsbKeys : Typed(c) \in History BY <1>0, <3>1, LettersKept DEF Typed
    <3>3. \A c : Typed(c).made = hist.made BY <1>0 DEF Typed, History
    <3> QED BY <3>2, <3>3
  <2>4. \A c \in UsbKeys : Pushed(Typed(c), c).hist.made = Typed(c).made
    BY <2>3 DEF Pushed, History
  <2>5. hist'.made = hist.made BY <1>13, <2>2, <2>3, <2>4, UsbReportIs
  <2> QED BY <1>1, <1>3, <2>1, <2>5
<1>14. CASE UsbMove
  <2>1. Frame BY <1>14, UsbMoveIs DEF devices, decoder
  <2>2. Moved \in History /\ Moved.made = hist.made
    BY <1>0, HistoryKept DEF Moved, History
  <2>3. Packet(UsbEvent)
    <3>1. UsbEvent.from = "usb mouse" BY DEF UsbEvent
    <3> QED BY <3>1 DEF Packet
  <2>4. Event(UsbEvent, Moved) \/ hist' = hist BY <1>14, UsbMoveIs
  <2>5. Makes(hist) BY <2>2, <2>3, <2>4, EventReads DEF Makes
  <2> QED BY <1>1, <2>1, <2>5
<1> QED BY <1>4, <1>5, <1>6, <1>7, <1>8, <1>9, <1>10, <1>11, <1>12, <1>13, <1>14
        DEF Next, Get, Usb

LEMMA WholeStep == Types /\ PacketsWhole /\ Makes(hist) => PacketsWhole'
<1> SUFFICES ASSUME Types, PacketsWhole, Makes(hist)
             PROVE  \A k \in DOMAIN hist'.made : Packet(hist'.made[k])
  BY DEF PacketsWhole, Packet
<1>1. hist.made \in Seq(MouseEvents) /\ hist \in History BY HistoryIs DEF Types
<1>2. CASE hist'.made = hist.made BY <1>2 DEF PacketsWhole
<1>3. CASE \E e : Packet(e) /\ hist'.made = Append(hist.made, e)
  <2>1. PICK e : Packet(e) /\ hist'.made = Append(hist.made, e) BY <1>3
  <2> DEFINE n == Len(hist.made)
             t == hist'.made
  <2>2. /\ n \in Nat /\ DOMAIN hist.made = 1 .. n
        /\ DOMAIN t = 1 .. n + 1
        /\ \A k \in 1 .. n + 1 : t[k] = IF k = n + 1 THEN e ELSE hist.made[k]
    BY <1>1, <2>1, LenProperties
  <2>3. \A k \in 1 .. n : Packet(hist.made[k]) BY <2>2 DEF PacketsWhole
  <2> HIDE DEF n, t
  <2>4. \A k \in 1 .. n + 1 : Packet(t[k])
    <3> TAKE k \in 1 .. n + 1
    <3>1. CASE k = n + 1 BY <2>1, <2>2, <3>1
    <3>2. CASE k # n + 1
      <4>1. k \in 1 .. n /\ t[k] = hist.made[k] BY <2>2, <3>2
      <4> QED BY <2>3, <4>1
    <3> QED BY <3>1, <3>2
  <2> QED BY <2>2, <2>4 DEF t
<1> QED BY <1>2, <1>3 DEF Makes

LEMMA MovesInit == Init => Moves /\ PacketsWhole
<1> SUFFICES ASSUME Init PROVE Moves /\ PacketsWhole
  OBVIOUS
<1>1. /\ stage = "keyboard" /\ out = Empty /\ mq = <<>> /\ streaming = FALSE /\ cycle = 0
      /\ hist.made = <<>>
  BY DEF Init
<1>2. MoveStream = <<>>
  <2>1. out.from = "nobody" BY <1>1, From
  <2> QED BY <1>1, <2>1 DEF MoveStream
<1>3. ~AckDue BY <1>1 DEF AckDue
<1>4. Packed = <<>> BY <1>2, <1>3 DEF Packed
<1>5. Moves BY <1>1, <1>3, <1>4, MovesAre, NoPackets
<1> QED BY <1>1, <1>5 DEF PacketsWhole

\* As long as no byte was taken for another device's or thrown away, every event of the
\* PS/2 mouse is made of the three bytes of one packet: mouse_init and the interrupts
\* share the decoder and the buffer with the keyboard and never lose their place in the
\* stream (mouse_handle_ps2_byte, keyboard_ps2_service).
THEOREM PacketsAreWhole == Spec => []WholeUnlessMisread
<1> DEFINE Whole == Clean => Moves /\ PacketsWhole
<1>1. Init => Types /\ Whole BY TypesInit, MovesInit
<1>2. Types /\ Whole /\ [Next]_vars => Types' /\ Whole'
  <2> SUFFICES ASSUME Types, Whole, [Next]_vars, Clean' PROVE Types' /\ Moves' /\ PacketsWhole'
    BY TypesStep
  <2>1. Types' BY TypesStep
  <2>2. Moves /\ PacketsWhole /\ (Next => Right) BY CleanBefore
  <2>3. CASE Next
    <3>1. Moves' /\ Makes(hist) BY <2>2, <2>3, MovesStep
    <3> QED BY <2>1, <2>2, <3>1, WholeStep
  <2>4. CASE UNCHANGED vars
    <3>1. UNCHANGED <<machine, stage, streaming, out, mq, cycle, flags, middle, hist>>
      BY <2>4 DEF vars, devices, decoder
    <3>2. MoveStream' = MoveStream /\ (AckDue' <=> AckDue) BY <3>1 DEF MoveStream, AckDue
    <3>3. Moves'
      <4>1. streaming => stage' \notin Early BY <2>2, <3>1, MovesAre
      <4> QED BY <2>2, <3>1, <3>2, <4>1, MovesSame
    <3>4. PacketsWhole' BY <2>2, <3>1 DEF PacketsWhole, Packet
    <3> QED BY <2>1, <3>3, <3>4
  <2> QED BY <2>3, <2>4
<1>3. Whole => WholeUnlessMisread BY DEF WholeUnlessMisread, Clean
<1> QED BY <1>1, <1>2, <1>3, PTL DEF Spec

-----------------------------------------------------------------------------
(***************************************************************************)
(* The bytes of the keyboard.                                              *)
(***************************************************************************)
LEMMA AtIs ==
  ASSUME NEW p \in BOOLEAN, NEW s \in BOOLEAN, NEW n \in Nat
  PROVE  /\ At(p, s, n) \in State
         /\ At(p, s, n).prefix = p /\ At(p, s, n).shift = s /\ At(p, s, n).n = n
BY DEF At, State

LEMMA StateIs ==
  ASSUME NEW t \in State
  PROVE  t.prefix \in BOOLEAN /\ t.shift \in BOOLEAN /\ t.n \in Nat /\ t = At(t.prefix, t.shift, t.n)
BY DEF At, State

\* A byte more is decoded from where the others led,
LEMMA ChainLater ==
  ASSUME NEW b \in Seq(KeyBytes), NEW c \in KeyBytes, NEW typed, NEW a, NEW z, NEW y \in State,
         Chain(b, typed, a, z), Decodes(z, c.code, y, typed)
  PROVE  Chain(Append(b, c), typed, a, y)
<1> DEFINE l == Len(b)
           d == Append(b, c)
<1>1. PICK f \in [1 .. l + 1 -> State] :
        /\ f[1] = a /\ f[l + 1] = z
        /\ \A k \in 1 .. l : Decodes(f[k], b[k].code, f[k + 1], typed)
  BY DEF Chain
<1>2. l \in Nat BY LenProperties
<1>3. /\ Len(d) = l + 1 /\ \A k \in 1 .. l : d[k] = b[k]
      /\ d[l + 1] = c
  BY AppendProperties
<1> DEFINE g == [k \in 1 .. l + 2 |-> IF k <= l + 1 THEN f[k] ELSE y]
<1> HIDE DEF d
<1>4. g \in [1 .. l + 2 -> State]
  <2>1. \A k \in 1 .. l + 2 : k <= l + 1 => k \in 1 .. l + 1 BY <1>2
  <2> QED BY <2>1
<1>5. /\ \A k \in 1 .. l + 1 : g[k] = f[k]
      /\ g[l + 2] = y
  BY <1>2
<1> HIDE DEF g
<1>6. g[1] = a /\ g[l + 2] = y BY <1>1, <1>2, <1>5
<1>7. \A k \in 1 .. l + 1 : Decodes(g[k], d[k].code, g[k + 1], typed)
  <2> TAKE k \in 1 .. l + 1
  <2>1. CASE k = l + 1
    <3>1. g[k] = z /\ d[k] = c /\ k + 1 = l + 2 BY <1>1, <1>2, <1>3, <1>5, <2>1
    <3> QED BY <1>5, <3>1
  <2>2. CASE k # l + 1
    <3>1. k \in 1 .. l /\ k + 1 \in 1 .. l + 1 BY <1>2, <2>2
    <3>2. g[k] = f[k] /\ g[k + 1] = f[k + 1] /\ d[k] = b[k] BY <1>3, <1>5, <3>1
    <3> QED BY <1>1, <3>1, <3>2
  <2> QED BY <2>1, <2>2
<1>8. l + 2 = (l + 1) + 1 BY <1>2
<1>9. Chain(d, typed, a, y)
  <2>1. g \in [1 .. Len(d) + 1 -> State] /\ g[1] = a /\ g[Len(d) + 1] = y
    BY <1>3, <1>4, <1>6, <1>8
  <2>2. \A k \in 1 .. Len(d) : Decodes(g[k], d[k].code, g[k + 1], typed) BY <1>3, <1>7
  <2> QED BY <2>1, <2>2 DEF Chain
<1> QED BY <1>9 DEF d

\* the first byte leads to where the others are decoded from,
LEMMA ChainFirst ==
  ASSUME NEW b \in Seq(KeyBytes), b # <<>>, NEW typed, NEW a, NEW z, Chain(b, typed, a, z)
  PROVE  \E t \in State : Decodes(a, Head(b).code, t, typed) /\ Chain(Tail(b), typed, t, z)
<1> DEFINE l == Len(b)
           d == Tail(b)
<1>1. PICK f \in [1 .. l + 1 -> State] :
        /\ f[1] = a /\ f[l + 1] = z
        /\ \A k \in 1 .. l : Decodes(f[k], b[k].code, f[k + 1], typed)
  BY DEF Chain
<1>2. l \in Nat /\ l > 0 BY EmptySeq
<1>3. /\ d \in Seq(KeyBytes) /\ Len(d) = l - 1 /\ \A k \in 1 .. Len(d) : d[k] = b[k + 1]
      /\ Head(b) = b[1]
  BY <1>2, HeadTailProperties
<1> DEFINE g == [k \in 1 .. l |-> f[k + 1]]
<1> HIDE DEF d
<1>4. g \in [1 .. l -> State]
  <2>1. \A k \in 1 .. l : k + 1 \in 1 .. l + 1 BY <1>2
  <2> QED BY <2>1
<1>5. \A k \in 1 .. l : g[k] = f[k + 1] OBVIOUS
<1> HIDE DEF g
<1>6. g[l] = z /\ g[1] = f[2] BY <1>1, <1>2, <1>5
<1>7. f[2] \in State /\ Decodes(a, Head(b).code, f[2], typed)
  <2>1. 2 \in 1 .. l + 1 /\ 1 \in 1 .. l /\ 1 + 1 = 2 BY <1>2
  <2> QED BY <1>1, <1>3, <2>1
<1>8. \A k \in 1 .. l - 1 : Decodes(g[k], d[k].code, g[k + 1], typed)
  <2> TAKE k \in 1 .. l - 1
  <2>1. k \in 1 .. l /\ k + 1 \in 1 .. l /\ k \in 1 .. Len(d) BY <1>2, <1>3
  <2>2. g[k] = f[k + 1] /\ g[k + 1] = f[k + 1 + 1] /\ d[k] = b[k + 1] BY <1>3, <1>5, <2>1
  <2> QED BY <1>1, <2>1, <2>2
<1>9. Chain(d, typed, f[2], z)
  <2>1. Len(d) + 1 = l BY <1>2, <1>3
  <2>2. g \in [1 .. Len(d) + 1 -> State] /\ g[1] = f[2] /\ g[Len(d) + 1] = z
    BY <1>4, <1>6, <2>1
  <2>3. \A k \in 1 .. Len(d) : Decodes(g[k], d[k].code, g[k + 1], typed) BY <1>3, <1>8
  <2> QED BY <2>2, <2>3 DEF Chain
<1> QED BY <1>7, <1>9 DEF d

\* and what is typed later does not matter.
LEMMA ChainTyped ==
  ASSUME NEW b \in Seq(KeyBytes), NEW typed \in Seq(Letters), NEW c \in Letters, NEW a, NEW z,
         Chain(b, typed, a, z)
  PROVE  Chain(b, Append(typed, c), a, z)
<1> DEFINE ty == Append(typed, c)
<1>1. PICK f \in [1 .. Len(b) + 1 -> State] :
        /\ f[1] = a /\ f[Len(b) + 1] = z
        /\ \A k \in 1 .. Len(b) : Decodes(f[k], b[k].code, f[k + 1], typed)
  BY DEF Chain
<1>2. /\ Len(typed) \in Nat /\ Len(ty) = Len(typed) + 1
      /\ \A k \in 1 .. Len(typed) : ty[k] = typed[k]
  BY AppendProperties, LenProperties
<1> HIDE DEF ty
<1>3. \A s \in State : \A code, t : Decodes(s, code, t, typed) => Decodes(s, code, t, ty)
  <2> TAKE s \in State
  <2> TAKE code, t
  <2>1. s.n \in Nat BY StateIs
  <2>2. s.n < Len(typed) => s.n < Len(ty) /\ s.n + 1 \in 1 .. Len(typed) BY <1>2, <2>1
  <2>3. s.n < Len(typed) => ty[s.n + 1] = typed[s.n + 1] BY <1>2, <2>2
  <2> QED BY <2>2, <2>3 DEF Decodes
<1>4. \A k \in 1 .. Len(b) : Decodes(f[k], b[k].code, f[k + 1], ty)
  <2> TAKE k \in 1 .. Len(b)
  <2>1. Len(b) \in Nat BY LenProperties
  <2>2. f[k] \in State BY <2>1
  <2> QED BY <1>1, <1>3, <2>2
<1> QED BY <1>1, <1>4 DEF Chain, ty

LEMMA ChainNone == ASSUME NEW typed, NEW a \in State PROVE Chain(<<>>, typed, a, a)
<1> DEFINE f == [k \in 1 .. 1 |-> a]
<1>1. f \in [1 .. Len(<<>>) + 1 -> State] /\ f[1] = a /\ f[Len(<<>>) + 1] = a
  BY EmptySeq
<1>2. \A k \in 1 .. Len(<<>>) : FALSE BY EmptySeq
<1> HIDE DEF f
<1> QED BY <1>1, <1>2 DEF Chain

LEMMA KeyCodes ==
  /\ \A c \in {"a", "a up", "shift", "shift up", "E0"} : Key(c) \in KeyBytes /\ Key(c).code = c
                                                         /\ ~IsAck(Key(c))
  /\ IsAck(Ack("keyboard")) /\ Ack("keyboard").code = "ack"
BY KeysTyped DEF Key, Ack, IsAck

LEMMA AcksLater ==
  ASSUME NEW b \in Seq(KeyBytes), NEW c \in KeyBytes
  PROVE  /\ NoAcks(b) /\ ~IsAck(c) => NoAcks(Append(b, c))
         /\ OneAt(b) /\ ~IsAck(c) => OneAt(Append(b, c))
         /\ NoAcks(b) => OneAt(Append(b, c))
         /\ AllAcks(b) /\ IsAck(c) => AllAcks(Append(b, c))
<1> DEFINE d == Append(b, c)
           l == Len(b)
<1>1. /\ Len(d) = l + 1 /\ \A k \in 1 .. l : d[k] = b[k]
      /\ d[l + 1] = c
  BY AppendProperties
<1>2. l \in Nat BY LenProperties
<1> HIDE DEF d, l
<1>3. \A k \in 1 .. Len(d) : k \in 1 .. l \/ k = l + 1 BY <1>1, <1>2
<1>4. NoAcks(b) /\ ~IsAck(c) => NoAcks(d) BY <1>1, <1>3 DEF NoAcks, l
<1>5. OneAt(b) /\ ~IsAck(c) => OneAt(d) BY <1>1, <1>3 DEF OneAt, l
<1>6. NoAcks(b) => OneAt(d) BY <1>1, <1>3 DEF NoAcks, OneAt, l
<1>7. AllAcks(b) /\ IsAck(c) => AllAcks(d) BY <1>1, <1>3 DEF AllAcks, l
<1> QED BY <1>4, <1>5, <1>6, <1>7 DEF d

LEMMA AcksTail ==
  ASSUME NEW b \in Seq(KeyBytes), b # <<>>
  PROVE  /\ NoAcks(b) => NoAcks(Tail(b)) /\ ~IsAck(Head(b))
         /\ OneAt(b) => OneAt(Tail(b)) /\ (IsAck(Head(b)) => NoAcks(Tail(b)))
         /\ AllAcks(b) => AllAcks(Tail(b)) /\ IsAck(Head(b))
<1> DEFINE d == Tail(b)
           l == Len(b)
<1>1. l \in Nat /\ l > 0 BY EmptySeq
<1>2. Len(d) = l - 1 /\ (\A k \in 1 .. Len(d) : d[k] = b[k + 1]) /\ Head(b) = b[1]
  BY <1>1, HeadTailProperties
<1> HIDE DEF d, l
<1>3. \A k \in 1 .. Len(d) : k + 1 \in 1 .. l /\ k + 1 # 1 /\ d[k] = b[k + 1] BY <1>1, <1>2
<1>4. 1 \in 1 .. l BY <1>1
<1>5. NoAcks(b) => NoAcks(d) /\ ~IsAck(Head(b)) BY <1>2, <1>3, <1>4 DEF NoAcks, l
<1>6. AllAcks(b) => AllAcks(d) /\ IsAck(Head(b)) BY <1>2, <1>3, <1>4 DEF AllAcks, l
<1>7. OneAt(b) => OneAt(d) /\ (IsAck(Head(b)) => NoAcks(d))
  <2> SUFFICES ASSUME OneAt(b) PROVE OneAt(d) /\ (IsAck(Head(b)) => NoAcks(d))
    OBVIOUS
  <2>1. \A j, k \in 1 .. l : IsAck(b[j]) /\ IsAck(b[k]) => j = k BY DEF OneAt, l
  <2>2. ASSUME NEW j \in 1 .. Len(d), NEW k \in 1 .. Len(d), IsAck(d[j]), IsAck(d[k])
        PROVE  j = k
    <3>1. j + 1 \in 1 .. l /\ k + 1 \in 1 .. l /\ d[j] = b[j + 1] /\ d[k] = b[k + 1]
      BY <1>3
    <3>2. j + 1 = k + 1 BY <2>1, <2>2, <3>1
    <3> QED BY <3>2
  <2>3. ASSUME IsAck(Head(b)), NEW k \in 1 .. Len(d), IsAck(d[k])
        PROVE  FALSE
    <3>1. k + 1 \in 1 .. l /\ k + 1 # 1 /\ d[k] = b[k + 1] BY <1>3
    <3> QED BY <1>2, <1>4, <2>1, <2>3, <3>1
  <2> QED BY <2>2, <2>3 DEF OneAt, NoAcks
<1> QED BY <1>5, <1>6, <1>7 DEF d

\* A person lengthens the stream.
LEMMA KeyStreamLater ==
  ASSUME Types, out' = out
  PROVE  /\ \A c \in KeyBytes : kq' = Append(kq, c) => KeyStream' = Append(KeyStream, c)
         /\ \A c, d \in KeyBytes : kq' = kq \o <<c, d>>
              => KeyStream' = Append(Append(KeyStream, c), d)
<1>1. out \in AnyByte /\ kq \in Seq(KeyBytes) BY DEF Types, Bytes
<1>2. \A c \in KeyBytes : kq' = Append(kq, c) => KeyStream' = Append(KeyStream, c)
  <2> SUFFICES ASSUME NEW c \in KeyBytes, kq' = Append(kq, c)
               PROVE  KeyStream' = Append(KeyStream, c)
    OBVIOUS
  <2>1. CASE out.from = "keyboard"
    <3>1. out \in KeyBytes BY <1>1, <2>1, FromIs
    <3>2. <<out>> \in Seq(KeyBytes) /\ <<c>> \in Seq(KeyBytes) BY <3>1
    <3>3. KeyStream = <<out>> \o kq /\ KeyStream' = <<out>> \o Append(kq, c)
      BY <2>1 DEF KeyStream
    <3>4. Append(kq, c) = kq \o <<c>> BY <1>1, AppendIsConcat
    <3>5. (<<out>> \o kq) \o <<c>> = <<out>> \o (kq \o <<c>>)
      BY <1>1, <3>2, ConcatAssociative
    <3>6. Append(KeyStream, c) = KeyStream \o <<c>> BY StreamTyped, AppendIsConcat
    <3> QED BY <3>3, <3>4, <3>5, <3>6
  <2>2. CASE out.from # "keyboard" BY <2>2 DEF KeyStream
  <2> QED BY <2>1, <2>2
<1>3. \A c, d \in KeyBytes : kq \o <<c, d>> = Append(Append(kq, c), d)
  <2> TAKE c, d \in KeyBytes
  <2>1. <<c>> \in Seq(KeyBytes) /\ <<d>> \in Seq(KeyBytes) /\ <<c>> \o <<d>> = <<c, d>>
    <3> DEFINE s == <<c>> \o <<d>>
    <3>1. <<c>> \in Seq(KeyBytes) /\ Len(<<c>>) = 1 /\ <<c>>[1] = c OBVIOUS
    <3>2. <<d>> \in Seq(KeyBytes) /\ Len(<<d>>) = 1 /\ <<d>>[1] = d OBVIOUS
    <3>3. /\ s \in Seq(KeyBytes) /\ Len(s) = 1 + 1
          /\ \A i \in 1 .. 1 + 1 : s[i] = IF i <= 1 THEN <<c>>[i] ELSE <<d>>[i - 1]
      BY <3>1, <3>2, ConcatProperties
    <3>4. s[1] = c /\ s[2] = d BY <3>1, <3>2, <3>3
    <3>5. <<c, d>> \in Seq(KeyBytes) /\ Len(<<c, d>>) = 2 /\ <<c, d>>[1] = c /\ <<c, d>>[2] = d
      OBVIOUS
    <3> HIDE DEF s
    <3>6. \A i \in 1 .. Len(s) : s[i] = <<c, d>>[i]
      <4>1. \A i \in 1 .. Len(s) : i = 1 \/ i = 2 BY <3>3
      <4> QED BY <3>4, <3>5, <4>1
    <3>7. s = <<c, d>> BY <3>3, <3>5, <3>6, SeqEqual
    <3> QED BY <3>1, <3>2, <3>7 DEF s
  <2>2. (kq \o <<c>>) \o <<d>> = kq \o (<<c>> \o <<d>>) BY <1>1, <2>1, ConcatAssociative
  <2>3. Append(kq, c) = kq \o <<c>> /\ Append(kq, c) \in Seq(KeyBytes)
    BY <1>1, AppendIsConcat, AppendProperties
  <2>4. Append(Append(kq, c), d) = Append(kq, c) \o <<d>> BY <2>3, AppendIsConcat
  <2> QED BY <2>1, <2>2, <2>3, <2>4
<1>4. \A c, d \in KeyBytes : kq' = kq \o <<c, d>> => KeyStream' = Append(Append(KeyStream, c), d)
  <2> SUFFICES ASSUME NEW c \in KeyBytes, NEW d \in KeyBytes, kq' = kq \o <<c, d>>
               PROVE  KeyStream' = Append(Append(KeyStream, c), d)
    OBVIOUS
  <2>1. kq' = Append(Append(kq, c), d) BY <1>3
  <2>2. CASE out.from = "keyboard"
    <3>1. out \in KeyBytes BY <1>1, <2>2, FromIs
    <3>2. <<out>> \in Seq(KeyBytes) /\ <<c>> \in Seq(KeyBytes) /\ <<d>> \in Seq(KeyBytes) BY <3>1
    <3> DEFINE e == Append(kq, c)
               s == KeyStream
    <3>3. e = kq \o <<c>> /\ e \in Seq(KeyBytes) BY <1>1, AppendIsConcat, AppendProperties
    <3>4. s \in Seq(KeyBytes) /\ s = <<out>> \o kq BY <2>2, StreamTyped DEF KeyStream
    <3>5. Append(s, c) = s \o <<c>> /\ Append(s, c) \in Seq(KeyBytes)
      BY <3>4, AppendIsConcat, AppendProperties
    <3>6. s \o <<c>> = <<out>> \o e BY <1>1, <3>2, <3>3, <3>4, ConcatAssociative
    <3>7. KeyStream' = <<out>> \o Append(e, d) BY <2>1, <2>2 DEF KeyStream
    <3> HIDE DEF e, s
    <3>8. Append(e, d) = e \o <<d>> BY <3>3, AppendIsConcat
    <3>9. (<<out>> \o e) \o <<d>> = <<out>> \o (e \o <<d>>) BY <3>2, <3>3, ConcatAssociative
    <3>10. Append(Append(s, c), d) = Append(s, c) \o <<d>> BY <3>5, AppendIsConcat
    <3> QED BY <3>5, <3>6, <3>7, <3>8, <3>9, <3>10 DEF s
  <2>3. CASE out.from # "keyboard"
    <3>1. KeyStream = kq /\ KeyStream' = kq' BY <2>3 DEF KeyStream
    <3> QED BY <2>1, <3>1
  <2> QED BY <2>2, <2>3
<1> QED BY <1>2, <1>4

\* What types, pushes and drops nothing.
Calm(h) == /\ hist'.pushed = h.pushed /\ hist'.typed = h.typed /\ hist'.down = h.down
           /\ hist'.full = 0 => h.full = 0

LEMMA KeysSame ==
  ASSUME KeysInv, Calm(hist), UNCHANGED <<machine, prefix, shift>>, KeyStream' = KeyStream,
         stage' = stage \/ stage # "rescan"
  PROVE  KeysInv'
<1>1. OneAck' BY DEF KeysInv, OneAck
<1>2. Begun => Begun' BY DEF Begun, Calm
<1>3. Keystrokes => Keystrokes' BY DEF Keystrokes, Calm
<1>4. hist'.full = 0 => hist.full = 0 /\ hist'.pushed = hist.pushed /\ hist'.typed = hist.typed
  BY DEF Calm
<1>5. Decoded' BY <1>2, <1>3, <1>4 DEF KeysInv, Decoded
<1> QED BY <1>1, <1>5 DEF KeysInv

LEMMA TypedIs ==
  ASSUME Types, NEW c \in Letters
  PROVE  /\ Typed(c).pushed = hist.pushed /\ Typed(c).down = hist.down /\ Typed(c).full = hist.full
         /\ Typed(c).typed = Append(hist.typed, c)
         /\ Typed(c) \in History
<1>1. hist \in History BY DEF Types
<1>2. Typed(c) \in History BY <1>1, LettersKept DEF Typed
<1> QED BY <1>1, <1>2 DEF Typed, History

\* A key that is pressed is typed, and its bytes are decoded to it.
LEMMA PressKeys == Types /\ KeysInv /\ PressKey => KeysInv'
<1> SUFFICES ASSUME Types, KeysInv, PressKey PROVE KeysInv'
  OBVIOUS
<1>0. /\ hist \in History /\ hist.typed \in Seq(Letters) /\ hist.pushed \in Seq(Letters)
      /\ hist.down \in BOOLEAN /\ prefix \in BOOLEAN /\ shift \in BOOLEAN
      /\ KeyStream \in Seq(KeyBytes)
  BY HistoryIs, StreamTyped DEF Types
<1>1. /\ "ps2 keyboard" \in machine /\ UNCHANGED <<machine, stage, out, prefix, shift>>
  BY DEF PressKey, decoder
<1> DEFINE a == At(prefix, shift, Len(hist.pushed))
           n == Len(hist.typed)
           z == At(FALSE, hist.down, n)
<1>2. n \in Nat /\ Len(hist.pushed) \in Nat BY <1>0, LenProperties
<1>3. a \in State /\ z \in State /\ z.prefix = FALSE /\ z.shift = hist.down /\ z.n = n
  <2>1. a \in State BY <1>0, <1>2, AtIs
  <2> HIDE DEF n
  <2>2. z \in State /\ z.prefix = FALSE /\ z.shift = hist.down /\ z.n = n BY <1>0, <1>2, AtIs, ZenonT(60)
  <2> QED BY <2>1, <2>2
<1>4. hist.full = 0 => Begun /\ Chain(KeyStream, hist.typed, a, z)
  BY <1>1 DEF KeysInv, Decoded, Keystrokes
<1>5. Decoded' <=>
        (hist'.full = 0 =>
           Begun' /\ Chain(KeyStream', hist'.typed, At(prefix', shift', Len(hist'.pushed)),
                           At(FALSE, hist'.down, Len(hist'.typed))))
  BY <1>1 DEF Decoded, Keystrokes
<1> HIDE DEF a, z, n
<1>6. CASE /\ kq' = kq \o <<Key("a"), Key("a up")>>
           /\ hist' = IF hist.down THEN Typed("A") ELSE Typed("a")
  <2> DEFINE c == IF hist.down THEN "A" ELSE "a"
             ty == Append(hist.typed, c)
             y == At(FALSE, hist.down, n + 1)
             s == Append(KeyStream, Key("a"))
  <2>1. c \in Letters /\ hist' = Typed(c) BY <1>6 DEF Letters
  <2>2. /\ Key("a") \in KeyBytes /\ Key("a").code = "a" /\ ~IsAck(Key("a"))
        /\ Key("a up") \in KeyBytes /\ Key("a up").code = "a up" /\ ~IsAck(Key("a up"))
    BY KeyCodes
  <2>3. c = IF z.shift THEN "A" ELSE "a" BY <1>3
  <2>4. /\ ty \in Seq(Letters) /\ Len(ty) = n + 1 /\ ty[n + 1] = c
        /\ \A k \in 1 .. n : ty[k] = hist.typed[k]
    BY <1>0, <2>1, AppendProperties DEF n
  <2>5. y \in State /\ y.prefix = FALSE /\ y.shift = hist.down /\ y.n = n + 1
    <3> DEFINE i == n + 1
    <3>1. i \in Nat BY <1>2
    <3> HIDE DEF i
    <3>2. At(FALSE, hist.down, i) \in State /\ At(FALSE, hist.down, i).prefix = FALSE
          /\ At(FALSE, hist.down, i).shift = hist.down /\ At(FALSE, hist.down, i).n = i
      BY <1>0, <3>1, AtIs, ZenonT(60)
    <3> QED BY <3>2 DEF i
  <2>6. s \in Seq(KeyBytes) BY <1>0, <2>2, AppendProperties
  <2>7. KeyStream' = Append(s, Key("a up")) BY <1>1, <1>6, <2>2, KeyStreamLater
  <2>8. /\ hist'.pushed = hist.pushed /\ hist'.down = hist.down /\ hist'.full = hist.full
        /\ hist'.typed = ty
    BY <2>1, TypedIs
  <2> HIDE DEF c, ty, y, s
  <2>9. OneAck'
    <3>1. OneAt(s) /\ (stage # "rescan" => NoAcks(s))
      BY <1>0, <2>2, AcksLater DEF s, KeysInv, OneAck
    <3> QED BY <1>1, <2>2, <2>6, <2>7, <3>1, AcksLater DEF OneAck
  <2>10. hist.full = 0 => Chain(KeyStream', ty, a, y)
    <3>1. hist.full = 0 => Chain(KeyStream, ty, a, z)
      BY <1>0, <1>4, <2>1, ChainTyped DEF ty
    <3>2. Decodes(z, "a", y, ty)
      <4>1. z.n < Len(ty) /\ y.n = z.n + 1 /\ ty[z.n + 1] = c BY <1>2, <1>3, <2>4, <2>5
      <4>2. y.prefix = ("a" = "E0") /\ y.shift = z.shift BY <1>3, <2>5
      <4>3. ~z.prefix /\ "a" # "ack" /\ "a" # "shift" /\ "a" # "shift up" BY <1>3
      <4>4. ty[z.n + 1] = IF z.shift THEN "A" ELSE "a" BY <2>3, <4>1
      <4> QED BY <4>1, <4>2, <4>3, <4>4 DEF Decodes
    <3>3. hist.full = 0 => Chain(s, ty, a, y)
      BY <1>0, <2>2, <2>5, <3>1, <3>2, ChainLater DEF s
    <3>4. Decodes(y, "a up", y, ty) BY <2>5 DEF Decodes
    <3> QED BY <2>2, <2>5, <2>6, <2>7, <3>3, <3>4, ChainLater
  <2>11. hist.full = 0 => Begun'
    <3> SUFFICES ASSUME hist.full = 0 PROVE Begun'
      OBVIOUS
    <3> DEFINE l == Len(hist.pushed)
    <3>1. l <= n /\ \A k \in 1 .. l : hist.pushed[k] = hist.typed[k] BY <1>4 DEF Begun, n
    <3>2. \A k \in 1 .. l : k \in 1 .. n BY <1>2, <3>1
    <3>3. l <= Len(ty) /\ \A k \in 1 .. l : hist.pushed[k] = ty[k] BY <1>2, <2>4, <3>1, <3>2
    <3> QED BY <2>8, <3>3 DEF Begun
  <2>12. Decoded'
    <3>1. At(prefix', shift', Len(hist'.pushed)) = a BY <1>1, <2>8 DEF a
    <3>2. At(FALSE, hist'.down, Len(hist'.typed)) = y BY <2>4, <2>8 DEF y
    <3> QED BY <1>5, <2>8, <2>10, <2>11, <3>1, <3>2
  <2> QED BY <2>9, <2>12 DEF KeysInv
<1>7. CASE /\ kq' = IF hist.down THEN Append(kq, Key("shift up")) ELSE Append(kq, Key("shift"))
           /\ hist' = [hist EXCEPT !.keys = @ + 1, !.down = ~@]
  <2> DEFINE y == At(FALSE, (~hist.down), n)
  <2>1. PICK c \in {"shift", "shift up"} :
          kq' = Append(kq, Key(c)) /\ (hist.down => c = "shift up") /\ (~hist.down => c = "shift")
    BY <1>7
  <2>2. Key(c) \in KeyBytes /\ Key(c).code = c /\ ~IsAck(Key(c)) BY KeyCodes
  <2>3. KeyStream' = Append(KeyStream, Key(c)) BY <1>1, <2>1, <2>2, KeyStreamLater
  <2>4. /\ hist'.pushed = hist.pushed /\ hist'.typed = hist.typed /\ hist'.full = hist.full
        /\ hist'.down = ~hist.down
    BY <1>0, <1>7 DEF History
  <2>5. y \in State /\ y.prefix = FALSE /\ y.shift = (~hist.down) /\ y.n = n
    <3>1. (~hist.down) \in BOOLEAN OBVIOUS
    <3> QED BY <1>2, <3>1, AtIs
  <2> HIDE DEF y
  <2>6. OneAck' BY <1>0, <1>1, <2>2, <2>3, AcksLater DEF KeysInv, OneAck
  <2>7. Decodes(z, c, y, hist.typed) BY <1>0, <1>3, <2>1, <2>5 DEF Decodes
  <2>8. hist.full = 0 => Chain(KeyStream', hist.typed, a, y)
    BY <1>0, <1>4, <2>2, <2>3, <2>5, <2>7, ChainLater
  <2>9. Begun => Begun' BY <2>4 DEF Begun
  <2>10. Decoded'
    <3>1. At(prefix', shift', Len(hist'.pushed)) = a BY <1>1, <2>4 DEF a
    <3>2. At(FALSE, hist'.down, Len(hist'.typed)) = y BY <2>4 DEF y, n
    <3> QED BY <1>4, <1>5, <2>4, <2>8, <2>9, <3>1, <3>2
  <2> QED BY <2>6, <2>10 DEF KeysInv
<1>8. CASE /\ kq' = kq \o <<Key("E0"), Key("a")>>
           /\ hist' = [hist EXCEPT !.keys = @ + 1]
  <2> DEFINE y == At(TRUE, hist.down, n)
             s == Append(KeyStream, Key("E0"))
  <2>1. /\ Key("E0") \in KeyBytes /\ Key("E0").code = "E0" /\ ~IsAck(Key("E0"))
        /\ Key("a") \in KeyBytes /\ Key("a").code = "a" /\ ~IsAck(Key("a"))
    BY KeyCodes
  <2>2. KeyStream' = Append(s, Key("a")) BY <1>1, <1>8, <2>1, KeyStreamLater
  <2>3. /\ hist'.pushed = hist.pushed /\ hist'.typed = hist.typed /\ hist'.full = hist.full
        /\ hist'.down = hist.down
    BY <1>0, <1>8 DEF History
  <2>4. y \in State /\ y.prefix = TRUE /\ y.shift = hist.down /\ y.n = n BY <1>0, <1>2, AtIs, ZenonT(60)
  <2>5. s \in Seq(KeyBytes) BY <1>0, <2>1, AppendProperties
  <2> HIDE DEF y, s
  <2>6. OneAck'
    <3>1. OneAt(s) /\ (stage # "rescan" => NoAcks(s))
      BY <1>0, <2>1, AcksLater DEF s, KeysInv, OneAck
    <3> QED BY <1>1, <2>1, <2>2, <2>5, <3>1, AcksLater DEF OneAck
  <2>7. hist.full = 0 => Chain(KeyStream', hist.typed, a, z)
    <3>1. Decodes(z, "E0", y, hist.typed) BY <1>3, <2>4 DEF Decodes
    <3>2. hist.full = 0 => Chain(s, hist.typed, a, y)
      BY <1>0, <1>4, <2>1, <2>4, <3>1, ChainLater DEF s
    <3>3. Decodes(y, "a", z, hist.typed) BY <1>3, <2>4 DEF Decodes
    <3> QED BY <1>3, <2>1, <2>2, <2>5, <3>2, <3>3, ChainLater
  <2>8. Begun => Begun' BY <2>3 DEF Begun
  <2>9. Decoded'
    <3>1. At(prefix', shift', Len(hist'.pushed)) = a BY <1>1, <2>3 DEF a
    <3>2. At(FALSE, hist'.down, Len(hist'.typed)) = z BY <2>3 DEF z, n
    <3> QED BY <1>4, <1>5, <2>3, <2>7, <2>8, <3>1, <3>2
  <2> QED BY <2>6, <2>9 DEF KeysInv
<1> QED BY <1>6, <1>7, <1>8, PressKeyIs

LEMMA PushedIs ==
  ASSUME NEW h \in History, NEW c,
         LET p == Pushed(h, c) IN chars' = p.chars /\ cwrite' = p.cwrite /\ hist' = p.hist
  PROVE  /\ hist'.typed = h.typed /\ hist'.down = h.down
         /\ hist'.full = 0 => h.full = 0 /\ hist'.pushed = Append(h.pushed, c)
<1>0. h.full \in Nat BY HistoryIs
<1>1. CASE Next1(cwrite) = cread
  <2>1. hist' = [h EXCEPT !.full = @ + 1] BY <1>1 DEF Pushed
  <2>2. hist'.full = h.full + 1 /\ hist'.typed = h.typed /\ hist'.down = h.down
    BY <2>1 DEF History
  <2> QED BY <1>0, <2>2
<1>2. CASE Next1(cwrite) # cread
  <2>1. hist' = [h EXCEPT !.pushed = Append(@, c)] BY <1>2 DEF Pushed
  <2> QED BY <2>1 DEF History
<1> QED BY <1>1, <1>2

\* A byte of the keyboard that is decoded is the head of its stream.
LEMMA TakeKey ==
  ASSUME Types, KeysInv, out \in KeyBytes, out' = Empty, Scancode(out.code, hist),
         UNCHANGED <<machine, stage, kq>>, stage # "rescan"
  PROVE  KeysInv'
<1>0. /\ hist \in History /\ hist.typed \in Seq(Letters) /\ hist.pushed \in Seq(Letters)
      /\ prefix \in BOOLEAN /\ shift \in BOOLEAN /\ hist.down \in BOOLEAN
      /\ KeyStream \in Seq(KeyBytes) /\ kq \in Seq(KeyBytes)
  BY HistoryIs, StreamTyped DEF Types, Bytes
<1>1. /\ KeyStream # <<>> /\ Head(KeyStream) = out /\ Tail(KeyStream) = kq /\ KeyStream' = kq
  <2>1. out.from = "keyboard" /\ out # Empty BY From
  <2> QED BY <2>1, TakenStream
<1>2. /\ OneAck'
      /\ ~IsAck(out) /\ ~AllAcks(KeyStream)
  <2>1. OneAt(KeyStream) /\ NoAcks(KeyStream) BY DEF KeysInv, OneAck
  <2>2. OneAt(kq) /\ NoAcks(kq) /\ ~IsAck(out) /\ (AllAcks(KeyStream) => IsAck(out))
    BY <1>0, <1>1, <2>1, AcksTail
  <2> QED BY <1>1, <2>2 DEF OneAck
<1> DEFINE l == Len(hist.pushed)
           n == Len(hist.typed)
           c == IF shift THEN "A" ELSE "a"
           a == At(prefix, shift, l)
           z == At(FALSE, hist.down, n)
           code == out.code
<1>3. l \in Nat /\ n \in Nat BY <1>0, LenProperties
<1>4. a.prefix = prefix /\ a.shift = shift /\ a.n = l BY <1>0, <1>3, AtIs
<1>5. /\ prefix' = (code = "E0")
      /\ shift' = IF ~prefix /\ code = "shift" THEN TRUE
                  ELSE IF ~prefix /\ code = "shift up" THEN FALSE ELSE shift
  BY DEF Scancode
<1>6. code # "ack" BY <1>2 DEF IsAck
<1>7. /\ ~prefix /\ code = "a" => LET p == Pushed(hist, c) IN
                                    chars' = p.chars /\ cwrite' = p.cwrite /\ hist' = p.hist
      /\ ~(~prefix /\ code = "a") => hist' = hist
  BY DEF Scancode
<1>8. /\ hist'.typed = hist.typed /\ hist'.down = hist.down
      /\ hist'.full = 0 =>
           /\ hist.full = 0
           /\ hist'.pushed = IF ~prefix /\ code = "a" THEN Append(hist.pushed, c) ELSE hist.pushed
  <2> HIDE DEF c, code
  <2>1. CASE ~prefix /\ code = "a" BY <1>0, <1>7, <2>1, PushedIs
  <2>2. CASE ~(~prefix /\ code = "a") BY <1>7, <2>2
  <2> QED BY <2>1, <2>2
<1> HIDE DEF a, z, l, n, c, code
<1>9. ASSUME hist'.full = 0
      PROVE  Begun' /\ "ps2 keyboard" \in machine' /\ Keystrokes'
  <2>1. Begun /\ "ps2 keyboard" \in machine /\ Chain(KeyStream, hist.typed, a, z)
    BY <1>2, <1>8, <1>9 DEF KeysInv, Decoded, Keystrokes, a, z, l, n
  <2>2. PICK t \in State : Decodes(a, code, t, hist.typed) /\ Chain(kq, hist.typed, t, z)
    BY <1>0, <1>1, <2>1, ChainFirst DEF code
  <2>3. /\ t.prefix = prefix' /\ t.shift = shift'
        /\ ~prefix /\ code = "a" => t.n = l + 1 /\ l < n /\ hist.typed[l + 1] = c
        /\ ~(~prefix /\ code = "a") => t.n = l
    BY <1>4, <1>5, <1>6, <2>2 DEF Decodes, c, n
  <2>4. Begun' /\ Len(hist'.pushed) = t.n
    <3>1. l <= n /\ \A k \in 1 .. l : hist.pushed[k] = hist.typed[k] BY <2>1 DEF Begun, l, n
    <3>2. CASE ~prefix /\ code = "a"
      <4> DEFINE q == Append(hist.pushed, c)
      <4>1. c \in Letters BY DEF c, Letters
      <4>2. /\ Len(q) = l + 1 /\ q[l + 1] = c
            /\ \A k \in 1 .. l : q[k] = hist.pushed[k]
        BY <1>0, <4>1, AppendProperties DEF l
      <4>3. hist'.pushed = q BY <1>8, <1>9, <3>2
      <4> HIDE DEF q
      <4>4. \A k \in 1 .. l + 1 : q[k] = hist.typed[k]
        <5> TAKE k \in 1 .. l + 1
        <5>1. CASE k = l + 1 BY <2>3, <3>2, <4>2, <5>1
        <5>2. CASE k # l + 1
          <6>1. k \in 1 .. l BY <1>3, <5>2
          <6> QED BY <3>1, <4>2, <6>1
        <5> QED BY <5>1, <5>2
      <4>5. l + 1 <= n BY <1>3, <2>3, <3>2
      <4> QED BY <1>8, <2>3, <3>2, <4>2, <4>3, <4>4, <4>5 DEF Begun, n
    <3>3. CASE ~(~prefix /\ code = "a")
      <4>1. hist'.pushed = hist.pushed BY <1>8, <1>9, <3>3
      <4> QED BY <1>8, <2>1, <2>3, <3>3, <4>1 DEF Begun, l
    <3> QED BY <3>2, <3>3
  <2>5. t = At(prefix', shift', Len(hist'.pushed)) BY <2>3, <2>4, StateIs
  <2>6. z = At(FALSE, hist'.down, Len(hist'.typed)) BY <1>8 DEF z, n
  <2>7. Keystrokes' BY <1>1, <1>8, <2>2, <2>5, <2>6 DEF Keystrokes
  <2> QED BY <2>1, <2>4, <2>7
<1>10. Decoded' BY <1>9 DEF Decoded
<1> QED BY <1>2, <1>10 DEF KeysInv

LEMMA EventCalm ==
  ASSUME NEW h \in History, NEW e, Event(e, h) PROVE Calm(h)
<1>1. hist' = h \/ hist' = [h EXCEPT !.full = @ + 1] \/ hist' = [h EXCEPT !.made = Append(@, e)]
  BY DEF Event
<1>2. h.full \in Nat BY HistoryIs
<1>3. CASE hist' = h BY <1>3 DEF Calm
<1>4. CASE hist' = [h EXCEPT !.full = @ + 1]
  <2>1. /\ hist'.pushed = h.pushed /\ hist'.typed = h.typed /\ hist'.down = h.down
        /\ hist'.full = h.full + 1
    BY <1>4 DEF History
  <2> QED BY <1>2, <2>1 DEF Calm
<1>5. CASE hist' = [h EXCEPT !.made = Append(@, e)]
  <2>1. /\ hist'.pushed = h.pushed /\ hist'.typed = h.typed /\ hist'.down = h.down
        /\ hist'.full = h.full
    BY <1>5 DEF History
  <2> QED BY <2>1 DEF Calm
<1> QED BY <1>1, <1>3, <1>4, <1>5

LEMMA MouseByteCalm ==
  ASSUME Types, NEW b, MouseByte(b, hist) PROVE Calm(hist)
<1>1. cycle \in 0 .. 2 /\ hist \in History BY DEF Types, TypeOK
<1>2. Event(PacketEvent(b), hist) => Calm(hist) BY <1>1, EventCalm
<1>3. hist' = hist => Calm(hist) BY DEF Calm
<1> QED BY <1>1, <1>2, <1>3, MouseByteIs

\* In the running system a byte is taken for what it is.
LEMMA DispatchKeys ==
  ASSUME Types, KeysInv, Asked, out # Empty, out' = Empty, Dispatch(IsAux(out), out, hist),
         stage = "run", UNCHANGED <<machine, stage, kq>>
  PROVE  KeysInv'
<1>1. out \in AnyByte BY DEF Types, Bytes
<1>2. CASE IsAux(out)
  <2>1. MouseByte(out, hist) /\ UNCHANGED <<prefix, shift>> BY <1>2 DEF Dispatch
  <2>2. out.from # "keyboard" BY <1>2 DEF IsAux
  <2>3. KeyStream' = KeyStream BY <2>2, TakenStream
  <2>4. Calm(hist) BY <2>1, MouseByteCalm
  <2> QED BY <2>1, <2>3, <2>4, KeysSame
<1>3. CASE ~IsAux(out)
  <2>1. out # CommandByte BY DEF Asked
  <2>2. out \in KeyBytes BY <1>1, <1>3, <2>1, FromIs DEF AnyByte, IsAux
  <2>3. "code" \in DOMAIN out BY <2>2 DEF KeyBytes
  <2>4. Scancode(out.code, hist) BY <1>3, <2>3 DEF Dispatch
  <2> QED BY <2>2, <2>4, TakeKey
<1> QED BY <1>2, <1>3

\* The controller's command byte is read where it is asked for.
LEMMA AskedStep == Types /\ Asked /\ Next /\ Right => Asked'
<1> SUFFICES ASSUME Types, Asked, Next, Right PROVE Asked'
  OBVIOUS
<1>1. CommandByte # Empty /\ Ack("keyboard") # CommandByte
  <2>1. Ack("keyboard").from = "keyboard" BY AcksTyped, From
  <2> QED BY <2>1, From
<1>2. UNCHANGED <<stage, answer, out>> => Asked' BY DEF Asked
<1>3. ASSUME out' = Empty, answer' = answer, stage' = stage \/ ~answer
      PROVE  Asked'
  BY <1>1, <1>3 DEF Asked
<1>4. CASE Fill
  <2>1. stage' = stage BY <1>4 DEF Fill
  <2>2. answer /\ out' = CommandByte /\ answer' = FALSE => Asked' BY <2>1 DEF Asked
  <2>3. ASSUME ~answer, answer' = answer, out' # CommandByte PROVE Asked' BY <2>3 DEF Asked
  <2>4. kq \in Seq(KeyBytes) /\ mq \in Seq(MouseBytes) BY DEF Types, Bytes
  <2>5. kq # <<>> => Head(kq) # CommandByte
    <3>1. kq # <<>> => Head(kq).from = "keyboard" BY <2>4, HeadTailProperties, From
    <3> QED BY <3>1, From
  <2>6. mq # <<>> => Head(mq) # CommandByte
    <3>1. mq # <<>> => Head(mq).from = "mouse" BY <2>4, HeadTailProperties, From
    <3> QED BY <3>1, From
  <2> QED BY <1>4, <2>2, <2>3, <2>5, <2>6 DEF Fill
<1>5. CASE Boot
  <2>1. CASE KeyboardInit
    <3>1. stage = "keyboard" /\ answer' = answer /\ out' = out BY <2>1 DEF KeyboardInit, devices
    <3> QED BY <3>1 DEF Asked
  <2>2. CASE AuxOn
    <3>1. stage = "aux" /\ stage' = "cfg" /\ out' = out BY <2>2 DEF AuxOn
    <3> QED BY <3>1 DEF Asked
  <2>3. CASE ReadConfig
    <3>1. out' = Empty /\ answer' = answer BY <2>3 DEF ReadConfig, Taken
    <3>2. IsAux(out) => stage' = stage BY <2>3 DEF ReadConfig
    <3>3. ~IsAux(out) => ~answer BY <2>3 DEF Right, Asked
    <3> QED BY <1>3, <3>1, <3>2, <3>3
  <2>4. CASE ReadAck
    <3>1. /\ out' = Empty /\ answer' = answer /\ stage \in {"defaults", "enable"}
      BY <2>4 DEF ReadAck, Taken
    <3>2. ~answer BY <3>1 DEF Asked
    <3> QED BY <1>3, <3>1, <3>2
  <2>5. CASE NoAck
    <3>1. out = Empty /\ ~answer /\ out' = out /\ answer' = answer BY <2>5 DEF NoAck, Quiet, devices
    <3> QED BY <1>3, <3>1
  <2>6. CASE Rearm
    <3>1. stage = "rearm" /\ stage' = "rearmcfg" /\ out' = out BY <2>6 DEF Rearm
    <3> QED BY <3>1 DEF Asked
  <2>7. CASE RearmConfig
    <3>1. out' = Empty /\ answer' = answer BY <2>7 DEF RearmConfig, Taken
    <3>2. ~answer BY <2>7 DEF Right, Asked
    <3> QED BY <1>3, <3>1, <3>2
  <2>8. CASE RearmAck
    <3>1. out' = Empty /\ answer' = answer /\ stage = "rescan" BY <2>8 DEF RearmAck, Taken
    <3>2. ~answer BY <3>1 DEF Asked
    <3> QED BY <1>3, <3>1, <3>2
  <2>9. CASE UsbInit
    <3>1. stage = "usb" /\ answer' = answer /\ out' = out BY <2>9 DEF UsbInit, devices
    <3> QED BY <3>1 DEF Asked
  <2> QED BY <1>5, <2>1, <2>2, <2>3, <2>4, <2>5, <2>6, <2>7, <2>8, <2>9 DEF Boot
<1>6. CASE Service
  <2>1. out' = Empty /\ answer' = answer /\ stage' = stage BY <1>6 DEF Service, Taken
  <2> QED BY <1>3, <2>1
<1>7. CASE ForeData
  <2>1. out' = Empty /\ answer' = answer /\ stage' = stage BY <1>7, ForeDataIs
  <2> QED BY <1>3, <2>1
<1>8. PressKey => UNCHANGED <<stage, answer, out>> BY DEF PressKey
<1>9. MoveMouse => UNCHANGED <<stage, answer, out>> BY DEF MoveMouse
<1>10. ForeStatus \/ Get \/ GetcharCall \/ ReadEvent => UNCHANGED <<stage, answer, out>>
  BY DEF ForeStatus, Get, GetRead, GetAdvance, GetcharCall, ReadEvent, devices
<1>11. Usb => UNCHANGED <<stage, answer, out>>
  BY UsbReportIs, UsbMoveIs DEF Usb, UsbWait, UsbRetry, UsbRetried, devices
<1> QED BY <1>2, <1>4, <1>5, <1>6, <1>7, <1>8, <1>9, <1>10, <1>11 DEF Next

\* The boot decodes what was typed early, and asks the keyboard for an acknowledgement.
LEMMA BootKeys ==
  ASSUME Types, KeysInv, Asked, Boot, Right
  PROVE  KeysInv'
<1>0. /\ out \in AnyByte /\ kq \in Seq(KeyBytes) /\ KeyStream \in Seq(KeyBytes)
      /\ hist \in History /\ hist.typed \in Seq(Letters) /\ hist.pushed \in Seq(Letters)
      /\ prefix \in BOOLEAN /\ shift \in BOOLEAN /\ hist.down \in BOOLEAN
  BY HistoryIs, StreamTyped DEF Types, Bytes
<1>1. hist' = hist => Calm(hist) BY DEF Calm
<1>2. /\ CommandByte.from # "keyboard"
      /\ Ack("keyboard") \in KeyBytes /\ Ack("keyboard").from = "keyboard"
      /\ IsAck(Ack("keyboard"))
  BY From, AcksTyped, KeyCodes
<1>3. CASE KeyboardInit \/ NoAck \/ UsbInit
  <2>1. /\ UNCHANGED <<machine, prefix, shift, out, kq, hist>>
        /\ stage # "rescan"
    BY <1>3 DEF KeyboardInit, NoAck, UsbInit, devices, decoder
  <2>2. KeyStream' = KeyStream BY <2>1 DEF KeyStream
  <2> QED BY <1>1, <2>1, <2>2, KeysSame
<1>4. CASE AuxOn \/ Rearm
  <2>1. /\ UNCHANGED <<machine, prefix, shift, out, kq, hist>>
        /\ stage # "rescan"
    BY <1>4 DEF AuxOn, Rearm, decoder
  <2>2. KeyStream' = KeyStream BY <2>1 DEF KeyStream
  <2> QED BY <1>1, <2>1, <2>2, KeysSame
<1>5. CASE ReadConfig
  <2>1. /\ UNCHANGED <<machine, prefix, shift, kq>> /\ stage # "rescan"
        /\ out # Empty /\ out' = Empty
    BY <1>5 DEF ReadConfig, Taken
  <2>2. out.from # "keyboard" BY <1>2, <1>5 DEF Right, IsAux
  <2>3. KeyStream' = KeyStream BY <2>1, <2>2, TakenStream
  <2>4. IsAux(out) => MouseByte(out, hist) BY <1>5 DEF ReadConfig
  <2>5. ~IsAux(out) => hist' = hist BY <1>5 DEF ReadConfig, Right
  <2>6. Calm(hist) BY <1>1, <2>4, <2>5, MouseByteCalm
  <2> QED BY <2>1, <2>3, <2>6, KeysSame
<1>6. CASE ReadAck
  <2>1. /\ UNCHANGED <<machine, kq>> /\ stage \in {"defaults", "enable"}
        /\ out # Empty /\ out' = Empty
    BY <1>6 DEF ReadAck, Taken
  <2>2. CASE IsAux(out)
    <3>1. UNCHANGED <<prefix, shift, hist>> BY <1>6, <2>2 DEF ReadAck
    <3>2. KeyStream' = KeyStream BY <2>1, <2>2, TakenStream DEF IsAux
    <3> QED BY <1>1, <2>1, <3>1, <3>2, KeysSame
  <2>3. CASE ~IsAux(out)
    <3>1. Scancode(out.code, hist) /\ stage' = stage BY <1>6, <2>3 DEF ReadAck
    <3>2. out # CommandByte BY <2>1 DEF Asked
    <3>3. out \in KeyBytes BY <1>0, <2>1, <2>3, <3>2, FromIs DEF AnyByte, IsAux
    <3> QED BY <2>1, <3>1, <3>3, TakeKey
  <2> QED BY <2>2, <2>3
<1> DEFINE n == Len(hist.typed)
           a == At(prefix, shift, Len(hist.pushed))
           z == At(FALSE, hist.down, n)
<1>7. CASE RearmConfig
  <2>1. /\ UNCHANGED <<machine, prefix, shift>> /\ stage = "rearmcfg" /\ stage' = "rescan"
        /\ out # Empty /\ out' = Empty /\ kq' = Append(kq, Ack("keyboard"))
    BY <1>7 DEF RearmConfig, Taken, decoder
  <2>2. out = CommandByte /\ hist' = hist BY <1>7 DEF Right, RearmConfig
  <2>3. KeyStream = kq /\ KeyStream' = Append(KeyStream, Ack("keyboard"))
    BY <1>2, <2>1, <2>2, TakenStream
  <2>4. OneAck' BY <1>0, <1>2, <2>1, <2>3, AcksLater DEF KeysInv, OneAck
  <2>5. AllAcks(KeyStream) => AllAcks(KeyStream') BY <1>0, <1>2, <2>3, AcksLater
  <2>6. Keystrokes => Keystrokes'
    <3>1. n \in Nat BY <1>0, LenProperties
    <3> HIDE DEF n
    <3>2. z \in State BY <1>0, <3>1, AtIs
    <3>3. Decodes(z, "ack", z, hist.typed) BY DEF Decodes
    <3>4. Chain(KeyStream, hist.typed, a, z) => Chain(KeyStream', hist.typed, a, z)
      <4> HIDE DEF a, z
      <4>1. Ack("keyboard").code = "ack" BY KeyCodes
      <4> QED BY <1>0, <1>2, <2>3, <3>2, <3>3, <4>1, ChainLater
    <3> QED BY <2>1, <2>2, <3>4 DEF Keystrokes, n
  <2>7. Begun => Begun' BY <2>2 DEF Begun
  <2>8. Decoded' BY <2>1, <2>2, <2>5, <2>6, <2>7 DEF KeysInv, Decoded
  <2> QED BY <2>4, <2>8 DEF KeysInv
<1>8. CASE RearmAck
  <2>1. /\ UNCHANGED <<machine, prefix, shift, kq>> /\ stage = "rescan"
        /\ out # Empty /\ out' = Empty
        /\ stage' = IF out = Ack("keyboard") THEN "usb" ELSE stage
    BY <1>8 DEF RearmAck, Taken, decoder
  <2>2. out \in {Ack("keyboard"), CommandByte} BY <1>8 DEF Right
  <2>3. hist' = hist BY <1>8, <2>2 DEF RearmAck
  <2>4. CASE out = Ack("keyboard")
    <3>1. KeyStream # <<>> /\ Head(KeyStream) = out /\ Tail(KeyStream) = kq /\ KeyStream' = kq
      BY <1>2, <2>1, <2>4, TakenStream
    <3>2. /\ OneAt(kq) /\ NoAcks(kq)
          /\ AllAcks(KeyStream) => AllAcks(kq)
      BY <1>0, <1>2, <2>4, <3>1, AcksTail DEF KeysInv, OneAck
    <3>3. OneAck' BY <3>1, <3>2 DEF OneAck
    <3>4. Keystrokes => Keystrokes'
      <4> HIDE DEF a, z
      <4>1. Chain(KeyStream, hist.typed, a, z) => Chain(kq, hist.typed, a, z)
        <5> SUFFICES ASSUME Chain(KeyStream, hist.typed, a, z)
                     PROVE  Chain(kq, hist.typed, a, z)
          OBVIOUS
        <5>1. PICK t \in State : Decodes(a, out.code, t, hist.typed) /\ Chain(kq, hist.typed, t, z)
          BY <1>0, <3>1, ChainFirst
        <5>2. out.code = "ack" BY <2>4, KeyCodes
        <5>3. t = a BY <5>1, <5>2 DEF Decodes
        <5> QED BY <5>1, <5>3
      <4> QED BY <2>1, <2>3, <3>1, <4>1 DEF Keystrokes, a, z, n
    <3>5. Begun => Begun' BY <2>3 DEF Begun
    <3>6. Decoded' BY <2>1, <2>3, <3>1, <3>2, <3>4, <3>5 DEF KeysInv, Decoded
    <3> QED BY <3>3, <3>6 DEF KeysInv
  <2>5. CASE out # Ack("keyboard")
    <3>1. out = CommandByte /\ stage' = stage BY <2>1, <2>2, <2>5
    <3>2. KeyStream' = KeyStream BY <1>2, <2>1, <3>1, TakenStream
    <3> QED BY <1>1, <2>1, <2>3, <3>1, <3>2, KeysSame
  <2> QED BY <2>4, <2>5
<1> QED BY <1>3, <1>4, <1>5, <1>6, <1>7, <1>8 DEF Boot

\* At most one keyboard types.
OneKeyboard == ~({"ps2 keyboard", "usb keyboard"} \subseteq machine)

LEMMA KeysStep ==
  ASSUME Types, KeysInv, Asked, OneKeyboard, Next, Right
  PROVE  KeysInv'
<1>0. hist \in History BY DEF Types
<1> DEFINE Frame == UNCHANGED <<machine, stage, prefix, shift, out, kq>>
<1>1. Frame /\ Calm(hist) => KeysInv'
  <2>1. Frame => KeyStream' = KeyStream BY DEF KeyStream
  <2> QED BY <2>1, KeysSame
<1>2. hist' = hist => Calm(hist) BY DEF Calm
<1>3. CASE PressKey BY <1>3, PressKeys
<1>4. CASE MoveMouse
  <2>1. Frame BY <1>4 DEF MoveMouse, decoder
  <2>2. hist' = Moved BY <1>4, MoveMouseIs
  <2>3. Calm(hist) BY <1>0, <2>2 DEF Moved, History, Calm
  <2> QED BY <1>1, <2>1, <2>3
<1>5. CASE Fill
  <2>1. UNCHANGED <<machine, stage, prefix, shift, hist>> BY <1>5 DEF Fill, decoder
  <2> QED BY <1>2, <1>5, <2>1, FillStream, KeysSame
<1>6. CASE Boot BY <1>6, BootKeys
<1>7. CASE Service
  <2>1. /\ stage = "run" /\ out # Empty /\ out' = Empty /\ Dispatch(IsAux(out), out, hist)
        /\ UNCHANGED <<machine, stage, kq>>
    BY <1>7 DEF Service, Running, Taken
  <2> QED BY <2>1, DispatchKeys
<1>8. CASE ForeData
  <2>1. /\ ~Misread /\ fore # "none" /\ out' = Empty /\ Dispatch(fore = "aux", ForeByte, hist)
        /\ UNCHANGED <<machine, stage, kq>>
    BY <1>8, ForeDataIs DEF Right
  <2>2. out # Empty /\ ForeByte = out BY <2>1 DEF Misread, ForeByte
  <2>3. stage = "run" BY <2>1 DEF Types
  <2> DEFINE aux == fore = "aux"
  <2>4. IsAux(out) = aux BY <2>1, <2>2 DEF Misread
  <2>5. Dispatch(aux, out, hist) BY <2>1, <2>2
  <2> HIDE DEF aux
  <2>6. Dispatch(IsAux(out), out, hist) BY <2>4, <2>5
  <2> QED BY <2>1, <2>2, <2>3, <2>6, DispatchKeys
<1>9. CASE ForeStatus \/ GetRead \/ ReadEvent
  <2>1. Frame /\ hist' = hist BY <1>9 DEF ForeStatus, GetRead, ReadEvent, devices, decoder
  <2> QED BY <1>1, <1>2, <2>1
<1>10. CASE GetAdvance \/ GetcharCall
  <2>1. Frame /\ \E c : hist' = Got(c) BY <1>10 DEF GetAdvance, GetcharCall, devices, decoder
  <2>2. PICK c : hist' = Got(c) BY <2>1
  <2>3. Calm(hist) BY <1>0, <2>2 DEF Got, History, Calm
  <2> QED BY <1>1, <2>1, <2>3
<1>11. CASE UsbWait \/ UsbRetry \/ UsbRetried
  <2>1. Frame /\ hist' = hist BY <1>11 DEF UsbWait, UsbRetry, UsbRetried, devices, decoder
  <2> QED BY <1>1, <1>2, <2>1
<1>12. CASE UsbReport
  <2>1. /\ UNCHANGED <<machine, stage, out, kq>> /\ "ps2 keyboard" \notin machine
    BY <1>12, UsbReportIs DEF devices, OneKeyboard
  <2>2. KeyStream' = KeyStream BY <2>1 DEF KeyStream
  <2>3. OneAck' BY <2>1, <2>2 DEF KeysInv, OneAck
  <2>4. hist.full = 0 => hist.pushed = hist.typed /\ AllAcks(KeyStream)
    BY <2>1 DEF KeysInv, Decoded
  <2>5. /\ hist'.full = 0 => hist.full = 0
        /\ hist'.full = 0 /\ hist.pushed = hist.typed => hist'.pushed = hist'.typed
    <3>1. CASE hist' = HeardKeys BY <1>0, <3>1 DEF HeardKeys, History
    <3>2. ASSUME NEW c \in UsbKeys,
                 LET p == Pushed(Typed(c), c) IN
                   chars' = p.chars /\ cwrite' = p.cwrite /\ hist' = p.hist
          PROVE  /\ hist'.full = 0 => hist.full = 0
                 /\ hist'.full = 0 /\ hist.pushed = hist.typed => hist'.pushed = hist'.typed
      <4>1. c \in Letters BY DEF UsbKeys, Letters
      <4> DEFINE h == Typed(c)
      <4>2. /\ h.pushed = hist.pushed /\ h.full = hist.full /\ h.typed = Append(hist.typed, c)
            /\ h \in History
        BY <4>1, TypedIs
      <4>3. LET p == Pushed(h, c) IN chars' = p.chars /\ cwrite' = p.cwrite /\ hist' = p.hist
        BY <3>2
      <4> HIDE DEF h
      <4>4. /\ hist'.typed = h.typed
            /\ hist'.full = 0 => h.full = 0 /\ hist'.pushed = Append(h.pushed, c)
        BY <4>2, <4>3, PushedIs
      <4> QED BY <4>2, <4>4
    <3> QED BY <1>12, <3>1, <3>2, UsbReportIs
  <2>6. hist'.full = 0 /\ hist'.pushed = hist'.typed => Begun'
    <3>1. hist' \in History BY TypesStep DEF Types
    <3>2. Len(hist'.typed) \in Nat BY <3>1, HistoryIs, LenProperties
    <3> QED BY <3>2 DEF Begun
  <2>7. Decoded' BY <2>1, <2>2, <2>4, <2>5, <2>6 DEF Decoded
  <2> QED BY <2>3, <2>7 DEF KeysInv
<1>13. CASE UsbMove
  <2>1. Frame BY <1>13, UsbMoveIs DEF devices, decoder
  <2>2. Moved \in History BY <1>0, HistoryKept DEF Moved
  <2>3. Event(UsbEvent, Moved) => Calm(Moved) BY <2>2, EventCalm
  <2>4. Calm(Moved) => Calm(hist)
    <3>1. Moved.pushed = hist.pushed /\ Moved.typed = hist.typed /\ Moved.down = hist.down
          /\ Moved.full = hist.full
      BY <1>0 DEF Moved, History
    <3> QED BY <3>1 DEF Calm
  <2> QED BY <1>1, <1>2, <1>13, <2>1, <2>3, <2>4, UsbMoveIs
<1> QED BY <1>3, <1>4, <1>5, <1>6, <1>7, <1>8, <1>9, <1>10, <1>11, <1>12, <1>13
        DEF Next, Get, Usb

LEMMA KeysInit == Init => Asked /\ KeysInv
<1> SUFFICES ASSUME Init PROVE Asked /\ KeysInv
  OBVIOUS
<1>1. /\ stage = "keyboard" /\ out = Empty /\ kq = <<>> /\ answer = FALSE
      /\ prefix = FALSE /\ shift = FALSE
      /\ hist.typed = <<>> /\ hist.pushed = <<>> /\ hist.down = FALSE
  BY DEF Init
<1>2. out.from = "nobody" /\ CommandByte.from = "controller" BY <1>1, From
<1>3. Asked BY <1>1, <1>2 DEF Asked
<1>4. KeyStream = <<>> BY <1>1, <1>2 DEF KeyStream
<1>5. OneAck /\ AllAcks(KeyStream) BY <1>4, EmptySeq DEF OneAck, OneAt, NoAcks, AllAcks
<1>6. Begun BY <1>1, EmptySeq DEF Begun
<1>7. Keystrokes
  <2> DEFINE a == At(FALSE, FALSE, 0)
  <2>1. a \in State BY DEF At, State
  <2> HIDE DEF a
  <2>2. Chain(<<>>, <<>>, a, a) BY <2>1, ChainNone
  <2> QED BY <1>1, <1>4, <2>2, EmptySeq DEF Keystrokes, a
<1> QED BY <1>1, <1>3, <1>5, <1>6, <1>7 DEF KeysInv, Decoded

LEMMA CutIs ==
  ASSUME NEW s \in Seq(Letters), NEW n \in Nat, n <= Len(s)
  PROVE  /\ SubSeq(s, 1, n) \in Seq(Letters) /\ Len(SubSeq(s, 1, n)) = n
         /\ \A k \in 1 .. n : SubSeq(s, 1, n)[k] = s[k]
<1> DEFINE u == SubSeq(s, 1, n)
<1>1. Len(s) \in Nat BY LenProperties
<1>2. \A i \in 1 .. n : s[i] \in Letters
  <2>1. \A i \in 1 .. n : i \in 1 .. Len(s) BY <1>1
  <2> QED BY <2>1, ElementOfSeq
<1>3. 1 \in Int /\ n \in Int OBVIOUS
<1>4. /\ u \in Seq(Letters) /\ Len(u) = IF 1 <= n THEN n - 1 + 1 ELSE 0
      /\ \A i \in 1 .. n - 1 + 1 : u[i] = s[1 + i - 1]
  BY <1>2, <1>3, SubSeqProperties
<1> HIDE DEF u
<1>5. Len(u) = n BY <1>4
<1>6. \A k \in 1 .. n : u[k] = s[k]
  <2> TAKE k \in 1 .. n
  <2>1. k \in 1 .. n - 1 + 1 /\ 1 + k - 1 = k OBVIOUS
  <2> QED BY <1>4, <2>1
<1> QED BY <1>4, <1>5, <1>6 DEF u

LEMMA PrefixIs ==
  ASSUME NEW p \in Seq(Letters), NEW t \in Seq(Letters), Len(p) <= Len(t),
         \A k \in 1 .. Len(p) : p[k] = t[k]
  PROVE  IsPrefix(p, t)
<1> DEFINE n == Len(p)
           u == SubSeq(p, 1, n)
           v == SubSeq(t, 1, n)
<1>1. n \in Nat /\ n <= Len(p) /\ n <= Len(t) BY LenProperties
<1>2. u \in Seq(Letters) /\ Len(u) = n /\ \A k \in 1 .. n : u[k] = p[k] BY <1>1, CutIs
<1>3. v \in Seq(Letters) /\ Len(v) = n /\ \A k \in 1 .. n : v[k] = t[k] BY <1>1, CutIs
<1>4. \A k \in 1 .. n : p[k] = t[k] OBVIOUS
<1> HIDE DEF n, u, v
<1>5. u = v BY <1>2, <1>3, <1>4, SeqEqual
<1> QED BY <1>1, <1>5 DEF IsPrefix, u, v, n

\* On a machine where one keyboard types, keyboard_getchar returns the characters that
\* were typed, in their order and with the Shift of their time, as long as none was
\* misread or dropped for want of room: through the boot, which reads the buffer itself
\* and asks the keyboard and the mouse for answers, the interrupts, which may come at any
\* step of the main loop, and the ring (keyboard_handle_scancode, push_char,
\* keyboard_getchar).
THEOREM CharsAreTyped ==
  ASSUME \A m \in Machines : ~({"ps2 keyboard", "usb keyboard"} \subseteq m)
  PROVE  Spec => []CharsAsTyped
<1> DEFINE KeysKept == Clean => Asked /\ KeysInv
<1>1. Init => Types /\ Ring /\ KeysKept BY TypesInit, RingInit, KeysInit
<1>2. Types /\ Ring /\ KeysKept /\ [Next]_vars => Types' /\ Ring' /\ KeysKept'
  <2> SUFFICES ASSUME Types, KeysKept, [Next]_vars, Clean' PROVE Asked' /\ KeysInv'
    BY TypesStep, RingStep
  <2>1. Asked /\ KeysInv /\ (Next => Right) BY CleanBefore
  <2>2. OneKeyboard BY DEF Types, OneKeyboard
  <2>3. CASE Next BY <2>1, <2>2, <2>3, AskedStep, KeysStep
  <2>4. CASE UNCHANGED vars
    <3>1. UNCHANGED <<machine, stage, prefix, shift, out, kq, answer, hist>>
      BY <2>4 DEF vars, devices, decoder
    <3>2. KeyStream' = KeyStream /\ Calm(hist) BY <3>1 DEF KeyStream, Calm
    <3>3. KeysInv' BY <2>1, <3>1, <3>2, KeysSame
    <3>4. Asked' BY <2>1, <3>1 DEF Asked
    <3> QED BY <3>3, <3>4
  <2> QED BY <2>3, <2>4
<1>3. Types /\ Ring /\ KeysKept => CharsAsTyped
  <2> SUFFICES ASSUME Types, KeysKept, Ring PROVE RingIsTyped /\ CharsInOrder
    BY DEF CharsAsTyped
  <2>1. CharsInOrder BY DEF Ring, CharsInOrder
  <2>2. ASSUME hist.full = 0, hist.spoiled = {}
        PROVE  IsPrefix(hist.pushed, hist.typed)
    <3> DEFINE p == hist.pushed
               t == hist.typed
    <3>1. Begun BY <2>2 DEF Clean, KeysInv, Decoded
    <3>2. p \in Seq(Letters) /\ t \in Seq(Letters) BY HistoryIs DEF Types
    <3>3. Len(p) <= Len(t) /\ \A k \in 1 .. Len(p) : p[k] = t[k] BY <3>1 DEF Begun
    <3> HIDE DEF p, t
    <3>4. IsPrefix(p, t) BY <3>2, <3>3, PrefixIs
    <3> QED BY <3>4 DEF p, t
  <2> QED BY <2>1, <2>2 DEF RingIsTyped
<1> QED BY <1>1, <1>2, <1>3, PTL DEF Spec

-----------------------------------------------------------------------------
\* Desktop.

\* A window, and the flags, as the code's structures have them.
WindowOK(w) ==
  /\ w = [visible |-> w.visible, minimized |-> w.minimized, focused |-> w.focused,
          maximized |-> w.maximized, x |-> w.x, w |-> w.w, old_x |-> w.old_x, old_w |-> w.old_w]
  /\ w.visible \in BOOLEAN /\ w.minimized \in BOOLEAN
  /\ w.focused \in BOOLEAN /\ w.maximized \in BOOLEAN

WindowsOK(ws) ==
  /\ ws = [v \in Windows |-> ws[v]]
  /\ \A v \in Windows : WindowOK(ws[v])

UiOK(u) ==
  /\ u = [gui |-> u.gui, start |-> u.start, tfocus |-> u.tfocus, nfocus |-> u.nfocus,
          wallpaper |-> u.wallpaper]
  /\ u.gui \in BOOLEAN /\ u.start \in BOOLEAN /\ u.tfocus \in BOOLEAN /\ u.nfocus \in BOOLEAN

On(w) == w.visible /\ ~w.minimized

\* Who has the focus is on the screen, is one, and gets the keys.
FocusFits(ws, u) ==
  /\ \A v \in Windows : ws[v].focused => On(ws[v])
  /\ \A v, o \in Windows : ws[v].focused /\ ws[o].focused => v = o
  /\ u.tfocus <=> "terminal" \in Windows /\ ws["terminal"].focused
  /\ u.nfocus <=> "notepad" \in Windows /\ ws["notepad"].focused

\* The notes are in the file while the notepad is off the screen, if the last save was.
Stored(ws, pad, file) ==
  pad.loaded /\ "notepad" \in Windows /\ ~On(ws["notepad"]) /\ ~file.failed =>
    file.exists /\ file.text = Fit(pad.text, file.ram)

DesktopInv ==
  WindowsOK(windows) /\ UiOK(ui) /\ FocusFits(windows, ui) /\ Stored(windows, notepad, notes)

DesktopStep == DesktopInv'

\* A step that leaves visible, minimized and focused as they are.
SameFlags(ws, to) ==
  \A v \in Windows : /\ to[v].visible = ws[v].visible /\ to[v].minimized = ws[v].minimized
                     /\ to[v].focused = ws[v].focused

LEMMA FocusIs ==
  ASSUME NEW ws, WindowsOK(ws), NEW id \in Windows
  PROVE  /\ WindowsOK(Focus(ws, id))
         /\ \A v \in Windows : /\ Focus(ws, id)[v].visible = ws[v].visible
                               /\ Focus(ws, id)[v].minimized = ws[v].minimized
                               /\ Focus(ws, id)[v].focused <=> v = id /\ On(ws[v])
<1> DEFINE to == Focus(ws, id)
<1>1. to = [v \in Windows |-> to[v]] BY DEF Focus
<1>2. ASSUME NEW v \in Windows
      PROVE  /\ WindowOK(to[v]) /\ to[v].visible = ws[v].visible
             /\ to[v].minimized = ws[v].minimized
             /\ to[v].focused <=> v = id /\ On(ws[v])
  <2> DEFINE w == ws[v]
             f == (v = id /\ w.visible /\ ~w.minimized)
  <2>1. WindowOK(w) BY DEF WindowsOK
  <2>2. to[v] = [w EXCEPT !.focused = f] BY DEF Focus
  <2>3. f \in BOOLEAN /\ (f <=> v = id /\ On(w)) BY DEF On
  <2> HIDE DEF w, f, to
  <2>4. WindowOK(to[v]) /\ to[v].visible = w.visible /\ to[v].minimized = w.minimized
        /\ to[v].focused = f
    BY <2>1, <2>2, <2>3 DEF WindowOK
  <2> QED BY <2>3, <2>4 DEF w
<1> QED BY <1>1, <1>2 DEF WindowsOK

\* What an assignment to fields of one window leaves.
LEMMA OneWindow ==
  ASSUME NEW ws, WindowsOK(ws), NEW id \in Windows, NEW w, WindowOK(w),
         NEW to, to = [v \in Windows |-> IF v = id THEN w ELSE ws[v]]
  PROVE  WindowsOK(to) /\ to[id] = w /\ \A v \in Windows : v # id => to[v] = ws[v]
BY DEF WindowsOK

Flags(w, visible, minimized, focused) ==
  WindowOK(w) /\ w.visible = visible /\ w.minimized = minimized /\ w.focused = focused

LEMMA WindowField ==
  ASSUME NEW w, WindowOK(w), NEW b \in BOOLEAN, NEW x
  PROVE  /\ Flags([w EXCEPT !.visible = b], b, w.minimized, w.focused)
         /\ Flags([w EXCEPT !.minimized = b], w.visible, b, w.focused)
         /\ Flags([w EXCEPT !.focused = b], w.visible, w.minimized, b)
         /\ Flags([w EXCEPT !.maximized = b], w.visible, w.minimized, w.focused)
         /\ Flags([w EXCEPT !.x = x], w.visible, w.minimized, w.focused)
         /\ Flags([w EXCEPT !.w = x], w.visible, w.minimized, w.focused)
         /\ Flags([w EXCEPT !.old_x = x], w.visible, w.minimized, w.focused)
         /\ Flags([w EXCEPT !.old_w = x], w.visible, w.minimized, w.focused)
<1>1. Flags([w EXCEPT !.visible = b], b, w.minimized, w.focused) BY DEF WindowOK, Flags
<1>2. Flags([w EXCEPT !.minimized = b], w.visible, b, w.focused) BY DEF WindowOK, Flags
<1>3. Flags([w EXCEPT !.focused = b], w.visible, w.minimized, b) BY DEF WindowOK, Flags
<1>4. Flags([w EXCEPT !.maximized = b], w.visible, w.minimized, w.focused) BY DEF WindowOK, Flags
<1>5. Flags([w EXCEPT !.x = x], w.visible, w.minimized, w.focused) BY DEF WindowOK, Flags
<1>6. Flags([w EXCEPT !.w = x], w.visible, w.minimized, w.focused) BY DEF WindowOK, Flags
<1>7. Flags([w EXCEPT !.old_x = x], w.visible, w.minimized, w.focused) BY DEF WindowOK, Flags
<1>8. Flags([w EXCEPT !.old_w = x], w.visible, w.minimized, w.focused) BY DEF WindowOK, Flags
<1> QED BY <1>1, <1>2, <1>3, <1>4, <1>5, <1>6, <1>7, <1>8

LEMMA RaiseIs ==
  ASSUME WindowsOK(windows), NEW id \in Windows
  PROVE  /\ WindowsOK(Raise(id))
         /\ \A v \in Windows : /\ Raise(id)[v].focused <=> v = id
                               /\ On(Raise(id)[v]) <=> v = id \/ On(windows[v])
<1> DEFINE w == windows[id]
           open == [w EXCEPT !.visible = TRUE]
           shown == [open EXCEPT !.minimized = FALSE]
           to == [windows EXCEPT ![id].visible = TRUE, ![id].minimized = FALSE]
<1>1. WindowOK(w) BY DEF WindowsOK
<1>2. to = [v \in Windows |-> IF v = id THEN shown ELSE windows[v]] BY DEF WindowsOK
<1>3. Raise(id) = Focus(to, id) BY DEF Raise
<1> HIDE DEF to, w
<1>4. WindowOK(shown) /\ On(shown)
  <2>1. Flags(open, TRUE, w.minimized, w.focused) BY <1>1, WindowField
  <2> HIDE DEF open
  <2>2. Flags(shown, open.visible, FALSE, open.focused) BY <2>1, WindowField DEF Flags
  <2> HIDE DEF shown
  <2> QED BY <2>1, <2>2 DEF Flags, On
<1> HIDE DEF shown
<1>5. WindowsOK(to) /\ to[id] = shown /\ \A v \in Windows : v # id => to[v] = windows[v]
  BY <1>2, <1>4, OneWindow
<1>6. \A v \in Windows : On(Focus(to, id)[v]) <=> On(to[v]) BY <1>5, FocusIs DEF On
<1>7. \A v \in Windows : Focus(to, id)[v].focused <=> v = id /\ On(to[v]) BY <1>5, FocusIs
<1>8. WindowsOK(Focus(to, id)) BY <1>5, FocusIs
<1> QED BY <1>3, <1>4, <1>5, <1>6, <1>7, <1>8

LEMMA HiddenIs ==
  ASSUME NEW ws, WindowsOK(ws), NEW id \in Windows
  PROVE  /\ WindowsOK(Hidden(ws, id)) /\ ~Hidden(ws, id)[id].focused /\ ~On(Hidden(ws, id)[id])
         /\ \A v \in Windows : v # id => Hidden(ws, id)[v] = ws[v]
<1> DEFINE w == ws[id]
           shut == [w EXCEPT !.visible = FALSE]
           back == [shut EXCEPT !.minimized = FALSE]
           gone == [back EXCEPT !.focused = FALSE]
<1>1. WindowOK(w) BY DEF WindowsOK
<1>2. Hidden(ws, id) = [v \in Windows |-> IF v = id THEN gone ELSE ws[v]] BY DEF WindowsOK, Hidden
<1> HIDE DEF w
<1>3. WindowOK(gone) /\ ~gone.focused /\ ~On(gone)
  <2>1. Flags(shut, FALSE, w.minimized, w.focused) BY <1>1, WindowField
  <2> HIDE DEF shut
  <2>2. Flags(back, shut.visible, FALSE, shut.focused) BY <2>1, WindowField DEF Flags
  <2> HIDE DEF back
  <2>3. Flags(gone, back.visible, back.minimized, FALSE) BY <2>2, WindowField DEF Flags
  <2> HIDE DEF gone
  <2> QED BY <2>1, <2>2, <2>3 DEF Flags, On
<1> HIDE DEF gone
<1> QED BY <1>2, <1>3, OneWindow

LEMMA MinimizedIs ==
  ASSUME NEW ws, WindowsOK(ws), NEW id \in Windows
  PROVE  /\ WindowsOK(Minimized(ws, id)) /\ ~Minimized(ws, id)[id].focused
         /\ \A v \in Windows : v # id => Minimized(ws, id)[v] = ws[v]
<1> DEFINE w == ws[id]
           small == [w EXCEPT !.minimized = TRUE]
           gone == [small EXCEPT !.focused = FALSE]
<1>1. WindowOK(w) BY DEF WindowsOK
<1>2. Minimized(ws, id) = [v \in Windows |-> IF v = id THEN gone ELSE ws[v]]
  BY DEF WindowsOK, Minimized
<1> HIDE DEF w
<1>3. WindowOK(gone) /\ ~gone.focused
  <2>1. Flags(small, w.visible, TRUE, w.focused) BY <1>1, WindowField
  <2> HIDE DEF small
  <2>2. Flags(gone, small.visible, small.minimized, FALSE) BY <2>1, WindowField DEF Flags
  <2> HIDE DEF gone
  <2> QED BY <2>2 DEF Flags
<1> HIDE DEF gone
<1> QED BY <1>2, <1>3, OneWindow

LEMMA MaximizedIs ==
  ASSUME WindowsOK(windows), NEW id \in Windows
  PROVE  /\ WindowsOK(Maximized(id))
         /\ \A v \in Windows : /\ Maximized(id)[v].visible = windows[v].visible
                               /\ Maximized(id)[v].minimized = windows[v].minimized
                               /\ Maximized(id)[v].focused <=> v = id /\ On(windows[v])
<1> DEFINE w == windows[id]
           to == IF w.maximized
                 THEN [w EXCEPT !.maximized = FALSE, !.x = w.old_x, !.w = w.old_w,
                                !.old_x = 0, !.old_w = 0]
                 ELSE [w EXCEPT !.maximized = TRUE, !.old_x = w.x, !.old_w = w.w,
                                !.x = 0, !.w = Width]
           ws == [windows EXCEPT ![id] = to]
<1>1. WindowOK(w) BY DEF WindowsOK
<1>2. Maximized(id) = Focus(ws, id) BY DEF Maximized
<1>3. ws = [v \in Windows |-> IF v = id THEN to ELSE windows[v]] BY DEF WindowsOK
<1> HIDE DEF w, ws
<1>4. WindowOK(to) /\ to.visible = w.visible /\ to.minimized = w.minimized
  BY <1>1 DEF WindowOK
<1> HIDE DEF to
<1>5. WindowsOK(ws) /\ ws[id] = to /\ \A v \in Windows : v # id => ws[v] = windows[v]
  BY <1>3, <1>4, OneWindow
<1>6. \A v \in Windows : /\ Focus(ws, id)[v].visible = ws[v].visible
                         /\ Focus(ws, id)[v].minimized = ws[v].minimized
                         /\ Focus(ws, id)[v].focused <=> v = id /\ On(ws[v])
  BY <1>5, FocusIs
<1>7. WindowsOK(Focus(ws, id)) BY <1>5, FocusIs
<1>8. \A v \in Windows : ws[v].visible = windows[v].visible /\ ws[v].minimized = windows[v].minimized
  BY <1>4, <1>5 DEF w
<1> QED BY <1>2, <1>6, <1>7, <1>8 DEF On

LEMMA MovedIs ==
  ASSUME WindowsOK(windows), NEW id, NEW x
  PROVE  WindowsOK([windows EXCEPT ![id].x = x]) /\ SameFlags(windows, [windows EXCEPT ![id].x = x])
<1> DEFINE w == windows[id]
           to == [w EXCEPT !.x = x]
           ws == [windows EXCEPT ![id].x = x]
<1>1. CASE id \in Windows
  <2>1. WindowOK(w) BY <1>1 DEF WindowsOK
  <2>2. ws = [v \in Windows |-> IF v = id THEN to ELSE windows[v]] BY <1>1 DEF WindowsOK
  <2> HIDE DEF w, ws
  <2>3. WindowOK(to) /\ to.visible = w.visible /\ to.minimized = w.minimized /\ to.focused = w.focused
    BY <2>1 DEF WindowOK
  <2> HIDE DEF to
  <2>4. WindowsOK(ws) /\ ws[id] = to /\ \A v \in Windows : v # id => ws[v] = windows[v]
    BY <1>1, <2>2, <2>3, OneWindow
  <2>5. SameFlags(windows, ws) BY <2>3, <2>4 DEF SameFlags, w
  <2> QED BY <2>4, <2>5 DEF ws
<1>2. CASE id \notin Windows
  <2>1. ws = windows BY <1>2 DEF WindowsOK
  <2> QED BY <2>1 DEF SameFlags
<1> QED BY <1>1, <1>2

-----------------------------------------------------------------------------
UiFlags(u, tfocus, nfocus) == UiOK(u) /\ u.tfocus = tfocus /\ u.nfocus = nfocus

LEMMA UiFacts ==
  \A u, t, n : UiFlags(u, t, n) => UiOK(u) /\ u.tfocus = t /\ u.nfocus = n
BY DEF UiFlags

LEMMA UiField ==
  ASSUME NEW u, UiOK(u), NEW b \in BOOLEAN, NEW p
  PROVE  /\ UiFlags([u EXCEPT !.tfocus = b], b, u.nfocus)
         /\ UiFlags([u EXCEPT !.nfocus = b], u.tfocus, b)
         /\ UiFlags([u EXCEPT !.start = b], u.tfocus, u.nfocus)
         /\ UiFlags([u EXCEPT !.gui = b], u.tfocus, u.nfocus)
         /\ UiFlags([u EXCEPT !.wallpaper = p], u.tfocus, u.nfocus)
<1>1. UiFlags([u EXCEPT !.tfocus = b], b, u.nfocus) BY DEF UiOK, UiFlags
<1>2. UiFlags([u EXCEPT !.nfocus = b], u.tfocus, b) BY DEF UiOK, UiFlags
<1>3. UiFlags([u EXCEPT !.start = b], u.tfocus, u.nfocus) BY DEF UiOK, UiFlags
<1>4. UiFlags([u EXCEPT !.gui = b], u.tfocus, u.nfocus) BY DEF UiOK, UiFlags
<1>5. UiFlags([u EXCEPT !.wallpaper = p], u.tfocus, u.nfocus) BY DEF UiOK, UiFlags
<1> QED BY <1>1, <1>2, <1>3, <1>4, <1>5

\* Assigning both focuses, and then closing the start menu.
LEMMA UiFocus ==
  ASSUME NEW u, UiOK(u), NEW t \in BOOLEAN, NEW n \in BOOLEAN
  PROVE  /\ UiFlags([u EXCEPT !.tfocus = t, !.nfocus = n], t, n)
         /\ UiFlags([u EXCEPT !.tfocus = t, !.nfocus = n, !.start = FALSE], t, n)
         /\ UiFlags([u EXCEPT !.start = FALSE, !.tfocus = t, !.nfocus = n], t, n)
<1> DEFINE a == [u EXCEPT !.tfocus = t]
           b == [a EXCEPT !.nfocus = n]
           c == [b EXCEPT !.start = FALSE]
           d == [u EXCEPT !.start = FALSE]
           e == [d EXCEPT !.tfocus = t]
           f == [e EXCEPT !.nfocus = n]
<1>1. b = [u EXCEPT !.tfocus = t, !.nfocus = n]
      /\ c = [u EXCEPT !.tfocus = t, !.nfocus = n, !.start = FALSE]
      /\ f = [u EXCEPT !.start = FALSE, !.tfocus = t, !.nfocus = n]
  OBVIOUS
<1>2. UiFlags(a, t, u.nfocus) BY UiField
<1>3. UiFlags(d, u.tfocus, u.nfocus)
  <2>1. FALSE \in BOOLEAN OBVIOUS
  <2> QED BY <2>1, UiField
<1> HIDE DEF a, d
<1>4. UiOK(a) /\ a.tfocus = t /\ UiOK(d) BY <1>2, <1>3, UiFacts
<1>5. UiFlags(b, a.tfocus, n) BY <1>4, UiField
<1>6. UiFlags(e, t, d.nfocus) BY <1>4, UiField
<1> HIDE DEF b, e
<1>7. UiFlags(b, t, n) BY <1>4, <1>5
<1>8. UiOK(b) /\ b.tfocus = t /\ b.nfocus = n /\ UiOK(e) /\ e.tfocus = t BY <1>6, <1>7, UiFacts
<1>9. UiFlags(c, b.tfocus, b.nfocus)
  <2>1. FALSE \in BOOLEAN OBVIOUS
  <2> QED BY <1>8, <2>1, UiField
<1>10. UiFlags(f, e.tfocus, n) BY <1>8, UiField
<1> HIDE DEF c, f
<1>11. UiFlags(b, t, n) /\ UiFlags(c, t, n) /\ UiFlags(f, t, n)
  BY <1>7, <1>8, <1>9, <1>10
<1> QED BY <1>1, <1>11

LEMMA UiIs ==
  ASSUME UiOK(ui), NEW id
  PROVE  /\ UiFlags(Focused(id), id = "terminal", id = "notepad")
         /\ UiFlags(NoKeys, FALSE, FALSE)
         /\ UiFlags(NoKeysFor(id), id # "terminal" /\ ui.tfocus, id # "notepad" /\ ui.nfocus)
<1>1. (id = "terminal") \in BOOLEAN /\ (id = "notepad") \in BOOLEAN
      /\ (id # "terminal" /\ ui.tfocus) \in BOOLEAN /\ (id # "notepad" /\ ui.nfocus) \in BOOLEAN
  OBVIOUS
<1>2. UiFlags(Focused(id), id = "terminal", id = "notepad") BY <1>1, UiFocus DEF Focused
<1>3. UiFlags(NoKeys, FALSE, FALSE) BY UiFocus DEF NoKeys
<1>4. UiFlags(NoKeysFor(id), id # "terminal" /\ ui.tfocus, id # "notepad" /\ ui.nfocus)
  BY <1>1, UiFocus DEF NoKeysFor
<1> QED BY <1>2, <1>3, <1>4

-----------------------------------------------------------------------------
\* Who has the focus, after it was given to one window, or taken from all.
LEMMA GivenFocus ==
  ASSUME NEW id \in Windows, NEW ws, NEW u, UiFlags(u, id = "terminal", id = "notepad"),
         On(ws[id]), \A v \in Windows : ws[v].focused <=> v = id
  PROVE  FocusFits(ws, u)
<1>1. (u.tfocus <=> id = "terminal") /\ (u.nfocus <=> id = "notepad")
  <2>1. u.tfocus = (id = "terminal") /\ u.nfocus = (id = "notepad") BY UiFacts
  <2> QED BY <2>1
<1> QED BY <1>1 DEF FocusFits

LEMMA TakenFocus ==
  ASSUME NEW ws, NEW u, UiFlags(u, FALSE, FALSE), \A v \in Windows : ~ws[v].focused
  PROVE  FocusFits(ws, u)
<1>1. u.tfocus = FALSE /\ u.nfocus = FALSE BY UiFacts
<1> QED BY <1>1 DEF FocusFits

LEMMA SameFocus ==
  ASSUME NEW ws, NEW u, FocusFits(windows, ui), SameFlags(windows, ws),
         UiFlags(u, ui.tfocus, ui.nfocus)
  PROVE  FocusFits(ws, u)
<1>1. u.tfocus = ui.tfocus /\ u.nfocus = ui.nfocus BY UiFacts
<1> QED BY <1>1 DEF FocusFits, SameFlags, On

\* The file, when the notepad stays where it is or comes up, when it is saved, and when its
\* text was put there.
LEMMA StoredUnless ==
  ASSUME NEW ws, NEW pad, NEW file, Stored(windows, notepad, notes),
         \/ /\ "notepad" \in Windows /\ On(windows["notepad"]) => On(ws["notepad"])
            /\ pad = notepad /\ file = notes
         \/ "notepad" \in Windows => On(ws["notepad"])
         \/ \E ram \in BOOLEAN : file = Saved(pad.text, ram)
         \/ file.failed
  PROVE  Stored(ws, pad, file)
BY DEF Stored, Saved

LEMMA SaveStores ==
  ASSUME NEW ws, SaveNotes, notepad' = notepad
  PROVE  Stored(ws, notepad', notes')
<1>1. CASE \E ram \in BOOLEAN : notes' = Saved(notepad.text, ram) BY <1>1 DEF Stored, Saved
<1>2. CASE SaveFails(notepad.text)
  <2>1. notes'.failed BY <1>2 DEF SaveFails, Left
  <2> QED BY <2>1 DEF Stored
<1> QED BY <1>1, <1>2 DEF SaveNotes

LEMMA ShowKeeps ==
  ASSUME DesktopInv, NEW id \in Windows, Show(id), UNCHANGED notes
  PROVE  DesktopStep
<1>1. windows' = Raise(id) /\ ui' = Focused(id) /\ notepad' \in IF id = "notepad" THEN Loaded ELSE {notepad}
  BY DEF Show
<1>2. WindowsOK(windows) /\ UiOK(ui) /\ Stored(windows, notepad, notes) BY DEF DesktopInv
<1>3. WindowsOK(windows') BY <1>1, <1>2, RaiseIs
<1>4. \A v \in Windows : windows'[v].focused <=> v = id BY <1>1, <1>2, RaiseIs
<1>5. \A v \in Windows : On(windows'[v]) <=> v = id \/ On(windows[v]) BY <1>1, <1>2, RaiseIs
<1>6. UiFlags(ui', id = "terminal", id = "notepad") BY <1>1, <1>2, UiIs
<1>7. FocusFits(windows', ui') BY <1>4, <1>5, <1>6, GivenFocus
<1>8. Stored(windows', notepad', notes')
  <2>1. CASE id = "notepad" BY <1>2, <1>5, <2>1, StoredUnless
  <2>2. CASE id # "notepad"
    <3>1. notepad' = notepad BY <1>1, <2>2
    <3> QED BY <1>2, <1>5, <3>1 DEF Stored
  <2> QED BY <2>1, <2>2
<1> QED BY <1>3, <1>6, <1>7, <1>8, UiFacts DEF DesktopStep, DesktopInv

LEMMA HideKeeps ==
  ASSUME DesktopInv, NEW id \in Windows, Hide(id), UNCHANGED notepad
  PROVE  DesktopStep
<1>1. /\ windows' = Hidden(windows, id) /\ ui' = NoKeysFor(id)
      /\ IF id = "notepad" THEN SaveNotes ELSE notes' = notes
  BY DEF Hide, Save
<1>2. WindowsOK(windows) /\ UiOK(ui) /\ Stored(windows, notepad, notes) /\ FocusFits(windows, ui)
  BY DEF DesktopInv
<1>3. WindowsOK(windows') BY <1>1, <1>2, HiddenIs
<1>4. ~windows'[id].focused /\ ~On(windows'[id]) BY <1>1, <1>2, HiddenIs
<1>5. \A v \in Windows : v # id => windows'[v] = windows[v] BY <1>1, <1>2, HiddenIs
<1>6. UiFlags(ui', id # "terminal" /\ ui.tfocus, id # "notepad" /\ ui.nfocus) BY <1>1, <1>2, UiIs
<1>7. FocusFits(windows', ui')
  <2>1. ui'.tfocus = (id # "terminal" /\ ui.tfocus) /\ ui'.nfocus = (id # "notepad" /\ ui.nfocus)
    BY <1>6, UiFacts
  <2>2. (ui'.tfocus <=> id # "terminal" /\ ui.tfocus) /\ (ui'.nfocus <=> id # "notepad" /\ ui.nfocus)
    BY <2>1
  <2>3. \A v \in Windows : windows'[v].focused => v # id /\ windows'[v] = windows[v] BY <1>4, <1>5
  <2>4. \A v \in Windows : windows'[v].focused => On(windows'[v]) BY <1>2, <2>3 DEF FocusFits
  <2>5. \A v, o \in Windows : windows'[v].focused /\ windows'[o].focused => v = o
    BY <1>2, <2>3 DEF FocusFits
  <2>6. ui'.tfocus <=> "terminal" \in Windows /\ windows'["terminal"].focused
    BY <1>2, <1>4, <1>5, <2>2 DEF FocusFits
  <2>7. ui'.nfocus <=> "notepad" \in Windows /\ windows'["notepad"].focused
    BY <1>2, <1>4, <1>5, <2>2 DEF FocusFits
  <2> QED BY <2>4, <2>5, <2>6, <2>7 DEF FocusFits
<1>8. Stored(windows', notepad', notes')
  <2>1. CASE id = "notepad" BY <1>1, <2>1, SaveStores
  <2>2. CASE id # "notepad"
    <3>1. notes' = notes /\ ("notepad" \in Windows => windows'["notepad"] = windows["notepad"])
      BY <1>1, <1>5, <2>2
    <3> QED BY <1>2, <3>1 DEF Stored
  <2> QED BY <2>1, <2>2
<1> QED BY <1>3, <1>6, <1>7, <1>8, UiFacts DEF DesktopStep, DesktopInv

\* A step that leaves all of it but the start menu, the wallpaper or the desktop itself.
LEMMA RestKeeps ==
  ASSUME DesktopInv, WindowsOK(windows'), SameFlags(windows, windows'), UNCHANGED <<notepad, notes>>,
         UiFlags(ui', ui.tfocus, ui.nfocus)
  PROVE  DesktopStep
<1>1. FocusFits(windows', ui') BY SameFocus DEF DesktopInv
<1>2. Stored(windows', notepad', notes')
  <2>1. "notepad" \in Windows => (On(windows["notepad"]) <=> On(windows'["notepad"])) BY DEF SameFlags, On
  <2> QED BY <2>1 DEF DesktopInv, Stored
<1> QED BY <1>1, <1>2, UiFacts DEF DesktopStep, DesktopInv

LEMMA StillKeeps ==
  ASSUME DesktopInv, UNCHANGED <<windows, notepad, notes>>,
         ui' = ui \/ UiFlags(ui', ui.tfocus, ui.nfocus)
  PROVE  DesktopStep
<1>1. UiFlags(ui', ui.tfocus, ui.nfocus) BY DEF DesktopInv, UiFlags
<1>2. SameFlags(windows, windows') BY DEF SameFlags
<1>3. WindowsOK(windows') BY DEF DesktopInv
<1> QED BY <1>1, <1>2, <1>3, RestKeeps

\* A window on the screen gets the focus.
LEMMA FocusKeeps ==
  ASSUME DesktopInv, NEW id \in Windows, On(windows[id]), UNCHANGED <<notepad, notes>>,
         WindowsOK(windows'),
         \A v \in Windows : /\ windows'[v].visible = windows[v].visible
                            /\ windows'[v].minimized = windows[v].minimized
                            /\ windows'[v].focused <=> v = id /\ On(windows[v]),
         UiFlags(ui', id = "terminal", id = "notepad")
  PROVE  DesktopStep
<1>1. \A v \in Windows : On(windows'[v]) <=> On(windows[v]) BY DEF On
<1>2. FocusFits(windows', ui') BY <1>1, GivenFocus
<1>3. Stored(windows', notepad', notes') BY <1>1 DEF DesktopInv, Stored
<1> QED BY <1>2, <1>3, UiFacts DEF DesktopStep, DesktopInv

-----------------------------------------------------------------------------
LEMMA OnScreen ==
  ASSUME NEW id \in Windows, OnWindow(id)
  PROVE  On(windows[id])
BY DEF OnWindow, Hit, WindowsAt, Shown, On

LEMMA LaunchKeeps ==
  ASSUME DesktopInv, NEW app, NEW start \in BOOLEAN, Launch(app, start), UNCHANGED notes
  PROVE  DesktopStep
<1>1. CASE app \in Windows /\ Show(app) BY <1>1, ShowKeeps
<1>2. CASE ui' = [ui EXCEPT !.start = start] /\ UNCHANGED <<windows, notepad>>
  <2>1. UiFlags(ui', ui.tfocus, ui.nfocus) BY <1>2, UiField DEF DesktopInv
  <2> QED BY <1>2, <2>1, StillKeeps
<1> QED BY <1>1, <1>2 DEF Launch

\* The clicks that open nothing and touch no window.
LEMMA ClickKeeps ==
  ASSUME DesktopInv,
         \/ ClickBrowser \/ ClickStart \/ ClickPower \/ ClickNothing
         \/ \E app \in Apps : ClickIcon(app)
  PROVE  DesktopStep
<1>1. UiOK(ui) /\ ui.start \in BOOLEAN BY DEF DesktopInv, UiOK
<1>2. FALSE \in BOOLEAN /\ (~ui.start) \in BOOLEAN OBVIOUS
<1>3. UNCHANGED <<windows, notepad, notes>>
  BY DEF ClickBrowser, ClickStart, ClickPower, ClickNothing, ClickIcon, apps
<1>4. \/ ui' = ui \/ ui' = [ui EXCEPT !.start = ~ui.start] \/ ui' = [ui EXCEPT !.start = FALSE]
      \/ ui' = [ui EXCEPT !.gui = FALSE]
  BY DEF ClickBrowser, ClickStart, ClickPower, ClickNothing, ClickIcon, CloseGui
<1>5. ui' = ui \/ UiFlags(ui', ui.tfocus, ui.nfocus)
  <2>1. UiFlags([ui EXCEPT !.start = ~ui.start], ui.tfocus, ui.nfocus) BY <1>1, <1>2, UiField
  <2>2. UiFlags([ui EXCEPT !.start = FALSE], ui.tfocus, ui.nfocus) BY <1>1, <1>2, UiField
  <2>3. UiFlags([ui EXCEPT !.gui = FALSE], ui.tfocus, ui.nfocus) BY <1>1, <1>2, UiField
  <2> QED BY <1>4, <2>1, <2>2, <2>3
<1> QED BY <1>3, <1>5, StillKeeps

LEMMA ClickCloseKeeps ==
  ASSUME DesktopInv, NEW id \in Windows, ClickClose(id)
  PROVE  DesktopStep
<1> DEFINE ws == Focus(windows, id)
<1>1. /\ windows' = Hidden(ws, id) /\ ui' = NoKeys /\ notepad' = notepad
      /\ IF id = "notepad" THEN SaveNotes ELSE notes' = notes
  BY DEF ClickClose, Save
<1>2. WindowsOK(windows) /\ UiOK(ui) /\ Stored(windows, notepad, notes) BY DEF DesktopInv
<1>3. /\ WindowsOK(ws)
      /\ \A v \in Windows : /\ ws[v].visible = windows[v].visible
                            /\ ws[v].minimized = windows[v].minimized
                            /\ ws[v].focused <=> v = id /\ On(windows[v])
  BY <1>2, FocusIs
<1> HIDE DEF ws
<1>4. /\ WindowsOK(windows') /\ ~windows'[id].focused
      /\ \A v \in Windows : v # id => windows'[v] = ws[v]
  BY <1>1, <1>3, HiddenIs
<1>5. \A v \in Windows : ~windows'[v].focused BY <1>3, <1>4
<1>6. UiFlags(ui', FALSE, FALSE) BY <1>1, <1>2, UiIs
<1>7. FocusFits(windows', ui') BY <1>5, <1>6, TakenFocus
<1>8. Stored(windows', notepad', notes')
  <2>1. CASE id = "notepad" BY <1>1, <2>1, SaveStores
  <2>2. CASE id # "notepad"
    <3>1. "notepad" \in Windows => (On(windows'["notepad"]) <=> On(windows["notepad"]))
      BY <1>3, <1>4, <2>2 DEF On
    <3> QED BY <1>1, <1>2, <2>2, <3>1 DEF Stored
  <2> QED BY <2>1, <2>2
<1> QED BY <1>4, <1>6, <1>7, <1>8, UiFacts DEF DesktopStep, DesktopInv

LEMMA ClickMinimizeKeeps ==
  ASSUME DesktopInv, NEW id \in Windows, ClickMinimize(id)
  PROVE  DesktopStep
<1> DEFINE ws == Focus(windows, id)
<1>1. /\ windows' = Minimized(ws, id) /\ ui' = NoKeys /\ notepad' = notepad
      /\ IF id = "notepad" THEN SaveNotes ELSE notes' = notes
  BY DEF ClickMinimize, Save
<1>2. WindowsOK(windows) /\ UiOK(ui) /\ Stored(windows, notepad, notes) BY DEF DesktopInv
<1>3. /\ WindowsOK(ws)
      /\ \A v \in Windows : /\ ws[v].visible = windows[v].visible
                            /\ ws[v].minimized = windows[v].minimized
                            /\ ws[v].focused <=> v = id /\ On(windows[v])
  BY <1>2, FocusIs
<1> HIDE DEF ws
<1>4. /\ WindowsOK(windows') /\ ~windows'[id].focused
      /\ \A v \in Windows : v # id => windows'[v] = ws[v]
  BY <1>1, <1>3, MinimizedIs
<1>5. \A v \in Windows : ~windows'[v].focused BY <1>3, <1>4
<1>6. UiFlags(ui', FALSE, FALSE) BY <1>1, <1>2, UiIs
<1>7. FocusFits(windows', ui') BY <1>5, <1>6, TakenFocus
<1>8. Stored(windows', notepad', notes')
  <2>1. CASE id = "notepad" BY <1>1, <2>1, SaveStores
  <2>2. CASE id # "notepad"
    <3>1. "notepad" \in Windows => (On(windows'["notepad"]) <=> On(windows["notepad"]))
      BY <1>3, <1>4, <2>2 DEF On
    <3> QED BY <1>1, <1>2, <2>2, <3>1 DEF Stored
  <2> QED BY <2>1, <2>2
<1> QED BY <1>4, <1>6, <1>7, <1>8, UiFacts DEF DesktopStep, DesktopInv

LEMMA ClickMaximizeKeeps ==
  ASSUME DesktopInv, NEW id \in Windows, ClickMaximize(id)
  PROVE  DesktopStep
<1>1. windows' = Maximized(id) /\ ui' = Focused(id) /\ UNCHANGED <<notepad, notes>>
  BY DEF ClickMaximize, apps
<1>2. On(windows[id]) BY OnScreen DEF ClickMaximize, OnButtons
<1>3. WindowsOK(windows) /\ UiOK(ui) BY DEF DesktopInv
<1>4. /\ WindowsOK(windows')
      /\ \A v \in Windows : /\ windows'[v].visible = windows[v].visible
                            /\ windows'[v].minimized = windows[v].minimized
                            /\ windows'[v].focused <=> v = id /\ On(windows[v])
  BY <1>1, <1>3, MaximizedIs
<1>5. UiFlags(ui', id = "terminal", id = "notepad") BY <1>1, <1>3, UiIs
<1> QED BY <1>1, <1>2, <1>4, <1>5, FocusKeeps

\* The title bar, and the inside of a window.
LEMMA ClickInside ==
  ASSUME DesktopInv, NEW id \in Windows, ClickTitle(id) \/ ClickBody(id)
  PROVE  DesktopStep
<1>1. windows' = Focus(windows, id) /\ UNCHANGED <<notepad, notes>>
  BY DEF ClickTitle, ClickBody, apps
<1>2. On(windows[id]) BY OnScreen DEF ClickTitle, ClickBody
<1>3. WindowsOK(windows) /\ UiOK(ui) BY DEF DesktopInv
<1>4. /\ WindowsOK(windows')
      /\ \A v \in Windows : /\ windows'[v].visible = windows[v].visible
                            /\ windows'[v].minimized = windows[v].minimized
                            /\ windows'[v].focused <=> v = id /\ On(windows[v])
  BY <1>1, <1>3, FocusIs
<1>5. UiFlags(ui', id = "terminal", id = "notepad")
  <2> DEFINE u == Focused(id)
  <2>1. UiFlags(u, id = "terminal", id = "notepad") BY <1>3, UiIs
  <2>2. ui' = u \/ \E p : ui' = [u EXCEPT !.wallpaper = p] BY DEF ClickTitle, ClickBody
  <2> HIDE DEF u
  <2>3. UiOK(u) /\ u.tfocus = (id = "terminal") /\ u.nfocus = (id = "notepad") BY <2>1, UiFacts
  <2>4. ASSUME NEW p PROVE UiFlags([u EXCEPT !.wallpaper = p], u.tfocus, u.nfocus)
    <3>1. FALSE \in BOOLEAN OBVIOUS
    <3> QED BY <2>3, <3>1, UiField
  <2> QED BY <2>1, <2>2, <2>3, <2>4
<1> QED BY <1>1, <1>2, <1>4, <1>5, FocusKeeps

LEMMA ClickFileKeeps ==
  ASSUME DesktopInv, "files" \in Windows, NEW f, NEW soon, ClickFile(f, soon)
  PROVE  DesktopStep
<1> DEFINE shown == windows' = Focus(windows, "files") /\ ui' = Focused("files")
<1>1. WindowsOK(windows) /\ UiOK(ui) BY DEF DesktopInv
<1>2. On(windows["files"]) BY OnScreen DEF ClickFile
<1>3. notes' = notes BY DEF ClickFile
<1>4. ASSUME windows' = Focus(windows, "files"), ui' = Focused("files")
      PROVE  /\ WindowsOK(windows')
             /\ \A v \in Windows : /\ windows'[v].visible = windows[v].visible
                                   /\ windows'[v].minimized = windows[v].minimized
                                   /\ windows'[v].focused <=> v = "files" /\ On(windows[v])
             /\ UiFlags(ui', "files" = "terminal", "files" = "notepad")
  <2>1. /\ WindowsOK(windows')
        /\ \A v \in Windows : /\ windows'[v].visible = windows[v].visible
                              /\ windows'[v].minimized = windows[v].minimized
                              /\ windows'[v].focused <=> v = "files" /\ On(windows[v])
    BY <1>1, <1>4, FocusIs
  <2>2. UiFlags(ui', "files" = "terminal", "files" = "notepad") BY <1>1, <1>4, UiIs
  <2> QED BY <2>1, <2>2
<1>5. CASE "notepad" \in Windows /\ windows' = Raise("notepad") /\ ui' = Focused("notepad")
  <2>1. windows' = Raise("notepad") /\ ui' = Focused("notepad") BY <1>5
  <2>2. WindowsOK(windows') BY <1>1, <1>5, <2>1, RaiseIs
  <2>3. \A v \in Windows : windows'[v].focused <=> v = "notepad" BY <1>1, <1>5, <2>1, RaiseIs
  <2>4. On(windows'["notepad"]) BY <1>1, <1>5, <2>1, RaiseIs
  <2>5. UiFlags(ui', "notepad" = "terminal", "notepad" = "notepad") BY <1>1, <2>1, UiIs
  <2>6. FocusFits(windows', ui') BY <1>5, <2>3, <2>4, <2>5, GivenFocus
  <2>7. Stored(windows', notepad', notes') BY <2>4 DEF Stored
  <2> QED BY <2>2, <2>5, <2>6, <2>7, UiFacts DEF DesktopStep, DesktopInv
<1>6. CASE "notepad" \notin Windows /\ shown
  <2>1. windows' = Focus(windows, "files") /\ ui' = Focused("files") BY <1>6
  <2>2. /\ WindowsOK(windows') /\ UiFlags(ui', "files" = "terminal", "files" = "notepad")
        /\ \A v \in Windows : windows'[v].focused <=> v = "files" /\ On(windows[v])
    BY <1>4, <2>1
  <2>3. On(windows'["files"]) BY <1>2, <1>4, <2>1 DEF On
  <2>4. \A v \in Windows : windows'[v].focused <=> v = "files" BY <1>2, <2>2
  <2>5. FocusFits(windows', ui') BY <2>2, <2>3, <2>4, GivenFocus
  <2>6. Stored(windows', notepad', notes') BY <1>6 DEF Stored
  <2> QED BY <2>2, <2>5, <2>6, UiFacts DEF DesktopStep, DesktopInv
<1>7. CASE shown /\ notepad' = notepad
  <2>1. windows' = Focus(windows, "files") /\ ui' = Focused("files") /\ notepad' = notepad BY <1>7
  <2> QED BY <1>2, <1>3, <1>4, <2>1, FocusKeeps
<1> QED BY <1>5, <1>6, <1>7 DEF ClickFile

LEMMA PressKeeps == ASSUME DesktopInv, Click PROVE DesktopStep
<1>1. ASSUME NEW app \in Apps, ClickDock(app) PROVE DesktopStep
  <2>1. Launch(app, ui.start) /\ notes' = notes BY <1>1 DEF ClickDock
  <2>2. ui.start \in BOOLEAN BY DEF DesktopInv, UiOK
  <2> QED BY <2>1, <2>2, LaunchKeeps
<1>2. ASSUME NEW app \in Apps, ClickMenu(app) PROVE DesktopStep
  <2>1. Launch(app, FALSE) /\ notes' = notes BY <1>2 DEF ClickMenu
  <2>2. FALSE \in BOOLEAN OBVIOUS
  <2> QED BY <2>1, <2>2, LaunchKeeps
<1>3. ASSUME NEW id \in Windows,
             \/ ClickClose(id) \/ ClickMinimize(id) \/ ClickMaximize(id)
             \/ ClickTitle(id) \/ ClickBody(id)
      PROVE  DesktopStep
  BY <1>3, ClickCloseKeeps, ClickMinimizeKeeps, ClickMaximizeKeeps, ClickInside
<1>4. ASSUME "files" \in Windows, NEW f \in Files \cup {NoFile}, NEW soon \in BOOLEAN, ClickFile(f, soon)
      PROVE  DesktopStep
  BY <1>4, ClickFileKeeps
<1>5. ASSUME \/ ClickBrowser \/ ClickStart \/ ClickPower \/ ClickNothing
             \/ \E app \in Apps : ClickIcon(app)
      PROVE  DesktopStep
  BY <1>5, ClickKeeps
<1> QED BY <1>1, <1>2, <1>3, <1>4, <1>5 DEF Click

LEMMA ReleaseKeeps == ASSUME DesktopInv, Release PROVE DesktopStep
<1>1. notes' = notes BY DEF Release
<1>2. CASE Launch(icon.app, ui.start)
  <2>1. ui.start \in BOOLEAN BY DEF DesktopInv, UiOK
  <2> QED BY <1>1, <1>2, <2>1, LaunchKeeps
<1>3. CASE UNCHANGED <<windows, ui, notepad, browser>> BY <1>1, <1>3, StillKeeps
<1> QED BY <1>2, <1>3 DEF Release

LEMMA MoveWindowKeeps == ASSUME DesktopInv, MoveWindow PROVE DesktopStep
<1>1. /\ windows' = [windows EXCEPT ![drag.id].x = Clamp(mouse.x - drag.dx, windows[drag.id].w)]
      /\ UNCHANGED <<ui, notepad, notes>>
  BY DEF MoveWindow, apps
<1>2. WindowsOK(windows) BY DEF DesktopInv
<1>3. WindowsOK(windows') /\ SameFlags(windows, windows') BY <1>1, <1>2, MovedIs
<1>4. UiFlags(ui', ui.tfocus, ui.nfocus) BY <1>1 DEF DesktopInv, UiFlags
<1> QED BY <1>1, <1>3, <1>4, RestKeeps

-----------------------------------------------------------------------------
LEMMA IndexIs == ASSUME NEW id \in Windows PROVE Index(id) \in Int
<1>1. id \in ToSet(Order) BY DesktopAssumption DEF DesktopAssumption
<1>2. \E i \in DOMAIN Order : Order[i] = id BY <1>1 DEF ToSet
<1>3. Index(id) \in DOMAIN Order BY <1>2 DEF Index
<1>4. DOMAIN Order = 1 .. 6 BY DEF Order
<1> QED BY <1>3, <1>4

\* Escape closes the terminal, when it has the keys, or the window that has the focus.
LEMMA KeyEscKeeps == ASSUME DesktopInv, KeyEsc PROVE DesktopStep
<1> DEFINE open == {id \in Windows : windows[id].focused}
           first == CHOOSE id \in open : \A o \in open : Index(id) <= Index(o)
<1>1. FocusFits(windows, ui) BY DEF DesktopInv
<1>2. notepad' = notepad BY DEF KeyEsc
<1>3. \/ ui.tfocus /\ Hide("terminal")
      \/ open # {} /\ Hide(first)
      \/ CloseGui /\ UNCHANGED <<windows, notes>>
  BY DEF KeyEsc
<1>4. CASE ui.tfocus /\ Hide("terminal")
  <2>1. "terminal" \in Windows BY <1>1, <1>4 DEF FocusFits
  <2> QED BY <1>2, <1>4, <2>1, HideKeeps
<1>5. CASE open # {} /\ Hide(first)
  <2>1. PICK id \in open : TRUE BY <1>5
  <2>2. \A o \in open : o = id BY <1>1, <2>1 DEF FocusFits
  <2>3. Index(id) \in Int BY <2>1, IndexIs
  <2>4. \A o \in open : Index(id) <= Index(o) BY <2>2, <2>3
  <2>5. first \in open BY <2>1, <2>4
  <2>6. first \in Windows BY <2>5
  <2> HIDE DEF first
  <2> QED BY <1>2, <1>5, <2>6, HideKeeps
<1>6. CASE CloseGui /\ UNCHANGED <<windows, notes>>
  <2>1. UiFlags(ui', ui.tfocus, ui.nfocus)
    <3>1. FALSE \in BOOLEAN OBVIOUS
    <3> QED BY <1>6, <3>1, UiField DEF DesktopInv, CloseGui
  <2> QED BY <1>2, <1>6, <2>1, StillKeeps
<1> QED BY <1>3, <1>4, <1>5, <1>6

LEMMA KeyNotepadKeeps == ASSUME DesktopInv, NEW k, KeyNotepad(k) PROVE DesktopStep
<1>1. UNCHANGED <<windows, ui, notes>> /\ ui.nfocus BY DEF KeyNotepad
<1>2. On(windows["notepad"]) BY <1>1 DEF DesktopInv, FocusFits
<1>3. Stored(windows', notepad', notes') BY <1>1, <1>2 DEF Stored
<1> QED BY <1>1, <1>3 DEF DesktopStep, DesktopInv

LEMMA KeyTerminalKeeps == ASSUME DesktopInv, NEW k, KeyTerminal(k) PROVE DesktopStep
<1>1. ui.tfocus /\ notepad' = notepad BY DEF KeyTerminal
<1>2. "terminal" \in Windows BY <1>1 DEF DesktopInv, FocusFits
<1>3. CASE Hide("terminal") BY <1>1, <1>2, <1>3, HideKeeps
<1>4. CASE UNCHANGED <<windows, ui, notes>> BY <1>1, <1>4, StillKeeps
<1> QED BY <1>3, <1>4 DEF KeyTerminal

LEMMA KeyDesktopKeeps == ASSUME DesktopInv, NEW k, KeyDesktop(k) PROVE DesktopStep
<1>1. notes' = notes BY DEF KeyDesktop
<1>2. CASE Shortcut[k] \in Windows /\ Show(Shortcut[k]) BY <1>1, <1>2, ShowKeeps
<1>3. CASE UNCHANGED <<windows, ui, notepad>> BY <1>1, <1>3, StillKeeps
<1> QED BY <1>2, <1>3 DEF KeyDesktop

LEMMA DesktopNextKeeps == ASSUME DesktopInv, [DesktopNext]_desktopVars PROVE DesktopStep
<1>1. CASE \/ UNCHANGED desktopVars \/ MoveIcon \/ MoveNothing \/ Render
           \/ \E x \in Cells, b \in BOOLEAN : Sample(x, b)
           \/ \E k \in Keys : KeyBrowser(k)
  <2>1. UNCHANGED <<windows, ui, notepad, notes>>
    BY <1>1 DEF desktopVars, apps, MoveIcon, MoveNothing, Render, Sample, KeyBrowser
  <2> QED BY <2>1, StillKeeps
<1>2. CASE Click BY <1>2, PressKeeps
<1>3. CASE Release BY <1>3, ReleaseKeeps
<1>4. CASE MoveWindow BY <1>4, MoveWindowKeeps
<1>5. CASE KeyEsc BY <1>5, KeyEscKeeps
<1>6. CASE \E k \in Keys : KeyNotepad(k) \/ KeyTerminal(k) \/ KeyDesktop(k)
  BY <1>6, KeyNotepadKeeps, KeyTerminalKeeps, KeyDesktopKeeps
<1> QED BY <1>1, <1>2, <1>3, <1>4, <1>5, <1>6 DEF DesktopNext, AnyKey

LEMMA DesktopInitially == ASSUME DesktopInit PROVE DesktopInv
<1>1. \A v \in Windows : windows[v] =
        [visible |-> FALSE, minimized |-> FALSE, focused |-> FALSE, maximized |-> FALSE,
         x |-> (Width * Home(v)[1]) \div 100, w |-> (Width * Home(v)[2]) \div 100,
         old_x |-> 0, old_w |-> 0]
  BY DEF DesktopInit
<1>2. ASSUME NEW v \in Windows PROVE WindowOK(windows[v]) /\ ~windows[v].focused
  <2> DEFINE x == (Width * Home(v)[1]) \div 100
             w == (Width * Home(v)[2]) \div 100
  <2>1. windows[v] = [visible |-> FALSE, minimized |-> FALSE, focused |-> FALSE, maximized |-> FALSE,
                      x |-> x, w |-> w, old_x |-> 0, old_w |-> 0]
    BY <1>1
  <2> HIDE DEF x, w
  <2> QED BY <2>1 DEF WindowOK
<1>3. WindowsOK(windows)
  <2>1. windows = [v \in Windows |-> windows[v]] BY DEF DesktopInit
  <2> QED BY <1>2, <2>1 DEF WindowsOK
<1>4. UiFlags(ui, FALSE, FALSE)
  <2>1. ui = [gui |-> TRUE, start |-> FALSE, tfocus |-> FALSE, nfocus |-> FALSE, wallpaper |-> 0]
    BY DEF DesktopInit
  <2> QED BY <2>1 DEF UiFlags, UiOK
<1>5. FocusFits(windows, ui) BY <1>2, <1>4, TakenFocus
<1>6. Stored(windows, notepad, notes) BY DEF DesktopInit, Stored
<1> QED BY <1>3, <1>4, <1>5, <1>6, UiFacts DEF DesktopInv

LEMMA FocusHolds == ASSUME DesktopInv PROVE KeysFollowFocus
<1> DEFINE f == {id \in Windows : windows[id].focused}
<1>1. FocusFits(windows, ui) BY DEF DesktopInv
<1>2. \A id \in f : Shown(id) BY <1>1 DEF FocusFits, On, Shown
<1>3. (ui.tfocus <=> "terminal" \in f) /\ (ui.nfocus <=> "notepad" \in f)
  BY <1>1 DEF FocusFits
<1>4. Cardinality(f) <= 1
  <2>1. CASE f = {} BY <2>1, FS_EmptySet
  <2>2. CASE f # {}
    <3>1. PICK id \in f : TRUE BY <2>2
    <3>2. f = {id} BY <1>1, <3>1 DEF FocusFits
    <3>3. Cardinality({id}) = 1 BY FS_Singleton
    <3>4. Cardinality(f) = 1 BY <3>2, <3>3
    <3> QED BY <3>4
  <2> QED BY <2>1, <2>2
<1> QED BY <1>2, <1>3, <1>4 DEF KeysFollowFocus

\* The keys go where the focus is seen: whatever windows there are and whatever is clicked,
\* dragged and typed, show, hide, minimize, maximize and handle_key, each of which sets
\* ui_window.focused and the two key focuses by itself, leave them in agreement.
THEOREM FocusIsOne == DesktopSpec => []KeysFollowFocus
<1>1. DesktopInit => DesktopInv BY DesktopInitially
<1>2. DesktopInv /\ [DesktopNext]_desktopVars => DesktopInv' BY DesktopNextKeeps DEF DesktopStep
<1>3. DesktopInv => KeysFollowFocus BY FocusHolds
<1> QED BY <1>1, <1>2, <1>3, PTL DEF DesktopSpec

\* The notepad's text, or what fits of it into a file in memory, is in /notepad.txt whenever
\* the notepad is loaded and not on the screen, unless the call that saved it last failed: a
\* key reaches it only while it is on the screen, and each way off the screen saves it.
THEOREM NotesAreSaved == DesktopSpec => []Autosaved
<1>1. DesktopInit => DesktopInv BY DesktopInitially
<1>2. DesktopInv /\ [DesktopNext]_desktopVars => DesktopInv' BY DesktopNextKeeps DEF DesktopStep
<1>3. DesktopInv => Autosaved BY DEF DesktopInv, Stored, Autosaved, NotepadAway, Shown, On
<1> QED BY <1>1, <1>2, <1>3, PTL DEF DesktopSpec

-----------------------------------------------------------------------------
\* What is drawn.  A set of cells with a first and a last, as dirty_rect gets and leaves it.
Bounded(s) ==
  s \subseteq Int /\ (s # {} => \E m, n \in s : \A x \in s : m <= x /\ x <= n)

LEMMA BoundedRun == ASSUME NEW p \in Int, NEW q \in Int PROVE Bounded(p .. q)
<1>1. CASE p <= q
  <2>1. p \in p .. q /\ q \in p .. q BY <1>1
  <2>2. \A x \in p .. q : p <= x /\ x <= q OBVIOUS
  <2> QED BY <2>1, <2>2 DEF Bounded
<1>2. CASE ~(p <= q)
  <2>1. p .. q = {} BY <1>2
  <2> QED BY <2>1 DEF Bounded
<1> QED BY <1>1, <1>2

LEMMA BoundedPair == ASSUME NEW x \in Int, NEW y \in Int PROVE Bounded({x, y})
<1>1. CASE x <= y BY <1>1 DEF Bounded
<1>2. CASE ~(x <= y)
  <2>1. y <= x BY <1>2
  <2> QED BY <2>1 DEF Bounded
<1> QED BY <1>1, <1>2

LEMMA BoundedUnion == ASSUME NEW a, NEW b, Bounded(a), Bounded(b) PROVE Bounded(a \cup b)
<1>1. CASE a = {}
  <2>1. a \cup b = b BY <1>1
  <2> QED BY <2>1
<1>2. CASE b = {}
  <2>1. a \cup b = a BY <1>2
  <2> QED BY <2>1
<1>3. CASE a # {} /\ b # {}
  <2>1. a \subseteq Int /\ b \subseteq Int BY DEF Bounded
  <2>2. PICK m \in a, n \in a : \A x \in a : m <= x /\ x <= n BY <1>3 DEF Bounded
  <2>3. PICK o \in b, p \in b : \A x \in b : o <= x /\ x <= p BY <1>3 DEF Bounded
  <2>4. m \in Int /\ n \in Int /\ o \in Int /\ p \in Int BY <2>1
  <2>5. PICK lo \in {m, o} : lo <= m /\ lo <= o
    <3>1. CASE m <= o BY <2>4, <3>1
    <3>2. CASE o <= m BY <2>4, <3>2
    <3> QED BY <2>4, <3>1, <3>2
  <2>6. PICK hi \in {n, p} : n <= hi /\ p <= hi
    <3>1. CASE p <= n BY <2>4, <3>1
    <3>2. CASE n <= p BY <2>4, <3>2
    <3> QED BY <2>4, <3>1, <3>2
  <2>7. lo \in a \cup b /\ hi \in a \cup b BY <2>5, <2>6
  <2>8. ASSUME NEW x \in a \cup b PROVE lo <= x /\ x <= hi
    <3>1. x \in Int /\ lo \in Int /\ hi \in Int BY <2>1, <2>7
    <3>2. CASE x \in a
      <4>1. m <= x /\ x <= n BY <2>2, <3>2
      <4> QED BY <2>4, <2>5, <2>6, <3>1, <4>1
    <3>3. CASE x \in b
      <4>1. o <= x /\ x <= p BY <2>3, <3>3
      <4> QED BY <2>4, <2>5, <2>6, <3>1, <4>1
    <3> QED BY <3>2, <3>3
  <2>9. \E u, v \in a \cup b : \A x \in a \cup b : u <= x /\ x <= v BY <2>7, <2>8
  <2>10. a \cup b \subseteq Int BY <2>1
  <2> QED BY <2>9, <2>10 DEF Bounded
<1> QED BY <1>1, <1>2, <1>3

\* The bounding box covers what it is the box of.
LEMMA HullCovers ==
  ASSUME NEW a, NEW b, Bounded(a), Bounded(b)
  PROVE  Bounded(Hull(a, b)) /\ a \subseteq Hull(a, b) /\ b \subseteq Hull(a, b)
<1> DEFINE s == a \cup b
<1>1. Bounded(s) BY BoundedUnion
<1> HIDE DEF s
<1>2. CASE s = {}
  <2>1. Hull(a, b) = {} BY <1>2 DEF Hull, s
  <2>2. a = {} /\ b = {} BY <1>2 DEF s
  <2>3. Bounded({}) BY DEF Bounded
  <2> QED BY <2>1, <2>2, <2>3
<1>3. CASE s # {}
  <2>1. s \subseteq Int BY <1>1 DEF Bounded
  <2>2. PICK m \in s, n \in s : \A x \in s : m <= x /\ x <= n BY <1>1, <1>3 DEF Bounded
  <2>3. m \in Int /\ n \in Int BY <2>1
  <2>4. Min(s) = m
    <3>1. \A y \in s : m <= y BY <2>2
    <3>2. \A x \in s : (\A y \in s : x <= y) => x = m
      <4> SUFFICES ASSUME NEW x \in s, \A y \in s : x <= y PROVE x = m OBVIOUS
      <4>1. x \in Int BY <2>1
      <4>2. x <= m /\ m <= x BY <2>2
      <4> QED BY <2>3, <4>1, <4>2
    <3> QED BY <3>1, <3>2 DEF Min
  <2>5. Max(s) = n
    <3>1. \A y \in s : n >= y
      <4> SUFFICES ASSUME NEW y \in s PROVE n >= y OBVIOUS
      <4>1. y \in Int /\ y <= n BY <2>1, <2>2
      <4> QED BY <2>3, <4>1
    <3>2. \A x \in s : (\A y \in s : x >= y) => x = n
      <4> SUFFICES ASSUME NEW x \in s, \A y \in s : x >= y PROVE x = n OBVIOUS
      <4>1. x \in Int BY <2>1
      <4>2. x >= n /\ x <= n BY <2>2
      <4> QED BY <2>3, <4>1, <4>2
    <3> QED BY <3>1, <3>2 DEF Max
  <2>6. Hull(a, b) = m .. n BY <1>3, <2>4, <2>5 DEF Hull, s
  <2>7. s \subseteq m .. n
    <3> SUFFICES ASSUME NEW x \in s PROVE x \in m .. n OBVIOUS
    <3>1. x \in Int /\ m <= x /\ x <= n BY <2>1, <2>2
    <3> QED BY <2>3, <3>1
  <2>8. Bounded(m .. n) BY <2>3, BoundedRun
  <2> QED BY <2>6, <2>7, <2>8 DEF s
<1> QED BY <1>2, <1>3

-----------------------------------------------------------------------------
\* Where the windows are.
Box(w) == w.x \in Int /\ w.w \in Int /\ w.old_x \in Int /\ w.old_w \in Int
Boxes(ws) == \A v \in Windows : Box(ws[v])

LEMMA BoxField ==
  ASSUME NEW w, WindowOK(w), Box(w), NEW b
  PROVE  /\ Box([w EXCEPT !.visible = b]) /\ Box([w EXCEPT !.minimized = b])
         /\ Box([w EXCEPT !.focused = b])
<1>1. Box([w EXCEPT !.visible = b]) BY DEF WindowOK, Box
<1>2. Box([w EXCEPT !.minimized = b]) BY DEF WindowOK, Box
<1>3. Box([w EXCEPT !.focused = b]) BY DEF WindowOK, Box
<1> QED BY <1>1, <1>2, <1>3

LEMMA FocusBoxes ==
  ASSUME NEW ws, WindowsOK(ws), Boxes(ws), NEW id
  PROVE  Boxes(Focus(ws, id))
<1>1. ASSUME NEW v \in Windows PROVE Box(Focus(ws, id)[v])
  <2> DEFINE w == ws[v]
             f == (v = id /\ w.visible /\ ~w.minimized)
  <2>1. WindowOK(w) /\ Box(w) BY DEF WindowsOK, Boxes
  <2>2. Focus(ws, id)[v] = [w EXCEPT !.focused = f] BY DEF Focus
  <2> HIDE DEF w, f
  <2>3. Box([w EXCEPT !.focused = f]) BY <2>1, BoxField
  <2> QED BY <2>2, <2>3
<1> QED BY <1>1 DEF Boxes

LEMMA OneBox ==
  ASSUME NEW ws, Boxes(ws), NEW id, NEW w, Box(w),
         NEW to, to = [v \in Windows |-> IF v = id THEN w ELSE ws[v]]
  PROVE  Boxes(to)
BY DEF Boxes

LEMMA RaiseBoxes ==
  ASSUME WindowsOK(windows), Boxes(windows), NEW id \in Windows
  PROVE  Boxes(Raise(id))
<1> DEFINE w == windows[id]
           open == [w EXCEPT !.visible = TRUE]
           shown == [open EXCEPT !.minimized = FALSE]
           to == [windows EXCEPT ![id].visible = TRUE, ![id].minimized = FALSE]
<1>1. WindowOK(w) /\ Box(w) BY DEF WindowsOK, Boxes
<1>2. to = [v \in Windows |-> IF v = id THEN shown ELSE windows[v]] BY DEF WindowsOK
<1>3. Raise(id) = Focus(to, id) BY DEF Raise
<1> HIDE DEF to, w
<1>4. WindowOK(shown) /\ Box(shown)
  <2>1. Flags(open, TRUE, w.minimized, w.focused) /\ Box(open) BY <1>1, WindowField, BoxField
  <2> HIDE DEF open
  <2>2. Flags(shown, open.visible, FALSE, open.focused) /\ Box(shown)
    BY <2>1, WindowField, BoxField DEF Flags
  <2> HIDE DEF shown
  <2> QED BY <2>2 DEF Flags
<1> HIDE DEF shown
<1>5. WindowsOK(to) BY <1>2, <1>4, OneWindow
<1>6. Boxes(to) BY <1>2, <1>4, OneBox
<1> QED BY <1>3, <1>5, <1>6, FocusBoxes

LEMMA HiddenBoxes ==
  ASSUME NEW ws, WindowsOK(ws), Boxes(ws), NEW id \in Windows
  PROVE  Boxes(Hidden(ws, id))
<1> DEFINE w == ws[id]
           shut == [w EXCEPT !.visible = FALSE]
           back == [shut EXCEPT !.minimized = FALSE]
           gone == [back EXCEPT !.focused = FALSE]
<1>1. WindowOK(w) /\ Box(w) BY DEF WindowsOK, Boxes
<1>2. Hidden(ws, id) = [v \in Windows |-> IF v = id THEN gone ELSE ws[v]] BY DEF WindowsOK, Hidden
<1> HIDE DEF w
<1>3. Box(gone)
  <2>1. Flags(shut, FALSE, w.minimized, w.focused) /\ Box(shut) BY <1>1, WindowField, BoxField
  <2> HIDE DEF shut
  <2>2. Flags(back, shut.visible, FALSE, shut.focused) /\ Box(back)
    BY <2>1, WindowField, BoxField DEF Flags
  <2> HIDE DEF back
  <2> QED BY <2>2, BoxField DEF Flags
<1> HIDE DEF gone
<1> QED BY <1>2, <1>3, OneBox

LEMMA MinimizedBoxes ==
  ASSUME NEW ws, WindowsOK(ws), Boxes(ws), NEW id \in Windows
  PROVE  Boxes(Minimized(ws, id))
<1> DEFINE w == ws[id]
           small == [w EXCEPT !.minimized = TRUE]
           gone == [small EXCEPT !.focused = FALSE]
<1>1. WindowOK(w) /\ Box(w) BY DEF WindowsOK, Boxes
<1>2. Minimized(ws, id) = [v \in Windows |-> IF v = id THEN gone ELSE ws[v]]
  BY DEF WindowsOK, Minimized
<1> HIDE DEF w
<1>3. Box(gone)
  <2>1. Flags(small, w.visible, TRUE, w.focused) /\ Box(small) BY <1>1, WindowField, BoxField
  <2> HIDE DEF small
  <2> QED BY <2>1, BoxField DEF Flags
<1> HIDE DEF gone
<1> QED BY <1>2, <1>3, OneBox

LEMMA MaximizedBoxes ==
  ASSUME WindowsOK(windows), Boxes(windows), NEW id \in Windows
  PROVE  Boxes(Maximized(id))
<1> DEFINE w == windows[id]
           to == IF w.maximized
                 THEN [w EXCEPT !.maximized = FALSE, !.x = w.old_x, !.w = w.old_w,
                                !.old_x = 0, !.old_w = 0]
                 ELSE [w EXCEPT !.maximized = TRUE, !.old_x = w.x, !.old_w = w.w,
                                !.x = 0, !.w = Width]
           ws == [windows EXCEPT ![id] = to]
<1>1. WindowOK(w) /\ Box(w) BY DEF WindowsOK, Boxes
<1>2. Maximized(id) = Focus(ws, id) BY DEF Maximized
<1>3. ws = [v \in Windows |-> IF v = id THEN to ELSE windows[v]] BY DEF WindowsOK
<1> HIDE DEF w, ws
<1>4. Width \in Int BY DesktopAssumption DEF DesktopAssumption
<1>5. WindowOK(to) BY <1>1 DEF WindowOK
<1>6. Box(to) BY <1>1, <1>4 DEF WindowOK, Box
<1> HIDE DEF to
<1>7. WindowsOK(ws) BY <1>3, <1>5, OneWindow
<1>8. Boxes(ws) BY <1>3, <1>6, OneBox
<1> QED BY <1>2, <1>7, <1>8, FocusBoxes

LEMMA ClampIs == ASSUME NEW x \in Int, NEW w \in Int PROVE Clamp(x, w) \in Int
<1>1. Width \in Int BY DesktopAssumption DEF DesktopAssumption
<1>2. ASSUME NEW a \in Int, NEW b \in Int PROVE Min({a, b}) \in Int /\ Max({a, b}) \in Int
  <2>1. \E m \in {a, b} : \A y \in {a, b} : m <= y
    <3>1. CASE a <= b BY <3>1
    <3>2. CASE b <= a BY <3>2
    <3> QED BY <3>1, <3>2
  <2>2. \E m \in {a, b} : \A y \in {a, b} : m >= y
    <3>1. CASE a <= b BY <3>1
    <3>2. CASE b <= a BY <3>2
    <3> QED BY <3>1, <3>2
  <2>3. Min({a, b}) \in {a, b} BY <2>1 DEF Min
  <2>4. Max({a, b}) \in {a, b} BY <2>2 DEF Max
  <2> QED BY <2>3, <2>4
<1>3. Min({x, Width - w}) \in Int BY <1>1, <1>2
<1> QED BY <1>2, <1>3 DEF Clamp

-----------------------------------------------------------------------------
\* What is drawn in a cell, after a step that changes nothing of it.
LEMMA LookNext ==
  ASSUME NEW id \in Windows, windows'[id].focused = windows[id].focused,
         id = "terminal" => terminal' = terminal,
         id = "notepad" => notepad'.text = notepad.text,
         id = "files" => files'.selected = files.selected /\ notes'.exists = notes.exists
  PROVE  Look(id)' = Look(id)
<1>1. CASE id = "terminal" BY <1>1 DEF Look, DrawTerminal
<1>2. CASE id = "notepad" BY <1>2 DEF Look, DrawNotepad
<1>3. CASE id = "files" BY <1>3 DEF Look, DrawFiles
<1>4. CASE id \notin {"terminal", "notepad", "files"} BY <1>4 DEF Look
<1> QED BY <1>1, <1>2, <1>3, <1>4

LEMMA PictureNext ==
  ASSUME NEW c, NEW s, ui'.start = ui.start, ui'.wallpaper = ui.wallpaper,
         WindowsAt(c)' \ {s} = WindowsAt(c) \ {s},
         \A id \in WindowsAt(c) \ {s} : Look(id)' = Look(id)
  PROVE  Picture(c, s)' = Picture(c, s)
<1> DEFINE now == [id \in WindowsAt(c) \ {s} |-> Look(id)]
           then == [id \in WindowsAt(c)' \ {s} |-> Look(id)']
<1>1. then = now OBVIOUS
<1>2. Picture(c, s) = [kind |-> "desktop", wallpaper |-> ui.wallpaper,
                       start |-> DrawStartMenu(c), wins |-> now]
  BY DEF Picture
<1>3. Picture(c, s)' = [kind |-> "desktop", wallpaper |-> ui'.wallpaper,
                        start |-> DrawStartMenu(c)', wins |-> then]
  BY DEF Picture
<1>4. DrawStartMenu(c)' = DrawStartMenu(c) BY DEF DrawStartMenu, StartCells, Cells
<1> HIDE DEF now, then
<1> QED BY <1>1, <1>2, <1>3, <1>4

\* What the whole picture hangs on.
AsShown ==
  /\ windows' = windows /\ terminal' = terminal /\ notepad'.text = notepad.text
  /\ files'.selected = files.selected /\ notes'.exists = notes.exists
  /\ ui'.start = ui.start /\ ui'.wallpaper = ui.wallpaper

LEMMA SamePictures ==
  ASSUME AsShown, NEW c, NEW s
  PROVE  Picture(c, s)' = Picture(c, s)
<1>1. WindowsAt(c)' = WindowsAt(c) BY DEF AsShown, WindowsAt, Shown, Extent
<1>2. \A id \in WindowsAt(c) : Look(id)' = Look(id)
  <2> SUFFICES ASSUME NEW id \in WindowsAt(c) PROVE Look(id)' = Look(id) OBVIOUS
  <2>1. id \in Windows BY DEF WindowsAt
  <2> QED BY <2>1, LookNext DEF AsShown
<1> QED BY <1>1, <1>2, PictureNext DEF AsShown

LEMMA NoneIsNone == "none" \notin Windows
<1>1. Windows \subseteq ToSet(Order) BY DesktopAssumption DEF DesktopAssumption
<1>2. "none" \notin ToSet(Order) BY DEF ToSet, Order
<1> QED BY <1>1, <1>2

\* Leaving out a window that is not there.
LEMMA PictureWithout ==
  ASSUME NEW c, NEW id, id \notin WindowsAt(c)
  PROVE  Picture(c, id) = Picture(c, "none")
<1>1. WindowsAt(c) \ {id} = WindowsAt(c) \ {"none"} BY NoneIsNone DEF WindowsAt
<1> QED BY <1>1 DEF Picture

LEMMA PictureWithoutNext ==
  ASSUME NEW c, NEW id, id \notin WindowsAt(c)'
  PROVE  Picture(c, id)' = Picture(c, "none")'
<1>1. WindowsAt(c)' \ {id} = WindowsAt(c)' \ {"none"} BY NoneIsNone DEF WindowsAt
<1> QED BY <1>1 DEF Picture

-----------------------------------------------------------------------------
\* The structures of the renderer and of the drag.
ViewOK(v) ==
  /\ v = [dirty |-> v.dirty, screen |-> v.screen, rendered |-> v.rendered]
  /\ v.screen = [c \in Cells |-> v.screen[c]]
  /\ Bounded(v.dirty)

DragOK(d) ==
  /\ d = [active |-> d.active, id |-> d.id, dx |-> d.dx, cache |-> d.cache]
  /\ d.active \in BOOLEAN /\ d.dx \in Int

MouseOK(m) ==
  /\ m = [x |-> m.x, button |-> m.button, previous |-> m.previous]
  /\ m.x \in Int /\ m.button \in BOOLEAN /\ m.previous \in BOOLEAN

ShapeInv ==
  Boxes(windows) /\ ViewOK(view) /\ DragOK(drag) /\ MouseOK(mouse) /\ browser \in BOOLEAN

\* Nothing is held while the button is up; what is dragged has the focus.
HandsOff == ~drag.active /\ icon = NoIcon
Dragged == drag.id \in Windows /\ windows[drag.id].focused /\ icon = NoIcon /\ ~browser
HeldInv ==
  /\ drag.active => Dragged
  /\ pc = "press" => mouse.button /\ HandsOff
  /\ pc = "idle" /\ ~mouse.previous => HandsOff
  /\ pc \in {"move", "keys", "browsing"} /\ ~mouse.button => HandsOff

\* The kept pixels are the desktop without the dragged window, and so is the
\* screen wherever that window is not.
Cached == drag.active /\ drag.cache.used
CacheInv ==
  Cached => \A c \in Cells :
    /\ drag.cache.pixels[c] = Picture(c, drag.id)
    /\ c \notin Extent(drag.id) => view.screen[c] = Picture(c, drag.id)

\* What is not dirty is as it should be, but for the dragged window until it is moved.
Now(c) == IF browser THEN BrowserPicture ELSE Picture(c, "none")
Moving(c) == pc = "move" /\ Cached /\ c \in Extent(drag.id)
CleanInv ==
  pc # "browsing" => \A c \in Cells \ view.dirty : view.screen[c] = Now(c) \/ Moving(c)

ScreenInv == ShapeInv /\ HeldInv /\ CacheInv /\ CleanInv
ScreenStep == ScreenInv'

LEMMA CellsAre == Cells \subseteq Int /\ Bounded(Cells)
<1>1. Width \in Int BY DesktopAssumption DEF DesktopAssumption
<1>2. 0 \in Int /\ Width - 1 \in Int BY <1>1
<1>3. Bounded(0 .. Width - 1) BY <1>2, BoundedRun
<1> QED BY <1>3 DEF Cells

LEMMA ViewField ==
  ASSUME NEW v, ViewOK(v), NEW d, Bounded(d)
  PROVE  /\ ViewOK([v EXCEPT !.dirty = d]) /\ [v EXCEPT !.dirty = d].screen = v.screen
         /\ [v EXCEPT !.dirty = d].dirty = d /\ [v EXCEPT !.dirty = d].rendered = v.rendered
BY DEF ViewOK

LEMMA ViewSampled ==
  ASSUME NEW v, ViewOK(v), NEW r
  PROVE  /\ ViewOK([v EXCEPT !.rendered = r]) /\ [v EXCEPT !.rendered = r].screen = v.screen
         /\ [v EXCEPT !.rendered = r].dirty = v.dirty
BY DEF ViewOK

LEMMA NowSame == ASSUME AsShown, browser' = browser, NEW c PROVE Now(c)' = Now(c)
<1>1. Picture(c, "none")' = Picture(c, "none") BY SamePictures
<1>2. BrowserPicture' = BrowserPicture BY DEF BrowserPicture
<1> QED BY <1>1, <1>2 DEF Now

\* What was as it should be stays so, where nothing changes or all is dirty.
LEMMA CleanStays ==
  ASSUME CleanInv, pc \notin {"browsing", "move"} \/ (pc = "move" /\ ~Cached),
         view'.screen = view.screen, Cells \cap view.dirty \subseteq view'.dirty,
         \A c \in Cells : c \in view'.dirty \/ Now(c)' = Now(c)
  PROVE  CleanInv'
<1> SUFFICES ASSUME NEW c \in Cells, c \notin view'.dirty PROVE view'.screen[c] = Now(c)'
  BY DEF CleanInv
<1>1. c \notin view.dirty /\ Now(c)' = Now(c) OBVIOUS
<1>2. view.screen[c] = Now(c) BY <1>1 DEF CleanInv, Moving
<1> QED BY <1>1, <1>2

-----------------------------------------------------------------------------
\* The end of a press: all is dirty, or nothing shown has changed.
DirtyOr ==
  /\ ViewOK(view') /\ view'.screen = view.screen
  /\ view'.dirty = Cells \/ (view'.dirty = view.dirty /\ AsShown /\ browser' = browser)

LEMMA AllDirty ==
  ASSUME ShapeInv, view' = [view EXCEPT !.dirty = Cells]
  PROVE  DirtyOr
BY ViewField, CellsAre DEF ShapeInv, DirtyOr

LEMMA SignedDirty ==
  ASSUME ShapeInv, DirtyIfChanged, windows' = windows => notes' = notes,
         windows' = windows /\ notepad'.text # notepad.text =>
           Len(notepad'.text) # Len(notepad.text)
  PROVE  DirtyOr
<1>1. ViewOK(view) BY DEF ShapeInv
<1>2. CASE Signature' # Signature \/ ui'.wallpaper # ui.wallpaper
  <2>1. view' = [view EXCEPT !.dirty = Cells] BY <1>2 DEF DirtyIfChanged
  <2> QED BY <2>1, AllDirty
<1>3. CASE Signature' = Signature /\ ui'.wallpaper = ui.wallpaper
  <2>1. view' = [view EXCEPT !.dirty = view.dirty] BY <1>3 DEF DirtyIfChanged
  <2>2. view' = view BY <1>1, <2>1 DEF ViewOK
  <2>3. /\ windows' = windows /\ ui'.start = ui.start /\ browser' = browser
        /\ terminal' = terminal /\ Len(notepad'.text) = Len(notepad.text)
        /\ files'.selected = files.selected
    BY <1>3 DEF Signature
  <2>4. notes' = notes /\ notepad'.text = notepad.text BY <2>3
  <2>5. AsShown BY <1>3, <2>3, <2>4 DEF AsShown
  <2> QED BY <1>1, <2>2, <2>3, <2>5 DEF DirtyOr
<1> QED BY <1>2, <1>3

LEMMA PressDone ==
  ASSUME ScreenInv, Press, DirtyOr, Boxes(windows'), browser' \in BOOLEAN, DragOK(drag'),
         drag'.active => Dragged' /\ ~drag'.cache.used
  PROVE  ScreenStep
<1>1. pc = "press" /\ pc' = "move" /\ mouse' = mouse /\ mouse.button
  BY DEF Press, ScreenInv, HeldInv
<1>2. ShapeInv' BY <1>1 DEF ScreenInv, ShapeInv, DirtyOr
<1>3. HeldInv' BY <1>1 DEF HeldInv
<1>4. ~Cached' BY DEF Cached
<1>5. CacheInv' BY <1>4 DEF CacheInv
<1>6. CleanInv'
  <2>1. CASE view'.dirty = Cells BY <2>1 DEF CleanInv
  <2>2. CASE view'.dirty = view.dirty /\ AsShown /\ browser' = browser
    <3>1. \A c \in Cells : Now(c)' = Now(c) BY <2>2, NowSame
    <3> QED BY <1>1, <2>2, <3>1, CleanStays DEF ScreenInv, DirtyOr
  <2> QED BY <2>1, <2>2 DEF DirtyOr
<1> QED BY <1>2, <1>3, <1>5, <1>6 DEF ScreenStep, ScreenInv

\* A press that starts no drag.
LEMMA PressIdle ==
  ASSUME ScreenInv, Press, DirtyOr, Boxes(windows'), browser' \in BOOLEAN,
         drag' = drag \/ drag' = [drag EXCEPT !.active = FALSE]
  PROVE  ScreenStep
<1>1. DragOK(drag) /\ ~drag.active BY DEF ScreenInv, ShapeInv, HeldInv, HandsOff, Press
<1>2. DragOK(drag') /\ ~drag'.active BY <1>1 DEF DragOK
<1> QED BY <1>2, PressDone

LEMMA LaunchBoxes ==
  ASSUME DesktopInv, Boxes(windows), browser \in BOOLEAN, NEW app, NEW start, Launch(app, start)
  PROVE  Boxes(windows') /\ browser' \in BOOLEAN
<1>1. WindowsOK(windows) BY DEF DesktopInv
<1>2. CASE app \in Windows /\ Show(app) /\ browser' = browser
  <2>1. windows' = Raise(app) BY <1>2 DEF Show
  <2> QED BY <1>1, <1>2, <2>1, RaiseBoxes
<1>3. CASE browser' = TRUE /\ windows' = windows BY <1>3
<1> QED BY <1>2, <1>3 DEF Launch

LEMMA LaunchScreen ==
  ASSUME DesktopInv, ScreenInv, OtherLength, NEW app,
         ClickDock(app) \/ ClickMenu(app)
  PROVE  ScreenStep
<1>1. Press /\ notes' = notes /\ DirtyIfChanged /\ drag' = drag
      /\ \E start : Launch(app, start)
  BY DEF ClickDock, ClickMenu, InMenu
<1>2. Boxes(windows) /\ browser \in BOOLEAN /\ ShapeInv BY DEF ScreenInv, ShapeInv
<1>3. Boxes(windows') /\ browser' \in BOOLEAN BY <1>1, <1>2, LaunchBoxes
<1>4. DirtyOr BY <1>1, <1>2, SignedDirty DEF OtherLength, Press
<1> QED BY <1>1, <1>3, <1>4, PressIdle

LEMMA ClickScreen ==
  ASSUME ScreenInv,
         \/ ClickBrowser \/ ClickStart \/ ClickPower \/ ClickNothing
         \/ \E app \in Apps : ClickIcon(app)
  PROVE  ScreenStep
<1>1. Press /\ windows' = windows /\ UNCHANGED <<notes, notepad>> /\ browser' = browser /\ drag' = drag
  BY DEF ClickBrowser, ClickStart, ClickPower, ClickNothing, ClickIcon, InMenu, apps
<1>2. ShapeInv /\ Boxes(windows') /\ browser' \in BOOLEAN BY <1>1 DEF ScreenInv, ShapeInv
<1>3. DirtyOr
  <2>1. CASE ClickBrowser
    <3>1. view' = view /\ AsShown BY <2>1 DEF ClickBrowser, AsShown, apps
    <3> QED BY <1>1, <1>2, <3>1 DEF DirtyOr, ShapeInv
  <2>2. CASE ClickPower BY <1>2, <2>2, AllDirty DEF ClickPower
  <2>3. CASE DirtyIfChanged BY <1>1, <1>2, <2>3, SignedDirty
  <2> QED BY <2>1, <2>2, <2>3 DEF ClickStart, ClickNothing, ClickIcon
<1> QED BY <1>1, <1>2, <1>3, PressIdle

LEMMA ClickCloseScreen ==
  ASSUME DesktopInv, ScreenInv, NEW id \in Windows, ClickClose(id)
  PROVE  ScreenStep
<1> DEFINE ws == Focus(windows, id)
<1>1. /\ Press /\ DirtyIfChanged /\ windows' = Hidden(ws, id) /\ browser' = browser
      /\ drag' = [drag EXCEPT !.active = FALSE]
  BY DEF ClickClose, OnButtons, OnWindow
<1>2. WindowsOK(windows) /\ Boxes(windows) /\ ShapeInv BY DEF DesktopInv, ScreenInv, ShapeInv
<1>3. On(windows[id]) BY OnScreen DEF ClickClose, OnButtons
<1>4. WindowsOK(ws) BY <1>2, FocusIs
<1>5. Boxes(ws) BY <1>2, FocusBoxes
<1> HIDE DEF ws
<1>6. Boxes(windows') BY <1>1, <1>4, <1>5, HiddenBoxes
<1>7. ~On(windows'[id]) BY <1>1, <1>4, HiddenIs
<1>8. windows' # windows BY <1>3, <1>7
<1>9. DirtyOr BY <1>1, <1>2, <1>8, SignedDirty
<1>10. browser' \in BOOLEAN BY <1>1 DEF ScreenInv, ShapeInv
<1> QED BY <1>1, <1>6, <1>9, <1>10, PressIdle

LEMMA ClickMinimizeScreen ==
  ASSUME DesktopInv, ScreenInv, NEW id \in Windows, ClickMinimize(id)
  PROVE  ScreenStep
<1> DEFINE ws == Focus(windows, id)
<1>1. /\ Press /\ DirtyIfChanged /\ windows' = Minimized(ws, id) /\ browser' = browser
      /\ drag' = [drag EXCEPT !.active = FALSE]
  BY DEF ClickMinimize, OnButtons, OnWindow
<1>2. WindowsOK(windows) /\ Boxes(windows) /\ ShapeInv BY DEF DesktopInv, ScreenInv, ShapeInv
<1>3. On(windows[id]) BY OnScreen DEF ClickMinimize, OnButtons
<1>4. WindowsOK(ws) BY <1>2, FocusIs
<1>5. Boxes(ws) BY <1>2, FocusBoxes
<1>6. WindowOK(ws[id]) /\ ws = [v \in Windows |-> ws[v]] BY <1>4 DEF WindowsOK
<1> HIDE DEF ws
<1>7. Boxes(windows') BY <1>1, <1>4, <1>5, MinimizedBoxes
<1>8. windows'[id].minimized
  <2>1. Minimized(ws, id)[id] = [ws[id] EXCEPT !.minimized = TRUE, !.focused = FALSE]
    BY <1>6 DEF Minimized
  <2> QED BY <1>1, <1>6, <2>1 DEF WindowOK
<1>9. windows' # windows BY <1>3, <1>8 DEF On
<1>10. DirtyOr BY <1>1, <1>2, <1>9, SignedDirty
<1>11. browser' \in BOOLEAN BY <1>1 DEF ScreenInv, ShapeInv
<1> QED BY <1>1, <1>7, <1>10, <1>11, PressIdle

LEMMA ClickInsideScreen ==
  ASSUME DesktopInv, ScreenInv, NEW id \in Windows, ClickMaximize(id) \/ ClickBody(id)
  PROVE  ScreenStep
<1>1. /\ Press /\ DirtyIfChanged /\ UNCHANGED <<notes, notepad, browser, drag>>
      /\ windows' = Maximized(id) \/ windows' = Focus(windows, id)
  BY DEF ClickMaximize, ClickBody, OnButtons, OnWindow, apps
<1>2. WindowsOK(windows) /\ Boxes(windows) /\ ShapeInv BY DEF DesktopInv, ScreenInv, ShapeInv
<1>3. Boxes(windows') BY <1>1, <1>2, MaximizedBoxes, FocusBoxes
<1>4. DirtyOr BY <1>1, <1>2, SignedDirty
<1>5. browser' \in BOOLEAN BY <1>1 DEF ScreenInv, ShapeInv
<1> QED BY <1>1, <1>3, <1>4, <1>5, PressIdle

LEMMA ClickFileScreen ==
  ASSUME DesktopInv, ScreenInv, OtherLength, "files" \in Windows, NEW f, NEW soon, ClickFile(f, soon)
  PROVE  ScreenStep
<1>1. /\ Press /\ DirtyIfChanged /\ UNCHANGED <<notes, browser, drag>>
      /\ \/ "notepad" \in Windows /\ windows' = Raise("notepad")
         \/ windows' = Focus(windows, "files")
  BY DEF ClickFile, OnWindow
<1>2. WindowsOK(windows) /\ Boxes(windows) /\ ShapeInv BY DEF DesktopInv, ScreenInv, ShapeInv
<1>3. Boxes(windows') BY <1>1, <1>2, RaiseBoxes, FocusBoxes
<1>4. DirtyOr BY <1>1, <1>2, SignedDirty DEF OtherLength, Press
<1>5. browser' \in BOOLEAN BY <1>1 DEF ScreenInv, ShapeInv
<1> QED BY <1>1, <1>3, <1>4, <1>5, PressIdle

\* A drag begins: the pixels are kept, if there is room for them.
LEMMA ClickTitleScreen ==
  ASSUME DesktopInv, ScreenInv, NEW id \in Windows, ClickTitle(id)
  PROVE  ScreenStep
<1>1. /\ Press /\ ~browser /\ windows' = Focus(windows, id)
      /\ UNCHANGED <<notes, notepad, browser, icon>>
  BY DEF ClickTitle, OnWindow, apps
<1>2. WindowsOK(windows) /\ Boxes(windows) /\ ShapeInv BY DEF DesktopInv, ScreenInv, ShapeInv
<1>3. Boxes(windows') BY <1>1, <1>2, FocusBoxes
<1>4. browser' \in BOOLEAN /\ mouse.x \in Int /\ windows[id].x \in Int /\ icon = NoIcon
  BY <1>1, <1>2 DEF ShapeInv, Boxes, Box, MouseOK, ScreenInv, HeldInv, HandsOff, Press
<1>5. windows'[id].focused
  <2>1. On(windows[id]) BY OnScreen DEF ClickTitle
  <2> QED BY <1>1, <1>2, <2>1, FocusIs
<1>6. CASE drag' = drag /\ DirtyIfChanged
  <2>1. DirtyOr BY <1>1, <1>2, <1>6, SignedDirty
  <2> QED BY <1>1, <1>3, <1>4, <1>6, <2>1, PressIdle
<1>7. ASSUME NEW kept, drag' = [active |-> TRUE, id |-> id, dx |-> mouse.x - windows[id].x,
                                cache |-> kept]
      PROVE  DragOK(drag') /\ Dragged' /\ drag'.active /\ drag'.id = id /\ drag'.cache = kept
  BY <1>1, <1>4, <1>5, <1>7 DEF DragOK, Dragged
<1>8. CASE /\ drag' = [active |-> TRUE, id |-> id, dx |-> mouse.x - windows[id].x, cache |-> NoCache]
           /\ DirtyIfChanged
  <2>1. DirtyOr BY <1>1, <1>2, <1>8, SignedDirty
  <2>2. DragOK(drag') /\ Dragged' /\ drag'.cache = NoCache BY <1>7, <1>8
  <2>3. ~drag'.cache.used BY <2>2 DEF NoCache
  <2> QED BY <1>1, <1>3, <1>4, <2>1, <2>2, <2>3, PressDone
<1>9. CASE /\ drag' = [active |-> TRUE, id |-> id, dx |-> mouse.x - windows[id].x,
                       cache |-> [used |-> TRUE, pixels |-> Scene(id)']]
           /\ view' = [screen |-> Scene(id)', rendered |-> TRUE,
                       dirty |-> IF Signature' # Signature THEN Cells ELSE {}]
  <2> DEFINE scene == Scene(id)'
  <2>1. scene = [c \in Cells |-> Picture(c, id)'] BY DEF Scene, Cells
  <2>2. DragOK(drag') /\ Dragged' /\ drag'.active /\ drag'.id = id
        /\ drag'.cache = [used |-> TRUE, pixels |-> scene]
    BY <1>7, <1>9
  <2>3. \/ view' = [screen |-> scene, rendered |-> TRUE, dirty |-> Cells]
        \/ view' = [screen |-> scene, rendered |-> TRUE, dirty |-> {}]
    BY <1>9
  <2>4. scene = [c \in Cells |-> scene[c]] /\ \A c \in Cells : scene[c] = Picture(c, id)'
    BY <2>1
  <2> HIDE DEF scene
  <2>5. Bounded({}) BY DEF Bounded
  <2>6. ViewOK(view') /\ view'.screen = scene BY <2>3, <2>4, <2>5, CellsAre DEF ViewOK
  <2>7. mouse' = mouse /\ pc = "press" /\ pc' = "move" BY <1>1 DEF Press
  <2>8. ShapeInv' BY <1>2, <1>3, <1>4, <2>2, <2>6, <2>7 DEF ShapeInv
  <2>9. HeldInv' BY <2>2, <2>7 DEF HeldInv, ScreenInv
  <2>10. Cached' /\ drag'.cache.pixels = scene BY <2>2 DEF Cached
  <2>11. CacheInv' BY <2>2, <2>4, <2>6, <2>10 DEF CacheInv
  <2>12. CleanInv'
    <3> SUFFICES ASSUME NEW c \in Cells, c \notin Extent(id)' PROVE view'.screen[c] = Now(c)'
      BY <2>2, <2>7, <2>10 DEF CleanInv, Moving
    <3>1. id \notin WindowsAt(c)' BY DEF WindowsAt
    <3>2. Picture(c, id)' = Picture(c, "none")' BY <3>1, PictureWithoutNext
    <3>3. Now(c)' = Picture(c, "none")' BY <1>1 DEF Now
    <3> QED BY <2>4, <2>6, <3>2, <3>3
  <2> QED BY <2>8, <2>9, <2>11, <2>12 DEF ScreenStep, ScreenInv
<1> QED BY <1>6, <1>8, <1>9 DEF ClickTitle

LEMMA PressScreen == ASSUME DesktopInv, ScreenInv, OtherLength, Click PROVE ScreenStep
<1>1. ASSUME NEW app \in Apps, ClickDock(app) \/ ClickMenu(app) PROVE ScreenStep
  BY <1>1, LaunchScreen
<1>2. ASSUME NEW id \in Windows,
             \/ ClickClose(id) \/ ClickMinimize(id) \/ ClickMaximize(id)
             \/ ClickTitle(id) \/ ClickBody(id)
      PROVE  ScreenStep
  BY <1>2, ClickCloseScreen, ClickMinimizeScreen, ClickInsideScreen, ClickTitleScreen
<1>3. ASSUME "files" \in Windows, NEW f \in Files \cup {NoFile}, NEW soon \in BOOLEAN, ClickFile(f, soon)
      PROVE  ScreenStep
  BY <1>3, ClickFileScreen
<1>4. ASSUME \/ ClickBrowser \/ ClickStart \/ ClickPower \/ ClickNothing
             \/ \E app \in Apps : ClickIcon(app)
      PROVE  ScreenStep
  BY <1>4, ClickScreen
<1> QED BY <1>1, <1>2, <1>3, <1>4 DEF Click

-----------------------------------------------------------------------------
LEMMA ReleaseScreen == ASSUME DesktopInv, ScreenInv, Release PROVE ScreenStep
<1>1. /\ pc' = "move" /\ mouse' = mouse /\ drag' = NoDrag /\ icon' = NoIcon
      /\ view' = [view EXCEPT !.dirty = Cells]
  BY DEF Release, Freed
<1>2. Boxes(windows) /\ browser \in BOOLEAN /\ ShapeInv BY DEF ScreenInv, ShapeInv
<1>3. Boxes(windows') /\ browser' \in BOOLEAN
  <2>1. CASE Launch(icon.app, ui.start) BY <1>2, <2>1, LaunchBoxes
  <2>2. CASE UNCHANGED <<windows, browser>> BY <1>2, <2>2
  <2> QED BY <2>1, <2>2 DEF Release
<1>4. ViewOK(view') /\ view'.dirty = Cells BY <1>1, <1>2, ViewField, CellsAre DEF ShapeInv
<1>5. DragOK(drag') /\ ~drag'.active BY <1>1 DEF NoDrag, DragOK
<1>6. ShapeInv' BY <1>1, <1>2, <1>3, <1>4, <1>5 DEF ShapeInv
<1>7. HeldInv' BY <1>1, <1>5 DEF HeldInv, HandsOff
<1>8. CacheInv' BY <1>5 DEF CacheInv, Cached
<1>9. CleanInv' BY <1>4 DEF CleanInv
<1> QED BY <1>6, <1>7, <1>8, <1>9 DEF ScreenStep, ScreenInv

\* The kept pixels, where neither they nor the windows change.
LEMMA CacheStays ==
  ASSUME CacheInv, AsShown, drag' = drag, view'.screen = view.screen
  PROVE  CacheInv'
<1> SUFFICES ASSUME Cached'
             PROVE  (\A c \in Cells :
                       /\ drag.cache.pixels[c] = Picture(c, drag.id)
                       /\ c \notin Extent(drag.id) => view.screen[c] = Picture(c, drag.id))'
  BY DEF CacheInv
<1>1. Cached BY DEF Cached
<1>2. PICK id : id = drag.id OBVIOUS
<1>3. drag'.id = id BY <1>2
<1>4. ASSUME NEW c \in Cells
      PROVE  /\ drag'.cache.pixels[c] = Picture(c, id)'
             /\ c \notin Extent(id)' => view'.screen[c] = Picture(c, id)'
  <2>1. Picture(c, id)' = Picture(c, id) BY SamePictures
  <2>2. Extent(id)' = Extent(id) BY DEF AsShown, Extent
  <2> QED BY <1>1, <1>2, <2>1, <2>2 DEF CacheInv
<1> QED BY <1>3, <1>4

LEMMA SampleScreen ==
  ASSUME ScreenInv, NEW x \in Cells, NEW b \in BOOLEAN, Sample(x, b)
  PROVE  ScreenStep
<1>1. /\ pc = "idle" /\ mouse' = [mouse EXCEPT !.x = x, !.button = b]
      /\ pc' = IF b = mouse.previous THEN "move" ELSE IF b THEN "press" ELSE "release"
      /\ UNCHANGED <<windows, ui, drag, icon, terminal, notepad, notes, files, browser>>
  BY DEF Sample, apps
<1>2. ShapeInv BY DEF ScreenInv
<1>3. MouseOK(mouse') /\ mouse'.button = b /\ mouse'.previous = mouse.previous
  <2>1. x \in Int BY CellsAre
  <2> QED BY <1>1, <1>2, <2>1 DEF ShapeInv, MouseOK
<1>4. ViewOK(view') /\ view'.screen = view.screen /\ view.dirty \subseteq view'.dirty
  <2> DEFINE d == IF x # mouse.x \/ b # mouse.previous
                  THEN Hull(view.dirty, {x, mouse.x}) ELSE view.dirty
             v == [view EXCEPT !.rendered = FALSE]
  <2>1. view' = [v EXCEPT !.dirty = d] BY <1>2 DEF Sample, ShapeInv, ViewOK
  <2>2. Bounded({x, mouse.x}) BY <1>2, CellsAre, BoundedPair DEF ShapeInv, MouseOK
  <2>3. Bounded(view.dirty) BY <1>2 DEF ShapeInv, ViewOK
  <2>4. Bounded(d) /\ view.dirty \subseteq d BY <2>2, <2>3, HullCovers
  <2>5. ViewOK(v) /\ v.screen = view.screen BY <1>2, ViewSampled DEF ShapeInv
  <2> HIDE DEF v, d
  <2> QED BY <2>1, <2>4, <2>5, ViewField
<1>5. AsShown BY <1>1 DEF AsShown
<1>6. ShapeInv' BY <1>1, <1>2, <1>3, <1>4 DEF ShapeInv
<1>7. HeldInv'
  <2>1. drag'.active => Dragged' BY <1>1 DEF ScreenInv, HeldInv, Dragged
  <2>2. HandsOff' = HandsOff BY <1>1 DEF HandsOff
  <2>3. ~mouse.previous => HandsOff BY <1>1 DEF ScreenInv, HeldInv
  <2>4. pc' = "press" => b /\ b # mouse.previous BY <1>1
  <2>5. pc' = "move" => b = mouse.previous BY <1>1
  <2>6. pc' \in {"move", "press", "release"} BY <1>1
  <2>7. pc' = "press" => mouse'.button /\ HandsOff'
    <3> SUFFICES ASSUME pc' = "press" PROVE b /\ HandsOff BY <1>3, <2>2
    <3>1. b /\ b = TRUE /\ b # mouse.previous BY <2>4
    <3>2. CASE mouse.previous = FALSE BY <2>3, <3>1, <3>2
    <3>3. CASE mouse.previous # FALSE BY <1>2, <3>1, <3>3 DEF ShapeInv, MouseOK
    <3> QED BY <3>2, <3>3
  <2>8. pc' = "move" /\ ~mouse'.button => HandsOff' BY <1>3, <2>2, <2>3, <2>5
  <2> QED BY <2>1, <2>6, <2>7, <2>8 DEF HeldInv
<1>8. CacheInv' BY <1>1, <1>4, <1>5, CacheStays DEF ScreenInv
<1>9. CleanInv'
  <2>1. \A c \in Cells : Now(c)' = Now(c) BY <1>1, <1>5, NowSame
  <2> QED BY <1>1, <1>4, <2>1, CleanStays DEF ScreenInv
<1> QED BY <1>6, <1>7, <1>8, <1>9 DEF ScreenStep, ScreenInv

\* An icon moves, or nothing does: nothing is dragged then.
LEMMA MoveRestScreen == ASSUME DesktopInv, ScreenInv, MoveIcon \/ MoveNothing PROVE ScreenStep
<1>1. /\ pc = "move" /\ pc' = "keys"
      /\ UNCHANGED <<windows, ui, terminal, notepad, notes, files, browser, mouse, view>>
      /\ drag' = drag \/ drag' = [drag EXCEPT !.active = FALSE]
  BY DEF MoveIcon, MoveNothing, apps
<1>2. ~drag.active
  <2>1. drag.active => drag.id \in Windows /\ windows[drag.id].focused /\ icon = NoIcon
    BY DEF ScreenInv, HeldInv, Dragged
  <2>2. drag.active => windows[drag.id].visible BY <2>1 DEF DesktopInv, FocusFits, On
  <2> QED BY <2>1, <2>2 DEF MoveIcon, MoveNothing
<1>3. DragOK(drag') /\ ~drag'.active BY <1>1, <1>2 DEF ScreenInv, ShapeInv, DragOK
<1>4. ShapeInv' BY <1>1, <1>3 DEF ScreenInv, ShapeInv
<1>5. HeldInv'
  <2>1. ~mouse.button => HandsOff BY <1>1 DEF ScreenInv, HeldInv
  <2>2. ~mouse.button => icon' = NoIcon
    <3>1. ~mouse.button => ~MoveIcon BY <2>1 DEF HandsOff, MoveIcon
    <3>2. MoveNothing => icon' = NoIcon BY DEF MoveNothing
    <3> QED BY <3>1, <3>2
  <2>3. ~mouse'.button => HandsOff' BY <1>1, <1>3, <2>2 DEF HandsOff
  <2> QED BY <1>1, <1>3, <2>3 DEF HeldInv
<1>6. CacheInv' BY <1>3 DEF CacheInv, Cached
<1>7. CleanInv'
  <2>1. AsShown BY <1>1 DEF AsShown
  <2>2. \A c \in Cells : Now(c)' = Now(c) BY <1>1, <2>1, NowSame
  <2>3. ~Cached BY <1>2 DEF Cached
  <2> QED BY <1>1, <2>2, <2>3, CleanStays DEF ScreenInv
<1> QED BY <1>4, <1>5, <1>6, <1>7 DEF ScreenStep, ScreenInv

-----------------------------------------------------------------------------
\* A window is dragged.
LEMMA MovedBoxes ==
  ASSUME WindowsOK(windows), Boxes(windows), NEW id \in Windows, NEW x \in Int
  PROVE  LET ws == [windows EXCEPT ![id].x = x]
         IN  /\ Boxes(ws) /\ ws[id].x = x /\ ws[id].w = windows[id].w
             /\ \A v \in Windows : v # id => ws[v] = windows[v]
<1> DEFINE w == windows[id]
           to == [w EXCEPT !.x = x]
           ws == [windows EXCEPT ![id].x = x]
<1>1. WindowOK(w) /\ Box(w) BY DEF WindowsOK, Boxes
<1>2. ws = [v \in Windows |-> IF v = id THEN to ELSE windows[v]] BY DEF WindowsOK
<1> HIDE DEF w, ws
<1>3. Box(to) /\ to.x = x /\ to.w = w.w BY <1>1 DEF WindowOK, Box
<1> HIDE DEF to
<1>4. Boxes(ws) BY <1>2, <1>3, OneBox
<1>5. ws[id] = to /\ \A v \in Windows : v # id => ws[v] = windows[v] BY <1>2
<1> QED BY <1>3, <1>4, <1>5 DEF ws, w

\* The dragged window, drawn over the pixels it was left out of.
LEMMA OverIs ==
  ASSUME NEW c, NEW id \in Windows, On(windows'[id]), Look(id)' = Look(id)
  PROVE  Over(Picture(c, id)', id, windows', c) = Picture(c, "none")'
<1> DEFINE there == c \in windows'[id].x .. windows'[id].x + windows'[id].w - 1
           pixel == Picture(c, id)'
<1>1. id \in WindowsAt(c)' <=> there BY DEF WindowsAt, Shown, Extent, On
<1>2. CASE ~there
  <2>1. Over(pixel, id, windows', c) = pixel BY <1>2 DEF Over
  <2>2. pixel = Picture(c, "none")' BY <1>1, <1>2, PictureWithoutNext
  <2> QED BY <2>1, <2>2
<1>3. CASE there
  <2> DEFINE others == [v \in WindowsAt(c)' \ {id} |-> Look(v)']
             all == [v \in WindowsAt(c)' |-> Look(v)']
             put == [v \in DOMAIN pixel.wins \cup {id} |-> IF v = id THEN Look(id) ELSE pixel.wins[v]]
  <2>1. pixel = [kind |-> "desktop", wallpaper |-> ui'.wallpaper,
                 start |-> DrawStartMenu(c)', wins |-> others]
    BY DEF Picture
  <2>2. Picture(c, "none")' = [kind |-> "desktop", wallpaper |-> ui'.wallpaper,
                               start |-> DrawStartMenu(c)', wins |-> all]
    <3>1. WindowsAt(c)' \ {"none"} = WindowsAt(c)' BY NoneIsNone DEF WindowsAt
    <3> QED BY <3>1 DEF Picture
  <2>3. Over(pixel, id, windows', c) = [pixel EXCEPT !.wins = put] BY <1>3 DEF Over, On
  <2>4. pixel.wins = others BY <2>1
  <2>5. put = all
    <3>1. DOMAIN pixel.wins \cup {id} = WindowsAt(c)' BY <1>1, <1>3, <2>4
    <3>2. ASSUME NEW v \in WindowsAt(c)', v # id PROVE pixel.wins[v] = Look(v)' BY <2>4, <3>2
    <3> QED BY <3>1, <3>2
  <2> HIDE DEF others, all, put, pixel
  <2>6. [pixel EXCEPT !.wins = put] = [kind |-> "desktop", wallpaper |-> ui'.wallpaper,
                                       start |-> DrawStartMenu(c)', wins |-> put]
    BY <2>1
  <2> QED BY <2>2, <2>3, <2>5, <2>6 DEF pixel
<1> QED BY <1>2, <1>3

LEMMA MoveWindowScreen == ASSUME DesktopInv, ScreenInv, MoveWindow PROVE ScreenStep
<1>1. PICK id : id = drag.id OBVIOUS
<1>2. PICK x : x = Clamp(mouse.x - drag.dx, windows[id].w) OBVIOUS
<1> DEFINE over == Extent(id) \cup (x .. x + windows[id].w - 1)
<1>3. /\ pc = "move" /\ pc' = "keys" /\ drag.active /\ windows' = [windows EXCEPT ![id].x = x]
      /\ UNCHANGED <<ui, drag, icon, terminal, notepad, notes, files, browser, mouse>>
  BY <1>1, <1>2 DEF MoveWindow, apps
<1>4. view' = IF drag.cache.used
              THEN [view EXCEPT !.dirty = {},
                      !.screen = [c \in Cells |-> IF c \in Hull(over, over)
                          THEN Over(drag.cache.pixels[c], id, windows', c) ELSE view.screen[c]]]
              ELSE [view EXCEPT !.dirty = IF windows' = windows THEN view.dirty
                                          ELSE Hull(view.dirty, over)]
  BY <1>1, <1>2 DEF MoveWindow
<1>5. id \in Windows /\ windows[id].focused /\ ~browser
  BY <1>1, <1>3 DEF ScreenInv, HeldInv, Dragged
<1>6. WindowsOK(windows) /\ Boxes(windows) /\ On(windows[id]) /\ ShapeInv
  BY <1>5 DEF DesktopInv, FocusFits, ScreenInv, ShapeInv
<1>7. windows[id].x \in Int /\ windows[id].w \in Int BY <1>5, <1>6 DEF Boxes, Box
<1>8. x \in Int
  <2>1. mouse.x - drag.dx \in Int BY <1>6 DEF ShapeInv, MouseOK, DragOK
  <2> QED BY <1>2, <1>7, <2>1, ClampIs
<1>9. /\ Boxes(windows') /\ windows'[id].x = x /\ windows'[id].w = windows[id].w
      /\ \A v \in Windows : v # id => windows'[v] = windows[v]
  BY <1>3, <1>5, <1>6, <1>8, MovedBoxes
<1>10. SameFlags(windows, windows') BY <1>3, <1>6, MovedIs
<1>11. On(windows'[id]) /\ windows'[id].focused BY <1>5, <1>6, <1>10 DEF SameFlags, On
<1>12. \A v \in Windows : Look(v)' = Look(v) BY <1>3, <1>10, LookNext DEF SameFlags
<1>13. Extent(id)' = x .. x + windows[id].w - 1 BY <1>9 DEF Extent
<1>14. \A c : WindowsAt(c)' \ {id} = WindowsAt(c) \ {id}
  BY <1>9 DEF WindowsAt, Shown, Extent
<1>15. \A c : Picture(c, id)' = Picture(c, id)
  <2> SUFFICES ASSUME NEW c PROVE Picture(c, id)' = Picture(c, id) OBVIOUS
  <2>1. \A v \in WindowsAt(c) \ {id} : Look(v)' = Look(v) BY <1>12 DEF WindowsAt
  <2> QED BY <1>3, <1>14, <2>1, PictureNext
<1>16. Bounded(over) /\ Extent(id) \subseteq over /\ Extent(id)' \subseteq over
  <2>1. Bounded(Extent(id)) BY <1>7, BoundedRun DEF Extent
  <2>2. Bounded(x .. x + windows[id].w - 1) BY <1>7, <1>8, BoundedRun
  <2> QED BY <1>13, <2>1, <2>2, BoundedUnion
<1> HIDE DEF over
<1>17. \A c : c \notin over => Picture(c, id) = Picture(c, "none") /\ Picture(c, id)' = Picture(c, "none")'
  <2> SUFFICES ASSUME NEW c, c \notin over
               PROVE  Picture(c, id) = Picture(c, "none") /\ Picture(c, id)' = Picture(c, "none")'
    OBVIOUS
  <2>1. id \notin WindowsAt(c) /\ id \notin WindowsAt(c)' BY <1>16 DEF WindowsAt
  <2> QED BY <2>1, PictureWithout, PictureWithoutNext
<1>18. HeldInv'
  <2>1. Dragged' BY <1>1, <1>3, <1>5, <1>11 DEF Dragged, ScreenInv, HeldInv
  <2>2. ~mouse'.button => HandsOff' BY <1>3 DEF ScreenInv, HeldInv, HandsOff
  <2> QED BY <1>3, <2>1, <2>2 DEF HeldInv
<1>19. \A c : Now(c)' = Picture(c, "none")' BY <1>3, <1>5 DEF Now
<1>20. ASSUME ViewOK(view') PROVE ShapeInv' BY <1>3, <1>6, <1>9, <1>20 DEF ShapeInv
<1>21. drag'.id = id BY <1>1, <1>3
<1>22. CASE drag.cache.used
  <2> DEFINE screen == [c \in Cells |-> IF c \in Hull(over, over)
                          THEN Over(drag.cache.pixels[c], id, windows', c) ELSE view.screen[c]]
  <2>1. view' = [view EXCEPT !.dirty = {}, !.screen = screen] BY <1>4, <1>22
  <2>2. screen = [c \in Cells |-> screen[c]] OBVIOUS
  <2>3. ASSUME NEW c \in Cells PROVE screen[c] = Picture(c, "none")'
    <3>1. /\ drag.cache.pixels[c] = Picture(c, id)
          /\ c \notin Extent(id) => view.screen[c] = Picture(c, id)
      BY <1>1, <1>3, <1>22 DEF ScreenInv, CacheInv, Cached
    <3>2. CASE c \in Hull(over, over)
      <4>1. screen[c] = Over(Picture(c, id)', id, windows', c) BY <1>15, <3>1, <3>2
      <4> QED BY <1>5, <1>11, <1>12, <4>1, OverIs
    <3>3. CASE c \notin Hull(over, over)
      <4>1. c \notin over /\ c \notin Extent(id) BY <1>16, <3>3, HullCovers
      <4>2. screen[c] = view.screen[c] BY <3>3
      <4> QED BY <1>15, <1>17, <3>1, <4>1, <4>2
    <3> QED BY <3>2, <3>3
  <2> HIDE DEF screen
  <2>4. ViewOK(view') /\ view'.screen = screen
    <3>1. Bounded({}) BY DEF Bounded
    <3>2. view = [dirty |-> view.dirty, screen |-> view.screen, rendered |-> view.rendered]
      BY <1>6 DEF ShapeInv, ViewOK
    <3>3. view' = [dirty |-> {}, screen |-> screen, rendered |-> view.rendered] BY <2>1, <3>2
    <3> QED BY <2>2, <3>1, <3>3 DEF ViewOK
  <2>5. CacheInv'
    <3> SUFFICES ASSUME NEW c \in Cells
                 PROVE  /\ drag'.cache.pixels[c] = Picture(c, id)'
                        /\ c \notin Extent(id)' => view'.screen[c] = Picture(c, id)'
      BY <1>21 DEF CacheInv
    <3>1. drag'.cache.pixels[c] = Picture(c, id)'
      BY <1>1, <1>3, <1>15, <1>22 DEF ScreenInv, CacheInv, Cached
    <3>2. c \notin Extent(id)' => Picture(c, "none")' = Picture(c, id)'
      <4>1. c \notin Extent(id)' => id \notin WindowsAt(c)' BY DEF WindowsAt
      <4> QED BY <4>1, PictureWithoutNext
    <3> QED BY <2>3, <2>4, <3>1, <3>2
  <2>6. CleanInv' BY <1>19, <2>3, <2>4 DEF CleanInv
  <2> QED BY <1>18, <1>20, <2>4, <2>5, <2>6 DEF ScreenStep, ScreenInv
<1>23. CASE ~drag.cache.used
  <2> DEFINE d == IF windows' = windows THEN view.dirty ELSE Hull(view.dirty, over)
  <2>1. view' = [view EXCEPT !.dirty = d] BY <1>4, <1>23
  <2>2. Bounded(view.dirty) BY <1>6 DEF ShapeInv, ViewOK
  <2>3. Bounded(d) /\ view.dirty \subseteq d BY <1>16, <2>2, HullCovers
  <2>4. windows' # windows => over \subseteq d BY <1>16, <2>2, HullCovers
  <2> HIDE DEF d
  <2>5. ViewOK(view') /\ view'.screen = view.screen /\ view'.dirty = d
    BY <1>6, <2>1, <2>3, ViewField DEF ShapeInv
  <2>6. ~Cached BY <1>23 DEF Cached
  <2>7. CacheInv' BY <1>3, <1>23 DEF CacheInv, Cached
  <2>8. CleanInv'
    <3>1. \A c \in Cells : c \in d \/ Now(c)' = Now(c)
      <4> SUFFICES ASSUME NEW c \in Cells, c \notin d PROVE Now(c)' = Now(c) OBVIOUS
      <4>1. CASE windows' = windows
        <5>1. AsShown BY <1>3, <4>1 DEF AsShown
        <5> QED BY <1>3, <5>1, NowSame
      <4>2. CASE windows' # windows
        <5>1. c \notin over BY <2>4, <4>2
        <5>2. Picture(c, "none")' = Picture(c, "none") BY <1>15, <1>17, <5>1
        <5> QED BY <1>5, <1>19, <5>2 DEF Now
      <4> QED BY <4>1, <4>2
    <3> QED BY <1>3, <2>3, <2>5, <2>6, <3>1, CleanStays DEF ScreenInv
  <2> QED BY <1>18, <1>20, <2>5, <2>7, <2>8 DEF ScreenStep, ScreenInv
<1> QED BY <1>22, <1>23

-----------------------------------------------------------------------------
\* What a key makes dirty: all, or at least the window that has the focus.
LEMMA KeyDirty ==
  ASSUME ShapeInv, DesktopStep, Boxes(windows'), NEW opened, DirtyFocused(opened)
  PROVE  /\ ViewOK(view') /\ view'.screen = view.screen
         /\ Cells \cap view.dirty \subseteq view'.dirty
         /\ \A v \in Windows : windows'[v].focused => Cells \cap Extent(v)' \subseteq view'.dirty
         /\ (\A v \in Windows : ~windows'[v].focused) => Cells \subseteq view'.dirty
         /\ opened => Cells \subseteq view'.dirty
<1> DEFINE near == FocusedCells'
           d == IF opened THEN Cells ELSE Hull(view.dirty, near)
<1>1. view' = [view EXCEPT !.dirty = d] BY DEF DirtyFocused
<1>2. ViewOK(view) /\ Bounded(view.dirty) BY DEF ShapeInv, ViewOK
<1>3. FocusFits(windows', ui') BY DEF DesktopStep, DesktopInv
<1>4. /\ Bounded(near)
      /\ \A v \in Windows : windows'[v].focused => near = Cells \cap Extent(v)'
      /\ (\A v \in Windows : ~windows'[v].focused) => near = Cells
  <2> DEFINE f == {v \in Windows : Shown(v)' /\ windows'[v].focused}
             all == UNION {Extent(v)' : v \in f}
  <2>1. near = IF f = {} THEN Cells ELSE all \cap Cells
    BY DEF FocusedCells, Cells
  <2>2. f = {v \in Windows : windows'[v].focused} BY <1>3 DEF FocusFits, Shown, On
  <2> HIDE DEF near, f, all
  <2>3. CASE \A v \in Windows : ~windows'[v].focused
    <3>1. near = Cells BY <2>1, <2>2, <2>3
    <3> QED BY <2>3, <3>1, CellsAre
  <2>4. ASSUME NEW v \in Windows, windows'[v].focused
        PROVE  near = Cells \cap Extent(v)' /\ Bounded(Cells \cap Extent(v)')
    <3>1. f = {v} BY <1>3, <2>2, <2>4 DEF FocusFits
    <3>2. all = Extent(v)' BY <3>1 DEF all
    <3>3. near = Cells \cap Extent(v)'
      <4>1. f # {} BY <3>1
      <4>2. near = all \cap Cells BY <2>1, <4>1
      <4> QED BY <3>2, <4>2
    <3>4. Bounded(Cells \cap Extent(v)')
      <4>1. windows'[v].x \in Int /\ windows'[v].w \in Int /\ Width \in Int
        BY DesktopAssumption DEF Boxes, Box, DesktopAssumption
      <4>2. ASSUME NEW p \in Int, NEW q \in Int, NEW r \in Int PROVE Bounded((0 .. r) \cap (p .. q))
        <5> DEFINE lo == IF p <= 0 THEN 0 ELSE p
                   hi == IF q <= r THEN q ELSE r
        <5>1. lo \in Int /\ hi \in Int OBVIOUS
        <5>2. (0 .. r) \cap (p .. q) = lo .. hi OBVIOUS
        <5> HIDE DEF lo, hi
        <5>3. Bounded(lo .. hi) BY <5>1, BoundedRun
        <5> QED BY <5>2, <5>3
      <4>3. Width - 1 \in Int /\ windows'[v].x + windows'[v].w - 1 \in Int BY <4>1
      <4>4. Bounded((0 .. Width - 1) \cap (windows'[v].x .. windows'[v].x + windows'[v].w - 1))
        BY <4>1, <4>2, <4>3
      <4> QED BY <4>4 DEF Cells, Extent
    <3> QED BY <3>3, <3>4
  <2>5. CASE \E v \in Windows : windows'[v].focused BY <2>4, <2>5
  <2> QED BY <2>3, <2>4, <2>5
<1> HIDE DEF near
<1>5. Bounded(d) /\ Cells \cap view.dirty \subseteq d /\ (opened => d = Cells)
      /\ (near \subseteq Cells => near \subseteq d)
  BY <1>2, <1>4, CellsAre, HullCovers
<1> HIDE DEF d
<1>6. ViewOK(view') /\ view'.screen = view.screen /\ view'.dirty = d
  BY <1>1, <1>2, <1>5, ViewField
<1> QED BY <1>4, <1>5, <1>6

\* A key, when nothing is dragged after it.
LEMMA KeyIdle ==
  ASSUME ScreenInv, AtKeys, ShapeInv', ~drag'.active, view'.screen = view.screen,
         Cells \cap view.dirty \subseteq view'.dirty,
         \A c \in Cells : c \in view'.dirty \/ Now(c)' = Now(c)
  PROVE  ScreenStep
<1>1. pc = "keys" /\ pc' = "keys" /\ mouse' = mouse /\ icon' = icon BY DEF AtKeys
<1>2. ~mouse.button => HandsOff BY <1>1 DEF ScreenInv, HeldInv
<1>3. HeldInv' BY <1>1, <1>2 DEF HeldInv, HandsOff
<1>4. CacheInv' BY DEF CacheInv, Cached
<1>5. CleanInv' BY <1>1, CleanStays DEF ScreenInv
<1> QED BY <1>3, <1>4, <1>5 DEF ScreenStep, ScreenInv

LEMMA HideScreen ==
  ASSUME DesktopInv, DesktopStep, ScreenInv, AtKeys, NEW id \in Windows, windows[id].focused,
         Hide(id), NEW opened, DirtyFocused(opened)
  PROVE  ScreenStep
<1>1. windows' = Hidden(windows, id) /\ drag' = [drag EXCEPT !.active = FALSE]
      /\ mouse' = mouse /\ browser' = browser
  BY DEF Hide, AtKeys
<1>2. WindowsOK(windows) /\ FocusFits(windows, ui) /\ ShapeInv BY DEF DesktopInv, ScreenInv
<1>3. Boxes(windows') BY <1>1, <1>2, HiddenBoxes DEF ShapeInv
<1>4. ~windows'[id].focused /\ \A v \in Windows : v # id => windows'[v] = windows[v]
  BY <1>1, <1>2, HiddenIs
<1>5. \A v \in Windows : ~windows'[v].focused BY <1>2, <1>4 DEF FocusFits
<1>6. ViewOK(view') /\ view'.screen = view.screen /\ Cells \subseteq view'.dirty
      /\ Cells \cap view.dirty \subseteq view'.dirty
  BY <1>2, <1>3, <1>5, KeyDirty
<1>7. DragOK(drag') /\ ~drag'.active BY <1>1, <1>2 DEF ShapeInv, DragOK
<1>8. ShapeInv' BY <1>1, <1>2, <1>3, <1>6, <1>7 DEF ShapeInv
<1> QED BY <1>6, <1>7, <1>8, KeyIdle

\* A key that changes at most what the window with the focus shows.
LEMMA TypeScreen ==
  ASSUME DesktopInv, DesktopStep, ScreenInv, AtKeys, UNCHANGED <<windows, drag>>,
         ui'.start = ui.start, ui'.wallpaper = ui.wallpaper,
         NEW opened, DirtyFocused(opened),
         \A v \in Windows : windows[v].focused \/ Look(v)' = Look(v)
  PROVE  ScreenStep
<1>1. /\ pc = "keys" /\ pc' = "keys" /\ ~browser
      /\ UNCHANGED <<icon, mouse, browser, windows, drag>>
  BY DEF AtKeys
<1>2. FocusFits(windows, ui) /\ ShapeInv BY DEF DesktopInv, ScreenInv
<1>3. /\ ViewOK(view') /\ view'.screen = view.screen /\ Cells \cap view.dirty \subseteq view'.dirty
      /\ \A v \in Windows : windows[v].focused => Cells \cap Extent(v)' \subseteq view'.dirty
  BY <1>1, <1>2, KeyDirty DEF ShapeInv
<1>4. \A c : WindowsAt(c)' = WindowsAt(c) /\ \A v \in Windows : Extent(v)' = Extent(v)
  BY <1>1 DEF WindowsAt, Shown, Extent
<1>5. ASSUME NEW c, NEW s, \A v \in WindowsAt(c) \ {s} : ~windows[v].focused
      PROVE  Picture(c, s)' = Picture(c, s)
  <2>1. \A v \in WindowsAt(c) \ {s} : Look(v)' = Look(v) BY <1>5 DEF WindowsAt
  <2> QED BY <1>4, <2>1, PictureNext
<1>6. ShapeInv' BY <1>1, <1>2, <1>3 DEF ShapeInv
<1>7. HeldInv'
  <2>1. drag'.active => Dragged' BY <1>1 DEF ScreenInv, HeldInv, Dragged
  <2>2. ~mouse'.button => HandsOff' BY <1>1 DEF ScreenInv, HeldInv, HandsOff
  <2> QED BY <1>1, <2>1, <2>2 DEF HeldInv
<1>8. CacheInv'
  <2> SUFFICES ASSUME Cached', NEW c \in Cells
               PROVE  (/\ drag.cache.pixels[c] = Picture(c, drag.id)
                       /\ c \notin Extent(drag.id) => view.screen[c] = Picture(c, drag.id))'
    BY DEF CacheInv, Cells
  <2>1. PICK id : id = drag.id OBVIOUS
  <2>2. Cached /\ drag'.id = id BY <1>1, <2>1 DEF Cached
  <2>3. id \in Windows /\ windows[id].focused BY <2>1, <2>2 DEF ScreenInv, HeldInv, Dragged, Cached
  <2>4. \A v \in WindowsAt(c) \ {id} : ~windows[v].focused
    BY <1>2, <2>3 DEF FocusFits, WindowsAt
  <2>5. Picture(c, id)' = Picture(c, id) BY <1>5, <2>4
  <2>6. Extent(id)' = Extent(id) BY <1>4, <2>3
  <2>7. /\ drag'.cache.pixels[c] = Picture(c, id)'
        /\ c \notin Extent(id)' => view'.screen[c] = Picture(c, id)'
    BY <1>1, <1>3, <2>1, <2>2, <2>5, <2>6 DEF ScreenInv, CacheInv
  <2> QED BY <2>2, <2>7
<1>9. CleanInv'
  <2>1. ASSUME NEW c \in Cells, c \notin view'.dirty PROVE Now(c)' = Now(c)
    <3>1. \A v \in WindowsAt(c) \ {"none"} : ~windows[v].focused
      BY <1>3, <1>4, <2>1 DEF WindowsAt
    <3>2. Picture(c, "none")' = Picture(c, "none") BY <1>5, <3>1
    <3> QED BY <1>1, <3>2 DEF Now
  <2> QED BY <1>1, <1>3, <2>1, CleanStays DEF ScreenInv
<1> QED BY <1>6, <1>7, <1>8, <1>9 DEF ScreenStep, ScreenInv

\* Escape, when no window has the focus: the desktop is left.
LEMMA KeyEscScreen == ASSUME DesktopInv, DesktopStep, ScreenInv, KeyEsc PROVE ScreenStep
<1> DEFINE open == {id \in Windows : windows[id].focused}
           first == CHOOSE id \in open : \A o \in open : Index(id) <= Index(o)
<1>1. FocusFits(windows, ui) BY DEF DesktopInv
<1>2. AtKeys /\ DirtyFocused(~ui'.gui) /\ UNCHANGED <<terminal, notepad, files>> BY DEF KeyEsc
<1>3. \/ ui.tfocus /\ Hide("terminal")
      \/ open # {} /\ Hide(first)
      \/ CloseGui /\ UNCHANGED <<windows, drag, notes>>
  BY DEF KeyEsc
<1>4. CASE ui.tfocus /\ Hide("terminal")
  <2>1. "terminal" \in Windows /\ windows["terminal"].focused BY <1>1, <1>4 DEF FocusFits
  <2> QED BY <1>2, <1>4, <2>1, HideScreen
<1>5. CASE open # {} /\ Hide(first)
  <2>1. PICK id \in open : TRUE BY <1>5
  <2>2. \A o \in open : o = id BY <1>1, <2>1 DEF FocusFits
  <2>3. Index(id) \in Int BY <2>1, IndexIs
  <2>4. \A o \in open : Index(id) <= Index(o) BY <2>2, <2>3
  <2>5. first \in open BY <2>1, <2>4
  <2>6. first \in Windows /\ windows[first].focused BY <2>5
  <2> HIDE DEF first
  <2> QED BY <1>2, <1>5, <2>6, HideScreen
<1>6. CASE CloseGui /\ UNCHANGED <<windows, drag, notes>>
  <2>1. ui' = [ui EXCEPT !.gui = FALSE] BY <1>6 DEF CloseGui
  <2>2. ui'.start = ui.start /\ ui'.wallpaper = ui.wallpaper BY <2>1 DEF DesktopInv, UiOK
  <2>3. \A v \in Windows : Look(v)' = Look(v) BY <1>2, <1>6, LookNext
  <2> QED BY <1>2, <1>6, <2>2, <2>3, TypeScreen
<1> QED BY <1>3, <1>4, <1>5, <1>6

LEMMA KeyNotepadScreen ==
  ASSUME DesktopInv, DesktopStep, ScreenInv, NEW k, KeyNotepad(k) PROVE ScreenStep
<1>1. /\ AtKeys /\ ui.nfocus /\ DirtyFocused(FALSE)
      /\ UNCHANGED <<windows, ui, drag, terminal, notes, files>>
  BY DEF KeyNotepad
<1>2. windows["notepad"].focused BY <1>1 DEF DesktopInv, FocusFits
<1>3. \A v \in Windows : windows[v].focused \/ Look(v)' = Look(v) BY <1>1, <1>2, LookNext
<1> QED BY <1>1, <1>3, TypeScreen

LEMMA KeyTerminalScreen ==
  ASSUME DesktopInv, DesktopStep, ScreenInv, NEW k, KeyTerminal(k) PROVE ScreenStep
<1>1. AtKeys /\ ui.tfocus /\ DirtyFocused(FALSE) /\ UNCHANGED <<notepad, files>>
  BY DEF KeyTerminal
<1>2. "terminal" \in Windows /\ windows["terminal"].focused BY <1>1 DEF DesktopInv, FocusFits
<1>3. CASE Hide("terminal") BY <1>1, <1>2, <1>3, HideScreen
<1>4. CASE UNCHANGED <<windows, ui, drag, notes>>
  <2>1. \A v \in Windows : windows[v].focused \/ Look(v)' = Look(v) BY <1>1, <1>2, <1>4, LookNext
  <2> QED BY <1>1, <1>4, <2>1, TypeScreen
<1> QED BY <1>3, <1>4 DEF KeyTerminal

\* A shortcut opens a window that was shut: all is dirty.
LEMMA KeyDesktopScreen ==
  ASSUME DesktopInv, DesktopStep, ScreenInv, NEW k \in Keys, KeyDesktop(k), OpensShut
  PROVE  ScreenStep
<1>1. AtKeys BY DEF KeyDesktop
<1>2. CASE k \in DOMAIN Shortcut /\ Shortcut[k] \in Windows
  <2> DEFINE id == Shortcut[k]
  <2>1. /\ id \in Windows /\ Show(id) /\ drag' = drag /\ DirtyFocused(~windows[id].visible)
        /\ mouse' = mouse /\ browser' = browser
    BY <1>2 DEF KeyDesktop, AtKeys
  <2>2. ~windows[id].visible /\ ~drag.active BY <1>2 DEF OpensShut
  <2> HIDE DEF id
  <2>3. WindowsOK(windows) /\ ShapeInv BY DEF DesktopInv, ScreenInv
  <2>4. Boxes(windows')
    <3>1. windows' = Raise(id) BY <2>1 DEF Show
    <3> QED BY <2>1, <2>3, <3>1, RaiseBoxes DEF ShapeInv
  <2>5. ViewOK(view') /\ view'.screen = view.screen /\ Cells \subseteq view'.dirty
        /\ Cells \cap view.dirty \subseteq view'.dirty
    BY <2>1, <2>2, <2>3, <2>4, KeyDirty
  <2>6. ShapeInv' BY <2>1, <2>3, <2>4, <2>5 DEF ShapeInv
  <2> QED BY <1>1, <2>1, <2>2, <2>5, <2>6, KeyIdle
<1>3. CASE ~(k \in DOMAIN Shortcut /\ Shortcut[k] \in Windows)
  <2>1. DirtyFocused(FALSE) /\ UNCHANGED <<windows, ui, drag, terminal, notepad, notes, files>>
    BY <1>3 DEF KeyDesktop
  <2>2. \A v \in Windows : Look(v)' = Look(v) BY <2>1, LookNext
  <2> QED BY <1>1, <2>1, <2>2, TypeScreen
<1> QED BY <1>2, <1>3

\* The browser's keys; what it draws is drawn again, or all of the desktop is.
LEMMA KeyBrowserScreen == ASSUME ScreenInv, NEW k, KeyBrowser(k) PROVE ScreenStep
<1>1. /\ pc \in {"keys", "browsing"} /\ pc' = "browsing" /\ browser' = (browser /\ k # "esc")
      /\ UNCHANGED <<windows, ui, drag, icon, terminal, notepad, notes, files, mouse, view>>
  BY DEF KeyBrowser
<1>2. ShapeInv' BY <1>1 DEF ScreenInv, ShapeInv
<1>3. HeldInv'
  <2>1. drag'.active => Dragged' BY <1>1 DEF ScreenInv, HeldInv, Dragged
  <2>2. ~mouse'.button => HandsOff' BY <1>1 DEF ScreenInv, HeldInv, HandsOff
  <2> QED BY <1>1, <2>1, <2>2 DEF HeldInv
<1>4. AsShown BY <1>1 DEF AsShown
<1>5. CacheInv' BY <1>1, <1>4, CacheStays DEF ScreenInv
<1>6. CleanInv' BY <1>1 DEF CleanInv
<1> QED BY <1>2, <1>3, <1>5, <1>6 DEF ScreenStep, ScreenInv

LEMMA RenderScreen == ASSUME ScreenInv, Render PROVE ScreenStep
<1> DEFINE dirty == IF browser \/ pc = "browsing" THEN Cells ELSE view.dirty
           screen == IF browser THEN [c \in Cells |-> BrowserPicture] ELSE Drawn(dirty, view.screen)
<1>1. /\ pc \in {"keys", "browsing"} /\ pc' = "idle" /\ mouse' = [mouse EXCEPT !.previous = mouse.button]
      /\ UNCHANGED <<windows, ui, drag, icon, terminal, notepad, notes, files, browser>>
  BY DEF Render, apps
<1>2. view' = IF view.rendered THEN [view EXCEPT !.dirty = dirty]
              ELSE [view EXCEPT !.dirty = {}, !.screen = screen]
  BY DEF Render
<1>3. ShapeInv /\ ViewOK(view) BY DEF ScreenInv, ShapeInv
<1>4. MouseOK(mouse') /\ mouse'.previous = mouse.button BY <1>1, <1>3 DEF ShapeInv, MouseOK
<1>5. ASSUME ViewOK(view') PROVE ShapeInv' BY <1>1, <1>3, <1>4, <1>5 DEF ShapeInv
<1>6. HeldInv'
  <2>1. drag'.active => Dragged' BY <1>1 DEF ScreenInv, HeldInv, Dragged
  <2>2. ~mouse.button => HandsOff' BY <1>1 DEF ScreenInv, HeldInv, HandsOff
  <2> QED BY <1>1, <1>4, <2>1, <2>2 DEF HeldInv
<1>7. AsShown BY <1>1 DEF AsShown
<1>8. \A c : Now(c)' = Now(c) BY <1>1, <1>7, NowSame
<1>9. CASE view.rendered
  <2>1. Bounded(dirty) /\ Cells \cap view.dirty \subseteq dirty
        /\ (pc = "browsing" => dirty = Cells)
    BY <1>3, CellsAre DEF ViewOK
  <2>2. view' = [view EXCEPT !.dirty = dirty] BY <1>2, <1>9
  <2> HIDE DEF dirty
  <2>3. ViewOK(view') /\ view'.screen = view.screen /\ view'.dirty = dirty
    BY <1>3, <2>1, <2>2, ViewField
  <2>4. CacheInv' BY <1>1, <1>7, <2>3, CacheStays DEF ScreenInv
  <2>5. CleanInv'
    <3>1. CASE pc = "browsing" BY <2>1, <2>3, <3>1 DEF CleanInv
    <3>2. CASE pc = "keys" BY <1>8, <2>1, <2>3, <3>2, CleanStays DEF ScreenInv
    <3> QED BY <1>1, <3>1, <3>2
  <2> QED BY <1>5, <1>6, <2>3, <2>4, <2>5 DEF ScreenStep, ScreenInv
<1>10. CASE ~view.rendered
  <2>1. view' = [view EXCEPT !.dirty = {}, !.screen = screen] BY <1>2, <1>10
  <2>2. screen = [c \in Cells |-> screen[c]] BY DEF Drawn
  <2>3. \A c \in Cells : screen[c] = IF browser THEN BrowserPicture
                                     ELSE IF c \in dirty THEN Picture(c, "none") ELSE view.screen[c]
    BY DEF Drawn
  <2>4. pc = "browsing" => dirty = Cells OBVIOUS
  <2>5. ~browser /\ pc # "browsing" => dirty = view.dirty OBVIOUS
  <2> HIDE DEF screen, dirty
  <2>6. ViewOK(view') /\ view'.screen = screen
    <3>1. Bounded({}) BY DEF Bounded
    <3>2. view = [dirty |-> view.dirty, screen |-> view.screen, rendered |-> view.rendered]
      BY <1>3 DEF ViewOK
    <3>3. view' = [dirty |-> {}, screen |-> screen, rendered |-> view.rendered] BY <2>1, <3>2
    <3> QED BY <2>2, <3>1, <3>3 DEF ViewOK
  <2>7. ASSUME NEW c \in Cells PROVE screen[c] = Now(c)
    <3>1. CASE browser BY <2>3, <3>1 DEF Now
    <3>2. CASE ~browser /\ c \in dirty BY <2>3, <3>2 DEF Now
    <3>3. CASE ~browser /\ c \notin dirty
      <4>1. pc = "keys" /\ c \notin view.dirty BY <1>1, <2>4, <2>5, <3>3
      <4>2. view.screen[c] = Now(c) BY <4>1 DEF ScreenInv, CleanInv, Moving
      <4> QED BY <2>3, <3>3, <4>2
    <3> QED BY <3>1, <3>2, <3>3
  <2>8. CleanInv' BY <1>8, <2>6, <2>7 DEF CleanInv
  <2>9. CacheInv'
    <3> SUFFICES ASSUME Cached', NEW c \in Cells
                 PROVE  (/\ drag.cache.pixels[c] = Picture(c, drag.id)
                         /\ c \notin Extent(drag.id) => view.screen[c] = Picture(c, drag.id))'
      BY DEF CacheInv, Cells
    <3>1. PICK id : id = drag.id OBVIOUS
    <3>2. Cached /\ drag'.id = id BY <1>1, <3>1 DEF Cached
    <3>3. ~browser BY <3>2 DEF ScreenInv, HeldInv, Dragged, Cached
    <3>4. Picture(c, id)' = Picture(c, id) BY <1>7, SamePictures
    <3>5. Extent(id)' = Extent(id) BY <1>7 DEF AsShown, Extent
    <3>6. c \notin Extent(id) => screen[c] = Picture(c, id)
      <4> SUFFICES ASSUME c \notin Extent(id) PROVE screen[c] = Picture(c, id) OBVIOUS
      <4>1. id \notin WindowsAt(c) BY DEF WindowsAt
      <4>2. Picture(c, id) = Picture(c, "none") BY <4>1, PictureWithout
      <4> QED BY <2>7, <3>3, <4>2 DEF Now
    <3>7. drag'.cache.pixels[c] = Picture(c, id)'
      BY <1>1, <3>1, <3>2, <3>4 DEF ScreenInv, CacheInv
    <3> QED BY <2>6, <3>2, <3>4, <3>5, <3>6, <3>7
  <2> QED BY <1>5, <1>6, <2>6, <2>8, <2>9 DEF ScreenStep, ScreenInv
<1> QED BY <1>9, <1>10

LEMMA ScreenNextKeeps ==
  ASSUME DesktopInv, ScreenInv, [DesktopNext /\ OpensShut /\ OtherLength]_desktopVars
  PROVE  ScreenStep
<1>1. DesktopStep
  <2>1. [DesktopNext]_desktopVars OBVIOUS
  <2> QED BY <2>1, DesktopNextKeeps
<1>2. CASE UNCHANGED desktopVars
  <2>1. UNCHANGED <<windows, ui, drag, icon, terminal, notepad, notes, files, browser, mouse, view, pc>>
    BY <1>2 DEF desktopVars, apps
  <2>2. AsShown BY <2>1 DEF AsShown
  <2>3. \A c : Now(c)' = Now(c) BY <2>1, <2>2, NowSame
  <2>4. ShapeInv' /\ HeldInv' BY <2>1 DEF ScreenInv, ShapeInv, HeldInv, Dragged, HandsOff
  <2>5. CacheInv' BY <2>1, <2>2, CacheStays DEF ScreenInv
  <2>6. \A c : Moving(c)' = Moving(c) BY <2>1 DEF Moving, Cached, Extent
  <2>7. CleanInv' BY <2>1, <2>3, <2>6 DEF ScreenInv, CleanInv
  <2> QED BY <2>4, <2>5, <2>7 DEF ScreenStep, ScreenInv
<1>3. CASE DesktopNext /\ OpensShut /\ OtherLength
  <2>1. CASE \E x \in Cells, b \in BOOLEAN : Sample(x, b) BY <2>1, SampleScreen
  <2>2. CASE Click BY <1>3, <2>2, PressScreen
  <2>3. CASE Release BY <2>3, ReleaseScreen
  <2>4. CASE MoveIcon \/ MoveNothing BY <2>4, MoveRestScreen
  <2>5. CASE MoveWindow BY <2>5, MoveWindowScreen
  <2>6. CASE KeyEsc BY <1>1, <2>6, KeyEscScreen
  <2>7. CASE \E k \in Keys : KeyNotepad(k) \/ KeyTerminal(k)
    BY <1>1, <2>7, KeyNotepadScreen, KeyTerminalScreen
  <2>8. CASE \E k \in Keys : KeyDesktop(k) BY <1>1, <1>3, <2>8, KeyDesktopScreen
  <2>9. CASE \E k \in Keys : KeyBrowser(k) BY <2>9, KeyBrowserScreen
  <2>10. CASE Render BY <2>10, RenderScreen
  <2> QED BY <1>3, <2>1, <2>2, <2>3, <2>4, <2>5, <2>6, <2>7, <2>8, <2>9, <2>10 DEF DesktopNext, AnyKey
<1> QED BY <1>2, <1>3

LEMMA ScreenInitially == ASSUME DesktopInit PROVE ScreenInv
<1>1. ASSUME NEW v \in Windows PROVE Box(windows[v])
  <2> DEFINE n == Home(v)[1]
             m == Home(v)[2]
             x == (Width * n) \div 100
             w == (Width * m) \div 100
  <2>1. windows[v] = [visible |-> FALSE, minimized |-> FALSE, focused |-> FALSE, maximized |-> FALSE,
                      x |-> x, w |-> w, old_x |-> 0, old_w |-> 0]
    BY DEF DesktopInit
  <2>2. n \in Int /\ m \in Int
    <3>1. v \in ToSet(Order) BY DesktopAssumption DEF DesktopAssumption
    <3>2. v \in {"terminal", "files", "about", "settings", "notepad", "logs"}
      BY <3>1 DEF ToSet, Order
    <3> QED BY <3>2 DEF Home
  <2>3. Width \in Int BY DesktopAssumption DEF DesktopAssumption
  <2> HIDE DEF n, m
  <2>4. Width * n \in Int /\ Width * m \in Int BY <2>2, <2>3
  <2>5. \A i \in Int : i \div 100 \in Int OBVIOUS
  <2>6. x \in Int /\ w \in Int BY <2>4, <2>5
  <2> HIDE DEF x, w
  <2> QED BY <2>1, <2>6 DEF Box
<1>2. /\ drag = NoDrag /\ browser = FALSE /\ pc = "idle" /\ icon = NoIcon
      /\ mouse = [x |-> 0, button |-> FALSE, previous |-> FALSE]
      /\ view = [dirty |-> {}, screen |-> Scene("none"), rendered |-> FALSE]
  BY DEF DesktopInit
<1>3. DragOK(drag) /\ ~drag.active BY <1>2 DEF NoDrag, DragOK
<1>4. MouseOK(mouse) BY <1>2 DEF MouseOK
<1>5. ViewOK(view) /\ \A c \in Cells : view.screen[c] = Picture(c, "none")
  <2> DEFINE scene == Scene("none")
  <2>1. scene = [c \in Cells |-> scene[c]] /\ \A c \in Cells : scene[c] = Picture(c, "none")
    BY DEF Scene
  <2>2. view = [dirty |-> {}, screen |-> scene, rendered |-> FALSE] BY <1>2
  <2> HIDE DEF scene
  <2>3. Bounded({}) BY DEF Bounded
  <2> QED BY <2>1, <2>2, <2>3 DEF ViewOK
<1>6. ShapeInv BY <1>1, <1>2, <1>3, <1>4, <1>5 DEF ShapeInv, Boxes
<1>7. HeldInv BY <1>2, <1>3 DEF HeldInv, HandsOff
<1>8. CacheInv BY <1>3 DEF CacheInv, Cached
<1>9. CleanInv BY <1>2, <1>5 DEF CleanInv, Now
<1> QED BY <1>6, <1>7, <1>8, <1>9 DEF ScreenInv

LEMMA ScreenHolds == ASSUME ScreenInv PROVE ScreenIsTrue
<1> SUFFICES ASSUME pc = "idle", view.dirty = {}
             PROVE  view.screen = IF browser THEN [c \in Cells |-> BrowserPicture] ELSE Scene("none")
  BY DEF ScreenIsTrue
<1>1. view.screen = [c \in Cells |-> view.screen[c]] BY DEF ScreenInv, ShapeInv, ViewOK
<1>2. \A c \in Cells : view.screen[c] = Now(c) BY DEF ScreenInv, CleanInv, Moving
<1>3. view.screen = [c \in Cells |-> Now(c)] BY <1>1, <1>2
<1>4. CASE browser
  <2>1. [c \in Cells |-> Now(c)] = [c \in Cells |-> BrowserPicture] BY <1>4 DEF Now
  <2> QED BY <1>3, <1>4, <2>1
<1>5. CASE ~browser
  <2>1. [c \in Cells |-> Now(c)] = Scene("none") BY <1>5 DEF Now, Scene
  <2> QED BY <1>3, <1>5, <2>1
<1> QED BY <1>4, <1>5

\* The screen is what the windows' state says whenever the renderer rests with nothing
\* dirty, for every set of windows, width of the screen and sequence of clicks, drags and
\* keys, as long as each shortcut key opens a window that was shut and no file of the same
\* length is opened into a notepad that has the focus: dirty_rect,
\* dirty_focused, the signature and the drag's kept pixels together cover every change.
THEOREM ScreenShows ==
  DesktopSpec /\ [][OpensShut]_desktopVars /\ [][OtherLength]_desktopVars => []ScreenIsTrue
<1>1. DesktopInit => DesktopInv /\ ScreenInv BY DesktopInitially, ScreenInitially
<1>2. DesktopInv /\ ScreenInv /\ [DesktopNext]_desktopVars /\ [OpensShut]_desktopVars
        /\ [OtherLength]_desktopVars
        => DesktopInv' /\ ScreenInv'
  <2> SUFFICES ASSUME DesktopInv, ScreenInv, [DesktopNext]_desktopVars, [OpensShut]_desktopVars,
                      [OtherLength]_desktopVars
               PROVE  DesktopStep /\ ScreenStep
    BY DEF DesktopStep, ScreenStep
  <2>1. [DesktopNext /\ OpensShut /\ OtherLength]_desktopVars OBVIOUS
  <2> QED BY <2>1, DesktopNextKeeps, ScreenNextKeeps
<1>3. ScreenInv => ScreenIsTrue BY ScreenHolds
<1> QED BY <1>1, <1>2, <1>3, PTL DEF DesktopSpec
===============================================================================
