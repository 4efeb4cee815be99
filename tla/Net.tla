--------------------------------- MODULE Net ---------------------------------
(***************************************************************************)
(* The physical network of src/net.c: the receive ring of the RTL8139, the *)
(* address resolution, net_ping, and net_http_get with its TCP client.     *)
(*                                                                         *)
(* The browser calls net_http_get from the main loop; a process calls      *)
(* net_ping in a system call, which nothing but arriving frames interrupts *)
(* and which may come between any two steps of the browser's.  Both read   *)
(* the one ring and throw away what they do not wait for, and both resolve *)
(* addresses in the one static buffer of arp_resolve.                      *)
(*                                                                         *)
(* A frame is its kind, who it is from, its length and what the code tests *)
(* in it; headers and checksums are left out, as is the chip's set-up.  A  *)
(* segment of data has one number; the client's are 0 (SYN), 1 (request)   *)
(* and 2.  Waits are counted in the code, so that any may end too early.   *)
(* Frames to the network arrive at once or are lost.                       *)
(***************************************************************************)
EXTENDS Integers, Sequences, FiniteSets, SequencesExt

CONSTANTS
  Segments,     \* the page has this many segments of data,
  Capacity,     \* and the browser's buffer room for this many
  Requests,     \* bound: pages asked for
  Pings,        \* bound: calls of net_ping
  Frames,       \* bound: frames that arrive
  Room,         \* frames the ring has room for; the chip drops the others
  Rounds        \* tcp_wait is called so often; 64 in the code

ASSUME NetAssumption ==
  /\ Segments \in Nat \ {0} /\ Capacity \in Nat \ {0, 1}
  /\ Requests \in Nat /\ Pings \in Nat /\ Frames \in Nat /\ Room \in Nat /\ Rounds \in Nat \ {0}

VARIABLES
  rx, aligned,  \* frames in the ring; rtl_rx_offset is where one begins
  arpbuf,       \* static frame[] of arp_resolve
  http,         \* the call of net_http_get
  ping,         \* the call of net_ping
  server,       \* the web server's connection
  hist          \* history: frames, page, pings answered

vars == <<rx, aligned, arpbuf, http, ping, server, hist>>

Hosts == {"gateway", "web"}
Nothing == [kind |-> "none"]
NoSeq == <<0, 0>>

Init ==
  /\ rx = <<>> /\ aligned = TRUE
  /\ arpbuf = Nothing
  /\ http = [pc |-> "idle", mac |-> "none", seq |-> 0, ack |-> NoSeq, flags |-> {}, got |-> <<>>,
             round |-> 0, result |-> "none"]
  /\ ping = [pc |-> "idle", seq |-> 0, received |-> 0]
  /\ server = [conn |-> 0, requested |-> FALSE, acked |-> 0]
  /\ hist = [frames |-> 0, requests |-> 0, pings |-> 0, asked |-> {},
             passed |-> FALSE, acks |-> 0]

-----------------------------------------------------------------------------
(***************************************************************************)
(* The network.                                                            *)
(***************************************************************************)
Arrive(f) ==
  /\ hist.frames < Frames /\ Len(rx) < Room
  /\ rx' = Append(rx, f)
  /\ hist' = [hist EXCEPT !.frames = @ + 1]
  /\ UNCHANGED <<aligned, arpbuf, http, ping, server>>

Segment(flags, seq, ack, data) ==
  [kind |-> "tcp", flags |-> flags, seq |-> seq, ack |-> ack, data |-> data, len |-> 64 + data]

ArpReply == \E h \in hist.asked : Arrive([kind |-> "arp", from |-> h, len |-> 64])

EchoReply == \E s \in 1 .. ping.seq : ping.pc # "idle" /\ Arrive([kind |-> "echo", seq |-> s, len |-> 78])

\* The web server sends a SYN with its acknowledgement, any of the page's segments that
\* are not acknowledged yet, in any order and again, the end of the page, or a reset.
ServerSends ==
  /\ server.conn > 0
  /\ LET seq(k) == <<server.conn, k>> IN
     \/ Arrive(Segment({"SYN", "ACK"}, seq(0), 1, 0))
     \/ /\ server.requested
        /\ \/ \E k \in server.acked + 1 .. Segments : Arrive(Segment({"ACK"}, seq(k), 2, 1))
           \/ Arrive(Segment({"FIN", "ACK"}, seq(Segments + 1), 2, 0))
     \/ Arrive(Segment({"RST"}, seq(0), 0, 0))

\* What the server makes of a segment that reaches it.
Heard(s, seg) ==
  CASE "SYN" \in seg.flags -> [conn |-> hist.requests, requested |-> FALSE, acked |-> 0]
    [] seg.data > 0 /\ seg.ack[1] = s.conn -> [s EXCEPT !.requested = TRUE]
    [] seg.data = 0 /\ seg.ack[1] = s.conn /\ seg.ack[2] > s.acked + 1 -> [s EXCEPT !.acked = seg.ack[2] - 1]
    [] OTHER -> s

\* send_tcp: the segment arrives or not.
SendTcp(flags, seq, ack, data) ==
  server' \in {server, Heard(server, [flags |-> flags, seq |-> seq, ack |-> ack, data |-> data])}

-----------------------------------------------------------------------------
(***************************************************************************)
(* rtl_poll.                                                               *)
(***************************************************************************)
\* The chip puts a frame behind a header of 4 bytes and begins the next one at a
\* multiple of 4; the driver goes on by the frame's length and 3.
Stride(len) == 4 * ((len + 4 + 3) \div 4)
Advance(len) == len + 3

Poll(f) ==
  /\ aligned /\ rx # <<>> /\ f = Head(rx)
  /\ rx' = Tail(rx)
  /\ aligned' = (Advance(f.len) = Stride(f.len))

\* Off the beginning of a frame it reads headers that are none, goes on 4 bytes or by
\* the length it takes them to tell, and so past a frame at least, until it happens to
\* stand at a beginning again.
PollGarbage ==
  /\ ~aligned /\ rx # <<>>
  /\ \E k \in 1 .. Len(rx) : rx' = SubSeq(rx, k + 1, Len(rx))
  /\ aligned' \in BOOLEAN
  /\ hist' = [hist EXCEPT !.passed = TRUE]
  /\ UNCHANGED <<arpbuf, http, ping, server>>

-----------------------------------------------------------------------------
(***************************************************************************)
(* net_http_get.                                                           *)
(***************************************************************************)
Browser == ping.pc = "idle"

Goto(pc) == http' = [http EXCEPT !.pc = pc]
Return(r) == [http EXCEPT !.pc = "idle", !.result = r]
PageHop == "gateway"
PingHop == "web"

\* arp_resolve asks, and clears nothing of what the ring holds.
HttpGet ==
  /\ Browser /\ http.pc = "idle" /\ hist.requests < Requests
  /\ http' = [http EXCEPT !.pc = "arp", !.mac = "none", !.seq = 0, !.ack = NoSeq, !.flags = {},
                          !.got = <<>>, !.round = 0, !.result = "none"]
  /\ hist' = [hist EXCEPT !.requests = @ + 1, !.asked = @ \cup {PageHop}, !.acks = 0]
  /\ UNCHANGED <<rx, aligned, arpbuf, ping, server>>

ArpFrame ==
  /\ Browser /\ http.pc = "arp"
  /\ \E f \in ToSet(rx) : Poll(f) /\ arpbuf' = f
  /\ Goto(IF arpbuf'.kind = "arp" /\ arpbuf'.from = PageHop THEN "copy" ELSE "arp")
  /\ UNCHANGED <<ping, server, hist>>

\* The address is copied from the buffer, whatever it holds now, and the SYN is sent.
ArpCopy ==
  /\ Browser /\ http.pc = "copy"
  /\ http' = [http EXCEPT !.pc = "syn", !.mac = IF arpbuf.kind = "arp" THEN arpbuf.from ELSE "junk"]
  /\ SendTcp({"SYN"}, 0, NoSeq, 0)
  /\ UNCHANGED <<rx, aligned, arpbuf, ping, hist>>

\* The wait for the server's SYN, and the request; a timed-out wait goes on with the
\* request as well when the last segment seen had an acknowledgement.
Request(ack) ==
  /\ http' = [http EXCEPT !.pc = "body", !.seq = 2, !.ack = ack]
  /\ SendTcp({"PSH", "ACK"}, 1, ack, 1)

SynFrame ==
  /\ Browser /\ http.pc = "syn"
  /\ \E f \in ToSet(rx) :
       /\ Poll(f)
       /\ CASE f.kind # "tcp" -> UNCHANGED <<http, server>>
            [] f.kind = "tcp" /\ {"SYN", "ACK"} \subseteq f.flags -> Request(<<f.seq[1], f.seq[2] + 1>>)
            [] f.kind = "tcp" /\ "RST" \in f.flags -> http' = Return("failed") /\ UNCHANGED server
            [] OTHER -> http' = [http EXCEPT !.flags = f.flags] /\ UNCHANGED server
  /\ UNCHANGED <<arpbuf, ping, hist>>

SynTimeout ==
  /\ Browser /\ http.pc = "syn"
  /\ IF http.flags \cap {"SYN", "ACK"} = {} THEN http' = Return("failed") /\ UNCHANGED server
     ELSE Request(NoSeq)
  /\ UNCHANGED <<rx, aligned, arpbuf, ping, hist>>

\* The end of the loop of net_http_get: a FIN of its own, and the page is shown.
Finish(h) ==
  http' = [h EXCEPT !.pc = "idle", !.result = "page",
                    !.got = SubSeq(@, 1, IF Len(@) >= Capacity THEN Capacity - 1 ELSE Len(@))]

Acked(seq) == [hist EXCEPT !.acks = IF seq[2] - 1 > @ THEN seq[2] - 1 ELSE @]

\* Mutant: a segment of data is taken whatever its number.
Data_AnySeq(f) ==
  LET next == <<f.seq[1], f.seq[2] + f.data>>
      h == [http EXCEPT !.got = Append(@, f.seq), !.ack = next, !.round = @ + 1] IN
  /\ f.data > 0
  /\ IF Len(h.got) >= Capacity \/ h.round >= Rounds THEN Finish(h) ELSE http' = h
  /\ SendTcp({"ACK"}, 2, next, 0) /\ hist' = Acked(next)

\* Mutant: a segment that is not the next is acknowledged too.
Data_AckAny(f) ==
  LET next == <<f.seq[1], f.seq[2] + f.data>>
      h == [http EXCEPT !.got = Append(@, f.seq), !.ack = next, !.round = @ + 1] IN
  /\ f.data > 0
  /\ IF f.seq # http.ack THEN UNCHANGED http
     ELSE IF Len(h.got) >= Capacity \/ h.round >= Rounds THEN Finish(h) ELSE http' = h
  /\ SendTcp({"ACK"}, 2, next, 0) /\ hist' = Acked(next)

\* tcp_wait with data: what is not the next is passed over, what is the next is kept
\* and acknowledged.
Data(f) ==
  LET next == <<f.seq[1], f.seq[2] + f.data>>
      h == [http EXCEPT !.got = Append(@, f.seq), !.ack = next, !.round = @ + 1] IN
  /\ f.data > 0
  /\ IF f.seq # http.ack THEN UNCHANGED <<http, server, hist>>
     ELSE /\ IF Len(h.got) >= Capacity \/ h.round >= Rounds THEN Finish(h) ELSE http' = h
          /\ SendTcp({"ACK"}, 2, next, 0) /\ hist' = Acked(next)

\* tcp_wait: any FIN is the end of the page, and any RST of the call.
BodyFrame ==
  /\ Browser /\ http.pc = "body"
  /\ \E f \in ToSet(rx) :
       /\ Poll(f)
       /\ \/ /\ f.kind # "tcp" \/ (f.kind = "tcp" /\ f.flags # {"RST"} /\ f.ack # http.seq)
             /\ UNCHANGED <<http, server, hist>>
          \/ /\ f.kind = "tcp" /\ f.flags = {"RST"}
             /\ http' = Return(IF http.got = <<>> THEN "failed" ELSE "part")
             /\ UNCHANGED <<server, hist>>
          \/ f.kind = "tcp" /\ f.flags # {"RST"} /\ f.ack = http.seq /\ Data(f)
          \/ /\ f.kind = "tcp" /\ "FIN" \in f.flags /\ f.ack = http.seq
             /\ Finish([http EXCEPT !.ack = <<f.seq[1], f.seq[2] + 1>>])
             /\ UNCHANGED <<server, hist>>
  /\ UNCHANGED <<arpbuf, ping>>

\* A wait is given up: what came so far is the result.
Timeout ==
  /\ Browser /\ http.pc \in {"arp", "body"}
  /\ http' = Return(IF http.got = <<>> THEN "failed" ELSE "part")
  /\ UNCHANGED <<rx, aligned, arpbuf, ping, server, hist>>

-----------------------------------------------------------------------------
(***************************************************************************)
(* net_ping by a process: four echo requests, each with its own wait.      *)
(***************************************************************************)
Ping ==
  /\ ping.pc = "idle" /\ hist.pings < Pings
  /\ ping' = [pc |-> "arp", seq |-> 0, received |-> 0]
  /\ hist' = [hist EXCEPT !.pings = @ + 1, !.asked = @ \cup {PingHop}]
  /\ UNCHANGED <<rx, aligned, arpbuf, http, server>>

PingArpFrame ==
  /\ ping.pc = "arp"
  /\ \E f \in ToSet(rx) : Poll(f) /\ arpbuf' = f
  /\ ping' = IF arpbuf'.kind = "arp" /\ arpbuf'.from = PingHop
             THEN [ping EXCEPT !.pc = "wait", !.seq = 1] ELSE ping
  /\ UNCHANGED <<http, server, hist>>

NextEcho(received) ==
  ping' = IF ping.seq = 4 THEN [pc |-> "idle", seq |-> 0, received |-> received]
          ELSE [ping EXCEPT !.seq = @ + 1, !.received = received]

\* wait_icmp_reply
Mine(f) == f.kind = "echo" /\ f.seq = ping.seq

EchoFrame ==
  /\ ping.pc = "wait"
  /\ \E f \in ToSet(rx) : Poll(f) /\ IF Mine(f) THEN NextEcho(ping.received + 1) ELSE UNCHANGED ping
  /\ UNCHANGED <<arpbuf, http, server, hist>>

PingTimeout ==
  /\ \/ ping.pc = "wait" /\ NextEcho(ping.received)
     \/ ping.pc = "arp" /\ ping' = [ping EXCEPT !.pc = "idle"]
  /\ UNCHANGED <<rx, aligned, arpbuf, http, server, hist>>

-----------------------------------------------------------------------------
Next == \/ ArpReply \/ EchoReply \/ ServerSends
        \/ PollGarbage
        \/ HttpGet \/ ArpFrame \/ ArpCopy \/ SynFrame \/ SynTimeout \/ BodyFrame \/ Timeout
        \/ Ping \/ PingArpFrame \/ EchoFrame \/ PingTimeout

Spec == Init /\ [][Next]_vars
-----------------------------------------------------------------------------
(***************************************************************************)
(* Properties.                                                             *)
(***************************************************************************)
\* What the browser gets is the beginning of one connection's page: nothing twice,
\* nothing left out, nothing out of its order, though segments are lost, repeated and
\* reordered and a connection uses the port and the numbers of the last one.
PageInOrder ==
  \A k \in DOMAIN http.got : http.got[k][2] = k /\ http.got[k][1] = http.got[1][1]

\* The server is told that a segment has arrived only when the page has it (or has no
\* room for it), so that what it then forgets is never missing.
AckedIsKept == hist.acks <= Len(http.got) \/ Len(http.got) >= Capacity - 1

\* The page is sent to the station whose address was asked for.
MacOfHop == http.mac \in {"none", PageHop}

\* The page is whole when it is shown as loaded and the buffer is large enough for it.
PageWhole == http.result = "page" /\ Segments < Capacity => Len(http.got) = Segments

\* No frame that the chip received is passed over ("RTL8139 Ethernet", README.md).
EveryFrameRead == ~hist.passed
=============================================================================
