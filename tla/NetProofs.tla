------------------------------ MODULE NetProofs ------------------------------
(***************************************************************************)
(* PageInOrder and AckedIsKept, for pages, buffers and rings of every size *)
(* and any number of frames, calls and pings.                              *)
(*                                                                         *)
(* Neither is inductive: what net_http_get keeps next is decided by the    *)
(* number it expects, http.ack, so that number must follow from what was   *)
(* kept; and it is set from a frame of the ring, so the ring must hold     *)
(* nothing but what the server may send.                                   *)
(*                                                                         *)
(* The second part is about the loopback, which shares no state with the   *)
(* network card: Conserved, for tables of every size.                      *)
(***************************************************************************)
EXTENDS Net, Loopback, SequenceTheorems, TLAPS

Flags == {"SYN", "ACK", "FIN", "RST", "PSH"}
Seqs == Nat \X Nat

ArpFrames == [kind : {"arp"}, from : Hosts, len : Nat]
EchoFrames == [kind : {"echo"}, seq : Nat, len : Nat]

\* The server's numbers: a connection's are above 0, a SYN is 0, data comes behind it.
TcpFrames ==
  {f \in [kind : {"tcp"}, flags : SUBSET Flags, seq : Seqs, ack : Nat, data : {0, 1}, len : Nat] :
     f.seq[1] > 0 /\ (f.data = 1 => f.seq[2] > 0) /\ ("SYN" \in f.flags => f.seq[2] = 0)}

Frame == ArpFrames \cup EchoFrames \cup TcpFrames

Http == [pc : {"idle", "arp", "copy", "syn", "body"}, mac : Hosts \cup {"none", "junk"},
         seq : Nat, ack : Seqs, flags : SUBSET Flags, got : Seq(Seqs), round : Nat,
         result : {"none", "failed", "part", "page"}]
Echo == [pc : {"idle", "arp", "wait"}, seq : Nat, received : Nat]
Server == [conn : Nat, requested : BOOLEAN, acked : Nat]

FramesOK == rx \in Seq(Frame) /\ arpbuf \in Frame \cup {Nothing}
CallsOK ==
  /\ http \in Http
  /\ ping \in Echo
HistOK ==
  hist \in [frames : Nat, requests : Nat, pings : Nat, asked : SUBSET Hosts,
            passed : BOOLEAN, acks : Nat]
ServerOK == server \in Server

\* Before the body nothing is kept; in it, the number expected follows what is kept (or,
\* after a wait that timed out, is none a segment of data has).
Expects ==
  /\ http.pc \in {"arp", "copy", "syn"} => http.got = <<>> /\ hist.acks = 0
  /\ http.pc = "body" =>
       /\ Len(http.got) < Capacity /\ hist.acks <= Len(http.got)
       /\ \/ http.ack = NoSeq /\ http.got = <<>>
          \/ /\ http.ack[2] = Len(http.got) + 1
             /\ http.got # <<>> => http.ack[1] = http.got[1][1]

NetInv == FramesOK /\ CallsOK /\ HistOK /\ ServerOK /\ Expects /\ PageInOrder /\ AckedIsKept

-----------------------------------------------------------------------------
LEMMA NetInitInv == Init => NetInv
<1> SUFFICES ASSUME Init PROVE NetInv OBVIOUS
<1> USE NetAssumption DEF Init, Nothing, NoSeq
<1>1. FramesOK BY DEF FramesOK
<1>2. CallsOK BY DEF CallsOK, Http, Seqs, Echo
<1>3. HistOK BY DEF HistOK
<1>4. ServerOK BY DEF ServerOK, Server
<1>5. Expects BY DEF Expects
<1>6. PageInOrder BY DEF PageInOrder
<1>7. AckedIsKept BY DEF AckedIsKept
<1> QED BY <1>1, <1>2, <1>3, <1>4, <1>5, <1>6, <1>7 DEF NetInv

\* What the page's properties and the expected number say depends on the call alone.
LEMMA SameCall ==
  ASSUME NetInv, http' = http, hist'.acks = hist.acks
  PROVE  Expects' /\ PageInOrder' /\ AckedIsKept'
BY DEF NetInv, Expects, PageInOrder, AckedIsKept

LEMMA ArriveKeeps ==
  ASSUME NetInv, NEW f \in Frame, Arrive(f) PROVE NetInv'
<1>1. rx' = Append(rx, f) /\ UNCHANGED <<arpbuf, http, ping, server>>
      /\ hist' = [hist EXCEPT !.frames = @ + 1]
  BY DEF Arrive
<1>2. FramesOK' BY <1>1 DEF NetInv, FramesOK
<1>3. CallsOK' /\ ServerOK' BY <1>1 DEF NetInv, CallsOK, ServerOK
<1>4. HistOK' /\ hist'.acks = hist.acks BY <1>1 DEF NetInv, HistOK
<1>5. Expects' /\ PageInOrder' /\ AckedIsKept' BY <1>1, <1>4, SameCall
<1> QED BY <1>2, <1>3, <1>4, <1>5 DEF NetInv

LEMMA ArpReplyKeeps == NetInv /\ ArpReply => NetInv'
<1> SUFFICES ASSUME NetInv, NEW h \in hist.asked, Arrive([kind |-> "arp", from |-> h, len |-> 64])
             PROVE  NetInv'
  BY DEF ArpReply
<1>1. h \in Hosts BY DEF NetInv, HistOK
<1>2. [kind |-> "arp", from |-> h, len |-> 64] \in Frame BY <1>1 DEF Frame, ArpFrames
<1> QED BY <1>2, ArriveKeeps

LEMMA EchoReplyKeeps == NetInv /\ EchoReply => NetInv'
<1> SUFFICES ASSUME NetInv, NEW s \in 1 .. ping.seq, Arrive([kind |-> "echo", seq |-> s, len |-> 78])
             PROVE  NetInv'
  BY DEF EchoReply
<1>1. s \in Nat BY DEF NetInv, CallsOK, Echo
<1>2. [kind |-> "echo", seq |-> s, len |-> 78] \in Frame BY <1>1 DEF Frame, EchoFrames
<1> QED BY <1>2, ArriveKeeps

LEMMA SegmentType ==
  ASSUME NEW flags \in SUBSET Flags, NEW c \in Nat, c > 0, NEW k \in Nat, NEW a \in Nat,
         NEW d \in {0, 1}, d = 1 => k > 0, "SYN" \in flags => k = 0
  PROVE  Segment(flags, <<c, k>>, a, d) \in Frame
<1> DEFINE f == Segment(flags, <<c, k>>, a, d)
<1>1. f \in [kind : {"tcp"}, flags : SUBSET Flags, seq : Seqs, ack : Nat, data : {0, 1}, len : Nat]
  BY DEF Segment, Seqs
<1>2. f.seq[1] > 0 /\ (f.data = 1 => f.seq[2] > 0) /\ ("SYN" \in f.flags => f.seq[2] = 0)
  BY DEF Segment
<1> QED BY <1>1, <1>2 DEF Frame, TcpFrames

LEMMA ServerSendsKeeps == NetInv /\ ServerSends => NetInv'
<1> SUFFICES ASSUME NetInv, ServerSends PROVE NetInv' OBVIOUS
<1>1. server.conn \in Nat /\ server.conn > 0 /\ server.acked \in Nat
  BY DEF NetInv, ServerOK, Server, ServerSends
<1> DEFINE seq(k) == <<server.conn, k>>
<1>2. CASE Arrive(Segment({"SYN", "ACK"}, seq(0), 1, 0))
  <2>1. Segment({"SYN", "ACK"}, seq(0), 1, 0) \in Frame BY <1>1, SegmentType DEF Flags
  <2> QED BY <1>2, <2>1, ArriveKeeps
<1>3. CASE \E k \in server.acked + 1 .. Segments : Arrive(Segment({"ACK"}, seq(k), 2, 1))
  <2>1. PICK k \in server.acked + 1 .. Segments : Arrive(Segment({"ACK"}, seq(k), 2, 1)) BY <1>3
  <2>2. k \in Nat /\ k > 0 BY <1>1, NetAssumption
  <2>3. Segment({"ACK"}, seq(k), 2, 1) \in Frame BY <1>1, <2>2, SegmentType DEF Flags
  <2> QED BY <2>1, <2>3, ArriveKeeps
<1>4. CASE Arrive(Segment({"FIN", "ACK"}, seq(Segments + 1), 2, 0))
  <2>1. Segment({"FIN", "ACK"}, seq(Segments + 1), 2, 0) \in Frame
    BY <1>1, NetAssumption, SegmentType DEF Flags
  <2> QED BY <1>4, <2>1, ArriveKeeps
<1>5. CASE Arrive(Segment({"RST"}, seq(0), 0, 0))
  <2>1. Segment({"RST"}, seq(0), 0, 0) \in Frame BY <1>1, SegmentType DEF Flags
  <2> QED BY <1>5, <2>1, ArriveKeeps
<1> QED BY <1>2, <1>3, <1>4, <1>5 DEF ServerSends

LEMMA PollTakes ==
  ASSUME NetInv, NEW f, f \in ToSet(rx), Poll(f)
  PROVE  f \in Frame /\ rx' \in Seq(Frame)
<1>1. rx \in Seq(Frame) /\ rx # <<>> /\ f = Head(rx) /\ rx' = Tail(rx)
  BY DEF Poll, NetInv, FramesOK
<1> HIDE DEF Frame
<1> QED BY <1>1

LEMMA GarbageKeeps == NetInv /\ PollGarbage => NetInv'
<1> SUFFICES ASSUME NetInv, PollGarbage PROVE NetInv' OBVIOUS
<1>1. PICK k \in 1 .. Len(rx) : rx' = SubSeq(rx, k + 1, Len(rx)) BY DEF PollGarbage
<1>2. rx' \in Seq(Frame) BY <1>1 DEF NetInv, FramesOK
<1>3. UNCHANGED <<arpbuf, http, ping, server>> /\ hist' = [hist EXCEPT !.passed = TRUE]
  BY DEF PollGarbage
<1>4. FramesOK' /\ CallsOK' /\ ServerOK' BY <1>2, <1>3 DEF NetInv, FramesOK, CallsOK, ServerOK
<1>5. HistOK' /\ hist'.acks = hist.acks BY <1>3 DEF NetInv, HistOK
<1>6. Expects' /\ PageInOrder' /\ AckedIsKept' BY <1>3, <1>5, SameCall
<1> QED BY <1>4, <1>5, <1>6 DEF NetInv

-----------------------------------------------------------------------------
(***************************************************************************)
(* The call of net_http_get.                                               *)
(***************************************************************************)
LEMMA HttpGetKeeps == NetInv /\ HttpGet => NetInv'
<1> SUFFICES ASSUME NetInv, HttpGet PROVE NetInv' OBVIOUS
<1>1. http' = [http EXCEPT !.pc = "arp", !.mac = "none", !.seq = 0, !.ack = NoSeq, !.flags = {},
                           !.got = <<>>, !.round = 0, !.result = "none"]
  BY DEF HttpGet
<1>2. hist' = [hist EXCEPT !.requests = @ + 1, !.asked = @ \cup {PageHop}, !.acks = 0]
      /\ UNCHANGED <<rx, aligned, arpbuf, ping, server>>
  BY DEF HttpGet
<1>3. FramesOK' /\ ServerOK' BY <1>2 DEF NetInv, FramesOK, ServerOK
<1>4. HistOK' /\ hist'.acks = 0
  <2>1. hist.asked \cup {PageHop} \in SUBSET Hosts /\ hist.requests + 1 \in Nat
    BY DEF NetInv, HistOK, PageHop, Hosts
  <2>2. PICK a \in SUBSET Hosts, n \in Nat :
          hist' = [hist EXCEPT !.requests = n, !.asked = a, !.acks = 0]
    BY <1>2, <2>1
  <2> QED BY <2>2 DEF NetInv, HistOK
<1>5. http' \in Http /\ http'.pc = "arp" /\ http'.got = <<>>
  <2>1. NoSeq \in Seqs /\ <<>> \in Seq(Seqs) /\ {} \in SUBSET Flags BY DEF NoSeq, Seqs
  <2> QED BY <1>1, <2>1 DEF NetInv, CallsOK, Http
<1>6. CallsOK' BY <1>2, <1>5 DEF NetInv, CallsOK
<1>7. Expects' /\ PageInOrder' /\ AckedIsKept'
  BY <1>4, <1>5 DEF Expects, PageInOrder, AckedIsKept
<1> QED BY <1>3, <1>4, <1>6, <1>7 DEF NetInv

\* A step of the call that keeps what it has, and does not come to the body.
LEMMA SamePage ==
  ASSUME NetInv, http'.got = http.got, hist'.acks = hist.acks,
         http.pc \in {"idle", "arp", "copy", "syn"} \/ http'.pc = "idle",
         \/ http'.pc = "idle"
         \/ http.pc # "idle" /\ http'.pc \in {"arp", "copy", "syn"}
  PROVE  Expects' /\ PageInOrder' /\ AckedIsKept'
BY DEF NetInv, Expects, PageInOrder, AckedIsKept

LEMMA ArpFrameKeeps == NetInv /\ ArpFrame => NetInv'
<1> SUFFICES ASSUME NetInv, ArpFrame PROVE NetInv' OBVIOUS
<1>1. PICK f \in ToSet(rx) : Poll(f) /\ arpbuf' = f BY DEF ArpFrame
<1>2. UNCHANGED <<ping, server, hist>> /\ http.pc = "arp" BY DEF ArpFrame
<1>3. PICK pc \in {"copy", "arp"} : http' = [http EXCEPT !.pc = pc] BY DEF ArpFrame, Goto
<1>4. FramesOK' BY <1>1, PollTakes DEF FramesOK
<1>5. ServerOK' /\ HistOK' BY <1>2 DEF NetInv, ServerOK, HistOK
<1>6. http' \in Http /\ http'.pc = pc /\ http'.got = http.got
  BY <1>3 DEF NetInv, CallsOK, Http
<1>7. CallsOK' BY <1>2, <1>6 DEF NetInv, CallsOK
<1>8. Expects' /\ PageInOrder' /\ AckedIsKept' BY <1>2, <1>6, SamePage
<1> QED BY <1>4, <1>5, <1>7, <1>8 DEF NetInv

\* Whatever reaches the server, its connection's number is one of a request.
LEMMA SendKeeps ==
  ASSUME NetInv, NEW flags, NEW seq, NEW ack \in Seqs, NEW data, SendTcp(flags, seq, ack, data)
  PROVE  ServerOK'
<1>1. server \in Server /\ hist.requests \in Nat BY DEF NetInv, ServerOK, HistOK
<1>2. ack[1] \in Nat /\ ack[2] \in Nat BY DEF Seqs
<1> DEFINE seg == [flags |-> flags, seq |-> seq, ack |-> ack, data |-> data]
<1>3. seg.ack = ack OBVIOUS
<1> HIDE DEF seg
<1>4. Heard(server, seg) \in Server
  <2>1. [conn |-> hist.requests, requested |-> FALSE, acked |-> 0] \in Server
    BY <1>1 DEF Server
  <2>2. [server EXCEPT !.requested = TRUE] \in Server BY <1>1 DEF Server
  <2>3. seg.ack[2] > server.acked + 1 => [server EXCEPT !.acked = seg.ack[2] - 1] \in Server
    BY <1>1, <1>2, <1>3 DEF Server
  <2> QED BY <1>1, <2>1, <2>2, <2>3 DEF Heard
<1>5. server' \in {server, Heard(server, seg)} BY DEF SendTcp, seg
<1> QED BY <1>1, <1>4, <1>5 DEF ServerOK

LEMMA ArpCopyKeeps == NetInv /\ ArpCopy => NetInv'
<1> SUFFICES ASSUME NetInv, ArpCopy PROVE NetInv' OBVIOUS
<1>1. UNCHANGED <<rx, aligned, arpbuf, ping, hist>> /\ http.pc = "copy" BY DEF ArpCopy
<1>2. SendTcp({"SYN"}, 0, NoSeq, 0) BY DEF ArpCopy
<1>3. NoSeq \in Seqs BY DEF NoSeq, Seqs
<1>4. ServerOK' BY <1>2, <1>3, SendKeeps
<1>5. PICK m : http' = [http EXCEPT !.pc = "syn", !.mac = m]
              /\ m = (IF arpbuf.kind = "arp" THEN arpbuf.from ELSE "junk")
  BY DEF ArpCopy
<1>6. m \in Hosts \cup {"none", "junk"}
  <2>1. arpbuf \in Frame \cup {Nothing} BY DEF NetInv, FramesOK
  <2>2. arpbuf.kind = "arp" => arpbuf.from \in Hosts
    BY <2>1 DEF Frame, ArpFrames, EchoFrames, TcpFrames, Nothing
  <2> QED BY <1>5, <2>2
<1>7. http' \in Http /\ http'.pc = "syn" /\ http'.got = http.got
  BY <1>5, <1>6 DEF NetInv, CallsOK, Http
<1>8. FramesOK' /\ HistOK' /\ CallsOK' BY <1>1, <1>7 DEF NetInv, FramesOK, HistOK, CallsOK
<1>9. Expects' /\ PageInOrder' /\ AckedIsKept' BY <1>1, <1>7, SamePage
<1> QED BY <1>4, <1>8, <1>9 DEF NetInv

\* The request begins a page whose first segment is the one behind the server's SYN.
LEMMA RequestBegins ==
  ASSUME NetInv, http.pc = "syn", NEW a \in Seqs, a = NoSeq \/ a[2] = 1,
         hist' = hist, ping' = ping, Request(a)
  PROVE  CallsOK' /\ ServerOK' /\ Expects' /\ PageInOrder' /\ AckedIsKept'
<1>1. http' = [http EXCEPT !.pc = "body", !.seq = 2, !.ack = a] BY DEF Request
<1>2. http' \in Http /\ http'.pc = "body" /\ http'.ack = a /\ http'.got = http.got
  BY <1>1 DEF NetInv, CallsOK, Http
<1>3. http.got = <<>> /\ hist.acks = 0 BY DEF NetInv, Expects
<1>4. CallsOK' BY <1>2 DEF NetInv, CallsOK
<1>5. ServerOK' BY SendKeeps DEF Request
<1>6. Expects' BY <1>2, <1>3, NetAssumption DEF Expects
<1>7. PageInOrder' /\ AckedIsKept' BY <1>2, <1>3 DEF PageInOrder, AckedIsKept
<1> QED BY <1>4, <1>5, <1>6, <1>7

LEMMA FrameFacts ==
  ASSUME NEW f \in Frame, f.kind = "tcp" PROVE f \in TcpFrames
BY DEF Frame, ArpFrames, EchoFrames

\* The call ends and returns r.
LEMMA ReturnKeepsPage ==
  ASSUME NetInv, NEW r \in {"failed", "part"}, http' = Return(r), hist' = hist, ping' = ping,
         server' = server
  PROVE  CallsOK' /\ ServerOK' /\ Expects' /\ PageInOrder' /\ AckedIsKept'
<1>1. http' \in Http /\ http'.pc = "idle" /\ http'.got = http.got
  BY DEF Return, NetInv, CallsOK, Http
<1>2. CallsOK' /\ ServerOK' BY <1>1 DEF NetInv, CallsOK, ServerOK
<1>3. Expects' /\ PageInOrder' /\ AckedIsKept' BY <1>1, SamePage
<1> QED BY <1>2, <1>3

LEMMA SynFrameKeeps == NetInv /\ SynFrame => NetInv'
<1> SUFFICES ASSUME NetInv, SynFrame PROVE NetInv' OBVIOUS
<1>1. http.pc = "syn" /\ UNCHANGED <<arpbuf, ping, hist>> BY DEF SynFrame
<1>2. PICK f \in ToSet(rx) :
        /\ Poll(f)
        /\ CASE f.kind # "tcp" -> UNCHANGED <<http, server>>
             [] f.kind = "tcp" /\ {"SYN", "ACK"} \subseteq f.flags -> Request(<<f.seq[1], f.seq[2] + 1>>)
             [] f.kind = "tcp" /\ "RST" \in f.flags -> http' = Return("failed") /\ UNCHANGED server
             [] OTHER -> http' = [http EXCEPT !.flags = f.flags] /\ UNCHANGED server
  BY DEF SynFrame
<1>3. f \in Frame /\ FramesOK' BY <1>1, <1>2, PollTakes DEF NetInv, FramesOK
<1>4. HistOK' BY <1>1 DEF NetInv, HistOK
<1>5. f.kind = "tcp" => f \in TcpFrames BY <1>3, FrameFacts
<1> SUFFICES CallsOK' /\ ServerOK' /\ Expects' /\ PageInOrder' /\ AckedIsKept'
  BY <1>3, <1>4 DEF NetInv
<1> DEFINE a == <<f.seq[1], f.seq[2] + 1>>
<1>6. \/ UNCHANGED <<http, server>>
      \/ f \in TcpFrames /\ "SYN" \in f.flags /\ Request(a)
      \/ http' = Return("failed") /\ UNCHANGED server
      \/ f \in TcpFrames /\ http' = [http EXCEPT !.flags = f.flags] /\ UNCHANGED server
  <2>1. CASE f.kind # "tcp" BY <1>2, <2>1
  <2>2. CASE f.kind = "tcp" /\ {"SYN", "ACK"} \subseteq f.flags BY <1>2, <1>5, <2>2
  <2>3. CASE f.kind = "tcp" /\ ~({"SYN", "ACK"} \subseteq f.flags) /\ "RST" \in f.flags
    BY <1>2, <2>3
  <2>4. CASE f.kind = "tcp" /\ ~({"SYN", "ACK"} \subseteq f.flags) /\ "RST" \notin f.flags
    BY <1>2, <1>5, <2>4
  <2> QED BY <2>1, <2>2, <2>3, <2>4
<1>7. CASE UNCHANGED <<http, server>>
  BY <1>1, <1>7, SameCall DEF NetInv, CallsOK, ServerOK
<1>8. CASE f \in TcpFrames /\ "SYN" \in f.flags /\ Request(a)
  <2>1. a \in Seqs /\ a[2] = 1 BY <1>8 DEF TcpFrames, Seqs
  <2> QED BY <1>1, <1>8, <2>1, RequestBegins
<1>9. CASE http' = Return("failed") /\ UNCHANGED server
  BY <1>1, <1>9, ReturnKeepsPage
<1>10. CASE f \in TcpFrames /\ http' = [http EXCEPT !.flags = f.flags] /\ UNCHANGED server
  <2>1. f.flags \in SUBSET Flags BY <1>10 DEF TcpFrames
  <2>2. http' \in Http /\ http'.pc = "syn" /\ http'.got = http.got
    BY <1>1, <1>10, <2>1 DEF NetInv, CallsOK, Http
  <2>3. CallsOK' /\ ServerOK' BY <1>1, <1>10, <2>2 DEF NetInv, CallsOK, ServerOK
  <2> QED BY <1>1, <2>2, <2>3, SamePage
<1> QED BY <1>6, <1>7, <1>8, <1>9, <1>10

LEMMA SynTimeoutKeeps == NetInv /\ SynTimeout => NetInv'
<1> SUFFICES ASSUME NetInv, SynTimeout PROVE NetInv' OBVIOUS
<1>1. http.pc = "syn" /\ UNCHANGED <<rx, aligned, arpbuf, ping, hist>> BY DEF SynTimeout
<1>2. FramesOK' /\ HistOK' BY <1>1 DEF NetInv, FramesOK, HistOK
<1>3. CASE http' = Return("failed") /\ UNCHANGED server
  BY <1>1, <1>2, <1>3, ReturnKeepsPage DEF NetInv
<1>4. CASE Request(NoSeq)
  <2>1. NoSeq \in Seqs BY DEF NoSeq, Seqs
  <2> QED BY <1>1, <1>2, <1>4, <2>1, RequestBegins DEF NetInv
<1> QED BY <1>3, <1>4 DEF SynTimeout

LEMMA TimeoutKeeps == NetInv /\ Timeout => NetInv'
<1> SUFFICES ASSUME NetInv, Timeout PROVE NetInv' OBVIOUS
<1>1. UNCHANGED <<rx, aligned, arpbuf, ping, server, hist>> BY DEF Timeout
<1>2. FramesOK' /\ HistOK' BY <1>1 DEF NetInv, FramesOK, HistOK
<1>3. PICK r \in {"failed", "part"} : http' = Return(r) BY DEF Timeout
<1> QED BY <1>1, <1>2, <1>3, ReturnKeepsPage DEF NetInv

\* The end of the page, after a FIN or with a last segment: the buffer is cut to Capacity.
LEMMA FinishKeeps ==
  ASSUME NetInv, NEW h \in Http, Len(h.got) <= Capacity,
         \A k \in DOMAIN h.got : h.got[k][2] = k /\ h.got[k][1] = h.got[1][1],
         hist'.acks \in Nat, hist'.acks <= Len(h.got),
         Finish(h), ping' = ping
  PROVE  CallsOK' /\ Expects' /\ PageInOrder' /\ AckedIsKept'
<1> DEFINE n == IF Len(h.got) >= Capacity THEN Capacity - 1 ELSE Len(h.got)
           kept == SubSeq(h.got, 1, n)
<1>1. http' = [h EXCEPT !.pc = "idle", !.result = "page", !.got = kept] BY DEF Finish
<1>2. h.got \in Seq(Seqs) /\ Len(h.got) \in Nat /\ Capacity \in Nat /\ Capacity > 1
  BY NetAssumption DEF Http
<1>3. n \in 0 .. Len(h.got) BY <1>2
<1>4. kept \in Seq(Seqs) /\ Len(kept) = n /\ \A k \in 1 .. n : kept[k] = h.got[k]
  BY <1>2, <1>3
<1> HIDE DEF kept
<1>5. http' \in Http /\ http'.pc = "idle" /\ http'.got = kept BY <1>1, <1>4 DEF Http
<1>6. CallsOK' BY <1>5 DEF NetInv, CallsOK
<1>7. Expects' BY <1>5 DEF Expects
<1>8. \A k \in 1 .. n : kept[k][2] = k /\ kept[k][1] = kept[1][1]
  BY <1>2, <1>3, <1>4
<1>9. PageInOrder' BY <1>4, <1>5, <1>8 DEF PageInOrder
<1>10. AckedIsKept' BY <1>2, <1>4, <1>5 DEF AckedIsKept
<1> QED BY <1>6, <1>7, <1>9, <1>10

\* A segment of data is the next one of the page, or changes nothing.
LEMMA DataKeeps ==
  ASSUME NetInv, http.pc = "body", NEW f \in TcpFrames, Data(f), ping' = ping
  PROVE  CallsOK' /\ HistOK' /\ ServerOK' /\ Expects' /\ PageInOrder' /\ AckedIsKept'
<1> DEFINE next == <<f.seq[1], f.seq[2] + f.data>>
           h == [http EXCEPT !.got = Append(@, f.seq), !.ack = next, !.round = @ + 1]
<1>1. f.data > 0 BY DEF Data
<1>2. CASE f.seq # http.ack
  <2>1. UNCHANGED <<http, server, hist>> BY <1>2 DEF Data
  <2> QED BY <2>1, SameCall DEF NetInv, CallsOK, HistOK, ServerOK
<1>3. CASE f.seq = http.ack
  <2>1. /\ IF Len(h.got) >= Capacity \/ h.round >= Rounds THEN Finish(h) ELSE http' = h
        /\ SendTcp({"ACK"}, 2, next, 0) /\ hist' = Acked(next)
    BY <1>3 DEF Data
  <2>2. f.data = 1 /\ f.seq \in Seqs /\ f.seq[1] \in Nat /\ f.seq[2] \in Nat /\ f.seq[1] > 0
    BY <1>1 DEF TcpFrames, Seqs
  <2>3. next \in Seqs /\ next[1] = f.seq[1] /\ next[2] = f.seq[2] + 1 BY <2>2 DEF Seqs
  <2> DEFINE got == Append(http.got, f.seq)
  <2>4. http.got \in Seq(Seqs) /\ got \in Seq(Seqs) /\ Len(got) = Len(http.got) + 1
        /\ got[Len(got)] = f.seq /\ \A k \in 1 .. Len(http.got) : got[k] = http.got[k]
    BY <2>2 DEF NetInv, CallsOK, Http
  <2>5. /\ Len(http.got) \in Nat /\ Len(http.got) < Capacity /\ hist.acks <= Len(http.got)
        /\ f.seq[2] = Len(http.got) + 1
        /\ http.got # <<>> => f.seq[1] = http.got[1][1]
    BY <1>3, <2>2, <2>4 DEF NetInv, Expects, NoSeq
  <2> HIDE DEF got
  <2>6. \A k \in 1 .. Len(got) : got[k][2] = k /\ got[k][1] = got[1][1]
    <3> SUFFICES ASSUME NEW k \in 1 .. Len(got) PROVE got[k][2] = k /\ got[k][1] = got[1][1]
      OBVIOUS
    <3>1. CASE k = Len(got)
      <4>1. CASE http.got = <<>> BY <2>4, <2>5, <3>1, <4>1
      <4>2. CASE http.got # <<>>
        <5>1. 1 \in 1 .. Len(http.got) BY <2>4, <4>2
        <5> QED BY <2>4, <2>5, <3>1, <4>2, <5>1
      <4> QED BY <4>1, <4>2
    <3>2. CASE k # Len(got)
      <4>1. k \in 1 .. Len(http.got) /\ 1 \in 1 .. Len(http.got) BY <2>4, <2>5, <3>2
      <4>2. http.got[k][2] = k /\ http.got[k][1] = http.got[1][1]
        BY <2>4, <4>1 DEF NetInv, PageInOrder
      <4> QED BY <2>4, <4>1, <4>2
    <3> QED BY <3>1, <3>2
  <2>7. h = [http EXCEPT !.got = got, !.ack = next, !.round = @ + 1] BY DEF got
  <2> HIDE DEF next, h
  <2>8. h \in Http /\ h.got = got /\ h.ack = next /\ h.pc = "body"
    <3>1. http \in Http /\ http.round + 1 \in Nat BY DEF NetInv, CallsOK, Http
    <3>2. PICK r \in Nat : h = [http EXCEPT !.got = got, !.ack = next, !.round = r]
      BY <2>7, <3>1
    <3> QED BY <2>3, <2>4, <3>1, <3>2 DEF Http
  <2>9. ServerOK' BY <2>1, <2>3, SendKeeps
  <2>10. HistOK' /\ hist'.acks \in Nat /\ hist'.acks <= Len(got)
    <3>1. hist.acks \in Nat /\ next[2] - 1 = Len(got) /\ Len(got) \in Nat
      BY <2>3, <2>4, <2>5 DEF NetInv, HistOK
    <3>2. PICK n \in Nat : hist' = [hist EXCEPT !.acks = n] /\ n <= Len(got)
      BY <2>1, <2>4, <2>5, <3>1 DEF Acked
    <3> QED BY <3>2 DEF NetInv, HistOK
  <2>11. CASE Finish(h)
    <3>1. Len(h.got) <= Capacity BY <2>4, <2>5, <2>8, NetAssumption
    <3>2. \A k \in DOMAIN h.got : h.got[k][2] = k /\ h.got[k][1] = h.got[1][1]
      BY <2>4, <2>6, <2>8
    <3> QED BY <2>8, <2>9, <2>10, <2>11, <3>1, <3>2, FinishKeeps
  <2>12. CASE http' = h /\ ~(Len(h.got) >= Capacity)
    <3>1. CallsOK' BY <2>8, <2>12 DEF NetInv, CallsOK
    <3>2. Len(got) < Capacity /\ next[2] = Len(got) + 1 /\ Len(got) >= 1
      BY <2>3, <2>4, <2>5, <2>8, <2>12, NetAssumption
    <3>3. next[1] = got[1][1] BY <2>3, <2>4, <2>6, <3>2
    <3>4. Expects' BY <2>8, <2>10, <2>12, <3>2, <3>3 DEF Expects
    <3>5. PageInOrder' BY <2>4, <2>6, <2>8, <2>12 DEF PageInOrder
    <3>6. AckedIsKept' BY <2>8, <2>10, <2>12 DEF AckedIsKept
    <3> QED BY <2>9, <2>10, <3>1, <3>4, <3>5, <3>6
  <2> QED BY <2>1, <2>11, <2>12
<1> QED BY <1>2, <1>3

LEMMA BodyFrameKeeps == NetInv /\ BodyFrame => NetInv'
<1> SUFFICES ASSUME NetInv, BodyFrame PROVE NetInv' OBVIOUS
<1>1. http.pc = "body" /\ UNCHANGED <<arpbuf, ping>> BY DEF BodyFrame
<1>2. PICK f \in ToSet(rx) :
        /\ Poll(f)
        /\ \/ UNCHANGED <<http, server, hist>>
           \/ /\ http' = Return(IF http.got = <<>> THEN "failed" ELSE "part")
              /\ UNCHANGED <<server, hist>>
           \/ f.kind = "tcp" /\ Data(f)
           \/ /\ f.kind = "tcp" /\ Finish([http EXCEPT !.ack = <<f.seq[1], f.seq[2] + 1>>])
              /\ UNCHANGED <<server, hist>>
  BY DEF BodyFrame
<1>3. f \in Frame /\ FramesOK' BY <1>1, <1>2, PollTakes DEF NetInv, FramesOK
<1>4. f.kind = "tcp" => f \in TcpFrames BY <1>3, FrameFacts
<1>5. CASE UNCHANGED <<http, server, hist>>
  BY <1>1, <1>3, <1>5, SameCall DEF NetInv, CallsOK, HistOK, ServerOK
<1>6. CASE /\ http' = Return(IF http.got = <<>> THEN "failed" ELSE "part")
           /\ UNCHANGED <<server, hist>>
  <2>1. PICK r \in {"failed", "part"} : http' = Return(r) BY <1>6
  <2>2. HistOK' BY <1>6 DEF NetInv, HistOK
  <2> QED BY <1>1, <1>3, <1>6, <2>1, <2>2, ReturnKeepsPage DEF NetInv
<1>7. CASE f.kind = "tcp" /\ Data(f)
  BY <1>1, <1>3, <1>4, <1>7, DataKeeps DEF NetInv
<1>8. CASE /\ f.kind = "tcp" /\ Finish([http EXCEPT !.ack = <<f.seq[1], f.seq[2] + 1>>])
           /\ UNCHANGED <<server, hist>>
  <2> DEFINE h == [http EXCEPT !.ack = <<f.seq[1], f.seq[2] + 1>>]
  <2>1. <<f.seq[1], f.seq[2] + 1>> \in Seqs BY <1>4, <1>8 DEF TcpFrames, Seqs
  <2>2. PICK a \in Seqs : h = [http EXCEPT !.ack = a] BY <2>1
  <2>3. Finish(h) BY <1>8
  <2> HIDE DEF h
  <2>4. h \in Http /\ h.got = http.got BY <2>2 DEF NetInv, CallsOK, Http
  <2>5. hist'.acks \in Nat /\ hist'.acks <= Len(h.got) /\ Len(h.got) <= Capacity
    BY <1>1, <1>8, <2>4, NetAssumption DEF NetInv, Expects, HistOK, Http
  <2>6. \A k \in DOMAIN h.got : h.got[k][2] = k /\ h.got[k][1] = h.got[1][1]
    BY <2>4 DEF NetInv, PageInOrder
  <2>7. HistOK' /\ ServerOK' BY <1>8 DEF NetInv, HistOK, ServerOK
  <2> QED BY <1>1, <1>3, <2>3, <2>4, <2>5, <2>6, <2>7, FinishKeeps DEF NetInv
<1> QED BY <1>2, <1>5, <1>6, <1>7, <1>8

-----------------------------------------------------------------------------
(***************************************************************************)
(* The calls of net_ping, which leave the page alone.                      *)
(***************************************************************************)
LEMMA PingKeeps == NetInv /\ Ping => NetInv'
<1> SUFFICES ASSUME NetInv, Ping PROVE NetInv' OBVIOUS
<1>1. /\ ping' = [pc |-> "arp", seq |-> 0, received |-> 0]
      /\ hist' = [hist EXCEPT !.pings = @ + 1, !.asked = @ \cup {PingHop}]
      /\ UNCHANGED <<rx, aligned, arpbuf, http, server>>
  BY DEF Ping
<1>2. HistOK' /\ hist'.acks = hist.acks
  <2>1. hist.asked \cup {PingHop} \in SUBSET Hosts /\ hist.pings + 1 \in Nat
    BY DEF NetInv, HistOK, PingHop, Hosts
  <2>2. PICK a \in SUBSET Hosts, n \in Nat : hist' = [hist EXCEPT !.pings = n, !.asked = a]
    BY <1>1, <2>1
  <2> QED BY <2>2 DEF NetInv, HistOK
<1>3. FramesOK' /\ CallsOK' /\ ServerOK' BY <1>1 DEF NetInv, FramesOK, CallsOK, ServerOK, Echo
<1> QED BY <1>1, <1>2, <1>3, SameCall DEF NetInv

LEMMA PingArpFrameKeeps == NetInv /\ PingArpFrame => NetInv'
<1> SUFFICES ASSUME NetInv, PingArpFrame PROVE NetInv' OBVIOUS
<1>1. PICK f \in ToSet(rx) : Poll(f) /\ arpbuf' = f BY DEF PingArpFrame
<1>2. /\ ping' = [ping EXCEPT !.pc = "wait", !.seq = 1] \/ ping' = ping
      /\ UNCHANGED <<http, server, hist>>
  BY DEF PingArpFrame
<1>3. FramesOK' BY <1>1, PollTakes DEF FramesOK
<1>4. ping' \in Echo
  <2>1. ping \in Echo BY DEF NetInv, CallsOK
  <2>2. CASE ping' = [ping EXCEPT !.pc = "wait", !.seq = 1] BY <2>1, <2>2 DEF Echo
  <2> QED BY <1>2, <2>1, <2>2
<1>5. CallsOK' /\ ServerOK' /\ HistOK' BY <1>2, <1>4 DEF NetInv, CallsOK, ServerOK, HistOK
<1> QED BY <1>2, <1>3, <1>5, SameCall DEF NetInv

\* The next echo request, or the end of the call.
LEMMA NextEchoType ==
  ASSUME NetInv, NEW n \in Nat, NextEcho(n), http' = http PROVE CallsOK'
<1>1. ping \in Echo /\ http \in Http BY DEF NetInv, CallsOK
<1>2. ping' \in Echo
  <2>1. CASE ping.seq = 4 BY <2>1 DEF NextEcho, Echo
  <2>2. CASE ping.seq # 4
    <3>1. ping.seq + 1 \in Nat BY <1>1 DEF Echo
    <3>2. PICK k \in Nat : ping' = [ping EXCEPT !.seq = k, !.received = n]
      BY <2>2, <3>1 DEF NextEcho
    <3> QED BY <1>1, <3>2 DEF Echo
  <2> QED BY <2>1, <2>2
<1> QED BY <1>1, <1>2 DEF CallsOK

LEMMA EchoFrameKeeps == NetInv /\ EchoFrame => NetInv'
<1> SUFFICES ASSUME NetInv, EchoFrame PROVE NetInv' OBVIOUS
<1>1. PICK f \in ToSet(rx) :
        Poll(f) /\ IF Mine(f) THEN NextEcho(ping.received + 1) ELSE UNCHANGED ping
  BY DEF EchoFrame
<1>2. UNCHANGED <<arpbuf, http, server, hist>> BY DEF EchoFrame
<1>3. FramesOK' BY <1>1, <1>2, PollTakes DEF NetInv, FramesOK
<1>4. ping.received + 1 \in Nat BY DEF NetInv, CallsOK, Echo
<1>5. CallsOK' BY <1>1, <1>2, <1>4, NextEchoType DEF NetInv, CallsOK
<1>6. ServerOK' /\ HistOK' BY <1>2 DEF NetInv, ServerOK, HistOK
<1> QED BY <1>2, <1>3, <1>5, <1>6, SameCall DEF NetInv

LEMMA PingTimeoutKeeps == NetInv /\ PingTimeout => NetInv'
<1> SUFFICES ASSUME NetInv, PingTimeout PROVE NetInv' OBVIOUS
<1>1. UNCHANGED <<rx, aligned, arpbuf, http, server, hist>> BY DEF PingTimeout
<1>2. ping.received \in Nat BY DEF NetInv, CallsOK, Echo
<1>3. CASE NextEcho(ping.received)
  BY <1>1, <1>2, <1>3, NextEchoType, SameCall DEF NetInv, FramesOK, ServerOK, HistOK
<1>4. CASE ping' = [ping EXCEPT !.pc = "idle"]
  <2>1. CallsOK' BY <1>1, <1>4 DEF NetInv, CallsOK, Echo
  <2> QED BY <1>1, <2>1, SameCall DEF NetInv, FramesOK, ServerOK, HistOK
<1> QED BY <1>3, <1>4 DEF PingTimeout

-----------------------------------------------------------------------------
LEMMA NetStep == NetInv /\ [Next]_vars => NetInv'
<1> SUFFICES ASSUME NetInv, [Next]_vars PROVE NetInv' OBVIOUS
<1>1. CASE ArpReply BY <1>1, ArpReplyKeeps
<1>2. CASE EchoReply BY <1>2, EchoReplyKeeps
<1>3. CASE ServerSends BY <1>3, ServerSendsKeeps
<1>4. CASE PollGarbage BY <1>4, GarbageKeeps
<1>5. CASE HttpGet BY <1>5, HttpGetKeeps
<1>6. CASE ArpFrame BY <1>6, ArpFrameKeeps
<1>7. CASE ArpCopy BY <1>7, ArpCopyKeeps
<1>8. CASE SynFrame BY <1>8, SynFrameKeeps
<1>9. CASE SynTimeout BY <1>9, SynTimeoutKeeps
<1>10. CASE BodyFrame BY <1>10, BodyFrameKeeps
<1>11. CASE Timeout BY <1>11, TimeoutKeeps
<1>12. CASE Ping BY <1>12, PingKeeps
<1>13. CASE PingArpFrame BY <1>13, PingArpFrameKeeps
<1>14. CASE EchoFrame BY <1>14, EchoFrameKeeps
<1>15. CASE PingTimeout BY <1>15, PingTimeoutKeeps
<1>16. CASE UNCHANGED vars
  BY <1>16, SameCall DEF vars, NetInv, FramesOK, CallsOK, HistOK, ServerOK
<1> QED BY <1>1, <1>2, <1>3, <1>4, <1>5, <1>6, <1>7, <1>8, <1>9, <1>10, <1>11, <1>12, <1>13,
           <1>14, <1>15, <1>16 DEF Next

LEMMA NetAlways == Spec => []NetInv
BY NetInitInv, NetStep, PTL DEF Spec

\* What net_http_get has of a page is the beginning of one connection's, in order, however
\* the network loses, repeats and reorders its segments.
THEOREM PageIsOrdered == Spec => []PageInOrder
<1>1. NetInv => PageInOrder BY DEF NetInv
<1> QED BY <1>1, NetAlways, PTL

\* The client acknowledges to the server no more than it has kept, or has no room for.
THEOREM AcknowledgedIsKept == Spec => []AckedIsKept
<1>1. NetInv => AckedIsKept BY DEF NetInv
<1> QED BY <1>1, NetAlways, PTL

-----------------------------------------------------------------------------
(***************************************************************************)
(* The loopback.  Conserved is inductive with the type invariant: NetSend  *)
(* numbers a packet beyond all that were sent, and NetRecv moves one       *)
(* number from the table to those returned, where no other entry holds it. *)
(***************************************************************************)
LoopInv == LoopTypeOK /\ Conserved

LEMMA LoopInitInv == LoopInit => LoopInv
BY LoopbackAssumption
   DEF LoopInit, LoopInv, LoopTypeOK, Conserved, Queued, Returned, Used, Free, Index

LEMMA NetSendKeeps ==
  ASSUME LoopInv, NEW port \in Ports, NetSend(port) PROVE LoopInv'
<1>1. PICK i \in Index : /\ First(i, Index \ Used)
                         /\ queue' = [queue EXCEPT ![i] = [n |-> sent + 1, port |-> port]]
  BY DEF NetSend
<1>2. /\ sent \in Nat /\ MaxSent \in Nat /\ sent < MaxSent
      /\ sent' = sent + 1 /\ taken' = taken
  BY LoopbackAssumption DEF NetSend, LoopInv, LoopTypeOK
<1> DEFINE p == [n |-> sent + 1, port |-> port]
<1>3. p \in Packet /\ p # Free /\ p.n = sent + 1
  BY <1>2 DEF Packet, Free
<1>4. LoopTypeOK'
  BY <1>1, <1>2, <1>3 DEF LoopInv, LoopTypeOK
<1>5. queue'[i] = p /\ \A j \in Index \ {i} : queue'[j] = queue[j]
  BY <1>1 DEF LoopInv, LoopTypeOK
<1> HIDE DEF p
<1>6. i \notin Used /\ Used' = Used \cup {i}
  BY <1>1, <1>3, <1>5 DEF First, Used
<1>7. Queued' = Queued \cup {sent + 1}
  BY <1>3, <1>5, <1>6 DEF Queued, Used
<1>8. Returned' = Returned
  BY <1>2 DEF Returned
<1>9. Queued \cup Returned = 1 .. sent /\ Queued \cap Returned = {}
  BY DEF LoopInv, Conserved
<1>10. sent + 1 \notin Queued \cup Returned /\ 1 .. (sent + 1) = (1 .. sent) \cup {sent + 1}
  BY <1>2, <1>9
<1>11. \A j, k \in Used' : queue'[j].n = queue'[k].n => j = k
  BY <1>3, <1>5, <1>6, <1>10 DEF LoopInv, Conserved, Queued, Used
<1>12. Conserved'
  BY <1>2, <1>7, <1>8, <1>9, <1>10, <1>11 DEF Conserved
<1> QED BY <1>4, <1>12 DEF LoopInv

LEMMA NetRecvKeeps ==
  ASSUME LoopInv, NEW port \in Ports, NetRecv(port) PROVE LoopInv'
<1>1. PICK i \in Index : /\ First(i, ForPort(port))
                         /\ queue' = [queue EXCEPT ![i] = Free]
                         /\ taken' = taken \cup {[n |-> queue[i].n, port |-> port]}
  BY DEF NetRecv
<1>2. i \in Used /\ queue[i] \in Packet /\ sent' = sent
  BY <1>1 DEF First, ForPort, Used, LoopInv, LoopTypeOK, NetRecv
<1> DEFINE p == [n |-> queue[i].n, port |-> port]
<1>3. p \in Packet /\ p.n = queue[i].n
  BY <1>2 DEF Packet
<1>4. LoopTypeOK'
  BY <1>1, <1>2, <1>3 DEF LoopInv, LoopTypeOK
<1>5. queue'[i] = Free /\ \A j \in Index \ {i} : queue'[j] = queue[j]
  BY <1>1 DEF LoopInv, LoopTypeOK
<1>6. taken' = taken \cup {p} BY <1>1
<1> HIDE DEF p
<1>7. Used' = Used \ {i}
  BY <1>5 DEF Used
<1>8. Queued' = Queued \ {queue[i].n}
  BY <1>2, <1>5, <1>7 DEF Queued, Used, LoopInv, Conserved
<1>9. Returned' = Returned \cup {queue[i].n}
  BY <1>3, <1>6 DEF Returned
<1>10. queue[i].n \in Queued
  BY <1>2 DEF Queued
<1>11. \A j, k \in Used' : queue'[j].n = queue'[k].n => j = k
  BY <1>5, <1>7 DEF LoopInv, Conserved, Used
<1>12. Conserved'
  BY <1>2, <1>8, <1>9, <1>10, <1>11 DEF LoopInv, Conserved
<1> QED BY <1>4, <1>12 DEF LoopInv

LEMMA LoopStep == LoopInv /\ [LoopNext]_loopVars => LoopInv'
<1> SUFFICES ASSUME LoopInv, [LoopNext]_loopVars PROVE LoopInv' OBVIOUS
<1>1. CASE LoopNext BY <1>1, NetSendKeeps, NetRecvKeeps DEF LoopNext
<1>2. CASE UNCHANGED loopVars
  BY <1>2 DEF loopVars, LoopInv, LoopTypeOK, Conserved, Queued, Returned, Used
<1> QED BY <1>1, <1>2

\* No packet that net_send took is lost, returned twice or made up, and no two entries of
\* the table hold the same one: net_recv returns what net_send put there.
THEOREM LoopbackConserves == LoopSpec => []Conserved
<1>1. LoopInit => LoopInv BY LoopInitInv
<1>2. LoopInv /\ [LoopNext]_loopVars => LoopInv' BY LoopStep
<1>3. LoopInv => Conserved BY DEF LoopInv
<1> QED BY <1>1, <1>2, <1>3, PTL DEF LoopSpec
=============================================================================
