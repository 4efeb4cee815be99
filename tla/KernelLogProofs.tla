---------------------------- MODULE KernelLogProofs ----------------------------
(***************************************************************************)
(* Theorems about the kernel log.                                          *)
(***************************************************************************)
EXTENDS KernelLog, SequenceTheorems, WellFoundedInduction, TLAPS

Places == 0 .. Capacity - 1
Threads == {"main", "panic"}

\* A line leaves room for another in what a rotation frees.
Line == {l \in Lines : l.len < Reserve}
EntryType == [sequence : Nat, a : Line, b : Line]
UnitType == [boot : Nat, n : Nat, by : {"none", "main", "panic", "init"}, k : Nat, of : Nat]

FileType == [Homes -> [exists : BOOLEAN, units : Seq(UnitType)]]

Locked == {"ensure", "room", "remove", "reopen", "rewrite", "recheck", "write", "unlock"}
Reading == {"check", "copy", "more", "again", "got"}
Stops(t) ==
  IF t = "main" THEN {"early", "idle", "begin", "replay", "persist"} \cup Copying \cup Locked \cup Reading
  ELSE {"off", "printed", "persist"} \cup Copying \cup Locked
Local(t) ==
  [pc : Stops(t), line : Line, retained : Seq(UnitType), limit : Nat, next : Nat, count : Nat,
   asked : Nat, a : Line, b : Line]

LogTypeOK ==
  /\ head \in Nat /\ ring \in [Places -> EntryType]
  /\ file \in FileType
  /\ ready \in BOOLEAN /\ lock \in {"none", "main", "panic"}
  /\ main \in Local("main") /\ panic \in Local("panic")
  /\ where \in {"none", "same", "other"} /\ boot \in Nat /\ failed \in Nat
  /\ damaged \in BOOLEAN

-----------------------------------------------------------------------------
(***************************************************************************)
(* Types.                                                                  *)
(***************************************************************************)
LEMMA Sizes ==
  /\ Capacity \in Nat /\ Capacity > 0 /\ Limit \in Nat /\ RamLimit \in Nat /\ Reserve \in Nat
  /\ 2 < Reserve /\ Reserve <= RamLimit /\ RamLimit <= Limit
  /\ \A l \in Nat : RamLimit <= l => Keep(l) \in Nat /\ Keep(l) + Reserve = l
BY LogAssumption DEF Keep

LEMMA SlotIn == ASSUME NEW n \in Nat PROVE Slot(n) \in Places
BY Sizes DEF Slot, Places

LEMMA NoLineIn == NoLine \in Line /\ Session \in Line
BY Sizes DEF NoLine, Session, Line, Lines

LEMMA MeIn == LogTypeOK => \A t \in Threads : Me(t) \in Local(t)
BY DEF LogTypeOK, Me, Threads

\* A thread goes on as me.
LEMMA BecomesIs ==
  ASSUME NEW t \in Threads, NEW me, Becomes(t, me)
  PROVE  Me(t)' = me /\ \A o \in Threads \ {t} : Me(o)' = Me(o)
BY DEF Becomes, Me, Threads

LEMMA BecomesIn ==
  ASSUME LogTypeOK, NEW t \in Threads, NEW me \in Local(t), Becomes(t, me)
  PROVE  main' \in Local("main") /\ panic' \in Local("panic")
BY DEF LogTypeOK, Becomes, Threads

LEMMA GoesIn ==
  ASSUME LogTypeOK, NEW t \in Threads, NEW pc \in Stops(t)
  PROVE  /\ [Me(t) EXCEPT !.pc = pc] \in Local(t)
         /\ [Me(t) EXCEPT !.pc = pc, !.line = NoLine] \in Local(t)
<1> DEFINE r == Me(t)
<1>1. r \in Local(t) BY MeIn
<1> HIDE DEF r
<1> QED BY <1>1, NoLineIn DEF Local, r

LEMMA ThreadIn ==
  ASSUME NEW t \in Threads, NEW pc \in Stops(t)
  PROVE  Thread(pc) \in Local(t)
BY NoLineIn DEF Thread, Local

LEMMA TextIn ==
  ASSUME NEW line \in Line, boot \in Nat
  PROVE  Text(line) \in Seq(UnitType) /\ Len(Text(line)) < Reserve
<1>1. ASSUME NEW k \in Nat PROVE Unit(line, k) \in UnitType
  BY DEF Unit, UnitType, Line, Lines
<1>2. line.len \in Nat /\ line.len < Reserve BY DEF Line, Lines
<1>3. CASE line = Session
  <2>1. Text(line) = <<Unit(line, 1), Unit(line, 1)>> BY <1>3 DEF Text
  <2> QED BY <1>1, <2>1, Sizes
<1>4. CASE line # Session
  <2>1. Text(line) = [k \in 1 .. line.len |-> Unit(line, k)] BY <1>4 DEF Text
  <2> QED BY <1>1, <1>2, <2>1
<1> QED BY <1>3, <1>4

LEMMA ResetIn == ASSUME head' = 0, ring' = [s \in 0 .. Capacity - 1 |-> Entry], ready' = FALSE,
         lock' = "none", failed' = 0, main' = Thread("early"), panic' = Thread("off"), where' = "none",
         boot' \in Nat, file' \in FileType, damaged' \in BOOLEAN
         PROVE LogTypeOK'
<1>1. Thread("early") \in Local("main") /\ Thread("off") \in Local("panic")
  BY ThreadIn DEF Stops, Threads
<1>2. Entry \in EntryType BY NoLineIn DEF Entry, EntryType
<1> QED BY <1>1, <1>2 DEF LogTypeOK, Places

\* What a rotation keeps: at most keep units of those it is given.
LEMMA Lowest ==
  ASSUME NEW S \in SUBSET Nat, S # {}
  PROVE  \E i \in S : \A j \in S : i <= j
<1>1. \E i \in S : \A j \in S : ~(<<j, i>> \in OpToRel(<, Nat))
  BY NatLessThanWellFounded, WFMin
<1>2. PICK i \in S : \A j \in S : ~(<<j, i>> \in OpToRel(<, Nat)) BY <1>1
<1>3. \A j \in S : j \in Nat /\ i \in Nat => ~(j < i) BY <1>2, Zenon DEF OpToRel
<1> QED BY <1>3

LEMMA RetainedIs ==
  ASSUME NEW u \in Seq(UnitType), NEW keep \in Nat
  PROVE  \/ Retained(u, keep) = u /\ Len(u) <= keep
         \/ Retained(u, keep) = <<>>
         \/ \E i \in 1 .. Len(u) :
              /\ Newline(u[i]) /\ i < Len(u) + 1 /\ Len(u) - i <= keep
              /\ Retained(u, keep) = SubSeq(u, i + 1, Len(u))
<1> DEFINE cut == Len(u) - keep
           after == {i \in cut + 1 .. Len(u) : Newline(u[i])}
           low == CHOOSE i \in after : \A j \in after : i <= j
<1>0. Retained(u, keep) = IF cut <= 0 THEN u
                    ELSE IF after = {} THEN <<>> ELSE SubSeq(u, 1 + low, Len(u))
  BY DEF Retained
<1>1. cut \in Int /\ Len(u) \in Nat BY Sizes
<1>2. CASE cut <= 0
  <2>1. Retained(u, keep) = u BY <1>0, <1>2
  <2> QED BY <1>1, <1>2, <2>1, Sizes
<1>3. CASE cut > 0 /\ after = {}
  <2>1. Retained(u, keep) = <<>>
    <3> HIDE DEF cut, after, low
    <3> QED BY <1>0, <1>1, <1>3
  <2> QED BY <2>1
<1>4. CASE cut > 0 /\ after # {}
  <2>0. ~(cut <= 0) BY <1>1, <1>4
  <2>1. after \subseteq Nat BY <1>1, <1>4
  <2> HIDE DEF after
  <2>2. low \in after BY <1>4, <2>1, Lowest
  <2> USE DEF after
  <2> HIDE DEF low
  <2>3. Retained(u, keep) = SubSeq(u, 1 + low, Len(u))
    <3> HIDE DEF cut, after
    <3> QED BY <1>0, <1>4, <2>0, Zenon
  <2>4. low \in 1 .. Len(u) /\ Newline(u[low]) /\ Len(u) - low <= keep /\ 1 + low = low + 1
    BY <1>1, <1>4, <2>2, Sizes
  <2> QED BY <2>3, <2>4
<1> QED BY <1>1, <1>2, <1>3, <1>4

LEMMA RetainedIn ==
  ASSUME NEW u \in Seq(UnitType), NEW keep \in Nat
  PROVE  Retained(u, keep) \in Seq(UnitType) /\ Len(Retained(u, keep)) <= keep
<1>1. CASE Retained(u, keep) = u /\ Len(u) <= keep BY <1>1
<1>2. CASE Retained(u, keep) = <<>> BY <1>2, Sizes
<1>3. ASSUME NEW i \in 1 .. Len(u), Len(u) - i <= keep, Retained(u, keep) = SubSeq(u, i + 1, Len(u))
      PROVE  Retained(u, keep) \in Seq(UnitType) /\ Len(Retained(u, keep)) <= keep
  <2>1. i \in Nat /\ i > 0 /\ i <= Len(u) /\ Len(u) \in Nat OBVIOUS
  <2>2. SubSeq(u, i + 1, Len(u)) \in Seq(UnitType)
        /\ Len(SubSeq(u, i + 1, Len(u))) = Len(u) - i
    BY <2>1, SubSeqProperties
  <2> QED BY <1>3, <2>2
<1> QED BY <1>1, <1>2, <1>3, RetainedIs

\* A thread goes on to another stop, as any of the locals it may have there.
LEMMA Onward ==
  ASSUME LogTypeOK, NEW t \in Threads, NEW me \in Local(t), Becomes(t, me),
         head' \in Nat, ring' \in [Places -> EntryType],
         file' \in FileType, damaged' \in BOOLEAN,
         ready' \in BOOLEAN, lock' \in {"none", "main", "panic"},
         where' \in {"none", "same", "other"}, boot' \in Nat, failed' \in Nat
  PROVE  LogTypeOK'
BY BecomesIn DEF LogTypeOK

LEMMA StopsIn ==
  /\ Copying \cup Locked \cup {"persist"} \subseteq Stops("main") \cap Stops("panic")
  /\ {"early", "idle", "begin", "replay"} \cup Reading \subseteq Stops("main")
  /\ {"off", "printed"} \subseteq Stops("panic") /\ Rest \in Stops("main")
  /\ Copying \cap Reading = {} /\ Copying \cap Locked = {} /\ Locked \cap Reading = {}
  /\ {"early", "idle", "begin", "replay", "persist", "off", "printed"}
       \cap (Copying \cup Locked \cup Reading) = {}
BY DEF Stops, Copying, Locked, Reading, Rest

LEMMA RestIs == Rest \in {"early", "idle"}
BY DEF Rest

\* kernel_log's line.
LEMMA NewLineIn ==
  ASSUME LogTypeOK, NEW len \in Lens \cup {1}, NEW by \in Threads
  PROVE  [n |-> head + 1, len |-> len, by |-> by] \in Line
<1>1. len \in Nat /\ len < Reserve BY LogAssumption, Sizes
<1> QED BY <1>1 DEF LogTypeOK, Line, Lines, Threads

LEMMA LogType == ASSUME LogTypeOK, NEW len \in Lens, Log(len) PROVE LogTypeOK'
<1> DEFINE line == [n |-> head + 1, len |-> len, by |-> "main"]
           me == [main EXCEPT !.pc = "clear", !.line = line]
<1>1. line \in Line BY NewLineIn DEF Threads
<1>2. main' = me /\ UNCHANGED panic BY DEF Log
<1>3. "clear" \in Stops("main") BY DEF Stops, Copying
<1> HIDE DEF line
<1>4. me \in Local("main") BY <1>1, <1>3 DEF LogTypeOK, Local
<1>5. head' \in Nat BY DEF LogTypeOK, Log
<1> QED BY <1>2, <1>4, <1>5 DEF LogTypeOK, Log

LEMMA PanicType == ASSUME LogTypeOK, NEW cpu \in Panics, Panic(cpu) PROVE LogTypeOK'
<1> DEFINE line == [n |-> head + 1, len |-> 1, by |-> "panic"]
           me == [Thread("clear") EXCEPT !.line = line]
<1>1. line \in Line BY NewLineIn DEF Threads
<1>2. panic' = me /\ UNCHANGED main BY DEF Panic
<1>3. "clear" \in Stops("panic") BY DEF Stops, Copying
<1> HIDE DEF line
<1>4. Thread("clear") \in Local("panic") BY <1>3, ThreadIn DEF Threads
<1>5. me \in Local("panic") BY <1>1, <1>4 DEF Local
<1>6. head' \in Nat /\ where' \in {"none", "same", "other"}
  BY LogAssumption DEF LogTypeOK, Panic
<1> QED BY <1>2, <1>5, <1>6 DEF LogTypeOK, Panic

\* The four stores of a thread's line.
LEMMA RecordIs ==
  ASSUME LogTypeOK, NEW t \in Threads, Record(t)
  PROVE  /\ LogTypeOK' /\ UNCHANGED <<head, file, ready, lock, where, boot, failed, damaged>>
         /\ \E to : Me(t)' = [Me(t) EXCEPT !.pc = to]
         /\ \A o \in Threads \ {t} : Me(o)' = Me(o)
         /\ LET s == Slot(Me(t).line.n)  e == ring[s] IN
            /\ s \in Places /\ ring' = [ring EXCEPT ![s] = ring'[s]]
            /\ \/ Me(t).pc = "clear" /\ Me(t)'.pc = "half" /\ ring'[s] = [e EXCEPT !.sequence = 0]
               \/ Me(t).pc = "half" /\ Me(t)'.pc = "rest" /\ ring'[s] = [e EXCEPT !.a = Me(t).line]
               \/ Me(t).pc = "rest" /\ Me(t)'.pc = "publish" /\ ring'[s] = [e EXCEPT !.b = Me(t).line]
               \/ /\ Me(t).pc = "publish" /\ Me(t)'.pc = "persist"
                  /\ ring'[s] = [e EXCEPT !.sequence = Me(t).line.n]
<1> DEFINE r == Me(t)
           s == Slot(r.line.n)
           e == ring[s]
<1>1. r \in Local(t) BY MeIn
<1>2. r.line \in Line /\ r.line.n \in Nat BY <1>1 DEF Local, Line, Lines
<1>3. \A pc \in Copying \cup {"persist"} : pc \in Stops(t) BY DEF Stops
<1>4. \A pc : [r EXCEPT !.pc = pc].pc = pc
  <2> HIDE DEF r
  <2> QED BY <1>1 DEF Local
<1>5. ASSUME NEW from, NEW to \in Stops(t), NEW field, NEW value, Write(t, from, to, field, value),
             \/ field = "sequence" /\ value \in Nat
             \/ field \in {"a", "b"} /\ value \in Line
      PROVE  /\ LogTypeOK' /\ UNCHANGED <<head, file, ready, lock, where, boot, failed, damaged>>
             /\ r.pc = from /\ Me(t)' = [r EXCEPT !.pc = to] /\ Me(t)'.pc = to
             /\ \A o \in Threads \ {t} : Me(o)' = Me(o)
             /\ s \in Places /\ ring' = [ring EXCEPT ![s] = ring'[s]]
             /\ field = "sequence" => ring'[s] = [e EXCEPT !.sequence = value]
             /\ field = "a" => ring'[s] = [e EXCEPT !.a = value]
             /\ field = "b" => ring'[s] = [e EXCEPT !.b = value]
  <2> DEFINE f == [e EXCEPT ![field] = value]
  <2>1. s \in Places BY <1>2, SlotIn
  <2>2. e \in EntryType BY <2>1 DEF LogTypeOK
  <2>3. ring' = [ring EXCEPT ![s] = f] /\ UNCHANGED <<head, file, ready, lock, where, boot, failed, damaged>>
    BY <1>5 DEF Write
  <2>4. r.pc = from /\ Becomes(t, [r EXCEPT !.pc = to]) BY <1>5 DEF Write, At, Goes
  <2> HIDE DEF r, s, e
  <2>5. /\ field = "sequence" => f = [e EXCEPT !.sequence = value]
        /\ field = "a" => f = [e EXCEPT !.a = value]
        /\ field = "b" => f = [e EXCEPT !.b = value]
    OBVIOUS
  <2> HIDE DEF f
  <2>6. f \in EntryType BY <1>5, <2>2, <2>5 DEF EntryType
  <2>7. ring' \in [Places -> EntryType] /\ ring'[s] = f BY <2>1, <2>3, <2>6 DEF LogTypeOK
  <2>8. [r EXCEPT !.pc = to] \in Local(t) BY GoesIn DEF r
  <2>9. LogTypeOK' BY <2>3, <2>4, <2>7, <2>8, Onward DEF LogTypeOK
  <2>10. Me(t)' = [r EXCEPT !.pc = to] /\ \A o \in Threads \ {t} : Me(o)' = Me(o)
    BY <2>4, <2>8, BecomesIs
  <2> QED BY <1>4, <2>1, <2>3, <2>4, <2>5, <2>7, <2>9, <2>10
<1>6. "half" \in Stops(t) /\ "rest" \in Stops(t) /\ "publish" \in Stops(t) /\ "persist" \in Stops(t)
  BY <1>3 DEF Copying
<1> HIDE DEF r, s, e
<1>7. CASE Write(t, "clear", "half", "sequence", 0)
  BY <1>5, <1>6, <1>7, ZenonT(60) DEF r, s, e
<1>8. CASE Write(t, "half", "rest", "a", Me(t).line)
  BY <1>2, <1>5, <1>6, <1>8, ZenonT(60) DEF r, s, e
<1>9. CASE Write(t, "rest", "publish", "b", Me(t).line)
  BY <1>2, <1>5, <1>6, <1>9, ZenonT(60) DEF r, s, e
<1>10. CASE Write(t, "publish", "persist", "sequence", Me(t).line.n)
  BY <1>2, <1>5, <1>6, <1>10, ZenonT(60) DEF r, s, e
<1> QED BY <1>7, <1>8, <1>9, <1>10 DEF Record

LEMMA PersistType == ASSUME LogTypeOK, NEW t \in Threads, Persist(t) PROVE LogTypeOK'
<1>1. CASE /\ ~ready /\ Ends(t, IF t = "main" THEN "early" ELSE "printed") /\ UNCHANGED lock
  <2> DEFINE pc == IF t = "main" THEN "early" ELSE "printed"
  <2>1. pc \in Stops(t) BY StopsIn DEF Threads
  <2> HIDE DEF pc
  <2>2. Becomes(t, [Me(t) EXCEPT !.pc = pc, !.line = NoLine]) BY <1>1 DEF Ends, pc
  <2> QED BY <1>1, <2>1, <2>2, GoesIn, Onward DEF Persist, LogTypeOK
<1>2. CASE lock' = t /\ Goes(t, "ensure")
  <2>1. "ensure" \in Stops(t) BY DEF Stops, Locked
  <2>2. Becomes(t, [Me(t) EXCEPT !.pc = "ensure"]) BY <1>2 DEF Goes
  <2> QED BY <1>2, <2>1, <2>2, GoesIn, Onward DEF Persist, LogTypeOK, Threads
<1> QED BY <1>1, <1>2 DEF Persist

LEMMA UnlockType == ASSUME LogTypeOK, NEW t \in Threads, Unlock(t) PROVE LogTypeOK'
<1>1. ASSUME NEW pc \in Stops(t), Ends(t, pc) PROVE LogTypeOK'
  <2>1. Becomes(t, [Me(t) EXCEPT !.pc = pc, !.line = NoLine]) BY <1>1 DEF Ends
  <2>2. lock' \in {"none", "main", "panic"} BY DEF Unlock, LogTypeOK
  <2> QED BY <2>1, <2>2, GoesIn, Onward DEF Unlock, LogTypeOK
<1>2. "replay" \in Stops("main") /\ Rest \in Stops("main") /\ "printed" \in Stops("panic") BY StopsIn
<1> QED BY <1>1, <1>2 DEF Unlock, Threads

-----------------------------------------------------------------------------
(***************************************************************************)
(* The file's homes, call by call.                                         *)
(***************************************************************************)
LEMMA HomesAre == Homes = {"ram", "disk", "stored"} /\ Home \in {"ram", "disk"} /\ Home' \in {"ram", "disk"}
BY DEF Homes, Home

LEMMA WithIs ==
  ASSUME NEW u \in Seq(UnitType)
  PROVE  /\ With(u) \in [exists : BOOLEAN, units : Seq(UnitType)] /\ With(u).exists /\ With(u).units = u
         /\ NoFile \in [exists : BOOLEAN, units : Seq(UnitType)] /\ ~NoFile.exists /\ NoFile.units = <<>>
BY DEF With, NoFile

\* What fits in a file in RAM is all there, and no more than what fits.
LEMMA CutIs ==
  ASSUME NEW u \in Seq(UnitType)
  PROVE  LET w == SubSeq(u, 1, IF Len(u) < RamLimit THEN Len(u) ELSE RamLimit) IN
         /\ w \in Seq(UnitType) /\ Len(w) <= RamLimit /\ Len(w) <= Len(u)
         /\ Len(u) <= RamLimit => w = u
<1> DEFINE n == IF Len(u) < RamLimit THEN Len(u) ELSE RamLimit
           w == SubSeq(u, 1, n)
<1>1. Len(u) \in Nat /\ RamLimit \in Nat /\ n \in Nat /\ n <= Len(u) /\ n <= RamLimit BY Sizes
<1>2. Len(u) <= RamLimit => n = Len(u) BY <1>1
<1> HIDE DEF n
<1>3. w \in Seq(UnitType) /\ Len(w) = n
  <2>1. CASE n = 0 BY <1>1, <2>1
  <2>2. CASE n > 0 BY <1>1, <2>2, SubSeqProperties
  <2> QED BY <1>1, <2>1, <2>2
<1>4. ASSUME n = Len(u) PROVE w = u BY <1>1, <1>4
<1> QED BY <1>1, <1>2, <1>3, <1>4 DEF n

LEMMA RamHasIs ==
  ASSUME NEW f \in FileType, NEW u \in Seq(UnitType), NEW g, g = RamHas(f, u)
  PROVE  /\ g \in FileType /\ g["disk"] = f["disk"] /\ g["stored"] = f["stored"]
         /\ g["ram"].exists /\ Len(g["ram"].units) <= RamLimit /\ Len(g["ram"].units) <= Len(u)
         /\ Len(u) <= RamLimit => g["ram"].units = u
<1> DEFINE w == SubSeq(u, 1, IF Len(u) < RamLimit THEN Len(u) ELSE RamLimit)
<1>1. /\ w \in Seq(UnitType) /\ Len(w) <= RamLimit /\ Len(w) <= Len(u)
      /\ Len(u) <= RamLimit => w = u
  BY CutIs
<1>2. g = [f EXCEPT !["ram"] = With(w)] BY DEF RamHas
<1> HIDE DEF w
<1>3. With(w) \in [exists : BOOLEAN, units : Seq(UnitType)] /\ With(w).exists /\ With(w).units = w
  BY <1>1, WithIs
<1>4. g \in FileType /\ g["ram"] = With(w) /\ g["disk"] = f["disk"] /\ g["stored"] = f["stored"]
  BY <1>2, <1>3, HomesAre DEF FileType
<1> QED BY <1>1, <1>3, <1>4

LEMMA DiskHasIs ==
  ASSUME LogTypeOK, NEW u \in Seq(UnitType), NEW g, g = DiskHas(u)
  PROVE  /\ g \in FileType /\ g["ram"] = file["ram"] /\ g["disk"] = With(u) /\ g["stored"] = With(u)
         /\ With(u).exists /\ With(u).units = u
<1>1. With(u) \in [exists : BOOLEAN, units : Seq(UnitType)] /\ With(u).exists /\ With(u).units = u BY WithIs
<1>2. g = [file EXCEPT !["disk"] = With(u), !["stored"] = With(u)] BY DEF DiskHas
<1> QED BY <1>1, <1>2, HomesAre DEF FileType, LogTypeOK

\* A disk write that failed: the old file or the new one, in memory and on the disk, where
\* something may have been run over.
LEMMA HalfDoneIs ==
  ASSUME LogTypeOK, NEW u \in Seq(UnitType), NEW g \in HalfDone(u)
  PROVE  /\ g \in FileType /\ g["ram"] = file["ram"] /\ g["disk"] \in {file["disk"], With(u)}
         /\ With(u).exists /\ With(u).units = u
         /\ \/ g["stored"] = g["disk"]
            \/ /\ g["stored"].exists = file["stored"].exists
               /\ Len(g["stored"].units) = Len(file["stored"].units)
<1> DEFINE old == file["stored"].units
           over(to) == [file EXCEPT !["stored"].units = Overlaid(old, u, to)]
<1>1. old \in Seq(UnitType) /\ Len(old) \in Nat BY HomesAre DEF LogTypeOK, FileType
<1>2. With(u) \in [exists : BOOLEAN, units : Seq(UnitType)] /\ With(u).exists /\ With(u).units = u BY WithIs
<1>3. ASSUME NEW to \in 0 .. Len(old)
      PROVE  /\ over(to) \in FileType /\ over(to)["ram"] = file["ram"] /\ over(to)["disk"] = file["disk"]
             /\ over(to)["stored"].exists = file["stored"].exists /\ Len(over(to)["stored"].units) = Len(old)
  <2> DEFINE w == Overlaid(old, u, to)
  <2>1. w \in Seq(UnitType) /\ Len(w) = Len(old)
    <3>1. Zero \in UnitType BY DEF Zero, UnitType
    <3>2. \A i \in 1 .. Len(old) : old[i] \in UnitType BY <1>1
    <3>3. \A i \in 1 .. Len(old) : i <= Len(u) => u[i] \in UnitType OBVIOUS
    <3>4. w = [i \in 1 .. Len(old) |-> IF i > to THEN old[i] ELSE IF i <= Len(u) THEN u[i] ELSE Zero]
      BY <1>1 DEF Overlaid
    <3>5. \A i \in 1 .. Len(old) : (IF i > to THEN old[i] ELSE IF i <= Len(u) THEN u[i] ELSE Zero) \in UnitType
      BY <3>1, <3>2, <3>3
    <3>6. w \in [1 .. Len(old) -> UnitType] BY <3>4, <3>5
    <3> HIDE DEF w
    <3> QED BY <1>1, <3>6
  <2>2. over(to) = [file EXCEPT !["stored"] = [file["stored"] EXCEPT !.units = w]] OBVIOUS
  <2> HIDE DEF w, over, old
  <2>3. file["stored"] \in [exists : BOOLEAN, units : Seq(UnitType)] BY HomesAre DEF LogTypeOK, FileType
  <2> DEFINE e == [file["stored"] EXCEPT !.units = w]
  <2>4. e \in [exists : BOOLEAN, units : Seq(UnitType)] /\ e.exists = file["stored"].exists /\ e.units = w
    BY <2>1, <2>3
  <2> HIDE DEF e
  <2>5. over(to) = [file EXCEPT !["stored"] = e] BY <2>2 DEF e
  <2> QED BY <2>1, <2>4, <2>5, HomesAre DEF LogTypeOK, FileType
<1>4. CASE g = DiskHas(u) BY <1>4, DiskHasIs
<1>5. CASE \E to \in 0 .. Len(old) : g = over(to)
  <2> HIDE DEF over
  <2> QED BY <1>2, <1>3, <1>5
<1>6. CASE \E to \in 0 .. Len(old) : g = InMemory(over(to), u)
  <2>1. PICK to \in 0 .. Len(old) : g = InMemory(over(to), u) BY <1>6
  <2> DEFINE h == over(to)
  <2>2. /\ h \in FileType /\ h["ram"] = file["ram"] /\ h["disk"] = file["disk"]
        /\ h["stored"].exists = file["stored"].exists /\ Len(h["stored"].units) = Len(old)
    BY <1>3
  <2>3. g = [h EXCEPT !["disk"] = With(u)] BY <2>1 DEF InMemory
  <2> HIDE DEF h, over
  <2>4. g \in FileType /\ g["ram"] = h["ram"] /\ g["disk"] = With(u) /\ g["stored"] = h["stored"]
    BY <1>2, <2>2, <2>3, HomesAre DEF FileType
  <2> QED BY <1>2, <2>2, <2>4
<1>7. g = DiskHas(u) \/ (\E to \in 0 .. Len(old) : g = over(to)) \/ (\E to \in 0 .. Len(old) : g = InMemory(over(to), u))
  BY DEF HalfDone
<1> QED BY <1>4, <1>5, <1>6, <1>7

\* What a home holds after a step, seen from before it.
Unless(h) == Len(file'[h].units) = Len(file[h].units) /\ file'[h].exists = file[h].exists

LEMMA CreatedIs ==
  ASSUME LogTypeOK, ~Exists, Created \/ NotCreated
  PROVE  /\ file' \in FileType /\ failed' \in Nat
         /\ file'["ram"] = file["ram"] \/ (file'["ram"].exists /\ file'["ram"].units = <<>>)
         /\ file'["disk"] = file["disk"] \/ (OnDisk /\ file'["disk"].exists /\ file'["disk"].units = <<>>)
         /\ \/ file'["stored"] = file["stored"]
            \/ OnDisk /\ file'["stored"] = file'["disk"]
            \/ OnDisk /\ Unless("stored")
         /\ Created => file'["ram"].exists \/ file'["disk"].exists
         /\ Created /\ failed' = failed /\ OnDisk => file'["ram"] = file["ram"]
         /\ failed' = failed \/ failed' = failed + 1
         /\ NotCreated => failed' = failed + 1
<1>1. <<>> \in Seq(UnitType) /\ file \in FileType /\ failed \in Nat BY DEF LogTypeOK
<1>2. ASSUME NEW g \in FileType, NEW f, f = RamHas(g, <<>>)
      PROVE  /\ f \in FileType /\ f["disk"] = g["disk"] /\ f["stored"] = g["stored"]
             /\ f["ram"].exists /\ f["ram"].units = <<>>
  <2>1. Len(<<>>) <= RamLimit BY Sizes
  <2> DEFINE none == <<>>
  <2>2. none \in Seq(UnitType) /\ f = RamHas(g, none) /\ Len(none) <= RamLimit BY <1>1, <1>2, <2>1
  <2> HIDE DEF none
  <2>3. /\ f \in FileType /\ f["disk"] = g["disk"] /\ f["stored"] = g["stored"]
        /\ f["ram"].exists /\ f["ram"].units = none
    BY <2>2, RamHasIs
  <2> QED BY <2>3 DEF none
<1>3. ASSUME NEW g \in HalfDone(<<>>)
      PROVE  /\ g \in FileType /\ g["ram"] = file["ram"]
             /\ g["disk"] = file["disk"] \/ (g["disk"].exists /\ g["disk"].units = <<>>)
             /\ g["stored"] = g["disk"] \/ (/\ g["stored"].exists = file["stored"].exists
                                           /\ Len(g["stored"].units) = Len(file["stored"].units))
  <2>1. /\ g \in FileType /\ g["ram"] = file["ram"] /\ g["disk"] \in {file["disk"], With(<<>>)}
        /\ With(<<>>).exists /\ With(<<>>).units = <<>>
        /\ \/ g["stored"] = g["disk"]
           \/ /\ g["stored"].exists = file["stored"].exists
              /\ Len(g["stored"].units) = Len(file["stored"].units)
    BY <1>1, HalfDoneIs
  <2> QED BY <2>1
<1>4. failed + 1 # failed /\ failed + 1 \in Nat BY <1>1
<1>5. CASE OnDisk /\ file' = DiskHas(<<>>) /\ failed' = failed
  <2>1. /\ file' \in FileType /\ file'["ram"] = file["ram"] /\ file'["disk"] = With(<<>>)
        /\ file'["stored"] = With(<<>>) /\ With(<<>>).exists /\ With(<<>>).units = <<>>
    BY <1>1, <1>5, DiskHasIs
  <2> QED BY <1>1, <1>4, <1>5, <2>1 DEF NotCreated, Failing
<1>6. ASSUME OnDisk, failed' = failed + 1, NEW g \in HalfDone(<<>>), file' = RamHas(g, <<>>) PROVE
         /\ file' \in FileType /\ file'["ram"].exists /\ file'["ram"].units = <<>>
         /\ file'["disk"] = file["disk"] \/ (OnDisk /\ file'["disk"].exists /\ file'["disk"].units = <<>>)
         /\ (file'["stored"] = file'["disk"]) \/ Unless("stored")
  BY <1>2, <1>3, <1>6 DEF Unless
<1>7. ASSUME OnDisk, failed' = failed + 1, NEW g \in HalfDone(<<>>), file' = g PROVE
         /\ file' \in FileType /\ file'["ram"] = file["ram"]
         /\ file'["disk"] = file["disk"] \/ (OnDisk /\ file'["disk"].exists /\ file'["disk"].units = <<>>)
         /\ (file'["stored"] = file'["disk"]) \/ Unless("stored")
  BY <1>2, <1>3, <1>7 DEF Unless
<1>8. CASE ~OnDisk /\ file' = RamHas(file, <<>>) /\ failed' = failed
  BY <1>1, <1>2, <1>4, <1>8 DEF NotCreated, Failing
<1>9. CASE Created
  <2>1. CASE OnDisk /\ Failing /\ \E f \in HalfDone(<<>>) : file' = RamHas(f, <<>>)
    BY <1>1, <1>4, <1>6, <2>1 DEF Failing
  <2> QED BY <1>5, <1>8, <1>9, <2>1 DEF Created
<1>10. CASE NotCreated /\ ~Created
  <2>1. failed' = failed + 1 BY <1>10 DEF NotCreated, Failing
  <2>2. CASE OnDisk
    <3>1. PICK f \in HalfDone(<<>>) : file' = f \/ file' = RamHas(f, <<>>) BY <1>10, <2>2 DEF NotCreated
    <3> QED BY <1>1, <1>4, <1>6, <1>7, <1>10, <2>1, <2>2, <3>1
  <2>3. CASE ~OnDisk
    <3>1. file' = file \/ file' = RamHas(file, <<>>) BY <1>10, <2>3 DEF NotCreated
    <3> QED BY <1>1, <1>2, <1>4, <1>10, <2>1, <3>1
  <2> QED BY <2>2, <2>3
<1> QED BY <1>9, <1>10

\* The calls of append_log_file_locked, one by one: where the thread goes, what it keeps
\* aside and by which limit, and what becomes of the file.
Same == file' = file /\ failed' = failed
Stepped(t, to, kept, lim) ==
  LET r == Me(t)
      next(from, onto) == r.pc = from /\ to = onto /\ kept = r.retained /\ lim = r.limit
      back(from) == r.pc = from /\ to = "unlock" /\ kept = <<>> /\ lim = 0
  IN
  \/ (next("ensure", "room") \/ next("reopen", "rewrite")) /\ Exists /\ Same
  \/ (next("ensure", "room") \/ next("reopen", "rewrite")) /\ ~Exists /\ Created
  \/ (back("ensure") \/ back("reopen")) /\ ~Exists /\ NotCreated
  \/ next("room", "write") /\ Fits(t) /\ Same
  \/ /\ r.pc = "room" /\ to = "remove" /\ ~Fits(t) /\ Same
     /\ lim = LimitOf(Home) /\ kept = Retained(Units, Keep(LimitOf(Home)))
  \/ (back("room") \/ back("reopen") \/ back("write")) /\ file' = file /\ failed' = failed + 1
  \/ /\ next("remove", "reopen") /\ Home = "ram" /\ failed' = failed
     /\ file' = [file EXCEPT !["ram"] = NoFile]
  \/ /\ next("remove", "reopen") /\ Home = "disk" /\ failed' = failed
     /\ file' = [file EXCEPT !["disk"] = NoFile, !["stored"] = NoFile]
  \/ /\ back("remove") /\ Home = "disk" /\ failed' = failed + 1
     /\ file' \in {[file EXCEPT !["disk"] = NoFile], [file EXCEPT !["disk"] = NoFile, !["stored"] = NoFile]}
  \/ next("rewrite", "recheck") /\ kept = <<>> /\ Same
  \/ next("rewrite", "recheck") /\ Home = "ram" /\ file' = RamHas(file, kept) /\ failed' = failed
  \/ next("rewrite", "recheck") /\ Home = "disk" /\ file' = DiskHas(kept) /\ failed' = failed
  \/ back("rewrite") /\ Home = "disk" /\ file' \in HalfDone(r.retained) /\ failed' = failed + 1
  \/ r.pc = "recheck" /\ to = "write" /\ kept = <<>> /\ lim = 0 /\ Fits(t) /\ Same
  \/ back("recheck") /\ ~Fits(t) /\ Same
  \/ /\ next("write", "unlock") /\ Fits(t) /\ Home = "ram" /\ failed' = failed
     /\ file' = RamHas(file, Units \o Text(r.line))
  \/ /\ next("write", "unlock") /\ Fits(t) /\ Home = "disk" /\ failed' = failed
     /\ file' = DiskHas(Units \o Text(r.line))
  \/ /\ back("write") /\ Fits(t) /\ Home = "disk" /\ failed' = failed + 1
     /\ file' \in HalfDone(Units \o Text(r.line))

\* A thread in append_log_file_locked.
On(t, to, kept, lim) == [Me(t) EXCEPT !.pc = to, !.retained = kept, !.limit = lim]

LEMMA OnIs ==
  ASSUME LogTypeOK, NEW t \in Threads, NEW to \in Locked, NEW kept \in Seq(UnitType), NEW lim \in Nat
  PROVE  LET r == Me(t)  me == On(t, to, kept, lim) IN
         /\ me \in Local(t) /\ me.pc = to /\ me.retained = kept /\ me.limit = lim
         /\ me.line = r.line /\ me.count = r.count /\ me.next = r.next
<1> DEFINE r == Me(t)
<1>1. r \in Local(t) BY MeIn
<1>2. Locked \subseteq Stops(t) BY StopsIn DEF Threads
<1> HIDE DEF r
<1> QED BY <1>1, <1>2 DEF Local, On, r

LEMMA GoesOn ==
  ASSUME LogTypeOK, NEW t \in Threads, NEW pc, Goes(t, pc)
  PROVE  Becomes(t, On(t, pc, Me(t).retained, Me(t).limit))
<1> DEFINE r == Me(t)
<1>1. r \in Local(t) BY MeIn
<1>2. Becomes(t, [r EXCEPT !.pc = pc]) BY DEF Goes
<1>3. On(t, pc, r.retained, r.limit) = [r EXCEPT !.pc = pc, !.retained = r.retained, !.limit = r.limit]
  BY DEF On
<1> HIDE DEF r
<1>4. [r EXCEPT !.pc = pc] = [r EXCEPT !.pc = pc, !.retained = r.retained, !.limit = r.limit]
  BY <1>1 DEF Local
<1> QED BY <1>2, <1>3, <1>4 DEF r

LEMMA ReturnsOn == ASSUME NEW t, Returns(t) PROVE Becomes(t, On(t, "unlock", <<>>, 0))
BY DEF Returns, On

\* Where a call leads, of a thread's locals.
LEMMA StepsOn ==
  ASSUME LogTypeOK, NEW t \in Threads, AppendLine(t)
  PROVE  \E to, kept, lim : Becomes(t, On(t, to, kept, lim)) /\ Stepped(t, to, kept, lim)
<1> DEFINE r == Me(t)
<1>1. \A pc : At(t, pc) => r.pc = pc BY DEF At
<1>2. ASSUME NEW pc, NEW new, Put(t, pc, new)
      PROVE  Becomes(t, On(t, pc, r.retained, r.limit)) /\ file' = new /\ failed' = failed
  BY <1>2, GoesOn DEF Put
<1>3. ASSUME NEW new, Fail(t, new)
      PROVE  Becomes(t, On(t, "unlock", <<>>, 0)) /\ file' = new /\ failed' = failed + 1
  BY <1>3, ReturnsOn DEF Fail, Failing
<1>4. CASE Ensure(t)
  <2>1. CASE Exists /\ Put(t, "room", file)
    BY <1>1, <1>2, <1>4, <2>1, Zenon DEF Ensure, Stepped, Same
  <2>2. CASE ~Exists /\ Created /\ Goes(t, "room")
    BY <1>1, <1>4, <2>2, GoesOn, Zenon DEF Ensure, Stepped
  <2>3. CASE ~Exists /\ NotCreated /\ Returns(t)
    BY <1>1, <1>4, <2>3, ReturnsOn, Zenon DEF Ensure, Stepped
  <2> QED BY <1>4, <2>1, <2>2, <2>3 DEF Ensure
<1>5. CASE Room(t)
  <2>1. CASE Fits(t) /\ Put(t, "write", file)
    BY <1>1, <1>2, <1>5, <2>1, Zenon DEF Room, Stepped, Same
  <2>2. CASE ~Fits(t) /\ Fail(t, file)
    BY <1>1, <1>3, <1>5, <2>2, Zenon DEF Room, Stepped
  <2>3. CASE /\ ~Fits(t) /\ UNCHANGED <<file, failed>>
             /\ Becomes(t, [Me(t) EXCEPT !.pc = "remove", !.limit = LimitOf(Home),
                                      !.retained = Retained(Units, Keep(LimitOf(Home)))])
    <3> DEFINE lim == LimitOf(Home)
               kept == Retained(Units, Keep(LimitOf(Home)))
    <3>1. Becomes(t, [r EXCEPT !.pc = "remove", !.limit = lim, !.retained = kept]) BY <2>3
    <3>2. r \in Local(t) BY MeIn
    <3>3. lim = LimitOf(Home) /\ kept = Retained(Units, Keep(LimitOf(Home))) OBVIOUS
    <3> HIDE DEF r, lim, kept
    <3>4. [r EXCEPT !.pc = "remove", !.limit = lim, !.retained = kept]
            = [r EXCEPT !.pc = "remove", !.retained = kept, !.limit = lim]
      BY <3>2 DEF Local
    <3>5. Becomes(t, On(t, "remove", kept, lim)) BY <3>1, <3>4 DEF On, r
    <3>6. Me(t).pc = "room" BY <1>1, <1>5 DEF Room, r
    <3>7. file' = file /\ failed' = failed BY <2>3
    <3>8. Stepped(t, "remove", kept, lim) BY <2>3, <3>3, <3>6, <3>7, Zenon DEF Stepped, Same
    <3> QED BY <3>5, <3>8
  <2> QED BY <1>5, <2>1, <2>2, <2>3 DEF Room
<1>6. CASE Remove(t)
  <2>1. CASE Home = "ram" /\ Put(t, "reopen", [file EXCEPT !["ram"] = NoFile])
    BY <1>1, <1>2, <1>6, <2>1, Zenon DEF Remove, Stepped
  <2>2. CASE Home = "disk" /\ Put(t, "reopen", [file EXCEPT !["disk"] = NoFile, !["stored"] = NoFile])
    BY <1>1, <1>2, <1>6, <2>2, Zenon DEF Remove, Stepped
  <2>3. CASE Home = "disk" /\ Fail(t, [file EXCEPT !["disk"] = NoFile])
    BY <1>1, <1>3, <1>6, <2>3, Zenon DEF Remove, Stepped
  <2>4. CASE Home = "disk" /\ Fail(t, [file EXCEPT !["disk"] = NoFile, !["stored"] = NoFile])
    BY <1>1, <1>3, <1>6, <2>4, Zenon DEF Remove, Stepped
  <2> QED BY <1>6, <2>1, <2>2, <2>3, <2>4 DEF Remove
<1>7. CASE Reopen(t)
  <2>1. CASE Exists /\ Put(t, "rewrite", file)
    BY <1>1, <1>2, <1>7, <2>1, Zenon DEF Reopen, Stepped, Same
  <2>2. CASE Exists /\ Fail(t, file)
    BY <1>1, <1>3, <1>7, <2>2, Zenon DEF Reopen, Stepped
  <2>3. CASE ~Exists /\ Created /\ Goes(t, "rewrite")
    BY <1>1, <1>7, <2>3, GoesOn, Zenon DEF Reopen, Stepped
  <2>4. CASE ~Exists /\ NotCreated /\ Returns(t)
    BY <1>1, <1>7, <2>4, ReturnsOn, Zenon DEF Reopen, Stepped
  <2> QED BY <1>7, <2>1, <2>2, <2>3, <2>4 DEF Reopen
<1>8. CASE Rewrite(t)
  <2>0. r.pc = "rewrite" BY <1>1, <1>8 DEF Rewrite
  <2>1. CASE r.retained = <<>> /\ Put(t, "recheck", file)
    BY <1>1, <1>2, <1>8, <2>1, Zenon DEF Rewrite, Stepped, Same
  <2>2. CASE Home = "ram" /\ Put(t, "recheck", RamHas(file, r.retained))
    <3>1. /\ Becomes(t, On(t, "recheck", r.retained, r.limit))
          /\ file' = RamHas(file, r.retained) /\ failed' = failed
      BY <1>2, <2>2
    <3> QED BY <2>0, <2>2, <3>1, Zenon DEF Stepped
  <2>3. CASE Home = "disk" /\ Put(t, "recheck", DiskHas(r.retained))
    <3>1. /\ Becomes(t, On(t, "recheck", r.retained, r.limit))
          /\ file' = DiskHas(r.retained) /\ failed' = failed
      BY <1>2, <2>3
    <3> QED BY <2>0, <2>3, <3>1, Zenon DEF Stepped
  <2>4. CASE Home = "disk" /\ \E f \in HalfDone(r.retained) : Fail(t, f)
    <3>1. /\ Becomes(t, On(t, "unlock", <<>>, 0))
          /\ file' \in HalfDone(r.retained) /\ failed' = failed + 1
      BY <1>3, <2>4
    <3> QED BY <2>0, <2>4, <3>1, Zenon DEF Stepped
  <2> QED BY <1>8, <2>1, <2>2, <2>3, <2>4 DEF Rewrite
<1>9. CASE Recheck(t)
  <2>1. CASE Refits(t) /\ Becomes(t, [Me(t) EXCEPT !.pc = "write", !.retained = <<>>, !.limit = 0])
    <3>1. Becomes(t, On(t, "write", <<>>, 0)) BY <2>1 DEF On
    <3>2. Fits(t) BY <2>1 DEF Refits
    <3> QED BY <1>1, <1>9, <3>1, <3>2, Zenon DEF Recheck, Stepped, Same
  <2>2. CASE ~Refits(t) /\ Returns(t)
    <3>1. ~Fits(t) BY <2>2 DEF Refits
    <3> QED BY <1>1, <1>9, <2>2, <3>1, ReturnsOn, Zenon DEF Recheck, Stepped, Same
  <2> QED BY <1>9, <2>1, <2>2 DEF Recheck
<1>10. CASE WriteLine(t)
  <2> DEFINE units == Units \o Text(r.line)
  <2>0. r.pc = "write" BY <1>1, <1>10 DEF WriteLine
  <2>1. CASE Fail(t, file)
    BY <1>1, <1>3, <1>10, <2>1, Zenon DEF WriteLine, Stepped
  <2>2. CASE Fits(t) /\ Home = "ram" /\ Put(t, "unlock", RamHas(file, units))
    <3>1. /\ Becomes(t, On(t, "unlock", r.retained, r.limit))
          /\ file' = RamHas(file, units) /\ failed' = failed
      BY <1>2, <2>2
    <3> QED BY <2>0, <2>2, <3>1, Zenon DEF Stepped
  <2>3. CASE Fits(t) /\ Home = "disk" /\ Put(t, "unlock", DiskHas(units))
    <3>1. /\ Becomes(t, On(t, "unlock", r.retained, r.limit))
          /\ file' = DiskHas(units) /\ failed' = failed
      BY <1>2, <2>3
    <3> QED BY <2>0, <2>3, <3>1, Zenon DEF Stepped
  <2>4. CASE Fits(t) /\ Home = "disk" /\ \E f \in HalfDone(units) : Fail(t, f)
    <3>1. /\ Becomes(t, On(t, "unlock", <<>>, 0))
          /\ file' \in HalfDone(units) /\ failed' = failed + 1
      BY <1>3, <2>4
    <3> QED BY <2>0, <2>4, <3>1, Zenon DEF Stepped
  <2> QED BY <1>10, <2>1, <2>2, <2>3, <2>4 DEF WriteLine
<1> QED BY <1>4, <1>5, <1>6, <1>7, <1>8, <1>9, <1>10 DEF AppendLine

LEMMA RemovedIs ==
  ASSUME LogTypeOK
  PROVE  /\ LET g == [file EXCEPT !["ram"] = NoFile] IN
              g \in FileType /\ g["ram"] = NoFile /\ g["disk"] = file["disk"] /\ g["stored"] = file["stored"]
         /\ LET g == [file EXCEPT !["disk"] = NoFile] IN
              g \in FileType /\ g["ram"] = file["ram"] /\ g["disk"] = NoFile /\ g["stored"] = file["stored"]
         /\ LET g == [file EXCEPT !["disk"] = NoFile, !["stored"] = NoFile] IN
              g \in FileType /\ g["ram"] = file["ram"] /\ g["disk"] = NoFile /\ g["stored"] = NoFile
<1>1. <<>> \in Seq(UnitType) OBVIOUS
<1>2. NoFile \in [exists : BOOLEAN, units : Seq(UnitType)] BY <1>1, WithIs
<1> QED BY <1>2, HomesAre DEF LogTypeOK, FileType

LEMMA HomeIn ==
  ASSUME LogTypeOK
  PROVE  /\ \A h \in Homes : file[h].units \in Seq(UnitType) /\ file[h].exists \in BOOLEAN /\ Len(file[h].units) \in Nat
         /\ Units \in Seq(UnitType) /\ boot \in Nat /\ LimitOf(Home) \in Nat
         /\ RamLimit <= LimitOf(Home) /\ LimitOf(Home) <= Limit
         /\ Keep(LimitOf(Home)) \in Nat /\ Keep(LimitOf(Home)) + Reserve = LimitOf(Home)
<1>1. \A h \in Homes : file[h].units \in Seq(UnitType) /\ file[h].exists \in BOOLEAN /\ Len(file[h].units) \in Nat
  BY DEF LogTypeOK, FileType
<1>2. Units \in Seq(UnitType) BY <1>1, HomesAre DEF Units
<1>3. LimitOf(Home) \in Nat /\ RamLimit <= LimitOf(Home) /\ LimitOf(Home) <= Limit BY Sizes DEF LimitOf
<1> QED BY <1>1, <1>2, <1>3, Sizes DEF LogTypeOK

LEMMA TextOf ==
  ASSUME LogTypeOK, NEW t \in Threads
  PROVE  Text(Me(t).line) \in Seq(UnitType) /\ Len(Text(Me(t).line)) < Reserve /\ Me(t).line \in Line
<1>1. Me(t).line \in Line
  <2>1. Me(t) \in Local(t) BY MeIn
  <2> QED BY <2>1 DEF Local
<1> QED BY <1>1, TextIn DEF LogTypeOK

LEMMA SteppedIn ==
  ASSUME LogTypeOK, NEW t \in Threads, NEW to, NEW kept, NEW lim, Stepped(t, to, kept, lim)
  PROVE  /\ to \in Locked /\ kept \in Seq(UnitType) /\ lim \in Nat /\ file' \in FileType
         /\ failed' \in Nat /\ failed' \in {failed, failed + 1} /\ Me(t).pc \in Locked \ {"unlock"}
<1> DEFINE r == Me(t)
<1>1. r \in Local(t) BY MeIn
<1>2. r.retained \in Seq(UnitType) /\ r.limit \in Nat /\ <<>> \in Seq(UnitType) BY <1>1 DEF Local
<1>3. file \in FileType /\ failed \in Nat /\ failed + 1 \in Nat BY DEF LogTypeOK
<1>4. Retained(Units, Keep(LimitOf(Home))) \in Seq(UnitType) /\ LimitOf(Home) \in Nat
  BY HomeIn, RetainedIn
<1>5. Units \o Text(r.line) \in Seq(UnitType) BY HomeIn, TextOf
<1>6. ASSUME NEW u \in Seq(UnitType), file' = RamHas(file, u) \/ file' = DiskHas(u) \/ file' \in HalfDone(u)
      PROVE  file' \in FileType
  BY <1>3, <1>6, RamHasIs, DiskHasIs, HalfDoneIs
<1>7. ASSUME ~Exists, Created \/ NotCreated PROVE file' \in FileType /\ failed' \in {failed, failed + 1}
  BY <1>7, CreatedIs
<1>8. /\ [file EXCEPT !["ram"] = NoFile] \in FileType /\ [file EXCEPT !["disk"] = NoFile] \in FileType
      /\ [file EXCEPT !["disk"] = NoFile, !["stored"] = NoFile] \in FileType
  BY RemovedIs
<1>9. to \in Locked /\ r.pc \in Locked \ {"unlock"} BY Zenon DEF Stepped, Locked
<1> HIDE DEF r
<1>10. kept \in Seq(UnitType) /\ lim \in Nat
  <2>1. kept = r.retained \/ kept = <<>> \/ kept = Retained(Units, Keep(LimitOf(Home)))
    BY Zenon DEF Stepped, r
  <2>2. lim = r.limit \/ lim = 0 \/ lim = LimitOf(Home) BY Zenon DEF Stepped, r
  <2>3. kept \in Seq(UnitType) BY <1>2, <1>4, <2>1, Zenon
  <2>4. lim \in Nat BY <1>2, <1>4, <2>2
  <2> QED BY <2>3, <2>4
<1>11. file' \in FileType
  <2>1. file' = file \/ (\E u \in Seq(UnitType) : file' = RamHas(file, u) \/ file' = DiskHas(u) \/ file' \in HalfDone(u))
        \/ (~Exists /\ (Created \/ NotCreated))
        \/ file' \in {[file EXCEPT !["ram"] = NoFile], [file EXCEPT !["disk"] = NoFile],
                      [file EXCEPT !["disk"] = NoFile, !["stored"] = NoFile]}
    BY <1>2, <1>5, <1>10 DEF Stepped, r, Same
  <2> QED BY <1>3, <1>6, <1>7, <1>8, <2>1
<1>12. failed' \in {failed, failed + 1} BY <1>7 DEF Stepped, Same
<1> QED BY <1>3, <1>9, <1>10, <1>11, <1>12 DEF r

LEMMA AppendIs ==
  ASSUME LogTypeOK, NEW t \in Threads, AppendLine(t)
  PROVE  /\ LogTypeOK' /\ UNCHANGED <<head, ring, ready, lock, where, boot>>
         /\ damaged' = (damaged \/ RunsOver \/ Cuts(t))
         /\ Me(t).pc \in Locked \ {"unlock"} /\ failed' \in {failed, failed + 1}
         /\ \A o \in Threads \ {t} : Me(o)' = Me(o)
         /\ \E to \in Locked, kept \in Seq(UnitType), lim \in Nat :
              /\ Me(t)'.pc = to /\ Me(t)'.retained = kept /\ Me(t)'.limit = lim
              /\ Me(t)'.line = Me(t).line /\ Me(t)'.count = Me(t).count /\ Me(t)'.next = Me(t).next
              /\ Stepped(t, to, kept, lim)
<1>1. UNCHANGED <<head, ring, ready, lock, where, boot>> /\ damaged' = (damaged \/ RunsOver \/ Cuts(t))
  BY DEF AppendLine
<1>2. PICK to, kept, lim : Becomes(t, On(t, to, kept, lim)) /\ Stepped(t, to, kept, lim) BY StepsOn
<1>3. /\ to \in Locked /\ kept \in Seq(UnitType) /\ lim \in Nat /\ file' \in FileType
      /\ failed' \in Nat /\ failed' \in {failed, failed + 1} /\ Me(t).pc \in Locked \ {"unlock"}
  BY <1>2, SteppedIn
<1> DEFINE me == On(t, to, kept, lim)
<1>4. /\ me \in Local(t) /\ me.pc = to /\ me.retained = kept /\ me.limit = lim
      /\ me.line = Me(t).line /\ me.count = Me(t).count /\ me.next = Me(t).next
  BY <1>3, OnIs
<1> HIDE DEF me
<1>5. Becomes(t, me) BY <1>2 DEF me
<1>6. Me(t)' = me /\ \A o \in Threads \ {t} : Me(o)' = Me(o) BY <1>5, BecomesIs
<1>7. damaged' \in BOOLEAN BY <1>1 DEF LogTypeOK, RunsOver, Cuts, At
<1>8. LogTypeOK' BY <1>1, <1>3, <1>4, <1>5, <1>7, Onward DEF LogTypeOK
<1> QED BY <1>1, <1>2, <1>3, <1>4, <1>6, <1>8

\* A read leaves all but the main loop's locals alone; so do the steps of draw_logs.
LEMMA ReturnIs ==
  ASSUME LogTypeOK, NEW line \in Line, Return(line)
  PROVE  /\ main' \in Local("main") /\ main'.count = main.count /\ main'.retained = main.retained
         /\ main'.next = main.next
         /\ ~Replaying => main'.pc = Rest /\ main'.line = main.line
         /\ Replaying => /\ main'.pc \in {"replay", "ensure"} /\ main'.line = line
                         /\ main'.pc = "replay" <=> line = NoLine
<1> DEFINE to == IF line = NoLine THEN "replay" ELSE "ensure"
<1>1. main \in Local("main") BY DEF LogTypeOK
<1>2. Rest \in Stops("main") /\ to \in Stops("main") BY StopsIn DEF Locked
<1>3. CASE ~Replaying
  <2>1. main' = [main EXCEPT !.pc = Rest, !.a = NoLine, !.b = NoLine, !.asked = 0] BY <1>3 DEF Return
  <2> QED BY <1>1, <1>2, <1>3, <2>1, NoLineIn DEF Local
<1>4. CASE Replaying
  <2>1. main' = [main EXCEPT !.pc = to, !.line = line, !.a = NoLine, !.b = NoLine, !.asked = 0]
    BY <1>4 DEF Return
  <2>2. to \in {"replay", "ensure"} /\ (to = "replay" <=> line = NoLine) OBVIOUS
  <2> HIDE DEF to
  <2> QED BY <1>1, <1>2, <1>4, <2>1, <2>2, NoLineIn DEF Local
<1> QED BY <1>3, <1>4

LEMMA CountIs == ASSUME LogTypeOK PROVE Count \in Nat /\ First \in Nat /\ First > 0 /\ First + Count = head + 1
BY Sizes DEF LogTypeOK, Count, First

\* A step of kernel_log_read, case by case.
LEMMA ReadIs ==
  ASSUME LogTypeOK, Read
  PROVE  /\ LogTypeOK' /\ UNCHANGED <<head, ring, file, ready, lock, panic, where, boot, failed, damaged>>
         /\ where # "same" /\ main.pc \in Reading /\ main'.count = main.count
         /\ main'.retained = main.retained /\ main'.next = main.next
         /\ \/ \E line \in {NoLine, main.a} :
                 Return(line) /\ (line # NoLine => main.pc = "got")
            \/ LET e == ring[Slot(main.asked)] IN
               /\ main'.line = main.line /\ main'.asked = main.asked
               /\ \/ main.pc = "check" /\ main'.pc = "copy" /\ e.sequence = main.asked
                  \/ main.pc = "copy" /\ main'.pc = "more" /\ main'.a = e.a
                  \/ main.pc = "more" /\ main'.pc = "again" /\ main'.a = main.a /\ main'.b = e.b
                  \/ /\ main.pc = "again" /\ main'.pc = "got" /\ main'.a = main.a /\ main'.b = main.b
                     /\ e.sequence = main.asked
<1> DEFINE e == ring[Slot(main.asked)]
           step(to, a, b) == main' = [main EXCEPT !.pc = to, !.a = a, !.b = b]
<1>1. main \in Local("main") BY DEF LogTypeOK
<1>2. main.asked \in Nat /\ main.a \in Line /\ main.b \in Line BY <1>1 DEF Local
<1>3. e \in EntryType BY <1>2, SlotIn DEF LogTypeOK
<1>4. UNCHANGED <<head, ring, file, ready, lock, panic, where, boot, failed, damaged>> BY DEF Read
<1>5. where # "same" /\ main.pc \in Reading BY DEF Read, At, Me, Reading
<1>6. Reading \subseteq Stops("main") BY StopsIn
<1>7. ASSUME NEW line \in {NoLine, main.a}, Return(line)
      PROVE  /\ LogTypeOK' /\ main'.count = main.count /\ main'.retained = main.retained /\ main'.next = main.next
  <2>1. line \in Line BY <1>2, NoLineIn
  <2> QED BY <1>4, <1>7, <2>1, ReturnIs DEF LogTypeOK
<1>8. ASSUME NEW to \in Reading, NEW a \in Line, NEW b \in Line, step(to, a, b)
      PROVE  /\ LogTypeOK' /\ main'.count = main.count /\ main'.retained = main.retained /\ main'.next = main.next
             /\ main'.pc = to /\ main'.line = main.line /\ main'.asked = main.asked
             /\ main'.a = a /\ main'.b = b
  <2>1. main' \in Local("main") BY <1>1, <1>6, <1>8 DEF Local
  <2> QED BY <1>1, <1>4, <1>8, <2>1 DEF LogTypeOK, Local
<1>9. \/ (main.pc = "check" /\ Return(NoLine))
      \/ (main.pc = "again" /\ Return(NoLine))
      \/ (main.pc = "got" /\ Return(main.a))
      \/ (main.pc = "check" /\ e.sequence = main.asked /\ main' = [main EXCEPT !.pc = "copy"])
      \/ (main.pc = "copy" /\ main' = [main EXCEPT !.pc = "more", !.a = e.a])
      \/ (main.pc = "more" /\ main' = [main EXCEPT !.pc = "again", !.b = e.b])
      \/ (main.pc = "again" /\ e.sequence = main.asked /\ main' = [main EXCEPT !.pc = "got"])
  <2>1. \A pc : At("main", pc) => main.pc = pc BY DEF At, Me
  <2>2. StillThere(e) => e.sequence = main.asked BY DEF StillThere
  <2> HIDE DEF e
  <2>3. e = ring[Slot(main.asked)] BY DEF e
  <2> QED BY <2>1, <2>2, <2>3 DEF Read
<1>10. CASE \E line \in {NoLine, main.a} : Return(line) /\ (line # NoLine => main.pc = "got")
  BY <1>4, <1>5, <1>7, <1>10
<1>11. e.a \in Line /\ e.b \in Line BY <1>3 DEF EntryType
<1>12. {"check", "copy", "more", "again", "got"} = Reading BY DEF Reading
<1> HIDE DEF e
<1>13. ASSUME NEW to \in Reading
       PROVE  /\ [main EXCEPT !.pc = to] = [main EXCEPT !.pc = to, !.a = main.a, !.b = main.b]
              /\ [main EXCEPT !.pc = to, !.a = e.a] = [main EXCEPT !.pc = to, !.a = e.a, !.b = main.b]
              /\ [main EXCEPT !.pc = to, !.b = e.b] = [main EXCEPT !.pc = to, !.a = main.a, !.b = e.b]
  BY <1>1, <1>2, <1>11 DEF Local
<1>14. CASE main.pc = "check" /\ e.sequence = main.asked /\ main' = [main EXCEPT !.pc = "copy"]
  <2>1. step("copy", main.a, main.b) BY <1>12, <1>13, <1>14
  <2>2. /\ LogTypeOK' /\ main'.count = main.count /\ main'.retained = main.retained /\ main'.next = main.next
        /\ main'.pc = "copy" /\ main'.line = main.line /\ main'.asked = main.asked
        /\ main'.a = main.a /\ main'.b = main.b
    <3> HIDE DEF step
    <3> QED BY <1>2, <1>8, <1>12, <2>1
  <2> QED BY <1>4, <1>5, <1>14, <2>2 DEF e
<1>15. CASE main.pc = "copy" /\ main' = [main EXCEPT !.pc = "more", !.a = e.a]
  <2>1. step("more", e.a, main.b) BY <1>12, <1>13, <1>15
  <2>2. /\ LogTypeOK' /\ main'.count = main.count /\ main'.retained = main.retained /\ main'.next = main.next
        /\ main'.pc = "more" /\ main'.line = main.line /\ main'.asked = main.asked
        /\ main'.a = e.a /\ main'.b = main.b
    <3> HIDE DEF step
    <3> QED BY <1>2, <1>11, <1>8, <1>12, <2>1
  <2> QED BY <1>4, <1>5, <1>15, <2>2 DEF e
<1>16. CASE main.pc = "more" /\ main' = [main EXCEPT !.pc = "again", !.b = e.b]
  <2>1. step("again", main.a, e.b) BY <1>12, <1>13, <1>16
  <2>2. /\ LogTypeOK' /\ main'.count = main.count /\ main'.retained = main.retained /\ main'.next = main.next
        /\ main'.pc = "again" /\ main'.line = main.line /\ main'.asked = main.asked
        /\ main'.a = main.a /\ main'.b = e.b
    <3> HIDE DEF step
    <3> QED BY <1>2, <1>11, <1>8, <1>12, <2>1
  <2> QED BY <1>4, <1>5, <1>16, <2>2 DEF e
<1>17. CASE main.pc = "again" /\ e.sequence = main.asked /\ main' = [main EXCEPT !.pc = "got"]
  <2>1. step("got", main.a, main.b) BY <1>12, <1>13, <1>17
  <2>2. /\ LogTypeOK' /\ main'.count = main.count /\ main'.retained = main.retained /\ main'.next = main.next
        /\ main'.pc = "got" /\ main'.line = main.line /\ main'.asked = main.asked
        /\ main'.a = main.a /\ main'.b = main.b
    <3> HIDE DEF step
    <3> QED BY <1>2, <1>8, <1>12, <2>1
  <2> QED BY <1>4, <1>5, <1>17, <2>2 DEF e
<1> QED
  <2>1. (\E line \in {NoLine, main.a} : Return(line) /\ (line # NoLine => main.pc = "got"))
        \/ (main.pc = "check" /\ e.sequence = main.asked /\ main' = [main EXCEPT !.pc = "copy"])
        \/ (main.pc = "copy" /\ main' = [main EXCEPT !.pc = "more", !.a = e.a])
        \/ (main.pc = "more" /\ main' = [main EXCEPT !.pc = "again", !.b = e.b])
        \/ (main.pc = "again" /\ e.sequence = main.asked /\ main' = [main EXCEPT !.pc = "got"])
    BY <1>9
  <2> QED BY <1>10, <1>14, <1>15, <1>16, <1>17, <2>1

\* The main loop's steps between two calls on the ring or the file.
LEMMA DriveIs ==
  ASSUME LogTypeOK, Draw \/ Start \/ Begin \/ Replay
  PROVE  /\ LogTypeOK' /\ UNCHANGED <<head, ring, panic, where, boot>>
         /\ where # "same" /\ main'.retained = main.retained /\ failed' \in {failed, failed + 1}
         /\ \/ file' = file /\ damaged' = damaged
            \/ /\ main.pc = "early" /\ ~Exists /\ (Created \/ NotCreated)
               /\ damaged' = (damaged \/ RunsOver)
         /\ \/ /\ main.pc = Rest /\ main'.pc = "check" /\ main'.asked \in 1 .. head /\ main'.count = main.count
               /\ main'.line = main.line /\ UNCHANGED <<file, ready, lock, failed>>
            \/ /\ main.pc = "early" /\ main'.pc = "early" /\ main'.count = main.count
               /\ main'.line = main.line /\ UNCHANGED <<ready, lock>> /\ failed' = failed + 1
            \/ /\ main.pc = "early" /\ main'.pc = "begin" /\ main'.count = Count
               /\ main'.line = main.line /\ UNCHANGED <<ready, lock>>
            \/ /\ main.pc = "begin" /\ main'.pc = "ensure" /\ main'.count = main.count
               /\ main'.line = Session /\ main'.next = 0
               /\ lock = "none" /\ lock' = "main" /\ ready' /\ UNCHANGED failed
            \/ /\ main.pc = "replay" /\ main'.pc = "idle" /\ main'.count = 0
               /\ main'.line = main.line /\ main.next = main.count /\ lock' = "none" /\ UNCHANGED <<ready, failed>>
            \/ /\ main.pc = "replay" /\ main'.pc = "check" /\ main'.asked \in 1 .. head /\ main'.count = main.count
               /\ main'.asked = First + main.next /\ main'.next = main.next + 1 /\ main.next < Count
               /\ main'.line = main.line /\ UNCHANGED <<ready, lock, failed>>
<1>1. main \in Local("main") BY DEF LogTypeOK
<1>2. {"check", "begin", "ensure", "early", "idle"} \subseteq Stops("main") BY StopsIn DEF Reading, Locked
<1>3. main.next \in Nat /\ main.count \in Nat BY <1>1 DEF Local
<1>4. Count \in Nat /\ First \in Nat /\ First > 0 /\ First + Count = head + 1 /\ head \in Nat
  BY CountIs DEF LogTypeOK
<1>5. \A pc : At("main", pc) => main.pc = pc /\ where # "same" BY DEF At, Me
<1>6. CASE Draw
  <2>1. PICK index \in 0 .. Capacity - 1 : Ask(index) BY <1>6 DEF Draw
  <2> DEFINE n == First + index
  <2>2. main' = [main EXCEPT !.pc = "check", !.asked = n] BY <2>1 DEF Ask
  <2>3. n \in Nat /\ n \in 1 .. head BY <1>4, <2>1, Sizes DEF Ask
  <2> HIDE DEF n
  <2>4. main' \in Local("main") /\ main'.pc = "check" /\ main'.count = main.count
        /\ main'.retained = main.retained /\ main'.line = main.line /\ main'.asked \in 1 .. head
    BY <1>1, <1>2, <2>2, <2>3 DEF Local
  <2> QED BY <1>5, <1>6, <2>4 DEF Draw, LogTypeOK
<1>7. CASE Start
  <2>1. /\ main.pc = "early" /\ where # "same" /\ UNCHANGED <<head, ring, ready, lock, panic, where, boot>>
        /\ damaged' = (damaged \/ RunsOver)
    BY <1>5, <1>7 DEF Start
  <2>2. /\ damaged' \in BOOLEAN
        /\ \/ file' = file /\ failed' = failed /\ damaged' = damaged /\ file' \in FileType
           \/ /\ ~Exists /\ (Created \/ NotCreated) /\ file' \in FileType
              /\ failed' \in {failed, failed + 1}
    <3>1. CASE file' = file /\ failed' = failed
      <4>1. ~RunsOver BY <3>1 DEF RunsOver
      <4> QED BY <2>1, <3>1, <4>1 DEF LogTypeOK
    <3>2. CASE ~Exists /\ (Created \/ NotCreated)
      <4>1. file' \in FileType /\ failed' \in {failed, failed + 1} BY <3>2, CreatedIs
      <4> QED BY <2>1, <3>2, <4>1 DEF LogTypeOK, RunsOver
    <3> QED BY <1>7, <3>1, <3>2 DEF Start
  <2>3. failed' \in Nat BY <2>2 DEF LogTypeOK
  <2>4. CASE main' = [main EXCEPT !.pc = "begin", !.next = 1, !.count = Count]
    <3>1. main' \in Local("main") /\ main'.pc = "begin" /\ main'.count = Count /\ main'.retained = main.retained
          /\ main'.line = main.line
      BY <1>1, <1>2, <1>4, <2>4 DEF Local
    <3> QED BY <2>1, <2>2, <2>3, <3>1 DEF LogTypeOK
  <2>5. CASE main' = [main EXCEPT !.next = 1] /\ NotCreated
    <3>1. main' \in Local("main") /\ main'.pc = main.pc /\ main'.count = main.count
          /\ main'.retained = main.retained /\ main'.line = main.line
      BY <1>1, <2>5 DEF Local
    <3>2. failed' = failed + 1 BY <2>5 DEF NotCreated, Failing
    <3> QED BY <2>1, <2>2, <2>3, <3>1, <3>2 DEF LogTypeOK
  <2> QED BY <1>7, <2>4, <2>5 DEF Start
<1>8. CASE Begin
  <2>1. main' \in Local("main") /\ main'.pc = "ensure" /\ main'.count = main.count
        /\ main'.retained = main.retained /\ main'.line = Session /\ main'.next = 0
    BY <1>1, <1>2, <1>8, NoLineIn DEF Begin, Local
  <2> QED BY <1>5, <1>8, <2>1 DEF Begin, LogTypeOK
<1>9. CASE Replay
  <2>1. CASE main.next = main.count
    <3>1. main' = [main EXCEPT !.pc = "idle", !.next = 0, !.count = 0] /\ lock' = "none"
      BY <1>9, <2>1 DEF Replay
    <3>2. main' \in Local("main") /\ main'.pc = "idle" /\ main'.count = 0
          /\ main'.retained = main.retained /\ main'.line = main.line
      BY <1>1, <1>2, <3>1 DEF Local
    <3> QED BY <1>5, <1>9, <2>1, <3>1, <3>2 DEF Replay, LogTypeOK
  <2>2. CASE main.next # main.count
    <3>1. /\ main' = [main EXCEPT !.pc = "check", !.asked = First + main.next, !.next = main.next + 1]
          /\ UNCHANGED lock /\ main.next < Count
      BY <1>9, <2>2 DEF Replay
    <3> DEFINE n == First + main.next
               next == main.next + 1
    <3>2. n \in Nat /\ n \in 1 .. head /\ next \in Nat BY <1>3, <1>4, <3>1
    <3>3. main' = [main EXCEPT !.pc = "check", !.asked = n, !.next = next] BY <3>1
    <3> HIDE DEF n, next
    <3>4. main' \in Local("main") /\ main'.pc = "check" /\ main'.count = main.count
          /\ main'.retained = main.retained /\ main'.line = main.line
          /\ main'.asked = n /\ main'.next = next
      BY <1>1, <1>2, <1>3, <3>2, <3>3 DEF Local
    <3>5. LogTypeOK' /\ UNCHANGED <<head, ring, panic, where, boot, file, ready, failed, damaged>>
          /\ main.pc = "replay" /\ where # "same"
      BY <1>5, <1>9, <3>1, <3>4 DEF Replay, LogTypeOK
    <3>6. n = First + main.next /\ next = main.next + 1 BY DEF n, next
    <3> QED BY <3>1, <3>2, <3>4, <3>5, <3>6
  <2> QED BY <2>1, <2>2
<1> QED BY <1>6, <1>7, <1>8, <1>9

LEMMA PowerOffType == LogTypeOK /\ PowerOff => LogTypeOK'
<1> SUFFICES ASSUME LogTypeOK, PowerOff PROVE LogTypeOK' OBVIOUS
<1>1. boot' \in Nat /\ damaged' \in BOOLEAN BY DEF LogTypeOK, PowerOff
<1>2. file' \in FileType
  <2>1. <<>> \in Seq(UnitType) OBVIOUS
  <2>2. NoFile \in [exists : BOOLEAN, units : Seq(UnitType)] BY <2>1, WithIs
  <2>3. file["stored"] \in [exists : BOOLEAN, units : Seq(UnitType)] BY HomesAre DEF LogTypeOK, FileType
  <2> QED BY <2>2, <2>3 DEF PowerOff, FileType
<1> QED BY <1>1, <1>2, ResetIn DEF PowerOff

LEMMA LogTypeInit == Init => LogTypeOK
<1> SUFFICES ASSUME Init PROVE LogTypeOK OBVIOUS
<1>1. Thread("early") \in Local("main") /\ Thread("off") \in Local("panic") BY ThreadIn DEF Stops, Threads
<1>2. Entry \in EntryType BY NoLineIn DEF Entry, EntryType
<1>3. <<>> \in Seq(UnitType) OBVIOUS
<1>4. NoFile \in [exists : BOOLEAN, units : Seq(UnitType)] BY <1>3, WithIs
<1>5. file \in FileType BY <1>4 DEF Init, FileType
<1> QED BY <1>1, <1>2, <1>5 DEF LogTypeOK, Init, Reset, Places

LEMMA LogTypeStep == LogTypeOK /\ [Next]_vars => LogTypeOK'
<1> SUFFICES ASSUME LogTypeOK, [Next]_vars PROVE LogTypeOK' OBVIOUS
<1>1. ASSUME NEW len \in Lens, Log(len) PROVE LogTypeOK' BY <1>1, LogType
<1>2. ASSUME NEW cpu \in Panics, Panic(cpu) PROVE LogTypeOK' BY <1>2, PanicType
<1>3. ASSUME NEW t \in Threads, Works(t) PROVE LogTypeOK'
  BY <1>3, RecordIs, PersistType, AppendIs, UnlockType DEF Works
<1>4. CASE Read BY <1>4, ReadIs
<1>5. CASE Draw \/ Start \/ Begin \/ Replay BY <1>5, DriveIs
<1>6. CASE PowerOff BY <1>6, PowerOffType
<1>7. CASE UNCHANGED vars BY <1>7 DEF vars, LogTypeOK
<1> QED BY <1>1, <1>2, <1>3, <1>4, <1>5, <1>6, <1>7 DEF Next, Threads

-----------------------------------------------------------------------------
(***************************************************************************)
(* The file has room.  Whoever works on it holds the lock, so that nobody  *)
(* else appends between a rotation, or a look at the size, and the write.  *)
(* Only a failed call takes the file from the disk to RAM, and then it     *)
(* starts empty; what a rotation keeps fits in the limit it went by.       *)
(***************************************************************************)
Held ==
  /\ \A t \in Threads : Me(t).pc \in Locked => lock = t
  /\ main.pc = "replay" => lock = "main"
  /\ main.pc \in Reading /\ Replaying => lock = "main"
  /\ main.pc \in {"early", "idle", "persist"} \cup Copying => main.count = 0

\* Where a thread works on a file that there is, where it has removed it, and where it
\* keeps something of it.
Working == {"room", "remove", "rewrite", "recheck", "write"}
Emptying == {"reopen", "rewrite"}
Rotation == {"remove", "reopen", "rewrite", "recheck"}

There == \A t \in Threads : Me(t).pc \in Working => Exists
Emptied == \A t \in Threads : Me(t).pc \in Emptying => Units = <<>>
Rotated == \A t \in Threads : Me(t).pc \in Rotation =>
  /\ RamLimit <= Me(t).limit /\ Me(t).limit <= Limit /\ (~OnDisk => Me(t).limit = RamLimit)
  /\ Len(Me(t).retained) <= Keep(Me(t).limit)

\* A file in RAM hides none on the disk but an empty one, and is there only without a disk
\* or after a call that failed.
Tidy ==
  /\ \A h \in Homes : ~file[h].exists => file[h].units = <<>>
  /\ file["ram"].exists => file["disk"].units = <<>>
  /\ ~OnDisk => ~file["disk"].exists /\ ~file["stored"].exists
  /\ OnDisk /\ failed = 0 => ~file["ram"].exists

Bounded ==
  /\ Len(file["ram"].units) <= RamLimit
  /\ Len(file["disk"].units) <= Limit /\ Len(file["stored"].units) <= Limit

Roomy == There /\ Emptied /\ Rotated /\ Tidy /\ RoomMade
RoomInv == LogTypeOK /\ Held /\ Roomy

LEMMA MeIs == Me("main") = main /\ Me("panic") = panic /\ Me("main")' = main' /\ Me("panic")' = panic'
              /\ "main" \in Threads /\ "panic" \in Threads
              /\ Threads \ {"main"} = {"panic"} /\ Threads \ {"panic"} = {"main"}
              /\ "none" \notin Threads
BY DEF Me, Threads

\* Where the file is small enough, any line fits.
LEMMA FitsSmall ==
  ASSUME LogTypeOK, NEW t \in Threads, Len(Units) <= Keep(LimitOf(Home))
  PROVE  Fits(t)
<1> DEFINE size == Len(Units)
           more == Len(Text(Me(t).line))
           limit == LimitOf(Home)
           keep == Keep(limit)
<1>1. size \in Nat /\ more \in Nat /\ more < Reserve /\ size <= keep /\ keep \in Nat /\ limit \in Nat
      /\ keep + Reserve = limit
  BY HomeIn, TextOf
<1>2. Fits(t) <=> size + more <= limit BY DEF Fits
<1> HIDE DEF size, more, limit, keep
<1> QED BY <1>1, <1>2, Sizes

LEMMA FitsSmallNext ==
  ASSUME LogTypeOK, LogTypeOK', boot' = boot, NEW t \in Threads, Me(t)'.line = Me(t).line,
         Len(Units') <= Keep(LimitOf(Home'))
  PROVE  Fits(t)'
<1> DEFINE size == Len(Units')
           more == Len(Text(Me(t).line))
           limit == LimitOf(Home')
           keep == Keep(limit)
<1>1. limit \in Nat /\ keep \in Nat /\ keep + Reserve = limit
  <2>1. limit \in Nat /\ RamLimit <= limit BY Sizes DEF LimitOf
  <2> HIDE DEF limit
  <2> QED BY <2>1, Sizes
<1>2. Units' \in Seq(UnitType)
  <2>1. file' \in FileType BY DEF LogTypeOK
  <2> QED BY <2>1, HomesAre DEF Units, FileType
<1>3. size \in Nat /\ more \in Nat /\ more < Reserve /\ size <= keep BY <1>2, TextOf
<1>4. Text(Me(t).line)' = Text(Me(t).line) BY DEF Text, Unit
<1>5. Fits(t)' <=> size + more <= limit BY <1>4 DEF Fits, LimitOf
<1> HIDE DEF size, more, limit, keep
<1> QED BY <1>1, <1>3, <1>5, Sizes

\* A step on the file as those who do not make it see it.
Steady ==
  /\ Tidy' /\ Bounded' /\ (Exists => Exists') /\ (Units = <<>> => Units' = <<>>)
  /\ Units' = <<>> \/ (Units' = Units /\ Home' = Home)

LEMMA SteadyStays == ASSUME Tidy, RoomMade, file' = file, failed' = failed PROVE Steady
BY DEF Tidy, RoomMade, Bounded, Steady, Exists, Units, Home

LEMMA RoomOthers ==
  ASSUME RoomInv, LogTypeOK', Steady, boot' = boot, NEW o \in Threads, Me(o)' = Me(o)
  PROVE  /\ Me(o)'.pc \in Working => Exists'
         /\ Me(o)'.pc \in Emptying => Units' = <<>>
         /\ Me(o)'.pc \in Rotation =>
              /\ RamLimit <= Me(o)'.limit /\ Me(o)'.limit <= Limit /\ (~OnDisk => Me(o)'.limit = RamLimit)
              /\ Len(Me(o)'.retained) <= Keep(Me(o)'.limit)
         /\ Me(o)'.pc = "write" => Fits(o)'
         /\ Me(o)'.pc = "recheck" /\ LimitOf(Home') >= Me(o)'.limit => Fits(o)'
<1>1. LogTypeOK BY DEF RoomInv, Roomy
<1>2. CASE Units' = <<>>
  <2>1. Len(Units') <= Keep(LimitOf(Home'))
    <3>1. LimitOf(Home') \in Nat /\ RamLimit <= LimitOf(Home') BY Sizes DEF LimitOf
    <3>2. Keep(LimitOf(Home')) \in Nat BY <3>1, Sizes
    <3> QED BY <1>2, <3>2
  <2>2. Fits(o)' BY <1>1, <2>1, FitsSmallNext
  <2> QED BY <1>2, <2>2 DEF RoomInv, Roomy, There, Emptied, Rotated, Steady
<1>3. CASE Units' = Units /\ Home' = Home
  <2>1. Text(Me(o).line)' = Text(Me(o).line) BY DEF Text, Unit
  <2>2. Fits(o)' <=> Fits(o) BY <1>3, <2>1 DEF Fits, LimitOf
  <2>3. LimitOf(Home') = LimitOf(Home) BY <1>3
  <2>4. /\ Me(o).pc = "write" => Fits(o)
        /\ Me(o).pc = "recheck" /\ LimitOf(Home) >= Me(o).limit => Fits(o)
    BY DEF RoomInv, Roomy, RoomMade, Threads
  <2> QED BY <1>3, <2>2, <2>3, <2>4 DEF RoomInv, Roomy, There, Emptied, Rotated, Steady
<1> QED BY <1>2, <1>3 DEF Steady

\* A step that leaves the file, or makes it, and goes on to no call that relies on it.
LEMMA RoomKept ==
  ASSUME RoomInv, LogTypeOK', Steady, boot' = boot, NEW t \in Threads,
         \A o \in Threads \ {t} : Me(o)' = Me(o), Me(t)'.pc \notin Working \cup Emptying \cup Rotation
  PROVE  Roomy'
<1>1. There' /\ Emptied' /\ Rotated' BY RoomOthers DEF There, Emptied, Rotated
<1>2. ASSUME NEW o \in Threads
      PROVE  /\ (Me(o).pc)' = "write" => Fits(o)'
             /\ (Me(o).pc)' = "recheck" /\ LimitOf(Home)' >= (Me(o).limit)' => Fits(o)'
  BY RoomOthers DEF Working, LimitOf
<1>3. RoomMade' BY <1>2 DEF Steady, Bounded, RoomMade, Threads
<1> QED BY <1>1, <1>3 DEF Steady, Roomy

LEMMA StopsOut ==
  LET busy == Working \cup Emptying \cup Rotation IN
  /\ busy \subseteq Locked /\ Locked = busy \cup {"ensure", "unlock"}
  /\ "ensure" \notin busy /\ "unlock" \notin busy
BY DEF Working, Emptying, Rotation, Locked

LEMMA RoomLeft ==
  ASSUME RoomInv, LogTypeOK', file' = file, failed' = failed, boot' = boot, NEW t \in Threads,
         \A o \in Threads \ {t} : Me(o)' = Me(o), Me(t)'.pc \notin Locked \ {"ensure", "unlock"}
  PROVE  Roomy'
<1>1. Steady BY SteadyStays DEF RoomInv, Roomy
<1>2. Me(t)'.pc \notin Working \cup Emptying \cup Rotation BY StopsOut
<1> QED BY <1>1, <1>2, RoomKept

\* Nobody else holds the lock.
LEMMA OthersOut ==
  ASSUME Held, NEW t \in Threads \cup {"none"}, lock = t, NEW o \in Threads, o # t
  PROVE  /\ Me(o).pc \notin Locked
         /\ o = "main" => main.pc # "replay" /\ ~(main.pc \in Reading /\ Replaying)
BY DEF Held

LEMMA LogRoom == ASSUME RoomInv, NEW len \in Lens, Log(len) PROVE RoomInv'
<1>1. main \in Local("main") BY DEF RoomInv, LogTypeOK
<1>2. main'.pc = "clear" /\ main'.count = main.count /\ UNCHANGED <<panic, file, boot, lock, failed>>
  BY <1>1 DEF Log, Local
<1>3. main.count = 0 BY RestIs DEF Log, At, Me, RoomInv, Held
<1>4. LogTypeOK' /\ Roomy' BY <1>2, MeIs, StopsIn, LogType, RoomLeft DEF RoomInv, Copying
<1>5. Held' BY <1>2, <1>3, MeIs, StopsIn DEF RoomInv, Held, Copying, Threads
<1> QED BY <1>4, <1>5 DEF RoomInv

LEMMA PanicRoom == ASSUME RoomInv, NEW cpu \in Panics, Panic(cpu) PROVE RoomInv'
<1>1. panic'.pc = "clear" /\ UNCHANGED <<main, file, boot, lock, failed>>
  BY DEF Panic, Thread
<1>2. LogTypeOK' /\ Roomy' BY <1>1, MeIs, StopsIn, PanicType, RoomLeft DEF RoomInv, Copying
<1>3. Held' BY <1>1, MeIs, StopsIn DEF RoomInv, Held, Copying, Threads, Replaying
<1> QED BY <1>2, <1>3 DEF RoomInv

LEMMA RecordRoom == ASSUME RoomInv, NEW t \in Threads, Record(t) PROVE RoomInv'
<1>1. LogTypeOK BY DEF RoomInv
<1>2. /\ LogTypeOK' /\ UNCHANGED <<file, lock, boot, failed>> /\ \A o \in Threads \ {t} : Me(o)' = Me(o)
      /\ Me(t).pc \in Copying /\ Me(t)'.pc \in Copying \cup {"persist"}
      /\ \E to : Me(t)' = [Me(t) EXCEPT !.pc = to]
  BY <1>1, RecordIs DEF Copying
<1>3. Me(t)'.count = Me(t).count BY <1>1, <1>2, MeIn DEF Local
<1>4. Me(t)'.pc \notin Locked \cup Reading \cup {"replay"} BY <1>2, StopsIn
<1>5. Roomy' BY <1>2, <1>4, RoomLeft
<1>6. Held'
  <2>1. CASE t = "main"
    <3>1. panic' = panic /\ main'.count = main.count /\ main.pc \in Copying
          /\ main'.pc \notin Locked \cup Reading \cup {"replay"}
      BY <1>2, <1>3, <1>4, <2>1, MeIs
    <3> QED BY <1>2, <3>1, MeIs DEF RoomInv, Held, Threads
  <2>2. CASE t = "panic"
    <3>1. main' = main /\ panic'.pc \notin Locked BY <1>2, <1>4, <2>2, MeIs
    <3> QED BY <1>2, <3>1, MeIs DEF RoomInv, Held, Threads, Replaying
  <2> QED BY <2>1, <2>2 DEF Threads
<1> QED BY <1>2, <1>5, <1>6 DEF RoomInv

\* A thread that ends with its line keeps its count.
LEMMA EndsIs ==
  ASSUME LogTypeOK, NEW t \in Threads, NEW pc, Ends(t, pc)
  PROVE  /\ Me(t)'.pc = pc /\ Me(t)'.count = Me(t).count /\ Me(t)'.line = NoLine
         /\ Me(t)'.next = Me(t).next /\ Me(t)'.retained = Me(t).retained
         /\ \A o \in Threads \ {t} : Me(o)' = Me(o)
<1> DEFINE r == Me(t)
           me == [r EXCEPT !.pc = pc, !.line = NoLine]
<1>1. r \in Local(t) BY MeIn
<1>2. Becomes(t, me) BY DEF Ends
<1>3. Me(t)' = me /\ \A o \in Threads \ {t} : Me(o)' = Me(o) BY <1>2, BecomesIs
<1> HIDE DEF r
<1>4. me.pc = pc /\ me.count = r.count /\ me.line = NoLine /\ me.next = r.next /\ me.retained = r.retained
  BY <1>1 DEF Local
<1> HIDE DEF me
<1> QED BY <1>3, <1>4 DEF r

LEMMA GoesIs ==
  ASSUME LogTypeOK, NEW t \in Threads, NEW pc, Goes(t, pc)
  PROVE  /\ Me(t)'.pc = pc /\ Me(t)'.count = Me(t).count /\ Me(t)'.line = Me(t).line
         /\ Me(t)'.next = Me(t).next /\ Me(t)'.retained = Me(t).retained
         /\ \A o \in Threads \ {t} : Me(o)' = Me(o)
<1> DEFINE r == Me(t)
           me == [r EXCEPT !.pc = pc]
<1>1. r \in Local(t) BY MeIn
<1>2. Becomes(t, me) BY DEF Goes
<1>3. Me(t)' = me /\ \A o \in Threads \ {t} : Me(o)' = Me(o) BY <1>2, BecomesIs
<1> HIDE DEF r
<1>4. me.pc = pc /\ me.count = r.count /\ me.line = r.line /\ me.next = r.next /\ me.retained = r.retained
  BY <1>1 DEF Local
<1> HIDE DEF me
<1> QED BY <1>3, <1>4 DEF r

LEMMA PersistRoom == ASSUME RoomInv, NEW t \in Threads, Persist(t) PROVE RoomInv'
<1>1. LogTypeOK BY DEF RoomInv
<1>2. UNCHANGED <<file, boot, failed>> /\ LogTypeOK' BY <1>1, PersistType DEF Persist
<1>3. CASE UNCHANGED lock /\ Ends(t, IF t = "main" THEN "early" ELSE "printed")
  <2> DEFINE pc == IF t = "main" THEN "early" ELSE "printed"
  <2>1. /\ Me(t)'.pc = pc /\ Me(t)'.count = Me(t).count /\ Me(t).pc = "persist"
        /\ \A o \in Threads \ {t} : Me(o)' = Me(o)
    BY <1>1, <1>3, EndsIs DEF Persist, At
  <2>2. Roomy'
    <3>1. pc \notin Locked BY StopsIn
    <3> QED BY <1>2, <2>1, <3>1, RoomLeft
  <2>3. Held'
    <3>1. CASE t = "main"
      <4>1. main'.pc = "early" /\ main'.count = main.count /\ panic' = panic /\ main.pc = "persist"
        BY <2>1, <3>1, MeIs
      <4> QED BY <1>3, <4>1, MeIs, StopsIn DEF RoomInv, Held, Threads
    <3>2. CASE t = "panic"
      <4>1. panic'.pc = "printed" /\ main' = main BY <2>1, <3>2, MeIs
      <4> QED BY <1>3, <4>1, MeIs, StopsIn DEF RoomInv, Held, Threads, Replaying
    <3> QED BY <3>1, <3>2 DEF Threads
  <2> QED BY <1>2, <2>2, <2>3 DEF RoomInv
<1>4. CASE lock = "none" /\ lock' = t /\ Goes(t, "ensure")
  <2>1. Me(t)'.pc = "ensure" /\ Me(t)'.count = Me(t).count /\ \A o \in Threads \ {t} : Me(o)' = Me(o)
    BY <1>1, <1>4, GoesIs
  <2>2. Roomy' BY <1>2, <2>1, RoomLeft
  <2>3. Held'
    <3>1. \A o \in Threads : Me(o).pc \notin Locked
      BY <1>4, OthersOut, MeIs DEF RoomInv
    <3>2. main.pc # "replay" /\ ~(main.pc \in Reading /\ Replaying)
      BY <1>4, OthersOut, MeIs DEF RoomInv
    <3>3. CASE t = "main"
      <4>1. main'.pc = "ensure" /\ panic' = panic BY <2>1, <3>3, MeIs
      <4> QED BY <1>4, <3>1, <3>3, <4>1, MeIs, StopsIn DEF Held, Threads, Locked
    <3>4. CASE t = "panic"
      <4>1. main' = main BY <2>1, <3>4, MeIs
      <4> QED BY <1>4, <3>1, <3>2, <3>4, <4>1, MeIs DEF RoomInv, Held, Threads, Replaying
    <3> QED BY <3>3, <3>4 DEF Threads
  <2> QED BY <1>2, <2>2, <2>3 DEF RoomInv
<1> QED BY <1>3, <1>4 DEF Persist

LEMMA UnlockRoom == ASSUME RoomInv, NEW t \in Threads, Unlock(t) PROVE RoomInv'
<1>1. LogTypeOK BY DEF RoomInv
<1>2. UNCHANGED <<file, boot, failed>> /\ LogTypeOK' /\ Me(t).pc = "unlock" BY <1>1, UnlockType DEF Unlock, At
<1>3. lock = t BY <1>2 DEF RoomInv, Held, Locked
<1>4. ASSUME NEW pc, Ends(t, pc), pc \notin Locked
      PROVE  /\ Roomy' /\ Me(t)'.pc = pc /\ Me(t)'.count = Me(t).count
             /\ \A o \in Threads \ {t} : Me(o)' = Me(o)
  <2>1. /\ Me(t)'.pc = pc /\ Me(t)'.count = Me(t).count /\ \A o \in Threads \ {t} : Me(o)' = Me(o)
    BY <1>1, <1>4, EndsIs
  <2> QED BY <1>2, <1>4, <2>1, RoomLeft
<1>5. "replay" \notin Locked /\ Rest \notin Locked /\ "printed" \notin Locked BY StopsIn, RestIs
<1>6. CASE t = "main" /\ Replaying /\ Ends(t, "replay") /\ UNCHANGED lock
  <2>1. main'.pc = "replay" /\ panic' = panic BY <1>4, <1>5, <1>6, MeIs
  <2>2. Held' BY <1>3, <1>6, <2>1, MeIs, StopsIn DEF RoomInv, Held, Threads
  <2> QED BY <1>2, <1>4, <1>5, <1>6, <2>2 DEF RoomInv
<1>7. CASE t = "main" /\ ~Replaying /\ Ends(t, Rest) /\ lock' = "none"
  <2>1. main'.pc = Rest /\ panic' = panic /\ main'.count = main.count BY <1>4, <1>5, <1>7, MeIs
  <2>2. main.count = 0 BY <1>1, <1>7 DEF LogTypeOK, Local, Replaying
  <2>3. panic.pc \notin Locked BY <1>3, <1>7, OthersOut, MeIs DEF RoomInv
  <2>4. Held' BY <2>1, <2>2, <2>3, MeIs, StopsIn, RestIs DEF Held, Threads
  <2> QED BY <1>2, <1>4, <1>5, <1>7, <2>4 DEF RoomInv
<1>8. CASE t = "panic" /\ Ends(t, "printed") /\ lock' = "none"
  <2>1. panic'.pc = "printed" /\ main' = main BY <1>4, <1>5, <1>8, MeIs
  <2>2. main.pc \notin Locked /\ main.pc # "replay" /\ ~(main.pc \in Reading /\ Replaying)
    BY <1>3, <1>8, OthersOut, MeIs DEF RoomInv
  <2>3. Held' BY <1>8, <2>1, <2>2, MeIs, StopsIn DEF RoomInv, Held, Threads, Replaying
  <2> QED BY <1>2, <1>4, <1>5, <1>8, <2>3 DEF RoomInv
<1> QED BY <1>6, <1>7, <1>8 DEF Unlock, Threads

LEMMA HomeHolds ==
  /\ Exists <=> (file["ram"].exists \/ file["disk"].exists)
  /\ Home = "ram" <=> file["ram"].exists
  /\ Home = "ram" => Units = file["ram"].units /\ LimitOf(Home) = RamLimit
  /\ Home = "disk" => /\ Units = file["disk"].units /\ LimitOf(Home) = Limit
                      /\ Exists <=> file["disk"].exists
<1>1. CASE file["ram"].exists BY <1>1 DEF Exists, Home, Units, LimitOf
<1>2. CASE ~file["ram"].exists BY <1>2 DEF Exists, Home, Units, LimitOf
<1> QED BY <1>1, <1>2

LEMMA HomeHoldsNext ==
  ASSUME file' \in FileType
  PROVE  /\ Exists' <=> (file'["ram"].exists \/ file'["disk"].exists)
         /\ file'["ram"].exists => Home' = "ram" /\ Units' = file'["ram"].units
         /\ ~file'["ram"].exists => Home' = "disk" /\ Units' = file'["disk"].units
         /\ \A h \in Homes : file'[h].units \in Seq(UnitType) /\ file'[h].exists \in BOOLEAN /\ Len(file'[h].units) \in Nat
BY DEF Exists, Home, Units, FileType

\* A file that vfs_open makes is empty, as was what could be seen of it before.
LEMMA CreatedSteady ==
  ASSUME LogTypeOK, Tidy, RoomMade, ~Exists, Created \/ NotCreated
  PROVE  Steady /\ Units = <<>> /\ Units' = <<>> /\ (Created => Exists')
<1>1. /\ file' \in FileType /\ failed' \in Nat
      /\ file'["ram"] = file["ram"] \/ (file'["ram"].exists /\ file'["ram"].units = <<>>)
      /\ file'["disk"] = file["disk"] \/ (OnDisk /\ file'["disk"].exists /\ file'["disk"].units = <<>>)
      /\ \/ file'["stored"] = file["stored"]
         \/ OnDisk /\ file'["stored"] = file'["disk"]
         \/ OnDisk /\ Unless("stored")
      /\ Created => file'["ram"].exists \/ file'["disk"].exists
      /\ Created /\ failed' = failed /\ OnDisk => file'["ram"] = file["ram"]
      /\ failed' = failed \/ failed' = failed + 1
      /\ NotCreated => failed' = failed + 1
  BY CreatedIs
<1>2. ~file["ram"].exists /\ ~file["disk"].exists /\ Units = file["disk"].units BY HomeHolds, HomesAre
<1>3. file["ram"].units = <<>> /\ file["disk"].units = <<>>
  BY <1>2, HomesAre DEF Tidy
<1>4. file'["ram"].units = <<>> /\ file'["disk"].units = <<>> BY <1>1, <1>3
<1>5. Len(file'["stored"].units) <= Limit /\ (~file'["stored"].exists => file'["stored"].units = <<>>)
  <2>1. Len(file["stored"].units) <= Limit /\ (~file["stored"].exists => file["stored"].units = <<>>)
    BY HomesAre DEF RoomMade, Tidy
  <2>2. CASE file'["stored"] = file["stored"] BY <2>1, <2>2
  <2>3. CASE file'["stored"] = file'["disk"] BY <1>4, <2>3, Sizes
  <2>4. CASE Unless("stored")
    <3>1. file'["stored"].units \in Seq(UnitType) BY <1>1, HomeHoldsNext, HomesAre
    <3>2. Len(file'["stored"].units) = 0 => file'["stored"].units = <<>> BY <3>1
    <3>3. Len(<<>>) = 0 OBVIOUS
    <3> QED BY <2>1, <2>4, <3>2, <3>3 DEF Unless
  <2> QED BY <1>1, <2>2, <2>3, <2>4
<1>6. Bounded' BY <1>4, <1>5, Sizes DEF Bounded
<1>7. ~OnDisk => ~file'["disk"].exists /\ ~file'["stored"].exists
  BY <1>1, <1>2, HomesAre DEF Tidy
<1>8. OnDisk /\ failed' = 0 => ~file'["ram"].exists
  <2>1. failed \in Nat /\ failed + 1 # 0 BY DEF LogTypeOK
  <2> QED BY <1>1, <1>2, <2>1
<1>9. Tidy' BY <1>4, <1>5, <1>7, <1>8, HomesAre DEF Tidy
<1>10. Units' = <<>> /\ (Created => Exists') BY <1>1, <1>4, HomeHoldsNext
<1> QED BY <1>2, <1>3, <1>6, <1>9, <1>10 DEF Steady

\* What a call leaves for the next one.
Fine(t, to, kept, lim) ==
  /\ Tidy' /\ Bounded'
  /\ to \in Working => Exists'
  /\ to \in Emptying => Units' = <<>>
  /\ to \in Rotation => /\ RamLimit <= lim /\ lim <= Limit /\ (~OnDisk => lim = RamLimit)
                        /\ Len(kept) <= Keep(lim)
  /\ to = "write" => Fits(t)'
  /\ to = "recheck" /\ LimitOf(Home') >= lim => Fits(t)'

LEMMA StopNames ==
  /\ {"room", "remove", "rewrite", "recheck", "write"} = Working /\ {"reopen", "rewrite"} = Emptying
  /\ {"remove", "reopen", "rewrite", "recheck"} = Rotation
BY DEF Working, Emptying, Rotation

\* What a thread in append_log_file_locked can rely on.
LEMMA Relies ==
  ASSUME RoomInv, NEW t \in Threads
  PROVE  LET r == Me(t) IN
         /\ LogTypeOK /\ Tidy /\ Bounded /\ r \in Local(t) /\ r.retained \in Seq(UnitType) /\ r.limit \in Nat
         /\ r.pc \in Working => Exists
         /\ r.pc \in Emptying => Units = <<>>
         /\ r.pc \in Rotation => /\ RamLimit <= r.limit /\ r.limit <= Limit /\ (~OnDisk => r.limit = RamLimit)
                                 /\ Len(r.retained) <= Keep(r.limit)
         /\ r.pc = "write" => Fits(t)
         /\ r.pc = "recheck" /\ LimitOf(Home) >= r.limit => Fits(t)
<1>1. LogTypeOK /\ Tidy /\ There /\ Emptied /\ Rotated /\ RoomMade BY DEF RoomInv, Roomy
<1>2. Me(t) \in Local(t) BY <1>1, MeIn
<1>3. Me(t).retained \in Seq(UnitType) /\ Me(t).limit \in Nat BY <1>2 DEF Local
<1> QED BY <1>1, <1>2, <1>3 DEF There, Emptied, Rotated, RoomMade, Bounded, Threads

LEMMA SameFine ==
  ASSUME RoomInv, LogTypeOK', boot' = boot, NEW t \in Threads, NEW to, NEW kept, NEW lim, Me(t)'.line = Me(t).line,
         file' = file, failed' \in {failed, failed + 1},
         Stepped(t, to, kept, lim)
  PROVE  Fine(t, to, kept, lim)
<1> DEFINE r == Me(t)
<1>1. /\ LogTypeOK /\ Tidy /\ Bounded /\ r.retained \in Seq(UnitType) /\ r.limit \in Nat
      /\ r.pc \in Working => Exists
      /\ r.pc \in Emptying => Units = <<>>
      /\ r.pc \in Rotation => /\ RamLimit <= r.limit /\ r.limit <= Limit /\ (~OnDisk => r.limit = RamLimit)
                              /\ Len(r.retained) <= Keep(r.limit)
  BY Relies
<1>2. Exists' = Exists /\ Units' = Units /\ Home' = Home BY DEF Exists, Units, Home
<1>3. Fits(t)' <=> Fits(t)
  <2>1. Text(r.line)' = Text(r.line) BY DEF Text, Unit
  <2> QED BY <1>2, <2>1 DEF Fits, LimitOf
<1>4. Tidy' /\ Bounded'
  <2>1. failed' = 0 => failed = 0 BY <1>1 DEF LogTypeOK
  <2> QED BY <1>1, <2>1 DEF Tidy, Bounded
<1>5. \/ to \in {"room", "write"} /\ Exists /\ (to = "write" => Fits(t))
      \/ r.pc = "room" /\ to = "remove" /\ lim = LimitOf(Home) /\ kept = Retained(Units, Keep(LimitOf(Home)))
      \/ to = "unlock"
      \/ r.pc = "reopen" /\ to = "rewrite" /\ kept = r.retained /\ lim = r.limit /\ Exists
      \/ r.pc = "rewrite" /\ to = "recheck" /\ kept = r.retained /\ lim = r.limit
  <2>1. \/ ~Exists /\ Created /\ r.pc = "ensure" /\ to = "room"
        \/ ~Exists /\ Created /\ r.pc = "reopen" /\ to = "rewrite" /\ kept = r.retained /\ lim = r.limit
        \/ r.pc = "ensure" /\ to = "room" /\ Exists
        \/ r.pc = "room" /\ to = "write" /\ Fits(t)
        \/ r.pc = "recheck" /\ to = "write" /\ Fits(t)
        \/ r.pc = "room" /\ to = "remove" /\ lim = LimitOf(Home) /\ kept = Retained(Units, Keep(LimitOf(Home)))
        \/ to = "unlock"
        \/ r.pc = "remove" /\ to = "reopen" /\ file' = [file EXCEPT !["ram"] = NoFile] /\ Home = "ram"
        \/ r.pc = "remove" /\ to = "reopen" /\ Home = "disk" /\ file' = [file EXCEPT !["disk"] = NoFile, !["stored"] = NoFile]
        \/ r.pc = "reopen" /\ to = "rewrite" /\ kept = r.retained /\ lim = r.limit /\ Exists
        \/ r.pc = "rewrite" /\ to = "recheck" /\ kept = r.retained /\ lim = r.limit
    BY SMT DEF Stepped, Same
  <2>2. ~(~Exists /\ Created)
    <3> SUFFICES ASSUME ~Exists, Created PROVE FALSE OBVIOUS
    <3>1. RoomMade BY DEF RoomInv, Roomy
    <3>2. Exists' BY <1>1, <3>1, CreatedSteady
    <3> QED BY <1>2, <3>2
  <2>3. ~(r.pc = "remove" /\ Home = "ram" /\ file' = [file EXCEPT !["ram"] = NoFile])
    <3>1. (file' = [file EXCEPT !["ram"] = NoFile]) => file'["ram"] = NoFile BY <1>1, RemovedIs
    <3> QED BY <3>1, HomeHolds DEF NoFile
  <2>4. ~(r.pc = "remove" /\ Home = "disk" /\ file' = [file EXCEPT !["disk"] = NoFile, !["stored"] = NoFile])
    <3>1. (file' = [file EXCEPT !["disk"] = NoFile, !["stored"] = NoFile]) => file'["disk"] = NoFile BY <1>1, RemovedIs
    <3> QED BY <1>1, <3>1, HomeHolds, StopNames DEF NoFile
  <2>5. r.pc \in {"room", "recheck"} => Exists BY <1>1 DEF Working
  <2> HIDE DEF r
  <2> QED BY <2>1, <2>2, <2>3, <2>4, <2>5
<1> HIDE DEF r
<1>6. CASE to \in {"room", "write", "unlock"} /\ (to # "unlock" => Exists) /\ (to = "write" => Fits(t))
  BY <1>2, <1>3, <1>4, <1>6 DEF Fine, Working, Emptying, Rotation
<1>7. CASE r.pc = "room" /\ to = "remove" /\ lim = LimitOf(Home) /\ kept = Retained(Units, Keep(LimitOf(Home)))
  <2>1. Exists BY <1>1, <1>7 DEF Working
  <2>2. /\ RamLimit <= lim /\ lim <= Limit /\ Len(kept) <= Keep(lim) BY <1>1, <1>7, HomeIn, RetainedIn
  <2>3. ~OnDisk => lim = RamLimit BY <1>1, <1>7, <2>1, HomeHolds, HomesAre DEF Tidy
  <2> QED BY <1>2, <1>4, <1>7, <2>1, <2>2, <2>3 DEF Fine, Working, Emptying
<1>8. CASE r.pc = "reopen" /\ to = "rewrite" /\ kept = r.retained /\ lim = r.limit /\ Exists
  BY <1>1, <1>2, <1>4, <1>8 DEF Fine, Working, Emptying, Rotation
<1>9. CASE r.pc = "rewrite" /\ to = "recheck" /\ kept = r.retained /\ lim = r.limit
  <2>1. Exists /\ Units = <<>> /\ RamLimit <= lim /\ lim <= Limit /\ (~OnDisk => lim = RamLimit) /\ Len(kept) <= Keep(lim)
    BY <1>1, <1>9 DEF Working, Emptying, Rotation
  <2>2. Fits(t)
    <3>1. Keep(LimitOf(Home)) \in Nat BY <1>1, HomeIn
    <3> QED BY <1>1, <2>1, <3>1, FitsSmall
  <2> QED BY <1>2, <1>3, <1>4, <1>9, <2>1, <2>2 DEF Fine, Emptying
<1> QED BY <1>5, <1>6, <1>7, <1>8, <1>9

LEMMA MadeFine ==
  ASSUME RoomInv, NEW t \in Threads, NEW to, NEW kept, NEW lim, ~Exists, Created \/ NotCreated,
         \/ to = "unlock"
         \/ Created /\ to = "room"
         \/ Created /\ Me(t).pc = "reopen" /\ to = "rewrite" /\ kept = Me(t).retained /\ lim = Me(t).limit
  PROVE  Fine(t, to, kept, lim)
<1> DEFINE r == Me(t)
<1>1. /\ LogTypeOK /\ Tidy
      /\ r.pc \in Rotation => /\ RamLimit <= r.limit /\ r.limit <= Limit /\ (~OnDisk => r.limit = RamLimit)
                              /\ Len(r.retained) <= Keep(r.limit)
  BY Relies
<1>2. RoomMade BY DEF RoomInv, Roomy
<1>3. Tidy' /\ Bounded' /\ Units' = <<>> /\ (Created => Exists')
  BY <1>1, <1>2, CreatedSteady DEF Steady
<1> HIDE DEF r
<1>4. CASE to = "unlock" BY <1>3, <1>4 DEF Fine, Working, Emptying, Rotation
<1>5. CASE Created /\ to = "room" BY <1>3, <1>5 DEF Fine, Working, Emptying, Rotation
<1>6. CASE Created /\ r.pc = "reopen" /\ to = "rewrite" /\ kept = r.retained /\ lim = r.limit
  BY <1>1, <1>3, <1>6 DEF Fine, Rotation
<1> QED BY <1>4, <1>5, <1>6 DEF r

LEMMA RemovedFine ==
  ASSUME RoomInv, NEW t \in Threads, NEW to, NEW kept, NEW lim, Me(t).pc = "remove", file' \in FileType,
         failed' \in {failed, failed + 1},
         to = "unlock" \/ (to = "reopen" /\ kept = Me(t).retained /\ lim = Me(t).limit),
         \/ Home = "ram" /\ file' = [file EXCEPT !["ram"] = NoFile]
         \/ Home = "disk" /\ file' = [file EXCEPT !["disk"] = NoFile, !["stored"] = NoFile]
         \/ Home = "disk" /\ file' = [file EXCEPT !["disk"] = NoFile]
  PROVE  Fine(t, to, kept, lim)
<1> DEFINE r == Me(t)
<1>1. /\ LogTypeOK /\ Tidy /\ Bounded
      /\ r.pc \in Rotation => /\ RamLimit <= r.limit /\ r.limit <= Limit /\ (~OnDisk => r.limit = RamLimit)
                              /\ Len(r.retained) <= Keep(r.limit)
  BY Relies
<1>2. ~NoFile.exists /\ NoFile.units = <<>> /\ Len(NoFile.units) = 0 BY DEF NoFile
<1>3. Home = "ram" <=> file["ram"].exists BY HomeHolds
<1>4. \/ /\ file["ram"].exists /\ file'["ram"] = NoFile
         /\ file'["disk"] = file["disk"] /\ file'["stored"] = file["stored"]
      \/ /\ ~file["ram"].exists /\ file'["ram"] = file["ram"]
         /\ file'["disk"] = NoFile /\ file'["stored"] \in {NoFile, file["stored"]}
  BY <1>1, <1>3, RemovedIs, HomesAre
<1> HIDE DEF r
<1>5. failed' = 0 => failed = 0 BY <1>1 DEF LogTypeOK
<1>6. Tidy' BY <1>1, <1>2, <1>4, <1>5, HomesAre DEF Tidy
<1>7. Bounded' BY <1>1, <1>2, <1>4, Sizes DEF Bounded
<1>8. Units' = <<>> BY <1>1, <1>2, <1>4, HomeHoldsNext DEF Tidy
<1> QED BY <1>1, <1>6, <1>7, <1>8 DEF Fine, Working, Emptying, Rotation, r

\* A write to the file, in the home it has.
LEMMA RamGets ==
  ASSUME LogTypeOK, Tidy, Bounded, Home = "ram", NEW u \in Seq(UnitType), file' = RamHas(file, u), failed' = failed
  PROVE  /\ Tidy' /\ Bounded' /\ Exists' /\ Home' = "ram" /\ Units' = file'["ram"].units
         /\ Len(Units') <= Len(u) /\ (Len(u) <= RamLimit => Units' = u)
<1>1. /\ file' \in FileType /\ file'["disk"] = file["disk"] /\ file'["stored"] = file["stored"]
      /\ file'["ram"].exists /\ Len(file'["ram"].units) <= RamLimit /\ Len(file'["ram"].units) <= Len(u)
      /\ Len(u) <= RamLimit => file'["ram"].units = u
  BY RamHasIs DEF LogTypeOK
<1>2. file["ram"].exists BY HomeHolds
<1> QED BY <1>1, <1>2, HomeHoldsNext, HomesAre DEF Tidy, Bounded

LEMMA OnTheDisk ==
  ASSUME LogTypeOK, Tidy, Home = "disk", Exists
  PROVE  OnDisk /\ ~file["ram"].exists /\ file["disk"].exists /\ file["ram"].units = <<>>
BY HomeHolds, HomesAre DEF Tidy

LEMMA DiskGets ==
  ASSUME LogTypeOK, Tidy, Bounded, Home = "disk", Exists, NEW u \in Seq(UnitType), Len(u) <= Limit,
         file' = DiskHas(u), failed' = failed
  PROVE  Tidy' /\ Bounded' /\ Exists' /\ Home' = "disk" /\ Units' = u
<1>1. /\ file' \in FileType /\ file'["ram"] = file["ram"] /\ file'["disk"] = With(u) /\ file'["stored"] = With(u)
      /\ With(u).exists /\ With(u).units = u
  BY DiskHasIs
<1>2. OnDisk /\ ~file["ram"].exists BY OnTheDisk
<1>3. Tidy' BY <1>1, <1>2, HomesAre DEF Tidy
<1>4. Bounded' BY <1>1 DEF Bounded
<1> QED BY <1>1, <1>2, <1>3, <1>4, HomeHoldsNext

LEMMA DiskGetsHalf ==
  ASSUME LogTypeOK, Tidy, Bounded, Home = "disk", Exists, NEW u \in Seq(UnitType), Len(u) <= Limit,
         file' \in HalfDone(u), failed' = failed + 1
  PROVE  Tidy' /\ Bounded'
<1>1. /\ file' \in FileType /\ file'["ram"] = file["ram"] /\ file'["disk"] \in {file["disk"], With(u)}
      /\ With(u).exists /\ With(u).units = u
      /\ \/ file'["stored"] = file'["disk"]
         \/ /\ file'["stored"].exists = file["stored"].exists
            /\ Len(file'["stored"].units) = Len(file["stored"].units)
  BY HalfDoneIs
<1>2. OnDisk /\ ~file["ram"].exists /\ file["disk"].exists BY OnTheDisk
<1>3. failed' # 0 BY DEF LogTypeOK
<1>4. ~file'["stored"].exists => file'["stored"].units = <<>>
  <2>1. CASE file'["stored"] = file'["disk"] BY <1>1, <1>2, <2>1
  <2>2. CASE /\ file'["stored"].exists = file["stored"].exists
             /\ Len(file'["stored"].units) = Len(file["stored"].units)
    <3>1. ~file["stored"].exists => Len(file["stored"].units) = 0 BY HomesAre DEF Tidy
    <3>2. file'["stored"].units \in Seq(UnitType) BY <1>1, HomeHoldsNext, HomesAre
    <3>3. Len(file'["stored"].units) = 0 => file'["stored"].units = <<>> BY <3>2
    <3> QED BY <2>2, <3>1, <3>3
  <2> QED BY <1>1, <2>1, <2>2
<1>5. Tidy' BY <1>1, <1>2, <1>3, <1>4, HomesAre DEF Tidy
<1>6. Bounded' BY <1>1 DEF Bounded
<1> QED BY <1>5, <1>6

LEMMA RewrittenFine ==
  ASSUME RoomInv, LogTypeOK', boot' = boot, NEW t \in Threads, NEW to, NEW kept, NEW lim,
         Me(t)'.line = Me(t).line, Me(t).pc = "rewrite",
         \/ /\ to = "recheck" /\ kept = Me(t).retained /\ lim = Me(t).limit /\ failed' = failed
            /\ \/ Home = "ram" /\ file' = RamHas(file, kept)
               \/ Home = "disk" /\ file' = DiskHas(kept)
         \/ to = "unlock" /\ Home = "disk" /\ file' \in HalfDone(Me(t).retained) /\ failed' = failed + 1
  PROVE  Fine(t, to, kept, lim)
<1> DEFINE r == Me(t)
           u == r.retained
           most == r.limit
<1>1. /\ LogTypeOK /\ Tidy /\ Bounded /\ u \in Seq(UnitType) /\ most \in Nat
      /\ r.pc \in Working => Exists
      /\ r.pc \in Rotation => /\ RamLimit <= most /\ most <= Limit /\ (~OnDisk => most = RamLimit)
                              /\ Len(u) <= Keep(most)
  BY Relies
<1>2. /\ Exists /\ RamLimit <= most /\ most <= Limit /\ (~OnDisk => most = RamLimit) /\ Len(u) <= Keep(most)
      /\ Keep(most) \in Nat /\ Keep(most) + Reserve = most /\ Len(u) \in Nat
  BY <1>1, Sizes DEF Working, Rotation
<1> HIDE DEF u, most
<1>3. Len(u) <= Limit BY <1>2, Sizes
<1>4. CASE to = "recheck" /\ kept = u /\ lim = most /\ failed' = failed /\ Home = "ram" /\ file' = RamHas(file, u)
  <2>1. Tidy' /\ Bounded' /\ Exists' /\ Home' = "ram" /\ Len(Units') <= Len(u) BY <1>1, <1>4, RamGets
  <2>2. ASSUME LimitOf(Home') >= lim PROVE Fits(t)'
    <3>1. LimitOf(Home') = RamLimit /\ RamLimit = most BY <1>1, <1>2, <1>4, <2>1, <2>2, Sizes DEF LimitOf
    <3>2. Len(Units') <= Keep(LimitOf(Home'))
      <4>1. Units' \in Seq(UnitType)
        <5>1. file' \in FileType BY DEF LogTypeOK
        <5> QED BY <5>1, HomesAre DEF Units, FileType
      <4> QED BY <1>2, <2>1, <3>1, <4>1
    <3> QED BY <1>1, <3>2, FitsSmallNext
  <2> QED BY <1>2, <1>4, <2>1, <2>2 DEF Fine, Emptying
<1>5. CASE to = "recheck" /\ kept = u /\ lim = most /\ failed' = failed /\ Home = "disk" /\ file' = DiskHas(u)
  <2>1. Tidy' /\ Bounded' /\ Exists' /\ Home' = "disk" /\ Units' = u BY <1>1, <1>2, <1>3, <1>5, DiskGets
  <2>2. Fits(t)'
    <3>1. LimitOf(Home') = Limit BY <2>1 DEF LimitOf
    <3>2. Keep(Limit) \in Nat /\ Keep(Limit) + Reserve = Limit BY Sizes
    <3>3. Len(u) <= Keep(Limit) BY <1>1, <1>2, <3>2, Sizes
    <3>4. Len(Units') <= Keep(LimitOf(Home')) BY <2>1, <3>1, <3>3
    <3> QED BY <1>1, <3>4, FitsSmallNext
  <2> QED BY <1>2, <1>5, <2>1, <2>2 DEF Fine, Emptying
<1>6. CASE to = "unlock" /\ Home = "disk" /\ file' \in HalfDone(u) /\ failed' = failed + 1
  <2>1. Tidy' /\ Bounded' BY <1>1, <1>2, <1>3, <1>6, DiskGetsHalf
  <2> QED BY <1>6, <2>1 DEF Fine, Working, Emptying, Rotation
<1> QED BY <1>4, <1>5, <1>6 DEF u, most

\* A line that fits is written whole.
LEMMA TextFits ==
  ASSUME LogTypeOK, NEW t \in Threads, Fits(t)
  PROVE  LET u == Units \o Text(Me(t).line) IN
         /\ u \in Seq(UnitType) /\ Len(u) <= LimitOf(Home) /\ Len(u) <= Limit
         /\ LimitOf("ram") = RamLimit /\ LimitOf("disk") = Limit
<1> DEFINE more == Text(Me(t).line)
<1>1. Units \in Seq(UnitType) /\ more \in Seq(UnitType) /\ LimitOf(Home) \in Nat /\ LimitOf(Home) <= Limit
  BY HomeIn, TextOf
<1>2. Len(Units) + Len(more) <= LimitOf(Home) BY DEF Fits
<1>3. LimitOf("ram") = RamLimit /\ LimitOf("disk") = Limit BY DEF LimitOf
<1> HIDE DEF more
<1>4. Units \o more \in Seq(UnitType) /\ Len(Units \o more) = Len(Units) + Len(more) BY <1>1
<1>5. Len(Units \o more) <= Limit BY <1>1, <1>2, <1>4, Sizes
<1> QED BY <1>2, <1>3, <1>4, <1>5 DEF more

LEMMA WrittenFine ==
  ASSUME RoomInv, NEW t \in Threads, NEW kept, NEW lim, Me(t).pc = "write", Fits(t),
         LET u == Units \o Text(Me(t).line) IN
         \/ Home = "ram" /\ file' = RamHas(file, u) /\ failed' = failed
         \/ Home = "disk" /\ file' = DiskHas(u) /\ failed' = failed
         \/ Home = "disk" /\ file' \in HalfDone(u) /\ failed' = failed + 1
  PROVE  Fine(t, "unlock", kept, lim)
<1> DEFINE u == Units \o Text(Me(t).line)
<1>1. LogTypeOK /\ Tidy /\ Bounded /\ (Me(t).pc \in Working => Exists) BY Relies
<1>2. Exists BY <1>1 DEF Working
<1>3. u \in Seq(UnitType) /\ Len(u) <= Limit BY <1>1, TextFits
<1> HIDE DEF u
<1>4. \/ Home = "ram" /\ file' = RamHas(file, u) /\ failed' = failed
      \/ Home = "disk" /\ file' = DiskHas(u) /\ failed' = failed
      \/ Home = "disk" /\ file' \in HalfDone(u) /\ failed' = failed + 1
  BY DEF u
<1>5. Tidy' /\ Bounded'
  <2>1. CASE Home = "ram" /\ file' = RamHas(file, u) /\ failed' = failed BY <1>1, <1>3, <2>1, RamGets
  <2>2. CASE Home = "disk" /\ file' = DiskHas(u) /\ failed' = failed BY <1>1, <1>2, <1>3, <2>2, DiskGets
  <2>3. CASE Home = "disk" /\ file' \in HalfDone(u) /\ failed' = failed + 1
    BY <1>1, <1>2, <1>3, <2>3, DiskGetsHalf
  <2> QED BY <1>4, <2>1, <2>2, <2>3
<1> QED BY <1>5 DEF Fine, Working, Emptying, Rotation

LEMMA AppendFine ==
  ASSUME RoomInv, LogTypeOK', boot' = boot, NEW t \in Threads, NEW to, NEW kept, NEW lim,
         Me(t)'.line = Me(t).line, Stepped(t, to, kept, lim)
  PROVE  Fine(t, to, kept, lim)
<1> DEFINE r == Me(t)
           u == Units \o Text(r.line)
<1>1. LogTypeOK BY DEF RoomInv
<1>2. failed' \in {failed, failed + 1} /\ file' \in FileType BY <1>1, SteppedIn
<1>3. CASE file' = file BY <1>2, <1>3, SameFine
<1>4. CASE /\ ~Exists /\ (Created \/ NotCreated)
           /\ \/ to = "unlock"
              \/ Created /\ to = "room"
              \/ Created /\ r.pc = "reopen" /\ to = "rewrite" /\ kept = r.retained /\ lim = r.limit
  BY <1>4, MadeFine
<1>5. CASE /\ r.pc = "remove" /\ (to = "unlock" \/ (to = "reopen" /\ kept = r.retained /\ lim = r.limit))
           /\ \/ Home = "ram" /\ file' = [file EXCEPT !["ram"] = NoFile]
              \/ Home = "disk" /\ file' = [file EXCEPT !["disk"] = NoFile, !["stored"] = NoFile]
              \/ Home = "disk" /\ file' = [file EXCEPT !["disk"] = NoFile]
  BY <1>2, <1>5, RemovedFine
<1>6. CASE /\ r.pc = "rewrite"
           /\ \/ /\ to = "recheck" /\ kept = r.retained /\ lim = r.limit /\ failed' = failed
                 /\ \/ Home = "ram" /\ file' = RamHas(file, kept)
                    \/ Home = "disk" /\ file' = DiskHas(kept)
              \/ to = "unlock" /\ Home = "disk" /\ file' \in HalfDone(r.retained) /\ failed' = failed + 1
  BY <1>6, RewrittenFine
<1>7. CASE /\ r.pc = "write" /\ to = "unlock" /\ Fits(t)
           /\ \/ Home = "ram" /\ file' = RamHas(file, u) /\ failed' = failed
              \/ Home = "disk" /\ file' = DiskHas(u) /\ failed' = failed
              \/ Home = "disk" /\ file' \in HalfDone(u) /\ failed' = failed + 1
  BY <1>7, WrittenFine
<1>8. \/ file' = file
      \/ /\ ~Exists /\ (Created \/ NotCreated)
         /\ \/ to = "unlock"
            \/ Created /\ to = "room"
            \/ Created /\ r.pc = "reopen" /\ to = "rewrite" /\ kept = r.retained /\ lim = r.limit
      \/ /\ r.pc = "remove" /\ (to = "unlock" \/ (to = "reopen" /\ kept = r.retained /\ lim = r.limit))
         /\ \/ Home = "ram" /\ file' = [file EXCEPT !["ram"] = NoFile]
            \/ Home = "disk" /\ file' = [file EXCEPT !["disk"] = NoFile, !["stored"] = NoFile]
            \/ Home = "disk" /\ file' = [file EXCEPT !["disk"] = NoFile]
      \/ /\ r.pc = "rewrite"
         /\ \/ /\ to = "recheck" /\ kept = r.retained /\ lim = r.limit /\ failed' = failed
               /\ \/ Home = "ram" /\ file' = RamHas(file, kept)
                  \/ Home = "disk" /\ file' = DiskHas(kept)
            \/ to = "unlock" /\ Home = "disk" /\ file' \in HalfDone(r.retained) /\ failed' = failed + 1
      \/ /\ r.pc = "write" /\ to = "unlock" /\ Fits(t)
         /\ \/ Home = "ram" /\ file' = RamHas(file, u) /\ failed' = failed
            \/ Home = "disk" /\ file' = DiskHas(u) /\ failed' = failed
            \/ Home = "disk" /\ file' \in HalfDone(u) /\ failed' = failed + 1
  BY SMT DEF Stepped, Same
<1> QED BY <1>3, <1>4, <1>5, <1>6, <1>7, <1>8

LEMMA AppendRoom == ASSUME RoomInv, NEW t \in Threads, AppendLine(t) PROVE RoomInv'
<1>1. LogTypeOK BY DEF RoomInv
<1>2. /\ LogTypeOK' /\ UNCHANGED <<head, ring, ready, lock, where, boot>>
      /\ Me(t).pc \in Locked \ {"unlock"}
      /\ \A o \in Threads \ {t} : Me(o)' = Me(o)
  BY <1>1, AppendIs
<1>3. PICK to \in Locked, kept \in Seq(UnitType), lim \in Nat :
        /\ Me(t)'.pc = to /\ Me(t)'.retained = kept /\ Me(t)'.limit = lim
        /\ Me(t)'.line = Me(t).line /\ Me(t)'.count = Me(t).count /\ Me(t)'.next = Me(t).next
        /\ Stepped(t, to, kept, lim)
  BY <1>1, AppendIs
<1>4. lock = t BY <1>2 DEF RoomInv, Held
<1>5. ASSUME NEW o \in Threads \ {t} PROVE Me(o)' = Me(o) /\ Me(o).pc \notin Locked
  BY <1>2, <1>4, <1>5, OthersOut DEF RoomInv
<1>6. Held'
  <2>1. CASE t = "main"
    <3>1. main'.pc = to /\ main'.count = main.count /\ panic' = panic BY <1>2, <1>3, <2>1, MeIs
    <3>2. panic.pc \notin Locked BY <1>5, <2>1, MeIs
    <3> QED BY <1>2, <1>4, <2>1, <3>1, <3>2, MeIs, StopsIn DEF Held, Threads
  <2>2. CASE t = "panic"
    <3>1. main' = main BY <1>2, <2>2, MeIs
    <3> QED BY <1>2, <1>4, <2>2, <3>1, MeIs DEF RoomInv, Held, Threads, Replaying
  <2> QED BY <2>1, <2>2 DEF Threads
<1>7. Fine(t, to, kept, lim) BY <1>2, <1>3, AppendFine
<1>8. ASSUME NEW o \in Threads, o # t PROVE (Me(o).pc)' \notin Working \cup Emptying \cup Rotation
  BY <1>5, <1>8, StopsOut
<1>9. There' /\ Emptied' /\ Rotated'
  BY <1>3, <1>7, <1>8 DEF Fine, There, Emptied, Rotated
<1>10. RoomMade'
  <2>1. ASSUME NEW o \in Threads
        PROVE  /\ (Me(o).pc)' = "write" => Fits(o)'
               /\ (Me(o).pc)' = "recheck" /\ LimitOf(Home)' >= (Me(o).limit)' => Fits(o)'
    BY <1>3, <1>7, <1>8 DEF Fine, Working, LimitOf
  <2> QED BY <1>7, <2>1 DEF Fine, Bounded, RoomMade, Threads
<1> QED BY <1>2, <1>6, <1>7, <1>9, <1>10 DEF RoomInv, Roomy, Fine

LEMMA ReadRoom == ASSUME RoomInv, Read PROVE RoomInv'
<1>1. LogTypeOK BY DEF RoomInv
<1>2. /\ LogTypeOK' /\ UNCHANGED <<file, lock, panic, boot, failed>>
      /\ main.pc \in Reading /\ main'.count = main.count
  BY <1>1, ReadIs
<1>3. main'.pc \in Reading \/ (~Replaying /\ main'.pc = Rest) \/ (Replaying /\ main'.pc \in {"replay", "ensure"})
  <2>1. NoLine \in Line /\ main.a \in Line BY <1>1, NoLineIn DEF LogTypeOK, Local
  <2>2. CASE \E line \in {NoLine, main.a} : Return(line)
    BY <1>1, <2>1, <2>2, ReturnIs
  <2>3. CASE main'.pc \in {"copy", "more", "again", "got"} BY <2>3 DEF Reading
  <2>4. (\E line \in {NoLine, main.a} : Return(line)) \/ main'.pc \in {"copy", "more", "again", "got"}
    BY <1>1, ReadIs
  <2> QED BY <2>2, <2>3, <2>4
<1>4. Roomy'
  <2>1. main'.pc \notin Locked \ {"ensure", "unlock"} BY <1>3, StopsIn, RestIs
  <2> QED BY <1>2, <2>1, MeIs, RoomLeft
<1>5. Replaying => lock = "main" BY <1>2 DEF RoomInv, Held
<1>6. ~Replaying => main.count = 0 BY <1>1 DEF Replaying, LogTypeOK, Local
<1>7. panic.pc \in Locked => lock = "panic" BY MeIs DEF RoomInv, Held
<1>8. Held'
  <2>1. main'.pc \in Locked => main'.pc = "ensure" /\ Replaying BY <1>3, StopsIn, RestIs DEF Locked
  <2>2. main'.pc = "replay" => Replaying BY <1>3, StopsIn, RestIs DEF Reading
  <2>3. main'.pc \in {"early", "idle", "persist"} \cup Copying => ~Replaying
    BY <1>3 DEF Copying, Reading
  <2> QED BY <1>2, <1>5, <1>6, <1>7, <2>1, <2>2, <2>3, MeIs DEF Held, Threads, Replaying
<1> QED BY <1>2, <1>4, <1>8 DEF RoomInv

LEMMA DriveRoom == ASSUME RoomInv, Draw \/ Start \/ Begin \/ Replay PROVE RoomInv'
<1>1. LogTypeOK BY DEF RoomInv
<1>2. /\ LogTypeOK' /\ UNCHANGED <<panic, boot>> /\ failed' \in {failed, failed + 1}
      /\ file' = file \/ (~Exists /\ (Created \/ NotCreated))
      /\ \/ main.pc = Rest /\ main'.pc = "check" /\ main'.count = main.count /\ UNCHANGED lock
         \/ main.pc = "early" /\ main'.pc = "early" /\ main'.count = main.count /\ UNCHANGED lock
         \/ main.pc = "early" /\ main'.pc = "begin" /\ UNCHANGED lock
         \/ main.pc = "begin" /\ main'.pc = "ensure" /\ lock = "none" /\ lock' = "main"
         \/ main.pc = "replay" /\ main'.pc = "idle" /\ main'.count = 0 /\ lock' = "none"
         \/ main.pc = "replay" /\ main'.pc = "check" /\ UNCHANGED lock
  BY <1>1, DriveIs
<1>3. Roomy'
  <2>1. Tidy /\ RoomMade BY DEF RoomInv, Roomy
  <2>2. Steady
    <3>1. CASE file' = file
      <4>1. failed' = 0 => failed = 0 BY <1>1, <1>2 DEF LogTypeOK
      <4> QED BY <2>1, <3>1, <4>1 DEF Tidy, RoomMade, Bounded, Steady, Exists, Units, Home
    <3>2. CASE ~Exists /\ (Created \/ NotCreated) BY <1>1, <2>1, <3>2, CreatedSteady
    <3> QED BY <1>2, <3>1, <3>2
  <2>3. main'.pc \notin Working \cup Emptying \cup Rotation BY <1>2 DEF Working, Emptying, Rotation
  <2> QED BY <1>2, <2>2, <2>3, MeIs, RoomKept
<1>4. /\ panic.pc \in Locked => lock = "panic"
      /\ main.pc = "replay" => lock = "main"
      /\ main.pc \in {"early", "idle"} => main.count = 0
  BY MeIs DEF RoomInv, Held
<1>5. Held'
  <2>1. panic'.pc \in Locked => lock' = "panic" BY <1>2, <1>4
  <2>2. main.pc = Rest => main.count = 0 BY <1>4, RestIs
  <2>3. /\ main'.pc \in {"check", "early", "begin", "ensure", "idle"}
        /\ main'.pc = "ensure" => lock' = "main"
        /\ main'.pc \in {"early", "idle"} => main'.count = 0
        /\ main'.pc = "check" /\ main'.count > 0 => lock' = "main"
    BY <1>2, <1>4, <2>2
  <2>4. main'.pc \notin Copying \cup {"replay", "persist"} /\ (main'.pc \in Locked => main'.pc = "ensure")
    BY <2>3 DEF Copying, Locked
  <2>5. main'.pc \in Reading => main'.pc = "check" BY <2>3 DEF Reading
  <2> QED BY <1>2, <2>1, <2>3, <2>4, <2>5, MeIs DEF Held, Threads, Replaying
<1> QED BY <1>2, <1>3, <1>5 DEF RoomInv

LEMMA PowerOffRoom == ASSUME RoomInv, PowerOff PROVE RoomInv'
<1>1. LogTypeOK /\ Tidy /\ RoomMade BY DEF RoomInv, Roomy
<1>2. /\ main'.pc = "early" /\ main'.count = 0 /\ panic'.pc = "off"
      /\ file' = [h \in Homes |-> IF h = "ram" THEN NoFile ELSE file["stored"]]
  BY DEF PowerOff, Thread
<1>3. file'["ram"] = NoFile /\ file'["disk"] = file["stored"] /\ file'["stored"] = file["stored"]
  BY <1>2, HomesAre
<1>4. Held' BY <1>2, MeIs, StopsIn DEF Held, Threads
<1>5. There' /\ Emptied' /\ Rotated'
  BY <1>2, MeIs DEF There, Emptied, Rotated, Threads, Working, Emptying, Rotation
<1>6. ~NoFile.exists /\ NoFile.units = <<>> /\ Len(NoFile.units) = 0 BY DEF NoFile
<1>7. Tidy' BY <1>1, <1>3, <1>6, HomesAre DEF Tidy
<1>8. RoomMade' BY <1>1, <1>2, <1>3, <1>6, MeIs, Sizes DEF RoomMade, Threads
<1> QED BY <1>1, <1>4, <1>5, <1>7, <1>8, PowerOffType DEF RoomInv, Roomy

\* Whatever fails, and wherever the power goes, append_log_file_locked never loses a line
\* for want of room, but where the disk fails it in the middle of a rotation, and never
\* lets the file outgrow its limit.
LEMMA RoomStep == ASSUME RoomInv, [Next]_vars PROVE RoomInv'
<1>1. ASSUME NEW t \in Threads, Works(t) PROVE RoomInv'
  BY <1>1, RecordRoom, PersistRoom, AppendRoom, UnlockRoom DEF Works
<1>2. CASE UNCHANGED vars
  <2>1. Held' BY <1>2 DEF vars, RoomInv, Held, Me, Replaying
  <2>2. There' /\ Emptied' /\ Rotated' /\ Tidy'
    BY <1>2 DEF vars, RoomInv, Roomy, There, Emptied, Rotated, Tidy, Me, Exists, Units, Home
  <2>3. RoomMade'
    BY <1>2 DEF vars, RoomInv, Roomy, RoomMade, Me, Fits, Text, Unit, Units, Home, LimitOf
  <2> QED BY <1>2, <2>1, <2>2, <2>3, LogTypeStep DEF RoomInv, Roomy
<1> QED BY <1>1, <1>2, LogRoom, PanicRoom, ReadRoom, DriveRoom, PowerOffRoom DEF Next, Threads

LEMMA RoomInit == ASSUME Init PROVE RoomInv
<1>1. /\ main.pc = "early" /\ main.count = 0 /\ panic.pc = "off" /\ file = [h \in Homes |-> NoFile]
  BY DEF Init, Reset, Thread
<1>2. ~NoFile.exists /\ NoFile.units = <<>> /\ Len(NoFile.units) = 0 BY DEF NoFile
<1>3. \A h \in Homes : file[h] = NoFile BY <1>1
<1>4. Held BY <1>1, MeIs, StopsIn DEF Held, Threads
<1>5. There /\ Emptied /\ Rotated
  BY <1>1, MeIs DEF There, Emptied, Rotated, Threads, Working, Emptying, Rotation
<1>6. Tidy BY <1>2, <1>3, HomesAre DEF Tidy
<1>7. RoomMade BY <1>1, <1>2, <1>3, HomesAre, MeIs, Sizes DEF RoomMade, Threads
<1> QED BY <1>4, <1>5, <1>6, <1>7, LogTypeInit DEF RoomInv, Roomy

\* The log file never outgrows its backend's limit, append_log_file_locked writes a line
\* only where it fits, and after a rotation it has room for any line, unless the rotation
\* has left the file with a smaller limit than it went by.
THEOREM LogHasRoom == Spec => []RoomMade
<1>1. Init => RoomInv BY RoomInit
<1>2. RoomInv /\ [Next]_vars => RoomInv' BY RoomStep
<1>3. RoomInv => RoomMade BY DEF RoomInv, Roomy
<1> QED BY <1>1, <1>2, <1>3, PTL DEF Spec


-----------------------------------------------------------------------------
(***************************************************************************)
(* A line that was read is whole.  Two writers at a time fill two entries, *)
(* an entry with a number is one that nobody fills, and a reader that      *)
(* finds its number twice has copied halves that nobody stored to in       *)
(* between.                                                                *)
(***************************************************************************)
Near(m, n) == \/ (m < n /\ n < m + Capacity)
              \/ (n < m /\ m < n + Capacity)

\* Lines less than a ring apart have entries of their own.
LEMMA SlotsApart == ASSUME NEW k \in Nat, NEW n \in Nat, Near(k, n) PROVE Slot(k) # Slot(n)
<1>1. \A x \in Nat : \E q \in Nat : x = Capacity * q + (x % Capacity)
  <2> TAKE x \in Nat
  <2> DEFINE q == x \div Capacity
             m == Capacity * q
             r == x % Capacity
  <2>1. q \in Int /\ r \in Nat /\ r < Capacity BY Sizes
  <2>2. x = m + r BY Sizes
  <2> HIDE DEF q
  <2>3. m \in Int BY <2>1, Sizes
  <2>4. q < 0 => m <= 0 - Capacity
    <3>1. q < 0 => q + 1 <= 0 BY <2>1
    <3>2. q < 0 => Capacity * (q + 1) <= 0 BY <2>1, <3>1, Sizes
    <3>3. Capacity * (q + 1) = m + Capacity BY <2>1, Sizes
    <3> HIDE DEF m
    <3> QED BY <2>3, <3>2, <3>3, Sizes
  <2>5. q \in Nat
    <3> HIDE DEF m, r
    <3> QED BY <2>1, <2>2, <2>3, <2>4, Sizes
  <2> QED BY <2>2, <2>5
<1>2. ASSUME NEW a \in Nat, NEW b \in Nat, a < b, b < a + Capacity, a % Capacity = b % Capacity PROVE FALSE
  <2>1. PICK p \in Nat : a = Capacity * p + (a % Capacity) BY <1>1
  <2>2. PICK q \in Nat : b = Capacity * q + (b % Capacity) BY <1>1
  <2>3. a % Capacity \in Nat BY Sizes
  <2>4. Capacity * q \in Nat /\ Capacity * p \in Nat BY Sizes
  <2>5. Capacity * p < Capacity * q /\ Capacity * q < Capacity * p + Capacity
    BY <1>2, <2>1, <2>2, <2>3, <2>4, Sizes
  <2>6. CASE q <= p
    <3>1. Capacity * q <= Capacity * p BY <2>6, Sizes
    <3> QED BY <2>4, <2>5, <3>1
  <2>7. CASE q >= p + 1
    <3>1. Capacity * q >= Capacity * (p + 1) BY <2>7, Sizes
    <3>2. Capacity * (p + 1) = Capacity * p + Capacity BY Sizes
    <3> QED BY <2>4, <2>5, <3>1, <3>2, Sizes
  <2> QED BY <2>6, <2>7
<1> QED BY <1>2 DEF Near, Slot

Copies(t) == Me(t).pc \in Copying
Number(t) == Me(t).line.n
Filled(t) == ring[Slot(Number(t))]

Numbered ==
  /\ \A s \in Places : ring[s].sequence <= head
  /\ \A t \in Threads : Copies(t) => Number(t) \in 1 .. head
  /\ main.pc \in Reading => main.asked \in 1 .. head

\* The panic's line is the next one to what the main loop was logging.
Alone == where = "none" => panic.pc = "off" /\ (Copies("main") => Number("main") = head)

Apart == Copies("main") /\ Copies("panic") => Near(Number("main"), Number("panic"))

Stage(t) ==
  /\ Me(t).pc = "clear" => Filled(t).sequence # Number(t)
  /\ Me(t).pc \in {"half", "rest", "publish"} => Filled(t).sequence = 0
  /\ Me(t).pc \in {"rest", "publish"} => Filled(t).a = Me(t).line
  /\ Me(t).pc = "publish" => Filled(t).b = Me(t).line

Whole(e) == e.sequence # 0 => e.a = e.b /\ e.a.n = e.sequence

Reader ==
  LET e == ring[Slot(main.asked)] IN
  main.pc \in {"copy", "more", "again"} =>
    /\ Copies("panic") => Number("panic") # main.asked
    /\ e.sequence = main.asked =>
         /\ main.pc \in {"more", "again"} => main.a = e.a
         /\ main.pc = "again" => main.b = e.b

RingInv ==
  /\ LogTypeOK /\ Numbered /\ Alone /\ Apart
  /\ \A t \in Threads : Stage(t)
  /\ \A s \in Places : Whole(ring[s])
  /\ Reader /\ ReadWhole

\* A step that logs nothing, fills no entry and copies none.
LEMMA QuietRing ==
  ASSUME RingInv, LogTypeOK', UNCHANGED <<head, ring, where>>,
         panic' = panic \/ (panic.pc # "off" /\ panic'.pc \notin Copying),
         \/ main' = main \/ main'.pc \notin Copying \cup Reading
         \/ main'.pc = "check" /\ main'.asked \in 1 .. head
  PROVE  RingInv'
<1>1. "check" \notin Copying BY DEF Copying
<1>2. Copies("main")' => main' = main BY <1>1, MeIs DEF Copies
<1>3. Copies("panic")' => panic' = panic BY MeIs DEF Copies
<1>4. Numbered'
  <2>1. ASSUME NEW t \in Threads, Copies(t)' PROVE Number(t)' \in 1 .. head
    <3>1. Me(t)' = Me(t) BY <1>2, <1>3, <2>1, MeIs DEF Threads
    <3> QED BY <2>1, <3>1 DEF RingInv, Numbered, Copies, Number
  <2>2. main'.pc \in Reading => main'.asked \in 1 .. head BY DEF RingInv, Numbered
  <2> QED BY <2>1, <2>2 DEF RingInv, Numbered
<1>5. Alone' BY <1>2, MeIs DEF RingInv, Alone, Copies, Number
<1>6. Apart' BY <1>2, <1>3, MeIs DEF RingInv, Apart, Copies, Number
<1>7. ASSUME NEW t \in Threads PROVE Stage(t)'
  <2>1. CASE Copies(t)'
    <3>1. Me(t)' = Me(t) BY <1>2, <1>3, <2>1, MeIs DEF Threads
    <3> QED BY <3>1 DEF RingInv, Stage, Filled, Number
  <2> QED BY <2>1 DEF Stage, Copies, Copying
<1>8. \A s \in Places : Whole(ring[s])' BY DEF RingInv, Whole
<1>9. Reader'
  <2>1. main'.pc \in {"copy", "more", "again"} => main' = main BY DEF Reading
  <2>2. Copies("panic")' => Number("panic")' = Number("panic") /\ Copies("panic")
    BY <1>3, MeIs DEF Copies, Number
  <2> QED BY <2>1, <2>2 DEF RingInv, Reader
<1>10. ReadWhole' BY DEF RingInv, ReadWhole, Reading
<1> QED BY <1>4, <1>5, <1>6, <1>7, <1>8, <1>9, <1>10 DEF RingInv

\* The entry of the line that is logged next does not have its number.
LEMMA NewEntry == ASSUME RingInv PROVE ring[Slot(head + 1)].sequence # head + 1
<1>1. head \in Nat BY DEF RingInv, LogTypeOK
<1>2. Slot(head + 1) \in Places BY <1>1, SlotIn
<1>3. ring[Slot(head + 1)].sequence \in Nat BY <1>2 DEF RingInv, LogTypeOK, EntryType
<1> QED BY <1>1, <1>2, <1>3 DEF RingInv, Numbered

LEMMA LogRing == ASSUME ~Laps, RingInv, NEW len \in Lens, Log(len) PROVE RingInv'
<1> DEFINE line == [n |-> head + 1, len |-> len, by |-> "main"]
<1>1. main \in Local("main") /\ head \in Nat BY DEF RingInv, LogTypeOK
<1>2. main' = [main EXCEPT !.pc = "clear", !.line = line] /\ head' = head + 1
      /\ UNCHANGED <<ring, panic, where>>
  BY DEF Log
<1>3. line.n = head + 1 OBVIOUS
<1> HIDE DEF line
<1>4. main'.pc = "clear" /\ main'.line.n = head + 1 BY <1>1, <1>2, <1>3 DEF Local
<1>5. "clear" \in Copying /\ "clear" \notin Reading /\ "clear" \notin {"copy", "more", "again", "got"}
  BY DEF Copying, Reading
<1>6. /\ Copies("main")' /\ Number("main")' = head + 1
      /\ Me("panic")' = Me("panic") /\ (Copies("panic")' <=> Copies("panic"))
      /\ Number("panic")' = Number("panic")
  BY <1>2, <1>4, <1>5, MeIs DEF Copies, Number
<1>7. Copies("panic") => Number("panic") \in 1 .. head BY MeIs DEF RingInv, Numbered
<1>8. Numbered'
  <2>1. \A s \in Places : ring'[s].sequence <= head'
    BY <1>1, <1>2 DEF RingInv, Numbered, LogTypeOK, EntryType
  <2>2. \A t \in Threads : Copies(t)' => Number(t)' \in 1 .. head'
    BY <1>1, <1>2, <1>6, <1>7 DEF Threads
  <2> QED BY <1>4, <1>5, <2>1, <2>2 DEF Numbered
<1>9. Alone' BY <1>2, <1>6 DEF RingInv, Alone
<1>10. Apart'
  <2>1. Copies("panic") => head + 1 < Number("panic") + Capacity
    BY MeIs DEF Log, Copies, Number
  <2> QED BY <1>1, <1>6, <1>7, <2>1 DEF Apart, Near
<1>11. ASSUME NEW t \in Threads PROVE Stage(t)'
  <2>1. CASE t = "main"
    <3>1. Filled("main")' = ring[Slot(head + 1)] BY <1>2, <1>6 DEF Filled
    <3> QED BY <1>4, <1>6, <2>1, <3>1, NewEntry, MeIs DEF Stage
  <2>2. CASE t = "panic" BY <1>2, <1>6, <2>2 DEF RingInv, Stage, Filled, Number
  <2> QED BY <2>1, <2>2 DEF Threads
<1>12. \A s \in Places : Whole(ring[s])' BY <1>2 DEF RingInv, Whole
<1>13. Reader' /\ ReadWhole' BY <1>4 DEF Reader, ReadWhole
<1>14. LogTypeOK' BY LogType DEF RingInv
<1> QED BY <1>8, <1>9, <1>10, <1>11, <1>12, <1>13, <1>14 DEF RingInv

LEMMA PanicRing == ASSUME Capacity > 1, RingInv, NEW cpu \in Panics, Panic(cpu) PROVE RingInv'
<1> DEFINE line == [n |-> head + 1, len |-> 1, by |-> "panic"]
<1>1. head \in Nat BY DEF RingInv, LogTypeOK
<1>2. panic' = [Thread("clear") EXCEPT !.line = line] /\ head' = head + 1 /\ where = "none"
      /\ UNCHANGED <<ring, main>> /\ where' # "none"
  BY LogAssumption DEF Panic
<1>3. line.n = head + 1 OBVIOUS
<1> HIDE DEF line
<1>4. panic'.pc = "clear" /\ panic'.line.n = head + 1 BY <1>2, <1>3 DEF Thread
<1>5. "clear" \in Copying BY DEF Copying
<1>6. /\ Copies("panic")' /\ Number("panic")' = head + 1
      /\ Me("main")' = Me("main") /\ (Copies("main")' <=> Copies("main"))
      /\ Number("main")' = Number("main")
  BY <1>2, <1>4, <1>5, MeIs DEF Copies, Number
<1>7. Copies("main") => Number("main") = head BY <1>2 DEF RingInv, Alone
<1>8. Numbered'
  <2>1. \A s \in Places : ring'[s].sequence <= head'
    BY <1>1, <1>2 DEF RingInv, Numbered, LogTypeOK, EntryType
  <2>2. Copies("main") => Number("main") \in 1 .. head BY MeIs DEF RingInv, Numbered
  <2>3. \A t \in Threads : Copies(t)' => Number(t)' \in 1 .. head'
    BY <1>1, <1>2, <1>6, <2>2 DEF Threads
  <2>4. main'.pc \in Reading => main'.asked \in 1 .. head'
    BY <1>1, <1>2 DEF RingInv, Numbered
  <2> QED BY <2>1, <2>3, <2>4 DEF Numbered
<1>9. Alone' BY <1>2 DEF Alone
<1>10. Apart' BY <1>1, <1>6, <1>7, Sizes DEF Apart, Near
<1>11. ASSUME NEW t \in Threads PROVE Stage(t)'
  <2>1. CASE t = "panic"
    <3>1. Filled("panic")' = ring[Slot(head + 1)] BY <1>2, <1>6 DEF Filled
    <3> QED BY <1>4, <1>6, <2>1, <3>1, NewEntry, MeIs DEF Stage
  <2>2. CASE t = "main" BY <1>2, <1>6, <2>2 DEF RingInv, Stage, Filled, Number
  <2> QED BY <2>1, <2>2 DEF Threads
<1>12. \A s \in Places : Whole(ring[s])' BY <1>2 DEF RingInv, Whole
<1>13. Reader'
  <2>1. main.pc \in {"copy", "more", "again"} => main.asked # head + 1
    BY <1>1 DEF RingInv, Numbered, Reading
  <2> QED BY <1>2, <1>6, <2>1 DEF RingInv, Reader
<1>14. ReadWhole' BY <1>2 DEF RingInv, ReadWhole
<1>15. LogTypeOK' BY PanicType DEF RingInv
<1> QED BY <1>8, <1>9, <1>10, <1>11, <1>12, <1>13, <1>14, <1>15 DEF RingInv

LEMMA RecordRing == ASSUME RingInv, NEW t \in Threads, Record(t) PROVE RingInv'
<1> DEFINE s == Slot(Number(t))
           e == ring[s]
           f == ring'[s]
<1>1. LogTypeOK BY DEF RingInv
<1>2. /\ LogTypeOK' /\ UNCHANGED <<head, where>>
      /\ \E to : Me(t)' = [Me(t) EXCEPT !.pc = to]
      /\ \A o \in Threads \ {t} : Me(o)' = Me(o)
      /\ s \in Places /\ ring' = [ring EXCEPT ![s] = f]
      /\ \/ Me(t).pc = "clear" /\ Me(t)'.pc = "half" /\ f = [e EXCEPT !.sequence = 0]
         \/ Me(t).pc = "half" /\ Me(t)'.pc = "rest" /\ f = [e EXCEPT !.a = Me(t).line]
         \/ Me(t).pc = "rest" /\ Me(t)'.pc = "publish" /\ f = [e EXCEPT !.b = Me(t).line]
         \/ /\ Me(t).pc = "publish" /\ Me(t)'.pc = "persist"
            /\ f = [e EXCEPT !.sequence = Me(t).line.n]
  BY <1>1, RecordIs DEF Number
<1> DEFINE n == Number(t)
           line == Me(t).line
<1>3. line \in Line /\ n = line.n /\ Me(t)'.line = line /\ Number(t)' = n /\ Me(t)'.asked = Me(t).asked
  <2> DEFINE r == Me(t)
  <2>1. r \in Local(t) BY <1>1, MeIn
  <2>2. PICK to : Me(t)' = [r EXCEPT !.pc = to] BY <1>2
  <2> HIDE DEF r
  <2>3. [r EXCEPT !.pc = to].line = r.line /\ [r EXCEPT !.pc = to].asked = r.asked /\ r.line \in Line
    BY <2>1 DEF Local
  <2>4. Me(t)'.line = r.line /\ Me(t)'.asked = r.asked BY <2>2, <2>3
  <2> QED BY <2>3, <2>4 DEF Number, r
<1>4. e \in EntryType /\ head \in Nat /\ n \in 1 .. head /\ Copies(t) /\ Stage(t)
  <2>1. Copies(t) BY <1>2 DEF Copies, Copying
  <2> QED BY <1>1, <1>2, <2>1 DEF LogTypeOK, RingInv, Numbered
<1>5. \A q \in Places \ {s} : ring'[q] = ring[q] BY <1>2 DEF RingInv, LogTypeOK
<1> DEFINE st == Me(t).pc
<1>6. /\ st = "clear" => f.sequence = 0 /\ f.a = e.a /\ f.b = e.b /\ e.sequence # n
      /\ st = "half" => f.sequence = 0 /\ f.a = line /\ f.b = e.b
      /\ st = "rest" => f.sequence = 0 /\ f.a = line /\ f.b = line
      /\ st = "publish" => f.sequence = n /\ f.a = line /\ f.b = line
  <2>1. e = Filled(t) BY DEF Filled
  <2>2. /\ st = "clear" => e.sequence # n
        /\ st \in {"half", "rest", "publish"} => e.sequence = 0
        /\ st \in {"rest", "publish"} => e.a = line
        /\ st = "publish" => e.b = line
    BY <1>4, <2>1 DEF Stage
  <2> HIDE DEF e, f, line, n, st
  <2>3. /\ st = "clear" => f = [e EXCEPT !.sequence = 0]
        /\ st = "half" => f = [e EXCEPT !.a = line]
        /\ st = "rest" => f = [e EXCEPT !.b = line]
        /\ st = "publish" => f = [e EXCEPT !.sequence = n]
    BY <1>2, <1>3 DEF st, line, e, f
  <2> QED BY <1>4, <2>2, <2>3 DEF EntryType
<1>7. st \in {"clear", "half", "rest", "publish"} BY <1>2
<1>8. f.sequence \in {0, n} BY <1>6, <1>7
<1> DEFINE to == Me(t)'.pc
<1>9. /\ st = "clear" => to = "half"
      /\ st = "half" => to = "rest"
      /\ st = "rest" => to = "publish"
      /\ st = "publish" => to = "persist"
  BY <1>2
<1> HIDE DEF s, e, f, n, line, st, to
\* The other writer is at an entry of its own.
<1>10. ASSUME NEW o \in Threads \ {t}
       PROVE  /\ Me(o)' = Me(o) /\ Number(o)' = Number(o) /\ (Copies(o)' <=> Copies(o))
              /\ Copies(o) => Slot(Number(o)) # s /\ Slot(Number(o)) \in Places
  <2>1. Me(o)' = Me(o) BY <1>2
  <2>2. Copies(o) => Near(n, Number(o)) \/ Near(Number(o), n)
    BY <1>4 DEF RingInv, Apart, Threads, n
  <2>3. Copies(o) => Number(o) \in Nat /\ n \in Nat BY <1>1, <1>4 DEF RingInv, Numbered, LogTypeOK
  <2>4. Copies(o) => Slot(Number(o)) # s BY <2>2, <2>3, SlotsApart DEF s, n
  <2> QED BY <2>1, <2>3, <2>4, SlotIn DEF Number, Copies
<1>11. Copies(t)' => Copies(t) BY <1>4
<1>12. Numbered'
  <2>1. ASSUME NEW q \in Places PROVE ring'[q].sequence <= head'
    <3>1. CASE q = s BY <1>2, <1>4, <1>8, <3>1 DEF f
    <3>2. CASE q # s BY <1>2, <1>5, <3>2 DEF RingInv, Numbered
    <3> QED BY <3>1, <3>2
  <2>2. ASSUME NEW o \in Threads, Copies(o)' PROVE Number(o)' \in 1 .. head'
    <3>1. CASE o = t BY <1>2, <1>3, <1>4, <3>1
    <3>2. CASE o # t BY <1>2, <1>10, <2>2, <3>2 DEF RingInv, Numbered
    <3> QED BY <3>1, <3>2
  <2>3. main'.pc \in Reading => main'.asked \in 1 .. head'
    <3>1. CASE t = "main"
      <4>1. main'.pc \in {"half", "rest", "publish", "persist"} BY <1>7, <1>9, <3>1, MeIs DEF to, st
      <4> QED BY <4>1 DEF Reading
    <3>2. CASE t = "panic"
      <4>1. main' = main BY <1>2, <3>2, MeIs
      <4> QED BY <1>2, <4>1 DEF RingInv, Numbered
    <3> QED BY <3>1, <3>2 DEF Threads
  <2> QED BY <2>1, <2>2, <2>3 DEF Numbered
<1>13. Alone'
  <2>1. CASE t = "main"
    <3>1. panic' = panic BY <1>2, <2>1, MeIs
    <3>2. Number("main")' = Number("main") /\ Copies("main") BY <1>3, <1>4, <2>1 DEF n
    <3> QED BY <1>2, <3>1, <3>2 DEF RingInv, Alone
  <2>2. CASE t = "panic"
    <3>1. panic.pc # "off" BY <1>7, <2>2, MeIs DEF st
    <3> QED BY <1>2, <3>1 DEF RingInv, Alone
  <2> QED BY <2>1, <2>2 DEF Threads
<1>14. Apart'
  <2>1. Number("main")' = Number("main") /\ Number("panic")' = Number("panic")
    BY <1>3, <1>10, MeIs DEF n, Threads
  <2>2. (Copies("main")' => Copies("main")) /\ (Copies("panic")' => Copies("panic"))
    BY <1>10, <1>11, MeIs DEF Threads
  <2> QED BY <2>1, <2>2 DEF RingInv, Apart
<1>15. ASSUME NEW o \in Threads PROVE Stage(o)'
  <2>1. CASE o = t
    <3>1. Filled(t)' = f BY <1>3 DEF Filled, f, s, n
    <3> QED BY <1>3, <1>6, <1>7, <1>9, <2>1, <3>1 DEF Stage, to, line
  <2>2. CASE o # t /\ Copies(o)
    <3>1. Filled(o)' = Filled(o) BY <1>5, <1>10, <2>2 DEF Filled
    <3> QED BY <1>10, <2>2, <3>1 DEF RingInv, Stage
  <2>3. CASE o # t /\ ~Copies(o)
    BY <1>10, <2>3 DEF Stage, Copies, Copying
  <2> QED BY <2>1, <2>2, <2>3
<1>16. ASSUME NEW q \in Places PROVE Whole(ring'[q])
  <2>1. CASE q = s BY <1>3, <1>6, <1>7, <2>1 DEF Whole, f, n, line
  <2>2. CASE q # s BY <1>5, <2>2 DEF RingInv
  <2> QED BY <2>1, <2>2
<1>17. Reader' /\ ReadWhole'
  <2>1. CASE t = "main"
    <3>1. main'.pc \in {"half", "rest", "publish", "persist"} BY <1>7, <1>9, <2>1, MeIs DEF to, st
    <3> QED BY <3>1 DEF Reader, ReadWhole
  <2>2. CASE t = "panic"
    <3>1. main' = main BY <1>2, <2>2, MeIs
    <3>2. CASE main.pc \in {"copy", "more", "again"}
      <4> DEFINE a == Slot(main.asked)
      <4>1. main.asked \in 1 .. head /\ main.asked \in Nat BY <1>4, <3>2 DEF RingInv, Numbered, Reading
      <4>2. a \in Places BY <4>1, SlotIn
      <4>3. n # main.asked BY <1>4, <2>2, <3>2 DEF RingInv, Reader, n
      <4>4. Number("panic")' # main'.asked BY <1>3, <2>2, <3>1, <4>3
      <4>5. CASE a = s
        <5>1. ring'[a] = f BY <4>5 DEF f
        <5>2. f.sequence # main.asked BY <1>8, <4>1, <4>3
        <5> QED BY <3>1, <4>4, <5>1, <5>2 DEF Reader, ReadWhole, RingInv
      <4>6. CASE a # s
        <5>1. ring'[a] = ring[a] BY <1>5, <4>2, <4>6
        <5> QED BY <3>1, <4>4, <5>1 DEF Reader, ReadWhole, RingInv
      <4> QED BY <4>5, <4>6
    <3>3. CASE main.pc \notin {"copy", "more", "again"}
      BY <3>1, <3>3 DEF Reader, ReadWhole, RingInv
    <3> QED BY <3>2, <3>3
  <2> QED BY <2>1, <2>2 DEF Threads
<1> QED BY <1>2, <1>12, <1>13, <1>14, <1>15, <1>16, <1>17 DEF RingInv

LEMMA ReadRing == ASSUME RingInv, Read PROVE RingInv'
<1> DEFINE e == ring[Slot(main.asked)]
<1>1. LogTypeOK BY DEF RingInv
<1>2. /\ LogTypeOK' /\ UNCHANGED <<head, ring, where, panic>> /\ main.pc \in Reading
      /\ \/ \E line \in {NoLine, main.a} : Return(line)
         \/ /\ main'.asked = main.asked
            /\ \/ main.pc = "check" /\ main'.pc = "copy" /\ e.sequence = main.asked
               \/ main.pc = "copy" /\ main'.pc = "more" /\ main'.a = e.a
               \/ main.pc = "more" /\ main'.pc = "again" /\ main'.a = main.a /\ main'.b = e.b
               \/ /\ main.pc = "again" /\ main'.pc = "got" /\ main'.a = main.a /\ main'.b = main.b
                  /\ e.sequence = main.asked
  BY <1>1, ReadIs
<1>3. CASE \E line \in {NoLine, main.a} : Return(line)
  <2>1. NoLine \in Line /\ main.a \in Line BY <1>1, NoLineIn DEF LogTypeOK, Local
  <2>2. main'.pc \in {"early", "idle", "replay", "ensure"}
    BY <1>1, <1>3, <2>1, ReturnIs, RestIs
  <2>3. main'.pc \notin Copying \cup Reading BY <2>2 DEF Copying, Reading
  <2> QED BY <1>2, <2>3, QuietRing
<1>4. main.asked \in 1 .. head /\ Slot(main.asked) \in Places
  <2>1. main.asked \in 1 .. head /\ main.asked \in Nat BY <1>1, <1>2 DEF RingInv, Numbered, LogTypeOK, Local
  <2> QED BY <2>1, SlotIn
<1>5. Whole(e) BY <1>4 DEF RingInv
<1>6. CASE /\ main'.asked = main.asked
           /\ \/ main.pc = "check" /\ main'.pc = "copy" /\ e.sequence = main.asked
              \/ main.pc = "copy" /\ main'.pc = "more" /\ main'.a = e.a
              \/ main.pc = "more" /\ main'.pc = "again" /\ main'.a = main.a /\ main'.b = e.b
              \/ /\ main.pc = "again" /\ main'.pc = "got" /\ main'.a = main.a /\ main'.b = main.b
                 /\ e.sequence = main.asked
  <2>1. ~Copies("main") /\ ~Copies("main")' BY <1>6, MeIs DEF Copies, Copying
  <2>2. Me("panic")' = Me("panic") BY <1>2, MeIs
  <2>3. Numbered'
    <3>1. \A t \in Threads : Copies(t)' => Number(t)' \in 1 .. head'
      BY <1>2, <2>1, <2>2 DEF RingInv, Numbered, Copies, Number, Threads
    <3> QED BY <1>2, <1>4, <1>6, <3>1 DEF RingInv, Numbered
  <2>4. Alone' /\ Apart' BY <1>2, <2>1, <2>2 DEF RingInv, Alone, Apart, Copies
  <2>5. ASSUME NEW t \in Threads PROVE Stage(t)'
    <3>1. CASE t = "main" BY <1>6, <3>1, MeIs DEF Stage
    <3>2. CASE t = "panic" BY <1>2, <2>2, <3>2 DEF RingInv, Stage, Filled, Number
    <3> QED BY <3>1, <3>2 DEF Threads
  <2>6. \A s \in Places : Whole(ring[s])' BY <1>2 DEF RingInv, Whole
  <2>7. Reader'
    <3> HIDE DEF e
    <3>1. e' = e
      <4> USE DEF e
      <4> QED BY <1>2, <1>6
    <3>2. Copies("panic") /\ main'.pc \in {"copy", "more", "again"} => Number("panic") # main.asked
      <4>1. CASE main.pc = "check" /\ e.sequence = main.asked
        <5>1. Number("panic") = main.asked => Filled("panic") = e BY DEF Filled, e
        <5>2. Stage("panic") BY DEF RingInv, Threads
        <5> QED BY <1>4, <4>1, <5>1, <5>2, MeIs DEF Stage, Copies, Copying
      <4>2. CASE main.pc \in {"copy", "more"} BY <4>2 DEF RingInv, Reader
      <4> QED BY <1>6, <4>1, <4>2
    <3>3. (Copies("panic")' <=> Copies("panic")) /\ Number("panic")' = Number("panic")
      BY <2>2 DEF Copies, Number
    <3>4. main.pc = "more" /\ e.sequence = main.asked => main.a = e.a BY DEF RingInv, Reader, e
    <3>5. /\ main'.pc \in {"more", "again"} /\ e.sequence = main.asked => main'.a = e.a
          /\ main'.pc = "again" => main'.b = e.b
      BY <1>6, <3>4
    <3>6. Slot(main'.asked) = Slot(main.asked) BY <1>6
    <3> QED BY <1>2, <1>6, <3>2, <3>3, <3>5, <3>6 DEF Reader, e
  <2>8. ReadWhole'
    <3>1. main.pc = "again" /\ e.sequence = main.asked => main.a = e.a /\ main.b = e.b
      BY DEF RingInv, Reader
    <3> HIDE DEF e
    <3> QED BY <1>4, <1>5, <1>6, <3>1 DEF ReadWhole, Whole
  <2> QED BY <1>2, <2>3, <2>4, <2>5, <2>6, <2>7, <2>8 DEF RingInv
<1> QED BY <1>2, <1>3, <1>6

LEMMA PowerOffRing == ASSUME PowerOff, LogTypeOK' PROVE RingInv'
<1>1. /\ head' = 0 /\ where' = "none" /\ main'.pc = "early" /\ panic'.pc = "off"
      /\ ring' = [s \in Places |-> Entry] /\ Entry.sequence = 0
  BY DEF PowerOff, Thread, Entry, Places
<1>2. ~Copies("main")' /\ ~Copies("panic")' /\ main'.pc \notin Reading
  BY <1>1, MeIs DEF Copies, Copying, Reading
<1>3. Numbered' /\ Alone' /\ Apart' BY <1>1, <1>2 DEF Numbered, Alone, Apart, Threads
<1>4. \A t \in Threads : Stage(t)' BY <1>1, MeIs DEF Stage, Threads
<1>5. (\A s \in Places : Whole(ring[s])') /\ Reader' /\ ReadWhole' BY <1>1 DEF Whole, Reader, ReadWhole
<1> QED BY <1>3, <1>4, <1>5 DEF RingInv

\* A read of the ring that succeeds returns one whole line, and the one that was asked for,
\* as long as nobody logs a whole ring while a line is copied and the ring has two entries.
LEMMA RingStep == ASSUME ~Laps, Capacity > 1, RingInv, [Next]_vars PROVE RingInv'
<1>0. LogTypeOK /\ LogTypeOK' BY LogTypeStep DEF RingInv
<1>1. ASSUME NEW t \in Threads, Persist(t) \/ AppendLine(t) \/ Unlock(t) PROVE RingInv'
  <2>1. UNCHANGED <<head, ring, where>> BY <1>1 DEF Persist, AppendLine, Unlock
  <2>2. Me(t).pc # "off" /\ \A o \in Threads \ {t} : Me(o)' = Me(o)
    <3>1. CASE Persist(t)
      BY <1>0, <3>1, EndsIs, GoesIs DEF Persist, At
    <3>2. CASE AppendLine(t) BY <1>0, <3>2, AppendIs DEF Locked
    <3>3. CASE Unlock(t)
      BY <1>0, <3>3, EndsIs DEF Unlock, At
    <3> QED BY <1>1, <3>1, <3>2, <3>3
  <2>3. Me(t)'.pc \notin Copying \cup Reading
    <3>1. CASE Persist(t)
      <4>1. Me(t)'.pc \in {"early", "printed", "ensure"} BY <1>0, <3>1, EndsIs, GoesIs DEF Persist
      <4> QED BY <4>1 DEF Copying, Reading
    <3>2. CASE AppendLine(t)
      <4>1. Me(t)'.pc \in Locked BY <1>0, <3>2, AppendIs
      <4> QED BY <4>1, StopsIn
    <3>3. CASE Unlock(t)
      <4>1. Me(t)'.pc \in {"replay", "early", "idle", "printed"} BY <1>0, <3>3, EndsIs, RestIs DEF Unlock
      <4> QED BY <4>1 DEF Copying, Reading
    <3> QED BY <1>1, <3>1, <3>2, <3>3
  <2>4. CASE t = "main"
    <3>1. panic' = panic /\ main'.pc \notin Copying \cup Reading BY <2>2, <2>3, <2>4, MeIs
    <3> QED BY <1>0, <2>1, <3>1, QuietRing
  <2>5. CASE t = "panic"
    <3>1. main' = main /\ panic.pc # "off" /\ panic'.pc \notin Copying BY <2>2, <2>3, <2>5, MeIs
    <3> QED BY <1>0, <2>1, <3>1, QuietRing
  <2> QED BY <2>4, <2>5 DEF Threads
<1>2. ASSUME NEW t \in Threads, Works(t) PROVE RingInv' BY <1>1, <1>2, RecordRing DEF Works
<1>3. CASE Draw \/ Start \/ Begin \/ Replay
  <2>1. /\ UNCHANGED <<head, ring, panic, where>>
        /\ \/ main'.pc \in {"early", "begin", "ensure", "idle"}
           \/ main'.pc = "check" /\ main'.asked \in 1 .. head
    BY <1>0, <1>3, DriveIs
  <2>2. main'.pc \in {"early", "begin", "ensure", "idle"} => main'.pc \notin Copying \cup Reading
    BY DEF Copying, Reading
  <2> QED BY <1>0, <2>1, <2>2, QuietRing
<1>4. CASE UNCHANGED vars BY <1>0, <1>4, QuietRing DEF vars
<1> QED BY <1>0, <1>2, <1>3, <1>4, LogRing, PanicRing, ReadRing, PowerOffRing DEF Next, Threads

LEMMA RingInit == ASSUME Init PROVE RingInv
<1>1. /\ head = 0 /\ where = "none" /\ main.pc = "early" /\ panic.pc = "off"
      /\ ring = [s \in Places |-> Entry] /\ Entry.sequence = 0
  BY DEF Init, Reset, Thread, Entry, Places
<1>2. ~Copies("main") /\ ~Copies("panic") /\ main.pc \notin Reading
  BY <1>1, MeIs DEF Copies, Copying, Reading
<1>3. Numbered /\ Alone /\ Apart BY <1>1, <1>2 DEF Numbered, Alone, Apart, Threads
<1>4. \A t \in Threads : Stage(t) BY <1>1, MeIs DEF Stage, Threads
<1>5. (\A s \in Places : Whole(ring[s])) /\ Reader /\ ReadWhole BY <1>1 DEF Whole, Reader, ReadWhole
<1> QED BY <1>3, <1>4, <1>5, LogTypeInit DEF RingInv

\* A read of kernel_log_read that succeeds returns one whole line, and the one asked for,
\* whatever is logged over the entry meanwhile, if no processor logs a ring's worth of
\* lines while another fills one entry and the ring has more than one entry.
THEOREM ReadsWhole == ~Laps /\ Capacity > 1 => (Spec => []ReadWhole)
<1> SUFFICES ASSUME ~Laps, Capacity > 1 PROVE Spec => []ReadWhole OBVIOUS
<1>1. Init => RingInv BY RingInit
<1>2. RingInv /\ [Next]_vars => RingInv' BY RingStep
<1>3. RingInv => ReadWhole BY DEF RingInv
<1> QED BY <1>1, <1>2, <1>3, PTL DEF Spec

-----------------------------------------------------------------------------
(***************************************************************************)
(* The file.  Whatever it holds, and whatever a rotation keeps aside, is   *)
(* whole lines; those of the main loop are in order, and those of this     *)
(* boot below the number of the next one that the main loop will write.    *)
(***************************************************************************)
Lined(u) ==
  \A i \in 1 .. Len(u) :
    /\ u[i].k \in 1 .. u[i].of
    /\ u[i].k = 1 \/ (i > 1 /\ Follows(u[i - 1], u[i]))
    /\ Newline(u[i]) \/ (i < Len(u) /\ Follows(u[i], u[i + 1]))

Ordered(u) ==
  \A i, j \in 1 .. Len(u) : i < j /\ u[i].by = "main" /\ u[j].by = "main" => Earlier(u[i], u[j])

Below(u, b, m) ==
  \A i \in 1 .. Len(u) : u[i].boot <= b /\ (u[i].boot = b /\ u[i].by = "main" => u[i].n < m)

\* The units u, in boot b, with no line of the main loop from number m on.
Book(u, b, m) == Lined(u) /\ Ordered(u) /\ Below(u, b, m)

\* The main loop has a line that it has not written yet.
Pending == Copying \cup {"persist"} \cup (Locked \ {"unlock"})

\* No line of this boot from here on has been written by the main loop.
Mark ==
  IF ~ready THEN 0
  ELSE IF main.pc \in Pending THEN main.line.n
  ELSE IF ~Replaying THEN head + 1
  ELSE IF main.pc \in Reading THEN main.asked ELSE First + main.next

Opened ==
  /\ main.pc \in {"early", "begin"} => ~ready
  /\ \A t \in Threads : Me(t).pc \in Locked => ready
  /\ main.pc \in {"replay"} \cup Reading /\ Replaying => ready

\* The pages of a replay, whose first may move on while it goes on.
Pages ==
  /\ main.pc \in Pending => main.line.n <= head
  /\ Replaying /\ ready =>
       /\ First + main.next <= head + 1
       /\ main.pc \in Reading => main.asked < First + main.next
       /\ main.pc \in Pending => main.line.n < First + main.next

Signed == panic.line.by # "main"

\* In each of the file's homes, and in what a rotation keeps aside.
Books(m) ==
  /\ \A h \in Homes : Book(file[h].units, boot, m)
  /\ \A t \in Threads : Book(Me(t).retained, boot, m)

KeptInv ==
  /\ RingInv /\ RoomInv /\ Opened /\ Pages /\ Signed
  /\ damaged \/ Books(Mark)

LEMMA CatIs ==
  ASSUME NEW u \in Seq(UnitType), NEW v \in Seq(UnitType), NEW w, w = u \o v
  PROVE  /\ w \in Seq(UnitType) /\ Len(u) \in Nat /\ Len(v) \in Nat /\ Len(w) = Len(u) + Len(v)
         /\ \A i \in 1 .. Len(u) : w[i] = u[i]
         /\ \A i \in Len(u) + 1 .. Len(w) : w[i] = v[i - Len(u)]
         /\ \A i \in 1 .. Len(v) : w[Len(u) + i] = v[i]
<1>1. /\ w \in Seq(UnitType) /\ Len(w) = Len(u) + Len(v)
      /\ \A i \in 1 .. Len(w) : w[i] = IF i <= Len(u) THEN u[i] ELSE v[i - Len(u)]
  BY ConcatProperties
<1>2. Len(u) \in Nat /\ Len(v) \in Nat OBVIOUS
<1>3. ASSUME NEW i \in 1 .. Len(v) PROVE w[Len(u) + i] = v[i]
  <2>1. Len(u) + i \in 1 .. Len(w) /\ ~(Len(u) + i <= Len(u)) /\ (Len(u) + i) - Len(u) = i BY <1>1, <1>2
  <2> QED BY <1>1, <2>1
<1> QED BY <1>1, <1>2, <1>3

LEMMA LinedCat ==
  ASSUME NEW u \in Seq(UnitType), NEW v \in Seq(UnitType), Lined(u), Lined(v)
  PROVE  Lined(u \o v)
<1> DEFINE w == u \o v
<1>1. /\ w \in Seq(UnitType) /\ Len(u) \in Nat /\ Len(v) \in Nat /\ Len(w) = Len(u) + Len(v)
      /\ \A i \in 1 .. Len(u) : w[i] = u[i]
      /\ \A i \in Len(u) + 1 .. Len(w) : w[i] = v[i - Len(u)]
  BY CatIs
<1> HIDE DEF w
<1>2. ASSUME NEW i \in 1 .. Len(w)
      PROVE  /\ w[i].k \in 1 .. w[i].of
             /\ w[i].k = 1 \/ (i > 1 /\ Follows(w[i - 1], w[i]))
             /\ Newline(w[i]) \/ (i < Len(w) /\ Follows(w[i], w[i + 1]))
  <2>1. CASE i <= Len(u)
    <3>1. i \in 1 .. Len(u) BY <1>1, <2>1
    <3>2. w[i] = u[i] /\ (i > 1 => w[i - 1] = u[i - 1]) /\ (i < Len(u) => w[i + 1] = u[i + 1] /\ i < Len(w))
      <4>1. i > 1 => i - 1 \in 1 .. Len(u) BY <1>1, <3>1
      <4>2. i < Len(u) => i + 1 \in 1 .. Len(u) /\ i < Len(w) BY <1>1, <3>1
      <4> QED BY <1>1, <3>1, <4>1, <4>2
    <3>3. /\ u[i].k \in 1 .. u[i].of
          /\ u[i].k = 1 \/ (i > 1 /\ Follows(u[i - 1], u[i]))
          /\ Newline(u[i]) \/ (i < Len(u) /\ Follows(u[i], u[i + 1]))
      BY <3>1 DEF Lined
    <3> QED BY <3>2, <3>3
  <2>2. CASE i > Len(u)
    <3> DEFINE j == i - Len(u)
    <3>1. j \in 1 .. Len(v) /\ w[i] = v[j] BY <1>1, <2>2
    <3>2. j > 1 => i > 1 /\ w[i - 1] = v[j - 1]
      <4>1. j > 1 => i - 1 \in Len(u) + 1 .. Len(w) /\ (i - 1) - Len(u) = j - 1 BY <1>1, <2>2
      <4> QED BY <1>1, <2>2, <4>1
    <3>3. j < Len(v) => i < Len(w) /\ w[i + 1] = v[j + 1]
      <4>1. j < Len(v) => i + 1 \in Len(u) + 1 .. Len(w) /\ (i + 1) - Len(u) = j + 1 BY <1>1, <2>2
      <4> QED BY <1>1, <2>2, <4>1
    <3> HIDE DEF j
    <3>4. /\ v[j].k \in 1 .. v[j].of
          /\ v[j].k = 1 \/ (j > 1 /\ Follows(v[j - 1], v[j]))
          /\ Newline(v[j]) \/ (j < Len(v) /\ Follows(v[j], v[j + 1]))
      BY <3>1 DEF Lined
    <3> QED BY <3>1, <3>2, <3>3, <3>4
  <2> QED BY <1>1, <2>1, <2>2
<1> QED BY <1>2 DEF Lined, w

\* What is left of whole lines after the end of one.
LEMMA SuffixIs ==
  ASSUME NEW u \in Seq(UnitType), NEW i \in 1 .. Len(u), NEW w, w = SubSeq(u, i + 1, Len(u))
  PROVE  /\ w \in Seq(UnitType) /\ Len(u) \in Nat /\ Len(w) = Len(u) - i
         /\ \A j \in 1 .. Len(w) : w[j] = u[i + j] /\ i + j \in 1 .. Len(u)
         /\ \A j \in i + 1 .. Len(u) : j - i \in 1 .. Len(w) /\ w[j - i] = u[j]
<1>1. i \in Nat /\ i > 0 /\ i <= Len(u) /\ Len(u) \in Nat OBVIOUS
<1>2. w \in Seq(UnitType) /\ Len(w) = Len(u) - i
  BY <1>1, SubSeqProperties
<1>3. ASSUME NEW j \in 1 .. Len(w) PROVE w[j] = u[i + j] /\ i + j \in 1 .. Len(u)
  <2>1. j \in 1 .. Len(u) - (i + 1) + 1 /\ (i + 1) + j - 1 = i + j BY <1>1, <1>2
  <2>2. w[j] = u[(i + 1) + j - 1] BY <1>1, <2>1, SubSeqProperties
  <2> QED BY <1>1, <1>2, <2>1, <2>2
<1>4. ASSUME NEW j \in i + 1 .. Len(u) PROVE j - i \in 1 .. Len(w) /\ w[j - i] = u[j]
  <2>1. j - i \in 1 .. Len(w) /\ i + (j - i) = j BY <1>1, <1>2
  <2> QED BY <1>3, <2>1
<1> QED BY <1>1, <1>2, <1>3, <1>4

LEMMA LinedSuffix ==
  ASSUME NEW u \in Seq(UnitType), Lined(u), NEW i \in 1 .. Len(u), Newline(u[i])
  PROVE  Lined(SubSeq(u, i + 1, Len(u)))
<1> DEFINE w == SubSeq(u, i + 1, Len(u))
<1>1. /\ w \in Seq(UnitType) /\ Len(u) \in Nat /\ Len(w) = Len(u) - i
      /\ \A j \in 1 .. Len(w) : w[j] = u[i + j] /\ i + j \in 1 .. Len(u)
  BY SuffixIs
<1> HIDE DEF w
<1>2. ASSUME NEW j \in 1 .. Len(w)
      PROVE  /\ w[j].k \in 1 .. w[j].of
             /\ w[j].k = 1 \/ (j > 1 /\ Follows(w[j - 1], w[j]))
             /\ Newline(w[j]) \/ (j < Len(w) /\ Follows(w[j], w[j + 1]))
  <2> DEFINE q == i + j
  <2>1. q \in 1 .. Len(u) /\ w[j] = u[q] /\ q > 1 BY <1>1
  <2>2. /\ u[q].k \in 1 .. u[q].of
        /\ u[q].k = 1 \/ (q > 1 /\ Follows(u[q - 1], u[q]))
        /\ Newline(u[q]) \/ (q < Len(u) /\ Follows(u[q], u[q + 1]))
    BY <2>1 DEF Lined
  <2>3. j = 1 => u[q].k = 1
    <3>1. SUFFICES ASSUME j = 1, Follows(u[q - 1], u[q]) PROVE FALSE BY <2>2
    <3>2. q - 1 = i BY <3>1
    <3>3. u[i] \in UnitType OBVIOUS
    <3>4. u[q] = [u[i] EXCEPT !.k = @ + 1] BY <3>1, <3>2 DEF Follows
    <3>5. u[q].k = u[i].k + 1 /\ u[q].of = u[i].of /\ u[i].k = u[i].of /\ u[i].of \in Nat
      BY <3>3, <3>4 DEF UnitType, Newline
    <3> QED BY <2>2, <3>5
  <2>4. j > 1 => w[j - 1] = u[q - 1]
    <3>1. j > 1 => j - 1 \in 1 .. Len(w) /\ i + (j - 1) = q - 1 BY <1>1
    <3> QED BY <1>1, <3>1
  <2>5. q < Len(u) => j < Len(w) /\ w[j + 1] = u[q + 1]
    <3>1. q < Len(u) => j + 1 \in 1 .. Len(w) /\ i + (j + 1) = q + 1 BY <1>1
    <3> QED BY <1>1, <3>1
  <2> HIDE DEF q
  <2>6. j = 1 \/ j > 1 OBVIOUS
  <2> QED BY <2>1, <2>2, <2>3, <2>4, <2>5, <2>6
<1> QED BY <1>2 DEF Lined, w

\* The units of a line's text, in this boot: its own number and author, counted from 1.
LEMMA TextIs ==
  ASSUME boot \in Nat, NEW line \in Line, NEW v, v = Text(line)
  PROVE  /\ v \in Seq(UnitType) /\ Lined(v)
         /\ \A i \in 1 .. Len(v) : v[i].boot = boot /\ v[i].n = line.n /\ v[i].by = line.by
         /\ line.by = "main" => Len(v) = line.len /\ \A i \in 1 .. Len(v) : v[i].k = i
<1>1. line.len \in Nat /\ line.n \in Nat BY DEF Line, Lines
<1>2. v \in Seq(UnitType) BY TextIn
<1>3. CASE line = Session
  <2> DEFINE one == Unit(line, 1)
  <2>1. v = <<one, one>> BY <1>3 DEF Text
  <2>2. one.boot = boot /\ one.n = line.n /\ one.by = line.by /\ one.k = 1 /\ one.of = 1
    BY <1>3 DEF Unit, Session
  <2>3. line.by # "main" BY <1>3 DEF Session
  <2> HIDE DEF one
  <2>4. Len(v) = 2 /\ v[1] = one /\ v[2] = one /\ \A i \in 1 .. 2 : i = 1 \/ i = 2 BY <2>1
  <2>5. \A i \in 1 .. Len(v) : v[i] = one BY <2>4
  <2>6. Lined(v) BY <2>2, <2>5 DEF Lined, Newline
  <2> QED BY <1>2, <2>2, <2>3, <2>5, <2>6
<1>4. CASE line # Session
  <2>1. v = [k \in 1 .. line.len |-> Unit(line, k)] BY <1>4 DEF Text
  <2>2. Len(v) = line.len BY <1>1, <2>1
  <2>3. ASSUME NEW i \in 1 .. Len(v)
        PROVE  /\ v[i] = Unit(line, i) /\ v[i].boot = boot /\ v[i].n = line.n /\ v[i].by = line.by
               /\ v[i].k = i /\ v[i].of = line.len
    <3>1. v[i] = Unit(line, i) BY <2>1, <2>2
    <3> QED BY <3>1 DEF Unit
  <2>4. ASSUME NEW i \in 1 .. Len(v), i > 1 PROVE Follows(v[i - 1], v[i])
    <3>1. i - 1 \in 1 .. Len(v) BY <2>4, <1>1, <2>2
    <3>2. v[i - 1] = Unit(line, i - 1) /\ v[i] = Unit(line, i) BY <2>3, <3>1
    <3>3. (i - 1) + 1 = i OBVIOUS
    <3> QED BY <3>2, <3>3 DEF Follows, Unit
  <2>5. ASSUME NEW i \in 1 .. Len(v), i < Len(v) PROVE Follows(v[i], v[i + 1])
    <3>1. i + 1 \in 1 .. Len(v) /\ i + 1 > 1 /\ (i + 1) - 1 = i BY <2>5, <1>1, <2>2
    <3> QED BY <2>4, <3>1
  <2>6. Lined(v)
    <3>1. ASSUME NEW i \in 1 .. Len(v)
          PROVE  /\ v[i].k \in 1 .. v[i].of
                 /\ v[i].k = 1 \/ (i > 1 /\ Follows(v[i - 1], v[i]))
                 /\ Newline(v[i]) \/ (i < Len(v) /\ Follows(v[i], v[i + 1]))
      <4>1. i = 1 \/ i > 1 OBVIOUS
      <4>2. i = Len(v) \/ i < Len(v) BY <1>1, <2>2
      <4>3. v[i].k = i /\ v[i].of = Len(v) BY <2>2, <2>3
      <4>4. i = Len(v) => Newline(v[i]) BY <4>3 DEF Newline
      <4> QED BY <2>4, <2>5, <4>1, <4>2, <4>3, <4>4
    <3> QED BY <3>1 DEF Lined
  <2> QED BY <1>2, <2>2, <2>3, <2>6
<1> QED BY <1>3, <1>4

LEMMA EmptyBook ==
  ASSUME NEW b, NEW m PROVE Book(<<>>, b, m)
BY DEF Book, Lined, Ordered, Below

LEMMA BookOnward ==
  ASSUME NEW u \in Seq(UnitType), NEW b \in Nat, NEW m \in Int, NEW n \in Int, m <= n, Book(u, b, m)
  PROVE  Book(u, b, n)
<1>1. Below(u, b, m) BY DEF Book
<1>2. \A i \in 1 .. Len(u) : u[i] \in UnitType OBVIOUS
<1>3. \A i \in 1 .. Len(u) : u[i].n \in Nat BY <1>2 DEF UnitType
<1>4. Below(u, b, n) BY <1>1, <1>3 DEF Below
<1> QED BY <1>4 DEF Book

LEMMA BookSuffix ==
  ASSUME NEW u \in Seq(UnitType), NEW b, NEW m, Book(u, b, m), NEW i \in 1 .. Len(u), Newline(u[i])
  PROVE  Book(SubSeq(u, i + 1, Len(u)), b, m)
<1> DEFINE w == SubSeq(u, i + 1, Len(u))
<1>1. /\ w \in Seq(UnitType) /\ Len(u) \in Nat /\ Len(w) = Len(u) - i
      /\ \A j \in 1 .. Len(w) : w[j] = u[i + j] /\ i + j \in 1 .. Len(u)
  BY SuffixIs
<1>2. Lined(w) BY LinedSuffix DEF Book
<1> HIDE DEF w
<1>3. Ordered(w)
  <2>1. \A j, k \in 1 .. Len(w) : j < k => i + j < i + k BY <1>1
  <2> QED BY <1>1, <2>1 DEF Book, Ordered
<1>4. Below(w, b, m) BY <1>1 DEF Book, Below
<1> QED BY <1>2, <1>3, <1>4 DEF Book, w

LEMMA BookRetained ==
  ASSUME NEW u \in Seq(UnitType), NEW b, NEW m, Book(u, b, m), NEW keep \in Nat
  PROVE  Book(Retained(u, keep), b, m)
BY RetainedIs, BookSuffix, EmptyBook

\* A line of the main loop that is written next may be the first that was not.
LEMMA BookAppend ==
  ASSUME boot \in Nat, NEW u \in Seq(UnitType), NEW line \in Line, NEW m \in Int, NEW n \in Int,
         Book(u, boot, m), m <= n, line.by = "main" => m <= line.n /\ line.n < n
  PROVE  Book(u \o Text(line), boot, n)
<1> DEFINE v == Text(line)
           w == u \o v
<1>1. /\ v \in Seq(UnitType) /\ Lined(v)
      /\ \A i \in 1 .. Len(v) : v[i].boot = boot /\ v[i].n = line.n /\ v[i].by = line.by
      /\ line.by = "main" => \A i \in 1 .. Len(v) : v[i].k = i
  BY TextIs
<1> HIDE DEF v
<1>2. /\ w \in Seq(UnitType) /\ Len(u) \in Nat /\ Len(v) \in Nat /\ Len(w) = Len(u) + Len(v)
      /\ \A i \in 1 .. Len(u) : w[i] = u[i]
      /\ \A i \in Len(u) + 1 .. Len(w) : w[i] = v[i - Len(u)]
  BY <1>1, CatIs
<1>3. Lined(w) BY <1>1, LinedCat DEF Book
<1> HIDE DEF w
<1>4. \A i \in Len(u) + 1 .. Len(w) : i - Len(u) \in 1 .. Len(v) BY <1>2
<1>5. \A i \in 1 .. Len(w) : i \in 1 .. Len(u) \/ i \in Len(u) + 1 .. Len(w) BY <1>2
<1>6. line.n \in Nat BY DEF Line, Lines
<1>7. \A i \in 1 .. Len(u) : u[i].n \in Nat /\ u[i].boot \in Nat
  <2>1. \A i \in 1 .. Len(u) : u[i] \in UnitType OBVIOUS
  <2> QED BY <2>1 DEF UnitType
<1>8. \A i \in 1 .. Len(u) : u[i].boot <= boot /\ (u[i].boot = boot /\ u[i].by = "main" => u[i].n < m)
  BY DEF Book, Below
<1>9. ASSUME NEW i \in 1 .. Len(w)
      PROVE  w[i].boot <= boot /\ (w[i].boot = boot /\ w[i].by = "main" => w[i].n < n)
  <2>1. CASE i \in 1 .. Len(u) BY <1>2, <1>7, <1>8, <2>1
  <2>2. CASE i \in Len(u) + 1 .. Len(w)
    <3>1. w[i].boot = boot /\ w[i].n = line.n /\ w[i].by = line.by BY <1>1, <1>2, <1>4, <2>2
    <3> QED BY <3>1
  <2> QED BY <1>5, <2>1, <2>2
<1>10. ASSUME NEW i \in 1 .. Len(w), NEW j \in 1 .. Len(w), i < j, w[i].by = "main", w[j].by = "main"
       PROVE  Earlier(w[i], w[j])
  <2>1. CASE j \in 1 .. Len(u)
    <3>1. i \in 1 .. Len(u) BY <1>10, <2>1, <1>2
    <3> QED BY <1>2, <1>10, <2>1, <3>1 DEF Book, Ordered
  <2>2. CASE i \in 1 .. Len(u) /\ j \in Len(u) + 1 .. Len(w)
    <3>1. w[j].boot = boot /\ w[j].n = line.n /\ line.by = "main" BY <1>1, <1>2, <1>4, <1>10, <2>2
    <3>2. w[i] = u[i] /\ w[i].n \in Nat /\ w[i].boot \in Nat BY <1>2, <1>7, <2>2
    <3>3. w[i].boot <= boot /\ (w[i].boot = boot => w[i].n < m) BY <1>8, <1>10, <2>2, <3>2
    <3> QED BY <1>6, <3>1, <3>2, <3>3 DEF Earlier
  <2>3. CASE i \in Len(u) + 1 .. Len(w) /\ j \in Len(u) + 1 .. Len(w)
    <3> DEFINE a == i - Len(u)
               b == j - Len(u)
    <3>1. /\ a \in 1 .. Len(v) /\ b \in 1 .. Len(v)
          /\ w[i] = v[a] /\ w[j] = v[b]
      BY <1>2, <1>4, <2>3
    <3>2. a < b BY <1>2, <1>10, <2>3
    <3> HIDE DEF a, b
    <3>3. /\ w[i].boot = boot /\ w[i].n = line.n /\ w[i].by = line.by
          /\ w[j].boot = boot /\ w[j].n = line.n
      BY <1>1, <3>1
    <3>4. w[i].k = a /\ w[j].k = b BY <1>1, <1>10, <3>1, <3>3
    <3> QED BY <3>2, <3>3, <3>4 DEF Earlier
  <2> QED BY <1>2, <1>5, <1>10, <2>1, <2>2, <2>3
<1>11. Ordered(w) BY <1>10 DEF Ordered
<1>12. Below(w, boot, n) BY <1>9 DEF Below
<1> QED BY <1>3, <1>11, <1>12 DEF Book, w, v

LEMMA PendingIs ==
  /\ Pending \cap Reading = {} /\ Pending \cap {"early", "idle", "begin", "replay", "unlock"} = {}
  /\ Copying \cup {"persist"} \subseteq Pending /\ Copying \cap (Locked \cup Reading) = {}
  /\ \A pc \in Locked : pc = "unlock" \/ pc \in Pending
  /\ "unlock" \in Locked /\ "persist" \notin Locked \cup Reading
  /\ \A pc \in Pending : pc \in Copying \/ pc = "persist" \/ pc \in Locked
  /\ Locked \cap Reading = {}
  /\ {"early", "idle", "begin", "replay"} \cap (Locked \cup Reading \cup Copying \cup {"persist"}) = {}
BY DEF Pending, Copying, Locked, Reading

LEMMA MarkIn == LogTypeOK => Mark \in Nat /\ First \in Nat /\ First <= head + 1 /\ head \in Nat
<1> SUFFICES ASSUME LogTypeOK PROVE Mark \in Nat /\ First \in Nat /\ First <= head + 1 /\ head \in Nat
  OBVIOUS
<1>1. First \in Nat /\ First <= head + 1 /\ head \in Nat BY CountIs DEF LogTypeOK
<1>2. main.line.n \in Nat /\ main.asked \in Nat /\ main.next \in Nat
  BY DEF LogTypeOK, Local, Line, Lines
<1> QED BY <1>1, <1>2 DEF Mark

\* A step after which the books still say as much, or more.
Ahead == Opened' /\ Pages' /\ Signed' /\ Mark <= Mark'

LEMMA PanicMoves ==
  ASSUME KeptInv, main' = main, ready' = ready, head' = head, panic'.line.by # "main",
         panic'.pc \in Locked => ready
  PROVE  Ahead /\ Mark' = Mark
<1>1. LogTypeOK BY DEF KeptInv, RingInv
<1>2. (Replaying' <=> Replaying) /\ First' = First BY DEF Replaying, First
<1>3. Mark' = Mark BY <1>2 DEF Mark
<1>4. Opened' BY <1>2, MeIs DEF KeptInv, Opened, Threads
<1>5. Pages' BY <1>2 DEF KeptInv, Pages
<1> QED BY <1>1, <1>3, <1>4, <1>5, MarkIn DEF Ahead, Signed

LEMMA LogAhead == ASSUME KeptInv, NEW len \in Lens, Log(len) PROVE Ahead /\ Mark' = Mark
<1> DEFINE line == [n |-> head + 1, len |-> len, by |-> "main"]
<1>1. LogTypeOK /\ main \in Local("main") BY DEF KeptInv, RingInv, LogTypeOK
<1>2. main' = [main EXCEPT !.pc = "clear", !.line = line] /\ head' = head + 1
      /\ UNCHANGED <<panic, ready>> /\ main.pc = Rest
  BY MeIs DEF Log, At
<1>3. line.n = head + 1 OBVIOUS
<1> HIDE DEF line
<1>4. main'.pc = "clear" /\ main'.line.n = head + 1 /\ main'.count = main.count
  BY <1>1, <1>2, <1>3 DEF Local
<1>5. main.count = 0 BY <1>2, RestIs DEF KeptInv, RoomInv, Held
<1>6. ~Replaying /\ ~Replaying' BY <1>4, <1>5 DEF Replaying
<1>7. "clear" \in Pending /\ "clear" \notin Locked \cup Reading \cup {"early", "begin", "replay"}
  BY PendingIs DEF Copying
<1>8. Mark' = Mark BY <1>2, <1>4, <1>6, <1>7, RestIs, PendingIs DEF Mark
<1>9. Opened' BY <1>2, <1>4, <1>7, MeIs DEF KeptInv, Opened, Threads
<1>10. Pages' BY <1>1, <1>2, <1>4, <1>6, MarkIn DEF Pages
<1>11. Signed' BY <1>2 DEF KeptInv, Signed
<1> QED BY <1>1, <1>8, <1>9, <1>10, <1>11, MarkIn DEF Ahead

LEMMA PanicAhead == ASSUME KeptInv, NEW cpu \in Panics, Panic(cpu) PROVE Ahead
<1>1. LogTypeOK BY DEF KeptInv, RingInv
<1>2. panic'.pc = "clear" /\ panic'.line.by = "panic" /\ main' = main /\ ready' = ready /\ head' = head + 1
  BY DEF Panic, Thread
<1>3. First <= First' /\ First' <= First + 1 /\ First' \in Nat
  BY <1>1, <1>2, MarkIn, Sizes DEF First
<1>4. (Replaying' <=> Replaying) /\ First \in Nat /\ head \in Nat
  BY <1>1, <1>2, MarkIn DEF Replaying
<1>5. main.line.n \in Nat /\ main.asked \in Nat /\ main.next \in Nat
  BY <1>1 DEF LogTypeOK, Local, Line, Lines
<1>6. Mark <= Mark' BY <1>2, <1>3, <1>4, <1>5 DEF Mark
<1>7. "clear" \notin Locked BY PendingIs DEF Copying
<1>8. Opened' BY <1>2, <1>4, <1>7, MeIs DEF KeptInv, Opened, Threads
<1>9. Pages' BY <1>2, <1>3, <1>4, <1>5 DEF KeptInv, Pages
<1> QED BY <1>2, <1>6, <1>8, <1>9 DEF Ahead, Signed

\* A step of the main loop with its line, which it goes on to have.
LEMMA LineAhead ==
  ASSUME KeptInv, head' = head, ready' = ready, panic' = panic,
         main.pc \in Pending, main'.pc \in Pending, main'.line = main.line, main'.next = main.next,
         main'.count = main.count, main'.pc \in Locked => ready
  PROVE  Ahead /\ Mark' = Mark
<1>1. LogTypeOK BY DEF KeptInv, RingInv
<1>2. (Replaying' <=> Replaying) /\ First' = First BY DEF Replaying, First
<1>3. Mark' = Mark BY DEF Mark
<1>4. Opened' BY PendingIs, MeIs DEF KeptInv, Opened, Threads
<1>5. Pages' BY <1>2, PendingIs DEF KeptInv, Pages
<1>6. Signed' BY DEF KeptInv, Signed
<1> QED BY <1>1, <1>3, <1>4, <1>5, <1>6, MarkIn DEF Ahead

\* The main loop is done with its line, or gives it up.
LEMMA DoneAhead ==
  ASSUME KeptInv, head' = head, ready' = ready, panic' = panic,
         main.pc \in Locked, main'.pc = "unlock", main'.next = main.next, main'.count = main.count
  PROVE  Ahead /\ (main.pc # "unlock" => main.line.n < Mark') /\ Mark' = IF Replaying THEN First + main.next ELSE head + 1
<1>1. LogTypeOK /\ ready BY MeIs DEF KeptInv, RingInv, Opened, Threads
<1>2. (Replaying' <=> Replaying) /\ First' = First BY DEF Replaying, First
<1>3. Mark' = IF Replaying THEN First + main.next ELSE head + 1
  BY <1>1, <1>2, PendingIs DEF Mark
<1>4. main.line.n \in Nat /\ main.next \in Nat /\ First \in Nat /\ head \in Nat
  BY <1>1, MarkIn DEF LogTypeOK, Local, Line, Lines
<1>5. main.pc # "unlock" => main.line.n < Mark' BY <1>1, <1>3, <1>4, PendingIs DEF KeptInv, Pages
<1>6. Mark <= Mark' BY <1>1, <1>3, <1>4, <1>5, PendingIs DEF Mark
<1>7. Opened' BY <1>1, <1>2, PendingIs, MeIs DEF KeptInv, Opened, Threads
<1>8. Pages' BY <1>2, PendingIs DEF KeptInv, Pages
<1>9. Signed' BY DEF KeptInv, Signed
<1> QED BY <1>3, <1>5, <1>6, <1>7, <1>8, <1>9 DEF Ahead

LEMMA MainAhead ==
  ASSUME KeptInv, NEW t \in Threads, t = "main", Record(t) \/ Persist(t)
  PROVE  Ahead /\ Mark' = Mark
<1>1. LogTypeOK BY DEF KeptInv, RingInv
<1>2. main \in Local("main") BY <1>1 DEF LogTypeOK
<1>3. CASE Record(t)
  <2>1. /\ UNCHANGED <<head, ready>> /\ panic' = panic
        /\ main.pc \in Copying /\ main'.pc \in Copying \cup {"persist"}
        /\ \E to : main' = [main EXCEPT !.pc = to]
    BY <1>1, <1>3, RecordIs, MeIs DEF Copying
  <2>2. main'.line = main.line /\ main'.next = main.next /\ main'.count = main.count
    BY <1>2, <2>1 DEF Local
  <2> QED BY <2>1, <2>2, LineAhead, PendingIs
<1>4. CASE Persist(t) /\ Goes(t, "ensure")
  <2>1. /\ UNCHANGED <<head, ready>> /\ panic' = panic /\ main.pc = "persist" /\ main'.pc = "ensure"
        /\ main'.line = main.line /\ main'.next = main.next /\ main'.count = main.count
    BY <1>1, <1>4, GoesIs, MeIs DEF Persist, At
  <2>2. ready
    <3>1. CASE ready BY <3>1
    <3>2. CASE ~ready
      <4>1. Ends(t, "early") BY <1>4, <3>2 DEF Persist
      <4>2. main'.pc = "early" BY <1>1, <4>1, EndsIs, MeIs
      <4> QED BY <2>1, <4>2
    <3> QED BY <3>1, <3>2
  <2>3. "ensure" \in Pending BY DEF Pending, Locked
  <2> QED BY <2>1, <2>2, <2>3, LineAhead, PendingIs
<1>5. CASE Persist(t) /\ ~ready /\ Ends(t, "early")
  <2>1. /\ UNCHANGED <<head, ready>> /\ panic' = panic /\ main.pc = "persist" /\ main'.pc = "early"
        /\ main'.count = main.count /\ main'.next = main.next
    BY <1>1, <1>5, EndsIs, MeIs DEF Persist, At
  <2>2. Mark = 0 /\ Mark' = 0 BY <1>5, <2>1 DEF Mark
  <2>3. main.count = 0 BY <2>1 DEF KeptInv, RoomInv, Held
  <2>4. Opened' BY <1>5, <2>1, <2>3, MeIs, PendingIs DEF KeptInv, Opened, Threads
  <2>5. Pages' BY <1>5, <2>1, PendingIs DEF Pages
  <2> QED BY <2>1, <2>2, <2>4, <2>5 DEF Ahead, KeptInv, Signed
<1> QED BY <1>3, <1>4, <1>5 DEF Persist

LEMMA UnlockAhead ==
  ASSUME KeptInv, NEW t \in Threads, t = "main", Unlock(t)
  PROVE  Ahead /\ Mark' = Mark
<1>1. LogTypeOK /\ main.pc = "unlock" /\ ready
  <2>1. main.pc = "unlock" BY MeIs DEF Unlock, At
  <2> QED BY <2>1, MeIs, PendingIs DEF KeptInv, RingInv, Opened, Threads
<1>2. /\ UNCHANGED <<head, ready>> /\ panic' = panic /\ main'.count = main.count /\ main'.next = main.next
      /\ main'.pc = IF Replaying THEN "replay" ELSE Rest
  <2>1. CASE Replaying BY <1>1, <2>1, EndsIs, MeIs DEF Unlock
  <2>2. CASE ~Replaying BY <1>1, <2>2, EndsIs, MeIs DEF Unlock
  <2> QED BY <2>1, <2>2
<1>3. (Replaying' <=> Replaying) /\ First' = First /\ Rest = "idle"
  BY <1>1, <1>2 DEF Replaying, First, Rest
<1>4. Mark' = Mark BY <1>1, <1>2, <1>3, PendingIs DEF Mark
<1>5. Opened' BY <1>1, <1>2, <1>3, PendingIs, MeIs DEF KeptInv, Opened, Threads
<1>6. Pages' BY <1>1, <1>2, <1>3, PendingIs DEF KeptInv, Pages
<1> QED BY <1>1, <1>2, <1>4, <1>5, <1>6, MarkIn DEF Ahead, KeptInv, Signed

LEMMA ReadAhead ==
  ASSUME KeptInv, Read
  PROVE  Ahead /\ (Mark' = Mark \/ (Replaying /\ Return(NoLine)))
<1> DEFINE back == \E line \in {NoLine, main.a} : Return(line) /\ (line # NoLine => main.pc = "got")
<1>1. LogTypeOK BY DEF KeptInv, RingInv
<1>2. main.asked \in Nat /\ main.next \in Nat /\ First \in Nat /\ head \in Nat
      /\ NoLine \in Line /\ main.a \in Line
  BY <1>1, MarkIn, NoLineIn DEF LogTypeOK, Local
<1>3. /\ UNCHANGED <<head, ready>> /\ panic' = panic /\ main.pc \in Reading
      /\ main'.count = main.count /\ main'.next = main.next
      /\ \/ back
         \/ main'.asked = main.asked /\ main'.pc \in Reading /\ main'.line = main.line
  BY <1>1, ReadIs DEF Reading
<1>4. (Replaying' <=> Replaying) /\ First' = First BY <1>3 DEF Replaying, First
<1>5. Replaying => ready BY <1>3 DEF KeptInv, Opened
<1>6. CASE main'.asked = main.asked /\ main'.pc \in Reading /\ main'.line = main.line
  <2>1. Mark' = Mark BY <1>3, <1>4, <1>6, PendingIs DEF Mark
  <2>2. Opened' BY <1>3, <1>4, <1>5, <1>6, PendingIs, MeIs DEF KeptInv, Opened, Threads
  <2>3. Pages' BY <1>3, <1>4, <1>6, PendingIs DEF KeptInv, Pages
  <2> QED BY <1>1, <1>3, <2>1, <2>2, <2>3, MarkIn DEF Ahead, KeptInv, Signed
<1>7. CASE ~Replaying /\ back
  <2>1. main'.pc = Rest BY <1>1, <1>2, <1>7, ReturnIs
  <2>2. Mark' = Mark BY <1>3, <1>4, <1>7, <2>1, RestIs, PendingIs DEF Mark
  <2>3. main'.pc \in {"early", "begin"} => ~ready BY <2>1 DEF Rest
  <2>4. Opened' BY <1>3, <1>4, <1>7, <2>1, <2>3, RestIs, PendingIs, MeIs DEF KeptInv, Opened, Threads
  <2>5. Pages' BY <1>4, <1>7, <2>1, RestIs, PendingIs DEF Pages
  <2> QED BY <1>1, <1>3, <2>2, <2>4, <2>5, MarkIn DEF Ahead, KeptInv, Signed
<1>8. CASE Replaying /\ Return(NoLine)
  <2>1. main'.pc = "replay" BY <1>1, <1>2, <1>8, ReturnIs
  <2>2. Mark = main.asked /\ Mark' = First + main.next
    BY <1>3, <1>4, <1>5, <1>8, <2>1, PendingIs DEF Mark
  <2>3. Mark <= Mark' BY <1>2, <1>3, <1>5, <1>8, <2>2 DEF KeptInv, Pages
  <2>4. Opened' BY <1>3, <1>5, <1>8, <2>1, PendingIs, MeIs DEF KeptInv, Opened, Threads
  <2>5. Pages' BY <1>3, <1>4, <1>5, <1>8, <2>1, PendingIs DEF KeptInv, Pages
  <2> QED BY <1>3, <1>8, <2>3, <2>4, <2>5 DEF Ahead, KeptInv, Signed
<1>9. CASE Replaying /\ Return(main.a) /\ main.a # NoLine /\ main.pc = "got"
  <2>1. main'.pc = "ensure" /\ main'.line = main.a BY <1>1, <1>2, <1>9, ReturnIs
  <2>2. main.a.n = main.asked BY <1>9 DEF KeptInv, RingInv, ReadWhole
  <2>3. "ensure" \in Pending /\ "ensure" \in Locked \ {"unlock"} BY DEF Pending, Locked
  <2>4. Mark' = Mark BY <1>3, <1>4, <1>5, <1>9, <2>1, <2>2, <2>3, PendingIs DEF Mark
  <2>5. Opened' BY <1>3, <1>5, <1>9, <2>1, MeIs, PendingIs DEF KeptInv, Opened, Threads
  <2>6. main.asked <= head /\ main.asked < First + main.next /\ First + main.next <= head + 1
    BY <1>3, <1>5, <1>9 DEF KeptInv, RingInv, Numbered, Pages
  <2>7. Pages'
    <3>1. main'.pc \notin Reading BY <2>1, <2>3, PendingIs
    <3> QED BY <1>3, <1>4, <2>1, <2>2, <2>6, <3>1 DEF Pages
  <2> QED BY <1>1, <1>3, <2>4, <2>5, <2>7, MarkIn DEF Ahead, KeptInv, Signed
<1> QED BY <1>3, <1>6, <1>7, <1>8, <1>9

LEMMA DriveAhead ==
  ASSUME KeptInv, Draw \/ Start \/ Begin \/ Replay
  PROVE  Ahead /\ (Mark' = Mark \/ (main.pc = "replay" /\ main'.pc = "idle" /\ main.next = main.count))
<1>1. LogTypeOK /\ Signed BY DEF KeptInv, RingInv
<1>2. main.next \in Nat /\ main.count \in Nat /\ First \in Nat /\ head \in Nat /\ Count \in Nat
      /\ First + Count = head + 1
  BY <1>1, MarkIn, CountIs DEF LogTypeOK, Local
<1>3. /\ LogTypeOK' /\ UNCHANGED <<head, panic>>
      /\ \/ /\ main.pc = Rest /\ main'.pc = "check" /\ main'.count = main.count /\ UNCHANGED ready
         \/ /\ main.pc = "early" /\ main'.pc = "early" /\ main'.count = main.count /\ UNCHANGED ready
         \/ main.pc = "early" /\ main'.pc = "begin" /\ UNCHANGED ready
         \/ /\ main.pc = "begin" /\ main'.pc = "ensure" /\ main'.count = main.count
            /\ main'.line = Session /\ main'.next = 0 /\ ready'
         \/ /\ main.pc = "replay" /\ main'.pc = "idle" /\ main'.count = 0
            /\ main.next = main.count /\ UNCHANGED ready
         \/ /\ main.pc = "replay" /\ main'.pc = "check" /\ main'.count = main.count
            /\ main'.asked = First + main.next /\ main'.next = main.next + 1 /\ main.next < Count
            /\ UNCHANGED ready
  BY <1>1, DriveIs
<1>4. First' = First /\ Signed' BY <1>1, <1>3 DEF First, Signed
<1>5. panic.pc \in Locked => ready BY MeIs DEF KeptInv, Opened, Threads
<1>6. main.pc \in {"early", "begin"} => ~ready BY DEF KeptInv, Opened
<1>7. "check" \in Reading /\ "ensure" \in Pending /\ "ensure" \in Locked
  BY DEF Reading, Pending, Locked
<1>8. CASE main.pc = Rest /\ main'.pc = "check" /\ main'.count = main.count /\ UNCHANGED ready
  <2>1. main.count = 0 BY <1>8, RestIs DEF KeptInv, RoomInv, Held
  <2>2. ~Replaying /\ ~Replaying' BY <1>8, <2>1 DEF Replaying
  <2>3. Mark' = Mark BY <1>3, <1>7, <1>8, <2>2, RestIs, PendingIs DEF Mark
  <2>4. Opened' BY <1>3, <1>5, <1>7, <1>8, <2>2, RestIs, PendingIs, MeIs DEF Opened, Threads
  <2>5. Pages' BY <1>7, <1>8, <2>2, PendingIs DEF Pages
  <2> QED BY <1>1, <1>4, <2>3, <2>4, <2>5, MarkIn DEF Ahead
<1>9. CASE main.pc = "early" /\ main'.pc \in {"early", "begin"} /\ UNCHANGED ready
  <2>1. ~ready /\ ~ready' BY <1>6, <1>9
  <2>2. Mark' = Mark BY <2>1 DEF Mark
  <2>3. Opened' BY <1>3, <1>5, <1>9, <2>1, PendingIs, MeIs DEF Opened, Threads
  <2>4. Pages' BY <1>9, <2>1, PendingIs DEF Pages
  <2> QED BY <1>1, <1>4, <2>2, <2>3, <2>4, MarkIn DEF Ahead
<1>10. CASE /\ main.pc = "begin" /\ main'.pc = "ensure" /\ main'.line = Session /\ main'.next = 0 /\ ready'
  <2>1. Mark = 0 /\ Mark' = 0 BY <1>6, <1>7, <1>10, PendingIs DEF Mark, Session
  <2>2. Opened' BY <1>3, <1>5, <1>7, <1>10, PendingIs, MeIs DEF Opened, Threads
  <2>3. Pages'
    <3>1. main'.line.n = 0 /\ First' = First /\ First > 0 /\ head' = head
      BY <1>1, <1>3, <1>4, <1>10, CountIs DEF Session
    <3> QED BY <1>2, <1>7, <1>10, <3>1, PendingIs DEF Pages
  <2> QED BY <1>4, <2>1, <2>2, <2>3 DEF Ahead
<1>11. CASE main.pc = "replay" /\ main'.pc = "idle" /\ main'.count = 0 /\ main.next = main.count /\ UNCHANGED ready
  <2>1. ~Replaying' BY <1>11 DEF Replaying
  <2>2. Opened' BY <1>3, <1>5, <1>11, <2>1, PendingIs, MeIs DEF Opened, Threads
  <2>3. Pages' BY <1>11, <2>1, PendingIs DEF Pages
  <2>4. Mark <= Mark'
    <3>1. Mark' = IF ready THEN head + 1 ELSE 0 BY <1>3, <1>11, <2>1, PendingIs DEF Mark
    <3>2. CASE ~ready BY <3>1, <3>2 DEF Mark
    <3>3. CASE ready
      <4>1. Mark = IF Replaying THEN First + main.next ELSE head + 1 BY <1>11, <3>3, PendingIs DEF Mark
      <4>2. Replaying => First + main.next <= head + 1 BY <3>3 DEF KeptInv, Pages
      <4> QED BY <1>2, <3>1, <3>3, <4>1, <4>2
    <3> QED BY <3>2, <3>3
  <2> QED BY <1>4, <1>11, <2>2, <2>3, <2>4 DEF Ahead
<1>12. CASE /\ main.pc = "replay" /\ main'.pc = "check" /\ main'.count = main.count
            /\ main'.asked = First + main.next /\ main'.next = main.next + 1 /\ main.next < Count
            /\ UNCHANGED ready
  <2>1. Replaying' <=> Replaying BY <1>12 DEF Replaying
  <2>2. Replaying => ready BY <1>12 DEF KeptInv, Opened
  <2>3. Mark' = Mark BY <1>3, <1>7, <1>12, <2>1, PendingIs DEF Mark
  <2>4. Opened'
    <3>1. "check" \notin Locked BY DEF Locked
    <3> QED BY <1>3, <1>5, <1>12, <2>1, <2>2, <3>1, MeIs DEF Opened, Threads
  <2>5. Pages'
    <3>1. main'.pc \notin Pending BY <1>7, <1>12, PendingIs
    <3>2. First' + main'.next <= head' + 1 /\ main'.asked < First' + main'.next
      BY <1>2, <1>3, <1>4, <1>12
    <3> QED BY <3>1, <3>2 DEF Pages
  <2> QED BY <1>1, <1>4, <2>3, <2>4, <2>5, MarkIn DEF Ahead
<1> QED BY <1>3, <1>8, <1>9, <1>10, <1>11, <1>12

LEMMA MarkNext == ASSUME LogTypeOK' PROVE Mark' \in Nat
<1>1. main' \in Local("main") BY DEF LogTypeOK
<1>2. main'.line \in Line /\ main'.asked \in Nat /\ main'.next \in Nat BY <1>1 DEF Local
<1>3. main'.line.n \in Nat BY <1>2 DEF Line, Lines
<1>4. head' \in Nat BY DEF LogTypeOK
<1>5. First' \in Nat
  <2>1. First' = IF head' > Capacity THEN head' - Capacity + 1 ELSE 1 BY DEF First
  <2>2. \A h \in Nat : (IF h > Capacity THEN h - Capacity + 1 ELSE 1) \in Nat BY Sizes
  <2>3. (IF head' > Capacity THEN head' - Capacity + 1 ELSE 1) \in Nat BY <1>4, <2>2
  <2> QED BY <2>1, <2>3
<1>6. First' + main'.next \in Nat
  <2>1. main'.next \in Nat BY <1>2
  <2>2. \A a, b \in Nat : a + b \in Nat OBVIOUS
  <2> QED BY <1>5, <2>1, <2>2
<1>7. head' + 1 \in Nat
  <2>1. \A h \in Nat : h + 1 \in Nat OBVIOUS
  <2> QED BY <1>4, <2>1
<1>8. Mark' \in {0, main'.line.n, head' + 1, main'.asked, First' + main'.next}
  <2>1. Mark' = IF ~ready' THEN 0
               ELSE IF main'.pc \in Pending THEN main'.line.n
               ELSE IF ~Replaying' THEN head' + 1
               ELSE IF main'.pc \in Reading THEN main'.asked ELSE First' + main'.next
    BY Zenon DEF Mark
  <2> QED BY <2>1
<1> QED BY <1>2, <1>3, <1>6, <1>7, <1>8

\* The books that a step leaves as they were.
LEMMA BooksStay ==
  ASSUME KeptInv, LogTypeOK', Ahead, boot' = boot, NEW u \in Seq(UnitType), Book(u, boot, Mark)
  PROVE  Book(u, boot', Mark')
<1>1. LogTypeOK /\ boot \in Nat BY DEF KeptInv, RingInv, LogTypeOK
<1>2. Mark \in Nat BY <1>1, MarkIn
<1>3. Mark' \in Nat BY MarkNext
<1>4. Mark <= Mark' BY DEF Ahead
<1> QED BY <1>1, <1>2, <1>3, <1>4, BookOnward

LEMMA KeptTypes ==
  ASSUME KeptInv
  PROVE  /\ LogTypeOK /\ boot \in Nat /\ damaged \in BOOLEAN /\ <<>> \in Seq(UnitType)
         /\ \A h \in Homes : file[h].units \in Seq(UnitType)
         /\ \A t \in Threads : Me(t).retained \in Seq(UnitType)
<1>1. LogTypeOK /\ boot \in Nat /\ damaged \in BOOLEAN BY DEF KeptInv, RingInv, LogTypeOK
<1>2. \A t \in Threads : Me(t) \in Local(t) BY <1>1, MeIn
<1>3. <<>> \in Seq(UnitType) OBVIOUS
<1> QED BY <1>1, <1>2, <1>3, HomeIn DEF Local

\* What a home holds after a step, one of the homes held before it; or it is empty.
From(h) == file'[h].units = <<>> \/ \E g \in Homes : file'[h].units = file[g].units

LEMMA FromBook ==
  ASSUME KeptInv, LogTypeOK', Ahead, boot' = boot, ~damaged, NEW h \in Homes, From(h)
  PROVE  Book(file'[h].units, boot', Mark')
<1>1. Books(Mark) BY DEF KeptInv
<1>2. \A g \in Homes : Book(file[g].units, boot', Mark')
  BY <1>1, KeptTypes, BooksStay DEF Books
<1> QED BY <1>2, EmptyBook DEF From

LEMMA KeptStays ==
  ASSUME KeptInv, RingInv', RoomInv', Ahead, boot' = boot, damaged => damaged',
         ~damaged' => \A h \in Homes : From(h),
         main'.retained = main.retained, panic'.retained \in {panic.retained, <<>>}
  PROVE  KeptInv'
<1>1. LogTypeOK' /\ damaged' \in BOOLEAN BY DEF RingInv, LogTypeOK
<1>2. ASSUME ~damaged' PROVE Books(Mark)'
  <2>1. ~damaged BY <1>2
  <2>2. \A h \in Homes : Book(file'[h].units, boot', Mark') BY <1>1, <1>2, <2>1, FromBook
  <2>3. Books(Mark) BY <2>1 DEF KeptInv
  <2>4. \A t \in Threads : Book(Me(t).retained, boot', Mark') BY <1>1, <2>3, KeptTypes, BooksStay DEF Books
  <2>5. \A t \in Threads : Book(Me(t)'.retained, boot', Mark') BY <2>4, EmptyBook, MeIs DEF Threads
  <2> QED BY <2>2, <2>5 DEF Books
<1> QED BY <1>1, <1>2 DEF KeptInv, Ahead

LEMMA SameFrom == ASSUME file' = file PROVE \A h \in Homes : From(h)
BY DEF From

LEMMA CreatedFrom ==
  ASSUME LogTypeOK, ~Exists, Created \/ NotCreated, ~RunsOver
  PROVE  \A h \in Homes : From(h)
<1>1. /\ file'["ram"] = file["ram"] \/ file'["ram"].units = <<>>
      /\ file'["disk"] = file["disk"] \/ file'["disk"].units = <<>>
  BY CreatedIs
<1>2. file'["stored"] = file["stored"] \/ file'["stored"] = file'["disk"] BY DEF RunsOver
<1> QED BY <1>1, <1>2, HomesAre DEF From

LEMMA PutFrom ==
  ASSUME LogTypeOK, NEW u \in Seq(UnitType), ~RunsOver,
         \/ file' = RamHas(file, u) /\ Len(u) <= RamLimit
         \/ file' = DiskHas(u)
         \/ file' \in HalfDone(u)
  PROVE  \A h \in Homes : From(h) \/ file'[h].units = u
<1>1. file \in FileType BY DEF LogTypeOK
<1>2. CASE file' = RamHas(file, u) /\ Len(u) <= RamLimit
  <2>1. file'["disk"] = file["disk"] /\ file'["stored"] = file["stored"] /\ file'["ram"].units = u
    BY <1>1, <1>2, RamHasIs
  <2> QED BY <2>1, HomesAre DEF From
<1>3. CASE file' = DiskHas(u)
  <2>1. file'["ram"] = file["ram"] /\ file'["disk"].units = u /\ file'["stored"].units = u
    BY <1>3, DiskHasIs
  <2> QED BY <2>1, HomesAre DEF From
<1>4. CASE file' \in HalfDone(u)
  <2>1. file'["ram"] = file["ram"] /\ (file'["disk"] = file["disk"] \/ file'["disk"].units = u)
    BY <1>4, HalfDoneIs
  <2>2. file'["stored"] = file["stored"] \/ file'["stored"] = file'["disk"] BY DEF RunsOver
  <2> QED BY <2>1, <2>2, HomesAre DEF From
<1> QED BY <1>2, <1>3, <1>4

LEMMA RemovedFrom ==
  ASSUME LogTypeOK, file' \in {[file EXCEPT !["ram"] = NoFile], [file EXCEPT !["disk"] = NoFile],
                               [file EXCEPT !["disk"] = NoFile, !["stored"] = NoFile]}
  PROVE  \A h \in Homes : From(h)
<1>1. NoFile.units = <<>> BY DEF NoFile
<1>2. \A h \in Homes : file'[h] \in {NoFile, file[h]} BY RemovedIs, HomesAre
<1> QED BY <1>1, <1>2 DEF From

\* A call does not run under a panic on its processor.
LEMMA AppendRuns == ASSUME NEW t, AppendLine(t) PROVE t = "main" => where # "same"
BY DEF AppendLine, Ensure, Room, Remove, Reopen, Rewrite, Recheck, WriteLine, At

\* Where nothing is cut or run over, a call leaves in each home what one of them held, what
\* a rotation kept, or the file with the line.
LEMMA AppendFrom ==
  ASSUME LogTypeOK, NEW t \in Threads, NEW to, NEW kept, NEW lim, Stepped(t, to, kept, lim),
         ~RunsOver, ~(Me(t).pc = "rewrite" /\ Home = "ram" /\ Len(Me(t).retained) > RamLimit),
         NEW h \in Homes
  PROVE  \/ From(h)
         \/ file'[h].units = Me(t).retained
         \/ /\ Me(t).pc = "write" /\ to = "unlock" /\ file'[h].units = Units \o Text(Me(t).line)
<1> DEFINE r == Me(t)
           u == Units \o Text(r.line)
<1>1. r \in Local(t) BY MeIn
<1>2. r.retained \in Seq(UnitType) /\ u \in Seq(UnitType) /\ Len(r.retained) \in Nat /\ RamLimit \in Nat
  BY <1>1, HomeIn, TextOf, Sizes DEF Local
<1>3. CASE file' = file BY <1>3, SameFrom
<1>4. CASE ~Exists /\ (Created \/ NotCreated) BY <1>4, CreatedFrom
<1>5. CASE file' \in {[file EXCEPT !["ram"] = NoFile], [file EXCEPT !["disk"] = NoFile],
                      [file EXCEPT !["disk"] = NoFile, !["stored"] = NoFile]}
  BY <1>5, RemovedFrom
<1>6. CASE /\ r.pc = "rewrite"
           /\ \/ Home = "ram" /\ file' = RamHas(file, r.retained)
              \/ file' = DiskHas(r.retained)
              \/ file' \in HalfDone(r.retained)
  BY <1>2, <1>6, PutFrom
<1>7. CASE /\ r.pc = "write" /\ to = "unlock" /\ Fits(t)
           /\ \/ Home = "ram" /\ file' = RamHas(file, u)
              \/ file' = DiskHas(u)
              \/ file' \in HalfDone(u)
  <2>1. Home = "ram" => Len(u) <= RamLimit BY <1>7, TextFits
  <2> QED BY <1>2, <1>7, <2>1, PutFrom
<1>8. \/ file' = file
      \/ ~Exists /\ (Created \/ NotCreated)
      \/ file' \in {[file EXCEPT !["ram"] = NoFile], [file EXCEPT !["disk"] = NoFile],
                    [file EXCEPT !["disk"] = NoFile, !["stored"] = NoFile]}
      \/ /\ r.pc = "rewrite"
         /\ \/ Home = "ram" /\ file' = RamHas(file, r.retained)
            \/ file' = DiskHas(r.retained)
            \/ file' \in HalfDone(r.retained)
      \/ /\ r.pc = "write" /\ to = "unlock" /\ Fits(t)
         /\ \/ Home = "ram" /\ file' = RamHas(file, u)
            \/ file' = DiskHas(u)
            \/ file' \in HalfDone(u)
  BY SMT DEF Stepped, Same
<1> QED BY <1>3, <1>4, <1>5, <1>6, <1>7, <1>8

\* What a rotation keeps is the end of what was in the file, or was kept before.
LEMMA KeptIs ==
  ASSUME NEW t, NEW to, NEW kept, NEW lim, Stepped(t, to, kept, lim)
  PROVE  kept = Me(t).retained \/ kept = <<>> \/ kept = Retained(Units, Keep(LimitOf(Home)))
BY Zenon DEF Stepped

LEMMA AppendKept == ASSUME KeptInv, RingInv', RoomInv', NEW t \in Threads, AppendLine(t) PROVE KeptInv'
<1>1. LogTypeOK /\ LogTypeOK' BY DEF KeptInv, RingInv
<1>2. /\ UNCHANGED <<head, ready, boot>> /\ Me(t).pc \in Locked \ {"unlock"}
      /\ damaged' = (damaged \/ RunsOver \/ Cuts(t))
      /\ \A o \in Threads \ {t} : Me(o)' = Me(o)
  BY <1>1, AppendIs
<1> DEFINE r == Me(t)
           m == Mark
           n == Mark'
<1>3. PICK to \in Locked, kept \in Seq(UnitType), lim \in Nat :
        /\ Me(t)'.pc = to /\ Me(t)'.retained = kept /\ Me(t)'.limit = lim
        /\ Me(t)'.line = r.line /\ Me(t)'.count = r.count /\ Me(t)'.next = r.next
        /\ Stepped(t, to, kept, lim)
  BY <1>1, AppendIs
<1>4. r \in Local(t) BY <1>1, MeIn
<1>5. Ahead /\ (t = "main" /\ to = "unlock" => r.line.n < n)
  <2>1. CASE t = "panic"
    <3>1. main' = main /\ panic'.line.by # "main" /\ (panic'.pc \in Locked => ready)
      BY <1>2, <1>3, <2>1, MeIs DEF KeptInv, Signed, Opened, Threads
    <3> QED BY <1>2, <2>1, <3>1, PanicMoves
  <2>2. CASE t = "main"
    <3>1. /\ panic' = panic /\ main.pc \in Locked \ {"unlock"} /\ main'.pc = to /\ main'.line = main.line
          /\ main'.next = main.next /\ main'.count = main.count
      BY <1>2, <1>3, <2>2, MeIs
    <3>2. ready BY <3>1, MeIs DEF KeptInv, Opened, Threads
    <3>3. CASE to = "unlock" BY <1>2, <2>2, <3>1, <3>3, DoneAhead, MeIs
    <3>4. CASE to # "unlock" BY <1>2, <3>1, <3>2, <3>4, LineAhead, PendingIs
    <3> QED BY <3>3, <3>4
  <2> QED BY <2>1, <2>2 DEF Threads
<1>6. ASSUME ~damaged' PROVE Books(Mark)'
  <2>1. ~damaged /\ ~RunsOver /\ ~Cuts(t) BY <1>2, <1>6
  <2>2. Books(m) BY <2>1 DEF KeptInv
  <2>3. /\ \A g \in Homes : Book(file[g].units, boot, m)
        /\ Book(Units, boot, m) /\ Units \in Seq(UnitType) /\ Book(r.retained, boot, m) /\ r.retained \in Seq(UnitType)
        /\ Keep(LimitOf(Home)) \in Nat
    BY <1>1, <1>4, <2>2, HomeIn, HomesAre DEF Books, Units, Local
  <2>4. ASSUME NEW u \in Seq(UnitType), Book(u, boot, m) PROVE Book(u, boot', n)
    BY <1>1, <1>2, <1>5, <2>4, BooksStay
  <2>5. Book(kept, boot', n)
    <3>1. kept = r.retained \/ kept = <<>> \/ kept = Retained(Units, Keep(LimitOf(Home))) BY <1>3, KeptIs
    <3>2. Book(kept, boot, m) BY <2>3, <3>1, BookRetained, EmptyBook
    <3> QED BY <2>4, <3>2
  <2>6. ASSUME r.pc = "write", to = "unlock" PROVE Book(Units \o Text(r.line), boot', n)
    <3>1. r.line.by = "main" => m <= r.line.n /\ r.line.n < n
      <4>1. CASE t = "panic" BY <4>1, MeIs DEF KeptInv, Signed
      <4>2. CASE t = "main"
        <5>1. main.pc = "write" /\ "write" \in Pending /\ "write" \in Locked BY <2>6, <4>2, MeIs DEF Pending, Locked
        <5>2. ready BY <5>1, MeIs DEF KeptInv, Opened, Threads
        <5>3. m = main.line.n BY <5>1, <5>2 DEF Mark
        <5>4. m \in Nat BY <1>1, MarkIn
        <5> QED BY <1>5, <2>6, <4>2, <5>3, <5>4, MeIs
      <4> QED BY <4>1, <4>2 DEF Threads
    <3>2. r.line \in Line /\ m \in Nat BY <1>1, <1>4, MarkIn DEF Local
    <3>3. n \in Nat /\ m <= n
      <4>1. Mark' \in Nat BY <1>1, MarkNext
      <4> QED BY <1>5, <4>1 DEF Ahead
    <3> HIDE DEF m, n
    <3> DEFINE u == Units
               l == r.line
    <3>4. boot \in Nat /\ u \in Seq(UnitType) /\ Book(u, boot, m) BY <2>3, KeptTypes
    <3>5. l \in Line /\ m \in Int /\ n \in Int /\ m <= n BY <3>2, <3>3
    <3>6. l.by = "main" => m <= l.n /\ l.n < n BY <3>1
    <3> HIDE DEF u, l, r
    <3>7. Book(u \o Text(l), boot, n) BY <3>4, <3>5, <3>6, BookAppend
    <3> QED BY <1>2, <3>7 DEF u, l, r
  <2>7. ASSUME NEW h \in Homes PROVE Book(file'[h].units, boot', n)
    <3>1. ~(r.pc = "rewrite" /\ Home = "ram" /\ Len(r.retained) > RamLimit)
      BY <2>1, AppendRuns DEF Cuts, At
    <3>2. \/ From(h)
          \/ file'[h].units = r.retained
          \/ r.pc = "write" /\ to = "unlock" /\ file'[h].units = Units \o Text(r.line)
      BY <1>1, <1>3, <2>1, <3>1, AppendFrom
    <3>3. CASE From(h) BY <1>1, <1>2, <1>5, <2>1, <3>3, FromBook
    <3>4. CASE file'[h].units = r.retained BY <2>3, <2>4, <3>4
    <3>5. CASE r.pc = "write" /\ to = "unlock" /\ file'[h].units = Units \o Text(r.line) BY <2>6, <3>5
    <3> QED BY <3>2, <3>3, <3>4, <3>5
  <2>8. ASSUME NEW o \in Threads PROVE Book(Me(o)'.retained, boot', n)
    <3>1. CASE o = t BY <1>3, <2>5, <3>1
    <3>2. CASE o # t
      <4>1. Book(Me(o).retained, boot, m) /\ Me(o).retained \in Seq(UnitType) BY <2>2, KeptTypes DEF Books
      <4> QED BY <1>2, <2>4, <3>2, <4>1
    <3> QED BY <3>1, <3>2
  <2> QED BY <2>7, <2>8 DEF Books
<1> QED BY <1>1, <1>5, <1>6 DEF KeptInv, Ahead

LEMMA WorksKept ==
  ASSUME KeptInv, RingInv', RoomInv', NEW t \in Threads, Record(t) \/ Persist(t) \/ Unlock(t)
  PROVE  KeptInv'
<1>1. LogTypeOK /\ Me(t) \in Local(t) BY MeIn DEF KeptInv, RingInv
<1>2. UNCHANGED <<head, ready, boot, file, damaged>> BY DEF Record, Write, Persist, Unlock
<1>3. /\ Me(t)'.retained = Me(t).retained /\ (\A o \in Threads \ {t} : Me(o)' = Me(o))
      /\ Me(t)'.line \in {Me(t).line, NoLine}
  <2>1. CASE Record(t)
    <3>1. (\E to : Me(t)' = [Me(t) EXCEPT !.pc = to]) /\ \A o \in Threads \ {t} : Me(o)' = Me(o)
      BY <1>1, <2>1, RecordIs
    <3> QED BY <1>1, <3>1 DEF Local
  <2>2. CASE Persist(t)
    <3>1. (\E pc : Ends(t, pc)) \/ (\E pc : Goes(t, pc)) BY <2>2 DEF Persist
    <3> QED BY <1>1, <3>1, EndsIs, GoesIs
  <2>3. CASE Unlock(t)
    <3>1. \E pc : Ends(t, pc) BY <2>3 DEF Unlock
    <3> QED BY <1>1, <3>1, EndsIs
  <2> QED BY <2>1, <2>2, <2>3
<1>4. Ahead
  <2>1. CASE t = "main"
    <3>1. CASE Record(t) \/ Persist(t) BY <2>1, <3>1, MainAhead
    <3>2. CASE Unlock(t) BY <2>1, <3>2, UnlockAhead
    <3> QED BY <3>1, <3>2
  <2>2. CASE t = "panic"
    <3>1. main' = main BY <1>3, <2>2, MeIs DEF Threads
    <3>2. panic'.line.by # "main" BY <1>3, <2>2, MeIs DEF KeptInv, Signed, NoLine
    <3>3. panic'.pc \in Locked => ready
      <4>1. CASE Record(t)
        <5>1. panic'.pc \in Copying \cup {"persist"} BY <1>1, <2>2, <4>1, RecordIs, MeIs DEF Copying
        <5> QED BY <5>1, PendingIs
      <4>2. CASE Persist(t)
        <5>1. CASE ready BY <5>1
        <5>2. CASE ~ready
          <6>1. Ends(t, "printed") BY <2>2, <4>2, <5>2 DEF Persist
          <6>2. panic'.pc = "printed" BY <1>1, <2>2, <6>1, EndsIs, MeIs
          <6> QED BY <6>2 DEF Locked
        <5> QED BY <5>1, <5>2
      <4>3. CASE Unlock(t)
        <5>1. Ends(t, "printed") BY <2>2, <4>3 DEF Unlock
        <5>2. panic'.pc = "printed" BY <1>1, <2>2, <5>1, EndsIs, MeIs
        <5> QED BY <5>2 DEF Locked
      <4> QED BY <4>1, <4>2, <4>3
    <3> QED BY <1>2, <3>1, <3>2, <3>3, PanicMoves
  <2> QED BY <2>1, <2>2 DEF Threads
<1>5. main'.retained = main.retained /\ panic'.retained = panic.retained
  <2>1. CASE t = "main" BY <1>3, <2>1, MeIs DEF Threads
  <2>2. CASE t = "panic" BY <1>3, <2>2, MeIs DEF Threads
  <2> QED BY <2>1, <2>2 DEF Threads
<1> QED BY <1>2, <1>4, <1>5, KeptStays, SameFrom

\* After a power failure nothing of the new boot is in the file.
LEMMA PowerOffKept == ASSUME KeptInv, RingInv', RoomInv', PowerOff PROVE KeptInv'
<1>1. LogTypeOK /\ boot' = boot + 1 /\ ~ready' BY DEF KeptInv, RingInv, PowerOff
<1>2. /\ main'.pc = "early" /\ main'.count = 0 /\ main'.retained = <<>>
      /\ panic'.pc = "off" /\ panic'.retained = <<>> /\ panic'.line.by = "none"
  BY DEF PowerOff, Thread, NoLine
<1>3. Mark' = 0 /\ ~Replaying' BY <1>1, <1>2 DEF Mark, Replaying
<1>4. Opened' BY <1>1, <1>2, <1>3, MeIs DEF Opened, Threads, Locked
<1>5. Pages' /\ Signed' BY <1>2, <1>3, PendingIs DEF Pages, Signed
<1>6. Book(<<>>, boot', Mark') BY EmptyBook
<1>7. ASSUME ~damaged' PROVE Books(Mark)'
  <2>1. /\ file' = [h \in Homes |-> IF h = "ram" THEN NoFile ELSE file["stored"]]
        /\ damaged' = damaged
    BY DEF PowerOff
  <2> DEFINE u == file["stored"].units
  <2>2. u \in Seq(UnitType) /\ Book(u, boot, Mark) BY <1>7, <2>1, KeptTypes, HomesAre DEF KeptInv, Books
  <2> HIDE DEF u
  <2>3. \A i \in 1 .. Len(u) : u[i].boot <= boot /\ u[i].boot \in Nat
    <3>1. \A i \in 1 .. Len(u) : u[i] \in UnitType BY <2>2
    <3>2. \A i \in 1 .. Len(u) : u[i].boot <= boot BY <2>2 DEF Book, Below
    <3> QED BY <3>1, <3>2 DEF UnitType
  <2>4. Below(u, boot', Mark') BY <1>1, <2>3, KeptTypes DEF Below
  <2>5. Book(u, boot', Mark') BY <2>2, <2>4 DEF Book
  <2>6. \A h \in Homes : file'[h].units \in {<<>>, u} BY <2>1 DEF NoFile, u
  <2>7. \A h \in Homes : Book(file'[h].units, boot', Mark') BY <1>6, <2>5, <2>6
  <2>8. \A t \in Threads : Book(Me(t)'.retained, boot', Mark') BY <1>2, <1>6, MeIs DEF Threads
  <2> QED BY <2>7, <2>8 DEF Books
<1> QED BY <1>4, <1>5, <1>7 DEF KeptInv

LEMMA KeptStep == ASSUME ~Laps, Capacity > 1, KeptInv, [Next]_vars PROVE KeptInv'
<1>1. RingInv' /\ RoomInv' BY RingStep, RoomStep DEF KeptInv
<1>2. LogTypeOK /\ main \in Local("main") BY DEF KeptInv, RingInv, LogTypeOK
<1>3. ASSUME NEW len \in Lens, Log(len) PROVE KeptInv'
  <2>1. UNCHANGED <<file, panic, boot, damaged>> /\ main'.retained = main.retained
    BY <1>2, <1>3, MeIs DEF Log, Local
  <2> QED BY <1>1, <1>3, <2>1, LogAhead, KeptStays, SameFrom
<1>4. ASSUME NEW cpu \in Panics, Panic(cpu) PROVE KeptInv'
  <2>1. UNCHANGED <<file, main, boot, damaged>> /\ panic'.retained = <<>> BY <1>4 DEF Panic, Thread
  <2> QED BY <1>1, <1>4, <2>1, PanicAhead, KeptStays, SameFrom
<1>5. ASSUME NEW t \in Threads, Works(t) PROVE KeptInv'
  BY <1>1, <1>5, WorksKept, AppendKept DEF Works
<1>6. CASE Read
  <2>1. UNCHANGED <<file, panic, boot, damaged>> /\ main'.retained = main.retained BY <1>2, <1>6, ReadIs
  <2> QED BY <1>1, <1>6, <2>1, ReadAhead, KeptStays, SameFrom
<1>7. CASE Draw \/ Start \/ Begin \/ Replay
  <2>1. /\ UNCHANGED <<panic, boot>> /\ main'.retained = main.retained
        /\ \/ file' = file /\ damaged' = damaged
           \/ ~Exists /\ (Created \/ NotCreated) /\ damaged' = (damaged \/ RunsOver)
    BY <1>2, <1>7, DriveIs
  <2>2. (damaged => damaged') /\ (~damaged' => \A h \in Homes : From(h))
    <3>1. CASE file' = file /\ damaged' = damaged BY <3>1, SameFrom
    <3>2. CASE ~Exists /\ (Created \/ NotCreated) /\ damaged' = (damaged \/ RunsOver)
      <4>1. (damaged => damaged') /\ (~damaged' => ~RunsOver) BY <3>2
      <4>2. ~RunsOver => \A h \in Homes : From(h) BY <1>2, <3>2, CreatedFrom
      <4> QED BY <4>1, <4>2
    <3> QED BY <2>1, <3>1, <3>2
  <2> QED BY <1>1, <1>7, <2>1, <2>2, DriveAhead, KeptStays
<1>8. CASE PowerOff BY <1>1, <1>8, PowerOffKept
<1>9. CASE UNCHANGED vars
  <2>1. Mark' = Mark /\ Opened' /\ Pages' /\ Signed'
    BY <1>9 DEF vars, KeptInv, Mark, Opened, Pages, Signed, Replaying, First, Me
  <2>2. Ahead BY <1>2, <2>1, MarkIn DEF Ahead
  <2> QED BY <1>1, <1>9, <2>2, KeptStays, SameFrom DEF vars
<1> QED BY <1>3, <1>4, <1>5, <1>6, <1>7, <1>8, <1>9 DEF Next, Threads

LEMMA KeptInit == ASSUME Init PROVE KeptInv
<1>1. /\ ~ready /\ main.pc = "early" /\ main.count = 0 /\ main.retained = <<>> /\ file = [h \in Homes |-> NoFile]
      /\ panic.pc = "off" /\ panic.retained = <<>> /\ panic.line.by = "none"
  BY DEF Init, Reset, Thread, NoLine
<1>2. ~Replaying BY <1>1 DEF Replaying
<1>3. Opened BY <1>1, <1>2, MeIs DEF Opened, Threads, Locked
<1>4. Pages /\ Signed BY <1>1, <1>2, PendingIs DEF Pages, Signed
<1>5. \A h \in Homes : file[h].units = <<>> BY <1>1 DEF NoFile
<1>6. Books(Mark) BY <1>1, <1>5, EmptyBook, MeIs DEF Books, Threads
<1> QED BY <1>3, <1>4, <1>6, RingInit, RoomInit DEF KeptInv

-----------------------------------------------------------------------------
(***************************************************************************)
(* Nothing missing.  While no call fails and no processor panics, the ring *)
(* has every line that it can still hold, the replay takes them in turn,   *)
(* and the main loop's lines of this boot in the file, or in what a        *)
(* rotation keeps aside, reach without a gap up to the next one.           *)
(***************************************************************************)
Calm == where = "none" /\ failed = 0

Own(line) == line.by = "main" /\ line.len > 0

Stocked ==
  /\ \A n \in 1 .. head :
       n + Capacity > head /\ ~(Copies("main") /\ n = Number("main")) => ring[Slot(n)].sequence = n
  /\ \A s \in Places : ring[s].sequence # 0 => Own(ring[s].a)

\* Whose turn it is: the line that the main loop has is the next one.
Turn ==
  /\ main.pc \in Copying \cup {"persist"} => main.line.n = head /\ Own(main.line)
  /\ main.pc \in Locked \ {"unlock"} =>
       \/ main.line = Session /\ main.next = 0 /\ main.count = Count
       \/ Own(main.line) /\ main.line.n = IF Replaying THEN First + main.next - 1 ELSE head
  /\ main.pc = "got" => Own(main.a)
  /\ main.pc = "begin" \/ Replaying => main.count = Count
  /\ main.pc \in Reading /\ Replaying => main.asked = First + main.next - 1 /\ main.next > 0

Has(u, b, n) == \E j \in 1 .. Len(u) : u[j].boot = b /\ u[j].by = "main" /\ u[j].n = n
Closed(u, b, m) ==
  \A i \in 1 .. Len(u) : u[i].boot = b /\ u[i].by = "main" => \A n \in u[i].n .. m - 1 : Has(u, b, n)

\* The first number that a replay has, or that a boot has.
Floor == IF Replaying THEN First ELSE 1
Reached == main.pc \notin Pending /\ Mark > Floor => Has(Units, boot, Mark - 1)

\* Only a rotation keeps something aside.
Aside == main.pc \notin Rotation => main.retained = <<>>

Sound ==
  /\ Stocked /\ Turn /\ Reached /\ Aside
  /\ Closed(Units, boot, Mark) /\ Closed(main.retained, boot, Mark)

CalmInv == KeptInv /\ (Calm /\ ~damaged => Sound)

LEMMA EmptyClosed == ASSUME NEW b, NEW m PROVE Closed(<<>>, b, m)
BY DEF Closed

\* What a rotation keeps of the file reaches as far.
LEMMA ClosedSuffix ==
  ASSUME NEW u \in Seq(UnitType), NEW b, NEW m \in Int, Book(u, b, m), Closed(u, b, m), NEW i \in 1 .. Len(u)
  PROVE  Closed(SubSeq(u, i + 1, Len(u)), b, m)
<1> DEFINE w == SubSeq(u, i + 1, Len(u))
<1>1. /\ w \in Seq(UnitType) /\ Len(u) \in Nat /\ Len(w) = Len(u) - i
      /\ \A j \in 1 .. Len(w) : w[j] = u[i + j] /\ i + j \in 1 .. Len(u)
      /\ \A j \in i + 1 .. Len(u) : j - i \in 1 .. Len(w) /\ w[j - i] = u[j]
  BY SuffixIs
<1> HIDE DEF w
<1>2. \A j \in 1 .. Len(u) : u[j].n \in Nat /\ u[j].k \in Nat /\ u[j].boot \in Nat
  <2>1. \A j \in 1 .. Len(u) : u[j] \in UnitType OBVIOUS
  <2> QED BY <2>1 DEF UnitType
<1>3. ASSUME NEW j \in 1 .. Len(w), w[j].boot = b, w[j].by = "main", NEW n \in w[j].n .. m - 1
      PROVE  Has(w, b, n)
  <2>1. w[j] = u[i + j] /\ i + j \in 1 .. Len(u) BY <1>1
  <2>2. Has(u, b, n) BY <1>3, <2>1 DEF Closed
  <2>3. PICK o \in 1 .. Len(u) : u[o].boot = b /\ u[o].by = "main" /\ u[o].n = n BY <2>2 DEF Has
  <2>4. CASE o > i
    <3>1. o \in i + 1 .. Len(u) BY <2>4
    <3>2. o - i \in 1 .. Len(w) /\ w[o - i] = u[o] BY <1>1, <3>1
    <3> QED BY <2>3, <3>2 DEF Has
  <2>5. CASE o <= i
    <3>1. o < i + j BY <2>5, <1>1
    <3>2. Earlier(u[o], u[i + j]) BY <1>3, <2>1, <2>3, <3>1 DEF Book, Ordered
    <3>3. n = w[j].n
      <4>1. u[o].n <= u[i + j].n BY <1>2, <1>3, <2>1, <2>3, <3>2 DEF Earlier
      <4>2. n \in Int /\ n >= u[i + j].n BY <1>2, <1>3, <2>1
      <4> QED BY <1>2, <2>1, <2>3, <4>1, <4>2
    <3> QED BY <1>3, <3>3 DEF Has
  <2> QED BY <2>4, <2>5
<1> QED BY <1>3 DEF Closed, w

LEMMA ClosedRetained ==
  ASSUME NEW u \in Seq(UnitType), NEW b, NEW m \in Int, Book(u, b, m), Closed(u, b, m), NEW keep \in Nat
  PROVE  Closed(Retained(u, keep), b, m)
BY RetainedIs, ClosedSuffix, EmptyClosed

\* The next line makes them reach one further.
LEMMA ClosedAppend ==
  ASSUME boot \in Nat, NEW u \in Seq(UnitType), NEW line \in Line, Own(line),
         Book(u, boot, line.n), Closed(u, boot, line.n)
  PROVE  Closed(u \o Text(line), boot, line.n + 1) /\ Has(u \o Text(line), boot, line.n)
<1> DEFINE v == Text(line)
           w == u \o v
           m == line.n
<1>1. /\ v \in Seq(UnitType) /\ Len(v) = line.len
      /\ \A i \in 1 .. Len(v) : v[i].boot = boot /\ v[i].n = m /\ v[i].by = "main"
  BY TextIs DEF Own
<1>2. m \in Nat /\ line.len \in Nat /\ line.len > 0 BY DEF Own, Line, Lines
<1> HIDE DEF v, m
<1>3. /\ w \in Seq(UnitType) /\ Len(u) \in Nat /\ Len(v) \in Nat /\ Len(w) = Len(u) + Len(v)
      /\ \A i \in 1 .. Len(u) : w[i] = u[i]
      /\ \A i \in Len(u) + 1 .. Len(w) : w[i] = v[i - Len(u)]
      /\ \A i \in 1 .. Len(v) : w[Len(u) + i] = v[i]
  BY <1>1, CatIs, ZenonT(60)
<1> HIDE DEF w
<1>4. Has(w, boot, m)
  <2>1. 1 \in 1 .. Len(v) /\ Len(u) + 1 \in 1 .. Len(w) BY <1>1, <1>2, <1>3
  <2>2. w[Len(u) + 1] = v[1] BY <1>3, <2>1
  <2> QED BY <1>1, <2>1, <2>2 DEF Has
<1>5. ASSUME NEW n, Has(u, boot, n) PROVE Has(w, boot, n)
  <2>1. PICK j \in 1 .. Len(u) : u[j].boot = boot /\ u[j].by = "main" /\ u[j].n = n BY <1>5 DEF Has
  <2>2. j \in 1 .. Len(w) /\ w[j] = u[j] BY <1>3
  <2> QED BY <2>1, <2>2 DEF Has
<1>6. ASSUME NEW i \in 1 .. Len(w), w[i].boot = boot, w[i].by = "main", NEW n \in w[i].n .. (m + 1) - 1
      PROVE  Has(w, boot, n)
  <2>1. CASE i \in 1 .. Len(u)
    <3>1. w[i] = u[i] BY <1>3, <2>1
    <3>2. u[i].n \in Nat
      <4>1. u[i] \in UnitType BY <2>1
      <4> QED BY <4>1 DEF UnitType
    <3>3. n = m \/ n \in u[i].n .. m - 1 BY <1>2, <1>6, <3>1, <3>2
    <3>4. CASE n \in u[i].n .. m - 1
      <4>1. Closed(u, boot, m) BY DEF m
      <4>2. Has(u, boot, n) BY <1>6, <2>1, <3>1, <3>4, <4>1 DEF Closed
      <4> QED BY <1>5, <4>2
    <3> QED BY <1>4, <3>3, <3>4
  <2>2. CASE i \in Len(u) + 1 .. Len(w)
    <3>1. i - Len(u) \in 1 .. Len(v) BY <1>3, <2>2
    <3>2. w[i].n = m BY <1>1, <1>3, <2>2, <3>1
    <3>3. n = m BY <1>2, <1>6, <3>2
    <3> QED BY <1>4, <3>3
  <2> QED BY <1>3, <2>1, <2>2
<1> QED BY <1>4, <1>6 DEF Closed, w, v, m

\* A step after which the ring still has what it had, and more if head stays.
LEMMA StockedStays ==
  ASSUME Stocked, UNCHANGED <<head, ring>>,
         Copies("main") => Copies("main")' /\ Number("main")' = Number("main")
  PROVE  Stocked'
BY DEF Stocked

\* A step that leaves the file and what is kept aside of it.
LEMMA SoundKept ==
  ASSUME KeptInv, Sound, boot' = boot, Units' = Units, main.pc \notin Rotation,
         main'.retained \in {main.retained, <<>>}, Mark' = Mark, Stocked', Turn',
         main'.pc \in Pending \/ ~(Mark > Floor') \/ (main.pc \notin Pending /\ Mark > Floor)
  PROVE  Sound'
<1>1. Closed(Units', boot', Mark') BY DEF Sound
<1>2. Aside' BY DEF Sound, Aside
<1>3. Closed(main'.retained, boot', Mark') BY EmptyClosed DEF Sound
<1>4. Reached' BY DEF Sound, Reached
<1> QED BY <1>1, <1>2, <1>3, <1>4 DEF Sound

\* Where a rotation is not.
LEMMA RotationOut ==
  /\ Rotation \subseteq Locked /\ "unlock" \notin Rotation
  /\ Rotation \cap (Copying \cup Reading \cup {"early", "idle", "begin", "replay", "persist"}) = {}
BY DEF Rotation, Locked, Copying, Reading

LEMMA UnitsSame == file' = file => Units' = Units
BY DEF Units, Home

LEMMA LogSound == ASSUME KeptInv, Sound, NEW len \in Lens, Log(len) PROVE Sound'
<1> DEFINE line == [n |-> head + 1, len |-> len, by |-> "main"]
<1>1. LogTypeOK /\ main \in Local("main") /\ head \in Nat BY DEF KeptInv, RingInv, LogTypeOK
<1>2. /\ main' = [main EXCEPT !.pc = "clear", !.line = line] /\ head' = head + 1
      /\ UNCHANGED <<ring, file, boot>> /\ main.pc = Rest
  BY MeIs DEF Log, At
<1>3. line.n = head + 1 /\ Own(line)
  <2>1. len > 0 BY LogAssumption
  <2> QED BY <2>1 DEF Own
<1> HIDE DEF line
<1>4. /\ main'.pc = "clear" /\ main'.line = line /\ main'.count = main.count
      /\ main'.retained = main.retained
  BY <1>1, <1>2 DEF Local
<1>5. ~Replaying'
  <2>1. main.count = 0 BY <1>2, RestIs DEF KeptInv, RoomInv, Held
  <2> QED BY <1>4, <2>1 DEF Replaying
<1>6. Mark' = Mark BY LogAhead
<1>7. Stocked'
  <2>1. ~Copies("main") BY <1>2, RestIs, MeIs DEF Copies, Copying
  <2>2. Copies("main")' /\ Number("main")' = head + 1 BY <1>3, <1>4, MeIs DEF Copies, Copying, Number
  <2>3. ASSUME NEW n \in 1 .. head + 1, n + Capacity > head + 1, n # head + 1
        PROVE  ring[Slot(n)].sequence = n
    <3>1. n \in 1 .. head /\ n + Capacity > head BY <1>1, <2>3, Sizes
    <3> QED BY <2>1, <3>1 DEF Sound, Stocked
  <2> QED BY <1>2, <2>2, <2>3 DEF Sound, Stocked
<1>8. Turn'
  <2>1. "clear" \in Copying /\ "clear" \notin Locked \cup Reading \cup {"got", "begin"}
    BY DEF Copying, Locked, Reading
  <2> QED BY <1>2, <1>3, <1>4, <1>5, <2>1 DEF Turn
<1>9. main'.pc \in Pending BY <1>4 DEF Pending, Copying
<1>10. main.pc \notin Rotation BY <1>2, RestIs, RotationOut
<1> QED BY <1>2, <1>4, <1>6, <1>7, <1>8, <1>9, <1>10, UnitsSame, SoundKept

LEMMA RecordSound == ASSUME KeptInv, Sound, Record("main") PROVE Sound'
<1> DEFINE s == Slot(main.line.n)
           e == ring[s]
<1>1. LogTypeOK /\ main \in Local("main") /\ head \in Nat BY DEF KeptInv, RingInv, LogTypeOK
<1>2. /\ UNCHANGED <<head, file, boot>> /\ s \in Places /\ ring' = [ring EXCEPT ![s] = ring'[s]]
      /\ \E to : main' = [main EXCEPT !.pc = to]
      /\ \/ main.pc = "clear" /\ main'.pc = "half" /\ ring'[s] = [e EXCEPT !.sequence = 0]
         \/ main.pc = "half" /\ main'.pc = "rest" /\ ring'[s] = [e EXCEPT !.a = main.line]
         \/ main.pc = "rest" /\ main'.pc = "publish" /\ ring'[s] = [e EXCEPT !.b = main.line]
         \/ main.pc = "publish" /\ main'.pc = "persist" /\ ring'[s] = [e EXCEPT !.sequence = main.line.n]
  BY <1>1, RecordIs, MeIs DEF Threads
<1>3. /\ main'.line = main.line /\ main'.count = main.count /\ main'.next = main.next
      /\ main'.retained = main.retained
  BY <1>1, <1>2 DEF Local
<1>4. main.pc \in Copying /\ main'.pc \in Copying \cup {"persist"} /\ main.line.n = head /\ Own(main.line)
  BY <1>2 DEF Copying, Sound, Turn
<1>5. Mark' = Mark BY MainAhead DEF Threads
<1>6. Turn'
  <2>1. ~Replaying' BY <1>3, <1>4 DEF KeptInv, RoomInv, Held, Replaying
  <2>2. main'.pc \notin Locked \cup Reading \cup {"begin", "got"}
    <3>1. \A pc \in Copying \cup {"persist"} : pc \notin Locked \cup Reading \cup {"begin", "got"}
      BY DEF Copying, Locked, Reading
    <3> QED BY <1>4, <3>1
  <2> QED BY <1>2, <1>3, <1>4, <2>1, <2>2 DEF Turn
<1>7. Stage("main") /\ e \in EntryType
  BY <1>1, <1>2 DEF KeptInv, RingInv, Threads, LogTypeOK
<1>8. ring'[s].sequence # 0 => Own(ring'[s].a)
  <2>1. main.pc \in {"half", "rest", "publish"} => e.sequence = 0
    BY <1>7, MeIs DEF Stage, Filled, Number
  <2>2. main.pc = "publish" => e.a = main.line BY <1>7, MeIs DEF Stage, Filled, Number
  <2> HIDE DEF e, s
  <2>3. CASE main.pc = "clear" /\ ring'[s] = [e EXCEPT !.sequence = 0] BY <1>7, <2>3 DEF EntryType
  <2>4. CASE main.pc = "half" /\ ring'[s] = [e EXCEPT !.a = main.line] BY <1>7, <2>1, <2>4 DEF EntryType
  <2>5. CASE main.pc = "rest" /\ ring'[s] = [e EXCEPT !.b = main.line] BY <1>7, <2>1, <2>5 DEF EntryType
  <2>6. CASE main.pc = "publish" /\ ring'[s] = [e EXCEPT !.sequence = main.line.n]
    BY <1>4, <1>7, <2>2, <2>6 DEF EntryType
  <2> QED BY <1>2, <2>3, <2>4, <2>5, <2>6
<1>9. Stocked'
  <2>1. \A o \in Places \ {s} : ring'[o] = ring[o]
    <3> HIDE DEF s
    <3> QED BY <1>1, <1>2 DEF LogTypeOK
  <2>2. ASSUME NEW n \in 1 .. head, n + Capacity > head, n # main.line.n PROVE ring'[Slot(n)].sequence = n
    <3>1. n \in Nat /\ main.line.n \in Nat /\ Near(n, main.line.n) BY <1>1, <1>4, <2>2, Sizes DEF Near
    <3>2. Slot(n) # s /\ Slot(n) \in Places BY <3>1, SlotsApart, SlotIn
    <3>3. Copies("main") /\ Number("main") = main.line.n BY <1>4, MeIs DEF Copies, Number
    <3>4. ring[Slot(n)].sequence = n BY <2>2, <3>3 DEF Sound, Stocked
    <3> QED BY <2>1, <3>2, <3>4
  <2>3. ASSUME main'.pc = "persist" PROVE ring'[s].sequence = main.line.n
    <3>1. ring'[s] = [e EXCEPT !.sequence = main.line.n] BY <1>2, <2>3
    <3> HIDE DEF e, s
    <3> QED BY <1>7, <3>1 DEF EntryType
  <2>4. main'.pc # "persist" => Copies("main")' /\ Number("main")' = main.line.n
    BY <1>3, <1>4, MeIs DEF Copies, Number
  <2>5. \A o \in Places : ring'[o].sequence # 0 => Own(ring'[o].a)
    <3> HIDE DEF s, e
    <3> QED BY <1>8, <2>1 DEF Sound, Stocked
  <2>6. ASSUME NEW n \in 1 .. head, n + Capacity > head, ~(Copies("main") /\ n = Number("main"))'
        PROVE  ring'[Slot(n)].sequence = n
    <3>1. CASE n # main.line.n BY <2>2, <2>6, <3>1
    <3>2. CASE n = main.line.n BY <2>3, <2>4, <2>6, <3>2
    <3> QED BY <3>1, <3>2
  <2> QED BY <1>2, <2>5, <2>6 DEF Stocked
<1>10. main'.pc \in Pending BY <1>4, PendingIs
<1>11. main.pc \notin Rotation BY <1>4, RotationOut
<1> QED BY <1>2, <1>3, <1>5, <1>6, <1>9, <1>10, <1>11, UnitsSame, SoundKept

LEMMA PersistSound == ASSUME KeptInv, Sound, Persist("main") PROVE Sound'
<1>1. LogTypeOK /\ "main" \in Threads BY DEF KeptInv, RingInv, Threads
<1>2. /\ UNCHANGED <<head, ring, file, boot>> /\ main.pc = "persist"
      /\ main'.retained = main.retained /\ main'.count = main.count /\ main'.next = main.next
      /\ \/ main'.pc = "ensure" /\ main'.line = main.line
         \/ main'.pc = "early" /\ ~ready
  BY <1>1, EndsIs, GoesIs, MeIs DEF Persist, At
<1>3. Mark' = Mark BY <1>1, MainAhead
<1>4. ~Replaying /\ ~Replaying' BY <1>2 DEF KeptInv, RoomInv, Held, Replaying
<1>5. Stocked'
  <2>1. ~Copies("main") BY <1>2, MeIs DEF Copies, Copying
  <2> QED BY <1>2, <2>1, StockedStays DEF Sound
<1>6. Turn'
  <2>1. main.line.n = head /\ Own(main.line) BY <1>2 DEF Sound, Turn
  <2>2. {"ensure", "early"} \cap (Copying \cup Reading \cup {"persist", "got", "begin"}) = {} /\ "early" \notin Locked
    BY DEF Copying, Reading, Locked
  <2> QED BY <1>2, <1>4, <2>1, <2>2 DEF Turn
<1>7. main'.pc \in Pending \/ Mark = 0 BY <1>2 DEF Pending, Locked, Mark
<1>8. ~(0 > Floor') BY <1>4 DEF Floor
<1>9. main.pc \notin Rotation BY <1>2, RotationOut
<1> QED BY <1>2, <1>3, <1>5, <1>6, <1>7, <1>8, <1>9, UnitsSame, SoundKept

LEMMA UnlockSound == ASSUME KeptInv, Sound, Unlock("main") PROVE Sound'
<1>1. LogTypeOK /\ "main" \in Threads BY DEF KeptInv, RingInv, Threads
<1>2. /\ UNCHANGED <<head, ring, file, ready, boot>> /\ main.pc = "unlock"
      /\ main'.retained = main.retained /\ main'.count = main.count /\ main'.next = main.next
      /\ main'.pc \in {"replay", "early", "idle"}
  <2>1. \E pc \in {"replay", Rest} : Ends("main", pc) BY DEF Unlock
  <2> QED BY <1>1, <2>1, EndsIs, RestIs, MeIs DEF Unlock, At
<1>3. Mark' = Mark BY <1>1, UnlockAhead
<1>4. (Replaying' <=> Replaying) /\ Count' = Count /\ First' = First BY <1>2 DEF Replaying, Count, First
<1>5. Stocked'
  <2>1. ~Copies("main") BY <1>2, MeIs DEF Copies, Copying
  <2> QED BY <1>2, <2>1, StockedStays DEF Sound
<1>6. Turn'
  <2>1. main'.pc \notin Copying \cup Reading \cup Locked \cup {"persist", "got", "begin"}
    BY <1>2 DEF Copying, Reading, Locked
  <2> QED BY <1>2, <1>4, <2>1 DEF Sound, Turn
<1>7. Floor' = Floor BY <1>4 DEF Floor
<1>8. main.pc \notin Pending BY <1>2, PendingIs
<1>9. main.pc \notin Rotation BY <1>2, RotationOut
<1> QED BY <1>2, <1>3, <1>5, <1>6, <1>7, <1>8, <1>9, UnitsSame, SoundKept

\* A replay finds every line that it asks for.
LEMMA ReplayFinds ==
  ASSUME KeptInv, Sound, main.pc \in Reading, Replaying
  PROVE  ring[Slot(main.asked)].sequence = main.asked
<1>1. LogTypeOK /\ ready BY DEF KeptInv, RingInv, Opened
<1>2. main.asked \in 1 .. head BY DEF KeptInv, RingInv, Numbered
<1>3. First + Count = head + 1 /\ First \in Nat /\ Count \in Nat /\ Count <= Capacity /\ head \in Nat
  <2>1. First + Count = head + 1 /\ First \in Nat /\ Count \in Nat /\ head \in Nat
    BY <1>1, CountIs DEF LogTypeOK
  <2>2. Count <= Capacity BY <2>1, Sizes DEF Count
  <2> QED BY <2>1, <2>2
<1>4. main.next \in Nat /\ main.next > 0
  <2>1. main.next \in Nat BY <1>1 DEF LogTypeOK, Local
  <2> QED BY <2>1 DEF Sound, Turn
<1>5. main.asked + Capacity > head
  <2>1. main.asked = First + main.next - 1 BY DEF Sound, Turn
  <2> QED BY <1>3, <1>4, <2>1, Sizes
<1>6. ~Copies("main") BY MeIs DEF Copies, Copying, Reading
<1> QED BY <1>2, <1>5, <1>6 DEF Sound, Stocked

LEMMA ReadSound == ASSUME KeptInv, Sound, Read PROVE Sound'
<1> DEFINE e == ring[Slot(main.asked)]
<1>1. LogTypeOK /\ main \in Local("main") BY DEF KeptInv, RingInv, LogTypeOK
<1>2. main.asked \in Nat /\ main.next \in Nat /\ NoLine \in Line /\ main.a \in Line
  BY <1>1, NoLineIn DEF Local
<1>3. /\ UNCHANGED <<head, ring, file, ready, boot>> /\ main.pc \in Reading /\ main'.count = main.count
      /\ main'.retained = main.retained /\ main'.next = main.next
      /\ \/ \E line \in {NoLine, main.a} : Return(line) /\ (line # NoLine => main.pc = "got")
         \/ /\ main'.asked = main.asked
            /\ \/ main'.pc \in {"copy", "more", "again"}
               \/ main.pc = "again" /\ main'.pc = "got" /\ main'.a = main.a /\ e.sequence = main.asked
  BY <1>1, ReadIs
<1>4. (Replaying' <=> Replaying) /\ Count' = Count /\ First' = First BY <1>3 DEF Replaying, Count, First
<1>5. Replaying => main'.pc # "replay"
  <2> SUFFICES ASSUME Replaying, main'.pc = "replay" PROVE FALSE OBVIOUS
  <2>1. e.sequence = main.asked BY <1>3, ReplayFinds
  <2>2. CASE At("main", "got") /\ Return(main.a)
    <3>1. Own(main.a) BY <2>2, MeIs DEF Sound, Turn, At
    <3>2. main.a # NoLine BY <3>1 DEF Own, NoLine
    <3> QED BY <1>1, <1>2, <2>2, <3>2, ReturnIs
  <2>3. CASE \E pc \in {"copy", "more", "again", "got"} : main'.pc = pc BY <2>3
  <2>4. \/ main' = [main EXCEPT !.pc = "copy"]
        \/ main' = [main EXCEPT !.pc = "more", !.a = e.a]
        \/ main' = [main EXCEPT !.pc = "again", !.b = e.b]
        \/ main' = [main EXCEPT !.pc = "got"]
        \/ At("main", "got") /\ Return(main.a)
    BY <2>1 DEF Read, StillThere
  <2> QED BY <1>1, <2>2, <2>3, <2>4 DEF Local
<1>6. ~(Replaying /\ Return(NoLine)) BY <1>1, <1>2, <1>5, ReturnIs
<1>7. Mark' = Mark BY <1>6, ReadAhead
<1>8. ~Copies("main") BY <1>3, MeIs DEF Copies, Copying, Reading
<1>9. Stocked' BY <1>3, <1>8, StockedStays DEF Sound
<1>10. main.pc \notin Pending /\ Floor' = Floor BY <1>3, <1>4, PendingIs DEF Floor
<1>11. Turn'
  <2>1. CASE \E line \in {NoLine, main.a} : Return(line) /\ (line # NoLine => main.pc = "got")
    <3>1. CASE ~Replaying
      <4>1. main'.pc \in {"early", "idle"} BY <1>1, <1>2, <2>1, <3>1, ReturnIs, RestIs
      <4>2. main'.pc \notin Copying \cup Reading \cup Locked \cup {"persist", "got", "begin"}
        BY <4>1 DEF Copying, Reading, Locked
      <4> QED BY <1>4, <3>1, <4>2 DEF Turn
    <3>2. CASE Replaying
      <4>1. Return(main.a) /\ main.pc = "got" /\ main.a # NoLine BY <1>6, <2>1, <3>2
      <4>2. main'.pc = "ensure" /\ main'.line = main.a BY <1>1, <1>2, <3>2, <4>1, ReturnIs
      <4>3. Own(main.a) /\ main.asked = First + main.next - 1 BY <1>3, <3>2, <4>1 DEF Sound, Turn
      <4>4. main.a.n = main.asked BY <4>1 DEF KeptInv, RingInv, ReadWhole
      <4>5. "ensure" \notin Copying \cup Reading \cup {"persist", "got", "begin"} BY DEF Copying, Reading
      <4>6. main'.count = Count' BY <1>3, <1>4, <3>2 DEF Sound, Turn
      <4> QED BY <1>3, <1>4, <3>2, <4>2, <4>3, <4>4, <4>5, <4>6 DEF Turn
    <3> QED BY <3>1, <3>2
  <2>2. CASE /\ main'.asked = main.asked
             /\ \/ main'.pc \in {"copy", "more", "again"}
                \/ main.pc = "again" /\ main'.pc = "got" /\ main'.a = main.a /\ e.sequence = main.asked
    <3>1. main'.pc \notin Copying \cup Locked \cup {"persist", "begin"} BY <2>2 DEF Copying, Locked
    <3>2. main'.pc = "got" => Own(main'.a)
      <4> SUFFICES ASSUME main'.pc = "got" PROVE Own(main'.a) OBVIOUS
      <4>1. main.pc = "again" /\ main'.a = main.a /\ e.sequence = main.asked BY <2>2
      <4>2. main.a = e.a BY <4>1 DEF KeptInv, RingInv, Reader
      <4>3. main.asked \in 1 .. head /\ Slot(main.asked) \in Places
        BY <1>2, <1>3, SlotIn DEF KeptInv, RingInv, Numbered
      <4>4. Own(e.a) BY <4>1, <4>3 DEF Sound, Stocked
      <4> QED BY <4>1, <4>2, <4>4
    <3>3. Replaying => main.count = Count /\ main.asked = First + main.next - 1 /\ main.next > 0
      BY <1>3 DEF Sound, Turn
    <3> QED BY <1>3, <1>4, <2>2, <3>1, <3>2, <3>3 DEF Turn
  <2> QED BY <1>3, <2>1, <2>2
<1>12. main.pc \notin Rotation BY <1>3, RotationOut
<1> QED BY <1>3, <1>7, <1>9, <1>10, <1>11, <1>12, UnitsSame, SoundKept

LEMMA DriveSound == ASSUME KeptInv, Sound, Draw \/ Start \/ Begin \/ Replay PROVE Sound'
<1>1. LogTypeOK /\ Tidy /\ RoomMade BY DEF KeptInv, RingInv, RoomInv, Roomy
<1>2. main.next \in Nat /\ main.count \in Nat /\ First \in Nat /\ First > 0 /\ head \in Nat /\ Count \in Nat
      /\ First + Count = head + 1
  BY <1>1, MarkIn, CountIs DEF LogTypeOK, Local
<1>3. /\ UNCHANGED <<head, ring, boot>> /\ main'.retained = main.retained
      /\ \/ /\ main.pc = Rest /\ main'.pc = "check" /\ main'.count = main.count
         \/ /\ main.pc = "early" /\ main'.pc = "early" /\ main'.count = main.count
         \/ main.pc = "early" /\ main'.pc = "begin" /\ main'.count = Count
         \/ /\ main.pc = "begin" /\ main'.pc = "ensure" /\ main'.count = main.count
            /\ main'.line = Session /\ main'.next = 0
         \/ /\ main.pc = "replay" /\ main'.pc = "idle" /\ main'.count = 0
            /\ main.next = main.count /\ UNCHANGED ready
         \/ /\ main.pc = "replay" /\ main'.pc = "check" /\ main'.count = main.count
            /\ main'.asked = First + main.next /\ main'.next = main.next + 1
  BY <1>1, DriveIs
<1>4. First' = First /\ Count' = Count BY <1>3 DEF First, Count
<1>5. Stocked'
  <2>1. ~Copies("main") BY <1>3, RestIs, MeIs DEF Copies, Copying
  <2> QED BY <1>3, <2>1, StockedStays DEF Sound
<1>6. main.pc \in {"early", "begin"} => Mark = 0 BY DEF KeptInv, Opened, Mark
<1>7. ~(0 > Floor') BY <1>2, <1>4 DEF Floor
<1>8. main.pc \notin Pending
  <2>1. main.pc \in {"early", "idle", "begin", "replay"} BY <1>3, RestIs
  <2> QED BY <2>1, PendingIs
<1>0. Units' = Units /\ main.pc \notin Rotation
  <2>1. file' = file \/ (~Exists /\ (Created \/ NotCreated)) BY <1>1, DriveIs
  <2>2. main.pc \in {"early", "idle", "begin", "replay"} BY <1>3, RestIs
  <2> QED BY <1>1, <2>1, <2>2, CreatedSteady, UnitsSame, RotationOut
<1>9. CASE main.pc = "replay" /\ main'.pc = "idle" /\ main'.count = 0 /\ main.next = main.count /\ UNCHANGED ready
  <2>1. ~Replaying' BY <1>9 DEF Replaying
  <2>2. Replaying => First + main.next = head + 1 BY <1>2, <1>9 DEF Sound, Turn
  <2>3. Mark = IF ready THEN head + 1 ELSE 0
    BY <1>2, <1>9, <2>2, PendingIs DEF Mark
  <2>4. Mark' = Mark BY <1>3, <1>9, <2>1, <2>3, PendingIs DEF Mark
  <2>5. Mark > Floor' => Mark > Floor
    <3>1. Floor' = 1 BY <2>1 DEF Floor
    <3>2. CASE ~Replaying BY <3>1, <3>2 DEF Floor
    <3>3. CASE Replaying
      <4>1. Count > 0 BY <1>2, <3>3 DEF Sound, Turn, Replaying
      <4>2. Floor = First BY <3>3 DEF Floor
      <4> QED BY <1>2, <2>3, <3>1, <4>1, <4>2
    <3> QED BY <3>2, <3>3
  <2>6. Turn'
    <3>1. "idle" \notin Copying \cup Reading \cup Locked \cup {"persist", "got", "begin"}
      BY DEF Copying, Reading, Locked
    <3> QED BY <1>9, <2>1, <3>1 DEF Turn
  <2> QED BY <1>3, <1>5, <1>8, <2>4, <2>5, <2>6, <1>0, SoundKept
<1>10. CASE ~(main.pc = "replay" /\ main'.pc = "idle")
  <2>1. Mark' = Mark BY <1>10, DriveAhead
  <2>2. "check" \notin Copying \cup Locked \cup {"persist", "got", "begin"}
        /\ {"early", "begin"} \cap (Copying \cup Reading \cup Locked \cup {"persist", "got"}) = {}
        /\ "ensure" \notin Copying \cup Reading \cup {"persist", "got", "begin"}
    BY DEF Copying, Reading, Locked
  <2>3. main.pc \in {"early", "idle"} => main.count = 0 BY DEF KeptInv, RoomInv, Held
  <2>4. CASE main.pc \in {"early", "idle"} /\ main'.pc \in {"early", "check"} /\ main'.count = main.count
    <3>1. ~Replaying /\ ~Replaying' BY <2>3, <2>4 DEF Replaying
    <3>2. Turn' BY <2>2, <2>4, <3>1 DEF Turn
    <3>3. Floor' = Floor BY <3>1 DEF Floor
    <3> QED BY <1>3, <1>5, <1>8, <2>1, <3>2, <3>3, <1>0, SoundKept
  <2>5. CASE main.pc = "early" /\ main'.pc = "begin" /\ main'.count = Count
    <3>1. Turn' BY <1>4, <2>2, <2>5 DEF Turn
    <3> QED BY <1>3, <1>5, <1>6, <1>7, <2>1, <2>5, <3>1, <1>0, SoundKept
  <2>6. CASE /\ main.pc = "begin" /\ main'.pc = "ensure" /\ main'.count = main.count
             /\ main'.line = Session /\ main'.next = 0
    <3>1. main'.count = Count' BY <1>4, <2>6 DEF Sound, Turn
    <3>2. Turn' BY <2>2, <2>6, <3>1 DEF Turn
    <3> QED BY <1>3, <1>5, <1>6, <1>7, <2>1, <2>6, <3>2, <1>0, SoundKept
  <2>7. CASE /\ main.pc = "replay" /\ main'.pc = "check" /\ main'.count = main.count
             /\ main'.asked = First + main.next /\ main'.next = main.next + 1
    <3>1. Replaying' <=> Replaying BY <2>7 DEF Replaying
    <3>2. Floor' = Floor BY <1>4, <3>1 DEF Floor
    <3>3. main'.asked = First' + main'.next - 1 /\ main'.next > 0 BY <1>2, <1>4, <2>7
    <3>4. Replaying => main'.count = Count' BY <1>4, <2>7 DEF Sound, Turn
    <3>5. Turn' BY <2>2, <2>7, <3>1, <3>3, <3>4 DEF Turn
    <3> QED BY <1>3, <1>5, <1>8, <2>1, <3>2, <3>5, <1>0, SoundKept
  <2> QED BY <1>3, <1>10, <2>4, <2>5, <2>6, <2>7, RestIs
<1> QED BY <1>3, <1>9, <1>10

\* The steps of append_log_file_locked in which no call fails.
LEMMA SteppedWell ==
  ASSUME NEW t, NEW to, NEW kept, NEW lim, Stepped(t, to, kept, lim)
  PROVE  LET r == Me(t)
             u == Units \o Text(r.line)
         IN
         \/ /\ (r.pc = "ensure" /\ to = "room") \/ (r.pc = "reopen" /\ to = "rewrite")
            /\ kept = r.retained
            /\ file' = file \/ (~Exists /\ Created)
         \/ r.pc = "room" /\ to = "write" /\ kept = r.retained /\ file' = file
         \/ r.pc = "room" /\ to = "remove" /\ file' = file /\ kept = Retained(Units, Keep(LimitOf(Home)))
         \/ /\ r.pc = "remove" /\ to = "reopen" /\ kept = r.retained
            /\ \/ Home = "ram" /\ file' = [file EXCEPT !["ram"] = NoFile]
               \/ Home = "disk" /\ file' = [file EXCEPT !["disk"] = NoFile, !["stored"] = NoFile]
         \/ r.pc = "rewrite" /\ to = "recheck" /\ kept = r.retained /\ kept = <<>> /\ file' = file
         \/ /\ r.pc = "rewrite" /\ to = "recheck" /\ kept = r.retained
            /\ \/ Home = "ram" /\ file' = RamHas(file, kept)
               \/ Home = "disk" /\ file' = DiskHas(kept)
         \/ r.pc = "recheck" /\ to = "write" /\ kept = <<>> /\ file' = file
         \/ r.pc = "recheck" /\ to = "unlock" /\ ~Fits(t)
         \/ /\ r.pc = "write" /\ to = "unlock" /\ kept = r.retained /\ Fits(t)
            /\ \/ Home = "ram" /\ file' = RamHas(file, u)
               \/ Home = "disk" /\ file' = DiskHas(u)
         \/ NotCreated \/ failed' = failed + 1
BY SMT DEF Stepped, Same

\* What the call leaves in the file and aside while nothing fails and nothing is cut.
LEMMA CalmCall ==
  ASSUME RoomInv, NEW t \in Threads, NEW to, NEW kept, NEW lim, Stepped(t, to, kept, lim),
         failed = 0, failed' = failed,
         ~(Me(t).pc = "rewrite" /\ Home = "ram" /\ Len(Me(t).retained) > RamLimit),
         Me(t).pc \notin Rotation => Me(t).retained = <<>>
  PROVE  LET r == Me(t) IN
         \/ /\ to # "unlock" /\ Units' = Units /\ (to \notin Rotation => kept = <<>>)
            /\ kept \in {r.retained, <<>>, Retained(Units, Keep(LimitOf(Home)))}
         \/ to \in Rotation /\ Units' \in {<<>>, r.retained} /\ kept = r.retained
         \/ to = "unlock" /\ r.pc = "write" /\ Units' = Units \o Text(r.line) /\ kept = <<>>
<1> DEFINE r == Me(t)
           u == Units \o Text(r.line)
           P == \/ /\ to # "unlock" /\ Units' = Units /\ (to \notin Rotation => kept = <<>>)
                   /\ kept \in {r.retained, <<>>, Retained(Units, Keep(LimitOf(Home)))}
                \/ to \in Rotation /\ Units' \in {<<>>, r.retained} /\ kept = r.retained
                \/ to = "unlock" /\ r.pc = "write" /\ Units' = u /\ kept = <<>>
           Opens == /\ (r.pc = "ensure" /\ to = "room") \/ (r.pc = "reopen" /\ to = "rewrite")
                    /\ kept = r.retained
                    /\ file' = file \/ (~Exists /\ Created)
           Enters == r.pc = "room" /\ to = "write" /\ kept = r.retained /\ file' = file
           Rotates == r.pc = "room" /\ to = "remove" /\ file' = file /\ kept = Retained(Units, Keep(LimitOf(Home)))
           Removes == /\ r.pc = "remove" /\ to = "reopen" /\ kept = r.retained
                      /\ \/ Home = "ram" /\ file' = [file EXCEPT !["ram"] = NoFile]
                         \/ Home = "disk" /\ file' = [file EXCEPT !["disk"] = NoFile, !["stored"] = NoFile]
           Spares == r.pc = "rewrite" /\ to = "recheck" /\ kept = r.retained /\ kept = <<>> /\ file' = file
           Rewrites == /\ r.pc = "rewrite" /\ to = "recheck" /\ kept = r.retained
                       /\ \/ Home = "ram" /\ file' = RamHas(file, kept)
                          \/ Home = "disk" /\ file' = DiskHas(kept)
           Suffices == r.pc = "recheck" /\ to = "write" /\ kept = <<>> /\ file' = file
           Loses == r.pc = "recheck" /\ to = "unlock" /\ ~Fits(t)
           Writes == /\ r.pc = "write" /\ to = "unlock" /\ kept = r.retained /\ Fits(t)
                     /\ \/ Home = "ram" /\ file' = RamHas(file, u)
                        \/ Home = "disk" /\ file' = DiskHas(u)
<1> SUFFICES P OBVIOUS
<1>1. /\ LogTypeOK /\ Tidy /\ RoomMade /\ Bounded /\ r \in Local(t)
      /\ r.retained \in Seq(UnitType) /\ r.limit \in Nat
      /\ r.pc \in Working => Exists
      /\ r.pc \in Rotation => /\ RamLimit <= r.limit /\ r.limit <= Limit /\ (~OnDisk => r.limit = RamLimit)
                              /\ Len(r.retained) <= Keep(r.limit)
      /\ r.pc = "recheck" /\ LimitOf(Home) >= r.limit => Fits(t)
  BY Relies DEF RoomInv, Roomy
<1>2. failed' # failed + 1 BY DEF LogTypeOK
<1>3. ~NotCreated BY <1>2 DEF NotCreated, Failing
<1>4. OnDisk => ~file["ram"].exists BY <1>1 DEF Tidy
<1>5. CASE Opens
  <2>1. Units' = Units BY <1>1, <1>5, CreatedSteady, UnitsSame
  <2>2. to = "room" => kept = <<>> BY <1>5 DEF Rotation
  <2>3. to = "rewrite" => to \in Rotation BY DEF Rotation
  <2> QED BY <1>5, <2>1, <2>2, <2>3
<1>6. CASE Enters
  BY <1>6, UnitsSame DEF Rotation
<1>7. CASE Rotates
  BY <1>7, UnitsSame DEF Rotation
<1>8. CASE Removes
  <2>1. file' \in FileType /\ ~file'["ram"].exists /\ file'["disk"].units = <<>>
    <3>1. CASE Home = "ram" /\ file' = [file EXCEPT !["ram"] = NoFile]
      <4>1. file["disk"].units = <<>> BY <1>1, <3>1, HomeHolds DEF Tidy
      <4> QED BY <1>1, <3>1, <4>1, RemovedIs DEF NoFile
    <3>2. CASE Home = "disk" /\ file' = [file EXCEPT !["disk"] = NoFile, !["stored"] = NoFile]
      <4>1. ~file["ram"].exists BY <3>2, HomeHolds, HomesAre
      <4> QED BY <1>1, <3>2, <4>1, RemovedIs DEF NoFile
    <3> QED BY <1>8, <3>1, <3>2
  <2>2. Units' = <<>> BY <2>1, HomeHoldsNext
  <2> QED BY <1>8, <2>2 DEF Rotation
<1>9. CASE Spares
  BY <1>9, UnitsSame DEF Rotation
<1>10. CASE Rewrites
  <2>1. CASE Home = "ram" /\ file' = RamHas(file, kept)
    <3>1. Len(kept) <= RamLimit
      <4>1. Len(kept) \in Nat /\ RamLimit \in Nat BY <1>1, <1>10, Sizes
      <4> QED BY <1>10, <2>1, <4>1
    <3>2. Units' = kept BY <1>1, <1>10, <2>1, <3>1, RamGets
    <3> QED BY <1>10, <3>2 DEF Rotation
  <2>2. CASE Home = "disk" /\ file' = DiskHas(kept)
    <3>1. Exists /\ Len(kept) <= Keep(r.limit) BY <1>1, <1>10, StopNames
    <3>2. Len(kept) <= Limit
      <4>1. Len(kept) \in Nat /\ r.limit \in Nat /\ r.limit <= Limit /\ RamLimit <= r.limit
        BY <1>1, <1>10, StopNames
      <4> QED BY <3>1, <4>1, Sizes
    <3>3. Units' = kept BY <1>1, <1>10, <2>2, <3>1, <3>2, DiskGets
    <3> QED BY <1>10, <3>3 DEF Rotation
  <2> QED BY <1>10, <2>1, <2>2
<1>11. CASE Suffices
  BY <1>11, UnitsSame
<1>12. CASE Loses
  <2>1. RamLimit <= r.limit /\ r.limit <= Limit /\ (~OnDisk => r.limit = RamLimit)
    BY <1>1, <1>12, StopNames
  <2>2. LimitOf(Home) \in Nat /\ RamLimit <= LimitOf(Home) BY <1>1, HomeIn
  <2>3. OnDisk => LimitOf(Home) = Limit BY <1>4, HomeHolds, HomesAre
  <2>4. LimitOf(Home) >= r.limit BY <1>1, <2>1, <2>2, <2>3, Sizes
  <2> QED BY <1>1, <1>12, <2>4
<1>13. CASE Writes
  <2>1. kept = <<>> BY <1>13 DEF Rotation
  <2>2. u \in Seq(UnitType) /\ Len(u) <= LimitOf(Home) /\ Len(u) <= Limit
    BY <1>1, <1>13, TextFits
  <2> HIDE DEF u
  <2>3. CASE Home = "ram" /\ file' = RamHas(file, u)
    <3>1. Len(u) <= RamLimit BY <2>2, <2>3, HomeHolds
    <3>2. Units' = u BY <1>1, <2>2, <2>3, <3>1, RamGets
    <3> QED BY <1>13, <2>1, <3>2
  <2>4. CASE Home = "disk" /\ file' = DiskHas(u)
    <3>1. Exists BY <1>1, <1>13, StopNames
    <3>2. Units' = u BY <1>1, <2>2, <2>4, <3>1, DiskGets
    <3> QED BY <1>13, <2>1, <3>2
  <2> QED BY <1>13, <2>3, <2>4
<1>14. \/ Opens \/ Enters \/ Rotates \/ Removes \/ Spares \/ Rewrites \/ Suffices \/ Loses \/ Writes
       \/ NotCreated \/ failed' = failed + 1
  BY SteppedWell
<1> HIDE DEF P, u, Opens, Enters, Rotates, Removes, Spares, Rewrites, Suffices, Loses, Writes
<1> QED BY <1>2, <1>3, <1>5, <1>6, <1>7, <1>8, <1>9, <1>10, <1>11, <1>12, <1>13, <1>14

LEMMA AppendSound ==
  ASSUME KeptInv, KeptInv', Sound, AppendLine("main"), failed = 0, failed' = failed, ~damaged'
  PROVE  Sound'
<1> DEFINE line == main.line
           u == Units
           m == Mark
<1>1. LogTypeOK /\ LogTypeOK' /\ RoomInv /\ main \in Local("main") /\ "main" \in Threads
  BY DEF KeptInv, RingInv, LogTypeOK, Threads
<1>0. /\ UNCHANGED <<head, ring, ready, boot>> /\ main.pc \in Locked \ {"unlock"} /\ panic' = panic
      /\ ~damaged /\ ~Cuts("main") /\ where # "same"
  BY <1>1, AppendIs, AppendRuns, MeIs
<1>2. PICK to \in Locked, kept \in Seq(UnitType) :
        /\ main'.pc = to /\ main'.retained = kept /\ main'.count = main.count /\ main'.line = line
        /\ main'.next = main.next
        /\ \/ /\ to # "unlock" /\ Units' = u /\ (to \notin Rotation => kept = <<>>)
              /\ kept \in {main.retained, <<>>, Retained(u, Keep(LimitOf(Home)))}
           \/ to \in Rotation /\ Units' \in {<<>>, main.retained} /\ kept = main.retained
           \/ to = "unlock" /\ main.pc = "write" /\ Units' = u \o Text(line) /\ kept = <<>>
  <2>1. PICK to \in Locked, kept \in Seq(UnitType), lim \in Nat :
          /\ main'.pc = to /\ main'.retained = kept /\ main'.line = line /\ main'.count = main.count
          /\ main'.next = main.next /\ Stepped("main", to, kept, lim)
    BY <1>1, AppendIs, MeIs
  <2>2. ~(main.pc = "rewrite" /\ Home = "ram" /\ Len(main.retained) > RamLimit)
    BY <1>0, MeIs DEF Cuts, At
  <2>3. main.pc \notin Rotation => main.retained = <<>> BY DEF Sound, Aside
  <2>4. \/ /\ to # "unlock" /\ Units' = u /\ (to \notin Rotation => kept = <<>>)
           /\ kept \in {main.retained, <<>>, Retained(u, Keep(LimitOf(Home)))}
        \/ to \in Rotation /\ Units' \in {<<>>, main.retained} /\ kept = main.retained
        \/ to = "unlock" /\ main.pc = "write" /\ Units' = u \o Text(line) /\ kept = <<>>
    BY <1>1, <2>1, <2>2, <2>3, CalmCall, MeIs, SMTT(40)
  <2> QED BY <2>1, <2>4
<1>3. Aside'
  <2>1. to \notin Rotation => kept = <<>> BY <1>2
  <2> QED BY <1>2, <2>1 DEF Aside
<1>4. ready BY <1>0, <1>1, MeIs DEF KeptInv, Opened
<1>5. (Replaying' <=> Replaying) /\ First' = First /\ Count' = Count BY <1>0, <1>2 DEF Replaying, First, Count
<1>6. Stocked'
  <2>1. ~Copies("main") BY <1>0, MeIs, PendingIs DEF Copies
  <2> QED BY <1>0, <2>1, StockedStays DEF Sound
<1>7. main.pc \in Pending /\ (to # "unlock" => to \in Pending) BY <1>0, PendingIs
<1>8. m = line.n BY <1>4, <1>7 DEF Mark
<1>9. \/ main.line = Session /\ main.next = 0 /\ main.count = Count
      \/ Own(line) /\ line.n = IF Replaying THEN First + main.next - 1 ELSE head
  BY <1>0 DEF Sound, Turn
<1>10. main'.pc \notin Copying \cup Reading \cup {"persist", "got", "begin"}
  <2>1. \A pc \in Locked : pc \notin Copying \cup Reading \cup {"persist", "got", "begin"}
    BY DEF Locked, Copying, Reading
  <2> QED BY <1>2, <2>1
<1>11. Turn'
  <2>1. Replaying => main.count = Count BY DEF Sound, Turn
  <2> QED BY <1>0, <1>2, <1>5, <1>9, <1>10, <2>1 DEF Turn
<1>12. m \in Nat /\ u \in Seq(UnitType) /\ main.retained \in Seq(UnitType) /\ line \in Line
       /\ First \in Nat /\ First > 0 /\ main.next \in Nat /\ head \in Nat /\ Count \in Nat /\ First + Count = head + 1
       /\ Keep(LimitOf(Home)) \in Nat
  BY <1>1, KeptTypes, MarkIn, CountIs, HomeIn DEF Local
<1>13. Book(u, boot, m) /\ Closed(u, boot, m) /\ Closed(main.retained, boot, m)
  BY <1>0, HomesAre DEF KeptInv, Sound, Books, Units
<1>14. CASE to # "unlock"
  <2>1. Mark' = m BY <1>0, <1>2, <1>4, <1>7, <1>14 DEF Mark
  <2> HIDE DEF m, u
  <2>2. Closed(Retained(u, Keep(LimitOf(Home))), boot, m) /\ Closed(<<>>, boot, m)
    BY <1>12, <1>13, ClosedRetained, EmptyClosed
  <2>3. Units' \in {u, <<>>, main.retained} /\ kept \in {main.retained, <<>>, Retained(u, Keep(LimitOf(Home)))}
    BY <1>2, <1>14
  <2>4. Closed(Units', boot', Mark') BY <1>0, <1>13, <2>1, <2>2, <2>3
  <2>5. Closed(main'.retained, boot', Mark') BY <1>0, <1>2, <1>13, <2>1, <2>2, <2>3
  <2>6. Reached' BY <1>2, <1>7, <1>14 DEF Reached
  <2> QED BY <1>3, <1>6, <1>11, <2>4, <2>5, <2>6 DEF Sound
<1>15. CASE to = "unlock"
  <2>1. Mark' = IF Replaying THEN First + main.next ELSE head + 1
    BY <1>0, <1>2, <1>15, DoneAhead
  <2>2. Units' = u \o Text(line) /\ main'.retained = <<>>
    <3>1. "unlock" \notin Rotation BY RotationOut
    <3> QED BY <1>2, <1>15, <3>1
  <2>3. Closed(main'.retained, boot', Mark') BY <2>2, EmptyClosed
  <2>4. CASE main.line = Session /\ main.next = 0 /\ main.count = Count
    <3>1. m = 0 /\ line.by = "init" BY <1>8, <2>4 DEF Session
    <3>2. boot \in Nat BY KeptTypes
    <3> DEFINE v == Text(line)
               w == u \o v
    <3>3. v \in Seq(UnitType) /\ \A i \in 1 .. Len(v) : v[i].by = "init" BY <1>12, <3>1, <3>2, TextIs
    <3>4. \A i \in 1 .. Len(u) : ~(u[i].boot = boot /\ u[i].by = "main")
      <4>1. \A i \in 1 .. Len(u) : u[i] \in UnitType BY <1>12
      <4>2. \A i \in 1 .. Len(u) : u[i].n \in Nat BY <4>1 DEF UnitType
      <4> QED BY <1>13, <3>1, <4>2 DEF Book, Below
    <3> HIDE DEF v
    <3>5. /\ Len(u) \in Nat /\ Len(w) = Len(u) + Len(v) /\ Len(v) \in Nat
          /\ \A i \in 1 .. Len(u) : w[i] = u[i]
          /\ \A i \in Len(u) + 1 .. Len(w) : w[i] = v[i - Len(u)]
      BY <1>12, <3>3, CatIs
    <3> HIDE DEF w, u
    <3>6. ASSUME NEW i \in 1 .. Len(w) PROVE ~(w[i].boot = boot /\ w[i].by = "main")
      <4>1. CASE i \in 1 .. Len(u) BY <3>4, <3>5, <4>1
      <4>2. CASE i \in Len(u) + 1 .. Len(w)
        <5>1. i - Len(u) \in 1 .. Len(v) BY <3>5, <4>2
        <5> QED BY <3>3, <3>5, <4>2, <5>1
      <4> QED BY <3>5, <4>1, <4>2
    <3>7. Closed(Units', boot', Mark')
      <4>1. Units' = w BY <2>2 DEF v, w
      <4> QED BY <1>0, <3>6, <4>1 DEF Closed
    <3>8. ~(Mark' > Floor')
      <4>1. CASE Replaying BY <1>5, <1>12, <2>1, <2>4, <4>1 DEF Floor
      <4>2. CASE ~Replaying
        <5>1. Count = 0 BY <1>12, <2>4, <4>2 DEF Replaying
        <5>2. head = 0
          <6>1. CASE head > Capacity BY <5>1, <6>1, Sizes DEF Count
          <6>2. CASE ~(head > Capacity) BY <5>1, <6>2 DEF Count
          <6> QED BY <6>1, <6>2
        <5> QED BY <1>5, <2>1, <4>2, <5>2 DEF Floor
      <4> QED BY <4>1, <4>2
    <3>9. Reached' BY <3>8 DEF Reached
    <3> QED BY <1>3, <1>6, <1>11, <2>3, <3>7, <3>9 DEF Sound
  <2>5. CASE Own(line) /\ line.n = IF Replaying THEN First + main.next - 1 ELSE head
    <3>1. line.n \in Nat /\ boot \in Nat BY <1>8, <1>12, KeptTypes
    <3>2. Mark' = line.n + 1
      <4>1. CASE Replaying BY <1>12, <2>1, <2>5, <4>1
      <4>2. CASE ~Replaying BY <1>12, <2>1, <2>5, <4>2
      <4> QED BY <4>1, <4>2
    <3>3. Book(u, boot, line.n) /\ Closed(u, boot, line.n) BY <1>8, <1>13
    <3> HIDE DEF u, m, line
    <3>4. Closed(u \o Text(line), boot, line.n + 1) /\ Has(u \o Text(line), boot, line.n)
      BY <1>12, <2>5, <3>1, <3>3, ClosedAppend
    <3>5. Closed(Units', boot', Mark') BY <1>0, <2>2, <3>2, <3>4
    <3>6. Mark' - 1 = line.n BY <3>1, <3>2
    <3>7. Has(Units', boot', Mark' - 1) BY <1>0, <2>2, <3>4, <3>6
    <3>8. Reached' BY <3>7 DEF Reached
    <3> QED BY <1>3, <1>6, <1>11, <2>3, <3>5, <3>8 DEF Sound
  <2> QED BY <1>9, <2>4, <2>5
<1> QED BY <1>14, <1>15

\* At the start of a boot there is nothing to be missing.
LEMMA StartSound ==
  ASSUME KeptInv', ~damaged', head' = 0, main'.pc = "early", main'.count = 0, main'.retained = <<>>, ~ready',
         \A s \in Places : ring'[s].sequence = 0
  PROVE  Sound'
<1>1. Mark' = 0 /\ ~Replaying' BY DEF Mark, Replaying
<1>2. Stocked' BY DEF Stocked
<1>3. "early" \notin Copying \cup Reading \cup Locked \cup {"persist", "got", "begin"}
  BY DEF Copying, Reading, Locked
<1>4. Turn' BY <1>1, <1>3 DEF Turn
<1>5. Reached' BY <1>1 DEF Reached, Floor
<1>6. Closed(Units', boot', Mark')
  <2>1. Units' \in Seq(UnitType) /\ Book(Units', boot', Mark')
    <3>1. Units' = file'[Home'].units /\ Home' \in Homes BY HomesAre DEF Units
    <3>2. \A h \in Homes : file'[h].units \in Seq(UnitType) /\ Book(file'[h].units, boot', Mark')
      BY HomeHoldsNext DEF KeptInv, RingInv, LogTypeOK, Books
    <3> QED BY <3>1, <3>2
  <2>2. \A i \in 1 .. Len(Units') : Units'[i] \in UnitType BY <2>1
  <2>3. \A i \in 1 .. Len(Units') : Units'[i].n \in Nat BY <2>2 DEF UnitType
  <2>4. \A i \in 1 .. Len(Units') :
          Units'[i].boot = boot' /\ Units'[i].by = "main" => Units'[i].n < 0
    BY <1>1, <2>1 DEF Book, Below
  <2> QED BY <2>3, <2>4 DEF Closed
<1>7. Closed(main'.retained, boot', Mark') /\ Aside' BY EmptyClosed DEF Aside
<1> QED BY <1>2, <1>4, <1>5, <1>6, <1>7 DEF Sound

LEMMA CalmStep == ASSUME ~Laps, Capacity > 1, CalmInv, [Next]_vars PROVE CalmInv'
<1>1. KeptInv /\ KeptInv' BY KeptStep DEF CalmInv
<1>2. LogTypeOK /\ failed \in Nat BY <1>1 DEF KeptInv, RingInv, LogTypeOK
<1> SUFFICES ASSUME Calm', ~damaged' PROVE Sound' BY <1>1 DEF CalmInv
<1>3. CASE PowerOff
  <2>1. /\ head' = 0 /\ main'.pc = "early" /\ main'.count = 0 /\ main'.retained = <<>> /\ ~ready'
        /\ ring' = [s \in Places |-> Entry] /\ Entry.sequence = 0
    BY <1>3 DEF PowerOff, Thread, Entry, Places
  <2> QED BY <1>1, <2>1, StartSound
<1>4. ASSUME NEW cpu \in Panics, Panic(cpu) PROVE FALSE BY <1>4, LogAssumption DEF Panic, Calm
<1>5. ASSUME Sound, NEW t \in Threads, Works(t), failed' = failed, failed = 0, where = "none" PROVE Sound'
  <2>1. CASE t = "main"
    BY <1>1, <1>5, <2>1, RecordSound, PersistSound, AppendSound, UnlockSound DEF Works
  <2>2. CASE t = "panic"
    <3>1. Me(t).pc = "off" BY <1>1, <1>5, <2>2, MeIs DEF KeptInv, RingInv, Alone
    <3>2. ~AppendLine(t)
      <4>1. "off" \notin Locked BY DEF Locked
      <4> QED BY <1>2, <3>1, <4>1, AppendIs
    <3> QED BY <1>5, <3>1, <3>2 DEF Works, Record, Write, Persist, Unlock, At
  <2> QED BY <2>1, <2>2 DEF Threads
<1>6. ASSUME NEW t \in Threads, Works(t) PROVE Sound'
  <2>1. where' = where BY <1>6 DEF Works, Record, Write, Persist, AppendLine, Unlock
  <2>2. failed' \in {failed, failed + 1} /\ ~damaged
    <3>1. CASE AppendLine(t) BY <1>2, <3>1, AppendIs
    <3> QED BY <1>6, <3>1 DEF Works, Record, Write, Persist, Unlock
  <2>3. Calm /\ failed' = failed /\ failed = 0 BY <1>2, <2>1, <2>2 DEF Calm
  <2> QED BY <1>5, <1>6, <2>2, <2>3 DEF CalmInv, Calm
<1>7. CASE (\E len \in Lens : Log(len)) \/ Read \/ Draw \/ Start \/ Begin \/ Replay
  <2>1. where' = where BY <1>7 DEF Log, Read, Draw, Start, Begin, Replay
  <2>2. failed' \in {failed, failed + 1} /\ ~damaged
    <3>1. CASE Draw \/ Start \/ Begin \/ Replay
      <4>1. failed' \in {failed, failed + 1} BY <1>2, <3>1, DriveIs
      <4>2. damaged' = damaged \/ damaged' = (damaged \/ RunsOver) BY <1>2, <3>1, DriveIs
      <4>3. damaged => damaged' BY <4>2, Zenon
      <4> QED BY <4>1, <4>3
    <3>2. CASE (\E len \in Lens : Log(len)) \/ Read
      <4>1. failed' = failed /\ damaged' = damaged BY <3>2 DEF Log, Read
      <4> QED BY <4>1
    <3> QED BY <1>7, <3>1, <3>2
  <2>3. Sound BY <1>2, <2>1, <2>2 DEF Calm, CalmInv
  <2> QED BY <1>1, <1>7, <2>3, LogSound, ReadSound, DriveSound
<1>8. CASE UNCHANGED vars
  <2>1. Sound BY <1>8 DEF CalmInv, Calm, vars
  <2>2. /\ Mark' = Mark /\ Floor' = Floor /\ Stocked' /\ Turn'
    BY <1>8, <2>1 DEF vars, Mark, Floor, Sound, Stocked, Turn, Replaying, First, Count, Copies, Number, Me
  <2>3. Units' = Units BY <1>8, UnitsSame DEF vars
  <2>4. Reached' /\ Aside' BY <1>8, <2>1, <2>2, <2>3 DEF vars, Sound, Reached, Aside
  <2> QED BY <1>8, <2>1, <2>2, <2>3, <2>4 DEF vars, Sound
<1> QED BY <1>3, <1>4, <1>6, <1>7, <1>8 DEF Next, Threads

LEMMA CalmInit == ASSUME Init PROVE CalmInv
<1>1. /\ head = 0 /\ main.pc = "early" /\ main.count = 0 /\ main.retained = <<>> /\ ~ready
      /\ Units = <<>> /\ ring = [s \in Places |-> Entry] /\ Entry.sequence = 0
  BY HomesAre DEF Init, Reset, Thread, Entry, NoFile, Places, Units
<1>2. Mark = 0 /\ ~Replaying BY <1>1 DEF Mark, Replaying
<1>3. "early" \notin Copying \cup Reading \cup Locked \cup {"persist", "got", "begin"}
  BY DEF Copying, Reading, Locked
<1>4. Stocked /\ Turn BY <1>1, <1>2, <1>3 DEF Stocked, Turn
<1>5. Reached BY <1>2 DEF Reached, Floor
<1> QED BY <1>1, <1>4, <1>5, KeptInit, EmptyClosed DEF CalmInv, Sound, Aside

\* The log's file, whatever is rotated, fails or loses power between two calls: whole
\* lines, those of the main loop in the order it logged them, each unit once, and as
\* long as no call of append_log_file_locked failed and no processor panicked, none of
\* the end of the log missing when the main loop is at rest.  A file that a rotation on
\* the way to RAM has cut, or a failed write has run over, is set apart by damaged.
THEOREM LogIsKept == ~Laps /\ Capacity > 1 => (Spec => []LogKept)
<1> SUFFICES ASSUME ~Laps, Capacity > 1 PROVE Spec => []LogKept OBVIOUS
<1>1. Init => CalmInv BY CalmInit
<1>2. CalmInv /\ [Next]_vars => CalmInv' BY CalmStep
<1>3. CalmInv => LogKept
  <2> SUFFICES ASSUME CalmInv PROVE LogKept OBVIOUS
  <2>1. KeptInv /\ LogTypeOK /\ head \in Nat BY DEF CalmInv, KeptInv, RingInv, LogTypeOK
  <2> SUFFICES ASSUME ~damaged PROVE LogKept BY DEF LogKept
  <2>2. Lined(Units) /\ Ordered(Units) BY HomesAre DEF CalmInv, KeptInv, Books, Book, Units
  <2>3. FileWhole BY <2>2 DEF Lined, FileWhole
  <2>4. FileInOrder BY <2>2 DEF Ordered, FileInOrder
  <2>5. NothingMissing
    <3> SUFFICES ASSUME ready, main.pc = "idle", where = "none", failed = 0, head > 0 PROVE NothingMissing
      BY DEF NothingMissing
    <3>1. Sound BY DEF CalmInv, Calm
    <3>2. ~Replaying BY <2>1 DEF KeptInv, RoomInv, Held, Replaying
    <3>3. Mark = head + 1 /\ Floor = 1 /\ main.pc \notin Pending BY <3>2, PendingIs DEF Mark, Floor
    <3>4. Has(Units, boot, head) BY <2>1, <3>1, <3>3 DEF Sound, Reached
    <3>5. Closed(Units, boot, head + 1) BY <3>1, <3>3 DEF Sound
    <3> DEFINE at == {j \in 1 .. Len(Units) : Units[j].boot = boot /\ Units[j].by = "main"}
               kept == {w.n : w \in {Units[i] : i \in at}}
    <3>6. ASSUME NEW n PROVE n \in kept <=> Has(Units, boot, n) BY DEF Has
    <3>7. head \in kept BY <3>4, <3>6
    <3>8. ASSUME NEW n \in kept, NEW k \in n .. head PROVE k \in kept
      <4>1. PICK i \in at : Units[i].n = n OBVIOUS
      <4>2. k \in Units[i].n .. (head + 1) - 1 BY <2>1, <4>1
      <4>3. Has(Units, boot, k) BY <3>5, <4>1, <4>2 DEF Closed
      <4> QED BY <3>6, <4>3
    <3> HIDE DEF kept
    <3>9. head \in kept /\ \A n \in kept : \A k \in n .. head : k \in kept BY <3>7, <3>8
    <3> USE DEF kept
    <3> QED BY <3>9 DEF NothingMissing
  <2> QED BY <2>3, <2>4, <2>5 DEF LogKept
<1> QED BY <1>1, <1>2, <1>3, PTL DEF Spec
==============================================================================
