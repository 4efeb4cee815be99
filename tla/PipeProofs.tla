------------------------------ MODULE PipeProofs ------------------------------
(***************************************************************************)
(* RingOK and PipeOrder, for buffers of every size, any number of pipes,   *)
(* reads and writes of any length, and whatever the processes do besides.  *)
(*                                                                         *)
(* A ring is judged by Front, its bytes from the tail on.  A read moves    *)
(* the tail past what Front begins with; a write stores behind its end,    *)
(* and Step wraps at most once on the way, so that two offsets below the   *)
(* size of the buffer never name one place.                                *)
(***************************************************************************)
EXTENDS Pipe, ProcessProofs, SequenceTheorems, TLAPS

Places == 0 .. PipeBuffer - 1

\* A pipe with its owner o.
PipeOf(o) ==
  [used : BOOLEAN, owner_pid : {o}, readers : Nat, writers : Nat, head : Places,
   tail : Places, count : 0 .. PipeBuffer, data : [Places -> Nat]]

IsPipe(p) == p \in PipeOf(p.owner_pid)

PipeTypeOK ==
  /\ DOMAIN pipes = Ids /\ pipes = [id \in Ids |-> pipes[id]]
  /\ \A id \in Ids : IsPipe(pipes[id])
  /\ written \in [Ids -> Seq(Nat)] /\ taken \in [Ids -> Seq(Nat)] /\ bytes \in Nat

\* head is where the ring ends, and a pipe is used while it has an end.
Agrees(p) ==
  /\ p.head = Step(p.tail, p.count)
  /\ p.used <=> p.readers + p.writers > 0

InOrder(p, w, t) == p.used => w = t \o Front(p, p.count)

PipeInv ==
  /\ PipeTypeOK
  /\ \A id \in Ids : Agrees(pipes[id]) /\ InOrder(pipes[id], written[id], taken[id])

-----------------------------------------------------------------------------
(***************************************************************************)
(* The ring.                                                               *)
(***************************************************************************)
LEMMA BufferPositive == PipeBuffer \in Nat /\ PipeBuffer > 0
BY PipeAssumption

\* The place n further on, which wraps at most once.
LEMMA StepIs ==
  ASSUME NEW k \in Places, NEW n \in 0 .. PipeBuffer
  PROVE  /\ Step(k, n) \in Places
         /\ Step(k, n) = IF k + n < PipeBuffer THEN k + n ELSE k + n - PipeBuffer
BY BufferPositive DEF Step, Places

\* Two steps are one.
LEMMA StepTwice ==
  ASSUME NEW k \in Places, NEW m \in 0 .. PipeBuffer, NEW n \in 0 .. PipeBuffer,
         m + n <= PipeBuffer
  PROVE  Step(Step(k, m), n) = Step(k, m + n)
<1>1. m + n \in 0 .. PipeBuffer BY BufferPositive
<1>2. Step(k, m) \in Places BY StepIs
<1>3. Step(k, m) = IF k + m < PipeBuffer THEN k + m ELSE k + m - PipeBuffer BY StepIs
<1>4. Step(k, m + n) = IF k + (m + n) < PipeBuffer THEN k + (m + n) ELSE k + (m + n) - PipeBuffer
  BY <1>1, StepIs
<1>5. Step(Step(k, m), n) = IF Step(k, m) + n < PipeBuffer THEN Step(k, m) + n
                            ELSE Step(k, m) + n - PipeBuffer
  BY <1>2, StepIs
<1> QED BY <1>1, <1>2, <1>3, <1>4, <1>5, BufferPositive DEF Places

\* Offsets below the size of the buffer name different places.
LEMMA StepApart ==
  ASSUME NEW k \in Places, NEW m \in Places, NEW n \in Places, Step(k, m) = Step(k, n)
  PROVE  m = n
<1>1. m \in 0 .. PipeBuffer /\ n \in 0 .. PipeBuffer BY BufferPositive DEF Places
<1>2. Step(k, m) = IF k + m < PipeBuffer THEN k + m ELSE k + m - PipeBuffer BY <1>1, StepIs
<1>3. Step(k, n) = IF k + n < PipeBuffer THEN k + n ELSE k + n - PipeBuffer BY <1>1, StepIs
<1>4. /\ k \in Nat /\ k < PipeBuffer /\ m \in Nat /\ m < PipeBuffer /\ n \in Nat /\ n < PipeBuffer
      /\ PipeBuffer \in Nat
  BY BufferPositive DEF Places
<1>5. (IF k + m < PipeBuffer THEN k + m ELSE k + m - PipeBuffer)
      = (IF k + n < PipeBuffer THEN k + n ELSE k + n - PipeBuffer)
  BY <1>2, <1>3
<1> HIDE DEF Places
<1>6. \A b, i, j, l \in Nat : i < b /\ j < b /\ l < b
        /\ (IF i + j < b THEN i + j ELSE i + j - b) = (IF i + l < b THEN i + l ELSE i + l - b)
        => j = l
  OBVIOUS
<1> QED BY <1>4, <1>5, <1>6

LEMMA FrontIs ==
  ASSUME NEW p, IsPipe(p), NEW n \in 0 .. PipeBuffer
  PROVE  /\ Front(p, n) \in Seq(Nat) /\ Len(Front(p, n)) = n
         /\ \A k \in 1 .. n : Front(p, n)[k] = p.data[Step(p.tail, k - 1)]
<1>1. p.tail \in Places /\ p.data \in [Places -> Nat] BY DEF IsPipe, PipeOf
<1>2. \A k \in 1 .. n : k - 1 \in 0 .. PipeBuffer BY BufferPositive
<1>3. \A k \in 1 .. n : Step(p.tail, k - 1) \in Places BY <1>1, <1>2, StepIs
<1>4. \A k \in 1 .. n : p.data[Step(p.tail, k - 1)] \in Nat BY <1>1, <1>3
<1>5. n \in Nat BY BufferPositive
<1> QED BY <1>4, <1>5 DEF Front

\* Front of nothing.
LEMMA FrontNone == ASSUME NEW p PROVE Front(p, 0) = <<>>
BY DEF Front

\* Two sequences of numbers are equal if they are as long and agree everywhere.
LEMMA SameSeq ==
  ASSUME NEW s \in Seq(Nat), NEW t \in Seq(Nat), Len(s) = Len(t),
         \A k \in 1 .. Len(s) : s[k] = t[k]
  PROVE  s = t
OBVIOUS

\* A read of n bytes takes the beginning of Front and leaves the rest.
LEMMA ReadSplits ==
  ASSUME NEW p, IsPipe(p), NEW n \in 0 .. p.count
  PROVE  LET q == [p EXCEPT !.tail = Step(@, n), !.count = @ - n] IN
         /\ IsPipe(q) /\ Step(q.tail, q.count) = Step(p.tail, p.count)
         /\ q.used = p.used /\ q.head = p.head /\ q.readers = p.readers /\ q.writers = p.writers
         /\ Front(p, p.count) = Front(p, n) \o Front(q, q.count)
<1> DEFINE q == [p EXCEPT !.tail = Step(@, n), !.count = @ - n]
<1>1. p.tail \in Places /\ p.count \in 0 .. PipeBuffer /\ n \in 0 .. PipeBuffer
      /\ p.count - n \in 0 .. PipeBuffer /\ n + (p.count - n) = p.count
      /\ p.count \in Nat /\ n \in Nat /\ n <= p.count /\ p.count <= PipeBuffer
      /\ PipeBuffer \in Nat
  BY BufferPositive DEF IsPipe, PipeOf
<1>2. Step(p.tail, n) \in Places BY <1>1, StepIs
<1>3. IsPipe(q) /\ q.tail = Step(p.tail, n) /\ q.count = p.count - n /\ q.data = p.data
      /\ q.used = p.used /\ q.head = p.head /\ q.readers = p.readers /\ q.writers = p.writers
  BY <1>1, <1>2 DEF IsPipe, PipeOf
<1> HIDE DEF q
<1>4. Step(q.tail, q.count) = Step(p.tail, p.count) BY <1>1, <1>3, StepTwice
<1> DEFINE F == Front(p, p.count)
           A == Front(p, n)
           B == Front(q, q.count)
<1>5. F \in Seq(Nat) /\ Len(F) = p.count
      /\ \A k \in 1 .. p.count : F[k] = p.data[Step(p.tail, k - 1)]
  BY <1>1, FrontIs
<1>6. A \in Seq(Nat) /\ Len(A) = n /\ \A k \in 1 .. n : A[k] = p.data[Step(p.tail, k - 1)]
  BY <1>1, FrontIs
<1>7. B \in Seq(Nat) /\ Len(B) = p.count - n
      /\ \A k \in 1 .. p.count - n : B[k] = p.data[Step(Step(p.tail, n), k - 1)]
  <2>1. q.count \in 0 .. PipeBuffer BY <1>1, <1>3
  <2> QED BY <1>3, <2>1, FrontIs
<1> HIDE DEF F, A, B
<1>8. A \o B \in Seq(Nat) /\ Len(A \o B) = p.count
      /\ \A k \in 1 .. p.count : (A \o B)[k] = IF k <= n THEN A[k] ELSE B[k - n]
  <2>1. Len(A) + Len(B) = p.count BY <1>1, <1>6, <1>7
  <2>2. /\ A \o B \in Seq(Nat) /\ Len(A \o B) = Len(A) + Len(B)
        /\ \A i \in 1 .. Len(A) + Len(B) :
             (A \o B)[i] = IF i <= Len(A) THEN A[i] ELSE B[i - Len(A)]
    BY <1>6, <1>7, ConcatProperties
  <2>3. Len(A) = n BY <1>6
  <2> QED BY <2>1, <2>2, <2>3
<1>9. \A k \in 1 .. p.count : F[k] = (A \o B)[k]
  <2> SUFFICES ASSUME NEW k \in 1 .. p.count PROVE F[k] = (A \o B)[k] OBVIOUS
  <2>1. CASE k <= n
    <3>1. k \in 1 .. n BY <1>1, <2>1
    <3> QED BY <1>5, <1>6, <1>8, <2>1, <3>1
  <2>2. CASE ~(k <= n)
    <3> DEFINE c == p.count
    <3>0. c \in Nat /\ n \in Nat /\ c <= PipeBuffer /\ PipeBuffer \in Nat /\ k \in 1 .. c
      BY <1>1
    <3> HIDE DEF c
    <3>1. k - n \in 1 .. c - n /\ (k - n) - 1 \in 0 .. PipeBuffer
          /\ n + ((k - n) - 1) = k - 1 /\ n + ((k - n) - 1) <= PipeBuffer
          /\ ~(k <= n)
      BY <3>0, <2>2
    <3>2. Step(Step(p.tail, n), (k - n) - 1) = Step(p.tail, k - 1)
      BY <1>1, <3>1, StepTwice
    <3>3. (A \o B)[k] = B[k - n] BY <1>8, <3>1
    <3>4. B[k - n] = p.data[Step(Step(p.tail, n), (k - n) - 1)] BY <1>7, <3>1 DEF c
    <3>5. F[k] = p.data[Step(p.tail, k - 1)] BY <1>5
    <3> HIDE DEF q
    <3> QED BY <3>2, <3>3, <3>4, <3>5, Zenon
  <2> QED BY <2>1, <2>2
<1>10. F = A \o B BY <1>5, <1>8, <1>9, SameSeq
<1> QED BY <1>3, <1>4, <1>10 DEF q, F, A, B

\* The n numbers a write takes from its program.
Fresh(n) == [k \in 1 .. n |-> bytes + k]

LEMMA FreshIs ==
  ASSUME bytes \in Nat, NEW n \in Nat
  PROVE  /\ Fresh(n) \in Seq(Nat) /\ Len(Fresh(n)) = n
         /\ \A k \in 1 .. n : Fresh(n)[k] = bytes + k
BY DEF Fresh

\* A write of n bytes into free places goes behind the end of Front.
LEMMA WriteAppends ==
  ASSUME NEW p, IsPipe(p), p.head = Step(p.tail, p.count), bytes \in Nat,
         NEW n \in 0 .. PipeBuffer - p.count, n > 0
  PROVE  LET q == Stored(p, n) IN
         /\ IsPipe(q) /\ q.head = Step(q.tail, q.count)
         /\ q.used = p.used /\ q.readers = p.readers /\ q.writers = p.writers
         /\ Front(q, q.count) = Front(p, p.count) \o Fresh(n)
<1> DEFINE q == Stored(p, n)
<1>1. /\ p.tail \in Places /\ p.head \in Places /\ p.count \in Nat /\ n \in Nat
      /\ PipeBuffer \in Nat /\ p.count + n <= PipeBuffer /\ p.data \in [Places -> Nat]
  BY BufferPositive DEF IsPipe, PipeOf
<1>2. \A j \in 0 .. n : Step(p.head, j) = Step(p.tail, p.count + j)
  <2> SUFFICES ASSUME NEW j \in 0 .. n PROVE Step(p.head, j) = Step(p.tail, p.count + j)
    OBVIOUS
  <2>1. j \in 0 .. PipeBuffer /\ p.count \in 0 .. PipeBuffer /\ p.count + j <= PipeBuffer
    BY <1>1
  <2> QED BY <1>1, <2>1, StepTwice
<1> DEFINE D(k) == q.data[Step(p.tail, k)]
<1>3. q.data = [k \in DOMAIN p.data |->
                  IF \E j \in 0 .. n - 1 : k = Step(p.head, j)
                  THEN bytes + 1 + (CHOOSE j \in 0 .. n - 1 : k = Step(p.head, j))
                  ELSE p.data[k]]
      /\ q.head = Step(p.head, n) /\ q.count = p.count + n /\ q.tail = p.tail
      /\ q.used = p.used /\ q.readers = p.readers /\ q.writers = p.writers
      /\ q.owner_pid = p.owner_pid
  BY DEF Stored, IsPipe, PipeOf
<1>4. \A k \in 0 .. p.count - 1 : D(k) = p.data[Step(p.tail, k)]
  <2> SUFFICES ASSUME NEW k \in 0 .. p.count - 1 PROVE D(k) = p.data[Step(p.tail, k)]
    OBVIOUS
  <2>1. k \in 0 .. PipeBuffer /\ k \in Places BY <1>1 DEF Places
  <2>2. Step(p.tail, k) \in Places BY <1>1, <2>1, StepIs
  <2>3. ~ \E j \in 0 .. n - 1 : Step(p.tail, k) = Step(p.head, j)
    <3> SUFFICES ASSUME NEW j \in 0 .. n - 1, Step(p.tail, k) = Step(p.head, j) PROVE FALSE
      OBVIOUS
    <3> DEFINE c == p.count
    <3>0. c \in Nat /\ n \in Nat /\ c + n <= PipeBuffer /\ PipeBuffer \in Nat /\ k \in 0 .. c - 1
      BY <1>1
    <3> HIDE DEF c
    <3>1a. j \in 0 .. n /\ c + j \in Places /\ c + j # k BY <3>0 DEF Places
    <3>1. j \in 0 .. n /\ p.count + j \in Places /\ p.count + j # k BY <3>1a DEF c
    <3>2. Step(p.tail, k) = Step(p.tail, p.count + j) BY <1>2, <3>1
    <3> QED BY <1>1, <2>1, <3>1, <3>2, StepApart
  <2> QED BY <1>1, <1>3, <2>2, <2>3
<1>5. \A j \in 0 .. n - 1 : D(p.count + j) = bytes + 1 + j
  <2> SUFFICES ASSUME NEW j \in 0 .. n - 1 PROVE D(p.count + j) = bytes + 1 + j
    OBVIOUS
  <2> DEFINE k == Step(p.tail, p.count + j)
             c == p.count
  <2>0. c \in Nat /\ n \in Nat /\ c + n <= PipeBuffer /\ PipeBuffer \in Nat BY <1>1
  <2> HIDE DEF c
  <2>a. \A i \in 0 .. n - 1 : i \in 0 .. n /\ c + i \in 0 .. PipeBuffer /\ c + i \in Places
    BY <2>0 DEF Places
  <2>1. j \in 0 .. n /\ p.count + j \in 0 .. PipeBuffer /\ p.count + j \in Places
    BY <2>a DEF c
  <2>2. k \in Places /\ k = Step(p.head, j) BY <1>1, <1>2, <2>1, StepIs
  <2>3. \A i \in 0 .. n - 1 : k = Step(p.head, i) => i = j
    <3> SUFFICES ASSUME NEW i \in 0 .. n - 1, k = Step(p.head, i) PROVE i = j
      OBVIOUS
    <3>1. i \in 0 .. n /\ p.count + i \in Places BY <2>a DEF c
    <3>2. Step(p.tail, p.count + i) = Step(p.tail, p.count + j) BY <1>2, <3>1, SMTT(30)
    <3>3. p.count + i = p.count + j BY <1>1, <2>1, <3>1, <3>2, StepApart
    <3> QED BY <1>1, <3>3
  <2> HIDE DEF k
  <2>4. (CHOOSE i \in 0 .. n - 1 : k = Step(p.head, i)) = j BY <2>2, <2>3
  <2>5. q.data[k] = bytes + 1 + (CHOOSE i \in 0 .. n - 1 : k = Step(p.head, i))
    BY <1>1, <1>3, <2>2
  <2> QED BY <2>4, <2>5 DEF k
<1>6. q.data \in [Places -> Nat]
  <2> SUFFICES ASSUME NEW k \in Places PROVE q.data[k] \in Nat
    <3>1. DOMAIN p.data = Places BY <1>1
    <3>2. q.data = [k \in Places |-> q.data[k]] BY <1>3, <3>1
    <3> QED BY <3>2
  <2>1. CASE \E j \in 0 .. n - 1 : k = Step(p.head, j)
    <3>1. (CHOOSE j \in 0 .. n - 1 : k = Step(p.head, j)) \in 0 .. n - 1 BY <2>1
    <3>2. q.data[k] = bytes + 1 + (CHOOSE j \in 0 .. n - 1 : k = Step(p.head, j))
      BY <1>1, <1>3, <2>1
    <3> HIDE DEF q
    <3> QED BY <1>1, <3>1, <3>2
  <2>2. CASE ~ \E j \in 0 .. n - 1 : k = Step(p.head, j)
    <3>1. q.data[k] = p.data[k] BY <1>1, <1>3, <2>2
    <3> QED BY <1>1, <3>1
  <2> QED BY <2>1, <2>2
<1>7. q.head = Step(q.tail, q.count) /\ q.head \in Places
  <2>1. n \in 0 .. n /\ n \in 0 .. PipeBuffer BY <1>1
  <2> QED BY <1>1, <1>2, <1>3, <2>1, StepIs
<1>8. q = [p EXCEPT !.data = q.data, !.head = q.head, !.count = q.count]
  BY DEF Stored, IsPipe, PipeOf
<1>9. q.count \in 0 .. PipeBuffer BY <1>1, <1>3
<1> HIDE DEF q
<1>10. IsPipe(q) BY <1>6, <1>7, <1>8, <1>9 DEF IsPipe, PipeOf
<1> DEFINE c == p.count
           F == Front(p, c)
           G == Front(q, c + n)
           A == F \o Fresh(n)
<1>11. c \in Nat /\ c \in 0 .. PipeBuffer /\ c + n \in Nat /\ c + n \in 0 .. PipeBuffer BY <1>1
<1>12. F \in Seq(Nat) /\ Len(F) = c /\ \A k \in 1 .. c : F[k] = p.data[Step(p.tail, k - 1)]
  BY <1>11, FrontIs
<1>13. G \in Seq(Nat) /\ Len(G) = c + n
       /\ \A k \in 1 .. c + n : G[k] = q.data[Step(p.tail, k - 1)]
  <2>1. G \in Seq(Nat) /\ Len(G) = c + n
        /\ \A k \in 1 .. c + n : G[k] = q.data[Step(q.tail, k - 1)]
    BY <1>10, <1>11, FrontIs
  <2>2. q.tail = p.tail BY <1>3
  <2> QED BY <2>1, <2>2
<1>14. A \in Seq(Nat) /\ Len(A) = c + n
       /\ \A k \in 1 .. c + n : A[k] = IF k <= c THEN F[k] ELSE Fresh(n)[k - c]
  <2>1. Fresh(n) \in Seq(Nat) /\ Len(Fresh(n)) = n BY <1>1, FreshIs
  <2>2. /\ A \in Seq(Nat) /\ Len(A) = Len(F) + Len(Fresh(n))
        /\ \A i \in 1 .. Len(F) + Len(Fresh(n)) :
             A[i] = IF i <= Len(F) THEN F[i] ELSE Fresh(n)[i - Len(F)]
    BY <1>12, <2>1, ConcatProperties
  <2>3. Len(F) = c BY <1>12
  <2> QED BY <2>1, <2>2, <2>3
<1> HIDE DEF F, G, A
<1>15. \A k \in 1 .. c + n : G[k] = A[k]
  <2> SUFFICES ASSUME NEW k \in 1 .. c + n PROVE G[k] = A[k] OBVIOUS
  <2>1. G[k] = D(k - 1) BY <1>13
  <2>2. CASE k <= c
    <3>1. k \in 1 .. c /\ k - 1 \in 0 .. c - 1 BY <1>11, <2>2
    <3>2. D(k - 1) = p.data[Step(p.tail, k - 1)] BY <1>4, <3>1
    <3>3. F[k] = p.data[Step(p.tail, k - 1)] BY <1>12, <3>1
    <3>4. A[k] = F[k] BY <1>14, <2>2
    <3> QED BY <2>1, <3>2, <3>3, <3>4, Zenon
  <2>3. CASE ~(k <= c)
    <3>1. k - c \in 1 .. n /\ (k - c) - 1 \in 0 .. n - 1 /\ c + ((k - c) - 1) = k - 1
          /\ bytes + 1 + ((k - c) - 1) = bytes + (k - c)
      BY <1>1, <1>11, <2>3
    <3>2. D(c + ((k - c) - 1)) = bytes + 1 + ((k - c) - 1) BY <1>5, <3>1
    <3>3. D(k - 1) = bytes + (k - c) BY <3>1, <3>2
    <3>4. Fresh(n)[k - c] = bytes + (k - c) BY <1>1, <3>1, FreshIs
    <3>5. A[k] = Fresh(n)[k - c] BY <1>14, <2>3
    <3> QED BY <2>1, <3>3, <3>4, <3>5, Zenon
  <2> QED BY <2>2, <2>3
<1>16. G = A BY <1>13, <1>14, <1>15, SameSeq
<1> QED BY <1>3, <1>7, <1>10, <1>16 DEF q, G, A, F

-----------------------------------------------------------------------------
(***************************************************************************)
(* The calls.                                                              *)
(***************************************************************************)
LEMMA PipesStill == PipeInv /\ UNCHANGED <<pipes, history>> => PipeInv'
BY DEF PipeInv, PipeTypeOK, history

\* A call changes one pipe, and its history.
LEMMA OneChanges ==
  ASSUME PipeInv, NEW id \in Ids, NEW q, IsPipe(q), Agrees(q),
         pipes' = [pipes EXCEPT ![id] = q], bytes' \in Nat,
         NEW w \in Seq(Nat), written' = [written EXCEPT ![id] = w],
         NEW t \in Seq(Nat), taken' = [taken EXCEPT ![id] = t], InOrder(q, w, t)
  PROVE  PipeInv'
<1>1. /\ pipes'[id] = q /\ \A i \in Ids \ {id} : pipes'[i] = pipes[i]
      /\ DOMAIN pipes' = Ids /\ pipes' = [i \in Ids |-> pipes'[i]]
  BY DEF PipeInv, PipeTypeOK
<1>2. /\ written'[id] = w /\ \A i \in Ids \ {id} : written'[i] = written[i]
      /\ taken'[id] = t /\ \A i \in Ids \ {id} : taken'[i] = taken[i]
      /\ written' \in [Ids -> Seq(Nat)] /\ taken' \in [Ids -> Seq(Nat)]
  BY DEF PipeInv, PipeTypeOK
<1>3. \A i \in Ids : IsPipe(pipes'[i]) /\ Agrees(pipes'[i])
  BY <1>1 DEF PipeInv, PipeTypeOK
<1>4. \A i \in Ids : InOrder(pipes'[i], written'[i], taken'[i])
  BY <1>1, <1>2 DEF PipeInv
<1> QED BY <1>1, <1>2, <1>3, <1>4 DEF PipeInv, PipeTypeOK

LEMMA Regrouped ==
  ASSUME NEW a \in Seq(Nat), NEW b \in Seq(Nat), NEW c \in Seq(Nat)
  PROVE  a \o b \in Seq(Nat) /\ (a \o b) \o c = a \o (b \o c)
<1>1. a \o b \in Seq(Nat) BY ConcatProperties
<1>2. (a \o b) \o c = a \o (b \o c) BY ConcatAssociative
<1> QED BY <1>1, <1>2

LEMMA SameAt == ASSUME NEW f, NEW S, f \in [Ids -> S], NEW id \in Ids PROVE f = [f EXCEPT ![id] = f[id]]
OBVIOUS

\* A new pipe, with the bytes an earlier one left in its buffer.
LEMMA NewIs ==
  ASSUME NEW o, NEW d \in [Places -> Nat]
  PROVE  LET q == [NewPipe(o) EXCEPT !.data = d]
         IN /\ IsPipe(q) /\ q.used /\ q.readers = 1 /\ q.writers = 1 /\ q.count = 0
            /\ q.head = 0 /\ q.tail = 0
<1> DEFINE r == NewPipe(o)
<1>1. 0 \in Places /\ 0 \in 0 .. PipeBuffer BY BufferPositive DEF Places
<1>2. [k \in 0 .. PipeBuffer - 1 |-> 0] \in [Places -> Nat] BY DEF Places
<1>3. r \in PipeOf(o) BY <1>1, <1>2 DEF NewPipe, PipeOf
<1>4. r.used /\ r.readers = 1 /\ r.writers = 1 /\ r.count = 0 /\ r.head = 0 /\ r.tail = 0
  BY DEF NewPipe
<1> DEFINE q == [r EXCEPT !.data = d]
<1> HIDE DEF r
<1>5. q \in PipeOf(o) /\ q.owner_pid = o BY <1>3 DEF PipeOf
<1>6. q.used /\ q.readers = 1 /\ q.writers = 1 /\ q.count = 0 /\ q.head = 0 /\ q.tail = 0
  BY <1>3, <1>4 DEF PipeOf
<1>7. IsPipe(q) BY <1>5 DEF IsPipe
<1> QED BY <1>6, <1>7 DEF r

LEMMA CreateKeeps == PipeInv /\ Create => PipeInv'
<1> SUFFICES ASSUME PipeInv, Create PROVE PipeInv' OBVIOUS
<1>1. CASE UNCHANGED <<pipes, history>> BY <1>1, PipesStill
<1>2. CASE \E id \in First({i \in Ids : ~pipes[i].used}) :
             /\ pipes' = [pipes EXCEPT ![id] = [NewPipe(CurrentPid) EXCEPT !.data = pipes[id].data]]
             /\ written' = [written EXCEPT ![id] = <<>>] /\ taken' = [taken EXCEPT ![id] = <<>>]
             /\ UNCHANGED bytes
  <2>1. PICK id \in Ids :
          /\ pipes' = [pipes EXCEPT ![id] = [NewPipe(CurrentPid) EXCEPT !.data = pipes[id].data]]
          /\ written' = [written EXCEPT ![id] = <<>>] /\ taken' = [taken EXCEPT ![id] = <<>>]
          /\ UNCHANGED bytes
    BY <1>2 DEF First
  <2> DEFINE q == [NewPipe(CurrentPid) EXCEPT !.data = pipes[id].data]
  <2>2. pipes[id].data \in [Places -> Nat] /\ 0 \in Places /\ 0 \in 0 .. PipeBuffer
    BY BufferPositive DEF PipeInv, PipeTypeOK, IsPipe, PipeOf, Places
  <2>3. /\ IsPipe(q) /\ q.used /\ q.readers = 1 /\ q.writers = 1 /\ q.count = 0
        /\ q.head = 0 /\ q.tail = 0
    BY <2>2, NewIs
  <2>4. <<>> \in Seq(Nat) OBVIOUS
  <2> HIDE DEF q
  <2>5. Agrees(q)
    <3>1. Step(0, 0) = 0 BY <2>2, StepIs, BufferPositive
    <3> QED BY <2>3, <3>1 DEF Agrees
  <2>6. InOrder(q, <<>>, <<>>) BY <2>3, FrontNone DEF InOrder
  <2>7. pipes' = [pipes EXCEPT ![id] = q] /\ bytes' \in Nat
    BY <2>1 DEF q, PipeInv, PipeTypeOK
  <2> QED BY <2>1, <2>3, <2>4, <2>5, <2>6, <2>7, OneChanges
<1> QED BY <1>1, <1>2 DEF Create

LEMMA PipeReadKeeps ==
  ASSUME PipeInv, NEW h, NEW capacity \in Nat, PipeRead(h, capacity) PROVE PipeInv'
<1>1. CASE UNCHANGED <<pipes, history>> BY <1>1, PipesStill
<1>2. CASE \E id \in Ids : LET p == pipes[id]
                              n == Least(p.count, capacity)
                          IN /\ pipes' = [pipes EXCEPT ![id].tail = Step(@, n), ![id].count = @ - n]
                             /\ taken' = [taken EXCEPT ![id] = @ \o Front(p, n)]
                             /\ UNCHANGED <<written, bytes>>
  <2>1. PICK id \in Ids :
          LET p == pipes[id]
              n == Least(p.count, capacity)
          IN /\ pipes' = [pipes EXCEPT ![id].tail = Step(@, n), ![id].count = @ - n]
             /\ taken' = [taken EXCEPT ![id] = @ \o Front(p, n)]
             /\ UNCHANGED <<written, bytes>>
    BY <1>2
  <2> DEFINE p == pipes[id]
             n == Least(p.count, capacity)
             q == [p EXCEPT !.tail = Step(@, n), !.count = @ - n]
             t == taken[id] \o Front(p, n)
  <2>2. IsPipe(p) /\ Agrees(p) /\ InOrder(p, written[id], taken[id]) /\ written[id] \in Seq(Nat)
        /\ taken[id] \in Seq(Nat) /\ DOMAIN pipes = Ids
    BY DEF PipeInv, PipeTypeOK
  <2>3. p.count \in 0 .. PipeBuffer BY <2>2 DEF IsPipe, PipeOf
  <2>4. n \in 0 .. p.count BY <2>3, BufferPositive DEF Least
  <2>5. pipes' = [pipes EXCEPT ![id] = q] BY <2>1, <2>2
  <2> HIDE DEF p, n
  <2>6. /\ IsPipe(q) /\ Step(q.tail, q.count) = Step(p.tail, p.count)
        /\ q.used = p.used /\ q.head = p.head /\ q.readers = p.readers /\ q.writers = p.writers
        /\ Front(p, p.count) = Front(p, n) \o Front(q, q.count)
    BY <2>2, <2>4, ReadSplits
  <2> HIDE DEF q
  <2>7. Agrees(q) BY <2>2, <2>6 DEF Agrees
  <2>8. Front(p, n) \in Seq(Nat) /\ Front(q, q.count) \in Seq(Nat)
    <3>1. n \in 0 .. PipeBuffer BY <2>3, <2>4, BufferPositive
    <3>2. q.count \in 0 .. PipeBuffer BY <2>6 DEF IsPipe, PipeOf
    <3> QED BY <2>2, <2>6, <3>1, <3>2, FrontIs
  <2>9. t \in Seq(Nat) /\ t \o Front(q, q.count) = taken[id] \o (Front(p, n) \o Front(q, q.count))
    BY <2>2, <2>8, Regrouped
  <2>10. InOrder(q, written[id], t) BY <2>2, <2>6, <2>9 DEF InOrder
  <2>11. written' = [written EXCEPT ![id] = written[id]] /\ bytes' \in Nat
    BY <2>1, SameAt DEF PipeInv, PipeTypeOK
  <2>12. taken' = [taken EXCEPT ![id] = t] BY <2>1 DEF p, n
  <2> HIDE DEF t
  <2> QED BY <2>2, <2>5, <2>6, <2>7, <2>9, <2>10, <2>11, <2>12, OneChanges
<1> QED BY <1>1, <1>2 DEF PipeRead, Refused

LEMMA PipeWriteKeeps ==
  ASSUME PipeInv, NEW h, NEW length \in Nat, PipeWrite(h, length) PROVE PipeInv'
<1>1. CASE UNCHANGED <<pipes, history>> BY <1>1, PipesStill
<1>2. CASE \E id \in Ids : LET p == pipes[id]
                              n == Least(Space(p), length)
                          IN /\ n > 0 /\ pipes' = [pipes EXCEPT ![id] = Stored(p, n)]
                             /\ written' = [written EXCEPT ![id] = @ \o [k \in 1 .. n |-> bytes + k]]
                             /\ bytes' = bytes + n /\ UNCHANGED taken
  <2>1. PICK id \in Ids :
          LET p == pipes[id]
              n == Least(Space(p), length)
          IN /\ n > 0 /\ pipes' = [pipes EXCEPT ![id] = Stored(p, n)]
             /\ written' = [written EXCEPT ![id] = @ \o [k \in 1 .. n |-> bytes + k]]
             /\ bytes' = bytes + n /\ UNCHANGED taken
    BY <1>2
  <2> DEFINE p == pipes[id]
             n == Least(Space(p), length)
             q == Stored(p, n)
             w == written[id] \o Fresh(n)
  <2>2. IsPipe(p) /\ Agrees(p) /\ InOrder(p, written[id], taken[id]) /\ written[id] \in Seq(Nat)
        /\ taken[id] \in Seq(Nat) /\ bytes \in Nat
    BY DEF PipeInv, PipeTypeOK
  <2>3. p.count \in 0 .. PipeBuffer BY <2>2 DEF IsPipe, PipeOf
  <2>4. n \in 0 .. PipeBuffer - p.count /\ n \in Nat BY <2>3, BufferPositive DEF Least, Space
  <2>5. pipes' = [pipes EXCEPT ![id] = q] /\ n > 0 /\ bytes' = bytes + n BY <2>1
  <2>6. written' = [written EXCEPT ![id] = w] BY <2>1 DEF Fresh
  <2>7. taken' = [taken EXCEPT ![id] = taken[id]] BY <2>1, SameAt DEF PipeInv, PipeTypeOK
  <2> HIDE DEF p, n
  <2>8. /\ IsPipe(q) /\ q.head = Step(q.tail, q.count)
        /\ q.used = p.used /\ q.readers = p.readers /\ q.writers = p.writers
        /\ Front(q, q.count) = Front(p, p.count) \o Fresh(n)
    BY <2>2, <2>4, <2>5, WriteAppends DEF Agrees
  <2> HIDE DEF q
  <2>9. Agrees(q) BY <2>2, <2>8 DEF Agrees
  <2>10. Front(p, p.count) \in Seq(Nat) /\ Fresh(n) \in Seq(Nat)
    BY <2>2, <2>3, <2>4, FrontIs, FreshIs
  <2>11. w \in Seq(Nat) BY <2>2, <2>10, ConcatProperties
  <2>12. (taken[id] \o Front(p, p.count)) \o Fresh(n)
         = taken[id] \o (Front(p, p.count) \o Fresh(n))
    BY <2>2, <2>10, Regrouped
  <2>13. InOrder(q, w, taken[id]) BY <2>2, <2>8, <2>12 DEF InOrder
  <2>14. bytes' \in Nat BY <2>2, <2>4, <2>5
  <2> HIDE DEF w
  <2> QED BY <2>2, <2>5, <2>6, <2>7, <2>8, <2>9, <2>11, <2>13, <2>14, OneChanges
<1> QED BY <1>1, <1>2 DEF PipeWrite, Refused

LEMMA PipeCloseKeeps == ASSUME PipeInv, NEW h, PipeClose(h) PROVE PipeInv'
<1>1. CASE UNCHANGED <<pipes, history>> BY <1>1, PipesStill
<1>2. CASE \E id \in Ids, side \in {Read, Writing} :
             Owned(id) /\ pipes' = [pipes EXCEPT ![id] = Ended(@, side)] /\ UNCHANGED history
  <2>1. PICK id \in Ids, side \in {Read, Writing} :
          Owned(id) /\ pipes' = [pipes EXCEPT ![id] = Ended(@, side)] /\ UNCHANGED history
    BY <1>2
  <2> DEFINE p == pipes[id]
             q == Ended(p, side)
  <2>2. IsPipe(p) /\ Agrees(p) /\ InOrder(p, written[id], taken[id]) /\ p.used
        /\ written[id] \in Seq(Nat) /\ taken[id] \in Seq(Nat)
    BY <2>1 DEF PipeInv, PipeTypeOK, Owned, Owns
  <2>3. pipes' = [pipes EXCEPT ![id] = q] BY <2>1
  <2>4. written' = [written EXCEPT ![id] = written[id]] /\ taken' = [taken EXCEPT ![id] = taken[id]]
        /\ bytes' \in Nat
    BY <2>1, SameAt DEF PipeInv, PipeTypeOK, history
  <2> HIDE DEF p
  <2> DEFINE r == IF side = Read /\ p.readers > 0 THEN p.readers - 1 ELSE p.readers
             v == IF side = Writing /\ p.writers > 0 THEN p.writers - 1 ELSE p.writers
             u == r > 0 \/ v > 0
  <2>5. q = [p EXCEPT !.readers = r, !.writers = v, !.used = u]
    BY <2>2 DEF Ended, Released, IsPipe, PipeOf
  <2>6. r \in Nat /\ v \in Nat /\ u \in BOOLEAN /\ (u <=> r + v > 0)
    BY <2>2 DEF IsPipe, PipeOf
  <2> HIDE DEF q, r, v, u
  <2>7. /\ IsPipe(q) /\ q.used = u /\ q.readers = r /\ q.writers = v
        /\ q.head = p.head /\ q.tail = p.tail /\ q.count = p.count /\ q.data = p.data
    BY <2>2, <2>5, <2>6 DEF IsPipe, PipeOf
  <2>8. Agrees(q) BY <2>2, <2>6, <2>7 DEF Agrees
  <2>9. Front(q, q.count) = Front(p, p.count) BY <2>7 DEF Front
  <2>10. InOrder(q, written[id], taken[id]) BY <2>2, <2>9 DEF InOrder
  <2> QED BY <2>2, <2>3, <2>4, <2>7, <2>8, <2>10, OneChanges
<1> QED BY <1>1, <1>2 DEF PipeClose, Refused

-----------------------------------------------------------------------------
LEMMA PipeInitInv == PipeInit => PipeInv
<1> SUFFICES ASSUME PipeInit PROVE PipeInv OBVIOUS
<1> DEFINE q == [NewPipe(0) EXCEPT !.used = FALSE, !.readers = 0, !.writers = 0]
<1>1. pipes = [id \in Ids |-> q] /\ written = [id \in Ids |-> <<>>]
      /\ taken = [id \in Ids |-> <<>>] /\ bytes = 0
  BY DEF PipeInit
<1>2. 0 \in Places /\ 0 \in 0 .. PipeBuffer BY BufferPositive DEF Places
<1>3. /\ IsPipe(q) /\ ~q.used /\ q.readers = 0 /\ q.writers = 0 /\ q.count = 0
      /\ q.head = 0 /\ q.tail = 0
  <2> DEFINE r == NewPipe(0)
  <2>1. [k \in 0 .. PipeBuffer - 1 |-> 0] \in [Places -> Nat] BY DEF Places
  <2>2. r \in PipeOf(0) BY <1>2, <2>1 DEF NewPipe, PipeOf
  <2>3. r.count = 0 /\ r.head = 0 /\ r.tail = 0 BY DEF NewPipe
  <2> HIDE DEF r
  <2>4. q = [r EXCEPT !.used = FALSE, !.readers = 0, !.writers = 0] BY DEF r
  <2> QED BY <2>2, <2>3, <2>4 DEF PipeOf, IsPipe
<1> HIDE DEF q
<1>5. Agrees(q)
  <2>1. Step(0, 0) = 0 BY <1>2, StepIs, BufferPositive
  <2> QED BY <1>3, <2>1 DEF Agrees
<1>6. InOrder(q, <<>>, <<>>) BY <1>3 DEF InOrder
<1>7. PipeTypeOK BY <1>1, <1>3 DEF PipeTypeOK
<1> QED BY <1>1, <1>5, <1>6, <1>7 DEF PipeInv

LEMMA PipeStep == PipeInv /\ [PipeNext]_pipeVars => PipeInv'
<1> SUFFICES ASSUME PipeInv, [PipeNext]_pipeVars PROVE PipeInv' OBVIOUS
<1>1. CASE Next /\ UNCHANGED <<pipes, history>> BY <1>1, PipesStill
<1>3. CASE Create BY <1>3, CreateKeeps
<1>2. CASE \E h \in Handles, n \in Lengths : PipeRead(h, n) \/ PipeWrite(h, n)
  <2>1. Lengths \subseteq Nat BY PipeAssumption
  <2> QED BY <1>2, <2>1, PipeReadKeeps, PipeWriteKeeps
<1>4. CASE \E h \in Handles : PipeClose(h) BY <1>4, PipeCloseKeeps
<1>5. CASE UNCHANGED pipeVars BY <1>5, PipesStill DEF pipeVars, history
<1> QED BY <1>1, <1>3, <1>2, <1>4, <1>5 DEF PipeNext

LEMMA PipeAlways == PipeSpec => []PipeInv
BY PipeInitInv, PipeStep, PTL DEF PipeSpec

\* The head, the tail and the count of a ring agree after every read, write and close, and
\* a pipe stays in the table as long as one of its ends is open.
THEOREM RingsAgree == PipeSpec => []RingOK
<1>1. PipeInv => RingOK
  BY DEF PipeInv, PipeTypeOK, IsPipe, PipeOf, Agrees, RingOK, Places
<1> QED BY <1>1, PipeAlways, PTL

\* A pipe hands out the bytes written to it, each once and in their order.
THEOREM BytesInOrder == PipeSpec => []PipeOrder
<1>1. PipeInv => PipeOrder BY DEF PipeInv, InOrder, PipeOrder
<1> QED BY <1>1, PipeAlways, PTL

-----------------------------------------------------------------------------
(***************************************************************************)
(* Sleeping on a channel.  But for process_sleep_on, no handler and no     *)
(* switch puts a task to sleep on one: whoever waits on a channel, and not *)
(* for a thread, waited on it before.                                      *)
(***************************************************************************)
OldChannel(p, q) ==
  WaitsSo(q) => \/ q.wait_channel = NoChannel
                \/ WaitsSo(p) /\ q.wait_channel = p.wait_channel /\ q.pid = p.pid

OldChannels(P, Q) == \A s \in Slots : OldChannel(P[s], Q[s])

LEMMA OldTwice ==
  ASSUME NEW P, NEW Q, NEW R, OldChannels(P, Q), OldChannels(Q, R) PROVE OldChannels(P, R)
BY DEF OldChannels, OldChannel

LEMMA CalmOld == ASSUME NEW P, NEW Q, Calm(P, Q) PROVE OldChannels(P, Q)
BY DEF Calm, SameChannels, ChannelSlot, OldChannels, OldChannel

\* Only slot i changes.
LEMMA OldAt ==
  ASSUME NEW P, NEW Q, NEW i \in Slots, \A s \in Slots \ {i} : Q[s] = P[s],
         OldChannel(P[i], Q[i])
  PROVE  OldChannels(P, Q)
<1>1. ASSUME NEW s \in Slots PROVE OldChannel(P[s], Q[s])
  <2>1. CASE s = i BY <2>1
  <2>2. CASE s # i
    <3>1. Q[s] = P[s] BY <2>2
    <3> QED BY <3>1 DEF OldChannel
  <2> QED BY <2>1, <2>2
<1> QED BY <1>1 DEF OldChannels

\* The scheduler, whatever slot it takes.
LEMMA SetStateOld ==
  ASSUME NEW P \in Table, NEW i \in Slots, NEW v \in States \ {"WAITING"}
  PROVE  OldChannels(P, [P EXCEPT ![i].state = v]) /\ [P EXCEPT ![i].state = v] \in Table
<1> DEFINE r == [P[i] EXCEPT !.state = v]
           Q == [P EXCEPT ![i] = r]
<1>1. r \in Slot /\ r.state = v BY DEF Table, Slot
<1>2. [P EXCEPT ![i].state = v] = Q OBVIOUS
<1> HIDE DEF r
<1>3. Q \in Table /\ Q[i] = r /\ \A s \in Slots \ {i} : Q[s] = P[s] BY <1>1 DEF Table
<1> HIDE DEF Q
<1>4. OldChannel(P[i], Q[i]) BY <1>1, <1>3 DEF OldChannel, WaitsSo
<1>5. OldChannels(P, Q) BY <1>3, <1>4, OldAt
<1> QED BY <1>2, <1>3, <1>5

LEMMA ScheduleOld ==
  ASSUME TypeOK, NEW P \in Table, NEW flag \in BOOLEAN, Schedule(P, flag)
  PROVE  OldChannels(P, proc')
<1> DEFINE Q == Charge(P, flag)
<1>0. current \in Slots BY DEF TypeOK
<1>1. CASE proc' = P BY <1>1, CalmSame, CalmOld
<1>2. CASE proc' = [P EXCEPT ![current].ticks_used = @ + 1]
  <2> DEFINE v == P[current].ticks_used + 1
  <2>1. proc' = [P EXCEPT ![current].ticks_used = v] BY <1>2
  <2> HIDE DEF v
  <2> QED BY <1>0, <2>1, CalmFields, CalmOld
<1>3. OldChannels(P, Q) /\ Q \in Table BY <1>0, ChargeCalm, CalmOld
<1>4. CASE proc' = Q BY <1>3, <1>4
<1> HIDE DEF Q
<1>5. ASSUME NEW n \in Successor(Q), proc' = SwitchTo(Q, n) PROVE OldChannels(Q, proc')
  <2> DEFINE put == IF Running(Q) THEN [Q EXCEPT ![current].state = "READY"] ELSE Q
             run == [put EXCEPT ![n].state = "RUNNING"]
  <2>1. n \in Slots BY SuccessorIn
  <2>2. put \in Table /\ OldChannels(Q, put)
    BY <1>0, <1>3, SetStateOld, CalmSame, CalmOld DEF States
  <2> HIDE DEF put
  <2>3. run \in Table /\ OldChannels(put, run) BY <2>1, <2>2, SetStateOld DEF States
  <2>4. proc' = IF Q[current].reap_pending THEN ReapProcess(run, current) ELSE run
    BY <1>5 DEF SwitchTo, put
  <2> HIDE DEF run
  <2>5. OldChannels(run, proc') BY <1>0, <2>3, <2>4, ReapCalm, CalmSame, CalmOld
  <2> QED BY <2>2, <2>3, <2>5, OldTwice
<1>6. ASSUME NEW n \in Successor(Q), proc' = SwitchTo(Q, n) PROVE OldChannels(P, proc')
  BY <1>3, <1>5, <1>6, OldTwice
<1> QED BY <1>1, <1>2, <1>4, <1>6 DEF Schedule, LockedSchedule, Q

\* The handlers.
LEMMA EnteredOld ==
  ASSUME SchedInv
  PROVE  /\ TypeOK /\ proc \in Table /\ current \in Slots /\ resched \in BOOLEAN
         /\ Legal(Entered(proc)) /\ Entered(proc) \in Table
         /\ SameStates(proc, Entered(proc))
         /\ OldChannels(proc, Entered(proc))
BY EnteredCalm, CalmOld, CurrentLegal, LegalEntered DEF SchedInv, TypeOK, Table

LEMMA NewOld ==
  ASSUME SchedInv, NEW s \in FindFreeSlot(proc), NEW r, r.state = "READY",
         \/ proc' = [proc EXCEPT ![s] = r]
         \/ \E v : proc' = [Entered(proc) EXCEPT ![s] = r, ![current].eax = v]
  PROVE  OldChannels(proc, proc')
<1> DEFINE E == Entered(proc)
<1>1. s \in Slots /\ proc[s].state = "UNUSED" BY FreeSlot
<1>2. /\ current \in Slots /\ proc \in Table /\ E \in Table /\ OldChannels(proc, E)
  BY EnteredOld
<1> HIDE DEF E
<1>3. CASE proc' = [proc EXCEPT ![s] = r]
  <2>1. proc'[s] = r /\ \A t \in Slots \ {s} : proc'[t] = proc[t] BY <1>1, <1>2, <1>3 DEF Table
  <2>2. OldChannel(proc[s], proc'[s]) BY <2>1 DEF OldChannel, WaitsSo
  <2> QED BY <1>1, <2>1, <2>2, OldAt
<1>4. CASE \E v : proc' = [E EXCEPT ![s] = r, ![current].eax = v]
  <2>1. PICK v : proc' = [E EXCEPT ![s] = r, ![current].eax = v] BY <1>4
  <2>2. \A t \in Slots \ {s, current} : proc'[t] = E[t] BY <1>1, <1>2, <2>1 DEF Table
  <2>3. s # current => proc'[s] = r BY <1>1, <1>2, <2>1 DEF Table
  <2>4. s = current => proc'[s] = [r EXCEPT !.eax = v] BY <1>1, <1>2, <2>1 DEF Table
  <2>5. s # current => proc'[current] = [E[current] EXCEPT !.eax = v]
    BY <1>1, <1>2, <2>1 DEF Table
  <2>6. E[current] \in Slot BY <1>2 DEF Table
  <2>7. [E[current] EXCEPT !.eax = v].state = E[current].state
        /\ [E[current] EXCEPT !.eax = v].wait_channel = E[current].wait_channel
        /\ [E[current] EXCEPT !.eax = v].join_tid = E[current].join_tid
        /\ [E[current] EXCEPT !.eax = v].pid = E[current].pid
    BY <2>6 DEF Slot
  <2>8. [r EXCEPT !.eax = v].state = "READY" OBVIOUS
  <2>9. OldChannels(E, proc')
    BY <2>2, <2>3, <2>4, <2>5, <2>7, <2>8, ZenonT(60) DEF OldChannels, OldChannel, WaitsSo
  <2> QED BY <1>2, <2>9, OldTwice
<1> QED BY <1>3, <1>4 DEF E

LEMMA CallOld ==
  ASSUME SchedInv, NEW n, NEW Q \in {Waits(proc, n), Joins(proc, n)}
  PROVE  OldChannels(proc, Q)
<1>1. TypeOK /\ current \in Slots BY EnteredOld
<1>2. /\ \A s \in Slots \ {current} : Q[s] = proc[s]
      /\ Q[current].state = proc[current].state /\ Q[current].pid = proc[current].pid
      /\ Q[current].join_tid = proc[current].join_tid
      /\ Q[current].wait_channel = proc[current].wait_channel
  BY <1>1, CallFields
<1>3. OldChannel(proc[current], Q[current]) BY <1>2 DEF OldChannel, WaitsSo
<1> QED BY <1>1, <1>2, <1>3, OldAt

LEMMA WaitOld ==
  ASSUME SchedInv, NEW pid \in 0 .. MaxPid, WaitPid(pid) PROVE OldChannels(proc, proc')
<1> DEFINE P0 == Waits(proc, pid)
<1>0. TypeOK /\ proc \in Table /\ current \in Slots /\ current # Bootstrap /\ pid \in Nat
  BY EnteredOld, ProcessAssumption DEF WaitPid, Issues, InUser
<1>1. Legal(P0) /\ P0 \in Table /\ OldChannels(proc, P0)
  BY <1>0, LegalWaits, CallOld DEF Legal
<1> HIDE DEF P0
<1>2. CASE WaitCollects(pid)
  <2>1. PICK z \in FindZombieChild(proc, proc[current].pid, pid) :
          proc' = ReapProcess([P0 EXCEPT
            ![current].eax = proc[z].pid, ![current].status = proc[z].exit_code], z)
    BY <1>2 DEF WaitCollects, ReturnWith, P0
  <2>2. z \in Slots BY FirstIn DEF FindZombieChild, UserSlots
  <2>3. proc[z] \in Slot BY <1>0, <2>2 DEF Table
  <2>4. proc[z].pid \in Int /\ proc[z].exit_code \in Int BY <2>3 DEF Slot
  <2>5. Calm(P0, proc') BY <1>0, <1>1, <2>1, <2>2, <2>4, EaxCalm
  <2> QED BY <1>1, <2>5, CalmOld, OldTwice
<1>3. CASE WaitFails(pid)
  <2>1. proc' = [P0 EXCEPT ![current].eax = SysErr] BY <1>3 DEF WaitFails, ReturnWith, P0
  <2>2. Calm(P0, [P0 EXCEPT ![current].eax = SysErr]) BY <1>0, <1>1, CalmFields
  <2> QED BY <1>1, <2>1, <2>2, CalmOld, OldTwice
<1>4. CASE WaitBlocks(pid)
  <2> DEFINE P1 == [P0 EXCEPT ![current].eax = Blocked]
             P2 == [P1 EXCEPT ![current].state = "WAITING"]
             P3 == [P2 EXCEPT ![current].wait_pid = pid]
             P4 == [P3 EXCEPT ![current].wait_status = TRUE]
             P5 == [P4 EXCEPT ![current].wait_channel = NoChannel]
  <2> HIDE DEF P1, P2, P3, P4, P5
  <2>1. Legal(P1) BY <1>0, <1>1, LegalEax DEF P1, Blocked
  <2>2. Legal(P2) BY <1>0, <2>1, LegalState DEF P2, States
  <2>3. Legal(P3) BY <1>0, <2>2, LegalWaitPid DEF P3
  <2>4. Legal(P4) BY <1>0, <2>3, LegalWaitStatus DEF P4
  <2>5. P4 \in Table /\ P5 \in Table BY <1>0, <2>4, LegalWaitChannel DEF P5, Legal
  <2>6. Schedule(P5, TRUE) BY <1>4 DEF WaitBlocks, P0, P1, P2, P3, P4, P5
  <2>7. \A s \in Slots \ {current} : P5[s] = P0[s]
    BY <1>0, <1>1 DEF P1, P2, P3, P4, P5, Table
  <2>8. P5[current].wait_channel = NoChannel BY <1>0, <2>5 DEF P5, Table, Slot
  <2>9. OldChannels(P0, P5) BY <1>0, <2>7, <2>8, OldAt DEF OldChannel
  <2> HIDE DEF P5
  <2>10. OldChannels(P5, proc') BY <1>0, <2>5, <2>6, ScheduleOld
  <2> QED BY <1>1, <2>9, <2>10, OldTwice
<1> QED BY <1>2, <1>3, <1>4 DEF WaitPid

LEMMA JoinOld ==
  ASSUME SchedInv, NEW tid \in 1 .. MaxTid, JoinThread(tid) PROVE OldChannels(proc, proc')
<1> DEFINE P0 == Joins(proc, tid)
           found == Threads(proc, proc[current].thread_group_pid, tid)
<1>0. /\ TypeOK /\ current \in Slots /\ current # Bootstrap /\ proc \in Table
      /\ tid \in Nat \ {0} /\ tid \in Int
  BY EnteredOld, ProcessAssumption DEF JoinThread, Issues, InUser
<1>1. Legal(P0) /\ P0 \in Table /\ OldChannels(proc, P0)
  BY <1>0, LegalJoins, CallOld DEF Legal
<1> HIDE DEF P0, found
<1>2. CASE proc' = [P0 EXCEPT ![current].eax = SysErr]
  <2>1. Calm(P0, [P0 EXCEPT ![current].eax = SysErr]) BY <1>0, <1>1, CalmFields
  <2> QED BY <1>1, <1>2, <2>1, CalmOld, OldTwice
<1>3. ASSUME NEW t \in found,
             proc' = ReapProcess([P0 EXCEPT
               ![current].eax = tid, ![current].status = proc[t].exit_code], t)
      PROVE  OldChannels(proc, proc')
  <2>1. t \in Slots BY FirstIn DEF found, Threads, UserSlots
  <2>2. proc[t] \in Slot BY <1>0, <2>1 DEF Table
  <2>3. proc[t].exit_code \in Int BY <2>2 DEF Slot
  <2>4. Calm(P0, proc') BY <1>0, <1>1, <1>3, <2>1, <2>3, EaxCalm
  <2> QED BY <1>1, <2>4, CalmOld, OldTwice
<1>4. CASE Schedule([P0 EXCEPT ![current].eax = Blocked, ![current].join_tid = tid,
                              ![current].state = "WAITING"], TRUE)
  <2> DEFINE P1 == [P0 EXCEPT ![current].eax = Blocked]
             P2 == [P1 EXCEPT ![current].join_tid = tid]
             P3 == [P2 EXCEPT ![current].state = "WAITING"]
  <2> HIDE DEF P1, P2, P3
  <2>1. Legal(P1) BY <1>0, <1>1, LegalEax DEF P1, Blocked
  <2>2. Legal(P2) BY <1>0, <2>1, LegalJoinTid DEF P2
  <2>3. P3 \in Table BY <1>0, <2>2, LegalState DEF P3, States, Legal
  <2>4. P3 = [P0 EXCEPT ![current] = [P0[current] EXCEPT
                !.eax = Blocked, !.join_tid = tid, !.state = "WAITING"]]
    BY <1>0, <1>1 DEF P1, P2, P3, Table
  <2>5. P3[current].join_tid = tid /\ \A s \in Slots \ {current} : P3[s] = P0[s]
    BY <1>0, <1>1, <2>4 DEF Table, Slot
  <2>6. Schedule(P3, TRUE) BY <1>4 DEF P1, P2, P3
  <2>7. OldChannels(P0, P3) BY <1>0, <2>5, OldAt DEF OldChannel, WaitsSo
  <2>8. OldChannels(P3, proc') BY <1>0, <2>3, <2>6, ScheduleOld
  <2> QED BY <1>1, <2>7, <2>8, OldTwice
<1> QED BY <1>2, <1>3, <1>4 DEF JoinThread, ReturnWith, P0, found

LEMMA DiedOld ==
  ASSUME NEW P \in Table, NEW i \in Slots, NEW code \in Nat
  PROVE  OldChannels(P, Died(P, i, code))
<1> DEFINE P1 == [P EXCEPT ![i].exit_code = code]
           Q == [P1 EXCEPT ![i].state = "ZOMBIE"]
<1>1. P1 \in Table /\ OldChannels(P, P1)
  <2>1. [P[i] EXCEPT !.exit_code = code] \in Slot BY DEF Table, Slot
  <2> QED BY <2>1, CalmFields, CalmOld DEF Table
<1> HIDE DEF P1
<1>2. Q \in Table /\ OldChannels(P1, Q) BY <1>1, SetStateOld DEF States
<1>3. Q = Killed(P, i, code) BY DEF Killed, P1
<1> HIDE DEF Q
<1>4. OldChannels(Q, WakeJoiner(Q, i)) /\ OldChannels(Q, WakeWaitingParent(Q, i))
  BY <1>2, WakeJoinerCalm, WakeParentCalm, CalmOld
<1>5. OldChannels(Q, Died(P, i, code)) BY <1>3, <1>4 DEF Died
<1> QED BY <1>1, <1>2, <1>5, OldTwice

LEMMA ExitOld ==
  ASSUME SchedInv, NEW code \in Nat, NEW flag \in BOOLEAN, current # Bootstrap,
         Schedule(Died(Entered(proc), current, code), flag)
  PROVE  OldChannels(proc, proc')
<1> DEFINE P == Entered(proc)
<1>0. TypeOK /\ current \in Slots /\ P \in Table /\ OldChannels(proc, P) /\ Legal(P) /\ Runs(P)
  BY EnteredOld DEF Runs, SameStates
<1> HIDE DEF P
<1>1. OldChannels(P, Died(P, current, code)) BY <1>0, DiedOld
<1>2. Died(P, current, code) \in Table BY <1>0, LegalDied DEF Legal
<1>3. OldChannels(Died(P, current, code), proc') BY <1>0, <1>2, ScheduleOld DEF P
<1> QED BY <1>0, <1>1, <1>3, OldTwice

LEMMA SignalOld ==
  ASSUME SchedInv, NEW t \in UserSlots, NEW sig \in Signals, Signal(t, sig)
  PROVE  OldChannels(proc, proc')
<1> DEFINE P == Entered(proc)
<1>0. t \in Slots /\ P \in Table /\ OldChannels(proc, P) BY EnteredOld DEF UserSlots
<1> HIDE DEF P
<1>1. OldChannels(P, proc')
  <2>1. 128 + sig \in Nat BY ProcessAssumption
  <2>2. CASE proc' = Died(P, t, 128 + sig) BY <1>0, <2>1, <2>2, DiedOld
  <2>3. CASE proc' = Stopped(P, t)
    <3>1. proc'[t].state = "STOPPED" /\ \A s \in Slots \ {t} : proc'[s] = P[s]
      BY <1>0, <2>3, StoppedFields
    <3>2. OldChannel(P[t], proc'[t]) BY <3>1 DEF OldChannel, WaitsSo
    <3> QED BY <1>0, <3>1, <3>2, OldAt
  <2>4. CASE proc' = [P EXCEPT ![t].state = IF @ = "STOPPED" THEN "READY" ELSE @]
    <3>1. CASE P[t].state = "STOPPED"
      <4>1. proc' = [P EXCEPT ![t].state = "READY"] BY <2>4, <3>1
      <4> QED BY <1>0, <4>1, SetStateOld DEF States
    <3>2. CASE P[t].state # "STOPPED"
      <4>1. proc' = P BY <1>0, <2>4, <3>2 DEF Table, Slot
      <4> QED BY <4>1, CalmSame, CalmOld
    <3> QED BY <3>1, <3>2
  <2> QED BY <2>2, <2>3, <2>4 DEF Signal, ReturnWith, P
<1> QED BY <1>0, <1>1, OldTwice

\* Without programs that sleep on a channel for another reason, no step of the process
\* table puts anyone to sleep on one.
LEMMA NextOld ==
  ASSUME SchedInv, "sleep" \notin Workload, Next PROVE OldChannels(proc, proc')
<1> DEFINE E == Entered(proc)
<1>0. /\ TypeOK /\ current \in Slots /\ proc \in Table /\ E \in Table /\ resched \in BOOLEAN
      /\ OldChannels(proc, E) /\ Legal(E)
  BY EnteredOld
<1>1. CASE SpawnProcess
  <2>1. PICK s \in FindFreeSlot(proc) :
          proc' = [proc EXCEPT ![s] = NewProcess(next_pid, proc[current].pid, next_pid,
                                                 next_tid, PriorityDefault)]
    BY <1>1 DEF SpawnProcess, ReturnWith
  <2> DEFINE r == NewProcess(next_pid, proc[current].pid, next_pid, next_tid, PriorityDefault)
  <2>2. r.state = "READY" BY NewFields
  <2>3. proc' = [proc EXCEPT ![s] = r] BY <2>1
  <2> HIDE DEF r
  <2> QED BY <2>2, <2>3, NewOld
<1>2. CASE ForkCurrent
  <2> DEFINE r == NewProcess(next_pid, proc[current].pid, proc[current].thread_group_pid,
                             next_tid + 1, proc[current].priority)
  <2>1. PICK s \in FindFreeSlot(proc) : proc' = [E EXCEPT ![s] = r, ![current].eax = next_pid]
    BY <1>2 DEF ForkCurrent, ReturnWith
  <2>2. r.state = "READY" BY NewFields
  <2> HIDE DEF r
  <2> QED BY <2>1, <2>2, NewOld
<1>3. CASE CreateUserThread
  <2> DEFINE q == NewProcess(0, 0, proc[current].thread_group_pid, next_tid,
                             proc[current].priority)
             r == [q EXCEPT !.is_thread = TRUE]
  <2>1. PICK s \in FindFreeSlot(proc) : proc' = [E EXCEPT ![s] = r, ![current].eax = next_tid]
    BY <1>3 DEF CreateUserThread, ReturnWith
  <2>2. r.state = "READY" BY NewFields
  <2> HIDE DEF r
  <2> QED BY <2>1, <2>2, NewOld
<1>4. CASE ExecReplaceCurrent
  <2>1. proc' = [E EXCEPT ![current] = [E[current] EXCEPT
          !.exit_code = 0, !.wait_pid = 0, !.wait_status = FALSE, !.reap_pending = FALSE]]
    BY <1>0, <1>4 DEF ExecReplaceCurrent, ReturnWith, Table
  <2> HIDE DEF E
  <2>2. /\ \A s \in Slots \ {current} : proc'[s] = E[s]
        /\ proc'[current].state = E[current].state /\ proc'[current].pid = E[current].pid
        /\ proc'[current].wait_channel = E[current].wait_channel
        /\ proc'[current].join_tid = E[current].join_tid
    BY <1>0, <2>1 DEF Table, Slot
  <2>3. OldChannel(E[current], proc'[current]) BY <2>2 DEF OldChannel, WaitsSo
  <2>4. OldChannels(E, proc') BY <1>0, <2>2, <2>3, OldAt
  <2> QED BY <1>0, <2>4, OldTwice
<1>5. CASE OtherSyscall BY <1>0, <1>5 DEF OtherSyscall, ReturnWith
<1>6. CASE \E pid \in 0 .. MaxPid : WaitPid(pid) BY <1>6, WaitOld
<1>7. CASE \E code \in ExitCodes : ExitCurrent(code)
  <2>1. PICK code \in ExitCodes : ExitCurrent(code) BY <1>7
  <2>2. code \in Nat BY ProcessAssumption
  <2> QED BY <2>1, <2>2, ExitOld DEF ExitCurrent, Issues, InUser
<1>8. CASE FaultCurrent
  <2>1. 128 + GeneralProtection \in Nat BY DEF GeneralProtection
  <2>2. Schedule(Died(Entered(proc), current, 128 + GeneralProtection), resched)
        /\ current # Bootstrap
    BY <1>8 DEF FaultCurrent, Issues, InUser
  <2> QED BY <1>0, <2>1, <2>2, ExitOld
<1>9. CASE \E t \in UserSlots, sig \in Signals : Signal(t, sig) BY <1>9, SignalOld
<1>10. CASE \E z \in UserSlots : ReapPid(z)
  <2>1. PICK z \in UserSlots : proc' = ReapProcess(proc, z) BY <1>10 DEF ReapPid, ReturnWith
  <2> QED BY <1>0, <2>1, ReapCalm, CalmOld DEF UserSlots
<1>11. CASE \E tid \in 1 .. MaxTid : JoinThread(tid) BY <1>11, JoinOld
<1>12. CASE \E ch \in Channels : SleepOn(ch) \/ Wakeup(ch) \/ DeviceWakeup(ch)
  <2>1. PICK ch \in Channels : proc' = Woken(E, ch) \/ proc' = Woken(proc, ch)
    BY <1>12 DEF SleepOn, Issues, Wakeup, DeviceWakeup, ReturnWith
  <2>2. OldChannels(E, Woken(E, ch)) /\ OldChannels(proc, Woken(proc, ch))
    BY <1>0, WokenCalm, CalmOld
  <2> QED BY <1>0, <2>1, <2>2, OldTwice
<1>13. CASE Reissue
  <2> DEFINE P1 == [proc EXCEPT ![current].rewound = FALSE]
             v == IF proc[current].eax = Blocked THEN SysErr ELSE 0
  <2>1. Calm(proc, P1) /\ P1 \in Table
    <3>1. Legal(P1) BY <1>0, ProcLegal, LegalRewound
    <3> QED BY <1>0, <3>1, CalmFields DEF Legal
  <2>2. proc' = [P1 EXCEPT ![current].eax = v] BY <1>0, <1>13 DEF Reissue, ReturnWith, Table
  <2> HIDE DEF P1, v
  <2>3. Calm(P1, [P1 EXCEPT ![current].eax = v]) BY <1>0, <2>1, CalmFields
  <2> QED BY <2>1, <2>2, <2>3, CalmOld, OldTwice
<1>14. CASE Yield
  <2>1. OldChannels(E, proc') BY <1>0, <1>14, ScheduleOld DEF Yield
  <2> QED BY <1>0, <2>1, OldTwice
<1>15. CASE TimerInterrupt
  <2>1. PICK P \in Polled : Schedule(P, resched) BY <1>15 DEF TimerInterrupt
  <2>2. P \in Table /\ OldChannels(proc, P) BY PolledTable, CalmOld
  <2>3. OldChannels(P, proc') BY <1>0, <2>1, <2>2, ScheduleOld
  <2> QED BY <2>2, <2>3, OldTwice
<1> QED BY <1>1, <1>2, <1>3, <1>4, <1>5, <1>6, <1>7, <1>8, <1>9, <1>10, <1>11, <1>12,
           <1>13, <1>14, <1>15 DEF Next

-----------------------------------------------------------------------------
(***************************************************************************)
(* Nobody sleeps on a channel of a pipe for nothing.  Who waits on one is  *)
(* the owner of the pipe, and finds it empty or full still: a call that    *)
(* changes the count wakes the other side, and its own side cannot sleep.  *)
(***************************************************************************)
Enough(side) == IF side = Read THEN 0 ELSE PipeBuffer

SleepsRight(p, f) ==
  WaitsSo(p) =>
    \A id \in Ids, side \in {Read, Writing} :
      p.wait_channel = PipeChannel(id, side) =>
        f[id].used /\ f[id].owner_pid = p.pid /\ f[id].count = Enough(side)

PipeSleep(P, f) == \A s \in UserSlots : SleepsRight(P[s], f)

SleepInv == SchedInv /\ PipeInv /\ PipeSleep(proc, pipes)

\* The channels of the pipes differ from each other.
LEMMA ChannelsApart ==
  ASSUME NEW i \in Ids, NEW id \in Ids, NEW side \in {Read, Writing}, NEW other \in {Read, Writing}
  PROVE  /\ PipeChannel(id, side) \in Channels /\ PipeChannel(id, side) # NoChannel
         /\ PipeChannel(i, other) = PipeChannel(id, side) => i = id /\ other = side
<1>1. i \in Nat /\ id \in Nat /\ side \in {0, 1} /\ other \in {0, 1} /\ ChannelBase \in Nat
  BY PipeAssumption DEF Ids, Read, Writing
<1>2. ChannelBase + 2 * i + other = ChannelBase + 2 * id + side => i = id /\ other = side
  BY <1>1
<1>3. PipeChannel(id, side) \in Channels BY PipeAssumption
<1>4. PipeChannel(id, side) # NoChannel BY <1>3, ProcessAssumption
<1> QED BY <1>2, <1>3, <1>4 DEF PipeChannel

\* Who sleeps slept before, on the same channel: while the pipe of it stays, all is well.
LEMMA RightStill ==
  ASSUME NEW p, NEW q, OldChannel(p, q), NEW f, NEW g, SleepsRight(p, f),
         \A id \in Ids, side \in {Read, Writing} :
           WaitsSo(q) /\ q.wait_channel = PipeChannel(id, side) => g[id] = f[id]
  PROVE  SleepsRight(q, g)
<1> SUFFICES ASSUME WaitsSo(q), NEW id \in Ids, NEW side \in {Read, Writing},
                    q.wait_channel = PipeChannel(id, side)
             PROVE  g[id].used /\ g[id].owner_pid = q.pid /\ g[id].count = Enough(side)
  BY DEF SleepsRight
<1>1. q.wait_channel # NoChannel BY ChannelsApart
<1>2. WaitsSo(p) /\ q.wait_channel = p.wait_channel /\ q.pid = p.pid BY <1>1 DEF OldChannel
<1>3. f[id].used /\ f[id].owner_pid = p.pid /\ f[id].count = Enough(side)
  BY <1>2 DEF SleepsRight
<1> QED BY <1>2, <1>3

LEMMA PipesStay ==
  ASSUME PipeSleep(proc, pipes), NEW Q, OldChannels(proc, Q) PROVE PipeSleep(Q, pipes)
BY RightStill DEF PipeSleep, OldChannels, UserSlots

\* Only pipe id changes, and nobody sleeps on it.
LEMMA OneMoves ==
  ASSUME PipeSleep(proc, pipes), NEW Q, OldChannels(proc, Q), NEW id \in Ids, NEW g,
         \A i \in Ids \ {id} : g[i] = pipes[i],
         \A s \in UserSlots, side \in {Read, Writing} :
           WaitsSo(Q[s]) => Q[s].wait_channel # PipeChannel(id, side)
  PROVE  PipeSleep(Q, g)
<1> SUFFICES ASSUME NEW s \in UserSlots PROVE SleepsRight(Q[s], g) BY DEF PipeSleep
<1>1. OldChannel(proc[s], Q[s]) /\ SleepsRight(proc[s], pipes)
  BY DEF OldChannels, PipeSleep, UserSlots
<1>2. \A i \in Ids, side \in {Read, Writing} :
        WaitsSo(Q[s]) /\ Q[s].wait_channel = PipeChannel(i, side) => g[i] = pipes[i]
  OBVIOUS
<1> QED BY <1>1, <1>2, RightStill

\* The caller goes to sleep, whether the call returns or switches.
LEMMA CallerSleeps ==
  ASSUME NEW P, NEW Q, NEW g, current \in Slots, PipeSleep(P, g), \A s \in Slots \ {current} : Q[s] = P[s],
         SleepsRight(Q[current], g)
  PROVE  PipeSleep(Q, g)
<1>1. ASSUME NEW s \in UserSlots PROVE SleepsRight(Q[s], g)
  <2>1. CASE s = current BY <2>1
  <2>2. CASE s # current
    <3>1. Q[s] = P[s] BY <2>2 DEF UserSlots
    <3>2. SleepsRight(P[s], g) BY DEF PipeSleep
    <3> QED BY <3>1, <3>2
  <2> QED BY <2>1, <2>2
<1> QED BY <1>1 DEF PipeSleep

-----------------------------------------------------------------------------
\* A call that returns to its caller.
LEMMA LegalStays ==
  ASSUME SchedInv, NEW P, Legal(P), ReturnWith(P), Unchanged PROVE SchedInv'
<1>1. Counters' BY StillCounters DEF Unchanged
<1>2. P \in Table /\ \A s \in Slots : P[s].state = "RUNNING" => s = current
  BY DEF Legal, SchedInv, OneRunning
<1>3. proc' = P /\ current' = current /\ resched' = resched BY DEF ReturnWith
<1>4. OneRunning' BY <1>2, <1>3 DEF OneRunning
<1>5. TypeOK' BY <1>1, <1>2, <1>3 DEF SchedInv, TypeOK, Counters, Table
<1> QED BY <1>4, <1>5 DEF SchedInv

LEMMA ReturnsTo ==
  ASSUME SchedInv, NEW P, Legal(P), NEW v \in Int, Returns(P, v), Unchanged
  PROVE  SchedInv' /\ OldChannels(P, proc')
<1>1. current \in Slots /\ P \in Table BY EnteredOld DEF Legal
<1>2. Legal([P EXCEPT ![current].eax = v]) BY <1>1, LegalEax
<1>3. ReturnWith([P EXCEPT ![current].eax = v]) BY DEF Returns
<1>4. SchedInv' BY <1>2, <1>3, LegalStays
<1>5. OldChannels(P, proc') BY <1>1, <1>3, CalmFields, CalmOld DEF ReturnWith
<1> QED BY <1>4, <1>5

\* A call that returns with the pipes as they are.
LEMMA ReturnsSleep ==
  ASSUME SleepInv, NEW v \in Int, Returns(Entered(proc), v), Unchanged
  PROVE  SchedInv' /\ PipeSleep(proc', pipes)
<1>1. Legal(Entered(proc)) /\ OldChannels(proc, Entered(proc)) BY EnteredOld DEF SleepInv
<1>2. SchedInv' /\ OldChannels(Entered(proc), proc') BY <1>1, ReturnsTo DEF SleepInv
<1>3. OldChannels(proc, proc') BY <1>1, <1>2, OldTwice
<1> QED BY <1>2, <1>3, PipesStay DEF SleepInv

\* The table after process_wakeup.
LEMMA RouseFacts ==
  ASSUME SchedInv, NEW P, Legal(P), Runs(P), NEW id, NEW side
  PROVE  /\ Legal(Rouse(P, id, side)) /\ Runs(Rouse(P, id, side))
         /\ OldChannels(P, Rouse(P, id, side))
         /\ \A s \in UserSlots : WaitsSo(Rouse(P, id, side)[s]) =>
               Rouse(P, id, side)[s].wait_channel # PipeChannel(id, side)
<1>1. current \in Slots /\ P \in Table BY EnteredOld DEF Legal
<1>2. Legal(Rouse(P, id, side)) /\ Runs(Rouse(P, id, side)) BY <1>1, LegalWoken DEF Rouse
<1>3. Calm(P, Rouse(P, id, side)) BY <1>1, WokenCalm DEF Rouse
<1>4. \A s \in UserSlots : WaitsSo(Rouse(P, id, side)[s]) =>
        Rouse(P, id, side)[s].wait_channel # PipeChannel(id, side)
  BY <1>1, WokenCalm DEF Rouse, WaitsSo
<1> QED BY <1>2, <1>3, <1>4, CalmOld

\* Nobody who slept on no channel ch sleeps on it later.
LEMMA NoneStill ==
  ASSUME NEW P, NEW Q, OldChannels(P, Q), NEW ch \in Channels,
         \A s \in UserSlots : WaitsSo(P[s]) => P[s].wait_channel # ch
  PROVE  \A s \in UserSlots : WaitsSo(Q[s]) => Q[s].wait_channel # ch
<1>1. ch # NoChannel BY ProcessAssumption
<1> QED BY <1>1 DEF OldChannels, OldChannel, UserSlots

\* Who sleeps on a pipe's channel finds it used and empty, or full.
LEMMA AsleepMeans ==
  ASSUME PipeSleep(proc, pipes), NEW id \in Ids, NEW side \in {Read, Writing},
         ~pipes[id].used \/ pipes[id].count # Enough(side)
  PROVE  \A s \in UserSlots : WaitsSo(proc[s]) => proc[s].wait_channel # PipeChannel(id, side)
BY DEF PipeSleep, SleepsRight

\* A read or a write with nothing to do puts its caller to sleep.
LEMMA BlocksSleep ==
  ASSUME SleepInv, InUser, NEW id \in Ids, NEW side \in {Read, Writing}, Owned(id),
         pipes[id].count = Enough(side), Schedule(Slept(PipeChannel(id, side)), TRUE), Unchanged
  PROVE  SchedInv' /\ PipeSleep(proc', pipes)
<1> DEFINE E == Entered(proc)
           ch == PipeChannel(id, side)
           Q == Slept(ch)
<1>0. /\ SchedInv /\ TypeOK /\ current \in Slots /\ current # Bootstrap /\ E \in Table
      /\ OldChannels(proc, E) /\ ch \in Channels /\ proc \in Table
  BY EnteredOld, ChannelsApart DEF SleepInv, InUser
<1>1. Legal(Q) /\ Q \in Table BY <1>0, LegalSlept DEF Legal
<1>2. Q = [E EXCEPT ![current] = [E[current] EXCEPT
             !.call = "sleep", !.eax = Blocked, !.rewound = TRUE, !.wait_channel = ch,
             !.state = "WAITING"]]
  BY <1>0 DEF Slept, Table
<1>3. E[current].pid = proc[current].pid BY <1>0, EnteredCalm
<1>4. Schedule(Q, TRUE) OBVIOUS
<1> HIDE DEF E, ch, Q
<1>5. /\ \A s \in Slots \ {current} : Q[s] = E[s]
      /\ Q[current].wait_channel = ch /\ Q[current].pid = E[current].pid
  BY <1>0, <1>2 DEF Table, Slot
<1>6. SleepsRight(Q[current], pipes)
  <2> SUFFICES ASSUME NEW i \in Ids, NEW other \in {Read, Writing},
                      Q[current].wait_channel = PipeChannel(i, other)
               PROVE  /\ pipes[i].used /\ pipes[i].owner_pid = Q[current].pid
                      /\ pipes[i].count = Enough(other)
    BY DEF SleepsRight
  <2>1. PipeChannel(i, other) = PipeChannel(id, side) BY <1>5 DEF ch
  <2>2. i = id /\ other = side BY <2>1, ChannelsApart
  <2> QED BY <1>3, <1>5, <2>2 DEF Owned, Owns, CurrentPid
<1>7. PipeSleep(E, pipes) BY <1>0, PipesStay DEF SleepInv
<1>8. PipeSleep(Q, pipes) BY <1>0, <1>5, <1>6, <1>7, CallerSleeps
<1>9. OldChannels(Q, proc') BY <1>0, <1>1, <1>4, ScheduleOld
<1>10. PipeSleep(proc', pipes)
  BY <1>8, <1>9, RightStill DEF PipeSleep, OldChannels, UserSlots
<1>11. Kept BY <1>0, <1>1, <1>4, ScheduleKeeps
<1>12. Counters' BY <1>0, StillCounters DEF Unchanged
<1> QED BY <1>10, <1>11, <1>12, Assemble

LEMMA CreateSleep == SleepInv /\ Create => SchedInv' /\ PipeSleep(proc', pipes')
<1> SUFFICES ASSUME SleepInv, Create PROVE SchedInv' /\ PipeSleep(proc', pipes') OBVIOUS
<1>1. CASE Returns(Entered(proc), SysErr) /\ UNCHANGED <<pipes, history>>
  <2>1. SchedInv' /\ PipeSleep(proc', pipes) BY <1>1, ReturnsSleep DEF Create, SysErr
  <2> QED BY <1>1, <2>1
<1>2. CASE /\ Returns(Entered(proc), 0)
           /\ \E id \in First({i \in Ids : ~pipes[i].used}) :
                pipes' = [pipes EXCEPT ![id] = [NewPipe(CurrentPid) EXCEPT !.data = pipes[id].data]]
  <2>1. PICK id \in Ids :
          /\ ~pipes[id].used
          /\ pipes' = [pipes EXCEPT ![id] = [NewPipe(CurrentPid) EXCEPT !.data = pipes[id].data]]
    BY <1>2, FirstIn
  <2>2. Legal(Entered(proc)) /\ OldChannels(proc, Entered(proc)) /\ SchedInv
    BY EnteredOld DEF SleepInv
  <2>3. SchedInv' /\ OldChannels(Entered(proc), proc') BY <1>2, <2>2, ReturnsTo DEF Create
  <2>4. OldChannels(proc, proc') BY <2>2, <2>3, OldTwice
  <2>5. \A i \in Ids \ {id} : pipes'[i] = pipes[i]
    BY <2>1 DEF SleepInv, PipeInv, PipeTypeOK
  <2>6. \A side \in {Read, Writing} : \A s \in UserSlots :
          WaitsSo(proc[s]) => proc[s].wait_channel # PipeChannel(id, side)
    BY <2>1, AsleepMeans DEF SleepInv
  <2>7. \A s \in UserSlots, side \in {Read, Writing} :
          WaitsSo(proc'[s]) => proc'[s].wait_channel # PipeChannel(id, side)
    BY <2>4, <2>6, NoneStill, ChannelsApart
  <2>8. PipeSleep(proc', pipes') BY <2>4, <2>5, <2>7, OneMoves DEF SleepInv
  <2> QED BY <2>3, <2>8
<1> QED BY <1>1, <1>2 DEF Create

LEMMA RefusedSleep ==
  ASSUME SleepInv, NEW h, NEW side, Refused(h, side), Unchanged
  PROVE  SchedInv' /\ PipeSleep(proc', pipes')
<1>1. SchedInv' /\ PipeSleep(proc', pipes) BY ReturnsSleep DEF Refused, SysErr
<1> QED BY <1>1 DEF Refused

LEMMA ReadSleep ==
  ASSUME SleepInv, NEW h, NEW capacity \in Nat, PipeRead(h, capacity)
  PROVE  SchedInv' /\ PipeSleep(proc', pipes')
<1>0. InUser /\ Unchanged BY DEF PipeRead
<1>1. CASE Refused(h, Read) BY <1>0, <1>1, RefusedSleep
<1>2. ASSUME NEW id \in Ids, Owned(id), pipes[id].count > 0,
             NEW n \in Int, Returns(Rouse(Entered(proc), id, Writing), n),
             \A i \in Ids \ {id} : pipes'[i] = pipes[i]
      PROVE  SchedInv' /\ PipeSleep(proc', pipes')
  <2> DEFINE P == Rouse(Entered(proc), id, Writing)
  <2>1. /\ Legal(Entered(proc)) /\ Runs(Entered(proc)) /\ OldChannels(proc, Entered(proc))
        /\ SchedInv
    BY EnteredOld DEF SleepInv, Runs, SameStates
  <2>2. /\ Legal(P) /\ OldChannels(Entered(proc), P)
        /\ \A s \in UserSlots : WaitsSo(P[s]) => P[s].wait_channel # PipeChannel(id, Writing)
    BY <2>1, RouseFacts
  <2> HIDE DEF P
  <2>3. SchedInv' /\ OldChannels(P, proc') BY <1>0, <1>2, <2>1, <2>2, ReturnsTo DEF P
  <2>4. OldChannels(proc, proc') BY <2>1, <2>2, <2>3, OldTwice
  <2>5. pipes[id].count # Enough(Read) BY <1>2 DEF Enough
  <2>6. \A s \in UserSlots : WaitsSo(proc[s]) => proc[s].wait_channel # PipeChannel(id, Read)
    BY <2>5, AsleepMeans DEF SleepInv
  <2>7. /\ \A s \in UserSlots : WaitsSo(proc'[s]) => proc'[s].wait_channel # PipeChannel(id, Read)
        /\ \A s \in UserSlots : WaitsSo(proc'[s]) => proc'[s].wait_channel # PipeChannel(id, Writing)
    BY <2>2, <2>3, <2>4, <2>6, NoneStill, ChannelsApart
  <2>8. PipeSleep(proc', pipes') BY <1>2, <2>4, <2>7, OneMoves DEF SleepInv
  <2> QED BY <2>3, <2>8
<1>3. CASE Returns(Entered(proc), 0) /\ UNCHANGED pipes
  <2>1. SchedInv' /\ PipeSleep(proc', pipes) BY <1>0, <1>3, ReturnsSleep
  <2> QED BY <1>3, <2>1
<1>4. ASSUME NEW id \in Ids, Owned(id), pipes[id].count = 0,
             Schedule(Slept(PipeChannel(id, Read)), TRUE), UNCHANGED pipes
      PROVE  SchedInv' /\ PipeSleep(proc', pipes')
  <2>1. pipes[id].count = Enough(Read) BY <1>4 DEF Enough
  <2>2. SchedInv' /\ PipeSleep(proc', pipes) BY <1>0, <1>4, <2>1, BlocksSleep
  <2> QED BY <1>4, <2>2
<1>5. ASSUME NEW id \in Ids, NEW n, n = Least(pipes[id].count, capacity),
             pipes' = [pipes EXCEPT ![id].tail = Step(@, n), ![id].count = @ - n]
      PROVE  n \in Int /\ \A i \in Ids \ {id} : pipes'[i] = pipes[i]
  <2>1. pipes[id].count \in Nat
    BY BufferPositive DEF SleepInv, PipeInv, PipeTypeOK, IsPipe, PipeOf
  <2> QED BY <1>5, <2>1 DEF Least, SleepInv, PipeInv, PipeTypeOK
<1>6. CASE ~Refused(h, Read)
  <2>1. PICK id \in Ids :
          /\ Owned(id)
          /\ LET p == pipes[id]
                 n == Least(p.count, capacity)
             IN \/ /\ p.count > 0
                   /\ pipes' = [pipes EXCEPT ![id].tail = Step(@, n), ![id].count = @ - n]
                   /\ Returns(Rouse(Entered(proc), id, Writing), n)
                \/ Returns(Entered(proc), 0) /\ UNCHANGED pipes
                \/ /\ p.count = 0 /\ Schedule(Slept(PipeChannel(id, Read)), TRUE)
                   /\ UNCHANGED pipes
    BY <1>6 DEF PipeRead
  <2> QED BY <1>2, <1>3, <1>4, <1>5, <2>1
<1> QED BY <1>1, <1>6

LEMMA WriteSleep ==
  ASSUME SleepInv, NEW h, NEW length \in Nat \ {0}, PipeWrite(h, length)
  PROVE  SchedInv' /\ PipeSleep(proc', pipes')
<1>0. InUser /\ Unchanged /\ current \in UserSlots
  BY EnteredOld DEF PipeWrite, SleepInv, InUser, UserSlots
<1>1. CASE Refused(h, Writing) BY <1>0, <1>1, RefusedSleep
<1>2. CASE Returns(Entered(proc), SysErr) /\ UNCHANGED pipes
  <2>1. SchedInv' /\ PipeSleep(proc', pipes) BY <1>0, <1>2, ReturnsSleep DEF SysErr
  <2> QED BY <1>2, <2>1
<1>3. ASSUME NEW id \in Ids, Owned(id), Least(Space(pipes[id]), length) = 0,
             length > 0, Schedule(Slept(PipeChannel(id, Writing)), TRUE), UNCHANGED pipes
      PROVE  SchedInv' /\ PipeSleep(proc', pipes')
  <2>1. pipes[id].count \in 0 .. PipeBuffer
    BY DEF SleepInv, PipeInv, PipeTypeOK, IsPipe, PipeOf
  <2>2. pipes[id].count = Enough(Writing)
    BY <1>3, <2>1, BufferPositive DEF Enough, Least, Space, Read, Writing
  <2>3. SchedInv' /\ PipeSleep(proc', pipes) BY <1>0, <1>3, <2>2, BlocksSleep
  <2> QED BY <1>3, <2>3
<1>4. ASSUME NEW id \in Ids, Owned(id), NEW n, n = Least(Space(pipes[id]), length), n > 0,
             pipes' = [pipes EXCEPT ![id] = Stored(pipes[id], n)],
             LET put == Rouse(Entered(proc), id, Read)
             IN IF n = length THEN Returns(put, n)
                ELSE Returns([put EXCEPT
                       ![current].wait_channel = PipeChannel(id, Writing),
                       ![current].state = "WAITING"], n)
      PROVE  SchedInv' /\ PipeSleep(proc', pipes')
  <2> DEFINE P == Rouse(Entered(proc), id, Read)
             p == pipes[id]
             ch == PipeChannel(id, Writing)
  <2>1. p.count \in 0 .. PipeBuffer /\ DOMAIN pipes = Ids /\ IsPipe(p)
    BY DEF SleepInv, PipeInv, PipeTypeOK, IsPipe, PipeOf
  <2>2. n \in Int /\ p.count # Enough(Writing)
        /\ (n # length => p.count + n = PipeBuffer)
    BY <1>4, <2>1, BufferPositive DEF Enough, Least, Space, Read, Writing
  <2>3. \A i \in Ids \ {id} : pipes'[i] = pipes[i] BY <1>4, <2>1
  <2>4. pipes'[id] = Stored(p, n) BY <1>4, <2>1
  <2>5. /\ pipes'[id].used = p.used /\ pipes'[id].owner_pid = p.owner_pid
        /\ pipes'[id].count = p.count + n
    BY <2>1, <2>4 DEF Stored, IsPipe, PipeOf
  <2>6. /\ Legal(Entered(proc)) /\ Runs(Entered(proc)) /\ OldChannels(proc, Entered(proc))
        /\ SchedInv /\ ch \in Channels /\ current \in Slots
    BY EnteredOld, ChannelsApart DEF SleepInv, Runs, SameStates, Writing
  <2>7. /\ Legal(P) /\ OldChannels(Entered(proc), P)
        /\ \A s \in UserSlots : WaitsSo(P[s]) => P[s].wait_channel # PipeChannel(id, Read)
    BY <2>6, RouseFacts
  <2>8. OldChannels(proc, P) BY <2>6, <2>7, OldTwice
  <2>9. \A s \in UserSlots : WaitsSo(proc[s]) => proc[s].wait_channel # ch
    BY <2>2, AsleepMeans DEF SleepInv
  <2>10. \A s \in UserSlots : WaitsSo(P[s]) => P[s].wait_channel # ch
    BY <2>6, <2>8, <2>9, NoneStill
  <2>11. PipeSleep(P, pipes') BY <2>3, <2>7, <2>8, <2>10, OneMoves DEF SleepInv
  <2>12. P[current].pid = p.owner_pid /\ p.used
    <3>1. /\ Entered(proc)[current].pid = proc[current].pid
          /\ P[current].pid = Entered(proc)[current].pid
      BY <2>6, EnteredCalm DEF Rouse, Woken, SchedInv, Legal, Table, Slot
    <3> QED BY <1>4, <3>1 DEF Owned, Owns, CurrentPid
  <2>13. CASE n = length
    <3>1. Returns(P, n) BY <1>4, <2>13
    <3> HIDE DEF P
    <3>2. SchedInv' /\ OldChannels(P, proc') BY <1>0, <2>2, <2>6, <2>7, <3>1, ReturnsTo
    <3> QED BY <2>11, <3>2, RightStill DEF PipeSleep, OldChannels, UserSlots
  <2>14. CASE n # length
    <3> DEFINE P1 == [P EXCEPT ![current].wait_channel = ch]
               P2 == [P1 EXCEPT ![current].state = "WAITING"]
    <3>1. Returns(P2, n) BY <1>4, <2>14
    <3> HIDE DEF P
    <3>2. Legal(P1) BY <2>6, <2>7, LegalWaitChannel
    <3>3. P1 = [P EXCEPT ![current] = [P[current] EXCEPT !.wait_channel = ch]]
      BY <2>6, <2>7 DEF Legal, Table
    <3> HIDE DEF P1
    <3>4. Legal(P2) BY <1>0, <2>6, <3>2, LegalState DEF States, InUser
    <3>5. /\ \A s \in Slots \ {current} : P2[s] = P[s]
          /\ P2[current].wait_channel = ch /\ P2[current].pid = P[current].pid
      BY <2>6, <2>7, <3>2, <3>3 DEF Legal, Table, Slot
    <3> HIDE DEF P2, ch
    <3>6. SleepsRight(P2[current], pipes')
      <4> SUFFICES ASSUME NEW i \in Ids, NEW other \in {Read, Writing},
                          P2[current].wait_channel = PipeChannel(i, other)
                   PROVE  /\ pipes'[i].used /\ pipes'[i].owner_pid = P2[current].pid
                          /\ pipes'[i].count = Enough(other)
        BY DEF SleepsRight
      <4>1. PipeChannel(i, other) = PipeChannel(id, Writing) BY <3>5 DEF ch
      <4>2. i = id /\ other = Writing BY <4>1, ChannelsApart
      <4>3. pipes'[id].count = Enough(Writing) BY <2>2, <2>5, <2>14 DEF Enough, Read, Writing
      <4>4. pipes'[id].used /\ pipes'[id].owner_pid = P2[current].pid BY <2>5, <2>12, <3>5
      <4> HIDE DEF p
      <4> QED BY <4>2, <4>3, <4>4, Zenon
    <3>7. PipeSleep(P2, pipes') BY <2>6, <2>11, <3>5, <3>6, CallerSleeps
    <3>8. SchedInv' /\ OldChannels(P2, proc') BY <1>0, <2>2, <2>6, <3>1, <3>4, ReturnsTo
    <3> QED BY <3>7, <3>8, RightStill DEF PipeSleep, OldChannels, UserSlots
  <2> QED BY <2>13, <2>14
<1>5. CASE ~Refused(h, Writing)
  <2>1. PICK id \in Ids :
          /\ Owned(id)
          /\ LET p == pipes[id]
                 n == Least(Space(p), length)
                 put == Rouse(Entered(proc), id, Read)
             IN \/ Returns(Entered(proc), SysErr) /\ UNCHANGED pipes
                \/ n = 0 /\ Schedule(Slept(PipeChannel(id, Writing)), TRUE) /\ UNCHANGED pipes
                \/ /\ n > 0
                   /\ pipes' = [pipes EXCEPT ![id] = Stored(p, n)]
                   /\ IF n = length THEN Returns(put, n)
                      ELSE Returns([put EXCEPT
                             ![current].wait_channel = PipeChannel(id, Writing),
                             ![current].state = "WAITING"], n)
    BY <1>5 DEF PipeWrite, history
  <2>2. length > 0 OBVIOUS
  <2> QED BY <1>2, <1>3, <1>4, <2>1, <2>2
<1> QED BY <1>1, <1>5

LEMMA CloseSleep ==
  ASSUME SleepInv, NEW h, PipeClose(h) PROVE SchedInv' /\ PipeSleep(proc', pipes')
<1>0. Unchanged BY DEF PipeClose
<1>1. CASE Refused(h, h % 2) BY <1>0, <1>1, RefusedSleep
<1>2. ASSUME NEW id \in Ids, NEW side, pipes' = [pipes EXCEPT ![id] = Ended(@, side)],
             Returns(Rouse(Rouse(Entered(proc), id, Read), id, Writing), 0)
      PROVE  SchedInv' /\ PipeSleep(proc', pipes')
  <2> DEFINE P == Rouse(Entered(proc), id, Read)
             Q == Rouse(P, id, Writing)
  <2>1. /\ Legal(Entered(proc)) /\ Runs(Entered(proc)) /\ OldChannels(proc, Entered(proc))
        /\ SchedInv
    BY EnteredOld DEF SleepInv, Runs, SameStates
  <2>2. /\ Legal(P) /\ Runs(P) /\ OldChannels(Entered(proc), P)
        /\ \A s \in UserSlots : WaitsSo(P[s]) => P[s].wait_channel # PipeChannel(id, Read)
    BY <2>1, RouseFacts
  <2> HIDE DEF P
  <2>3. /\ Legal(Q) /\ OldChannels(P, Q)
        /\ \A s \in UserSlots : WaitsSo(Q[s]) => Q[s].wait_channel # PipeChannel(id, Writing)
    BY <2>1, <2>2, RouseFacts
  <2> HIDE DEF Q
  <2>4. SchedInv' /\ OldChannels(Q, proc') BY <1>0, <1>2, <2>1, <2>3, ReturnsTo DEF P, Q
  <2>5. OldChannels(P, proc') BY <2>3, <2>4, OldTwice
  <2>6. OldChannels(proc, P) BY <2>1, <2>2, OldTwice
  <2>7. OldChannels(proc, proc') BY <2>5, <2>6, OldTwice
  <2>8. /\ \A s \in UserSlots : WaitsSo(proc'[s]) => proc'[s].wait_channel # PipeChannel(id, Read)
        /\ \A s \in UserSlots : WaitsSo(proc'[s]) => proc'[s].wait_channel # PipeChannel(id, Writing)
    BY <2>2, <2>3, <2>4, <2>5, NoneStill, ChannelsApart
  <2>9. \A i \in Ids \ {id} : pipes'[i] = pipes[i]
    BY <1>2 DEF SleepInv, PipeInv, PipeTypeOK
  <2>10. PipeSleep(proc', pipes') BY <2>7, <2>8, <2>9, OneMoves DEF SleepInv
  <2> QED BY <2>4, <2>10
<1> QED BY <1>1, <1>2 DEF PipeClose

LEMMA SleepInit == PipeInit => SleepInv
<1> SUFFICES ASSUME PipeInit PROVE SleepInv OBVIOUS
<1>1. SchedInv /\ PipeInv BY SchedInit, PipeInitInv DEF PipeInit
<1>2. \A s \in UserSlots : proc[s].state = "UNUSED"
  BY ClearType DEF PipeInit, Init, UserSlots
<1>3. PipeSleep(proc, pipes) BY <1>2 DEF PipeSleep, SleepsRight, WaitsSo
<1> QED BY <1>1, <1>3 DEF SleepInv

LEMMA SleepStep == "sleep" \notin Workload /\ SleepInv /\ [PipeNext]_pipeVars => SleepInv'
<1> SUFFICES ASSUME "sleep" \notin Workload, SleepInv, [PipeNext]_pipeVars PROVE SleepInv' OBVIOUS
<1>0. PipeInv' BY PipeStep DEF SleepInv
<1>1. CASE Next /\ UNCHANGED <<pipes, history>>
  <2>1. SchedInv' BY <1>1, SchedNext DEF SleepInv, Stays
  <2>2. OldChannels(proc, proc') BY <1>1, NextOld DEF SleepInv
  <2>3. PipeSleep(proc', pipes) BY <2>2, PipesStay DEF SleepInv
  <2> QED BY <1>0, <1>1, <2>1, <2>3 DEF SleepInv
<1>2. CASE Create BY <1>0, <1>2, CreateSleep DEF SleepInv
<1>3. CASE \E h \in Handles, n \in Lengths : PipeRead(h, n) \/ PipeWrite(h, n)
  <2>1. Lengths \subseteq Nat \ {0} BY PipeAssumption
  <2> QED BY <1>0, <1>3, <2>1, ReadSleep, WriteSleep DEF SleepInv
<1>4. CASE \E h \in Handles : PipeClose(h) BY <1>0, <1>4, CloseSleep DEF SleepInv
<1>5. CASE UNCHANGED pipeVars
  <2>1. SchedInv' BY <1>5, SchedNext DEF pipeVars, SleepInv, Stays
  <2>2. UNCHANGED <<proc, pipes>> BY <1>5 DEF pipeVars, vars
  <2> QED BY <1>0, <2>1, <2>2 DEF SleepInv
<1> QED BY <1>1, <1>2, <1>3, <1>4, <1>5 DEF PipeNext

\* Whoever sleeps in pipe_read has an empty pipe before it, and in pipe_write a full one:
\* no wakeup is lost between the check of the count and process_sleep_on, and none is
\* missing from the calls that change the count.  The hypothesis leaves out the mouse and
\* the mailboxes, whose channels differ from those of the pipes.
THEOREM PipeWakeups == "sleep" \notin Workload => (PipeSpec => []NoLostPipeWakeup)
<1> SUFFICES ASSUME "sleep" \notin Workload PROVE PipeSpec => []NoLostPipeWakeup OBVIOUS
<1>1. SleepInv /\ [PipeNext]_pipeVars => SleepInv' BY SleepStep
<1>2. SleepInv => NoLostPipeWakeup
  BY DEF SleepInv, PipeSleep, SleepsRight, NoLostPipeWakeup, WaitsSo, Enough, Read, Writing
<1> QED BY <1>1, <1>2, SleepInit, PTL DEF PipeSpec

=============================================================================
