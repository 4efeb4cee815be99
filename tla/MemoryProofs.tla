----------------------------- MODULE MemoryProofs -----------------------------
(***************************************************************************)
(* RefsExact and Isolation, for any number of processes, frames and pages. *)
(*                                                                         *)
(* A frame's count is compared with its holders slot by slot: an action    *)
(* changes what one slot holds (Held), or two at a fork, and the counts by *)
(* as much.  reap_process and exec give back what user_pages[] lists,      *)
(* which is what the slot maps (SlotOK) as long as no store has resolved a *)
(* copy-on-write page.  A page that may be written has one holder          *)
(* (OwnPages), so a store is seen by nobody else.                          *)
(***************************************************************************)
EXTENDS Memory, FiniteSetTheorems, TLAPS

\* The operations that the code does not support together: a store to a shared page leaves
\* user_pages[] as it was, and reap_process and exec give back what user_pages[] lists.
Storing == Workload \cap {"write", "status"} # {}

StaleListing == "fork" \in Workload /\ Storing /\ Workload \cap {"reap", "exec"} # {}

\* Nor these: what a program stores where a joined thread had its stack, which stays mapped,
\* lands in a page that may be another program's by then.
StaleStack == "thread" \in Workload /\ Storing

\* Nor these: write_user_u32 stores a status in a read-only page, which a fork shares.
SharedText == {"fork", "status"} \subseteq Workload

\* A slot by itself: a program's pages are frames; user_pages[] lists them where it is
\* read; only a fork marks a page copy-on-write, only a thread has its stack mapped; and
\* a thread has two stacks or none.
SlotOK(s) ==
  /\ s \in Space
  /\ ~s.live => s = NoSpace
  /\ s.live => \A k \in Pages : s.pte[k].frame \in Frames
  /\ Workload \cap {"reap", "exec"} # {} =>
       \A k \in Pages : s.user_pages[k] = s.pte[k].frame
  /\ "fork" \notin Workload => \A k \in Pages : s.pte[k].mode # "cow"
  /\ s.pte[ThreadPage].mode \in {"none", "rw"}
  /\ "thread" \notin Workload => s.pte[ThreadPage] = Unmapped
  /\ s.tstack = NoFrame => s.tkstack = NoFrame
  /\ s.tstack # NoFrame => s.tstack # s.tkstack

\* A page that may be written has one holder.
OwnPages ==
  \A p \in Procs, k \in Pages :
    space[p].pte[k].mode = "rw" => page_refs[space[p].pte[k].frame] = 1

\* So has a kernel stack, the one an exec replaced and those it forgot.
OwnStacks ==
  /\ \A f \in forgotten : page_refs[f] = 1
  /\ \A p \in Procs : /\ space[p].kstack # NoFrame => page_refs[space[p].kstack] = 1
                      /\ space[p].deferred # NoFrame => page_refs[space[p].deferred] = 1

MemInv ==
  /\ page_refs \in [Frames -> Nat]
  /\ content \in [Frames -> Values \cup {Zero, KernelData}]
  /\ expected \in [Procs -> [Pages \cup {ThreadPage} -> Values \cup {Zero}]]
  /\ forgotten \subseteq Frames
  /\ space \in [Procs -> Space]
  /\ \A p \in Procs : SlotOK(space[p])
  /\ RefsExact /\ OwnPages /\ OwnStacks

-----------------------------------------------------------------------------
(***************************************************************************)
(* What n calls of page_alloc return: the frames of S in order.            *)
(***************************************************************************)
Below(S, f) == {g \in S : g < f}
Rank(S, f) == Cardinality(Below(S, f))

LEMMA FramesFinite ==
  ASSUME NEW S \in SUBSET Frames PROVE IsFiniteSet(S) /\ Cardinality(S) \in Nat
<1>1. IsFiniteSet(Frames) BY FS_Interval, MemoryAssumption DEF MemoryAssumption, Frames
<1>2. IsFiniteSet(S) BY <1>1, FS_Subset
<1> QED BY <1>2, FS_CardinalityType

\* Frame f is number Rank(S, f) of S, counted from 0.
LEMMA RankOrder ==
  ASSUME NEW S \in SUBSET Frames, NEW f \in S, NEW g \in S, f < g
  PROVE  Rank(S, f) < Rank(S, g)
<1>1. Below(S, f) \in SUBSET Frames /\ Below(S, g) \in SUBSET Frames BY DEF Below
<1>2. IsFiniteSet(Below(S, f)) /\ IsFiniteSet(Below(S, g)) BY <1>1, FramesFinite
<1>3. f \in Below(S, g) /\ f \notin Below(S, f) BY DEF Below, Frames
<1>4. Below(S, f) \subseteq Below(S, g)
  <2> SUFFICES ASSUME NEW h \in Below(S, f) PROVE h \in Below(S, g) OBVIOUS
  <2>1. h \in S /\ h < f BY DEF Below
  <2>2. h \in Int /\ f \in Int /\ g \in Int BY <2>1 DEF Frames
  <2> QED BY <2>1, <2>2 DEF Below
<1>5. Cardinality(Below(S, f)) <= Cardinality(Below(S, g)) BY <1>2, <1>4, FS_Subset
<1>6. Cardinality(Below(S, f)) # Cardinality(Below(S, g))
  BY <1>2, <1>3, <1>4, FS_Subset
<1>7. Cardinality(Below(S, f)) \in Nat /\ Cardinality(Below(S, g)) \in Nat
  BY <1>1, FramesFinite
<1> QED BY <1>5, <1>6, <1>7 DEF Rank

LEMMA RankRange ==
  ASSUME NEW S \in SUBSET Frames, NEW f \in S
  PROVE  Rank(S, f) \in 0 .. (Cardinality(S) - 1)
<1>1. Below(S, f) \in SUBSET S /\ f \notin Below(S, f) BY DEF Below, Frames
<1>2. Below(S, f) \in SUBSET Frames BY <1>1
<1>3. IsFiniteSet(S) /\ Cardinality(S) \in Nat BY FramesFinite
<1>4. Cardinality(Below(S, f)) \in Nat BY <1>2, FramesFinite
<1>5. Cardinality(Below(S, f)) <= Cardinality(S) BY <1>1, <1>3, FS_Subset
<1>6. Cardinality(Below(S, f)) # Cardinality(S) BY <1>1, <1>3, FS_Subset
<1> QED BY <1>3, <1>4, <1>5, <1>6 DEF Rank

LEMMA RankInjective ==
  ASSUME NEW S \in SUBSET Frames, NEW f \in S, NEW g \in S, Rank(S, f) = Rank(S, g)
  PROVE  f = g
<1>1. Rank(S, f) \in Int BY RankRange
<1>2. f \in Int /\ g \in Int BY DEF Frames
<1>3. ~(f < g)
  <2>1. ASSUME f < g PROVE FALSE
    <3>1. Rank(S, f) < Rank(S, g) BY <2>1, RankOrder
    <3> QED BY <1>1, <3>1
  <2> QED BY <2>1
<1>4. ~(g < f)
  <2>1. ASSUME g < f PROVE FALSE
    <3>1. Rank(S, g) < Rank(S, f) BY <2>1, RankOrder
    <3> QED BY <1>1, <3>1
  <2> QED BY <2>1
<1> QED BY <1>2, <1>3, <1>4

\* There is one of each number: the numbers are as many as the frames.
LEMMA RankReached ==
  ASSUME NEW S \in SUBSET Frames, NEW n \in 0 .. (Cardinality(S) - 1)
  PROVE  \E f \in S : Rank(S, f) = n
<1> DEFINE T == 0 .. (Cardinality(S) - 1)
           r == [f \in S |-> Rank(S, f)]
<1>1. IsFiniteSet(S) /\ Cardinality(S) \in Nat BY FramesFinite
<1>2. IsFiniteSet(T) /\ Cardinality(T) = Cardinality(S)
  <2>1. 0 \in Int /\ Cardinality(S) - 1 \in Int BY <1>1
  <2>2. Cardinality(T) = IF 0 > Cardinality(S) - 1 THEN 0 ELSE Cardinality(S) - 1 - 0 + 1
    BY <2>1, FS_Interval
  <2>3. IsFiniteSet(T) BY <2>1, FS_Interval
  <2> QED BY <1>1, <2>2, <2>3
<1>3. r \in Injection(S, T)
  <2>1. r \in [S -> T] BY RankRange
  <2>2. \A f, g \in S : r[f] = r[g] => f = g BY RankInjective
  <2> QED BY <2>1, <2>2 DEF Injection, IsInjective
<1>4. r \in Surjection(S, T) BY <1>2, <1>3, FS_Injection
<1>5. \E f \in S : r[f] = n BY <1>4 DEF Surjection
<1> QED BY <1>5

LEMMA NthIs ==
  ASSUME NEW S \in SUBSET Frames, NEW k \in 1 .. Cardinality(S)
  PROVE  Nth(S, k) \in S /\ Rank(S, Nth(S, k)) = k - 1
<1>1. Cardinality(S) \in Nat BY FramesFinite
<1>2. k - 1 \in 0 .. (Cardinality(S) - 1) BY <1>1
<1>3. \E f \in S : Rank(S, f) = k - 1 BY <1>2, RankReached
<1> QED BY <1>3 DEF Nth, Rank, Below

LEMMA NthOf ==
  ASSUME NEW S \in SUBSET Frames, NEW k \in 1 .. Cardinality(S), NEW f \in S
  PROVE  f = Nth(S, k) <=> Rank(S, f) = k - 1
BY NthIs, RankInjective

LEMMA LowestOf ==
  ASSUME NEW S, NEW n PROVE Lowest(S, n) = {f \in S : Rank(S, f) < n}
BY DEF Lowest, Rank, Below

-----------------------------------------------------------------------------
(***************************************************************************)
(* The holders of a frame, slot by slot.                                   *)
(***************************************************************************)
MapsIn(T, f) == {x \in Procs \X Pages : T[x[1]].pte[x[2]].frame = f}
Maps(s, f) == Cardinality({k \in Pages : s.pte[k].frame = f})

TablesIn(T, f) == {p \in Procs : f \in T[p].tables}
StackIn(t, f) == {p \in Procs : f = t[p]}
Kstack(T) == [p \in Procs |-> T[p].kstack]
Deferred(T) == [p \in Procs |-> T[p].deferred]
Tstack(T) == [p \in Procs |-> T[p].tstack]
Tkstack(T) == [p \in Procs |-> T[p].tkstack]

HoldersIn(T, f) ==
  Cardinality(MapsIn(T, f)) + Cardinality(TablesIn(T, f))
    + Cardinality(StackIn(Kstack(T), f)) + Cardinality(StackIn(Deferred(T), f))
    + Cardinality(StackIn(Tstack(T), f)) + Cardinality(StackIn(Tkstack(T), f))

Is(f, x) == IF f = x THEN 1 ELSE 0

\* How often slot s holds frame f.
Held(s, f) ==
  Maps(s, f) + Once(f, s.tables) + Is(f, s.kstack) + Is(f, s.deferred)
    + Is(f, s.tstack) + Is(f, s.tkstack)

LEMMA HoldersAre == ASSUME NEW f PROVE Holders(f) = HoldersIn(space, f)
BY DEF Holders, HoldersIn, MapsIn, TablesIn, StackIn,
       Kstack, Deferred, Tstack, Tkstack

LEMMA OnceRange == ASSUME NEW f, NEW S PROVE Once(f, S) \in {0, 1}
BY DEF Once

LEMMA ProcsFinite == IsFiniteSet(Procs) /\ IsFiniteSet(Pages) /\ IsFiniteSet(Procs \X Pages)
<1>1. IsFiniteSet(Procs) /\ IsFiniteSet(Pages)
  BY FS_Interval, MemoryAssumption DEF MemoryAssumption, Pages
<1> QED BY <1>1, FS_Product

LEMMA MapsNat == ASSUME NEW s, NEW f PROVE Maps(s, f) \in Nat
<1>1. IsFiniteSet({k \in Pages : s.pte[k].frame = f}) BY ProcsFinite, FS_Subset
<1> QED BY <1>1, FS_CardinalityType DEF Maps

LEMMA HeldNat == ASSUME NEW s, NEW f PROVE Held(s, f) \in Nat
BY MapsNat, OnceRange DEF Held, Is

\* Two subsets of a finite set that differ in p at most.
LEMMA OneChange ==
  ASSUME NEW P, IsFiniteSet(P), NEW A \in SUBSET P, NEW B \in SUBSET P, NEW p \in P,
         \A q \in P : q # p => (q \in A <=> q \in B)
  PROVE  /\ Cardinality(A) + Once(p, B) = Cardinality(B) + Once(p, A)
         /\ Cardinality(A) \in Nat /\ Cardinality(B) \in Nat
         /\ Once(p, B) <= Cardinality(B)
<1>1. IsFiniteSet(A) /\ IsFiniteSet(B) BY FS_Subset
<1>2. A \ {p} = B \ {p} OBVIOUS
<1>3. Cardinality(A) \in Nat /\ Cardinality(B) \in Nat BY <1>1, FS_CardinalityType
<1>4. /\ Cardinality(A \ {p}) = IF p \in A THEN Cardinality(A) - 1 ELSE Cardinality(A)
      /\ Cardinality(B \ {p}) = IF p \in B THEN Cardinality(B) - 1 ELSE Cardinality(B)
  BY ONLY <1>1, FS_RemoveElement
<1>5. p \in B => Cardinality(B) # 0 BY <1>1, FS_EmptySet
<1> QED BY <1>2, <1>3, <1>4, <1>5 DEF Once

\* What a slot maps, as pairs.
LEMMA MapsPairs ==
  ASSUME NEW T, NEW f, NEW p \in Procs
  PROVE  LET R == {x \in MapsIn(T, f) : x[1] # p}
         IN /\ Cardinality(MapsIn(T, f)) = Cardinality(R) + Maps(T[p], f)
            /\ Cardinality(R) \in Nat
<1> DEFINE M == MapsIn(T, f)
           R == {x \in M : x[1] # p}
           K == {k \in Pages : T[p].pte[k].frame = f}
           P == {x \in M : x[1] = p}
<1>1. IsFiniteSet(M) BY ProcsFinite, FS_Subset DEF MapsIn
<1>2. IsFiniteSet(R) /\ IsFiniteSet(P) BY <1>1, FS_Subset
<1>3. M = R \cup P /\ R \cap P = {} OBVIOUS
<1>4. Cardinality(M) = Cardinality(R) + Cardinality(P)
  <2>1. Cardinality(R \cup P) = Cardinality(R) + Cardinality(P) - Cardinality(R \cap P)
    BY ONLY <1>2, FS_Union
  <2>2. Cardinality(R) \in Nat /\ Cardinality(P) \in Nat BY <1>2, FS_CardinalityType
  <2>3. Cardinality(R \cap P) = 0 BY <1>3, FS_EmptySet
  <2> HIDE DEF M, R, P
  <2> QED BY <1>3, <2>1, <2>2, <2>3
<1>5. Cardinality(P) = Cardinality(K)
  <2> DEFINE g == [k \in K |-> <<p, k>>]
  <2>1. IsFiniteSet(K) BY ProcsFinite, FS_Subset
  <2>2. g \in [K -> P] BY DEF MapsIn
  <2>3. \A j, k \in K : g[j] = g[k] => j = k OBVIOUS
  <2>4. \A x \in P : \E k \in K : g[k] = x
    <3> SUFFICES ASSUME NEW x \in P PROVE x[2] \in K /\ <<p, x[2]>> = x OBVIOUS
    <3> QED BY DEF MapsIn
  <2>5. g \in Bijection(K, P)
    BY <2>2, <2>3, <2>4 DEF Bijection, Injection, IsInjective, Surjection
  <2> HIDE DEF g, K, P
  <2> QED BY <2>1, <2>5, FS_Bijection DEF ExistsBijection
<1> QED BY <1>2, <1>4, <1>5, FS_CardinalityType DEF Maps

LEMMA TablesChange ==
  ASSUME NEW T, NEW U, NEW f, NEW p \in Procs,
         \A q \in Procs : q # p => U[q].tables = T[q].tables
  PROVE  /\ Cardinality(TablesIn(U, f)) + Once(f, T[p].tables)
              = Cardinality(TablesIn(T, f)) + Once(f, U[p].tables)
         /\ Cardinality(TablesIn(U, f)) \in Nat /\ Cardinality(TablesIn(T, f)) \in Nat
         /\ Once(f, T[p].tables) <= Cardinality(TablesIn(T, f))
<1> DEFINE A == TablesIn(U, f)
           B == TablesIn(T, f)
<1>1. \A q \in Procs : q # p => (q \in A <=> q \in B) BY DEF TablesIn
<1>2. Once(p, A) = Once(f, U[p].tables) /\ Once(p, B) = Once(f, T[p].tables)
  BY DEF Once, TablesIn
<1>3. A \in SUBSET Procs /\ B \in SUBSET Procs BY DEF TablesIn
<1> HIDE DEF A, B
<1>4. /\ Cardinality(A) + Once(p, B) = Cardinality(B) + Once(p, A)
      /\ Cardinality(A) \in Nat /\ Cardinality(B) \in Nat
      /\ Once(p, B) <= Cardinality(B)
  BY <1>1, <1>3, ProcsFinite, OneChange
<1> QED BY <1>2, <1>4 DEF A, B

LEMMA StackChange ==
  ASSUME NEW t, NEW u, NEW f, NEW p \in Procs,
         \A q \in Procs : q # p => u[q] = t[q]
  PROVE  /\ Cardinality(StackIn(u, f)) + Is(f, t[p])
              = Cardinality(StackIn(t, f)) + Is(f, u[p])
         /\ Cardinality(StackIn(u, f)) \in Nat /\ Cardinality(StackIn(t, f)) \in Nat
         /\ Is(f, t[p]) <= Cardinality(StackIn(t, f))
<1> DEFINE A == StackIn(u, f)
           B == StackIn(t, f)
<1>1. \A q \in Procs : q # p => (q \in A <=> q \in B) BY DEF StackIn
<1>2. Once(p, A) = Is(f, u[p]) /\ Once(p, B) = Is(f, t[p])
  BY DEF Once, Is, StackIn
<1>3. A \in SUBSET Procs /\ B \in SUBSET Procs BY DEF StackIn
<1> HIDE DEF A, B
<1>4. /\ Cardinality(A) + Once(p, B) = Cardinality(B) + Once(p, A)
      /\ Cardinality(A) \in Nat /\ Cardinality(B) \in Nat
      /\ Once(p, B) <= Cardinality(B)
  BY <1>1, <1>3, ProcsFinite, OneChange
<1> QED BY <1>2, <1>4 DEF A, B

\* What the counts are about.
SameFrames(s, t) ==
  /\ \A k \in Pages : s.pte[k].frame = t.pte[k].frame
  /\ s.tables = t.tables /\ s.kstack = t.kstack /\ s.deferred = t.deferred
  /\ s.tstack = t.tstack /\ s.tkstack = t.tkstack

\* One slot changes: the holders change by what it held and holds.
LEMMA HoldersChange ==
  ASSUME NEW T, NEW U, NEW f, NEW p \in Procs,
         \A q \in Procs : q # p => SameFrames(U[q], T[q])
  PROVE  /\ HoldersIn(U, f) + Held(T[p], f) = HoldersIn(T, f) + Held(U[p], f)
         /\ HoldersIn(T, f) \in Nat /\ HoldersIn(U, f) \in Nat
         /\ Held(T[p], f) <= HoldersIn(T, f)
<1> DEFINE R == {x \in MapsIn(T, f) : x[1] # p}
<1>1. R = {x \in MapsIn(U, f) : x[1] # p} BY DEF MapsIn, SameFrames
<1>2. /\ Cardinality(MapsIn(T, f)) = Cardinality(R) + Maps(T[p], f)
      /\ Cardinality(MapsIn(U, f)) = Cardinality(R) + Maps(U[p], f)
      /\ Cardinality(R) \in Nat
  BY <1>1, MapsPairs
<1>3. Maps(T[p], f) \in Nat /\ Maps(U[p], f) \in Nat BY MapsNat
<1>4. /\ Cardinality(TablesIn(U, f)) + Once(f, T[p].tables)
           = Cardinality(TablesIn(T, f)) + Once(f, U[p].tables)
      /\ Cardinality(TablesIn(U, f)) \in Nat /\ Cardinality(TablesIn(T, f)) \in Nat
      /\ Once(f, T[p].tables) <= Cardinality(TablesIn(T, f))
  BY TablesChange DEF SameFrames
<1>5. /\ Cardinality(StackIn(Kstack(U), f)) + Is(f, T[p].kstack)
           = Cardinality(StackIn(Kstack(T), f)) + Is(f, U[p].kstack)
      /\ Cardinality(StackIn(Kstack(U), f)) \in Nat /\ Cardinality(StackIn(Kstack(T), f)) \in Nat
      /\ Is(f, T[p].kstack) <= Cardinality(StackIn(Kstack(T), f))
  <2> DEFINE t == Kstack(T)
             u == Kstack(U)
  <2>1. \A q \in Procs : q # p => u[q] = t[q] BY DEF Kstack, SameFrames
  <2>2. t[p] = T[p].kstack /\ u[p] = U[p].kstack BY DEF Kstack
  <2> HIDE DEF t, u
  <2>3. /\ Cardinality(StackIn(u, f)) + Is(f, t[p])
             = Cardinality(StackIn(t, f)) + Is(f, u[p])
        /\ Cardinality(StackIn(u, f)) \in Nat /\ Cardinality(StackIn(t, f)) \in Nat
        /\ Is(f, t[p]) <= Cardinality(StackIn(t, f))
    BY <2>1, StackChange
  <2> QED BY <2>2, <2>3 DEF t, u
<1>6. /\ Cardinality(StackIn(Deferred(U), f)) + Is(f, T[p].deferred)
           = Cardinality(StackIn(Deferred(T), f)) + Is(f, U[p].deferred)
      /\ Cardinality(StackIn(Deferred(U), f)) \in Nat /\ Cardinality(StackIn(Deferred(T), f)) \in Nat
      /\ Is(f, T[p].deferred) <= Cardinality(StackIn(Deferred(T), f))
  <2> DEFINE t == Deferred(T)
             u == Deferred(U)
  <2>1. \A q \in Procs : q # p => u[q] = t[q] BY DEF Deferred, SameFrames
  <2>2. t[p] = T[p].deferred /\ u[p] = U[p].deferred BY DEF Deferred
  <2> HIDE DEF t, u
  <2>3. /\ Cardinality(StackIn(u, f)) + Is(f, t[p])
             = Cardinality(StackIn(t, f)) + Is(f, u[p])
        /\ Cardinality(StackIn(u, f)) \in Nat /\ Cardinality(StackIn(t, f)) \in Nat
        /\ Is(f, t[p]) <= Cardinality(StackIn(t, f))
    BY <2>1, StackChange
  <2> QED BY <2>2, <2>3 DEF t, u
<1>7. /\ Cardinality(StackIn(Tstack(U), f)) + Is(f, T[p].tstack)
           = Cardinality(StackIn(Tstack(T), f)) + Is(f, U[p].tstack)
      /\ Cardinality(StackIn(Tstack(U), f)) \in Nat /\ Cardinality(StackIn(Tstack(T), f)) \in Nat
      /\ Is(f, T[p].tstack) <= Cardinality(StackIn(Tstack(T), f))
  <2> DEFINE t == Tstack(T)
             u == Tstack(U)
  <2>1. \A q \in Procs : q # p => u[q] = t[q] BY DEF Tstack, SameFrames
  <2>2. t[p] = T[p].tstack /\ u[p] = U[p].tstack BY DEF Tstack
  <2> HIDE DEF t, u
  <2>3. /\ Cardinality(StackIn(u, f)) + Is(f, t[p])
             = Cardinality(StackIn(t, f)) + Is(f, u[p])
        /\ Cardinality(StackIn(u, f)) \in Nat /\ Cardinality(StackIn(t, f)) \in Nat
        /\ Is(f, t[p]) <= Cardinality(StackIn(t, f))
    BY <2>1, StackChange
  <2> QED BY <2>2, <2>3 DEF t, u
<1>8. /\ Cardinality(StackIn(Tkstack(U), f)) + Is(f, T[p].tkstack)
           = Cardinality(StackIn(Tkstack(T), f)) + Is(f, U[p].tkstack)
      /\ Cardinality(StackIn(Tkstack(U), f)) \in Nat /\ Cardinality(StackIn(Tkstack(T), f)) \in Nat
      /\ Is(f, T[p].tkstack) <= Cardinality(StackIn(Tkstack(T), f))
  <2> DEFINE t == Tkstack(T)
             u == Tkstack(U)
  <2>1. \A q \in Procs : q # p => u[q] = t[q] BY DEF Tkstack, SameFrames
  <2>2. t[p] = T[p].tkstack /\ u[p] = U[p].tkstack BY DEF Tkstack
  <2> HIDE DEF t, u
  <2>3. /\ Cardinality(StackIn(u, f)) + Is(f, t[p])
             = Cardinality(StackIn(t, f)) + Is(f, u[p])
        /\ Cardinality(StackIn(u, f)) \in Nat /\ Cardinality(StackIn(t, f)) \in Nat
        /\ Is(f, t[p]) <= Cardinality(StackIn(t, f))
    BY <2>1, StackChange
  <2> QED BY <2>2, <2>3 DEF t, u
<1> DEFINE r == Cardinality(R)
           mt == Maps(T[p], f)
           mu == Maps(U[p], f)
           ct == Cardinality(TablesIn(T, f))
           cu == Cardinality(TablesIn(U, f))
           kt == Cardinality(StackIn(Kstack(T), f))
           ku == Cardinality(StackIn(Kstack(U), f))
           dt == Cardinality(StackIn(Deferred(T), f))
           du == Cardinality(StackIn(Deferred(U), f))
           st == Cardinality(StackIn(Tstack(T), f))
           su == Cardinality(StackIn(Tstack(U), f))
           xt == Cardinality(StackIn(Tkstack(T), f))
           xu == Cardinality(StackIn(Tkstack(U), f))
           oct == Once(f, T[p].tables)
           ocu == Once(f, U[p].tables)
           okt == Is(f, T[p].kstack)
           oku == Is(f, U[p].kstack)
           odt == Is(f, T[p].deferred)
           odu == Is(f, U[p].deferred)
           ost == Is(f, T[p].tstack)
           osu == Is(f, U[p].tstack)
           oxt == Is(f, T[p].tkstack)
           oxu == Is(f, U[p].tkstack)
<1>10. /\ HoldersIn(T, f) = r + mt + ct + kt + dt + st + xt
       /\ HoldersIn(U, f) = r + mu + cu + ku + du + su + xu
  BY <1>2 DEF HoldersIn
<1>11. /\ Held(T[p], f) = mt + oct + okt + odt + ost + oxt
       /\ Held(U[p], f) = mu + ocu + oku + odu + osu + oxu
  BY DEF Held
<1>12. /\ oct \in {0, 1} /\ okt \in {0, 1} /\ odt \in {0, 1} /\ ost \in {0, 1}
       /\ oxt \in {0, 1} /\ ocu \in {0, 1} /\ oku \in {0, 1} /\ odu \in {0, 1}
       /\ osu \in {0, 1} /\ oxu \in {0, 1}
  BY DEF Once, Is
<1>13. r \in Nat /\ mt \in Nat /\ mu \in Nat BY <1>2, <1>3
<1> HIDE DEF r, mt, mu, ct, cu, kt, ku, dt, du, st, su, xt, xu,
             oct, ocu, okt, oku, odt, odu, ost, osu, oxt, oxu
<1>14. /\ cu + oct = ct + ocu /\ ct \in Nat /\ cu \in Nat
       /\ ku + okt = kt + oku /\ kt \in Nat /\ ku \in Nat
       /\ du + odt = dt + odu /\ dt \in Nat /\ du \in Nat
       /\ su + ost = st + osu /\ st \in Nat /\ su \in Nat
       /\ xu + oxt = xt + oxu /\ xt \in Nat /\ xu \in Nat
  BY <1>4, <1>5, <1>6, <1>7, <1>8
     DEF ct, cu, kt, ku, dt, du, st, su, xt, xu,
         oct, ocu, okt, oku, odt, odu, ost, osu, oxt, oxu
<1>15. oct <= ct /\ okt <= kt /\ odt <= dt /\ ost <= st /\ oxt <= xt
  BY <1>4, <1>5, <1>6, <1>7, <1>8 DEF oct, okt, odt, ost, oxt, ct, kt, dt, st, xt
<1> QED BY ONLY <1>10, <1>11, <1>12, <1>13, <1>14, <1>15

-----------------------------------------------------------------------------
(***************************************************************************)
(* What a slot holds.                                                      *)
(***************************************************************************)
LEMMA MapsNone ==
  ASSUME NEW s, NEW f, \A k \in Pages : s.pte[k].frame # f PROVE Maps(s, f) = 0
<1>1. {k \in Pages : s.pte[k].frame = f} = {} OBVIOUS
<1> QED BY <1>1, FS_EmptySet DEF Maps

LEMMA MapsSome ==
  ASSUME NEW s, NEW f, NEW k \in Pages, s.pte[k].frame = f PROVE Maps(s, f) >= 1
<1> DEFINE K == {j \in Pages : s.pte[j].frame = f}
<1>1. IsFiniteSet(K) BY ProcsFinite, FS_Subset
<1>2. Cardinality(K) # 0 BY <1>1, FS_EmptySet
<1> QED BY <1>1, <1>2, FS_CardinalityType DEF Maps

LEMMA MapsOne ==
  ASSUME NEW s, NEW f, NEW k \in Pages, \A j \in Pages : s.pte[j].frame = f <=> j = k
  PROVE  Maps(s, f) = 1
<1>1. {j \in Pages : s.pte[j].frame = f} = {k} OBVIOUS
<1> QED BY <1>1, FS_Singleton DEF Maps

\* The entry of one page is replaced.
LEMMA MapsPut ==
  ASSUME NEW s, NEW t, NEW f, NEW k \in Pages,
         \A j \in Pages : j # k => t.pte[j].frame = s.pte[j].frame
  PROVE  Maps(t, f) + Is(f, s.pte[k].frame) = Maps(s, f) + Is(f, t.pte[k].frame)
<1> DEFINE A == {j \in Pages : t.pte[j].frame = f}
           B == {j \in Pages : s.pte[j].frame = f}
<1>1. \A j \in Pages : j # k => (j \in A <=> j \in B) OBVIOUS
<1>2. Once(k, A) = Is(f, t.pte[k].frame) /\ Once(k, B) = Is(f, s.pte[k].frame) BY DEF Once, Is
<1>3. A \in SUBSET Pages /\ B \in SUBSET Pages OBVIOUS
<1>4. Maps(t, f) = Cardinality(A) /\ Maps(s, f) = Cardinality(B) BY DEF Maps
<1> HIDE DEF A, B
<1>5. Cardinality(A) + Once(k, B) = Cardinality(B) + Once(k, A)
  BY <1>1, <1>3, ProcsFinite, OneChange
<1> QED BY <1>2, <1>4, <1>5

LEMMA MapsAlike ==
  ASSUME NEW s, NEW t, NEW f, \A k \in Pages : s.pte[k].frame = t.pte[k].frame
  PROVE  Maps(s, f) = Maps(t, f)
<1>1. {k \in Pages : s.pte[k].frame = f} = {k \in Pages : t.pte[k].frame = f} OBVIOUS
<1> QED BY <1>1 DEF Maps

LEMMA HeldAlike ==
  ASSUME NEW s, NEW t, NEW f, SameFrames(s, t) PROVE Held(s, f) = Held(t, f)
BY MapsAlike DEF SameFrames, Held

\* reap_process and exec count what user_pages[] lists.
LEMMA EntriesAre ==
  ASSUME NEW s, NEW f, \A k \in Pages : s.user_pages[k] = s.pte[k].frame
  PROVE  Entries(s.user_pages, f) = Maps(s, f)
<1>1. {k \in Pages : s.user_pages[k] = f} = {k \in Pages : s.pte[k].frame = f} OBVIOUS
<1> QED BY <1>1 DEF Maps, Entries

\* An unused slot holds nothing.
LEMMA NoSpaceHeld ==
  ASSUME NEW f \in Frames PROVE Held(NoSpace, f) = 0
<1>1. f # NoFrame BY DEF Frames, NoFrame
<1>2. \A k \in Pages : NoSpace.pte[k].frame = NoFrame BY DEF NoSpace, Unmapped
<1>3. Maps(NoSpace, f) = 0 BY <1>1, <1>2, MapsNone
<1>4. /\ NoSpace.tables = {} /\ NoSpace.kstack = NoFrame /\ NoSpace.deferred = NoFrame
      /\ NoSpace.tstack = NoFrame /\ NoSpace.tkstack = NoFrame
  BY DEF NoSpace
<1> QED BY <1>1, <1>3, <1>4 DEF Held, Once, Is

\* What is held is held at least as often by the slot that names it.
LEMMA Names ==
  ASSUME NEW s, NEW f, Held(s, f) = 0
  PROVE  /\ \A k \in Pages : s.pte[k].frame # f
         /\ f \notin s.tables /\ s.kstack # f /\ s.deferred # f
         /\ s.tstack # f /\ s.tkstack # f /\ Maps(s, f) = 0
<1>1. Maps(s, f) \in Nat BY MapsNat
<1>2. /\ Maps(s, f) = 0 /\ Once(f, s.tables) = 0 /\ Is(f, s.kstack) = 0 /\ Is(f, s.deferred) = 0
      /\ Is(f, s.tstack) = 0 /\ Is(f, s.tkstack) = 0
  <2>1. /\ Once(f, s.tables) \in {0, 1} /\ Is(f, s.kstack) \in {0, 1}
        /\ Is(f, s.deferred) \in {0, 1} /\ Is(f, s.tstack) \in {0, 1} /\ Is(f, s.tkstack) \in {0, 1}
    BY DEF Once, Is
  <2> QED BY <1>1, <2>1 DEF Held
<1>3. \A k \in Pages : s.pte[k].frame # f
  <2>1. ASSUME NEW k \in Pages, s.pte[k].frame = f PROVE FALSE
    <3>1. Maps(s, f) >= 1 BY <2>1, MapsSome
    <3> QED BY <1>2, <3>1
  <2> QED BY <2>1
<1> QED BY <1>2, <1>3 DEF Once, Is

\* Two slots hold no more than all do.
LEMMA TwoHold ==
  ASSUME NEW f \in Frames, NEW T \in [Procs -> Space],
         NEW p \in Procs, NEW q \in Procs, p # q
  PROVE  Held(T[p], f) + Held(T[q], f) <= HoldersIn(T, f)
<1> DEFINE U == [T EXCEPT ![p] = NoSpace]
<1>1. U[p] = NoSpace /\ \A r \in Procs : r # p => U[r] = T[r] OBVIOUS
<1>2. \A r \in Procs : r # p => SameFrames(U[r], T[r]) BY <1>1 DEF SameFrames
<1> HIDE DEF U
<1>3. /\ HoldersIn(U, f) + Held(T[p], f) = HoldersIn(T, f) + Held(U[p], f)
      /\ HoldersIn(T, f) \in Nat /\ HoldersIn(U, f) \in Nat
  BY <1>2, HoldersChange
<1>4. Held(U[p], f) = 0 BY <1>1, NoSpaceHeld
<1>5. Held(U[q], f) <= HoldersIn(U, f)
  <2>1. \A r \in Procs : r # q => SameFrames(U[r], U[r]) BY DEF SameFrames
  <2> QED BY <2>1, HoldersChange
<1>6. Held(U[q], f) = Held(T[q], f) BY <1>1
<1>7. Held(T[p], f) \in Nat /\ Held(T[q], f) \in Nat BY HeldNat
<1> QED BY <1>3, <1>4, <1>5, <1>6, <1>7

LEMMA MapsSame ==
  ASSUME NEW s, NEW f, Maps(s, f) <= 1, NEW j \in Pages, NEW k \in Pages,
         s.pte[j].frame = f, s.pte[k].frame = f
  PROVE  j = k
<1> DEFINE K == {i \in Pages : s.pte[i].frame = f}
<1>1. IsFiniteSet(K) /\ j \in K /\ k \in K BY ProcsFinite, FS_Subset
<1>2. Cardinality(K) # 0 BY <1>1, FS_EmptySet
<1>3. Cardinality(K) \in Nat /\ Cardinality(K) <= 1 BY <1>1, FS_CardinalityType DEF Maps
<1>4. Cardinality(K) = 1 BY <1>2, <1>3
<1>5. PICK x : K = {x} BY <1>1, <1>4, FS_Singleton
<1> QED BY <1>1, <1>5

-----------------------------------------------------------------------------
(***************************************************************************)
(* What the counts say in a state of the invariant.                        *)
(***************************************************************************)
LEMMA Counted ==
  ASSUME MemInv, NEW f \in Frames
  PROVE  /\ page_refs[f] = HoldersIn(space, f) + Once(f, forgotten)
         /\ HoldersIn(space, f) \in Nat /\ page_refs[f] \in Nat
         /\ \A p \in Procs : Held(space[p], f) <= HoldersIn(space, f)
<1>1. page_refs[f] = HoldersIn(space, f) + Once(f, forgotten)
  BY HoldersAre DEF MemInv, RefsExact
<1>2. HoldersIn(space, f) \in Nat
  <2>1. HoldersIn(space, f) = Cardinality(MapsIn(space, f)) + Cardinality(TablesIn(space, f))
          + Cardinality(StackIn(Kstack(space), f)) + Cardinality(StackIn(Deferred(space), f))
          + Cardinality(StackIn(Tstack(space), f)) + Cardinality(StackIn(Tkstack(space), f))
    BY DEF HoldersIn
  <2>2. \A t : Cardinality(StackIn(t, f)) \in Nat
    <3> SUFFICES ASSUME NEW t PROVE Cardinality(StackIn(t, f)) \in Nat OBVIOUS
    <3>1. IsFiniteSet(StackIn(t, f)) BY ProcsFinite, FS_Subset DEF StackIn
    <3> QED BY <3>1, FS_CardinalityType
  <2>3. Cardinality(TablesIn(space, f)) \in Nat
    <3>1. IsFiniteSet(TablesIn(space, f)) BY ProcsFinite, FS_Subset DEF TablesIn
    <3> QED BY <3>1, FS_CardinalityType
  <2>4. Cardinality(MapsIn(space, f)) \in Nat
    <3>1. IsFiniteSet(MapsIn(space, f)) BY ProcsFinite, FS_Subset DEF MapsIn
    <3> QED BY <3>1, FS_CardinalityType
  <2> QED BY <2>1, <2>2, <2>3, <2>4
<1>3. ASSUME NEW p \in Procs PROVE Held(space[p], f) <= HoldersIn(space, f)
  <2>1. \A r \in Procs : r # p => SameFrames(space[r], space[r]) BY DEF SameFrames
  <2> QED BY <2>1, HoldersChange
<1> QED BY <1>1, <1>2, <1>3 DEF MemInv

LEMMA FreeUnheld ==
  ASSUME MemInv, NEW f \in Free
  PROVE  /\ HoldersIn(space, f) = 0 /\ f \notin forgotten
         /\ \A p \in Procs : Held(space[p], f) = 0
<1>1. f \in Frames /\ page_refs[f] = 0 BY DEF Free
<1>2. Once(f, forgotten) \in {0, 1} BY DEF Once
<1>3. HoldersIn(space, f) = 0 /\ Once(f, forgotten) = 0 BY <1>1, <1>2, Counted
<1>4. ASSUME NEW p \in Procs PROVE Held(space[p], f) = 0
  <2>1. Held(space[p], f) <= 0 BY <1>1, <1>3, Counted
  <2> QED BY <2>1, HeldNat
<1> QED BY <1>3, <1>4 DEF Once

\* A frame counted once that a slot holds is held by that slot alone, and once.
LEMMA Sole ==
  ASSUME MemInv, NEW f \in Frames, page_refs[f] = 1, NEW p \in Procs, Held(space[p], f) # 0
  PROVE  /\ f \notin forgotten /\ Held(space[p], f) = 1
         /\ \A q \in Procs : q # p => Held(space[q], f) = 0
<1>1. Held(space[p], f) \in Nat BY HeldNat
<1>2. Once(f, forgotten) \in {0, 1} BY DEF Once
<1>3. HoldersIn(space, f) = 1 /\ Once(f, forgotten) = 0 /\ Held(space[p], f) = 1
  <2>1. Held(space[p], f) <= HoldersIn(space, f) BY Counted
  <2>2. HoldersIn(space, f) \in Nat /\ 1 = HoldersIn(space, f) + Once(f, forgotten) BY Counted
  <2> QED BY <1>1, <1>2, <2>1, <2>2
<1>4. ASSUME NEW q \in Procs, q # p PROVE Held(space[q], f) = 0
  <2>1. Held(space[p], f) + Held(space[q], f) <= HoldersIn(space, f)
    BY <1>4, TwoHold DEF MemInv
  <2>2. Held(space[q], f) \in Nat BY HeldNat
  <2> QED BY <1>3, <2>1, <2>2
<1> QED BY <1>3, <1>4 DEF Once

\* Naming a frame is holding it.
LEMMA Holding ==
  ASSUME NEW s, NEW f
  PROVE  /\ \A k \in Pages : s.pte[k].frame = f => Held(s, f) # 0
         /\ (s.kstack = f \/ s.deferred = f) => Held(s, f) # 0
BY Names

\* A slot that holds a frame once maps it once, or has it as one kernel stack.
LEMMA MapsHeld == ASSUME NEW s, NEW f PROVE Maps(s, f) <= Held(s, f)
<1>1. /\ Once(f, s.tables) \in Nat /\ Is(f, s.kstack) \in Nat /\ Is(f, s.deferred) \in Nat
      /\ Is(f, s.tstack) \in Nat /\ Is(f, s.tkstack) \in Nat
  BY DEF Once, Is
<1> QED BY <1>1, MapsNat DEF Held

LEMMA StackHeld ==
  ASSUME NEW s, NEW f, Held(s, f) = 1, f = s.kstack \/ f = s.deferred PROVE Maps(s, f) = 0
BY MapsNat DEF Held, Once, Is

\* The invariant is about page_refs, the table and forgotten.
LEMMA MemFrame ==
  ASSUME MemInv, page_refs' = page_refs, space' = space, forgotten' = forgotten,
         content' \in [Frames -> Values \cup {Zero, KernelData}],
         expected' \in [Procs -> [Pages \cup {ThreadPage} -> Values \cup {Zero}]]
  PROVE  MemInv'
<1>1. RefsExact' BY DEF MemInv, RefsExact, Holders
<1>2. OwnPages' /\ OwnStacks' BY DEF MemInv, OwnPages, OwnStacks
<1>3. (\A p \in Procs : SlotOK(space[p]))' BY DEF MemInv, SlotOK
<1> QED BY <1>1, <1>2, <1>3 DEF MemInv

\* A step changes the holdings of one slot, p, and the counts by as much: of the frames
\* that others hold only those that nobody may write any more.
LEMMA ForkStep ==
  ASSUME MemInv, NEW p \in Procs,
         page_refs' \in [Frames -> Nat],
         content' \in [Frames -> Values \cup {Zero, KernelData}],
         expected' \in [Procs -> [Pages \cup {ThreadPage} -> Values \cup {Zero}]],
         forgotten \subseteq forgotten', forgotten' \subseteq Frames,
         space' \in [Procs -> Space], SlotOK(space'[p]),
         \A q \in Procs : q # p =>
           /\ SlotOK(space'[q]) /\ SameFrames(space'[q], space[q])
           /\ \A k \in Pages : space'[q].pte[k].mode = "rw" => space[q].pte[k].mode = "rw",
         \A f \in Frames : page_refs'[f] + Held(space[p], f) + Once(f, forgotten)
                             = page_refs[f] + Held(space'[p], f) + Once(f, forgotten'),
         \A f \in Frames : page_refs[f] = 1 /\ Held(space[p], f) = 0
             /\ (\A q \in Procs, k \in Pages :
                   q # p /\ space'[q].pte[k].frame = f => space'[q].pte[k].mode = "rw")
           => page_refs'[f] = 1,
         \A k \in Pages : space'[p].pte[k].mode = "rw" => page_refs'[space'[p].pte[k].frame] = 1,
         \A f \in forgotten' \ forgotten : page_refs'[f] = 1,
         space'[p].kstack # NoFrame => page_refs'[space'[p].kstack] = 1,
         space'[p].deferred # NoFrame => page_refs'[space'[p].deferred] = 1
  PROVE  MemInv'
<1>0. page_refs' \in [Frames -> Nat] OBVIOUS
<1>1. RefsExact'
  <2>1. ASSUME NEW f \in Frames
        PROVE  page_refs'[f] = HoldersIn(space', f) + Once(f, forgotten')
    <3> DEFINE a == HoldersIn(space, f)
               b == HoldersIn(space', f)
               c == Held(space[p], f)
               d == Held(space'[p], f)
               o == Once(f, forgotten)
               n == Once(f, forgotten')
               r == page_refs[f]
               t == page_refs'[f]
    <3>1. b + c = a + d /\ a \in Nat /\ b \in Nat
      <4>1. \A q \in Procs : q # p => SameFrames(space'[q], space[q]) OBVIOUS
      <4> QED BY ONLY <4>1, HoldersChange, p \in Procs
    <3>2. c \in Nat /\ d \in Nat BY HeldNat
    <3>3. o \in Nat /\ n \in Nat BY DEF Once
    <3>4. r = a + o BY Counted
    <3>5. t + c + o = r + d + n OBVIOUS
    <3>6. t \in Nat BY ONLY <1>0, <2>1
    <3> HIDE DEF a, b, c, d, o, n, r, t
    <3>7. t = b + n BY ONLY <3>1, <3>2, <3>3, <3>4, <3>5, <3>6
    <3> QED BY <3>7 DEF b, n, t
  <2>2. ASSUME NEW f PROVE Holders(f)' = HoldersIn(space', f)
    BY DEF Holders, HoldersIn, MapsIn, TablesIn, StackIn, Kstack, Deferred, Tstack, Tkstack
  <2> QED BY <2>1, <2>2 DEF RefsExact, Once
<1>2. ASSUME NEW f \in Frames, page_refs[f] = 1, Held(space[p], f) = 0,
             \A q \in Procs : Maps(space[q], f) = 0
      PROVE  page_refs'[f] = 1
  <2>1. \A q \in Procs, k \in Pages : space[q].pte[k].frame # f
    <3>1. ASSUME NEW q \in Procs, NEW k \in Pages, space[q].pte[k].frame = f PROVE FALSE
      <4>1. Maps(space[q], f) >= 1 BY <3>1, MapsSome
      <4> QED BY <1>2, <4>1
    <3> QED BY <3>1
  <2>2. \A q \in Procs, k \in Pages : q # p => space'[q].pte[k].frame # f
    BY <2>1 DEF SameFrames
  <2> QED BY <1>2, <2>2
<1>3. OwnPages'
  <2> SUFFICES ASSUME NEW q \in Procs, NEW k \in Pages, space'[q].pte[k].mode = "rw"
               PROVE  page_refs'[space'[q].pte[k].frame] = 1
    BY DEF OwnPages
  <2>1. CASE q # p
    <3> DEFINE f == space[q].pte[k].frame
    <3>1. space'[q].pte[k].frame = f /\ space[q].pte[k].mode = "rw" BY <2>1 DEF SameFrames
    <3>2. page_refs[f] = 1 BY <3>1 DEF MemInv, OwnPages
    <3>3. f \in Frames
      <4>1. space[q].live
        <5>1. \A j \in Pages : NoSpace.pte[j].mode = "none" BY DEF NoSpace, Unmapped
        <5> QED BY <3>1, <5>1 DEF MemInv, SlotOK
      <4> QED BY <4>1 DEF MemInv, SlotOK
    <3>4. Held(space[q], f) # 0 BY Holding
    <3>5. /\ Held(space[q], f) = 1
          /\ \A r \in Procs : r # q => Held(space[r], f) = 0
      BY <3>2, <3>3, <3>4, Sole
    <3>6. Maps(space[q], f) <= 1 BY <3>5, MapsHeld
    <3>7. ASSUME NEW r \in Procs, NEW j \in Pages, r # p, space'[r].pte[j].frame = f
          PROVE  space'[r].pte[j].mode = "rw"
      <4>1. space[r].pte[j].frame = f BY <3>7 DEF SameFrames
      <4>2. r = q BY <3>5, <4>1, Names
      <4>3. j = k BY <3>1, <3>6, <4>1, <4>2, MapsSame DEF SameFrames
      <4> QED BY <4>2, <4>3
    <3>8. page_refs'[f] = 1
      <4>1. Held(space[p], f) = 0 BY <2>1, <3>5
      <4> QED BY <3>2, <3>3, <3>7, <4>1
    <3> QED BY <3>1, <3>8
  <2> QED BY <2>1
<1>4. OwnStacks'
  <2>1. ASSUME NEW f \in forgotten'
        PROVE  page_refs'[f] = 1
    <3>1. CASE f \in forgotten
      <4>1. f \in Frames /\ page_refs[f] = 1 BY <3>1 DEF MemInv, OwnStacks
      <4>2. \A q \in Procs : Held(space[q], f) = 0 BY <3>1, <4>1, Sole
      <4>3. \A q \in Procs : Maps(space[q], f) = 0 BY <4>2, Names
      <4> QED BY <1>2, <4>1, <4>2, <4>3
    <3> QED BY <3>1
  <2>2. ASSUME NEW q \in Procs, q # p, NEW f \in Frames, page_refs[f] = 1,
               f = space[q].kstack \/ f = space[q].deferred
        PROVE  page_refs'[f] = 1
    <3>1. Held(space[q], f) # 0 BY <2>2, Holding
    <3>2. /\ Held(space[q], f) = 1
          /\ \A r \in Procs : r # q => Held(space[r], f) = 0
      BY <2>2, <3>1, Sole
    <3>3. Maps(space[q], f) = 0 BY <2>2, <3>2, StackHeld
    <3>4. \A r \in Procs : r # q => Maps(space[r], f) = 0 BY <3>2, Names
    <3> QED BY <1>2, <2>2, <3>2, <3>3, <3>4
  <2>3. \A q \in Procs : /\ space[q].kstack \in Frames \cup {NoFrame}
                         /\ space[q].deferred \in Frames \cup {NoFrame}
    BY DEF MemInv, Space
  <2>4. \A q \in Procs : q # p => /\ space'[q].kstack = space[q].kstack
                                  /\ space'[q].deferred = space[q].deferred
    BY DEF SameFrames
  <2>5. \A q \in Procs : /\ space[q].kstack # NoFrame => page_refs[space[q].kstack] = 1
                         /\ space[q].deferred # NoFrame => page_refs[space[q].deferred] = 1
    BY DEF MemInv, OwnStacks
  <2> QED BY <2>1, <2>2, <2>3, <2>4, <2>5 DEF OwnStacks
<1>5. \A q \in Procs : SlotOK(space'[q]) OBVIOUS
<1>6. (\A q \in Procs : SlotOK(space[q]))' BY <1>5 DEF SlotOK
<1> QED BY <1>1, <1>3, <1>4, <1>6 DEF MemInv

\* A step that changes nothing of the other slots and of the frames they alone hold.
LEMMA SlotStep ==
  ASSUME MemInv, NEW p \in Procs,
         page_refs' \in [Frames -> Nat],
         content' \in [Frames -> Values \cup {Zero, KernelData}],
         expected' \in [Procs -> [Pages \cup {ThreadPage} -> Values \cup {Zero}]],
         forgotten \subseteq forgotten', forgotten' \subseteq Frames,
         space' \in [Procs -> Space], SlotOK(space'[p]),
         \A q \in Procs : q # p =>
           /\ SlotOK(space'[q]) /\ SameFrames(space'[q], space[q])
           /\ \A k \in Pages : space'[q].pte[k].mode = "rw" => space[q].pte[k].mode = "rw",
         \A f \in Frames : page_refs'[f] + Held(space[p], f) + Once(f, forgotten)
                             = page_refs[f] + Held(space'[p], f) + Once(f, forgotten'),
         \A f \in Frames : page_refs[f] = 1 /\ Held(space[p], f) = 0 => page_refs'[f] = 1,
         \A k \in Pages : space'[p].pte[k].mode = "rw" => page_refs'[space'[p].pte[k].frame] = 1,
         \A f \in forgotten' \ forgotten : page_refs'[f] = 1,
         space'[p].kstack # NoFrame => page_refs'[space'[p].kstack] = 1,
         space'[p].deferred # NoFrame => page_refs'[space'[p].deferred] = 1
  PROVE  MemInv'
BY ForkStep

-----------------------------------------------------------------------------
(***************************************************************************)
(* A new image holds the lowest free frames, each once.                    *)
(***************************************************************************)
ImageModes == {"rw", "ro"}

LEMMA ImageFields ==
  /\ Image.live = TRUE
  /\ \A k \in Pages : /\ Image.user_pages[k] = Nth(Free, k)
                      /\ Image.pte[k].frame = Nth(Free, k)
                      /\ Image.pte[k].mode \in ImageModes
  /\ Image.pte[ThreadPage] = Unmapped
  /\ Image.tables = Lowest(Free, PageCount + TableFrames) \ Lowest(Free, PageCount)
  /\ Image.kstack = Nth(Free, ImageFrames)
  /\ Image.deferred = NoFrame /\ Image.tstack = NoFrame /\ Image.tkstack = NoFrame
<1>1. ThreadPage \notin Pages BY MemoryAssumption DEF MemoryAssumption, ThreadPage, Pages
<1> QED BY <1>1 DEF Image, NoSpace, ImageModes

LEMMA Sizes ==
  /\ PageCount \in Nat /\ TableFrames \in Nat /\ ImageFrames \in Nat /\ ForkFrames \in Nat
  /\ ImageFrames = PageCount + TableFrames + 1 /\ ForkFrames = TableFrames + 1
  /\ Pages = 1 .. PageCount /\ ThreadPage \notin Pages
  /\ NoFrame \notin Frames
BY MemoryAssumption
   DEF MemoryAssumption, ImageFrames, ForkFrames, Pages, ThreadPage, NoFrame, Frames

LEMMA FreeFrames == Free \in SUBSET Frames /\ Cardinality(Free) \in Nat
BY FramesFinite DEF Free

LEMMA NoSpaceType == NoSpace \in Space
BY DEF NoSpace, Space, Unmapped, Mapping

LEMMA ImageType == ASSUME Cardinality(Free) >= ImageFrames PROVE Image \in Space
<1>1. \A k \in 1 .. ImageFrames : Nth(Free, k) \in Free BY FreeFrames, Sizes, NthIs
<1>2. \A k \in Pages : Nth(Free, k) \in Frames BY <1>1, Sizes DEF Free
<1>3. Nth(Free, ImageFrames) \in Frames
  <2>1. ImageFrames \in 1 .. ImageFrames BY Sizes
  <2> QED BY <1>1, <2>1 DEF Free
<1>4. Lowest(Free, PageCount + TableFrames) \ Lowest(Free, PageCount) \in SUBSET Frames
  BY DEF Lowest, Free
<1> DEFINE pages == [k \in Pages |-> Nth(Free, k)]
           pte == [k \in Pages \cup {ThreadPage} |->
                     IF k \in Pages
                     THEN [frame |-> Nth(Free, k), mode |-> IF k \in Writable THEN "rw" ELSE "ro"]
                     ELSE Unmapped]
           tables == Lowest(Free, PageCount + TableFrames) \ Lowest(Free, PageCount)
           kstack == Nth(Free, ImageFrames)
<1>5. pages \in [Pages -> Frames \cup {NoFrame}] BY <1>2
<1>6. pte \in [Pages \cup {ThreadPage} -> Mapping] BY <1>2 DEF Mapping, Unmapped
<1>7. Image = [NoSpace EXCEPT !.live = TRUE, !.user_pages = pages, !.pte = pte,
                              !.tables = tables, !.kstack = kstack]
  BY DEF Image
<1>8. tables \in SUBSET Frames /\ kstack \in Frames BY <1>3, <1>4
<1> HIDE DEF pages, pte, tables, kstack
<1> QED BY <1>5, <1>6, <1>7, <1>8, NoSpaceType DEF Space

LEMMA ImageHeld ==
  ASSUME Cardinality(Free) >= ImageFrames, NEW f \in Frames
  PROVE  Held(Image, f) = Once(f, Lowest(Free, ImageFrames))
<1> DEFINE r == Rank(Free, f)
<1>1. \A n \in Nat : f \in Lowest(Free, n) <=> f \in Free /\ r < n BY LowestOf
<1>2. f \in Free => r \in Nat BY FreeFrames, RankRange
<1>3. \A k \in 1 .. ImageFrames : f = Nth(Free, k) <=> f \in Free /\ r = k - 1
  <2> SUFFICES ASSUME NEW k \in 1 .. ImageFrames
               PROVE  f = Nth(Free, k) <=> f \in Free /\ r = k - 1
    OBVIOUS
  <2>1. k \in 1 .. Cardinality(Free) BY FreeFrames, Sizes
  <2>2. Nth(Free, k) \in Free BY <2>1, FreeFrames, NthIs
  <2> QED BY <2>1, <2>2, FreeFrames, NthOf
<1>4. f = Image.kstack <=> f \in Free /\ r = PageCount + TableFrames
  <2>1. ImageFrames \in 1 .. ImageFrames /\ ImageFrames - 1 = PageCount + TableFrames BY Sizes
  <2>2. f = Nth(Free, ImageFrames) <=> f \in Free /\ r = ImageFrames - 1 BY <1>3, <2>1
  <2> QED BY <2>1, <2>2, ImageFields
<1>5. f \in Image.tables <=> f \in Free /\ r >= PageCount /\ r < PageCount + TableFrames
  <2>1. PageCount \in Nat /\ PageCount + TableFrames \in Nat BY Sizes
  <2>2. /\ f \in Lowest(Free, PageCount) <=> f \in Free /\ r < PageCount
        /\ f \in Lowest(Free, PageCount + TableFrames)
             <=> f \in Free /\ r < PageCount + TableFrames
    BY <1>1, <2>1
  <2>3. f \in Image.tables <=> /\ f \in Lowest(Free, PageCount + TableFrames)
                              /\ f \notin Lowest(Free, PageCount)
    BY ImageFields
  <2> QED BY <1>2, <2>1, <2>2, <2>3
<1>6. Maps(Image, f) = IF f \in Free /\ r < PageCount THEN 1 ELSE 0
  <2>1. \A k \in Pages : Image.pte[k].frame = f <=> f \in Free /\ r = k - 1
    <3>1. \A k \in Pages : k \in 1 .. ImageFrames BY Sizes
    <3> QED BY <1>3, <3>1, ImageFields
  <2>2. CASE f \in Free /\ r < PageCount
    <3>1. r + 1 \in Pages BY <1>2, <2>2, Sizes
    <3>2. \A k \in Pages : Image.pte[k].frame = f <=> k = r + 1 BY <1>2, <2>1, <2>2, Sizes
    <3> QED BY <2>2, <3>1, <3>2, MapsOne
  <2>3. CASE ~(f \in Free /\ r < PageCount)
    <3>1. \A k \in Pages : Image.pte[k].frame # f BY <1>2, <2>1, <2>3, Sizes
    <3> QED BY <2>3, <3>1, MapsNone
  <2> QED BY <2>2, <2>3
<1>7. Is(f, Image.deferred) = 0 /\ Is(f, Image.tstack) = 0 /\ Is(f, Image.tkstack) = 0
  BY ImageFields, Sizes DEF Is
<1>8. f \in Lowest(Free, ImageFrames) <=> f \in Free /\ r < ImageFrames BY <1>1, Sizes
<1> HIDE DEF r
<1>9. Held(Image, f) = Maps(Image, f) + Once(f, Image.tables) + Is(f, Image.kstack)
  BY <1>7, MapsNat DEF Held, Once, Is
<1> QED BY <1>2, <1>4, <1>5, <1>6, <1>8, <1>9, Sizes DEF Once, Is

LEMMA ImageSlot == ASSUME Cardinality(Free) >= ImageFrames PROVE SlotOK(Image)
<1>1. Image \in Space BY ImageType
<1>2. \A k \in Pages : Image.pte[k].frame \in Frames
  <2>1. \A k \in Pages : k \in 1 .. Cardinality(Free) BY FreeFrames, Sizes
  <2> QED BY <2>1, FreeFrames, NthIs, ImageFields
<1> QED BY <1>1, <1>2, ImageFields DEF SlotOK, ImageModes, Unmapped

LEMMA LowestFree == ASSUME NEW n PROVE Lowest(Free, n) \in SUBSET Free
BY DEF Lowest

LEMMA ClearedType ==
  ASSUME MemInv PROVE Cleared \in [Frames -> Values \cup {Zero, KernelData}]
BY DEF Cleared, MemInv

\* The frames of the new image are counted once.
LEMMA NthTaken ==
  ASSUME NEW n \in Nat, Cardinality(Free) >= n, NEW k \in 1 .. n
  PROVE  Nth(Free, k) \in Lowest(Free, n)
<1>1. k \in 1 .. Cardinality(Free) BY FreeFrames
<1>2. Nth(Free, k) \in Free /\ Rank(Free, Nth(Free, k)) = k - 1 BY <1>1, FreeFrames, NthIs
<1>3. k - 1 < n OBVIOUS
<1> QED BY <1>2, <1>3, LowestOf

LEMMA ImageTaken ==
  ASSUME Cardinality(Free) >= ImageFrames
  PROVE  /\ \A k \in Pages : Image.pte[k].frame \in Lowest(Free, ImageFrames)
         /\ Image.kstack \in Lowest(Free, ImageFrames)
<1>1. \A k \in Pages : k \in 1 .. ImageFrames BY Sizes
<1>2. ImageFrames \in 1 .. ImageFrames BY Sizes
<1> QED BY <1>1, <1>2, NthTaken, Sizes, ImageFields

LEMMA LoadKeeps == ASSUME MemInv, NEW p \in Procs, Load(p) PROVE MemInv'
<1>1. CASE Cardinality(Free) >= ImageFrames /\ page_refs' = Taken
           /\ space' = [space EXCEPT ![p] = Image]
           /\ expected' = [expected EXCEPT ![p] = [k \in Pages \cup {ThreadPage} |-> Zero]]
  <2> DEFINE L == Lowest(Free, ImageFrames)
  <2>1. space \in [Procs -> Space] /\ page_refs \in [Frames -> Nat] BY DEF MemInv
  <2>2. space'[p] = Image /\ \A q \in Procs : q # p => space'[q] = space[q] BY <1>1, <2>1
  <2>3. /\ page_refs' \in [Frames -> Nat]
        /\ \A f \in Frames : page_refs'[f] = IF f \in L THEN 1 ELSE page_refs[f]
    BY <1>1, <2>1 DEF Taken
  <2>4. content' \in [Frames -> Values \cup {Zero, KernelData}] BY ClearedType DEF Load
  <2>5. expected' \in [Procs -> [Pages \cup {ThreadPage} -> Values \cup {Zero}]]
    BY <1>1 DEF MemInv
  <2>6. forgotten' = forgotten /\ forgotten \subseteq Frames BY DEF Load, MemInv
  <2>7. SlotOK(Image) /\ Image \in Space BY <1>1, ImageSlot, ImageType
  <2>8. space' \in [Procs -> Space] BY <1>1, <2>1, <2>7
  <2>9. SlotOK(space'[p]) BY <2>2, <2>7
  <2>10. \A q \in Procs : q # p =>
           /\ SlotOK(space'[q]) /\ SameFrames(space'[q], space[q])
           /\ \A k \in Pages : space'[q].pte[k].mode = "rw" => space[q].pte[k].mode = "rw"
    BY <2>2 DEF SameFrames, MemInv
  <2>11. \A f \in L : f \in Free /\ page_refs[f] = 0 /\ page_refs'[f] = 1
    BY <2>3, LowestFree DEF Free
  <2>12. \A f \in Frames : Held(space[p], f) = 0
    <3>1. space[p] = NoSpace BY DEF Load, MemInv, SlotOK
    <3> QED BY <3>1, NoSpaceHeld
  <2>13. \A f \in Frames : page_refs'[f] + Held(space[p], f) + Once(f, forgotten)
                             = page_refs[f] + Held(space'[p], f) + Once(f, forgotten')
    <3> SUFFICES ASSUME NEW f \in Frames
                 PROVE  page_refs'[f] + Held(space[p], f) + Once(f, forgotten)
                          = page_refs[f] + Held(space'[p], f) + Once(f, forgotten')
      OBVIOUS
    <3>1. Held(space'[p], f) = Once(f, L) BY <1>1, <2>2, ImageHeld
    <3>2. Once(f, forgotten') = Once(f, forgotten) /\ Once(f, forgotten) \in Nat
      BY <2>6 DEF Once
    <3>3. page_refs'[f] = page_refs[f] + Once(f, L) /\ page_refs[f] \in Nat
      BY <2>1, <2>3, <2>11 DEF Once
    <3>4. Once(f, L) \in Nat BY DEF Once
    <3> HIDE DEF L
    <3> QED BY <2>12, <3>1, <3>2, <3>3, <3>4
  <2>14. \A f \in Frames : page_refs[f] = 1 /\ Held(space[p], f) = 0 => page_refs'[f] = 1
    BY <2>3, <2>11
  <2>15. /\ \A k \in Pages : space'[p].pte[k].mode = "rw"
                               => page_refs'[space'[p].pte[k].frame] = 1
         /\ space'[p].kstack # NoFrame => page_refs'[space'[p].kstack] = 1
         /\ space'[p].deferred # NoFrame => page_refs'[space'[p].deferred] = 1
    BY <1>1, <2>2, <2>11, ImageTaken, ImageFields
  <2> HIDE DEF L
  <2> QED BY <2>4, <2>5, <2>6, <2>8, <2>9, <2>10, <2>13, <2>14, <2>15, <2>3, SlotStep
<1>2. CASE UNCHANGED <<page_refs, space, expected>>
  <2>1. content' \in [Frames -> Values \cup {Zero, KernelData}] BY ClearedType DEF Load
  <2>2. UNCHANGED <<page_refs, space, expected, forgotten>> BY <1>2 DEF Load
  <2>3. expected' \in [Procs -> [Pages \cup {ThreadPage} -> Values \cup {Zero}]]
    BY <2>2 DEF MemInv
  <2> QED BY <2>1, <2>2, <2>3, MemFrame
<1> QED BY <1>1, <1>2 DEF Load

-----------------------------------------------------------------------------
(***************************************************************************)
(* exec, and the stack it leaves to the scheduler.                         *)
(***************************************************************************)
\* A frame that page_free is called on, no oftener than it is counted.
LEMMA DroppedIs ==
  ASSUME NEW refs \in [Frames -> Nat], NEW times \in [Frames -> Nat]
  PROVE  /\ Dropped(refs, times) \in [Frames -> Nat]
         /\ \A f \in Frames : times[f] <= refs[f] => Dropped(refs, times)[f] = refs[f] - times[f]
BY DEF Dropped

\* A slot without a thread.
LEMMA HeldAlone ==
  ASSUME NEW s, SlotOK(s), s.tstack = NoFrame, NEW f \in Frames
  PROVE  Held(s, f) = Maps(s, f) + Once(f, s.tables) + Is(f, s.kstack) + Is(f, s.deferred)
<1>1. Is(f, s.tstack) = 0 /\ Is(f, s.tkstack) = 0 BY Sizes DEF SlotOK, Is
<1>2. Maps(s, f) \in Nat /\ Once(f, s.tables) \in Nat /\ Is(f, s.kstack) \in Nat
      /\ Is(f, s.deferred) \in Nat
  BY MapsNat DEF Once, Is
<1> QED BY <1>1, <1>2 DEF Held

ExecTimes(p) == [f \in Frames |-> Entries(space[p].user_pages, f) + Once(f, space[p].tables)]

Replaced(p) == [Image EXCEPT !.deferred = space[p].kstack]

LEMMA ReplacedSlot ==
  ASSUME MemInv, NEW p \in Procs, Cardinality(Free) >= ImageFrames
  PROVE  /\ SlotOK(Replaced(p)) /\ Replaced(p) \in Space
         /\ \A k \in Pages : Replaced(p).pte[k].frame = Image.pte[k].frame
         /\ Replaced(p).tables = Image.tables /\ Replaced(p).kstack = Image.kstack
         /\ Replaced(p).deferred = space[p].kstack
         /\ Replaced(p).tstack = NoFrame /\ Replaced(p).tkstack = NoFrame
<1>1. SlotOK(Image) /\ Image \in Space BY ImageSlot, ImageType
<1>2. space[p].kstack \in Frames \cup {NoFrame} BY DEF MemInv, Space
<1>3. Replaced(p) \in Space BY <1>1, <1>2 DEF Replaced, Space
<1>4. /\ Replaced(p).pte = Image.pte /\ Replaced(p).live = Image.live
      /\ Replaced(p).user_pages = Image.user_pages
      /\ Replaced(p).tables = Image.tables /\ Replaced(p).kstack = Image.kstack
      /\ Replaced(p).deferred = space[p].kstack
      /\ Replaced(p).tstack = Image.tstack /\ Replaced(p).tkstack = Image.tkstack
  BY <1>1 DEF Replaced, Space
<1> QED BY <1>1, <1>3, <1>4, ImageFields DEF SlotOK

LEMMA ExecKeeps ==
  ASSUME MemInv, "exec" \in Workload, NEW p \in Procs, Exec(p) PROVE MemInv'
<1>1. CASE /\ Cardinality(Free) >= ImageFrames
           /\ page_refs' = Dropped(Taken, ExecTimes(p))
           /\ space' = [space EXCEPT ![p] = Replaced(p)]
           /\ expected' = [expected EXCEPT ![p] = [k \in Pages \cup {ThreadPage} |-> Zero]]
           /\ forgotten' = forgotten \cup ({space[p].deferred} \ {NoFrame})
  <2> DEFINE L == Lowest(Free, ImageFrames)
             d == space[p].deferred
             k0 == space[p].kstack
  <2>1. space \in [Procs -> Space] /\ page_refs \in [Frames -> Nat] BY DEF MemInv
  <2>2. /\ space'[p] = Replaced(p) /\ \A q \in Procs : q # p => space'[q] = space[q]
        /\ SlotOK(space[p]) /\ space[p].tstack = NoFrame /\ space[p].live
    BY <1>1, <2>1 DEF Exec, MemInv
  <2>3. SlotOK(Replaced(p)) /\ Replaced(p) \in Space BY <1>1, ReplacedSlot
  <2>4. space' \in [Procs -> Space] BY <1>1, <2>1, <2>3
  <2>5. content' \in [Frames -> Values \cup {Zero, KernelData}] BY ClearedType DEF Exec
  <2>6. expected' \in [Procs -> [Pages \cup {ThreadPage} -> Values \cup {Zero}]]
    BY <1>1 DEF MemInv
  <2>7. d \in Frames \cup {NoFrame} /\ k0 \in Frames \cup {NoFrame} BY DEF MemInv, Space
  <2>8. forgotten \subseteq forgotten' /\ forgotten' \subseteq Frames
    BY <1>1, <2>7 DEF MemInv
  <2>9. \A q \in Procs : q # p =>
           /\ SlotOK(space'[q]) /\ SameFrames(space'[q], space[q])
           /\ \A k \in Pages : space'[q].pte[k].mode = "rw" => space[q].pte[k].mode = "rw"
    BY <2>2 DEF SameFrames, MemInv
  <2>10. \A f \in L : f \in Free /\ f \in Frames /\ page_refs[f] = 0 BY LowestFree DEF Free
  <2>11. \A f \in Frames :
           /\ ExecTimes(p)[f] = Maps(space[p], f) + Once(f, space[p].tables)
           /\ ExecTimes(p)[f] \in Nat
           /\ Held(space[p], f) = ExecTimes(p)[f] + Is(f, k0) + Is(f, d)
    <3> SUFFICES ASSUME NEW f \in Frames
                 PROVE  /\ ExecTimes(p)[f] = Maps(space[p], f) + Once(f, space[p].tables)
                        /\ ExecTimes(p)[f] \in Nat
                        /\ Held(space[p], f) = ExecTimes(p)[f] + Is(f, k0) + Is(f, d)
      OBVIOUS
    <3>1. Entries(space[p].user_pages, f) = Maps(space[p], f) BY <2>2, EntriesAre DEF SlotOK
    <3>2. ExecTimes(p)[f] = Maps(space[p], f) + Once(f, space[p].tables) BY <3>1 DEF ExecTimes
    <3>3. Maps(space[p], f) \in Nat /\ Once(f, space[p].tables) \in Nat BY MapsNat DEF Once
    <3>4. Held(space[p], f) = Maps(space[p], f) + Once(f, space[p].tables) + Is(f, k0) + Is(f, d)
      BY <2>2, HeldAlone
    <3> QED BY <3>2, <3>3, <3>4
  <2>12. \A f \in L : ExecTimes(p)[f] = 0 /\ Held(space[p], f) = 0
    <3>1. \A f \in L : Held(space[p], f) = 0 BY <2>10, FreeUnheld
    <3>2. \A f \in Frames : Is(f, k0) \in Nat /\ Is(f, d) \in Nat BY DEF Is
    <3> QED BY <2>10, <2>11, <3>1, <3>2
  <2>13. /\ page_refs' \in [Frames -> Nat]
         /\ \A f \in Frames : page_refs'[f] = page_refs[f] + Once(f, L) - ExecTimes(p)[f]
    <3>1. Taken \in [Frames -> Nat] BY <2>1 DEF Taken
    <3>2. ExecTimes(p) \in [Frames -> Nat]
      <4>1. ExecTimes(p) = [f \in Frames |-> ExecTimes(p)[f]] BY DEF ExecTimes
      <4> QED BY <2>11, <4>1
    <3>3. \A f \in Frames : Taken[f] = page_refs[f] + Once(f, L) BY <2>1, <2>10 DEF Taken, Once
    <3>4. \A f \in Frames : ExecTimes(p)[f] <= Taken[f]
      <4> SUFFICES ASSUME NEW f \in Frames PROVE ExecTimes(p)[f] <= Taken[f] OBVIOUS
      <4>1. Held(space[p], f) <= HoldersIn(space, f) /\ HoldersIn(space, f) \in Nat
            /\ page_refs[f] = HoldersIn(space, f) + Once(f, forgotten)
        BY Counted
      <4>2. /\ Is(f, k0) \in Nat /\ Is(f, d) \in Nat /\ Once(f, forgotten) \in Nat
            /\ Once(f, L) \in Nat
        BY DEF Is, Once
      <4>3. /\ Held(space[p], f) = ExecTimes(p)[f] + Is(f, k0) + Is(f, d)
            /\ ExecTimes(p)[f] \in Nat
        BY <2>11
      <4>4. Taken[f] = page_refs[f] + Once(f, L) BY <3>3
      <4> HIDE DEF L, k0, d
      <4> QED BY <4>1, <4>2, <4>3, <4>4
    <3> DEFINE D == Dropped(Taken, ExecTimes(p))
    <3>5. D \in [Frames -> Nat] /\ \A f \in Frames : D[f] = Taken[f] - ExecTimes(p)[f]
      BY <3>1, <3>2, <3>4, DroppedIs
    <3>6. page_refs' = D BY <1>1
    <3>7. page_refs' \in [Frames -> Nat] BY <3>5, <3>6
    <3>8. ASSUME NEW f \in Frames
          PROVE  page_refs'[f] = page_refs[f] + Once(f, L) - ExecTimes(p)[f]
      <4>1. page_refs'[f] = Taken[f] - ExecTimes(p)[f] BY <3>5, <3>6
      <4>2. Taken[f] = page_refs[f] + Once(f, L) BY <3>3
      <4>3. page_refs[f] \in Nat /\ Once(f, L) \in Nat /\ ExecTimes(p)[f] \in Nat
        BY <2>1, <2>11 DEF Once
      <4> QED BY ONLY <4>1, <4>2, <4>3
    <3> QED BY <3>7, <3>8
  <2>14. SlotOK(space'[p]) BY <2>2, <2>3
  <2>15. d # NoFrame => d \notin forgotten /\ page_refs[d] = 1 /\ Held(space[p], d) = 1 /\ d # k0
    <3> SUFFICES ASSUME d # NoFrame
                 PROVE  d \notin forgotten /\ page_refs[d] = 1 /\ Held(space[p], d) = 1 /\ d # k0
      OBVIOUS
    <3>1. page_refs[d] = 1 /\ d \in Frames BY <2>7 DEF MemInv, OwnStacks
    <3>2. Held(space[p], d) # 0 BY Holding
    <3>3. d \notin forgotten /\ Held(space[p], d) = 1 BY <3>1, <3>2, Sole
    <3>4. d # k0
      <4>1. Held(space[p], d) = ExecTimes(p)[d] + Is(d, k0) + Is(d, d) /\ ExecTimes(p)[d] \in Nat
        BY <2>11, <3>1
      <4>2. Is(d, d) = 1 BY DEF Is
      <4>3. d = k0 => Is(d, k0) = 1 BY DEF Is
      <4> QED BY <3>3, <4>1, <4>2, <4>3
    <3> QED BY <3>1, <3>3, <3>4
  <2>16. \A f \in Frames : Once(f, forgotten') = Once(f, forgotten) + Is(f, d)
    BY <1>1, <2>15, Sizes DEF Once, Is
  <2>17. \A f \in Frames : Held(space'[p], f) = Once(f, L) + Is(f, k0)
    <3> SUFFICES ASSUME NEW f \in Frames PROVE Held(Replaced(p), f) = Once(f, L) + Is(f, k0)
      BY <2>2
    <3>1. Held(Image, f) = Once(f, L) BY <1>1, ImageHeld
    <3>2. Held(Image, f) = Maps(Image, f) + Once(f, Image.tables) + Is(f, Image.kstack)
      <4>1. Is(f, Image.deferred) = 0 /\ Is(f, Image.tstack) = 0 /\ Is(f, Image.tkstack) = 0
        BY ImageFields, Sizes DEF Is
      <4> QED BY <4>1, MapsNat DEF Held, Once, Is
    <3>3. Held(Replaced(p), f) = Maps(Replaced(p), f) + Once(f, Replaced(p).tables)
            + Is(f, Replaced(p).kstack) + Is(f, Replaced(p).deferred)
      BY <1>1, <2>3, ReplacedSlot, HeldAlone
    <3>4. Maps(Replaced(p), f) = Maps(Image, f) BY <1>1, ReplacedSlot, MapsAlike
    <3>5. Replaced(p).tables = Image.tables /\ Replaced(p).kstack = Image.kstack
          /\ Replaced(p).deferred = k0
      BY <1>1, ReplacedSlot
    <3>6. Once(f, Replaced(p).tables) = Once(f, Image.tables) BY <3>5
    <3>7. Held(Image, f) \in Nat BY HeldNat
    <3>8. Is(f, k0) \in Nat BY DEF Is
    <3>9. Held(Replaced(p), f) = Held(Image, f) + Is(f, k0)
      BY <3>2, <3>3, <3>4, <3>5, <3>6, <3>7, <3>8
    <3> QED BY <3>1, <3>9
  <2>18. \A f \in Frames : page_refs'[f] + Held(space[p], f) + Once(f, forgotten)
                             = page_refs[f] + Held(space'[p], f) + Once(f, forgotten')
    <3> SUFFICES ASSUME NEW f \in Frames
                 PROVE  page_refs'[f] + Held(space[p], f) + Once(f, forgotten)
                          = page_refs[f] + Held(space'[p], f) + Once(f, forgotten')
      OBVIOUS
    <3> DEFINE x == ExecTimes(p)[f]
               l == Once(f, L)
               i == Is(f, k0)
               j == Is(f, d)
               o == Once(f, forgotten)
               r == page_refs[f]
    <3>1. Held(space'[p], f) = l + i /\ Once(f, forgotten') = o + j BY <2>16, <2>17
    <3>2. page_refs'[f] = r + l - x /\ r \in Nat BY <2>1, <2>13
    <3>3. Held(space[p], f) = x + i + j /\ x \in Nat BY <2>11
    <3>4. l \in Nat /\ i \in Nat /\ j \in Nat /\ o \in Nat BY DEF Once, Is
    <3> HIDE DEF x, l, i, j, o, r
    <3>5. r + l - x + (x + i + j) + o = r + (l + i) + (o + j) BY ONLY <3>2, <3>3, <3>4
    <3> QED BY <3>1, <3>2, <3>3, <3>5 DEF o, r
  <2>19. \A f \in Frames : page_refs[f] = 1 /\ Held(space[p], f) = 0 => page_refs'[f] = 1
    <3> SUFFICES ASSUME NEW f \in Frames, page_refs[f] = 1, Held(space[p], f) = 0
                 PROVE  page_refs'[f] = 1
      OBVIOUS
    <3>1. f \notin L BY <2>10
    <3>2. ExecTimes(p)[f] = 0 BY <2>11 DEF Is
    <3> QED BY <2>13, <3>1, <3>2 DEF Once
  <2>20. \A f \in L : page_refs'[f] = 1 BY <2>10, <2>12, <2>13 DEF Once
  <2>21. \A k \in Pages : space'[p].pte[k].mode = "rw" => page_refs'[space'[p].pte[k].frame] = 1
    BY <1>1, <2>2, <2>20, ReplacedSlot, ImageTaken
  <2>22. \A f \in Frames : page_refs[f] = 1 /\ (f = k0 \/ f = d) => page_refs'[f] = 1
    <3> SUFFICES ASSUME NEW f \in Frames, page_refs[f] = 1, f = k0 \/ f = d
                 PROVE  page_refs'[f] = 1
      OBVIOUS
    <3>1. Held(space[p], f) # 0 BY Holding
    <3>2. Held(space[p], f) = 1 BY <3>1, Sole
    <3>3. Is(f, k0) + Is(f, d) >= 1 /\ Is(f, k0) + Is(f, d) \in Nat BY DEF Is
    <3>4. ExecTimes(p)[f] = 0 BY <2>11, <3>2, <3>3 DEF Is
    <3>5. f \notin L BY <2>10
    <3> QED BY <2>13, <3>4, <3>5 DEF Once
  <2>23. \A f \in forgotten' \ forgotten : page_refs'[f] = 1
    BY <1>1, <2>7, <2>15, <2>22
  <2>24. /\ space'[p].kstack # NoFrame => page_refs'[space'[p].kstack] = 1
         /\ space'[p].deferred # NoFrame => page_refs'[space'[p].deferred] = 1
    <3>1. space'[p].kstack \in L BY <1>1, <2>2, ReplacedSlot, ImageTaken
    <3>2. space'[p].deferred = k0 BY <1>1, <2>2, ReplacedSlot
    <3>3. k0 # NoFrame => page_refs[k0] = 1 BY DEF MemInv, OwnStacks
    <3> QED BY <2>7, <2>20, <2>22, <3>1, <3>2, <3>3
  <2> HIDE DEF L, d, k0
  <2> QED BY <2>4, <2>5, <2>6, <2>8, <2>9, <2>13, <2>14, <2>18, <2>19, <2>21, <2>23, <2>24,
             SlotStep
<1>2. CASE UNCHANGED <<page_refs, space, expected, forgotten>>
  <2>1. content' \in [Frames -> Values \cup {Zero, KernelData}] BY ClearedType DEF Exec
  <2>2. expected' \in [Procs -> [Pages \cup {ThreadPage} -> Values \cup {Zero}]]
    BY <1>2 DEF MemInv
  <2> QED BY <1>2, <2>1, <2>2, MemFrame
<1> QED BY <1>1, <1>2 DEF Exec, ExecTimes, Replaced

-----------------------------------------------------------------------------
(***************************************************************************)
(* Giving back: the scheduler, reap_process, and a thread's end.           *)
(***************************************************************************)
\* A slot gives back as many references as it ceases to hold.
LEMMA ReleaseStep ==
  ASSUME MemInv, NEW p \in Procs, NEW times \in [Frames -> Nat],
         page_refs' = Dropped(page_refs, times),
         content' = content, forgotten' = forgotten,
         expected' \in [Procs -> [Pages \cup {ThreadPage} -> Values \cup {Zero}]],
         space' \in [Procs -> Space], SlotOK(space'[p]),
         \A q \in Procs : q # p => space'[q] = space[q],
         \A f \in Frames : Held(space'[p], f) + times[f] = Held(space[p], f),
         \A k \in Pages : space'[p].pte[k].mode = "rw" => space'[p].pte[k] = space[p].pte[k],
         space'[p].kstack \in {NoFrame, space[p].kstack},
         space'[p].deferred \in {NoFrame, space[p].deferred}
  PROVE  MemInv'
<1>1. page_refs \in [Frames -> Nat] BY DEF MemInv
<1>2. \A f \in Frames : times[f] \in Nat /\ times[f] <= page_refs[f]
  <2> SUFFICES ASSUME NEW f \in Frames PROVE times[f] <= page_refs[f] OBVIOUS
  <2> DEFINE h == HoldersIn(space, f)
             o == Once(f, forgotten)
             c == Held(space[p], f)
             d == Held(space'[p], f)
             t == times[f]
             r == page_refs[f]
  <2>1. d + t = c /\ t \in Nat OBVIOUS
  <2>2. c <= h /\ h \in Nat /\ r = h + o BY Counted
  <2>3. o \in Nat /\ c \in Nat /\ d \in Nat BY HeldNat DEF Once
  <2> HIDE DEF h, o, c, d, t, r
  <2>4. t <= r BY ONLY <2>1, <2>2, <2>3
  <2> QED BY <2>4 DEF t, r
<1>3. /\ page_refs' \in [Frames -> Nat]
      /\ \A f \in Frames : page_refs'[f] = page_refs[f] - times[f]
  BY <1>1, <1>2, DroppedIs
<1>4. \A q \in Procs : q # p =>
         /\ SlotOK(space'[q]) /\ SameFrames(space'[q], space[q])
         /\ \A k \in Pages : space'[q].pte[k].mode = "rw" => space[q].pte[k].mode = "rw"
  BY DEF SameFrames, MemInv
<1>5. \A f \in Frames : page_refs'[f] + Held(space[p], f) + Once(f, forgotten)
                          = page_refs[f] + Held(space'[p], f) + Once(f, forgotten')
  <2> SUFFICES ASSUME NEW f \in Frames
               PROVE  page_refs'[f] + Held(space[p], f) + Once(f, forgotten)
                        = page_refs[f] + Held(space'[p], f) + Once(f, forgotten')
    OBVIOUS
  <2>1. Held(space[p], f) = Held(space'[p], f) + times[f] /\ Held(space'[p], f) \in Nat
    BY HeldNat
  <2>2. page_refs'[f] = page_refs[f] - times[f] /\ page_refs[f] \in Nat /\ times[f] \in Nat
    BY <1>1, <1>2, <1>3
  <2>3. Once(f, forgotten') = Once(f, forgotten) /\ Once(f, forgotten) \in Nat BY DEF Once
  <2> QED BY ONLY <2>1, <2>2, <2>3
<1>6. \A f \in Frames : page_refs[f] = 1 /\ Held(space[p], f) = 0 => page_refs'[f] = 1
  <2> SUFFICES ASSUME NEW f \in Frames, page_refs[f] = 1, Held(space[p], f) = 0
               PROVE  page_refs'[f] = 1
    OBVIOUS
  <2>1. Held(space'[p], f) + times[f] = 0 /\ times[f] \in Nat /\ Held(space'[p], f) \in Nat
    BY HeldNat
  <2>2. times[f] = 0 BY ONLY <2>1
  <2> QED BY <1>3, <2>2
<1>7. \A f \in Frames : page_refs[f] = 1 /\ Held(space'[p], f) # 0 => page_refs'[f] = 1
  <2> SUFFICES ASSUME NEW f \in Frames, page_refs[f] = 1, Held(space'[p], f) # 0
               PROVE  page_refs'[f] = 1
    OBVIOUS
  <2>1. /\ Held(space'[p], f) + times[f] = Held(space[p], f) /\ times[f] \in Nat
        /\ Held(space'[p], f) \in Nat
    BY HeldNat
  <2>2. Held(space[p], f) # 0 BY <2>1
  <2>3. Held(space[p], f) = 1 BY <2>2, Sole
  <2>4. times[f] = 0
    <3> DEFINE c == Held(space[p], f)
               d == Held(space'[p], f)
    <3>1. d + times[f] = c /\ times[f] \in Nat /\ d \in Nat /\ d # 0 /\ c = 1 BY <2>1, <2>3
    <3> HIDE DEF c, d
    <3> QED BY ONLY <3>1
  <2> QED BY <1>3, <2>4
<1>8. \A k \in Pages : space'[p].pte[k].mode = "rw" => page_refs'[space'[p].pte[k].frame] = 1
  <2> SUFFICES ASSUME NEW k \in Pages, space'[p].pte[k].mode = "rw"
               PROVE  page_refs'[space'[p].pte[k].frame] = 1
    OBVIOUS
  <2>1. space'[p].live
    <3>1. \A j \in Pages : NoSpace.pte[j].mode = "none" BY DEF NoSpace, Unmapped
    <3> QED BY <3>1 DEF SlotOK
  <2>2. space'[p].pte[k].frame \in Frames BY <2>1 DEF SlotOK
  <2>3. page_refs[space'[p].pte[k].frame] = 1 BY DEF MemInv, OwnPages
  <2>4. Held(space'[p], space'[p].pte[k].frame) # 0 BY Holding
  <2> QED BY <1>7, <2>2, <2>3, <2>4
<1>9. /\ space'[p].kstack # NoFrame => page_refs'[space'[p].kstack] = 1
      /\ space'[p].deferred # NoFrame => page_refs'[space'[p].deferred] = 1
  <2>1. space'[p].kstack \in Frames \cup {NoFrame} /\ space'[p].deferred \in Frames \cup {NoFrame}
    BY DEF Space
  <2>2. /\ space'[p].kstack # NoFrame => page_refs[space'[p].kstack] = 1
        /\ space'[p].deferred # NoFrame => page_refs[space'[p].deferred] = 1
    BY DEF MemInv, OwnStacks
  <2> QED BY <1>7, <2>1, <2>2, Holding
<1>10. content' \in [Frames -> Values \cup {Zero, KernelData}] BY DEF MemInv
<1>11. forgotten \subseteq forgotten' /\ forgotten' \subseteq Frames BY DEF MemInv
<1>12. \A f \in forgotten' \ forgotten : page_refs'[f] = 1 OBVIOUS
<1> QED BY <1>3, <1>4, <1>5, <1>6, <1>8, <1>9, <1>10, <1>11, <1>12, SlotStep

LEMMA ScheduleKeeps == ASSUME MemInv, NEW p \in Procs, Schedule(p) PROVE MemInv'
<1> DEFINE s == space[p]
           t == [space[p] EXCEPT !.deferred = NoFrame]
           times == [f \in Frames |-> Once(f, {space[p].deferred})]
<1>1. space \in [Procs -> Space] /\ SlotOK(s) /\ s \in Space BY DEF MemInv
<1>2. /\ t \in Space /\ t.live = s.live /\ t.user_pages = s.user_pages /\ t.pte = s.pte
      /\ t.tables = s.tables /\ t.kstack = s.kstack /\ t.deferred = NoFrame
      /\ t.tstack = s.tstack /\ t.tkstack = s.tkstack
  BY <1>1 DEF Space
<1>3. space' = [space EXCEPT ![p] = t] BY <1>1 DEF Schedule
<1>4. space'[p] = t /\ space' \in [Procs -> Space] /\ \A q \in Procs : q # p => space'[q] = space[q]
  BY <1>1, <1>2, <1>3
<1>5. SlotOK(t)
  <2>1. s.live
    <3>1. NoSpace.deferred = NoFrame BY DEF NoSpace
    <3> QED BY <1>1, <3>1 DEF SlotOK, Schedule
  <2> QED BY <1>1, <1>2, <2>1 DEF SlotOK
<1>6. \A f \in Frames : times[f] = Is(f, s.deferred) BY DEF Once, Is
<1>7. times \in [Frames -> Nat] BY DEF Once
<1>8. page_refs' = Dropped(page_refs, times) /\ UNCHANGED <<content, expected, forgotten>>
  BY DEF Schedule
<1> HIDE DEF t, times
<1>9. \A f \in Frames : Held(t, f) + times[f] = Held(s, f)
  <2> SUFFICES ASSUME NEW f \in Frames PROVE Held(t, f) + times[f] = Held(s, f) OBVIOUS
  <2>1. Maps(t, f) = Maps(s, f) BY <1>2, MapsAlike
  <2>2. Is(f, t.deferred) = 0 BY <1>2, Sizes DEF Is
  <2>3. /\ Maps(s, f) \in Nat /\ Once(f, s.tables) \in Nat /\ Is(f, s.kstack) \in Nat
        /\ Is(f, s.deferred) \in Nat /\ Is(f, s.tstack) \in Nat /\ Is(f, s.tkstack) \in Nat
    BY MapsNat DEF Once, Is
  <2>4. Held(t, f) = Maps(s, f) + Once(f, s.tables) + Is(f, s.kstack) + 0 + Is(f, s.tstack)
                       + Is(f, s.tkstack)
    BY <1>2, <2>1, <2>2 DEF Held
  <2>5. Held(s, f) = Maps(s, f) + Once(f, s.tables) + Is(f, s.kstack) + Is(f, s.deferred)
                       + Is(f, s.tstack) + Is(f, s.tkstack)
    BY DEF Held
  <2> QED BY <1>6, <2>3, <2>4, <2>5
<1>10. expected' \in [Procs -> [Pages \cup {ThreadPage} -> Values \cup {Zero}]]
  BY <1>8 DEF MemInv
<1> QED BY <1>2, <1>4, <1>5, <1>7, <1>8, <1>9, <1>10, ReleaseStep

LEMMA ReapKeeps ==
  ASSUME MemInv, "reap" \in Workload, NEW p \in Procs, Reap(p) PROVE MemInv'
<1> DEFINE s == space[p]
           times == [f \in Frames |->
             Entries(space[p].user_pages, f) + Once(f, space[p].tables)
               + Once(f, {space[p].kstack}) + Once(f, {space[p].deferred})]
<1>1. space \in [Procs -> Space] /\ SlotOK(s) BY DEF MemInv
<1>2. /\ space'[p] = NoSpace /\ space' \in [Procs -> Space]
      /\ \A q \in Procs : q # p => space'[q] = space[q]
  BY <1>1, NoSpaceType DEF Reap, ClearSlot
<1>3. SlotOK(NoSpace)
  <2>1. /\ NoSpace.live = FALSE /\ \A k \in Pages \cup {ThreadPage} : NoSpace.pte[k] = Unmapped
        /\ \A k \in Pages : NoSpace.user_pages[k] = NoFrame
        /\ NoSpace.tstack = NoFrame /\ NoSpace.tkstack = NoFrame
    BY DEF NoSpace
  <2> QED BY <2>1, NoSpaceType DEF SlotOK, Unmapped
<1>4. \A f \in Frames : times[f] = Held(s, f)
  <2> SUFFICES ASSUME NEW f \in Frames PROVE times[f] = Held(s, f) OBVIOUS
  <2>1. Entries(s.user_pages, f) = Maps(s, f) BY <1>1, EntriesAre DEF SlotOK
  <2>2. Once(f, {s.kstack}) = Is(f, s.kstack) /\ Once(f, {s.deferred}) = Is(f, s.deferred)
    BY DEF Once, Is
  <2>3. Held(s, f) = Maps(s, f) + Once(f, s.tables) + Is(f, s.kstack) + Is(f, s.deferred)
    BY <1>1, HeldAlone DEF Reap
  <2> QED BY <2>1, <2>2, <2>3
<1>5. times \in [Frames -> Nat]
  <2>1. times = [f \in Frames |-> times[f]] OBVIOUS
  <2> HIDE DEF times
  <2> QED BY <1>4, <2>1, HeldNat
<1>6. page_refs' = Dropped(page_refs, times) /\ UNCHANGED <<content, forgotten>> BY DEF Reap
<1> HIDE DEF times
<1>7. \A f \in Frames : Held(NoSpace, f) + times[f] = Held(s, f)
  BY <1>4, HeldNat, NoSpaceHeld
<1>8. expected' \in [Procs -> [Pages \cup {ThreadPage} -> Values \cup {Zero}]]
  BY DEF MemInv, Reap
<1>9. /\ \A k \in Pages : NoSpace.pte[k].mode # "rw"
      /\ NoSpace.kstack = NoFrame /\ NoSpace.deferred = NoFrame
  BY DEF NoSpace, Unmapped
<1> QED BY <1>2, <1>3, <1>5, <1>6, <1>7, <1>8, <1>9, ReleaseStep

LEMMA ReapThreadKeeps == ASSUME MemInv, NEW p \in Procs, ReapThread(p) PROVE MemInv'
<1> DEFINE s == space[p]
           t == [space[p] EXCEPT !.tstack = NoFrame, !.tkstack = NoFrame]
           times == [f \in Frames |-> Once(f, {space[p].tstack, space[p].tkstack})]
<1>1. space \in [Procs -> Space] /\ SlotOK(s) /\ s \in Space BY DEF MemInv
<1>2. /\ t \in Space /\ t.live = s.live /\ t.user_pages = s.user_pages /\ t.pte = s.pte
      /\ t.tables = s.tables /\ t.kstack = s.kstack /\ t.deferred = s.deferred
      /\ t.tstack = NoFrame /\ t.tkstack = NoFrame
  BY <1>1 DEF Space
<1>3. space' = [space EXCEPT ![p] = t] BY <1>1 DEF ReapThread
<1>4. space'[p] = t /\ space' \in [Procs -> Space] /\ \A q \in Procs : q # p => space'[q] = space[q]
  BY <1>1, <1>2, <1>3
<1>5. SlotOK(t) BY <1>1, <1>2 DEF SlotOK, ReapThread
<1>6. \A f \in Frames : times[f] = Is(f, s.tstack) + Is(f, s.tkstack)
  BY <1>1 DEF Once, Is, SlotOK, ReapThread
<1>7. times \in [Frames -> Nat] BY DEF Once
<1>8. page_refs' = Dropped(page_refs, times) /\ UNCHANGED <<content, expected, forgotten>>
  BY DEF ReapThread
<1> HIDE DEF t, times
<1>9. \A f \in Frames : Held(t, f) + times[f] = Held(s, f)
  <2> SUFFICES ASSUME NEW f \in Frames PROVE Held(t, f) + times[f] = Held(s, f) OBVIOUS
  <2>1. Maps(t, f) = Maps(s, f) BY <1>2, MapsAlike
  <2>2. Is(f, t.tstack) = 0 /\ Is(f, t.tkstack) = 0 BY <1>2, Sizes DEF Is
  <2>3. /\ Maps(s, f) \in Nat /\ Once(f, s.tables) \in Nat /\ Is(f, s.kstack) \in Nat
        /\ Is(f, s.deferred) \in Nat /\ Is(f, s.tstack) \in Nat /\ Is(f, s.tkstack) \in Nat
    BY MapsNat DEF Once, Is
  <2>4. Held(t, f) = Maps(s, f) + Once(f, s.tables) + Is(f, s.kstack) + Is(f, s.deferred) + 0 + 0
    BY <1>2, <2>1, <2>2 DEF Held
  <2>5. Held(s, f) = Maps(s, f) + Once(f, s.tables) + Is(f, s.kstack) + Is(f, s.deferred)
                       + Is(f, s.tstack) + Is(f, s.tkstack)
    BY DEF Held
  <2> QED BY <1>6, <2>3, <2>4, <2>5
<1>10. expected' \in [Procs -> [Pages \cup {ThreadPage} -> Values \cup {Zero}]]
  BY <1>8 DEF MemInv
<1> QED BY <1>2, <1>4, <1>5, <1>7, <1>8, <1>9, <1>10, ReleaseStep

-----------------------------------------------------------------------------
(***************************************************************************)
(* A thread.                                                               *)
(***************************************************************************)
LEMMA CreateThreadKeeps ==
  ASSUME MemInv, "thread" \in Workload, NEW p \in Procs, CreateUserThread(p) PROVE MemInv'
<1> DEFINE s == space[p]
           a == Nth(Free, 1)
           b == Nth(Free, 2)
           pte == [s.pte EXCEPT ![ThreadPage] = [frame |-> a, mode |-> "rw"]]
           t == [s EXCEPT !.tstack = a, !.tkstack = b, !.pte = pte]
<1>1. space \in [Procs -> Space] /\ SlotOK(s) /\ s \in Space /\ s.live /\ s.tstack = NoFrame
      /\ s.tkstack = NoFrame
  BY DEF MemInv, CreateUserThread, SlotOK
<1>2. a \in Free /\ b \in Free /\ a # b
  <2>1. 1 \in 1 .. Cardinality(Free) /\ 2 \in 1 .. Cardinality(Free)
    BY FreeFrames DEF CreateUserThread
  <2>2. a \in Free /\ Rank(Free, a) = 1 - 1 BY <2>1, FreeFrames, NthIs
  <2>3. b \in Free /\ Rank(Free, b) = 2 - 1 BY <2>1, FreeFrames, NthIs
  <2> QED BY <2>2, <2>3
<1>3. a \in Frames /\ b \in Frames /\ page_refs[a] = 0 /\ page_refs[b] = 0 BY <1>2 DEF Free
<1>4. /\ page_refs' = [page_refs EXCEPT ![a] = 1, ![b] = 1]
      /\ content' = [content EXCEPT ![a] = Zero, ![b] = KernelData]
      /\ expected' = [expected EXCEPT ![p][ThreadPage] = Zero]
      /\ forgotten' = forgotten
  BY DEF CreateUserThread
<1>5. space' = [space EXCEPT ![p] = t] BY <1>1 DEF CreateUserThread
<1> HIDE DEF a, b
<1>6. s.pte \in [Pages \cup {ThreadPage} -> Mapping] BY <1>1 DEF Space
<1>7. /\ pte \in [Pages \cup {ThreadPage} -> Mapping]
      /\ \A k \in Pages : pte[k] = s.pte[k]
      /\ pte[ThreadPage].mode = "rw"
  BY <1>3, <1>6, Sizes DEF Mapping
<1> HIDE DEF pte
<1>8. /\ t \in Space /\ t.live = s.live /\ t.user_pages = s.user_pages /\ t.pte = pte
      /\ t.tables = s.tables /\ t.kstack = s.kstack /\ t.deferred = s.deferred
      /\ t.tstack = a /\ t.tkstack = b
  BY <1>1, <1>3, <1>7 DEF Space
<1> HIDE DEF t
<1>9. space'[p] = t /\ space' \in [Procs -> Space] /\ \A q \in Procs : q # p => space'[q] = space[q]
  BY <1>1, <1>5, <1>8
<1>10. SlotOK(t) BY <1>1, <1>2, <1>3, <1>7, <1>8, Sizes DEF SlotOK
<1>11. SlotOK(space'[p]) BY <1>9, <1>10
<1>12. page_refs \in [Frames -> Nat] BY DEF MemInv
<1>13. /\ page_refs' \in [Frames -> Nat]
       /\ \A f \in Frames : page_refs'[f] = page_refs[f] + Is(f, a) + Is(f, b)
  BY <1>2, <1>3, <1>4, <1>12 DEF Is
<1>14. content' \in [Frames -> Values \cup {Zero, KernelData}] BY <1>4 DEF MemInv
<1>15. expected' \in [Procs -> [Pages \cup {ThreadPage} -> Values \cup {Zero}]]
  BY <1>4 DEF MemInv
<1>16. \A q \in Procs : q # p =>
         /\ SlotOK(space'[q]) /\ SameFrames(space'[q], space[q])
         /\ \A k \in Pages : space'[q].pte[k].mode = "rw" => space[q].pte[k].mode = "rw"
  BY <1>9 DEF SameFrames, MemInv
<1>17. \A f \in Frames : Held(t, f) = Held(s, f) + Is(f, a) + Is(f, b)
  <2> SUFFICES ASSUME NEW f \in Frames PROVE Held(t, f) = Held(s, f) + Is(f, a) + Is(f, b)
    OBVIOUS
  <2>1. Maps(t, f) = Maps(s, f) BY <1>7, <1>8, MapsAlike
  <2>2. /\ Maps(s, f) \in Nat /\ Once(f, s.tables) \in Nat /\ Is(f, s.kstack) \in Nat
        /\ Is(f, s.deferred) \in Nat /\ Is(f, a) \in Nat /\ Is(f, b) \in Nat
    BY MapsNat DEF Once, Is
  <2>3. Held(t, f) = Maps(s, f) + Once(f, s.tables) + Is(f, s.kstack) + Is(f, s.deferred)
                       + Is(f, a) + Is(f, b)
    BY <1>8, <2>1 DEF Held
  <2>4. Held(s, f) = Maps(s, f) + Once(f, s.tables) + Is(f, s.kstack) + Is(f, s.deferred)
    BY <1>1, HeldAlone
  <2> QED BY <2>2, <2>3, <2>4
<1>18. \A f \in Frames : page_refs'[f] + Held(space[p], f) + Once(f, forgotten)
                           = page_refs[f] + Held(space'[p], f) + Once(f, forgotten')
  <2> SUFFICES ASSUME NEW f \in Frames
               PROVE  page_refs'[f] + Held(space[p], f) + Once(f, forgotten)
                        = page_refs[f] + Held(space'[p], f) + Once(f, forgotten')
    OBVIOUS
  <2> DEFINE c == Held(s, f)
             o == Once(f, forgotten)
             i == Is(f, a) + Is(f, b)
             r == page_refs[f]
  <2>1. /\ page_refs'[f] = r + i /\ Held(space'[p], f) = c + i /\ Held(space[p], f) = c
        /\ Once(f, forgotten') = o
        /\ r \in Nat /\ c \in Nat /\ o \in Nat /\ i \in Nat
    BY <1>4, <1>9, <1>12, <1>13, <1>17, HeldNat DEF Once, Is
  <2> HIDE DEF c, o, i, r
  <2>2. (r + i) + c + o = r + (c + i) + o BY ONLY <2>1
  <2> QED BY <2>1, <2>2 DEF r, o
<1>19. \A f \in Frames : page_refs[f] = 1 => page_refs'[f] = 1
  BY <1>3, <1>13, <1>12 DEF Is
<1>20. \A k \in Pages : space'[p].pte[k].mode = "rw" => page_refs'[space'[p].pte[k].frame] = 1
  <2> SUFFICES ASSUME NEW k \in Pages, s.pte[k].mode = "rw"
               PROVE  page_refs'[s.pte[k].frame] = 1
    BY <1>7, <1>8, <1>9
  <2>1. s.pte[k].frame \in Frames BY <1>1 DEF SlotOK
  <2>2. page_refs[s.pte[k].frame] = 1 BY DEF MemInv, OwnPages
  <2> QED BY <1>19, <2>1, <2>2
<1>21. /\ space'[p].kstack # NoFrame => page_refs'[space'[p].kstack] = 1
       /\ space'[p].deferred # NoFrame => page_refs'[space'[p].deferred] = 1
  <2>1. s.kstack \in Frames \cup {NoFrame} /\ s.deferred \in Frames \cup {NoFrame}
    BY <1>1 DEF Space
  <2>2. /\ s.kstack # NoFrame => page_refs[s.kstack] = 1
        /\ s.deferred # NoFrame => page_refs[s.deferred] = 1
    BY DEF MemInv, OwnStacks
  <2> QED BY <1>8, <1>9, <1>19, <2>1, <2>2
<1>22. forgotten \subseteq forgotten' /\ forgotten' \subseteq Frames
       /\ \A f \in forgotten' \ forgotten : page_refs'[f] = 1
  BY <1>4 DEF MemInv
<1> QED BY <1>9, <1>11, <1>13, <1>14, <1>15, <1>16, <1>18, <1>19, <1>20, <1>21, <1>22, SlotStep

-----------------------------------------------------------------------------
(***************************************************************************)
(* fork.                                                                   *)
(***************************************************************************)
WithPte(s, pte) == [s EXCEPT !.pte = pte]

\* A parent whose writable pages became copy-on-write, all or some of them.
Marked(pte, new) ==
  /\ new \in [Pages \cup {ThreadPage} -> Mapping]
  /\ \A k \in Pages : /\ new[k].frame = pte[k].frame
                      /\ new[k].mode = "cow" \/ new[k] = pte[k]
  /\ new[ThreadPage] = pte[ThreadPage]

LEMMA MarkedSlot ==
  ASSUME NEW s \in Space, SlotOK(s), s.live, "fork" \in Workload, NEW new, Marked(s.pte, new)
  PROVE  /\ SlotOK(WithPte(s, new)) /\ WithPte(s, new) \in Space
         /\ SameFrames(WithPte(s, new), s) /\ WithPte(s, new).pte = new
<1> DEFINE t == WithPte(s, new)
<1>1. /\ t \in Space /\ t.live = s.live /\ t.user_pages = s.user_pages /\ t.pte = new
      /\ t.tables = s.tables /\ t.kstack = s.kstack /\ t.deferred = s.deferred
      /\ t.tstack = s.tstack /\ t.tkstack = s.tkstack
  BY DEF WithPte, Space, Marked
<1> HIDE DEF t
<1>2. SlotOK(t) BY <1>1 DEF SlotOK, Marked
<1> QED BY <1>1, <1>2 DEF t, SameFrames, Marked

LEMMA SharedMarked ==
  ASSUME NEW pte \in [Pages \cup {ThreadPage} -> Mapping]
  PROVE  /\ Marked(pte, Shared(pte)) /\ Marked(pte, Restored(pte))
         /\ \A k \in Pages : Shared(pte)[k].mode # "rw"
<1>1. \A k \in Pages \cup {ThreadPage} :
        /\ pte[k].mode = "rw" => [pte[k] EXCEPT !.mode = "cow"] = [frame |-> pte[k].frame, mode |-> "cow"]
        /\ pte[k] \in Mapping
  BY DEF Mapping
<1> DEFINE new == [k \in Pages \cup {ThreadPage} |->
                     IF k \in Pages /\ pte[k].mode = "rw"
                     THEN [frame |-> pte[k].frame, mode |-> "cow"] ELSE pte[k]]
<1>2. Shared(pte) = new BY <1>1 DEF Shared
<1>3. /\ new \in [Pages \cup {ThreadPage} -> Mapping]
      /\ \A k \in Pages : /\ new[k].frame = pte[k].frame
                          /\ new[k].mode = "cow" \/ new[k] = pte[k]
                          /\ new[k].mode # "rw"
      /\ new[ThreadPage] = pte[ThreadPage]
  BY <1>1, Sizes DEF Mapping
<1>4. Restored(pte) \in [Pages \cup {ThreadPage} -> Mapping]
      /\ \A k \in Pages \cup {ThreadPage} : Restored(pte)[k] = pte[k] \/ Restored(pte)[k] = new[k]
  BY <1>2, <1>3 DEF Restored
<1> HIDE DEF new
<1> QED BY <1>2, <1>3, <1>4 DEF Marked

\* The content a fork leaves, as far as it went.
ForkContent ==
  [f \in Frames |-> IF f \in Lowest(Free, ForkFrames) THEN KernelData ELSE content[f]]

Child(pte) ==
  [NoSpace EXCEPT
     !.live = TRUE,
     !.user_pages = [k \in Pages |-> pte[k].frame],
     !.pte = [Shared(pte) EXCEPT ![ThreadPage] = Unmapped],
     !.tables = Lowest(Free, TableFrames),
     !.kstack = Nth(Free, ForkFrames)]

LEMMA ChildFields ==
  ASSUME NEW pte \in [Pages \cup {ThreadPage} -> Mapping], Cardinality(Free) >= ForkFrames
  PROVE  LET c == Child(pte)
         IN /\ c \in Space /\ c.live = TRUE
            /\ \A k \in Pages : /\ c.user_pages[k] = pte[k].frame
                                /\ c.pte[k] = Shared(pte)[k] /\ c.pte[k].frame = pte[k].frame
            /\ c.pte[ThreadPage] = Unmapped
            /\ c.tables = Lowest(Free, TableFrames) /\ c.kstack = Nth(Free, ForkFrames)
            /\ c.deferred = NoFrame /\ c.tstack = NoFrame /\ c.tkstack = NoFrame
<1> DEFINE pages == [k \in Pages |-> pte[k].frame]
           new == [Shared(pte) EXCEPT ![ThreadPage] = Unmapped]
           tables == Lowest(Free, TableFrames)
           kstack == Nth(Free, ForkFrames)
<1>1. Marked(pte, Shared(pte)) BY SharedMarked
<1>2. pages \in [Pages -> Frames \cup {NoFrame}] BY DEF Mapping
<1>3. /\ new \in [Pages \cup {ThreadPage} -> Mapping] /\ new[ThreadPage] = Unmapped
      /\ \A k \in Pages : new[k] = Shared(pte)[k] /\ new[k].frame = pte[k].frame
  BY <1>1, Sizes DEF Marked, Mapping, Unmapped
<1>4. tables \in SUBSET Frames /\ kstack \in Frames
  <2>1. ForkFrames \in 1 .. Cardinality(Free) BY FreeFrames, Sizes
  <2>2. kstack \in Free BY <2>1, FreeFrames, NthIs
  <2> QED BY <2>2, LowestFree, FreeFrames
<1>5. Child(pte) = [NoSpace EXCEPT !.live = TRUE, !.user_pages = pages, !.pte = new,
                                   !.tables = tables, !.kstack = kstack]
  BY DEF Child
<1>6. \A k \in Pages : pages[k] = pte[k].frame OBVIOUS
<1>7. NoSpace.deferred = NoFrame /\ NoSpace.tstack = NoFrame /\ NoSpace.tkstack = NoFrame
  BY DEF NoSpace
<1> HIDE DEF pages, new, tables, kstack
<1>8. LET c == Child(pte)
      IN /\ c \in Space /\ c.live = TRUE /\ c.user_pages = pages /\ c.pte = new
         /\ c.tables = tables /\ c.kstack = kstack
         /\ c.deferred = NoSpace.deferred /\ c.tstack = NoSpace.tstack
         /\ c.tkstack = NoSpace.tkstack
  BY <1>2, <1>3, <1>4, <1>5, NoSpaceType DEF Space
<1> QED BY <1>3, <1>6, <1>7, <1>8 DEF tables, kstack

\* The child holds its parent's pages, and the frames taken for it.
LEMMA ChildHeld ==
  ASSUME NEW s \in Space, Cardinality(Free) >= ForkFrames, NEW f \in Frames
  PROVE  Held(Child(s.pte), f) = Maps(s, f) + Once(f, Lowest(Free, ForkFrames))
<1> DEFINE r == Rank(Free, f)
           c == Child(s.pte)
<1>1. \A n \in Nat : f \in Lowest(Free, n) <=> f \in Free /\ r < n BY LowestOf
<1>2. f \in Free => r \in Nat BY FreeFrames, RankRange
<1>3. s.pte \in [Pages \cup {ThreadPage} -> Mapping] BY DEF Space
<1> DEFINE pte == s.pte
<1> HIDE DEF pte
<1>4. /\ \A k \in Pages : c.pte[k].frame = s.pte[k].frame
      /\ c.tables = Lowest(Free, TableFrames) /\ c.kstack = Nth(Free, ForkFrames)
      /\ c.deferred = NoFrame /\ c.tstack = NoFrame /\ c.tkstack = NoFrame
  <2>1. pte \in [Pages \cup {ThreadPage} -> Mapping] BY <1>3 DEF pte
  <2>2. /\ \A k \in Pages : Child(pte).pte[k].frame = pte[k].frame
        /\ Child(pte).tables = Lowest(Free, TableFrames)
        /\ Child(pte).kstack = Nth(Free, ForkFrames)
        /\ Child(pte).deferred = NoFrame /\ Child(pte).tstack = NoFrame
        /\ Child(pte).tkstack = NoFrame
    BY <2>1, ChildFields
  <2> QED BY <2>2 DEF pte
<1>5. f = c.kstack <=> f \in Free /\ r = TableFrames
  <2>1. ForkFrames \in 1 .. Cardinality(Free) /\ ForkFrames - 1 = TableFrames
    BY FreeFrames, Sizes
  <2>2. Nth(Free, ForkFrames) \in Free BY <2>1, FreeFrames, NthIs
  <2>3. f \in Free => (f = Nth(Free, ForkFrames) <=> r = ForkFrames - 1)
    BY <2>1, FreeFrames, NthOf
  <2> QED BY <1>4, <2>1, <2>2, <2>3
<1>6. f \in c.tables <=> f \in Free /\ r < TableFrames
  BY <1>1, <1>4, Sizes
<1>7. Maps(c, f) = Maps(s, f) BY <1>4, MapsAlike
<1>8. Is(f, c.deferred) = 0 /\ Is(f, c.tstack) = 0 /\ Is(f, c.tkstack) = 0
  BY <1>4, Sizes DEF Is
<1>9. f \in Lowest(Free, ForkFrames) <=> f \in Free /\ r < ForkFrames BY <1>1, Sizes
<1> HIDE DEF r, c
<1>10. Once(f, c.tables) + Is(f, c.kstack) = Once(f, Lowest(Free, ForkFrames))
  BY <1>2, <1>5, <1>6, <1>9, Sizes DEF Once, Is
<1>11. Held(c, f) = Maps(s, f) + (Once(f, c.tables) + Is(f, c.kstack))
  BY <1>7, <1>8, MapsNat DEF Held, Once, Is
<1> QED BY <1>10, <1>11 DEF c

LEMMA ForkKeeps ==
  ASSUME MemInv, "fork" \in Workload, NEW p \in Procs, NEW c \in Procs, Fork(p, c)
  PROVE  MemInv'
<1> DEFINE s == space[p]
           pte == space[p].pte
<1>1. /\ space \in [Procs -> Space] /\ SlotOK(s) /\ s \in Space /\ s.live /\ ~space[c].live
      /\ pte \in [Pages \cup {ThreadPage} -> Mapping] /\ p # c
  BY DEF MemInv, Fork, Space
<1>2. content' = ForkContent /\ forgotten' = forgotten BY DEF Fork, ForkContent
<1>3. content' \in [Frames -> Values \cup {Zero, KernelData}]
  BY <1>2 DEF MemInv, ForkContent
<1>4. forgotten \subseteq forgotten' /\ forgotten' \subseteq Frames
      /\ \A f \in forgotten' \ forgotten : page_refs'[f] = 1
  BY <1>2 DEF MemInv
<1>5. page_refs \in [Frames -> Nat] BY DEF MemInv
<1>6. CASE /\ Cardinality(Free) >= ForkFrames
           /\ page_refs' = [f \in Frames |->
                IF f \in Lowest(Free, ForkFrames) THEN 1 ELSE Retained(pte)[f]]
           /\ space' = [space EXCEPT ![p].pte = ParentAfterFork(pte), ![c] = Child(pte)]
           /\ expected' = [expected EXCEPT ![c] = expected[p]]
  <2> DEFINE L == Lowest(Free, ForkFrames)
             t == WithPte(s, Shared(pte))
             k == Child(pte)
  <2>1. space' = [[space EXCEPT ![p] = t] EXCEPT ![c] = k]
    BY <1>1, <1>6 DEF WithPte, ParentAfterFork
  <2>2. /\ SlotOK(t) /\ t \in Space /\ SameFrames(t, s)
        /\ \A j \in Pages : t.pte[j].mode # "rw"
    <3> DEFINE new == Shared(pte)
    <3>1. Marked(pte, new) /\ \A j \in Pages : new[j].mode # "rw" BY <1>1, SharedMarked
    <3> HIDE DEF new
    <3>2. /\ SlotOK(WithPte(s, new)) /\ WithPte(s, new) \in Space
          /\ SameFrames(WithPte(s, new), s) /\ WithPte(s, new).pte = new
      BY <1>1, <3>1, MarkedSlot
    <3> QED BY <3>1, <3>2 DEF new
  <2> HIDE DEF t
  <2>3. k \in Space BY <1>1, <1>6, ChildFields
  <2>4. /\ space'[c] = k /\ space'[p] = t /\ space' \in [Procs -> Space]
        /\ \A q \in Procs : q # p /\ q # c => space'[q] = space[q]
    <3> HIDE DEF k
    <3> QED BY <1>1, <2>1, <2>2, <2>3
  <2>5. SlotOK(k)
    <3>1. \A j \in Pages : pte[j].frame \in Frames BY <1>1 DEF SlotOK
    <3>2. /\ k.live = TRUE /\ k.pte[ThreadPage] = Unmapped
          /\ \A j \in Pages : k.user_pages[j] = pte[j].frame /\ k.pte[j].frame = pte[j].frame
          /\ k.tstack = NoFrame /\ k.tkstack = NoFrame
      BY <1>1, <1>6, ChildFields
    <3> HIDE DEF k
    <3> QED BY <2>3, <3>1, <3>2 DEF SlotOK, Unmapped
  <2>6. SlotOK(space'[c]) BY <2>4, <2>5
  <2>7. \A q \in Procs : q # c =>
           /\ SlotOK(space'[q]) /\ SameFrames(space'[q], space[q])
           /\ \A j \in Pages : space'[q].pte[j].mode = "rw" => space[q].pte[j].mode = "rw"
    <3>1. ASSUME NEW q \in Procs, q # p, q # c
          PROVE  /\ SlotOK(space'[q]) /\ SameFrames(space'[q], space[q])
                 /\ \A j \in Pages : space'[q].pte[j].mode = "rw" => space[q].pte[j].mode = "rw"
      BY <2>4, <3>1 DEF SameFrames, MemInv
    <3> QED BY <2>2, <2>4, <3>1
  <2>8. \A f \in L : f \in Free /\ f \in Frames /\ page_refs[f] = 0 /\ Maps(s, f) = 0
    <3>1. \A f \in L : f \in Free BY LowestFree
    <3> QED BY <3>1, FreeUnheld, Names DEF Free
  <2>9. /\ page_refs' \in [Frames -> Nat]
        /\ \A f \in Frames : page_refs'[f] = page_refs[f] + (Maps(s, f) + Once(f, L))
    <3>1. \A f \in Frames : Retained(pte)[f] = page_refs[f] + Maps(s, f) BY DEF Retained, Maps
    <3>2. \A f \in Frames : Maps(s, f) \in Nat BY MapsNat
    <3> QED BY <1>5, <1>6, <2>8, <3>1, <3>2 DEF Once
  <2>10. \A f \in Frames : Held(space[c], f) = 0
    <3>1. space[c] = NoSpace BY <1>1 DEF MemInv, SlotOK
    <3> QED BY <3>1, NoSpaceHeld
  <2>11. \A f \in Frames : page_refs'[f] + Held(space[c], f) + Once(f, forgotten)
                             = page_refs[f] + Held(space'[c], f) + Once(f, forgotten')
    <3> SUFFICES ASSUME NEW f \in Frames
                 PROVE  page_refs'[f] + Held(space[c], f) + Once(f, forgotten)
                          = page_refs[f] + Held(space'[c], f) + Once(f, forgotten')
      OBVIOUS
    <3> DEFINE i == Maps(s, f) + Once(f, L)
               o == Once(f, forgotten)
               r == page_refs[f]
    <3>1. Held(space'[c], f) = i BY <1>1, <1>6, <2>4, ChildHeld
    <3>2. /\ page_refs'[f] = r + i /\ Held(space[c], f) = 0 /\ Once(f, forgotten') = o
          /\ r \in Nat /\ o \in Nat /\ i \in Nat
      BY <1>2, <1>5, <2>9, <2>10, MapsNat DEF Once
    <3> HIDE DEF i, o, r
    <3>3. (r + i) + 0 + o = r + i + o BY ONLY <3>2
    <3> QED BY <3>1, <3>2, <3>3 DEF r, o
  <2>12. \A f \in Frames : page_refs[f] = 1 /\ Held(space[c], f) = 0
             /\ (\A q \in Procs, j \in Pages :
                   q # c /\ space'[q].pte[j].frame = f => space'[q].pte[j].mode = "rw")
           => page_refs'[f] = 1
    <3> SUFFICES ASSUME NEW f \in Frames, page_refs[f] = 1,
                        \A q \in Procs, j \in Pages :
                          q # c /\ space'[q].pte[j].frame = f => space'[q].pte[j].mode = "rw"
                 PROVE  page_refs'[f] = 1
      OBVIOUS
    <3>1. \A j \in Pages : t.pte[j].frame # f BY <1>1, <2>2, <2>4
    <3>2. Maps(s, f) = 0 BY <2>2, <3>1, MapsNone DEF SameFrames
    <3>3. f \notin L BY <2>8
    <3> QED BY <2>9, <3>2, <3>3 DEF Once
  <2>13. \A j \in Pages : space'[c].pte[j].mode # "rw"
    <3>1. \A j \in Pages : k.pte[j] = Shared(pte)[j] BY <1>1, <1>6, ChildFields
    <3>2. \A j \in Pages : Shared(pte)[j].mode # "rw" BY <1>1, SharedMarked
    <3> HIDE DEF k
    <3> QED BY <2>4, <3>1, <3>2
  <2>14. space'[c].kstack \in L /\ space'[c].deferred = NoFrame
    <3>1. ForkFrames \in 1 .. ForkFrames BY Sizes
    <3>2. Nth(Free, ForkFrames) \in L BY <1>6, <3>1, NthTaken, Sizes
    <3> QED BY <1>1, <1>6, <2>4, <3>2, ChildFields
  <2>15. \A f \in L : page_refs'[f] = 1 BY <1>6, <2>8
  <2>16. expected' \in [Procs -> [Pages \cup {ThreadPage} -> Values \cup {Zero}]]
    BY <1>6 DEF MemInv
  <2> HIDE DEF k, L
  <2> QED BY <1>3, <1>4, <2>4, <2>6, <2>7, <2>9, <2>11, <2>12, <2>13, <2>14, <2>15, <2>16,
             ForkStep
<1>7. CASE /\ space' = [space EXCEPT ![p].pte = Restored(pte)]
           /\ UNCHANGED <<page_refs, expected>>
  <2> DEFINE t == WithPte(s, Restored(pte))
  <2>1. space' = [space EXCEPT ![p] = t] BY <1>1, <1>7 DEF WithPte
  <2>2. /\ SlotOK(t) /\ t \in Space /\ SameFrames(t, s) /\ t.pte = Restored(pte)
    BY <1>1, SharedMarked, MarkedSlot
  <2>3. \A j \in Pages : t.pte[j].mode = "rw" => s.pte[j].mode = "rw"
    BY <1>1, <2>2, SharedMarked DEF Marked
  <2> HIDE DEF t
  <2>4. /\ space'[p] = t /\ space' \in [Procs -> Space]
        /\ \A q \in Procs : q # p => space'[q] = space[q]
    BY <1>1, <2>1, <2>2
  <2>5. \A q \in Procs : q # p =>
           /\ SlotOK(space'[q]) /\ SameFrames(space'[q], space[q])
           /\ \A j \in Pages : space'[q].pte[j].mode = "rw" => space[q].pte[j].mode = "rw"
    BY <2>4 DEF SameFrames, MemInv
  <2>6. page_refs' = page_refs BY <1>7
  <2>7. \A f \in Frames : page_refs'[f] + Held(space[p], f) + Once(f, forgotten)
                            = page_refs[f] + Held(space'[p], f) + Once(f, forgotten')
    <3>1. \A f : Held(t, f) = Held(s, f) BY <2>2, HeldAlike
    <3> QED BY <1>2, <2>4, <2>6, <3>1
  <2>8. \A j \in Pages : space'[p].pte[j].mode = "rw" => page_refs'[space'[p].pte[j].frame] = 1
    BY <2>2, <2>3, <2>4, <2>6 DEF MemInv, OwnPages, SameFrames
  <2>9. /\ space'[p].kstack # NoFrame => page_refs'[space'[p].kstack] = 1
        /\ space'[p].deferred # NoFrame => page_refs'[space'[p].deferred] = 1
    BY <2>2, <2>4, <2>6 DEF MemInv, OwnStacks, SameFrames
  <2>10. expected' \in [Procs -> [Pages \cup {ThreadPage} -> Values \cup {Zero}]]
    BY <1>7 DEF MemInv
  <2>11. SlotOK(space'[p]) BY <2>2, <2>4
  <2> QED BY <1>3, <1>4, <1>5, <2>4, <2>5, <2>6, <2>7, <2>8, <2>9, <2>10, <2>11, SlotStep
<1>8. CASE UNCHANGED <<page_refs, space, expected>>
  <2>1. expected' \in [Procs -> [Pages \cup {ThreadPage} -> Values \cup {Zero}]]
    BY <1>8 DEF MemInv
  <2> QED BY <1>2, <1>3, <1>8, <2>1, MemFrame
<1> QED BY <1>6, <1>7, <1>8 DEF Fork, Child

-----------------------------------------------------------------------------
(***************************************************************************)
(* A store.                                                                *)
(***************************************************************************)
\* The slot after the store made page k writable, in frame f.
Resolved(s, k, f) == WithPte(s, [s.pte EXCEPT ![k] = [frame |-> f, mode |-> "rw"]])

LEMMA ResolvedSlot ==
  ASSUME NEW s \in Space, SlotOK(s), s.live, NEW k \in Pages, NEW f \in Frames,
         Workload \cap {"reap", "exec"} = {} \/ f = s.pte[k].frame
  PROVE  /\ SlotOK(Resolved(s, k, f)) /\ Resolved(s, k, f) \in Space
         /\ Resolved(s, k, f).pte[k].frame = f
         /\ \A j \in Pages : j # k => Resolved(s, k, f).pte[j] = s.pte[j]
         /\ Resolved(s, k, f).tables = s.tables
         /\ Resolved(s, k, f).kstack = s.kstack /\ Resolved(s, k, f).deferred = s.deferred
         /\ Resolved(s, k, f).tstack = s.tstack /\ Resolved(s, k, f).tkstack = s.tkstack
<1> DEFINE new == [s.pte EXCEPT ![k] = [frame |-> f, mode |-> "rw"]]
           t == Resolved(s, k, f)
<1>1. s.pte \in [Pages \cup {ThreadPage} -> Mapping] BY DEF Space
<1>2. /\ new \in [Pages \cup {ThreadPage} -> Mapping]
      /\ new[k].frame = f /\ new[k].mode = "rw"
      /\ \A j \in Pages : j # k => new[j] = s.pte[j]
      /\ new[ThreadPage] = s.pte[ThreadPage]
  BY <1>1, Sizes DEF Mapping
<1>3. t = WithPte(s, new) BY DEF Resolved
<1> HIDE DEF new, t
<1>4. /\ t \in Space /\ t.live = s.live /\ t.user_pages = s.user_pages /\ t.pte = new
      /\ t.tables = s.tables /\ t.kstack = s.kstack /\ t.deferred = s.deferred
      /\ t.tstack = s.tstack /\ t.tkstack = s.tkstack
  BY <1>2, <1>3 DEF WithPte, Space
<1>5. \A j \in Pages : t.pte[j].frame \in Frames BY <1>2, <1>4 DEF SlotOK
<1>6. Workload \cap {"reap", "exec"} # {} =>
        \A j \in Pages : t.user_pages[j] = t.pte[j].frame
  BY <1>2, <1>4 DEF SlotOK
<1>7. "fork" \notin Workload => \A j \in Pages : t.pte[j].mode # "cow"
  BY <1>2, <1>4 DEF SlotOK
<1>8. SlotOK(t) BY <1>2, <1>4, <1>5, <1>6, <1>7 DEF SlotOK
<1> QED BY <1>2, <1>4, <1>8 DEF t

\* What it holds then.
LEMMA ResolvedHeld ==
  ASSUME NEW s \in Space, SlotOK(s), s.live, NEW k \in Pages, NEW f \in Frames,
         Workload \cap {"reap", "exec"} = {} \/ f = s.pte[k].frame, NEW g \in Frames
  PROVE  Held(Resolved(s, k, f), g) + Is(g, s.pte[k].frame) = Held(s, g) + Is(g, f)
<1> DEFINE t == Resolved(s, k, f)
<1>1. /\ t.pte[k].frame = f /\ \A j \in Pages : j # k => t.pte[j].frame = s.pte[j].frame
      /\ t.tables = s.tables /\ t.kstack = s.kstack /\ t.deferred = s.deferred
      /\ t.tstack = s.tstack /\ t.tkstack = s.tkstack
  BY ResolvedSlot
<1> HIDE DEF t
<1>2. Maps(t, g) + Is(g, s.pte[k].frame) = Maps(s, g) + Is(g, f) BY <1>1, MapsPut
<1>3. /\ Once(g, s.tables) \in Nat /\ Is(g, s.kstack) \in Nat /\ Is(g, s.deferred) \in Nat
      /\ Is(g, s.tstack) \in Nat /\ Is(g, s.tkstack) \in Nat
      /\ Is(g, f) \in Nat /\ Is(g, s.pte[k].frame) \in Nat
      /\ Maps(t, g) \in Nat /\ Maps(s, g) \in Nat
  BY MapsNat DEF Once, Is
<1>4. /\ Held(t, g) = Maps(t, g) + Once(g, s.tables) + Is(g, s.kstack) + Is(g, s.deferred)
                        + Is(g, s.tstack) + Is(g, s.tkstack)
      /\ Held(s, g) = Maps(s, g) + Once(g, s.tables) + Is(g, s.kstack) + Is(g, s.deferred)
                        + Is(g, s.tstack) + Is(g, s.tkstack)
  BY <1>1 DEF Held
<1> QED BY <1>2, <1>3, <1>4 DEF t

LEMMA WriteKeeps ==
  ASSUME MemInv, ~StaleListing, Storing, NEW p \in Procs,
         NEW k \in Pages \cup {ThreadPage}, NEW v \in Values, Write(p, k, v)
  PROVE  MemInv'
<1> DEFINE s == space[p]
           old == space[p].pte[k].frame
           new == Nth(Free, 1)
<1>1. /\ space \in [Procs -> Space] /\ SlotOK(s) /\ s \in Space /\ s.live
      /\ page_refs \in [Frames -> Nat]
  BY DEF MemInv, Write
<1>2. expected' = [expected EXCEPT ![p][k] = v] /\ forgotten' = forgotten BY DEF Write
<1>3. expected' \in [Procs -> [Pages \cup {ThreadPage} -> Values \cup {Zero}]]
  BY <1>2 DEF MemInv
<1>4. /\ forgotten \subseteq forgotten' /\ forgotten' \subseteq Frames
      /\ \A f \in forgotten' \ forgotten : page_refs'[f] = 1
  BY <1>2 DEF MemInv
<1>5. CASE content' = [content EXCEPT ![old] = v] /\ UNCHANGED <<page_refs, space>>
  <2>1. content' \in [Frames -> Values \cup {Zero, KernelData}] BY <1>5 DEF MemInv
  <2> QED BY <1>2, <1>3, <1>5, <2>1, MemFrame
<1>6. s.pte[k].mode = "cow" => k \in Pages /\ old \in Frames /\ Workload \cap {"reap", "exec"} = {}
  <2> SUFFICES ASSUME s.pte[k].mode = "cow"
               PROVE  k \in Pages /\ old \in Frames /\ Workload \cap {"reap", "exec"} = {}
    OBVIOUS
  <2>1. k \in Pages BY <1>1 DEF SlotOK
  <2>2. "fork" \in Workload BY <1>1, <2>1 DEF SlotOK
  <2> QED BY <1>1, <2>1, <2>2 DEF SlotOK, StaleListing
<1>7. \A q \in Procs : q # p /\ space'[q] = space[q] =>
         /\ SlotOK(space'[q]) /\ SameFrames(space'[q], space[q])
         /\ \A j \in Pages : space'[q].pte[j].mode = "rw" => space[q].pte[j].mode = "rw"
  BY DEF SameFrames, MemInv
<1>8. /\ s.kstack \in Frames \cup {NoFrame} /\ s.deferred \in Frames \cup {NoFrame}
      /\ s.kstack # NoFrame => page_refs[s.kstack] = 1
      /\ s.deferred # NoFrame => page_refs[s.deferred] = 1
  BY <1>1 DEF Space, MemInv, OwnStacks
<1>9. CASE /\ s.pte[k].mode = "cow" /\ page_refs[old] = 1
           /\ content' = [content EXCEPT ![old] = v]
           /\ space' = [space EXCEPT ![p].pte[k].mode = "rw"]
           /\ page_refs' = page_refs
  <2> DEFINE t == Resolved(s, k, old)
  <2>1. k \in Pages /\ old \in Frames BY <1>6, <1>9
  <2>2. [s.pte[k] EXCEPT !.mode = "rw"] = [frame |-> old, mode |-> "rw"]
    <3>1. s.pte[k] \in Mapping BY <1>1 DEF Space
    <3> QED BY <3>1 DEF Mapping
  <2>3. space' = [space EXCEPT ![p] = t] BY <1>1, <1>9, <2>2 DEF Resolved, WithPte
  <2>4. /\ SlotOK(t) /\ t \in Space /\ t.pte[k].frame = old
        /\ \A j \in Pages : j # k => t.pte[j] = s.pte[j]
        /\ t.kstack = s.kstack /\ t.deferred = s.deferred
    BY <1>1, <2>1, ResolvedSlot
  <2>5. \A f \in Frames : Held(t, f) + Is(f, old) = Held(s, f) + Is(f, old)
    BY <1>1, <2>1, ResolvedHeld
  <2> HIDE DEF t
  <2>6. space'[p] = t /\ space' \in [Procs -> Space] /\ \A q \in Procs : q # p => space'[q] = space[q]
    BY <1>1, <2>3, <2>4
  <2>7. \A f \in Frames : Held(t, f) = Held(s, f)
    <3> SUFFICES ASSUME NEW f \in Frames PROVE Held(t, f) = Held(s, f) OBVIOUS
    <3>1. Held(t, f) \in Nat /\ Held(s, f) \in Nat /\ Is(f, old) \in Nat BY HeldNat DEF Is
    <3> QED BY <2>5, <3>1
  <2>8. content' \in [Frames -> Values \cup {Zero, KernelData}] BY <1>9 DEF MemInv
  <2>9. \A f \in Frames : page_refs'[f] + Held(space[p], f) + Once(f, forgotten)
                            = page_refs[f] + Held(space'[p], f) + Once(f, forgotten')
    BY <1>2, <1>9, <2>6, <2>7
  <2>10. \A j \in Pages : space'[p].pte[j].mode = "rw" => page_refs'[space'[p].pte[j].frame] = 1
    <3> SUFFICES ASSUME NEW j \in Pages, t.pte[j].mode = "rw"
                 PROVE  page_refs[t.pte[j].frame] = 1
      BY <1>9, <2>6
    <3>1. CASE j = k BY <1>9, <2>4, <3>1
    <3>2. CASE j # k
      <4>1. t.pte[j] = s.pte[j] BY <2>4, <3>2
      <4> QED BY <4>1 DEF MemInv, OwnPages
    <3> QED BY <3>1, <3>2
  <2>11. /\ space'[p].kstack # NoFrame => page_refs'[space'[p].kstack] = 1
         /\ space'[p].deferred # NoFrame => page_refs'[space'[p].deferred] = 1
    BY <1>8, <1>9, <2>4, <2>6
  <2>12. /\ SlotOK(space'[p]) /\ page_refs' \in [Frames -> Nat]
         /\ \A f \in Frames : page_refs[f] = 1 /\ Held(space[p], f) = 0 => page_refs'[f] = 1
    BY <1>1, <1>9, <2>4, <2>6
  <2> QED BY <1>3, <1>4, <1>7, <2>6, <2>8, <2>9, <2>10, <2>11, <2>12, SlotStep
<1>10. CASE /\ s.pte[k].mode = "cow" /\ page_refs[old] > 1 /\ Free # {}
            /\ content' = [content EXCEPT ![new] = v]
            /\ page_refs' = [DropOld(old) EXCEPT ![new] = 1]
            /\ space' = [space EXCEPT ![p].pte[k] = [frame |-> new, mode |-> "rw"]]
  <2> DEFINE t == Resolved(s, k, new)
  <2>1. k \in Pages /\ old \in Frames /\ Workload \cap {"reap", "exec"} = {} BY <1>6, <1>10
  <2>2. new \in Free /\ new \in Frames /\ page_refs[new] = 0
    <3>1. Cardinality(Free) # 0
      <4>1. IsFiniteSet(Free) BY FreeFrames, FramesFinite
      <4> QED BY <1>10, <4>1, FS_EmptySet
    <3>2. 1 \in 1 .. Cardinality(Free) BY <3>1, FreeFrames
    <3>3. new \in Free BY <3>2, FreeFrames, NthIs
    <3> QED BY <3>3 DEF Free
  <2>3. space' = [space EXCEPT ![p] = t] BY <1>1, <1>10 DEF Resolved, WithPte
  <2> HIDE DEF new
  <2>4. /\ SlotOK(t) /\ t \in Space /\ t.pte[k].frame = new
        /\ \A j \in Pages : j # k => t.pte[j] = s.pte[j]
        /\ t.kstack = s.kstack /\ t.deferred = s.deferred
    BY <1>1, <2>1, <2>2, ResolvedSlot
  <2>5. \A f \in Frames : Held(t, f) + Is(f, old) = Held(s, f) + Is(f, new)
    BY <1>1, <2>1, <2>2, ResolvedHeld
  <2> HIDE DEF t
  <2>6. space'[p] = t /\ space' \in [Procs -> Space] /\ \A q \in Procs : q # p => space'[q] = space[q]
    BY <1>1, <2>3, <2>4
  <2>7. content' \in [Frames -> Values \cup {Zero, KernelData}] BY <1>10 DEF MemInv
  <2>8. /\ page_refs' \in [Frames -> Nat]
        /\ \A f \in Frames : page_refs'[f] + Is(f, old) = page_refs[f] + Is(f, new)
    <3> DEFINE times == [g \in Frames |-> Once(g, {old})]
    <3>1. times \in [Frames -> Nat] /\ \A f \in Frames : times[f] = Is(f, old) BY DEF Once, Is
    <3>2. DropOld(old) = Dropped(page_refs, times) BY DEF DropOld
    <3> HIDE DEF times
    <3>3. \A f \in Frames : times[f] <= page_refs[f]
      BY <1>1, <1>10, <3>1 DEF Is
    <3>4. /\ DropOld(old) \in [Frames -> Nat]
          /\ \A f \in Frames : DropOld(old)[f] = page_refs[f] - Is(f, old)
      BY <1>1, <3>1, <3>2, <3>3, DroppedIs
    <3>5. old # new BY <1>10, <2>2
    <3>6. page_refs' \in [Frames -> Nat] BY <1>10, <3>4
    <3>7. ASSUME NEW f \in Frames PROVE page_refs'[f] + Is(f, old) = page_refs[f] + Is(f, new)
      <4>1. page_refs'[f] = IF f = new THEN 1 ELSE page_refs[f] - Is(f, old) BY <1>10, <3>4
      <4>2. page_refs[f] \in Nat BY <1>1
      <4> QED BY <2>2, <3>5, <4>1, <4>2 DEF Is
    <3> QED BY <3>6, <3>7
  <2>9. \A f \in Frames : page_refs'[f] + Held(space[p], f) + Once(f, forgotten)
                            = page_refs[f] + Held(space'[p], f) + Once(f, forgotten')
    <3> SUFFICES ASSUME NEW f \in Frames
                 PROVE  page_refs'[f] + Held(s, f) + Once(f, forgotten)
                          = page_refs[f] + Held(t, f) + Once(f, forgotten)
      BY <1>2, <2>6
    <3> DEFINE a == page_refs[f]
               b == page_refs'[f]
               c == Held(s, f)
               d == Held(t, f)
               i == Is(f, old)
               j == Is(f, new)
               o == Once(f, forgotten)
    <3>1. b + i = a + j /\ d + i = c + j BY <2>5, <2>8
    <3>2. /\ a \in Nat /\ b \in Nat /\ c \in Nat /\ d \in Nat
          /\ i \in Nat /\ j \in Nat /\ o \in Nat
      BY <1>1, <2>8, HeldNat DEF Is, Once
    <3> HIDE DEF a, b, c, d, i, j, o
    <3>3. b + c + o = a + d + o BY ONLY <3>1, <3>2
    <3> QED BY <3>3 DEF a, b, c, d, o
  <2>10. \A f \in Frames : page_refs[f] = 1 => page_refs'[f] = 1
    <3> SUFFICES ASSUME NEW f \in Frames, page_refs[f] = 1 PROVE page_refs'[f] = 1 OBVIOUS
    <3>1. Is(f, old) = 0 /\ Is(f, new) = 0 BY <1>10, <2>2 DEF Is
    <3>2. page_refs'[f] + 0 = 1 + 0 /\ page_refs'[f] \in Nat BY <2>8, <3>1
    <3> QED BY <3>2
  <2>11. \A j \in Pages : space'[p].pte[j].mode = "rw" => page_refs'[space'[p].pte[j].frame] = 1
    <3> SUFFICES ASSUME NEW j \in Pages, t.pte[j].mode = "rw"
                 PROVE  page_refs'[t.pte[j].frame] = 1
      BY <2>6
    <3>1. CASE j = k
      <4>1. t.pte[j].frame = new BY <2>4, <3>1
      <4>2. DropOld(old) \in [Frames -> Nat] BY DEF DropOld, Dropped, Once, MemInv
      <4> QED BY <1>10, <2>2, <4>1, <4>2
    <3>2. CASE j # k
      <4>1. t.pte[j] = s.pte[j] BY <2>4, <3>2
      <4>2. page_refs[s.pte[j].frame] = 1 BY <4>1 DEF MemInv, OwnPages
      <4>3. s.pte[j].frame \in Frames BY <1>1 DEF SlotOK
      <4> QED BY <2>10, <4>1, <4>2, <4>3
    <3> QED BY <3>1, <3>2
  <2>12. /\ space'[p].kstack # NoFrame => page_refs'[space'[p].kstack] = 1
         /\ space'[p].deferred # NoFrame => page_refs'[space'[p].deferred] = 1
    BY <1>8, <2>4, <2>6, <2>10
  <2>13. SlotOK(space'[p]) BY <2>4, <2>6
  <2> QED BY <1>3, <1>4, <1>7, <2>6, <2>7, <2>8, <2>9, <2>10, <2>11, <2>12, <2>13, SlotStep
<1> QED BY <1>5, <1>9, <1>10 DEF Write

LEMMA StatusKeeps ==
  ASSUME MemInv, ~StaleListing, Storing, NEW p \in Procs,
         NEW k \in Pages \cup {ThreadPage}, NEW v \in Values, WriteStatus(p, k, v)
  PROVE  MemInv'
<1>1. CASE Write(p, k, v) BY <1>1, WriteKeeps
<1>2. CASE /\ content' = [content EXCEPT ![space[p].pte[k].frame] = v]
           /\ expected' = [expected EXCEPT ![p][k] = v]
           /\ UNCHANGED <<page_refs, space, forgotten>>
  <2>1. /\ content' \in [Frames -> Values \cup {Zero, KernelData}]
        /\ expected' \in [Procs -> [Pages \cup {ThreadPage} -> Values \cup {Zero}]]
    BY <1>2 DEF MemInv
  <2> QED BY <1>2, <2>1, MemFrame
<1> QED BY <1>1, <1>2 DEF WriteStatus

-----------------------------------------------------------------------------
LEMMA MemInitInv == Init => MemInv
<1> SUFFICES ASSUME Init PROVE MemInv OBVIOUS
<1>1. /\ page_refs = [f \in Frames |-> 0] /\ content = [f \in Frames |-> Zero]
      /\ space = [p \in Procs |-> NoSpace] /\ forgotten = {}
      /\ expected = [p \in Procs |-> [k \in Pages \cup {ThreadPage} |-> Zero]]
  BY DEF Init
<1>2. /\ NoSpace.live = FALSE /\ \A k \in Pages \cup {ThreadPage} : NoSpace.pte[k] = Unmapped
      /\ \A k \in Pages : NoSpace.user_pages[k] = NoFrame
      /\ NoSpace.tstack = NoFrame /\ NoSpace.tkstack = NoFrame
      /\ NoSpace.kstack = NoFrame /\ NoSpace.deferred = NoFrame /\ NoSpace.tables = {}
  BY DEF NoSpace
<1>3. SlotOK(NoSpace) BY <1>2, NoSpaceType DEF SlotOK, Unmapped
<1>4. \A p \in Procs : space[p] = NoSpace BY <1>1
<1>5. RefsExact
  <2> SUFFICES ASSUME NEW f \in Frames PROVE page_refs[f] = Holders(f) + Once(f, forgotten)
    BY DEF RefsExact
  <2>1. f # NoFrame BY Sizes
  <2>2. /\ MapsIn(space, f) = {} /\ TablesIn(space, f) = {} /\ StackIn(Kstack(space), f) = {}
        /\ StackIn(Deferred(space), f) = {} /\ StackIn(Tstack(space), f) = {}
        /\ StackIn(Tkstack(space), f) = {}
    BY <1>2, <1>4, <2>1
       DEF MapsIn, TablesIn, StackIn, Kstack, Deferred, Tstack, Tkstack, Unmapped
  <2>3. HoldersIn(space, f) = 0 BY <2>2, FS_EmptySet DEF HoldersIn
  <2> QED BY <1>1, <2>3, HoldersAre DEF Once
<1>6. OwnPages /\ OwnStacks BY <1>1, <1>2, <1>4 DEF OwnPages, OwnStacks, Unmapped
<1>7. space \in [Procs -> Space] BY <1>1, NoSpaceType
<1> QED BY <1>1, <1>3, <1>4, <1>5, <1>6, <1>7 DEF MemInv

LEMMA MemStep == ASSUME MemInv, ~StaleListing, [Next]_vars PROVE MemInv'
<1>1. CASE UNCHANGED vars
  <2>1. /\ content' \in [Frames -> Values \cup {Zero, KernelData}]
        /\ expected' \in [Procs -> [Pages \cup {ThreadPage} -> Values \cup {Zero}]]
    BY <1>1 DEF vars, MemInv
  <2> QED BY <1>1, <2>1, MemFrame DEF vars
<1>2. ASSUME NEW p \in Procs, Load(p) PROVE MemInv' BY <1>2, LoadKeeps
<1>3. ASSUME NEW p \in Procs, "exec" \in Workload, Exec(p) PROVE MemInv' BY <1>3, ExecKeeps
<1>4. ASSUME NEW p \in Procs, Schedule(p) PROVE MemInv' BY <1>4, ScheduleKeeps
<1>5. ASSUME NEW p \in Procs, "reap" \in Workload, Reap(p) PROVE MemInv' BY <1>5, ReapKeeps
<1>6. ASSUME NEW p \in Procs, "thread" \in Workload, CreateUserThread(p) PROVE MemInv'
  BY <1>6, CreateThreadKeeps
<1>7. ASSUME NEW p \in Procs, ReapThread(p) PROVE MemInv' BY <1>7, ReapThreadKeeps
<1>8. ASSUME "fork" \in Workload, NEW p \in Procs, NEW c \in Procs, Fork(p, c) PROVE MemInv'
  BY <1>8, ForkKeeps
<1>9. ASSUME "write" \in Workload, NEW p \in Procs, NEW k \in Pages \cup {ThreadPage},
             NEW v \in Values, Write(p, k, v)
      PROVE  MemInv'
  BY <1>9, WriteKeeps DEF Storing
<1>10. ASSUME "status" \in Workload, NEW p \in Procs, NEW k \in Pages \cup {ThreadPage},
              NEW v \in Values, WriteStatus(p, k, v)
       PROVE  MemInv'
  BY <1>10, StatusKeeps DEF Storing
<1> QED
  BY <1>1, <1>2, <1>3, <1>4, <1>5, <1>6, <1>7, <1>8, <1>9, <1>10 DEF Next, NextOf

\* The variables have their types, and an unused slot names no frame.
THEOREM MemoryTypesHold == ~StaleListing => (Spec => []TypeOK)
<1> SUFFICES ASSUME ~StaleListing PROVE Spec => []TypeOK OBVIOUS
<1>1. Init => MemInv BY MemInitInv
<1>2. MemInv /\ [Next]_vars => MemInv' BY MemStep
<1>3. MemInv => TypeOK BY DEF MemInv, TypeOK, SlotOK
<1> QED BY <1>1, <1>2, <1>3, PTL DEF Spec

\* A frame's count is the number of its holders, whatever programs do in whatever order:
\* page_alloc, page_retain and page_free lose and invent no reference.  (Unless programs
\* that fork and store go, or replace their image: see StaleListing.)
THEOREM CountsHold == ~StaleListing => (Spec => []RefsExact)
<1> SUFFICES ASSUME ~StaleListing PROVE Spec => []RefsExact OBVIOUS
<1>1. Init => MemInv BY MemInitInv
<1>2. MemInv /\ [Next]_vars => MemInv' BY MemStep
<1>3. MemInv => RefsExact BY DEF MemInv
<1> QED BY <1>1, <1>2, <1>3, PTL DEF Spec

-----------------------------------------------------------------------------
(***************************************************************************)
(* Isolation.  A step clears frames nobody holds, or stores in a page its  *)
(* program alone holds.                                                    *)
(***************************************************************************)
IsoSlot(p) ==
  space[p].live =>
    \A k \in Pages : space[p].pte[k].mode # "none" => content[space[p].pte[k].frame] = expected[p][k]

LEMMA IsoIs == (Isolation <=> \A p \in Procs : IsoSlot(p))
               /\ (Isolation' <=> \A p \in Procs : IsoSlot(p)')
BY Sizes DEF Isolation, IsoSlot, Mapped, Finds

\* The frame of a mapped page is not free.
LEMMA MappedTaken ==
  ASSUME MemInv, NEW p \in Procs, space[p].live, NEW k \in Pages
  PROVE  space[p].pte[k].frame \in Frames \ Free
<1>1. space[p].pte[k].frame \in Frames BY DEF MemInv, SlotOK
<1>2. ASSUME space[p].pte[k].frame \in Free PROVE FALSE
  <2>1. Held(space[p], space[p].pte[k].frame) = 0 BY <1>2, FreeUnheld
  <2> QED BY <2>1, Names
<1> QED BY <1>1, <1>2

\* A slot that keeps its pages finds them, when only free frames were written.
LEMMA IsoKept ==
  ASSUME MemInv, NEW p \in Procs, IsoSlot(p),
         space'[p].live => space[p].live,
         \A k \in Pages : /\ space'[p].pte[k].frame = space[p].pte[k].frame
                          /\ space'[p].pte[k].mode # "none" => space[p].pte[k].mode # "none"
                          /\ expected'[p][k] = expected[p][k],
         \A f \in Frames \ Free : content'[f] = content[f]
  PROVE  IsoSlot(p)'
<1> SUFFICES ASSUME space'[p].live, NEW k \in Pages, space'[p].pte[k].mode # "none"
             PROVE  content'[space'[p].pte[k].frame] = expected'[p][k]
  BY DEF IsoSlot
<1>1. space[p].pte[k].frame \in Frames \ Free BY MappedTaken
<1>2. content[space[p].pte[k].frame] = expected[p][k] BY DEF IsoSlot
<1> QED BY <1>1, <1>2

LEMMA ClearedIs ==
  ASSUME MemInv
  PROVE  /\ \A f \in Frames \ Free : Cleared[f] = content[f]
         /\ Cardinality(Free) >= ImageFrames =>
              \A k \in Pages : Cleared[Image.pte[k].frame] = Zero
<1>1. \A f \in Frames \ Free : Cleared[f] = content[f] BY LowestFree DEF Cleared
<1>2. ASSUME Cardinality(Free) >= ImageFrames, NEW k \in Pages
      PROVE  Cleared[Image.pte[k].frame] = Zero
  <2>1. PageCount \in Nat /\ Cardinality(Free) >= PageCount /\ k \in 1 .. PageCount
    BY <1>2, FreeFrames, Sizes
  <2>2. Nth(Free, k) \in Lowest(Free, PageCount) BY <2>1, NthTaken
  <2>3. Nth(Free, k) \in Frames BY <2>2, LowestFree DEF Free
  <2> QED BY <2>2, <2>3, ImageFields DEF Cleared
<1> QED BY <1>1, <1>2

\* The slot of a new image, started or put in the place of another.
LEMMA ImageIso ==
  ASSUME MemInv, Isolation, NEW p \in Procs, content' = Cleared,
         Cardinality(Free) >= ImageFrames,
         NEW s, space' = [space EXCEPT ![p] = s],
         \A k \in Pages : s.pte[k].frame = Image.pte[k].frame,
         expected' = [expected EXCEPT ![p] = [k \in Pages \cup {ThreadPage} |-> Zero]]
  PROVE  Isolation'
<1>1. /\ space'[p] = s /\ \A q \in Procs : q # p => space'[q] = space[q]
      /\ \A k \in Pages : expected'[p][k] = Zero
      /\ \A q \in Procs : q # p => expected'[q] = expected[q]
  BY DEF MemInv
<1>2. IsoSlot(p)' BY <1>1, ClearedIs DEF IsoSlot
<1>3. ASSUME NEW q \in Procs, q # p PROVE IsoSlot(q)'
  <2>1. IsoSlot(q) BY IsoIs
  <2>2. \A f \in Frames \ Free : content'[f] = content[f] BY ClearedIs
  <2> QED BY <1>1, <1>3, <2>1, <2>2, IsoKept
<1> QED BY <1>2, <1>3, IsoIs

\* Nothing but free frames is written, and the slots keep what they map.
LEMMA QuietIso ==
  ASSUME MemInv, Isolation,
         \A p \in Procs : space'[p].live => space[p].live,
         \A p \in Procs : space'[p].live => \A k \in Pages :
           /\ space'[p].pte[k].frame = space[p].pte[k].frame
           /\ space'[p].pte[k].mode # "none" => space[p].pte[k].mode # "none"
           /\ expected'[p][k] = expected[p][k],
         \A f \in Frames \ Free : content'[f] = content[f]
  PROVE  Isolation'
<1>1. ASSUME NEW p \in Procs PROVE IsoSlot(p)'
  <2>1. CASE space'[p].live
    <3>1. IsoSlot(p) BY IsoIs
    <3> QED BY <2>1, <3>1, IsoKept
  <2>2. CASE ~space'[p].live BY <2>2 DEF IsoSlot
  <2> QED BY <2>1, <2>2
<1> QED BY <1>1, IsoIs

LEMMA LoadIso == ASSUME MemInv, Isolation, NEW p \in Procs, Load(p) PROVE Isolation'
<1>1. CASE Cardinality(Free) >= ImageFrames /\ page_refs' = Taken
           /\ space' = [space EXCEPT ![p] = Image]
           /\ expected' = [expected EXCEPT ![p] = [k \in Pages \cup {ThreadPage} |-> Zero]]
  <2>1. content' = Cleared BY DEF Load
  <2> QED BY <1>1, <2>1, ImageIso
<1>2. CASE UNCHANGED <<page_refs, space, expected>>
  <2>1. \A f \in Frames \ Free : content'[f] = content[f] BY ClearedIs DEF Load
  <2> QED BY <1>2, <2>1, QuietIso
<1> QED BY <1>1, <1>2 DEF Load

LEMMA ExecIso == ASSUME MemInv, Isolation, NEW p \in Procs, Exec(p) PROVE Isolation'
<1>1. CASE /\ Cardinality(Free) >= ImageFrames
           /\ space' = [space EXCEPT ![p] = Replaced(p)]
           /\ expected' = [expected EXCEPT ![p] = [k \in Pages \cup {ThreadPage} |-> Zero]]
  <2>1. content' = Cleared BY DEF Exec
  <2> DEFINE s == Replaced(p)
  <2>2. \A k \in Pages : s.pte[k].frame = Image.pte[k].frame BY <1>1, ReplacedSlot
  <2>3. space' = [space EXCEPT ![p] = s] BY <1>1
  <2> HIDE DEF s
  <2> QED BY <1>1, <2>1, <2>2, <2>3, ImageIso
<1>2. CASE UNCHANGED <<page_refs, space, expected, forgotten>>
  <2>1. \A f \in Frames \ Free : content'[f] = content[f] BY ClearedIs DEF Exec
  <2> QED BY <1>2, <2>1, QuietIso
<1> QED BY <1>1, <1>2 DEF Exec, Replaced

\* The scheduler, and the end of a thread, of a program: no page of an image changes.
LEMMA GiveBackIso ==
  ASSUME MemInv, Isolation, NEW p \in Procs, Schedule(p) \/ Reap(p) \/ ReapThread(p)
  PROVE  Isolation'
<1>1. content' = content BY DEF Schedule, Reap, ReapThread
<1>2. \A q \in Procs : q # p => space'[q] = space[q] /\ expected'[q] = expected[q]
  BY DEF Schedule, Reap, ReapThread, MemInv
<1>3. space'[p].live => /\ space'[p].pte = space[p].pte /\ space'[p].live = space[p].live
                        /\ expected'[p] = expected[p]
  <2>1. space \in [Procs -> Space] /\ space[p] \in Space BY DEF MemInv
  <2>2. CASE Schedule(p) BY <2>1, <2>2 DEF Schedule, Space
  <2>3. CASE ReapThread(p) BY <2>1, <2>3 DEF ReapThread, Space
  <2>4. CASE Reap(p)
    <3>1. space'[p] = NoSpace BY <2>1, <2>4 DEF Reap, ClearSlot
    <3> QED BY <3>1 DEF NoSpace
  <2> QED BY <2>2, <2>3, <2>4
<1> QED BY <1>1, <1>2, <1>3, QuietIso

LEMMA CreateThreadIso ==
  ASSUME MemInv, Isolation, NEW p \in Procs, CreateUserThread(p) PROVE Isolation'
<1> DEFINE a == Nth(Free, 1)
           b == Nth(Free, 2)
<1>1. a \in Free /\ b \in Free
  <2>1. 1 \in 1 .. Cardinality(Free) /\ 2 \in 1 .. Cardinality(Free)
    BY FreeFrames DEF CreateUserThread
  <2> QED BY <2>1, FreeFrames, NthIs
<1>2. /\ content' = [content EXCEPT ![a] = Zero, ![b] = KernelData]
      /\ expected' = [expected EXCEPT ![p][ThreadPage] = Zero]
      /\ space' = [space EXCEPT ![p].tstack = a, ![p].tkstack = b,
                                ![p].pte[ThreadPage] = [frame |-> a, mode |-> "rw"]]
  BY DEF CreateUserThread
<1> HIDE DEF a, b
<1>3. content \in [Frames -> Values \cup {Zero, KernelData}] BY DEF MemInv
<1>4. \A f \in Frames \ Free : content'[f] = content[f] BY <1>1, <1>2, <1>3 DEF Free
<1>5. \A q \in Procs : q # p => space'[q] = space[q] /\ expected'[q] = expected[q]
  BY <1>2 DEF MemInv
<1>6. space \in [Procs -> Space] /\ space[p] \in Space BY DEF MemInv
<1>7. \A k \in Pages : space'[p].pte[k] = space[p].pte[k] /\ space'[p].live = space[p].live
  BY <1>2, <1>6, Sizes DEF Space
<1>8. \A k \in Pages : expected'[p][k] = expected[p][k] BY <1>2, Sizes DEF MemInv
<1>9. space[p].live BY DEF CreateUserThread
<1> QED BY <1>4, <1>5, <1>7, <1>8, <1>9, QuietIso

LEMMA ForkIso ==
  ASSUME MemInv, Isolation, "fork" \in Workload, NEW p \in Procs, NEW c \in Procs, Fork(p, c)
  PROVE  Isolation'
<1> DEFINE pte == space[p].pte
<1>1. /\ space \in [Procs -> Space] /\ space[p] \in Space /\ space[p].live /\ ~space[c].live
      /\ pte \in [Pages \cup {ThreadPage} -> Mapping] /\ p # c
  BY DEF MemInv, Fork, Space
<1>2. content' = ForkContent BY DEF Fork, ForkContent
<1>3. \A f \in Frames \ Free : content'[f] = content[f] BY <1>2, LowestFree DEF ForkContent
<1>4. CASE /\ Cardinality(Free) >= ForkFrames
           /\ space' = [space EXCEPT ![p].pte = Shared(pte), ![c] = Child(pte)]
           /\ expected' = [expected EXCEPT ![c] = expected[p]]
  <2> DEFINE new == Shared(pte)
             k == Child(pte)
  <2>1. /\ \A j \in Pages : new[j].frame = pte[j].frame
        /\ \A j \in Pages : new[j].mode # "none" => pte[j].mode # "none"
    <3>1. Marked(pte, new) BY <1>1, SharedMarked
    <3>2. \A j \in Pages : pte[j].mode = "none" => new[j] = pte[j] BY <1>1 DEF Shared
    <3> QED BY <3>1, <3>2 DEF Marked
  <2>2. \A j \in Pages : k.pte[j] = new[j] BY <1>1, <1>4, ChildFields
  <2>3. space' = [space EXCEPT ![p].pte = new, ![c] = k] BY <1>4
  <2> HIDE DEF new, k
  <2>4. /\ space'[c] = k /\ space'[p].pte = new /\ space'[p].live = space[p].live
        /\ \A q \in Procs : q # p /\ q # c => space'[q] = space[q]
    BY <1>1, <2>3 DEF Space
  <2>5. expected'[c] = expected[p] /\ \A q \in Procs : q # c => expected'[q] = expected[q]
    BY <1>4 DEF MemInv
  <2>6. ASSUME NEW q \in Procs, q # c PROVE IsoSlot(q)'
    <3>1. IsoSlot(q) BY IsoIs
    <3>2. /\ space'[q].live => space[q].live
          /\ \A j \in Pages : /\ space'[q].pte[j].frame = space[q].pte[j].frame
                              /\ space'[q].pte[j].mode # "none" => space[q].pte[j].mode # "none"
                              /\ expected'[q][j] = expected[q][j]
      <4>1. CASE q = p BY <2>1, <2>4, <2>5, <2>6, <4>1
      <4>2. CASE q # p BY <2>4, <2>5, <2>6, <4>2
      <4> QED BY <4>1, <4>2
    <3> QED BY <1>3, <3>1, <3>2, IsoKept
  <2>7. IsoSlot(c)'
    <3> SUFFICES ASSUME NEW j \in Pages, new[j].mode # "none"
                 PROVE  content'[new[j].frame] = expected[p][j]
      BY <2>2, <2>4, <2>5 DEF IsoSlot
    <3>1. IsoSlot(p) BY IsoIs
    <3>2. content[pte[j].frame] = expected[p][j] BY <1>1, <2>1, <3>1 DEF IsoSlot
    <3>3. pte[j].frame \in Frames \ Free BY <1>1, MappedTaken
    <3> QED BY <1>3, <2>1, <3>2, <3>3
  <2> QED BY <2>6, <2>7, IsoIs
<1>5. CASE /\ space' = [space EXCEPT ![p].pte = Restored(pte)]
           /\ UNCHANGED <<page_refs, expected>>
  <2> DEFINE new == Restored(pte)
  <2>1. \A j \in Pages : /\ new[j].frame = pte[j].frame
                         /\ new[j].mode # "none" => pte[j].mode # "none"
    <3>1. Marked(pte, new) BY <1>1, SharedMarked
    <3>2. \A j \in Pages : pte[j].mode = "none" => new[j] = pte[j]
      BY <1>1 DEF Shared, Restored
    <3> QED BY <3>1, <3>2 DEF Marked
  <2>2. space' = [space EXCEPT ![p].pte = new] BY <1>5
  <2> HIDE DEF new
  <2>3. /\ space'[p].pte = new /\ space'[p].live = space[p].live
        /\ \A q \in Procs : q # p => space'[q] = space[q]
    BY <1>1, <2>2 DEF Space
  <2>4. \A q \in Procs : \A j \in Pages :
          /\ space'[q].pte[j].frame = space[q].pte[j].frame
          /\ space'[q].pte[j].mode # "none" => space[q].pte[j].mode # "none"
          /\ expected'[q][j] = expected[q][j]
    BY <1>5, <2>1, <2>3
  <2>5. \A q \in Procs : space'[q].live => space[q].live BY <2>3
  <2> QED BY <1>3, <2>4, <2>5, QuietIso
<1>6. CASE UNCHANGED <<page_refs, space, expected>> BY <1>3, <1>6, QuietIso
<1> QED BY <1>4, <1>5, <1>6 DEF Fork, Child, ParentAfterFork

\* A frame counted once that a page maps is the frame of no other page.
LEMMA OwnFrame ==
  ASSUME MemInv, NEW p \in Procs, NEW k \in Pages, space[p].live,
         page_refs[space[p].pte[k].frame] = 1, NEW q \in Procs, NEW j \in Pages,
         space[q].pte[j].frame = space[p].pte[k].frame
  PROVE  q = p /\ j = k
<1> DEFINE f == space[p].pte[k].frame
<1>1. f \in Frames BY MappedTaken
<1>2. Held(space[p], f) # 0 /\ Held(space[q], f) # 0 BY Holding
<1>3. /\ Held(space[p], f) = 1 /\ \A r \in Procs : r # p => Held(space[r], f) = 0
  BY <1>1, <1>2, Sole
<1>4. q = p BY <1>2, <1>3
<1>5. Maps(space[p], f) <= 1 BY <1>3, MapsHeld
<1> QED BY <1>4, <1>5, MapsSame

\* Frame f was written, and expected[p][k] notes it.
Stored(f, v) == \A g \in Frames : content'[g] = IF g = f THEN v ELSE content[g]

Entered(p, k, v) ==
  \A q \in Procs, j \in Pages : expected'[q][j] = IF q = p /\ j = k THEN v ELSE expected[q][j]

\* Only the entry of page k of p changed, and names f, which no other page does.
Placed(p, k, f) ==
  /\ \A q \in Procs : space'[q].live => space[q].live
  /\ \A q \in Procs, j \in Pages : q # p \/ j # k => space'[q].pte[j] = space[q].pte[j]
  /\ space'[p].pte[k].frame = f
  /\ \A q \in Procs, j \in Pages :
       space[q].live /\ (q # p \/ j # k) => space[q].pte[j].frame # f

\* A store in a frame that no other page is in.
LEMMA StoreIso ==
  ASSUME MemInv, Isolation, NEW p \in Procs, NEW k \in Pages, NEW v, NEW f \in Frames,
         Stored(f, v), Entered(p, k, v), Placed(p, k, f)
  PROVE  Isolation'
<1>1. ASSUME NEW q \in Procs, space'[q].live, NEW j \in Pages, space'[q].pte[j].mode # "none"
      PROVE  content'[space'[q].pte[j].frame] = expected'[q][j]
  <2>1. CASE q = p /\ j = k BY <2>1 DEF Stored, Entered, Placed
  <2>2. CASE q # p \/ j # k
    <3>1. /\ space[q].live /\ space[q].pte[j].mode # "none" /\ space[q].pte[j].frame # f
          /\ space'[q].pte[j] = space[q].pte[j]
      BY <1>1, <2>2 DEF Placed
    <3>2. IsoSlot(q) BY IsoIs
    <3>3. content[space[q].pte[j].frame] = expected[q][j] BY <3>1, <3>2 DEF IsoSlot
    <3>4. space[q].pte[j].frame \in Frames BY <3>1, MappedTaken
    <3> QED BY <2>2, <3>1, <3>3, <3>4 DEF Stored, Entered
  <2> QED BY <2>1, <2>2
<1>2. \A q \in Procs : IsoSlot(q)' BY <1>1 DEF IsoSlot
<1> QED BY <1>2, IsoIs

LEMMA WriteIso ==
  ASSUME MemInv, Isolation, ~StaleStack, Storing,
         NEW p \in Procs, NEW k \in Pages \cup {ThreadPage},
         NEW v \in Values, Write(p, k, v)
  PROVE  Isolation'
<1> DEFINE s == space[p]
           old == space[p].pte[k].frame
           new == Nth(Free, 1)
<1>1. /\ space \in [Procs -> Space] /\ SlotOK(s) /\ s \in Space /\ s.live
      /\ s.pte \in [Pages \cup {ThreadPage} -> Mapping]
      /\ expected' = [expected EXCEPT ![p][k] = v]
  BY DEF MemInv, Write, Space
<1>2. s.pte[k].mode \in {"rw", "cow"} => k \in Pages
  <2>1. "thread" \notin Workload BY DEF StaleStack
  <2>2. s.pte[ThreadPage].mode = "none" BY <1>1, <2>1 DEF SlotOK, Unmapped
  <2> QED BY <2>2
<1>3. ASSUME k \in Pages
      PROVE  Entered(p, k, v)
  BY <1>1, <1>3 DEF MemInv, Entered
<1>4. \A f \in Frames : content' = [content EXCEPT ![f] = v] => Stored(f, v)
  BY DEF MemInv, Stored
<1>5. CASE /\ s.pte[k].mode = "rw" /\ content' = [content EXCEPT ![old] = v]
           /\ UNCHANGED <<page_refs, space>>
  <2>1. k \in Pages BY <1>2, <1>5
  <2>2. old \in Frames /\ page_refs[old] = 1
    BY <1>1, <1>5, <2>1, MappedTaken DEF MemInv, OwnPages
  <2>3. \A q \in Procs, j \in Pages :
          space[q].live /\ (q # p \/ j # k) => space[q].pte[j].frame # old
    BY <1>1, <2>1, <2>2, OwnFrame
  <2>4. Placed(p, k, old) BY <1>5, <2>3 DEF Placed
  <2> QED BY <1>3, <1>4, <1>5, <2>1, <2>2, <2>4, StoreIso
<1>6. CASE /\ s.pte[k].mode = "cow" /\ page_refs[old] = 1
           /\ content' = [content EXCEPT ![old] = v]
           /\ space' = [space EXCEPT ![p].pte[k].mode = "rw"]
  <2>1. k \in Pages BY <1>2, <1>6
  <2>2. old \in Frames BY <1>1, <2>1, MappedTaken
  <2>3. \A q \in Procs, j \in Pages :
          space[q].live /\ (q # p \/ j # k) => space[q].pte[j].frame # old
    BY <1>1, <1>6, <2>1, OwnFrame
  <2>4. s.pte[k] \in Mapping BY <1>1
  <2>5. /\ \A q \in Procs : space'[q].live = space[q].live
        /\ \A q \in Procs, j \in Pages : q # p \/ j # k => space'[q].pte[j] = space[q].pte[j]
        /\ space'[p].pte[k].frame = old
    BY <1>1, <1>6, <2>1, <2>4 DEF Space, Mapping
  <2>6. Placed(p, k, old) BY <2>3, <2>5 DEF Placed
  <2> QED BY <1>3, <1>4, <1>6, <2>1, <2>2, <2>6, StoreIso
<1>7. CASE /\ s.pte[k].mode = "cow" /\ Free # {}
           /\ content' = [content EXCEPT ![new] = v]
           /\ space' = [space EXCEPT ![p].pte[k] = [frame |-> new, mode |-> "rw"]]
  <2>1. k \in Pages BY <1>2, <1>7
  <2>2. new \in Free /\ new \in Frames
    <3>1. Cardinality(Free) # 0
      <4>1. IsFiniteSet(Free) BY FreeFrames, FramesFinite
      <4> QED BY <1>7, <4>1, FS_EmptySet
    <3>2. 1 \in 1 .. Cardinality(Free) BY <3>1, FreeFrames
    <3>3. new \in Free BY <3>2, FreeFrames, NthIs
    <3> QED BY <3>3 DEF Free
  <2>3. \A q \in Procs, j \in Pages : space[q].live => space[q].pte[j].frame # new
    BY <2>2, MappedTaken
  <2> HIDE DEF new
  <2>4. /\ \A q \in Procs : space'[q].live = space[q].live
        /\ \A q \in Procs, j \in Pages : q # p \/ j # k => space'[q].pte[j] = space[q].pte[j]
        /\ space'[p].pte[k].frame = new
    BY <1>1, <1>7, <2>1 DEF Space
  <2>5. Placed(p, k, new) BY <2>3, <2>4 DEF Placed
  <2> QED BY <1>3, <1>4, <1>7, <2>1, <2>2, <2>5, StoreIso
<1> QED BY <1>5, <1>6, <1>7 DEF Write

\* Without a fork no page is shared: no count is above one.
Unshared == "fork" \notin Workload => \A f \in Frames : page_refs[f] <= 1

LEMMA UnsharedStep == ASSUME MemInv, Unshared, [Next]_vars PROVE Unshared'
<1> SUFFICES ASSUME "fork" \notin Workload, NEW f \in Frames PROVE page_refs'[f] <= 1
  BY DEF Unshared
<1>1. page_refs \in [Frames -> Nat] /\ page_refs[f] <= 1 BY DEF MemInv, Unshared
<1>2. Taken[f] \in Nat /\ Taken[f] <= 1 BY <1>1 DEF Taken
<1>3. ASSUME NEW refs, refs[f] \in Nat, refs[f] <= 1, NEW times, times[f] \in Nat
      PROVE  Dropped(refs, times)[f] <= 1
  BY <1>3 DEF Dropped
<1>4. \A S : Once(f, S) \in Nat BY DEF Once
<1>5. \A p \in Procs : Entries(space[p].user_pages, f) \in Nat
  BY ProcsFinite, FS_Subset, FS_CardinalityType DEF Entries
<1>6. CASE UNCHANGED page_refs BY <1>1, <1>6
<1>7. ASSUME NEW p \in Procs, Load(p) PROVE page_refs'[f] <= 1 BY <1>1, <1>2, <1>7 DEF Load
<1>8. ASSUME NEW p \in Procs, Exec(p) PROVE page_refs'[f] <= 1
  <2> DEFINE times == [g \in Frames |->
                         Entries(space[p].user_pages, g) + Once(g, space[p].tables)]
  <2>1. times[f] \in Nat BY <1>4, <1>5
  <2>2. page_refs' = Dropped(Taken, times) \/ UNCHANGED page_refs BY <1>8 DEF Exec
  <2> HIDE DEF times
  <2> QED BY <1>1, <1>2, <1>3, <2>1, <2>2
<1>9. ASSUME NEW p \in Procs, Schedule(p) \/ ReapThread(p) PROVE page_refs'[f] <= 1
  <2> DEFINE times(S) == [g \in Frames |-> Once(g, S)]
  <2>1. \A S : times(S)[f] \in Nat BY <1>4
  <2>2. \E S : page_refs' = Dropped(page_refs, times(S)) BY <1>9 DEF Schedule, ReapThread
  <2> HIDE DEF times
  <2> QED BY <1>1, <1>3, <2>1, <2>2
<1>10. ASSUME NEW p \in Procs, Reap(p) PROVE page_refs'[f] <= 1
  <2> DEFINE times == [g \in Frames |->
                         Entries(space[p].user_pages, g) + Once(g, space[p].tables)
                           + Once(g, {space[p].kstack}) + Once(g, {space[p].deferred})]
  <2>1. times[f] \in Nat BY <1>4, <1>5
  <2>2. page_refs' = Dropped(page_refs, times) BY <1>10 DEF Reap
  <2> HIDE DEF times
  <2> QED BY <1>1, <1>3, <2>1, <2>2
<1>11. ASSUME NEW p \in Procs, CreateUserThread(p) PROVE page_refs'[f] <= 1
  BY <1>1, <1>11 DEF CreateUserThread
<1>12. ASSUME NEW p \in Procs, NEW k \in Pages \cup {ThreadPage}, NEW v \in Values,
              Write(p, k, v)
       PROVE  page_refs'[f] <= 1
  <2>1. UNCHANGED page_refs
          \/ page_refs' = [DropOld(space[p].pte[k].frame) EXCEPT ![Nth(Free, 1)] = 1]
    BY <1>12 DEF Write
  <2>2. \A g : /\ DropOld(g) \in [Frames -> Int]
               /\ DropOld(g)[f] <= 1
    BY <1>1 DEF DropOld, Dropped, Once
  <2> QED BY <1>1, <2>1, <2>2
<1>13. ASSUME NEW p \in Procs, NEW k \in Pages \cup {ThreadPage}, NEW v \in Values,
              WriteStatus(p, k, v)
       PROVE  page_refs'[f] <= 1
  BY <1>6, <1>12, <1>13 DEF WriteStatus
<1> QED
  BY <1>6, <1>7, <1>8, <1>9, <1>10, <1>11, <1>12, <1>13 DEF Next, NextOf, vars

\* A status in a read-only page, which without a fork is its program's alone.
LEMMA StatusIso ==
  ASSUME MemInv, Unshared, Isolation, ~StaleStack, ~SharedText, "status" \in Workload,
         NEW p \in Procs, NEW k \in Pages \cup {ThreadPage}, NEW v \in Values,
         WriteStatus(p, k, v)
  PROVE  Isolation'
<1>1. CASE Write(p, k, v) BY <1>1, WriteIso DEF Storing
<1>2. CASE /\ space[p].live
           /\ space[p].pte[k].mode = "ro"
           /\ content' = [content EXCEPT ![space[p].pte[k].frame] = v]
           /\ expected' = [expected EXCEPT ![p][k] = v]
           /\ UNCHANGED <<page_refs, space, forgotten>>
  <2> DEFINE f == space[p].pte[k].frame
  <2>1. k \in Pages
    <3>1. SlotOK(space[p]) BY DEF MemInv
    <3> QED BY <1>2, <3>1 DEF SlotOK
  <2>2. f \in Frames \ Free BY <1>2, <2>1, MappedTaken
  <2>3. page_refs[f] = 1
    <3>1. page_refs[f] \in Nat /\ page_refs[f] # 0 BY <2>2 DEF MemInv, Free
    <3>2. page_refs[f] <= 1 BY <2>2 DEF Unshared, SharedText
    <3> QED BY <3>1, <3>2
  <2>4. \A q \in Procs, j \in Pages :
          space[q].live /\ (q # p \/ j # k) => space[q].pte[j].frame # f
    BY <1>2, <2>1, <2>3, OwnFrame
  <2>5. Placed(p, k, f) BY <1>2, <2>4 DEF Placed
  <2>6. Stored(f, v) BY <1>2 DEF MemInv, Stored
  <2>7. Entered(p, k, v) BY <1>2, <2>1 DEF MemInv, Entered
  <2> QED BY <2>1, <2>2, <2>5, <2>6, <2>7, StoreIso
<1> QED BY <1>1, <1>2 DEF WriteStatus

LEMMA IsoStep ==
  ASSUME MemInv, Unshared, Isolation, ~StaleStack, ~SharedText, [Next]_vars PROVE Isolation'
<1>1. CASE UNCHANGED vars BY <1>1, QuietIso DEF vars
<1>2. ASSUME NEW p \in Procs, Load(p) PROVE Isolation' BY <1>2, LoadIso
<1>3. ASSUME NEW p \in Procs, Exec(p) PROVE Isolation' BY <1>3, ExecIso
<1>4. ASSUME NEW p \in Procs, Schedule(p) \/ Reap(p) \/ ReapThread(p) PROVE Isolation'
  BY <1>4, GiveBackIso
<1>5. ASSUME NEW p \in Procs, CreateUserThread(p) PROVE Isolation' BY <1>5, CreateThreadIso
<1>6. ASSUME "fork" \in Workload, NEW p \in Procs, NEW c \in Procs, Fork(p, c) PROVE Isolation'
  BY <1>6, ForkIso
<1>7. ASSUME "write" \in Workload, NEW p \in Procs, NEW k \in Pages \cup {ThreadPage},
             NEW v \in Values, Write(p, k, v)
      PROVE  Isolation'
  BY <1>7, WriteIso DEF Storing
<1>8. ASSUME "status" \in Workload, NEW p \in Procs, NEW k \in Pages \cup {ThreadPage},
             NEW v \in Values, WriteStatus(p, k, v)
      PROVE  Isolation'
  BY <1>8, StatusIso
<1> QED BY <1>1, <1>2, <1>3, <1>4, <1>5, <1>6, <1>7, <1>8 DEF Next, NextOf

\* Every program finds in its image what it stored there or inherited, whatever the others
\* do: copy-on-write after fork, the pages page_free gave to somebody else, images started
\* and replaced short of memory, a status stored by the kernel.  (For the programs the code
\* supports: see StaleListing, StaleStack and SharedText.)
THEOREM IsolationHolds ==
  ~StaleListing /\ ~StaleStack /\ ~SharedText => (Spec => []Isolation)
<1> SUFFICES ASSUME ~StaleListing, ~StaleStack, ~SharedText PROVE Spec => []Isolation OBVIOUS
<1>1. Init => MemInv /\ Unshared /\ Isolation
  <2>1. \A p \in Procs : NoSpace.live = FALSE BY DEF NoSpace
  <2> QED BY <2>1, MemInitInv DEF Init, Isolation, Unshared
<1>2. MemInv /\ Unshared /\ Isolation /\ [Next]_vars => (MemInv /\ Unshared /\ Isolation)'
  BY MemStep, UnsharedStep, IsoStep
<1> QED BY <1>1, <1>2, PTL DEF Spec
=============================================================================
