------------------------------- MODULE TrbRing -------------------------------
(***************************************************************************)
(* The rings a driver shares with an xHCI controller (src/xhci.c).  A TRB  *)
(* belongs to the consumer when its cycle bit is the one the consumer      *)
(* expects; nothing else says how full a ring is.                          *)
(*                                                                         *)
(* A linked ring has segs segments of size TRBs, the last TRB of each a    *)
(* link to the next segment; positions are numbered through.  The link of  *)
(* the last segment tells the consumer to expect the other cycle bit.  The *)
(* producer's side of a ring is in its record; a consumer is a record of   *)
(* the position it will look at and the cycle bit it expects there.        *)
(***************************************************************************)
EXTENDS Integers

Nothing == [what |-> "nothing"]

Flip(bit) == 1 - bit

Blank(n) == [p \in 0 .. n - 1 |-> [cycle |-> 0, body |-> Nothing]]

LinkedRing(segs, size) ==
  [segs |-> segs, size |-> size, at |-> Blank(segs * size), enq |-> 0, cyc |-> 1]

Length(r) == r.segs * r.size
IsLink(r, p) == p % r.size = r.size - 1
Toggles(r, p) == p = Length(r) - 1

Start == [deq |-> 0, ccs |-> 1]

\* Mutant: only the link that closes the ring gets the new cycle bit.
AdvanceLink_LastOnly(r, p) ==
  [r EXCEPT !.at[p].cycle = IF Toggles(r, p) THEN Flip(@) ELSE @,
            !.cyc = IF Toggles(r, p) THEN Flip(@) ELSE @,
            !.enq = (p + 1) % Length(r)]

\* Crossing the link at p hands it to the consumer.
AdvanceLink(r, p) ==
  [r EXCEPT !.at[p].cycle = Flip(@),
            !.cyc = IF Toggles(r, p) THEN Flip(@) ELSE @,
            !.enq = (p + 1) % Length(r)]

\* What the data and status stages do instead: the link is written anew, with cycle 0.
Relink(r, p) == [r EXCEPT !.at[p].cycle = 0, !.cyc = Flip(@), !.enq = 0]

Write(r, body) ==
  [r EXCEPT !.at[r.enq] = [cycle |-> r.cyc, body |-> body], !.enq = @ + 1]

Put(r, body) ==
  LET w == Write(r, body) IN IF IsLink(r, w.enq) THEN AdvanceLink(w, w.enq) ELSE w

PutRelinking(r, body) ==
  LET w == Write(r, body) IN IF IsLink(r, w.enq) THEN Relink(w, w.enq) ELSE w

\* Where a consumer really looks: past a link it may follow.
Followed(r, c) ==
  IF IsLink(r, c.deq) /\ r.at[c.deq].cycle = c.ccs
  THEN [deq |-> (c.deq + 1) % Length(r),
        ccs |-> IF Toggles(r, c.deq) THEN Flip(c.ccs) ELSE c.ccs]
  ELSE c

Ready(r, c) ==
  LET f == Followed(r, c) IN ~IsLink(r, f.deq) /\ r.at[f.deq].cycle = f.ccs

Body(r, c) == r.at[Followed(r, c).deq].body

Taken(r, c) == [Followed(r, c) EXCEPT !.deq = @ + 1]

\* How many TRBs a consumer would find, 2 for any more than one.
Waiting(r, c) ==
  IF ~Ready(r, c) THEN 0 ELSE IF Ready(r, Taken(r, c)) THEN 2 ELSE 1

-----------------------------------------------------------------------------
(***************************************************************************)
(* The event ring has one segment and no link: both sides wrap at its end. *)
(***************************************************************************)
EventRing(size) == [size |-> size, at |-> Blank(size), enq |-> 0, cyc |-> 1]

Post(r, body) ==
  [r EXCEPT !.at[r.enq] = [cycle |-> r.cyc, body |-> body],
            !.enq = (@ + 1) % r.size,
            !.cyc = IF r.enq + 1 = r.size THEN Flip(@) ELSE @]

NextEvent(r, c) ==
  [deq |-> (c.deq + 1) % r.size,
   ccs |-> IF c.deq + 1 = r.size THEN Flip(c.ccs) ELSE c.ccs]

HasEvent(r, c) == r.at[c.deq].cycle = c.ccs

EventAt(r, c) == r.at[c.deq].body

\* The entry n places on, and the cycle bit expected there.
EventsOn(r, c, n) ==
  [deq |-> (c.deq + n) % r.size,
   ccs |-> IF c.deq + n >= r.size THEN Flip(c.ccs) ELSE c.ccs]

\* The events published at this moment, at most a ring of them.
EventAvailableCount(r, c) ==
  CHOOSE n \in 0 .. r.size :
    /\ \A m \in 0 .. n - 1 : HasEvent(r, EventsOn(r, c, m))
    /\ n = r.size \/ ~HasEvent(r, EventsOn(r, c, n))
=============================================================================
