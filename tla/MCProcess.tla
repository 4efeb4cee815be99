------------------------------ MODULE MCProcess ------------------------------
(***************************************************************************)
(* Instances of Process for TLC.                                           *)
(***************************************************************************)
EXTENDS Process

\* Time slices short enough that a slice may be used up in one tick or in two.
OneTick == [p \in 0 .. Levels - 1 |-> 1]
TwoTicks == [p \in 0 .. Levels - 1 |-> 2]
=============================================================================
