------------------------------- MODULE MCFiles -------------------------------
(* Instances of Files for TLC: a shipped RAM file, two that may be anywhere,   *)
(* and a disk of one file.                                                   *)
EXTENDS Files

Bytes == {<<1>>, <<2, 3>>}
Long == {<<1>>, <<1, 2, 3>>}
=============================================================================
