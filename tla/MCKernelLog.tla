----------------------------- MODULE MCKernelLog -----------------------------
(* Instances of KernelLog for TLC. *)
EXTENDS KernelLog

One == {1}
Two == {2}
OneTwo == {1, 2}
Both == {"same", "other"}
Beside == {"other"}
Over == {"same"}
Nobody == {}
=============================================================================
