------------------------------- MODULE MCXhci -------------------------------
(***************************************************************************)
(* Small instances of Xhci on a controller with two ports.                 *)
(***************************************************************************)
EXTENDS Xhci

Scenario(d1, d2, plugs, reports, faults, late) ==
  [devices |-> <<d1, d2>>, plugs |-> plugs, reports |-> reports,
   faults |-> faults, late |-> late]

\* Both devices, one pulled or plugged at any moment; both reporting; one device that
\* reports, and is pulled or joined by the other; one device and a fault; one device with
\* many reports; one device and an answer that comes after its time-out.
Usual == {Scenario("mouse", "keyboard", 1, 0, 0, 0),
          Scenario("mouse", "keyboard", 0, 1, 0, 0),
          Scenario("mouse", "empty", 1, 1, 0, 0),
          Scenario("mouse", "empty", 0, 1, 1, 0),
          Scenario("empty", "keyboard", 0, 3, 0, 0),
          Scenario("empty", "keyboard", 0, 1, 0, 1)}

\* A mouse plugged in after the boot.
HotPlug == {Scenario("keyboard", "empty", 1, 1, 0, 0)}

\* Both devices, and an answer that comes after its time-out.
LateAnswer == {Scenario("mouse", "keyboard", 0, 1, 0, 1)}

\* A mouse, then two faults: a command of its enumeration and the Disable Slot after it.
TwoFaults == {Scenario("mouse", "keyboard", 0, 0, 2, 0)}
=============================================================================
