------------------------------- MODULE MCInput -------------------------------
(* Instances of Input: small rings, a few keys and mouse packets. *)
EXTENDS Input

Laptop == {"i8042", "ps2 keyboard", "ps2 mouse"}
Terminal == {"i8042", "ps2 keyboard"}
Tower == {"i8042", "usb keyboard", "usb mouse"}
Docked == {"i8042", "ps2 keyboard", "usb keyboard"}
LegacyFree == {"usb keyboard", "usb mouse"}

Usual == {Laptop, Terminal \cup {"process"}, Tower, LegacyFree, Terminal \cup {"boot"},
          Terminal \cup {"poll"}}
BootMoves == {Laptop \cup {"boot"}}
Polled == {Laptop \cup {"poll"}}
OnlyDocked == {Docked}
=============================================================================
