--------------------------------- MODULE Smp ---------------------------------
(***************************************************************************)
(* The start of the other processors, smp_init and smp_ap_main of          *)
(* src/smp.c with the trampoline of boot/boot.asm.  The boot       *)
(* processor leaves each one its stack and its number in two words, wakes  *)
(* it with INIT and a startup message, and waits for its bit in            *)
(* ap_online_mask for a while; a startup message may be lost, and the      *)
(* processor may take longer than the wait, at any of its steps.  Each     *)
(* finds its number by its bit online[]: one that is not yet marked takes  *)
(* itself for the boot processor (cpu_current_index).                      *)
(***************************************************************************)
EXTENDS Naturals, FiniteSets

CONSTANTS Cpus,        \* processors that cpu_count_hint counts
          Unnamed      \* those whose local APIC cpu_get does not know

ASSUME SmpAssumption == Cpus \in Nat \ {0} /\ Unnamed \subseteq 1 .. Cpus - 1

\* The processors the boot processor, number 0, has to start.
Others == 1 .. Cpus - 1

VARIABLES bsp,         \* smp_init: where it is, and its index
          stackWord,   \* smp_trampoline_stack: whose stack
          cpuWord,     \* smp_trampoline_cpu
          ap,          \* the others: where each is, its stack, its number
          mask,        \* ap_online_mask
          online,      \* cpus[].online
          online_count,
          directory,   \* current_directory[]: the address space each processor is in
          cr3          \* the one the boot processor is in

smpVars == <<bsp, stackWord, cpuWord, ap, mask, online, online_count, directory, cr3>>

Asleep == [pc |-> "off", stack |-> 0, index |-> 0]

SmpInit ==
    /\ bsp = [pc |-> "next", index |-> 1]
    /\ stackWord = 0 /\ cpuWord = 0
    /\ ap = [c \in Others |-> Asleep]
    /\ mask = {} /\ online = {0} /\ online_count = 1
    /\ directory = [c \in 0 .. Cpus - 1 |-> IF c = 0 THEN "kernel" ELSE "none"] /\ cr3 = "kernel"

(***************************************************************************)
(* smp_init.  Whatever fails ends it: the processors after are not tried.  *)
(***************************************************************************)
BspGoes(pc) == bsp' = [bsp EXCEPT !.pc = pc]

\* A stack for the processor, and the words it will read.
Prepare ==
    /\ bsp.pc = "next" /\ bsp.index < Cpus
    /\ \/ /\ stackWord' = bsp.index /\ cpuWord' = bsp.index
          /\ BspGoes(IF bsp.index \in Unnamed THEN "done" ELSE "init")
       \/ BspGoes("done") /\ UNCHANGED <<stackWord, cpuWord>>       \* no pages for a stack
    /\ UNCHANGED <<ap, mask, online, online_count, directory, cr3>>

Finish ==
    /\ bsp.pc = "next" /\ bsp.index >= Cpus /\ BspGoes("done")
    /\ UNCHANGED <<stackWord, cpuWord, ap, mask, online, online_count, directory, cr3>>

SendInit ==
    /\ bsp.pc = "init" /\ BspGoes("sipi1")
    /\ ap' = [ap EXCEPT ![bsp.index] = [Asleep EXCEPT !.pc = "waits"]]
    /\ UNCHANGED <<stackWord, cpuWord, mask, online, online_count, directory, cr3>>

\* A startup message starts a processor that waits for one, or is lost.
Startup(from, to) ==
    /\ bsp.pc = from /\ BspGoes(to)
    /\ \/ /\ ap[bsp.index].pc = "waits"
          /\ ap' = [ap EXCEPT ![bsp.index].pc = "trampoline"]
       \/ UNCHANGED ap
    /\ UNCHANGED <<stackWord, cpuWord, mask, online, online_count, directory, cr3>>

\* wait_for_online: the bit is seen, or the time is over.
Seen ==
    /\ bsp.pc \in {"wait1", "wait2"} /\ bsp.index \in mask
    /\ bsp' = [pc |-> "next", index |-> bsp.index + 1]
    /\ online_count' = online_count + 1
    /\ UNCHANGED <<stackWord, cpuWord, ap, mask, online, directory, cr3>>

FirstTimeout ==
    /\ bsp.pc = "wait1" /\ bsp.index \notin mask /\ BspGoes("sipi2")
    /\ UNCHANGED <<stackWord, cpuWord, ap, mask, online, online_count, directory, cr3>>

\* Mutant: a processor that does not come is passed over.
LastTimeout_Next ==
    /\ bsp.pc = "wait2" /\ bsp.index \notin mask
    /\ bsp' = [pc |-> "next", index |-> bsp.index + 1]
    /\ UNCHANGED <<stackWord, cpuWord, ap, mask, online, online_count, directory, cr3>>

LastTimeout ==
    /\ bsp.pc = "wait2" /\ bsp.index \notin mask /\ BspGoes("done")
    /\ UNCHANGED <<stackWord, cpuWord, ap, mask, online, online_count, directory, cr3>>

(***************************************************************************)
(* The trampoline and smp_ap_main, on processor c.                         *)
(***************************************************************************)
ApStep(c, from, to) == /\ ap[c].pc = from
                       /\ ap' = [ap EXCEPT ![c] = to]
                       /\ UNCHANGED <<bsp, stackWord, cpuWord, online_count, cr3>>

LoadStack(c) == ApStep(c, "trampoline", [ap[c] EXCEPT !.pc = "enters", !.stack = stackWord])
                /\ UNCHANGED <<mask, online, directory>>

LoadIndex(c) == ApStep(c, "enters", [ap[c] EXCEPT !.pc = "main", !.index = cpuWord])
                /\ UNCHANGED <<mask, online, directory>>

\* Its TSS, then the kernel's address space, by the number it takes for its own; the IDT
\* and the timer.
Switch(i, d) == directory' = [directory EXCEPT ![i] = d]
Current(c) == IF c \in online THEN c ELSE 0
EnterKernel(c) == /\ ApStep(c, "main", [ap[c] EXCEPT !.pc = "kernel"])
                  /\ Switch(Current(c), "kernel")
                  /\ UNCHANGED <<mask, online>>

\* Mutant: the bit is set before the processor is marked online, and stands for the mark.
MarkOnline_BitFirst(c) ==
    /\ ApStep(c, "kernel", [ap[c] EXCEPT !.pc = "marked"])
    /\ mask' = mask \cup {ap[c].index} /\ UNCHANGED <<online, directory>>

\* cpu_mark_online, and the bit.
MarkOnline(c) == /\ ApStep(c, "kernel", [ap[c] EXCEPT !.pc = "marked"])
                 /\ online' = online \cup {ap[c].index} /\ UNCHANGED <<mask, directory>>

SetBit(c) == /\ ApStep(c, "marked", [ap[c] EXCEPT !.pc = "online"])
             /\ mask' = mask \cup {ap[c].index} /\ UNCHANGED <<online, directory>>

(***************************************************************************)
(* paging_switch_address_space, when the boot processor schedules: nothing *)
(* is done where the directory is the one noted.                           *)
(***************************************************************************)
SwitchTo0(d) ==
    /\ bsp.pc = "done" /\ directory[0] # d
    /\ Switch(0, d) /\ cr3' = d
    /\ UNCHANGED <<bsp, stackWord, cpuWord, ap, mask, online, online_count>>

SmpNext == \/ Prepare \/ Finish \/ SendInit
           \/ Startup("sipi1", "wait1") \/ Startup("sipi2", "wait2")
           \/ Seen \/ FirstTimeout \/ LastTimeout
           \/ \E c \in Others : \/ LoadStack(c) \/ LoadIndex(c) \/ EnterKernel(c)
                                \/ MarkOnline(c) \/ SetBit(c)
           \/ \E d \in {"kernel", "program"} : SwitchTo0(d)

SmpSpec == SmpInit /\ [][SmpNext]_smpVars

-----------------------------------------------------------------------------
\* However late a processor starts, it runs on the stack and under the number made for
\* it: no other reads the two words, and no two share a stack or a TSS (smp_init gives up
\* at the first processor that does not come).
OwnStack ==
    \A c \in Others : /\ ap[c].pc \notin {"off", "waits", "trampoline"} => ap[c].stack = c
                      /\ ap[c].pc \in {"main", "kernel", "marked", "online"} => ap[c].index = c

\* The processors that smp_online_count counts are online: marked, with their stack, TSS,
\* and IDT (smp_init counts what it sees in ap_online_mask).
CountedRun == \A c \in 1 .. online_count - 1 : c \in online

\* The boot processor is in the address space that current_directory[] notes for it; the
\* next switch is left out where it says so (paging_switch_address_space).
OwnDirectory == directory[0] = cr3

\* smp_online_count is the number of processors that are online.
CountExact == bsp.pc = "done" => online_count = Cardinality(online)
=============================================================================
