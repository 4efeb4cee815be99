-------------------------------- MODULE MCIpc --------------------------------
(***************************************************************************)
(* Instances of Ipc for TLC, each in behaviours of its own: processes that *)
(* fill the table and empty it; processes that wait for their children too *)
(* and send less; threads, joins and receives of a queue that stays empty: *)
(* two ways of sleeping until another task does something.                 *)
(***************************************************************************)
EXTENDS Ipc

OneTick == [p \in 0 .. Levels - 1 |-> 1]

\* IPC_WAIT_CHANNEL_BASE, 0x49504300, and the channels of the pids in use.
WaitChannelBase == 1229996800
IpcChannels == {WaitChannelBase + pid : pid \in Receivers}

VARIABLE part   \* fixed

\* Parents that wait for their children, and one message fewer.
W == INSTANCE Ipc WITH
    MaxSend <- 2, Workload <- Workload \cup {"waitpid"}

T == INSTANCE Ipc WITH
    MaxPid <- 2, MaxTid <- 4,
    Channels <- {WaitChannelBase + pid : pid \in 1 .. 2}, MaxSend <- 0, Signals <- {},
    Workload <- {"spawn", "waitpid", "exit", "yield", "thread", "sleep", "wakeup"}

NoMail ==
    /\ messages = [k \in QueueSlots |-> NoMessage]
    /\ accepted = 0 /\ received = [r \in Receivers |-> {}]

MCInit == \/ part \in {"full", "wait"} /\ IpcInit
          \/ part = "threads" /\ T!Init /\ NoMail

MCNext ==
    /\ UNCHANGED part
    /\ \/ part = "full" /\ IpcNext
       \/ part = "wait" /\ W!IpcNext
       \/ part = "threads" /\ T!IpcNext

MCSpec == MCInit /\ [][MCNext]_<<part, ipcVars>>
=============================================================================
