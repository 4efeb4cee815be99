-------------------------------- MODULE MCPipe --------------------------------
(***************************************************************************)
(* Instances of Pipe for TLC.                                              *)
(***************************************************************************)
EXTENDS Pipe

OneTick == [p \in 0 .. Levels - 1 |-> 1]

\* 0x50495000, and the channels of the pipes of the table.
WaitChannelBase == 1346981888
PipeChannels == {WaitChannelBase + k : k \in Handles}
=============================================================================
