SPECIFICATION PipeSpec
CONSTANTS
  SlotCount = 3
  MaxPid = 3
  MaxTid = 4
  Levels = 3
  Quantum <- OneTick
  ExitCodes = {42}
  Channels <- PipeChannels
  ChannelBase <- WaitChannelBase
  Signals = {}
  Workload = {"spawn", "exit", "thread"}
  Contended = FALSE
  PipeMax = 2
  PipeBuffer = 2
  Lengths = {1, 3}
  MaxByte = 3
INVARIANTS
  NoLostPipeWakeup
  PipeOrder
  RingOK
