SPECIFICATION MCSpec
CONSTANTS
  SlotCount = 4
  MaxPid = 3
  MaxTid = 2
  Levels = 3
  Quantum <- OneTick
  ExitCodes = {42}
  Channels <- IpcChannels
  ChannelBase <- WaitChannelBase
  Signals = {18, 19}
  Workload = {"spawn", "fork", "exit", "kill"}
  Contended = FALSE
  QueueMax = 2
  MaxSend = 3
INVARIANTS
  NoLostMessage
  JoinsHold
PROPERTIES
  ImplementsMailbox
