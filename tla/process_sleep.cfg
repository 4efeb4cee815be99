SPECIFICATION Spec
CONSTANTS
  SlotCount = 4
  MaxPid = 4
  MaxTid = 1
  Levels = 3
  Quantum <- OneTick
  ExitCodes = {42}
  Channels = {1}
  Signals = {}
  Workload = {"spawn", "fork", "exit", "sleep", "wakeup"}
  Contended = FALSE
PROPERTIES
  SleepHolds
