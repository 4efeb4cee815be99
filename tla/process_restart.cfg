SPECIFICATION Spec
CONSTANTS
  SlotCount = 3
  MaxPid = 3
  MaxTid = 1
  Levels = 3
  Quantum <- OneTick
  ExitCodes = {42}
  Channels = {1}
  Signals = {}
  Workload = {"spawn", "sleep", "wakeup"}
  Contended = FALSE
PROPERTIES
  RestartSucceeds
