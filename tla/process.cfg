SPECIFICATION MCSpec
CONSTANTS
  SlotCount = 4
  MaxPid = 4
  MaxTid = 1
  Levels = 3
  Quantum <- OneTick
  ExitCodes = {42}
  Channels = {}
  Signals = {9, 18, 19}
  Workload = {"spawn", "fork", "waitpid", "kill"}
  Contended = FALSE
INVARIANTS
  TypeOK
  CurrentRuns
  NoLostChild
  WaitResult
PROPERTIES
  DeadStaysDead
  WaitsImplementLife
