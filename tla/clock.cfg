SPECIFICATION MCSpec
CONSTANTS
  SlotCount = 3
  MaxPid = 3
  MaxTid = 1
  Levels = 4
  Quantum <- TwoTicks
  ExitCodes = {141}
  Channels = {}
  Signals = {}
  Workload = {"spawn", "fork", "waitpid", "exit", "fault", "yield"}
  Contended = TRUE
  Cpus = 6
  Unnamed = {5}
INVARIANTS
  OneRunning
  OwnStack
  CountedRun
PROPERTIES
  EveryReadyRuns
