SPECIFICATION MCSpec
CONSTANTS
  Procs = {p1, p2, p3}
  p1 = p1
  p2 = p2
  p3 = p3
  FrameCount = 10
  PageCount = 3
  Writable = {2, 3}
  TableFrames = 1
  Values = {1, 2}
  Workload = {"load", "fork", "write"}
  PageTotal = 4
  MaxAllocs = 3
  Sizes = {1, 2}
  CallSize = 1
SYMMETRY AnySlot
INVARIANTS
  Isolation
  RefsExact
  HeapWhole
CHECK_DEADLOCK FALSE
