SPECIFICATION Spec
CONSTANTS
  Procs = {p1, p2, p3}
  p1 = p1
  p2 = p2
  p3 = p3
  FrameCount = 9
  PageCount = 2
  Writable = {2}
  TableFrames = 1
  Values = {1}
  Workload = {"load", "fork", "write", "reap"}
SYMMETRY AnySlot
INVARIANTS
  Isolation
