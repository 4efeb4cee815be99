SPECIFICATION MCSpec
CONSTANTS
  Segments = 2
  Capacity = 3
  Requests = 2
  Pings = 1
  Frames = 10
  Room = 2
  Rounds = 4
  Entries = 3
  Ports = {p1, p2}
  MaxSent = 6
  Names = {"hello.elf", "motd", "a"}
  Program = "hello.elf"
  Shipped = {"motd"}
  Owners = {"p", "q"}
  FdMax = 1
  RamSlots = 2
  RamMax = 2
  DiskSlots = 1
  DiskMax = 3
  Payloads <- Bytes
  OpenRemoved = FALSE
  DiskFails = FALSE
INVARIANTS PageInOrder AckedIsKept Conserved FilesKept
CHECK_DEADLOCK FALSE
