SPECIFICATION MCSpec
CONSTANTS
    Capacity = 2
    Limit = 9
    RamLimit = 6
    Reserve = 3
    Lens <- Two
    OnDisk = TRUE
    MaxLines = 3
    MaxBoots = 2
    Panics <- Both
    MaxFails = 1
    DiskNames = {d1, d2, d3}
    Laps = FALSE
INVARIANTS
    ReadWhole RoomMade LogKept DiskKept
SYMMETRY Interchangeable
CHECK_DEADLOCK FALSE
