SPECIFICATION FairSpec
CONSTANTS
    Capacity = 2
    Limit = 6
    RamLimit = 6
    Reserve = 3
    Lens <- OneTwo
    OnDisk = TRUE
    MaxLines = 3
    MaxBoots = 1
    Panics <- Over
    MaxFails = 0
    Laps = FALSE
CHECK_DEADLOCK FALSE
PROPERTY PanicPrints
