SPECIFICATION FilesSpec
CONSTANTS
    Names = {"hello.elf", "motd", "a"}
    Program = "hello.elf"
    Shipped = {"motd"}
    Owners = {"p", "q"}
    FdMax = 1
    RamSlots = 2
    RamMax = 2
    DiskSlots = 1
    DiskMax = 3
    Payloads <- Bytes
    OpenRemoved = TRUE
    DiskFails = FALSE
INVARIANT
    OneHome
