SPECIFICATION SmpSpec
CONSTANTS
    Cpus = 4
    Unnamed = {}
INVARIANT
    OwnDirectory
CHECK_DEADLOCK FALSE
