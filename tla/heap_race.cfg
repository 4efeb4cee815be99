SPECIFICATION HeapSpec
CONSTANTS
    PageTotal = 4
    MaxAllocs = 3
    Sizes = {1, 2}
    CallSize = 1
INVARIANT Apart
CHECK_DEADLOCK FALSE
