SPECIFICATION Spec
CONSTANTS
    MAX_PKT_LEN = 2
    SizeMod = 8
    GarbledSizes <- MCGarbledSizes
    SndCap = 3
    MaxRequests = 1
INVARIANT
    CorruptHeaderCloses
CHECK_DEADLOCK FALSE
