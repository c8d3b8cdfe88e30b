SPECIFICATION FairSpec
CONSTANTS
    MAX_PKT_LEN = 2
    SizeMod = 8
    GarbledSizes <- MCGarbledSizes
    SndCap = 3
    MaxRequests = 1
CONSTRAINT NoOverlap
PROPERTIES
    EchoAnswered
    LostClientRemoved
CHECK_DEADLOCK FALSE
