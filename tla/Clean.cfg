SPECIFICATION Spec
CONSTANTS
    MAX_PKT_LEN = 2
    SizeMod = 8
    GarbledSizes <- MCGarbledSizes
    SndCap = 2
    MaxRequests = 2
CONSTRAINT NoOverlap
INVARIANTS
    EchoIntegrity
    HealthyLink
PROPERTY
    ImplementsChannel
