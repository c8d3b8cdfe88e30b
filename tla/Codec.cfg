SPECIFICATION FairSpec
CONSTANTS
    SizeMod = 64
    Base = 4
    MAX_PKT_LEN = 5
    Texts <- MCTexts
    MaxTexts = 3
INVARIANTS
    TypeOK
    PrefixIntact
    StaysReadable
PROPERTY
    FittingArrive
CHECK_DEADLOCK FALSE
