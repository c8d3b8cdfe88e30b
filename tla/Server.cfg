SPECIFICATION FairSpec
CONSTANTS
    Address = {a1, a2, a3, a4}
    MaxWrites = 2
    MaxArrivals = 3
INVARIANTS
    TypeOK
    ListExact
    Owned
    AcceptOutstanding
PROPERTY
    LostRemoved
CHECK_DEADLOCK FALSE
