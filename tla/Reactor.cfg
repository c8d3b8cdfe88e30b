SPECIFICATION FairSpec
CONSTANTS
    Sock = {s1, s2}
    Fd = {1, 2}
    State = {d1, d2}
    Op = {o1, o2}
INVARIANTS
    TypeOK
    WorkExact
    OnePlace
    QueuedOnce
    Attached
PROPERTIES
    NoMissedEdge
    HandlersRun
