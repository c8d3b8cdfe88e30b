SPECIFICATION FairSpec
CONSTANTS
    Op = {o1, o2}
    Runner = {r1, r2}
    Poller = {p}
    Owner = owner
INVARIANTS
    TypeOK
    WorkExact
    TaskOnce
PROPERTIES
    ImplementsExecutor
    QueuedRuns
    StopEndsRuns
