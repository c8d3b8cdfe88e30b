SPECIFICATION FairSpec
CONSTANTS
    Family = {"v4", "v6"}
    Answers <- MCAnswers
    MaxWrites = 2
INVARIANTS
    TypeOK
    TriedInOrder
    WorkExact
    StopJustified
PROPERTIES
    ReachableIsReached
    ExitCompletes
CHECK_DEADLOCK FALSE
