SPECIFICATION Spec
CONSTANTS
    Conn = {c1, c2, c3}
    Native = "little"
    Sizes <- MCSizes
    MaxPackets = 3
SYMMETRY Connections
INVARIANTS
    TypeOK
    ReadsRight
CHECK_DEADLOCK FALSE
