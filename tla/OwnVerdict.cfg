SPECIFICATION Spec
CONSTANTS
    Conn = {c1, c2}
    Native = "little"
    Sizes <- MCSizes
    MaxPackets = 1
INVARIANT
    OwnVerdict
CHECK_DEADLOCK FALSE
