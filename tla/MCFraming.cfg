SPECIFICATION Spec
CONSTANTS
    Lengths = {0, 1}
    BufSize = 4
    MaxPackets = 2
    MaxStalls = 1
    Null = Null
INVARIANTS HeaderIsHeader
CHECK_DEADLOCK FALSE
