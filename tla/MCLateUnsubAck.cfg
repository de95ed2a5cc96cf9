SPECIFICATION Spec
CONSTANTS
    Topics = {a}
    Wildcards = {}
    MaxHandles = 2
    MaxPacketId = 4
    f1 = f1
    f2 = f2
    f3 = f3
    c1 = c1
    c2 = c2
    c3 = c3
    Blocks <- MCBlocks
    Callbacks <- MCCallbacks
    Null = Null
    Watched = {}
    StartIds <- MCStartIds
    CleanSession = TRUE
    Garbage <- AnyGarbage
INVARIANT FilterOwnership
CHECK_DEADLOCK FALSE
