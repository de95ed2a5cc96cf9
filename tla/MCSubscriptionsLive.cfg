SPECIFICATION Spec
CONSTANTS
    Topics = {a, w}
    Callbacks = {c1}
    Blocks = {f1, f2, f3}
    Wildcards = {w}
    MaxHandles = 2
    MaxPacketId = 2
    f1 = f1
    f2 = f2
    f3 = f3
    c1 = c1
    c2 = c2
    c3 = c3
    Null = Null
    Watched = {}
    StartIds <- MCStartIds
    CleanSession = FALSE
    Garbage <- OnlyNull
PROPERTIES
    PendingResolved
CHECK_DEADLOCK FALSE
