SPECIFICATION Spec
CONSTANTS
    Properties = {p1}
    Actions = {a1}
    MaxHandlers = 2
    MaxTokens = 2
    MaxFaults = 1
    Null = Null
INVARIANTS RegisteredOnce
CHECK_DEADLOCK FALSE
