SPECIFICATION Spec
CONSTANTS
    MaxRequests = 1
    MaxEvents = 1
    MaxToken = 1
    SharedClient = TRUE
    Null = Null
PROPERTIES
    ConstructReturns
CHECK_DEADLOCK FALSE
