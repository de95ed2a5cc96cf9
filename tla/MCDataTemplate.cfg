SPECIFICATION Spec
CONSTANTS
    MaxRequests = 2
    MaxEvents = 1
    MaxToken = 3
    SharedClient = FALSE
    Null = Null
INVARIANTS
    TypeOK
    NoDanglingContext
PROPERTIES
    ImplementsContract
    SyncReturns
    ListsDrain
    ConstructReturns
CHECK_DEADLOCK FALSE
