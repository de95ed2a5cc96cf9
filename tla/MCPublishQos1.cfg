SPECIFICATION Spec
CONSTANTS
    MaxRepub = 2
    MaxPacketId = 3
    StartIds <- MCStartIds
INVARIANTS
    TypeOK
    SuccessMeansReceived
    WaitingUnreported
PROPERTIES
    TimeoutOnlyUnacked
    PublishReported
    ImplementsContract
CHECK_DEADLOCK FALSE
