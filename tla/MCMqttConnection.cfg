SPECIFICATION Spec
CONSTANTS
    KeepAlive = TRUE
    FirstIntervals = {1000}
    MaxInterval = 4000
    PingRetry = 2
    MaxDepth = 2
INVARIANTS
    TypeOK
    ManualOnlyInCallback
PROPERTIES
    PatientKeepAlive
    GiveUpIsFinal
    Recovers
