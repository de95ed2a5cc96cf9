SPECIFICATION Spec
CONSTANTS
    NumMsgs = 5
    RingLen = 2
    Window = 2
    BrokerIds = 4
    MaxHandlers = 2
    CleanSession = FALSE
INVARIANTS
    TypeOK
    AtMostOnce
    AckedDelivered
    DeliveredInOrder
    RingSeparates
PROPERTIES
    AllDelivered
