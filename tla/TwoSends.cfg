CONSTANTS
    b1 = b1
    t1 = t1
    Brokers <- OneBroker
    Senders <- OneSender
    RecvSlots = 1
    GenModulus = 2
    MaxQueuedPackets = 1
    FailuresWhileReserved = FALSE
    CallsOutliveSession = TRUE
SPECIFICATION Spec
INVARIANT
    OneSendInFlight
CHECK_DEADLOCK FALSE
