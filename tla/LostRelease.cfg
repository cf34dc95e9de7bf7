CONSTANTS
    b1 = b1
    t1 = t1
    Brokers <- OneBroker
    Senders <- NoSenders
    RecvSlots = 1
    GenModulus = 2
    MaxQueuedPackets = 1
    FailuresWhileReserved = FALSE
    CallsOutliveSession = FALSE
SPECIFICATION Spec
INVARIANT
    ReleasingIsTracked
CHECK_DEADLOCK FALSE
