CONSTANTS
    b1 = b1
    t1 = t1
    Brokers <- OneBroker
    Senders <- NoSenders
    RecvSlots = 1
    GenModulus = 3
    MaxQueuedPackets = 1
    FailuresWhileReserved = TRUE
    CallsOutliveSession = FALSE
SPECIFICATION Spec
INVARIANT
    SessionInOnePlace
PROPERTY
    ImplementsSlot
CONSTRAINT
    TwoGenerations
CHECK_DEADLOCK FALSE
