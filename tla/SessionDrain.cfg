CONSTANTS
    b1 = b1
    t1 = t1
    Brokers <- OneBroker
    Senders <- OneSender
    RecvSlots = 2
    GenModulus = 2
    MaxQueuedPackets = 2
    FailuresWhileReserved = FALSE
    CallsOutliveSession = FALSE
SPECIFICATION Spec
INVARIANTS
    TypeOK
    DrainCountersExact
    DrainedWhenFreed
    RequestsHaveBuffers
    NoStaleTag
    HooksExcludeHandlers
    HooksInOrder
    CountMatchesSession
    OneSendInFlight
CHECK_DEADLOCK FALSE
