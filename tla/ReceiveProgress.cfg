CONSTANTS
    HalfRange = 4
    WindowSize = 2
    MaxSent = 10
SPECIFICATION FairSpec
PROPERTY
    EventuallyDelivered
CHECK_DEADLOCK FALSE
