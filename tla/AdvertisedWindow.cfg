CONSTANTS
    HalfRange = 6
    WindowSize = 3
    MaxSent = 6
SPECIFICATION Spec
INVARIANT
    AdvertisesHolding
CHECK_DEADLOCK FALSE
