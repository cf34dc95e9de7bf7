CONSTANTS
    HalfRange = 8
    WindowSize = 3
    MaxSent = 19
SPECIFICATION Spec
INVARIANTS
    TypeOK
    InOrderOnce
    HeldIsAhead
    HoldingNeverFull
    RepliesAreCumulative
    WindowFollowsOrderer
CHECK_DEADLOCK FALSE
