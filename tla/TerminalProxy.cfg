CONSTANTS
    Capacity = 2
    Window = 1
    MaxSent = 3
SPECIFICATION FairSpec
INVARIANTS InOrder ClosedOnReturn
PROPERTY HangUp
CHECK_DEADLOCK FALSE
