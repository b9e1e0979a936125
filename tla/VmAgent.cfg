CONSTANTS
    MaxCalls = 3
    Patience <- MCPatience
    Limit <- MCLimit
SPECIFICATION FairSpec
INVARIANT EnoughPatience
PROPERTIES TypedInOrder CallerReleased AgentGetsToIt
CHECK_DEADLOCK FALSE
