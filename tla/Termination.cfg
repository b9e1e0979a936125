SPECIFICATION TimedSpec
CONSTANTS
    Lingers = {"VMI"}
    MaxWork = 0
    Configs = {"valid"}
    MayFail <- AnyCall
    MaxRequests = 1
    MaxFaults = 1
PROPERTY TTLEnforced
PROPERTY DeleteCompletes
\* A deleted session stops for good.
CHECK_DEADLOCK FALSE
