SPECIFICATION Spec
CONSTANTS
    Lingers = {}
    MaxWork = 1
    Configs = {"valid"}
    MayFail = {}
    MaxRequests = 3
    MaxFaults = 0
INVARIANT WorkKept
\* A deleted session stops for good.
CHECK_DEADLOCK FALSE
