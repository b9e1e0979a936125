SPECIFICATION FairSpec
CONSTANTS
    Lingers = {"VMI", "DataVolume"}
    MaxWork = 0
    Configs = {"valid"}
    MayFail = {}
    MaxRequests = 2
    MaxFaults = 0
PROPERTY DropsForRunningVM
PROPERTY PauseCompletes
PROPERTY ResumeCompletes
\* A deleted session stops for good.
CHECK_DEADLOCK FALSE
