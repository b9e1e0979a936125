SPECIFICATION Spec
CONSTANTS
    Lingers = {"DataVolume"}
    MaxWork = 1
    Configs = {"valid", "invalid"}
    MayFail <- AnyCall
    MaxRequests = 2
    MaxFaults = 1
INVARIANT Released
INVARIANT FinalizerFirst
INVARIANT IInv
INVARIANT WorkKept
PROPERTY PausedSnapshotGoes
PROPERTY KeepsPromise
\* A deleted session stops for good.
CHECK_DEADLOCK FALSE
