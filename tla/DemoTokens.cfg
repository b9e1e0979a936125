SPECIFICATION Spec
CONSTANTS
    Tokens = {t1, t2, t3}
    DemoIds = {d1, d2, d3}
    MaxFaults = 2
SYMMETRY Symmetry
INVARIANT TypeOK
INVARIANT AckedIsStored
INVARIANT RecordIsCurrent
\* All tokens created and all sessions recorded is a legal end.
CHECK_DEADLOCK FALSE
