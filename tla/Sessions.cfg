SPECIFICATION Spec
CONSTANTS
    Clients = {ann, bob}
    Ids = {i1, i2}
    Calls = {c1, c2, c3}
    LabSteps = {s1, s2}
    Overlap = {bob}
    MaxReports = 2
    MaxFaults = 1
SYMMETRY Symmetry
INVARIANT TypeOK
INVARIANT OneActive
INVARIANT ProgressKept
INVARIANT EndIsFinal
\* All requests answered and all sessions gone is a legal end.
CHECK_DEADLOCK FALSE
