SPECIFICATION Spec
CONSTANTS
    Clients = {ann}
    Ids = {i1, i2}
    Calls = {c1, c2, c3}
    LabSteps = {s1, s2}
    Overlap = {ann}
    MaxReports = 0
    MaxFaults = 0
INVARIANT OnePerClient
\* All requests answered and all sessions gone is a legal end.
CHECK_DEADLOCK FALSE
