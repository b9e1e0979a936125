CONSTANTS
    Browsers = {b1, b2}
    Emails = {ann, bob}
    Tokens = {t}
    Ids = {s1, s2}
    Reqs = {q1, q2}
    MaxVisits = 4
    None = None
SYMMETRY Symmetry
VIEW Seen
SPECIFICATION Spec
INVARIANTS TypeOK NoStranger AdmittedWhereSent
CHECK_DEADLOCK FALSE
