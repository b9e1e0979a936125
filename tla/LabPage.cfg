SPECIFICATION FairSpec
CONSTANTS
    Polls = {p1, p2}
    Checks = {k1}
    LastStep = 2
    HasVerify = {1, 2}
    MAX_TABS = 2
    MaxResumes = 1
INVARIANT TypeOK
INVARIANT NextNeedsPass
INVARIANT NoExtraTerminal
INVARIANT TerminalExists
INVARIANT RunIsSeen
PROPERTY ReadyShowsUp
\* The page has been left.
CHECK_DEADLOCK FALSE
