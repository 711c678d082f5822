\* Four calls, three labels and room for two of them.
SPECIFICATION MCSpec
CONSTANTS
    Calls <- MCCalls
    Labels <- MCLabels
    label <- MCLabel
    Runs <- MCRuns
    IdleSeconds = 1
    MaxOpenRuns = 2
    MaxTime = 2
    Named = {"c1"}
    MaxFaults = 1
    MaxLosses = 1
    MaxEnds = 1
    MaxRestarts = 1
    None = None
INVARIANTS
    OwnLabel
    ToldTrue
    NoLeak
PROPERTIES
    EvictsOldest
    AllAnswered
CHECK_DEADLOCK FALSE
