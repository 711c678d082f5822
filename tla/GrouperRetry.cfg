\* The API ends the run of two calls once.
SPECIFICATION Spec
CONSTANTS
    Calls <- MCTwoCalls
    Labels <- MCLabels
    label <- MCLabel
    Runs <- MCRuns
    IdleSeconds = 0
    MaxOpenRuns = 1
    MaxTime = 0
    Named = {}
    MaxFaults = 0
    MaxLosses = 0
    MaxEnds = 1
    MaxRestarts = 0
    None = None
INVARIANTS
    NoCallGivenUp
CHECK_DEADLOCK FALSE
