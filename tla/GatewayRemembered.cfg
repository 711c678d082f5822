\* One listing, and one transaction that fails.
SPECIFICATION MCSpec
CONSTANTS
    Calls = {"c1", "c2"}
    Exports = {"x1", "x2"}
    Runs = {1, 2, 3}
    Trouble <- MCTrouble
    Budget <- MCFaultOnly
    Shapes <- MCListShapes
    Batch <- MCBatch
    Posts = {"p1"}
    Steps <- MCSteps
    Invalid = {"s2"}
    MaxLists = 1
    MaxSeen = 2
    MaxSends = 2
    None = None
INVARIANTS
    RememberedIsRecorded
CHECK_DEADLOCK FALSE
