\* A call of any kind, or two listings, beside an export, each kind of trouble once.
SPECIFICATION MCSpec
CONSTANTS
    Calls = {"c1", "c2"}
    Exports = {"x1", "x2"}
    Runs = {1, 2, 3}
    Trouble <- MCTrouble
    Budget <- MCBudget
    Shapes <- MCShapes
    Batch <- MCBatch
    Posts = {"p1"}
    Steps <- MCSteps
    Invalid = {"s2"}
    MaxLists = 1
    MaxSeen = 2
    MaxSends = 2
    None = None
INVARIANTS
    AnswerIsRecorded
    StreamIsRecorded
    NothingPast
    RecordedOnce
CHECK_DEADLOCK FALSE
