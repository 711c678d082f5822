\* A request is cancelled while the server exits.
SPECIFICATION Spec
CONSTANTS
    Requests <- MCTwoRequests
    Ids <- MCIds
    id <- MCId
    MaxPending = 2
    MaxCancels = 1
    Echoed <- MCEchoed
    None = None
INVARIANTS
    NoneLostAtExit
CHECK_DEADLOCK FALSE
