\* Three requests, two of them under one id, and a table of one.
SPECIFICATION Spec
CONSTANTS
    Requests <- MCRequests
    Ids <- MCIds
    id <- MCId
    MaxPending = 1
    MaxCancels = 1
    Echoed <- MCEchoed
    None = None
INVARIANTS
    TypeOK
    PostedOnce
    ResultIsRecorded
PROPERTIES
    ExitsInTheEnd
CHECK_DEADLOCK FALSE
