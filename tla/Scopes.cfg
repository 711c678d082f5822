\* Approvals over two requests, patterns against names, pairs of scopes.
SPECIFICATION Spec
CONSTANTS
    None = None
    Matches <- MCMatches
    Settings <- MCSettings
INVARIANTS
    TypeOK
    NarrowerIsStricter
    ApprovalsMatched
    PackagesAgree
CHECK_DEADLOCK FALSE
