\* Ten archives of others, exports of two runs of the recorder's own that share their bodies.
SPECIFICATION Spec
CONSTANTS
    None = None
    Matches = {}
    MaxEntries = 8
    Archives <- MCArchives
    Trusted <- MCTrusted
    Own <- MCOwn
    OwnRuns <- MCOwnRuns
INVARIANTS
    StoredIsWhole
PROPERTIES
    NothingReplaced
