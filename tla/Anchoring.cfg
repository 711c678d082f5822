\* The loop, an export and other records on two runs, both witnesses.
SPECIFICATION Spec
CONSTANTS
    Runs = {r1, r2}
    Exports = {e1}
    Loop = Loop
    Witnesses <- MCBoth
    Locks <- MCLocks
    MaxPlain = 2
    MaxFaults = 1
    None = None
INVARIANTS
    TypeOK
    SettledIsCovered
    LocksForgotten
PROPERTIES
    AnchoredInTheEnd
