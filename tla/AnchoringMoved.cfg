\* A record comes in while a head is being time-stamped.
SPECIFICATION Spec
CONSTANTS
    Runs = {r1}
    Exports = {e1}
    Loop = Loop
    Witnesses <- MCOne
    Locks <- MCLocks
    MaxPlain = 2
    MaxFaults = 0
    None = None
INVARIANTS
    MovedHeadIsCovered
