\* Restarts under two scopes, reissued delegations, the clock and one damage.
SPECIFICATION Spec
CONSTANTS
    None = None
    Runs = {r1}
    Matches = {}
    Steps <- MCSteps
    Settings <- MCSettings
    Policies = "p1"
    Spoiled = "spoiled"
    MaxEntries = 5
    Keys <- MCKeys
    Lifetime = 1
    MaxTime = 2
    MaxLen = 3
    MaxIssued = 2
    MaxDamage = 1
INVARIANTS
    TypeOK
    KeysKept
    GenuineVerifies
    VerifiedIsSealed
CHECK_DEADLOCK FALSE
