\* Posted steps that name a policy set or carry a context.
SPECIFICATION Spec
CONSTANTS
    None = None
    Matches = {}
    Runs = {r1}
    Steps <- MCPosts
    Settings <- MCNoScope
    Policies = "p1"
    Spoiled = "spoiled"
    MaxEntries = 6
    Keys <- MCKeys
    Lifetime = 1
    MaxTime = 0
    MaxLen = 3
    MaxIssued = 1
    MaxDamage = 0
INVARIANTS
    AcceptedVerifies
CHECK_DEADLOCK FALSE
