\* Three threads contend for one run, with refused commits and restarts.
SPECIFICATION FairSpec
CONSTANTS
    Threads = {t1, t2, t3}
    Runs = {r1}
    Delegations = {d1, d2}
    AppendKinds <- MCAppendKinds
    Hashes <- MCHashes
    Locks <- MCLocks
    Objs <- MCObjs
    CommitOutcomes <- MCOutcomes
    MaxWriters = 1
    MaxRecords = 3
    None = None
INVARIANTS
    TypeOK
    Chained
    HeadIsStored
    EndIsLast
    FiguresMatch
    OneDelegation
PROPERTIES
    ImplementsRunLog
    AllReturn
