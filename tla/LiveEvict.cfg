\* Two runs share a cache of one writer, which forgets only runs no thread is in.
SPECIFICATION CarefulSpec
CONSTANTS
    Threads = {t1, t2}
    Runs = {r1, r2}
    Delegations = {d1}
    AppendKinds <- MCPlain
    Hashes <- MCHashes
    Locks <- MCLocks
    Objs <- MCObjs
    CommitOutcomes <- MCOutcomes
    MaxWriters = 1
    MaxRecords = 2
    None = None
SYMMETRY MCRunSymmetry
INVARIANTS
    LockShared
    SingleWriter
