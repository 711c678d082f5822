\* The cache as it is forgets a run that a thread is in.
SPECIFICATION Spec
CONSTANTS
    Threads = {t1, t2}
    Runs = {r1, r2}
    Delegations = {d1}
    AppendKinds <- MCPlain
    Hashes <- MCHashes
    Locks <- MCLocks
    Objs <- MCObjs
    CommitOutcomes <- MCOutcomes
    MaxWriters = 1
    MaxRecords = 2
    None = None
SYMMETRY MCRunSymmetry
INVARIANTS
    Chained
