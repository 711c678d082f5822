\* A commit whose answer is lost.
SPECIFICATION Spec
CONSTANTS
    Threads = {t1, t2}
    Runs = {r1}
    Delegations = {d1}
    AppendKinds <- MCPlain
    Hashes <- MCHashes
    Locks <- MCLocks
    Objs <- MCObjs
    CommitOutcomes <- MCAmbiguous
    MaxWriters = 1
    MaxRecords = 3
    None = None
SYMMETRY MCThreadSymmetry
INVARIANTS
    HeadIsStored
