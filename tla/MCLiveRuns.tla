----------------------------- MODULE MCLiveRuns -----------------------------
(* Small instances of LiveRuns for TLC. *)
EXTENDS LiveRuns, TLC

\* Enough identities for every object that two runs and three threads refer to.
MCHashes == 1..9
MCLocks == 1..4
MCObjs == 1..4

MCAppendKinds == {"anchor", "plain"}
MCPlain == {"plain"}
MCOutcomes == {"stored", "refused"}
MCAmbiguous == MCOutcomes \cup {"lost_answer"}

MCThreadSymmetry == Permutations(Threads)
MCRunSymmetry == Permutations(Threads) \cup Permutations(Runs)
=============================================================================
