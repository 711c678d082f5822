------------------------------- MODULE RunLog -------------------------------
(***************************************************************************)
(* What a live run promises to whoever reads the database: a log of        *)
(* records that starts with `run_start`, grows at its end by one linked    *)
(* record at a time, and never changes again once `run_end` is stored.     *)
(* LiveRuns implements it with threads, locks, cached writers and crashes. *)
(***************************************************************************)
EXTENDS Integers, Sequences

CONSTANTS Runs,      \* run ids
          ZeroHash   \* prev_hash of a first record

VARIABLES log        \* log[r]: the records of run r in the order of their seq

Tip(s) == IF s = <<>> THEN ZeroHash ELSE s[Len(s)].hash

\* A run is closed by its last record.
Closed(s) == s # <<>> /\ s[Len(s)].kind = "run_end"

Init == log = [r \in Runs |-> <<>>]

\* x may follow the log s: next number, linked to the tip, first iff run_start.
Follows(x, s) ==
    /\ x.seq = Len(s)
    /\ x.prev = Tip(s)
    /\ x.kind = "run_start" <=> s = <<>>

\* The run grows by the record x, whatever its content; the others stay.
Extend(r) ==
    LET x == log'[r][Len(log[r]) + 1]
    IN  /\ ~Closed(log[r])
        /\ Len(log'[r]) = Len(log[r]) + 1
        /\ log' = [log EXCEPT ![r] = Append(@, x)]
        /\ Follows(x, log[r])

Next == \E r \in Runs : Extend(r)

Spec == Init /\ [][Next]_log
=============================================================================
