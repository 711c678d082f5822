----------------------------- MODULE Anchoring ------------------------------
(***************************************************************************)
(* Anchoring of live runs: a loop and any export call anchor_run, which    *)
(* reads the head of a run under the run's asyncio.Lock, asks every        *)
(* configured witness for a receipt over it and appends an anchor record   *)
(* for each answer. Records are appended and runs ended meanwhile. A step  *)
(* of a task is what it does between two awaits.                           *)
(***************************************************************************)
EXTENDS Integers, Sequences, FiniteSets

CONSTANTS
    Runs,        \* live runs
    Exports,     \* export calls, each made once
    Loop,        \* the task of `Anchoring.loop`
    Witnesses,   \* configured witnesses in the order they are asked
    Locks,       \* identities of asyncio.Lock objects, numbers
    MaxPlain,    \* bound of the model: records appended by others, over all runs
    MaxFaults,   \* bound of the model: failures of witnesses and of the store
    None

ASSUME AnchoringAssumption ==
    /\ Locks \subseteq Nat
    /\ Loop \notin Exports
    /\ Witnesses # <<>>   \* anchor_run is called only where anchoring is enabled
    /\ Witnesses \in Seq({Witnesses[w] : w \in DOMAIN Witnesses})
    /\ MaxPlain \in Nat /\ MaxFaults \in Nat
    /\ None \notin Locks
    /\ None \notin Runs

Tasks == Exports \cup {Loop}

Asked == {Witnesses[w] : w \in DOMAIN Witnesses}

VARIABLES
    chain,   \* chain[r]: the stored records of r after its run_start
    busy,    \* busy[r]: lock object `_busy` holds for r, or None
    pc,      \* position of each task
    run,     \* run id it works on, or None
    ending,  \* whether an export was asked to end the run
    lk,      \* its lock object, or None
    head,    \* seq of the head it read, 0 for run_start
    ask,     \* witnesses it has yet to ask, the one it waits for first
    todo,    \* open runs the loop has yet to visit
    plain,   \* records appended by others so far
    faults,  \* failures so far
    missed   \* the pairs <<r, w>> of a run and a witness it did not get a receipt of when asked

task == <<pc, run, ending, lk, head, ask>>
vars == <<chain, busy, pc, run, ending, lk, head, ask, todo, plain, faults, missed>>
-----------------------------------------------------------------------------
\* Helpers

Plain == [kind |-> "plain", by |-> None, over |-> None]
End == [kind |-> "run_end", by |-> None, over |-> None]
AnchorBy(w, n) == [kind |-> "anchor", by |-> w, over |-> n]

Last(r) == chain[r][Len(chain[r])]

\* Kind of the last record, the one `head` reads.
KindOf(r) == IF chain[r] = <<>> THEN "run_start" ELSE Last(r).kind

Open(r) == KindOf(r) # "run_end"

Extend(r, x) == chain' = [chain EXCEPT ![r] = Append(@, x)]

\* In `_anchor_locked`, with the lock object of the task.
Inside(k) == pc[k] \in {"head", "ask", "write"}

Goto(k, to) == pc' = [pc EXCEPT ![k] = to]

Fault == faults < MaxFaults /\ faults' = faults + 1

\* The run of the task goes without receipts of these witnesses.
Misses(k, witnesses) == missed' = missed \cup {<<run[k], w>> : w \in witnesses}

\* Mutant: `_busy` is cleaned up after the `async with`, not in a `finally`.
LeaveNoFinally(k, raised) ==
    /\ busy' = IF ~raised /\ busy[run[k]] = lk[k] THEN [busy EXCEPT ![run[k]] = None] ELSE busy
    /\ lk' = [lk EXCEPT ![k] = None]
    /\ head' = [head EXCEPT ![k] = 0]
    /\ ask' = [ask EXCEPT ![k] = <<>>]
    /\ Goto(k, IF k = Loop THEN "visit"
               ELSE IF ending[k] /\ ~raised THEN "end" ELSE "done")
    /\ run' = IF k = Loop THEN [run EXCEPT ![k] = None] ELSE run

\* anchor_run returns or raises: the lock is released and, since nobody holds it now,
\* its entry in `_busy` deleted. Then the loop goes to its next run, an export on.
Leave(k, raised) ==
    /\ busy' = IF busy[run[k]] = lk[k] THEN [busy EXCEPT ![run[k]] = None] ELSE busy
    /\ lk' = [lk EXCEPT ![k] = None]
    /\ head' = [head EXCEPT ![k] = 0]
    /\ ask' = [ask EXCEPT ![k] = <<>>]
    /\ Goto(k, IF k = Loop THEN "visit"
               ELSE IF ending[k] /\ ~raised THEN "end" ELSE "done")
    /\ run' = IF k = Loop THEN [run EXCEPT ![k] = None] ELSE run

\* Mutant: the first receipt is enough.
NextWitnessNone(k) == Leave(k, FALSE)

\* The witness is dealt with: on to the next one, or out.
NextWitness(k) ==
    IF Len(ask[k]) = 1
    THEN Leave(k, FALSE)
    ELSE /\ ask' = [ask EXCEPT ![k] = Tail(@)]
         /\ Goto(k, "ask")
         /\ UNCHANGED <<busy, lk, head, run>>
-----------------------------------------------------------------------------
\* The loop and the export call anchor_run

\* Mutant: failing to list the open runs ends the loop.
WakeOrDie ==
    /\ pc[Loop] = "sleep"
    /\ \/ todo' = {r \in Runs : Open(r)} /\ Goto(Loop, "visit") /\ UNCHANGED faults
       \/ Fault /\ Goto(Loop, "done") /\ UNCHANGED todo
    /\ UNCHANGED <<chain, busy, run, ending, lk, head, ask, plain, missed>>

\* The loop wakes and lists the open runs, or fails to and sleeps again.
Wake ==
    /\ pc[Loop] = "sleep"
    /\ \/ todo' = {r \in Runs : Open(r)} /\ Goto(Loop, "visit") /\ UNCHANGED faults
       \/ Fault /\ UNCHANGED <<todo, pc>>
    /\ UNCHANGED <<chain, busy, run, ending, lk, head, ask, plain, missed>>

\* The loop is through with the runs it listed.
Sleep ==
    /\ pc[Loop] = "visit" /\ todo = {}
    /\ Goto(Loop, "sleep")
    /\ UNCHANGED <<chain, busy, run, ending, lk, head, ask, todo, plain, faults, missed>>

\* anchor_run up to the lock: the run's lock object is made if it is absent. One in
\* `_busy` that nobody holds is taken at once.
Enter(k, r) ==
    /\ \/ k = Loop /\ pc[k] = "visit" /\ r \in todo /\ todo' = todo \ {r}
       \/ k # Loop /\ pc[k] = "new" /\ UNCHANGED todo
    /\ run' = [run EXCEPT ![k] = r]
    /\ \E l \in Locks :
        /\ IF busy[r] # None THEN l = busy[r]
           ELSE /\ \A j \in Tasks : lk[j] # l
                /\ \A m \in Locks : (\A j \in Tasks : lk[j] # m) => l <= m
        /\ busy' = [busy EXCEPT ![r] = l]
        /\ lk' = [lk EXCEPT ![k] = l]
        /\ Goto(k, IF \E j \in Tasks : Inside(j) /\ lk[j] = l THEN "wait" ELSE "head")
    /\ UNCHANGED <<chain, ending, head, ask, plain, faults, missed>>

\* A waiter gets the lock object it waits for.
Grant(k) ==
    /\ pc[k] = "wait"
    /\ \A j \in Tasks : Inside(j) => lk[j] # lk[k]
    /\ Goto(k, "head")
    /\ UNCHANGED <<chain, busy, run, ending, lk, head, ask, todo, plain, faults, missed>>

\* Mutant: the number of records is taken for the number of the last one.
ReadHeadCount(k) ==
    LET r == run[k]
    IN
    /\ pc[k] = "head"
    /\ IF Open(r) /\ KindOf(r) # "anchor"
       THEN /\ head' = [head EXCEPT ![k] = Len(chain[r]) + 1]
            /\ ask' = [ask EXCEPT ![k] = Witnesses]
            /\ Goto(k, "ask")
            /\ UNCHANGED <<busy, lk, run>>
       ELSE Leave(k, FALSE)
    /\ UNCHANGED <<chain, ending, todo, plain, faults, missed>>

\* `LiveRuns.head`: nothing to do on a closed run or when the last record is an anchor.
ReadHead(k) ==
    LET r == run[k]
    IN
    /\ pc[k] = "head"
    /\ IF Open(r) /\ KindOf(r) # "anchor"
       THEN /\ head' = [head EXCEPT ![k] = Len(chain[r])]
            /\ ask' = [ask EXCEPT ![k] = Witnesses]
            /\ Goto(k, "ask")
            /\ UNCHANGED <<busy, lk, run>>
       ELSE Leave(k, FALSE)
    /\ UNCHANGED <<chain, ending, todo, plain, faults, missed>>

\* The database fails under `head`, which nothing here catches but the loop.
HeadRaises(k) ==
    /\ pc[k] = "head"
    /\ Fault
    /\ Leave(k, TRUE)
    /\ UNCHANGED <<chain, ending, todo, plain, missed>>

\* The witness gives a receipt.
Answer(k) ==
    /\ pc[k] = "ask"
    /\ Goto(k, "write")
    /\ UNCHANGED <<chain, busy, run, ending, lk, head, ask, todo, plain, faults, missed>>

\* Every try at the witness failed: logged.
NoAnswer(k) ==
    /\ pc[k] = "ask"
    /\ Fault
    /\ Misses(k, {Head(ask[k])})
    /\ NextWitness(k)
    /\ UNCHANGED <<chain, ending, todo, plain>>

\* `_write`: the anchor record over the head that was read is appended, or the run is
\* closed by now, or the store refuses it, or its answer is lost; the latter three are logged. Where
\* the writer has to be read back first, a failing database is not a LiveRunError and raises.
Write(k) ==
    LET stored == Open(run[k]) /\ Extend(run[k], AnchorBy(Head(ask[k]), head[k]))
    IN
    /\ pc[k] = "write"
    /\ \/ stored /\ NextWitness(k) /\ UNCHANGED <<faults, missed>>
       \/ ~Open(run[k]) /\ NextWitness(k) /\ UNCHANGED <<chain, faults, missed>>
       \/ /\ Fault /\ (stored \/ UNCHANGED chain)
          /\ Misses(k, {Head(ask[k])}) /\ NextWitness(k)
       \/ Fault /\ Misses(k, {ask[k][i] : i \in DOMAIN ask[k]}) /\ Leave(k, TRUE) /\ UNCHANGED chain
    /\ UNCHANGED <<ending, todo, plain>>

\* export_run with end=true: `LiveRuns.end`, or an error status where the run is closed, the store
\* refuses the run_end or its answer is lost.
ExportEnd(k) ==
    LET stored == Open(run[k]) /\ Extend(run[k], End)
    IN
    /\ pc[k] = "end"
    /\ \/ stored /\ UNCHANGED faults
       \/ ~Open(run[k]) /\ UNCHANGED <<chain, faults>>
       \/ Fault /\ (stored \/ UNCHANGED chain)
    /\ Goto(k, "done")
    /\ UNCHANGED <<busy, run, ending, lk, head, ask, todo, plain, missed>>
-----------------------------------------------------------------------------
\* Everybody else

\* Another record is appended, perhaps between a head and its anchor.
Record(r) ==
    /\ Open(r) /\ plain < MaxPlain /\ plain' = plain + 1
    /\ Extend(r, Plain)
    /\ UNCHANGED <<busy, task, todo, faults, missed>>
-----------------------------------------------------------------------------

Init ==
    /\ chain = [r \in Runs |-> <<>>]
    /\ busy = [r \in Runs |-> None]
    /\ pc = [k \in Tasks |-> IF k = Loop THEN "sleep" ELSE "new"]
    /\ run = [k \in Tasks |-> None]
    /\ ending \in {[k \in Tasks |-> k \in E] : E \in SUBSET Exports}
    /\ lk = [k \in Tasks |-> None]
    /\ head = [k \in Tasks |-> 0]
    /\ ask = [k \in Tasks |-> <<>>]
    /\ todo = {}
    /\ plain = 0
    /\ faults = 0
    /\ missed = {}

Anchor(k) ==
    \/ Grant(k) \/ ReadHead(k) \/ HeadRaises(k) \/ Answer(k) \/ NoAnswer(k) \/ Write(k)
    \/ ExportEnd(k)

LoopStep == Wake \/ Sleep \/ (\E r \in Runs : Enter(Loop, r)) \/ Anchor(Loop)

Next ==
    \/ LoopStep
    \/ \E k \in Exports : Anchor(k) \/ \E r \in Runs : Enter(k, r)
    \/ \E r \in Runs : Record(r)

Spec == Init /\ [][Next]_vars /\ WF_vars(LoopStep) /\ \A k \in Exports : WF_vars(Anchor(k))
-----------------------------------------------------------------------------
\* Properties

Records == {Plain, End} \cup [kind : {"anchor"}, by : Asked, over : Nat]

\* Every variable keeps its type, and an anchor covers a record before it.
TypeOK ==
    /\ chain \in [Runs -> Seq(Records)]
    /\ \A r \in Runs : \A i \in 1..Len(chain[r]) :
        chain[r][i].kind = "anchor" => chain[r][i].over < i
    /\ busy \in [Runs -> Locks \cup {None}]
    /\ pc \in [Tasks -> {"new", "sleep", "visit", "wait", "head", "ask", "write", "end", "done"}]
    /\ run \in [Tasks -> Runs \cup {None}]
    /\ ending \in [Tasks -> BOOLEAN]
    /\ lk \in [Tasks -> Locks \cup {None}]
    /\ head \in [Tasks -> Nat]
    /\ ask \in [Tasks -> Seq(Asked)]
    /\ todo \subseteq Runs
    /\ plain \in 0..MaxPlain /\ faults \in 0..MaxFaults
    /\ missed \subseteq Runs \X Asked

\* A record of r holds a receipt of the witness w over the record n or a later one.
Receipt(r, w, n) ==
    \E j \in 1..Len(chain[r]) :
        chain[r][j].kind = "anchor" /\ chain[r][j].by = w /\ chain[r][j].over >= n

\* The run looks anchored: anchor_run would leave it as it is.
Settled(r) == KindOf(r) = "anchor" /\ \A k \in Tasks : run[k] = r => ~Inside(k)

\* Once anchor_run would leave a run as it is, every record its last anchor covers is covered by a
\* receipt of every witness, except one that failed for this run: whatever records came in and
\* whatever failed, also when two tasks anchored the run at once, at two heads and in any order,
\* because the lock object one of them waited for was deleted (anchoring.py:121).
SettledIsCovered ==
    \A r \in Runs : Settled(r) =>
        \A w \in Asked : <<r, w>> \in missed \/ Receipt(r, w, Last(r).over)

\* A record that comes in while a head is being anchored is anchored too: the loop
\* "anchors each open run whose head moved since its last anchor" (anchoring.py:3).
MovedHeadIsCovered ==
    faults = 0 =>
        \A r \in Runs : Settled(r) =>
            \A i \in 1..Len(chain[r]) :
                chain[r][i].kind = "plain" => \A w \in Asked : Receipt(r, w, i)

\* `_busy` keeps no lock object that nobody holds: what was made for a run is forgotten
\* with the last task in it, also after a failure (anchoring.py:119-121).
LocksForgotten ==
    \A r \in Runs : busy[r] # None => \E k \in Tasks : Inside(k) /\ lk[k] = busy[r] /\ run[k] = r

\* A failing witness, a failing database and exports in the way only delay the loop: every
\* open run that has moved gets its anchor, or ends.
AnchoredInTheEnd ==
    \A r \in Runs : (Open(r) /\ KindOf(r) # "anchor") ~> (KindOf(r) \in {"anchor", "run_end"})
=============================================================================
