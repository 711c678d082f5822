------------------------------ MODULE LiveRuns ------------------------------
(***************************************************************************)
(* Live runs of the recorder: request threads append signed records to     *)
(* runs. Each run has a lock and a cached RunWriter, both dropped when the *)
(* run ends or when the cache is full; the database holds what survives a  *)
(* crash. One action is one stretch of code between two points at which    *)
(* another thread can be seen: taking a lock, the registry, a transaction. *)
(***************************************************************************)
EXTENDS Integers, FiniteSets

CONSTANTS
    Threads,         \* request threads
    Runs,            \* run ids, those no run ever gets included
    AppendKinds,     \* classes of appended records, out of Figured \cup {"plain"}
    Delegations,     \* delegations the process may be (re)started under
    Hashes,          \* record hashes, positive numbers
    Locks,           \* identities of lock objects
    Objs,            \* identities of RunWriter objects
    CommitOutcomes,  \* how a transaction may end for its caller
    MaxWriters,      \* MAX_WRITERS
    MaxRecords,      \* bound of the model: records of a run before its run_end
    None

ZeroHash == 0

\* Records the run's figures count: anchors, labels that left, labels reported.
Figured == {"anchor", "sent", "reported"}

Kinds == AppendKinds \cup {"run_start", "run_end"}

Record == [seq : Nat, hash : Hashes, prev : Hashes \cup {ZeroHash},
           kind : Kinds, under : Delegations]

Ops == AppendKinds \cup {"start", "head", "end"}

ASSUME ConstAssumption ==
    /\ IsFiniteSet(Runs)
    /\ Hashes \subseteq Nat \ {0}
    /\ Locks \subseteq Nat /\ Objs \subseteq Nat
    /\ AppendKinds \subseteq Figured \cup {"plain"}
    /\ MaxWriters \in Nat \ {0}
    /\ MaxRecords \in Nat \ {0}
    /\ CommitOutcomes \subseteq {"stored", "refused", "lost_answer"}
    /\ None \notin Threads \cup Runs
    /\ None \notin Locks \cup Objs
    /\ None \notin Ops
    /\ None \notin Record

VARIABLES
    rows,        \* rows[r]: RecordRow set of run r
    runrow,      \* runrow[r]: RunRow figures of run r
    delegation,  \* the identity this process signs under
    writers,     \* writers[r]: cached RunWriter object, or None
    before,      \* insertion order of the cache, as pairs of run ids
    heap,        \* heap[o]: state of RunWriter object o
    locks,       \* locks[r]: lock object of run r, or None
    pc, op, run, \* each thread's position, operation and run id
    lk, obj, rec \* its lock object, writer object and sealed record

db     == <<rows, runrow>>
cache  == <<writers, before, heap, locks>>
frame  == <<op, run>>
vars   == <<rows, runrow, delegation, writers, before, heap, locks,
            pc, op, run, lk, obj, rec>>

-----------------------------------------------------------------------------
\* Helpers

NoRow == [live |-> FALSE, complete |-> FALSE, count |-> 0, last |-> ZeroHash,
          figures |-> [f \in Figured |-> 0]]

RunRow == [live : BOOLEAN, complete : BOOLEAN, count : Nat,
           last : Hashes \cup {ZeroHash}, figures : [Figured -> Nat]]

Writer == [seq : Nat, head : Hashes \cup {ZeroHash}, closed : BOOLEAN]

NewWriter == [seq |-> 0, head |-> ZeroHash, closed |-> FALSE]

\* Threads that hold their lock object.
Inside == {"lookup", "resume", "ready", "sealed", "stored"}

\* ORDER BY seq DESC LIMIT 1: any of the rows with the highest number.
LastRows(r) == {x \in rows[r] : \A y \in rows[r] : y.seq <= x.seq}

Least(x, S) == x \in S /\ \A y \in S : x <= y

UsedHashes == {x.hash : x \in UNION {rows[r] : r \in Runs}}
              \cup {heap[o].head : o \in Objs}
              \cup {rec[t].hash : t \in {u \in Threads : rec[u] # None}}

\* Fresh identities. Which one is taken makes no difference, so it is the least
\* that nothing refers to: a hash (every record has a new uuid), an object, a lock.
FreshHash(h) == Least(h, Hashes \ UsedHashes)

FreshObj(o) == Least(o, Objs \ ({writers[r] : r \in Runs} \cup {obj[t] : t \in Threads}))

FreshLock(l) == Least(l, Locks \ ({locks[r] : r \in Runs} \cup {lk[t] : t \in Threads}))

\* A run id uuid4 can return: no row, no lock and no thread knows it.
FreshRun(r) == ~runrow[r].live /\ locks[r] = None /\ \A t \in Threads : run[t] # r

\* The call ends, with an answer or an exception, and leaves `with self._lock`.
Return(t) ==
    /\ pc'  = [pc  EXCEPT ![t] = "idle"]
    /\ op'  = [op  EXCEPT ![t] = None]
    /\ run' = [run EXCEPT ![t] = None]
    /\ lk'  = [lk  EXCEPT ![t] = None]
    /\ obj' = [obj EXCEPT ![t] = None]
    /\ rec' = [rec EXCEPT ![t] = None]

Goto(t, to) == pc' = [pc EXCEPT ![t] = to]

-----------------------------------------------------------------------------
\* Entry: `with self._lock(run_id)`

\* LiveRuns.append, head, end on a run id a client named, or start on a new one;
\* `_lock` returns the run's lock object, which the defaultdict makes if it is absent.
Call(t, o, r) ==
    /\ pc[t] = "idle"
    /\ o = "start" => FreshRun(r)
    /\ o # "start" => \A u \in Threads : ~(op[u] = "start" /\ run[u] = r)
    /\ \E l \in Locks :
        /\ IF locks[r] = None THEN FreshLock(l) ELSE l = locks[r]
        /\ locks' = [locks EXCEPT ![r] = l]
        /\ lk' = [lk EXCEPT ![t] = l]
    /\ op'  = [op  EXCEPT ![t] = o]
    /\ run' = [run EXCEPT ![t] = r]
    /\ Goto(t, "wait")
    /\ UNCHANGED <<db, delegation, writers, before, heap, obj, rec>>

\* Mutant: a lock object counts the threads that wait for it as its owners.
AcquireBehindWaiters(t) ==
    /\ pc[t] = "wait"
    /\ \A u \in Threads \ {t} : pc[u] # "idle" => lk[u] # lk[t]
    /\ Goto(t, "lookup")
    /\ UNCHANGED <<db, delegation, cache, frame, lk, obj, rec>>

\* The thread is let in when nobody holds its lock object.
Acquire(t) ==
    /\ pc[t] = "wait"
    /\ \A u \in Threads : pc[u] \in Inside => lk[u] # lk[t]
    /\ Goto(t, "lookup")
    /\ UNCHANGED <<db, delegation, cache, frame, lk, obj, rec>>

-----------------------------------------------------------------------------
\* The writer of the run: `_writer`, or a new one in `start`

\* The cached writer is returned as it is.
Hit(t) ==
    /\ pc[t] = "lookup" /\ op[t] # "start"
    /\ writers[run[t]] # None
    /\ obj' = [obj EXCEPT ![t] = writers[run[t]]]
    /\ Goto(t, "ready")
    /\ UNCHANGED <<db, delegation, cache, frame, lk, rec>>

\* Mutant: closed runs are resumed too.
ResumableClosed(r) ==
    runrow[r].live /\ \A x \in rows[r] : x.seq = 0 => x.under = delegation

\* Mutant: the delegation of `run_start` is not compared.
ResumableByAnyone(r) == runrow[r].live /\ ~runrow[r].complete

\* The stored run can be resumed under this process's delegation.
Resumable(r) ==
    /\ runrow[r].live
    /\ ~runrow[r].complete
    /\ \A x \in rows[r] : x.seq = 0 => x.under = delegation

\* Not found or not live, closed, or started under a different delegation.
NotResumable(t) ==
    /\ pc[t] = "lookup" /\ op[t] # "start"
    /\ writers[run[t]] = None
    /\ ~Resumable(run[t])
    /\ Return(t)
    /\ UNCHANGED <<db, delegation, cache>>

\* Mutant: the resumed writer repeats the number of the last record.
ResumeAtLast(t) ==
    /\ pc[t] = "lookup" /\ op[t] # "start"
    /\ writers[run[t]] = None
    /\ Resumable(run[t])
    /\ \E o \in Objs, last \in LastRows(run[t]) :
        /\ FreshObj(o)
        /\ heap' = [heap EXCEPT ![o] =
                [seq |-> last.seq, head |-> last.hash, closed |-> FALSE]]
        /\ obj' = [obj EXCEPT ![t] = o]
    /\ Goto(t, "resume")
    /\ UNCHANGED <<db, delegation, writers, before, locks, frame, lk, rec>>

\* RunWriter.resume from the last stored record; `_remember` has yet to run.
Resume(t) ==
    /\ pc[t] = "lookup" /\ op[t] # "start"
    /\ writers[run[t]] = None
    /\ Resumable(run[t])
    /\ \E o \in Objs, last \in LastRows(run[t]) :
        /\ FreshObj(o)
        /\ heap' = [heap EXCEPT ![o] =
                [seq |-> last.seq + 1, head |-> last.hash, closed |-> FALSE]]
        /\ obj' = [obj EXCEPT ![t] = o]
    /\ Goto(t, "resume")
    /\ UNCHANGED <<db, delegation, writers, before, locks, frame, lk, rec>>

\* RunWriter() and its `start` seal `run_start` before the transaction.
SealStart(t) ==
    /\ pc[t] = "lookup" /\ op[t] = "start"
    /\ \E o \in Objs, h \in Hashes :
        /\ FreshObj(o) /\ FreshHash(h)
        /\ obj' = [obj EXCEPT ![t] = o]
        /\ heap' = [heap EXCEPT ![o] = [seq |-> 1, head |-> h, closed |-> FALSE]]
        /\ rec' = [rec EXCEPT ![t] = [seq |-> 0, hash |-> h, prev |-> ZeroHash,
                                      kind |-> "run_start", under |-> delegation]]
    /\ Goto(t, "sealed")
    /\ UNCHANGED <<db, delegation, writers, before, locks, frame, lk>>

\* The run the cache forgets when r is put at its end: the first of the order.
Evicted(r) ==
    LET kept == {q \in Runs : writers[q] # None} \cup {r}
    IN  IF Cardinality(kept) > MaxWriters
        THEN {q \in kept \ {r} : \A p \in kept \ {r} : <<p, q>> \notin before}
        ELSE {}

\* `_remember`: under the registry lock, insert at the end, then pop the oldest
\* writer past the limit and that run's lock object.
Remember(t) ==
    LET r == run[t]
        out == Evicted(r)
    IN
    /\ pc[t] = "resume" \/ (pc[t] = "stored" /\ op[t] = "start")
    /\ writers' = [q \in Runs |-> IF q = r THEN obj[t]
                                  ELSE IF q \in out THEN None ELSE writers[q]]
    /\ before' = {p \in before : r \notin {p[1], p[2]} /\ {p[1], p[2]} \cap out = {}}
                 \cup {<<q, r>> : q \in {p \in Runs \ ({r} \cup out) : writers[p] # None}}
    /\ locks' = [q \in Runs |-> IF q \in out THEN None ELSE locks[q]]
    /\ IF op[t] = "start"
       THEN Return(t)
       ELSE Goto(t, "ready") /\ UNCHANGED <<frame, lk, obj, rec>>
    /\ UNCHANGED <<db, delegation, heap>>

-----------------------------------------------------------------------------
\* The record: preview, seal, transaction, revert

\* `head` answers with the last row when the writer agrees with it, else raises.
ReadHead(t) ==
    /\ pc[t] = "ready" /\ op[t] = "head"
    /\ Return(t)
    /\ UNCHANGED <<db, delegation, cache>>

\* `_check_target`, the schema check or a closed writer refuse the record.
Refuse(t) ==
    /\ pc[t] = "ready" /\ (op[t] \in AppendKinds \/ heap[obj[t]].closed)
    /\ Return(t)
    /\ UNCHANGED <<db, delegation, cache>>

\* `writer.preview` and `writer.seal`, or `writer.end`: the writer moves to the record.
Seal(t) ==
    LET w == heap[obj[t]]
    IN
    /\ pc[t] = "ready" /\ op[t] \in AppendKinds \cup {"end"}
    /\ ~w.closed
    /\ op[t] # "end" => w.seq < MaxRecords
    /\ \E h \in Hashes :
        /\ FreshHash(h)
        /\ rec' = [rec EXCEPT ![t] =
                [seq |-> w.seq, hash |-> h, prev |-> w.head, under |-> delegation,
                 kind |-> IF op[t] = "end" THEN "run_end" ELSE op[t]]]
        /\ heap' = [heap EXCEPT ![obj[t]] =
                [seq |-> w.seq + 1, head |-> h, closed |-> op[t] = "end"]]
    /\ Goto(t, "sealed")
    /\ UNCHANGED <<db, delegation, writers, before, locks, frame, lk, obj>>

\* Mutant: only an append counts its record.
StoreUncounted(r, x) ==
    /\ rows' = [rows EXCEPT ![r] = @ \cup {x}]
    /\ runrow' = [runrow EXCEPT ![r] =
            [live     |-> TRUE,
             complete |-> @.complete \/ x.kind = "run_end",
             count    |-> @.count + (IF x.kind = "run_end" THEN 0 ELSE 1),
             last     |-> x.hash,
             figures  |-> [f \in Figured |-> @.figures[f] + (IF x.kind = f THEN 1 ELSE 0)]]]

\* Mutant: `end` does not mark the run complete.
StoreStillOpen(r, x) ==
    /\ rows' = [rows EXCEPT ![r] = @ \cup {x}]
    /\ runrow' = [runrow EXCEPT ![r] =
            [live     |-> TRUE,
             complete |-> FALSE,
             count    |-> @.count + 1,
             last     |-> x.hash,
             figures  |-> [f \in Figured |-> @.figures[f] + (IF x.kind = f THEN 1 ELSE 0)]]]

\* The transaction: the record and the figures of its run, all or nothing.
Store(r, x) ==
    /\ rows' = [rows EXCEPT ![r] = @ \cup {x}]
    /\ runrow' = [runrow EXCEPT ![r] =
            [live     |-> TRUE,
             complete |-> @.complete \/ x.kind = "run_end",
             count    |-> @.count + 1,
             last     |-> x.hash,
             figures  |-> [f \in Figured |-> @.figures[f] + (IF x.kind = f THEN 1 ELSE 0)]]]

\* Mutant: the writer is not taken back.
RevertNothing(o, x) == heap' = heap

\* Mutant: the writer goes back one record too far.
RevertTwice(o, x) ==
    heap' = IF heap[o].head = x.hash
            THEN [heap EXCEPT ![o] = [seq |-> x.seq - 1, head |-> x.prev, closed |-> FALSE]]
            ELSE heap

\* `RunWriter.revert`: back to the record's prev_hash, if it is still the head.
Revert(o, x) ==
    heap' = IF heap[o].head = x.hash
            THEN [heap EXCEPT ![o] = [seq |-> x.seq, head |-> x.prev, closed |-> FALSE]]
            ELSE heap

\* The commit returns. An append is done; start and end have their last step.
Stored(t) ==
    /\ pc[t] = "sealed" /\ "stored" \in CommitOutcomes
    /\ Store(run[t], rec[t])
    /\ IF op[t] \in {"start", "end"}
       THEN Goto(t, "stored") /\ UNCHANGED <<frame, lk, obj, rec>>
       ELSE Return(t)
    /\ UNCHANGED <<delegation, cache>>

\* Mutant: `end` drops writer and lock in a `finally`, also when nothing was stored.
NotStoredDrops(t, outcome) ==
    /\ pc[t] = "sealed" /\ outcome \in CommitOutcomes \ {"stored"}
    /\ IF outcome = "refused" THEN UNCHANGED db ELSE Store(run[t], rec[t])
    /\ IF op[t] = "start" THEN UNCHANGED heap ELSE Revert(obj[t], rec[t])
    /\ LET out == IF op[t] = "end" THEN {run[t]} ELSE {}
       IN  /\ writers' = [r \in Runs |-> IF r \in out THEN None ELSE writers[r]]
           /\ locks' = [r \in Runs |-> IF r \in out THEN None ELSE locks[r]]
           /\ before' = {p \in before : {p[1], p[2]} \cap out = {}}
    /\ Return(t)
    /\ UNCHANGED delegation

\* The commit raises. "refused": nothing was stored. "lost_answer": the database
\* committed and its answer was lost. Either way the caller sees an exception and
\* append and end revert the writer; start leaves it to the garbage collector.
NotStored(t, outcome) ==
    /\ pc[t] = "sealed" /\ outcome \in CommitOutcomes \ {"stored"}
    /\ IF outcome = "refused" THEN UNCHANGED db ELSE Store(run[t], rec[t])
    /\ IF op[t] = "start" THEN UNCHANGED heap ELSE Revert(obj[t], rec[t])
    /\ Return(t)
    /\ UNCHANGED <<delegation, writers, before, locks>>

\* `end` drops the writer and the lock object of the run.
Drop(t) ==
    /\ pc[t] = "stored" /\ op[t] = "end"
    /\ writers' = [writers EXCEPT ![run[t]] = None]
    /\ locks' = [locks EXCEPT ![run[t]] = None]
    /\ before' = {p \in before : run[t] \notin {p[1], p[2]}}
    /\ Return(t)
    /\ UNCHANGED <<db, delegation, heap>>

\* The process dies and is started again, perhaps with another identity:
\* everything but the database is new.
Restart(d) ==
    /\ delegation' = d
    /\ writers' = [r \in Runs |-> None]
    /\ before' = {}
    /\ heap' = [o \in Objs |-> NewWriter]
    /\ locks' = [r \in Runs |-> None]
    /\ pc'  = [t \in Threads |-> "idle"]
    /\ op'  = [t \in Threads |-> None]
    /\ run' = [t \in Threads |-> None]
    /\ lk'  = [t \in Threads |-> None]
    /\ obj' = [t \in Threads |-> None]
    /\ rec' = [t \in Threads |-> None]
    /\ UNCHANGED db

-----------------------------------------------------------------------------

\* An empty database and no call yet.
Init ==
    /\ rows = [r \in Runs |-> {}]
    /\ runrow = [r \in Runs |-> NoRow]
    /\ delegation \in Delegations
    /\ writers = [r \in Runs |-> None]
    /\ before = {}
    /\ heap = [o \in Objs |-> NewWriter]
    /\ locks = [r \in Runs |-> None]
    /\ pc  = [t \in Threads |-> "idle"]
    /\ op  = [t \in Threads |-> None]
    /\ run = [t \in Threads |-> None]
    /\ lk  = [t \in Threads |-> None]
    /\ obj = [t \in Threads |-> None]
    /\ rec = [t \in Threads |-> None]

Step(t) ==
    \/ Acquire(t) \/ Hit(t) \/ NotResumable(t) \/ Resume(t) \/ SealStart(t)
    \/ Remember(t) \/ ReadHead(t) \/ Refuse(t) \/ Seal(t) \/ Stored(t)
    \/ \E outcome \in CommitOutcomes : NotStored(t, outcome)
    \/ Drop(t)

Next ==
    \/ \E t \in Threads, o \in Ops, r \in Runs : Call(t, o, r)
    \/ \E t \in Threads : Step(t)
    \/ \E d \in Delegations : Restart(d)

Spec == Init /\ [][Next]_vars

\* What the class comment promises and the code does not check: `_remember`
\* forgets only runs that no thread is in.
EvictsIdle ==
    \A t \in Threads : Remember(t) =>
        \A q \in Evicted(run[t]), u \in Threads : run[u] # q

CarefulSpec == Init /\ [][Next /\ EvictsIdle]_vars

\* Threads run: one that can take a step of its call takes it. A lock need not be
\* fair, hence one condition for all threads.
FairSpec == Spec /\ WF_vars(\E t \in Threads : Step(t))
-----------------------------------------------------------------------------
\* Properties

\* Every variable keeps its type; a sealed record has a number a run can have, so no
\* sequence of failed commits takes a writer below the start of its chain.
TypeOK ==
    /\ rows \in [Runs -> SUBSET Record]
    /\ runrow \in [Runs -> RunRow]
    /\ delegation \in Delegations
    /\ writers \in [Runs -> Objs \cup {None}]
    /\ before \subseteq Runs \X Runs
    /\ heap \in [Objs -> Writer]
    /\ locks \in [Runs -> Locks \cup {None}]
    /\ pc \in [Threads -> Inside \cup {"idle", "wait"}]
    /\ op \in [Threads -> Ops \cup {None}]
    /\ run \in [Threads -> Runs \cup {None}]
    /\ lk \in [Threads -> Locks \cup {None}]
    /\ obj \in [Threads -> Objs \cup {None}]
    /\ rec \in [Threads -> Record \cup {None}]

\* The stored records of a run are one chain from run_start: one record per number,
\* each after the first with the hash of its predecessor, whatever threads append,
\* commits fail and restarts come between (live.py:31 and the verifier of the SDK).
Chained ==
    \A r \in Runs :
        /\ \A x, y \in rows[r] : x.seq = y.seq => x = y
        /\ \A x \in rows[r] :
            \/ x.seq = 0 /\ x.prev = ZeroHash /\ x.kind = "run_start"
            \/ /\ x.kind # "run_start"
               /\ \E y \in rows[r] : x.seq = y.seq + 1 /\ x.prev = y.hash

\* Threads working on a writer.
Working(t) == pc[t] \in {"resume", "ready", "sealed", "stored"}

\* Two threads never work on writers of the same run at once, although `end` drops the lock
\* object that others wait for, and the cache that of a run no thread is in, which the next
\* caller then makes anew. Of the cache as it is, which also drops the lock of a run that is
\* being worked on (live.py:102), it does not hold: LiveEviction.cfg shows what comes of it.
SingleWriter ==
    \A t, u \in Threads : Working(t) /\ Working(u) /\ run[t] = run[u] => t = u

\* A writer about to take a record stands exactly at the last stored one: a failed
\* commit left no ghost in memory and no stored record was missed (live.py:188).
HeadIsStored ==
    \A t \in Threads : pc[t] \in {"resume", "ready"} =>
        \E x \in LastRows(run[t]) :
            heap[obj[t]] = [seq |-> x.seq + 1, head |-> x.hash, closed |-> FALSE]

\* A late append or a second `end` never stores anything after run_end, also when it
\* waited for the lock object that the first `end` dropped.
EndIsLast ==
    \A r \in Runs : \A x \in rows[r] :
        x.kind = "run_end" => x \in LastRows(r) /\ runrow[r].complete

\* The figures of the run row agree with the stored records: number of records, last
\* hash, closed or not, anchors and label counts, since they share one transaction.
FiguresMatch ==
    \A r \in Runs :
        /\ runrow[r].live <=> rows[r] # {}
        /\ runrow[r].count = Cardinality(rows[r])
        /\ \A x \in LastRows(r) : runrow[r].last = x.hash
        /\ runrow[r].complete <=> \E x \in rows[r] : x.kind = "run_end"
        /\ \A f \in Figured :
            runrow[r].figures[f] = Cardinality({x \in rows[r] : x.kind = f})

\* All records of a run are signed under the delegation its run_start carries, also
\* when the process comes back with another identity (live.py:270).
OneDelegation ==
    \A r \in Runs : \A x, y \in rows[r] : x.under = y.under

\* Callers of a run that is still open wait for the lock object a new caller would get,
\* so no two of them can be let in at once.
LockShared ==
    \A t \in Threads :
        pc[t] # "idle" /\ ~runrow[run[t]].complete => lk[t] = locks[run[t]]

\* Locks are always released: once clients stop calling and the process stays up, every
\* call returns, also one that waits for a lock object that was dropped meanwhile.
AllReturn ==
    (<>[][~(\E t \in Threads, o \in Ops, r \in Runs : Call(t, o, r))
           /\ ~(\E d \in Delegations : Restart(d))]_vars)
        => <>[](\A t \in Threads : pc[t] = "idle")

\* The stored records of r in the order of their numbers.
LogOf(r) ==
    [i \in 1..runrow[r].count |-> CHOOSE x \in rows[r] : x.seq = i - 1]

Log == INSTANCE RunLog WITH log <- [r \in Runs |-> LogOf(r)]

\* Live runs implement the append-only log of RunLog: a step of any thread, a crash or
\* a restart extends one run by one linked record, or changes nothing stored.
ImplementsRunLog == Log!Spec
=============================================================================
