--------------------------- MODULE LiveRunsProofs ---------------------------
(***************************************************************************)
(* Safety of live runs for every number of threads, runs and records, as   *)
(* long as no writer is forgotten while its run is in use (NoEviction) and *)
(* a failed commit means that nothing was stored (AnswersArrive). Both are *)
(* needed: the eviction run of LiveRuns refutes Chained without the first. *)
(***************************************************************************)
EXTENDS LiveRuns, FiniteSetTheorems, SequenceTheorems, TLAPS

\* Every run the process serves fits in the cache.
NoEviction == MaxWriters >= Cardinality(Runs)

\* A commit that raises has rolled back.
AnswersArrive == CommitOutcomes \subseteq {"stored", "refused"}

-----------------------------------------------------------------------------
\* The inductive invariant

\* What the position of a thread says of its own variables.
ThreadOK(t) ==
    /\ pc[t] = "idle" <=> run[t] = None
    /\ pc[t] = "idle" <=> op[t] = None
    /\ pc[t] # "idle" => lk[t] # None
    /\ Working(t) <=> obj[t] # None
    /\ pc[t] \in {"resume", "ready"} => op[t] # "start"
    /\ pc[t] = "sealed" => op[t] # "head" /\ rec[t] # None
    /\ pc[t] = "stored" => op[t] \in {"start", "end"}

\* A thread that waits on a lock object that `end` has dropped finds a closed run.
Stale(t) ==
    /\ pc[t] \in {"wait", "lookup"}
    /\ runrow[run[t]].complete
    /\ writers[run[t]] = None

\* A lock object has one owner, and all who may still work on a run share one.
Locking ==
    /\ \A t, u \in Threads : pc[t] \in Inside /\ pc[u] \in Inside /\ lk[t] = lk[u] => t = u
    /\ \A t \in Threads : pc[t] # "idle" => lk[t] = locks[run[t]] \/ Stale(t)

\* Nobody else knows a run id before `start` returns it.
StartAlone ==
    \A t, u \in Threads : op[t] = "start" /\ run[u] = run[t] => u = t

\* No RunWriter object serves two runs.
ObjectsApart ==
    /\ \A r, q \in Runs : writers[r] # None /\ writers[r] = writers[q] => r = q
    /\ \A t, u \in Threads : Working(t) /\ obj[t] = obj[u] => run[t] = run[u]
    /\ \A t \in Threads, r \in Runs : Working(t) /\ obj[t] = writers[r] => r = run[t]

\* The stored rows of r are a chain whose length and tip the RunRow holds.
RunOK(r) ==
    LET n == runrow[r].count
    IN
    /\ runrow[r].live <=> n > 0
    /\ n = 0 => rows[r] = {} /\ runrow[r].last = ZeroHash /\ ~runrow[r].complete
    /\ n > 0 => \E x \in rows[r] : x.seq = 0
    /\ n > 0 => \E x \in rows[r] : x.seq = n - 1 /\ x.hash = runrow[r].last
    /\ \A x \in rows[r] : x.seq < n
    /\ runrow[r].complete <=> \E x \in rows[r] : x.kind = "run_end"
    /\ \A x \in rows[r] : x.kind = "run_end" => x.seq = n - 1

\* The run takes another record under this process's delegation.
Open(r) ==
    /\ runrow[r].live
    /\ ~runrow[r].complete
    /\ \A x \in rows[r] : x.under = delegation

\* The writer w is where the stored run ends.
AtHead(w, r) ==
    /\ w.seq = runrow[r].count
    /\ w.head = runrow[r].last
    /\ ~w.closed

\* The record x is the next one of r.
NextOf(r, x) ==
    /\ x.seq = runrow[r].count
    /\ x.prev = runrow[r].last
    /\ x.under = delegation

\* A thread at work has the only writer of its run, and it fits the stored run.
WorkOK(t) ==
    /\ pc[t] \in {"resume", "ready"} => Open(run[t]) /\ AtHead(heap[obj[t]], run[t])
    /\ pc[t] = "resume" => writers[run[t]] = None
    /\ pc[t] = "ready" => writers[run[t]] = obj[t]
    /\ pc[t] = "sealed" =>
        /\ NextOf(run[t], rec[t])
        /\ heap[obj[t]].seq = rec[t].seq + 1
        /\ heap[obj[t]].head = rec[t].hash
        /\ heap[obj[t]].closed <=> op[t] = "end"
    /\ pc[t] = "sealed" /\ op[t] # "start" =>
        /\ Open(run[t])
        /\ writers[run[t]] = obj[t]
        /\ rec[t].kind # "run_start"
        /\ rec[t].kind = "run_end" <=> op[t] = "end"
    /\ pc[t] = "sealed" /\ op[t] = "start" => rec[t].kind = "run_start"
    /\ pc[t] = "stored" /\ op[t] = "start" => Open(run[t]) /\ AtHead(heap[obj[t]], run[t])
    /\ pc[t] = "stored" /\ op[t] = "end" => runrow[run[t]].complete
    /\ op[t] = "start" => writers[run[t]] = None
    /\ op[t] = "start" /\ pc[t] # "stored" => ~runrow[run[t]].live

\* A cached writer that no thread is about to store or drop fits the stored run.
CacheOK(r) ==
    writers[r] # None /\ (\A t \in Threads : run[t] = r => pc[t] \notin {"sealed", "stored"})
        => Open(r) /\ AtHead(heap[writers[r]], r)

IInv ==
    /\ TypeOK
    /\ Chained
    /\ OneDelegation
    /\ \A t \in Threads : ThreadOK(t)
    /\ Locking
    /\ StartAlone
    /\ ObjectsApart
    /\ \A r \in Runs : RunOK(r)
    /\ \A t \in Threads : WorkOK(t)
    /\ \A r \in Runs : CacheOK(r)
-----------------------------------------------------------------------------
\* Types and thread positions, under no assumption but the constants'.

TInv == TypeOK /\ \A t \in Threads : ThreadOK(t)

LEMMA InitTyped == Init => TInv
  BY ConstAssumption
  DEF Init, TInv, TypeOK, ThreadOK, RunRow, NoRow, Writer, NewWriter, Working, Inside, ZeroHash

\* A transaction that stores a record keeps both tables well typed.
LEMMA StoreTyped ==
  ASSUME TypeOK, NEW r \in Runs, NEW x \in Record, Store(r, x)
  PROVE  rows' \in [Runs -> SUBSET Record] /\ runrow' \in [Runs -> RunRow]
<1>1. rows' \in [Runs -> SUBSET Record]
  BY DEF TypeOK, Store
<1>2. runrow[r] \in RunRow
  BY DEF TypeOK
<1>3. x.hash \in Hashes
  BY DEF Record
<1>4. [f \in Figured |-> runrow[r].figures[f] + (IF x.kind = f THEN 1 ELSE 0)]
        \in [Figured -> Nat]
  BY <1>2 DEF RunRow
<1>5. runrow'[r] \in RunRow
  BY <1>2, <1>3, <1>4 DEF Store, TypeOK, RunRow
<1>6. \A q \in Runs \ {r} : runrow'[q] = runrow[q]
  BY DEF Store, TypeOK
<1>7. runrow' \in [Runs -> RunRow]
  BY <1>5, <1>6 DEF Store, TypeOK
<1> QED
  BY <1>1, <1>7

LEMMA StepTyped ==
  ASSUME TInv, [Next]_vars
  PROVE  TInv'
<1> USE ConstAssumption DEF TInv, TypeOK, ThreadOK, Working, Inside
<1>1. ASSUME NEW t \in Threads, NEW o \in Ops, NEW r \in Runs, Call(t, o, r)
      PROVE  TInv'
  BY <1>1 DEF Call, FreshLock, Goto, db, frame, Least, Ops, Figured
<1>2. ASSUME NEW t \in Threads, Acquire(t)
      PROVE  TInv'
  BY <1>2 DEF Acquire, Goto, db, cache, frame
<1>3. ASSUME NEW t \in Threads, Hit(t)
      PROVE  TInv'
  BY <1>3 DEF Hit, Goto, db, cache, frame
<1>4. ASSUME NEW t \in Threads, NotResumable(t)
      PROVE  TInv'
  BY <1>4 DEF NotResumable, Return, db, cache
<1>5. ASSUME NEW t \in Threads, Resume(t)
      PROVE  TInv'
  BY <1>5 DEF Resume, Goto, db, frame, Writer, Record, LastRows, FreshObj, Least
<1>6. ASSUME NEW t \in Threads, SealStart(t)
      PROVE  TInv'
  BY <1>6 DEF SealStart, Goto, db, frame, Writer, NewWriter, Record, FreshObj, FreshHash,
              Least, Kinds, ZeroHash
<1>7. ASSUME NEW t \in Threads, Remember(t)
      PROVE  TInv'
  BY <1>7 DEF Remember, Goto, Return, db, frame
<1>8. ASSUME NEW t \in Threads, ReadHead(t)
      PROVE  TInv'
  BY <1>8 DEF ReadHead, Return, db, cache
<1>9. ASSUME NEW t \in Threads, Refuse(t)
      PROVE  TInv'
  BY <1>9 DEF Refuse, Return, db, cache
<1>10. ASSUME NEW t \in Threads, Seal(t)
       PROVE  TInv'
  <2> DEFINE w == heap[obj[t]]
             k == IF op[t] = "end" THEN "run_end" ELSE op[t]
  <2>1. PICK h \in Hashes :
          /\ rec' = [rec EXCEPT ![t] = [seq |-> w.seq, hash |-> h, prev |-> w.head,
                                        under |-> delegation, kind |-> k]]
          /\ heap' = [heap EXCEPT ![obj[t]] =
                        [seq |-> w.seq + 1, head |-> h, closed |-> op[t] = "end"]]
    BY <1>10 DEF Seal
  <2>2. w \in Writer /\ k \in Kinds /\ op[t] \notin {"head", None} /\ obj[t] # None
    <3>1. op[t] \in AppendKinds \/ op[t] = "end"
      BY <1>10 DEF Seal
    <3>2. op[t] \notin {"head", None}
      BY <1>10, <3>1 DEF Seal, Figured
    <3>3. obj[t] \in Objs /\ obj[t] # None
      BY <1>10 DEF Seal
    <3> QED
      BY <3>1, <3>2, <3>3 DEF Kinds
  <2>3. [seq |-> w.seq, hash |-> h, prev |-> w.head, under |-> delegation, kind |-> k]
          \in Record
    BY <2>2 DEF Record, Writer
  <2>4. [seq |-> w.seq + 1, head |-> h, closed |-> op[t] = "end"] \in Writer
    BY <2>2 DEF Writer
  <2> HIDE DEF w, k
  <2> QED
    BY <1>10, <2>1, <2>2, <2>3, <2>4 DEF Seal, Goto, db, frame
<1>11. ASSUME NEW t \in Threads, Stored(t)
       PROVE  TInv'
  <2>1. run[t] \in Runs /\ rec[t] \in Record
    BY <1>11 DEF Stored
  <2>2. rows' \in [Runs -> SUBSET Record] /\ runrow' \in [Runs -> RunRow]
    BY <1>11, <2>1, StoreTyped DEF Stored
  <2> QED
    BY <1>11, <2>1, <2>2 DEF Stored, Goto, Return, cache, frame
<1>12. ASSUME NEW t \in Threads, NEW c \in CommitOutcomes, NotStored(t, c)
       PROVE  TInv'
  <2>1. run[t] \in Runs /\ rec[t] \in Record /\ obj[t] \in Objs
    BY <1>12 DEF NotStored
  <2>2. rows' \in [Runs -> SUBSET Record] /\ runrow' \in [Runs -> RunRow]
    <3>1. CASE UNCHANGED db
      BY <3>1 DEF db
    <3>2. CASE Store(run[t], rec[t])
      BY <3>2, <2>1, StoreTyped
    <3> QED
      BY <3>1, <3>2, <1>12 DEF NotStored
  <2>3. heap' \in [Objs -> Writer]
    <3>1. [seq |-> rec[t].seq, head |-> rec[t].prev, closed |-> FALSE] \in Writer
      BY <2>1 DEF Record, Writer
    <3> QED
      BY <3>1, <1>12 DEF NotStored, Revert
  <2> QED
    BY <1>12, <2>2, <2>3 DEF NotStored, Return
<1>13. ASSUME NEW t \in Threads, Drop(t)
       PROVE  TInv'
  BY <1>13 DEF Drop, Return, db
<1>14. ASSUME NEW d \in Delegations, Restart(d)
       PROVE  TInv'
  BY <1>14 DEF Restart, db, Writer, NewWriter, ZeroHash
<1>15. CASE UNCHANGED vars
  BY <1>15 DEF vars
<1> QED
  BY <1>1, <1>2, <1>3, <1>4, <1>5, <1>6, <1>7, <1>8, <1>9, <1>10, <1>11, <1>12, <1>13,
     <1>14, <1>15 DEF Next, Step

\* Every variable keeps its type, whatever the cache size and the commits do.
THEOREM TypeCorrect == Spec => []TypeOK
<1>1. TInv => TypeOK
  BY DEF TInv
<1> QED
  BY <1>1, InitTyped, StepTyped, PTL DEF Spec
-----------------------------------------------------------------------------
\* Safety of the stored chains: IInv is inductive.

\* A cache that fits every run forgets none.
LEMMA NothingEvicted ==
  ASSUME NoEviction, NEW r \in Runs
  PROVE  Evicted(r) = {}
<1> DEFINE kept == {q \in Runs : writers[q] # None} \cup {r}
<1>1. IsFiniteSet(Runs)
  BY ConstAssumption
<1>2. Cardinality(kept) <= Cardinality(Runs) /\ Cardinality(kept) \in Nat /\ Cardinality(Runs) \in Nat
  BY <1>1, FS_Subset, FS_CardinalityType
<1>3. ~(Cardinality(kept) > MaxWriters)
  BY <1>2, ConstAssumption DEF NoEviction
<1> QED
  BY <1>3 DEF Evicted

LEMMA NoneApart == None \notin {"start", "head", "end"}
  BY ConstAssumption DEF Ops

\* A step that leaves the tables alone leaves the chains alone.
LEMMA SameTables ==
  ASSUME IInv, UNCHANGED db
  PROVE  Chained' /\ OneDelegation' /\ \A r \in Runs : RunOK(r)'
BY DEF IInv, db, Chained, OneDelegation, RunOK

\* The row ORDER BY seq DESC returns is the tip that the RunRow holds.
LEMMA LastRow ==
  ASSUME IInv, NEW r \in Runs, runrow[r].live, NEW x \in LastRows(r)
  PROVE  x \in rows[r] /\ x.seq = runrow[r].count - 1 /\ x.hash = runrow[r].last
<1>1. runrow[r].count > 0 /\ runrow[r].count \in Nat
  BY DEF IInv, RunOK, TypeOK, RunRow
<1>2. PICK y \in rows[r] : y.seq = runrow[r].count - 1 /\ y.hash = runrow[r].last
  BY <1>1 DEF IInv, RunOK
<1>3. x \in rows[r] /\ x.seq \in Nat /\ y.seq <= x.seq /\ x.seq < runrow[r].count
  BY DEF IInv, RunOK, LastRows, TypeOK, Record
<1>4. x.seq = y.seq
  BY <1>1, <1>2, <1>3
<1> QED
  BY <1>2, <1>3, <1>4 DEF IInv, Chained

LEMMA FreshObject ==
  ASSUME TypeOK, NEW o \in Objs, FreshObj(o)
  PROVE  o # None /\ (\A u \in Threads : obj[u] # o) /\ \A q \in Runs : writers[q] # o
<1>1. o \notin {writers[q] : q \in Runs} \cup {obj[u] : u \in Threads}
  BY DEF FreshObj, Least
<1> QED
  BY <1>1, ConstAssumption

\* Two threads at work on the same run are one thread.
LEMMA OneWorker ==
  ASSUME IInv, NEW t \in Threads, NEW u \in Threads,
         Working(t), Working(u), run[t] = run[u]
  PROVE  t = u
BY DEF IInv, Locking, Stale, Working, Inside, ThreadOK, TypeOK

\* A step of another thread, on another writer, leaves the work of u as it is.
LEMMA WorkKept ==
  ASSUME IInv, NEW u \in Threads, UNCHANGED <<rows, runrow, delegation>>,
         pc'[u] = pc[u], op'[u] = op[u], run'[u] = run[u], obj'[u] = obj[u], rec'[u] = rec[u],
         run[u] \in Runs => writers'[run[u]] = writers[run[u]],
         Working(u) => heap'[obj[u]] = heap[obj[u]]
  PROVE  WorkOK(u)'
BY NoneApart
DEF IInv, WorkOK, ThreadOK, TypeOK, Working, Inside, Open, AtHead, NextOf

\* A step that leaves tables and writers alone, and no record halfway, leaves the
\* cache as it is.
LEMMA CacheKept ==
  ASSUME IInv, UNCHANGED <<rows, runrow, delegation, writers, heap>>,
         \A u \in Threads : pc[u] \in {"sealed", "stored"} => pc'[u] = pc[u] /\ run'[u] = run[u]
  PROVE  \A q \in Runs : CacheOK(q)'
BY DEF IInv, CacheOK, Open, AtHead

LEMMA InitInv == Init => IInv
<1> SUFFICES ASSUME Init PROVE IInv
  OBVIOUS
<1>1. TypeOK /\ \A t \in Threads : ThreadOK(t)
  BY InitTyped DEF TInv
<1>2. Chained /\ OneDelegation /\ \A r \in Runs : RunOK(r)
  BY DEF Init, Chained, OneDelegation, RunOK, NoRow, ZeroHash
<1>3. Locking /\ StartAlone /\ ObjectsApart
  BY NoneApart DEF Init, Locking, StartAlone, ObjectsApart, Working, Inside
<1>4. (\A t \in Threads : WorkOK(t)) /\ \A r \in Runs : CacheOK(r)
  BY NoneApart DEF Init, WorkOK, CacheOK
<1> QED
  BY <1>1, <1>2, <1>3, <1>4 DEF IInv

LEMMA CallInv ==
  ASSUME IInv, TInv', NEW t \in Threads, NEW o \in Ops, NEW r \in Runs, Call(t, o, r)
  PROVE  IInv'
<1> USE NoneApart, ConstAssumption DEF Working, Inside
<1>1. Chained' /\ OneDelegation' /\ \A q \in Runs : RunOK(q)'
  BY SameTables DEF Call, db
<1>2. Locking'
  BY DEF IInv, TInv, Call, Goto, FreshRun, FreshLock, Least, db, cache, frame, Locking, Stale, TypeOK, ThreadOK
<1>3. StartAlone'
  BY DEF IInv, TInv, Call, Goto, FreshRun, FreshLock, Least, db, cache, frame, StartAlone, TypeOK, ThreadOK
<1>4. ObjectsApart'
  BY DEF IInv, TInv, Call, Goto, FreshRun, FreshLock, Least, db, cache, frame, ObjectsApart, TypeOK, ThreadOK, WorkOK, Locking, Stale, CacheOK
<1>5. \A u \in Threads : WorkOK(u)'
  BY DEF IInv, TInv, Call, Goto, FreshRun, FreshLock, Least, db, cache, frame, WorkOK, Open, AtHead, NextOf, TypeOK, ThreadOK, Locking, Stale, StartAlone, ObjectsApart, CacheOK, RunOK
<1>6. \A q \in Runs : CacheOK(q)'
  BY DEF IInv, TInv, Call, Goto, FreshRun, FreshLock, Least, db, cache, frame, CacheOK, Open, AtHead, TypeOK, ThreadOK, Locking, Stale, StartAlone, ObjectsApart, WorkOK, RunOK, NextOf
<1> QED
  BY <1>1, <1>2, <1>3, <1>4, <1>5, <1>6 DEF IInv, TInv

LEMMA AcquireInv ==
  ASSUME IInv, TInv', NEW t \in Threads, Acquire(t)
  PROVE  IInv'
<1> USE NoneApart, ConstAssumption DEF Working, Inside
<1>1. Chained' /\ OneDelegation' /\ \A q \in Runs : RunOK(q)'
  BY SameTables DEF Acquire, db
<1>2. Locking'
  BY DEF IInv, TInv, Acquire, Goto, db, cache, frame, Locking, Stale, TypeOK, ThreadOK
<1>3. StartAlone'
  BY DEF IInv, TInv, Acquire, Goto, db, cache, frame, StartAlone, TypeOK, ThreadOK
<1>4. ObjectsApart'
  BY DEF IInv, TInv, Acquire, Goto, db, cache, frame, ObjectsApart, TypeOK, ThreadOK, WorkOK, Locking, Stale, CacheOK
<1>5. \A u \in Threads : WorkOK(u)'
  BY DEF IInv, TInv, Acquire, Goto, db, cache, frame, WorkOK, Open, AtHead, NextOf, TypeOK, ThreadOK, Locking, Stale, StartAlone, ObjectsApart, CacheOK, RunOK
<1>6. \A q \in Runs : CacheOK(q)'
  BY CacheKept DEF Acquire, Goto, frame, db, cache, IInv, TypeOK
<1> QED
  BY <1>1, <1>2, <1>3, <1>4, <1>5, <1>6 DEF IInv, TInv

LEMMA HitInv ==
  ASSUME IInv, TInv', NEW t \in Threads, Hit(t)
  PROVE  IInv'
<1> USE NoneApart, ConstAssumption DEF Working, Inside
<1>1. Chained' /\ OneDelegation' /\ \A q \in Runs : RunOK(q)'
  BY SameTables DEF Hit, db
<1>2. Locking'
  BY DEF IInv, TInv, Hit, Goto, db, cache, frame, Locking, Stale, TypeOK, ThreadOK
<1>3. StartAlone'
  BY DEF IInv, TInv, Hit, Goto, db, cache, frame, StartAlone, TypeOK, ThreadOK
<1>4. ObjectsApart'
  BY DEF IInv, TInv, Hit, Goto, db, cache, frame, ObjectsApart, TypeOK, ThreadOK, WorkOK, Locking, Stale, CacheOK
<1>5. \A u \in Threads : WorkOK(u)'
  BY DEF IInv, TInv, Hit, Goto, db, cache, frame, WorkOK, Open, AtHead, NextOf, TypeOK, ThreadOK, Locking, Stale, StartAlone, ObjectsApart, CacheOK, RunOK
<1>6. \A q \in Runs : CacheOK(q)'
  BY CacheKept DEF Hit, Goto, frame, db, cache, IInv, TypeOK
<1> QED
  BY <1>1, <1>2, <1>3, <1>4, <1>5, <1>6 DEF IInv, TInv

LEMMA NotResumableInv ==
  ASSUME IInv, TInv', NEW t \in Threads, NotResumable(t)
  PROVE  IInv'
<1> USE NoneApart, ConstAssumption DEF Working, Inside
<1>1. Chained' /\ OneDelegation' /\ \A q \in Runs : RunOK(q)'
  BY SameTables DEF NotResumable, db
<1>2. Locking'
  BY DEF IInv, TInv, NotResumable, Return, db, cache, Locking, Stale, TypeOK, ThreadOK
<1>3. StartAlone'
  BY DEF IInv, TInv, NotResumable, Return, db, cache, StartAlone, TypeOK, ThreadOK
<1>4. ObjectsApart'
  BY DEF IInv, TInv, NotResumable, Return, db, cache, ObjectsApart, TypeOK, ThreadOK, WorkOK, Locking, Stale, CacheOK
<1>5. \A u \in Threads : WorkOK(u)'
  BY DEF IInv, TInv, NotResumable, Return, db, cache, WorkOK, Open, AtHead, NextOf, TypeOK, ThreadOK, Locking, Stale, StartAlone, ObjectsApart, CacheOK, RunOK
<1>6. \A q \in Runs : CacheOK(q)'
  BY CacheKept DEF NotResumable, Return, db, cache, IInv, TypeOK
<1> QED
  BY <1>1, <1>2, <1>3, <1>4, <1>5, <1>6 DEF IInv, TInv

LEMMA ResumeInv ==
  ASSUME IInv, TInv', NEW t \in Threads, Resume(t)
  PROVE  IInv'
<1> USE NoneApart DEF Working, Inside
<1> DEFINE r == run[t]
<1>1. PICK o \in Objs, last \in LastRows(r) :
        /\ FreshObj(o)
        /\ heap' = [heap EXCEPT ![o] =
                [seq |-> last.seq + 1, head |-> last.hash, closed |-> FALSE]]
        /\ obj' = [obj EXCEPT ![t] = o]
  BY DEF Resume
<1>2. r \in Runs /\ Resumable(r) /\ writers[r] = None
  BY DEF Resume, IInv, TypeOK, ThreadOK
<1>3. Open(r)
  BY <1>2 DEF Resumable, Open, IInv, OneDelegation, RunOK
<1>4. o # None /\ (\A u \in Threads : obj[u] # o) /\ \A q \in Runs : writers[q] # o
  BY <1>1, FreshObject DEF IInv
<1>5. AtHead(heap'[o], r)
  BY <1>1, <1>2, LastRow DEF AtHead, IInv, TypeOK, Resumable, RunOK, RunRow
<1>6. Chained' /\ OneDelegation' /\ \A q \in Runs : RunOK(q)'
  BY SameTables DEF Resume, db
<1>7. Locking'
  BY <1>3 DEF Resume, Goto, db, frame, IInv, Locking, Stale, Open, TypeOK, ThreadOK
<1>8. StartAlone'
  BY DEF Resume, frame, IInv, StartAlone
<1>9. ObjectsApart'
  BY <1>1, <1>2, <1>4 DEF Resume, Goto, frame, IInv, ObjectsApart, TypeOK
<1>10. \A u \in Threads : WorkOK(u)'
  <2> TAKE u \in Threads
  <2>1. CASE u = t
    BY <1>1, <1>2, <1>3, <1>5, <2>1
    DEF Resume, Goto, db, frame, IInv, TypeOK, ThreadOK, WorkOK, Open, AtHead
  <2>2. CASE u # t
    <3>1. /\ pc'[u] = pc[u] /\ op'[u] = op[u] /\ run'[u] = run[u]
          /\ obj'[u] = obj[u] /\ rec'[u] = rec[u] /\ UNCHANGED <<writers, rows, runrow, delegation>>
      BY <1>1, <2>2 DEF Resume, Goto, db, frame, IInv, TypeOK
    <3>2. obj[u] \in Objs => heap'[obj[u]] = heap[obj[u]]
      BY <1>1, <1>4 DEF IInv, TypeOK
    <3>3. WorkOK(u) /\ ThreadOK(u)
      BY DEF IInv
    <3> QED
      BY <3>1, <3>2, <3>3 DEF WorkOK, ThreadOK, Open, AtHead, NextOf, IInv, TypeOK
  <2> QED
    BY <2>1, <2>2
<1>11. \A q \in Runs : CacheOK(q)'
  BY <1>1, <1>2, <1>4 DEF Resume, Goto, db, frame, IInv, TypeOK, CacheOK, Open, AtHead
<1> QED
  BY <1>6, <1>7, <1>8, <1>9, <1>10, <1>11 DEF IInv, TInv

LEMMA SealStartInv ==
  ASSUME IInv, TInv', NEW t \in Threads, SealStart(t)
  PROVE  IInv'
<1> USE NoneApart DEF Working, Inside
<1> DEFINE r == run[t]
<1>1. PICK o \in Objs, h \in Hashes :
        /\ FreshObj(o)
        /\ obj' = [obj EXCEPT ![t] = o]
        /\ heap' = [heap EXCEPT ![o] = [seq |-> 1, head |-> h, closed |-> FALSE]]
        /\ rec' = [rec EXCEPT ![t] = [seq |-> 0, hash |-> h, prev |-> ZeroHash,
                                      kind |-> "run_start", under |-> delegation]]
  BY DEF SealStart
<1>2. o # None /\ (\A u \in Threads : obj[u] # o) /\ \A q \in Runs : writers[q] # o
  BY <1>1, FreshObject DEF IInv
<1>3. r \in Runs /\ pc[t] = "lookup" /\ op[t] = "start"
  BY DEF SealStart, IInv, TypeOK, ThreadOK
<1>4. writers[r] = None /\ ~runrow[r].live
  BY <1>3 DEF IInv, WorkOK
<1>5. runrow[r].count = 0 /\ runrow[r].last = ZeroHash /\ ~runrow[r].complete
  BY <1>3, <1>4 DEF IInv, RunOK, TypeOK, RunRow
<1>6. Chained' /\ OneDelegation' /\ \A q \in Runs : RunOK(q)'
  BY SameTables DEF SealStart, db
<1>7. Locking'
  BY <1>5 DEF SealStart, Goto, db, frame, IInv, Locking, Stale, TypeOK, ThreadOK
<1>8. StartAlone'
  BY DEF SealStart, frame, IInv, StartAlone
<1>9. ObjectsApart'
  BY <1>1, <1>2 DEF SealStart, Goto, frame, IInv, ObjectsApart, TypeOK
<1>10. \A u \in Threads : WorkOK(u)'
  <2> TAKE u \in Threads
  <2>1. CASE u = t
    <3>1. /\ rec'[t] = [seq |-> 0, hash |-> h, prev |-> ZeroHash,
                        kind |-> "run_start", under |-> delegation]
          /\ obj'[t] = o /\ heap'[o] = [seq |-> 1, head |-> h, closed |-> FALSE]
          /\ pc'[t] = "sealed" /\ op'[t] = "start" /\ run'[t] = r
          /\ UNCHANGED <<writers, runrow, delegation>>
      BY <1>1, <1>3 DEF SealStart, Goto, db, frame, IInv, TypeOK
    <3>2. NextOf(run[t], rec[t])'
      BY <1>5, <3>1 DEF NextOf
    <3>3. writers'[run'[t]] = None /\ ~runrow'[run'[t]].live
      BY <1>4, <3>1
    <3> QED
      BY <2>1, <3>1, <3>2, <3>3 DEF WorkOK
  <2>2. CASE u # t
    <3>1. /\ pc'[u] = pc[u] /\ op'[u] = op[u] /\ run'[u] = run[u] /\ obj'[u] = obj[u]
          /\ rec'[u] = rec[u] /\ UNCHANGED <<writers, rows, runrow, delegation>>
      BY <1>1, <2>2 DEF SealStart, Goto, db, frame, IInv, TypeOK
    <3>2. Working(u) => heap'[obj[u]] = heap[obj[u]]
      BY <1>1, <1>2 DEF IInv, TypeOK, ThreadOK
    <3> QED
      BY <3>1, <3>2, WorkKept
  <2> QED
    BY <2>1, <2>2
<1>11. \A q \in Runs : CacheOK(q)'
  BY <1>1, <1>2, <1>3, <1>4 DEF SealStart, Goto, db, frame, IInv, TypeOK, CacheOK, Open, AtHead
<1> QED
  BY <1>6, <1>7, <1>8, <1>9, <1>10, <1>11 DEF IInv, TInv

LEMMA RememberInv ==
  ASSUME IInv, TInv', NEW t \in Threads, Remember(t),
         \A q \in Evicted(run[t]), u \in Threads : run[u] # q
  PROVE  IInv'
<1> USE NoneApart DEF Working, Inside
<1> DEFINE r == run[t]
           out == Evicted(r)
<1>1. /\ r \in Runs /\ obj[t] \in Objs /\ obj[t] # None
      /\ pc[t] = "resume" \/ (pc[t] = "stored" /\ op[t] = "start")
  BY ConstAssumption DEF Remember, IInv, TypeOK, ThreadOK
<1>2. /\ writers'[r] = obj[t]
      /\ \A q \in Runs \ {r} : writers'[q] \in {writers[q], None}
      /\ \A q \in Runs : (\E u \in Threads : run[u] = q) =>
            locks'[q] = locks[q] /\ (q # r => writers'[q] = writers[q])
  <2> HIDE DEF r, out
  <2>1. /\ writers' = [q \in Runs |-> IF q = r THEN obj[t]
                                     ELSE IF q \in out THEN None ELSE writers[q]]
        /\ locks' = [q \in Runs |-> IF q \in out THEN None ELSE locks[q]]
    BY DEF Remember, r, out
  <2>2. \A u \in Threads : run[u] \notin out
    BY DEF out, r
  <2> QED
    BY <1>1, <2>1, <2>2 DEF r
<1>3. Open(r) /\ AtHead(heap[obj[t]], r) /\ writers[r] = None
  BY <1>1 DEF IInv, WorkOK, ThreadOK
<1>4. \A u \in Threads : u # t =>
        /\ pc'[u] = pc[u] /\ op'[u] = op[u] /\ run'[u] = run[u]
        /\ obj'[u] = obj[u] /\ rec'[u] = rec[u] /\ lk'[u] = lk[u]
  BY DEF Remember, Goto, Return, frame, IInv, TypeOK
<1>5. UNCHANGED <<rows, runrow, delegation, heap>>
  BY DEF Remember, db
<1>6. IF op[t] = "start"
      THEN pc'[t] = "idle" /\ op'[t] = None /\ run'[t] = None /\ obj'[t] = None
      ELSE pc'[t] = "ready" /\ UNCHANGED <<op, run, lk, obj, rec>>
  BY DEF Remember, Goto, Return, frame, IInv, TypeOK
<1>7. Chained' /\ OneDelegation' /\ \A q \in Runs : RunOK(q)'
  BY SameTables DEF Remember
<1>8. Locking'
  <2>1. lk[t] = locks[r]
    BY <1>1 DEF IInv, Locking, Stale
  <2> QED
    BY <1>1, <1>2, <1>3, <1>4, <1>5, <1>6, <2>1
    DEF IInv, Locking, Stale, Open, TypeOK, ThreadOK
<1>9. StartAlone'
  BY <1>1, <1>4, <1>6 DEF IInv, StartAlone, TypeOK, ThreadOK
<1>10. ObjectsApart'
  <2>1. \A q, p \in Runs : writers'[q] # None /\ writers'[q] = writers'[p] => q = p
    BY <1>1, <1>2 DEF IInv, ObjectsApart, TypeOK
  <2>2. \A u, v \in Threads : Working(u)' /\ obj'[u] = obj'[v] => run'[u] = run'[v]
    BY <1>1, <1>4, <1>6 DEF IInv, ObjectsApart, ThreadOK
  <2>3. \A u \in Threads, q \in Runs : Working(u)' /\ obj'[u] = writers'[q] => q = run'[u]
    BY <1>1, <1>2, <1>4, <1>6 DEF IInv, ObjectsApart, ThreadOK, TypeOK
  <2> QED
    BY <2>1, <2>2, <2>3 DEF ObjectsApart
<1>11. \A u \in Threads : WorkOK(u)'
  <2> TAKE u \in Threads
  <2>1. CASE u = t
    BY <1>1, <1>2, <1>3, <1>5, <1>6, <2>1 DEF IInv, TypeOK, WorkOK, ThreadOK, Open, AtHead
  <2>2. CASE u # t /\ run[u] # r
    BY <1>2, <1>4, <1>5, <2>2, WorkKept DEF IInv, TypeOK
  <2>3. CASE u # t /\ run[u] = r
    <3>1. ~Working(u)
      BY <1>1, <2>3, OneWorker
    <3>2. op[u] # "start"
      BY <2>3 DEF IInv, StartAlone
    <3> QED
      BY <1>4, <2>3, <3>1, <3>2 DEF WorkOK
  <2> QED
    BY <2>1, <2>2, <2>3
<1>12. \A q \in Runs : CacheOK(q)'
  <2> TAKE q \in Runs
  <2>1. CASE q = r
    BY <1>1, <1>2, <1>3, <1>5, <2>1 DEF CacheOK, Open, AtHead, IInv, TypeOK
  <2>2. CASE q # r
    BY <1>1, <1>2, <1>4, <1>5, <2>2 DEF CacheOK, Open, AtHead, IInv, TypeOK
  <2> QED
    BY <2>1, <2>2
<1> QED
  BY <1>7, <1>8, <1>9, <1>10, <1>11, <1>12 DEF IInv, TInv

LEMMA ReadHeadInv ==
  ASSUME IInv, TInv', NEW t \in Threads, ReadHead(t)
  PROVE  IInv'
<1> USE NoneApart, ConstAssumption DEF Working, Inside
<1>1. Chained' /\ OneDelegation' /\ \A q \in Runs : RunOK(q)'
  BY SameTables DEF ReadHead, db
<1>2. Locking'
  BY DEF IInv, TInv, ReadHead, Return, db, cache, Locking, Stale, TypeOK, ThreadOK
<1>3. StartAlone'
  BY DEF IInv, TInv, ReadHead, Return, db, cache, StartAlone, TypeOK, ThreadOK
<1>4. ObjectsApart'
  BY DEF IInv, TInv, ReadHead, Return, db, cache, ObjectsApart, TypeOK, ThreadOK, WorkOK, Locking, Stale, CacheOK
<1>5. \A u \in Threads : WorkOK(u)'
  BY DEF IInv, TInv, ReadHead, Return, db, cache, WorkOK, Open, AtHead, NextOf, TypeOK, ThreadOK, Locking, Stale, StartAlone, ObjectsApart, CacheOK, RunOK
<1>6. \A q \in Runs : CacheOK(q)'
  BY CacheKept DEF ReadHead, Return, db, cache, IInv, TypeOK
<1> QED
  BY <1>1, <1>2, <1>3, <1>4, <1>5, <1>6 DEF IInv, TInv

LEMMA RefuseInv ==
  ASSUME IInv, TInv', NEW t \in Threads, Refuse(t)
  PROVE  IInv'
<1> USE NoneApart, ConstAssumption DEF Working, Inside
<1>1. Chained' /\ OneDelegation' /\ \A q \in Runs : RunOK(q)'
  BY SameTables DEF Refuse, db
<1>2. Locking'
  BY DEF IInv, TInv, Refuse, Return, db, cache, Locking, Stale, TypeOK, ThreadOK
<1>3. StartAlone'
  BY DEF IInv, TInv, Refuse, Return, db, cache, StartAlone, TypeOK, ThreadOK
<1>4. ObjectsApart'
  BY DEF IInv, TInv, Refuse, Return, db, cache, ObjectsApart, TypeOK, ThreadOK, WorkOK, Locking, Stale, CacheOK
<1>5. \A u \in Threads : WorkOK(u)'
  BY DEF IInv, TInv, Refuse, Return, db, cache, WorkOK, Open, AtHead, NextOf, TypeOK, ThreadOK, Locking, Stale, StartAlone, ObjectsApart, CacheOK, RunOK
<1>6. \A q \in Runs : CacheOK(q)'
  BY CacheKept DEF Refuse, Return, db, cache, IInv, TypeOK
<1> QED
  BY <1>1, <1>2, <1>3, <1>4, <1>5, <1>6 DEF IInv, TInv

LEMMA SealInv ==
  ASSUME IInv, TInv', NEW t \in Threads, Seal(t)
  PROVE  IInv'
<1> USE NoneApart DEF Working, Inside
<1> DEFINE r == run[t]
           w == heap[obj[t]]
<1>1. PICK h \in Hashes :
        /\ rec' = [rec EXCEPT ![t] =
                [seq |-> w.seq, hash |-> h, prev |-> w.head, under |-> delegation,
                 kind |-> IF op[t] = "end" THEN "run_end" ELSE op[t]]]
        /\ heap' = [heap EXCEPT ![obj[t]] =
                [seq |-> w.seq + 1, head |-> h, closed |-> op[t] = "end"]]
  BY DEF Seal
<1>2. /\ pc[t] = "ready" /\ r \in Runs /\ obj[t] \in Objs /\ obj[t] # None
      /\ op[t] \notin {"start", "head"} /\ op[t] \in AppendKinds \cup {"end"}
  BY ConstAssumption DEF Seal, IInv, TypeOK, ThreadOK, Figured
<1>3. Open(r) /\ AtHead(w, r) /\ writers[r] = obj[t]
  BY <1>2 DEF IInv, WorkOK
<1>4. \A u \in Threads : u # t =>
        /\ pc'[u] = pc[u] /\ op'[u] = op[u] /\ run'[u] = run[u]
        /\ obj'[u] = obj[u] /\ rec'[u] = rec[u] /\ lk'[u] = lk[u]
  BY <1>1 DEF Seal, Goto, frame, IInv, TypeOK
<1>5. UNCHANGED <<rows, runrow, delegation, writers, locks, op, run, lk, obj>> /\ pc'[t] = "sealed"
  BY <1>2 DEF Seal, Goto, db, frame, IInv, TypeOK
<1>6. Chained' /\ OneDelegation' /\ \A q \in Runs : RunOK(q)'
  BY SameTables DEF Seal
<1>7. Locking'
  BY <1>2, <1>4, <1>5 DEF IInv, Locking, Stale
<1>8. StartAlone'
  BY <1>5 DEF IInv, StartAlone
<1>9. ObjectsApart'
  BY <1>2, <1>4, <1>5 DEF IInv, ObjectsApart
<1>10. \A u \in Threads : WorkOK(u)'
  <2> TAKE u \in Threads
  <2>1. CASE u = t
    <3>1. /\ rec'[t] = [seq |-> w.seq, hash |-> h, prev |-> w.head, under |-> delegation,
                        kind |-> IF op[t] = "end" THEN "run_end" ELSE op[t]]
          /\ heap'[obj[t]] = [seq |-> w.seq + 1, head |-> h, closed |-> op[t] = "end"]
      BY <1>1, <1>2 DEF IInv, TypeOK
    <3>2. rec'[t].kind # "run_start" /\ (rec'[t].kind = "run_end" <=> op[t] = "end")
      BY <1>2, <3>1, ConstAssumption DEF Figured
    <3> HIDE DEF r, w
    <3>3. NextOf(r, rec'[t])
      BY <1>3, <3>1 DEF AtHead, NextOf
    <3>4. /\ heap'[obj[t]].seq = rec'[t].seq + 1
          /\ heap'[obj[t]].head = rec'[t].hash
          /\ heap'[obj[t]].closed <=> op[t] = "end"
      <4>1. heap'[obj[t]].seq = w.seq + 1 /\ heap'[obj[t]].head = h
        BY <3>1
      <4>2. rec'[t].seq = w.seq /\ rec'[t].hash = h
        BY <3>1
      <4>3. heap'[obj[t]].closed = [seq |-> w.seq + 1, head |-> h, closed |-> op[t] = "end"].closed
        BY <3>1
      <4>4. [seq |-> w.seq + 1, head |-> h, closed |-> op[t] = "end"].closed <=> op[t] = "end"
        BY Zenon
      <4> QED
        BY <4>1, <4>2, <4>3, <4>4
    <3>5. NextOf(run[t], rec[t])' /\ Open(run[t])' /\ (writers[run[t]] = obj[t])'
      BY <1>3, <1>5, <3>3 DEF NextOf, Open, r
    <3>6. (heap[obj[t]].closed <=> op[t] = "end")'
      BY <1>5, <3>4
    <3>7. /\ pc'[t] = "sealed" /\ op'[t] # "start"
          /\ heap'[obj'[t]].seq = rec'[t].seq + 1
          /\ heap'[obj'[t]].head = rec'[t].hash
          /\ rec'[t].kind # "run_start"
          /\ (rec'[t].kind = "run_end" <=> op'[t] = "end")
      BY <1>2, <1>5, <3>2, <3>4
    <3>8. WorkOK(t)'
      BY <3>5, <3>6, <3>7 DEF WorkOK
    <3> QED
      BY <2>1, <3>8
  <2>2. CASE u # t
    <3>1. Working(u) => obj[u] # obj[t]
      BY <1>2, <2>2, OneWorker DEF IInv, ObjectsApart
    <3>2. Working(u) => heap'[obj[u]] = heap[obj[u]]
      BY <1>1, <3>1 DEF IInv, TypeOK, ThreadOK
    <3> QED
      BY <1>4, <1>5, <2>2, <3>2, WorkKept
  <2> QED
    BY <2>1, <2>2
<1>11. \A q \in Runs : CacheOK(q)'
  BY <1>1, <1>2, <1>3, <1>4, <1>5 DEF IInv, TypeOK, CacheOK, ObjectsApart, Open, AtHead
<1> QED
  BY <1>6, <1>7, <1>8, <1>9, <1>10, <1>11 DEF IInv, TInv

LEMMA RefusedInv ==
  ASSUME IInv, TInv', NEW t \in Threads, NotStored(t, "refused")
  PROVE  IInv'
<1> USE NoneApart DEF Working, Inside
<1> DEFINE r == run[t]
<1>1. pc[t] = "sealed" /\ r \in Runs /\ obj[t] \in Objs /\ obj[t] # None /\ rec[t] \in Record
  BY ConstAssumption DEF NotStored, IInv, TypeOK, ThreadOK
<1>2. \A u \in Threads : u # t =>
        /\ pc'[u] = pc[u] /\ op'[u] = op[u] /\ run'[u] = run[u]
        /\ obj'[u] = obj[u] /\ rec'[u] = rec[u] /\ lk'[u] = lk[u]
  BY DEF NotStored, Return, IInv, TypeOK
<1>3. /\ UNCHANGED <<rows, runrow, delegation, writers, locks>>
      /\ pc'[t] = "idle" /\ op'[t] = None /\ run'[t] = None /\ obj'[t] = None
  BY DEF NotStored, Return, db, IInv, TypeOK
<1>4. op[t] # "start" =>
        heap' = [heap EXCEPT ![obj[t]] =
                    [seq |-> rec[t].seq, head |-> rec[t].prev, closed |-> FALSE]]
  <2>1. heap[obj[t]].head = rec[t].hash
    BY <1>1 DEF IInv, WorkOK
  <2> QED
    BY <2>1 DEF NotStored, Revert
<1>5. op[t] = "start" => heap' = heap /\ writers[r] = None
  BY <1>1 DEF NotStored, IInv, WorkOK
<1>6. op[t] # "start" =>
        Open(r) /\ writers[r] = obj[t] /\ AtHead(heap'[obj[t]], r)
  <2> SUFFICES ASSUME op[t] # "start"
               PROVE  Open(r) /\ writers[r] = obj[t] /\ AtHead(heap'[obj[t]], r)
    OBVIOUS
  <2>1. Open(r) /\ writers[r] = obj[t] /\ NextOf(r, rec[t])
    BY <1>1 DEF IInv, WorkOK
  <2>2. heap'[obj[t]] = [seq |-> rec[t].seq, head |-> rec[t].prev, closed |-> FALSE]
    BY <1>1, <1>4 DEF IInv, TypeOK
  <2> QED
    BY <2>1, <2>2 DEF NextOf, AtHead
<1>7. Chained' /\ OneDelegation' /\ \A q \in Runs : RunOK(q)'
  BY SameTables DEF NotStored
<1>8. Locking'
  BY <1>2, <1>3 DEF IInv, Locking, Stale
<1>9. StartAlone'
  BY <1>2, <1>3 DEF IInv, StartAlone, TypeOK, ThreadOK
<1>10. ObjectsApart'
  BY <1>2, <1>3 DEF IInv, ObjectsApart, ThreadOK
<1>11. \A u \in Threads : WorkOK(u)'
  <2> TAKE u \in Threads
  <2>1. CASE u = t
    BY <1>3, <2>1 DEF WorkOK
  <2>2. CASE u # t
    <3>1. Working(u) => obj[u] # obj[t]
      BY <1>1, <2>2, OneWorker DEF IInv, ObjectsApart
    <3>2. Working(u) => heap'[obj[u]] = heap[obj[u]]
      BY <1>4, <1>5, <3>1 DEF IInv, TypeOK, ThreadOK
    <3> QED
      BY <1>2, <1>3, <2>2, <3>2, WorkKept
  <2> QED
    BY <2>1, <2>2
<1>12. \A q \in Runs : CacheOK(q)'
  <2> TAKE q \in Runs
  <2>1. CASE op[t] = "start"
    BY <1>2, <1>3, <1>5, <2>1 DEF IInv, CacheOK, Open, AtHead
  <2>2. CASE op[t] # "start" /\ q = r
    BY <1>3, <1>6, <2>2 DEF CacheOK, Open, AtHead
  <2>3. CASE op[t] # "start" /\ q # r
    <3>1. writers[q] # None => heap'[writers[q]] = heap[writers[q]]
      BY <1>1, <1>4, <1>6, <2>3 DEF IInv, TypeOK, ObjectsApart
    <3> QED
      BY <1>2, <1>3, <2>3, <3>1 DEF IInv, CacheOK, Open, AtHead
  <2> QED
    BY <2>1, <2>2, <2>3
<1> QED
  BY <1>7, <1>8, <1>9, <1>10, <1>11, <1>12 DEF IInv, TInv

\* What the transaction makes of the tables.
LEMMA StoreChain ==
  ASSUME IInv, NEW t \in Threads, pc[t] = "sealed", Store(run[t], rec[t]), UNCHANGED delegation
  PROVE  /\ Chained' /\ OneDelegation' /\ \A q \in Runs : RunOK(q)'
         /\ \A q \in Runs \ {run[t]} : rows'[q] = rows[q] /\ runrow'[q] = runrow[q]
         /\ runrow'[run[t]].live
         /\ runrow'[run[t]].count = rec[t].seq + 1
         /\ runrow'[run[t]].last = rec[t].hash
         /\ runrow'[run[t]].complete <=> op[t] = "end"
         /\ \A x \in rows'[run[t]] : x.under = delegation
<1> DEFINE r == run[t]
           x == rec[t]
           n == runrow[r].count
<1>1. r \in Runs /\ x \in Record /\ op[t] # "head" /\ n \in Nat
  BY DEF IInv, TypeOK, ThreadOK, RunRow
<1>2. NextOf(r, x) /\ RunOK(r)
  BY <1>1 DEF IInv, WorkOK
<1>3. /\ x.kind = "run_start" <=> n = 0
      /\ x.kind = "run_end" <=> op[t] = "end"
      /\ ~runrow[r].complete
      /\ \A y \in rows[r] : y.under = delegation /\ y.kind # "run_end"
  <2>1. CASE op[t] = "start"
    <3>1. x.kind = "run_start" /\ ~runrow[r].live
      BY <2>1 DEF IInv, WorkOK
    <3> QED
      BY <1>1, <1>2, <2>1, <3>1 DEF RunOK
  <2>2. CASE op[t] # "start"
    BY <1>1, <1>2, <2>2 DEF IInv, WorkOK, RunOK, Open
  <2> QED
    BY <2>1, <2>2
<1>4. /\ rows' = [rows EXCEPT ![r] = rows[r] \cup {x}]
      /\ runrow'[r].live /\ runrow'[r].count = n + 1 /\ runrow'[r].last = x.hash
      /\ runrow'[r].complete <=> x.kind = "run_end"
      /\ \A q \in Runs \ {r} : rows'[q] = rows[q] /\ runrow'[q] = runrow[q]
  BY <1>1, <1>3 DEF Store, IInv, TypeOK
<1>5. rows'[r] = rows[r] \cup {x}
  BY <1>1, <1>4 DEF IInv, TypeOK
<1>6. \A y \in rows[r] : y.seq \in Nat /\ y.seq < n
  BY <1>1, <1>2 DEF RunOK, IInv, TypeOK, Record
<1> HIDE DEF r, x, n
<1>7. Chained'
  <2> SUFFICES ASSUME NEW q \in Runs
               PROVE  /\ \A y, z \in rows'[q] : y.seq = z.seq => y = z
                      /\ \A y \in rows'[q] :
                          \/ y.seq = 0 /\ y.prev = ZeroHash /\ y.kind = "run_start"
                          \/ /\ y.kind # "run_start"
                             /\ \E z \in rows'[q] : y.seq = z.seq + 1 /\ y.prev = z.hash
    BY DEF Chained
  <2>1. CASE q # r
    BY <1>4, <2>1 DEF IInv, Chained
  <2>2. CASE q = r
    <3>1. \A y, z \in rows'[q] : y.seq = z.seq => y = z
      BY <1>1, <1>2, <1>5, <1>6, <2>2 DEF IInv, Chained, NextOf, n
    <3>2. n = 0 => x.seq = 0 /\ x.prev = ZeroHash /\ x.kind = "run_start"
      BY <1>2, <1>3 DEF RunOK, NextOf, n
    <3>3. n > 0 => /\ x.kind # "run_start"
                   /\ \E z \in rows[r] : x.seq = z.seq + 1 /\ x.prev = z.hash
      BY <1>1, <1>2, <1>3 DEF RunOK, NextOf, n
    <3> QED
      BY <1>1, <1>5, <2>2, <3>1, <3>2, <3>3 DEF IInv, Chained
  <2> QED
    BY <2>1, <2>2
<1>8. \A y \in rows'[r] : y.under = delegation
  BY <1>2, <1>3, <1>5 DEF NextOf
<1>9. OneDelegation'
  BY <1>4, <1>8 DEF IInv, OneDelegation
<1>10. \A q \in Runs : RunOK(q)'
  <2> TAKE q \in Runs
  <2>1. CASE q # r
    BY <1>4, <2>1 DEF IInv, RunOK
  <2>2. CASE q = r
    <3>1. \E y \in rows'[r] : y.seq = 0
      BY <1>1, <1>2, <1>5 DEF RunOK, NextOf, n
    <3>2. x \in rows'[r] /\ x.seq = runrow'[r].count - 1 /\ x.hash = runrow'[r].last
      BY <1>1, <1>2, <1>4, <1>5 DEF NextOf, n
    <3>3. \A y \in rows'[r] : y.seq < runrow'[r].count
      BY <1>1, <1>4, <1>5, <1>6, <3>2
    <3>4. \A y \in rows'[r] : y.kind = "run_end" => y = x
      BY <1>3, <1>5
    <3> QED
      BY <1>1, <1>4, <2>2, <3>1, <3>2, <3>3, <3>4 DEF RunOK
  <2> QED
    BY <2>1, <2>2
<1>11. n = x.seq
  BY <1>2 DEF NextOf, n
<1> QED
  BY <1>3, <1>4, <1>7, <1>8, <1>9, <1>10, <1>11 DEF r, x

LEMMA StoredInv ==
  ASSUME IInv, TInv', NEW t \in Threads, Stored(t)
  PROVE  IInv'
<1> USE NoneApart DEF Working, Inside
<1> DEFINE r == run[t]
<1>1. /\ pc[t] = "sealed" /\ r \in Runs /\ obj[t] \in Objs /\ obj[t] # None
      /\ rec[t] \in Record /\ op[t] # "head"
  BY ConstAssumption DEF Stored, IInv, TypeOK, ThreadOK
<1>2. \A u \in Threads : u # t =>
        /\ pc'[u] = pc[u] /\ op'[u] = op[u] /\ run'[u] = run[u]
        /\ obj'[u] = obj[u] /\ rec'[u] = rec[u] /\ lk'[u] = lk[u]
  BY DEF Stored, Return, Goto, frame, IInv, TypeOK
<1>3. UNCHANGED <<delegation, writers, heap, locks>>
  BY DEF Stored, cache
<1>4. IF op[t] \in {"start", "end"}
      THEN pc'[t] = "stored" /\ UNCHANGED <<op, run, lk, obj, rec>>
      ELSE pc'[t] = "idle" /\ op'[t] = None /\ run'[t] = None /\ obj'[t] = None
  BY DEF Stored, Return, Goto, frame, IInv, TypeOK
<1>5. /\ Chained' /\ OneDelegation' /\ \A q \in Runs : RunOK(q)'
      /\ \A q \in Runs \ {r} : rows'[q] = rows[q] /\ runrow'[q] = runrow[q]
      /\ runrow'[r].live
      /\ runrow'[r].count = rec[t].seq + 1
      /\ runrow'[r].last = rec[t].hash
      /\ runrow'[r].complete <=> op[t] = "end"
      /\ \A x \in rows'[r] : x.under = delegation
  BY <1>1, <1>3, StoreChain DEF Stored
<1>6. /\ heap[obj[t]].seq = rec[t].seq + 1 /\ heap[obj[t]].head = rec[t].hash
      /\ heap[obj[t]].closed <=> op[t] = "end"
  BY <1>1 DEF IInv, WorkOK
<1>7. op[t] # "end" => \A q \in Runs, o \in Objs :
        q = r /\ o = obj[t] => Open(q)' /\ AtHead(heap[o], q)'
  BY <1>3, <1>5, <1>6 DEF Open, AtHead
<1>8. ~runrow[r].complete
  <2>1. CASE op[t] = "start"
    <3>1. ~runrow[r].live
      BY <1>1, <2>1 DEF IInv, WorkOK
    <3> QED
      BY <1>1, <3>1 DEF IInv, RunOK, TypeOK, RunRow
  <2>2. CASE op[t] # "start"
    BY <1>1, <2>2 DEF IInv, WorkOK, Open
  <2> QED
    BY <2>1, <2>2
<1>9. Locking'
  <2>1. \A u \in Threads : Stale(u) => run[u] # r
    BY <1>8 DEF Stale
  <2>2. \A u \in Threads : pc'[u] # "idle" => lk'[u] = locks'[run'[u]] \/ Stale(u)'
    <3> SUFFICES ASSUME NEW u \in Threads, pc'[u] # "idle"
                 PROVE  lk'[u] = locks'[run'[u]] \/ Stale(u)'
      OBVIOUS
    <3>1. pc[u] # "idle" /\ run'[u] = run[u] /\ lk'[u] = lk[u]
      BY <1>1, <1>2, <1>4
    <3>2. CASE Stale(u)
      BY <1>1, <1>2, <1>3, <1>5, <2>1, <3>2 DEF Stale, IInv, TypeOK, ThreadOK
    <3>3. CASE ~Stale(u)
      BY <1>3, <3>1, <3>3 DEF IInv, Locking
    <3> QED
      BY <3>2, <3>3
  <2>3. \A u, v \in Threads : pc'[u] \in Inside /\ pc'[v] \in Inside /\ lk'[u] = lk'[v] => u = v
    BY <1>1, <1>2, <1>4 DEF IInv, Locking
  <2> QED
    BY <2>2, <2>3 DEF Locking
<1>10. StartAlone'
  BY <1>2, <1>4 DEF IInv, StartAlone, TypeOK, ThreadOK
<1>11. ObjectsApart'
  BY <1>1, <1>2, <1>3, <1>4 DEF IInv, ObjectsApart, ThreadOK
<1>12. \A u \in Threads : WorkOK(u)'
  <2> TAKE u \in Threads
  <2>1. CASE u = t
    BY <1>1, <1>3, <1>4, <1>5, <1>7, <2>1 DEF WorkOK, IInv, AtHead
  <2>2. CASE u # t /\ run[u] = r
    <3>1. ~Working(u) /\ op[u] # "start"
      BY <1>1, <2>2, OneWorker DEF IInv, StartAlone, WorkOK, RunOK
    <3> QED
      BY <1>2, <2>2, <3>1 DEF WorkOK
  <2>3. CASE u # t /\ run[u] # r
    BY <1>2, <1>3, <1>5, <2>3
    DEF IInv, WorkOK, ThreadOK, TypeOK, Open, AtHead, NextOf
  <2> QED
    BY <2>1, <2>2, <2>3
<1>13. \A q \in Runs : CacheOK(q)'
  <2> TAKE q \in Runs
  <2>1. CASE q # r
    BY <1>2, <1>3, <1>4, <1>5, <2>1 DEF IInv, CacheOK, Open, AtHead
  <2>2. CASE q = r
    BY <1>1, <1>3, <1>4, <1>7, <2>2 DEF IInv, WorkOK, CacheOK, AtHead
  <2> QED
    BY <2>1, <2>2
<1> QED
  BY <1>5, <1>9, <1>10, <1>11, <1>12, <1>13 DEF IInv, TInv

LEMMA DropInv ==
  ASSUME IInv, TInv', NEW t \in Threads, Drop(t)
  PROVE  IInv'
<1> USE NoneApart DEF Working, Inside
<1> DEFINE r == run[t]
<1>1. pc[t] = "stored" /\ op[t] = "end" /\ r \in Runs /\ runrow[r].complete
  BY DEF Drop, IInv, TypeOK, ThreadOK, WorkOK
<1>2. \A u \in Threads : u # t =>
        /\ pc'[u] = pc[u] /\ op'[u] = op[u] /\ run'[u] = run[u]
        /\ obj'[u] = obj[u] /\ rec'[u] = rec[u] /\ lk'[u] = lk[u]
  BY DEF Drop, Return, IInv, TypeOK
<1>3. /\ UNCHANGED <<rows, runrow, delegation, heap>>
      /\ pc'[t] = "idle" /\ op'[t] = None /\ run'[t] = None /\ obj'[t] = None
      /\ writers' = [writers EXCEPT ![r] = None] /\ locks' = [locks EXCEPT ![r] = None]
  BY DEF Drop, Return, db, IInv, TypeOK
<1>4. Chained' /\ OneDelegation' /\ \A q \in Runs : RunOK(q)'
  BY SameTables DEF Drop
<1>5. Locking'
  <2>1. lk[t] = locks[r]
    BY <1>1 DEF IInv, Locking, Stale
  <2>2. \A u \in Threads : pc'[u] # "idle" => lk'[u] = locks'[run'[u]] \/ Stale(u)'
    <3> SUFFICES ASSUME NEW u \in Threads, pc'[u] # "idle"
                 PROVE  lk'[u] = locks'[run'[u]] \/ Stale(u)'
      OBVIOUS
    <3>1. u # t /\ pc[u] # "idle" /\ run[u] \in Runs
      BY <1>2, <1>3 DEF IInv, TypeOK, ThreadOK
    <3>2. CASE run[u] # r
      BY <1>2, <1>3, <3>1, <3>2 DEF IInv, TypeOK, Locking, Stale
    <3>3. CASE run[u] = r
      <4>1. ~Working(u)
        BY <1>1, <3>1, <3>3, OneWorker
      <4>2. pc[u] \in {"wait", "lookup"}
        BY <3>1, <4>1 DEF IInv, TypeOK
      <4> QED
        BY <1>1, <1>2, <1>3, <3>1, <3>3, <4>2 DEF Stale, IInv, TypeOK
    <3> QED
      BY <3>2, <3>3
  <2>3. \A u, v \in Threads : pc'[u] \in Inside /\ pc'[v] \in Inside /\ lk'[u] = lk'[v] => u = v
    BY <1>2, <1>3 DEF IInv, Locking
  <2> QED
    BY <2>2, <2>3 DEF Locking
<1>6. StartAlone'
  BY <1>2, <1>3 DEF IInv, StartAlone, TypeOK, ThreadOK
<1>7. ObjectsApart'
  BY <1>2, <1>3 DEF IInv, TypeOK, ObjectsApart, ThreadOK
<1>8. \A u \in Threads : WorkOK(u)'
  <2> TAKE u \in Threads
  <2>1. CASE u = t
    BY <1>3, <2>1 DEF WorkOK
  <2>2. CASE u # t /\ run[u] = r
    <3>1. ~Working(u) /\ op[u] # "start"
      BY <1>1, <2>2, OneWorker DEF IInv, StartAlone
    <3> QED
      BY <1>2, <2>2, <3>1 DEF WorkOK
  <2>3. CASE u # t /\ run[u] # r
    BY <1>2, <1>3, <2>3, WorkKept DEF IInv, TypeOK
  <2> QED
    BY <2>1, <2>2, <2>3
<1>9. \A q \in Runs : CacheOK(q)'
  BY <1>1, <1>2, <1>3 DEF IInv, TypeOK, CacheOK, Open, AtHead
<1> QED
  BY <1>4, <1>5, <1>6, <1>7, <1>8, <1>9 DEF IInv, TInv

LEMMA RestartInv ==
  ASSUME IInv, TInv', NEW d \in Delegations, Restart(d)
  PROVE  IInv'
<1> USE NoneApart, ConstAssumption DEF Working, Inside
<1>1. Chained' /\ OneDelegation' /\ \A q \in Runs : RunOK(q)'
  BY SameTables DEF Restart, db
<1>2. Locking'
  BY DEF IInv, TInv, Restart, db, Locking, Stale, TypeOK, ThreadOK
<1>3. StartAlone'
  BY DEF IInv, TInv, Restart, db, StartAlone, TypeOK, ThreadOK
<1>4. ObjectsApart'
  BY DEF IInv, TInv, Restart, db, ObjectsApart, TypeOK, ThreadOK, WorkOK, Locking, Stale, CacheOK
<1>5. \A u \in Threads : WorkOK(u)'
  BY DEF IInv, TInv, Restart, db, WorkOK, Open, AtHead, NextOf, TypeOK, ThreadOK, Locking, Stale, StartAlone, ObjectsApart, CacheOK, RunOK
<1>6. \A q \in Runs : CacheOK(q)'
  BY DEF IInv, TInv, Restart, db, CacheOK, Open, AtHead, TypeOK, ThreadOK, Locking, Stale, StartAlone, ObjectsApart, WorkOK, RunOK, NextOf
<1> QED
  BY <1>1, <1>2, <1>3, <1>4, <1>5, <1>6 DEF IInv, TInv

LEMMA StepInv ==
  ASSUME AnswersArrive, IInv, [Next /\ EvictsIdle]_vars
  PROVE  IInv'
<1>1. TInv'
  BY StepTyped DEF IInv, TInv
<1>2. ASSUME NEW t \in Threads, Step(t), EvictsIdle
      PROVE  IInv'
  <2>1. ASSUME Remember(t)
        PROVE  IInv'
    BY <1>1, <1>2, <2>1, RememberInv DEF EvictsIdle
  <2>2. ASSUME NEW c \in CommitOutcomes, NotStored(t, c)
        PROVE  IInv'
    <3>1. c = "refused"
      BY <2>2 DEF NotStored, AnswersArrive
    <3> QED
      BY <1>1, <2>2, <3>1, RefusedInv
  <2> QED
    BY <1>1, <1>2, <2>1, <2>2, AcquireInv, HitInv, NotResumableInv, ResumeInv,
       SealStartInv, ReadHeadInv, RefuseInv, SealInv, StoredInv, DropInv DEF Step
<1>3. CASE UNCHANGED vars
  <2>1. Chained' /\ OneDelegation' /\ \A q \in Runs : RunOK(q)'
    BY <1>3, SameTables DEF vars, db, IInv
  <2>2. Locking' /\ StartAlone' /\ ObjectsApart'
    BY <1>3 DEF vars, IInv, Locking, Stale, StartAlone, ObjectsApart, Working
  <2>3. (\A u \in Threads : WorkOK(u)') /\ \A q \in Runs : CacheOK(q)'
    BY <1>3 DEF vars, IInv, WorkOK, CacheOK, Open, AtHead, NextOf
  <2> QED
    BY <1>1, <2>1, <2>2, <2>3 DEF IInv, TInv
<1> QED
  BY <1>1, <1>2, <1>3, CallInv, RestartInv DEF Next

LEMMA CarefulInv ==
  ASSUME AnswersArrive
  PROVE  CarefulSpec => []IInv
BY InitInv, StepInv, PTL DEF CarefulSpec

-----------------------------------------------------------------------------
\* What follows for the stored runs

\* The stored records of a run are one chain: one record per number, each naming
\* the hash of the one before (`RunWriter.seal`, the lock of `LiveRuns._lock`).
THEOREM ChainSafe ==
  ASSUME AnswersArrive
  PROVE  CarefulSpec => []Chained
<1>1. IInv => Chained
  BY DEF IInv
<1> QED
  BY <1>1, CarefulInv, PTL

\* A cache that fits every run of the process forgets idle runs only: it forgets none.
LEMMA SmallCacheIsCareful ==
  ASSUME NoEviction
  PROVE  Spec => CarefulSpec
<1>1. ASSUME TInv, [Next]_vars
      PROVE  TInv' /\ [Next /\ EvictsIdle]_vars
  <2>1. \A t \in Threads : Remember(t) => run[t] \in Runs
    BY <1>1 DEF TInv, TypeOK, ThreadOK, Remember
  <2>2. EvictsIdle
    BY <2>1, NothingEvicted DEF EvictsIdle
  <2> QED
    BY <1>1, <2>2, StepTyped
<1> QED
  BY <1>1, InitTyped, PTL DEF Spec, CarefulSpec

\* The same with no word on the cache, when it fits every run of the process.
THEOREM ChainSafeInSmallCache ==
  ASSUME AnswersArrive, NoEviction
  PROVE  Spec => []Chained
BY ChainSafe, SmallCacheIsCareful, PTL

\* No two threads work on a run at once, though `end` drops the lock object others wait for, as
\* long as the cache drops that of an idle run only and a failed commit stored nothing.
THEOREM OneThreadPerRun ==
  ASSUME AnswersArrive
  PROVE  CarefulSpec => []SingleWriter
<1>1. IInv => SingleWriter
  BY OneWorker DEF SingleWriter
<1> QED
  BY <1>1, CarefulInv, PTL

\* The same of the code as it is, with no word on what the cache drops, when it fits every run
\* of the process.
THEOREM OneThreadInSmallCache ==
  ASSUME AnswersArrive, NoEviction
  PROVE  Spec => []SingleWriter
BY OneThreadPerRun, SmallCacheIsCareful, PTL

\* A resumed or cached writer stands at the last stored record, after any number
\* of refused commits and restarts (`RunWriter.resume`, `RunWriter.revert`).
THEOREM WriterAtHead ==
  ASSUME AnswersArrive
  PROVE  CarefulSpec => []HeadIsStored
<1>1. ASSUME IInv, NEW t \in Threads, pc[t] \in {"resume", "ready"}
      PROVE  \E x \in LastRows(run[t]) :
               heap[obj[t]] = [seq |-> x.seq + 1, head |-> x.hash, closed |-> FALSE]
  <2> DEFINE r == run[t]
  <2>1. r \in Runs /\ obj[t] \in Objs
    BY <1>1 DEF IInv, TypeOK, ThreadOK, Working
  <2>2. Open(r) /\ AtHead(heap[obj[t]], r)
    BY <1>1 DEF IInv, WorkOK
  <2>3. runrow[r].count > 0 /\ runrow[r].count \in Nat
    BY <1>1, <2>1, <2>2 DEF IInv, RunOK, Open, TypeOK, RunRow
  <2>4. PICK x \in rows[r] : x.seq = runrow[r].count - 1 /\ x.hash = runrow[r].last
    BY <1>1, <2>1, <2>3 DEF IInv, RunOK
  <2>5. x \in LastRows(r)
    BY <1>1, <2>1, <2>3, <2>4 DEF IInv, RunOK, LastRows, TypeOK, Record
  <2>6. heap[obj[t]] \in Writer
    BY <1>1, <2>1 DEF IInv, TypeOK
  <2>7. heap[obj[t]].seq = x.seq + 1 /\ heap[obj[t]].head = x.hash
    BY <2>2, <2>3, <2>4 DEF AtHead
  <2>8. heap[obj[t]].closed = FALSE
    BY <2>2, <2>6 DEF AtHead, Writer
  <2>9. heap[obj[t]] = [seq |-> x.seq + 1, head |-> x.hash, closed |-> FALSE]
    BY <2>6, <2>7, <2>8 DEF Writer
  <2> QED
    BY <2>5, <2>9
<1>2. IInv => HeadIsStored
  BY <1>1 DEF HeadIsStored
<1> QED
  BY <1>2, CarefulInv, PTL

\* Nothing is stored after `run_end`, and the run is marked complete with it.
THEOREM EndStaysLast ==
  ASSUME AnswersArrive
  PROVE  CarefulSpec => []EndIsLast
<1>1. IInv => EndIsLast
  BY DEF IInv, RunOK, EndIsLast, LastRows, TypeOK, Record, RunRow
<1> QED
  BY <1>1, CarefulInv, PTL

\* Every record of a run is signed under the delegation its run_start names.
THEOREM DelegationKept ==
  ASSUME AnswersArrive
  PROVE  CarefulSpec => []OneDelegation
<1>1. IInv => OneDelegation
  BY DEF IInv
<1> QED
  BY <1>1, CarefulInv, PTL

\* All who work on a run or wait for it, and may still store something in it, hold the
\* lock object that `_lock` gives to the next caller.
THEOREM OneLockPerRun ==
  ASSUME AnswersArrive
  PROVE  CarefulSpec => []LockShared
<1>1. IInv => LockShared
  BY DEF IInv, Locking, Stale, LockShared
<1> QED
  BY <1>1, CarefulInv, PTL
-----------------------------------------------------------------------------
\* The figures of a run and its log

\* The figures of r count its rows, and no number below the count is missing.
FiguresOK(r) ==
    /\ IsFiniteSet(rows[r])
    /\ runrow[r].count = Cardinality(rows[r])
    /\ \A i \in 1..runrow[r].count : \E x \in rows[r] : x.seq = i - 1
    /\ \A f \in Figured : runrow[r].figures[f] = Cardinality({x \in rows[r] : x.kind = f})

FInv == \A r \in Runs : FiguresOK(r)

\* The tables change by a transaction that stores the record a thread has sealed.
LEMMA TableSteps ==
  ASSUME AnswersArrive, [Next]_vars
  PROVE  UNCHANGED db \/ \E t \in Threads : pc[t] = "sealed" /\ Store(run[t], rec[t])
<1>1. CASE UNCHANGED vars
  BY <1>1 DEF vars, db
<1>2. ASSUME NEW t \in Threads, Step(t)
      PROVE  UNCHANGED db \/ (pc[t] = "sealed" /\ Store(run[t], rec[t]))
  <2>1. ASSUME NEW c \in CommitOutcomes, NotStored(t, c) PROVE UNCHANGED db
    <3>1. c = "refused"
      BY <2>1 DEF NotStored, AnswersArrive
    <3> QED
      BY <2>1, <3>1 DEF NotStored
  <2>2. CASE Stored(t)
    BY <2>2 DEF Stored
  <2>3. CASE Acquire(t) \/ Hit(t) \/ NotResumable(t) \/ Resume(t) \/ SealStart(t)
    BY <2>3 DEF Acquire, Hit, NotResumable, Resume, SealStart
  <2>4. CASE Remember(t) \/ ReadHead(t) \/ Refuse(t) \/ Seal(t) \/ Drop(t)
    BY <2>4 DEF Remember, ReadHead, Refuse, Seal, Drop
  <2> QED
    BY <1>2, <2>1, <2>2, <2>3, <2>4 DEF Step
<1>3. ASSUME NEW t \in Threads, NEW o \in Ops, NEW r \in Runs, Call(t, o, r) PROVE UNCHANGED db
  BY <1>3 DEF Call
<1>4. ASSUME NEW d \in Delegations, Restart(d) PROVE UNCHANGED db
  BY <1>4 DEF Restart
<1> QED
  BY <1>1, <1>2, <1>3, <1>4 DEF Next

\* What the transaction finds: the record is the next one of a run that is not closed.
LEMMA StoreAdds ==
  ASSUME IInv, NEW t \in Threads, pc[t] = "sealed", Store(run[t], rec[t])
  PROVE  /\ run[t] \in Runs /\ rec[t] \in Record
         /\ NextOf(run[t], rec[t]) /\ ~runrow[run[t]].complete
         /\ rec[t].kind = "run_start" <=> runrow[run[t]].count = 0
         /\ rec[t] \notin rows[run[t]]
         /\ rows'[run[t]] = rows[run[t]] \cup {rec[t]}
         /\ runrow'[run[t]].count = runrow[run[t]].count + 1
         /\ \A f \in Figured : runrow'[run[t]].figures[f] =
                runrow[run[t]].figures[f] + (IF rec[t].kind = f THEN 1 ELSE 0)
         /\ \A q \in Runs \ {run[t]} : rows'[q] = rows[q] /\ runrow'[q] = runrow[q]
<1>1. run[t] \in Runs /\ rec[t] \in Record
  BY DEF IInv, TypeOK, ThreadOK
<1>2. PICK r \in Runs, x \in Record : r = run[t] /\ x = rec[t]
  BY <1>1
<1>3. NextOf(r, x) /\ RunOK(r) /\ runrow[r].count \in Nat
  BY <1>2 DEF IInv, WorkOK, TypeOK, RunRow
<1>4. ~runrow[r].complete /\ (x.kind = "run_start" <=> runrow[r].count = 0)
  <2>1. CASE op[t] = "start"
    <3>1. x.kind = "run_start" /\ ~runrow[r].live
      BY <1>2, <2>1 DEF IInv, WorkOK
    <3> QED
      BY <1>3, <3>1 DEF RunOK
  <2>2. CASE op[t] # "start"
    <3>1. Open(r) /\ x.kind # "run_start"
      BY <1>2, <2>2 DEF IInv, WorkOK
    <3> QED
      BY <1>3, <3>1 DEF RunOK, Open
  <2> QED
    BY <2>1, <2>2
<1>5. x \notin rows[r]
  BY <1>3 DEF NextOf, RunOK
<1>6. /\ rows' = [rows EXCEPT ![r] = @ \cup {x}]
      /\ runrow' = [runrow EXCEPT ![r] =
            [live     |-> TRUE,
             complete |-> @.complete \/ x.kind = "run_end",
             count    |-> @.count + 1,
             last     |-> x.hash,
             figures  |-> [f \in Figured |-> @.figures[f] + (IF x.kind = f THEN 1 ELSE 0)]]]
  BY <1>2 DEF Store
<1>7. DOMAIN rows = Runs /\ DOMAIN runrow = Runs
  BY DEF IInv, TypeOK
<1>8. /\ rows'[r] = rows[r] \cup {x}
      /\ runrow'[r].count = runrow[r].count + 1
      /\ \A f \in Figured :
            runrow'[r].figures[f] = runrow[r].figures[f] + (IF x.kind = f THEN 1 ELSE 0)
      /\ \A q \in Runs \ {r} : rows'[q] = rows[q] /\ runrow'[q] = runrow[q]
  BY <1>6, <1>7
<1> QED
  BY <1>2, <1>3, <1>4, <1>5, <1>8

LEMMA InitFigures == Init => FInv
<1> SUFFICES ASSUME Init, NEW r \in Runs PROVE FiguresOK(r)
  BY DEF FInv
<1>1. rows[r] = {} /\ runrow[r].count = 0 /\ \A f \in Figured : runrow[r].figures[f] = 0
  BY DEF Init, NoRow
<1>2. \A f : {x \in rows[r] : x.kind = f} = {}
  BY <1>1
<1>3. 1..runrow[r].count = {}
  BY <1>1
<1> QED
  BY <1>1, <1>2, <1>3, FS_EmptySet DEF FiguresOK

LEMMA StepFigures ==
  ASSUME AnswersArrive, IInv, FInv, [Next]_vars
  PROVE  FInv'
<1>1. CASE UNCHANGED db
  BY <1>1 DEF db, FInv, FiguresOK
<1>2. ASSUME NEW t \in Threads, pc[t] = "sealed", Store(run[t], rec[t]), NEW q \in Runs
      PROVE  FiguresOK(q)'
  <2>1. PICK r \in Runs, x \in Record : r = run[t] /\ x = rec[t]
    BY <1>2, StoreAdds
  <2>2. /\ NextOf(r, x) /\ x \notin rows[r] /\ rows'[r] = rows[r] \cup {x}
        /\ runrow'[r].count = runrow[r].count + 1
        /\ \A f \in Figured :
              runrow'[r].figures[f] = runrow[r].figures[f] + (IF x.kind = f THEN 1 ELSE 0)
        /\ \A p \in Runs \ {r} : rows'[p] = rows[p] /\ runrow'[p] = runrow[p]
    BY <1>2, <2>1, StoreAdds
  <2>3. FiguresOK(r) /\ FiguresOK(q)
    BY DEF FInv
  <2>4. CASE q # r
    BY <2>2, <2>3, <2>4 DEF FiguresOK
  <2>5. IsFiniteSet(rows'[r]) /\ runrow'[r].count = Cardinality(rows'[r])
    <3>1. IsFiniteSet(rows[r]) /\ runrow[r].count = Cardinality(rows[r])
      BY <2>3 DEF FiguresOK
    <3>2. /\ IsFiniteSet(rows[r] \cup {x})
          /\ Cardinality(rows[r] \cup {x}) = Cardinality(rows[r]) + 1
      BY <2>2, <3>1, FS_AddElement
    <3> QED
      BY <2>2, <3>1, <3>2
  <2>6. ASSUME NEW i \in 1..runrow'[r].count PROVE \E y \in rows'[r] : y.seq = i - 1
    <3>1. runrow[r].count \in Nat
      BY DEF IInv, TypeOK, RunRow
    <3>2. i \in 1..runrow[r].count \/ i - 1 = runrow[r].count
      BY <2>2, <3>1
    <3>3. CASE i \in 1..runrow[r].count
      BY <2>2, <2>3, <3>3 DEF FiguresOK
    <3>4. CASE i - 1 = runrow[r].count
      BY <2>2, <3>4 DEF NextOf
    <3> QED
      BY <3>2, <3>3, <3>4
  <2>7. ASSUME NEW f \in Figured
        PROVE  runrow'[r].figures[f] = Cardinality({y \in rows'[r] : y.kind = f})
    <3> DEFINE K == {y \in rows[r] : y.kind = f}
               K1 == {y \in rows'[r] : y.kind = f}
    <3>1. IsFiniteSet(K) /\ runrow[r].figures[f] = Cardinality(K) /\ x \notin K
      <4>1. IsFiniteSet(rows[r]) /\ K \in SUBSET rows[r]
        BY <2>3 DEF FiguresOK
      <4>2. IsFiniteSet(K)
        BY <4>1, FS_Subset
      <4> QED
        BY <2>2, <2>3, <4>2 DEF FiguresOK
    <3>2. K1 = IF x.kind = f THEN K \cup {x} ELSE K
      BY <2>2
    <3>3. Cardinality(K \cup {x}) = Cardinality(K) + 1
      BY <3>1, FS_AddElement
    <3>4. Cardinality(K) \in Nat
      BY <3>1, FS_CardinalityType
    <3>5. runrow'[r].figures[f] = runrow[r].figures[f] + (IF x.kind = f THEN 1 ELSE 0)
      BY <2>2
    <3> HIDE DEF K, K1
    <3>6. CASE x.kind = f
      BY <3>1, <3>2, <3>3, <3>5, <3>6 DEF K1
    <3>7. CASE x.kind # f
      <4>1. runrow[r].figures[f] \in Nat
        BY <3>1, <3>4
      <4>2. runrow'[r].figures[f] = runrow[r].figures[f]
        BY <3>5, <3>7, <4>1
      <4>3. K1 = K
        BY <3>2, <3>7
      <4> QED
        BY <3>1, <4>2, <4>3, Zenon DEF K1
    <3> QED
      BY <3>6, <3>7
  <2> QED
    BY <2>3, <2>4, <2>5, <2>6, <2>7 DEF FiguresOK
<1> QED
  BY <1>1, <1>2, TableSteps DEF FInv

LEMMA FiguresInv ==
  ASSUME AnswersArrive
  PROVE  CarefulSpec => []FInv
<1>1. [Next /\ EvictsIdle]_vars => [Next]_vars
  OBVIOUS
<1> QED
  BY <1>1, InitFigures, StepFigures, CarefulInv, PTL DEF CarefulSpec

\* The row of a run and its records, which `_store` and `end` write in one transaction,
\* agree on their number, the last hash, the end and every figure (live.py:150-240).
THEOREM FiguresTrue ==
  ASSUME AnswersArrive
  PROVE  CarefulSpec => []FiguresMatch
<1>1. ASSUME IInv, FInv, NEW r \in Runs
      PROVE  /\ runrow[r].live <=> rows[r] # {}
             /\ runrow[r].count = Cardinality(rows[r])
             /\ \A x \in LastRows(r) : runrow[r].last = x.hash
             /\ runrow[r].complete <=> \E x \in rows[r] : x.kind = "run_end"
             /\ \A f \in Figured :
                  runrow[r].figures[f] = Cardinality({x \in rows[r] : x.kind = f})
  <2>1. RunOK(r) /\ FiguresOK(r) /\ runrow[r].count \in Nat
    BY <1>1 DEF IInv, FInv, TypeOK, RunRow
  <2>2. runrow[r].live <=> rows[r] # {}
    BY <2>1 DEF RunOK
  <2>3. \A x \in LastRows(r) : runrow[r].last = x.hash
    BY <1>1, <2>2, LastRow DEF LastRows
  <2> QED
    BY <2>1, <2>2, <2>3 DEF RunOK, FiguresOK
<1>2. IInv /\ FInv => FiguresMatch
  BY <1>1 DEF FiguresMatch
<1> QED
  BY <1>2, CarefulInv, FiguresInv, PTL

\* The records of S in the order of their numbers, when there are n.
InOrder(S, n) == [i \in 1..n |-> CHOOSE x \in S : x.seq = i - 1]

\* S has one record for every number below n.
Numbered(S, n) ==
    /\ S \in SUBSET Record /\ n \in Nat
    /\ \A x, y \in S : x.seq = y.seq => x = y
    /\ \A i \in 1..n : \E x \in S : x.seq = i - 1

LEMMA OrderFacts ==
  ASSUME NEW S, NEW n, Numbered(S, n)
  PROVE  /\ InOrder(S, n) \in Seq(Record)
         /\ Len(InOrder(S, n)) = n
         /\ \A i \in 1..n : InOrder(S, n)[i] \in S /\ InOrder(S, n)[i].seq = i - 1
<1> DEFINE s == InOrder(S, n)
<1>1. n \in Nat /\ S \in SUBSET Record
  BY DEF Numbered
<1>2. \A i \in 1..n : s[i] \in S /\ s[i].seq = i - 1
  BY DEF InOrder, Numbered
<1>3. s \in [1..n -> Record]
  BY <1>1, <1>2 DEF InOrder
<1> HIDE DEF s
<1>4. s \in Seq(Record)
  BY <1>1, <1>3, SeqDef
<1>5. Len(s) \in Nat /\ 1..Len(s) = 1..n
  BY <1>3, <1>4, LenProperties
<1>6. Len(s) = n
  <2>1. \A a, b \in Nat : 1..a = 1..b => a = b
    OBVIOUS
  <2> QED
    BY <1>1, <1>5, <2>1
<1> QED
  BY <1>2, <1>4, <1>6 DEF s

\* A record with the next number comes at the end and moves nothing.
LEMMA OrderGrows ==
  ASSUME NEW S, NEW n, Numbered(S, n), NEW x, Numbered(S \cup {x}, n + 1), x.seq = n
  PROVE  InOrder(S \cup {x}, n + 1) = Append(InOrder(S, n), x)
<1> DEFINE a == InOrder(S, n)
           b == InOrder(S \cup {x}, n + 1)
<1>1. /\ a \in Seq(Record) /\ Len(a) = n
      /\ \A i \in 1..n : a[i] \in S /\ a[i].seq = i - 1
  BY OrderFacts
<1>2. /\ b \in Seq(Record) /\ Len(b) = n + 1
      /\ \A i \in 1..(n + 1) : b[i] \in S \cup {x} /\ b[i].seq = i - 1
  BY OrderFacts
<1>3. n \in Nat /\ x \in Record /\ \A y, z \in S \cup {x} : y.seq = z.seq => y = z
  BY DEF Numbered
<1> HIDE DEF a, b
<1>4. /\ Append(a, x) \in Seq(Record) /\ Len(Append(a, x)) = n + 1
      /\ \A i \in 1..n : Append(a, x)[i] = a[i]
      /\ Append(a, x)[n + 1] = x
  BY <1>1, <1>3, AppendProperties
<1>5. ASSUME NEW i \in 1..(n + 1) PROVE b[i] = Append(a, x)[i]
  <2>1. i \in 1..n \/ i = n + 1
    BY <1>3
  <2>2. CASE i \in 1..n
    BY <1>1, <1>2, <1>3, <1>4, <2>2
  <2>3. CASE i = n + 1
    BY <1>2, <1>3, <1>4, <2>3
  <2> QED
    BY <2>1, <2>2, <2>3
<1> QED
  BY <1>2, <1>4, <1>5, SeqEqual DEF a, b

LEMMA RowsNumbered ==
  ASSUME IInv, FInv, NEW r \in Runs
  PROVE  /\ Numbered(rows[r], runrow[r].count)
         /\ LogOf(r) = InOrder(rows[r], runrow[r].count)
<1>1. rows[r] \in SUBSET Record /\ runrow[r].count \in Nat
  BY DEF IInv, TypeOK, RunRow
<1> QED
  BY <1>1 DEF IInv, FInv, FiguresOK, Chained, Numbered, LogOf, InOrder

\* A transaction extends the log of one run.
LEMMA StoreExtends ==
  ASSUME IInv, FInv, IInv', FInv', NEW t \in Threads, pc[t] = "sealed", Store(run[t], rec[t])
  PROVE  Log!Next
<1>1. PICK r \in Runs, x \in Record : r = run[t] /\ x = rec[t]
  BY StoreAdds
<1> DEFINE n == runrow[r].count
<1>2. /\ NextOf(r, x) /\ ~runrow[r].complete /\ (x.kind = "run_start" <=> n = 0)
      /\ rows'[r] = rows[r] \cup {x} /\ runrow'[r].count = n + 1
      /\ \A q \in Runs \ {r} : rows'[q] = rows[q] /\ runrow'[q] = runrow[q]
  BY <1>1, StoreAdds
<1>3. Numbered(rows[r], n) /\ LogOf(r) = InOrder(rows[r], n)
  BY RowsNumbered
<1>4. /\ rows'[r] \in SUBSET Record /\ runrow'[r].count \in Nat
      /\ \A y, z \in rows'[r] : y.seq = z.seq => y = z
      /\ \A i \in 1..runrow'[r].count : \E y \in rows'[r] : y.seq = i - 1
  BY DEF IInv, TypeOK, RunRow, Chained, FInv, FiguresOK
<1>5. Numbered(rows[r] \cup {x}, n + 1)
  BY <1>2, <1>4 DEF Numbered
<1>6. LogOf(r)' = InOrder(rows[r] \cup {x}, n + 1)
  BY <1>2 DEF LogOf, InOrder
<1>7. /\ LogOf(r) \in Seq(Record) /\ Len(LogOf(r)) = n
      /\ \A i \in 1..n : LogOf(r)[i] \in rows[r] /\ LogOf(r)[i].seq = i - 1
  BY <1>3, OrderFacts
<1>8. LogOf(r)' = Append(LogOf(r), x)
  BY <1>2, <1>3, <1>5, <1>6, OrderGrows DEF NextOf
<1>9. n \in Nat /\ RunOK(r)
  BY DEF IInv, TypeOK, RunRow
<1> HIDE DEF n
<1>10. LogOf(r) # <<>> => n > 0
  BY <1>7, <1>9, EmptySeq
<1>11. n > 0 => LogOf(r)[n].hash = runrow[r].last /\ LogOf(r)[n].kind # "run_end" /\ LogOf(r) # <<>>
  <2> SUFFICES ASSUME n > 0
               PROVE  /\ LogOf(r)[n].hash = runrow[r].last /\ LogOf(r)[n].kind # "run_end"
                      /\ LogOf(r) # <<>>
    OBVIOUS
  <2>1. n \in 1..n
    BY <1>9
  <2>2. LogOf(r)[n] \in rows[r] /\ LogOf(r)[n].seq = n - 1
    BY <1>7, <2>1
  <2>3. LogOf(r)[n].hash = runrow[r].last
    BY <1>9, <2>2 DEF RunOK, IInv, Chained, n
  <2>4. LogOf(r)[n].kind # "run_end"
    BY <1>2, <1>9, <2>2 DEF RunOK
  <2>5. LogOf(r) # <<>>
    <3>1. Len(LogOf(r)) # 0
      BY <1>7, <1>9
    <3>2. ASSUME LogOf(r) = <<>> PROVE Len(LogOf(r)) = 0
      BY <3>2, EmptySeq, Zenon
    <3> QED
      BY <3>1, <3>2
  <2> QED
    BY <2>3, <2>4, <2>5
<1> DEFINE l == [q \in Runs |-> LogOf(q)]
<1>12. /\ l[r] = LogOf(r) /\ l'[r] = LogOf(r)'
       /\ DOMAIN l = Runs /\ DOMAIN l' = Runs
       /\ \A q \in Runs \ {r} : l'[q] = l[q]
  BY <1>2 DEF LogOf
<1>13. l' = [l EXCEPT ![r] = Append(@, x)]
  BY <1>8, <1>12
<1>14. /\ l'[r] = Append(l[r], x)
       /\ Len(l'[r]) = n + 1 /\ Len(l[r]) = n
       /\ l'[r][n + 1] = x
  BY <1>1, <1>7, <1>8, <1>12, AppendProperties
<1>15. ~Log!Closed(l[r]) /\ Log!Follows(x, l[r])
  BY <1>2, <1>7, <1>9, <1>10, <1>11, <1>12 DEF Log!Closed, Log!Follows, Log!Tip, NextOf, RunOK, n
<1>16. Log!Extend(r)
  BY <1>13, <1>14, <1>15 DEF Log!Extend
<1> QED
  BY <1>16 DEF Log!Next

\* A step that leaves the tables alone leaves the logs alone.
LEMMA SameLog ==
  ASSUME UNCHANGED db
  PROVE  [q \in Runs |-> LogOf(q)]' = [q \in Runs |-> LogOf(q)]
BY DEF db, LogOf

LEMMA InitLog == Init => Log!Init
<1> SUFFICES ASSUME Init PROVE [r \in Runs |-> LogOf(r)] = [r \in Runs |-> <<>>]
  BY DEF Log!Init
<1>1. ASSUME NEW r \in Runs PROVE LogOf(r) = <<>>
  <2>1. Numbered(rows[r], runrow[r].count) /\ LogOf(r) = InOrder(rows[r], runrow[r].count)
    BY InitInv, InitFigures, RowsNumbered
  <2>2. runrow[r].count = 0
    BY DEF Init, NoRow
  <2>3. LogOf(r) \in Seq(Record) /\ Len(LogOf(r)) = 0
    BY <2>1, <2>2, OrderFacts
  <2> QED
    BY <2>3, EmptySeq
<1> QED
  BY <1>1

\* What any interleaving of threads, refused commits and restarts does to the tables is
\* what RunLog says: one linked record at the end of one open run at a time, from
\* `run_start` to `run_end`, and nothing that was stored ever changes.
THEOREM LogImplemented ==
  ASSUME AnswersArrive
  PROVE  CarefulSpec => ImplementsRunLog
<1>1. ASSUME IInv, FInv, IInv', FInv', [Next /\ EvictsIdle]_vars
      PROVE  Log!Next \/ UNCHANGED [r \in Runs |-> LogOf(r)]
  <2>1. [Next]_vars
    BY <1>1
  <2> QED
    BY <1>1, <2>1, TableSteps, StoreExtends, SameLog
<1> QED
  BY <1>1, InitLog, CarefulInv, FiguresInv, PTL DEF CarefulSpec, ImplementsRunLog, Log!Spec

\* The code as it is implements RunLog when the cache has room for every run, that is as
\* long as a process serves at most MAX_WRITERS runs (live.py:94).
THEOREM LogImplementedInSmallCache ==
  ASSUME AnswersArrive, NoEviction
  PROVE  Spec => ImplementsRunLog
BY LogImplemented, SmallCacheIsCareful, PTL
=============================================================================
