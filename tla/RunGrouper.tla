----------------------------- MODULE RunGrouper -----------------------------
(***************************************************************************)
(* The proxy's RunGrouper: calls that carry one label share a live run. A  *)
(* run is replaced when it was idle too long or when an append to it       *)
(* fails, and the least recently used label is ended past MAX_OPEN_RUNS.   *)
(* `run_for` holds one lock; appends, the API and a crash do not wait for  *)
(* it. A live run is what LiveRuns promises of it: open, closed or absent. *)
(***************************************************************************)
EXTENDS Integers, Sequences, SequencesExt

CONSTANTS
    Calls,        \* proxy calls, one record each
    Labels,       \* X-SealedRun-Run values, the missing one included
    label,        \* label[c]: the label that call c carries
    Runs,         \* run ids, positive numbers
    IdleSeconds,  \* SEALEDRUN_PROXY_RUN_IDLE_SECONDS, in ticks
    MaxOpenRuns,  \* MAX_OPEN_RUNS
    MaxTime,      \* bound of the model: ticks of the clock
    Named,        \* calls whose record has an id that was chosen before it (a2a.py:171)
    MaxFaults,    \* bound of the model: transactions the store refuses
    MaxLosses,    \* bound of the model: appends the store kept though the commit raised
    MaxEnds,      \* bound of the model: runs ended through the API
    MaxRestarts,  \* bound of the model: restarts of the process
    None

ASSUME GrouperAssumption ==
    /\ label \in [Calls -> Labels]
    /\ Runs \subseteq Nat \ {0}
    /\ IdleSeconds \in Nat
    /\ MaxTime \in Nat
    /\ Named \subseteq Calls
    /\ MaxFaults \in Nat /\ MaxLosses \in Nat /\ MaxEnds \in Nat /\ MaxRestarts \in Nat
    /\ MaxOpenRuns \in Nat \ {0}
    /\ None \notin Calls
    /\ None \notin Labels
    /\ None \notin Runs

VARIABLES
    live,    \* live[r]: "absent", "open" or "closed"
    opened,  \* opened[r]: label in the run_start of r
    stored,  \* stored[r]: calls whose record is in r
    order,   \* labels of `_runs`, the least recently used first
    runOf,   \* runOf[l]: run id `_runs` holds for l, or None
    seen,    \* seen[l]: its last_seen
    lock,    \* call that holds `_lock`, or None
    now,     \* the monotonic clock
    pc,      \* position of each call
    fresh,   \* it is in the second attempt of `record`
    got,     \* run id that `run_for` returned, or None
    at,      \* `now` as `run_for` read it
    reply,   \* what the caller of `record` was told
    faults,  \* transactions refused so far
    losses,  \* appends kept so far though the commit raised ...
    lost,    \* ... and the calls they were for, the history of the variable above
    ends,    \* runs ended through the API so far
    lives,   \* restarts so far
    past     \* runs of earlier lives of the process

runs == <<live, opened, stored>>
map  == <<order, runOf, seen>>
call == <<pc, fresh, got, at, reply>>
raised == <<losses, lost>>
vars == <<live, opened, stored, order, runOf, seen, lock, now,
          pc, fresh, got, at, reply, faults, losses, lost, ends, lives, past>>
-----------------------------------------------------------------------------
\* Helpers

\* A dictionary has a label once.
Without(s, l) ==
    IF \E i \in DOMAIN s : s[i] = l THEN RemoveAt(s, CHOOSE i \in DOMAIN s : s[i] = l) ELSE s

Goto(c, to) == pc' = [pc EXCEPT ![c] = to]

\* `LiveRuns.end` as `_end_quietly` calls it: a refused transaction leaves the run open,
\* a run that is not open is left alone, and either error is swallowed.
EndQuietly(r) ==
    \/ live[r] = "open" /\ live' = [live EXCEPT ![r] = "closed"] /\ UNCHANGED faults
    \/ live[r] = "open" /\ faults < MaxFaults /\ faults' = faults + 1 /\ UNCHANGED live
    \/ live[r] # "open" /\ UNCHANGED <<live, faults>>

\* `record` ends, with the record or with an exception.
Reply(c, what) ==
    /\ reply' = [reply EXCEPT ![c] = what]
    /\ Goto(c, "done")
    /\ fresh' = [fresh EXCEPT ![c] = FALSE]
    /\ got' = [got EXCEPT ![c] = None]
-----------------------------------------------------------------------------
\* `run_for`

\* Mutant: a call falls back to the run used last, whatever its label.
HitLatest(c) ==
    LET l == label[c]
    IN
    /\ pc[c] = "lookup" /\ lock = None
    /\ ~fresh[c] /\ order # <<>> /\ now - seen[l] <= IdleSeconds
    /\ seen' = [seen EXCEPT ![l] = now]
    /\ order' = Append(Without(order, l), l)
    /\ got' = [got EXCEPT ![c] = runOf[order[Len(order)]]]
    /\ Goto(c, "append")
    /\ UNCHANGED <<runs, runOf, lock, now, fresh, at, reply, faults, raised, ends, lives, past>>

\* Mutant: a hit leaves the label where it was in `_runs`.
HitInPlace(c) ==
    LET l == label[c]
    IN
    /\ pc[c] = "lookup" /\ lock = None
    /\ ~fresh[c] /\ runOf[l] # None /\ now - seen[l] <= IdleSeconds
    /\ seen' = [seen EXCEPT ![l] = now]
    /\ got' = [got EXCEPT ![c] = runOf[l]]
    /\ Goto(c, "append")
    /\ UNCHANGED <<runs, order, runOf, lock, now, fresh, at, reply, faults, raised, ends, lives, past>>

\* The run of the label is current: touch it and return it.
Hit(c) ==
    LET l == label[c]
    IN
    /\ pc[c] = "lookup" /\ lock = None
    /\ ~fresh[c] /\ runOf[l] # None /\ now - seen[l] <= IdleSeconds
    /\ seen' = [seen EXCEPT ![l] = now]
    /\ order' = Append(Without(order, l), l)
    /\ got' = [got EXCEPT ![c] = runOf[l]]
    /\ Goto(c, "append")
    /\ UNCHANGED <<runs, runOf, lock, now, fresh, at, reply, faults, raised, ends, lives, past>>

\* No run, an idle one, or one that an append failed on: take the lock to replace it.
Replace(c) ==
    LET l == label[c]
    IN
    /\ pc[c] = "lookup" /\ lock = None
    /\ fresh[c] \/ runOf[l] = None \/ now - seen[l] > IdleSeconds
    /\ lock' = c
    /\ at' = [at EXCEPT ![c] = now]
    /\ Goto(c, IF runOf[l] = None THEN "start" ELSE "close")
    /\ UNCHANGED <<runs, map, now, fresh, got, reply, faults, raised, ends, lives, past>>

\* The replaced run is ended, or cannot be.
Close(c) ==
    /\ pc[c] = "close"
    /\ EndQuietly(runOf[label[c]])
    /\ Goto(c, "start")
    /\ UNCHANGED <<opened, stored, map, lock, now, fresh, got, at, reply, raised, ends, lives, past>>

\* `LiveRuns.start` under the label; the mapping moves to the new run.
Start(c) ==
    LET l == label[c]
    IN
    /\ pc[c] = "start"
    /\ \E r \in Runs :
        /\ live[r] = "absent" /\ \A q \in Runs : live[q] = "absent" => r <= q
        /\ live' = [live EXCEPT ![r] = "open"]
        /\ opened' = [opened EXCEPT ![r] = l]
        /\ runOf' = [runOf EXCEPT ![l] = r]
        /\ got' = [got EXCEPT ![c] = r]
    /\ seen' = [seen EXCEPT ![l] = at[c]]
    /\ at' = [at EXCEPT ![c] = 0]
    /\ order' = Append(Without(order, l), l)
    /\ IF Len(order') > MaxOpenRuns
       THEN Goto(c, "evict") /\ UNCHANGED lock
       ELSE Goto(c, "append") /\ lock' = None
    /\ UNCHANGED <<stored, now, fresh, reply, faults, raised, ends, lives, past>>

\* Mutant: a failing start leaves the lock taken.
StartFailsLocked(c) ==
    /\ pc[c] = "start"
    /\ faults < MaxFaults /\ faults' = faults + 1
    /\ at' = [at EXCEPT ![c] = 0]
    /\ Reply(c, "failed")
    /\ UNCHANGED <<runs, map, lock, now, raised, ends, lives, past>>

\* `LiveRuns.start` raises what the store raised, which `record` does not catch.
StartFails(c) ==
    /\ pc[c] = "start"
    /\ faults < MaxFaults /\ faults' = faults + 1
    /\ lock' = None
    /\ at' = [at EXCEPT ![c] = 0]
    /\ Reply(c, "failed")
    /\ UNCHANGED <<runs, map, now, raised, ends, lives, past>>

\* Mutant: the evicted run is forgotten and not ended.
EvictOpen(c) ==
    /\ pc[c] = "evict"
    /\ runOf' = [runOf EXCEPT ![Head(order)] = None]
    /\ order' = Tail(order)
    /\ lock' = None
    /\ Goto(c, "append")
    /\ UNCHANGED <<runs, seen, now, fresh, got, at, reply, faults, raised, ends, lives, past>>

\* Past MAX_OPEN_RUNS the least recently used label is forgotten and its run ended.
Evict(c) ==
    /\ pc[c] = "evict"
    /\ EndQuietly(runOf[Head(order)])
    /\ runOf' = [runOf EXCEPT ![Head(order)] = None]
    /\ order' = Tail(order)
    /\ lock' = None
    /\ Goto(c, "append")
    /\ UNCHANGED <<opened, stored, seen, now, fresh, got, at, reply, raised, ends, lives, past>>
-----------------------------------------------------------------------------
\* `record`

\* A record with an id of its own is in the table, which takes no second one (db.py, RecordRow).
Taken(c) == c \in Named /\ \E r \in Runs : c \in stored[r]

Store(c) == stored' = [stored EXCEPT ![got[c]] = @ \cup {c}]

\* The append stored the record.
Recorded(c) ==
    /\ pc[c] = "append" /\ live[got[c]] = "open" /\ ~Taken(c)
    /\ Store(c)
    /\ Reply(c, "recorded")
    /\ UNCHANGED <<live, opened, map, lock, now, at, faults, raised, ends, lives, past>>

\* The append raises: the run was closed, the record's id is taken, the store refused the
\* record, or it kept it and the answer to the commit was lost.
Raised(c) ==
    \/ (live[got[c]] # "open" \/ Taken(c)) /\ UNCHANGED <<stored, faults, raised>>
    \/ /\ live[got[c]] = "open"
       /\ faults < MaxFaults /\ faults' = faults + 1
       /\ UNCHANGED <<stored, raised>>
    \/ /\ live[got[c]] = "open" /\ ~Taken(c)
       /\ losses < MaxLosses /\ losses' = losses + 1
       /\ lost' = lost \cup {c}
       /\ Store(c)
       /\ UNCHANGED faults

\* Mutant: the second error is swallowed like the first.
UnrecordedQuietly(c) ==
    /\ pc[c] = "append"
    /\ Raised(c)
    /\ IF fresh[c]
       THEN Reply(c, "recorded")
       ELSE /\ Goto(c, "lookup")
            /\ fresh' = [fresh EXCEPT ![c] = TRUE]
            /\ got' = [got EXCEPT ![c] = None]
            /\ UNCHANGED reply
    /\ UNCHANGED <<live, opened, map, lock, now, at, ends, lives, past>>

\* LiveRunError, whatever raised it. The first time the run is replaced and the append tried
\* again, also when the record was kept; the second error goes to the caller.
Unrecorded(c) ==
    /\ pc[c] = "append"
    /\ Raised(c)
    /\ IF fresh[c]
       THEN Reply(c, "failed")
       ELSE /\ Goto(c, "lookup")
            /\ fresh' = [fresh EXCEPT ![c] = TRUE]
            /\ got' = [got EXCEPT ![c] = None]
            /\ UNCHANGED reply
    /\ UNCHANGED <<live, opened, map, lock, now, at, ends, lives, past>>
-----------------------------------------------------------------------------
\* Environment

\* Somebody ends the run through the API.
ApiEnd(r) ==
    /\ live[r] = "open"
    /\ ends < MaxEnds /\ ends' = ends + 1
    /\ live' = [live EXCEPT ![r] = "closed"]
    /\ UNCHANGED <<opened, stored, map, lock, now, call, faults, raised, lives, past>>

\* Time passes.
Tick ==
    /\ now < MaxTime /\ now' = now + 1
    /\ UNCHANGED <<runs, map, lock, call, faults, raised, ends, lives, past>>

\* The process dies with the calls it was serving and forgets its mappings.
Restart ==
    LET cut == {c \in Calls : pc[c] # "done" /\ (pc[c] # "lookup" \/ fresh[c])}
    IN
    /\ lives < MaxRestarts /\ lives' = lives + 1
    /\ order' = <<>>
    /\ runOf' = [l \in Labels |-> None]
    /\ seen' = [l \in Labels |-> 0]
    /\ lock' = None
    /\ pc' = [c \in Calls |-> IF c \in cut THEN "done" ELSE pc[c]]
    /\ reply' = [c \in Calls |-> IF c \in cut THEN "cut" ELSE reply[c]]
    /\ fresh' = [c \in Calls |-> FALSE]
    /\ got' = [c \in Calls |-> None]
    /\ at' = [c \in Calls |-> 0]
    /\ past' = {r \in Runs : live[r] # "absent"}
    /\ UNCHANGED <<runs, now, faults, raised, ends>>
-----------------------------------------------------------------------------

\* Some of the calls are made; the others count as cut before this life of the process.
Init ==
    /\ live = [r \in Runs |-> "absent"]
    /\ opened = [r \in Runs |-> None]
    /\ stored = [r \in Runs |-> {}]
    /\ order = <<>>
    /\ runOf = [l \in Labels |-> None]
    /\ seen = [l \in Labels |-> 0]
    /\ lock = None
    /\ now = 0
    /\ reply \in [Calls -> {"none", "cut"}]
    /\ pc = [c \in Calls |-> IF reply[c] = "none" THEN "lookup" ELSE "done"]
    /\ fresh = [c \in Calls |-> FALSE]
    /\ got = [c \in Calls |-> None]
    /\ at = [c \in Calls |-> 0]
    /\ faults = 0 /\ losses = 0 /\ lost = {} /\ ends = 0 /\ lives = 0
    /\ past = {}

Step(c) ==
    \/ Hit(c) \/ Replace(c) \/ Close(c) \/ Start(c) \/ StartFails(c) \/ Evict(c)
    \/ Recorded(c) \/ Unrecorded(c)

Next ==
    \/ \E c \in Calls : Step(c)
    \/ \E r \in Runs : ApiEnd(r)
    \/ Tick
    \/ Restart

Spec == Init /\ [][Next]_vars /\ \A c \in Calls : WF_vars(Step(c))
-----------------------------------------------------------------------------
\* Properties

\* Every variable keeps its type.
TypeOK ==
    /\ live \in [Runs -> {"absent", "open", "closed"}]
    /\ opened \in [Runs -> Labels \cup {None}]
    /\ stored \in [Runs -> SUBSET Calls]
    /\ order \in Seq(Labels)
    /\ runOf \in [Labels -> Runs \cup {None}]
    /\ seen \in [Labels -> 0..MaxTime]
    /\ lock \in Calls \cup {None}
    /\ now \in 0..MaxTime
    /\ pc \in [Calls -> {"lookup", "close", "start", "evict", "append", "done"}]
    /\ fresh \in [Calls -> BOOLEAN]
    /\ got \in [Calls -> Runs \cup {None}]
    /\ at \in [Calls -> 0..MaxTime]
    /\ reply \in [Calls -> {"none", "recorded", "failed", "cut"}]
    /\ losses \in 0..MaxLosses /\ lost \subseteq Calls
    /\ faults \in 0..MaxFaults /\ ends \in 0..MaxEnds /\ lives \in 0..MaxRestarts
    /\ past \subseteq Runs

\* A record never lands in a run that was opened under another label, whatever runs
\* were replaced, evicted or closed between `run_for` and `append` (core.py:226-230).
OwnLabel == \A r \in Runs : \A c \in stored[r] : opened[r] = label[c]

\* The answer of `record` is true, and no call is recorded twice, as far as the store tells:
\* one that was told of a record is in a run; one that was told of an error, or has no answer
\* yet, is in a run only if the store kept an append whose commit raised (live.py:186-193), and
\* only then is it in two, once per attempt. A record with an id of its own is never in two.
ToldTrue ==
    /\ \A r, q \in Runs : \A c \in stored[r] \cap stored[q] : r # q => c \in lost \ Named
    /\ \A c \in Calls :
        /\ reply[c] = "recorded" => \E r \in Runs : c \in stored[r]
        /\ reply[c] # "recorded" => \A r \in Runs : c \in stored[r] => c \in lost

\* While the store takes every transaction, each open run of this process is the current
\* run of its label or about to be ended by whoever holds the lock: labels that a caller
\* invents do not leave more than MAX_OPEN_RUNS runs open (core.py:178).
NoLeak ==
    faults = 0 =>
        /\ \A r \in Runs \ past : live[r] = "open" => runOf[opened[r]] = r
        /\ lock = None => Len(order) <= MaxOpenRuns

\* The label that is given up for a new one is the one used longest ago, though every hit
\* and every replacement moved the others about (core.py:188 and 200).
EvictsOldest ==
    [][\A l, m \in Labels :
        /\ Len(order) > MaxOpenRuns /\ lives' = lives
        /\ runOf[l] # None /\ runOf'[l] = None /\ runOf'[m] # None
        => seen[l] <= seen[m]]_vars

\* No call waits for ever for `_lock`: every one is answered, or cut by a restart.
AllAnswered == <>(\A c \in Calls : pc[c] = "done")

\* As long as the store takes every transaction, a run that was closed behind the
\* grouper's back costs no call its record: it is replaced (core.py:222).
NoCallGivenUp == faults = 0 => \A c \in Calls : reply[c] # "failed"
=============================================================================
