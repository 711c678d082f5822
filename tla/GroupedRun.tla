----------------------------- MODULE GroupedRun -----------------------------
(***************************************************************************)
(* The runs of one X-SealedRun-Run label, as RunGrouper promises them to   *)
(* the proxies: `run_for` names the current run, or opens another one for  *)
(* an idle label, and `record` stores in the current run or, when that was *)
(* closed or the append failed, in a replacement. Each is one step here;   *)
(* what other calls can see of the steps inside is `Replacing`. RunGrouper *)
(* has all of them and implements this (RunGrouperProofs).                 *)
(***************************************************************************)
EXTENDS Integers, Sequences, SequencesExt

CONSTANTS
    Runs,      \* run ids, positive numbers
    Trouble,   \* what may go wrong: "fault", "lost", "end", "idle", "clash",
               \* "split", "restart"
    Budget,    \* bound of the model: how often each of them may, together
    None

ASSUME GroupedAssumption ==
    /\ Runs \subseteq Nat \ {0}
    /\ {"fault", "lost", "end", "idle", "clash", "split", "restart"} \subseteq Trouble
    /\ Budget \subseteq [Trouble -> Nat]
    /\ None \notin Runs /\ None \notin {"answered", "blocked", "failed", "recorded", "unchanged", "ok"}

VARIABLES
    live,     \* live[r]: "absent", "open" or "closed"
    log,      \* log[r]: records of r behind its run_start
    current,  \* run id the grouper holds for the label, or None
    idle,     \* the label was not used for idle_seconds
    spent     \* spent[t]: how often t has happened

runs == <<live, log, current, idle>>

\* Run ids are handed out in order.
Fresh(r) == live[r] = "absent" /\ \A q \in Runs : live[q] = "absent" => r <= q

Spend(t) ==
    /\ spent' = [spent EXCEPT ![t] = @ + 1]
    /\ spent' \in Budget

\* There has been a reason for a run to be replaced.
Disturbed == \E t \in {"fault", "lost", "end", "idle"} : spent[t] > 0

\* The second attempt of a record fails like the first, or replaces what another call has put
\* in the place of the run that failed it.
Clash == Disturbed /\ Spend("clash")

\* The current run is replaced by a fresh one that holds the records es. It is ended before,
\* unless the store refused that.
Replaced(es) ==
    /\ \E r \in Runs, ended \in {TRUE, spent'["fault"] = 0} :
        /\ Fresh(r)
        /\ live' = [q \in Runs |-> IF q = r THEN "open"
                                   ELSE IF q = current /\ ended THEN "closed" ELSE live[q]]
        /\ log' = [log EXCEPT ![r] = es]
        /\ current' = r
    /\ idle' = FALSE

Usable == current # None /\ ~idle

\* `run_for`: the current run, open or closed behind the grouper's back, or a fresh one.
RunFor ==
    \/ Usable /\ UNCHANGED <<runs, spent>>
    \/ ~Usable /\ (UNCHANGED spent \/ Spend("fault")) /\ Replaced(<<>>)

\* The current run is ended; no other could be opened in its place.
Ended ==
    /\ current # None /\ live[current] = "open"
    /\ live' = [live EXCEPT ![current] = "closed"]
    /\ UNCHANGED <<log, current, idle>>

\* `run_for` raised what the store raised.
NoRun == ~Usable /\ Spend("fault") /\ (UNCHANGED runs \/ Ended)

\* e is the last record of r, which is the current run, or one that `run_for` named and the
\* store did not let be ended since.
Appended(r, e) ==
    /\ live[r] = "open" /\ (r = current \/ spent["fault"] > 0)
    /\ log' = [log EXCEPT ![r] = Append(@, e)]
    /\ UNCHANGED <<live, current, idle>>

\* `record` returned: e is in a run that took it, or in the replacement r of one that was closed
\* or did not say that it did. A run that was opened and given up at once, with no record in it,
\* is not kept in the model.
Stored(r, e) ==
    \/ Appended(r, e) /\ UNCHANGED spent
    \/ /\ \/ (Usable => live[current] = "closed" \/ spent["lost"] > 0) /\ UNCHANGED spent
          \/ Spend("fault") \/ Clash
       /\ Replaced(<<e>>) /\ current' = r

\* The store kept e, and the commit raised all the same: the first attempt of `record` goes on
\* to the second, which may store e again; the second raises, with e in the replacement of a run
\* that failed the first.
Lost(e) ==
    /\ Spend("lost")
    /\ \/ \E r \in Runs : Appended(r, e)
       \/ /\ Usable => live[current] = "closed" \/ spent["fault"] > 0 \/ spent["lost"] > 0
          /\ Replaced(<<e>>)

\* `record` raised LiveRunError or what the store raised; its last attempt stored nothing.
NotStored ==
    /\ Spend("fault") \/ Clash
    /\ UNCHANGED runs \/ Ended \/ Replaced(<<>>)

\* What can be seen of a `record` or `run_for` that is not over: the run it found idle, or that
\* did not take its record, is ended; it is replaced, with no record in the new one yet.
Replacing ==
    /\ Disturbed /\ Spend("split")
    /\ \/ Ended
       \/ current # None /\ (live[current] = "closed" \/ spent["fault"] > 0) /\ Replaced(<<>>)
-----------------------------------------------------------------------------
\* What happens to the label meanwhile

\* A run is ended through the API.
ApiEnd(r) ==
    /\ live[r] = "open" /\ Spend("end")
    /\ live' = [live EXCEPT ![r] = "closed"]
    /\ UNCHANGED <<log, current, idle>>

\* idle_seconds pass without a call.
Idle ==
    /\ Usable /\ Spend("idle")
    /\ idle' = TRUE
    /\ UNCHANGED <<live, log, current>>

\* The grouper's part of a restart: its mapping is lost, the runs stay open.
Forgotten ==
    /\ current' = None
    /\ idle' = FALSE
    /\ UNCHANGED <<live, log>>

RunsInit ==
    /\ live = [r \in Runs |-> "absent"]
    /\ log = [r \in Runs |-> <<>>]
    /\ current = None
    /\ idle = FALSE
    /\ spent = [t \in Trouble |-> 0]

\* What happens to the label while calls make the records E.
RunsNext(E) ==
    \/ RunFor \/ NoRun \/ NotStored \/ Replacing \/ Idle
    \/ \E r \in Runs : ApiEnd(r) \/ \E e \in E : Stored(r, e)
    \/ \E e \in E : Lost(e)
    \/ Spend("restart") /\ Forgotten

RunsSpec(E) == RunsInit /\ [][RunsNext(E)]_<<runs, spent>>

\* The records of every run, in one set.
Records == UNION {ToSet(log[r]) : r \in Runs}
=============================================================================
