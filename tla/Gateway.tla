------------------------------ MODULE Gateway -------------------------------
(***************************************************************************)
(* The proxies, the OTLP receiver and the step API of one recorder, over   *)
(* the runs of one label, while runs are ended, the label falls idle, the  *)
(* store refuses transactions, or keeps one without saying so, and the     *)
(* process restarts.                                                       *)
(***************************************************************************)
EXTENDS Steps, Traces, FiniteSets

\* A record is a call's, a step's or a span's.
ASSUME SpansAssumption == \A x \in Exports : ToSet(Batch[x]) \cap (Calls \cup Posts) = {}

vars == <<runs, spent, calls, posts, exports>>

Restart ==
    /\ Spend("restart")
    /\ Forgotten /\ CallsCut /\ PostsCut /\ ExportsCut

\* Somebody is in `run_for` or `record`.
Busy ==
    \/ \E c \in Calls : call[c].pc \in {"announce", "look", "record"}
    \/ \E p \in Posts : post[p].pc = "look" \/ (post[p].pc = "append" /\ step[p].to = None)
    \/ \E x \in Exports : export[x].pc \in {"span", "record"}

Init == RunsInit /\ CallsInit /\ PostsInit /\ ExportsInit

Next ==
    \/ (ToolsChange \/ \E c \in Calls : CallStep(c)) /\ UNCHANGED <<posts, exports>>
    \/ (\E p \in Posts : PostStep(p)) /\ UNCHANGED <<shape, call, tools, exports>>
    \/ (\E x \in Exports : Send(x) \/ ExportStep(x)) /\ UNCHANGED <<calls, posts>>
    \/ (Idle \/ (Busy /\ Replacing) \/ \E r \in Runs : ApiEnd(r)) /\ UNCHANGED <<calls, posts, exports>>
    \/ Restart

Spec == Init /\ [][Next]_vars
-----------------------------------------------------------------------------
\* Properties

\* Where the records of a call, a step or a span are.
Places == UNION {{r} \X (1..Len(log[r])) : r \in Runs}
RecordsOf(who) == {at \in Places : log[at[1]][at[2]].by = who}

RecordedIn(r, who) == \E e \in ToSet(log[r]) : e.by = who

\* e records the list of tools a server answered with, seen by a proxy or told by a step.
Listing(e) == e.by \in Calls \cup Posts /\ e.outcome = "success" /\ e.version # 0

Untroubled(kinds) == \A t \in kinds : spent[t] = 0

\* What the proxied calls are about to record.
Coming == {Entry(c) : c \in {d \in Calls : call[d].pc = "record"}}

\* A listing of version v is on the chain or about to be.
Listed(v) == \E e \in Records \cup Coming : Listing(e) /\ e.version = v

CallRecorded(c) ==
    LET told == call[c].reply \in {"answered", "blocked"} /\ Recordable(shape[c])
        list == shape[c].body = "list"
    IN
    /\ spent["lost"] = 0 \/ Named(c) => Cardinality(RecordsOf(c)) <= 1
    /\ told /\ ~list /\ (shape[c].stream => Untroubled({"fault", "clash"}))
          => RecordsOf(c) # {}
    /\ told /\ list /\ Untroubled({"fault", "clash", "restart"})
          => RecordsOf(c) # {} \/ Listed(call[c].version)
    /\ told /\ shape[c].proxy = "a2a" /\ call[c].run # None
       /\ Untroubled({"fault", "lost", "end", "idle"})
          => RecordedIn(call[c].run, c)

PostRecorded(p) ==
    /\ spent["lost"] = 0 => Cardinality(RecordsOf(p)) <= 1
    /\ post[p].reply = "recorded"
          => IF ListStep(p) THEN RecordedIn(post[p].run, p) ELSE RecordsOf(p) # {}
    /\ post[p].reply = "unchanged" /\ Untroubled({"fault", "clash", "restart"})
          => Listed(step[p].version)

ExportRecorded(x) ==
    export[x].reply = "ok" /\ Untroubled({"fault", "clash", "restart"}) =>
        \A s \in ToSet(Batch[x]) \ Invalid :
            RecordsOf(s) # {} \/ \E y \in Exports : export[y].pc = "record" /\ Span(y) = s

\* "A call that cannot be recorded fails" (core.py:9, mcp.py:15): who was given a whole
\* answer, or told that policy blocks the call, or that the step is recorded, can find it on
\* the chain; in one record, unless the store kept one without saying so, and in one whatever
\* happens if its id was announced to an agent. A listing that was not recorded again is on the
\* chain in the version the client was given, or on its way, if neither the store nor the process
\* fails; so is a span of an accepted export. A delegation is in the run announced to the callee,
\* if nothing happens to that run.
AnswerIsRecorded ==
    /\ \A c \in Calls : CallRecorded(c)
    /\ \A p \in Posts : PostRecorded(p)
    /\ \A x \in Exports : ExportRecorded(x)

\* A stream is on the chain as far as the client has seen it, whatever ended it. When it broke
\* off or was left, its record says "success" only with the end of the answer, its last event,
\* in it, unless the method of an agent has no outcome of its own (a2a.py:370), and that of a
\* model call or tool use is marked truncated if and only if the end is missing
\* (core.py:14-15, mcp.py:16). A model's error event does not end its stream.
StreamIsRecorded ==
    \A r \in Runs : \A i \in 1..Len(log[r]) :
        LET e     == log[r][i]
            asked == shape[e.by]
            whole == e.chunks = Len(asked.events)
        IN
        e.by \in Calls =>
            /\ e.chunks >= call[e.by].gave
            /\ asked.stream /\ call[e.by].end \in {"cut", "left"} =>
                  /\ e.outcome = "success" => whole \/ asked.body = "other"
                  /\ asked.proxy = "mcp" => (e.truncated <=> ~whole)
                  /\ asked.proxy = "llm" =>
                        (e.truncated <=> (~whole \/ Last(asked.events) = "error"))

\* What acts on its target, and whatever is posted to an agent in the cloud.
Acting(s) ==
    s.body \in {"act", "list", "cancel"} \/ (s.proxy = "a2a" /\ s.cloud /\ s.body # "get")

\* Nothing that acts on a target goes past the record and the rule: a batch or a call no
\* response can be matched to never leaves, what acts leaves only to be recorded, and of what
\* policy keeps from the cloud only messages of MCP that use no tool leave, and what is asked by
\* GET or ended by DELETE (mcp.py:26-28, a2a.py:20-25). Nor does a step get onto the chain with
\* what only a recorder can have seen (steps.py:176).
NothingPast ==
    /\ \A c \in Calls :
        LET s == shape[c]
        IN
        \/ call[c].pc \in {"send", "refusal", "relay", "read", "look", "compare"}
        \/ call[c].pc = "record" /\ call[c].end # "blocked"
        =>  /\ s.body \notin {"batch", "badid"}
            /\ Acting(s) => Recordable(s)
            /\ s.cloud /\ s.barred =>
                  s.body = "get" \/ (s.proxy = "mcp" /\ s.body \in {"list", "other", "unreadable"})
    /\ \A p \in Posts : step[p].body = "claims" => RecordsOf(p) = {}

\* A listing seen by the proxy is in a run once for each time it changed, and a span once
\* however often its batch is sent, by one exporter or several at a time (README.md:369, 554).
\* A run that is replaced between `run_for` and `record`, or by the second attempt of a record
\* that the store kept, is left out: see RememberedIsRecorded.
\* It is about two listings at a time: when an old list is remembered after a new one, the
\* next call records the new one again.
RecordedOnce ==
    Untroubled({"fault", "lost", "end", "idle"}) =>
        \A r \in Runs : \A i, j \in 1..Len(log[r]) :
            LET d == log[r][i]
                e == log[r][j]
            IN
            i < j => /\ d.by # e.by
                     /\ d.by \in Calls /\ e.by \in Calls /\ Listing(d) /\ Listing(e)
                        => d.version # e.version

\* The parent link of a callee's run can be resolved: an A2A call that is over is the record
\* that was announced, in the run that was announced (SPEC.md:332).
ParentOnChain ==
    \A c \in Calls :
        shape[c].proxy = "a2a" /\ call[c].reply = "answered" /\ call[c].run # None
            => RecordedIn(call[c].run, c)

\* A model call that went out is on the chain also when the provider refuses or breaks off:
\* "An upstream error status arrives as a plain body and is handled like a plain call"
\* (core.py:427).
FailureIsRecorded ==
    \A c \in Calls :
        /\ shape[c].proxy = "llm" /\ call[c].reply = "failed"
        /\ Untroubled(Trouble)
        => RecordsOf(c) # {}

\* What is remembered as recorded in a run is in that run, or on its way into it:
\* "Remember `result` under `key`, once it has been recorded" (mcp.py:310), "a span id
\* already recorded in its run is skipped silently" (otlp.py:17).
RememberedIsRecorded ==
    /\ \A k \in ToSet(seen) :
        \/ \E e \in ToSet(log[k[1]]) : Listing(e) /\ e.version = k[2]
        \/ \E c \in Calls : call[c].pc = "record" /\ call[c].run = k[1]
    /\ \A k \in ToSet(marked) :
        \/ k[2] \in Invalid
        \/ RecordedIn(k[1], k[2])
        \/ \E x \in Exports : export[x].pc = "record" /\ Span(x) = k[2]
=============================================================================
