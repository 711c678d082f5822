------------------------------ MODULE Exchange ------------------------------
(***************************************************************************)
(* Calls that the recorder forwards: to a model provider, an MCP server or *)
(* an A2A agent. A call is checked, sent, its reply read whole or relayed  *)
(* chunk by chunk, and recorded: a whole reply before the client gets it,  *)
(* a stream after it ended, however it ended. A step is what a call does   *)
(* between two awaits.                                                     *)
(***************************************************************************)
EXTENDS GroupedRun

CONSTANTS
    Calls,      \* forwarded calls
    Shapes,     \* the requests that the calls may be: functions from Calls to ShapeOf
    MaxLists    \* MAX_LISTS

VARIABLES
    shape,      \* shape[c]: the request
    call,       \* call[c]: where its handler is and what it has
    tools,      \* the version of its tool list the MCP server answers with
    seen        \* ListSeen: <<run, version>>, the least recently used first

calls == <<shape, call, tools, seen>>

\* A request: the proxy it came to; what its body is ("unserved": bad headers, an unknown or
\* unconfigured target, a path or size that is refused; "get": a GET or DELETE); how the target is
\* located; whether its labels hold one the policy rule keeps from the cloud; whether the reply is
\* to be a stream; the events of a full reply, each in a chunk of its own.
ShapeOf == [proxy : {"llm", "mcp", "a2a"}, cloud : BOOLEAN, barred : BOOLEAN, stream : BOOLEAN,
            body : {"act", "list", "cancel", "other", "get", "batch", "badid", "unreadable", "unserved"},
            events : Seq({"delta", "working", "completed", "failed", "message", "error", "result",
                          "input"})]

\* Where a request can come to: there are lists at an MCP server only and tasks to cancel at an
\* agent only, and no server asks for input before it lists its tools. Only the last event of a
\* reply settles it, and that of a model or a server does.
WellAsked(s) ==
    LET last == s.events[Len(s.events)]
    IN
    /\ s.body = "list" => s.proxy = "mcp"
    /\ s.body = "cancel" => s.proxy = "a2a"
    /\ \A i \in 1..Len(s.events) - 1 : s.events[i] \in {"delta", "working"}
    /\ s.body \in {"act", "list"} =>
        /\ s.events # <<>>
        /\ s.proxy = "llm" => last \in {"result", "error"}
        /\ s.proxy = "mcp" => last \in {"result", "error"} \/ (last = "input" /\ s.body = "act")

ASSUME ShapesAssumption ==
    \A f \in Shapes : f \in [Calls -> ShapeOf] /\ \A c \in Calls : WellAsked(f[c])

\* pc, the run `run_for` named, chunks received and delivered, how the reply ended, and what
\* the client was answered.
Arriving == [pc |-> "arrive", run |-> None, got |-> 0, gave |-> 0, end |-> None, reply |-> None,
             version |-> 0]

Answer(c, what) == call' = [call EXCEPT ![c].pc = "done", ![c].reply = what]
-----------------------------------------------------------------------------
\* What a request is

\* A model call is a JSON object that names a routed model.
ParseModel(s) == IF s.body = "act" THEN "recorded" ELSE "refused"

\* Mutant: a recorded method without an id is passed on as a notification.
ParseToolNotified(s) ==
    CASE s.body \in {"batch", "unserved"} -> "refused"
      [] s.body \in {"act", "list"}       -> "recorded"
      [] OTHER                            -> "passed"

\* An MCP batch, or a recorded method with no id that a response could be matched to, is
\* refused; what is not tool use or a listing is passed on.
ParseTool(s) ==
    CASE s.body \in {"batch", "badid", "unserved"} -> "refused"
      [] s.body \in {"act", "list"}                -> "recorded"
      [] OTHER                                     -> "passed"

\* Whatever is posted to an agent in the cloud is recorded, and refused if it cannot be read.
ParseDelegation(s) ==
    IF s.body = "get" THEN "passed"
    ELSE IF s.body \in {"batch", "badid", "unserved"} \/ (s.body = "unreadable" /\ s.cloud) THEN "refused"
    ELSE IF s.body \in {"act", "cancel"} \/ s.cloud THEN "recorded"
    ELSE "passed"

Parsed(s) == CASE s.proxy = "llm" -> ParseModel(s)
               [] s.proxy = "mcp" -> ParseTool(s)
               [] s.proxy = "a2a" -> ParseDelegation(s)

Recordable(s) == Parsed(s) = "recorded"

\* The policy rule decides about it.
Governed(s) ==
    CASE s.proxy = "llm" -> TRUE
      [] s.proxy = "mcp" -> s.body = "act"
      [] s.proxy = "a2a" -> s.cloud \/ s.body = "act"

\* `Rule.evaluate`
Blocks(s) == s.cloud /\ s.barred

Blocked(s) == Recordable(s) /\ Governed(s) /\ Blocks(s)
-----------------------------------------------------------------------------
\* What a reply says

Received(c) == SubSeq(shape[c].events, 1, call[c].got)

Has(events, e) == \E i \in 1..Len(events) : events[i] = e

\* `response_in`: where the messages are a response to the MCP request.
ResponsesIn(events) == {i \in 1..Len(events) : events[i] \in {"result", "error", "input"}}

\* The end marker of the provider's format was seen.
EndSeen(events) == Has(events, "result")

\* A model stream cut before its end.
ModelTruncated(c) ==
    shape[c].stream /\ call[c].end \in {"cut", "left"} /\ ~EndSeen(Received(c))

ModelOutcome(c) ==
    IF \/ ModelTruncated(c)
       \/ call[c].end \in {"unreachable", "over", "refused"}
       \/ shape[c].stream /\ Has(Received(c), "error")
    THEN "error" ELSE "success"

ToolOutcome(c) ==
    LET events    == Received(c)
        responses == ResponsesIn(events)
        response  == events[Min(responses)]
    IN
    IF responses = {} THEN "error"
    ELSE CASE response = "result" -> "success"
           [] response = "input"  -> "pending"
           [] response = "error"  -> "error"

\* `outcome_of`: an error anywhere, else the last task state, else a direct message; a method
\* that is recorded for its place only needs no state.
DelegationOutcome(c) ==
    LET events == Received(c)
        states == {i \in 1..Len(events) : events[i] \in {"working", "completed", "failed"}}
        state  == events[Max(states)]
    IN
    IF events = <<>> \/ Has(events, "error") THEN "error"
    ELSE IF states # {}
    THEN CASE state = "completed" -> "success"
           [] state = "failed"    -> "error"
           [] state = "working"   -> "pending"
    ELSE IF Has(events, "message") \/ shape[c].body = "other" THEN "success" ELSE "error"

\* The records that `_record` of each proxy makes.
EntryWith(c, outcome, truncated) ==
    [by |-> c, outcome |-> outcome, truncated |-> truncated, chunks |-> call[c].got,
     version |-> IF shape[c].body = "list" THEN call[c].version ELSE 0]

ModelEntry(c)      == EntryWith(c, ModelOutcome(c), ModelTruncated(c))
ToolEntry(c)       == EntryWith(c, ToolOutcome(c), ResponsesIn(Received(c)) = {})
DelegationEntry(c) == EntryWith(c, DelegationOutcome(c), call[c].got = 0)

Entry(c) == IF call[c].end = "blocked" THEN EntryWith(c, "blocked", FALSE)
            ELSE CASE shape[c].proxy = "llm" -> ModelEntry(c)
                   [] shape[c].proxy = "mcp" -> ToolEntry(c)
                   [] shape[c].proxy = "a2a" -> DelegationEntry(c)
-----------------------------------------------------------------------------
\* Before the call is sent

\* The request is refused: nothing is sent, nothing recorded.
Refuse(c) ==
    /\ call[c].pc = "arrive" /\ Parsed(shape[c]) = "refused"
    /\ Answer(c, "refused")
    /\ UNCHANGED <<shape, tools, seen, runs, spent>>

\* The policy rule keeps the call from its target, and the refusal is recorded.
Block(c) ==
    /\ call[c].pc = "arrive" /\ Blocked(shape[c])
    /\ call' = [call EXCEPT ![c].pc = "record", ![c].end = "blocked"]
    /\ UNCHANGED <<shape, tools, seen, runs, spent>>

\* A call nothing stands against goes out; a recorded A2A call is announced first.
Admit(c) ==
    /\ call[c].pc = "arrive" /\ Parsed(shape[c]) # "refused" /\ ~Blocked(shape[c])
    /\ call' = [call EXCEPT ![c].pc =
                    IF shape[c].proxy = "a2a" /\ Recordable(shape[c]) THEN "announce" ELSE "send"]
    /\ UNCHANGED <<shape, tools, seen, runs, spent>>

\* The record id and the run that `run_for` names go out in X-SealedRun-Parent.
Announce(c) ==
    /\ call[c].pc = "announce"
    /\ RunFor
    /\ call' = [call EXCEPT ![c].pc = "send", ![c].run = current']
    /\ UNCHANGED <<shape, tools, seen>>

\* No run can be opened, and the call is not sent.
AnnounceFails(c) ==
    /\ call[c].pc = "announce"
    /\ NoRun
    /\ Answer(c, "failed")
    /\ UNCHANGED <<shape, tools, seen>>
-----------------------------------------------------------------------------
\* The reply

\* The provider of a model cannot be reached, or does not answer in time whatever it did.
ModelUnreachable(c) ==
    /\ call[c].pc = "send" /\ shape[c].proxy = "llm"
    /\ call' = [call EXCEPT ![c].pc = "record", ![c].end = "unreachable"]
    /\ UNCHANGED <<shape, tools, seen, runs, spent>>

\* The same of a server or an agent leaves no record.
TargetUnreachable(c) ==
    /\ call[c].pc = "send" /\ shape[c].proxy # "llm"
    /\ Answer(c, "failed")
    /\ UNCHANGED <<shape, tools, seen, runs, spent>>

\* The provider refuses the call, with a body that is read ...
ModelRefused(c) ==
    /\ call[c].pc = "send" /\ shape[c].proxy = "llm"
    /\ call' = [call EXCEPT ![c].pc = "refusal"]
    /\ UNCHANGED <<shape, tools, seen, runs, spent>>

\* ... and recorded: a body that drops off ends a call that asked for a stream with an
\* exception, unrecorded.
ReadRefusal(c) ==
    /\ call[c].pc = "refusal"
    /\ \/ call' = [call EXCEPT ![c].pc = "record", ![c].end = "refused"]
       \/ shape[c].stream /\ Answer(c, "failed")
    /\ UNCHANGED <<shape, tools, seen, runs, spent>>

\* What a server or an agent refuses, and its reply to what is not recorded, is relayed.
Relayed(c) ==
    /\ call[c].pc = "send" /\ shape[c].proxy # "llm"
    /\ Answer(c, "relayed")
    /\ UNCHANGED <<shape, tools, seen, runs, spent>>

\* The reply begins; the answer to `tools/list` is what the server has to offer now.
Begin(c) ==
    /\ call[c].pc = "send" /\ Recordable(shape[c])
    /\ call' = [call EXCEPT ![c].version = tools,
                             ![c].pc = IF shape[c].stream THEN "relay" ELSE "read"]
    /\ UNCHANGED <<shape, tools, seen, runs, spent>>

\* The call is over, n chunks having come and m gone out: the upstream is closed and, shielded
\* from the cancellation of a client that left, the record made.
Over(c, end, n, m) ==
    LET result == Has(SubSeq(shape[c].events, 1, n), "result") IN
    [call EXCEPT ![c].pc = IF shape[c].body = "list" /\ result THEN "look" ELSE "record",
                 ![c].end = end, ![c].got = n, ![c].gave = m]

\* A plain reply is read whole, or drops off, or passes the size cap.
ReadModel(c) ==
    /\ call[c].pc = "read" /\ shape[c].proxy = "llm"
    /\ \/ call' = Over(c, "whole", Len(shape[c].events), 0)
       \/ \E end \in {"unreachable", "over"} : call' = Over(c, end, 0, 0)
    /\ UNCHANGED <<shape, tools, seen, runs, spent>>

\* The reply of a server or an agent that drops off is recorded, and given, empty.
ReadTarget(c) ==
    /\ call[c].pc = "read" /\ shape[c].proxy # "llm"
    /\ \/ call' = Over(c, "whole", Len(shape[c].events), 0)
       \/ \E end \in {"cut", "over"} : call' = Over(c, end, 0, 0)
    /\ UNCHANGED <<shape, tools, seen, runs, spent>>

\* Mutant: a chunk is kept after it was delivered, and lost with a client that leaves.
ChunkLate(c) ==
    /\ call[c].pc = "relay" /\ call[c].got < Len(shape[c].events)
    /\ \/ call' = [call EXCEPT ![c].got = call[c].got + 1, ![c].gave = call[c].got + 1]
       \/ call' = Over(c, "left", call[c].got, call[c].gave + 1)
    /\ UNCHANGED <<shape, tools, seen, runs, spent>>

\* A chunk is kept and passed on; the client may be gone by then.
Chunk(c) ==
    LET kept == call[c].got + 1
    IN
    /\ call[c].pc = "relay" /\ call[c].got < Len(shape[c].events)
    /\ \/ call' = [call EXCEPT ![c].got = kept, ![c].gave = kept]
       \/ call' = Over(c, "left", kept, call[c].gave)
    /\ UNCHANGED <<shape, tools, seen, runs, spent>>

\* The stream ends: closed by the upstream, broken or over the cap, or left by the client.
StreamEnds(c) ==
    /\ call[c].pc = "relay"
    /\ \E end \in {"whole", "cut", "left"} : call' = Over(c, end, call[c].got, call[c].gave)
    /\ UNCHANGED <<shape, tools, seen, runs, spent>>
-----------------------------------------------------------------------------
\* The record

\* A listing is about the run it would be recorded in.
Look(c) ==
    /\ call[c].pc = "look"
    /\ RunFor
    /\ call' = [call EXCEPT ![c].pc = "compare", ![c].run = current']
    /\ UNCHANGED <<shape, tools, seen>>

\* ListSeen.remember: the key moves to the end.
Remembered(r, v) ==
    LET places == {i \in 1..Len(seen) : seen[i][1] = r}
        others == IF places = {} THEN seen ELSE RemoveAt(seen, Min(places))
        kept   == Append(others, <<r, v>>)
    IN  IF Len(kept) > MaxLists THEN Tail(kept) ELSE kept

\* A listing that is already in the run is not recorded again; another is remembered.
Compare(c) ==
    LET known == Has(seen, <<call[c].run, call[c].version>>)
    IN
    /\ call[c].pc = "compare"
    /\ IF known
       THEN Answer(c, "answered") /\ UNCHANGED seen
       ELSE /\ call' = [call EXCEPT ![c].pc = "record"]
            /\ seen' = Remembered(call[c].run, call[c].version)
    /\ UNCHANGED <<shape, tools, runs, spent>>

Reply(c) == CASE call[c].end = "blocked" -> "blocked"
              [] call[c].end \in {"unreachable", "over"} -> "failed"
              [] OTHER -> "answered"

\* The record of a call that went out to an agent has the id that was announced to it.
Named(c) == shape[c].proxy = "a2a" /\ call[c].end # "blocked"

\* The table of records has that id already, and takes no second one.
Taken(c) == Named(c) /\ Entry(c) \in Records

\* The record is stored; a client that waits gets its answer.
Record(c) ==
    /\ call[c].pc = "record" /\ ~Taken(c)
    /\ \E r \in Runs : Stored(r, Entry(c))
    /\ Answer(c, Reply(c))
    /\ UNCHANGED <<shape, tools, seen>>

\* Mutant: the answer does not wait for a record.
RecordFailsLenient(c) ==
    /\ call[c].pc = "record"
    /\ NotStored
    /\ Answer(c, Reply(c))
    /\ UNCHANGED <<shape, tools, seen>>

\* The record cannot be stored: a client that waits gets a 500, one that has its stream
\* learns of it at most by the way the stream closes.
RecordFails(c) ==
    /\ \/ call[c].pc = "record" /\ NotStored
       \/ call[c].pc = "look" /\ NoRun
    /\ \/ Answer(c, "failed")
       \/ shape[c].stream /\ call[c].end \in {"whole", "cut", "left"} /\ Answer(c, "answered")
    /\ UNCHANGED <<shape, tools, seen>>

\* The record is stored though the commit raised: a second attempt follows, or this was one.
RecordLost(c) ==
    /\ call[c].pc = "record" /\ ~Taken(c)
    /\ Lost(Entry(c))
    /\ \/ UNCHANGED call
       \/ Disturbed /\ Answer(c, "failed")
       \/ /\ Disturbed /\ shape[c].stream /\ call[c].end \in {"whole", "cut", "left"}
          /\ Answer(c, "answered")
    /\ UNCHANGED <<shape, tools, seen>>

\* The server changes its tools.
ToolsChange ==
    /\ tools = 1 /\ tools' = 2
    /\ UNCHANGED <<shape, call, seen, runs, spent>>
-----------------------------------------------------------------------------

CallStep(c) ==
    \/ Refuse(c) \/ Block(c) \/ Admit(c) \/ Announce(c) \/ AnnounceFails(c)
    \/ ModelUnreachable(c) \/ TargetUnreachable(c) \/ ModelRefused(c) \/ ReadRefusal(c)
    \/ Relayed(c) \/ Begin(c) \/ ReadModel(c) \/ ReadTarget(c) \/ Chunk(c) \/ StreamEnds(c)
    \/ Look(c) \/ Compare(c) \/ Record(c) \/ RecordFails(c) \/ RecordLost(c)

\* The process dies with the calls it was serving.
CallsCut ==
    /\ call' = [c \in Calls |-> IF call[c].pc \in {"arrive", "done"} THEN call[c]
                                ELSE [call[c] EXCEPT !.pc = "done", !.reply = "cut"]]
    /\ seen' = <<>>
    /\ UNCHANGED <<shape, tools>>

\* Some of the calls are made.
CallsInit ==
    /\ shape \in Shapes
    /\ call \in [Calls -> {Arriving, [Arriving EXCEPT !.pc = "done"]}]
    /\ tools = 1
    /\ seen = <<>>
=============================================================================
