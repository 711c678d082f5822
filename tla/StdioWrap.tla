----------------------------- MODULE StdioWrap ------------------------------
(***************************************************************************)
(* sealedrun-mcp-wrap: one thread relays the client's lines to an MCP      *)
(* server, one the server's lines to the client, and both post records of  *)
(* the calls, which they match through a table of open requests. When the  *)
(* server's output ends the main thread posts what is still open and exits *)
(* without waiting for the first thread. A step is what a thread does      *)
(* between two points where another can be seen: the table, a post, a pipe.*)
(***************************************************************************)
EXTENDS Integers, Sequences, FiniteSets, SequencesExt

CONSTANTS
    Requests,    \* recorded requests the client may send, once each
    Ids,         \* JSON-RPC ids
    id,          \* id[q]: the id of request q
    MaxPending,  \* MAX_PENDING
    MaxCancels,  \* bound of the model: cancellations the client sends
    Echoed,      \* bound of the model: requests the server may answer more than once
    None

ASSUME WrapAssumption ==
    /\ id \in [Requests -> Ids]
    /\ MaxPending \in Nat \ {0}
    /\ MaxCancels \in Nat
    /\ Echoed \subseteq Requests
    /\ None \notin Requests

VARIABLES
    strict,    \* --strict
    unsent,    \* requests the client has not sent
    cancelled, \* requests the client has cancelled
    table,     \* `_pending`, the oldest first
    client,    \* the client relay thread: pc, request read, requests to post, pc after them
    server,    \* the server relay thread: pc, request replied to, request matched, answer
    main,      \* the main thread: pc and requests to post
    written,   \* requests written to the server
    answered,  \* requests the server has answered
    alive,     \* the server process lives
    rung,      \* how far `_finish` has gone: 1 stdin closed, 2 SIGTERM, 3 SIGKILL
    posted,    \* posted[q]: posts made for q, with the reply and whether they were accepted
    delivered  \* results the client was given under the id of a request

vars == <<strict, unsent, cancelled, table, client, server, main,
          written, answered, alive, rung, posted, delivered>>

child == <<written, answered, alive, rung>>
-----------------------------------------------------------------------------
\* Helpers

Running == main.pc # "exited"

\* The places in the table under the id of q: at most one.
At(q) == {i \in 1..Len(table) : id[table[i]] = id[q]}

\* The open requests there.
Under(q) == {table[i] : i \in At(q)}

\* Mutant: the request is looked up and left in the table.
TakeNothing(q) == table' = table

\* `_pending.pop(id)`
Take(q) == table' = IF At(q) = {} THEN table ELSE RemoveAt(table, CHOOSE i \in At(q) : TRUE)

\* `_post`: the recorder accepts the record, refuses it, or does not answer in time and
\* may still store it.
Post(q, reply, accepted) ==
    posted' = [posted EXCEPT ![q] = Append(@, [reply |-> reply, accepted |-> accepted])]

\* The client thread posts `todo` as truncated and goes on at `next`.
ClientGoes(cur, todo, next) ==
    client' = [pc |-> IF todo = {} THEN next ELSE "post",
               cur |-> cur, todo |-> todo, next |-> next]
-----------------------------------------------------------------------------
\* The client relay thread: `_pump_client`, `client_line`

\* A request is read; an open one under its id is taken from the table.
ReadRequest(q) ==
    /\ Running /\ client.pc = "read" /\ q \in unsent
    /\ unsent' = unsent \ {q}
    /\ Take(q)
    /\ ClientGoes(q, Under(q), "insert")
    /\ UNCHANGED <<strict, cancelled, server, main, child, posted, delivered>>

\* notifications/cancelled: the open request under that id is taken from the table.
ReadCancel(q) ==
    /\ Running /\ client.pc = "read" /\ q \notin unsent \cup cancelled
    /\ Cardinality(cancelled) < MaxCancels
    /\ cancelled' = cancelled \cup {q}
    /\ Take(q)
    /\ ClientGoes(None, Under(q), "write")
    /\ UNCHANGED <<strict, unsent, server, main, child, posted, delivered>>

\* A request that was given up is recorded as truncated.
PostTruncated(q, accepted) ==
    /\ Running /\ client.pc = "post" /\ q \in client.todo
    /\ Post(q, None, accepted)
    /\ ClientGoes(client.cur, client.todo \ {q}, client.next)
    /\ UNCHANGED <<strict, unsent, cancelled, table, server, main, child, delivered>>

\* Mutant: the table grows by one over its limit.
InsertPast ==
    LET open == Append(table, client.cur)
        over == IF Len(open) > MaxPending + 1 THEN {Head(open)} ELSE {}
    IN
    /\ Running /\ client.pc = "insert"
    /\ table' = IF over = {} THEN open ELSE Tail(open)
    /\ ClientGoes(client.cur, over, "write")
    /\ UNCHANGED <<strict, unsent, cancelled, server, main, child, posted, delivered>>

\* The request enters the table and pushes out the oldest past MAX_PENDING.
Insert ==
    LET open == Append(table, client.cur)
        over == IF Len(open) > MaxPending THEN {Head(open)} ELSE {}
    IN
    /\ Running /\ client.pc = "insert"
    /\ table' = IF over = {} THEN open ELSE Tail(open)
    /\ ClientGoes(client.cur, over, "write")
    /\ UNCHANGED <<strict, unsent, cancelled, server, main, child, posted, delivered>>

\* The line is written to the server; a closed pipe ends the thread.
Write ==
    LET line == {client.cur} \ {None}
    IN
    /\ Running /\ client.pc = "write"
    /\ \/ /\ alive /\ rung = 0
          /\ written' = written \cup line
          /\ ClientGoes(None, {}, "read")
       \/ /\ ~alive \/ rung > 0
          /\ ClientGoes(None, {}, "ended")
          /\ UNCHANGED written
    /\ UNCHANGED <<strict, unsent, cancelled, table, server, main,
                   answered, alive, rung, posted, delivered>>

\* The client closes its end.
ClientEof ==
    /\ Running /\ client.pc = "read"
    /\ ClientGoes(None, {}, "ended")
    /\ UNCHANGED <<strict, unsent, cancelled, table, server, main, child, posted, delivered>>
-----------------------------------------------------------------------------
\* The server relay thread: `_pump_server`, `server_line`

\* A reply to q, the first or another one, is read and matched with the open request under
\* its id; if there is none it is passed on as it is, also with --strict.
ReadReply(q) ==
    LET line == IF q \in answered THEN "again" ELSE "result"
    IN
    /\ Running /\ server.pc = "read" /\ alive /\ q \in written \ (answered \ Echoed)
    /\ answered' = answered \cup {q}
    /\ Take(q)
    /\ \/ /\ Under(q) = {}
          /\ server' = [pc |-> "deliver", req |-> q, match |-> None, line |-> line]
       \/ \E p \in Under(q) :
            server' = [pc |-> "post", req |-> q, match |-> p, line |-> line]
    /\ UNCHANGED <<strict, unsent, cancelled, client, main, written, alive, rung, posted, delivered>>

\* A reply whose id no request can have, or a batch: withheld under --strict.
ReadUnmatchable ==
    /\ Running /\ server.pc = "read" /\ alive
    /\ server' = [pc |-> "deliver", req |-> None, match |-> None,
                  line |-> IF strict THEN "refusal" ELSE "unmatchable"]
    /\ UNCHANGED <<strict, unsent, cancelled, table, client, main, child, posted, delivered>>

\* Mutant: a record the recorder gave up on does not hold the result back.
PostReplyLenient(accepted) ==
    /\ Running /\ server.pc = "post"
    /\ Post(server.match, server.req, accepted)
    /\ server' = [server EXCEPT !.pc = "deliver", !.match = None]
    /\ UNCHANGED <<strict, unsent, cancelled, table, client, main, child, delivered>>

\* The call is recorded before its result is delivered.
PostReply(accepted) ==
    /\ Running /\ server.pc = "post"
    /\ Post(server.match, server.req, accepted)
    /\ server' = [pc |-> "deliver", req |-> server.req, match |-> None,
                  line |-> IF strict /\ ~accepted THEN "refusal" ELSE server.line]
    /\ UNCHANGED <<strict, unsent, cancelled, table, client, main, child, delivered>>

Listening == [pc |-> "read", req |-> None, match |-> None, line |-> None]
Deaf      == [Listening EXCEPT !.pc = "ended"]
Results   == {"result", "again"}

\* The line is written to the client, or the client is gone, which ends the thread.
Deliver ==
    /\ Running /\ server.pc = "deliver"
    /\ \/ /\ delivered' = delivered \cup ({server.req} \X ({server.line} \cap Results))
          /\ server' = Listening
       \/ server' = Deaf /\ UNCHANGED delivered
    /\ UNCHANGED <<strict, unsent, cancelled, table, client, main, child, posted>>

\* The server's output ends, with the process or before.
ServerEof ==
    /\ Running /\ server.pc = "read"
    /\ server' = Deaf
    /\ UNCHANGED <<strict, unsent, cancelled, table, client, main, child, posted, delivered>>
-----------------------------------------------------------------------------
\* The end: `_finish` on either thread, `closed`, os._exit

Finishing == client.pc = "ended" \/ main.pc = "finish"

\* Mutant: nothing follows SIGTERM.
EscalatePolitely ==
    /\ Running /\ Finishing /\ alive /\ rung < 2
    /\ rung' = rung + 1
    /\ UNCHANGED <<strict, unsent, cancelled, table, client, server, main,
                   written, answered, alive, posted, delivered>>

\* The server's stdin is closed; a server that stays gets SIGTERM, then SIGKILL.
Escalate ==
    /\ Running /\ Finishing /\ alive /\ rung < 3
    /\ rung' = rung + 1
    /\ UNCHANGED <<strict, unsent, cancelled, table, client, server, main,
                   written, answered, alive, posted, delivered>>

\* The server process exits, by itself, on a forwarded signal or on one of `_finish`.
ChildEnds ==
    /\ Running /\ alive
    /\ alive' = FALSE
    /\ UNCHANGED <<strict, unsent, cancelled, table, client, server, main,
                   written, answered, rung, posted, delivered>>

\* `downstream.join()` returns.
Joined ==
    /\ main.pc = "join" /\ server.pc = "ended"
    /\ main' = [main EXCEPT !.pc = "finish"]
    /\ UNCHANGED <<strict, unsent, cancelled, table, client, server, child, posted, delivered>>

\* `_finish` returns, and `closed` empties the table.
Close ==
    /\ main.pc = "finish" /\ ~alive
    /\ main' = [pc |-> "close", todo |-> table]
    /\ table' = <<>>
    /\ UNCHANGED <<strict, unsent, cancelled, client, server, child, posted, delivered>>

\* A request that was open when the server ended is recorded as truncated.
PostOpen(accepted) ==
    /\ main.pc = "close" /\ main.todo # <<>>
    /\ Post(Head(main.todo), None, accepted)
    /\ main' = [main EXCEPT !.todo = Tail(@)]
    /\ UNCHANGED <<strict, unsent, cancelled, table, client, server, child, delivered>>

\* os._exit, whatever the client relay thread is doing.
Exit ==
    /\ main.pc = "close" /\ main.todo = <<>>
    /\ main' = [main EXCEPT !.pc = "exited"]
    /\ UNCHANGED <<strict, unsent, cancelled, table, client, server, child, posted, delivered>>
-----------------------------------------------------------------------------

Init ==
    /\ strict \in BOOLEAN
    /\ unsent = Requests
    /\ cancelled = {}
    /\ table = <<>>
    /\ client = [pc |-> "read", cur |-> None, todo |-> {}, next |-> "read"]
    /\ server = Listening
    /\ main = [pc |-> "join", todo |-> <<>>]
    /\ written = {} /\ answered = {}
    /\ alive = TRUE /\ rung = 0
    /\ posted = [q \in Requests |-> <<>>]
    /\ delivered = {}

ClientThread ==
    \/ \E q \in Requests : ReadRequest(q) \/ ReadCancel(q)
    \/ \E q \in Requests, accepted \in BOOLEAN : PostTruncated(q, accepted)
    \/ Insert \/ Write \/ ClientEof

ServerStep == Deliver \/ \E accepted \in BOOLEAN : PostReply(accepted)

MainThread == Joined \/ Close \/ Exit \/ \E accepted \in BOOLEAN : PostOpen(accepted)

Next ==
    \/ ClientThread
    \/ ServerStep \/ ServerEof \/ ReadUnmatchable \/ \E q \in Requests : ReadReply(q)
    \/ MainThread
    \/ Escalate \/ ChildEnds

\* Posts have a deadline and the client reads what it is given, so the server thread and
\* the main thread go on; `_finish` has timeouts; a killed process dies, and its output
\* ends with it. Nothing is assumed of the client's lines; the server answers only what was
\* written to it, in any order, never or any number of times.
Spec ==
    /\ Init /\ [][Next]_vars
    /\ WF_vars(ServerStep)
    /\ WF_vars(~alive /\ ServerEof)
    /\ WF_vars(MainThread)
    /\ WF_vars(Escalate)
    /\ WF_vars(rung = 3 /\ ChildEnds)
-----------------------------------------------------------------------------
\* Properties

PostOf == [reply : Requests \cup {None}, accepted : BOOLEAN]

\* Every variable keeps its type, and the table its limit.
TypeOK ==
    /\ strict \in BOOLEAN /\ alive \in BOOLEAN /\ rung \in 0..3
    /\ unsent \subseteq Requests /\ cancelled \subseteq Requests
    /\ answered \subseteq written /\ written \subseteq Requests
    /\ table \in Seq(Requests) /\ Len(table) <= MaxPending
    /\ client \in [pc : {"read", "post", "insert", "write", "ended"},
                   cur : Requests \cup {None}, todo : SUBSET Requests,
                   next : {"read", "insert", "write", "ended"}]
    /\ server \in [pc : {"read", "post", "deliver", "ended"},
                   req : Requests \cup {None}, match : Requests \cup {None},
                   line : {None, "result", "again", "refusal", "unmatchable"}]
    /\ main \in [pc : {"join", "finish", "close", "exited"}, todo : Seq(Requests)]
    /\ posted \in [Requests -> Seq(PostOf)]
    /\ delivered \subseteq Requests \X Results

\* The places a request can be in: at the client thread before it enters the table, in the
\* table, taken out of it by one of the three threads, or posted.
Places(q) ==
      (IF client.cur = q /\ client.next = "insert" THEN {<<"read", 0>>} ELSE {})
    \cup {<<"table", i>> : i \in {j \in 1..Len(table) : table[j] = q}}
    \cup (IF q \in client.todo THEN {<<"client", 0>>} ELSE {})
    \cup (IF server.match = q THEN {<<"server", 0>>} ELSE {})
    \cup {<<"main", i>> : i \in {j \in 1..Len(main.todo) : main.todo[j] = q}}
    \cup {<<"posted", i>> : i \in 1..Len(posted[q])}

\* However replies, cancellations, reused ids, the limit of the table and the end of the
\* server meet, every request that was read is in one place: none is posted twice and none
\* gets lost while the wrapper runs (mcpwrap.py:151, 162, 177, 210, 220).
PostedOnce == \A q \in Requests \ unsent : \E p \in Places(q) : Places(q) = {p}

\* The request was taken from the table by another thread than the one with its reply.
GivenUp(q) ==
    \/ q \in client.todo
    \/ \E i \in 1..Len(posted[q]) : posted[q][i].reply = None

\* q was posted with an answer of the server, and accepted if that is asked for.
Replied(q, strictly) ==
    \E i \in 1..Len(posted[q]) : posted[q][i].reply = q /\ (strictly => posted[q][i].accepted)

\* The first result the client was given for a request was recorded with it before, and accepted
\* if --strict is on, unless the request was cancelled or pushed out of the table, or the client
\* used its id twice (mcpwrap.py:114-115, 213-214). What the server says again under that id is
\* not recorded, nor withheld by --strict when the first was (mcpwrap.py:210-212): of it holds
\* only that it comes after a post of the request, accepted or not.
ResultIsRecorded ==
    \A q \in Requests : (\A p \in Requests \ {q} : id[p] # id[q]) =>
        /\ <<q, "result">> \in delivered => GivenUp(q) \/ Replied(q, strict)
        /\ <<q, "again">> \in delivered => GivenUp(q) \/ Replied(q, FALSE)

\* When the client closes its end or the server is gone the wrapper exits, whatever server
\* and recorder do (mcpwrap.py:8-10).
ExitsInTheEnd == (client.pc = "ended" \/ ~alive) ~> (main.pc = "exited")

\* "A request cancelled by the client or still open when the server exits is recorded as
\* truncated" (mcpwrap.py:19-20).
NoneLostAtExit == main.pc = "exited" => \A q \in written : posted[q] # <<>>
=============================================================================
