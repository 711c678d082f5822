---------------------------- MODULE ModelCalls ----------------------------
(***************************************************************************)
(* The model proxy between its clients and the providers of the upstreams  *)
(* file: it starts with the file, lists models, routes a call to an        *)
(* upstream of its wire format, and reads the reply for the record. Policy,*)
(* limits and the run a record goes to are in Exchange and Gateway.        *)
(***************************************************************************)
EXTENDS Providers, Upstreams

CONSTANTS Files,     \* what the upstreams file may say
          Environs,  \* the environments the keys are read from
          Token,     \* the recorder's own token
          Requests,  \* what a client says with its call: [headers, query]
          Models,    \* the names of models
          Questions, \* the questions of a decision call: their types by name
          Replies    \* what a provider may reply

Entries(file) == UNION {ToSet(file[kind]) : kind \in {"upstreams", "mcp_servers", "a2a_agents"}}

\* The recorder's token is a secret of its own: it is no provider's key and in no static header,
\* and a client presents it where it is looked for: in one of the headers, or in the parameter
\* `key` alone (a call that a header lets in is relayed to a server or agent with its whole query).
TokenApart ==
    /\ \A env \in Environs : \A variable \in DOMAIN env : env[variable] # Token
    /\ \A file \in Files : \A e \in Entries(file) :
          \A h \in DOMAIN Or(e, "headers", <<>>) : e.headers[h] # Token
    /\ \A r \in Requests : \A h \in DOMAIN r.headers \ (ClientKeyHeaders \cup {"authorization"}) :
          r.headers[h] # Token
    /\ \A r \in Requests : \A p \in DOMAIN r.query :
          r.query[p] = Token => p = "key" /\ \A h \in DOMAIN r.headers : r.headers[h] # Token

\* Upstreams come in an order, and None is no upstream and no status.
UpstreamsRead ==
    /\ None \notin Nat
    /\ \A file \in Files, env \in Environs :
          /\ file.upstreams \in Seq(ToSet(file.upstreams))
          /\ FileOk(file) => \A u \in ToSet(LoadUpstreams(file, env).upstreams) : u # None

ASSUME ModelCallsAssumption == TokenApart /\ UpstreamsRead

VARIABLES recorder,  \* "down", "up" or "refused": its file is malformed
          config,    \* what load_upstreams made of the file
          listed,    \* the last list that was answered: [dialect, request, models]
          call,      \* the last call of a client, with the status it was answered, or None
          sent,      \* the requests it sent out: [kind, target, client, headers, query]
          given,     \* what the provider gave to it: [reply, status, part, how], or None
          record     \* what is recorded of it, or None

proxyVars == <<recorder, config, listed, call, sent, given, record>>

NoConfig == [upstreams |-> <<>>, mcp_servers |-> <<>>, a2a_agents |-> <<>>]
NoList   == [dialect |-> None, request |-> None, models |-> {}]

ProxyInit ==
    /\ recorder = "down" /\ config = NoConfig /\ listed = NoList
    /\ call = None /\ sent = {} /\ given = None /\ record = None

InFlight == call # None /\ call.status = None

\* The recorder starts, or is started anew after the file or its environment changed.
Start(file, env) ==
    /\ ~InFlight
    /\ recorder' = IF FileOk(file) THEN "up" ELSE "refused"
    /\ config' = IF FileOk(file) THEN LoadUpstreams(file, env) ELSE NoConfig
    /\ listed' = NoList /\ call' = None /\ sent' = {} /\ given' = None /\ record' = None

\* Who asks, if it is allowed to.
Admitted(dialect, request) ==
    /\ recorder = "up" /\ ~InFlight
    /\ Authorised(request, dialect, Token) = 200

Credentials(request) == ClientCredentials(request, Token)

\* The headers of the client that a format lets through.
Passthrough ==
    [d \in DialectNames |-> IF d = "anthropic" THEN {"anthropic-version", "anthropic-beta"}
                        ELSE IF d = "openai" THEN {"openai-beta"} ELSE {}]

\* Those that go to an MCP server or an A2A agent.
RelayHeaders(kind) ==
    IF kind = "mcp_servers" THEN {"mcp-session-id", "mcp-protocol-version"} ELSE {"a2a-version"}

\* Mutant: the query as it came.
WithoutKeyAll(query) == query

WithoutKey(query) == [p \in DOMAIN query \ {"key"} |-> query[p]]

\* What goes out to a target, with the client's headers of these names and this query.
Out(kind, target, request, names, query) ==
    [kind |-> kind, target |-> target.name, client |-> request,
     headers |-> UpstreamHeaders(request, target, names, Token), query |-> query]
-----------------------------------------------------------------------------
\* Listing models: every upstream of the format that is ready is asked, in the file's order

\* The places of those upstreams.
Asked(dialect, request) ==
    {i \in DOMAIN config.upstreams :
       /\ config.upstreams[i].dialect = dialect
       /\ Ready(config.upstreams[i], Credentials(request))}

Before(asked, i) == {j \in asked : j < i}

\* Mutant: all that the upstream has.
ListingAll(asked, offers) ==
    UNION {{[model |-> m, upstream |-> config.upstreams[i].name] :
             m \in offers[i] \ UNION {offers[j] : j \in Before(asked, i)}} : i \in asked}

\* Models routed to the upstream, each once; an upstream that fails has none.
Listing(asked, offers) ==
    LET Kept(i) == {m \in offers[i] : Serves(config.upstreams[i], m)}
    IN  UNION {{[model |-> m, upstream |-> config.upstreams[i].name] :
                 m \in Kept(i) \ UNION {Kept(j) : j \in Before(asked, i)}} : i \in asked}

ListModels(dialect, request) ==
    LET asked == Asked(dialect, request)
        names == IF dialect = "anthropic" THEN Passthrough[dialect] ELSE {}
    IN  /\ dialect # "systemone" /\ Admitted(dialect, request)
        /\ \E offers \in [asked -> SUBSET Models] :
             listed' = [dialect |-> dialect, request |-> request, models |-> Listing(asked, offers)]
        /\ sent' = {Out("upstreams", config.upstreams[i], request, names, <<>>) : i \in asked}
        /\ call' = None /\ given' = None /\ record' = None
        /\ UNCHANGED <<recorder, config>>
-----------------------------------------------------------------------------
\* Calls


\* `forward`: the status of a call that is refused, None for one that goes out.
StatusOf(operation, model, request, streaming) ==
    LET dialect  == DialectOf(operation)
        upstream == Route(config.upstreams, dialect, model)
    IN  IF Authorised(request, dialect, Token) # 200 THEN Authorised(request, dialect, Token)
        ELSE IF streaming /\ operation \notin Streaming THEN 400
        ELSE IF upstream = None
        THEN IF DialectsFor(config.upstreams, model) # {} THEN 400 ELSE 404
        ELSE IF Ready(upstream, Credentials(request)) THEN None ELSE 503

\* Was the model in the list that the same client was answered just before?
WasListed(dialect, model, request) ==
    /\ listed.dialect = dialect /\ listed.request = request
    /\ \E m \in listed.models : m.model = model

Forward(operation, model, request, streaming, counted) ==
    LET dialect  == DialectOf(operation)
        status   == StatusOf(operation, model, request, streaming)
        upstream == Route(config.upstreams, dialect, model)
    IN  /\ recorder = "up" /\ ~InFlight
        /\ call' = [operation |-> operation, model |-> model, request |-> request,
                    streaming |-> streaming, counted |-> counted, status |-> status,
                    target |-> IF status = None THEN upstream ELSE None,
                    waslisted |-> WasListed(dialect, model, request)]
        /\ sent' = IF status = None
                   THEN {Out("upstreams", upstream, request, Passthrough[dialect],
                             WithoutKey(request.query))}
                   ELSE {}
        /\ listed' = NoList /\ given' = None /\ record' = None
        /\ UNCHANGED <<recorder, config>>

\* A request that is only sent on: what goes out, if its target is there and ready.
Relay(out, ready) ==
    /\ call' = None
    /\ sent' = IF ready THEN {out} ELSE {}
    /\ listed' = NoList /\ given' = None /\ record' = None
    /\ UNCHANGED <<recorder, config>>

\* What a model is: `get_model` of Gemini and `show` of Ollama.
Details(dialect, model, request) ==
    LET upstream == Route(config.upstreams, dialect, model)
    IN  /\ Admitted(dialect, request)
        /\ Relay(Out("upstreams", upstream, request, {}, <<>>),
                 upstream # None /\ Ready(upstream, Credentials(request)))

\* The version of the first Ollama that answers; the ones before it were asked too.
Version(request) ==
    LET asked == Asked("ollama", request)
    IN  /\ Admitted("ollama", request)
        /\ \E n \in (IF asked = {} THEN {0} ELSE asked) :
             sent' = {Out("upstreams", config.upstreams[i], request, {}, <<>>) :
                        i \in {j \in asked : j <= n}}
        /\ call' = None /\ listed' = NoList /\ given' = None /\ record' = None
        /\ UNCHANGED <<recorder, config>>

\* A call of an MCP server or an A2A agent, up to what is sent to it.
CallTarget(kind, name, request) ==
    LET target == Named(config[kind], name)
    IN  /\ Admitted("none", request)
        /\ Relay(Out(kind, target, request, RelayHeaders(kind), request.query),
                 target # None /\ Ready(target, Credentials(request)))

\* `agent_card`
Card(name, request) ==
    LET target == Named(config.a2a_agents, name)
    IN  /\ Admitted("none", request)
        /\ Relay(Out("a2a_agents", target, request, {}, <<>>),
                 target # None /\ Ready(target, Credentials(request)))
-----------------------------------------------------------------------------
\* What comes back, and the record of it

\* The model the client asked for, if the reply names none.
OfModel(llm) == llm @@ ("model" :> call.model)

\* `_record`: the fields, the outcome and whether the reply was cut off.
Entry(raw, status, cut) ==
    LET streamed  == call.streaming /\ status < 300
        summary   == Stream(call.operation, raw)
        truncated == cut /\ ~(streamed /\ summary.complete)
        failed    == truncated \/ (IF streamed THEN summary.failed ELSE status \notin 200..299)
        read      == IF streamed THEN summary.llm ELSE Usage(call.operation, raw)
    IN  [model |-> call.model, upstream |-> call.target.name, endpoint |-> call.target.url,
         llm |-> OfModel(read), status |-> status, truncated |-> truncated,
         answers |-> IF streamed \/ failed THEN {} ELSE Decision(call.operation, Questions, raw),
         outcome |-> IF failed THEN "error" ELSE "success"]

Recorded(raw, status, cut, gift) ==
    /\ InFlight
    /\ record' = Entry(raw, status, cut)
    /\ call' = [call EXCEPT !.status = status]
    /\ given' = gift
    /\ UNCHANGED <<recorder, config, listed, sent>>

Gift(reply, part, how) == [reply |-> reply, part |-> part, how |-> how]

\* The whole reply at once.
RepliesWhole(reply) ==
    /\ ~call.streaming
    /\ Recorded(Body(call.operation, reply), 200, FALSE, Gift(reply, 1, "whole"))

\* The provider refuses the call, or cannot be reached (502).
Refuses(status) == Recorded([error |-> "refused"], status, FALSE, Gift(None, 0, "refused"))

\* The first n events of a stream, all of them or up to where it ends: the provider closes it
\* early ("closed"), says why ("failed"), the connection breaks or the size limit is met
\* ("broken", in the middle of an event "torn"), or the client leaves ("left").
Streams(reply, n, how) ==
    LET events == Events(call.operation, reply, call.counted)
        raw    == SubSeq(events, 1, n)
                  \o CASE how = "failed" -> <<ErrorEvent(call.operation)>>
                       [] how = "torn"   -> <<Torn>>
                       [] OTHER          -> <<>>
    IN  /\ how = "whole" => n = Len(events)
        /\ how \in {"closed", "failed", "torn"} => n < Len(events)
        /\ Recorded(raw, 200, how \in {"broken", "torn", "left"}, Gift(reply, n, how))

ProxyNext ==
    \/ \E file \in Files, env \in Environs : Start(file, env)
    \/ \E dialect \in DialectNames, request \in Requests : ListModels(dialect, request)
    \/ \E operation \in UNION {Operations[d] : d \in DialectNames}, model \in Models,
          request \in Requests, streaming, counted \in BOOLEAN :
            /\ counted => operation = "chat" /\ streaming
            /\ streaming /\ DialectOf(operation) = "gemini" => operation = "generate"
            /\ Forward(operation, model, request, streaming, counted)
    \/ \E dialect \in {"gemini", "ollama"}, model \in Models, request \in Requests :
            Details(dialect, model, request)
    \/ \E request \in Requests : Version(request)
    \/ \E kind \in {"mcp_servers", "a2a_agents"}, request \in Requests :
            \E target \in ToSet(config[kind]) : CallTarget(kind, target.name, request)
    \/ \E request \in Requests : \E target \in ToSet(config.a2a_agents) : Card(target.name, request)
    \/ InFlight /\ \E reply \in Replies : RepliesWhole(reply)
    \/ InFlight /\ \E status \in {429, 502} : Refuses(status)
    \/ InFlight /\ call.streaming /\ \E reply \in Replies, how \in {"whole", "closed", "failed", "broken", "torn", "left"} :
            \E n \in 0..Len(Events(call.operation, reply, call.counted)) : Streams(reply, n, how)

ProxySpec == ProxyInit /\ [][ProxyNext]_proxyVars
-----------------------------------------------------------------------------
\* Properties

\* What the reply says, by the fields a reader of the operation can know.
Says(operation, streaming, counted, r) ==
    LET none == {"countTokens", "count_tokens", "embedContent"}
        full == Streaming \cup {"decisions", "systemone"}
    IN  ("model" :> IF operation \in none THEN call.model ELSE r.model)
        @@ (IF operation = "chat" /\ streaming /\ ~counted THEN <<>>
            ELSE "input" :> IF operation \in Streaming THEN r.input + r.cached ELSE r.input)
        @@ (IF operation \notin full \/ (operation = "chat" /\ streaming /\ ~counted) THEN <<>>
            ELSE "output" :> IF operation \in Streaming THEN r.output + r.thinking ELSE r.output)
        @@ (IF operation \in Streaming THEN "finish" :> r.finish
            ELSE IF operation = "decisions" /\ \E a \in r.answers : a.refused
            THEN "finish" :> "refusal" ELSE <<>>)
        @@ (IF operation \in Streaming /\ r.tools # <<>> THEN "tools" :> r.tools ELSE <<>>)

\* A record of a part says nothing that the whole does not: counts of the output so far, and the
\* first of the tools.
SaysPart(llm, whole) ==
    \A f \in DOMAIN llm \ {"model"} :
        /\ f \in DOMAIN whole
        /\ f \in {"input", "finish"} => llm[f] = whole[f]
        /\ f = "output" => llm[f] <= whole[f]
        /\ f = "tools" => IsPrefix(llm[f], whole[f])

\* In every wire format, and whether it came at once or as a stream, the record says what the
\* provider's reply says: the model, the whole prompt with its cached part, the whole output with
\* the thinking, why it ended, the tools in order and the verdicts of a decision; it is a success.
\* A stream that was cut before its end marker, or carried an error, is never recorded as a
\* success, and what is read from its part is never something else than the whole would say.
StreamSaysReply ==
    record # None =>
        LET whole == Says(call.operation, call.streaming, call.counted, given.reply)
            ended == \/ given.how = "whole"
                     \/ /\ given.how \in {"left", "broken"}
                        /\ given.part = Len(Events(call.operation, given.reply, call.counted))
        IN  IF given.how = "refused"
            THEN record.outcome = "error" /\ record.llm = "model" :> call.model /\ record.answers = {}
            ELSE IF ended
            THEN /\ record.llm = whole /\ record.outcome = "success" /\ ~record.truncated
                 /\ call.operation \in {"decisions", "systemone"} => record.answers = given.reply.answers
            ELSE /\ SaysPart(record.llm, whole)
                 /\ given.how # "closed" => record.outcome = "error"

\* A model a client was just listed is not unknown to the recorder when it is called in that
\* format: the first upstream in the file that is of the format and serves it gets the call, or the
\* call is refused because that one lacks its key.
ListedCanBeCalled ==
    (call # None /\ call.waslisted /\ (call.streaming => call.operation \in Streaming)) =>
        LET Could(i) == /\ config.upstreams[i].dialect = DialectOf(call.operation)
                        /\ Serves(config.upstreams[i], call.model)
        IN  \E i \in DOMAIN config.upstreams :
              /\ Could(i) /\ \A j \in DOMAIN config.upstreams : Could(j) => i <= j
              /\ IF call.target = None THEN call.status = 503 /\ MissingKey(config.upstreams[i])
                 ELSE call.target = config.upstreams[i]

\* What goes out to a target, by kind and name. Neither its headers nor its query hold the
\* recorder's token. A credential in its headers is the key of that target, or of the client it is
\* sent for if the target asks for that, and never the key of another one; a model call goes
\* without the parameter a Gemini client puts its key into. No record names an endpoint that
\* carries a credential.
CredentialsStay ==
    /\ \A out \in sent : \E target \in ToSet(config[out.kind]) :
         /\ target.name = out.target
         /\ \A h \in DOMAIN out.headers :
              /\ out.headers[h] # Token
              /\ h \in CredentialHeaders =>
                   \/ out.headers[h] = target.key
                   \/ /\ target.client_auth /\ h \in DOMAIN out.client.headers
                      /\ out.headers[h] = out.client.headers[h]
         /\ \A p \in DOMAIN out.query :
              out.query[p] # Token /\ (out.kind = "upstreams" => p # "key")
    /\ record # None => ~record.endpoint.login /\ ~record.endpoint.query
=============================================================================
