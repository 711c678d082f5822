------------------------------ MODULE Dialects ------------------------------
(***************************************************************************)
(* The wire formats of model providers, read by the recorder: the fields   *)
(* of sealedrun.llm in a plain reply and in a stream of events. A JSON     *)
(* object is a function from the fields it has; what is read is a function *)
(* from those of "model", "input", "output", "finish" and "tools" that are *)
(* known. A stream is the sequence of its events, "[DONE]" among them and  *)
(* "torn" for an event that was cut off or is no JSON object.              *)
(***************************************************************************)
EXTENDS NoValue, Integers, SequencesExt, Functions, TLC

Get(object, field) == IF field \in DOMAIN object THEN object[field] ELSE None

\* `mapping`, `sequence` and `integer`: what is not of the type is as if it were not there.
Mapping(value)  == IF value = None THEN <<>> ELSE value
Sequence(value) == IF value = None THEN <<>> ELSE value
Integer(value)  == IF value # None /\ value >= 0 THEN value ELSE None

In(object, field) == Mapping(Get(object, field))

Field(f, value) == IF value = None THEN <<>> ELSE f :> value

Names(names) == IF names = <<>> THEN <<>> ELSE "tools" :> names

\* The sum of the parts that are there, or None.
Total(parts) ==
    LET there == SelectSeq(parts, LAMBDA p : p # None)
    IN  IF there = <<>> THEN None ELSE FoldLeft(+, 0, there)

\* `sse_data` and `ndjson`
Objects(raw) == SelectSeq(raw, LAMBDA e : Get(e, "type") \notin {"[DONE]", "torn"})

\* `sse_done`
Done(raw) == raw # <<>> /\ Get(Last(raw), "type") = "[DONE]"

\* `llm.update` with one part after the other.
Merged(parts) == FoldLeft(LAMBDA llm, part : part @@ llm, <<>>, parts)

Mapped(Read(_), objects) == [i \in DOMAIN objects |-> Read(objects[i])]

SomeOf(objects, Is(_)) == \E i \in DOMAIN objects : Is(objects[i])

\* StreamSummary
Summary(parts, names, failed, complete) ==
    [llm |-> Names(FlattenSeq(names)) @@ Merged(parts), failed |-> failed, complete |-> complete]

HasError(e) == "error" \in DOMAIN e
-----------------------------------------------------------------------------
\* OpenAI: chat completions and responses

Model(o) == Field("model", Get(o, "model"))

Tokens(usage, input, output) ==
    Field("input", Integer(Get(usage, input))) @@ Field("output", Integer(Get(usage, output)))

ChatUsage(o) ==
    LET choices == Sequence(Get(o, "choices"))
        first   == IF choices = <<>> THEN <<>> ELSE choices[1]
    IN  Model(o) @@ Tokens(In(o, "usage"), "prompt_tokens", "completion_tokens")
        @@ Field("finish", Get(first, "finish_reason"))
        @@ Names(Sequence(Get(In(first, "message"), "tool_calls")))

\* Tokens come in a chunk of their own, if they were asked for; tools in the deltas.
ChatStream(raw) ==
    LET chunks == Objects(raw)
        Offered(e) == Sequence(Get(e, "choices"))
        Finish(c) == Field("finish", Get(c, "finish_reason"))
        Opened(c) == Sequence(Get(In(c, "delta"), "tool_calls"))
        Said(e) == Merged(<<Model(e), Tokens(In(e, "usage"), "prompt_tokens", "completion_tokens")>>
                          \o Mapped(Finish, Offered(e)))
        Called(e) == FlattenSeq(Mapped(Opened, Offered(e)))
    IN  Summary(Mapped(Said, chunks), Mapped(Called, chunks), SomeOf(chunks, HasError), Done(raw))

ResponseEnds == {"response.completed", "response.incomplete", "response.failed"}

ResponsesUsage(o) ==
    LET reason == Get(In(o, "incomplete_details"), "reason")
        calls == SelectSeq(Sequence(Get(o, "output")),
                           LAMBDA item : item.type \in {"function_call", "custom_tool_call"})
        Name(item) == item.name
    IN  Model(o) @@ Tokens(In(o, "usage"), "input_tokens", "output_tokens")
        @@ Field("finish", IF reason # None THEN reason ELSE Get(o, "status"))
        @@ Names(Mapped(Name, calls))

\* The last event carries the whole response.
ResponsesStream(raw) ==
    LET events == Objects(raw)
        Ends(e) == Get(e, "type") \in ResponseEnds
        Fails(e) == Get(e, "type") \in {"error", "response.failed"}
        Step(llm, e) == IF Ends(e) THEN ResponsesUsage(In(e, "response"))
                        ELSE IF llm = <<>> THEN Model(In(e, "response")) ELSE llm
    IN  [llm |-> FoldLeft(Step, <<>>, events), failed |-> SomeOf(events, Fails),
         complete |-> SomeOf(events, Ends)]
-----------------------------------------------------------------------------
\* Anthropic messages

ToolBlocks == {"tool_use", "server_tool_use", "mcp_tool_use"}

ToolNames(blocks) ==
    LET Name(block) == block.name
    IN  Mapped(Name, SelectSeq(blocks, LAMBDA b : Get(b, "type") \in ToolBlocks))

\* Cache writes and cache reads are counted apart from the input, and added to it.
MessagesUsage(o) ==
    LET usage == In(o, "usage")
        Count(f) == Integer(Get(usage, f))
        parts == <<Count("input_tokens"), Count("cache_creation_input_tokens"),
                   Count("cache_read_input_tokens")>>
    IN  Model(o)
        @@ Field("input", IF parts[1] = None THEN None ELSE Total(parts))
        @@ Field("output", Count("output_tokens"))
        @@ Field("finish", Get(o, "stop_reason"))
        @@ Names(ToolNames(Sequence(Get(o, "content"))))

\* The start has the model and the input, the delta the stop reason and the output.
MessagesStream(raw) ==
    LET events == Objects(raw)
        Is(e, type) == Get(e, "type") = type
        Said(e) == IF Is(e, "message_start") THEN MessagesUsage(In(e, "message"))
                   ELSE IF Is(e, "message_delta")
                   THEN MessagesUsage("usage" :> Get(e, "usage") @@ In(e, "delta"))
                   ELSE <<>>
        Called(e) == IF Is(e, "content_block_start") THEN ToolNames(<<In(e, "content_block")>>) ELSE <<>>
    IN  Summary(Mapped(Said, events), Mapped(Called, events),
                SomeOf(events, LAMBDA e : Is(e, "error")),
                SomeOf(events, LAMBDA e : Is(e, "message_stop")))
-----------------------------------------------------------------------------
\* Gemini generateContent and the Ollama API: every chunk is a partial reply

GenerateUsage(o) ==
    LET usage == In(o, "usageMetadata")
        candidates == Sequence(Get(o, "candidates"))
        first == IF candidates = <<>> THEN <<>> ELSE candidates[1]
    IN  Field("model", Get(o, "modelVersion"))
        @@ Field("input", Integer(Get(usage, "promptTokenCount")))
        @@ Field("output", Total(<<Integer(Get(usage, "candidatesTokenCount")),
                                   Integer(Get(usage, "thoughtsTokenCount"))>>))
        @@ Field("finish", Get(first, "finishReason"))
        @@ Names(Sequence(Get(In(first, "content"), "parts")))

\* Ollama's `embed_usage`
EmbedUsage(o) == Model(o) @@ Field("input", Integer(Get(o, "prompt_eval_count")))

GenerationUsage(o) ==
    EmbedUsage(o)
    @@ Field("output", Integer(Get(o, "eval_count")))
    @@ Field("finish", Get(o, "done_reason"))
    @@ Names(Sequence(Get(In(o, "message"), "tool_calls")))

\* The fields without the tools, and the tools.
Rest(fields) == Restrict(fields, DOMAIN fields \ {"tools"})
Tools(fields) == Sequence(Get(fields, "tools"))

\* Mutant: the tools of a chunk overwrite those of the chunks before.
GenerateStreamLast(raw) ==
    LET chunks == Objects(raw)
    IN  Summary(Mapped(GenerateUsage, chunks), <<>>, SomeOf(chunks, HasError),
                SomeOf(chunks, LAMBDA e : "finish" \in DOMAIN GenerateUsage(e)))

GenerateStream(raw) ==
    LET chunks == Objects(raw)
        Said(e) == Rest(GenerateUsage(e))
        Called(e) == Tools(GenerateUsage(e))
    IN  Summary(Mapped(Said, chunks), Mapped(Called, chunks), SomeOf(chunks, HasError),
                SomeOf(chunks, LAMBDA e : "finish" \in DOMAIN Said(e)))

GenerationStream(raw) ==
    LET lines == Objects(raw)
        Said(e) == Rest(GenerationUsage(e))
        Called(e) == Tools(GenerationUsage(e))
    IN  Summary(Mapped(Said, lines), Mapped(Called, lines), SomeOf(lines, HasError),
                SomeOf(lines, LAMBDA e : Get(e, "done") = TRUE))
-----------------------------------------------------------------------------
\* Calls that never stream: embeddings, and decisions in a list or in a map

EmbeddingsUsage(o) ==
    Model(o) @@ Field("input", Integer(Get(In(o, "usage"), "prompt_tokens")))

\* `count_tokens_usage` of Anthropic and of Gemini, and Gemini's `embed_usage`
CountTokensUsage(o) == Field("input", Integer(Get(o, "input_tokens")))
CountUsage(o)       == Field("input", Integer(Get(o, "totalTokens")))
EmbedContentUsage(o) == Field("input", Integer(Get(In(o, "usageMetadata"), "promptTokenCount")))

NormaliseType(kind) == IF kind = "noul" THEN "predicate" ELSE kind

SystemoneUsage(o) == Model(o) @@ Tokens(In(o, "usage"), "input_tokens", "output_tokens")

\* A refusal is a finish reason here; the map shape has no such field.
DecisionsUsage(o) ==
    SystemoneUsage(o)
    @@ Field("finish", IF SomeOf(Sequence(Get(o, "answers")), LAMBDA a : a.type = "refusal")
                       THEN "refusal" ELSE None)

Verdict(name, kind, value) == [name |-> name, type |-> kind, refused |-> FALSE, value |-> value]
Refusal(name, kind) == [name |-> name, type |-> kind, refused |-> TRUE, value |-> None]

\* A list of [name, type, value]; a value out of its range was read as None.
DecisionFromOpenai(questions, answers) ==
    LET Read(a) == IF a.type = "refusal"
                   THEN Refusal(a.name, IF a.name \in DOMAIN questions
                                        THEN NormaliseType(questions[a.name]) ELSE "predicate")
                   ELSE Verdict(a.name, NormaliseType(a.type), a.value)
        Known(a) == a.type \in {"refusal", "predicate", "noul", "choice", "score"}
    IN  ToSet(Mapped(Read, SelectSeq(answers, Known)))

\* A map from names to [type, refused, value].
DecisionFromSystemone(questions, answers) ==
    LET Refused(n) == answers[n].type = "refusal" \/ answers[n].refused
        Was(n) == NormaliseType(IF n \in DOMAIN questions THEN questions[n] ELSE answers[n].type)
        Read(n) == IF Refused(n)
                   THEN Refusal(n, IF Was(n) = "refusal" THEN "predicate" ELSE Was(n))
                   ELSE Verdict(n, NormaliseType(answers[n].type), answers[n].value)
    IN  {Read(n) : n \in {m \in DOMAIN answers :
                            Refused(m) \/ answers[m].type \in {"noul", "choice", "score"}}}
-----------------------------------------------------------------------------

\* What the recorder's operation reads in a plain reply, and in a stream.
Usage(operation, o) ==
    CASE operation = "chat"           -> ChatUsage(o)
      [] operation = "responses"      -> ResponsesUsage(o)
      [] operation = "embeddings"     -> EmbeddingsUsage(o)
      [] operation = "decisions"      -> DecisionsUsage(o)
      [] operation = "messages"       -> MessagesUsage(o)
      [] operation = "count_tokens"   -> CountTokensUsage(o)
      [] operation = "generate"       -> GenerateUsage(o)
      [] operation = "countTokens"    -> CountUsage(o)
      [] operation = "embedContent"   -> EmbedContentUsage(o)
      [] operation = "generation"     -> GenerationUsage(o)
      [] operation = "embed"          -> EmbedUsage(o)
      [] operation = "systemone"      -> SystemoneUsage(o)

Stream(operation, raw) ==
    CASE operation = "chat"       -> ChatStream(raw)
      [] operation = "responses"  -> ResponsesStream(raw)
      [] operation = "messages"   -> MessagesStream(raw)
      [] operation = "generate"   -> GenerateStream(raw)
      [] operation = "generation" -> GenerationStream(raw)

Decision(operation, questions, o) ==
    CASE operation = "decisions" -> DecisionFromOpenai(questions, Sequence(Get(o, "answers")))
      [] operation = "systemone" -> DecisionFromSystemone(questions, In(o, "answers"))
      [] OTHER -> {}

Streaming == {"chat", "responses", "messages", "generate", "generation"}

Operations ==
    [openai    |-> {"chat", "responses", "embeddings", "decisions"},
     anthropic |-> {"messages", "count_tokens"},
     gemini    |-> {"generate", "countTokens", "embedContent"},
     ollama    |-> {"generation", "embed"},
     systemone |-> {"systemone"}]

DialectOf(operation) == CHOOSE d \in DOMAIN Operations : operation \in Operations[d]
=============================================================================
