----------------------------- MODULE Providers -----------------------------
(***************************************************************************)
(* The providers behind the recorder, as its readers and their tests take  *)
(* them to be: how one and the same reply looks in the body of every       *)
(* format, and as the events of its stream. A reply is [model, input,      *)
(* cached, output, thinking, finish, tools, answers]; cached is the part   *)
(* of the prompt that was read from a cache, thinking what was put out     *)
(* before the answer, answers the verdicts of a decision.                  *)
(***************************************************************************)
EXTENDS Dialects

\* The tool calls of a reply, each in a chunk of its own.
Each(tools, Chunk(_)) == [i \in DOMAIN tools |-> Chunk(<<tools[i]>>)]

DoneMark == [type |-> "[DONE]"]
Torn     == [type |-> "torn"]

ChatTokens(r) == [prompt_tokens |-> r.input + r.cached, completion_tokens |-> r.output + r.thinking]

ChatBody(r) ==
    [model |-> r.model, usage |-> ChatTokens(r),
     choices |-> <<[finish_reason |-> r.finish, message |-> [tool_calls |-> r.tools]]>>]

\* The counts come last, in a chunk without choices, if the client asked for them.
ChatEvents(r, counted) ==
    LET Chunk(choice) == [model |-> r.model, choices |-> <<choice>>]
        Tool(names) == Chunk([delta |-> [tool_calls |-> names]])
    IN  <<Chunk([delta |-> <<>>])>> \o Each(r.tools, Tool)
        \o <<Chunk([finish_reason |-> r.finish])>>
        \o (IF counted THEN <<[model |-> r.model, choices |-> <<>>, usage |-> ChatTokens(r)]>> ELSE <<>>)
        \o <<DoneMark>>

Items(names) == [i \in DOMAIN names |-> [type |-> "function_call", name |-> names[i]]]

ResponsesBody(r) ==
    [model |-> r.model, output |-> <<[type |-> "message"]>> \o Items(r.tools),
     usage |-> [input_tokens |-> r.input + r.cached, output_tokens |-> r.output + r.thinking]]
    @@ (IF r.finish = "length" THEN [status |-> "incomplete", incomplete_details |-> [reason |-> "length"]]
        ELSE [status |-> r.finish])

ResponsesEvents(r) ==
    LET Tool(names) == [type |-> "response.output_item.added", item |-> Items(names)[1]]
        ends == IF r.finish = "length" THEN "response.incomplete" ELSE "response.completed"
    IN  <<[type |-> "response.created", response |-> [model |-> r.model, status |-> "in_progress"]]>>
        \o Each(r.tools, Tool) \o <<[type |-> ends, response |-> ResponsesBody(r)]>>

Blocks(names) == [i \in DOMAIN names |-> [type |-> "tool_use", name |-> names[i]]]

MessagesInput(r) == [input_tokens |-> r.input, cache_read_input_tokens |-> r.cached]

MessagesBody(r) ==
    [model |-> r.model, stop_reason |-> r.finish, content |-> <<[type |-> "text"]>> \o Blocks(r.tools),
     usage |-> [output_tokens |-> r.output + r.thinking] @@ MessagesInput(r)]

\* The start counts what is put out so far, the delta all of it.
MessagesEvents(r) ==
    LET Tool(names) == [type |-> "content_block_start", content_block |-> Blocks(names)[1]]
    IN  <<[type |-> "message_start",
           message |-> [model |-> r.model, content |-> <<>>,
                        usage |-> [output_tokens |-> 1] @@ MessagesInput(r)]]>>
        \o Each(r.tools, Tool)
        \o <<[type |-> "message_delta", delta |-> [stop_reason |-> r.finish],
              usage |-> [output_tokens |-> r.output + r.thinking]],
             [type |-> "message_stop"]>>

GenerateChunk(r, names, counts) ==
    [modelVersion |-> r.model, usageMetadata |-> [promptTokenCount |-> r.input + r.cached] @@ counts,
     candidates |-> <<[content |-> [parts |-> names]]
                      @@ (IF counts = <<>> THEN <<>> ELSE [finishReason |-> r.finish])>>]

GenerateCounts(r) == [candidatesTokenCount |-> r.output, thoughtsTokenCount |-> r.thinking]

\* The last tool comes with the counts and the finish reason.
GenerateEvents(r) ==
    LET Tool(names) == GenerateChunk(r, names, <<>>)
        before == IF r.tools = <<>> THEN <<>> ELSE Front(r.tools)
        last   == IF r.tools = <<>> THEN <<>> ELSE <<Last(r.tools)>>
    IN  Each(before, Tool) \o <<GenerateChunk(r, last, GenerateCounts(r))>>

GenerationBody(r) ==
    [model |-> r.model, done |-> TRUE, done_reason |-> r.finish,
     prompt_eval_count |-> r.input + r.cached, eval_count |-> r.output + r.thinking,
     message |-> [tool_calls |-> r.tools]]

GenerationEvents(r) ==
    LET Tool(names) == [model |-> r.model, done |-> FALSE, message |-> [tool_calls |-> names]]
    IN  Each(r.tools, Tool) \o <<[GenerationBody(r) EXCEPT !.message = <<>>]>>

\* Answers in a list, and in a map from their names.
ListedAnswers(answers) ==
    LET Written(a) == [name |-> a.name, type |-> IF a.refused THEN "refusal" ELSE a.type, value |-> a.value]
        list == SetToSeq(answers)
    IN  Mapped(Written, list) \o <<[name |-> "q9", type |-> "unheard-of", value |-> 1]>>

NamedAnswers(answers) ==
    [n \in {a.name : a \in answers} |->
        LET a == CHOOSE b \in answers : b.name = n
        IN  [type |-> IF a.type = "predicate" THEN "noul" ELSE a.type, refused |-> a.refused, value |-> a.value]]

Body(operation, r) ==
    CASE operation = "chat"         -> ChatBody(r)
      [] operation = "responses"    -> ResponsesBody(r)
      [] operation = "messages"     -> MessagesBody(r)
      [] operation = "generate"     -> GenerateChunk(r, r.tools, GenerateCounts(r))
      [] operation = "generation"   -> GenerationBody(r)
      [] operation = "embeddings"   -> [model |-> r.model, usage |-> [prompt_tokens |-> r.input]]
      [] operation = "count_tokens" -> [input_tokens |-> r.input]
      [] operation = "countTokens"  -> [totalTokens |-> r.input]
      [] operation = "embedContent" -> [usageMetadata |-> [promptTokenCount |-> r.input]]
      [] operation = "embed"        -> [model |-> r.model, prompt_eval_count |-> r.input]
      [] operation = "decisions"    ->
            [model |-> r.model, answers |-> ListedAnswers(r.answers),
             usage |-> [input_tokens |-> r.input, output_tokens |-> r.output]]
      [] operation = "systemone"    ->
            [model |-> r.model, answers |-> NamedAnswers(r.answers),
             usage |-> [input_tokens |-> r.input, output_tokens |-> r.output]]

Events(operation, r, counted) ==
    CASE operation = "chat"       -> ChatEvents(r, counted)
      [] operation = "responses"  -> ResponsesEvents(r)
      [] operation = "messages"   -> MessagesEvents(r)
      [] operation = "generate"   -> GenerateEvents(r)
      [] operation = "generation" -> GenerationEvents(r)

\* What tells of a failure, in the middle of a stream too.
ErrorEvent(operation) ==
    IF operation \in {"responses", "messages"} THEN [type |-> "error"] ELSE [error |-> "overloaded"]
=============================================================================
