--------------------------- MODULE MCModelCalls ---------------------------
(* An instance of ModelCalls: files with two or three upstreams.           *)
EXTENDS ModelCalls

MCModels == {"gpt", "llama"}
MCMatching == {<<"*", m>> : m \in MCModels} \cup {<<"g*", "gpt">>, <<"llama", "llama">>}

Url == [http |-> TRUE, login |-> FALSE, query |-> FALSE]

Entry0(name, dialect) == [name |-> name, url |-> Url, dialect |-> dialect]
Keyed(name, dialect, variable) == Entry0(name, dialect) @@ [key_env |-> variable]

File(upstreams) == [upstreams |-> upstreams, mcp_servers |-> <<>>, a2a_agents |-> <<>>]

Mixed ==
    [upstreams |-> <<Keyed("a", "openai", "KEY_A") @@ [models |-> <<"g*">>],
                     Keyed("b", "openai", "KEY_B") @@ [models |-> <<"g*">>, headers |-> "x-org" :> "static"],
                     Keyed("c", "anthropic", "KEY_A") @@ [client_auth |-> "passthrough"]>>,
     mcp_servers |-> <<[name |-> "m", url |-> Url, key_env |-> "KEY_B", client_auth |-> "passthrough"]>>,
     a2a_agents |-> <<[name |-> "m", url |-> Url]>>]

Others ==
    File(<<Keyed("d", "gemini", "KEY_A"), Entry0("e", "ollama") @@ [models |-> <<"llama">>],
           Keyed("f", "ollama", "KEY_B"), Keyed("s", "systemone", "KEY_B") @@ [models |-> <<"g*">>]>>)

Malformed ==
    {File(<<Entry0("a", "openai"), Entry0("a", "gemini")>>),
     File(<<[name |-> "a", url |-> [Url EXCEPT !.login = TRUE]]>>),
     File(<<Entry0("a", "openai") @@ [headers |-> "authorization" :> "static"]>>),
     File(<<Entry0("a", "cohere")>>)}

MCFiles == {Mixed, Others} \cup Malformed

MCEnvirons == {[KEY_A |-> "ka", KEY_B |-> "kb"], [KEY_B |-> "kb"]}

Request(headers, query) == [headers |-> headers, query |-> query]

MCRequests ==
    {Request("authorization" :> "token", <<>>),
     Request(<<>>, [key |-> "token", alt |-> "sse"]),
     Request([authorization |-> "own"] @@ ("x-sealedrun-token" :> "token") @@ ("mcp-session-id" :> "s1"),
             [key |-> "own2"]),
     Request([authorization |-> "token"] @@ ("x-sealedrun-token" :> "token"), [page |-> "2"]),
     Request(("x-sealedrun-token" :> "other") @@ ("anthropic-version" :> "v1"), <<>>)}

MCQuestions == [q1 |-> "noul", q2 |-> "choice"]

Verdicts == {[name |-> "q1", type |-> "predicate", refused |-> FALSE, value |-> 1],
             [name |-> "q2", type |-> "choice", refused |-> FALSE, value |-> 2]}
Refused == {[name |-> "q1", type |-> "predicate", refused |-> TRUE, value |-> None],
            [name |-> "q2", type |-> "choice", refused |-> TRUE, value |-> None]}

Reply0 == [model |-> "gpt-1", input |-> 2, cached |-> 3, output |-> 2, thinking |-> 1,
           finish |-> "stop", tools |-> <<>>, answers |-> Verdicts]

MCReplies ==
    {Reply0,
     [Reply0 EXCEPT !.tools = <<"t1", "t2">>, !.cached = 0, !.thinking = 0],
     [Reply0 EXCEPT !.tools = <<"t1">>, !.finish = "length", !.answers = Refused]}
=============================================================================
