----------------------------- MODULE Upstreams -----------------------------
(***************************************************************************)
(* The upstreams file: its entries as they are written (an entry is a      *)
(* function from the fields it has), what the recorder makes of them when  *)
(* it starts, which upstream a call is routed to, and the credential that  *)
(* goes out with it. Headers are a function from names to values.          *)
(***************************************************************************)
EXTENDS Dialects

CONSTANT Matching  \* the pairs <<pattern, model>> that fnmatchcase accepts

DialectNames == DOMAIN Operations
Locations == {"local", "cloud", "unknown"}
McpStyles == {"bearer", "x-api-key", "api-key", "none"}
AuthStyles == McpStyles \cup {"x-goog-api-key"}
CredentialHeaders == {"authorization", "x-api-key", "x-goog-api-key", "api-key", "cookie",
                      "proxy-authorization"}

DefaultAuth ==
    [openai |-> "bearer", anthropic |-> "x-api-key", ollama |-> "bearer",
     gemini |-> "x-goog-api-key", systemone |-> "bearer"]

\* f, and g of what f says nothing of (`@@`, which the provers do not know).
Joined(f, g) == [x \in DOMAIN f \cup DOMAIN g |-> IF x \in DOMAIN f THEN f[x] ELSE g[x]]

Or(entry, field, default) == IF field \in DOMAIN entry THEN entry[field] ELSE default

\* A URL is [http, login, query]: what it is sealed for is seen by every reader of a record.
CheckUrl(url) == url # None /\ url.http /\ ~url.login /\ ~url.query

CheckCommon(entry) ==
    /\ Or(entry, "client_auth", "replace") \in {"replace", "passthrough"}
    /\ DOMAIN Or(entry, "headers", <<>>) \cap CredentialHeaders = {}

Auth(entry, default) == Or(entry, "auth", IF "key_env" \in DOMAIN entry THEN default ELSE "none")

\* The target that is not refused, with the key its variable has in the environment.
Target(entry, env, auth) ==
    [name        |-> entry.name,
     url         |-> entry.url,
     location    |-> Or(entry, "location", "unknown"),
     auth        |-> auth,
     key_env     |-> Or(entry, "key_env", None),
     key         |-> Or(env, Or(entry, "key_env", None), None),
     headers     |-> Or(entry, "headers", <<>>),
     client_auth |-> Or(entry, "client_auth", "replace") = "passthrough"]

EntryOk(entry) ==
    /\ Or(entry, "name", None) # None
    /\ CheckUrl(Or(entry, "url", None))
    /\ Or(entry, "dialect", "openai") \in DialectNames
    /\ Or(entry, "location", "unknown") \in Locations
    /\ Auth(entry, "bearer") \in AuthStyles
    /\ CheckCommon(entry)

Parse(entry, env) ==
    LET dialect == Or(entry, "dialect", "openai")
    IN  Joined([dialect |-> dialect, models |-> Or(entry, "models", <<"*">>)],
               Target(entry, env, Auth(entry, DefaultAuth[dialect])))

\* `_parse_mcp`, for MCP servers and A2A agents
ServerOk(entry) ==
    /\ Or(entry, "name", None) # None
    /\ CheckUrl(Or(entry, "url", None))
    /\ Or(entry, "location", "unknown") \in Locations
    /\ Auth(entry, "bearer") \in McpStyles
    /\ CheckCommon(entry)

ParseMcp(entry, env) == Target(entry, env, Auth(entry, "bearer"))

Unique(entries) == \A i, j \in DOMAIN entries : entries[i].name = entries[j].name => i = j

\* The recorder does not start with a malformed file.
FileOk(file) ==
    /\ \A e \in ToSet(file.upstreams) : EntryOk(e)
    /\ \A s \in ToSet(file.mcp_servers) \cup ToSet(file.a2a_agents) : ServerOk(s)
    /\ Unique(file.upstreams) /\ Unique(file.mcp_servers) /\ Unique(file.a2a_agents)

LoadUpstreams(file, env) ==
    [upstreams   |-> [i \in DOMAIN file.upstreams |-> Parse(file.upstreams[i], env)],
     mcp_servers |-> [i \in DOMAIN file.mcp_servers |-> ParseMcp(file.mcp_servers[i], env)],
     a2a_agents  |-> [i \in DOMAIN file.a2a_agents |-> ParseMcp(file.a2a_agents[i], env)]]
-----------------------------------------------------------------------------

Serves(upstream, model) == \E i \in DOMAIN upstream.models : <<upstream.models[i], model>> \in Matching

MissingKey(target) == target.key_env # None /\ target.key = None

Ready(target, client) == ~MissingKey(target) \/ (target.client_auth /\ client # <<>>)

\* The first upstream of the dialect that serves the model, or None.
Route(upstreams, dialect, model) ==
    LET serving == {i \in DOMAIN upstreams :
                      upstreams[i].dialect = dialect /\ Serves(upstreams[i], model)}
    IN  IF serving = {} THEN None ELSE upstreams[Min(serving)]

DialectsFor(upstreams, model) ==
    {u.dialect : u \in {v \in ToSet(upstreams) : Serves(v, model)}}

Named(targets, name) ==
    IF \E t \in ToSet(targets) : t.name = name
    THEN CHOOSE t \in ToSet(targets) : t.name = name ELSE None

\* The static headers, and the client's own credential or the configured key.
WithCredential(target, client) ==
    IF target.client_auth /\ client # <<>> THEN Joined(client, target.headers)
    ELSE IF target.key = None \/ target.auth = "none" THEN target.headers
    ELSE Joined([h \in {IF target.auth = "bearer" THEN "authorization" ELSE target.auth} |-> target.key],
                target.headers)
-----------------------------------------------------------------------------
\* Who calls: the headers of a request and the token of the recorder

TokenHeader == "x-sealedrun-token"
ClientKeyHeaders == {TokenHeader, "x-api-key", "x-goog-api-key", "api-key"}
ClientCredentialHeaders == {"authorization", "x-api-key", "x-goog-api-key", "api-key"}

\* A request is [headers, query], functions from names to values. The query parameter `key`
\* counts on Gemini paths.
PresentedTokens(request, dialect) ==
    {request.headers[h] : h \in DOMAIN request.headers
                                \cap (ClientKeyHeaders \cup {"authorization"})}
    \cup (IF dialect = "gemini" THEN {Or(request.query, "key", None)} ELSE {})

\* `require_proxy_token`: 200 stands for a call that may go on.
Authorised(request, dialect, token) ==
    IF token = None THEN 503
    ELSE IF token \in PresentedTokens(request, dialect) THEN 200 ELSE 401

\* Kept only if the token came apart, and never the token itself: a value that contains it is one
\* that equals it.
ClientCredentials(request, token) ==
    IF TokenHeader \notin DOMAIN request.headers THEN <<>>
    ELSE [h \in {k \in DOMAIN request.headers \cap ClientCredentialHeaders :
                   request.headers[k] # token} |-> request.headers[h]]

\* The accepted headers of the format, and the credential.
UpstreamHeaders(request, upstream, passthrough, token) ==
    Joined(WithCredential(upstream, ClientCredentials(request, token)),
           [h \in DOMAIN request.headers \cap passthrough |-> request.headers[h]])
=============================================================================
