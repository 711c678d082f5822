------------------------------ MODULE MCScopes ------------------------------
(* Small instances of Scopes for TLC, with the patterns of Globs. *)
EXTENDS Scopes, Globs

Strings(alphabet, n) == UNION {[1..k -> alphabet] : k \in 0..n}
MCNames == Strings({"a", "b"}, 3)
MCPatterns == Strings({"a", "*"}, 4) \cup {<<"a", "b", "*">>, <<"*", "a", "b", "*", "a">>}
MCLines == {<<"\n">>, <<"a", "\n">>}
MCMatches == {m \in (MCPatterns \cup MCNames) \X (MCPatterns \cup MCNames) : GlobMatch(m[1], m[2])}

Scope(targets, locations, denied, max) ==
    [targets |-> targets, locations |-> locations, denied |-> denied, max |-> max]
Named(p) == [name |-> p]
Typed(t, p) == [type |-> t, name |-> p]

Call(kind, target, labels) ==
    [kind |-> kind, target |-> target, labels |-> labels, req |-> None, approval |-> FALSE,
     outcome |-> "success", answer |-> None]
Tool(n) == [type |-> "tool", name |-> n]
Placed(t, l) == [type |-> t, name |-> <<"a">>, location |-> l]

Step(q, outcome) == [Call("tool_call", Tool(<<"a">>), {}) EXCEPT
                        !.req = q, !.approval = TRUE, !.outcome = outcome]
Answer(q, decision) == [Call("human_approval", Tool(<<"a">>), {}) EXCEPT
                            !.req = q, !.answer = decision]

\* Every run of five steps and answers over two requests.
Approving ==
    {[child |-> NoScope, parent |-> NoScope, len |-> 5,
      calls |-> {Step("q1", "success"), Step("q1", "blocked"), Step("q2", "success"),
                 Step(None, "success"), Answer("q1", "granted"), Answer("q1", "denied"),
                 Answer("q2", None)}]}

\* Every pattern against every name, as the only one of the child and below "a*" or "*a".
Naming ==
    {[child |-> Scope({Named(p)}, None, {}, None), parent |-> Scope({Named(w)}, None, {}, None),
      len |-> 1, calls |-> {Call("tool_call", Tool(n), {}) : n \in MCNames}] :
        p \in MCPatterns, w \in {<<"a", "*">>, <<"*", "a">>}}

\* Scopes that differ in fields, locations, labels and limits, and the records that tell them apart.
Fields == {None, {}, {Named(<<"a", "*">>)}, {Typed("tool", <<"a">>)}, {Placed("tool", "cloud")},
           {[type |-> "tool"]}, {Typed("tool", <<"a">>), Named(<<"b">>)}}
Places == {None, {}, {"local"}, {"local", "unknown"}}
Limits == {None, 1, 2}

Limiting ==
    {[child |-> c, parent |-> p, len |-> 3,
      calls |-> {Call("tool_call", Placed("tool", "cloud"), {"pii"}),
                 Call("tool_call", Tool(<<"b">>), {}),
                 Call("anchor", [type |-> "service", name |-> <<"b">>], {})}] :
        c, p \in {Scope(t, None, {}, m) : t \in Fields, m \in Limits}
                 \cup {Scope(None, l, d, None) : l \in Places, d \in {{}, {"pii"}}}}

MCSettings == Approving \cup Naming \cup Limiting

\* The two packages read a pattern alike: for every pattern of a scope and every name of the
\* run that has no line end (scope.py:167-174, scope.ts:84-101).
PackagesAgree ==
    \A p \in Parties : \A i \in DOMAIN run :
        setting[p].targets # None =>
            \A pattern \in setting[p].targets :
                "name" \in DOMAIN pattern =>
                    (GlobSearch(pattern.name, run[i].target.name)
                     <=> <<pattern.name, run[i].target.name>> \in Matches)
=============================================================================
