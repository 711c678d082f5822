----------------------------- MODULE MCGateway ------------------------------
\* Small instances of Gateway for TLC.
EXTENDS Gateway

Request(proxy, body, cloud, barred, stream, events) ==
    [proxy |-> proxy, body |-> body, cloud |-> cloud, barred |-> barred, stream |-> stream,
     events |-> events]

ModelCalls ==
    {Request("llm", "act", TRUE, b, s, <<"delta", "result">>) : b, s \in BOOLEAN}
    \cup {Request("llm", "act", FALSE, TRUE, TRUE, <<"delta", "error">>),
          Request("llm", "unreadable", TRUE, FALSE, FALSE, <<>>)}

Lists == {Request("mcp", "list", TRUE, TRUE, FALSE, <<"result">>)}

ToolCalls ==
    {Request("mcp", "act", TRUE, b, TRUE, <<"delta", "result">>) : b \in BOOLEAN}
    \cup {Request("mcp", "act", FALSE, TRUE, FALSE, <<e>>) : e \in {"input", "error"}}
    \cup {Request("mcp", body, TRUE, TRUE, FALSE, <<"result">>) : body \in {"batch", "badid", "other", "get"}}

Delegations ==
    {Request("a2a", body, TRUE, TRUE, FALSE, <<"completed">>) : body \in {"act", "other", "get", "unreadable"}}
    \cup {Request("a2a", "act", FALSE, FALSE, FALSE, <<e>>) : e \in {"message", "failed"}}
    \cup {Request("a2a", body, FALSE, TRUE, FALSE, <<"working">>) : body \in {"cancel", "other", "unserved"}}
    \cup {Request("a2a", "act", FALSE, FALSE, TRUE, events) :
            events \in {<<"working", "completed">>, <<"working", "error">>}}
    \cup {Request("a2a", "other", TRUE, FALSE, TRUE, <<"delta", "completed">>)}

Short == {s \in ModelCalls \cup Delegations :
            s.stream /\ s.body = "act" /\ ~s.barred /\ Last(s.events) # "error"}

\* The second call of an instance is a listing.
Pairs(first) == {[c \in Calls |-> IF c = "c1" THEN a ELSE b] : a \in first, b \in Lists}
MCShapes == Pairs(ModelCalls \cup ToolCalls \cup Delegations \cup Lists)

\* A malformed post, a listing and other steps, to the label or to its first run.
MCSteps == {[p \in Posts |-> s] :
              s \in {[body |-> "good", version |-> v, to |-> r] : v \in {0, 1}, r \in {None, 1}}
                    \cup {[body |-> b, version |-> 0, to |-> None] : b \in {"malformed", "claims", "invalid"}}}

\* What comes: one call of any kind; two listings; a listing and a post; two exporters; a
\* relayed stream and an exporter. A shape that does not come is not varied.
Few ==
    LET coming == {c \in Calls : call[c].pc = "arrive"} \cup {p \in Posts : post[p].pc = "arrive"}
                  \cup {x \in Exports : export[x].pc = "send"}
    IN
    /\ \/ coming = {"c1"}
       \/ coming \in {{"c1", "c2"}, {"c1", "p1"}, {"x1", "x2"}} /\ shape["c1"] \in Lists
       \/ coming = {"c1", "x2"} /\ shape["c1"] \in Short
    /\ "p1" \notin coming => step = CHOOSE s \in MCSteps : TRUE
MCInit == Init /\ Few
MCSpec == MCInit /\ [][Next]_vars

MCBatch == [x \in Exports |-> IF x = "x1" THEN <<"s2", "s1">> ELSE <<"s1">>]
MCTrouble == {"fault", "lost", "end", "idle", "clash", "split", "restart"}

\* Each kind of trouble once, and two of them in all.
MCBudget == {f \in [MCTrouble -> 0..1] : FoldFunction(+, 0, f) <= 2}
MCIdleOnly == {f \in MCBudget : \A t \in MCTrouble \ {"idle"} : f[t] = 0}
MCFaultOnly == {f \in MCBudget : \A t \in MCTrouble \ {"fault"} : f[t] = 0}

MCListShapes == Pairs(Lists)
MCModelShapes == Pairs(ModelCalls)
MCDelegationShapes == Pairs(Delegations)
=============================================================================
