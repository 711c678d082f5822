----------------------------- MODULE MCEvidence -----------------------------
(* Small instances of Evidence for TLC. *)
EXTENDS Evidence

D(body) == IF body = None THEN None ELSE Digest(body)
Exchanged(request, response) == [request |-> D(request), response |-> D(response)]

\* A relayed call with its reply, and a step of one's own.
Relayed == [kind |-> "llm_call",
            with |-> [Bare EXCEPT !.payload = Exchanged("ask", "reply"), !.proxied = TRUE,
                                  !.receipt = [by |-> "proxy", digest |-> D("reply")],
                                  !.policy = Policies]]
Posted == [kind |-> "tool_call",
           with |-> [Bare EXCEPT !.receipt = [by |-> "self_reported", digest |-> None]]]

\* A posted step that names a policy set, or carries a context.
Claiming == {[Posted EXCEPT !.with.policy = p] : p \in {"p1", "p2"}}
            \cup {[Posted EXCEPT !.with.context = "p1"]}

MCSteps == {Relayed, Posted}
MCPosts == {Relayed, Posted} \cup Claiming

MCKeys == 1..5

Limited == [NoScope EXCEPT !.max = 2]
MCSettings == {NoScope, Limited}
MCNoScope == {NoScope}
=============================================================================
