----------------------------- MODULE MCCustody ------------------------------
(* A small instance of Custody for TLC: another recorder's archives, good and bad. *)
EXTENDS Custody

\* Principal 1 with agents 2 and 3, principal 4 with agent 5, this recorder with 8 and 9.
Delegated(id, principal, agent, max) ==
    CreateDelegation(principal, agent, id, 0, 9, [NoScope EXCEPT !.max = max])
D2 == Delegated("d2", 1, 2, 5)
D3 == Delegated("d3", 1, 3, 5)
DWide == Delegated("d3", 1, 3, None)
DOther == Delegated("d4", 4, 5, 5)
MCOwn == Delegated("own", 8, 9, None)

Ext(request, response) ==
    [Bare EXCEPT !.payload = [request |-> Digest(request), response |-> Digest(response)],
                 !.proxied = TRUE, !.receipt = [by |-> "proxy", digest |-> Digest(response)]]
Call == [kind |-> "tool_call", with |-> Ext("ask", "reply")]
Hello == [kind |-> "llm_call", with |-> Ext("hello", "reply")]
Note == [kind |-> "note", with |-> Bare]
Begin == [kind |-> "run_start", with |-> Bare]
End == [kind |-> "run_end", with |-> Bare]

\* The records an agent seals onto a run under a delegation, one for each step.
Sealed(run, d, parent, steps) ==
    LET Onto(recs, s, n) ==
            Append(recs, Seal([run |-> run, seq |-> n, id |-> <<run, n>>, kind |-> s.kind,
                               at |-> n, principal |-> d.doc.principal, agent |-> d.doc.agent,
                               with |-> s.with, over |-> None,
                               binding |-> IF n > 0 THEN None
                                           ELSE [id |-> d.doc.id, hash |-> d.hash, parent |-> parent],
                               prev |-> IF n = 0 THEN ZeroHash ELSE recs[n].hash],
                              "record", d.doc.agent))
        recs[n \in 0..Len(steps)] ==
            IF n = 0 THEN <<>> ELSE Onto(recs[n - 1], steps[n], n - 1)
    IN  recs[Len(steps)]

Linked(n) == [run |-> "p", record |-> <<"p", n>>, delegation |-> D2.hash]
P == Sealed("p", D2, None, <<Begin, Call, End>>)
C(d, n) == Sealed("c", d, Linked(n), <<Begin, Hello>>)
Q == Sealed("q", DOther, None, <<Begin, End>>)
Q3 == Sealed("q", DWide, None, <<Begin, End>>)
OwnRun(r) == Sealed(r, MCOwn, None, <<Begin, Call>>)
MCOwnRuns == "v" :> OwnRun("v") @@ "w" :> OwnRun("w")

Bodies(rs) == [k \in UNION {Named(r) : r \in rs} |-> k[2]]
Made(id, ds, rs) ==
    LET d == CHOOSE x \in ds : TRUE
    IN  WriteBundle(id, ds, [r \in {x[1].doc.run : x \in rs} |-> CHOOSE x \in rs : x[1].doc.run = r],
                    Bodies(rs), <<>>, FALSE, d.doc.agent, d.doc.principal)

MCArchives ==
    <<"whole">> :> Made(<<"b1">>, {D2}, {P})
    @@ <<"early">> :> Made(<<"b2">>, {D2}, {SubSeq(P, 1, 2)})
    @@ <<"slice">> :> Made(<<"b3">>, {D2}, {SubSeq(P, 2, 3)})
    @@ <<"lean">> :> WriteBundle(<<"b4">>, {D2}, [p |-> P], <<>>, <<>>, TRUE, 2, 1)
    @@ <<"family">> :> Made(<<"b5">>, {D2, D3}, {P, C(D3, 1)})
    @@ <<"orphan">> :> Made(<<"b6">>, {D2, D3}, {P, C(D3, 2)})
    @@ <<"wide">> :> Made(<<"b7">>, {D2, DWide}, {P, C(DWide, 1)})
    @@ <<"again">> :> Made(<<"b1">>, {DWide}, {Q3})
    @@ <<"torn">> :> [Made(<<"b8">>, {D2}, {P}) EXCEPT !.bodies = <<>>]
    @@ <<"foreign">> :> Made(<<"b9">>, {DOther}, {Q})

MCTrusted == {1, 8}
=============================================================================
