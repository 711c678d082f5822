------------------------------- MODULE Verify -------------------------------
(***************************************************************************)
(* What the verifier accepts of one run and of runs that name each other.  *)
(* A sealed object is its document, the digest of the document and the     *)
(* signatures over that digest; a digest is a collision-free term and a    *)
(* signature names its key and its domain. The loop of verify_run raises   *)
(* at the first failed check: here a run is good when every record passes, *)
(* with what the loop carries from record to record written as a condition *)
(* on the records before. What it finds in a good run is in Scopes.        *)
(***************************************************************************)
EXTENDS ScopeRules, SequencesExt

ZeroHash == <<"zero">>

Digest(doc) == <<"digest", doc>>

Signature(key, domain, hash) == <<"signed", key, domain, hash>>

\* `signing.seal` by the holder of the key.
Seal(doc, domain, key) ==
    [doc |-> doc, hash |-> Digest(doc), sig |-> Signature(key, domain, Digest(doc))]

CheckHash(x) == x.hash = Digest(x.doc)

CheckSignature(sig, x, domain, key) == sig = Signature(key, domain, x.hash)
-----------------------------------------------------------------------------
\* Delegations. A key and its kid are one: that principal_id and agent_id are the kids of
\* the key sets in the document is true of every delegation written here.

CreateDelegation(principal, agent, id, from, until, scope) ==
    Seal([id |-> id, principal |-> principal, agent |-> agent, from |-> from,
          until |-> until, scope |-> scope], "delegation", principal)

VerifyDelegation(d) ==
    /\ d.doc.from < d.doc.until
    /\ CheckHash(d)
    /\ CheckSignature(d.sig, d, "delegation", d.doc.principal)

Covers(d, at) == d.doc.from <= at /\ at <= d.doc.until
-----------------------------------------------------------------------------
\* One record: what it carries besides its place in the chain is in `with`, [payload: digests
\* of request and response or None, proxied, receipt: None or [by, digest], context: None or
\* the policy set of the run, policy: None or the policy set of the rule that fired].

Bare == [payload |-> [request |-> None, response |-> None], proxied |-> FALSE,
         receipt |-> None, context |-> None, policy |-> None]

\* The part of the record schema that later checks rely on.
SchemaOk(x) ==
    /\ (x.doc.seq = 0) <=> (x.doc.kind = "run_start")
    /\ x.doc.seq = 0 => x.doc.prev = ZeroHash /\ x.doc.binding # None
    /\ x.doc.kind = "anchor" => x.doc.over # None

\* The delegation run_start names, or for a slice one issued to the agent. Of several to one agent
\* the code takes the first in the file; no archive here has several.
DelegationsFor(recs, delegations) ==
    LET first == recs[1].doc
    IN  IF first.seq = 0
        THEN {d \in delegations : d.doc.id = first.binding.id /\ d.hash = first.binding.hash}
        ELSE {d \in delegations : d.doc.agent = first.agent}

\* Every body a record names is in the store of bodies under its digest. `given` holds that
\* store, or nothing where bodies were left out on purpose: they are not looked for.
PayloadOk(x, given) ==
    \A bodies \in given, side \in {"request", "response"} :
        LET expected == x.doc.with.payload[side]
        IN  expected # None => expected \in DOMAIN bodies /\ Digest(bodies[expected]) = expected

\* The anchor points at an earlier record of the run, carries its hash, and the witness was
\* given that hash.
AnchorOk(recs, i) ==
    LET over == recs[i].doc.over
        j == over.seq - recs[1].doc.seq + 1
    IN  /\ j \in 1..Len(recs) /\ over.seq < recs[i].doc.seq /\ recs[j].hash = over.hash
        /\ over.receipt = over.hash

\* The context is on run_start only, and a policy that names its set names the run's.
ContextOk(recs, i) ==
    LET x == recs[i].doc
        inForce == recs[1].doc.with.context
    IN  /\ x.with.context # None => x.kind = "run_start"
        /\ x.with.policy # None /\ inForce # None => x.with.policy = inForce

\* A proxy's receipt is on a proxied record and for the response the record names; a proxied
\* record has no other.
ReceiptOk(x) ==
    LET w == x.doc.with
    IN
    w.receipt # None =>
        IF w.receipt.by = "proxy"
        THEN w.proxied /\ w.receipt.digest # None /\ w.receipt.digest = w.payload.response
        ELSE ~w.proxied

\* Mutant: the hash is compared with the next prev_hash and signed, but not recomputed.
RecordOkNoHash(recs, i, d, prev, given) ==
    LET x == recs[i]
    IN
    /\ SchemaOk(x)
    /\ x.doc.run = recs[1].doc.run
    /\ x.doc.seq = recs[1].doc.seq + i - 1
    /\ \A j \in 1..i - 1 : recs[j].doc.id # x.doc.id /\ recs[j].doc.kind # "run_end"
    /\ x.doc.prev = IF i = 1 THEN prev ELSE recs[i - 1].hash
    /\ x.doc.agent = d.doc.agent
    /\ x.doc.principal = d.doc.principal
    /\ Covers(d, x.doc.at)
    /\ CheckSignature(x.sig, x, "record", d.doc.agent)
    /\ PayloadOk(x, given)
    /\ x.doc.kind = "anchor" => AnchorOk(recs, i)
    /\ ContextOk(recs, i)
    /\ ReceiptOk(x)

RecordOk(recs, i, d, prev, given) ==
    LET x == recs[i]
    IN
    /\ SchemaOk(x)
    /\ x.doc.run = recs[1].doc.run
    /\ x.doc.seq = recs[1].doc.seq + i - 1
    /\ \A j \in 1..i - 1 : recs[j].doc.id # x.doc.id /\ recs[j].doc.kind # "run_end"
    /\ x.doc.prev = IF i = 1 THEN prev ELSE recs[i - 1].hash
    /\ CheckHash(x)
    /\ x.doc.agent = d.doc.agent
    /\ x.doc.principal = d.doc.principal
    /\ Covers(d, x.doc.at)
    /\ CheckSignature(x.sig, x, "record", d.doc.agent)
    /\ PayloadOk(x, given)
    /\ x.doc.kind = "anchor" => AnchorOk(recs, i)
    /\ ContextOk(recs, i)
    /\ ReceiptOk(x)

VerifyRun(recs, delegations, prev, given) ==
    /\ recs # <<>>
    /\ SchemaOk(recs[1])
    /\ recs[1].doc.seq = 0 => prev = ZeroHash
    /\ \E d \in DelegationsFor(recs, delegations) :
        /\ VerifyDelegation(d)
        /\ ScopeParses(d.doc.scope)
        /\ \A i \in 1..Len(recs) : RecordOk(recs, i, d, prev, given)

Complete(recs) == recs[Len(recs)].doc.kind = "run_end"
-----------------------------------------------------------------------------
\* Runs that were asked for by a record of another run: `check_parent_links`

\* [run, record, delegation], or None.
ParentOf(recs) == IF recs[1].doc.kind = "run_start" THEN recs[1].doc.binding.parent ELSE None

\* The scope of the delegation that run_start names; a slice names none.
BoundScope(recs, delegations) ==
    LET bound == {d \in delegations : recs[1].doc.binding # None /\ d.doc.id = recs[1].doc.binding.id}
    IN  IF bound = {} THEN NoScope ELSE (CHOOSE d \in bound : TRUE).doc.scope

\* The record that asked is a tool call of the parent run, which began no later and under the
\* delegation the child names, a wider one.
LinkOk(recs, runs, delegations) ==
    LET link == ParentOf(recs)
        parent == runs[link.run]
    IN
    link # None /\ link.run \in DOMAIN runs =>
        /\ \E i \in DOMAIN parent : parent[i].doc.id = link.record /\ parent[i].doc.kind = "tool_call"
        /\ parent[1].doc.at <= recs[1].doc.at
        /\ parent[1].doc.binding # None /\ parent[1].doc.binding.hash = link.delegation
        /\ ScopeWithin(BoundScope(recs, delegations), BoundScope(parent, delegations))

CheckParentLinks(runs, delegations) == \A r \in DOMAIN runs : LinkOk(runs[r], runs, delegations)

\* The runs whose parent is elsewhere.
Unresolved(runs) ==
    {r \in DOMAIN runs : ParentOf(runs[r]) # None /\ ParentOf(runs[r]).run \notin DOMAIN runs}
=============================================================================
