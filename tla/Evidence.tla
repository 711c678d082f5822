------------------------------ MODULE Evidence ------------------------------
(***************************************************************************)
(* From the keys on disk to a verdict: a recorder process loads or makes   *)
(* its keys and its delegation, seals records onto runs, crashes and is    *)
(* started again under the same or another scope while the clock goes on.  *)
(* Rows of the database may be damaged. The properties are about every     *)
(* bundle that could be exported and given to a verifier.                  *)
(***************************************************************************)
EXTENDS Bundles

CONSTANTS
    Runs,      \* run ids
    Steps,     \* steps that may be recorded, [kind, with]
    Settings,  \* scopes the recorder may be started with
    Policies,  \* the policy set in force
    Spoiled,   \* what is found in place of a damaged body
    Keys,      \* key sets, positive numbers
    Lifetime,  \* ticks a new delegation covers after the one it is issued in
    MaxTime,   \* bound of the model: ticks of the clock
    MaxLen,    \* bound of the model: records of a run
    MaxIssued, \* bound of the model: delegations issued
    MaxDamage  \* bound of the model: damages to stored rows

ASSUME EvidenceAssumption ==
    /\ Keys \subseteq Nat \ {0} /\ None \notin Keys
    /\ Lifetime \in Nat \ {0}
    /\ MaxTime \in Nat /\ MaxLen \in Nat /\ MaxIssued \in Nat /\ MaxDamage \in Nat
    /\ \A s \in Settings : ScopeParses(s)

VARIABLES
    files,     \* what data_dir/keys holds
    pc,        \* how far the process is: "down", its start step by step, "up"
    identity,  \* what the process has loaded so far
    wanted,    \* the scope it was started with
    now,       \* the clock
    issued,    \* number of delegations issued so far
    dtable,    \* DelegationRow documents
    rows,      \* rows[r]: stored records of r by seq
    bodies,    \* PayloadRow: stored bodies under their digests
    sealed,    \* sealed[r]: the records as they were stored, before any damage
    damage,    \* damages so far
    overran    \* a record was sealed after the delegation had run out

disk == <<files, issued>>
vars == <<files, pc, identity, wanted, now, issued, dtable, rows, bodies, sealed, damage, overran>>

Nobody == [principal |-> None, agent |-> None, delegation |-> None]
-----------------------------------------------------------------------------
\* Starting: `load_identity`, one file after the other

UsedKeys == {files.principal, files.agent, identity.principal, identity.agent}
            \cup UNION {{d.doc.principal, d.doc.agent} : d \in dtable}

FreshKey(k) == k \in Keys \ UsedKeys /\ \A j \in Keys \ UsedKeys : k <= j

\* Mutant: the file is opened for writing under its own name and filled afterwards.
LoadKeysInPlace(f, from, to) ==
    /\ pc = from
    /\ IF files[f] # None
       THEN identity' = [identity EXCEPT ![f] = files[f]] /\ UNCHANGED files
       ELSE \E k \in Keys :
            /\ FreshKey(k)
            /\ identity' = [identity EXCEPT ![f] = k]
            /\ files' = [files EXCEPT ![f] = k] \/ UNCHANGED files
    /\ pc' = to
    /\ UNCHANGED <<wanted, now, issued, dtable, rows, bodies, sealed, damage, overran>>

\* `_load_or_create_keys`: what the file says, or new keys that `_write_private` puts into
\* place in one step, by os.replace. A file that is no JSON counts as none, which os.replace keeps
\* a crash from leaving behind.
LoadKeys(f, from, to) ==
    /\ pc = from
    /\ IF files[f] # None
       THEN identity' = [identity EXCEPT ![f] = files[f]] /\ UNCHANGED files
       ELSE \E k \in Keys :
            /\ FreshKey(k)
            /\ identity' = [identity EXCEPT ![f] = k]
            /\ files' = [files EXCEPT ![f] = k]
    /\ pc' = to
    /\ UNCHANGED <<wanted, now, issued, dtable, rows, bodies, sealed, damage, overran>>

\* `_delegation_usable`
Usable(d) ==
    /\ d # None
    /\ VerifyDelegation(d)
    /\ d.doc.principal = identity.principal /\ d.doc.agent = identity.agent
    /\ Covers(d, now)
    /\ d.doc.scope = wanted

\* The process is started with a scope from its settings; load_identity refuses one that
\* does not parse.
Start ==
    /\ pc = "down"
    /\ wanted' \in Settings
    /\ pc' = "principal"
    /\ UNCHANGED <<disk, identity, now, dtable, rows, bodies, sealed, damage, overran>>

\* The delegation on disk, or a new one where that is not usable.
LoadDelegation ==
    /\ pc = "delegation"
    /\ IF Usable(files.delegation)
       THEN /\ identity' = [identity EXCEPT !.delegation = files.delegation]
            /\ UNCHANGED disk
       ELSE /\ issued < MaxIssued
            /\ issued' = issued + 1
            /\ LET d == CreateDelegation(identity.principal, identity.agent, issued,
                                         now, now + Lifetime, wanted)
               IN  /\ files' = [files EXCEPT !.delegation = d]
                   /\ identity' = [identity EXCEPT !.delegation = d]
    /\ pc' = "open"
    /\ UNCHANGED <<wanted, now, dtable, rows, bodies, sealed, damage, overran>>

\* Mutant: only the current delegation is kept.
OpenLiveLatest ==
    /\ pc = "open"
    /\ dtable' = {identity.delegation}
    /\ pc' = "up"
    /\ UNCHANGED <<disk, identity, wanted, now, rows, bodies, sealed, damage, overran>>

\* LiveRuns(...): the delegation is merged into the stored ones under its id.
OpenLive ==
    /\ pc = "open"
    /\ dtable' = {d \in dtable : d.doc.id # identity.delegation.doc.id} \cup {identity.delegation}
    /\ pc' = "up"
    /\ UNCHANGED <<disk, identity, wanted, now, rows, bodies, sealed, damage, overran>>

\* The process ends or dies, at any point.
Stop ==
    /\ pc # "down"
    /\ pc' = "down" /\ identity' = Nobody /\ wanted' = None
    /\ UNCHANGED <<disk, now, dtable, rows, bodies, sealed, damage, overran>>

Tick ==
    /\ now < MaxTime
    /\ now' = now + 1
    /\ UNCHANGED <<disk, pc, identity, wanted, dtable, rows, bodies, sealed, damage, overran>>
-----------------------------------------------------------------------------
\* Sealing onto a run

\* Digests of the bodies that records name.
Named(recs) ==
    (UNION {{x.doc.with.payload.request, x.doc.with.payload.response} : x \in ToSet(recs)}) \ {None}

\* The next record of r, previewed and sealed by RunWriter and stored with its bodies.
SealOnto(r, kind, with, over, binding) ==
    LET n == Len(sealed[r])
        doc == [run |-> r, seq |-> n, id |-> <<r, n>>, kind |-> kind, at |-> now,
                principal |-> identity.delegation.doc.principal,
                agent |-> identity.delegation.doc.agent,
                with |-> with, over |-> over, binding |-> binding,
                prev |-> IF n = 0 THEN ZeroHash ELSE sealed[r][n].hash]
        x == Seal(doc, "record", identity.agent)
    IN  /\ n < MaxLen
        /\ sealed' = [sealed EXCEPT ![r] = Append(@, x)]
        /\ rows' = [rows EXCEPT ![r] = Append(@, x)]
        /\ bodies' = [k \in DOMAIN bodies \cup Named(<<x>>) |->
                        IF k \in DOMAIN bodies THEN bodies[k] ELSE k[2]]
        /\ overran' = (overran \/ ~Covers(identity.delegation, now))
        /\ UNCHANGED <<disk, pc, identity, wanted, now, dtable, damage>>

\* Mutant: the delegation of a resumed run is not compared.
ResumableByAnyone(r) ==
    /\ pc = "up" /\ damage = 0
    /\ sealed[r] # <<>> /\ ~Complete(sealed[r])

\* `_writer`: the run is open and was started under the delegation of this process. A
\* damaged run is not written to.
Resumable(r) ==
    /\ pc = "up" /\ damage = 0
    /\ sealed[r] # <<>> /\ ~Complete(sealed[r])
    /\ sealed[r][1].doc.binding.id = identity.delegation.doc.id

StartRun(r) ==
    /\ pc = "up" /\ damage = 0 /\ sealed[r] = <<>>
    /\ SealOnto(r, "run_start", [Bare EXCEPT !.context = Policies], None,
                [id |-> identity.delegation.doc.id, hash |-> identity.delegation.hash,
                 parent |-> None])

\* A proxied call or a step that was posted and parsed.
AppendStep(r, s) == Resumable(r) /\ SealOnto(r, s.kind, s.with, None, None)

\* The anchor of an earlier head of the run, or the last one.
AppendAnchor(r, i) ==
    /\ Resumable(r) /\ i \in 1..Len(sealed[r])
    /\ LET head == sealed[r][i].hash
       IN  SealOnto(r, "anchor", Bare, [seq |-> i - 1, hash |-> head, receipt |-> head], None)

EndRun(r) == Resumable(r) /\ SealOnto(r, "run_end", Bare, None, None)
-----------------------------------------------------------------------------
\* Damage to stored rows

Damage(r, recs) ==
    /\ damage < MaxDamage
    /\ damage' = damage + 1
    /\ rows' = [rows EXCEPT ![r] = recs]
    /\ UNCHANGED <<disk, pc, identity, wanted, now, dtable, bodies, sealed, overran>>

Lose(r, i) == i \in 1..Len(rows[r]) /\ Damage(r, RemoveAt(rows[r], i))

\* Two rows come back with each other's document.
Swap(r, i) ==
    /\ i \in 1..Len(rows[r]) - 1
    /\ Damage(r, [rows[r] EXCEPT ![i] = rows[r][i + 1], ![i + 1] = rows[r][i]])

\* A document is changed where it is stored, its hash left as it was or computed again;
\* either way nobody signs it.
Alter(r, i, again) ==
    /\ i \in 1..Len(rows[r])
    /\ LET x == rows[r][i]
           doc == [x.doc EXCEPT !.at = @ + 1]
       IN  Damage(r, [rows[r] EXCEPT ![i] = [x EXCEPT !.doc = doc,
                                                      !.hash = IF again THEN Digest(doc) ELSE @]])
-----------------------------------------------------------------------------
\* Exporting

\* A body is lost, or is not the one that was stored.
DamageBody(k, body) ==
    /\ damage < MaxDamage /\ k \in DOMAIN bodies
    /\ damage' = damage + 1
    /\ bodies' = IF body = None THEN Restrict(bodies, DOMAIN bodies \ {k})
                 ELSE [bodies EXCEPT ![k] = body]
    /\ UNCHANGED <<disk, pc, identity, wanted, now, dtable, rows, sealed, overran>>

\* The delegation a run names, as stored.
DelegationOf(r) ==
    {d \in dtable : rows[r][1].doc.binding # None /\ d.doc.id = rows[r][1].doc.binding.id}

\* The bodies an archive of these records is to hold.
BodiesOf(recs, omitted) == IF omitted THEN {} ELSE Named(recs)

\* `build_bundle` finds the run, the delegation its first record names and every body, and
\* `write_bundle` finds that each body is the one its key names.
Exportable(r, omitted) ==
    /\ pc = "up" /\ rows[r] # <<>>
    /\ DelegationOf(r) # {}
    /\ BodiesOf(rows[r], omitted) \subseteq DOMAIN bodies
    /\ Writable(DelegationOf(r), Restrict(bodies, BodiesOf(rows[r], omitted)), omitted)

\* The receipts of the anchors among these records.
ReceiptsOf(recs) ==
    LET anchors == {x \in ToSet(recs) : x.doc.kind = "anchor"}
    IN  [id \in {x.doc.id : x \in anchors} |->
            (CHOOSE x \in anchors : x.doc.id = id).doc.over.receipt]

\* A slice of the run from its i-th record on, by an exporter that holds the keys.
Slice(r, i, omitted) ==
    LET recs == SubSeq(rows[r], i, Len(rows[r]))
    IN  WriteBundle(r, DelegationOf(r), [q \in {r} |-> recs], Restrict(bodies, BodiesOf(recs, omitted)),
                    ReceiptsOf(recs), omitted, identity.agent, identity.principal)

\* What the recorder itself exports is the whole run.
BuildBundle(r, omitted) == Slice(r, 1, omitted)

\* What may become of an archive in the hands of others, who cannot sign: a record or a body
\* is missing, a body is another one, the countersignature is left out.
Handed(b, r) ==
    {b, [b EXCEPT !.countersig = None]}
    \cup {[b EXCEPT !.runs[r] = RemoveAt(@, i)] : i \in DOMAIN b.runs[r]}
    \cup {[b EXCEPT !.bodies = Restrict(@, DOMAIN @ \ {k})] : k \in DOMAIN b.bodies}
    \cup {[b EXCEPT !.bodies[k] = Spoiled] : k \in DOMAIN b.bodies}
-----------------------------------------------------------------------------

Init ==
    /\ files = Nobody
    /\ pc = "down"
    /\ identity = Nobody
    /\ wanted = None
    /\ now = 0
    /\ issued = 0
    /\ dtable = {}
    /\ rows = [r \in Runs |-> <<>>]
    /\ bodies = <<>>
    /\ sealed = [r \in Runs |-> <<>>]
    /\ damage = 0
    /\ overran = FALSE

Load ==
    \/ LoadKeys("principal", "principal", "agent")
    \/ LoadKeys("agent", "agent", "delegation")
    \/ LoadDelegation
    \/ OpenLive

Write(r) ==
    \/ StartRun(r) \/ EndRun(r)
    \/ \E s \in Steps : AppendStep(r, s)
    \/ \E i \in 1..MaxLen : AppendAnchor(r, i)

Break(r) ==
    \E i \in 1..MaxLen : Lose(r, i) \/ Swap(r, i) \/ \E again \in BOOLEAN : Alter(r, i, again)

BreakBody == \E k \in DOMAIN bodies, body \in {None, Spoiled} : DamageBody(k, body)

Next == Start \/ Load \/ Stop \/ Tick \/ BreakBody \/ \E r \in Runs : Write(r) \/ Break(r)

Spec == Init /\ [][Next]_vars
-----------------------------------------------------------------------------
\* Properties

\* Every variable keeps its type; every stored run names a stored delegation, and no two
\* of those share an id.
TypeOK ==
    /\ files.principal \in Keys \cup {None} /\ files.agent \in Keys \cup {None}
    /\ pc \in {"down", "principal", "agent", "delegation", "open", "up"}
    /\ wanted \in Settings \cup {None}
    /\ now \in 0..MaxTime /\ issued \in 0..MaxIssued /\ damage \in 0..MaxDamage
    /\ overran \in BOOLEAN
    /\ \A k \in DOMAIN bodies : bodies[k] \in {k[2], Spoiled}
    /\ \A d, e \in dtable : d.doc.id = e.doc.id => d = e
    /\ \A r \in Runs :
        /\ Len(rows[r]) <= MaxLen /\ Len(sealed[r]) <= MaxLen
        /\ sealed[r] # <<>> => \E d \in dtable : d.doc.id = sealed[r][1].doc.binding.id

\* The keys that signed the stored runs are the keys the process holds, whenever the first
\* start was cut off between two files (keystore.py:140): otherwise the old runs could not be
\* exported under a countersignature that verifies.
KeysKept ==
    pc = "up" => \A r \in Runs : \A i \in 1..Len(sealed[r]) :
        /\ sealed[r][i].doc.agent = identity.agent
        /\ sealed[r][i].doc.principal = identity.principal

\* The slice from i on holds the records its anchors are over.
HoldsAnchored(recs, i) ==
    \A k \in i..Len(recs) : recs[k].doc.kind = "anchor" => recs[k].doc.over.seq >= i - 1

\* A run nobody damaged verifies as a whole and as any slice that holds what its anchors are
\* over, with its bodies or without, also after restarts under another scope that reissued
\* the delegation, unless records were sealed after the delegation of the run had run out
\* (live.py:270, verify.py:115-187) or there are more files than a reader takes
\* (bundle.py:214).
GenuineVerifies ==
    damage = 0 /\ ~overran =>
        \A r \in Runs, omitted \in BOOLEAN : Exportable(r, omitted) =>
            \A i \in 1..Len(rows[r]) :
                LET b == Slice(r, i, omitted)
                IN  HoldsAnchored(rows[r], i) /\ Fits(b) => Accepted(b, {identity.principal})

\* The record at i names a body that the archive does not hold.
Withheld(b, x) == \E k \in Named(<<x>>) : k \notin DOMAIN b.bodies \/ Digest(b.bodies[k]) # k

\* What verifies is what was sealed, whether the rows were damaged before the export or the
\* archive after it: all that can be missing is the tail of a run whose manifest does not say
\* it is complete, and bodies only where the manifest says that they are (TRUST.md:74-78,
\* SPEC.md:938-943).
VerifiedIsSealed ==
    \A r \in Runs, omitted \in BOOLEAN : Exportable(r, omitted) =>
        \A b \in Handed(BuildBundle(r, omitted), r) :
            Accepted(b, {identity.principal}) =>
                /\ IsPrefix(b.runs[r], sealed[r])
                /\ \A e \in b.manifest.doc.entries : e.complete => b.runs[r] = sealed[r]
                /\ \A x \in ToSet(b.runs[r]) : Withheld(b, x) => b.manifest.doc.omitted

\* No step that was accepted keeps its run from verifying (live.py:127-129). It is violated:
\* a posted step may carry a context or name another policy set, which is checked against
\* the schema and not against the run.
AcceptedVerifies ==
    damage = 0 /\ ~overran =>
        \A r \in Runs : Exportable(r, FALSE) =>
            LET b == BuildBundle(r, FALSE) IN Fits(b) => Accepted(b, {identity.principal})
=============================================================================
