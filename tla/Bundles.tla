------------------------------ MODULE Bundles -------------------------------
(***************************************************************************)
(* Bundle archives: how write_bundle makes one, what read_bundle takes     *)
(* apart and what verify_bundle asks of it. An archive has a sealed        *)
(* manifest, perhaps with a countersignature of the principal, a set of    *)
(* delegations, and runs, payload bodies and witness receipts as functions *)
(* from what names their files.                                            *)
(***************************************************************************)
EXTENDS Verify, Functions

CONSTANT MaxEntries  \* files an archive may have

\* The manifest entry of a run; a slice says what its first record chains to.
RunEntry(recs) ==
    LET first == recs[1].doc
    IN  [run |-> first.run, count |-> Len(recs), first_seq |-> first.seq,
         first_hash |-> IF first.seq > 0 THEN first.prev ELSE ZeroHash,
         last_hash |-> recs[Len(recs)].hash, complete |-> Complete(recs)]

\* The digest of each file under its path.
FilesOf(b) ==
    [delegations |-> b.delegations, runs |-> b.runs, bodies |-> b.bodies, receipts |-> b.receipts]

\* Nothing is written of bodies that are said to be omitted, of a body that is not the one its
\* key names, or of delegations by two principals.
Writable(delegations, bodies, omitted) ==
    /\ omitted => bodies = <<>>
    /\ \A k \in DOMAIN bodies : Digest(bodies[k]) = k
    /\ \E p \in {d.doc.principal : d \in delegations} : \A d \in delegations : d.doc.principal = p

\* Sealed by the exporter and countersigned by the principal.
WriteBundle(id, delegations, runs, bodies, receipts, omitted, exporter, principal) ==
    LET content == [delegations |-> delegations, runs |-> runs, bodies |-> bodies,
                    receipts |-> receipts]
        manifest == Seal([id |-> id, exporter |-> exporter,
                          principal |-> (CHOOSE d \in delegations : TRUE).doc.principal,
                          delegations |-> {d.doc.id : d \in delegations},
                          entries |-> {RunEntry(runs[r]) : r \in DOMAIN runs},
                          files |-> Digest(content), omitted |-> omitted],
                         "manifest", exporter)
    IN  [manifest |-> manifest,
         countersig |-> Signature(principal, "manifest", manifest.hash),
         delegations |-> delegations, runs |-> runs, bodies |-> bodies, receipts |-> receipts]

\* Files of the archive, its manifest included.
Entries(b) ==
    1 + Cardinality(b.delegations) + Cardinality(DOMAIN b.runs)
      + Cardinality(DOMAIN b.bodies) + Cardinality(DOMAIN b.receipts)

Fits(b) == Entries(b) <= MaxEntries
-----------------------------------------------------------------------------
\* `read_bundle`: the files are those of the manifest, each under its own name

EdgesAre(recs, r) == recs # <<>> => recs[1].doc.run = r /\ recs[Len(recs)].doc.run = r

PayloadKeyOk(k, body) == k = Digest(body)

ReadBundle(b) ==
    /\ Fits(b)
    /\ b.manifest.doc.files = Digest(FilesOf(b))
    /\ \A r \in DOMAIN b.runs : EdgesAre(b.runs[r], r)
    /\ \A k \in DOMAIN b.bodies : PayloadKeyOk(k, b.bodies[k])
-----------------------------------------------------------------------------
\* `verify_bundle`; `trusted` is None or the principals known out of band

VerifyManifest(b, trusted) ==
    LET m == b.manifest
    IN
    /\ CheckHash(m)
    /\ \A d \in b.delegations : VerifyDelegation(d) /\ d.doc.principal = m.doc.principal
    /\ trusted # None => m.doc.principal \in trusted
    /\ \E e \in b.delegations :
        /\ e.doc.agent = m.doc.exporter
        /\ CheckSignature(m.sig, m, "manifest", e.doc.agent)
        /\ b.countersig # None => CheckSignature(b.countersig, m, "manifest", e.doc.principal)
    /\ m.doc.delegations = {d.doc.id : d \in b.delegations}
    /\ {e.run : e \in m.doc.entries} = DOMAIN b.runs
    /\ m.doc.omitted => b.bodies = <<>>

\* A run verifies and is what its entry says.
EntryOk(b, entry) ==
    LET recs == b.runs[entry.run]
    IN
    /\ VerifyRun(recs, b.delegations, IF entry.first_seq > 0 THEN entry.first_hash ELSE ZeroHash,
                 IF b.manifest.doc.omitted THEN {} ELSE {b.bodies})
    /\ entry.count = Len(recs) /\ entry.last_hash = recs[Len(recs)].hash
    /\ entry.complete = Complete(recs) /\ entry.first_seq = recs[1].doc.seq

\* No record id is in two runs.
CheckRecordIds(b) ==
    \A r, s \in DOMAIN b.runs : r # s =>
        \A x \in ToSet(b.runs[r]), y \in ToSet(b.runs[s]) : x.doc.id # y.doc.id

\* A receipt file is the receipt of the anchor record it is named after.
CheckAnchorFiles(b) ==
    \A id \in DOMAIN b.receipts :
        \E r \in DOMAIN b.runs : \E x \in ToSet(b.runs[r]) :
            x.doc.kind = "anchor" /\ x.doc.id = id /\ b.receipts[id] = x.doc.over.receipt

VerifyBundle(b, trusted) ==
    /\ VerifyManifest(b, trusted)
    /\ \A entry \in b.manifest.doc.entries : EntryOk(b, entry)
    /\ CheckRecordIds(b)
    /\ CheckAnchorFiles(b)
    /\ CheckParentLinks(b.runs, b.delegations)

\* Both steps of whoever is handed an archive.
Accepted(b, trusted) == ReadBundle(b) /\ VerifyBundle(b, trusted)
=============================================================================
