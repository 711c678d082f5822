------------------------------ MODULE Custody -------------------------------
(***************************************************************************)
(* The database of a recorder that holds runs of its own and runs of       *)
(* others. Archives are uploaded, verified and imported while request      *)
(* threads go on appending to the recorder's runs. An import runs on the   *)
(* event loop, so there is one at a time, but an append may commit between *)
(* what an import read and its commit, and the other way round. A key that *)
(* was stored meanwhile makes the commit fail as a whole.                  *)
(***************************************************************************)
EXTENDS Bundles

CONSTANTS
    Archives,  \* archives others may upload, a function from names
    Trusted,   \* the principals configured, or None
    Own,       \* the delegation of this recorder
    OwnRuns    \* OwnRuns[r]: the records this recorder seals onto its run r, in order

VARIABLES
    bundles,   \* BundleRow: names of the archives stored, by bundle id
    delegs,    \* DelegationRow: documents by delegation id
    runs,      \* RunRow by run id, [from: the archive its records are of, or None if live; count]
    bodies,    \* PayloadRow: bodies by digest
    job,       \* the import under way: its archive and what was not stored when it looked
    writing,   \* writing[r]: None, or the bodies that were not stored when its append looked
    verified   \* the archives that read_bundle and verify_bundle let pass, whenever they come

tables == <<bundles, delegs, runs, bodies>>
vars == <<tables, job, writing, verified>>

NoJob == [name |-> None, delegs |-> {}, runs |-> {}, bodies |-> {}]

\* A row of its own.
Row(key, value) == [k \in {key} |-> value]

\* Rows are written to a table.
Added(table, more) ==
    [k \in DOMAIN table \cup DOMAIN more |-> IF k \in DOMAIN more THEN more[k] ELSE table[k]]

\* Digests of the bodies that records name.
Named(recs) ==
    (UNION {{x.doc.with.payload.request, x.doc.with.payload.response} : x \in ToSet(recs)}) \ {None}
-----------------------------------------------------------------------------
\* Exports of this recorder's runs

\* `build_bundle` of its run r when it had n records.
BuildBundle(r, n) ==
    LET recs == SubSeq(OwnRuns[r], 1, n)
    IN  WriteBundle(<<r, n>>, {Own}, Row(r, recs), [k \in Named(recs) |-> k[2]], <<>>, FALSE,
                    Own.doc.agent, Own.doc.principal)

\* Its runs as they may be exported, at any time.
OwnExports == UNION {{<<r, n>> : n \in 1..Len(OwnRuns[r])} : r \in DOMAIN OwnRuns}

Archive(name) ==
    IF name \in OwnExports THEN BuildBundle(name[1], name[2]) ELSE Archives[name]

\* An archive is read into lists of records by run id, delegations by delegation id and bodies
\* by digest (bundle.py:244-268).
ASSUME ArchiveAssumption ==
    /\ None \notin DOMAIN Archives \cup OwnExports
    /\ \A name \in DOMAIN Archives \cup OwnExports :
        LET a == Archive(name)
        IN  /\ \A d, e \in a.delegations : d.doc.id = e.doc.id => d = e
            /\ \A r \in DOMAIN a.runs : a.runs[r] \in Seq(ToSet(a.runs[r]))

\* What this recorder seals verifies with the bodies it was given, however far a run got
\* (LiveRuns). `start` takes no bodies.
ASSUME OwnAssumption ==
    \A r \in DOMAIN OwnRuns :
        /\ OwnRuns[r] \in Seq(ToSet(OwnRuns[r])) /\ OwnRuns[r] # <<>>
        /\ Named(<<OwnRuns[r][1]>>) = {}
        /\ \A n \in 1..Len(OwnRuns[r]) :
            LET recs == SubSeq(OwnRuns[r], 1, n)
            IN  VerifyRun(recs, {Own}, ZeroHash, {[k \in Named(recs) |-> k[2]]})

\* Exports made so far, as the runs stand or as they stood earlier; an imported run is refused.
Exported ==
    {name \in OwnExports : /\ name[1] \in DOMAIN runs /\ runs[name[1]].from = None
                           /\ name[2] <= runs[name[1]].count}

\* The records stored of a run.
Stored(r) == IF runs[r].from = None THEN SubSeq(OwnRuns[r], 1, runs[r].count)
             ELSE Archive(runs[r].from).runs[r]
-----------------------------------------------------------------------------
\* Importing: `upload_bundle` and `import_bundle`

IdOf(a) == a.manifest.doc.id

\* A delegation is stored under its id with another document.
Clash(a) == \E d \in a.delegations : d.doc.id \in DOMAIN delegs /\ delegs[d.doc.id] # d

\* The archive does not verify, or a delegation of it is stored with another document.
Refused(name) ==
    /\ \/ name \notin verified
       \/ IdOf(Archive(name)) \notin DOMAIN bundles /\ Clash(Archive(name))
    /\ UNCHANGED <<tables, job, writing>>

\* The bundle is stored: its row is the answer.
Known(name) ==
    /\ name \in verified /\ IdOf(Archive(name)) \in DOMAIN bundles
    /\ UNCHANGED <<tables, job, writing>>

\* Mutant: the bodies of runs that are stored already are not looked at.
LookNewRuns(name) ==
    LET a == Archive(name)
        fresh == DOMAIN a.runs \ DOMAIN runs
    IN
    /\ name \in verified /\ IdOf(a) \notin DOMAIN bundles /\ ~Clash(a)
    /\ job' = [name |-> name,
               delegs |-> {d.doc.id : d \in a.delegations} \ DOMAIN delegs,
               runs |-> fresh,
               bodies |-> (DOMAIN a.bodies \cap UNION {Named(a.runs[r]) : r \in fresh}) \ DOMAIN bodies]
    /\ UNCHANGED <<tables, writing>>

\* What the import will add: the rows it does not find.
Look(name) ==
    LET a == Archive(name) IN
    /\ name \in verified /\ IdOf(a) \notin DOMAIN bundles /\ ~Clash(a)
    /\ job' = [name |-> name,
               delegs |-> {d.doc.id : d \in a.delegations} \ DOMAIN delegs,
               runs |-> DOMAIN a.runs \ DOMAIN runs,
               bodies |-> DOMAIN a.bodies \ DOMAIN bodies]
    /\ UNCHANGED <<tables, writing>>

Upload(name) == job = NoJob /\ (Refused(name) \/ Known(name) \/ Look(name))

\* A row to be added is there by now.
Taken == job.bodies \cap DOMAIN bodies # {} \/ job.runs \cap DOMAIN runs # {}

\* Mutant: the rows of the bundle's runs are merged into the table.
ImportMerges ==
    LET a == Archive(job.name)
        DelegationNamed(id) == CHOOSE d \in a.delegations : d.doc.id = id
    IN
    /\ job # NoJob /\ ~Taken
    /\ bundles' = Added(bundles, Row(IdOf(a), job.name))
    /\ delegs' = Added(delegs, [id \in job.delegs |-> DelegationNamed(id)])
    /\ runs' = Added(runs, [r \in DOMAIN a.runs |-> [from |-> job.name, count |-> Len(a.runs[r])]])
    /\ bodies' = Added(bodies, Restrict(a.bodies, job.bodies))
    /\ job' = NoJob
    /\ UNCHANGED writing

ImportCommit ==
    LET a == Archive(job.name)
        DelegationNamed(id) == CHOOSE d \in a.delegations : d.doc.id = id
    IN
    /\ job # NoJob /\ ~Taken
    /\ bundles' = Added(bundles, Row(IdOf(a), job.name))
    /\ delegs' = Added(delegs, [id \in job.delegs |-> DelegationNamed(id)])
    /\ runs' = Added(runs, [r \in job.runs |-> [from |-> job.name, count |-> Len(a.runs[r])]])
    /\ bodies' = Added(bodies, Restrict(a.bodies, job.bodies))
    /\ job' = NoJob
    /\ UNCHANGED writing

\* The database refuses the commit: always when a row is there by now.
ImportFails ==
    /\ job # NoJob
    /\ job' = NoJob
    /\ UNCHANGED <<tables, writing>>
-----------------------------------------------------------------------------
\* This recorder's own runs: `start` and `append`, one thread at a run

StartRun(r) ==
    /\ r \notin DOMAIN runs
    /\ runs' = Added(runs, Row(r, [from |-> None, count |-> 1]))
    /\ UNCHANGED <<bundles, delegs, bodies, job, writing>>

NextRecord(r) == OwnRuns[r][runs[r].count + 1]

\* A run that is not live is refused.
AppendLook(r) ==
    /\ r \in DOMAIN runs /\ runs[r].from = None /\ writing[r] = None
    /\ runs[r].count < Len(OwnRuns[r])
    /\ writing' = [writing EXCEPT ![r] = Named(<<NextRecord(r)>>) \ DOMAIN bodies]
    /\ UNCHANGED <<tables, job>>

AppendCommit(r) ==
    /\ writing[r] # None /\ writing[r] \cap DOMAIN bodies = {}
    /\ runs' = [runs EXCEPT ![r].count = @ + 1]
    /\ bodies' = Added(bodies, [k \in writing[r] |-> k[2]])
    /\ writing' = [writing EXCEPT ![r] = None]
    /\ UNCHANGED <<bundles, delegs, job>>

\* The commit fails, always when a body was stored meanwhile, and the writer takes the record
\* back.
AppendFails(r) ==
    /\ writing[r] # None
    /\ writing' = [writing EXCEPT ![r] = None]
    /\ UNCHANGED <<tables, job>>
-----------------------------------------------------------------------------

Init ==
    /\ bundles = <<>>
    /\ delegs = Row(Own.doc.id, Own)
    /\ runs = <<>>
    /\ bodies = <<>>
    /\ job = NoJob
    /\ writing = [r \in DOMAIN OwnRuns |-> None]
    /\ verified = {name \in DOMAIN Archives \cup OwnExports : Accepted(Archive(name), Trusted)}

\* The process dies with what it was doing.
Restart ==
    /\ job' = NoJob /\ writing' = [r \in DOMAIN OwnRuns |-> None]
    /\ UNCHANGED tables

Import == ImportCommit \/ ImportFails \/ \E name \in DOMAIN Archives \cup Exported : Upload(name)

Write(r) == StartRun(r) \/ AppendLook(r) \/ AppendCommit(r) \/ AppendFails(r)

Next == (Import \/ Restart \/ \E r \in DOMAIN OwnRuns : Write(r)) /\ UNCHANGED verified

Spec == Init /\ [][Next]_vars
-----------------------------------------------------------------------------
\* Properties

PrevOf(recs) == IF recs[1].doc.seq = 0 THEN ZeroHash ELSE recs[1].doc.prev

\* What was let in is there as a whole: of every bundle stored each delegation, run and body
\* is in its table, every run verifies from the tables alone, with its bodies if its bundle
\* brought them, and the recorder finds every body of its own runs for an export
\* (importer.py:28-31, export.py:90-99).
StoredIsWhole ==
    /\ \A id \in DOMAIN bundles :
        LET a == Archive(bundles[id])
        IN  /\ IdOf(a) = id
            /\ \A d \in a.delegations : delegs[d.doc.id] = d
            /\ DOMAIN a.runs \subseteq DOMAIN runs
            /\ \A k \in DOMAIN a.bodies : k \in DOMAIN bodies /\ bodies[k] = a.bodies[k]
    /\ \A r \in DOMAIN runs :
        LET omitted == runs[r].from # None /\ Archive(runs[r].from).manifest.doc.omitted
        IN  VerifyRun(Stored(r), Range(delegs), PrevOf(Stored(r)), IF omitted THEN {} ELSE {bodies})

\* The tables keep their rows; only the recorder's own runs grow.
Kept ==
    /\ \A id \in DOMAIN bundles : id \in DOMAIN bundles' /\ bundles'[id] = bundles[id]
    /\ \A id \in DOMAIN delegs : id \in DOMAIN delegs' /\ delegs'[id] = delegs[id]
    /\ \A k \in DOMAIN bodies : k \in DOMAIN bodies' /\ bodies'[k] = bodies[k]
    /\ \A r \in DOMAIN runs :
        /\ r \in DOMAIN runs' /\ runs'[r].from = runs[r].from
        /\ IF runs[r].from = None THEN runs'[r].count >= runs[r].count ELSE runs'[r] = runs[r]

\* Whatever is uploaded, under whichever ids, nothing that is stored is changed or taken away
\* (importer.py:29-31, importer.py:66).
NothingReplaced == [][Kept]_vars
=============================================================================
