--------------------------- MODULE CustodyProofs ----------------------------
(***************************************************************************)
(* The recorder's database for any archives of others, any runs of its own *)
(* and any order of uploads, appends and crashes: nothing stored is ever   *)
(* replaced, and what is stored verifies from the tables alone.            *)
(***************************************************************************)
EXTENDS Custody, SequenceTheorems, TLAPS

Names == DOMAIN Archives \cup OwnExports

\* Digests of the bodies that a record names.
Sides(x) == {x.doc.with.payload.request, x.doc.with.payload.response} \ {None}
-----------------------------------------------------------------------------
\* The inductive invariant

\* Every body is stored under its digest.
BodiesTrue == \A k \in DOMAIN bodies : Digest(bodies[k]) = k

\* This recorder's delegation stays what it is.
OwnThere == Own.doc.id \in DOMAIN delegs /\ delegs[Own.doc.id] = Own

\* What the archive a brings is in the tables.
Held(a) ==
    /\ \A d \in a.delegations : d.doc.id \in DOMAIN delegs /\ delegs[d.doc.id] = d
    /\ DOMAIN a.runs \subseteq DOMAIN runs
    /\ DOMAIN a.bodies \subseteq DOMAIN bodies

BundleOK(id) ==
    /\ bundles[id] \in verified
    /\ IdOf(Archive(bundles[id])) = id
    /\ Held(Archive(bundles[id]))

\* A run of the recorder's own has its bodies, another one comes from a stored bundle.
RunOK(r) ==
    /\ runs[r].from = None =>
        /\ r \in DOMAIN OwnRuns /\ runs[r].count \in 1..Len(OwnRuns[r])
        /\ \A i \in 1..runs[r].count : Sides(OwnRuns[r][i]) \subseteq DOMAIN bodies
    /\ runs[r].from # None =>
        /\ r \in DOMAIN Archive(runs[r].from).runs
        /\ IdOf(Archive(runs[r].from)) \in DOMAIN bundles
        /\ bundles[IdOf(Archive(runs[r].from))] = runs[r].from

\* What the import under way will not add is stored.
JobFits(a) ==
    /\ IdOf(a) \notin DOMAIN bundles
    /\ job.delegs = {d.doc.id : d \in a.delegations} \ DOMAIN delegs
    /\ \A d \in a.delegations : d.doc.id \in DOMAIN delegs => delegs[d.doc.id] = d
    /\ job.runs \subseteq DOMAIN a.runs /\ DOMAIN a.runs \subseteq job.runs \cup DOMAIN runs
    /\ job.bodies \subseteq DOMAIN a.bodies /\ DOMAIN a.bodies \subseteq job.bodies \cup DOMAIN bodies

JobOK == job # NoJob => job.name \in verified /\ JobFits(Archive(job.name))

\* What the append under way will not add is stored.
WriteOK(r) ==
    writing[r] # None =>
        /\ r \in DOMAIN runs /\ runs[r].from = None /\ runs[r].count < Len(OwnRuns[r])
        /\ writing[r] \subseteq Sides(NextRecord(r))
        /\ Sides(NextRecord(r)) \subseteq writing[r] \cup DOMAIN bodies

CInv ==
    /\ verified = {name \in Names : Accepted(Archive(name), Trusted)}
    /\ runs \in [DOMAIN runs -> [from : Names \cup {None}, count : Nat]]
    /\ DOMAIN writing = DOMAIN OwnRuns
    /\ BodiesTrue
    /\ OwnThere
    /\ \A id \in DOMAIN bundles : BundleOK(id)
    /\ \A r \in DOMAIN runs : RunOK(r)
    /\ JobOK
    /\ \A r \in DOMAIN OwnRuns : WriteOK(r)
-----------------------------------------------------------------------------
\* Tables, archives, digests

LEMMA AddedFacts ==
  ASSUME NEW t, NEW more
  PROVE  /\ DOMAIN Added(t, more) = DOMAIN t \cup DOMAIN more
         /\ \A k \in DOMAIN more : Added(t, more)[k] = more[k]
         /\ \A k \in DOMAIN t \ DOMAIN more : Added(t, more)[k] = t[k]
BY DEF Added

LEMMA RowFacts ==
  ASSUME NEW k, NEW v
  PROVE  DOMAIN Row(k, v) = {k} /\ Row(k, v)[k] = v
BY DEF Row

\* A digest stands for one body.
LEMMA OneBody ==
  ASSUME NEW x, NEW y, Digest(x) = Digest(y)
  PROVE  x = y
BY DEF Digest

\* The first n records of a run of the recorder's own.
LEMMA Prefix ==
  ASSUME NEW r \in DOMAIN OwnRuns, NEW n \in 1..Len(OwnRuns[r])
  PROVE  /\ Len(SubSeq(OwnRuns[r], 1, n)) = n
         /\ DOMAIN SubSeq(OwnRuns[r], 1, n) = 1..n
         /\ \A i \in 1..n : SubSeq(OwnRuns[r], 1, n)[i] = OwnRuns[r][i]
<1> DEFINE S == ToSet(OwnRuns[r])
<1>1. OwnRuns[r] \in Seq(S)
  BY OwnAssumption
<1>2. Len(OwnRuns[r]) \in Nat
  BY <1>1, LenProperties
<1>3. \A i \in 1..n : OwnRuns[r][i] \in S
  BY <1>1, <1>2, ElementOfSeq
<1> HIDE DEF S
<1>4. /\ SubSeq(OwnRuns[r], 1, n) \in Seq(S)
      /\ Len(SubSeq(OwnRuns[r], 1, n)) = n
      /\ \A i \in 1..n : SubSeq(OwnRuns[r], 1, n)[i] = OwnRuns[r][i]
  BY <1>2, <1>3, SubSeqProperties
<1> QED
  BY <1>4, LenProperties

\* The bodies named by the first n records are those that one of them names.
LEMMA NamedPrefix ==
  ASSUME NEW r \in DOMAIN OwnRuns, NEW n \in 1..Len(OwnRuns[r])
  PROVE  Named(SubSeq(OwnRuns[r], 1, n)) = UNION {Sides(OwnRuns[r][i]) : i \in 1..n}
<1> DEFINE recs == SubSeq(OwnRuns[r], 1, n)
<1>1. DOMAIN recs = 1..n /\ \A i \in 1..n : recs[i] = OwnRuns[r][i]
  BY Prefix
<1> HIDE DEF recs
<1>2. ToSet(recs) = {OwnRuns[r][i] : i \in 1..n}
  BY <1>1 DEF ToSet
<1>3. Named(recs) = UNION {Sides(x) : x \in ToSet(recs)}
  BY DEF Named, Sides
<1>4. UNION {Sides(x) : x \in {OwnRuns[r][i] : i \in 1..n}} = UNION {Sides(OwnRuns[r][i]) : i \in 1..n}
  OBVIOUS
<1> QED
  BY <1>2, <1>3, <1>4 DEF recs

\* The key of a body the recorder wrote is its digest.
LEMMA OwnDigests ==
  ASSUME NEW r \in DOMAIN OwnRuns, NEW i \in 1..Len(OwnRuns[r]), NEW k \in Sides(OwnRuns[r][i])
  PROVE  Digest(k[2]) = k
<1> DEFINE recs == SubSeq(OwnRuns[r], 1, i)
           bs == [x \in Named(recs) |-> x[2]]
<1>1. VerifyRun(recs, {Own}, ZeroHash, {bs})
  BY OwnAssumption
<1>2. Len(recs) = i /\ recs[i] = OwnRuns[r][i] /\ i \in 1..i /\ i \in Nat
  <2>1. i \in 1..i /\ i \in Nat
    OBVIOUS
  <2> QED
    BY <2>1, Prefix
<1>3. k \in Named(recs)
  BY <1>2, NamedPrefix
<1>5. k \in DOMAIN bs /\ bs[k] = k[2]
  BY <1>3
<1> HIDE DEF recs, bs
<1>6. \E d : RecordOk(recs, i, d, ZeroHash, {bs})
  BY <1>1, <1>2 DEF VerifyRun
<1>7. PayloadOk(recs[i], {bs})
  BY <1>6 DEF RecordOk
<1>8. k = recs[i].doc.with.payload["request"] \/ k = recs[i].doc.with.payload["response"]
  BY <1>2 DEF Sides
<1>9. k # None
  BY DEF Sides
<1>10. Digest(bs[k]) = k
  BY <1>7, <1>8, <1>9 DEF PayloadOk
<1> QED
  BY <1>5, <1>10

\* The bodies one record names.
LEMMA NamedOne ==
  ASSUME NEW x
  PROVE  Named(<<x>>) = Sides(x)
<1>1. ToSet(<<x>>) = {x}
  BY DEF ToSet
<1> QED
  BY <1>1 DEF Named, Sides
-----------------------------------------------------------------------------
\* What a step that keeps all rows leaves as it was

LEMMA HeldStays ==
  ASSUME NEW a, Held(a), Kept
  PROVE  Held(a)'
<1>1. \A d \in a.delegations : d.doc.id \in DOMAIN delegs' /\ delegs'[d.doc.id] = d
  BY DEF Held, Kept
<1>2. DOMAIN a.runs \subseteq DOMAIN runs'
  BY DEF Held, Kept
<1>3. DOMAIN a.bodies \subseteq DOMAIN bodies'
  BY DEF Held, Kept
<1> QED
  BY <1>1, <1>2, <1>3 DEF Held

LEMMA BundleStays ==
  ASSUME NEW id \in DOMAIN bundles, BundleOK(id), Kept, UNCHANGED verified
  PROVE  BundleOK(id)'
<1>1. PICK name : name = bundles[id]
  OBVIOUS
<1>2. bundles'[id] = name
  BY <1>1 DEF Kept
<1>3. Held(Archive(name))'
  BY <1>1, HeldStays DEF BundleOK
<1>4. name \in verified' /\ IdOf(Archive(name)) = id
  BY <1>1 DEF BundleOK
<1> QED
  BY <1>2, <1>3, <1>4 DEF BundleOK

LEMMA OwnStays ==
  ASSUME OwnThere, Kept
  PROVE  OwnThere'
BY DEF OwnThere, Kept

LEMMA RunStays ==
  ASSUME NEW r \in DOMAIN runs, RunOK(r), Kept, runs'[r] = runs[r]
  PROVE  RunOK(r)'
<1>1. PICK row : row = runs[r]
  OBVIOUS
<1>2. runs'[r] = row
  BY <1>1
<1>3. ASSUME row.from = None
      PROVE  /\ r \in DOMAIN OwnRuns /\ row.count \in 1..Len(OwnRuns[r])
             /\ \A i \in 1..row.count : Sides(OwnRuns[r][i]) \subseteq DOMAIN bodies'
  <2>1. /\ r \in DOMAIN OwnRuns /\ row.count \in 1..Len(OwnRuns[r])
        /\ \A i \in 1..row.count : Sides(OwnRuns[r][i]) \subseteq DOMAIN bodies
    BY <1>1, <1>3 DEF RunOK
  <2>2. DOMAIN bodies \subseteq DOMAIN bodies'
    BY DEF Kept
  <2> QED
    BY <2>1, <2>2
<1>4. ASSUME row.from # None
      PROVE  /\ r \in DOMAIN Archive(row.from).runs
             /\ IdOf(Archive(row.from)) \in DOMAIN bundles'
             /\ bundles'[IdOf(Archive(row.from))] = row.from
  BY <1>1, <1>4 DEF RunOK, Kept
<1> QED
  BY <1>2, <1>3, <1>4 DEF RunOK

LEMMA JobStays ==
  ASSUME JobOK, Kept, UNCHANGED <<job, bundles, delegs, verified>>
  PROVE  JobOK'
<1> SUFFICES ASSUME job # NoJob
             PROVE  job.name \in verified /\ JobFits(Archive(job.name))'
  BY DEF JobOK
<1>1. PICK name : name = job.name
  OBVIOUS
<1>2. name \in verified /\ JobFits(Archive(name))
  BY <1>1 DEF JobOK
<1>3. DOMAIN runs \subseteq DOMAIN runs' /\ DOMAIN bodies \subseteq DOMAIN bodies'
  BY DEF Kept
<1>4. JobFits(Archive(name))'
  BY <1>2, <1>3 DEF JobFits
<1> QED
  BY <1>1, <1>2, <1>4

LEMMA WriteStays ==
  ASSUME NEW r \in DOMAIN OwnRuns, WriteOK(r), Kept, writing'[r] = writing[r],
         r \in DOMAIN runs => runs'[r] = runs[r]
  PROVE  WriteOK(r)'
<1> SUFFICES ASSUME writing[r] # None
             PROVE  /\ r \in DOMAIN runs' /\ runs'[r].from = None
                    /\ runs'[r].count < Len(OwnRuns[r])
                    /\ writing[r] \subseteq Sides(NextRecord(r)')
                    /\ Sides(NextRecord(r)') \subseteq writing[r] \cup DOMAIN bodies'
  BY DEF WriteOK
<1>1. /\ r \in DOMAIN runs /\ runs[r].from = None /\ runs[r].count < Len(OwnRuns[r])
      /\ writing[r] \subseteq Sides(NextRecord(r))
      /\ Sides(NextRecord(r)) \subseteq writing[r] \cup DOMAIN bodies
  BY DEF WriteOK
<1>2. runs'[r] = runs[r]
  BY <1>1
<1>3. NextRecord(r)' = NextRecord(r)
  BY <1>2 DEF NextRecord
<1>4. DOMAIN runs \subseteq DOMAIN runs' /\ DOMAIN bodies \subseteq DOMAIN bodies'
  BY DEF Kept
<1> QED
  BY <1>1, <1>2, <1>3, <1>4
-----------------------------------------------------------------------------
\* Archives that verify

\* Adding rows under new keys leaves the others.
LEMMA AddedKeeps ==
  ASSUME NEW t, NEW more, DOMAIN more \cap DOMAIN t = {}
  PROVE  /\ DOMAIN Added(t, more) = DOMAIN t \cup DOMAIN more
         /\ \A k \in DOMAIN t : Added(t, more)[k] = t[k]
         /\ \A k \in DOMAIN more : Added(t, more)[k] = more[k]
BY AddedFacts

\* An archive whose name is stored or waits to be imported passed both checks.
LEMMA VerifiedArchive ==
  ASSUME verified = {name \in Names : Accepted(Archive(name), Trusted)}, NEW name \in verified
  PROVE  /\ name \in Names /\ name # None
         /\ \A d, e \in Archive(name).delegations : d.doc.id = e.doc.id => d = e
         /\ \A r \in DOMAIN Archive(name).runs :
                Archive(name).runs[r] \in Seq(ToSet(Archive(name).runs[r]))
         /\ \A k \in DOMAIN Archive(name).bodies : Digest(Archive(name).bodies[k]) = k
         /\ VerifyBundle(Archive(name), Trusted)
<1>1. name \in Names /\ Accepted(Archive(name), Trusted)
  OBVIOUS
<1>2. name # None
  BY <1>1, ArchiveAssumption DEF Names
<1>3. /\ \A d, e \in Archive(name).delegations : d.doc.id = e.doc.id => d = e
      /\ \A r \in DOMAIN Archive(name).runs :
             Archive(name).runs[r] \in Seq(ToSet(Archive(name).runs[r]))
  BY <1>1, ArchiveAssumption DEF Names
<1>4. \A k \in DOMAIN Archive(name).bodies : Digest(Archive(name).bodies[k]) = k
  BY <1>1 DEF Accepted, ReadBundle, PayloadKeyOk
<1>5. VerifyBundle(Archive(name), Trusted)
  BY <1>1 DEF Accepted
<1> QED
  BY <1>1, <1>2, <1>3, <1>4, <1>5
-----------------------------------------------------------------------------
\* The steps

LEMMA InitInv == Init => CInv
<1> SUFFICES ASSUME Init
             PROVE  CInv
  OBVIOUS
<1>1. DOMAIN runs = {} /\ DOMAIN bundles = {} /\ DOMAIN bodies = {}
  BY DEF Init
<1>2. runs \in [DOMAIN runs -> [from : Names \cup {None}, count : Nat]]
  BY <1>1 DEF Init
<1>3. verified = {name \in Names : Accepted(Archive(name), Trusted)}
  BY DEF Init, Names
<1>4. DOMAIN writing = DOMAIN OwnRuns /\ \A r \in DOMAIN OwnRuns : WriteOK(r)
  BY DEF Init, WriteOK
<1>5. OwnThere
  BY RowFacts DEF Init, OwnThere
<1>6. BodiesTrue /\ JobOK
  BY <1>1 DEF Init, BodiesTrue, JobOK
<1>7. (\A id \in DOMAIN bundles : BundleOK(id)) /\ (\A r \in DOMAIN runs : RunOK(r))
  BY <1>1
<1> QED
  BY <1>2, <1>3, <1>4, <1>5, <1>6, <1>7 DEF CInv

\* A step that changes no table.
LEMMA TablesStay ==
  ASSUME CInv, UNCHANGED <<tables, verified>>, JobOK', DOMAIN writing' = DOMAIN OwnRuns,
         \A r \in DOMAIN OwnRuns : WriteOK(r)'
  PROVE  Kept /\ CInv'
<1>1. Kept
  <2>1. bundles' = bundles /\ delegs' = delegs /\ bodies' = bodies /\ runs' = runs
    BY DEF tables
  <2>2. \A r \in DOMAIN runs : runs[r].count \in Int
    BY DEF CInv
  <2>3. \A r \in DOMAIN runs : runs'[r].count >= runs[r].count
    BY <2>1, <2>2
  <2> QED
    BY <2>1, <2>3 DEF Kept
<1>2. \A id \in DOMAIN bundles' : BundleOK(id)'
  BY <1>1, BundleStays DEF CInv, tables
<1>3. \A r \in DOMAIN runs' : RunOK(r)'
  BY <1>1, RunStays DEF CInv, tables
<1>4. OwnThere' /\ BodiesTrue'
  BY DEF CInv, OwnThere, BodiesTrue, tables
<1>5. /\ verified' = {name \in Names : Accepted(Archive(name), Trusted)}
      /\ runs' \in [DOMAIN runs' -> [from : Names \cup {None}, count : Nat]]
  BY DEF CInv, tables
<1> QED
  BY <1>1, <1>2, <1>3, <1>4, <1>5 DEF CInv

LEMMA UploadInv ==
  ASSUME CInv, NEW name \in DOMAIN Archives \cup Exported, Upload(name), UNCHANGED verified
  PROVE  Kept /\ CInv'
<1>1. UNCHANGED <<tables, writing>>
  BY DEF Upload, Refused, Known, Look
<1>2. DOMAIN writing' = DOMAIN OwnRuns /\ \A r \in DOMAIN OwnRuns : WriteOK(r)'
  BY <1>1 DEF CInv, WriteOK, tables, NextRecord
<1>3. JobOK'
  <2>1. CASE Refused(name) \/ Known(name)
    BY <2>1 DEF Refused, Known, CInv, JobOK, JobFits, tables
  <2>2. CASE Look(name)
    <3>1. PICK a : a = Archive(name)
      OBVIOUS
    <3>2. /\ name \in verified' /\ job'.name = name
          /\ job'.delegs = {d.doc.id : d \in a.delegations} \ DOMAIN delegs
          /\ job'.runs = DOMAIN a.runs \ DOMAIN runs
          /\ job'.bodies = DOMAIN a.bodies \ DOMAIN bodies
      BY <2>2, <3>1 DEF Look
    <3>3. IdOf(a) \notin DOMAIN bundles /\ ~Clash(a)
      BY <2>2, <3>1 DEF Look
    <3>4. \A d \in a.delegations : d.doc.id \in DOMAIN delegs => delegs[d.doc.id] = d
      BY <3>3 DEF Clash
    <3>5. bundles' = bundles /\ delegs' = delegs /\ runs' = runs /\ bodies' = bodies
      BY <1>1 DEF tables
    <3>6. JobFits(a)'
      BY <3>2, <3>3, <3>4, <3>5 DEF JobFits
    <3> QED
      BY <3>1, <3>2, <3>6 DEF JobOK
  <2> QED
    BY <2>1, <2>2 DEF Upload
<1> QED
  BY <1>1, <1>2, <1>3, TablesStay

LEMMA ImportFailsInv ==
  ASSUME CInv, ImportFails, UNCHANGED verified
  PROVE  Kept /\ CInv'
<1>1. UNCHANGED <<tables, writing>> /\ JobOK'
  BY DEF ImportFails, JobOK
<1>2. DOMAIN writing' = DOMAIN OwnRuns /\ \A r \in DOMAIN OwnRuns : WriteOK(r)'
  BY <1>1 DEF CInv, WriteOK, tables, NextRecord
<1> QED
  BY <1>1, <1>2, TablesStay

LEMMA RestartInv ==
  ASSUME CInv, Restart, UNCHANGED verified
  PROVE  Kept /\ CInv'
<1>1. UNCHANGED tables /\ JobOK'
  BY DEF Restart, JobOK
<1>2. DOMAIN writing' = DOMAIN OwnRuns /\ \A r \in DOMAIN OwnRuns : WriteOK(r)'
  BY DEF Restart, WriteOK
<1> QED
  BY <1>1, <1>2, TablesStay

\* One append under way at another run.
LEMMA OtherWrites ==
  ASSUME CInv, UNCHANGED tables, NEW r \in DOMAIN OwnRuns,
         NEW v, writing' = [writing EXCEPT ![r] = v], WriteOK(r)'
  PROVE  DOMAIN writing' = DOMAIN OwnRuns /\ \A s \in DOMAIN OwnRuns : WriteOK(s)'
<1>1. DOMAIN writing' = DOMAIN OwnRuns /\ \A s \in DOMAIN OwnRuns : s # r => writing'[s] = writing[s]
  BY DEF CInv
<1>2. ASSUME NEW s \in DOMAIN OwnRuns, s # r
      PROVE  WriteOK(s)'
  BY <1>1, <1>2 DEF CInv, WriteOK, NextRecord, tables
<1> QED
  BY <1>1, <1>2

LEMMA AppendFailsInv ==
  ASSUME CInv, NEW r \in DOMAIN OwnRuns, AppendFails(r), UNCHANGED verified
  PROVE  Kept /\ CInv'
<1>1. UNCHANGED <<tables, job>> /\ writing' = [writing EXCEPT ![r] = None]
  BY DEF AppendFails
<1>2. WriteOK(r)'
  BY <1>1 DEF WriteOK, CInv
<1>3. JobOK'
  BY <1>1 DEF CInv, JobOK, JobFits, tables
<1> QED
  BY <1>1, <1>2, <1>3, OtherWrites, TablesStay

LEMMA AppendLookInv ==
  ASSUME CInv, NEW r \in DOMAIN OwnRuns, AppendLook(r), UNCHANGED verified
  PROVE  Kept /\ CInv'
<1>1. /\ UNCHANGED <<tables, job>>
      /\ writing' = [writing EXCEPT ![r] = Named(<<NextRecord(r)>>) \ DOMAIN bodies]
  BY DEF AppendLook
<1>2. WriteOK(r)'
  <2>1. writing'[r] = Sides(NextRecord(r)) \ DOMAIN bodies
    BY <1>1, NamedOne DEF CInv
  <2>2. r \in DOMAIN runs /\ runs[r].from = None /\ runs[r].count < Len(OwnRuns[r])
    BY DEF AppendLook
  <2>3. runs' = runs /\ bodies' = bodies
    BY <1>1 DEF tables
  <2>4. NextRecord(r)' = NextRecord(r)
    BY <2>3 DEF NextRecord
  <2> QED
    BY <2>1, <2>2, <2>3, <2>4 DEF WriteOK
<1>3. JobOK'
  BY <1>1 DEF CInv, JobOK, JobFits, tables
<1> QED
  BY <1>1, <1>2, <1>3, OtherWrites, TablesStay

LEMMA StartRunInv ==
  ASSUME CInv, NEW r \in DOMAIN OwnRuns, StartRun(r), UNCHANGED verified
  PROVE  Kept /\ CInv'
<1> DEFINE row == [from |-> None, count |-> 1]
<1>1. /\ r \notin DOMAIN runs /\ runs' = Added(runs, Row(r, row))
      /\ UNCHANGED <<bundles, delegs, bodies, job, writing>>
  BY DEF StartRun
<1>2. /\ DOMAIN runs' = DOMAIN runs \cup {r} /\ runs'[r] = row
      /\ \A s \in DOMAIN runs : runs'[s] = runs[s]
  <2> DEFINE more == Row(r, row)
  <2>1. DOMAIN more = {r} /\ more[r] = row
    BY DEF Row
  <2> HIDE DEF more
  <2>2. DOMAIN more \cap DOMAIN runs = {}
    BY <1>1, <2>1
  <2>3. /\ DOMAIN Added(runs, more) = DOMAIN runs \cup DOMAIN more
        /\ \A k \in DOMAIN runs : Added(runs, more)[k] = runs[k]
        /\ \A k \in DOMAIN more : Added(runs, more)[k] = more[k]
    BY <2>2, AddedKeeps
  <2>4. runs' = Added(runs, more)
    BY <1>1 DEF more
  <2> QED
    BY <2>1, <2>3, <2>4
<1>3. Kept
  <2>1. \A s \in DOMAIN runs : runs[s].count \in Int
    BY DEF CInv
  <2> QED
    BY <1>1, <1>2, <2>1 DEF Kept
<1>4. runs' \in [DOMAIN runs' -> [from : Names \cup {None}, count : Nat]]
  <2>1. runs' = [s \in DOMAIN runs' |-> runs'[s]]
    BY <1>1 DEF Added
  <2>2. \A s \in DOMAIN runs' : runs'[s] \in [from : Names \cup {None}, count : Nat]
    BY <1>2 DEF CInv
  <2> QED
    BY <2>1, <2>2
<1>5. RunOK(r)'
  <2>1. Sides(OwnRuns[r][1]) = {} /\ OwnRuns[r] \in Seq(ToSet(OwnRuns[r])) /\ OwnRuns[r] # <<>>
    BY OwnAssumption, NamedOne
  <2>2. 1 \in 1..Len(OwnRuns[r])
    BY <2>1, EmptySeq, LenProperties
  <2> QED
    BY <1>2, <2>1, <2>2 DEF RunOK
<1>6. \A s \in DOMAIN runs' : RunOK(s)'
  BY <1>2, <1>3, <1>5, RunStays DEF CInv
<1>7. \A id \in DOMAIN bundles' : BundleOK(id)'
  BY <1>1, <1>3, BundleStays DEF CInv
<1>8. JobOK'
  BY <1>1, <1>3, JobStays DEF CInv
<1>9. DOMAIN writing' = DOMAIN OwnRuns /\ \A s \in DOMAIN OwnRuns : WriteOK(s)'
  BY <1>1, <1>2, <1>3, WriteStays DEF CInv
<1>10. OwnThere' /\ BodiesTrue' /\ verified' = {name \in Names : Accepted(Archive(name), Trusted)}
  BY <1>1 DEF CInv, OwnThere, BodiesTrue
<1> QED
  BY <1>3, <1>4, <1>6, <1>7, <1>8, <1>9, <1>10 DEF CInv

LEMMA AppendCommitInv ==
  ASSUME CInv, NEW r \in DOMAIN OwnRuns, AppendCommit(r), UNCHANGED verified
  PROVE  Kept /\ CInv'
<1> DEFINE more == [k \in writing[r] |-> k[2]]
<1>1. /\ writing[r] # None /\ writing[r] \cap DOMAIN bodies = {}
      /\ runs' = [runs EXCEPT ![r].count = @ + 1]
      /\ bodies' = Added(bodies, more)
      /\ writing' = [writing EXCEPT ![r] = None]
      /\ UNCHANGED <<bundles, delegs, job>>
  BY DEF AppendCommit
<1>2. /\ r \in DOMAIN runs /\ runs[r].from = None /\ runs[r].count < Len(OwnRuns[r])
      /\ writing[r] \subseteq Sides(NextRecord(r))
      /\ Sides(NextRecord(r)) \subseteq writing[r] \cup DOMAIN bodies
  BY <1>1 DEF CInv, WriteOK
<1>3. runs \in [DOMAIN runs -> [from : Names \cup {None}, count : Nat]]
  BY DEF CInv
<1>4. /\ DOMAIN runs' = DOMAIN runs
      /\ runs'[r].from = None /\ runs'[r].count = runs[r].count + 1
      /\ \A s \in DOMAIN runs : s # r => runs'[s] = runs[s]
      /\ runs' \in [DOMAIN runs -> [from : Names \cup {None}, count : Nat]]
  BY <1>1, <1>2, <1>3
<1>5. /\ DOMAIN bodies' = DOMAIN bodies \cup writing[r]
      /\ \A k \in DOMAIN bodies : bodies'[k] = bodies[k]
      /\ \A k \in writing[r] : bodies'[k] = k[2]
  <2>1. DOMAIN more = writing[r] /\ \A k \in writing[r] : more[k] = k[2]
    OBVIOUS
  <2> HIDE DEF more
  <2>2. DOMAIN more \cap DOMAIN bodies = {}
    BY <1>1, <2>1
  <2>3. /\ DOMAIN Added(bodies, more) = DOMAIN bodies \cup DOMAIN more
        /\ \A k \in DOMAIN bodies : Added(bodies, more)[k] = bodies[k]
        /\ \A k \in DOMAIN more : Added(bodies, more)[k] = more[k]
    BY <2>2, AddedKeeps
  <2>4. bodies' = Added(bodies, more)
    BY <1>1 DEF more
  <2> QED
    BY <2>1, <2>3, <2>4
<1>6. Kept
  <2>1. \A s \in DOMAIN runs : runs[s].count \in Int
    BY <1>3
  <2>2. \A s \in DOMAIN runs : runs'[s].from = runs[s].from /\ runs'[s].count >= runs[s].count
    BY <1>2, <1>4, <2>1
  <2>3. \A s \in DOMAIN runs : runs[s].from # None => runs'[s] = runs[s]
    BY <1>2, <1>4
  <2> QED
    BY <1>1, <1>4, <1>5, <2>2, <2>3 DEF Kept
<1>7. PICK n \in Nat : n = runs[r].count
  BY <1>2, <1>3
<1>8. r \in DOMAIN OwnRuns /\ n \in 1..Len(OwnRuns[r]) /\ n + 1 \in 1..Len(OwnRuns[r])
  <2>1. n \in 1..Len(OwnRuns[r])
    BY <1>2, <1>7 DEF CInv, RunOK
  <2>2. Len(OwnRuns[r]) \in Nat
    BY OwnAssumption, LenProperties
  <2> QED
    BY <1>2, <1>7, <2>1, <2>2
<1>9. NextRecord(r) = OwnRuns[r][n + 1]
  BY <1>7 DEF NextRecord
<1>10. RunOK(r)'
  <2>1. \A i \in 1..n : Sides(OwnRuns[r][i]) \subseteq DOMAIN bodies
    BY <1>2, <1>7 DEF CInv, RunOK
  <2>2. Sides(OwnRuns[r][n + 1]) \subseteq DOMAIN bodies'
    BY <1>2, <1>5, <1>9
  <2>3. \A i \in 1..n + 1 : Sides(OwnRuns[r][i]) \subseteq DOMAIN bodies'
    <3>1. ASSUME NEW i \in 1..n + 1
          PROVE  i \in 1..n \/ i = n + 1
      BY <1>7
    <3> QED
      BY <1>5, <2>1, <2>2, <3>1
  <2>4. runs'[r].count = n + 1
    BY <1>4, <1>7
  <2> QED
    BY <1>4, <1>8, <2>3, <2>4 DEF RunOK
<1>11. \A s \in DOMAIN runs' : RunOK(s)'
  BY <1>4, <1>6, <1>10, RunStays DEF CInv
<1>12. BodiesTrue'
  <2>1. \A k \in writing[r] : Digest(k[2]) = k
    BY <1>2, <1>8, <1>9, OwnDigests
  <2> QED
    BY <1>5, <2>1 DEF CInv, BodiesTrue
<1>13. \A id \in DOMAIN bundles' : BundleOK(id)'
  BY <1>1, <1>6, BundleStays DEF CInv
<1>14. JobOK' /\ OwnThere'
  BY <1>1, <1>6, JobStays, OwnStays DEF CInv
<1>15. DOMAIN writing' = DOMAIN OwnRuns /\ \A s \in DOMAIN OwnRuns : WriteOK(s)'
  <2>1. /\ DOMAIN writing' = DOMAIN OwnRuns /\ writing'[r] = None
        /\ \A s \in DOMAIN OwnRuns : s # r => writing'[s] = writing[s]
    BY <1>1 DEF CInv
  <2>2. WriteOK(r)'
    BY <2>1 DEF WriteOK
  <2>3. \A s \in DOMAIN OwnRuns : s # r => WriteOK(s)'
    BY <1>4, <1>6, <2>1, WriteStays DEF CInv
  <2> QED
    BY <2>1, <2>2, <2>3
<1>16. verified' = {name \in Names : Accepted(Archive(name), Trusted)}
  BY DEF CInv
<1> QED
  BY <1>4, <1>6, <1>11, <1>12, <1>13, <1>14, <1>15, <1>16 DEF CInv

LEMMA ImportCommitInv ==
  ASSUME CInv, ImportCommit, UNCHANGED verified
  PROVE  Kept /\ CInv'
<1>1. PICK name : name = job.name
  OBVIOUS
<1>2. PICK a : a = Archive(name)
  OBVIOUS
<1>3. name \in verified /\ JobFits(a) /\ job # NoJob
  BY <1>1, <1>2 DEF CInv, JobOK, ImportCommit
<1>4. /\ name \in Names /\ name # None
      /\ \A d, e \in a.delegations : d.doc.id = e.doc.id => d = e
      /\ \A r \in DOMAIN a.runs : a.runs[r] \in Seq(ToSet(a.runs[r]))
      /\ \A k \in DOMAIN a.bodies : Digest(a.bodies[k]) = k
  BY <1>2, <1>3, VerifiedArchive DEF CInv
<1> DEFINE DelegationNamed(id) == CHOOSE d \in a.delegations : d.doc.id = id
           moreDelegs == [id \in job.delegs |-> DelegationNamed(id)]
           moreRuns == [r \in job.runs |-> [from |-> name, count |-> Len(a.runs[r])]]
           moreBodies == Restrict(a.bodies, job.bodies)
<1>5. /\ job.bodies \cap DOMAIN bodies = {} /\ job.runs \cap DOMAIN runs = {}
      /\ bundles' = Added(bundles, Row(IdOf(a), name))
      /\ delegs' = Added(delegs, moreDelegs)
      /\ runs' = Added(runs, moreRuns)
      /\ bodies' = Added(bodies, moreBodies)
      /\ job' = NoJob /\ writing' = writing
  BY <1>1, <1>2 DEF ImportCommit, Taken
<1>6. /\ DOMAIN bundles' = DOMAIN bundles \cup {IdOf(a)} /\ bundles'[IdOf(a)] = name
      /\ \A id \in DOMAIN bundles : bundles'[id] = bundles[id]
  <2> DEFINE more == Row(IdOf(a), name)
  <2>1. DOMAIN more = {IdOf(a)} /\ more[IdOf(a)] = name
    BY RowFacts
  <2> HIDE DEF more
  <2>2. DOMAIN more \cap DOMAIN bundles = {}
    BY <1>3, <2>1 DEF JobFits
  <2>3. /\ DOMAIN Added(bundles, more) = DOMAIN bundles \cup DOMAIN more
        /\ \A k \in DOMAIN bundles : Added(bundles, more)[k] = bundles[k]
        /\ \A k \in DOMAIN more : Added(bundles, more)[k] = more[k]
    BY <2>2, AddedKeeps
  <2>4. bundles' = Added(bundles, more)
    BY <1>5 DEF more
  <2> QED
    BY <2>1, <2>3, <2>4
<1>7. /\ DOMAIN runs' = DOMAIN runs \cup job.runs
      /\ \A r \in DOMAIN runs : runs'[r] = runs[r]
      /\ \A r \in job.runs : runs'[r] = [from |-> name, count |-> Len(a.runs[r])]
  <2>1. DOMAIN moreRuns = job.runs /\ \A r \in job.runs : moreRuns[r] = [from |-> name, count |-> Len(a.runs[r])]
    OBVIOUS
  <2> HIDE DEF moreRuns
  <2>2. DOMAIN moreRuns \cap DOMAIN runs = {}
    BY <1>5, <2>1
  <2>3. /\ DOMAIN Added(runs, moreRuns) = DOMAIN runs \cup DOMAIN moreRuns
        /\ \A k \in DOMAIN runs : Added(runs, moreRuns)[k] = runs[k]
        /\ \A k \in DOMAIN moreRuns : Added(runs, moreRuns)[k] = moreRuns[k]
    BY <2>2, AddedKeeps
  <2>4. runs' = Added(runs, moreRuns)
    BY <1>5 DEF moreRuns
  <2> QED
    BY <2>1, <2>3, <2>4
<1>8. /\ DOMAIN bodies' = DOMAIN bodies \cup job.bodies
      /\ \A k \in DOMAIN bodies : bodies'[k] = bodies[k]
      /\ \A k \in job.bodies : bodies'[k] = a.bodies[k]
  <2>1. DOMAIN moreBodies = job.bodies /\ \A k \in job.bodies : moreBodies[k] = a.bodies[k]
    BY DEF Restrict
  <2> HIDE DEF moreBodies
  <2>2. DOMAIN moreBodies \cap DOMAIN bodies = {}
    BY <1>5, <2>1
  <2>3. /\ DOMAIN Added(bodies, moreBodies) = DOMAIN bodies \cup DOMAIN moreBodies
        /\ \A k \in DOMAIN bodies : Added(bodies, moreBodies)[k] = bodies[k]
        /\ \A k \in DOMAIN moreBodies : Added(bodies, moreBodies)[k] = moreBodies[k]
    BY <2>2, AddedKeeps
  <2>4. bodies' = Added(bodies, moreBodies)
    BY <1>5 DEF moreBodies
  <2> QED
    BY <2>1, <2>3, <2>4
<1>9. /\ DOMAIN delegs' = DOMAIN delegs \cup {d.doc.id : d \in a.delegations}
      /\ \A id \in DOMAIN delegs : delegs'[id] = delegs[id]
      /\ \A d \in a.delegations : delegs'[d.doc.id] = d
  <2>1. DOMAIN moreDelegs = job.delegs /\ \A id \in job.delegs : moreDelegs[id] = DelegationNamed(id)
    OBVIOUS
  <2>2. job.delegs = {d.doc.id : d \in a.delegations} \ DOMAIN delegs
    BY <1>3 DEF JobFits
  <2>3. \A d \in a.delegations : DelegationNamed(d.doc.id) = d
    BY <1>4
  <2> HIDE DEF moreDelegs, DelegationNamed
  <2>4. job.delegs \cap DOMAIN delegs = {}
    BY <2>2
  <2>5. /\ DOMAIN delegs' = DOMAIN delegs \cup job.delegs
        /\ \A id \in DOMAIN delegs : delegs'[id] = delegs[id]
        /\ \A id \in job.delegs : delegs'[id] = DelegationNamed(id)
    <3>1. DOMAIN moreDelegs \cap DOMAIN delegs = {}
      BY <2>1, <2>4
    <3>2. /\ DOMAIN Added(delegs, moreDelegs) = DOMAIN delegs \cup DOMAIN moreDelegs
          /\ \A k \in DOMAIN delegs : Added(delegs, moreDelegs)[k] = delegs[k]
          /\ \A k \in DOMAIN moreDelegs : Added(delegs, moreDelegs)[k] = moreDelegs[k]
      BY <3>1, AddedKeeps
    <3>3. delegs' = Added(delegs, moreDelegs)
      BY <1>5 DEF moreDelegs
    <3> QED
      BY <2>1, <3>2, <3>3
  <2>6. ASSUME NEW d \in a.delegations
        PROVE  delegs'[d.doc.id] = d
    <3>1. CASE d.doc.id \in DOMAIN delegs
      BY <1>3, <2>5, <3>1 DEF JobFits
    <3>2. CASE d.doc.id \notin DOMAIN delegs
      <4>1. d.doc.id \in job.delegs
        BY <2>2, <3>2
      <4> QED
        BY <2>3, <2>5, <4>1
    <3> QED
      BY <3>1, <3>2
  <2> QED
    BY <2>2, <2>5, <2>6
<1> HIDE DEF DelegationNamed, moreDelegs, moreRuns, moreBodies
<1>10. Kept
  <2>1. \A r \in DOMAIN runs : runs[r].count \in Int
    BY DEF CInv
  <2>2. \A r \in DOMAIN runs : runs'[r].count >= runs[r].count
    BY <1>7, <2>1
  <2> QED
    BY <1>6, <1>7, <1>8, <1>9, <2>2 DEF Kept
<1>11. runs' \in [DOMAIN runs' -> [from : Names \cup {None}, count : Nat]]
  <2>1. runs' = [s \in DOMAIN runs' |-> runs'[s]]
    BY <1>5 DEF Added
  <2>2. \A s \in DOMAIN runs : runs'[s] \in [from : Names \cup {None}, count : Nat]
    BY <1>7 DEF CInv
  <2>3. \A s \in job.runs : Len(a.runs[s]) \in Nat
    BY <1>3, <1>4, LenProperties DEF JobFits
  <2>4. ASSUME NEW s \in job.runs
        PROVE  runs'[s] \in [from : Names \cup {None}, count : Nat]
    <3>1. runs'[s] = [from |-> name, count |-> Len(a.runs[s])]
      BY <1>7
    <3>2. name \in Names /\ Len(a.runs[s]) \in Nat
      BY <1>4, <2>3
    <3> QED
      BY <3>1, <3>2
  <2> QED
    BY <1>7, <2>1, <2>2, <2>4
<1>12. Held(a)'
  BY <1>3, <1>7, <1>8, <1>9 DEF Held, JobFits
<1>13. \A id \in DOMAIN bundles' : BundleOK(id)'
  <2>1. BundleOK(IdOf(a))'
    BY <1>2, <1>3, <1>6, <1>12 DEF BundleOK
  <2>2. \A id \in DOMAIN bundles : BundleOK(id)'
    BY <1>10, BundleStays DEF CInv
  <2> QED
    BY <1>6, <2>1, <2>2
<1>14. \A r \in DOMAIN runs' : RunOK(r)'
  <2>1. ASSUME NEW r \in job.runs
        PROVE  RunOK(r)'
    <3>1. runs'[r].from = name
      <4>1. runs'[r] = [from |-> name, count |-> Len(a.runs[r])]
        BY <1>7
      <4> QED
        BY <4>1
    <3>2. r \in DOMAIN a.runs
      BY <1>3 DEF JobFits
    <3> QED
      BY <1>2, <1>4, <1>6, <3>1, <3>2 DEF RunOK
  <2>2. \A r \in DOMAIN runs : RunOK(r)'
    BY <1>7, <1>10, RunStays DEF CInv
  <2> QED
    BY <1>7, <2>1, <2>2
<1>15. BodiesTrue'
  <2>1. \A k \in job.bodies : Digest(a.bodies[k]) = k
    BY <1>3, <1>4 DEF JobFits
  <2> QED
    BY <1>8, <2>1 DEF CInv, BodiesTrue
<1>16. JobOK' /\ OwnThere'
  BY <1>5, <1>10, OwnStays DEF CInv, JobOK
<1>17. DOMAIN writing' = DOMAIN OwnRuns /\ \A s \in DOMAIN OwnRuns : WriteOK(s)'
  BY <1>5, <1>7, <1>10, WriteStays DEF CInv
<1>18. verified' = {x \in Names : Accepted(Archive(x), Trusted)}
  BY DEF CInv
<1> QED
  BY <1>10, <1>11, <1>13, <1>14, <1>15, <1>16, <1>17, <1>18 DEF CInv

LEMMA NextInv ==
  ASSUME CInv, Next
  PROVE  Kept /\ CInv'
<1>1. UNCHANGED verified
  BY DEF Next
<1>2. CASE ImportCommit
  BY <1>1, <1>2, ImportCommitInv
<1>3. CASE ImportFails
  BY <1>1, <1>3, ImportFailsInv
<1>4. CASE \E name \in DOMAIN Archives \cup Exported : Upload(name)
  BY <1>1, <1>4, UploadInv
<1>5. CASE Restart
  BY <1>1, <1>5, RestartInv
<1>6. ASSUME NEW r \in DOMAIN OwnRuns, Write(r)
      PROVE  Kept /\ CInv'
  <2>1. CASE StartRun(r)
    BY <1>1, <2>1, StartRunInv
  <2>2. CASE AppendLook(r)
    BY <1>1, <2>2, AppendLookInv
  <2>3. CASE AppendCommit(r)
    BY <1>1, <2>3, AppendCommitInv
  <2>4. CASE AppendFails(r)
    BY <1>1, <2>4, AppendFailsInv
  <2> QED
    BY <1>6, <2>1, <2>2, <2>3, <2>4 DEF Write
<1> QED
  BY <1>2, <1>3, <1>4, <1>5, <1>6 DEF Next, Import

LEMMA StutterInv ==
  ASSUME CInv, UNCHANGED vars
  PROVE  CInv'
<1>1. UNCHANGED <<tables, verified, job, writing>>
  BY DEF vars
<1>2. JobOK'
  BY <1>1 DEF CInv, JobOK, JobFits, tables
<1>3. DOMAIN writing' = DOMAIN OwnRuns /\ \A r \in DOMAIN OwnRuns : WriteOK(r)'
  BY <1>1 DEF CInv, WriteOK, tables, NextRecord
<1> QED
  BY <1>1, <1>2, <1>3, TablesStay

THEOREM CustodyInvariant == Spec => []CInv
<1>1. CInv /\ [Next]_vars => CInv'
  BY NextInv, StutterInv
<1> QED
  BY <1>1, InitInv, PTL DEF Spec

\* Whatever archives others make and in whatever order uploads, appends and crashes come,
\* `import_bundle` and `append` only add rows: none of them replaces a bundle, a delegation, a
\* body or an imported run (importer.py:66).
THEOREM CustodyReplacesNothing == Spec => NothingReplaced
<1>1. CInv /\ [Next]_vars => [Kept]_vars
  BY NextInv
<1> QED
  BY <1>1, CustodyInvariant, PTL DEF Spec, NothingReplaced
-----------------------------------------------------------------------------
\* What verifies with some delegations and bodies verifies with more

LEMMA VerifyMore ==
  ASSUME NEW recs, NEW D, NEW E, D \subseteq E, NEW prev, NEW small, NEW large,
         VerifyRun(recs, D, prev, small),
         \A to \in large : \E from \in small :
            \A k \in DOMAIN from : k \in DOMAIN to /\ to[k] = from[k]
  PROVE  VerifyRun(recs, E, prev, large)
<1>1. PICK d \in DelegationsFor(recs, D) :
        /\ VerifyDelegation(d)
        /\ ScopeParses(d.doc.scope)
        /\ \A i \in 1..Len(recs) : RecordOk(recs, i, d, prev, small)
  BY DEF VerifyRun
<1>2. d \in DelegationsFor(recs, E)
  BY <1>1 DEF DelegationsFor
<1>3. ASSUME NEW i \in 1..Len(recs)
      PROVE  RecordOk(recs, i, d, prev, large)
  <2>1. RecordOk(recs, i, d, prev, small)
    BY <1>1
  <2>2. PayloadOk(recs[i], small)
    BY <2>1 DEF RecordOk
  <2>3. PayloadOk(recs[i], large)
    BY <2>2 DEF PayloadOk
  <2> QED
    BY <2>1, <2>3 DEF RecordOk
<1> QED
  BY <1>1, <1>2, <1>3 DEF VerifyRun

\* The hash a run was verified to begin with is the one its first record says.
LEMMA VerifyPrev ==
  ASSUME NEW recs, NEW D, NEW prev, NEW bs, VerifyRun(recs, D, prev, bs), Len(recs) \in Nat \ {0}
  PROVE  PrevOf(recs) = prev
<1>1. 1 \in 1..Len(recs)
  OBVIOUS
<1>2. recs[1].doc.seq = 0 => prev = ZeroHash
  BY DEF VerifyRun
<1>3. PICK d : RecordOk(recs, 1, d, prev, bs)
  BY <1>1 DEF VerifyRun
<1>4. recs[1].doc.prev = prev
  BY <1>3 DEF RecordOk
<1> QED
  BY <1>2, <1>4 DEF PrevOf

LEMMA OwnVerifies ==
  ASSUME CInv, NEW r \in DOMAIN runs, runs[r].from = None
  PROVE  VerifyRun(Stored(r), Range(delegs), PrevOf(Stored(r)), {bodies})
<1>1. /\ r \in DOMAIN OwnRuns /\ runs[r].count \in 1..Len(OwnRuns[r])
      /\ \A i \in 1..runs[r].count : Sides(OwnRuns[r][i]) \subseteq DOMAIN bodies
  BY DEF CInv, RunOK
<1>2. PICK n \in 1..Len(OwnRuns[r]) : n = runs[r].count
  BY <1>1
<1> DEFINE recs == SubSeq(OwnRuns[r], 1, n)
           small == [k \in Named(recs) |-> k[2]]
<1>3. VerifyRun(recs, {Own}, ZeroHash, {small})
  BY <1>1, <1>2, OwnAssumption
<1>5. \A k \in DOMAIN small : k \in DOMAIN bodies /\ bodies[k] = small[k]
  <2> SUFFICES ASSUME NEW k \in Named(recs)
               PROVE  k \in DOMAIN bodies /\ bodies[k] = k[2]
    OBVIOUS
  <2>1. PICK i \in 1..n : k \in Sides(OwnRuns[r][i])
    BY <1>1, <1>2, NamedPrefix
  <2>2. k \in DOMAIN bodies
    BY <1>1, <1>2, <2>1
  <2>3. Digest(bodies[k]) = k
    BY <2>2 DEF CInv, BodiesTrue
  <2> QED
    BY <2>2, <2>3 DEF Digest
<1>6. Len(recs) \in Nat \ {0}
  BY <1>1, <1>2, Prefix
<1>7. {Own} \subseteq Range(delegs)
  BY DEF CInv, OwnThere, Range
<1>8. Stored(r) = recs
  BY <1>2 DEF Stored
<1> HIDE DEF recs, small
<1>9. PrevOf(recs) = ZeroHash
  BY <1>3, <1>6, VerifyPrev
<1>10. VerifyRun(recs, Range(delegs), ZeroHash, {bodies})
  BY <1>3, <1>5, <1>7, VerifyMore
<1> QED
  BY <1>8, <1>9, <1>10

LEMMA ImportedVerifies ==
  ASSUME CInv, NEW r \in DOMAIN runs, runs[r].from # None
  PROVE  VerifyRun(Stored(r), Range(delegs), PrevOf(Stored(r)),
                   IF Archive(runs[r].from).manifest.doc.omitted THEN {} ELSE {bodies})
<1>1. PICK name : name = runs[r].from
  OBVIOUS
<1>2. PICK a : a = Archive(name)
  OBVIOUS
<1>3. r \in DOMAIN a.runs /\ IdOf(a) \in DOMAIN bundles /\ bundles[IdOf(a)] = name
  BY <1>1, <1>2 DEF CInv, RunOK
<1>4. name \in verified /\ Held(a)
  BY <1>2, <1>3 DEF CInv, BundleOK
<1>5. /\ a.runs[r] \in Seq(ToSet(a.runs[r]))
      /\ \A k \in DOMAIN a.bodies : Digest(a.bodies[k]) = k
      /\ VerifyBundle(a, Trusted)
  BY <1>2, <1>3, <1>4, VerifiedArchive DEF CInv
<1>6. PICK e \in a.manifest.doc.entries : e.run = r
  BY <1>3, <1>5 DEF VerifyBundle, VerifyManifest
<1> DEFINE recs == a.runs[r]
           prev == IF e.first_seq > 0 THEN e.first_hash ELSE ZeroHash
           small == IF a.manifest.doc.omitted THEN {} ELSE {a.bodies}
           large == IF a.manifest.doc.omitted THEN {} ELSE {bodies}
<1>7. VerifyRun(recs, a.delegations, prev, small)
  BY <1>5, <1>6 DEF VerifyBundle, EntryOk
<1>8. Len(recs) \in Nat \ {0}
  <2>1. recs # <<>>
    BY <1>7 DEF VerifyRun
  <2> QED
    BY <1>5, <2>1, EmptySeq, LenProperties
<1>9. a.delegations \subseteq Range(delegs)
  BY <1>4 DEF Held, Range
<1>10. \A to \in large : \E from \in small :
            \A k \in DOMAIN from : k \in DOMAIN to /\ to[k] = from[k]
  <2> SUFFICES ASSUME ~a.manifest.doc.omitted
               PROVE  \A k \in DOMAIN a.bodies : k \in DOMAIN bodies /\ bodies[k] = a.bodies[k]
    OBVIOUS
  <2>1. \A k \in DOMAIN a.bodies : k \in DOMAIN bodies
    BY <1>4 DEF Held
  <2>2. \A k \in DOMAIN a.bodies : Digest(bodies[k]) = k
    BY <2>1 DEF CInv, BodiesTrue
  <2> QED
    BY <1>5, <2>1, <2>2, OneBody
<1>11. Stored(r) = recs
  BY <1>1, <1>2 DEF Stored
<1> HIDE DEF recs, prev, small, large
<1>12. PrevOf(recs) = prev
  BY <1>7, <1>8, VerifyPrev
<1>13. VerifyRun(recs, Range(delegs), prev, large)
  BY <1>7, <1>9, <1>10, VerifyMore
<1>14. large = IF Archive(runs[r].from).manifest.doc.omitted THEN {} ELSE {bodies}
  BY <1>1, <1>2 DEF large
<1> QED
  BY <1>11, <1>12, <1>13, <1>14

\* What is let in is there as a whole, and stays: every stored bundle's delegations, runs and
\* bodies are in their tables, every run, imported or the recorder's own, verifies from the
\* tables alone, and no import or append that stopped halfway leaves a run without a body it
\* names (importer.py:28-31, export.py:90-99).
THEOREM CustodyStoredIsWhole == Spec => []StoredIsWhole
<1>1. ASSUME CInv, NEW id \in DOMAIN bundles, NEW a, a = Archive(bundles[id])
      PROVE  /\ IdOf(a) = id
             /\ \A d \in a.delegations : delegs[d.doc.id] = d
             /\ DOMAIN a.runs \subseteq DOMAIN runs
             /\ \A k \in DOMAIN a.bodies : k \in DOMAIN bodies /\ bodies[k] = a.bodies[k]
  <2>1. bundles[id] \in verified /\ IdOf(a) = id /\ Held(a)
    BY <1>1 DEF CInv, BundleOK
  <2>2. \A k \in DOMAIN a.bodies : Digest(a.bodies[k]) = k
    BY <1>1, <2>1, VerifiedArchive DEF CInv
  <2>3. \A k \in DOMAIN a.bodies : k \in DOMAIN bodies
    BY <2>1 DEF Held
  <2>4. \A k \in DOMAIN a.bodies : Digest(bodies[k]) = k
    BY <1>1, <2>3 DEF CInv, BodiesTrue
  <2>5. \A k \in DOMAIN a.bodies : bodies[k] = a.bodies[k]
    BY <2>2, <2>4, OneBody
  <2> QED
    BY <2>1, <2>3, <2>5 DEF Held
<1>2. ASSUME CInv, NEW r \in DOMAIN runs
      PROVE  VerifyRun(Stored(r), Range(delegs), PrevOf(Stored(r)),
                       IF runs[r].from # None /\ Archive(runs[r].from).manifest.doc.omitted
                       THEN {} ELSE {bodies})
  <2>1. CASE runs[r].from = None
    BY <1>2, <2>1, OwnVerifies
  <2>2. CASE runs[r].from # None
    BY <1>2, <2>2, ImportedVerifies
  <2> QED
    BY <2>1, <2>2
<1>3. CInv => StoredIsWhole
  BY <1>1, <1>2 DEF StoredIsWhole
<1> QED
  BY <1>3, CustodyInvariant, PTL
=============================================================================
