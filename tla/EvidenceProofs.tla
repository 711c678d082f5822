--------------------------- MODULE EvidenceProofs ---------------------------
(***************************************************************************)
(* From keys to a verdict for any runs, steps, scopes, clocks and damages: *)
(* what verifies is what was sealed, what nobody damaged verifies, and a   *)
(* start that was cut off never makes the recorder forget whose runs it    *)
(* holds.                                                                  *)
(***************************************************************************)
EXTENDS Evidence, SequenceTheorems, TLAPS

IsList(s) == s \in Seq(ToSet(s))

\* The delegations that exist: those in the table, and the one on disk once one was issued.
Known == dtable \cup (IF issued > 0 THEN {files.delegation} ELSE {})

\* Issued to the keys on disk by their principal.
Good(d) ==
    /\ files.principal # None /\ files.agent # None
    /\ d.doc.principal = files.principal /\ d.doc.agent = files.agent
    /\ d.doc.id \in Nat /\ d.doc.id < issued
    /\ VerifyDelegation(d)
    /\ ScopeParses(d.doc.scope)

ShapesOK ==
    /\ files = [principal |-> files.principal, agent |-> files.agent,
                delegation |-> files.delegation]
    /\ identity = [principal |-> identity.principal, agent |-> identity.agent,
                   delegation |-> identity.delegation]
    /\ files.principal \in Keys \cup {None} /\ files.agent \in Keys \cup {None}
    /\ pc \in {"down", "principal", "agent", "delegation", "open", "up"}
    /\ wanted \in Settings \cup {None}
    /\ now \in 0..MaxTime /\ issued \in 0..MaxIssued /\ damage \in 0..MaxDamage
    /\ overran \in BOOLEAN
    /\ \A k \in DOMAIN bodies : bodies[k] \in {k[2], Spoiled}

\* What the process has loaded is what is on disk.
IdentityOK ==
    /\ pc \in {"agent", "delegation", "open", "up"} =>
           files.principal # None /\ identity.principal = files.principal
    /\ pc \in {"delegation", "open", "up"} =>
           files.agent # None /\ identity.agent = files.agent
    /\ pc \in {"open", "up"} => issued > 0 /\ identity.delegation = files.delegation
    /\ pc = "up" => identity.delegation \in dtable
    /\ pc # "down" => wanted \in Settings

DelegationsOK ==
    /\ files.delegation # None => issued > 0
    /\ \A d \in Known : Good(d)
    /\ \A d, e \in Known : d.doc.id = e.doc.id => d = e

\* The i-th record of a run as it was sealed.
RecordSealed(r, i) ==
    LET x == sealed[r][i]
    IN  /\ x = Seal(x.doc, "record", x.doc.agent)
        /\ x.doc.run = r /\ x.doc.seq = i - 1 /\ x.doc.id = <<r, i - 1>>
        /\ x.doc.agent = files.agent /\ x.doc.principal = files.principal
        /\ files.agent # None /\ files.principal # None
        /\ x.doc.prev = IF i = 1 THEN ZeroHash ELSE sealed[r][i - 1].hash
        /\ i > 1 => x.doc.binding = None
        /\ x.doc.kind = "run_end" => i = Len(sealed[r])

\* A run is sealed under one stored delegation, and while it lasts unless one was overrun.
SealedUnder(r, d) ==
    LET first == sealed[r][1].doc
    IN  /\ first.binding = [id |-> d.doc.id, hash |-> d.hash, parent |-> None]
        /\ ~overran => \A i \in 1..Len(sealed[r]) : Covers(d, sealed[r][i].doc.at)

SealedOK(r) ==
    /\ IsList(sealed[r]) /\ Len(sealed[r]) <= MaxLen
    /\ \A i \in 1..Len(sealed[r]) : RecordSealed(r, i)
    /\ sealed[r] # <<>> => \E d \in dtable : SealedUnder(r, d)

\* A stored row still has the signature of some record that was sealed.
FromSealed(r, x) ==
    /\ x = [doc |-> x.doc, hash |-> x.hash, sig |-> x.sig]
    /\ \E i \in 1..Len(sealed[r]) : x.sig = sealed[r][i].sig

RowsOK(r) ==
    /\ IsList(rows[r]) /\ Len(rows[r]) <= MaxLen
    /\ damage = 0 => rows[r] = sealed[r]
    /\ \A i \in 1..Len(rows[r]) : FromSealed(r, rows[r][i])

EInv ==
    /\ ShapesOK /\ IdentityOK /\ DelegationsOK
    /\ DOMAIN sealed = Runs /\ DOMAIN rows = Runs
    /\ \A r \in Runs : SealedOK(r) /\ RowsOK(r)
-----------------------------------------------------------------------------
\* What GenuineVerifies needs to know of the steps

\* A step that is parsed is none of the recorder's own records, and where it says who vouches
\* for its response, it says it as the verifier wants it (steps.py, core.py). That it carries
\* no context and names no other policy set is not checked by the code: EvidenceStep shows
\* what happens without.
SoundSteps ==
    \A s \in Steps :
        /\ s.kind \notin {"run_start", "run_end", "anchor"}
        /\ s.with.context = None /\ s.with.policy \in {None, Policies}
        /\ ReceiptOk([doc |-> s])

\* None is told from what an anchor may say it is over.
NoneApart == \A n, hash, receipt : [seq |-> n, hash |-> hash, receipt |-> receipt] # None

StepOK(r, i) ==
    LET x == sealed[r][i].doc
    IN  /\ i = 1 => x.kind = "run_start" /\ x.with = [Bare EXCEPT !.context = Policies]
        /\ i > 1 => x.kind # "run_start" /\ x.with.context = None
        /\ x.with.policy \in {None, Policies}
        /\ ReceiptOk(sealed[r][i])
        /\ x.kind = "anchor" =>
               \E j \in 1..i - 1 : x.over = [seq |-> j - 1, hash |-> sealed[r][j].hash,
                                             receipt |-> sealed[r][j].hash]

StepsOK == \A r \in Runs : \A i \in 1..Len(sealed[r]) : StepOK(r, i)
-----------------------------------------------------------------------------
\* Sequences

LEMMA ListFacts ==
  ASSUME NEW s, IsList(s)
  PROVE  /\ Len(s) \in Nat /\ DOMAIN s = 1..Len(s)
         /\ s # <<>> <=> Len(s) # 0
<1>1. Len(s) \in Nat /\ DOMAIN s = 1..Len(s)
  BY LenProperties DEF IsList
<1>2. s # <<>> => Len(s) \in Nat \ {0}
  BY EmptySeq DEF IsList
<1>3. s = <<>> => Len(s) = 0
  BY EmptySeq
<1> QED
  BY <1>1, <1>2, <1>3

LEMMA EmptyList == IsList(<<>>) /\ Len(<<>>) = 0
BY EmptySeq DEF IsList

\* What is in a set at every place is a list of its own elements.
LEMMA ListOf ==
  ASSUME NEW S, NEW s \in Seq(S)
  PROVE  IsList(s)
<1>1. Len(s) \in Nat /\ DOMAIN s = 1..Len(s)
  BY LenProperties
<1>2. \A i \in 1..Len(s) : s[i] \in ToSet(s)
  BY <1>1 DEF ToSet
<1>3. SubSeq(s, 1, Len(s)) \in Seq(ToSet(s))
  BY <1>1, <1>2, SubSeqProperties
<1> QED
  BY <1>3, SubSeqFull DEF IsList

LEMMA AppendFacts ==
  ASSUME NEW s, IsList(s), NEW x
  PROVE  /\ IsList(Append(s, x)) /\ Append(s, x) # <<>>
         /\ Len(Append(s, x)) = Len(s) + 1
         /\ \A i \in 1..Len(s) : Append(s, x)[i] = s[i]
         /\ Append(s, x)[Len(s) + 1] = x
<1> DEFINE S == ToSet(s) \cup {x}
<1>1. s \in Seq(S)
  BY SeqMonotonic DEF IsList
<1>2. x \in S
  OBVIOUS
<1> HIDE DEF S
<1>3. /\ Append(s, x) \in Seq(S) /\ Append(s, x) # <<>>
      /\ Len(Append(s, x)) = Len(s) + 1
      /\ \A i \in 1..Len(s) : Append(s, x)[i] = s[i]
      /\ Append(s, x)[Len(s) + 1] = x
  BY <1>1, <1>2, AppendProperties
<1>4. IsList(Append(s, x))
  BY <1>3, ListOf
<1> QED
  BY <1>3, <1>4

LEMMA RemoveFacts ==
  ASSUME NEW s, IsList(s), NEW i \in 1..Len(s)
  PROVE  /\ IsList(RemoveAt(s, i))
         /\ Len(RemoveAt(s, i)) = Len(s) - 1
         /\ \A j \in 1..Len(s) - 1 : RemoveAt(s, i)[j] = s[IF j < i THEN j ELSE j + 1]
<1> DEFINE S == ToSet(s)
           left == SubSeq(s, 1, i - 1)
           right == SubSeq(s, i + 1, Len(s))
<1>1. s \in Seq(S) /\ Len(s) \in Nat
  BY ListFacts DEF IsList
<1>2. \A j \in 1..Len(s) : s[j] \in S
  BY <1>1, ElementOfSeq
<1> HIDE DEF S
<1>3. /\ left \in Seq(S) /\ Len(left) = i - 1
      /\ \A j \in 1..i - 1 : left[j] = s[j]
  <2>1. \A j \in 1..i - 1 : s[j] \in S
    BY <1>1, <1>2
  <2> QED
    BY <1>1, <2>1, SubSeqProperties
<1>4. /\ right \in Seq(S) /\ Len(right) = Len(s) - i
      /\ \A j \in 1..Len(s) - i : right[j] = s[i + j]
  <2>1. \A j \in i + 1..Len(s) : s[j] \in S
    BY <1>1, <1>2
  <2>2. /\ right \in Seq(S) /\ Len(right) = (IF i + 1 <= Len(s) THEN Len(s) - (i + 1) + 1 ELSE 0)
        /\ \A j \in 1..Len(s) - (i + 1) + 1 : right[j] = s[i + 1 + j - 1]
    BY <1>1, <2>1, SubSeqProperties
  <2> QED
    BY <1>1, <2>2
<1> HIDE DEF left, right
<1>5. /\ left \o right \in Seq(S) /\ Len(left \o right) = Len(left) + Len(right)
      /\ \A j \in 1..Len(left) + Len(right) :
             (left \o right)[j] = IF j <= Len(left) THEN left[j] ELSE right[j - Len(left)]
  BY <1>3, <1>4, ConcatProperties
<1>6. RemoveAt(s, i) = left \o right
  BY DEF RemoveAt, left, right
<1>7. IsList(RemoveAt(s, i)) /\ Len(RemoveAt(s, i)) = Len(s) - 1
  <2>1. IsList(left \o right)
    BY <1>5, ListOf
  <2>2. Len(left \o right) = Len(s) - 1
    BY <1>1, <1>3, <1>4, <1>5
  <2> QED
    BY <1>6, <2>1, <2>2
<1>8. ASSUME NEW j \in 1..Len(s) - 1
      PROVE  RemoveAt(s, i)[j] = s[IF j < i THEN j ELSE j + 1]
  <2>1. CASE j < i
    BY <1>1, <1>3, <1>4, <1>5, <1>6, <2>1
  <2>2. CASE ~(j < i)
    <3>1. (left \o right)[j] = right[j - (i - 1)]
      BY <1>1, <1>3, <1>4, <1>5, <2>2
    <3>2. j - (i - 1) \in 1..Len(s) - i /\ i + (j - (i - 1)) = j + 1
      BY <1>1, <2>2
    <3>3. right[j - (i - 1)] = s[j + 1]
      BY <1>4, <3>2
    <3> QED
      BY <1>6, <2>2, <3>1, <3>3
  <2> QED
    BY <2>1, <2>2
<1> QED
  BY <1>7, <1>8
-----------------------------------------------------------------------------
\* The start

LEMMA InitInv == Init => EInv /\ StepsOK
<1> SUFFICES ASSUME Init
             PROVE  EInv /\ StepsOK
  OBVIOUS
<1> USE EvidenceAssumption
<1>1. ShapesOK
  <2>1. \A k \in DOMAIN bodies : bodies[k] \in {k[2], Spoiled}
    <3>1. DOMAIN bodies = {}
      BY DEF Init
    <3> QED
      BY <3>1
  <2>2. /\ files = [principal |-> files.principal, agent |-> files.agent,
                    delegation |-> files.delegation]
        /\ identity = [principal |-> identity.principal, agent |-> identity.agent,
                       delegation |-> identity.delegation]
        /\ files.principal \in Keys \cup {None} /\ files.agent \in Keys \cup {None}
        /\ wanted \in Settings \cup {None}
    BY DEF Init, Nobody
  <2>3. now \in 0..MaxTime /\ issued \in 0..MaxIssued /\ damage \in 0..MaxDamage
    BY DEF Init
  <2> QED
    BY <2>1, <2>2, <2>3 DEF Init, ShapesOK
<1>2. IdentityOK /\ DelegationsOK
  BY DEF Init, IdentityOK, DelegationsOK, Nobody, Known
<1>3. DOMAIN sealed = Runs /\ DOMAIN rows = Runs
  BY DEF Init
<1>4. ASSUME NEW r \in Runs
      PROVE  SealedOK(r) /\ RowsOK(r) /\ Len(sealed[r]) = 0
  <2>1. sealed[r] = <<>> /\ rows[r] = <<>>
    BY DEF Init
  <2>2. 0 <= MaxLen
    OBVIOUS
  <2> QED
    BY <2>1, <2>2, EmptyList DEF SealedOK, RowsOK
<1> QED
  BY <1>1, <1>2, <1>3, <1>4 DEF EInv, StepsOK
-----------------------------------------------------------------------------
\* Steps that seal nothing

\* What is sealed and stored stays as it is while keys that were written and delegations that
\* were stored stay.
LEMMA LedgerKept ==
  ASSUME EInv, UNCHANGED <<sealed, rows, overran>>, damage' = 0 => damage = 0,
         files.agent # None => files'.agent = files.agent,
         files.principal # None => files'.principal = files.principal,
         dtable \subseteq dtable'
  PROVE  /\ DOMAIN sealed' = Runs /\ DOMAIN rows' = Runs
         /\ \A r \in Runs : SealedOK(r)' /\ RowsOK(r)'
<1>1. DOMAIN sealed' = Runs /\ DOMAIN rows' = Runs
  BY DEF EInv
<1>2. ASSUME NEW r \in Runs
      PROVE  SealedOK(r)'
  <2>1. SealedOK(r)
    BY DEF EInv
  <2>2. ASSUME NEW i \in 1..Len(sealed[r])
        PROVE  RecordSealed(r, i)'
    <3>1. RecordSealed(r, i)
      BY <2>1 DEF SealedOK
    <3> QED
      BY <3>1 DEF RecordSealed
  <2>3. sealed[r] # <<>> => \E d \in dtable' : SealedUnder(r, d)'
    BY <2>1 DEF SealedOK, SealedUnder
  <2> QED
    BY <2>1, <2>2, <2>3 DEF SealedOK
<1>3. ASSUME NEW r \in Runs
      PROVE  RowsOK(r)'
  <2>1. RowsOK(r)
    BY DEF EInv
  <2> QED
    BY <2>1 DEF RowsOK, FromSealed
<1> QED
  BY <1>1, <1>2, <1>3

\* So it is when keys, delegations and the process stay, too.
LEMMA StepsKept ==
  ASSUME StepsOK, UNCHANGED sealed
  PROVE  StepsOK'
BY DEF StepsOK, StepOK

LEMMA StartInv ==
  ASSUME EInv, Start
  PROVE  EInv'
<1> USE DEF Start, disk
<1>1. ShapesOK'
  BY DEF EInv, ShapesOK
<1>2. IdentityOK'
  BY DEF EInv, IdentityOK
<1>3. DelegationsOK'
  BY DEF EInv, DelegationsOK, Known, Good
<1>4. /\ DOMAIN sealed' = Runs /\ DOMAIN rows' = Runs
      /\ \A r \in Runs : SealedOK(r)' /\ RowsOK(r)'
  BY LedgerKept
<1> QED
  BY <1>1, <1>2, <1>3, <1>4 DEF EInv

LEMMA StopInv ==
  ASSUME EInv, Stop
  PROVE  EInv'
<1> USE DEF Stop, disk
<1>1. ShapesOK'
  BY DEF EInv, ShapesOK, Nobody
<1>2. IdentityOK'
  BY DEF EInv, IdentityOK
<1>3. DelegationsOK'
  BY DEF EInv, DelegationsOK, Known, Good
<1>4. /\ DOMAIN sealed' = Runs /\ DOMAIN rows' = Runs
      /\ \A r \in Runs : SealedOK(r)' /\ RowsOK(r)'
  BY LedgerKept
<1> QED
  BY <1>1, <1>2, <1>3, <1>4 DEF EInv

LEMMA TickInv ==
  ASSUME EInv, Tick
  PROVE  EInv'
<1> USE DEF Tick, disk
<1>1. ShapesOK'
  BY EvidenceAssumption DEF EInv, ShapesOK
<1>2. IdentityOK'
  BY DEF EInv, IdentityOK
<1>3. DelegationsOK'
  BY DEF EInv, DelegationsOK, Known, Good
<1>4. /\ DOMAIN sealed' = Runs /\ DOMAIN rows' = Runs
      /\ \A r \in Runs : SealedOK(r)' /\ RowsOK(r)'
  BY LedgerKept
<1> QED
  BY <1>1, <1>2, <1>3, <1>4 DEF EInv

LEMMA StutterInv ==
  ASSUME EInv, UNCHANGED vars
  PROVE  EInv'
<1> USE DEF vars
<1>1. ShapesOK' /\ IdentityOK'
  BY DEF EInv, ShapesOK, IdentityOK
<1>2. DelegationsOK'
  BY DEF EInv, DelegationsOK, Known, Good
<1>3. /\ DOMAIN sealed' = Runs /\ DOMAIN rows' = Runs
      /\ \A r \in Runs : SealedOK(r)' /\ RowsOK(r)'
  BY LedgerKept
<1> QED
  BY <1>1, <1>2, <1>3 DEF EInv

\* Keys are read, or made and put into place, before anything was issued for them.
LEMMA PrincipalInv ==
  ASSUME EInv, LoadKeys("principal", "principal", "agent")
  PROVE  EInv'
<1> USE DEF LoadKeys
<1>1. PICK k \in Keys \cup {None} :
        /\ pc = "principal" /\ pc' = "agent"
        /\ identity' = [identity EXCEPT !["principal"] = k]
        /\ files' = [files EXCEPT !["principal"] = k]
        /\ k # None /\ (files.principal # None => k = files.principal)
        /\ UNCHANGED <<wanted, now, issued, dtable, rows, bodies, sealed, damage, overran>>
  <2>1. CASE files["principal"] # None
    <3>1. files["principal"] \in Keys \cup {None}
      BY DEF EInv, ShapesOK
    <3>2. files = [files EXCEPT !["principal"] = files["principal"]]
      BY DEF EInv, ShapesOK
    <3>3. /\ pc = "principal" /\ pc' = "agent"
          /\ identity' = [identity EXCEPT !["principal"] = files["principal"]]
          /\ files' = files
          /\ UNCHANGED <<wanted, now, issued, dtable, rows, bodies, sealed, damage, overran>>
      BY <2>1
    <3> QED
      BY <2>1, <3>1, <3>2, <3>3
  <2>2. CASE ~(files["principal"] # None)
    BY <2>2, EvidenceAssumption DEF FreshKey
  <2> QED
    BY <2>1, <2>2
<1>2. /\ files'.principal = k /\ files'.agent = files.agent
      /\ files'.delegation = files.delegation
      /\ files' = [principal |-> k, agent |-> files.agent, delegation |-> files.delegation]
      /\ identity'.principal = k
      /\ identity' = [principal |-> k, agent |-> identity.agent,
                      delegation |-> identity.delegation]
  BY <1>1 DEF EInv, ShapesOK
<1>3. ShapesOK'
  BY <1>1, <1>2 DEF EInv, ShapesOK
<1>4. IdentityOK'
  BY <1>1, <1>2 DEF EInv, IdentityOK
<1>5. DelegationsOK'
  BY <1>1, <1>2 DEF EInv, DelegationsOK, Known, Good
<1>6. /\ DOMAIN sealed' = Runs /\ DOMAIN rows' = Runs
      /\ \A r \in Runs : SealedOK(r)' /\ RowsOK(r)'
  BY <1>1, <1>2, LedgerKept
<1> QED
  BY <1>3, <1>4, <1>5, <1>6 DEF EInv

LEMMA AgentInv ==
  ASSUME EInv, LoadKeys("agent", "agent", "delegation")
  PROVE  EInv'
<1> USE DEF LoadKeys
<1>1. PICK k \in Keys \cup {None} :
        /\ pc = "agent" /\ pc' = "delegation"
        /\ identity' = [identity EXCEPT !["agent"] = k]
        /\ files' = [files EXCEPT !["agent"] = k]
        /\ k # None /\ (files.agent # None => k = files.agent)
        /\ UNCHANGED <<wanted, now, issued, dtable, rows, bodies, sealed, damage, overran>>
  <2>1. CASE files["agent"] # None
    <3>1. files["agent"] \in Keys \cup {None}
      BY DEF EInv, ShapesOK
    <3>2. files = [files EXCEPT !["agent"] = files["agent"]]
      BY DEF EInv, ShapesOK
    <3>3. /\ pc = "agent" /\ pc' = "delegation"
          /\ identity' = [identity EXCEPT !["agent"] = files["agent"]]
          /\ files' = files
          /\ UNCHANGED <<wanted, now, issued, dtable, rows, bodies, sealed, damage, overran>>
      BY <2>1
    <3> QED
      BY <2>1, <3>1, <3>2, <3>3
  <2>2. CASE ~(files["agent"] # None)
    BY <2>2, EvidenceAssumption DEF FreshKey
  <2> QED
    BY <2>1, <2>2
<1>2. /\ files'.principal = files.principal /\ files'.agent = k
      /\ files'.delegation = files.delegation
      /\ files' = [principal |-> files.principal, agent |-> k, delegation |-> files.delegation]
      /\ identity'.principal = identity.principal /\ identity'.agent = k
      /\ identity' = [principal |-> identity.principal, agent |-> k,
                      delegation |-> identity.delegation]
  BY <1>1 DEF EInv, ShapesOK
<1>3. ShapesOK'
  BY <1>1, <1>2 DEF EInv, ShapesOK
<1>4. IdentityOK'
  BY <1>1, <1>2 DEF EInv, IdentityOK
<1>5. DelegationsOK'
  BY <1>1, <1>2 DEF EInv, DelegationsOK, Known, Good
<1>6. /\ DOMAIN sealed' = Runs /\ DOMAIN rows' = Runs
      /\ \A r \in Runs : SealedOK(r)' /\ RowsOK(r)'
  BY <1>1, <1>2, LedgerKept
<1> QED
  BY <1>3, <1>4, <1>5, <1>6 DEF EInv

\* The delegation on disk is used again, or replaced by a new one under a new id.
LEMMA DelegationInv ==
  ASSUME EInv, LoadDelegation
  PROVE  EInv'
<1> USE DEF LoadDelegation, disk
<1>1. /\ pc = "delegation" /\ pc' = "open"
      /\ UNCHANGED <<wanted, now, dtable, rows, bodies, sealed, damage, overran>>
  OBVIOUS
<1>2. /\ files.principal # None /\ identity.principal = files.principal
      /\ files.agent # None /\ identity.agent = files.agent
      /\ wanted \in Settings
  BY <1>1 DEF EInv, IdentityOK
<1>3. CASE Usable(files.delegation)
  <2>1. /\ identity' = [identity EXCEPT !.delegation = files.delegation]
        /\ files' = files /\ issued' = issued /\ files.delegation # None
    BY <1>3 DEF Usable
  <2>2. /\ identity'.delegation = files.delegation
        /\ identity'.principal = identity.principal /\ identity'.agent = identity.agent
        /\ identity' = [principal |-> identity.principal, agent |-> identity.agent,
                        delegation |-> files.delegation]
    BY <2>1 DEF EInv, ShapesOK
  <2>3. ShapesOK'
    BY <1>1, <2>1, <2>2 DEF EInv, ShapesOK
  <2>4. IdentityOK'
    BY <1>1, <1>2, <2>1, <2>2 DEF EInv, IdentityOK, DelegationsOK
  <2>5. DelegationsOK'
    BY <1>1, <2>1 DEF EInv, DelegationsOK, Known, Good
  <2>6. /\ DOMAIN sealed' = Runs /\ DOMAIN rows' = Runs
        /\ \A r \in Runs : SealedOK(r)' /\ RowsOK(r)'
    BY <1>1, <2>1, LedgerKept
  <2> QED
    BY <2>3, <2>4, <2>5, <2>6 DEF EInv
<1>4. CASE ~Usable(files.delegation)
  <2>1. PICK d : d = CreateDelegation(identity.principal, identity.agent, issued,
                                      now, now + Lifetime, wanted)
    OBVIOUS
  <2>2. /\ issued < MaxIssued /\ issued' = issued + 1
        /\ files' = [files EXCEPT !.delegation = d]
        /\ identity' = [identity EXCEPT !.delegation = d]
    BY <1>4, <2>1
  <2>3. /\ files'.principal = files.principal /\ files'.agent = files.agent
        /\ files'.delegation = d
        /\ files' = [principal |-> files.principal, agent |-> files.agent, delegation |-> d]
        /\ identity'.principal = identity.principal /\ identity'.agent = identity.agent
        /\ identity'.delegation = d
        /\ identity' = [principal |-> identity.principal, agent |-> identity.agent,
                        delegation |-> d]
    BY <2>2 DEF EInv, ShapesOK
  <2>4. issued \in Nat /\ issued' \in 1..MaxIssued /\ now \in Nat
    BY <2>2, EvidenceAssumption DEF EInv, ShapesOK
  <2>5. d.doc.id = issued /\ Good(d)'
    <3>1. /\ d.doc.id = issued /\ d.doc.principal = files.principal
          /\ d.doc.agent = files.agent /\ d.doc.from = now /\ d.doc.until = now + Lifetime
          /\ d.doc.scope = wanted
      BY <1>2, <2>1 DEF CreateDelegation, Seal
    <3>2. CheckHash(d) /\ CheckSignature(d.sig, d, "delegation", d.doc.principal)
      BY <1>2, <2>1 DEF CreateDelegation, Seal, CheckHash, CheckSignature
    <3>3. d.doc.from < d.doc.until
      BY <2>4, <3>1, EvidenceAssumption
    <3>4. ScopeParses(d.doc.scope)
      BY <1>2, <3>1, EvidenceAssumption
    <3> QED
      BY <1>2, <2>2, <2>3, <2>4, <3>1, <3>2, <3>3, <3>4 DEF Good, VerifyDelegation
  <2>6. ShapesOK'
    BY <1>1, <2>3, <2>4 DEF EInv, ShapesOK
  <2>7. IdentityOK'
    BY <1>1, <1>2, <2>3, <2>4 DEF EInv, IdentityOK
  <2>8. DelegationsOK'
    <3>1. Known' \subseteq dtable \cup {d}
      BY <1>1, <2>3 DEF Known
    <3>2. \A e \in dtable : e \in Known
      BY DEF Known
    <3>3. \A e \in dtable : Good(e) /\ e.doc.id # issued
      BY <2>4, <3>2 DEF EInv, DelegationsOK, Good
    <3>4. \A e \in dtable : Good(e)'
      BY <2>2, <2>3, <2>4, <3>3 DEF Good
    <3> QED
      BY <2>4, <2>5, <3>1, <3>2, <3>3, <3>4 DEF EInv, DelegationsOK
  <2>9. /\ DOMAIN sealed' = Runs /\ DOMAIN rows' = Runs
        /\ \A r \in Runs : SealedOK(r)' /\ RowsOK(r)'
    BY <1>1, <2>3, LedgerKept
  <2> QED
    BY <2>6, <2>7, <2>8, <2>9 DEF EInv
<1> QED
  BY <1>3, <1>4

\* The delegation is stored; under its id there is no other.
LEMMA OpenInv ==
  ASSUME EInv, OpenLive
  PROVE  EInv'
<1> USE DEF OpenLive, disk
<1>1. issued > 0 /\ identity.delegation = files.delegation
  BY DEF EInv, IdentityOK
<1>2. identity.delegation \in Known /\ dtable \subseteq Known
  BY <1>1 DEF Known
<1>3. \A d \in dtable : d.doc.id = identity.delegation.doc.id => d = identity.delegation
  BY <1>2 DEF EInv, DelegationsOK
<1>4. dtable' = dtable \cup {identity.delegation}
  BY <1>3
<1>5. ShapesOK'
  BY DEF EInv, ShapesOK
<1>6. IdentityOK'
  BY <1>4 DEF EInv, IdentityOK
<1>7. DelegationsOK'
  <2>1. Known' = Known
    BY <1>1, <1>4 DEF Known
  <2> QED
    BY <2>1 DEF EInv, DelegationsOK, Good
<1>8. /\ DOMAIN sealed' = Runs /\ DOMAIN rows' = Runs
      /\ \A r \in Runs : SealedOK(r)' /\ RowsOK(r)'
  BY <1>4, LedgerKept
<1> QED
  BY <1>5, <1>6, <1>7, <1>8 DEF EInv
-----------------------------------------------------------------------------
\* Sealing a record

\* What SealOnto adds to a run.
NextDoc(r, kind, with, over, binding) ==
    [run |-> r, seq |-> Len(sealed[r]), id |-> <<r, Len(sealed[r])>>, kind |-> kind, at |-> now,
     principal |-> identity.delegation.doc.principal, agent |-> identity.delegation.doc.agent,
     with |-> with, over |-> over, binding |-> binding,
     prev |-> IF Len(sealed[r]) = 0 THEN ZeroHash ELSE sealed[r][Len(sealed[r])].hash]

LEMMA SealedAppend ==
  ASSUME EInv, NEW r \in Runs, NEW kind, NEW with, NEW over, NEW binding,
         SealOnto(r, kind, with, over, binding)
  PROVE  LET x == Seal(NextDoc(r, kind, with, over, binding), "record", identity.agent)
         IN  /\ Len(sealed[r]) < MaxLen
             /\ sealed' = [sealed EXCEPT ![r] = Append(sealed[r], x)]
             /\ rows' = [rows EXCEPT ![r] = Append(rows[r], x)]
BY DEF SealOnto, NextDoc

\* One more record on a run that has no end, under the delegation that the run began under.
LEMMA SealInv ==
  ASSUME EInv, NEW r \in Runs, NEW kind, NEW with, NEW over, NEW binding,
         pc = "up", damage = 0, SealOnto(r, kind, with, over, binding),
         \/ /\ sealed[r] = <<>>
            /\ binding = [id |-> identity.delegation.doc.id, hash |-> identity.delegation.hash,
                          parent |-> None]
         \/ Resumable(r) /\ binding = None
  PROVE  EInv'
<1>1. PICK n \in Nat : n = Len(sealed[r])
  BY ListFacts DEF EInv, SealedOK
<1>2. PICK doc : doc = NextDoc(r, kind, with, over, binding)
  OBVIOUS
<1>3. PICK x : x = Seal(doc, "record", identity.agent)
  OBVIOUS
<1>4. /\ n < MaxLen
      /\ sealed' = [sealed EXCEPT ![r] = Append(sealed[r], x)]
      /\ rows' = [rows EXCEPT ![r] = Append(rows[r], x)]
  BY <1>1, <1>2, <1>3, SealedAppend
<1>5. /\ bodies' = [k \in DOMAIN bodies \cup Named(<<x>>) |->
                        IF k \in DOMAIN bodies THEN bodies[k] ELSE k[2]]
      /\ overran' = (overran \/ ~Covers(identity.delegation, now))
      /\ UNCHANGED <<disk, pc, identity, wanted, now, dtable, damage>>
  BY <1>2, <1>3 DEF SealOnto, NextDoc
<1>6. /\ identity.delegation \in dtable /\ Good(identity.delegation)
      /\ identity.agent = files.agent
  BY DEF EInv, IdentityOK, DelegationsOK, Known
<1>7. /\ x.doc = doc /\ x = Seal(doc, "record", doc.agent)
      /\ doc.run = r /\ doc.seq = n /\ doc.id = <<r, n>> /\ doc.at = now
      /\ doc.principal = files.principal /\ doc.agent = files.agent
      /\ files.principal # None /\ files.agent # None
      /\ doc.binding = binding
      /\ doc.prev = IF n = 0 THEN ZeroHash ELSE sealed[r][n].hash
  BY <1>1, <1>2, <1>3, <1>6 DEF NextDoc, Seal, Good
<1>8. ShapesOK'
  <2>1. \A k \in DOMAIN bodies' : bodies'[k] \in {k[2], Spoiled}
    BY <1>5 DEF EInv, ShapesOK
  <2>2. overran' \in BOOLEAN
    BY <1>5 DEF EInv, ShapesOK
  <2> QED
    BY <1>5, <2>1, <2>2 DEF EInv, ShapesOK, disk
<1>9. IdentityOK' /\ DelegationsOK'
  BY <1>5 DEF EInv, IdentityOK, DelegationsOK, Known, Good, disk
<1>10. DOMAIN sealed = Runs /\ DOMAIN rows = Runs /\ rows[r] = sealed[r]
  BY DEF EInv, RowsOK
<1>11. DOMAIN sealed' = Runs /\ DOMAIN rows' = Runs
  BY <1>4, <1>10
<1>12. /\ sealed'[r] = Append(sealed[r], x) /\ rows'[r] = sealed'[r]
       /\ \A s \in Runs : s # r => sealed'[s] = sealed[s] /\ rows'[s] = rows[s]
  BY <1>4, <1>10
<1>13. /\ IsList(sealed'[r]) /\ Len(sealed'[r]) = n + 1 /\ sealed'[r] # <<>>
       /\ \A i \in 1..n : sealed'[r][i] = sealed[r][i]
       /\ sealed'[r][n + 1] = x
  <2>1. IsList(sealed[r])
    BY DEF EInv, SealedOK
  <2> QED
    BY <1>1, <1>12, <2>1, AppendFacts
<1>14. n > 0 => Resumable(r) /\ binding = None /\ sealed[r] # <<>>
  BY <1>1, EmptyList DEF Resumable
<1>15. ASSUME NEW i \in 1..n + 1
       PROVE  RecordSealed(r, i)'
  <2>1. CASE i = n + 1
    <3>1. sealed'[r][i] = x /\ i - 1 = n
      BY <1>13, <2>1
    <3>2. x.doc.prev = IF i = 1 THEN ZeroHash ELSE sealed'[r][i - 1].hash
      BY <1>7, <1>13, <2>1
    <3> QED
      BY <1>5, <1>7, <1>13, <1>14, <2>1, <3>1, <3>2 DEF RecordSealed, disk
  <2>2. CASE i # n + 1
    <3>1. i \in 1..n /\ sealed'[r][i] = sealed[r][i]
      BY <1>13, <2>2
    <3>2. RecordSealed(r, i)
      BY <1>1, <3>1 DEF EInv, SealedOK
    <3>3. sealed[r][i].doc.kind # "run_end"
      <4>1. n > 0 /\ sealed[r][n].doc.kind # "run_end"
        BY <1>1, <1>14, <3>1 DEF Resumable, Complete
      <4> QED
        BY <1>1, <3>2, <4>1 DEF RecordSealed
    <3>4. i # 1 => sealed'[r][i - 1] = sealed[r][i - 1]
      <4>1. i # 1 => i - 1 \in 1..n
        BY <3>1
      <4> QED
        BY <1>13, <4>1
    <3> QED
      BY <1>5, <3>1, <3>2, <3>3, <3>4 DEF RecordSealed, disk
  <2> QED
    BY <2>1, <2>2
<1>16. \E d \in dtable' : SealedUnder(r, d)'
  <2>1. CASE n = 0
    <3>1. sealed[r] = <<>>
      BY <1>1, <2>1, ListFacts DEF EInv, SealedOK
    <3>2. /\ sealed'[r][1] = x /\ Len(sealed'[r]) = 1
          /\ \A i \in 1..Len(sealed'[r]) : sealed'[r][i] = x
      BY <1>13, <2>1
    <3>3. binding = [id |-> identity.delegation.doc.id, hash |-> identity.delegation.hash,
                     parent |-> None]
      BY <3>1 DEF Resumable
    <3>4. ~overran' => Covers(identity.delegation, x.doc.at)
      BY <1>5, <1>7
    <3>5. SealedUnder(r, identity.delegation)'
      BY <1>5, <1>7, <3>2, <3>3, <3>4 DEF SealedUnder, Covers
    <3> QED
      BY <1>5, <1>6, <3>5
  <2>2. CASE n # 0
    <3>1. Resumable(r) /\ sealed[r] # <<>>
      BY <1>14, <2>2
    <3>2. PICK d \in dtable : SealedUnder(r, d)
      BY <3>1 DEF EInv, SealedOK
    <3>3. d = identity.delegation
      <4>1. d.doc.id = identity.delegation.doc.id
        BY <3>1, <3>2 DEF SealedUnder, Resumable
      <4> QED
        BY <1>6, <4>1 DEF EInv, DelegationsOK, Known
    <3>4. sealed'[r][1] = sealed[r][1]
      BY <1>13, <2>2
    <3>5. ASSUME ~overran', NEW i \in 1..Len(sealed'[r])
          PROVE  Covers(d, sealed'[r][i].doc.at)
      <4>1. CASE i = n + 1
        BY <1>5, <1>7, <1>13, <3>3, <3>5, <4>1
      <4>2. CASE i # n + 1
        <5>1. i \in 1..n
          BY <1>13, <4>2
        <5>2. ~overran
          BY <1>5, <3>5
        <5> QED
          BY <1>1, <1>13, <3>2, <5>1, <5>2 DEF SealedUnder
      <4> QED
        BY <4>1, <4>2
    <3>6. sealed'[r][1].doc.binding = [id |-> d.doc.id, hash |-> d.hash, parent |-> None]
      BY <3>2, <3>4 DEF SealedUnder
    <3> QED
      BY <1>5, <3>5, <3>6 DEF SealedUnder, Covers
  <2> QED
    BY <2>1, <2>2
<1>17. SealedOK(r)'
  <2>1. Len(sealed'[r]) <= MaxLen
    BY <1>4, <1>13, EvidenceAssumption
  <2> QED
    BY <1>13, <1>15, <1>16, <2>1 DEF SealedOK
<1>18. RowsOK(r)'
  <2>1. ASSUME NEW i \in 1..Len(rows'[r])
        PROVE  FromSealed(r, rows[r][i])'
    <3>1. i \in 1..n + 1 /\ rows'[r][i] = sealed'[r][i]
      BY <1>12, <1>13
    <3>2. RecordSealed(r, i)'
      BY <1>15, <3>1
    <3>3. sealed'[r][i] = Seal(sealed'[r][i].doc, "record", sealed'[r][i].doc.agent)
      BY <3>2 DEF RecordSealed
    <3> QED
      BY <1>12, <3>1, <3>3 DEF FromSealed, Seal
  <2> QED
    BY <1>12, <1>17, <2>1 DEF RowsOK, SealedOK
<1>19. ASSUME NEW s \in Runs, s # r
       PROVE  SealedOK(s)' /\ RowsOK(s)'
  <2>1. sealed'[s] = sealed[s] /\ rows'[s] = rows[s] /\ SealedOK(s) /\ RowsOK(s)
    BY <1>12, <1>19 DEF EInv
  <2>2. ASSUME NEW i \in 1..Len(sealed[s])
        PROVE  RecordSealed(s, i)'
    <3>1. RecordSealed(s, i)
      BY <2>1 DEF SealedOK
    <3> QED
      BY <1>5, <2>1, <3>1 DEF RecordSealed, disk
  <2>3. \A d \in dtable : SealedUnder(s, d) => SealedUnder(s, d)'
    BY <1>5, <2>1 DEF SealedUnder, Covers
  <2>4. SealedOK(s)'
    BY <1>5, <2>1, <2>2, <2>3 DEF SealedOK
  <2>5. RowsOK(s)'
    BY <1>5, <2>1 DEF RowsOK, FromSealed
  <2> QED
    BY <2>4, <2>5
<1> QED
  BY <1>8, <1>9, <1>11, <1>17, <1>18, <1>19 DEF EInv
-----------------------------------------------------------------------------
\* Damage

\* Rows are lost, swapped or altered, and none of it makes a signature.
LEMMA DamageKept ==
  ASSUME EInv, NEW r \in Runs, NEW recs, IsList(recs), Len(recs) <= MaxLen,
         \A i \in 1..Len(recs) : FromSealed(r, recs[i]), Damage(r, recs)
  PROVE  EInv'
<1> USE DEF Damage, disk
<1>1. damage' \in 1..MaxDamage
  BY EvidenceAssumption DEF EInv, ShapesOK
<1>2. ShapesOK'
  BY <1>1 DEF EInv, ShapesOK
<1>3. IdentityOK' /\ DelegationsOK'
  BY DEF EInv, IdentityOK, DelegationsOK, Known, Good
<1>4. DOMAIN sealed' = Runs /\ DOMAIN rows' = Runs
  BY DEF EInv
<1>5. /\ rows'[r] = recs
      /\ \A s \in Runs : s # r => rows'[s] = rows[s]
  BY DEF EInv
<1>6. ASSUME NEW s \in Runs
      PROVE  SealedOK(s)'
  <2>1. SealedOK(s)
    BY DEF EInv
  <2>2. ASSUME NEW i \in 1..Len(sealed[s])
        PROVE  RecordSealed(s, i)'
    <3>1. RecordSealed(s, i)
      BY <2>1 DEF SealedOK
    <3> QED
      BY <3>1 DEF RecordSealed
  <2>3. sealed[s] # <<>> => \E d \in dtable' : SealedUnder(s, d)'
    BY <2>1 DEF SealedOK, SealedUnder
  <2> QED
    BY <2>1, <2>2, <2>3 DEF SealedOK
<1>7. ASSUME NEW s \in Runs
      PROVE  RowsOK(s)'
  <2>1. damage' # 0
    BY <1>1
  <2>2. CASE s = r
    BY <1>5, <2>1, <2>2 DEF RowsOK, FromSealed
  <2>3. CASE s # r
    <3>1. RowsOK(s) /\ rows'[s] = rows[s]
      BY <1>5, <2>3 DEF EInv
    <3> QED
      BY <2>1, <3>1 DEF RowsOK, FromSealed
  <2> QED
    BY <2>2, <2>3
<1> QED
  BY <1>2, <1>3, <1>4, <1>6, <1>7 DEF EInv

LEMMA LoseInv ==
  ASSUME EInv, NEW r \in Runs, NEW i, Lose(r, i)
  PROVE  EInv'
<1>1. /\ i \in 1..Len(rows[r]) /\ Damage(r, RemoveAt(rows[r], i))
      /\ IsList(rows[r]) /\ Len(rows[r]) \in Nat /\ Len(rows[r]) <= MaxLen
      /\ \A j \in 1..Len(rows[r]) : FromSealed(r, rows[r][j])
  BY ListFacts DEF Lose, EInv, RowsOK
<1>2. PICK recs : recs = RemoveAt(rows[r], i)
  OBVIOUS
<1>3. /\ IsList(recs) /\ Len(recs) = Len(rows[r]) - 1
      /\ \A j \in 1..Len(rows[r]) - 1 : recs[j] = rows[r][IF j < i THEN j ELSE j + 1]
  BY <1>1, <1>2, RemoveFacts
<1>4. ASSUME NEW j \in 1..Len(recs)
      PROVE  FromSealed(r, recs[j])
  <2>1. PICK k \in 1..Len(rows[r]) : k = IF j < i THEN j ELSE j + 1
    BY <1>1, <1>3
  <2> QED
    BY <1>1, <1>3, <2>1
<1>5. Len(recs) <= MaxLen
  BY <1>1, <1>3, EvidenceAssumption
<1> QED
  BY <1>1, <1>2, <1>3, <1>4, <1>5, DamageKept

\* Another record in one place.
Put(s, i, x) == [s EXCEPT ![i] = x]

LEMMA PutFacts ==
  ASSUME NEW s, IsList(s), NEW i \in 1..Len(s), NEW x
  PROVE  /\ IsList(Put(s, i, x)) /\ Len(Put(s, i, x)) = Len(s)
         /\ \A j \in 1..Len(s) : Put(s, i, x)[j] = IF j = i THEN x ELSE s[j]
<1> DEFINE S == ToSet(s) \cup {x}
<1>1. s \in Seq(S) /\ x \in S
  BY SeqMonotonic DEF IsList
<1> HIDE DEF S
<1>2. /\ [s EXCEPT ![i] = x] \in Seq(S) /\ Len([s EXCEPT ![i] = x]) = Len(s)
      /\ \A j \in 1..Len(s) : [s EXCEPT ![i] = x][j] = IF j = i THEN x ELSE s[j]
  BY <1>1, ExceptSeq
<1>3. IsList([s EXCEPT ![i] = x])
  BY <1>2, ListOf
<1> QED
  BY <1>2, <1>3 DEF Put

LEMMA SwapInv ==
  ASSUME EInv, NEW r \in Runs, NEW i \in 1..MaxLen, Swap(r, i)
  PROVE  EInv'
<1>1. /\ i \in 1..Len(rows[r]) - 1
      /\ Damage(r, [rows[r] EXCEPT ![i] = rows[r][i + 1], ![i + 1] = rows[r][i]])
      /\ IsList(rows[r]) /\ Len(rows[r]) \in Nat /\ Len(rows[r]) <= MaxLen
      /\ \A j \in 1..Len(rows[r]) : FromSealed(r, rows[r][j])
  BY ListFacts DEF Swap, EInv, RowsOK
<1>2. PICK half : half = Put(rows[r], i, rows[r][i + 1])
  OBVIOUS
<1>3. PICK recs : recs = Put(half, i + 1, rows[r][i])
  OBVIOUS
<1>4. i \in 1..Len(rows[r]) /\ i + 1 \in 1..Len(rows[r])
  BY <1>1
<1>5. /\ IsList(half) /\ Len(half) = Len(rows[r])
      /\ \A j \in 1..Len(rows[r]) : half[j] = IF j = i THEN rows[r][i + 1] ELSE rows[r][j]
  BY <1>1, <1>2, <1>4, PutFacts
<1>6. /\ IsList(recs) /\ Len(recs) = Len(half)
      /\ \A j \in 1..Len(half) : recs[j] = IF j = i + 1 THEN rows[r][i] ELSE half[j]
  BY <1>3, <1>4, <1>5, PutFacts
<1>7. \A j \in 1..Len(recs) : FromSealed(r, recs[j])
  BY <1>1, <1>4, <1>5, <1>6
<1>8. Damage(r, recs)
  BY <1>1, <1>2, <1>3 DEF Put
<1> QED
  BY <1>1, <1>5, <1>6, <1>7, <1>8, DamageKept

LEMMA AlterInv ==
  ASSUME EInv, NEW r \in Runs, NEW i, NEW again, Alter(r, i, again)
  PROVE  EInv'
<1>1. /\ i \in 1..Len(rows[r])
      /\ IsList(rows[r]) /\ Len(rows[r]) \in Nat /\ Len(rows[r]) <= MaxLen
      /\ \A j \in 1..Len(rows[r]) : FromSealed(r, rows[r][j])
  BY ListFacts DEF Alter, EInv, RowsOK
<1>2. PICK x : x = rows[r][i]
  OBVIOUS
<1>3. PICK doc : doc = [x.doc EXCEPT !.at = @ + 1]
  OBVIOUS
<1>4. PICK y : y = [x EXCEPT !.doc = doc, !.hash = IF again THEN Digest(doc) ELSE @]
  OBVIOUS
<1>5. Damage(r, [rows[r] EXCEPT ![i] = y])
  BY <1>2, <1>3, <1>4 DEF Alter
<1>6. FromSealed(r, y)
  <2>1. FromSealed(r, x)
    BY <1>1, <1>2
  <2>2. x = [doc |-> x.doc, hash |-> x.hash, sig |-> x.sig]
    BY <2>1 DEF FromSealed
  <2>3. y = [doc |-> y.doc, hash |-> y.hash, sig |-> y.sig] /\ y.sig = x.sig
    BY <1>4, <2>2
  <2> QED
    BY <2>1, <2>3 DEF FromSealed
<1>7. PICK recs : recs = Put(rows[r], i, y)
  OBVIOUS
<1>8. /\ IsList(recs) /\ Len(recs) = Len(rows[r])
      /\ \A j \in 1..Len(rows[r]) : recs[j] = IF j = i THEN y ELSE rows[r][j]
  BY <1>1, <1>7, PutFacts
<1>9. \A j \in 1..Len(recs) : FromSealed(r, recs[j])
  BY <1>1, <1>6, <1>8
<1> QED
  BY <1>1, <1>5, <1>7, <1>8, <1>9, DamageKept DEF Put

LEMMA BodyInv ==
  ASSUME EInv, NEW k \in DOMAIN bodies, NEW body \in {None, Spoiled}, DamageBody(k, body)
  PROVE  EInv'
<1>0. UNCHANGED <<disk, pc, identity, wanted, now, dtable, rows, sealed, overran>>
  BY DEF DamageBody
<1>1. damage' \in 1..MaxDamage
  BY EvidenceAssumption DEF EInv, ShapesOK, DamageBody
<1>2. \A q \in DOMAIN bodies' : bodies'[q] \in {q[2], Spoiled}
  <2>1. CASE body = None
    <3>1. bodies' = [q \in DOMAIN bodies \ {k} |-> bodies[q]]
      BY <2>1 DEF Restrict, DamageBody
    <3> QED
      BY <3>1 DEF EInv, ShapesOK
  <2>2. CASE body # None
    <3>1. bodies' = [bodies EXCEPT ![k] = Spoiled]
      BY <2>2 DEF DamageBody
    <3> QED
      BY <3>1 DEF EInv, ShapesOK
  <2> QED
    BY <2>1, <2>2
<1>3. ShapesOK'
  BY <1>0, <1>1, <1>2 DEF EInv, ShapesOK, disk
<1>4. IdentityOK' /\ DelegationsOK'
  BY <1>0 DEF EInv, IdentityOK, DelegationsOK, Known, Good, disk
<1>5. /\ DOMAIN sealed' = Runs /\ DOMAIN rows' = Runs
      /\ \A r \in Runs : SealedOK(r)' /\ RowsOK(r)'
  BY <1>0, <1>1, LedgerKept DEF disk
<1> QED
  BY <1>3, <1>4, <1>5 DEF EInv
-----------------------------------------------------------------------------
\* The invariant

LEMMA WriteInv ==
  ASSUME EInv, NEW r \in Runs, Write(r)
  PROVE  EInv'
<1>1. CASE StartRun(r)
  <2> DEFINE binding == [id |-> identity.delegation.doc.id, hash |-> identity.delegation.hash,
                         parent |-> None]
  <2>1. /\ pc = "up" /\ damage = 0 /\ sealed[r] = <<>>
        /\ SealOnto(r, "run_start", [Bare EXCEPT !.context = Policies], None, binding)
    BY <1>1 DEF StartRun
  <2> QED
    BY <2>1, SealInv
<1>2. CASE EndRun(r)
  BY <1>2, SealInv DEF EndRun, Resumable
<1>3. ASSUME NEW s \in Steps, AppendStep(r, s)
      PROVE  EInv'
  <2>1. pc = "up" /\ damage = 0 /\ Resumable(r) /\ SealOnto(r, s.kind, s.with, None, None)
    BY <1>3 DEF AppendStep, Resumable
  <2> QED
    BY <2>1, SealInv
<1>4. ASSUME NEW i \in 1..MaxLen, AppendAnchor(r, i)
      PROVE  EInv'
  <2> DEFINE over == [seq |-> i - 1, hash |-> sealed[r][i].hash, receipt |-> sealed[r][i].hash]
  <2>1. pc = "up" /\ damage = 0 /\ Resumable(r) /\ SealOnto(r, "anchor", Bare, over, None)
    BY <1>4 DEF AppendAnchor, Resumable
  <2> QED
    BY <2>1, SealInv
<1> QED
  BY <1>1, <1>2, <1>3, <1>4 DEF Write

LEMMA NextInv == EInv /\ [Next]_vars => EInv'
<1> SUFFICES ASSUME EInv, [Next]_vars
             PROVE  EInv'
  OBVIOUS
<1>1. CASE Load
  BY <1>1, PrincipalInv, AgentInv, DelegationInv, OpenInv DEF Load
<1>2. CASE BreakBody
  BY <1>2, BodyInv DEF BreakBody
<1>3. ASSUME NEW r \in Runs, Break(r)
      PROVE  EInv'
  BY <1>3, LoseInv, SwapInv, AlterInv DEF Break
<1> QED
  BY <1>1, <1>2, <1>3, StartInv, StopInv, TickInv, WriteInv, StutterInv DEF Next

THEOREM EvidenceInvariant == Spec => []EInv
BY InitInv, NextInv, PTL DEF Spec

\* Every variable keeps its type over any number of starts, cut off anywhere; two stored
\* delegations never share an id, and that of every run stays stored.
THEOREM EvidenceTypeOK == Spec => []TypeOK
<1>1. EInv => TypeOK
  <2> SUFFICES ASSUME EInv
               PROVE  TypeOK
    OBVIOUS
  <2>1. \A d, e \in dtable : d.doc.id = e.doc.id => d = e
    BY DEF EInv, DelegationsOK, Known
  <2>2. ASSUME NEW r \in Runs
        PROVE  /\ Len(rows[r]) <= MaxLen /\ Len(sealed[r]) <= MaxLen
               /\ sealed[r] # <<>> => \E d \in dtable : d.doc.id = sealed[r][1].doc.binding.id
    <3>1. SealedOK(r) /\ RowsOK(r)
      BY DEF EInv
    <3>2. \A d \in dtable : SealedUnder(r, d) => d.doc.id = sealed[r][1].doc.binding.id
      BY DEF SealedUnder
    <3> QED
      BY <3>1, <3>2 DEF RowsOK, SealedOK
  <2> QED
    BY <2>1, <2>2 DEF EInv, ShapesOK, TypeOK
<1> QED
  BY <1>1, EvidenceInvariant, PTL

\* Wherever a start was cut off, the keys that signed the stored runs are the keys of the
\* process that serves them (keystore.py:98-105, keystore.py:140).
THEOREM EvidenceKeysKept == Spec => []KeysKept
<1>1. EInv => KeysKept
  BY DEF EInv, IdentityOK, SealedOK, RecordSealed, KeysKept
<1> QED
  BY <1>1, EvidenceInvariant, PTL
-----------------------------------------------------------------------------
\* What verifies is what was sealed

\* The stored records of a run from the i-th on.
From(r, i) == SubSeq(rows[r], i, Len(rows[r]))

\* What is in the archive of a slice.
SliceIs(b, r, recs, omitted) ==
    LET doc == b.manifest.doc
    IN  /\ b = [manifest |-> b.manifest, countersig |-> b.countersig,
                delegations |-> b.delegations, runs |-> b.runs, bodies |-> b.bodies,
                receipts |-> b.receipts]
        /\ b.manifest = Seal(doc, "manifest", identity.agent)
        /\ b.countersig = Signature(identity.principal, "manifest", b.manifest.hash)
        /\ b.runs = [q \in {r} |-> recs]
        /\ b.delegations = DelegationOf(r)
        /\ b.bodies = Restrict(bodies, BodiesOf(recs, omitted))
        /\ b.receipts = ReceiptsOf(recs)
        /\ doc.files = Digest(FilesOf(b))
        /\ doc.exporter = identity.agent /\ doc.omitted = omitted
        /\ doc.principal = (CHOOSE d \in DelegationOf(r) : TRUE).doc.principal
        /\ doc.delegations = {d.doc.id : d \in DelegationOf(r)}
        /\ doc.entries = {RunEntry(recs)}

LEMMA SliceBundle ==
  ASSUME NEW r, NEW i, NEW omitted
  PROVE  SliceIs(Slice(r, i, omitted), r, From(r, i), omitted)
<1>0. PICK recs : recs = From(r, i)
  OBVIOUS
<1>1. PICK runs : runs = [q \in {r} |-> recs]
  OBVIOUS
<1>2. {RunEntry(runs[q]) : q \in DOMAIN runs} = {RunEntry(recs)}
  BY <1>1
<1>3. PICK held : held = Restrict(bodies, BodiesOf(recs, omitted))
  OBVIOUS
<1>4. PICK receipts : receipts = ReceiptsOf(recs)
  OBVIOUS
<1>5. PICK delegations : delegations = DelegationOf(r)
  OBVIOUS
<1>6. PICK b : b = Slice(r, i, omitted)
  OBVIOUS
<1>7. b = WriteBundle(r, delegations, runs, held, receipts, omitted, identity.agent,
                      identity.principal)
  BY <1>0, <1>1, <1>3, <1>4, <1>5, <1>6 DEF Slice, From
<1>8. PICK p : p = (CHOOSE d \in delegations : TRUE).doc.principal
  OBVIOUS
<1>9. PICK ids : ids = {d.doc.id : d \in delegations}
  OBVIOUS
<1>10. PICK content : content = [delegations |-> delegations, runs |-> runs, bodies |-> held,
                                 receipts |-> receipts]
  OBVIOUS
<1>11. PICK doc : doc = [id |-> r, exporter |-> identity.agent, principal |-> p,
                         delegations |-> ids, entries |-> {RunEntry(recs)},
                         files |-> Digest(content), omitted |-> omitted]
  OBVIOUS
<1>12. PICK m : m = Seal(doc, "manifest", identity.agent)
  OBVIOUS
<1>13. b = [manifest |-> m, countersig |-> Signature(identity.principal, "manifest", m.hash),
            delegations |-> delegations, runs |-> runs, bodies |-> held, receipts |-> receipts]
  BY <1>2, <1>7, <1>8, <1>9, <1>10, <1>11, <1>12, Zenon DEF WriteBundle
<1>14. m.doc = doc
  BY <1>12 DEF Seal
<1>15. FilesOf(b) = content
  BY <1>10, <1>13 DEF FilesOf
<1>16. /\ b.manifest = m /\ b.countersig = Signature(identity.principal, "manifest", m.hash)
       /\ b.delegations = delegations /\ b.runs = runs /\ b.bodies = held
       /\ b.receipts = receipts
       /\ b = [manifest |-> b.manifest, countersig |-> b.countersig,
               delegations |-> b.delegations, runs |-> b.runs, bodies |-> b.bodies,
               receipts |-> b.receipts]
  BY <1>13
<1>17. /\ doc.files = Digest(content) /\ doc.exporter = identity.agent
       /\ doc.omitted = omitted /\ doc.principal = p /\ doc.delegations = ids
       /\ doc.entries = {RunEntry(recs)}
  BY <1>11
<1> QED
  BY <1>0, <1>1, <1>3, <1>4, <1>5, <1>6, <1>8, <1>9, <1>12, <1>14, <1>15, <1>16, <1>17
     DEF SliceIs

\* The archive of a run as a whole holds the run's rows.
LEMMA BuiltBundle ==
  ASSUME EInv, NEW r \in Runs, NEW omitted \in BOOLEAN
  PROVE  LET b == BuildBundle(r, omitted)
         IN  /\ b = [manifest |-> b.manifest, countersig |-> b.countersig,
                     delegations |-> b.delegations, runs |-> b.runs, bodies |-> b.bodies,
                     receipts |-> b.receipts]
             /\ b.manifest.doc.files = Digest(FilesOf(b))
             /\ b.manifest.doc.omitted = omitted
             /\ b.manifest.doc.entries = {RunEntry(rows[r])}
             /\ b.runs = [q \in {r} |-> rows[r]]
             /\ b.delegations = DelegationOf(r)
<1>1. From(r, 1) = rows[r]
  BY SubSeqFull DEF EInv, RowsOK, IsList, From
<1>2. BuildBundle(r, omitted) = Slice(r, 1, omitted)
  BY DEF BuildBundle
<1>3. SliceIs(BuildBundle(r, omitted), r, rows[r], omitted)
  BY <1>1, <1>2, SliceBundle
<1> QED
  BY <1>3 DEF SliceIs

\* Whatever became of an archive, one that is read has the files that were written.
LEMMA ReadIsBuilt ==
  ASSUME EInv, NEW r \in Runs, NEW omitted \in BOOLEAN,
         NEW b \in Handed(BuildBundle(r, omitted), r), ReadBundle(b)
  PROVE  /\ b.manifest = BuildBundle(r, omitted).manifest
         /\ b.runs = [q \in {r} |-> rows[r]]
         /\ b.delegations = DelegationOf(r)
<1>1. PICK a : a = BuildBundle(r, omitted)
  OBVIOUS
<1>2. /\ a = [manifest |-> a.manifest, countersig |-> a.countersig,
              delegations |-> a.delegations, runs |-> a.runs, bodies |-> a.bodies,
              receipts |-> a.receipts]
      /\ a.manifest.doc.files = Digest(FilesOf(a))
      /\ a.runs = [q \in {r} |-> rows[r]]
      /\ a.delegations = DelegationOf(r)
  BY <1>1, BuiltBundle
<1>3. b.manifest = a.manifest
  <2>1. CASE b \in {a, [a EXCEPT !.countersig = None]}
    BY <1>2, <2>1
  <2>2. ASSUME NEW i \in DOMAIN a.runs[r], b = [a EXCEPT !.runs[r] = RemoveAt(@, i)]
        PROVE  b.manifest = a.manifest
    BY <1>2, <2>2
  <2>3. ASSUME NEW k \in DOMAIN a.bodies, b = [a EXCEPT !.bodies = Restrict(@, DOMAIN @ \ {k})]
        PROVE  b.manifest = a.manifest
    BY <1>2, <2>3
  <2>4. ASSUME NEW k \in DOMAIN a.bodies, b = [a EXCEPT !.bodies[k] = Spoiled]
        PROVE  b.manifest = a.manifest
    BY <1>2, <2>4
  <2> QED
    BY <1>1, <2>1, <2>2, <2>3, <2>4 DEF Handed
<1>4. Digest(FilesOf(b)) = Digest(FilesOf(a))
  BY <1>2, <1>3 DEF ReadBundle
<1>5. FilesOf(b) = FilesOf(a)
  BY <1>4 DEF Digest
<1>6. b.runs = a.runs /\ b.delegations = a.delegations
  BY <1>5 DEF FilesOf
<1> QED
  BY <1>1, <1>2, <1>3, <1>6

\* A row whose hash and signature are right is a record that was sealed.
LEMMA RowIsSealed ==
  ASSUME EInv, NEW r \in Runs, NEW i \in 1..Len(rows[r]), NEW key,
         CheckHash(rows[r][i]), CheckSignature(rows[r][i].sig, rows[r][i], "record", key)
  PROVE  \E j \in 1..Len(sealed[r]) : rows[r][i] = sealed[r][j]
<1>1. PICK x : x = rows[r][i]
  OBVIOUS
<1>2. x = [doc |-> x.doc, hash |-> x.hash, sig |-> x.sig]
  BY <1>1 DEF EInv, RowsOK, FromSealed
<1>3. PICK j \in 1..Len(sealed[r]) : x.sig = sealed[r][j].sig
  BY <1>1 DEF EInv, RowsOK, FromSealed
<1>4. PICK y : y = sealed[r][j]
  OBVIOUS
<1>5. y = Seal(y.doc, "record", y.doc.agent)
  BY <1>3, <1>4 DEF EInv, SealedOK, RecordSealed
<1>6. y.hash = Digest(y.doc) /\ y.sig = Signature(y.doc.agent, "record", y.hash)
  BY <1>5 DEF Seal
<1>7. x.hash = y.hash
  BY <1>1, <1>3, <1>4, <1>6 DEF CheckSignature, Signature
<1>8. Digest(x.doc) = Digest(y.doc)
  BY <1>1, <1>6, <1>7 DEF CheckHash
<1>9. x.doc = y.doc
  BY <1>8 DEF Digest
<1>10. x = y
  BY <1>2, <1>3, <1>4, <1>5, <1>7, <1>9 DEF Seal
<1> QED
  BY <1>1, <1>3, <1>4, <1>10

\* The records of a whole run that verifies are the first that were sealed on it.
LEMMA RunIsSealed ==
  ASSUME EInv, NEW r \in Runs, rows[r] # <<>>, DelegationOf(r) # {}, NEW D, NEW prev, NEW given,
         VerifyRun(rows[r], D, prev, given)
  PROVE  /\ Len(rows[r]) <= Len(sealed[r])
         /\ \A i \in 1..Len(rows[r]) : rows[r][i] = sealed[r][i]
<1>1. PICK d \in DelegationsFor(rows[r], D) :
        \A i \in 1..Len(rows[r]) : RecordOk(rows[r], i, d, prev, given)
  BY DEF VerifyRun
<1>2. Len(rows[r]) \in Nat \ {0} /\ Len(sealed[r]) \in Nat
  BY ListFacts DEF EInv, RowsOK, SealedOK
<1>3. ASSUME NEW i \in 1..Len(rows[r])
      PROVE  /\ \E j \in 1..Len(sealed[r]) : rows[r][i] = sealed[r][j]
             /\ rows[r][i].doc.seq = rows[r][1].doc.seq + i - 1
  <2>1. RecordOk(rows[r], i, d, prev, given)
    BY <1>1
  <2>2. /\ CheckHash(rows[r][i])
        /\ CheckSignature(rows[r][i].sig, rows[r][i], "record", d.doc.agent)
        /\ rows[r][i].doc.seq = rows[r][1].doc.seq + i - 1
    BY <2>1 DEF RecordOk
  <2> QED
    BY <2>2, RowIsSealed
<1>4. rows[r][1].doc.seq = 0
  <2>1. PICK j \in 1..Len(sealed[r]) : rows[r][1] = sealed[r][j]
    BY <1>2, <1>3
  <2>2. rows[r][1].doc.binding # None
    BY DEF DelegationOf
  <2>3. RecordSealed(r, j)
    BY DEF EInv, SealedOK
  <2>4. j = 1
    BY <1>2, <2>1, <2>2, <2>3 DEF RecordSealed
  <2> QED
    BY <2>1, <2>3, <2>4 DEF RecordSealed
<1>5. ASSUME NEW i \in 1..Len(rows[r])
      PROVE  i <= Len(sealed[r]) /\ rows[r][i] = sealed[r][i]
  <2>1. PICK j \in 1..Len(sealed[r]) : rows[r][i] = sealed[r][j]
    BY <1>3
  <2>2. RecordSealed(r, j)
    BY DEF EInv, SealedOK
  <2>3. rows[r][i].doc.seq = j - 1
    BY <2>1, <2>2 DEF RecordSealed
  <2>4. rows[r][i].doc.seq = 0 + i - 1
    BY <1>3, <1>4
  <2>5. i = j
    BY <1>2, <2>3, <2>4
  <2> QED
    BY <1>2, <2>1, <2>5
<1>6. Len(rows[r]) <= Len(sealed[r])
  BY <1>2, <1>5
<1> QED
  BY <1>5, <1>6

\* Whichever archive verifies, made from rows that were lost, swapped or altered or damaged
\* on its way, holds nothing but what was sealed, in its order and from the first record on,
\* the whole run where its manifest says so, and every body unless its manifest says that
\* they are left out (TRUST.md:74-78, SPEC.md:938-943).
THEOREM EvidenceVerifiedIsSealed == Spec => []VerifiedIsSealed
<1>1. ASSUME EInv, NEW r \in Runs, NEW omitted \in BOOLEAN, Exportable(r, omitted),
             NEW b \in Handed(BuildBundle(r, omitted), r), Accepted(b, {identity.principal})
      PROVE  /\ IsPrefix(b.runs[r], sealed[r])
             /\ \A e \in b.manifest.doc.entries : e.complete => b.runs[r] = sealed[r]
             /\ \A x \in ToSet(b.runs[r]) : Withheld(b, x) => b.manifest.doc.omitted
  <2>1. ReadBundle(b) /\ VerifyBundle(b, {identity.principal})
    BY <1>1 DEF Accepted
  <2>2. /\ b.manifest = BuildBundle(r, omitted).manifest
        /\ b.runs = [q \in {r} |-> rows[r]]
        /\ b.delegations = DelegationOf(r)
    BY <1>1, <2>1, ReadIsBuilt
  <2>3. b.runs[r] = rows[r]
    BY <2>2
  <2>4. b.manifest.doc.entries = {RunEntry(rows[r])} /\ b.manifest.doc.omitted = omitted
    BY <1>1, <2>2, BuiltBundle
  <2>5. PICK e : e = RunEntry(rows[r])
    OBVIOUS
  <2>6. EntryOk(b, e)
    BY <2>1, <2>4, <2>5 DEF VerifyBundle
  <2>7. rows[r] # <<>> /\ DelegationOf(r) # {}
    BY <1>1 DEF Exportable
  <2>8. e.complete => Complete(rows[r])
    BY <2>5 DEF RunEntry
  <2>9. PICK prev, given : /\ VerifyRun(b.runs[e.run], b.delegations, prev, given)
                           /\ given = IF b.manifest.doc.omitted THEN {} ELSE {b.bodies}
    BY <2>6 DEF EntryOk
  <2>10. e.run = r
    <3>1. {f.run : f \in b.manifest.doc.entries} = DOMAIN b.runs
      BY <2>1 DEF VerifyBundle, VerifyManifest
    <3> QED
      BY <2>2, <2>4, <2>5, <3>1
  <2>11. VerifyRun(rows[r], b.delegations, prev, given)
    BY <2>3, <2>9, <2>10
  <2>12. /\ Len(rows[r]) <= Len(sealed[r])
         /\ \A i \in 1..Len(rows[r]) : rows[r][i] = sealed[r][i]
    BY <1>1, <2>7, <2>11, RunIsSealed
  <2>13. /\ Len(rows[r]) \in Nat \ {0} /\ Len(sealed[r]) \in Nat
         /\ DOMAIN rows[r] = 1..Len(rows[r])
    BY <1>1, <2>7, ListFacts DEF EInv, RowsOK, SealedOK
  <2>14. IsPrefix(rows[r], sealed[r])
    <3> DEFINE S == ToSet(sealed[r])
               n == Len(rows[r])
    <3>1. sealed[r] \in Seq(S) /\ rows[r] \in Seq(ToSet(rows[r]))
      BY <1>1 DEF EInv, SealedOK, RowsOK, IsList
    <3>2. \A i \in 1..n : sealed[r][i] \in S
      BY <2>12, <2>13, <3>1, ElementOfSeq
    <3> HIDE DEF S
    <3>3. /\ SubSeq(sealed[r], 1, n) \in Seq(S) /\ Len(SubSeq(sealed[r], 1, n)) = n
          /\ \A i \in 1..n : SubSeq(sealed[r], 1, n)[i] = sealed[r][i]
      BY <2>13, <3>2, SubSeqProperties
    <3>4. /\ SubSeq(rows[r], 1, n) \in Seq(S) /\ Len(SubSeq(rows[r], 1, n)) = n
          /\ \A i \in 1..n : SubSeq(rows[r], 1, n)[i] = rows[r][i]
      <4>1. \A i \in 1..n : rows[r][i] \in S
        BY <2>12, <3>2
      <4> QED
        BY <2>13, <4>1, SubSeqProperties
    <3>5. SubSeq(rows[r], 1, n) = SubSeq(sealed[r], 1, n)
      BY <2>12, <3>3, <3>4, SeqEqual
    <3> QED
      BY <2>12, <3>5 DEF IsPrefix
  <2>15. Complete(rows[r]) => rows[r] = sealed[r]
    <3> SUFFICES ASSUME Complete(rows[r])
                 PROVE  rows[r] = sealed[r]
      OBVIOUS
    <3>1. PICK n : n = Len(rows[r])
      OBVIOUS
    <3>2. sealed[r][n].doc.kind = "run_end" /\ n \in 1..Len(sealed[r])
      BY <2>12, <2>13, <3>1 DEF Complete
    <3>3. RecordSealed(r, n)
      BY <1>1, <3>2 DEF EInv, SealedOK
    <3>4. Len(sealed[r]) = n
      BY <3>2, <3>3 DEF RecordSealed
    <3>5. sealed[r] \in Seq(ToSet(sealed[r])) /\ rows[r] \in Seq(ToSet(rows[r]))
      BY <1>1 DEF EInv, SealedOK, RowsOK, IsList
    <3>6. /\ sealed[r] \in Seq(ToSet(sealed[r]) \cup ToSet(rows[r]))
          /\ rows[r] \in Seq(ToSet(sealed[r]) \cup ToSet(rows[r]))
      BY <3>5, SeqMonotonic
    <3> QED
      BY <2>12, <3>1, <3>4, <3>6, SeqEqual
  <2>16. ASSUME NEW x \in ToSet(rows[r]), Withheld(b, x)
         PROVE  b.manifest.doc.omitted
    <3> SUFFICES ASSUME ~b.manifest.doc.omitted
                 PROVE  FALSE
      OBVIOUS
    <3>1. given = {b.bodies}
      BY <2>9
    <3>2. PICK i \in 1..Len(rows[r]) : x = rows[r][i]
      BY <2>13 DEF ToSet
    <3>3. \E d : RecordOk(rows[r], i, d, prev, given)
      BY <2>11 DEF VerifyRun
    <3>4. PayloadOk(x, given)
      BY <3>2, <3>3 DEF RecordOk
    <3>5. PICK k \in Named(<<x>>) : k \notin DOMAIN b.bodies \/ Digest(b.bodies[k]) # k
      BY <2>16 DEF Withheld
    <3>6. \/ k = x.doc.with.payload["request"]
          \/ k = x.doc.with.payload["response"]
      BY <3>5 DEF Named, ToSet
    <3>7. k # None
      BY <3>5 DEF Named
    <3> QED
      BY <3>1, <3>4, <3>5, <3>6, <3>7 DEF PayloadOk
  <2> QED
    BY <2>3, <2>4, <2>5, <2>8, <2>14, <2>15, <2>16
<1>2. EInv => VerifiedIsSealed
  BY <1>1 DEF VerifiedIsSealed
<1> QED
  BY <1>2, EvidenceInvariant, PTL
-----------------------------------------------------------------------------
\* What nobody damaged verifies: the steps that are sealed

\* The record that is sealed next is what its place in the run asks of it.
LEMMA SealSteps ==
  ASSUME EInv, StepsOK, NEW r \in Runs, NEW kind, NEW with, NEW over, NEW binding,
         SealOnto(r, kind, with, over, binding),
         IF sealed[r] = <<>> THEN kind = "run_start" /\ with = [Bare EXCEPT !.context = Policies]
                             ELSE kind # "run_start" /\ with.context = None,
         with.policy \in {None, Policies}, ReceiptOk([doc |-> [with |-> with]]),
         kind = "anchor" =>
             \E j \in 1..Len(sealed[r]) : over = [seq |-> j - 1, hash |-> sealed[r][j].hash,
                                                  receipt |-> sealed[r][j].hash]
  PROVE  StepsOK'
<1>1. IsList(sealed[r]) /\ DOMAIN sealed = Runs
  BY DEF EInv, SealedOK
<1>2. PICK n \in Nat : n = Len(sealed[r]) /\ (n = 0 <=> sealed[r] = <<>>)
  BY <1>1, ListFacts
<1>3. PICK x : x = Seal(NextDoc(r, kind, with, over, binding), "record", identity.agent)
  OBVIOUS
<1>4. x.doc.kind = kind /\ x.doc.with = with /\ x.doc.over = over
  BY <1>3 DEF NextDoc, Seal
<1>5. sealed' = [sealed EXCEPT ![r] = Append(sealed[r], x)]
  BY <1>3, SealedAppend
<1>6. /\ Len(sealed'[r]) = n + 1 /\ sealed'[r][n + 1] = x
      /\ \A i \in 1..n : sealed'[r][i] = sealed[r][i]
      /\ \A s \in Runs : s # r => sealed'[s] = sealed[s]
  BY <1>1, <1>2, <1>5, AppendFacts
<1>7. ASSUME NEW i \in 1..n + 1
      PROVE  StepOK(r, i)'
  <2>1. CASE i = n + 1
    <3>1. sealed'[r][i] = x /\ i - 1 = n /\ (i = 1 <=> n = 0)
      BY <1>6, <2>1
    <3>2. kind = "anchor" =>
              \E j \in 1..i - 1 : over = [seq |-> j - 1, hash |-> sealed'[r][j].hash,
                                          receipt |-> sealed'[r][j].hash]
      BY <1>2, <1>6, <3>1
    <3>3. ReceiptOk(x)
      BY <1>4 DEF ReceiptOk
    <3>4. /\ i = 1 => kind = "run_start" /\ with = [Bare EXCEPT !.context = Policies]
          /\ i > 1 => kind # "run_start" /\ with.context = None
      BY <1>2, <3>1
    <3> QED
      BY <1>4, <3>1, <3>2, <3>3, <3>4 DEF StepOK
  <2>2. CASE i # n + 1
    <3>1. i \in 1..n
      BY <2>2
    <3>2. StepOK(r, i)
      BY <1>2, <3>1 DEF StepsOK
    <3>3. \A j \in 1..i : sealed'[r][j] = sealed[r][j]
      BY <1>6, <3>1
    <3>4. sealed'[r][i] = sealed[r][i] /\ \A j \in 1..i - 1 : sealed'[r][j] = sealed[r][j]
      BY <3>1, <3>3
    <3> QED
      BY <3>2, <3>4 DEF StepOK
  <2> QED
    BY <2>1, <2>2
<1>8. ASSUME NEW s \in Runs, s # r, NEW i \in 1..Len(sealed'[s])
      PROVE  StepOK(s, i)'
  <2>1. sealed'[s] = sealed[s]
    BY <1>6, <1>8
  <2>2. StepOK(s, i)
    BY <1>8, <2>1 DEF StepsOK
  <2> QED
    BY <2>1, <2>2 DEF StepOK
<1> QED
  BY <1>6, <1>7, <1>8 DEF StepsOK

LEMMA BareSteps ==
  /\ Bare.context = None /\ Bare.policy = None /\ Bare.receipt = None
  /\ ReceiptOk([doc |-> [with |-> Bare]])
  /\ [Bare EXCEPT !.context = Policies].policy = None
  /\ [Bare EXCEPT !.context = Policies].context = Policies
  /\ ReceiptOk([doc |-> [with |-> [Bare EXCEPT !.context = Policies]]])
BY DEF Bare, ReceiptOk

LEMMA StepsInv ==
  ASSUME SoundSteps, EInv, StepsOK, [Next]_vars
  PROVE  StepsOK'
<1>1. ASSUME NEW r \in Runs, StartRun(r)
      PROVE  StepsOK'
  <2>1. /\ sealed[r] = <<>>
        /\ \E binding : SealOnto(r, "run_start", [Bare EXCEPT !.context = Policies], None, binding)
    BY <1>1 DEF StartRun
  <2> QED
    BY <2>1, SealSteps, BareSteps
<1>2. ASSUME NEW r \in Runs, EndRun(r)
      PROVE  StepsOK'
  BY <1>2, SealSteps, BareSteps DEF EndRun, Resumable
<1>3. ASSUME NEW r \in Runs, NEW s \in Steps, AppendStep(r, s)
      PROVE  StepsOK'
  <2>1. sealed[r] # <<>> /\ SealOnto(r, s.kind, s.with, None, None)
    BY <1>3 DEF AppendStep, Resumable
  <2>2. /\ s.kind \notin {"run_start", "run_end", "anchor"}
        /\ s.with.context = None /\ s.with.policy \in {None, Policies}
        /\ ReceiptOk([doc |-> [with |-> s.with]])
    BY DEF SoundSteps, ReceiptOk
  <2> QED
    BY <2>1, <2>2, SealSteps
<1>4. ASSUME NEW r \in Runs, NEW i \in 1..MaxLen, AppendAnchor(r, i)
      PROVE  StepsOK'
  <2> DEFINE over == [seq |-> i - 1, hash |-> sealed[r][i].hash, receipt |-> sealed[r][i].hash]
  <2>1. /\ sealed[r] # <<>> /\ i \in 1..Len(sealed[r])
        /\ SealOnto(r, "anchor", Bare, over, None)
    BY <1>4 DEF AppendAnchor, Resumable
  <2> QED
    BY <2>1, SealSteps, BareSteps
<1>5. ASSUME UNCHANGED sealed
      PROVE  StepsOK'
  BY <1>5, StepsKept
<1>6. CASE Load
  BY <1>5, <1>6 DEF Load, LoadKeys, LoadDelegation, OpenLive
<1>7. CASE BreakBody
  BY <1>5, <1>7 DEF BreakBody, DamageBody
<1>8. ASSUME NEW r \in Runs, Break(r)
      PROVE  StepsOK'
  BY <1>5, <1>8 DEF Break, Lose, Swap, Alter, Damage
<1>9. CASE Start \/ Stop \/ Tick \/ UNCHANGED vars
  BY <1>5, <1>9 DEF Start, Stop, Tick, vars
<1>10. ASSUME NEW r \in Runs, Write(r)
       PROVE  StepsOK'
  BY <1>1, <1>2, <1>3, <1>4, <1>10 DEF Write
<1> QED
  BY <1>6, <1>7, <1>8, <1>9, <1>10 DEF Next
-----------------------------------------------------------------------------
\* What nobody damaged verifies: the archive

\* A run's delegation is the one it was sealed under.
LEMMA OneDelegation ==
  ASSUME EInv, NEW r \in Runs, damage = 0, ~overran, rows[r] # <<>>, DelegationOf(r) # {}
  PROVE  \E d \in dtable :
            /\ DelegationOf(r) = {d} /\ Good(d)
            /\ sealed[r][1].doc.binding = [id |-> d.doc.id, hash |-> d.hash, parent |-> None]
            /\ sealed[r][1].doc.binding # None
            /\ \A i \in 1..Len(sealed[r]) : Covers(d, sealed[r][i].doc.at)
<1>1. rows[r] = sealed[r]
  BY DEF EInv, RowsOK
<1>2. PICK d \in dtable : SealedUnder(r, d)
  BY <1>1 DEF EInv, SealedOK
<1>3. d \in Known /\ dtable \subseteq Known
  BY DEF Known
<1>4. /\ sealed[r][1].doc.binding = [id |-> d.doc.id, hash |-> d.hash, parent |-> None]
      /\ \A i \in 1..Len(sealed[r]) : Covers(d, sealed[r][i].doc.at)
  BY <1>2 DEF SealedUnder
<1>5. sealed[r][1].doc.binding # None /\ sealed[r][1].doc.binding.id = d.doc.id
  BY <1>1, <1>4 DEF DelegationOf
<1>6. \A e \in DelegationOf(r) : e = d
  BY <1>1, <1>3, <1>5 DEF DelegationOf, EInv, DelegationsOK
<1>7. DelegationOf(r) = {d}
  BY <1>6
<1> QED
  BY <1>3, <1>4, <1>5, <1>7 DEF EInv, DelegationsOK

\* The records from the i-th on.
LEMMA SliceFacts ==
  ASSUME EInv, NEW r \in Runs, damage = 0, NEW i \in 1..Len(rows[r])
  PROVE  /\ rows[r] = sealed[r] /\ Len(sealed[r]) \in Nat
         /\ Len(From(r, i)) = Len(sealed[r]) - i + 1 /\ From(r, i) # <<>>
         /\ DOMAIN From(r, i) = 1..Len(From(r, i))
         /\ \A k \in 1..Len(From(r, i)) : /\ k + i - 1 \in 1..Len(sealed[r])
                                          /\ From(r, i)[k] = sealed[r][k + i - 1]
<1>0. PICK recs : recs = From(r, i)
  OBVIOUS
<1>1. rows[r] = sealed[r] /\ IsList(rows[r])
  BY DEF EInv, RowsOK
<1>2. PICK n \in Nat : n = Len(rows[r])
  BY <1>1, ListFacts
<1>3. \A k \in i..n : rows[r][k] \in ToSet(rows[r])
  BY <1>1, <1>2, ListFacts DEF ToSet
<1>4. /\ recs \in Seq(ToSet(rows[r]))
      /\ Len(recs) = (IF i <= n THEN n - i + 1 ELSE 0)
      /\ \A k \in 1..n - i + 1 : recs[k] = rows[r][i + k - 1]
  BY <1>0, <1>2, <1>3, SubSeqProperties DEF From
<1>5. IsList(recs)
  BY <1>4, ListOf
<1>6. Len(recs) = n - i + 1 /\ Len(recs) # 0
  BY <1>2, <1>4
<1>7. recs # <<>> /\ DOMAIN recs = 1..Len(recs)
  BY <1>5, <1>6, ListFacts
<1>8. \A k \in 1..Len(recs) : k + i - 1 \in 1..n /\ i + k - 1 = k + i - 1
  BY <1>2, <1>6
<1> QED
  BY <1>0, <1>1, <1>2, <1>4, <1>6, <1>7, <1>8

\* Every record of the slice passes every check of the verifier.
LEMMA GenuineRecord ==
  ASSUME NoneApart, EInv, StepsOK, NEW r \in Runs, damage = 0, ~overran,
         NEW omitted \in BOOLEAN, Exportable(r, omitted),
         NEW i \in 1..Len(rows[r]), HoldsAnchored(rows[r], i),
         NEW recs, recs = From(r, i), NEW d \in DelegationOf(r), NEW k \in 1..Len(recs),
         NEW prev, prev = IF recs[1].doc.seq > 0 THEN recs[1].doc.prev ELSE ZeroHash,
         NEW given, given = IF omitted THEN {}
                            ELSE {Restrict(bodies, BodiesOf(recs, omitted))}
  PROVE  RecordOk(recs, k, d, prev, given)
<1>0. /\ rows[r] = sealed[r] /\ Len(sealed[r]) \in Nat
      /\ Len(recs) = Len(sealed[r]) - i + 1 /\ recs # <<>>
      /\ DOMAIN recs = 1..Len(recs)
      /\ \A m \in 1..Len(recs) : /\ m + i - 1 \in 1..Len(sealed[r])
                                 /\ recs[m] = sealed[r][m + i - 1]
  BY SliceFacts
<1>1. PICK n \in Nat : /\ n = Len(sealed[r]) /\ n = Len(rows[r]) /\ Len(recs) = n - i + 1
                       /\ i \in 1..n /\ k \in 1..n - i + 1
  BY <1>0
<1>2. /\ Good(d) /\ sealed[r][1].doc.binding # None
      /\ sealed[r][1].doc.binding = [id |-> d.doc.id, hash |-> d.hash, parent |-> None]
      /\ \A j \in 1..Len(sealed[r]) : Covers(d, sealed[r][j].doc.at)
  BY OneDelegation DEF Exportable
<1>3. PICK j \in 1..Len(sealed[r]) : j = k + i - 1
  BY <1>0
<1>4. PICK x : x = recs[k]
  OBVIOUS
<1>5. x = sealed[r][j] /\ RecordSealed(r, j) /\ StepOK(r, j)
  BY <1>0, <1>3, <1>4 DEF EInv, SealedOK, StepsOK
<1>6. 1 \in 1..Len(recs) /\ recs[1] = sealed[r][i] /\ RecordSealed(r, i) /\ StepOK(r, i)
  <2>1. 1 \in 1..Len(recs) /\ 1 + i - 1 = i
    BY <1>1
  <2>2. i \in 1..Len(sealed[r]) /\ recs[1] = sealed[r][i]
    BY <1>0, <2>1
  <2> QED
    BY <2>1, <2>2 DEF EInv, SealedOK, StepsOK
<1>7. /\ x.doc.run = r /\ recs[1].doc.run = r
      /\ x.doc.seq = j - 1 /\ recs[1].doc.seq = i - 1 /\ x.doc.id = <<r, j - 1>>
  BY <1>5, <1>6 DEF RecordSealed
<1>8. SchemaOk(x)
  <2>1. (x.doc.seq = 0) <=> (j = 1)
    BY <1>7
  <2>2. (x.doc.seq = 0) <=> (x.doc.kind = "run_start")
    BY <1>5, <2>1 DEF StepOK
  <2>3. j = 1 => x.doc.prev = ZeroHash /\ x.doc.binding # None
    BY <1>2, <1>5 DEF RecordSealed
  <2>4. x.doc.kind = "anchor" => x.doc.over # None
    BY <1>5 DEF StepOK, NoneApart
  <2> QED
    BY <2>1, <2>2, <2>3, <2>4 DEF SchemaOk
<1>9. x.doc.seq = recs[1].doc.seq + k - 1
  BY <1>3, <1>7
<1>10. ASSUME NEW m \in 1..k - 1
       PROVE  recs[m].doc.id # x.doc.id /\ recs[m].doc.kind # "run_end"
  <2>0. m \in 1..Len(recs)
    BY <1>1
  <2>1. PICK q \in 1..Len(sealed[r]) : q = m + i - 1
    BY <1>0, <2>0
  <2>2. recs[m] = sealed[r][q] /\ RecordSealed(r, q)
    BY <1>0, <2>0, <2>1 DEF EInv, SealedOK
  <2>3. q < j /\ q - 1 # j - 1
    BY <1>3, <2>1
  <2>4. recs[m].doc.id = <<r, q - 1>>
    BY <2>2 DEF RecordSealed
  <2>5. recs[m].doc.id # x.doc.id
    BY <1>7, <2>3, <2>4
  <2>6. q # Len(sealed[r])
    BY <1>1, <2>3
  <2>7. recs[m].doc.kind # "run_end"
    BY <2>2, <2>6 DEF RecordSealed
  <2> QED
    BY <2>5, <2>7
<1>11. x.doc.prev = IF k = 1 THEN prev ELSE recs[k - 1].hash
  <2>1. CASE k = 1
    <3>1. x = recs[1] /\ j = i
      BY <1>3, <1>4, <2>1
    <3>2. i = 1 => x.doc.prev = ZeroHash
      BY <1>6, <3>1 DEF RecordSealed
    <3> QED
      BY <1>7, <2>1, <3>1, <3>2
  <2>2. CASE k # 1
    <3>0. k \in Int /\ k > 1 /\ i \in Int /\ i >= 1 /\ k <= Len(recs) /\ Len(recs) \in Int
      BY <1>1, <2>2
    <3>1. k - 1 \in 1..Len(recs) /\ (k - 1) + i - 1 = j - 1 /\ j # 1
      BY <1>3, <3>0
    <3>2. recs[k - 1] = sealed[r][j - 1]
      BY <1>0, <3>1
    <3> QED
      BY <1>5, <2>2, <3>1, <3>2 DEF RecordSealed
  <2> QED
    BY <2>1, <2>2
<1>12. /\ CheckHash(x) /\ x.doc.agent = d.doc.agent /\ x.doc.principal = d.doc.principal
       /\ CheckSignature(x.sig, x, "record", d.doc.agent)
  <2>1. x = Seal(x.doc, "record", x.doc.agent) /\ x.doc.agent = d.doc.agent
        /\ x.doc.principal = d.doc.principal
    BY <1>2, <1>5 DEF RecordSealed, Good
  <2> QED
    BY <2>1 DEF Seal, CheckHash, CheckSignature
<1>13. Covers(d, x.doc.at)
  BY <1>2, <1>5
<1>14. PayloadOk(x, given)
  <2> SUFFICES ASSUME ~omitted, NEW side \in {"request", "response"},
                      NEW key, key = x.doc.with.payload[side], key # None,
                      NEW held, held = Restrict(bodies, Named(recs))
               PROVE  key \in DOMAIN held /\ Digest(held[key]) = key
    BY DEF PayloadOk, BodiesOf
  <2>1. key \in Named(recs)
    <3>1. x \in ToSet(recs)
      BY <1>0, <1>4 DEF ToSet
    <3>2. key \in {x.doc.with.payload.request, x.doc.with.payload.response}
      OBVIOUS
    <3> QED
      BY <3>1, <3>2 DEF Named
  <2>2. x \in ToSet(rows[r])
    <3>1. DOMAIN rows[r] = 1..Len(rows[r])
      BY ListFacts DEF EInv, RowsOK
    <3> QED
      BY <1>0, <1>5, <3>1 DEF ToSet
  <2>3. key \in Named(rows[r])
    <3>1. key \in {x.doc.with.payload.request, x.doc.with.payload.response}
      OBVIOUS
    <3> QED
      BY <2>2, <3>1 DEF Named
  <2>4. /\ key \in DOMAIN Restrict(bodies, Named(rows[r]))
        /\ Restrict(bodies, Named(rows[r]))[key] = bodies[key]
    BY <2>3 DEF Restrict
  <2>5. Digest(bodies[key]) = key
    BY <2>4 DEF Exportable, BodiesOf, Writable
  <2> QED
    BY <2>1, <2>5 DEF Restrict
<1>15. x.doc.kind = "anchor" => AnchorOk(recs, k)
  <2> SUFFICES ASSUME x.doc.kind = "anchor"
               PROVE  AnchorOk(recs, k)
    OBVIOUS
  <2>1. PICK q \in 1..j - 1 : x.doc.over = [seq |-> q - 1, hash |-> sealed[r][q].hash,
                                            receipt |-> sealed[r][q].hash]
    BY <1>5 DEF StepOK
  <2>2. x.doc.over.seq >= i - 1
    <3>1. j \in i..Len(rows[r])
      BY <1>1, <1>3
    <3> QED
      BY <1>0, <1>5, <3>1 DEF HoldsAnchored
  <2>3. PICK m : m = q - 1 - (i - 1) + 1
    OBVIOUS
  <2>4. m \in 1..Len(recs) /\ m + i - 1 = q /\ q - 1 < j - 1
    BY <1>1, <1>3, <2>1, <2>2, <2>3
  <2>5. recs[m].hash = sealed[r][q].hash
    BY <1>0, <2>4
  <2>6. /\ recs[k].doc.over.seq - recs[1].doc.seq + 1 = m
        /\ recs[k].doc.over.seq < recs[k].doc.seq
        /\ recs[k].doc.over.hash = sealed[r][q].hash
        /\ recs[k].doc.over.receipt = recs[k].doc.over.hash
    BY <1>4, <1>7, <2>1, <2>3, <2>4
  <2> QED
    BY <2>4, <2>5, <2>6 DEF AnchorOk
<1>16. ContextOk(recs, k)
  <2>1. x.doc.with.context # None => x.doc.kind = "run_start"
    BY <1>5 DEF StepOK
  <2>2. recs[1].doc.with.context \in {None, Policies}
    <3>1. CASE i = 1
      BY <1>6, <3>1, BareSteps DEF StepOK
    <3>2. CASE i # 1
      <4>1. i > 1
        BY <1>1, <3>2
      <4> QED
        BY <1>6, <4>1 DEF StepOK
    <3> QED
      BY <3>1, <3>2
  <2>3. x.doc.with.policy \in {None, Policies}
    BY <1>5 DEF StepOK
  <2> QED
    BY <1>4, <2>1, <2>2, <2>3 DEF ContextOk
<1>17. ReceiptOk(x)
  BY <1>5 DEF StepOK
<1> QED
  BY <1>4, <1>7, <1>8, <1>9, <1>10, <1>11, <1>12, <1>13, <1>14, <1>15, <1>16, <1>17 DEF RecordOk

LEMMA GenuineSlice ==
  ASSUME NoneApart, EInv, StepsOK, NEW r \in Runs, damage = 0, ~overran,
         NEW omitted \in BOOLEAN, Exportable(r, omitted),
         NEW i \in 1..Len(rows[r]), HoldsAnchored(rows[r], i),
         NEW b, b = Slice(r, i, omitted), Fits(b)
  PROVE  Accepted(b, {identity.principal})
<1>1. PICK recs : recs = From(r, i)
  OBVIOUS
<1>2. SliceIs(b, r, recs, omitted)
  BY <1>1, SliceBundle
<1>3. /\ rows[r] = sealed[r] /\ Len(sealed[r]) \in Nat
      /\ Len(recs) = Len(sealed[r]) - i + 1 /\ recs # <<>>
      /\ DOMAIN recs = 1..Len(recs)
      /\ \A k \in 1..Len(recs) : /\ k + i - 1 \in 1..Len(sealed[r])
                                 /\ recs[k] = sealed[r][k + i - 1]
  BY <1>1, SliceFacts
<1>4. PICK d \in dtable :
        /\ DelegationOf(r) = {d} /\ Good(d)
        /\ sealed[r][1].doc.binding = [id |-> d.doc.id, hash |-> d.hash, parent |-> None]
  BY OneDelegation DEF Exportable
<1>5. /\ b.runs = [q \in {r} |-> recs] /\ b.delegations = {d}
      /\ b.manifest.doc.entries = {RunEntry(recs)} /\ b.manifest.doc.omitted = omitted
      /\ b.bodies = Restrict(bodies, BodiesOf(recs, omitted))
      /\ b.manifest.doc.files = Digest(FilesOf(b))
  BY <1>2, <1>4 DEF SliceIs
<1>6. /\ DOMAIN b.runs = {r} /\ b.runs[r] = recs
  BY <1>5
<1>7. \A k \in 1..Len(recs) : recs[k].doc.run = r
  <2>1. \A j \in 1..Len(sealed[r]) : sealed[r][j].doc.run = r
    BY DEF EInv, SealedOK, RecordSealed
  <2> QED
    BY <1>3, <2>1
<1>8. 1 \in 1..Len(recs) /\ Len(recs) \in 1..Len(recs)
  BY <1>3
<1>9. RecordSealed(r, i) /\ StepOK(r, i) /\ recs[1] = sealed[r][i]
  <2>1. 1 + i - 1 = i
    OBVIOUS
  <2> QED
    BY <1>3, <1>8, <2>1 DEF EInv, SealedOK, StepsOK
<1>10. recs[1].doc.seq = i - 1
  BY <1>9 DEF RecordSealed
<1>11. Writable({d}, Restrict(bodies, BodiesOf(rows[r], omitted)), omitted)
  BY <1>4 DEF Exportable
<1>12. ReadBundle(b)
  <2>1. EdgesAre(recs, r)
    BY <1>7, <1>8 DEF EdgesAre
  <2>2. ASSUME NEW k \in DOMAIN b.bodies
        PROVE  PayloadKeyOk(k, b.bodies[k])
    <3>1. k \in BodiesOf(recs, omitted) /\ b.bodies[k] = bodies[k]
      BY <1>5, <2>2 DEF Restrict
    <3>2. ~omitted /\ k \in Named(recs)
      BY <3>1 DEF BodiesOf
    <3>3. Named(recs) \subseteq Named(rows[r])
      <4>1. ToSet(recs) \subseteq ToSet(rows[r])
        <5>1. DOMAIN rows[r] = 1..Len(rows[r])
          BY ListFacts DEF EInv, RowsOK
        <5> QED
          BY <1>3, <5>1 DEF ToSet
      <4> QED
        BY <4>1 DEF Named
    <3>4. k \in BodiesOf(rows[r], omitted)
      BY <3>2, <3>3 DEF BodiesOf
    <3>5. Digest(bodies[k]) = k
      BY <1>11, <3>4 DEF Writable, Restrict
    <3> QED
      BY <3>1, <3>5 DEF PayloadKeyOk
  <2> QED
    BY <1>5, <1>6, <2>1, <2>2 DEF ReadBundle
<1>13. identity.principal = files.principal /\ identity.agent = files.agent
  BY DEF Exportable, EInv, IdentityOK
<1>14. VerifyManifest(b, {identity.principal})
  <2>1. (CHOOSE e \in DelegationOf(r) : TRUE) = d
    BY <1>4
  <2>2. PICK m : m = b.manifest
    OBVIOUS
  <2>3. /\ m = Seal(m.doc, "manifest", identity.agent)
        /\ b.countersig = Signature(identity.principal, "manifest", m.hash)
        /\ m.doc.exporter = identity.agent
        /\ m.doc.principal = (CHOOSE e \in DelegationOf(r) : TRUE).doc.principal
        /\ m.doc.delegations = {e.doc.id : e \in DelegationOf(r)}
    BY <1>2, <2>2 DEF SliceIs
  <2>4. CheckHash(m) /\ CheckSignature(m.sig, m, "manifest", identity.agent)
    BY <2>3 DEF Seal, CheckHash, CheckSignature
  <2>5. m.doc.principal = identity.principal /\ d.doc.principal = identity.principal
        /\ d.doc.agent = identity.agent /\ VerifyDelegation(d)
    BY <1>4, <1>13, <2>1, <2>3 DEF Good
  <2>6. CheckSignature(b.countersig, m, "manifest", d.doc.principal)
    BY <2>3, <2>5 DEF CheckSignature
  <2>7. m.doc.delegations = {e.doc.id : e \in b.delegations}
    BY <1>4, <1>5, <2>3
  <2>8. {e.run : e \in m.doc.entries} = DOMAIN b.runs
    <3>1. RunEntry(recs).run = r
      BY <1>7, <1>8 DEF RunEntry
    <3> QED
      BY <1>5, <1>6, <2>2, <3>1
  <2>9. m.doc.omitted => b.bodies = <<>>
    BY <1>5, <1>11, <2>2 DEF Writable, BodiesOf
  <2> QED
    BY <1>5, <2>2, <2>3, <2>4, <2>5, <2>6, <2>7, <2>8, <2>9 DEF VerifyManifest
<1>15. EntryOk(b, RunEntry(recs))
  <2>1. PICK e : e = RunEntry(recs)
    OBVIOUS
  <2>2. /\ e.run = r /\ e.count = Len(recs) /\ e.first_seq = recs[1].doc.seq
        /\ e.first_hash = (IF recs[1].doc.seq > 0 THEN recs[1].doc.prev ELSE ZeroHash)
        /\ e.last_hash = recs[Len(recs)].hash /\ e.complete = Complete(recs)
    BY <1>7, <1>8, <2>1 DEF RunEntry
  <2>3. PICK prev : prev = IF recs[1].doc.seq > 0 THEN recs[1].doc.prev ELSE ZeroHash
    OBVIOUS
  <2>4. prev = IF e.first_seq > 0 THEN e.first_hash ELSE ZeroHash
    BY <2>2, <2>3
  <2>5. PICK given : given = IF omitted THEN {} ELSE {b.bodies}
    OBVIOUS
  <2>6. given = IF omitted THEN {} ELSE {Restrict(bodies, BodiesOf(recs, omitted))}
    BY <1>5, <2>5
  <2>7. ASSUME NEW k \in 1..Len(recs)
        PROVE  RecordOk(recs, k, d, prev, given)
    BY <1>1, <1>4, <2>3, <2>6, GenuineRecord
  <2>8. d \in DelegationsFor(recs, b.delegations)
    <3>1. CASE i = 1
      BY <1>4, <1>5, <1>9, <3>1 DEF DelegationsFor, RecordSealed
    <3>2. CASE i # 1
      <4>1. recs[1].doc.seq # 0 /\ recs[1].doc.agent = d.doc.agent
        BY <1>4, <1>9, <1>10, <3>2 DEF RecordSealed, Good
      <4> QED
        BY <1>5, <4>1 DEF DelegationsFor
    <3> QED
      BY <3>1, <3>2
  <2>9. SchemaOk(recs[1])
    BY <1>8, <2>7 DEF RecordOk
  <2>10. recs[1].doc.seq = 0 => prev = ZeroHash
    BY <2>3
  <2>11. VerifyRun(recs, b.delegations, prev, given)
    BY <1>3, <1>4, <2>7, <2>8, <2>9, <2>10 DEF VerifyRun, Good
  <2> QED
    BY <1>5, <1>6, <2>1, <2>2, <2>4, <2>5, <2>11 DEF EntryOk
<1>16. CheckRecordIds(b)
  BY <1>6 DEF CheckRecordIds
<1>17. CheckAnchorFiles(b)
  <2> DEFINE anchors == {x \in ToSet(recs) : x.doc.kind = "anchor"}
  <2>1. b.receipts = [id \in {x.doc.id : x \in anchors} |->
                         (CHOOSE x \in anchors : x.doc.id = id).doc.over.receipt]
    BY <1>2 DEF SliceIs, ReceiptsOf
  <2>2. ASSUME NEW id \in DOMAIN b.receipts
        PROVE  \E x \in ToSet(recs) :
                  x.doc.kind = "anchor" /\ x.doc.id = id /\ b.receipts[id] = x.doc.over.receipt
    <3>1. \E x \in anchors : x.doc.id = id
      BY <2>1, <2>2
    <3>2. PICK x : x = (CHOOSE y \in anchors : y.doc.id = id)
      OBVIOUS
    <3>3. x \in anchors /\ x.doc.id = id
      BY <3>1, <3>2
    <3>4. b.receipts[id] = x.doc.over.receipt
      BY <2>1, <2>2, <3>2
    <3> QED
      BY <3>3, <3>4
  <2> QED
    BY <1>6, <2>2 DEF CheckAnchorFiles
<1>18. CheckParentLinks(b.runs, b.delegations)
  <2>1. ParentOf(recs) = None
    <3>1. CASE recs[1].doc.kind = "run_start"
      <4>1. i = 1
        BY <1>9, <3>1 DEF StepOK
      <4> QED
        BY <1>4, <1>9, <4>1 DEF ParentOf
    <3>2. CASE recs[1].doc.kind # "run_start"
      BY <3>2 DEF ParentOf
    <3> QED
      BY <3>1, <3>2
  <2> QED
    BY <1>6, <2>1 DEF CheckParentLinks, LinkOk
<1> QED
  BY <1>5, <1>12, <1>14, <1>15, <1>16, <1>17, <1>18 DEF Accepted, VerifyBundle

\* Provided that no step carries a context or names another policy set, every archive that the
\* recorder makes of rows nobody damaged verifies, of the whole run or of a slice that holds
\* what its anchors are over, with its bodies or without, however often the recorder was cut
\* off and started again and whichever delegations it issued meanwhile, unless a delegation
\* was overrun (live.py:270, verify.py:115-187).
THEOREM EvidenceGenuineVerifies ==
  ASSUME SoundSteps, NoneApart
  PROVE  Spec => []GenuineVerifies
<1>1. Init => StepsOK
  BY InitInv
<1>2. EInv /\ StepsOK /\ [Next]_vars => StepsOK'
  BY SoundSteps, StepsInv
<1>3. EInv /\ StepsOK => GenuineVerifies
  <2> SUFFICES ASSUME EInv, StepsOK, damage = 0, ~overran, NEW r \in Runs,
                      NEW omitted \in BOOLEAN, Exportable(r, omitted),
                      NEW i \in 1..Len(rows[r]), HoldsAnchored(rows[r], i),
                      Fits(Slice(r, i, omitted))
               PROVE  Accepted(Slice(r, i, omitted), {identity.principal})
    BY DEF GenuineVerifies
  <2> QED
    BY NoneApart, GenuineSlice
<1> QED
  BY <1>1, <1>2, <1>3, EvidenceInvariant, PTL DEF Spec
=============================================================================
