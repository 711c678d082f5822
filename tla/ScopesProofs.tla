---------------------------- MODULE ScopesProofs ----------------------------
(***************************************************************************)
(* Proofs about Scopes, for every set of patterns whose matching is        *)
(* transitive, all scopes and runs of any length: a scope that             *)
(* scope_within accepts as narrower is stricter, and an executed step that *)
(* needed an approval gets the latest earlier answer no step has used.     *)
(* The second part is about ModelCalls: for every upstreams file,          *)
(* environment, client and provider, where a model call may go and the     *)
(* credential that goes with it.                                           *)
(***************************************************************************)
EXTENDS Scopes, ModelCalls, FiniteSetTheorems, WellFoundedInduction, TLAPS

\* What a narrower pattern matches, a pattern that covers it matches.
LEMMA CoveredTargetMatches ==
    ASSUME NEW wide, NEW narrow, NEW target,
           PatternCovers(wide, narrow), TargetMatches(narrow, target)
    PROVE  TargetMatches(wide, target)
<1> SUFFICES ASSUME NEW f \in DOMAIN wide
             PROVE  /\ f \in DOMAIN target
                    /\ IF f = "name" THEN <<wide.name, target.name>> \in Matches
                       ELSE wide[f] = target[f]
    BY DEF TargetMatches
<1>1. f \in DOMAIN narrow /\ (wide[f] = narrow[f] \/ (f = "name" /\ <<wide.name, narrow.name>> \in Matches))
    BY DEF PatternCovers
<1>2. f \in DOMAIN target
    BY <1>1 DEF TargetMatches
<1>3. CASE f = "name"
    <2>1. <<narrow.name, target.name>> \in Matches
        BY <1>1, <1>3 DEF TargetMatches
    <2>2. CASE wide.name = narrow.name
        BY <2>1, <2>2, <1>2, <1>3
    <2>3. CASE <<wide.name, narrow.name>> \in Matches
        <3>1. <<wide.name, narrow.name>>[2] = <<narrow.name, target.name>>[1]
            OBVIOUS
        <3>2. <<wide.name, target.name>> \in Matches
            BY <2>1, <2>3, <3>1, ScopesAssumption
        <3> QED BY <3>2, <1>2, <1>3
    <2> QED BY <1>1, <1>3, <2>2, <2>3
<1>4. CASE f # "name"
    BY <1>1, <1>2, <1>4 DEF TargetMatches
<1> QED BY <1>3, <1>4

\* A record that the parent's scope objects to for its target, location or label is objected
\* to for the same reason under the narrower scope, wherever it stands in the run.
LEMMA NarrowerFinds ==
    ASSUME NEW child, NEW parent, ScopeWithin(child, parent),
           NEW x, NEW n, NEW m, NEW c \in ScopeFindings(parent, x, n), c # "scope.max_records"
    PROVE  c \in ScopeFindings(child, x, m)
<1>1. x.kind \notin StructuralKinds
    BY DEF ScopeFindings
<1>2. CASE c = "scope.target" /\ OutsideTargets(parent, x)
    <2>1. parent.targets # None /\ \A wide \in parent.targets : ~TargetMatches(wide, x.target)
        BY <1>2 DEF OutsideTargets
    <2>2. child.targets # None
        BY <2>1 DEF ScopeWithin
    <2>3. ASSUME NEW narrow \in child.targets
          PROVE  ~TargetMatches(narrow, x.target)
        <3>1. PICK wide \in parent.targets : PatternCovers(wide, narrow)
            BY <2>1 DEF ScopeWithin
        <3> QED BY <2>1, <3>1, CoveredTargetMatches
    <2>4. OutsideTargets(child, x)
        BY <2>2, <2>3 DEF OutsideTargets
    <2> QED BY <1>1, <1>2, <2>4 DEF ScopeFindings
<1>3. CASE c = "scope.location" /\ OutsideLocations(parent, x)
    <2>1. OutsideLocations(child, x)
        BY <1>3 DEF OutsideLocations, ScopeWithin
    <2> QED BY <1>1, <1>3, <2>1 DEF ScopeFindings
<1>4. CASE c = "scope.label" /\ parent.denied \cap x.labels # {}
    <2>1. child.denied \cap x.labels # {}
        BY <1>4 DEF ScopeWithin
    <2> QED BY <1>1, <1>4, <2>1 DEF ScopeFindings
<1> QED BY <1>2, <1>3, <1>4 DEF ScopeFindings
-----------------------------------------------------------------------------
\* The invariant that carries the claim from record to record.

\* The run is a sequence and its settings are scopes.
RunIsSeq ==
    /\ setting \in Settings
    /\ run \in Seq(setting.calls)
    /\ \A p \in Parties : \A f \in found[p] : f.seq \in Nat

\* Apart from the limit, what is found under the parent's scope is found under the child's.
SameFound ==
    ScopeWithin(setting.child, setting.parent) =>
        \A f \in found["parent"] : f.check # "scope.max_records" => f \in found["child"]

\* The limit of each scope was reported where it was passed, and nowhere else.
LimitFound ==
    \A p \in Parties :
        /\ \A f \in found[p] : f.check = "scope.max_records" =>
                /\ setting[p].max \in Nat /\ f.seq = setting[p].max /\ f.seq < Len(run)
        /\ setting[p].max # None /\ Len(run) > setting[p].max =>
                [check |-> "scope.max_records", seq |-> setting[p].max] \in found[p]

IInv == RunIsSeq /\ SameFound /\ LimitFound

LEMMA InitIInv == Init => IInv
<1> SUFFICES ASSUME Init PROVE IInv
    OBVIOUS
<1>1. RunIsSeq
    BY DEF Init, RunIsSeq
<1>2. SameFound
    BY DEF Init, SameFound, Parties
<1>3. ASSUME NEW p \in Parties
      PROVE  setting[p].max \in Nat \cup {None}
    BY ScopesAssumption DEF Init, Parties, IsScope
<1>4. LimitFound
    BY <1>3 DEF Init, LimitFound
<1> QED BY <1>1, <1>2, <1>4 DEF IInv

LEMMA NextIInv == IInv /\ [Next]_vars => IInv'
<1> SUFFICES ASSUME IInv, [Next]_vars PROVE IInv'
    OBVIOUS
<1> USE DEF IInv
<1>1. CASE UNCHANGED vars
    BY <1>1 DEF vars, RunIsSeq, SameFound, LimitFound
<1>2. ASSUME NEW x \in setting.calls, Judge(x)
      PROVE  IInv'
    <2> DEFINE seq == Len(run)
               New(p) == {[check |-> c, seq |-> seq] : c \in ScopeFindings(setting[p], x, seq + 1)}
    <2>1. /\ setting' = setting
          /\ run' = Append(run, x)
          /\ found' = [p \in Parties |-> found[p] \cup New(p)]
        BY <1>2 DEF Judge
    <2>2. seq \in Nat /\ Len(run') = seq + 1
        BY <2>1 DEF RunIsSeq
    <2>3. RunIsSeq'
        BY <2>1 DEF RunIsSeq
    <2>4. SameFound'
        <3> SUFFICES ASSUME ScopeWithin(setting.child, setting.parent),
                            NEW f \in found["parent"] \cup New("parent"),
                            f.check # "scope.max_records"
                     PROVE  f \in found["child"] \cup New("child")
            BY <2>1 DEF SameFound, Parties
        <3>1. CASE f \in found["parent"]
            BY <3>1 DEF SameFound
        <3>2. CASE f \in New("parent")
            <4>1. PICK c \in ScopeFindings(setting.parent, x, seq + 1) : f = [check |-> c, seq |-> seq]
                BY <3>2
            <4>2. c \in ScopeFindings(setting.child, x, seq + 1)
                BY <4>1, NarrowerFinds
            <4> QED BY <4>1, <4>2
        <3> QED BY <3>1, <3>2
    <2>5. LimitFound'
        <3> SUFFICES ASSUME NEW p \in Parties
                     PROVE  /\ \A f \in found[p] \cup New(p) : f.check = "scope.max_records" =>
                                  setting[p].max \in Nat /\ f.seq = setting[p].max /\ f.seq < seq + 1
                            /\ setting[p].max # None /\ seq + 1 > setting[p].max =>
                                  [check |-> "scope.max_records", seq |-> setting[p].max]
                                     \in found[p] \cup New(p)
            BY <2>1, <2>2 DEF LimitFound
        <3>1. setting[p].max \in Nat \cup {None}
            BY ScopesAssumption DEF RunIsSeq, Parties, IsScope
        <3>2. ASSUME NEW f \in found[p] \cup New(p), f.check = "scope.max_records"
              PROVE  setting[p].max \in Nat /\ f.seq = setting[p].max /\ f.seq < seq + 1
            <4>1. CASE f \in found[p]
                <5>1. setting[p].max \in Nat /\ f.seq = setting[p].max /\ f.seq < seq
                    BY <4>1, <3>2 DEF LimitFound
                <5> QED BY <5>1, <2>2
            <4>2. CASE f \in New(p)
                <5>1. PICK c \in ScopeFindings(setting[p], x, seq + 1) : f = [check |-> c, seq |-> seq]
                    BY <4>2
                <5>2. c = "scope.max_records" /\ f.seq = seq
                    BY <5>1, <3>2
                <5>3. setting[p].max # None /\ seq + 1 = setting[p].max + 1
                    BY <5>1, <5>2 DEF ScopeFindings
                <5> QED BY <5>2, <5>3, <3>1, <2>2
            <4> QED BY <3>2, <4>1, <4>2
        <3>3. ASSUME setting[p].max # None, seq + 1 > setting[p].max
              PROVE  [check |-> "scope.max_records", seq |-> setting[p].max] \in found[p] \cup New(p)
            <4>1. setting[p].max \in Nat
                BY <3>1, <3>3
            <4>2. CASE seq > setting[p].max
                BY <4>2, <3>3 DEF LimitFound
            <4>3. CASE seq = setting[p].max
                <5>1. "scope.max_records" \in ScopeFindings(setting[p], x, seq + 1)
                    BY <4>3, <4>1, <3>3 DEF ScopeFindings
                <5> QED BY <5>1, <4>3
            <4>4. seq > setting[p].max \/ seq = setting[p].max
                BY <4>1, <3>3, <2>2
            <4> QED BY <4>2, <4>3, <4>4
        <3> QED BY <3>2, <3>3
    <2> QED BY <2>3, <2>4, <2>5
<1> QED BY <1>1, <1>2 DEF Next

LEMMA IInvImpliesNarrower == IInv => NarrowerIsStricter
<1> SUFFICES ASSUME IInv, ScopeWithin(setting.child, setting.parent), NEW f \in found["parent"]
             PROVE  \E g \in found["child"] : g.check = f.check /\ g.seq <= f.seq
    BY DEF NarrowerIsStricter
<1> USE DEF IInv
<1>1. f.check = "scope.max_records" =>
        setting.parent.max \in Nat /\ f.seq = setting.parent.max /\ f.seq < Len(run)
    BY DEF LimitFound, Parties
<1>2. CASE f.check # "scope.max_records"
    <2>1. f \in found["child"]
        BY <1>2 DEF SameFound
    <2>2. f.seq <= f.seq
        BY DEF RunIsSeq, Parties
    <2> QED BY <2>1, <2>2
<1>3. CASE f.check = "scope.max_records"
    <2> DEFINE g == [check |-> "scope.max_records", seq |-> setting.child.max]
    <2>1. setting.child.max # None /\ setting.child.max <= setting.parent.max
        BY <1>1, <1>3, ScopesAssumption DEF ScopeWithin
    <2>2. setting.child.max \in Nat
        BY <2>1, ScopesAssumption DEF RunIsSeq, IsScope
    <2>3. Len(run) \in Nat /\ Len(run) > setting.child.max
        BY <1>1, <1>3, <2>1, <2>2 DEF RunIsSeq
    <2>4. g \in found["child"]
        BY <2>1, <2>3 DEF LimitFound, Parties
    <2> QED BY <1>1, <1>3, <2>1, <2>2, <2>4
<1> QED BY <1>2, <1>3

\* A delegation accepted as narrower leaves nothing unreported that its parent's scope
\* forbids, in any run of any length (scope.py:121-155).
THEOREM ScopesNarrowerIsStricter == Spec => []NarrowerIsStricter
<1>1. Spec => []IInv
    BY InitIInv, NextIInv, PTL DEF Spec
<1> QED BY <1>1, IInvImpliesNarrower, PTL
-----------------------------------------------------------------------------
\* The types of what is found, and what waits.

\* An answer as it waits under its request.
Waited(x) == [req |-> x.req, answer |-> x.answer]

\* Each finding names a record of the run.
FoundInRun ==
    \A p \in Parties : \A f \in found[p] :
        f = [check |-> f.check, seq |-> f.seq] /\ f.seq \in 0..Len(run) - 1

\* What waits is a sequence of answers, no longer than the run, and the run is no longer
\* than its setting says.
OpenInRun ==
    /\ open \in Seq({Waited(x) : x \in setting.calls})
    /\ Len(open) <= Len(run)
    /\ Len(run) <= setting.len
    /\ \A f \in missed : f.seq \in 0..Len(run) - 1

TypeInv == IInv /\ FoundInRun /\ OpenInRun

\* Taking one answer out leaves the others in a sequence.
LEMMA WithoutIsSeq ==
    ASSUME NEW A, NEW answers \in Seq(A), answers # <<>>, NEW i
    PROVE  Without(answers, i) \in Seq(A) /\ Len(Without(answers, i)) = Len(answers) - 1
<1> DEFINE n == Len(answers) - 1
           W == [k \in 1..n |-> answers[IF k < i THEN k ELSE k + 1]]
<1>1. n \in Nat
    OBVIOUS
<1>2. ASSUME NEW k \in 1..n
      PROVE  answers[IF k < i THEN k ELSE k + 1] \in A
    <2>1. k \in 1..Len(answers) /\ k + 1 \in 1..Len(answers)
        BY <1>1
    <2>2. answers[k] \in A /\ answers[k + 1] \in A
        BY <2>1
    <2> QED BY <2>2
<1>3. W \in [1..n -> A]
    BY <1>2
<1>4. W \in Seq(A) /\ Len(W) = n
    BY <1>1, <1>3
<1> QED BY <1>4 DEF Without

LEMMA InitTypeInv == Init => TypeInv
<1> SUFFICES ASSUME Init PROVE TypeInv
    OBVIOUS
<1>1. FoundInRun
    BY DEF Init, FoundInRun
<1>2. setting.len \in Nat
    BY ScopesAssumption DEF Init
<1>3. OpenInRun
    BY <1>2 DEF Init, OpenInRun
<1> QED BY InitIInv, <1>1, <1>3 DEF TypeInv

LEMMA NextTypeInv == TypeInv /\ [Next]_vars => TypeInv'
<1> SUFFICES ASSUME TypeInv, [Next]_vars PROVE TypeInv'
    OBVIOUS
<1>1. IInv'
    BY NextIInv DEF TypeInv
<1>2. CASE UNCHANGED vars
    <2>1. FoundInRun' /\ OpenInRun'
        BY <1>2 DEF vars, TypeInv, FoundInRun, OpenInRun
    <2> QED BY <1>1, <2>1 DEF TypeInv
<1>3. ASSUME NEW x \in setting.calls, Judge(x)
      PROVE  TypeInv'
    <2> DEFINE seq == Len(run)
               New(p) == {[check |-> c, seq |-> seq] : c \in ScopeFindings(setting[p], x, seq + 1)}
    <2>1. /\ setting' = setting
          /\ run' = Append(run, x)
          /\ found' = [p \in Parties |-> found[p] \cup New(p)]
          /\ seq < setting.len
          /\ JudgeApproval(x, seq)
        BY <1>3 DEF Judge
    <2>2. seq \in Nat /\ Len(run') = seq + 1 /\ setting.len \in Nat
        BY <2>1, ScopesAssumption DEF TypeInv, IInv, RunIsSeq
    <2>3. FoundInRun'
        <3> SUFFICES ASSUME NEW p \in Parties, NEW f \in found[p] \cup New(p)
                     PROVE  f = [check |-> f.check, seq |-> f.seq] /\ f.seq \in 0..seq
            BY <2>1, <2>2 DEF FoundInRun
        <3>1. CASE f \in found[p]
            <4>1. f = [check |-> f.check, seq |-> f.seq] /\ f.seq \in 0..seq - 1
                BY <3>1 DEF TypeInv, FoundInRun
            <4> QED BY <4>1, <2>2
        <3>2. CASE f \in New(p)
            <4>1. PICK c \in ScopeFindings(setting[p], x, seq + 1) : f = [check |-> c, seq |-> seq]
                BY <3>2
            <4> QED BY <4>1, <2>2
        <3> QED BY <3>1, <3>2
    <2>4. OpenInRun'
        <3> DEFINE A == {Waited(y) : y \in setting.calls}
        <3>1. /\ open \in Seq(A) /\ Len(open) <= seq
              /\ \A f \in missed : f.seq \in 0..seq - 1
            BY DEF TypeInv, OpenInRun
        <3> HIDE DEF A
        <3>2. open' \in Seq(A) /\ Len(open') <= seq + 1
            <4>1. CASE open' = Append(open, Waited(x))
                <5>1. Waited(x) \in A
                    BY DEF A
                <5> QED BY <5>1, <4>1, <3>1, <2>2
            <4>2. CASE open' = open
                BY <4>2, <3>1, <2>2
            <4>3. CASE Waiting(open, x) # {} /\ open' = Without(open, Latest(Waiting(open, x)))
                <5>1. open # <<>>
                    BY <4>3 DEF Waiting
                <5>2. open' \in Seq(A) /\ Len(open') = Len(open) - 1
                    BY <5>1, <4>3, <3>1, WithoutIsSeq
                <5>3. Len(open) \in Nat
                    BY <3>1
                <5> QED BY <5>2, <5>3, <3>1, <2>2
            <4> QED BY <2>1, <4>1, <4>2, <4>3 DEF JudgeApproval, Waited
        <3>3. \A f \in missed' : f \in missed \/ f.seq = seq
            BY <2>1 DEF JudgeApproval
        <3>4. \A f \in missed' : f.seq \in 0..seq
            BY <3>1, <3>3, <2>2
        <3>5. seq + 1 <= setting.len
            BY <2>1, <2>2
        <3>6. \A f \in missed' : f.seq \in 0..Len(run') - 1
            BY <3>4, <2>2
        <3> QED BY <2>1, <2>2, <3>2, <3>5, <3>6 DEF OpenInRun, A
    <2> QED BY <1>1, <2>3, <2>4 DEF TypeInv
<1> QED BY <1>2, <1>3 DEF Next

\* What the verifier finds names records of the run, the limit of a scope is reported once
\* at most, and no more answers wait than there are records (scope.py:79, approval.py:24).
THEOREM ScopesTypeOK == Spec => []TypeOK
<1>1. Spec => []TypeInv
    BY InitTypeInv, NextTypeInv, PTL DEF Spec
<1>2. TypeInv => TypeOK
    <2> SUFFICES ASSUME TypeInv PROVE TypeOK
        OBVIOUS
    <2>1. ASSUME NEW p \in Parties, NEW f \in found[p], NEW g \in found[p],
                 f.check = "scope.max_records", g.check = f.check
          PROVE  f = g
        <3>1. f.seq = setting[p].max /\ g.seq = setting[p].max
            BY <2>1 DEF TypeInv, IInv, LimitFound
        <3>2. f = [check |-> f.check, seq |-> f.seq] /\ g = [check |-> g.check, seq |-> g.seq]
            BY DEF TypeInv, FoundInRun
        <3> QED BY <2>1, <3>1, <3>2
    <2> QED BY <2>1 DEF TypeInv, IInv, RunIsSeq, FoundInRun, OpenInRun, TypeOK
<1> QED BY <1>1, <1>2, PTL
-----------------------------------------------------------------------------
\* There is no chain of ever smaller naturals.
LEMMA LessIsWellFounded == IsWellFoundedOn({ss \in Nat \X Nat : ss[1] < ss[2]}, Nat)
BY NatLessThanWellFounded, Zenon DEF OpToRel

LEMMA LeastExists ==
  ASSUME NEW S \in SUBSET Nat, S # {}
  PROVE  \E m \in S : \A k \in S : m <= k
<1> DEFINE R == {ss \in Nat \X Nat : ss[1] < ss[2]}
<1>1. \E m \in S : \A k \in S : ~(<<k, m>> \in R)
  <2>1. IsWellFoundedOn(R, Nat)
    BY LessIsWellFounded
  <2> HIDE DEF R
  <2> QED
    BY <2>1, WFMin
<1>2. PICK m \in S : \A k \in S : ~(k < m)
  BY <1>1
<1> QED
  BY <1>2


\* Counting the answers and the executed steps of a request.

Given(r, q, i, j) == {k \in i..j : Answers(r[k]) /\ r[k].req = q}
Taken(r, q, i, j) == {k \in i..j : Executed(r[k]) /\ r[k].req = q}
NGiven(r, q, i, j) == Cardinality(Given(r, q, i, j))
NTaken(r, q, i, j) == Cardinality(Taken(r, q, i, j))

LEMMA CountType ==
    ASSUME NEW r, NEW q, NEW i \in Nat, NEW j \in Nat
    PROVE  NGiven(r, q, i, j) \in Nat /\ NTaken(r, q, i, j) \in Nat
<1>1. IsFiniteSet(i..j)
    BY FS_Interval
<1>2. Given(r, q, i, j) \in SUBSET (i..j) /\ Taken(r, q, i, j) \in SUBSET (i..j)
    BY DEF Given, Taken
<1>3. IsFiniteSet(Given(r, q, i, j)) /\ IsFiniteSet(Taken(r, q, i, j))
    BY <1>1, <1>2, FS_Subset
<1> QED BY <1>3, FS_CardinalityType DEF NGiven, NTaken

\* Nothing is counted between a position and the one before it.
LEMMA CountNone ==
    ASSUME NEW r, NEW q, NEW i \in Nat
    PROVE  NGiven(r, q, i + 1, i) = 0 /\ NTaken(r, q, i + 1, i) = 0
<1>1. Given(r, q, i + 1, i) = {} /\ Taken(r, q, i + 1, i) = {}
    BY DEF Given, Taken
<1> QED BY <1>1, FS_EmptySet DEF NGiven, NTaken

\* A count reads no record outside its range.
LEMMA CountFrame ==
    ASSUME NEW r, NEW s, NEW q, NEW i \in Nat, NEW j \in Nat, \A k \in i..j : s[k] = r[k]
    PROVE  NGiven(s, q, i, j) = NGiven(r, q, i, j) /\ NTaken(s, q, i, j) = NTaken(r, q, i, j)
<1>1. Given(s, q, i, j) = Given(r, q, i, j)
    BY DEF Given
<1>2. Taken(s, q, i, j) = Taken(r, q, i, j)
    BY DEF Taken
<1> QED BY <1>1, <1>2 DEF NGiven, NTaken

\* One more record counts once at most.
LEMMA CountStep ==
    ASSUME NEW r, NEW q, NEW i \in Nat, NEW n \in Nat, i <= n + 1
    PROVE  /\ NGiven(r, q, i, n + 1) = NGiven(r, q, i, n)
                 + (IF Answers(r[n + 1]) /\ r[n + 1].req = q THEN 1 ELSE 0)
           /\ NTaken(r, q, i, n + 1) = NTaken(r, q, i, n)
                 + (IF Executed(r[n + 1]) /\ r[n + 1].req = q THEN 1 ELSE 0)
<1>1. i..n + 1 = (i..n) \cup {n + 1} /\ n + 1 \notin i..n
    OBVIOUS
<1>2. IsFiniteSet(i..n)
    BY FS_Interval
<1>3. IsFiniteSet(Given(r, q, i, n)) /\ IsFiniteSet(Taken(r, q, i, n))
    <2>1. Given(r, q, i, n) \in SUBSET (i..n) /\ Taken(r, q, i, n) \in SUBSET (i..n)
        BY DEF Given, Taken
    <2> QED BY <1>2, <2>1, FS_Subset
<1>4. NGiven(r, q, i, n) \in Nat /\ NTaken(r, q, i, n) \in Nat
    BY CountType
<1>5. NGiven(r, q, i, n + 1) = NGiven(r, q, i, n)
                 + (IF Answers(r[n + 1]) /\ r[n + 1].req = q THEN 1 ELSE 0)
    <2>1. CASE Answers(r[n + 1]) /\ r[n + 1].req = q
        <3>1. Given(r, q, i, n + 1) = Given(r, q, i, n) \cup {n + 1}
            BY <1>1, <2>1 DEF Given
        <3>2. n + 1 \notin Given(r, q, i, n)
            BY <1>1 DEF Given
        <3>3. Cardinality(Given(r, q, i, n) \cup {n + 1}) = Cardinality(Given(r, q, i, n)) + 1
            BY <1>3, <3>2, FS_AddElement
        <3> QED BY <2>1, <3>1, <3>3 DEF NGiven
    <2>2. CASE ~(Answers(r[n + 1]) /\ r[n + 1].req = q)
        <3>1. Given(r, q, i, n + 1) = Given(r, q, i, n)
            BY <1>1, <2>2 DEF Given
        <3> QED BY <2>2, <3>1, <1>4 DEF NGiven
    <2> QED BY <2>1, <2>2
<1>6. NTaken(r, q, i, n + 1) = NTaken(r, q, i, n)
                 + (IF Executed(r[n + 1]) /\ r[n + 1].req = q THEN 1 ELSE 0)
    <2>1. CASE Executed(r[n + 1]) /\ r[n + 1].req = q
        <3>1. Taken(r, q, i, n + 1) = Taken(r, q, i, n) \cup {n + 1}
            BY <1>1, <2>1 DEF Taken
        <3>2. n + 1 \notin Taken(r, q, i, n)
            BY <1>1 DEF Taken
        <3>3. Cardinality(Taken(r, q, i, n) \cup {n + 1}) = Cardinality(Taken(r, q, i, n)) + 1
            BY <1>3, <3>2, FS_AddElement
        <3> QED BY <2>1, <3>1, <3>3 DEF NTaken
    <2>2. CASE ~(Executed(r[n + 1]) /\ r[n + 1].req = q)
        <3>1. Taken(r, q, i, n + 1) = Taken(r, q, i, n)
            BY <1>1, <2>2 DEF Taken
        <3> QED BY <2>2, <3>1, <1>4 DEF NTaken
    <2> QED BY <2>1, <2>2
<1> QED BY <1>5, <1>6
-----------------------------------------------------------------------------
\* The places of the answers that no step has taken.

\* After the answer at i the steps of its request never took more than came later.
Stays(r, i, n) ==
    /\ Answers(r[i])
    /\ \A k \in i + 1..n : NTaken(r, r[i].req, i + 1, k) <= NGiven(r, r[i].req, i + 1, k)

Waits(r) == {i \in 1..Len(r) : Stays(r, i, Len(r))}

Later(r, i) == {k \in Waits(r) : k > i /\ r[k].req = r[i].req}

\* The places that wait for a step of record x.
For(r, x) == {i \in Waits(r) : r[i].req = x.req}

\* What came after an answer and was not taken is what waits above it.
Balanced(r) ==
    \A i \in Waits(r) :
        NGiven(r, r[i].req, i + 1, Len(r)) = NTaken(r, r[i].req, i + 1, Len(r)) + Cardinality(Later(r, i))

LEMMA LaterFinite ==
    ASSUME NEW S, NEW r \in Seq(S), NEW i
    PROVE  IsFiniteSet(Later(r, i)) /\ Cardinality(Later(r, i)) \in Nat
<1>1. IsFiniteSet(1..Len(r))
    BY FS_Interval
<1>2. Later(r, i) \in SUBSET (1..Len(r))
    BY DEF Later, Waits
<1> QED BY <1>1, <1>2, FS_Subset, FS_CardinalityType

\* The places that wait for x have a last one.
LEMMA LastOf ==
    ASSUME NEW S, NEW r \in Seq(S), NEW T \in SUBSET (1..Len(r)), T # {}
    PROVE  \E m \in T : \A k \in T : k <= m
<1> DEFINE U == {Len(r) - k : k \in T}
<1>1. U \in SUBSET Nat /\ U # {}
    <2>1. Len(r) \in Nat /\ \A k \in T : k \in 1..Len(r)
        OBVIOUS
    <2>2. \A k \in 1..Len(r) : Len(r) - k \in Nat
        BY <2>1
    <2> QED BY <2>1, <2>2
<1>2. PICK u \in U : \A k \in U : u <= k
    BY <1>1, LeastExists
<1>3. PICK m \in T : u = Len(r) - m
    BY <1>2
<1>4. ASSUME NEW k \in T
      PROVE  k <= m
    <2>1. Len(r) - k \in U
        OBVIOUS
    <2>2. Len(r) - m <= Len(r) - k
        BY <1>2, <1>3, <2>1
    <2> QED BY <2>2
<1> QED BY <1>4
-----------------------------------------------------------------------------
\* One more record.

\* The record at n + 1 leaves the counts of the ones before it alone.
LEMMA CountAppend ==
    ASSUME NEW S, NEW r \in Seq(S), NEW x \in S, NEW q, NEW i \in Nat, NEW j \in Nat,
           i >= 1, j <= Len(r)
    PROVE  /\ NGiven(Append(r, x), q, i, j) = NGiven(r, q, i, j)
           /\ NTaken(Append(r, x), q, i, j) = NTaken(r, q, i, j)
<1> DEFINE s == Append(r, x)
<1>1. \A k \in i..j : s[k] = r[k]
    OBVIOUS
<1> HIDE DEF s
<1>2. NGiven(s, q, i, j) = NGiven(r, q, i, j) /\ NTaken(s, q, i, j) = NTaken(r, q, i, j)
    BY <1>1, CountFrame
<1> QED BY <1>2 DEF s

\* An earlier answer stays until a step of its request takes it, the latest one first.
LEMMA StaysStep ==
    ASSUME NEW S, NEW r \in Seq(S), NEW x \in S, Balanced(r), NEW i \in 1..Len(r)
    PROVE  Stays(Append(r, x), i, Len(r) + 1)
             <=> i \in Waits(r) /\ ~(Executed(x) /\ r[i].req = x.req /\ Later(r, i) = {})
<1> DEFINE n == Len(r)
           s == Append(r, x)
           q == r[i].req
           more == IF Answers(x) /\ x.req = q THEN 1 ELSE 0
           less == IF Executed(x) /\ x.req = q THEN 1 ELSE 0
<1>1. n \in Nat /\ i \in Nat /\ i >= 1 /\ i <= n
    OBVIOUS
<1>2. s[i] = r[i] /\ s[n + 1] = x
    OBVIOUS
<1>3. ASSUME NEW k \in i + 1..n
      PROVE  NGiven(s, q, i + 1, k) = NGiven(r, q, i + 1, k) /\ NTaken(s, q, i + 1, k) = NTaken(r, q, i + 1, k)
    BY <1>1, CountAppend
<1>4. NGiven(s, q, i + 1, n) = NGiven(r, q, i + 1, n) /\ NTaken(s, q, i + 1, n) = NTaken(r, q, i + 1, n)
    BY <1>1, CountAppend
<1>5. /\ NGiven(s, q, i + 1, n + 1) = NGiven(r, q, i + 1, n) + more
      /\ NTaken(s, q, i + 1, n + 1) = NTaken(r, q, i + 1, n) + less
    <2> HIDE DEF s
    <2>1. /\ NGiven(s, q, i + 1, n + 1) = NGiven(s, q, i + 1, n)
                 + (IF Answers(s[n + 1]) /\ s[n + 1].req = q THEN 1 ELSE 0)
          /\ NTaken(s, q, i + 1, n + 1) = NTaken(s, q, i + 1, n)
                 + (IF Executed(s[n + 1]) /\ s[n + 1].req = q THEN 1 ELSE 0)
        <3>1. i + 1 \in Nat /\ i + 1 <= n + 1
            BY <1>1
        <3> HIDE DEF n, q
        <3> QED BY <1>1, <3>1, CountStep
    <2> QED BY <2>1, <1>2, <1>4
<1>6. NGiven(r, q, i + 1, n) \in Nat /\ NTaken(r, q, i + 1, n) \in Nat
    BY <1>1, CountType
<1>7. Stays(s, i, n + 1)
        <=> Stays(r, i, n) /\ NTaken(r, q, i + 1, n) + less <= NGiven(r, q, i + 1, n) + more
    <2>1. Stays(s, i, n + 1) <=> Answers(r[i]) /\ \A k \in i + 1..n + 1 : NTaken(s, q, i + 1, k) <= NGiven(s, q, i + 1, k)
        BY <1>2 DEF Stays
    <2>2. Stays(r, i, n) <=> Answers(r[i]) /\ \A k \in i + 1..n : NTaken(r, q, i + 1, k) <= NGiven(r, q, i + 1, k)
        BY DEF Stays
    <2>3. i + 1..n + 1 = (i + 1..n) \cup {n + 1}
        BY <1>1
    <2> HIDE DEF n, s, q, more, less
    <2> QED BY <2>1, <2>2, <2>3, <1>3, <1>5
<1>8. Stays(r, i, n) <=> i \in Waits(r)
    BY DEF Waits
<1>9. CASE i \in Waits(r)
    <2>1. NGiven(r, q, i + 1, n) = NTaken(r, q, i + 1, n) + Cardinality(Later(r, i))
        BY <1>9 DEF Balanced
    <2>2. IsFiniteSet(Later(r, i)) /\ Cardinality(Later(r, i)) \in Nat
        BY LaterFinite
    <2>3. Cardinality(Later(r, i)) = 0 <=> Later(r, i) = {}
        BY <2>2, FS_EmptySet
    <2>4. ~(Answers(x) /\ Executed(x))
        BY DEF Answers, Executed
    <2>5. (NTaken(r, q, i + 1, n) + less <= NGiven(r, q, i + 1, n) + more)
            <=> less <= Cardinality(Later(r, i)) + more
        <3>1. less \in Nat /\ more \in Nat
            OBVIOUS
        <3> HIDE DEF less, more, n, q
        <3> QED BY <3>1, <2>1, <2>2, <1>6
    <2>6. (less <= Cardinality(Later(r, i)) + more) <=> ~(Executed(x) /\ x.req = q /\ Later(r, i) = {})
        <3>1. CASE Executed(x) /\ x.req = q
            <4>1. less = 1 /\ more = 0
                BY <3>1, <2>4
            <4> HIDE DEF less, more
            <4> QED BY <4>1, <3>1, <2>2, <2>3
        <3>2. CASE ~(Executed(x) /\ x.req = q)
            <4>1. less = 0 /\ more \in Nat
                BY <3>2
            <4> HIDE DEF less, more
            <4> QED BY <4>1, <3>2, <2>2
        <3> QED BY <3>1, <3>2
    <2> QED BY <1>7, <1>8, <1>9, <2>5, <2>6
<1> QED BY <1>7, <1>8, <1>9

\* What waits after one more record: a new answer waits, a step takes the last that waits
\* for its request.
LEMMA WaitsStep ==
    ASSUME NEW S, NEW r \in Seq(S), NEW x \in S, Balanced(r)
    PROVE  Waits(Append(r, x)) =
             {i \in Waits(r) : ~(Executed(x) /\ r[i].req = x.req /\ Later(r, i) = {})}
             \cup (IF Answers(x) THEN {Len(r) + 1} ELSE {})
<1> DEFINE n == Len(r)
           s == Append(r, x)
<1>1. n \in Nat /\ Len(s) = n + 1 /\ s[n + 1] = x
    OBVIOUS
<1>2. Stays(s, n + 1, n + 1) <=> Answers(x)
    BY <1>1 DEF Stays
<1>3. \A i \in 1..n : Stays(s, i, n + 1)
             <=> i \in Waits(r) /\ ~(Executed(x) /\ r[i].req = x.req /\ Later(r, i) = {})
    BY StaysStep
<1>4. \A i \in Waits(r) : i \in 1..n
    BY DEF Waits
<1>5. 1..n + 1 = (1..n) \cup {n + 1}
    BY <1>1
<1>6. Waits(s) = {i \in 1..n + 1 : Stays(s, i, n + 1)}
    BY <1>1 DEF Waits
<1> HIDE DEF n, s
<1> QED BY <1>2, <1>3, <1>4, <1>5, <1>6 DEF n, s

LEMMA BalancedStep ==
    ASSUME NEW S, NEW r \in Seq(S), NEW x \in S, Balanced(r)
    PROVE  Balanced(Append(r, x))
<1> DEFINE n == Len(r)
           s == Append(r, x)
           gone(i) == Executed(x) /\ r[i].req = x.req /\ Later(r, i) = {}
<1>1. n \in Nat /\ Len(s) = n + 1 /\ s[n + 1] = x /\ \A i \in 1..n : s[i] = r[i]
    OBVIOUS
<1>2. Waits(s) = {i \in Waits(r) : ~gone(i)} \cup (IF Answers(x) THEN {n + 1} ELSE {})
    BY WaitsStep
<1>3. \A i \in Waits(r) : i \in 1..n /\ i \in Nat
    BY <1>1 DEF Waits
<1>4. ~(Answers(x) /\ Executed(x))
    BY DEF Answers, Executed
<1>s. s \in Seq(S)
    OBVIOUS
<1> SUFFICES ASSUME NEW i \in Waits(s)
             PROVE  NGiven(s, s[i].req, i + 1, n + 1) = NTaken(s, s[i].req, i + 1, n + 1) + Cardinality(Later(s, i))
    BY <1>1 DEF Balanced
<1>5. CASE i = n + 1
    <2>1. NGiven(s, s[i].req, i + 1, i) = 0 /\ NTaken(s, s[i].req, i + 1, i) = 0
        <3>1. i \in Nat
            BY <1>5, <1>1
        <3> HIDE DEF s, n, gone
        <3> QED BY <3>1, CountNone
    <2>2. Later(s, i) = {}
        <3> SUFFICES ASSUME NEW k \in Later(s, i) PROVE FALSE
            OBVIOUS
        <3>1. k \in Waits(s) /\ k > n + 1
            BY <1>5 DEF Later
        <3>2. k \in 1..n + 1
            BY <3>1, <1>1 DEF Waits
        <3> HIDE DEF s, n, gone
        <3> QED BY <3>1, <3>2, <1>1
    <2>3. Cardinality(Later(s, i)) = 0
        BY <2>2, FS_EmptySet
    <2> QED BY <2>1, <2>3, <1>5
<1>6. CASE i \in Waits(r) /\ ~gone(i)
    <2> DEFINE q == r[i].req
    <2>1. i \in 1..n /\ i \in Nat /\ s[i].req = q
        BY <1>1, <1>3, <1>6
    <2>2. NGiven(r, q, i + 1, n) = NTaken(r, q, i + 1, n) + Cardinality(Later(r, i))
        BY <1>6 DEF Balanced
    <2>3. /\ NGiven(s, q, i + 1, n) = NGiven(r, q, i + 1, n)
          /\ NTaken(s, q, i + 1, n) = NTaken(r, q, i + 1, n)
        BY <2>1, <1>1, CountAppend
    <2>4. NGiven(r, q, i + 1, n) \in Nat /\ NTaken(r, q, i + 1, n) \in Nat
        BY <2>1, <1>1, CountType
    <2>5. IsFiniteSet(Later(r, i)) /\ Cardinality(Later(r, i)) \in Nat
        BY LaterFinite
    <2>6. /\ NGiven(s, q, i + 1, n + 1) = NGiven(s, q, i + 1, n)
                 + (IF Answers(s[n + 1]) /\ s[n + 1].req = q THEN 1 ELSE 0)
          /\ NTaken(s, q, i + 1, n + 1) = NTaken(s, q, i + 1, n)
                 + (IF Executed(s[n + 1]) /\ s[n + 1].req = q THEN 1 ELSE 0)
        <3> DEFINE l == i + 1
        <3>1. l \in Nat /\ l <= n + 1
            BY <2>1, <1>1
        <3> HIDE DEF n, q, s, l
        <3>2. /\ NGiven(s, q, l, n + 1) = NGiven(s, q, l, n)
                     + (IF Answers(s[n + 1]) /\ s[n + 1].req = q THEN 1 ELSE 0)
              /\ NTaken(s, q, l, n + 1) = NTaken(s, q, l, n)
                     + (IF Executed(s[n + 1]) /\ s[n + 1].req = q THEN 1 ELSE 0)
            BY <1>1, <3>1, CountStep
        <3> QED BY <3>2 DEF l
    <2>7. CASE Answers(x) /\ x.req = q
        <3>1. Later(s, i) = Later(r, i) \cup {n + 1}
            <4> HIDE DEF s, n
            <4>1. ~Executed(x)
                BY <2>7, <1>4
            <4>2. Waits(s) = Waits(r) \cup {n + 1}
                BY <1>2, <2>7, <4>1
            <4>3. n + 1 > i
                BY <2>1, <1>1
            <4>4. \A k \in Waits(r) : s[k].req = r[k].req
                BY <1>1, <1>3
            <4> QED BY <1>1, <4>2, <4>3, <4>4, <2>1, <2>7 DEF Later
        <3>2. n + 1 \notin Later(r, i)
            BY <1>1, <1>3 DEF Later
        <3>3. Cardinality(Later(s, i)) = Cardinality(Later(r, i)) + 1
            BY <2>5, <3>1, <3>2, FS_AddElement
        <3>4. /\ NGiven(s, q, i + 1, n + 1) = NGiven(r, q, i + 1, n) + 1
              /\ NTaken(s, q, i + 1, n + 1) = NTaken(r, q, i + 1, n)
            <4> HIDE DEF s, n, q
            <4> QED BY <1>1, <1>4, <2>3, <2>4, <2>6, <2>7
        <3> HIDE DEF s, n, q
        <3> QED BY <2>1, <2>2, <2>4, <2>5, <3>3, <3>4
    <2>8. CASE Executed(x) /\ x.req = q
        <3>1. Later(r, i) # {}
            BY <1>6, <2>8
        <3>2. PICK m \in Later(r, i) : \A k \in Later(r, i) : k <= m
            <4>1. Later(r, i) \in SUBSET (1..Len(r))
                BY DEF Later, Waits
            <4> QED BY <3>1, <4>1, LastOf
        <3>3. m \in Waits(r) /\ r[m].req = q /\ m > i /\ m \in Nat
            BY <3>2, <1>3 DEF Later
        <3>4. \A k \in Waits(r) : k \in Nat /\ (k > m /\ r[k].req = q => k \in Later(r, i))
            <4>1. \A k \in Waits(r) : k > m => k > i
                <5> HIDE DEF s, n, q, gone
                <5> QED BY <2>1, <3>3, <1>3
            <4> QED BY <4>1, <1>3 DEF Later
        <3>5. gone(m)
            <4>1. Later(r, m) = {}
                <5> SUFFICES ASSUME NEW k \in Later(r, m) PROVE FALSE
                    OBVIOUS
                <5>1. k \in Waits(r) /\ k > m /\ r[k].req = q
                    BY <3>3 DEF Later
                <5> QED BY <5>1, <3>2, <3>3, <3>4
            <4> QED BY <4>1, <3>3, <2>8
        <3>6. \A k \in Later(r, i) : k # m => ~gone(k)
            <4> SUFFICES ASSUME NEW k \in Later(r, i), k # m PROVE m \in Later(r, k)
                OBVIOUS
            <4>1. k \in Nat /\ k <= m /\ r[k].req = q
                BY <3>2, <1>3 DEF Later
            <4>2. m > k
                BY <4>1, <3>3
            <4> QED BY <4>1, <4>2, <3>3 DEF Later
        <3>7. Later(s, i) = Later(r, i) \ {m}
            <4>1. ~Answers(x)
                BY <1>4, <2>8
            <4>2. Waits(s) = {k \in Waits(r) : ~gone(k)}
                BY <1>2, <4>1
            <4>3. \A k \in Waits(r) : s[k].req = r[k].req
                BY <1>1, <1>3
            <4>4. \A k \in Waits(s) : k \in Waits(r)
                BY <4>2
            <4>5. Later(s, i) = {k \in Later(r, i) : ~gone(k)}
                <5> HIDE DEF s, n, gone
                <5> QED BY <4>2, <4>3, <2>1 DEF Later
            <4> HIDE DEF s, n, gone
            <4> QED BY <4>5, <3>5, <3>6
        <3>8. Cardinality(Later(s, i)) = Cardinality(Later(r, i)) - 1
            BY <2>5, <3>2, <3>7, FS_RemoveElement
        <3>9. /\ NGiven(s, q, i + 1, n + 1) = NGiven(r, q, i + 1, n)
              /\ NTaken(s, q, i + 1, n + 1) = NTaken(r, q, i + 1, n) + 1
            <4> HIDE DEF s, n, q
            <4> QED BY <1>1, <1>4, <2>3, <2>4, <2>6, <2>8
        <3> HIDE DEF s, n, q
        <3> QED BY <2>1, <2>2, <2>4, <2>5, <3>8, <3>9
    <2>9. CASE ~(x.req = q /\ (Answers(x) \/ Executed(x)))
        <3>1. Later(s, i) = Later(r, i)
            <4>1. \A k \in Later(r, i) : k \in Waits(r) /\ r[k].req = q
                BY DEF Later
            <4>2. \A k \in Later(r, i) : ~gone(k)
                BY <4>1, <2>9
            <4>3. Answers(x) => x.req # q
                BY <2>9
            <4>4. \A k \in Waits(r) : s[k].req = r[k].req
                BY <1>1, <1>3
            <4>5. \A k \in Later(r, i) : k \in Later(s, i)
                <5> HIDE DEF s, n, gone
                <5> QED BY <1>2, <4>1, <4>2, <4>4, <2>1 DEF Later
            <4>6. \A k \in Later(s, i) : k \in Later(r, i)
                <5> SUFFICES ASSUME NEW k \in Later(s, i) PROVE k \in Later(r, i)
                    OBVIOUS
                <5>1. k \in Waits(s) /\ k > i /\ s[k].req = q
                    BY <2>1 DEF Later
                <5>2. k # n + 1 \/ ~Answers(x)
                    BY <5>1, <4>3, <1>1
                <5>3. k \in Waits(r)
                    BY <5>1, <5>2, <1>2
                <5> QED BY <5>1, <5>3, <4>4 DEF Later
            <4> QED BY <4>5, <4>6
        <3>2. /\ NGiven(s, q, i + 1, n + 1) = NGiven(r, q, i + 1, n)
              /\ NTaken(s, q, i + 1, n + 1) = NTaken(r, q, i + 1, n)
            <4> HIDE DEF s, n, q
            <4> QED BY <1>1, <2>3, <2>4, <2>6, <2>9
        <3> QED BY <2>1, <2>2, <3>1, <3>2
    <2> QED BY <2>7, <2>8, <2>9
<1> QED BY <1>2, <1>5, <1>6
-----------------------------------------------------------------------------
\* Which answer an executed step gets.

\* The answer at i is the one for the step at j, in run r.
AnswerIn(r, i, j) ==
    /\ Answers(r[i]) /\ r[i].req = r[j].req
    /\ NGiven(r, r[j].req, i + 1, j - 1) = NTaken(r, r[j].req, i + 1, j - 1)
    /\ \A k \in i + 1..j - 1 : NTaken(r, r[j].req, i + 1, k) <= NGiven(r, r[j].req, i + 1, k)

GivenTo(r, j) == {i \in 1..j - 1 : AnswerIn(r, i, j)}

Due(r) == {j \in DOMAIN r : Executed(r[j])}

Unanswered(r) == {j \in Due(r) : GivenTo(r, j) = {}}
DeniedIn(r) == {j \in Due(r) : \E i \in GivenTo(r, j) : r[i].answer = "denied"}

MissedIn(r) ==
    {[check |-> "approval.missing", seq |-> j - 1] : j \in Unanswered(r)}
    \cup {[check |-> "approval.denied_but_executed", seq |-> j - 1] : j \in DeniedIn(r)}

LEMMA MatchedIs == missed = MissedIn(run) => ApprovalsMatched
<1>1. ASSUME NEW i, NEW j
      PROVE  AnswerOf(i, j) <=> AnswerIn(run, i, j)
    <2>1. \A q, a, b : Count(Answers, q, a, b) = NGiven(run, q, a, b)
        BY DEF Count, NGiven, Given
    <2>2. \A q, a, b : Count(Executed, q, a, b) = NTaken(run, q, a, b)
        BY DEF Count, NTaken, Taken
    <2> QED BY <2>1, <2>2, Zenon DEF AnswerOf, AnswerIn
<1>2. \A j : {i \in 1..j - 1 : AnswerOf(i, j)} = GivenTo(run, j)
    BY <1>1 DEF GivenTo
<1> QED BY <1>2, Zenon DEF ApprovalsMatched, MissedIn, Unanswered, DeniedIn, Due

\* Earlier steps keep their answers, and a step gets the last answer that waits for it.
LEMMA GivenStep ==
    ASSUME NEW S, NEW r \in Seq(S), NEW x \in S, Balanced(r)
    PROVE  /\ \A j \in 1..Len(r) : GivenTo(Append(r, x), j) = GivenTo(r, j)
           /\ GivenTo(Append(r, x), Len(r) + 1) = {i \in For(r, x) : Later(r, i) = {}}
<1> DEFINE n == Len(r)
           s == Append(r, x)
<1>1. n \in Nat /\ Len(s) = n + 1 /\ s[n + 1] = x /\ \A i \in 1..n : s[i] = r[i]
    OBVIOUS
<1>2. ASSUME NEW q, NEW i \in 1..n, NEW k \in Nat, k <= n
      PROVE  NGiven(s, q, i + 1, k) = NGiven(r, q, i + 1, k) /\ NTaken(s, q, i + 1, k) = NTaken(r, q, i + 1, k)
    <2>1. i + 1 \in Nat /\ i + 1 >= 1
        BY <1>1
    <2> QED BY <1>2, <2>1, CountAppend
<1>3. ASSUME NEW j \in 1..n
      PROVE  GivenTo(s, j) = GivenTo(r, j)
    <2>1. ASSUME NEW i \in 1..j - 1
          PROVE  AnswerIn(s, i, j) <=> AnswerIn(r, i, j)
        <3>1. i \in 1..n /\ s[i] = r[i] /\ s[j] = r[j] /\ j - 1 \in Nat /\ j - 1 <= n
            BY <1>1
        <3>2. \A k \in i + 1..j - 1 : k \in Nat /\ k <= n
            BY <1>1
        <3> HIDE DEF n, s
        <3> QED BY <1>2, <3>1, <3>2 DEF AnswerIn
    <2> QED BY <2>1 DEF GivenTo
<1>4. ASSUME NEW i \in 1..n
      PROVE  AnswerIn(s, i, n + 1) <=> i \in For(r, x) /\ Later(r, i) = {}
    <2> DEFINE q == x.req
    <2>1. AnswerIn(s, i, n + 1) <=>
            /\ Answers(r[i]) /\ r[i].req = q
            /\ NGiven(r, q, i + 1, n) = NTaken(r, q, i + 1, n)
            /\ \A k \in i + 1..n : NTaken(r, q, i + 1, k) <= NGiven(r, q, i + 1, k)
        <3>1. s[i] = r[i] /\ s[n + 1] = x /\ (n + 1) - 1 = n
            BY <1>1
        <3>2. \A k \in i + 1..n : k \in Nat /\ k <= n
            BY <1>1
        <3>3. n \in Nat /\ n <= n
            BY <1>1
        <3> HIDE DEF n, s
        <3> QED BY <1>2, <3>1, <3>2, <3>3 DEF AnswerIn
    <2>2. AnswerIn(s, i, n + 1) <=>
            Stays(r, i, n) /\ r[i].req = q /\ NGiven(r, q, i + 1, n) = NTaken(r, q, i + 1, n)
        BY <2>1 DEF Stays
    <2>3. Stays(r, i, n) <=> i \in Waits(r)
        BY DEF Waits
    <2>4. ASSUME i \in Waits(r), r[i].req = q
          PROVE  NGiven(r, q, i + 1, n) = NTaken(r, q, i + 1, n) <=> Later(r, i) = {}
        <3>1. NGiven(r, q, i + 1, n) = NTaken(r, q, i + 1, n) + Cardinality(Later(r, i))
            BY <2>4 DEF Balanced
        <3>2. IsFiniteSet(Later(r, i)) /\ Cardinality(Later(r, i)) \in Nat
            BY LaterFinite
        <3>3. Cardinality(Later(r, i)) = 0 <=> Later(r, i) = {}
            BY <3>2, FS_EmptySet
        <3>4. i + 1 \in Nat
            BY <1>1
        <3>5. NTaken(r, q, i + 1, n) \in Nat
            BY <1>1, <3>4, CountType
        <3> HIDE DEF n, q
        <3> QED BY <3>1, <3>2, <3>3, <3>5
    <2> QED BY <2>2, <2>3, <2>4 DEF For
<1>5. \A i \in For(r, x) : i \in 1..n
    BY DEF For, Waits
<1>6. (n + 1) - 1 = n
    BY <1>1
<1>7. GivenTo(s, n + 1) = {i \in 1..n : AnswerIn(s, i, n + 1)}
    BY <1>6 DEF GivenTo
<1>8. GivenTo(s, n + 1) = {i \in For(r, x) : Later(r, i) = {}}
    <2> HIDE DEF n, s
    <2> QED BY <1>4, <1>5, <1>7
<1> QED BY <1>3, <1>8

\* What is missed with one more record: what that record misses is added.
LEMMA MissedStep ==
    ASSUME NEW S, NEW r \in Seq(S), NEW x \in S, Balanced(r)
    PROVE  LET G == {i \in For(r, x) : Later(r, i) = {}}
               D == \E i \in G : r[i].answer = "denied"
           IN  MissedIn(Append(r, x)) = MissedIn(r)
                 \cup (IF Executed(x) /\ G = {} THEN {[check |-> "approval.missing", seq |-> Len(r)]} ELSE {})
                 \cup (IF Executed(x) /\ D THEN {[check |-> "approval.denied_but_executed", seq |-> Len(r)]} ELSE {})
<1> DEFINE n == Len(r)
           s == Append(r, x)
           G == {i \in For(r, x) : Later(r, i) = {}}
           D == \E i \in G : r[i].answer = "denied"
<1>1. /\ n \in Nat /\ s[n + 1] = x /\ \A i \in 1..n : s[i] = r[i]
      /\ DOMAIN s = (1..n) \cup {n + 1} /\ DOMAIN r = 1..n /\ n + 1 \notin 1..n
    OBVIOUS
<1>2. \A j \in 1..n : GivenTo(s, j) = GivenTo(r, j)
    BY GivenStep
<1>3. GivenTo(s, n + 1) = G
    BY GivenStep
<1>4. \A j \in 1..n : \A i \in GivenTo(r, j) : i \in 1..n
    BY <1>1 DEF GivenTo
<1>5. \A i \in G : i \in 1..n
    BY DEF For, Waits
<1>6. Due(s) = Due(r) \cup (IF Executed(x) THEN {n + 1} ELSE {})
    <2> HIDE DEF n, s
    <2> QED BY <1>1 DEF Due
<1>7. \A j \in Due(r) : j \in 1..n
    BY <1>1 DEF Due
<1>8. Unanswered(s) = Unanswered(r) \cup (IF Executed(x) /\ G = {} THEN {n + 1} ELSE {})
    <2> HIDE DEF n, s, G
    <2> QED BY <1>1, <1>2, <1>3, <1>6, <1>7 DEF Unanswered
<1>9. DeniedIn(s) = DeniedIn(r) \cup (IF Executed(x) /\ D THEN {n + 1} ELSE {})
    <2>1. \A j \in 1..n : (\E i \in GivenTo(s, j) : s[i].answer = "denied")
                             <=> \E i \in GivenTo(r, j) : r[i].answer = "denied"
        BY <1>1, <1>2, <1>4
    <2>2. (\E i \in GivenTo(s, n + 1) : s[i].answer = "denied") <=> D
        BY <1>1, <1>3, <1>5
    <2> HIDE DEF n, s, G, D
    <2>3. \A j \in DeniedIn(s) : j \in DeniedIn(r) \/ (j = n + 1 /\ Executed(x) /\ D)
        BY <1>6, <1>7, <2>1, <2>2 DEF DeniedIn
    <2>4. \A j \in DeniedIn(r) : j \in DeniedIn(s)
        BY <1>6, <1>7, <2>1 DEF DeniedIn
    <2>5. Executed(x) /\ D => n + 1 \in DeniedIn(s)
        BY <1>6, <2>2 DEF DeniedIn
    <2> QED BY <2>3, <2>4, <2>5
<1>10. (n + 1) - 1 = n
    BY <1>1
<1> HIDE DEF n, s, G, D
<1>11. MissedIn(s) = MissedIn(r)
                 \cup (IF Executed(x) /\ G = {} THEN {[check |-> "approval.missing", seq |-> n]} ELSE {})
                 \cup (IF Executed(x) /\ D THEN {[check |-> "approval.denied_but_executed", seq |-> n]} ELSE {})
    BY <1>8, <1>9, <1>10 DEF MissedIn
<1> QED BY <1>11 DEF n, s, G, D
-----------------------------------------------------------------------------
\* What waits in the verifier is what waits in the run.

\* The answers of o are the waiting ones of r, in the order of the run.
Holds(r, o, pos) ==
    /\ pos \in [1..Len(o) -> Waits(r)]
    /\ \A k, l \in 1..Len(o) : k < l => pos[k] < pos[l]
    /\ \A i \in Waits(r) : \E k \in 1..Len(o) : pos[k] = i
    /\ \A k \in 1..Len(o) : o[k] = Waited(r[pos[k]])

ApprovalInv ==
    /\ Balanced(run)
    /\ \E pos : Holds(run, open, pos)
    /\ missed = MissedIn(run)

\* The places before the new record hold the records they held.
LEMMA WaitsAre ==
    ASSUME NEW S, NEW r \in Seq(S), NEW x \in S, NEW i \in Waits(r)
    PROVE  /\ i \in Nat /\ 1 <= i /\ i <= Len(r) /\ Len(r) \in Nat
           /\ Append(r, x)[i] = r[i] /\ Answers(r[i])
<1>1. i \in 1..Len(r) /\ Answers(r[i])
    BY DEF Waits, Stays
<1> QED BY <1>1

\* The answers that wait for a step are at the places that wait for it.
LEMMA WaitingAt ==
    ASSUME NEW r, NEW o, NEW pos, Holds(r, o, pos), NEW x, NEW k \in 1..Len(o)
    PROVE  /\ pos[k] \in Waits(r) /\ o[k].req = r[pos[k]].req /\ o[k].answer = r[pos[k]].answer
           /\ k \in DOMAIN o => (k \in Waiting(o, x) <=> pos[k] \in For(r, x))
<1>1. pos[k] \in Waits(r) /\ o[k] = Waited(r[pos[k]])
    BY DEF Holds
<1>2. o[k].req = r[pos[k]].req /\ o[k].answer = r[pos[k]].answer
    BY <1>1 DEF Waited
<1>3. r[pos[k]].req # None
    BY <1>1 DEF Waits, Stays, Answers
<1> QED BY <1>1, <1>2, <1>3 DEF Waiting, For

LEMMA HoldsAnswer ==
    ASSUME NEW S, NEW r \in Seq(S), NEW x \in S, NEW T, NEW o \in Seq(T), NEW pos,
           Holds(r, o, pos), Balanced(r), Answers(x), Waited(x) \in T
    PROVE  \E new : Holds(Append(r, x), Append(o, Waited(x)), new)
<1> DEFINE n == Len(r)
           s == Append(r, x)
           m == Len(o)
           p == Append(o, Waited(x))
           new == [k \in 1..m + 1 |-> IF k = m + 1 THEN n + 1 ELSE pos[k]]
<1>1. /\ n \in Nat /\ s[n + 1] = x
      /\ m \in Nat /\ Len(p) = m + 1 /\ p[m + 1] = Waited(x) /\ \A k \in 1..m : p[k] = o[k]
    OBVIOUS
<1>2. Waits(s) = Waits(r) \cup {n + 1}
    <2>1. ~Executed(x)
        BY DEF Answers, Executed
    <2> QED BY <2>1, WaitsStep
<1>3. \A i \in Waits(r) : i \in Nat /\ i <= n /\ s[i] = r[i]
    BY WaitsAre
<1>4. /\ pos \in [1..m -> Waits(r)]
      /\ \A k, l \in 1..m : k < l => pos[k] < pos[l]
      /\ \A i \in Waits(r) : \E k \in 1..m : pos[k] = i
      /\ \A k \in 1..m : o[k] = Waited(r[pos[k]])
    BY DEF Holds
<1>5. \A k \in 1..m + 1 : (k = m + 1 /\ new[k] = n + 1) \/ (k \in 1..m /\ k # m + 1 /\ new[k] = pos[k])
    BY <1>1
<1> HIDE DEF n, s, m, p
<1>6. new \in [1..m + 1 -> Waits(s)]
    <2>1. \A k \in 1..m + 1 : new[k] \in Waits(s)
        BY <1>2, <1>4, <1>5
    <2> QED BY <2>1
<1>7. \A i \in 1..m : i \in 1..m + 1 /\ new[i] = pos[i]
    BY <1>1
<1>8. m + 1 \in 1..m + 1 /\ new[m + 1] = n + 1
    BY <1>1
<1> HIDE DEF new
<1>9. ASSUME NEW k \in 1..m + 1, NEW l \in 1..m + 1, k < l
      PROVE  new[k] < new[l]
    <2>1. k \in 1..m
        BY <1>1, <1>9
    <2>2. pos[k] \in Nat /\ pos[k] <= n /\ new[k] = pos[k]
        BY <1>3, <1>4, <1>7, <2>1
    <2>3. CASE l = m + 1
        BY <1>1, <1>8, <2>2, <2>3
    <2>4. CASE l \in 1..m
        BY <1>4, <1>7, <1>9, <2>1, <2>4
    <2> QED BY <1>5, <2>3, <2>4
<1>10. \A i \in Waits(s) : \E k \in 1..m + 1 : new[k] = i
    BY <1>2, <1>4, <1>7, <1>8
<1>11. \A k \in 1..m + 1 : p[k] = Waited(s[new[k]])
    BY <1>1, <1>3, <1>4, <1>5
<1>12. Holds(s, p, new)
    BY <1>1, <1>6, <1>9, <1>10, <1>11 DEF Holds
<1> QED BY <1>12 DEF s, p

\* A record that takes no answer leaves what waits as it was.
LEMMA HoldsSame ==
    ASSUME NEW S, NEW r \in Seq(S), NEW x \in S, NEW o, NEW pos, Holds(r, o, pos),
           Waits(Append(r, x)) = Waits(r)
    PROVE  Holds(Append(r, x), o, pos)
<1> DEFINE s == Append(r, x)
<1>1. \A i \in Waits(r) : s[i] = r[i]
    BY WaitsAre
<1> HIDE DEF s
<1>2. Waits(s) = Waits(r)
    BY DEF s
<1>3. Holds(s, o, pos)
    BY <1>1, <1>2 DEF Holds
<1> QED BY <1>3 DEF s

\* The last answer that waits in the verifier is at the last place that waits in the run.
LEMMA LatestAt ==
    ASSUME NEW S, NEW r \in Seq(S), NEW x, NEW T, NEW o \in Seq(T), NEW pos,
           Holds(r, o, pos), Waiting(o, x) # {}
    PROVE  LET w == Latest(Waiting(o, x))
           IN  /\ w \in 1..Len(o)
               /\ {i \in For(r, x) : Later(r, i) = {}} = {pos[w]}
<1> DEFINE W == Waiting(o, x)
           w == Latest(W)
           G == {i \in For(r, x) : Later(r, i) = {}}
<1>1. W \in SUBSET (1..Len(o)) /\ DOMAIN o = 1..Len(o) /\ Len(o) \in Nat
    BY DEF Waiting
<1>2. w \in W /\ \A k \in W : k <= w
    <2>1. \E i \in W : \A j \in W : j <= i
        BY <1>1, LastOf
    <2> HIDE DEF W
    <2> QED BY <2>1 DEF Latest
<1>3. w \in 1..Len(o) /\ w \in Nat
    BY <1>1, <1>2
<1> HIDE DEF W, w
<1>4. \A k \in 1..Len(o) : pos[k] \in Waits(r) /\ (k \in W <=> pos[k] \in For(r, x))
    BY <1>1, WaitingAt DEF W
<1>5. /\ \A k, l \in 1..Len(o) : k < l => pos[k] < pos[l]
      /\ \A i \in Waits(r) : \E k \in 1..Len(o) : pos[k] = i
    BY DEF Holds
<1>6. \A i \in Waits(r) : i \in Nat
    <2>1. \A i \in 1..Len(r) : i \in Nat
        OBVIOUS
    <2> QED BY <2>1 DEF Waits
<1>7. \A i \in For(r, x) : i \in Waits(r) /\ r[i].req = x.req
    BY DEF For
<1>8. pos[w] \in For(r, x)
    BY <1>2, <1>3, <1>4
<1>9. Later(r, pos[w]) = {}
    <2> SUFFICES ASSUME NEW i \in Later(r, pos[w]) PROVE FALSE
        OBVIOUS
    <2>1. i \in For(r, x) /\ i > pos[w]
        BY <1>7, <1>8 DEF Later, For
    <2>2. PICK k \in 1..Len(o) : pos[k] = i
        BY <1>5, <1>7, <2>1
    <2>3. k \in W /\ k \in Nat
        BY <1>1, <1>4, <2>1, <2>2
    <2>4. k <= w /\ pos[w] \in Nat /\ pos[k] \in Nat
        BY <1>2, <1>6, <1>7, <1>8, <2>1, <2>2, <2>3
    <2>5. k = w \/ k < w
        BY <1>3, <2>3, <2>4
    <2> QED BY <1>3, <1>5, <2>1, <2>2, <2>4, <2>5
<1>10. ASSUME NEW i \in G
       PROVE  i = pos[w]
    <2>1. i \in For(r, x) /\ Later(r, i) = {}
        OBVIOUS
    <2>2. PICK k \in 1..Len(o) : pos[k] = i
        BY <1>5, <1>7, <2>1
    <2>3. k \in W /\ k <= w /\ k \in Nat
        BY <1>1, <1>2, <1>4, <2>1, <2>2
    <2>4. CASE k < w
        <3>1. pos[k] < pos[w] /\ pos[w] \in Nat /\ pos[k] \in Nat
            BY <1>3, <1>4, <1>5, <1>6, <2>4
        <3>2. pos[w] \in Later(r, i)
            BY <1>7, <1>8, <2>1, <2>2, <3>1 DEF Later
        <3> QED BY <2>1, <3>2
    <2>5. k = w \/ k < w
        BY <1>3, <2>3
    <2> QED BY <2>2, <2>4, <2>5
<1>11. pos[w] \in G
    BY <1>8, <1>9
<1>12. G = {pos[w]}
    BY <1>10, <1>11
<1> QED BY <1>3, <1>12 DEF w, W

LEMMA HoldsTaken ==
    ASSUME NEW S, NEW r \in Seq(S), NEW x \in S, NEW T, NEW o \in Seq(T), NEW pos,
           Holds(r, o, pos), Balanced(r), Executed(x), Waiting(o, x) # {}
    PROVE  \E new : Holds(Append(r, x), Without(o, Latest(Waiting(o, x))), new)
<1> DEFINE w == Latest(Waiting(o, x))
           s == Append(r, x)
           m == Len(o) - 1
           p == Without(o, w)
           at(k) == IF k < w THEN k ELSE k + 1
           new == [k \in 1..m |-> pos[at(k)]]
<1>1. w \in 1..Len(o) /\ {i \in For(r, x) : Later(r, i) = {}} = {pos[w]}
    BY LatestAt
<1>2. Waits(s) = Waits(r) \ {pos[w]}
    <2>1. ~Answers(x)
        BY DEF Answers, Executed
    <2>2. \A i \in Waits(r) : Executed(x) /\ r[i].req = x.req /\ Later(r, i) = {} <=> i = pos[w]
        BY <1>1 DEF For
    <2>3. Waits(s) = {i \in Waits(r) : ~(Executed(x) /\ r[i].req = x.req /\ Later(r, i) = {})}
        BY <2>1, WaitsStep
    <2> HIDE DEF s
    <2> QED BY <2>2, <2>3
<1>3. o # <<>>
    BY DEF Waiting
<1>4. Len(o) \in Nat /\ m \in Nat /\ Len(p) = m /\ w \in Nat /\ w <= m + 1 /\ 1 <= w
    <2>1. Len(p) = m
        BY <1>3, WithoutIsSeq
    <2>2. Len(o) \in Nat /\ m \in Nat
        BY <1>3
    <2> QED BY <1>1, <2>1, <2>2
<1>5. p = [k \in 1..m |-> o[at(k)]]
    BY DEF Without
<1>6. \A i \in Waits(r) : i \in Nat /\ s[i] = r[i]
    BY WaitsAre
<1>7. /\ pos \in [1..m + 1 -> Waits(r)]
      /\ \A k, l \in 1..m + 1 : k < l => pos[k] < pos[l]
      /\ \A i \in Waits(r) : \E k \in 1..m + 1 : pos[k] = i
      /\ \A k \in 1..m + 1 : o[k] = Waited(r[pos[k]])
    <2>1. Len(o) = m + 1
        BY <1>4
    <2> HIDE DEF m
    <2> QED BY <2>1 DEF Holds
<1> HIDE DEF w, s, m, p
<1>8. \A k \in 1..m : at(k) \in 1..m + 1 /\ at(k) # w
    BY <1>4
<1>9. \A k, l \in 1..m : k < l => at(k) < at(l)
    BY <1>4
<1>10. \A k \in 1..m + 1 : k # w => \E l \in 1..m : at(l) = k
    <2> SUFFICES ASSUME NEW k \in 1..m + 1, k # w PROVE \E l \in 1..m : at(l) = k
        OBVIOUS
    <2>1. CASE k < w
        BY <1>4, <2>1
    <2>2. CASE k > w
        <3>1. k - 1 \in 1..m /\ at(k - 1) = k
            BY <1>4, <2>2
        <3> QED BY <3>1
    <2> QED BY <1>4, <2>1, <2>2
<1> HIDE DEF at
<1>11. \A k \in 1..m : new[k] = pos[at(k)]
    OBVIOUS
<1>12. w \in 1..m + 1
    BY <1>4
<1>13. \A k \in 1..m + 1 : k # w => pos[k] # pos[w]
    <2> SUFFICES ASSUME NEW k \in 1..m + 1, k # w PROVE pos[k] # pos[w]
        OBVIOUS
    <2>1. k < w \/ w < k
        BY <1>12
    <2>2. pos[k] < pos[w] \/ pos[w] < pos[k]
        BY <1>7, <1>12, <2>1
    <2>3. pos[k] \in Nat /\ pos[w] \in Nat
        BY <1>6, <1>7, <1>12
    <2> QED BY <2>2, <2>3
<1>14. \A k \in 1..m : new[k] \in Waits(s)
    BY <1>2, <1>7, <1>8, <1>11, <1>13
<1>15. new \in [1..m -> Waits(s)]
    BY <1>14
<1> HIDE DEF new
<1>16. \A k, l \in 1..m : k < l => new[k] < new[l]
    BY <1>7, <1>8, <1>9, <1>11
<1>17. \A i \in Waits(s) : \E k \in 1..m : new[k] = i
    <2> SUFFICES ASSUME NEW i \in Waits(s) PROVE \E k \in 1..m : new[k] = i
        OBVIOUS
    <2>1. PICK k \in 1..m + 1 : pos[k] = i
        BY <1>2, <1>7
    <2>2. k # w
        BY <1>2, <2>1
    <2>3. PICK l \in 1..m : at(l) = k
        BY <1>10, <2>2
    <2> QED BY <1>11, <2>1, <2>3
<1>18. \A k \in 1..m : p[k] = Waited(s[new[k]])
    <2> SUFFICES ASSUME NEW k \in 1..m PROVE p[k] = Waited(s[new[k]])
        OBVIOUS
    <2>1. p[k] = o[at(k)] /\ new[k] = pos[at(k)] /\ at(k) \in 1..m + 1
        BY <1>5, <1>8, <1>11
    <2>2. s[pos[at(k)]] = r[pos[at(k)]]
        BY <1>6, <1>7, <2>1
    <2> QED BY <1>7, <2>1, <2>2
<1>19. Holds(s, p, new)
    BY <1>4, <1>15, <1>16, <1>17, <1>18 DEF Holds
<1> QED BY <1>19 DEF s, p, w
-----------------------------------------------------------------------------
LEMMA InitApprovalInv == Init => ApprovalInv
<1> SUFFICES ASSUME Init PROVE ApprovalInv
    OBVIOUS
<1>1. run = <<>> /\ open = <<>> /\ missed = {} /\ Len(<<>>) = 0 /\ 1..0 = {} /\ DOMAIN run = {}
    BY DEF Init
<1>2. Waits(run) = {}
    BY <1>1 DEF Waits
<1>3. Balanced(run)
    BY <1>2 DEF Balanced
<1>4. Holds(run, open, [k \in 1..0 |-> k])
    BY <1>1, <1>2 DEF Holds
<1>5. MissedIn(run) = {}
    BY <1>1 DEF MissedIn, Unanswered, DeniedIn, Due
<1> QED BY <1>1, <1>3, <1>4, <1>5 DEF ApprovalInv

LEMMA NextApprovalInv == TypeInv /\ ApprovalInv /\ [Next]_vars => ApprovalInv'
<1> SUFFICES ASSUME TypeInv, ApprovalInv, [Next]_vars PROVE ApprovalInv'
    OBVIOUS
<1>1. CASE UNCHANGED vars
    <2>1. run' = run /\ open' = open /\ missed' = missed
        BY <1>1 DEF vars
    <2> QED BY <2>1 DEF ApprovalInv
<1>2. ASSUME NEW x \in setting.calls, Judge(x)
      PROVE  ApprovalInv'
    <2> DEFINE S == setting.calls
               A == {Waited(y) : y \in S}
               G == {i \in For(run, x) : Later(run, i) = {}}
               D == \E i \in G : run[i].answer = "denied"
               s == Append(run, x)
    <2>1. run' = s /\ JudgeApproval(x, Len(run))
        BY <1>2 DEF Judge
    <2>2. run \in Seq(S) /\ open \in Seq(A) /\ Waited(x) \in A
        BY DEF TypeInv, IInv, RunIsSeq, OpenInRun
    <2>3. Balanced(run) /\ missed = MissedIn(run)
        BY DEF ApprovalInv
    <2>4. PICK pos : Holds(run, open, pos)
        BY DEF ApprovalInv
    <2>5. Balanced(s)
        BY <2>2, <2>3, BalancedStep
    <2>6. MissedIn(s) = missed
            \cup (IF Executed(x) /\ G = {} THEN {[check |-> "approval.missing", seq |-> Len(run)]} ELSE {})
            \cup (IF Executed(x) /\ D THEN {[check |-> "approval.denied_but_executed", seq |-> Len(run)]} ELSE {})
        BY <2>2, <2>3, MissedStep
    <2>7. ~(Answers(x) /\ Executed(x))
        BY DEF Answers, Executed
    <2> HIDE DEF S, A
    <2>8. CASE Answers(x)
        <3>1. open' = Append(open, Waited(x)) /\ missed' = missed
            BY <2>1, <2>7, <2>8 DEF JudgeApproval, Waited
        <3>2. \E new : Holds(s, open', new)
            BY <2>2, <2>3, <2>4, <2>8, <3>1, HoldsAnswer DEF S
        <3>3. missed' = MissedIn(s)
            BY <2>6, <2>7, <2>8, <3>1
        <3> QED BY <2>1, <2>5, <3>2, <3>3 DEF ApprovalInv
    <2>9. CASE Executed(x) /\ Waiting(open, x) = {}
        <3>1. open' = open /\ missed' = missed \cup {[check |-> "approval.missing", seq |-> Len(run)]}
            BY <2>1, <2>7, <2>9 DEF JudgeApproval
        <3>2. For(run, x) = {}
            <4> SUFFICES ASSUME NEW i \in For(run, x) PROVE FALSE
                OBVIOUS
            <4>1. PICK k \in 1..Len(open) : pos[k] = i
                BY <2>4 DEF Holds, For
            <4>2. k \in DOMAIN open
                BY <2>2, <4>1
            <4> QED BY <2>4, <2>9, <4>1, <4>2, WaitingAt
        <3>3. G = {}
            BY <3>2
        <3>4. Waits(s) = Waits(run)
            <4>1. \A i \in Waits(run) : run[i].req # x.req
                BY <3>2 DEF For
            <4>2. Waits(s) = {i \in Waits(run) : ~(Executed(x) /\ run[i].req = x.req /\ Later(run, i) = {})}
                BY <2>2, <2>3, <2>7, <2>9, WaitsStep DEF S
            <4> HIDE DEF s
            <4> QED BY <4>1, <4>2
        <3>5. Holds(s, open', pos)
            BY <2>2, <2>4, <3>1, <3>4, HoldsSame DEF S
        <3>6. ~D
            BY <3>3
        <3>7. missed' = MissedIn(s)
            <4> HIDE DEF G, D, s
            <4> QED BY <2>6, <2>9, <3>1, <3>3, <3>6
        <3> QED BY <2>1, <2>5, <3>5, <3>7 DEF ApprovalInv
    <2>10. CASE Executed(x) /\ Waiting(open, x) # {}
        <3> DEFINE w == Latest(Waiting(open, x))
        <3>1. /\ open' = Without(open, w)
              /\ IF open[w].answer = "denied"
                 THEN missed' = missed \cup {[check |-> "approval.denied_but_executed", seq |-> Len(run)]}
                 ELSE missed' = missed
            BY <2>1, <2>7, <2>10 DEF JudgeApproval
        <3>2. w \in 1..Len(open) /\ G = {pos[w]}
            BY <2>2, <2>4, <2>10, LatestAt
        <3>3. open[w].answer = run[pos[w]].answer
            BY <2>4, <3>2, WaitingAt
        <3>4. D <=> open[w].answer = "denied"
            BY <3>2, <3>3
        <3>5. \E new : Holds(s, open', new)
            BY <2>2, <2>3, <2>4, <2>10, <3>1, HoldsTaken DEF S
        <3>6. missed' = MissedIn(s)
            <4>1. G # {}
                BY <3>2
            <4> HIDE DEF G, D, s, w
            <4> QED BY <2>6, <2>10, <3>1, <3>4, <4>1
        <3> QED BY <2>1, <2>5, <3>5, <3>6 DEF ApprovalInv
    <2>11. CASE ~Answers(x) /\ ~Executed(x)
        <3>1. open' = open /\ missed' = missed
            BY <2>1, <2>11 DEF JudgeApproval
        <3>2. Waits(s) = Waits(run)
            <4>1. Waits(s) = {i \in Waits(run) : ~(Executed(x) /\ run[i].req = x.req /\ Later(run, i) = {})}
                BY <2>2, <2>3, <2>11, WaitsStep DEF S
            <4> HIDE DEF s
            <4> QED BY <2>11, <4>1
        <3>3. Holds(s, open', pos)
            BY <2>2, <2>4, <3>1, <3>2, HoldsSame DEF S
        <3>4. missed' = MissedIn(s)
            <4> HIDE DEF G, D, s
            <4> QED BY <2>6, <2>11, <3>1
        <3> QED BY <2>1, <2>5, <3>3, <3>4 DEF ApprovalInv
    <2> QED BY <2>8, <2>9, <2>10, <2>11
<1> QED BY <1>1, <1>2 DEF Next

\* The approvals a verifier misses are exactly the ones that no unused earlier answer, the
\* latest first, gives: one answer covers one step, in a run of any length (approval.py:24-60).
THEOREM ScopesApprovalsMatched == Spec => []ApprovalsMatched
<1>1. Spec => [](TypeInv /\ ApprovalInv)
    BY InitTypeInv, InitApprovalInv, NextTypeInv, NextApprovalInv, PTL DEF Spec
<1>2. ApprovalInv => ApprovalsMatched
    BY MatchedIs DEF ApprovalInv
<1> QED BY <1>1, <1>2, PTL
-----------------------------------------------------------------------------
\* Model calls: what goes out, and where

\* A target the recorder starts with.
Sound(t) ==
    /\ t.client_auth \in BOOLEAN
    /\ DOMAIN t.headers \cap CredentialHeaders = {}
    /\ \A h \in DOMAIN t.headers : t.headers[h] # Token
    /\ t.key = None \/ t.key # Token
    /\ ~t.url.login /\ ~t.url.query

LEMMA TargetSound ==
  ASSUME TokenApart, NEW file \in Files, NEW env \in Environs, NEW e \in Entries(file),
         NEW auth, CheckUrl(Or(e, "url", None)), CheckCommon(e),
         NEW t, t = Target(e, env, auth)
  PROVE  Sound(t)
<1>1. /\ t.headers = Or(e, "headers", <<>>) /\ t.client_auth \in BOOLEAN
      /\ t.key = Or(env, Or(e, "key_env", None), None)
      /\ t.url = e.url
  BY DEF Target
<1>2. DOMAIN t.headers \cap CredentialHeaders = {}
  BY <1>1 DEF CheckCommon
<1>3. ASSUME NEW h \in DOMAIN t.headers
      PROVE  t.headers[h] # Token
  <2>1. CASE "headers" \in DOMAIN e
    BY <1>1, <2>1 DEF TokenApart, Or
  <2>2. CASE "headers" \notin DOMAIN e
    BY <1>1, <2>2 DEF Or
  <2> QED
    BY <2>1, <2>2
<1>4. t.key = None \/ t.key # Token
  BY <1>1 DEF TokenApart, Or
<1>5. ~t.url.login /\ ~t.url.query
  BY <1>1 DEF CheckUrl, Or
<1> QED
  BY <1>1, <1>2, <1>3, <1>4, <1>5 DEF Sound

LEMMA ParseSound ==
  ASSUME TokenApart, NEW file \in Files, NEW env \in Environs, NEW e \in Entries(file),
         EntryOk(e)
  PROVE  Sound(Parse(e, env))
<1> DEFINE auth == Auth(e, DefaultAuth[Or(e, "dialect", "openai")])
<1>1. PICK t : t = Target(e, env, auth)
  OBVIOUS
<1>2. Sound(t)
  BY <1>1, TargetSound DEF EntryOk
<1>3. Parse(e, env) = Joined([dialect |-> Or(e, "dialect", "openai"),
                                          models |-> Or(e, "models", <<"*">>)], t)
  BY <1>1 DEF Parse
<1>4. DOMAIN t = {"name", "url", "location", "auth", "key_env", "key", "headers", "client_auth"}
  BY <1>1 DEF Target
<1>5. \A f \in DOMAIN t : Parse(e, env)[f] = t[f]
  BY <1>3, <1>4 DEF Joined
<1> QED
  BY <1>2, <1>4, <1>5 DEF Sound

\* What the recorder has read: nothing yet, or a file that is not malformed.
ConfigOK ==
    \/ config = NoConfig
    \/ \E file \in Files, env \in Environs :
          FileOk(file) /\ config = LoadUpstreams(file, env)

Targets == UNION {ToSet(config[kind]) : kind \in DOMAIN config}

LEMMA TargetsSound ==
  ASSUME TokenApart, ConfigOK, NEW t \in Targets
  PROVE  Sound(t)
<1>1. PICK kind \in DOMAIN config : t \in ToSet(config[kind])
  BY DEF Targets
<1>2. PICK i \in DOMAIN config[kind] : t = config[kind][i]
  BY <1>1 DEF ToSet
<1>3. config # NoConfig
  BY <1>1, <1>2 DEF NoConfig
<1>4. PICK file \in Files, env \in Environs : FileOk(file) /\ config = LoadUpstreams(file, env)
  BY <1>3 DEF ConfigOK
<1>5. kind \in {"upstreams", "mcp_servers", "a2a_agents"} /\ i \in DOMAIN file[kind]
  BY <1>1, <1>2, <1>4 DEF LoadUpstreams
<1>6. file[kind][i] \in ToSet(file[kind]) /\ file[kind][i] \in Entries(file)
  BY <1>5 DEF ToSet, Entries
<1>7. CASE kind = "upstreams"
  <2>1. t = Parse(file[kind][i], env)
    BY <1>2, <1>4, <1>5, <1>7 DEF LoadUpstreams
  <2>2. EntryOk(file[kind][i])
    BY <1>4, <1>6, <1>7 DEF FileOk
  <2> QED
    BY <1>6, <2>1, <2>2, ParseSound
<1>8. CASE kind # "upstreams"
  <2>1. t = ParseMcp(file[kind][i], env)
    BY <1>2, <1>4, <1>5, <1>8 DEF LoadUpstreams
  <2>2. ServerOk(file[kind][i])
    BY <1>4, <1>5, <1>6, <1>8 DEF FileOk
  <2> QED
    BY <1>6, <2>1, <2>2, TargetSound DEF ParseMcp, ServerOk
<1> QED
  BY <1>7, <1>8

LEMMA UpstreamsOrdered ==
  ASSUME UpstreamsRead, ConfigOK
  PROVE  /\ DOMAIN config.upstreams \in SUBSET Nat
         /\ \A i \in DOMAIN config.upstreams :
               /\ config.upstreams[i] # None /\ config.upstreams[i] \in ToSet(config.upstreams)
               /\ config.upstreams[i] \in Targets
<1>1. \A i \in DOMAIN config.upstreams : config.upstreams[i] \in ToSet(config.upstreams)
  BY DEF ToSet
<1>2. "upstreams" \in DOMAIN config
  BY DEF ConfigOK, NoConfig, LoadUpstreams
<1>3. \A i \in DOMAIN config.upstreams : config.upstreams[i] \in Targets
  BY <1>1, <1>2 DEF Targets
<1>4. CASE config = NoConfig
  BY <1>4 DEF NoConfig
<1>5. ASSUME NEW file \in Files, NEW env \in Environs, FileOk(file),
             config = LoadUpstreams(file, env)
      PROVE  /\ DOMAIN config.upstreams \in SUBSET Nat
             /\ \A i \in DOMAIN config.upstreams : config.upstreams[i] # None
  <2>1. DOMAIN config.upstreams = DOMAIN file.upstreams
    BY <1>5 DEF LoadUpstreams
  <2>2. file.upstreams \in Seq(ToSet(file.upstreams))
    BY DEF UpstreamsRead
  <2>3. DOMAIN file.upstreams \in SUBSET Nat
    BY <2>2
  <2>4. \A i \in DOMAIN config.upstreams : config.upstreams[i] # None
    BY <1>1, <1>5 DEF UpstreamsRead
  <2> QED
    BY <2>1, <2>3, <2>4
<1> QED
  BY <1>1, <1>3, <1>4, <1>5 DEF ConfigOK

\* The first upstream of the format that serves the model.
First(u, dialect, model) ==
    LET Could(i) == config.upstreams[i].dialect = dialect /\ Serves(config.upstreams[i], model)
    IN  \E i \in DOMAIN config.upstreams :
          /\ u = config.upstreams[i]
          /\ Could(i) /\ \A j \in DOMAIN config.upstreams : Could(j) => i <= j

\* A call is routed to that upstream, if there is one.
LEMMA RouteIs ==
  ASSUME UpstreamsRead, ConfigOK, NEW dialect, NEW model,
         NEW u, u = Route(config.upstreams, dialect, model)
  PROVE  \/ u = None /\ \A v \in ToSet(config.upstreams) :
                           ~(v.dialect = dialect /\ Serves(v, model))
         \/ /\ u # None /\ u \in ToSet(config.upstreams) /\ u \in Targets
            /\ First(u, dialect, model)
<1> DEFINE serving == {i \in DOMAIN config.upstreams :
                         /\ config.upstreams[i].dialect = dialect
                         /\ Serves(config.upstreams[i], model)}
<1>1. u = IF serving = {} THEN None ELSE config.upstreams[Min(serving)]
  BY DEF Route
<1>2. CASE serving = {}
  BY <1>1, <1>2 DEF ToSet
<1>3. CASE serving # {}
  <2>1. serving \in SUBSET Nat
    BY UpstreamsOrdered
  <2> HIDE DEF serving
  <2>2. \E m \in serving : \A k \in serving : m <= k
    BY <1>3, <2>1, LeastExists
  <2>3. Min(serving) \in serving /\ \A k \in serving : Min(serving) <= k
    BY <2>2 DEF Min
  <2>4. PICK i : i = Min(serving)
    OBVIOUS
  <2> USE DEF serving
  <2>5. u = config.upstreams[i] /\ i \in serving /\ \A k \in serving : i <= k
    BY <1>1, <1>3, <2>3, <2>4
  <2> QED
    BY <2>5, UpstreamsOrdered DEF First
<1> QED
  BY <1>2, <1>3

\* A request that leaves for a target, as far as credentials are concerned.
Kept(out, t) ==
    /\ t.name = out.target
    /\ \A h \in DOMAIN out.headers :
          /\ out.headers[h] # Token
          /\ h \in CredentialHeaders =>
               \/ out.headers[h] = t.key
               \/ /\ t.client_auth /\ h \in DOMAIN out.client.headers
                  /\ out.headers[h] = out.client.headers[h]
    /\ \A p \in DOMAIN out.query :
          out.query[p] # Token /\ (out.kind = "upstreams" => p # "key")

Formatted == {"anthropic-version", "anthropic-beta", "openai-beta", "mcp-session-id",
              "mcp-protocol-version", "a2a-version"}

\* The queries that may go out to a target of the kind.
Askable(kind, query) ==
    \A p \in DOMAIN query : query[p] # Token /\ (kind = "upstreams" => p # "key")

LEMMA OutKept ==
  ASSUME TokenApart, NEW t, Sound(t), NEW r \in Requests, NEW names \in SUBSET Formatted,
         NEW kind, NEW query, Askable(kind, query)
  PROVE  /\ Kept(Out(kind, t, r, names, query), t)
         /\ Out(kind, t, r, names, query).kind = kind
<1> DEFINE client == ClientCredentials(r, Token)
           with   == WithCredential(t, client)
           all    == UpstreamHeaders(r, t, names, Token)
<1>1. \A h \in DOMAIN client : h \in DOMAIN r.headers /\ client[h] = r.headers[h] /\ client[h] # Token
  BY DEF ClientCredentials
<1> DEFINE Good(h, v) ==
      /\ v # Token
      /\ h \in CredentialHeaders =>
           \/ v = t.key
           \/ t.client_auth /\ h \in DOMAIN r.headers /\ v = r.headers[h]
<1>2. \A h \in DOMAIN t.headers : Good(h, t.headers[h])
  BY DEF Sound
<1>3. \A h \in DOMAIN with : Good(h, with[h])
  <2> HIDE DEF client
  <2>1. CASE t.client_auth /\ client # <<>>
    <3>1. with = Joined(client, t.headers)
      BY <2>1 DEF WithCredential
    <3>2. \A h \in DOMAIN client : Good(h, client[h])
      BY <1>1, <2>1
    <3> QED
      BY <1>2, <3>1, <3>2 DEF Joined
  <2>2. CASE ~(t.client_auth /\ client # <<>>) /\ (t.key = None \/ t.auth = "none")
    BY <1>2, <2>2 DEF WithCredential
  <2>3. CASE ~(t.client_auth /\ client # <<>>) /\ ~(t.key = None \/ t.auth = "none")
    <3> DEFINE key == [h \in {IF t.auth = "bearer" THEN "authorization" ELSE t.auth} |-> t.key]
    <3>1. with = Joined(key, t.headers)
      BY <2>3 DEF WithCredential
    <3>2. \A h \in DOMAIN key : Good(h, key[h])
      BY <2>3 DEF Sound
    <3> HIDE DEF key
    <3> QED
      BY <1>2, <3>1, <3>2 DEF Joined
  <2> QED
    BY <2>1, <2>2, <2>3
<1>4. \A h \in DOMAIN r.headers \cap names : Good(h, r.headers[h])
  BY DEF Formatted, TokenApart, ClientKeyHeaders, TokenHeader, CredentialHeaders
<1>5. all = Joined(with, [h \in DOMAIN r.headers \cap names |-> r.headers[h]])
  BY DEF UpstreamHeaders
<1> HIDE DEF with
<1>6. \A h \in DOMAIN all : Good(h, all[h])
  BY <1>3, <1>4, <1>5 DEF Joined
<1>7. PICK out : out = Out(kind, t, r, names, query)
  OBVIOUS
<1>8. /\ out.target = t.name /\ out.headers = all
      /\ out.kind = kind /\ out.client = r /\ out.query = query
  BY <1>7 DEF Out
<1> HIDE DEF all
<1>9. Kept(out, t)
  BY <1>6, <1>8 DEF Kept, Askable
<1> QED
  BY <1>7, <1>8, <1>9

\* What goes out of the query of a request.
LEMMA QueryAskable ==
  ASSUME TokenApart, NEW r \in Requests
  PROVE  /\ Askable("upstreams", <<>>) /\ Askable("a2a_agents", <<>>)
         /\ Askable("upstreams", WithoutKey(r.query))
         /\ Authorised(r, "none", Token) = 200 =>
               Askable("mcp_servers", r.query) /\ Askable("a2a_agents", r.query)
<1>1. Askable("upstreams", WithoutKey(r.query))
  BY DEF Askable, WithoutKey, TokenApart
<1>2. ASSUME Authorised(r, "none", Token) = 200
      PROVE  \A p \in DOMAIN r.query : r.query[p] # Token
  <2>1. Token \in PresentedTokens(r, "none")
    BY <1>2 DEF Authorised
  <2>2. \E h \in DOMAIN r.headers : r.headers[h] = Token
    BY <2>1 DEF PresentedTokens
  <2> QED
    BY <2>2 DEF TokenApart
<1> QED
  BY <1>1, <1>2 DEF Askable

\* A call that is out is on its way to an upstream.
CallOK ==
    call # None =>
        /\ {"operation", "model", "streaming", "status", "target", "waslisted"} \subseteq DOMAIN call
        /\ call.status = None => call.target \in ToSet(config.upstreams)

\* What was listed was asked for by a client that may, and is served in the format of the list.
ListOK ==
    \A m \in listed.models :
        /\ Authorised(listed.request, listed.dialect, Token) = 200
        /\ \E u \in ToSet(config.upstreams) :
              u.dialect = listed.dialect /\ Serves(u, m.model)

SentOK == \A out \in sent : \E t \in ToSet(config[out.kind]) : Kept(out, t)

RecordOK == record # None => ~record.endpoint.login /\ ~record.endpoint.query

ProxyInv == ConfigOK /\ CallOK /\ ListOK /\ SentOK /\ RecordOK /\ ListedCanBeCalled

LEMMA ProxyInitial ==
  ASSUME ProxyInit
  PROVE  ProxyInv
BY DEF ProxyInit, NoList, ProxyInv, ConfigOK, CallOK, ListOK, SentOK, RecordOK,
       ListedCanBeCalled

LEMMA StartSteps ==
  ASSUME NEW file \in Files, NEW env \in Environs, Start(file, env)
  PROVE  ProxyInv'
<1>1. ConfigOK'
  BY DEF Start, ConfigOK
<1>2. sent' = {} /\ call' = None /\ record' = None /\ listed'.models = {}
  BY DEF Start, NoList
<1> QED
  BY <1>1, <1>2 DEF ProxyInv, CallOK, ListOK, SentOK, RecordOK, ListedCanBeCalled

\* A step that only sends, whatever it does to the list.
LEMMA OnlySent ==
  ASSUME ProxyInv, UNCHANGED config, SentOK', ListOK', call' = None, record' = None
  PROVE  ProxyInv'
BY DEF ProxyInv, ConfigOK, CallOK, RecordOK, ListedCanBeCalled

LEMMA ListModelsSteps ==
  ASSUME TokenApart, UpstreamsRead, ProxyInv,
         NEW dialect \in DialectNames, NEW r \in Requests, ListModels(dialect, r)
  PROVE  ProxyInv'
<1> DEFINE asked == Asked(dialect, r)
           names == IF dialect = "anthropic" THEN Passthrough[dialect] ELSE {}
<1>1. /\ UNCHANGED config /\ call' = None /\ record' = None
      /\ sent' = {Out("upstreams", config.upstreams[i], r, names, <<>>) : i \in asked}
  BY DEF ListModels
<1>2. names \in SUBSET Formatted
  BY DEF Passthrough, Formatted
<1>3. \A i \in asked : i \in DOMAIN config.upstreams /\ config.upstreams[i].dialect = dialect
  BY DEF Asked
<1>4. SentOK'
  <2> HIDE DEF names, asked
  <2>1. ASSUME NEW i \in asked, NEW out, out = Out("upstreams", config.upstreams[i], r, names, <<>>)
        PROVE  Kept(out, config.upstreams[i]) /\ out.kind = "upstreams"
    BY <1>2, <1>3, <2>1, OutKept, QueryAskable, TargetsSound, UpstreamsOrdered DEF ProxyInv
  <2> QED
    BY <1>1, <1>3, <2>1, UpstreamsOrdered DEF ProxyInv, SentOK
<1>5. Authorised(r, dialect, Token) = 200
  BY DEF ListModels, Admitted
<1>6. ListOK'
  <2>1. PICK offers \in [asked -> SUBSET Models] :
          listed' = [dialect |-> dialect, request |-> r, models |-> Listing(asked, offers)]
    BY DEF ListModels
  <2> HIDE DEF asked
  <2>2. ASSUME NEW m \in listed'.models
        PROVE  \E u \in ToSet(config.upstreams) : u.dialect = dialect /\ Serves(u, m.model)
    <3>1. PICK i \in asked : Serves(config.upstreams[i], m.model)
      BY <2>1, <2>2 DEF Listing
    <3> QED
      BY <1>3, <3>1, UpstreamsOrdered DEF ProxyInv
  <2> QED
    BY <1>1, <1>5, <2>1, <2>2 DEF ListOK
<1> QED
  BY <1>1, <1>4, <1>6, OnlySent

LEMMA RelaySteps ==
  ASSUME ProxyInv, NEW out, NEW ready \in BOOLEAN,
         ready => \E t \in ToSet(config[out.kind]) : Kept(out, t),
         Relay(out, ready)
  PROVE  ProxyInv'
<1>1. /\ UNCHANGED config /\ call' = None /\ record' = None /\ listed'.models = {}
      /\ sent' = IF ready THEN {out} ELSE {}
  BY DEF Relay, NoList
<1>2. SentOK'
  BY <1>1 DEF SentOK
<1> QED
  BY <1>1, <1>2, OnlySent DEF ListOK

LEMMA DetailsSteps ==
  ASSUME TokenApart, UpstreamsRead, ProxyInv,
         NEW dialect, NEW model, NEW r \in Requests, Details(dialect, model, r)
  PROVE  ProxyInv'
<1>1. PICK u : u = Route(config.upstreams, dialect, model)
  OBVIOUS
<1> DEFINE ready == u # None /\ Ready(u, Credentials(r))
<1>2. PICK out : out = Out("upstreams", u, r, {}, <<>>)
  OBVIOUS
<1>3. Relay(out, ready)
  BY <1>1, <1>2 DEF Details
<1>4. ready \in BOOLEAN /\ (ready => u \in ToSet(config.upstreams) /\ u \in Targets)
  BY <1>1, RouteIs DEF ProxyInv
<1>5. u \in Targets => Kept(out, u) /\ out.kind = "upstreams"
  BY <1>2, OutKept, QueryAskable, TargetsSound DEF ProxyInv
<1> HIDE DEF ready
<1> QED
  BY <1>3, <1>4, <1>5, RelaySteps

LEMMA VersionSteps ==
  ASSUME TokenApart, UpstreamsRead, ProxyInv, NEW r \in Requests, Version(r)
  PROVE  ProxyInv'
<1> DEFINE asked == Asked("ollama", r)
<1>1. /\ UNCHANGED config /\ call' = None /\ record' = None /\ listed'.models = {}
      /\ \E n : sent' = {Out("upstreams", config.upstreams[i], r, {}, <<>>) : i \in {j \in asked : j <= n}}
  BY DEF Version, NoList
<1>2. \A i \in asked : i \in DOMAIN config.upstreams
  BY DEF Asked
<1> HIDE DEF asked
<1>3. ASSUME NEW i \in asked, NEW out, out = Out("upstreams", config.upstreams[i], r, {}, <<>>)
      PROVE  Kept(out, config.upstreams[i]) /\ out.kind = "upstreams"
  BY <1>2, <1>3, OutKept, QueryAskable, TargetsSound, UpstreamsOrdered DEF ProxyInv
<1>4. SentOK'
  BY <1>1, <1>2, <1>3, UpstreamsOrdered DEF ProxyInv, SentOK
<1> QED
  BY <1>1, <1>4, OnlySent DEF ListOK

\* A server or agent that is named is one of the file.
LEMMA NamedIs ==
  ASSUME ConfigOK, NEW kind \in {"mcp_servers", "a2a_agents"}, NEW name,
         Named(config[kind], name) # None
  PROVE  Named(config[kind], name) \in ToSet(config[kind]) \cap Targets
<1>1. kind \in DOMAIN config
  BY DEF ConfigOK, NoConfig, LoadUpstreams
<1> QED
  BY <1>1 DEF Named, Targets

LEMMA CallTargetSteps ==
  ASSUME TokenApart, UpstreamsRead, ProxyInv,
         NEW kind \in {"mcp_servers", "a2a_agents"}, NEW name, NEW r \in Requests,
         CallTarget(kind, name, r)
  PROVE  ProxyInv'
<1>1. PICK t : t = Named(config[kind], name)
  OBVIOUS
<1> DEFINE ready == t # None /\ Ready(t, Credentials(r))
<1>2. PICK out : out = Out(kind, t, r, RelayHeaders(kind), r.query)
  OBVIOUS
<1>3. Relay(out, ready) /\ Authorised(r, "none", Token) = 200
  BY <1>1, <1>2 DEF CallTarget, Admitted
<1>4. ready \in BOOLEAN /\ (ready => t \in ToSet(config[kind]) /\ t \in Targets)
  BY <1>1, NamedIs DEF ProxyInv
<1>5. t \in Targets => Kept(out, t) /\ out.kind = kind
  <2>1. RelayHeaders(kind) \in SUBSET Formatted
    BY DEF RelayHeaders, Formatted
  <2> QED
    BY <1>2, <1>3, <2>1, OutKept, QueryAskable, TargetsSound DEF ProxyInv
<1> HIDE DEF ready
<1> QED
  BY <1>3, <1>4, <1>5, RelaySteps

LEMMA CardSteps ==
  ASSUME TokenApart, UpstreamsRead, ProxyInv, NEW name, NEW r \in Requests, Card(name, r)
  PROVE  ProxyInv'
<1>1. PICK t : t = Named(config.a2a_agents, name)
  OBVIOUS
<1> DEFINE ready == t # None /\ Ready(t, Credentials(r))
<1>2. PICK out : out = Out("a2a_agents", t, r, {}, <<>>)
  OBVIOUS
<1>3. Relay(out, ready)
  BY <1>1, <1>2 DEF Card
<1>4. ready \in BOOLEAN /\ (ready => t \in ToSet(config.a2a_agents) /\ t \in Targets)
  BY <1>1, NamedIs DEF ProxyInv
<1>5. t \in Targets => Kept(out, t) /\ out.kind = "a2a_agents"
  BY <1>2, OutKept, QueryAskable, TargetsSound DEF ProxyInv
<1> HIDE DEF ready
<1> QED
  BY <1>3, <1>4, <1>5, RelaySteps

LEMMA OperationHasDialect ==
  ASSUME NEW operation \in UNION {Operations[d] : d \in DialectNames}
  PROVE  DialectOf(operation) \in DialectNames
<1>1. \E d \in DOMAIN Operations : operation \in Operations[d]
  BY DEF DialectNames
<1> QED
  BY <1>1 DEF DialectOf, DialectNames

LEMMA ForwardSteps ==
  ASSUME TokenApart, UpstreamsRead, ProxyInv,
         NEW operation \in UNION {Operations[d] : d \in DialectNames},
         NEW model, NEW r \in Requests, NEW streaming, NEW counted,
         Forward(operation, model, r, streaming, counted)
  PROVE  ProxyInv'
<1>1. PICK d, u, s :
        /\ d = DialectOf(operation)
        /\ u = Route(config.upstreams, d, model)
        /\ s = StatusOf(operation, model, r, streaming)
  OBVIOUS
<1>2. /\ UNCHANGED config /\ record' = None /\ listed'.models = {}
      /\ call' = [operation |-> operation, model |-> model, request |-> r,
                  streaming |-> streaming, counted |-> counted, status |-> s,
                  target |-> IF s = None THEN u ELSE None,
                  waslisted |-> WasListed(d, model, r)]
      /\ sent' = IF s = None
                 THEN {Out("upstreams", u, r, Passthrough[d], WithoutKey(r.query))} ELSE {}
  BY <1>1 DEF Forward, NoList
<1>3. \/ u = None /\ \A v \in ToSet(config.upstreams) :
                        ~(v.dialect = d /\ Serves(v, model))
      \/ /\ u # None /\ u \in ToSet(config.upstreams) /\ u \in Targets
         /\ First(u, d, model)
  BY <1>1, RouteIs DEF ProxyInv
<1>4. s = IF Authorised(r, d, Token) # 200 THEN Authorised(r, d, Token)
          ELSE IF streaming /\ operation \notin Streaming THEN 400
          ELSE IF u = None THEN IF DialectsFor(config.upstreams, model) # {} THEN 400 ELSE 404
          ELSE IF Ready(u, Credentials(r)) THEN None ELSE 503
  BY <1>1 DEF StatusOf
<1>5. s = None => u # None
  BY <1>4 DEF Authorised, UpstreamsRead
<1>6. ConfigOK' /\ ListOK' /\ RecordOK'
  BY <1>2 DEF ProxyInv, ConfigOK, ListOK, RecordOK
<1>7. CallOK'
  BY <1>2, <1>3, <1>5 DEF CallOK
<1>8. SentOK'
  <2>1. CASE s = None
    <3>1. Passthrough[d] \in SUBSET Formatted
      BY <1>1, OperationHasDialect DEF Passthrough, Formatted
    <3>2. PICK out : out = Out("upstreams", u, r, Passthrough[d], WithoutKey(r.query))
      OBVIOUS
    <3>3. Kept(out, u) /\ out.kind = "upstreams"
      BY <1>3, <1>5, <2>1, <3>1, <3>2, OutKept, QueryAskable, TargetsSound DEF ProxyInv
    <3> QED
      BY <1>2, <1>3, <1>5, <2>1, <3>2, <3>3 DEF SentOK
  <2>2. CASE s # None
    BY <1>2, <2>2 DEF SentOK
  <2> QED
    BY <2>1, <2>2
<1>9. ListedCanBeCalled'
  <2> SUFFICES ASSUME call'.waslisted, call'.streaming => call'.operation \in Streaming
               PROVE  /\ First(u, d, model)
                      /\ IF call'.target = None THEN call'.status = 503 /\ MissingKey(u)
                         ELSE call'.target = u
    BY <1>1, <1>2 DEF ListedCanBeCalled, First
  <2>1. listed.dialect = d /\ listed.request = r /\ \E m \in listed.models : m.model = model
    BY <1>2 DEF WasListed
  <2>2. /\ Authorised(r, d, Token) = 200
        /\ \E v \in ToSet(config.upstreams) : v.dialect = d /\ Serves(v, model)
    BY <2>1 DEF ProxyInv, ListOK
  <2>3. u # None /\ First(u, d, model)
    BY <1>3, <2>2
  <2>4. s = IF Ready(u, Credentials(r)) THEN None ELSE 503
    BY <1>2, <1>4, <2>2, <2>3
  <2>5. CASE s = None
    BY <1>2, <2>3, <2>5
  <2>6. CASE s # None
    BY <1>2, <2>3, <2>4, <2>6 DEF Ready
  <2> QED
    BY <2>5, <2>6
<1> QED
  BY <1>6, <1>7, <1>8, <1>9 DEF ProxyInv

LEMMA RecordedSteps ==
  ASSUME TokenApart, UpstreamsRead, ProxyInv,
         NEW raw, NEW status, NEW cut, NEW gift, Recorded(raw, status, cut, gift)
  PROVE  ProxyInv'
<1>1. /\ UNCHANGED <<config, listed, sent>> /\ call # None /\ call.status = None
      /\ record'.endpoint = call.target.url
      /\ call' = [call EXCEPT !.status = status]
  BY DEF Recorded, InFlight, Entry
<1>2. /\ call.target \in ToSet(config.upstreams)
      /\ {"operation", "model", "streaming", "status", "target", "waslisted"} \subseteq DOMAIN call
  BY <1>1 DEF ProxyInv, CallOK
<1>3. call.target # None /\ call.target \in Targets
  BY <1>2, UpstreamsOrdered DEF ProxyInv, ToSet
<1>4. /\ call'.target = call.target /\ call'.operation = call.operation
      /\ call'.model = call.model /\ call'.streaming = call.streaming
      /\ call'.waslisted = call.waslisted /\ DOMAIN call' = DOMAIN call
  BY <1>1, <1>2
<1>5. CallOK'
  BY <1>1, <1>2, <1>4 DEF CallOK
<1>6. RecordOK'
  BY <1>1, <1>3, TargetsSound DEF ProxyInv, RecordOK, Sound
<1>7. ConfigOK' /\ ListOK' /\ SentOK'
  BY <1>1 DEF ProxyInv, ConfigOK, ListOK, SentOK
<1>8. ListedCanBeCalled'
  BY <1>1, <1>3, <1>4 DEF ProxyInv, ListedCanBeCalled
<1> QED
  BY <1>5, <1>6, <1>7, <1>8 DEF ProxyInv

LEMMA ProxySteps ==
  ASSUME TokenApart, UpstreamsRead, ProxyInv, [ProxyNext]_proxyVars
  PROVE  ProxyInv'
<1>1. ASSUME NEW file \in Files, NEW env \in Environs, Start(file, env)
      PROVE  ProxyInv'
  BY <1>1, StartSteps
<1>2. ASSUME NEW dialect \in DialectNames, NEW r \in Requests, ListModels(dialect, r)
      PROVE  ProxyInv'
  BY <1>2, ListModelsSteps
<1>3. ASSUME NEW operation \in UNION {Operations[d] : d \in DialectNames}, NEW model,
             NEW r \in Requests, NEW streaming, NEW counted,
             Forward(operation, model, r, streaming, counted)
      PROVE  ProxyInv'
  BY <1>3, ForwardSteps
<1>4. ASSUME NEW dialect, NEW model, NEW r \in Requests, Details(dialect, model, r)
      PROVE  ProxyInv'
  BY <1>4, DetailsSteps
<1>5. ASSUME NEW r \in Requests, Version(r)
      PROVE  ProxyInv'
  BY <1>5, VersionSteps
<1>6. ASSUME NEW kind \in {"mcp_servers", "a2a_agents"}, NEW r \in Requests, NEW name,
             CallTarget(kind, name, r)
      PROVE  ProxyInv'
  BY <1>6, CallTargetSteps
<1>11. ASSUME NEW r \in Requests, NEW name, Card(name, r)
       PROVE  ProxyInv'
  BY <1>11, CardSteps
<1>7. ASSUME NEW reply, RepliesWhole(reply)
      PROVE  ProxyInv'
  BY <1>7, RecordedSteps DEF RepliesWhole
<1>8. ASSUME NEW status, Refuses(status)
      PROVE  ProxyInv'
  BY <1>8, RecordedSteps DEF Refuses
<1>9. ASSUME NEW reply, NEW n, NEW how, Streams(reply, n, how)
      PROVE  ProxyInv'
  <2>1. PICK raw : Recorded(raw, 200, how \in {"broken", "torn", "left"},
                                  Gift(reply, n, how))
    BY <1>9, Zenon DEF Streams
  <2> QED
    BY <2>1, RecordedSteps
<1>10. ASSUME UNCHANGED proxyVars
       PROVE  ProxyInv'
  BY <1>10 DEF proxyVars, ProxyInv, ConfigOK, CallOK, ListOK, SentOK, RecordOK,
               ListedCanBeCalled
<1> QED
  BY <1>1, <1>2, <1>3, <1>4, <1>5, <1>6, <1>7, <1>8, <1>9, <1>10, <1>11, Zenon DEF ProxyNext

\* For every file, environment, client and provider: a credential in a header that goes out is the
\* target's own key, or that of the client it is sent for if the target asks for it; the recorder's
\* token is in no header and no query that does, and `key` in no model call; and no record names an
\* endpoint with a login or a query (`with_credential`, `client_credentials`, `_build`).
THEOREM ModelCallsCredentialsStay == ProxySpec => []CredentialsStay
<1>1. ProxyInv => CredentialsStay
  BY DEF ProxyInv, SentOK, RecordOK, Kept, CredentialsStay
<1>2. ProxyInit => ProxyInv
  BY ProxyInitial
<1>3. ProxyInv /\ [ProxyNext]_proxyVars => ProxyInv'
  BY ModelCallsAssumption, ProxySteps
<1> QED
  BY <1>1, <1>2, <1>3, PTL DEF ProxySpec

\* For every file and every offer of the providers: a model that a client was just listed goes out
\* to the first upstream of the format that serves it, or is refused for want of its key (`route`).
THEOREM ModelCallsListedCanBeCalled == ProxySpec => []ListedCanBeCalled
<1>1. ProxyInv => ListedCanBeCalled
  BY DEF ProxyInv
<1>2. ProxyInit => ProxyInv
  BY ProxyInitial
<1>3. ProxyInv /\ [ProxyNext]_proxyVars => ProxyInv'
  BY ModelCallsAssumption, ProxySteps
<1> QED
  BY <1>1, <1>2, <1>3, PTL DEF ProxySpec
=============================================================================
