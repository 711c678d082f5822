--------------------------- MODULE AnchoringProofs --------------------------
(***************************************************************************)
(* Anchoring for every number of runs, exports, witnesses, lock objects    *)
(* and failures: the lock objects that anchor_run makes and forgets, and   *)
(* what a run that ends in an anchor record is covered by.                 *)
(***************************************************************************)
EXTENDS Anchoring, SequenceTheorems, TLAPS

\* Between reading a head and writing the last anchor over it.
Anchors(k) == pc[k] \in {"ask", "write"}

-----------------------------------------------------------------------------
\* The inductive invariant

\* What the position of a task says of its own variables.
PlaceOK(k) ==
    /\ lk[k] # None <=> Inside(k) \/ pc[k] = "wait"
    /\ lk[k] # None \/ pc[k] = "end" => run[k] # None
    /\ Anchors(k) => ask[k] # <<>> /\ head[k] <= Len(chain[run[k]])

\* A lock object has one owner and serves one run.
LocksApart ==
    /\ \A j, k \in Tasks : Inside(j) /\ Inside(k) /\ lk[j] = lk[k] => j = k
    /\ \A j, k \in Tasks : lk[j] # None /\ lk[j] = lk[k] => run[j] = run[k]

LInv ==
    /\ TypeOK
    /\ \A k \in Tasks : PlaceOK(k)
    /\ LocksApart
    /\ LocksForgotten

\* The witnesses a task has yet to ask are the last ones of those configured.
AskedInOrder(k) ==
    /\ Len(ask[k]) <= Len(Witnesses)
    /\ \A i \in 1..Len(ask[k]) : ask[k][i] = Witnesses[Len(Witnesses) - Len(ask[k]) + i]

\* The run holds the receipt of the witness, or the witness failed for it.
Given(r, w, n) == <<r, w>> \in missed \/ Receipt(r, w, n)

\* The witnesses that were asked have given their receipts, unless they failed.
Receipts(k) ==
    Anchors(k) /\ Open(run[k]) =>
        \A w \in 1..Len(Witnesses) - Len(ask[k]) : Given(run[k], Witnesses[w], head[k])

CoveredTo(r, n) == \A w \in 1..Len(Witnesses) : Given(r, Witnesses[w], n)

\* What a run's last anchor covers all cover, or the task that wrote it is still at work.
CoveredOrAtWork ==
    \A r \in Runs : KindOf(r) = "anchor" =>
        \/ CoveredTo(r, Last(r).over)
        \/ \E k \in Tasks : Anchors(k) /\ run[k] = r /\ head[k] = Last(r).over

CInv ==
    /\ \A k \in Tasks : AskedInOrder(k) /\ Receipts(k)
    /\ CoveredOrAtWork
-----------------------------------------------------------------------------
\* Records are only appended

\* What an appended record changes of the chains.
LEMMA ExtendFacts ==
  ASSUME TypeOK, NEW r \in Runs, NEW x \in Records, Extend(r, x)
  PROVE  /\ chain' \in [Runs -> Seq(Records)]
         /\ Len(chain'[r]) = Len(chain[r]) + 1
         /\ chain'[r][Len(chain[r]) + 1] = x
         /\ \A i \in 1..Len(chain[r]) : chain'[r][i] = chain[r][i]
         /\ \A q \in Runs : q # r => chain'[q] = chain[q]
<1>1. chain[r] \in Seq(Records) /\ chain'[r] = Append(chain[r], x)
  BY DEF TypeOK, Extend
<1>2. Append(chain[r], x) \in Seq(Records)
  BY <1>1, AppendProperties
<1>3. chain' \in [Runs -> Seq(Records)]
  BY <1>2 DEF TypeOK, Extend
<1>4. \A q \in Runs : q # r => chain'[q] = chain[q]
  BY DEF TypeOK, Extend
<1> QED
  BY <1>1, <1>3, <1>4, AppendProperties

\* The chains only grow, and an anchor covers a record before it.
Grows ==
    /\ chain' \in [Runs -> Seq(Records)]
    /\ \A r \in Runs : Len(chain[r]) <= Len(chain'[r])
    /\ \A r \in Runs : \A i \in 1..Len(chain'[r]) :
        chain'[r][i].kind = "anchor" => chain'[r][i].over < i

LEMMA ExtendGrows ==
  ASSUME TypeOK, NEW r \in Runs, NEW x \in Records, Extend(r, x),
         x.kind = "anchor" => x.over <= Len(chain[r])
  PROVE  Grows
<1>1. chain[r] \in Seq(Records)
  BY DEF TypeOK
<1>2. Len(chain[r]) \in Nat
  BY <1>1, LenProperties
<1>3. x.kind = "anchor" => x.over \in Nat
  BY DEF Records, Plain, End
<1>4. \A i \in 1..Len(chain'[r]) : chain'[r][i].kind = "anchor" => chain'[r][i].over < i
  <2> SUFFICES ASSUME NEW i \in 1..Len(chain'[r]), chain'[r][i].kind = "anchor"
               PROVE  chain'[r][i].over < i
    OBVIOUS
  <2>1. CASE i \in 1..Len(chain[r])
    BY <2>1, ExtendFacts DEF TypeOK
  <2>2. CASE i = Len(chain[r]) + 1
    BY <2>2, <1>2, <1>3, ExtendFacts
  <2> QED
    BY <2>1, <2>2, <1>2, ExtendFacts
<1>5. \A q \in Runs : Len(chain[q]) <= Len(chain'[q])
  <2> TAKE q \in Runs
  <2>1. Len(chain[q]) \in Nat
    BY LenProperties DEF TypeOK
  <2> QED
    BY <2>1, <1>2, ExtendFacts
<1>6. \A q \in Runs : \A i \in 1..Len(chain'[q]) :
         chain'[q][i].kind = "anchor" => chain'[q][i].over < i
  BY <1>4, ExtendFacts DEF TypeOK
<1> QED
  BY <1>5, <1>6, ExtendFacts DEF Grows

LEMMA SameGrows ==
  ASSUME TypeOK, UNCHANGED chain
  PROVE  Grows
<1>1. \A r \in Runs : Len(chain[r]) \in Nat
  BY LenProperties DEF TypeOK
<1> QED
  BY <1>1 DEF Grows, TypeOK
-----------------------------------------------------------------------------
\* Lock objects

\* The variables that `anchor_run` leaves to others.
RestTyped ==
    /\ ending' \in [Tasks -> BOOLEAN]
    /\ todo' \subseteq Runs
    /\ plain' \in 0..MaxPlain /\ faults' \in 0..MaxFaults
    /\ missed' \subseteq Runs \X Asked

LEMMA InitLocks == Init => LInv
<1> SUFFICES ASSUME Init PROVE LInv
  OBVIOUS
<1>1. <<>> \in Seq(Records) /\ <<>> \in Seq(Asked) /\ Len(<<>>) = 0
  BY EmptySeq
<1>2. ending \in [Tasks -> BOOLEAN]
  <2>1. PICK E \in SUBSET Exports : ending = [k \in Tasks |-> k \in E]
    BY DEF Init
  <2>2. \A k \in Tasks : (k \in E) \in BOOLEAN
    OBVIOUS
  <2> QED
    BY <2>1, <2>2, Zenon
<1>3. pc \in [Tasks -> {"new", "sleep"}]
  BY DEF Init
<1>4. TypeOK
  BY <1>1, <1>2, <1>3, AnchoringAssumption DEF Init, TypeOK
<1>5. \A k \in Tasks : PlaceOK(k)
  BY <1>3, AnchoringAssumption DEF Init, PlaceOK, Anchors, Inside
<1>6. LocksApart
  BY <1>3 DEF Init, LocksApart, Inside
<1>7. LocksForgotten
  BY DEF Init, LocksForgotten
<1> QED
  BY <1>4, <1>5, <1>6, <1>7 DEF LInv

\* Leaving anchor_run drops the lock object and, if it is still the run's, its entry.
LEMMA LeaveLocks ==
  ASSUME LInv, NEW k \in Tasks, Inside(k), NEW raised \in BOOLEAN, Leave(k, raised),
         Grows, RestTyped
  PROVE  LInv'
<1>1. TypeOK /\ PlaceOK(k) /\ LocksApart /\ LocksForgotten
  BY DEF LInv
<1>2. run[k] \in Runs /\ lk[k] \in Locks
  BY <1>1 DEF TypeOK, PlaceOK
<1>3. /\ busy' \in [Runs -> Locks \cup {None}]
      /\ \A r \in Runs : busy'[r] # None => busy'[r] = busy[r] /\ ~(r = run[k] /\ busy[r] = lk[k])
  BY <1>1, <1>2 DEF Leave, TypeOK
<1>4. lk' \in [Tasks -> Locks \cup {None}] /\ lk' = [lk EXCEPT ![k] = None]
  BY <1>1 DEF Leave, TypeOK
<1>5. head' \in [Tasks -> Nat] /\ head' = [head EXCEPT ![k] = 0]
  BY <1>1 DEF Leave, TypeOK
<1>6. ask' \in [Tasks -> Seq(Asked)] /\ ask' = [ask EXCEPT ![k] = <<>>]
  BY <1>1, EmptySeq DEF Leave, TypeOK
<1>7. /\ pc' \in [Tasks -> {"new", "sleep", "visit", "wait", "head", "ask", "write", "end", "done"}]
      /\ \E to \in {"visit", "end", "done"} : pc' = [pc EXCEPT ![k] = to] /\ (to = "end" => k # Loop)
  BY <1>1 DEF Leave, Goto, TypeOK
<1>8. run' \in [Tasks -> Runs \cup {None}] /\ (\A j \in Tasks : j # k => run'[j] = run[j])
      /\ (k # Loop => run'[k] = run[k])
  BY <1>1 DEF Leave, TypeOK
<1>9. TypeOK'
  BY <1>3, <1>4, <1>5, <1>6, <1>7, <1>8 DEF TypeOK, Grows, RestTyped
<1>10. \A j \in Tasks : PlaceOK(j)'
  <2> SUFFICES ASSUME NEW j \in Tasks PROVE PlaceOK(j)'
    OBVIOUS
  <2>1. CASE j = k
    BY <2>1, <1>1, <1>2, <1>4, <1>7, <1>8, AnchoringAssumption DEF PlaceOK, Anchors, Inside, TypeOK
  <2>2. CASE j # k
    <3>1. PlaceOK(j) /\ lk'[j] = lk[j] /\ pc'[j] = pc[j] /\ run'[j] = run[j] /\ ask'[j] = ask[j]
          /\ head'[j] = head[j]
      BY <2>2, <1>1, <1>4, <1>5, <1>6, <1>7, <1>8 DEF LInv, TypeOK
    <3>2. ASSUME Anchors(j) PROVE head[j] <= Len(chain'[run[j]])
      <4>1. run[j] \in Runs /\ head[j] \in Nat /\ head[j] <= Len(chain[run[j]])
        BY <3>1, <3>2, <1>1 DEF PlaceOK, Anchors, Inside, TypeOK
      <4>2. Len(chain[run[j]]) \in Nat /\ Len(chain'[run[j]]) \in Nat
        BY <4>1, <1>1, LenProperties DEF TypeOK, Grows
      <4> QED
        BY <4>1, <4>2 DEF Grows
    <3> QED
      BY <3>1, <3>2 DEF PlaceOK, Anchors, Inside
  <2> QED
    BY <2>1, <2>2
<1>11. LocksApart'
  BY <1>1, <1>4, <1>7, <1>8 DEF LocksApart, Inside, TypeOK
<1>12. LocksForgotten'
  <2> SUFFICES ASSUME NEW r \in Runs, busy'[r] # None
               PROVE  \E j \in Tasks : Inside(j)' /\ lk'[j] = busy'[r] /\ run'[j] = r
    BY DEF LocksForgotten
  <2>1. PICK j \in Tasks : Inside(j) /\ lk[j] = busy[r] /\ run[j] = r
    BY <1>1, <1>3 DEF LocksForgotten
  <2>2. j # k
    BY <2>1, <1>3
  <2> QED
    BY <2>1, <2>2, <1>3, <1>4, <1>7, <1>8, <1>1 DEF Inside, TypeOK
<1> QED
  BY <1>9, <1>10, <1>11, <1>12 DEF LInv

\* A task that keeps its run and its lock object while it moves on inside.
LEMMA MoveLocks ==
  ASSUME LInv, NEW k \in Tasks, Inside(k), Grows, RestTyped,
         UNCHANGED <<busy, lk, run>>,
         NEW to \in {"ask", "write"}, Goto(k, to),
         head' \in [Tasks -> Nat], ask' \in [Tasks -> Seq(Asked)],
         \A j \in Tasks : j # k => head'[j] = head[j] /\ ask'[j] = ask[j],
         ask'[k] # <<>>, head'[k] <= Len(chain[run[k]])
  PROVE  LInv'
<1>1. TypeOK /\ LocksApart /\ LocksForgotten /\ \A j \in Tasks : PlaceOK(j)
  BY DEF LInv
<1>2. pc' = [pc EXCEPT ![k] = to]
  BY DEF Goto
<1>3. pc' \in [Tasks -> {"new", "sleep", "visit", "wait", "head", "ask", "write", "end", "done"}]
  BY <1>1, <1>2 DEF TypeOK
<1>4. TypeOK'
  BY <1>1, <1>3 DEF TypeOK, Grows, RestTyped
<1>5. \A j \in Tasks : Inside(j)' <=> Inside(j)
  BY <1>1, <1>2 DEF Inside, TypeOK
<1>6. \A j \in Tasks : PlaceOK(j)'
  <2> SUFFICES ASSUME NEW j \in Tasks PROVE PlaceOK(j)'
    OBVIOUS
  <2>1. PlaceOK(j) /\ (j # k => pc'[j] = pc[j]) /\ pc'[k] = to
    BY <1>1, <1>2 DEF TypeOK
  <2>2. Anchors(j)' => ask'[j] # <<>>
    BY <2>1 DEF PlaceOK, Anchors
  <2>3. ASSUME Anchors(j)' PROVE head'[j] <= Len(chain'[run[j]])
    <3>1. run[j] \in Runs /\ head'[j] \in Nat
      BY <2>1, <2>3, <1>1 DEF PlaceOK, Anchors, Inside, TypeOK
    <3>2. head'[j] <= Len(chain[run[j]])
      BY <2>1, <2>3 DEF PlaceOK, Anchors
    <3>3. Len(chain[run[j]]) \in Nat /\ Len(chain'[run[j]]) \in Nat
      BY <3>1, <1>1, LenProperties DEF TypeOK, Grows
    <3> QED
      BY <3>1, <3>2, <3>3 DEF Grows
  <2> QED
    BY <2>1, <2>2, <2>3, <1>5 DEF PlaceOK, Inside
<1>7. LocksApart'
  BY <1>1, <1>5 DEF LocksApart
<1>8. LocksForgotten'
  BY <1>1, <1>5 DEF LocksForgotten
<1> QED
  BY <1>4, <1>6, <1>7, <1>8 DEF LInv

LEMMA NextWitnessLocks ==
  ASSUME LInv, NEW k \in Tasks, Anchors(k), NextWitness(k), Grows, RestTyped
  PROVE  LInv'
<1>1. TypeOK /\ PlaceOK(k) /\ Inside(k)
  BY DEF LInv, Anchors, Inside
<1>2. CASE Len(ask[k]) = 1
  BY <1>1, <1>2, LeaveLocks DEF NextWitness
<1>3. CASE Len(ask[k]) # 1
  <2>1. ask' = [ask EXCEPT ![k] = Tail(@)] /\ Goto(k, "ask") /\ UNCHANGED <<busy, lk, head, run>>
    BY <1>3 DEF NextWitness
  <2>2. ask[k] \in Seq(Asked) /\ ask[k] # <<>>
    BY <1>1 DEF TypeOK, PlaceOK
  <2>3. Tail(ask[k]) \in Seq(Asked) /\ Len(Tail(ask[k])) = Len(ask[k]) - 1 /\ Len(ask[k]) \in Nat
    BY <2>2, HeadTailProperties, LenProperties
  <2>4. ask[k] # <<>> => Len(ask[k]) # 0
    BY <2>2, EmptySeq
  <2>5. Tail(ask[k]) # <<>>
    <3>1. Len(Tail(ask[k])) # 0
      BY <2>2, <2>3, <2>4, <1>3
    <3>2. ASSUME Tail(ask[k]) = <<>> PROVE Len(Tail(ask[k])) = 0
      BY <3>2, EmptySeq, Zenon
    <3> QED
      BY <3>1, <3>2
  <2>6. ask' \in [Tasks -> Seq(Asked)] /\ ask'[k] # <<>>
    BY <2>1, <2>3, <2>5, <1>1 DEF TypeOK
  <2>7. \A j \in Tasks : j # k => head'[j] = head[j] /\ ask'[j] = ask[j]
    BY <2>1, <1>1 DEF TypeOK
  <2>8. head' \in [Tasks -> Nat] /\ head'[k] <= Len(chain[run[k]])
    BY <2>1, <1>1 DEF TypeOK, PlaceOK
  <2>9. "ask" \in {"ask", "write"} /\ UNCHANGED <<busy, lk, run>> /\ Goto(k, "ask")
    BY <2>1
  <2> QED
    BY <1>1, <2>6, <2>7, <2>8, <2>9, MoveLocks
<1> QED
  BY <1>2, <1>3

\* No lock object, head or chain changes, and the task stays outside anchor_run.
LEMMA IdleLocks ==
  ASSUME LInv, NEW k \in Tasks, lk[k] = None, RestTyped, Grows,
         UNCHANGED <<busy, run, lk, head, ask>>,
         NEW to \in {"sleep", "visit", "done"}, Goto(k, to)
  PROVE  LInv'
<1>1. TypeOK /\ LocksApart /\ LocksForgotten /\ \A j \in Tasks : PlaceOK(j)
  BY DEF LInv
<1>2. pc' = [pc EXCEPT ![k] = to]
  BY DEF Goto
<1>3. TypeOK'
  BY <1>1, <1>2 DEF TypeOK, Grows, RestTyped
<1>4. \A j \in Tasks : (Inside(j)' <=> Inside(j)) /\ (Anchors(j)' <=> Anchors(j))
  BY <1>1, <1>2 DEF Inside, TypeOK, PlaceOK, Anchors
<1>5. \A j \in Tasks : PlaceOK(j)'
  <2> SUFFICES ASSUME NEW j \in Tasks PROVE PlaceOK(j)'
    OBVIOUS
  <2>1. ASSUME Anchors(j) PROVE head[j] <= Len(chain'[run[j]])
    <3>1. run[j] \in Runs /\ head[j] \in Nat /\ head[j] <= Len(chain[run[j]])
      BY <2>1, <1>1 DEF PlaceOK, Anchors, Inside, TypeOK
    <3>2. Len(chain[run[j]]) \in Nat /\ Len(chain'[run[j]]) \in Nat
      BY <3>1, <1>1, LenProperties DEF TypeOK, Grows
    <3> QED
      BY <3>1, <3>2 DEF Grows
  <2> QED
    BY <2>1, <1>1, <1>2, <1>4 DEF PlaceOK, Inside, TypeOK
<1>6. LocksApart' /\ LocksForgotten'
  BY <1>1, <1>4 DEF LocksApart, LocksForgotten
<1> QED
  BY <1>3, <1>5, <1>6 DEF LInv

\* A task takes the lock object of its run, or a new one, or waits for it.
LEMMA EnterLocks ==
  ASSUME LInv, NEW k \in Tasks, NEW r \in Runs, Enter(k, r)
  PROVE  LInv'
<1>1. TypeOK /\ LocksApart /\ LocksForgotten /\ \A j \in Tasks : PlaceOK(j)
  BY DEF LInv
<1>2. pc[k] \in {"visit", "new"} /\ lk[k] = None
  BY <1>1 DEF Enter, PlaceOK, Inside
<1>3. RestTyped /\ UNCHANGED <<chain, head, ask>> /\ run' = [run EXCEPT ![k] = r]
  BY <1>1 DEF Enter, TypeOK, RestTyped
<1>4. PICK l \in Locks :
        /\ busy[r] # None => l = busy[r]
        /\ busy[r] = None => \A j \in Tasks : lk[j] # l
        /\ busy' = [busy EXCEPT ![r] = l]
        /\ lk' = [lk EXCEPT ![k] = l]
        /\ Goto(k, IF \E j \in Tasks : Inside(j) /\ lk[j] = l THEN "wait" ELSE "head")
  BY DEF Enter
<1>5. l # None
  BY AnchoringAssumption
<1>6. PICK to \in {"wait", "head"} :
        /\ pc' = [pc EXCEPT ![k] = to]
        /\ to = "head" => ~\E j \in Tasks : Inside(j) /\ lk[j] = l
  BY <1>4 DEF Goto
<1>7. /\ pc' \in [Tasks -> {"new", "sleep", "visit", "wait", "head", "ask", "write", "end", "done"}]
      /\ busy' \in [Runs -> Locks \cup {None}]
      /\ lk' \in [Tasks -> Locks \cup {None}]
      /\ run' \in [Tasks -> Runs \cup {None}]
  BY <1>1, <1>3, <1>4, <1>6 DEF TypeOK
<1>8. TypeOK'
  BY <1>1, <1>3, <1>7 DEF TypeOK, RestTyped
<1>9. \A j \in Tasks : j # k =>
        pc'[j] = pc[j] /\ lk'[j] = lk[j] /\ run'[j] = run[j] /\ (Inside(j)' <=> Inside(j))
  BY <1>1, <1>3, <1>4, <1>6 DEF TypeOK, Inside
<1>10. lk'[k] = l /\ pc'[k] = to /\ run'[k] = r
  BY <1>1, <1>3, <1>4, <1>6 DEF TypeOK
<1>11. \A j \in Tasks : lk[j] = l => run[j] = r
  <2> SUFFICES ASSUME NEW j \in Tasks, lk[j] = l PROVE run[j] = r
    OBVIOUS
  <2>1. busy[r] # None /\ l = busy[r]
    BY <1>4
  <2>2. PICK i \in Tasks : lk[i] = busy[r] /\ run[i] = r
    BY <2>1, <1>1 DEF LocksForgotten
  <2> QED
    BY <2>1, <2>2, <1>1, <1>5 DEF LocksApart
<1>12. \A j \in Tasks : PlaceOK(j)'
  <2> SUFFICES ASSUME NEW j \in Tasks PROVE PlaceOK(j)'
    OBVIOUS
  <2>1. CASE j = k
    BY <2>1, <1>5, <1>10, AnchoringAssumption DEF PlaceOK, Inside, Anchors
  <2>2. CASE j # k
    BY <2>2, <1>1, <1>3, <1>9 DEF PlaceOK, Inside, Anchors
  <2> QED
    BY <2>1, <2>2
<1>13. LocksApart'
  <2>1. ASSUME NEW i \in Tasks, NEW j \in Tasks, Inside(i)', Inside(j)', lk'[i] = lk'[j]
        PROVE  i = j
    <3>1. CASE i # k /\ j # k
      BY <3>1, <2>1, <1>1, <1>9 DEF LocksApart
    <3>2. ASSUME NEW m \in Tasks, m # k, Inside(m)', lk'[m] = l PROVE ~Inside(k)'
      BY <3>2, <1>6, <1>9, <1>10 DEF Inside
    <3> QED
      BY <3>1, <3>2, <2>1, <1>10
  <2>2. ASSUME NEW i \in Tasks, NEW j \in Tasks, lk'[i] # None, lk'[i] = lk'[j]
        PROVE  run'[i] = run'[j]
    <3>1. CASE i # k /\ j # k
      BY <3>1, <2>2, <1>1, <1>9 DEF LocksApart
    <3>2. \A m \in Tasks : lk'[m] = l => run'[m] = r
      BY <1>9, <1>10, <1>11
    <3> QED
      BY <3>1, <3>2, <2>2, <1>10
  <2> QED
    BY <2>1, <2>2 DEF LocksApart
<1>14. LocksForgotten'
  <2> SUFFICES ASSUME NEW q \in Runs, busy'[q] # None
               PROVE  \E j \in Tasks : Inside(j)' /\ lk'[j] = busy'[q] /\ run'[j] = q
    BY DEF LocksForgotten
  <2>1. CASE q # r
    <3>1. busy'[q] = busy[q]
      BY <2>1, <1>1, <1>4 DEF TypeOK
    <3>2. PICK j \in Tasks : Inside(j) /\ lk[j] = busy[q] /\ run[j] = q
      BY <3>1, <1>1 DEF LocksForgotten
    <3>3. j # k
      BY <3>2, <1>2 DEF Inside
    <3> QED
      BY <3>1, <3>2, <3>3, <1>9
  <2>2. CASE q = r
    <3>1. busy'[q] = l
      BY <2>2, <1>1, <1>4 DEF TypeOK
    <3>2. CASE to = "head"
      BY <3>1, <3>2, <2>2, <1>10 DEF Inside
    <3>3. CASE to = "wait"
      <4>1. PICK j \in Tasks : Inside(j) /\ lk[j] = l
        <5>1. \E j \in Tasks : Inside(j) /\ lk[j] = l
          BY <1>4, <1>6, <1>10, <3>3, <1>1 DEF Goto, TypeOK
        <5> QED
          BY <5>1
      <4>2. j # k
        BY <4>1, <1>2 DEF Inside
      <4> QED
        BY <3>1, <4>1, <4>2, <2>2, <1>9, <1>11
    <3> QED
      BY <3>2, <3>3
  <2> QED
    BY <2>1, <2>2
<1> QED
  BY <1>8, <1>12, <1>13, <1>14 DEF LInv

LEMMA WriteLocks ==
  ASSUME LInv, NEW k \in Tasks, Write(k)
  PROVE  LInv'
<1>1. TypeOK /\ PlaceOK(k) /\ Anchors(k) /\ Inside(k)
  BY DEF LInv, Write, Anchors, Inside
<1>2. run[k] \in Runs /\ ask[k] \in Seq(Asked) /\ ask[k] # <<>> /\ head[k] \in Nat
      /\ head[k] <= Len(chain[run[k]])
  BY <1>1 DEF TypeOK, PlaceOK
<1>3. RestTyped
  <2>1. faults' = faults \/ Fault
    BY DEF Write
  <2>2. UNCHANGED <<ending, todo, plain>>
    BY DEF Write
  <2>3. UNCHANGED missed \/ \E S \in SUBSET Asked : Misses(k, S)
    <3>1. Head(ask[k]) \in Asked
      BY <1>2, HeadTailProperties
    <3>2. \A i \in DOMAIN ask[k] : ask[k][i] \in Asked
      BY <1>2, ElementOfSeq, LenProperties
    <3> QED
      BY <3>1, <3>2 DEF Write
  <2>4. missed' \subseteq Runs \X Asked
    BY <2>3, <1>1, <1>2 DEF Misses, TypeOK
  <2> QED
    BY <2>1, <2>2, <2>4, <1>1, AnchoringAssumption DEF Fault, TypeOK, RestTyped
<1>4. AnchorBy(Head(ask[k]), head[k]) \in Records
  <2>1. Head(ask[k]) \in Asked
    BY <1>2, HeadTailProperties
  <2> QED
    BY <2>1, <1>2 DEF AnchorBy, Records
<1>5. ASSUME Extend(run[k], AnchorBy(Head(ask[k]), head[k])) PROVE Grows
  BY <1>1, <1>2, <1>4, <1>5, ExtendGrows DEF AnchorBy
<1>6. ASSUME UNCHANGED chain PROVE Grows
  BY <1>1, <1>6, SameGrows
<1>7. Grows
  BY <1>5, <1>6 DEF Write
<1>8. NextWitness(k) \/ Leave(k, TRUE)
  BY DEF Write
<1> QED
  BY <1>1, <1>3, <1>7, <1>8, NextWitnessLocks, LeaveLocks

LEMMA ReadHeadLocks ==
  ASSUME LInv, NEW k \in Tasks, ReadHead(k)
  PROVE  LInv'
<1>1. TypeOK /\ PlaceOK(k) /\ Inside(k) /\ UNCHANGED chain
  BY DEF LInv, ReadHead, Inside
<1>2. run[k] \in Runs
  BY <1>1 DEF TypeOK, PlaceOK
<1>3. RestTyped /\ Grows
  BY <1>1, SameGrows DEF ReadHead, TypeOK, RestTyped
<1>4. CASE Open(run[k]) /\ KindOf(run[k]) # "anchor"
  <2>1. /\ head' = [head EXCEPT ![k] = Len(chain[run[k]])]
        /\ ask' = [ask EXCEPT ![k] = Witnesses]
        /\ Goto(k, "ask")
        /\ UNCHANGED <<busy, lk, run>>
    BY <1>4 DEF ReadHead
  <2>2. Len(chain[run[k]]) \in Nat
    BY <1>1, <1>2, LenProperties DEF TypeOK
  <2>3. Witnesses \in Seq(Asked) /\ Witnesses # <<>>
    BY AnchoringAssumption DEF Asked
  <2>4. head' \in [Tasks -> Nat] /\ head'[k] = Len(chain[run[k]])
    BY <2>1, <2>2, <1>1 DEF TypeOK
  <2>5. ask' \in [Tasks -> Seq(Asked)] /\ ask'[k] # <<>>
    BY <2>1, <2>3, <1>1 DEF TypeOK
  <2>6. \A j \in Tasks : j # k => head'[j] = head[j] /\ ask'[j] = ask[j]
    BY <2>1, <1>1 DEF TypeOK
  <2>7. head'[k] <= Len(chain[run[k]])
    BY <2>2, <2>4
  <2> QED
    BY <2>1, <2>4, <2>5, <2>6, <2>7, <1>1, <1>3, MoveLocks
<1>5. CASE ~(Open(run[k]) /\ KindOf(run[k]) # "anchor")
  BY <1>1, <1>3, <1>5, LeaveLocks DEF ReadHead
<1> QED
  BY <1>4, <1>5

LEMMA GrantLocks ==
  ASSUME LInv, NEW k \in Tasks, Grant(k)
  PROVE  LInv'
<1>1. TypeOK /\ LocksApart /\ LocksForgotten /\ \A j \in Tasks : PlaceOK(j)
  BY DEF LInv
<1>2. /\ pc[k] = "wait" /\ pc' = [pc EXCEPT ![k] = "head"]
      /\ \A j \in Tasks : Inside(j) => lk[j] # lk[k]
      /\ UNCHANGED <<chain, busy, run, ending, lk, head, ask, todo, plain, faults, missed>>
  BY DEF Grant, Goto
<1>3. TypeOK'
  BY <1>1, <1>2 DEF TypeOK
<1>4. \A j \in Tasks : j # k => (Inside(j)' <=> Inside(j))
  BY <1>1, <1>2 DEF Inside, TypeOK
<1>5. Inside(k)' /\ ~Inside(k)
  BY <1>1, <1>2 DEF Inside, TypeOK
<1>6. \A j \in Tasks : PlaceOK(j)'
  BY <1>1, <1>2 DEF PlaceOK, Inside, Anchors, TypeOK
<1>7. LocksApart'
  BY <1>1, <1>2, <1>4, <1>5 DEF LocksApart
<1>8. LocksForgotten'
  BY <1>1, <1>2, <1>4, <1>5 DEF LocksForgotten
<1> QED
  BY <1>3, <1>6, <1>7, <1>8 DEF LInv

LEMMA ExportEndLocks ==
  ASSUME LInv, NEW k \in Tasks, ExportEnd(k)
  PROVE  LInv'
<1>1. TypeOK /\ PlaceOK(k) /\ pc[k] = "end"
  BY DEF LInv, ExportEnd
<1>2. run[k] \in Runs /\ lk[k] = None
  BY <1>1 DEF TypeOK, PlaceOK, Inside
<1>3. RestTyped
  BY <1>1, AnchoringAssumption DEF ExportEnd, Fault, TypeOK, RestTyped
<1>4. End \in Records /\ End.kind # "anchor"
  BY DEF Records, End
<1>5. Grows
  BY <1>1, <1>2, <1>4, ExtendGrows, SameGrows DEF ExportEnd
<1> QED
  BY <1>2, <1>3, <1>5, IdleLocks DEF ExportEnd

LEMMA RecordLocks ==
  ASSUME LInv, NEW r \in Runs, Record(r)
  PROVE  LInv'
<1>1. TypeOK /\ LocksApart /\ LocksForgotten /\ \A j \in Tasks : PlaceOK(j)
  BY DEF LInv
<1>2. Extend(r, Plain) /\ UNCHANGED <<busy, pc, run, ending, lk, head, ask, todo, faults, missed>>
  BY DEF Record, task
<1>3. Plain \in Records /\ Plain.kind # "anchor"
  BY DEF Records, Plain
<1>4. Grows
  BY <1>1, <1>2, <1>3, ExtendGrows
<1>5. plain' \in 0..MaxPlain
  BY <1>1, AnchoringAssumption DEF Record, TypeOK
<1>7. TypeOK'
  BY <1>1, <1>2, <1>4, <1>5 DEF TypeOK, Grows
<1>8. \A j \in Tasks : PlaceOK(j)'
  <2> SUFFICES ASSUME NEW j \in Tasks PROVE PlaceOK(j)'
    OBVIOUS
  <2>1. ASSUME Anchors(j) PROVE head[j] <= Len(chain'[run[j]])
    <3>1. run[j] \in Runs /\ head[j] \in Nat /\ head[j] <= Len(chain[run[j]])
      BY <2>1, <1>1 DEF PlaceOK, Anchors, Inside, TypeOK
    <3>2. Len(chain[run[j]]) \in Nat /\ Len(chain'[run[j]]) \in Nat
      BY <3>1, <1>1, <1>4, LenProperties DEF TypeOK, Grows
    <3> QED
      BY <3>1, <3>2, <1>4 DEF Grows
  <2> QED
    BY <2>1, <1>1, <1>2 DEF PlaceOK, Inside, Anchors
<1>9. LocksApart' /\ LocksForgotten'
  BY <1>1, <1>2 DEF LocksApart, LocksForgotten, Inside
<1> QED
  BY <1>7, <1>8, <1>9 DEF LInv

LEMMA FailureLocks ==
  ASSUME LInv, NEW k \in Tasks, HeadRaises(k) \/ NoAnswer(k) \/ Answer(k)
  PROVE  LInv'
<1>1. TypeOK /\ PlaceOK(k) /\ Inside(k) /\ Grows
  BY SameGrows DEF LInv, HeadRaises, NoAnswer, Answer, Inside
<1>2. RestTyped
  <2>1. faults' = faults \/ Fault
    BY DEF HeadRaises, NoAnswer, Answer
  <2>2. UNCHANGED <<ending, todo, plain>>
    BY DEF HeadRaises, NoAnswer, Answer
  <2>3. missed' \subseteq Runs \X Asked
    <3>1. ASSUME NoAnswer(k) PROVE Head(ask[k]) \in Asked /\ run[k] \in Runs
      <4>1. ask[k] \in Seq(Asked) /\ ask[k] # <<>> /\ run[k] \in Runs
        BY <3>1, <1>1 DEF NoAnswer, TypeOK, PlaceOK, Anchors
      <4> QED
        BY <4>1, HeadTailProperties
    <3>2. NoAnswer(k) => missed' = missed \cup {<<run[k], Head(ask[k])>>}
      BY DEF NoAnswer, Misses
    <3>3. HeadRaises(k) \/ Answer(k) => missed' = missed
      BY DEF HeadRaises, Answer
    <3>4. missed \subseteq Runs \X Asked
      BY <1>1 DEF TypeOK
    <3> QED
      BY <3>1, <3>2, <3>3, <3>4
  <2> QED
    BY <2>1, <2>2, <2>3, <1>1, AnchoringAssumption DEF Fault, TypeOK, RestTyped
<1>3. CASE HeadRaises(k)
  BY <1>1, <1>2, <1>3, LeaveLocks DEF HeadRaises
<1>4. CASE NoAnswer(k)
  BY <1>1, <1>2, <1>4, NextWitnessLocks DEF NoAnswer, Anchors
<1>5. CASE Answer(k)
  <2>1. Goto(k, "write") /\ UNCHANGED <<busy, lk, run, head, ask>> /\ Anchors(k)
    BY <1>5 DEF Answer, Anchors
  <2>2. /\ head' \in [Tasks -> Nat] /\ ask' \in [Tasks -> Seq(Asked)]
        /\ \A j \in Tasks : j # k => head'[j] = head[j] /\ ask'[j] = ask[j]
        /\ ask'[k] # <<>> /\ head'[k] <= Len(chain[run[k]])
    BY <2>1, <1>1 DEF TypeOK, PlaceOK
  <2> QED
    BY <2>1, <2>2, <1>1, <1>2, MoveLocks
<1> QED
  BY <1>3, <1>4, <1>5

LEMMA LoopLocks ==
  ASSUME LInv, Wake \/ Sleep
  PROVE  LInv'
<1>1. TypeOK /\ PlaceOK(Loop) /\ Loop \in Tasks /\ Grows
  BY SameGrows DEF LInv, Tasks, Wake, Sleep
<1>2. pc[Loop] \in {"sleep", "visit"} /\ lk[Loop] = None
  BY <1>1 DEF Wake, Sleep, PlaceOK, Inside
<1>3. RestTyped /\ UNCHANGED <<busy, run, lk, head, ask>>
  BY <1>1, AnchoringAssumption DEF Wake, Sleep, Fault, TypeOK, RestTyped
<1>4. CASE Goto(Loop, "visit") \/ Goto(Loop, "sleep")
  BY <1>1, <1>2, <1>3, <1>4, IdleLocks
<1>5. CASE UNCHANGED pc
  <2>1. pc' = [pc EXCEPT ![Loop] = pc[Loop]]
    BY <1>5, <1>1 DEF TypeOK
  <2> QED
    BY <2>1, <1>1, <1>2, <1>3, IdleLocks DEF Goto
<1> QED
  BY <1>4, <1>5 DEF Wake, Sleep

LEMMA StutterLocks ==
  ASSUME LInv, UNCHANGED vars
  PROVE  LInv'
  BY DEF vars, LInv, TypeOK, PlaceOK, Anchors, LocksApart, LocksForgotten, Inside

LEMMA StepLocks == LInv /\ [Next]_vars => LInv'
<1> SUFFICES ASSUME LInv, [Next]_vars PROVE LInv'
  OBVIOUS
<1>1. ASSUME NEW k \in Tasks, Anchor(k) PROVE LInv'
  BY <1>1, GrantLocks, ReadHeadLocks, FailureLocks, WriteLocks, ExportEndLocks DEF Anchor
<1>2. ASSUME NEW k \in Tasks, NEW r \in Runs, Enter(k, r) PROVE LInv'
  BY <1>2, EnterLocks
<1>3. CASE LoopStep
  BY <1>1, <1>2, <1>3, LoopLocks DEF LoopStep, Tasks
<1>4. CASE \E k \in Exports : Anchor(k) \/ \E r \in Runs : Enter(k, r)
  BY <1>1, <1>2, <1>4 DEF Tasks
<1>5. CASE \E r \in Runs : Record(r)
  BY <1>5, RecordLocks
<1>6. CASE UNCHANGED vars
  BY <1>6, StutterLocks
<1> QED
  BY <1>3, <1>4, <1>5, <1>6 DEF Next

LEMMA LocksInvariant == Spec => []LInv
  BY InitLocks, StepLocks, PTL DEF Spec

\* Every variable keeps its type, and no anchor record covers itself or a later record.
THEOREM AnchoringTypeOK == Spec => []TypeOK
<1>1. LInv => TypeOK
  BY DEF LInv
<1> QED
  BY <1>1, LocksInvariant, PTL

\* `_busy` holds a lock object only while a task of that run has it: whatever fails, what
\* anchor_run made for a run it forgets (anchoring.py:119-121).
THEOREM AnchoringLocksForgotten == Spec => []LocksForgotten
<1>1. LInv => LocksForgotten
  BY DEF LInv
<1> QED
  BY <1>1, LocksInvariant, PTL
-----------------------------------------------------------------------------
\* What a run is covered by

\* An appended record is the last one of its run, and no receipt is lost.
LEMMA ExtendCovers ==
  ASSUME TypeOK, NEW r \in Runs, NEW x \in Records, Extend(r, x), missed \subseteq missed'
  PROVE  /\ KindOf(r)' = x.kind /\ Last(r)' = x
         /\ \A q \in Runs : q # r => KindOf(q)' = KindOf(q) /\ Last(q)' = Last(q)
         /\ \A q \in Runs : \A w, n : Receipt(q, w, n) => Receipt(q, w, n)'
         /\ \A q \in Runs : \A w, n : Given(q, w, n) => Given(q, w, n)'
         /\ \A q \in Runs : \A n : CoveredTo(q, n) => CoveredTo(q, n)'
<1>1. chain[r] \in Seq(Records) /\ chain'[r] \in Seq(Records)
  BY ExtendFacts DEF TypeOK
<1>2. Len(chain[r]) \in Nat /\ Len(chain'[r]) = Len(chain[r]) + 1
  BY <1>1, ExtendFacts, LenProperties
<1>3. chain'[r] # <<>>
  <2>1. Len(chain'[r]) # 0
    BY <1>2
  <2>2. ASSUME chain'[r] = <<>> PROVE Len(chain'[r]) = 0
    BY <2>2, EmptySeq, Zenon
  <2> QED
    BY <2>1, <2>2
<1>4. KindOf(r)' = x.kind /\ Last(r)' = x
  BY <1>2, <1>3, ExtendFacts DEF KindOf, Last
<1>5. \A q \in Runs : q # r => KindOf(q)' = KindOf(q) /\ Last(q)' = Last(q)
  BY ExtendFacts DEF KindOf, Last
<1>6. ASSUME NEW q \in Runs, NEW w, NEW n, Receipt(q, w, n) PROVE Receipt(q, w, n)'
  <2>1. PICK j \in 1..Len(chain[q]) :
          chain[q][j].kind = "anchor" /\ chain[q][j].by = w /\ chain[q][j].over >= n
    BY <1>6 DEF Receipt
  <2>2. j \in 1..Len(chain'[q]) /\ chain'[q][j] = chain[q][j]
    <3>1. CASE q = r
      BY <3>1, <1>2, ExtendFacts
    <3>2. CASE q # r
      BY <3>2, ExtendFacts
    <3> QED
      BY <3>1, <3>2
  <2> QED
    BY <2>1, <2>2 DEF Receipt
<1>7. ASSUME NEW q \in Runs, NEW w, NEW n, Given(q, w, n) PROVE Given(q, w, n)'
  BY <1>6, <1>7 DEF Given
<1>8. ASSUME NEW q \in Runs, NEW n, CoveredTo(q, n) PROVE CoveredTo(q, n)'
  BY <1>7, <1>8 DEF CoveredTo
<1> QED
  BY <1>4, <1>5, <1>6, <1>7, <1>8

\* Without a new record nothing changes but what was missed.
LEMMA SameCovers ==
  ASSUME UNCHANGED chain, missed \subseteq missed'
  PROVE  /\ \A q : KindOf(q)' = KindOf(q) /\ Last(q)' = Last(q) /\ (Open(q)' <=> Open(q))
         /\ \A q, w, n : Given(q, w, n) => Given(q, w, n)'
         /\ \A q, n : CoveredTo(q, n) => CoveredTo(q, n)'
<1>1. \A q : KindOf(q)' = KindOf(q) /\ Last(q)' = Last(q) /\ (Open(q)' <=> Open(q))
  BY DEF KindOf, Last, Open
<1>2. ASSUME NEW q, NEW w, NEW n, Given(q, w, n) PROVE Given(q, w, n)'
  BY <1>2 DEF Given, Receipt
<1>3. ASSUME NEW q, NEW n, CoveredTo(q, n) PROVE CoveredTo(q, n)'
  BY <1>2, <1>3 DEF CoveredTo
<1> QED
  BY <1>1, <1>2, <1>3

LEMMA InitCovers == Init => CInv
<1> SUFFICES ASSUME Init PROVE CInv
  OBVIOUS
<1>1. Len(<<>>) = 0
  BY EmptySeq
<1>2. Len(Witnesses) \in Nat
  BY AnchoringAssumption, LenProperties
<1>3. \A k \in Tasks : ~Anchors(k)
  BY DEF Init, Anchors
<1>4. \A k \in Tasks : AskedInOrder(k)
  BY <1>1, <1>2 DEF Init, AskedInOrder
<1>5. \A r \in Runs : KindOf(r) = "run_start"
  BY DEF Init, KindOf
<1> QED
  BY <1>3, <1>4, <1>5 DEF CInv, Receipts, CoveredOrAtWork

\* The other tasks keep what they anchor.
OthersKeep(k) ==
    \A j \in Tasks : j # k =>
        /\ Anchors(j)' <=> Anchors(j)
        /\ Anchors(j) => run'[j] = run[j]
        /\ head'[j] = head[j]
        /\ ask'[j] = ask[j]

LEMMA AllInOrder ==
  ASSUME CInv, NEW k \in Tasks, OthersKeep(k), AskedInOrder(k)'
  PROVE  \A j \in Tasks : AskedInOrder(j)'
<1> SUFFICES ASSUME NEW j \in Tasks, j # k PROVE AskedInOrder(j)'
  OBVIOUS
<1>1. AskedInOrder(j) /\ ask'[j] = ask[j]
  BY DEF CInv, OthersKeep
<1> QED
  BY <1>1 DEF AskedInOrder

LEMMA LeaveEffect ==
  ASSUME TypeOK, NEW k \in Tasks, NEW raised \in BOOLEAN, Leave(k, raised)
  PROVE  OthersKeep(k) /\ ~Anchors(k)' /\ AskedInOrder(k)'
<1>1. PICK to \in {"visit", "end", "done"} : pc' = [pc EXCEPT ![k] = to]
  BY DEF Leave, Goto
<1>2. /\ head' = [head EXCEPT ![k] = 0]
      /\ ask' = [ask EXCEPT ![k] = <<>>]
      /\ \A j \in Tasks : j # k => run'[j] = run[j]
  BY DEF Leave, TypeOK
<1>3. ask'[k] = <<>> /\ Len(<<>>) = 0 /\ Len(Witnesses) \in Nat
  BY <1>2, EmptySeq, AnchoringAssumption, LenProperties DEF TypeOK
<1> QED
  BY <1>1, <1>2, <1>3 DEF TypeOK, OthersKeep, Anchors, AskedInOrder

LEMMA NextWitnessEffect ==
  ASSUME LInv, NEW k \in Tasks, Anchors(k), AskedInOrder(k), NextWitness(k)
  PROVE  /\ OthersKeep(k) /\ AskedInOrder(k)'
         /\ ~Anchors(k)' => Len(ask[k]) = 1
         /\ Anchors(k)' => /\ run'[k] = run[k] /\ head'[k] = head[k]
                           /\ Len(ask'[k]) = Len(ask[k]) - 1
<1>1. TypeOK /\ PlaceOK(k)
  BY DEF LInv
<1>2. CASE Len(ask[k]) = 1
  <2>1. Leave(k, FALSE)
    BY <1>2 DEF NextWitness
  <2> QED
    BY <2>1, <1>1, <1>2, LeaveEffect
<1>3. CASE Len(ask[k]) # 1
  <2>1. /\ ask' = [ask EXCEPT ![k] = Tail(@)]
        /\ pc' = [pc EXCEPT ![k] = "ask"]
        /\ UNCHANGED <<head, run>>
    BY <1>3 DEF NextWitness, Goto
  <2>2. ask[k] \in Seq(Asked) /\ ask[k] # <<>>
    BY <1>1 DEF TypeOK, PlaceOK
  <2>3. /\ Len(Tail(ask[k])) = Len(ask[k]) - 1
        /\ Len(ask[k]) \in Nat
        /\ \A i \in 1..Len(Tail(ask[k])) : Tail(ask[k])[i] = ask[k][i + 1]
    BY <2>2, HeadTailProperties, LenProperties
  <2>4. ask'[k] = Tail(ask[k]) /\ Anchors(k)'
    BY <2>1, <1>1 DEF TypeOK, Anchors
  <2>5. Len(Witnesses) \in Nat /\ Len(ask'[k]) = Len(ask[k]) - 1
    <3>1. Len(ask'[k]) = Len(Tail(ask[k]))
      BY <2>4, Zenon
    <3> QED
      BY <3>1, <2>3, AnchoringAssumption, LenProperties
  <2>6. ASSUME NEW i \in 1..Len(ask'[k])
        PROVE  ask'[k][i] = Witnesses[Len(Witnesses) - Len(ask'[k]) + i]
    <3>1. i + 1 \in 1..Len(ask[k]) /\ ask'[k][i] = ask[k][i + 1]
      <4>1. i \in 1..Len(Tail(ask[k]))
        BY <2>3, <2>5, <2>6
      <4>2. Tail(ask[k])[i] = ask[k][i + 1]
        BY <4>1, <2>3
      <4>3. ask'[k][i] = Tail(ask[k])[i]
        BY <2>4, Zenon
      <4> QED
        BY <4>1, <4>2, <4>3, <2>3
    <3>2. Len(Witnesses) - Len(ask[k]) + (i + 1) = Len(Witnesses) - Len(ask'[k]) + i
      <4>1. \A a, n \in Nat, m \in Int : a - n + (m + 1) = a - (n - 1) + m
        OBVIOUS
      <4>2. Len(ask[k]) \in Nat /\ i \in Int
        BY <2>3
      <4> QED
        BY <4>1, <4>2, <2>5, Zenon
    <3> QED
      BY <3>1, <3>2 DEF AskedInOrder
  <2>7. AskedInOrder(k)'
    <3>1. Len(ask'[k]) <= Len(Witnesses)
      BY <2>3, <2>5 DEF AskedInOrder
    <3> QED
      BY <3>1, <2>6 DEF AskedInOrder
  <2>8. OthersKeep(k)
    BY <2>1, <1>1 DEF TypeOK, OthersKeep, Anchors
  <2> QED
    BY <2>1, <2>4, <2>5, <2>7, <2>8
<1> QED
  BY <1>2, <1>3

\* Nothing is appended and nobody starts or ends anchoring.
LEMMA QuietCovers ==
  ASSUME CInv, UNCHANGED chain, missed \subseteq missed',
         \A j \in Tasks : AskedInOrder(j)',
         \A j \in Tasks : Anchors(j)' <=> Anchors(j),
         \A j \in Tasks : Anchors(j) => run'[j] = run[j] /\ head'[j] = head[j] /\ ask'[j] = ask[j]
  PROVE  CInv'
<1>1. ASSUME NEW j \in Tasks PROVE Receipts(j)'
  <2> SUFFICES ASSUME Anchors(j)', Open(run[j])', NEW w \in 1..Len(Witnesses) - Len(ask'[j])
               PROVE  Given(run[j], Witnesses[w], head[j])'
    BY DEF Receipts
  <2>1. Anchors(j) /\ run'[j] = run[j] /\ head'[j] = head[j] /\ ask'[j] = ask[j]
    OBVIOUS
  <2>2. Open(run[j])
    BY <2>1 DEF Open, KindOf, Last
  <2>3. Given(run[j], Witnesses[w], head[j])
    BY <2>1, <2>2 DEF CInv, Receipts
  <2> QED
    BY <2>1, <2>3 DEF Given, Receipt
<1>2. ASSUME NEW q \in Runs, KindOf(q)' = "anchor"
      PROVE  \/ CoveredTo(q, Last(q).over)'
             \/ \E j \in Tasks : Anchors(j)' /\ run'[j] = q /\ head'[j] = Last(q)'.over
  <2>1. KindOf(q) = "anchor" /\ Last(q)' = Last(q)
    BY <1>2, SameCovers
  <2>2. \/ CoveredTo(q, Last(q).over)
        \/ \E j \in Tasks : Anchors(j) /\ run[j] = q /\ head[j] = Last(q).over
    BY <2>1 DEF CInv, CoveredOrAtWork
  <2> QED
    BY <2>1, <2>2 DEF CoveredTo, Given, Receipt, Last
<1> QED
  BY <1>1, <1>2 DEF CInv, CoveredOrAtWork

\* A task that anchored nothing leaves.
LEMMA LeftCovers ==
  ASSUME CInv, UNCHANGED <<chain, missed>>, NEW k \in Tasks, ~Anchors(k), ~Anchors(k)',
         OthersKeep(k), AskedInOrder(k)'
  PROVE  CInv'
<1>1. \A j \in Tasks : AskedInOrder(j)'
  BY AllInOrder
<1>2. \A j \in Tasks : Anchors(j)' <=> Anchors(j)
  BY DEF OthersKeep
<1>3. \A j \in Tasks : Anchors(j) => run'[j] = run[j] /\ head'[j] = head[j] /\ ask'[j] = ask[j]
  BY DEF OthersKeep
<1> QED
  BY <1>1, <1>2, <1>3, QuietCovers

\* The first witness left is the next one of those configured.
LEMMA FirstAsked ==
  ASSUME LInv, NEW k \in Tasks, Anchors(k), AskedInOrder(k)
  PROVE  /\ Len(ask[k]) \in Nat \ {0} /\ Len(Witnesses) \in Nat
         /\ Len(ask[k]) <= Len(Witnesses)
         /\ Head(ask[k]) = Witnesses[Len(Witnesses) - Len(ask[k]) + 1]
         /\ Head(ask[k]) \in Asked
<1>1. ask[k] \in Seq(Asked) /\ ask[k] # <<>>
  BY DEF LInv, TypeOK, PlaceOK
<1>2. Len(ask[k]) \in Nat \ {0}
  BY <1>1, EmptySeq
<1>3. Head(ask[k]) = ask[k][1] /\ Head(ask[k]) \in Asked
  BY <1>1, HeadTailProperties
<1>4. Len(Witnesses) \in Nat
  BY AnchoringAssumption, LenProperties
<1>5. 1 \in 1..Len(ask[k])
  BY <1>2
<1>6. ask[k][1] = Witnesses[Len(Witnesses) - Len(ask[k]) + 1]
  BY <1>5 DEF AskedInOrder
<1> QED
  BY <1>2, <1>3, <1>4, <1>6 DEF AskedInOrder

\* A task deals with its next witness: it has the receipt, or the witness failed, or the run ended.
LEMMA DealtCovers ==
  ASSUME LInv, CInv, NEW k \in Tasks, Anchors(k), NextWitness(k),
         NEW r \in Runs, NEW n \in Nat, NEW b, r = run[k], n = head[k], b = Head(ask[k]),
         \A q \in Runs : Open(q)' => Open(q),
         \A q \in Runs : \A w, m : Given(q, w, m) => Given(q, w, m)',
         Open(r)' => Given(r, b, n)'
  PROVE  /\ \A j \in Tasks : AskedInOrder(j)' /\ Receipts(j)'
         /\ Open(r)' /\ ~Anchors(k)' => CoveredTo(r, n)'
         /\ OthersKeep(k) /\ (Anchors(k)' => run'[k] = r /\ head'[k] = n)
<1>1. TypeOK /\ PlaceOK(k) /\ AskedInOrder(k)
  BY DEF LInv, CInv
<1>2. /\ OthersKeep(k) /\ AskedInOrder(k)'
      /\ ~Anchors(k)' => Len(ask[k]) = 1
      /\ Anchors(k)' => run'[k] = r /\ head'[k] = n /\ Len(ask'[k]) = Len(ask[k]) - 1
  BY <1>1, NextWitnessEffect
<1>3. /\ Len(ask[k]) \in Nat /\ Len(Witnesses) \in Nat
      /\ b = Witnesses[Len(Witnesses) - Len(ask[k]) + 1]
  BY <1>1, FirstAsked
<1>4. ASSUME Open(r)', NEW w \in 1..Len(Witnesses) - Len(ask[k]) + 1
      PROVE  Given(r, Witnesses[w], n)'
  <2>1. CASE w = Len(Witnesses) - Len(ask[k]) + 1
    BY <2>1, <1>3, <1>4
  <2>2. CASE w # Len(Witnesses) - Len(ask[k]) + 1
    <3>1. w \in 1..Len(Witnesses) - Len(ask[k])
      <4>1. \A m \in Int : \A v : v \in 1..m + 1 /\ v # m + 1 => v \in 1..m
        OBVIOUS
      <4>2. Len(Witnesses) - Len(ask[k]) \in Int
        BY <1>3
      <4> QED
        BY <4>1, <4>2, <2>2, <1>4, Zenon
    <3>2. Given(r, Witnesses[w], n)
      BY <3>1, <1>4 DEF CInv, Receipts
    <3> QED
      BY <3>2
  <2> QED
    BY <2>1, <2>2
<1>5. ASSUME NEW j \in Tasks PROVE Receipts(j)'
  <2> SUFFICES ASSUME Anchors(j)', NEW q, q = run'[j], NEW m, m = head'[j], Open(q)',
                      NEW w \in 1..Len(Witnesses) - Len(ask'[j])
               PROVE  Given(q, Witnesses[w], m)'
    BY DEF Receipts, Given, Receipt, Open, KindOf, Last
  <2>1. CASE j = k
    <3>1. q = r /\ m = n /\ Len(ask'[k]) = Len(ask[k]) - 1
      BY <2>1, <1>2
    <3>2. Len(Witnesses) - Len(ask'[k]) = Len(Witnesses) - Len(ask[k]) + 1
      BY <3>1, <1>3
    <3> QED
      BY <3>1, <3>2, <2>1, <1>4
  <2>2. CASE j # k
    <3>1. Anchors(j) /\ q = run[j] /\ m = head[j] /\ ask'[j] = ask[j]
      BY <2>2, <1>2 DEF OthersKeep
    <3>2. q \in Runs
      BY <3>1 DEF LInv, TypeOK, PlaceOK, Anchors, Inside
    <3>3. Given(q, Witnesses[w], m)
      BY <3>1, <3>2 DEF CInv, Receipts
    <3> QED
      BY <3>2, <3>3
  <2> QED
    BY <2>1, <2>2
<1>6. ASSUME Open(r)', ~Anchors(k)' PROVE CoveredTo(r, n)'
  <2>1. Len(Witnesses) - Len(ask[k]) + 1 = Len(Witnesses)
    <3>1. Len(ask[k]) = 1 /\ Len(Witnesses) \in Nat
      BY <1>2, <1>3, <1>6
    <3> QED
      BY <3>1
  <2>2. \A w \in 1..Len(Witnesses) : Given(r, Witnesses[w], n)'
    BY <2>1, <1>4, <1>6
  <2> QED
    BY <2>2 DEF CoveredTo
<1>7. \A j \in Tasks : AskedInOrder(j)'
  BY <1>2, AllInOrder
<1> QED
  BY <1>2, <1>5, <1>6, <1>7

\* What a task anchors, with its run and head.
LEMMA AnchorsWhat ==
  ASSUME LInv, CInv, NEW k \in Tasks, Anchors(k)
  PROVE  /\ TypeOK /\ run[k] \in Runs /\ head[k] \in Nat /\ Head(ask[k]) \in Asked
  BY FirstAsked DEF LInv, CInv, TypeOK, PlaceOK, Anchors, Inside

\* An anchor record over the head a task read gives the receipt it was asked for.
LEMMA AnchoredCovers ==
  ASSUME LInv, CInv, NEW k \in Tasks, Anchors(k), Open(run[k]),
         Extend(run[k], AnchorBy(Head(ask[k]), head[k])),
         NextWitness(k), missed \subseteq missed'
  PROVE  CInv'
<1>1. PICK r \in Runs, n \in Nat, b \in Asked :
        r = run[k] /\ n = head[k] /\ b = Head(ask[k])
  BY AnchorsWhat
<1>2. TypeOK
  BY DEF LInv
<1>3. PICK x \in Records :
        x = AnchorBy(b, n) /\ x.kind = "anchor" /\ x.by = b /\ x.over = n
  BY <1>1 DEF AnchorBy, Records
<1>4. Extend(r, x)
  BY <1>1, <1>3
<1>5. /\ KindOf(r)' = "anchor" /\ Last(r)' = x
      /\ \A q \in Runs : q # r => KindOf(q)' = KindOf(q) /\ Last(q)' = Last(q)
      /\ \A q \in Runs : \A w, m : Given(q, w, m) => Given(q, w, m)'
      /\ \A q \in Runs : \A m : CoveredTo(q, m) => CoveredTo(q, m)'
  BY <1>2, <1>3, <1>4, ExtendCovers
<1>6. \A q \in Runs : Open(q)' => Open(q)
  BY <1>1, <1>5 DEF Open
<1>7. Given(r, b, n)'
  <2>1. /\ Len(chain'[r]) = Len(chain[r]) + 1
        /\ chain'[r][Len(chain[r]) + 1] = x
        /\ Len(chain[r]) \in Nat
    BY <1>2, <1>4, ExtendFacts, LenProperties DEF TypeOK
  <2>2. Len(chain[r]) + 1 \in 1..Len(chain'[r])
    BY <2>1
  <2> QED
    BY <2>1, <2>2, <1>3 DEF Given, Receipt
<1>8. /\ \A j \in Tasks : AskedInOrder(j)' /\ Receipts(j)'
      /\ Open(r)' /\ ~Anchors(k)' => CoveredTo(r, n)'
      /\ OthersKeep(k) /\ (Anchors(k)' => run'[k] = r /\ head'[k] = n)
  BY <1>1, <1>5, <1>6, <1>7, DealtCovers
<1>9. Open(r)'
  BY <1>5 DEF Open
<1>10. ASSUME NEW q \in Runs, KindOf(q)' = "anchor", NEW m, m = Last(q)'.over
       PROVE  CoveredTo(q, m)' \/ \E j \in Tasks : Anchors(j)' /\ run'[j] = q /\ head'[j] = m
  <2>1. CASE q = r
    BY <2>1, <1>3, <1>5, <1>8, <1>9, <1>10
  <2>2. CASE q # r
    <3>1. KindOf(q) = "anchor" /\ m = Last(q).over
      BY <2>2, <1>5, <1>10
    <3>2. \/ CoveredTo(q, m)
          \/ \E j \in Tasks : Anchors(j) /\ run[j] = q /\ head[j] = m
      BY <3>1 DEF CInv, CoveredOrAtWork
    <3>3. \A j \in Tasks : Anchors(j) /\ run[j] = q =>
            Anchors(j)' /\ run'[j] = q /\ head'[j] = head[j]
      BY <2>2, <1>1, <1>8 DEF OthersKeep
    <3> QED
      BY <3>2, <3>3, <1>5
  <2> QED
    BY <2>1, <2>2
<1>11. CoveredOrAtWork'
  BY <1>10 DEF CoveredOrAtWork, CoveredTo, Given, Receipt, Last
<1> QED
  BY <1>8, <1>11 DEF CInv

\* Nothing is appended while a task stops anchoring or moves on: what the last anchor of its run
\* covers is covered to the end, if the task wrote that anchor and leaves.
LEMMA UnwrittenCovers ==
  ASSUME LInv, CInv, UNCHANGED chain, missed \subseteq missed', NEW k \in Tasks, Anchors(k),
         \A j \in Tasks : AskedInOrder(j)' /\ Receipts(j)', OthersKeep(k),
         NEW r \in Runs, NEW n \in Nat, r = run[k], n = head[k],
         Anchors(k)' => run'[k] = r /\ head'[k] = n,
         Open(r)' /\ ~Anchors(k)' => CoveredTo(r, n)'
  PROVE  CInv'
<1>1. ASSUME NEW q \in Runs, KindOf(q)' = "anchor", NEW m, m = Last(q)'.over
      PROVE  CoveredTo(q, m)' \/ \E j \in Tasks : Anchors(j)' /\ run'[j] = q /\ head'[j] = m
  <2>1. KindOf(q) = "anchor" /\ m = Last(q).over /\ Open(q)'
    BY <1>1, SameCovers DEF Open
  <2>2. CASE CoveredTo(q, m)
    BY <2>2, SameCovers
  <2>3. ASSUME NEW j \in Tasks, Anchors(j), run[j] = q, head[j] = m
        PROVE  CoveredTo(q, m)' \/ (Anchors(j)' /\ run'[j] = q /\ head'[j] = m)
    <3>1. CASE j # k
      BY <2>3, <3>1 DEF OthersKeep
    <3>2. CASE j = k
      BY <2>1, <2>3, <3>2
    <3> QED
      BY <3>1, <3>2
  <2>4. CoveredTo(q, m) \/ \E j \in Tasks : Anchors(j) /\ run[j] = q /\ head[j] = m
    BY <2>1 DEF CInv, CoveredOrAtWork
  <2> QED
    BY <2>2, <2>3, <2>4
<1>2. CoveredOrAtWork'
  BY <1>1 DEF CoveredOrAtWork, CoveredTo, Given, Receipt, Last
<1> QED
  BY <1>2 DEF CInv

\* A task goes on without a receipt: the witness failed, or the run has ended.
LEMMA MissedCovers ==
  ASSUME LInv, CInv, NEW k \in Tasks, Anchors(k), NextWitness(k), UNCHANGED chain,
         missed \subseteq missed', Open(run[k]) => <<run[k], Head(ask[k])>> \in missed'
  PROVE  CInv'
<1>1. PICK r \in Runs, n \in Nat, b \in Asked :
        r = run[k] /\ n = head[k] /\ b = Head(ask[k])
  BY AnchorsWhat
<1>3. Open(r)' => Given(r, b, n)'
  BY <1>1, SameCovers DEF Given
<1>4. /\ \A j \in Tasks : AskedInOrder(j)' /\ Receipts(j)'
      /\ Open(r)' /\ ~Anchors(k)' => CoveredTo(r, n)'
      /\ OthersKeep(k) /\ (Anchors(k)' => run'[k] = r /\ head'[k] = n)
  BY <1>1, <1>3, SameCovers, DealtCovers
<1> QED
  BY <1>1, <1>4, UnwrittenCovers

\* A task is thrown out of anchor_run: the witnesses it has yet to ask are missed.
LEMMA RaisedCovers ==
  ASSUME LInv, CInv, NEW k \in Tasks, Anchors(k), Leave(k, TRUE), UNCHANGED chain,
         Misses(k, {ask[k][i] : i \in DOMAIN ask[k]})
  PROVE  CInv'
<1>1. PICK r \in Runs, n \in Nat : r = run[k] /\ n = head[k]
  BY AnchorsWhat
<1>2. /\ TypeOK /\ AskedInOrder(k) /\ ask[k] \in Seq(Asked)
      /\ missed \subseteq missed' /\ \A i \in DOMAIN ask[k] : <<r, ask[k][i]>> \in missed'
  BY <1>1 DEF LInv, CInv, TypeOK, Misses
<1>3. OthersKeep(k) /\ ~Anchors(k)' /\ AskedInOrder(k)'
  BY <1>2, LeaveEffect
<1>4. \A j \in Tasks : AskedInOrder(j)'
  BY <1>3, AllInOrder
<1>5. ASSUME NEW j \in Tasks PROVE Receipts(j)'
  <2> SUFFICES ASSUME Anchors(j)', NEW q, q = run'[j], NEW m, m = head'[j], Open(q)',
                      NEW w \in 1..Len(Witnesses) - Len(ask'[j])
               PROVE  Given(q, Witnesses[w], m)'
    BY DEF Receipts, Given, Receipt, Open, KindOf, Last
  <2>1. Anchors(j) /\ q = run[j] /\ m = head[j] /\ ask'[j] = ask[j]
    BY <1>3 DEF OthersKeep
  <2>2. Given(q, Witnesses[w], m)
    BY <2>1, SameCovers, <1>2 DEF CInv, Receipts
  <2> QED
    BY <2>2, SameCovers, <1>2
<1>6. ASSUME Open(r)' PROVE CoveredTo(r, n)'
  <2> SUFFICES ASSUME NEW w \in 1..Len(Witnesses) PROVE Given(r, Witnesses[w], n)'
    BY DEF CoveredTo
  <2>1. Len(Witnesses) \in Nat /\ Len(ask[k]) \in Nat /\ Len(ask[k]) <= Len(Witnesses)
    BY <1>2, FirstAsked
  <2>2. CASE w <= Len(Witnesses) - Len(ask[k])
    <3>1. w \in 1..Len(Witnesses) - Len(ask[k])
      BY <2>1, <2>2
    <3>2. Open(r)
      BY <1>2, <1>6, SameCovers
    <3>3. Given(r, Witnesses[w], n)
      BY <3>1, <3>2, <1>1 DEF CInv, Receipts
    <3> QED
      BY <3>3, <1>2, SameCovers
  <2>3. CASE ~(w <= Len(Witnesses) - Len(ask[k]))
    <3>1. \A a, l \in Nat : \A v \in 1..a : ~(v <= a - l) =>
            \E i \in 1..l : a - l + i = v
      <4> TAKE a, l \in Nat
      <4> TAKE v \in 1..a
      <4> HAVE ~(v <= a - l)
      <4>1. v - (a - l) \in 1..l /\ a - l + (v - (a - l)) = v
        OBVIOUS
      <4> QED
        BY <4>1
    <3>2. PICK a \in Nat, l \in Nat : a = Len(Witnesses) /\ l = Len(ask[k])
      BY <2>1
    <3>3. w \in 1..a /\ ~(w <= a - l)
      BY <3>2, <2>3
    <3>4. PICK i \in 1..l : a - l + i = w
      BY <3>1, <3>3
    <3>5. ask[k][i] = Witnesses[w] /\ i \in DOMAIN ask[k]
      BY <3>2, <3>4, <1>2, LenProperties DEF AskedInOrder
    <3> QED
      BY <3>5, <1>2 DEF Given
  <2> QED
    BY <2>2, <2>3
<1> QED
  BY <1>1, <1>2, <1>3, <1>4, <1>5, <1>6, UnwrittenCovers

\* A record that is no anchor comes in, before or after anyone's head.
LEMMA AddedCovers ==
  ASSUME LInv, CInv, NEW r \in Runs, NEW x \in Records, x.kind # "anchor",
         Open(r), Extend(r, x), UNCHANGED missed,
         \A j \in Tasks : AskedInOrder(j)',
         \A j \in Tasks : Anchors(j)' <=> Anchors(j),
         \A j \in Tasks : Anchors(j) => run'[j] = run[j] /\ head'[j] = head[j] /\ ask'[j] = ask[j]
  PROVE  CInv'
<1>1. TypeOK
  BY DEF LInv
<1>2. /\ KindOf(r)' = x.kind
      /\ \A q \in Runs : q # r => KindOf(q)' = KindOf(q) /\ Last(q)' = Last(q)
      /\ \A q \in Runs : \A w, m : Given(q, w, m) => Given(q, w, m)'
      /\ \A q \in Runs : \A m : CoveredTo(q, m) => CoveredTo(q, m)'
  BY <1>1, ExtendCovers
<1>3. ASSUME NEW j \in Tasks PROVE Receipts(j)'
  <2> SUFFICES ASSUME Anchors(j)', NEW q, q = run'[j], NEW m, m = head'[j], Open(q)',
                      NEW w \in 1..Len(Witnesses) - Len(ask'[j])
               PROVE  Given(q, Witnesses[w], m)'
    BY DEF Receipts, Given, Receipt, Open, KindOf, Last
  <2>1. Anchors(j) /\ q = run[j] /\ m = head[j] /\ ask'[j] = ask[j]
    OBVIOUS
  <2>2. q \in Runs
    BY <2>1 DEF LInv, TypeOK, PlaceOK, Anchors, Inside
  <2>3. Open(q)
    BY <2>2, <1>2 DEF Open
  <2>4. Given(q, Witnesses[w], m)
    BY <2>1, <2>3 DEF CInv, Receipts
  <2> QED
    BY <2>2, <2>4, <1>2
<1>4. ASSUME NEW q \in Runs, KindOf(q)' = "anchor", NEW m, m = Last(q)'.over
      PROVE  CoveredTo(q, m)' \/ \E j \in Tasks : Anchors(j)' /\ run'[j] = q /\ head'[j] = m
  <2>1. KindOf(q) = "anchor" /\ m = Last(q).over
    BY <1>2, <1>4
  <2>2. CoveredTo(q, m) \/ \E j \in Tasks : Anchors(j) /\ run[j] = q /\ head[j] = m
    BY <2>1 DEF CInv, CoveredOrAtWork
  <2> QED
    BY <2>2, <1>2
<1>5. CoveredOrAtWork'
  BY <1>4 DEF CoveredOrAtWork, CoveredTo, Given, Receipt, Last
<1> QED
  BY <1>3, <1>5 DEF CInv

LEMMA RecordCovers ==
  ASSUME LInv, CInv, NEW r \in Runs, Record(r)
  PROVE  CInv'
<1>1. /\ Open(r) /\ Extend(r, Plain)
      /\ UNCHANGED <<pc, run, head, ask, missed>>
  BY DEF Record, task
<1>2. Plain \in Records /\ Plain.kind # "anchor"
  BY DEF Plain, Records
<1>3. \A j \in Tasks : AskedInOrder(j)' /\ (Anchors(j)' <=> Anchors(j))
  BY <1>1 DEF CInv, AskedInOrder, Anchors
<1> QED
  BY <1>1, <1>2, <1>3, AddedCovers

LEMMA ExportEndCovers ==
  ASSUME LInv, CInv, NEW k \in Tasks, ExportEnd(k)
  PROVE  CInv'
<1>1. TypeOK /\ PlaceOK(k) /\ pc[k] = "end"
  BY DEF LInv, ExportEnd
<1>2. UNCHANGED <<run, head, ask, missed>> /\ pc' = [pc EXCEPT ![k] = "done"]
  BY DEF ExportEnd, Goto
<1>3. \A j \in Tasks : AskedInOrder(j)' /\ (Anchors(j)' <=> Anchors(j))
  BY <1>1, <1>2 DEF CInv, AskedInOrder, Anchors, TypeOK
<1>4. CASE UNCHANGED chain
  BY <1>2, <1>3, <1>4, QuietCovers
<1>5. CASE Open(run[k]) /\ Extend(run[k], End)
  <2>1. run[k] \in Runs
    BY <1>1 DEF TypeOK, PlaceOK
  <2>2. End \in Records /\ End.kind # "anchor"
    BY DEF End, Records
  <2> QED
    BY <2>1, <2>2, <1>2, <1>3, <1>5, AddedCovers
<1> QED
  BY <1>4, <1>5 DEF ExportEnd

\* No witness was asked yet over the head that is read.
LEMMA ReadHeadCovers ==
  ASSUME LInv, CInv, NEW k \in Tasks, ReadHead(k)
  PROVE  CInv'
<1>1. TypeOK /\ PlaceOK(k) /\ ~Anchors(k) /\ UNCHANGED <<chain, missed>>
  BY DEF LInv, ReadHead, Anchors
<1>2. run[k] \in Runs
  BY <1>1 DEF TypeOK, PlaceOK, ReadHead, Inside
<1>3. CASE ~(Open(run[k]) /\ KindOf(run[k]) # "anchor")
  <2>1. OthersKeep(k) /\ ~Anchors(k)' /\ AskedInOrder(k)'
    BY <1>1, <1>3, LeaveEffect DEF ReadHead
  <2> QED
    BY <2>1, <1>1, LeftCovers
<1>4. CASE Open(run[k]) /\ KindOf(run[k]) # "anchor"
  <2>1. /\ head' = [head EXCEPT ![k] = Len(chain[run[k]])]
        /\ ask' = [ask EXCEPT ![k] = Witnesses]
        /\ pc' = [pc EXCEPT ![k] = "ask"]
        /\ UNCHANGED run
    BY <1>4 DEF ReadHead, Goto
  <2>2. ask'[k] = Witnesses
    BY <2>1, <1>1 DEF TypeOK
  <2>3. Len(Witnesses) \in Nat
    BY AnchoringAssumption, LenProperties
  <2>4. OthersKeep(k)
    BY <2>1, <1>1 DEF TypeOK, OthersKeep, Anchors
  <2>5. Len(ask'[k]) = Len(Witnesses)
    BY <2>2, Zenon
  <2>6. AskedInOrder(k)'
    <3>1. \A i \in 1..Len(Witnesses) : Len(Witnesses) - Len(Witnesses) + i = i
      BY <2>3
    <3> QED
      BY <3>1, <2>2, <2>3, <2>5 DEF AskedInOrder
  <2>7. \A j \in Tasks : AskedInOrder(j)'
    BY <2>4, <2>6, AllInOrder
  <2>8. ASSUME NEW j \in Tasks, j # k PROVE Receipts(j)'
    <3>1. Receipts(j)
      BY DEF CInv
    <3>2. (Anchors(j)' <=> Anchors(j)) /\ run'[j] = run[j] /\ head'[j] = head[j] /\ ask'[j] = ask[j]
      BY <2>1, <2>4, <2>8 DEF OthersKeep
    <3> QED
      BY <3>1, <3>2, <1>1 DEF Receipts, Given, Receipt, Open, KindOf, Last
  <2>9. Receipts(k)'
    <3>1. Len(Witnesses) - Len(ask'[k]) = 0
      BY <2>3, <2>5
    <3> QED
      BY <3>1 DEF Receipts
  <2>10. CoveredOrAtWork'
    <3>1. \A q : KindOf(q)' = KindOf(q) /\ Last(q)' = Last(q)
      BY <1>1 DEF KindOf, Last
    <3>2. \A j \in Tasks : Anchors(j) => Anchors(j)' /\ run'[j] = run[j] /\ head'[j] = head[j]
      BY <2>1, <2>4, <1>1 DEF OthersKeep
    <3>3. \A q, n : CoveredTo(q, n) => CoveredTo(q, n)'
      BY <1>1, SameCovers
    <3>4. ASSUME NEW q \in Runs, KindOf(q)' = "anchor", NEW m, m = Last(q)'.over
          PROVE  CoveredTo(q, m)' \/ \E j \in Tasks : Anchors(j)' /\ run'[j] = q /\ head'[j] = m
      <4>1. CoveredTo(q, m) \/ \E j \in Tasks : Anchors(j) /\ run[j] = q /\ head[j] = m
        BY <3>1, <3>4 DEF CInv, CoveredOrAtWork
      <4> QED
        BY <4>1, <3>2, <3>3
    <3> QED
      BY <3>4 DEF CoveredOrAtWork, CoveredTo, Given, Receipt, Last
  <2> QED
    BY <2>7, <2>8, <2>9, <2>10 DEF CInv
<1> QED
  BY <1>3, <1>4

\* A task that enters, is granted its lock or hears from its witness is as far as before;
\* so is the loop that wakes or sleeps.
LEMMA WaitingCovers ==
  ASSUME LInv, CInv, UNCHANGED <<chain, missed, head, ask>>,
         NEW k \in Tasks, NEW to, pc' = [pc EXCEPT ![k] = to],
         Anchors(k) <=> to \in {"ask", "write"},
         \A j \in Tasks : Anchors(j) => run'[j] = run[j]
  PROVE  CInv'
<1>1. \A j \in Tasks : AskedInOrder(j)'
  BY DEF CInv, AskedInOrder
<1>2. \A j \in Tasks : Anchors(j)' <=> Anchors(j)
  BY DEF LInv, TypeOK, Anchors
<1> QED
  BY <1>1, <1>2, QuietCovers

LEMMA WriteCovers ==
  ASSUME LInv, CInv, NEW k \in Tasks, Write(k)
  PROVE  CInv'
<1>1. Anchors(k)
  BY DEF Write, Anchors
<1>2. PICK stored \in BOOLEAN : stored <=> Open(run[k]) /\ Extend(run[k], AnchorBy(Head(ask[k]), head[k]))
  OBVIOUS
<1>3. \A S : Misses(k, S) => missed \subseteq missed'
  BY DEF Misses
<1>4. CASE stored /\ NextWitness(k) /\ missed \subseteq missed'
  BY <1>1, <1>2, <1>4, AnchoredCovers
<1>5. CASE ~Open(run[k]) /\ NextWitness(k) /\ UNCHANGED <<chain, missed>>
  BY <1>1, <1>5, MissedCovers
<1>6. CASE Misses(k, {Head(ask[k])}) /\ NextWitness(k) /\ UNCHANGED chain
  BY <1>1, <1>6, MissedCovers DEF Misses
<1>7. CASE Misses(k, {ask[k][i] : i \in DOMAIN ask[k]}) /\ Leave(k, TRUE) /\ UNCHANGED chain
  BY <1>1, <1>7, RaisedCovers
<1> QED
  BY <1>2, <1>3, <1>4, <1>5, <1>6, <1>7 DEF Write

LEMMA FailureCovers ==
  ASSUME LInv, CInv, NEW k \in Tasks, HeadRaises(k) \/ NoAnswer(k)
  PROVE  CInv'
<1>1. TypeOK /\ UNCHANGED chain
  BY DEF LInv, HeadRaises, NoAnswer
<1>2. CASE HeadRaises(k)
  <2>1. ~Anchors(k) /\ UNCHANGED missed /\ Leave(k, TRUE)
    BY <1>2 DEF HeadRaises, Anchors
  <2>2. OthersKeep(k) /\ ~Anchors(k)' /\ AskedInOrder(k)'
    BY <2>1, <1>1, LeaveEffect
  <2> QED
    BY <2>1, <2>2, <1>1, LeftCovers
<1>3. CASE NoAnswer(k)
  BY <1>1, <1>3, MissedCovers DEF NoAnswer, Anchors, Misses
<1> QED
  BY <1>2, <1>3

LEMMA AnchorCovers ==
  ASSUME LInv, CInv, NEW k \in Tasks, Anchor(k)
  PROVE  CInv'
<1>1. CASE Grant(k)
  <2>1. pc[k] = "wait" /\ pc' = [pc EXCEPT ![k] = "head"]
        /\ UNCHANGED <<chain, missed, head, ask, run>>
    BY <1>1 DEF Grant, Goto
  <2>2. ~Anchors(k)
    BY <2>1 DEF Anchors
  <2> QED
    BY <2>1, <2>2, WaitingCovers
<1>2. CASE Answer(k)
  <2>1. pc[k] = "ask" /\ pc' = [pc EXCEPT ![k] = "write"]
        /\ UNCHANGED <<chain, missed, head, ask, run>>
    BY <1>2 DEF Answer, Goto
  <2>2. Anchors(k)
    BY <2>1 DEF Anchors
  <2> QED
    BY <2>1, <2>2, WaitingCovers
<1> QED
  BY <1>1, <1>2, ReadHeadCovers, FailureCovers, WriteCovers, ExportEndCovers DEF Anchor

LEMMA EnterCovers ==
  ASSUME LInv, CInv, NEW k \in Tasks, NEW r \in Runs, Enter(k, r)
  PROVE  CInv'
<1>1. /\ UNCHANGED <<chain, missed, head, ask>>
      /\ run' = [run EXCEPT ![k] = r]
      /\ pc[k] \in {"visit", "new"}
      /\ \E to \in {"wait", "head"} : pc' = [pc EXCEPT ![k] = to]
  BY DEF Enter, Goto
<1>2. ~Anchors(k) /\ \A j \in Tasks : Anchors(j) => run'[j] = run[j]
  BY <1>1 DEF Anchors, LInv, TypeOK
<1> QED
  BY <1>1, <1>2, WaitingCovers

LEMMA LoopCovers ==
  ASSUME LInv, CInv, Wake \/ Sleep
  PROVE  CInv'
<1>1. Loop \in Tasks /\ pc[Loop] \in {"sleep", "visit"} /\ TypeOK
  BY DEF Tasks, LInv, Wake, Sleep
<1>2. \E to \in {"sleep", "visit"} : pc' = [pc EXCEPT ![Loop] = to]
  <2>1. CASE UNCHANGED pc
    BY <2>1, <1>1 DEF TypeOK
  <2>2. CASE Goto(Loop, "visit") \/ Goto(Loop, "sleep")
    BY <2>2 DEF Goto
  <2> QED
    BY <2>1, <2>2 DEF Wake, Sleep
<1>3. UNCHANGED <<chain, missed, head, ask, run>>
  BY DEF Wake, Sleep
<1>4. ~Anchors(Loop)
  BY <1>1 DEF Anchors
<1> QED
  BY <1>1, <1>2, <1>3, <1>4, WaitingCovers

LEMMA StepCovers == LInv /\ CInv /\ [Next]_vars => CInv'
<1> SUFFICES ASSUME LInv, CInv, [Next]_vars PROVE CInv'
  OBVIOUS
<1>1. CASE LoopStep
  BY <1>1, AnchorCovers, EnterCovers, LoopCovers DEF LoopStep, Tasks
<1>2. CASE \E k \in Exports : Anchor(k) \/ \E r \in Runs : Enter(k, r)
  BY <1>2, AnchorCovers, EnterCovers DEF Tasks
<1>3. CASE \E r \in Runs : Record(r)
  BY <1>3, RecordCovers
<1>4. CASE UNCHANGED vars
  <2>1. UNCHANGED <<chain, missed, head, ask, run, pc>>
    BY <1>4 DEF vars
  <2>2. \A j \in Tasks : AskedInOrder(j)'
    BY <2>1 DEF CInv, AskedInOrder
  <2>3. \A j \in Tasks : Anchors(j)' <=> Anchors(j)
    BY <2>1 DEF Anchors
  <2> QED
    BY <2>1, <2>2, <2>3, QuietCovers
<1> QED
  BY <1>1, <1>2, <1>3, <1>4 DEF Next

LEMMA CoversInvariant == Spec => []CInv
  BY InitCovers, StepCovers, LocksInvariant, PTL DEF Spec

\* Whatever records come in, whatever fails and however tasks overlap: what the last anchor of a
\* run nobody is at work on covers is covered by a receipt of every witness that did not fail for
\* the run (anchoring.py:117-147). Nothing is said of records that came in after that head.
THEOREM AnchoringSettledIsCovered == Spec => []SettledIsCovered
<1>1. ASSUME CInv, NEW r \in Runs, Settled(r), NEW b \in Asked
      PROVE  <<r, b>> \in missed \/ Receipt(r, b, Last(r).over)
  <2>1. CoveredTo(r, Last(r).over)
    BY <1>1 DEF CInv, CoveredOrAtWork, Settled, Anchors, Inside
  <2>2. PICK w \in DOMAIN Witnesses : b = Witnesses[w]
    BY DEF Asked
  <2>3. w \in 1..Len(Witnesses)
    BY AnchoringAssumption, LenProperties
  <2> QED
    BY <2>1, <2>2, <2>3 DEF CoveredTo, Given
<1>2. CInv => SettledIsCovered
  BY <1>1 DEF SettledIsCovered
<1> QED
  BY <1>2, CoversInvariant, PTL
=============================================================================
