-------------------------- MODULE RunGrouperProofs --------------------------
(***************************************************************************)
(* Safety of the run grouper for every number of calls, labels and runs,   *)
(* any limit of open runs and any faults, ends and restarts: records under *)
(* their own label, true answers, no run left open, and the label used     *)
(* longest ago given up first.                                             *)
(***************************************************************************)
EXTENDS RunGrouper, SequenceTheorems, TLAPS

Occurs(s, x) == \E i \in DOMAIN s : s[i] = x

ToEnd(s, l) == Append(Without(s, l), l)
-----------------------------------------------------------------------------
\* The order of `_runs`

\* A position of a sequence is an occurrence of what stands there.
LEMMA PositionOccurs ==
    ASSUME NEW S, NEW s \in Seq(S), NEW i \in Int, 1 <= i, i <= Len(s)
    PROVE  Occurs(s, s[i])
BY DEF Occurs

\* Taking a label out leaves the others in place and shortens the sequence by one.
LEMMA WithoutKeeps ==
    ASSUME NEW S, NEW s \in Seq(S), NEW l
    PROVE  /\ Without(s, l) \in Seq(S)
           /\ Len(Without(s, l)) = IF Occurs(s, l) THEN Len(s) - 1 ELSE Len(s)
           /\ \A x : x # l /\ Occurs(s, x) => Occurs(Without(s, l), x)
<1>1. CASE ~Occurs(s, l)
    BY <1>1 DEF Without, Occurs
<1>2. CASE Occurs(s, l)
    <2> DEFINE k == CHOOSE i \in DOMAIN s : s[i] = l
               a == SubSeq(s, 1, k - 1)
               b == SubSeq(s, k + 1, Len(s))
    <2>1. k \in 1..Len(s) /\ s[k] = l
        BY <1>2 DEF Occurs
    <2> HIDE DEF k
    <2>2. /\ a \in Seq(S) /\ Len(a) = k - 1
          /\ \A i \in 1..(k - 1) : a[i] = s[i]
        <3>1. \A i \in 1..(k - 1) : s[i] \in S
            BY <2>1
        <3> QED BY <2>1, <3>1, SubSeqProperties
    <2>3. /\ b \in Seq(S) /\ Len(b) = Len(s) - k
          /\ \A i \in 1..(Len(s) - k) : b[i] = s[k + i]
        <3>1. \A i \in (k + 1)..Len(s) : s[i] \in S
            BY <2>1
        <3>2. /\ SubSeq(s, k + 1, Len(s)) \in Seq(S)
              /\ Len(SubSeq(s, k + 1, Len(s))) =
                    IF k + 1 <= Len(s) THEN Len(s) - (k + 1) + 1 ELSE 0
              /\ \A i \in 1..(Len(s) - (k + 1) + 1) :
                    SubSeq(s, k + 1, Len(s))[i] = s[k + 1 + i - 1]
            BY ONLY <2>1, <3>1, s \in Seq(S), Len(s) \in Nat, SubSeqProperties
        <3> QED BY <2>1, <3>2
    <2> HIDE DEF a, b
    <2>4. /\ a \o b \in Seq(S) /\ Len(a \o b) = Len(s) - 1
          /\ \A i \in 1..(Len(s) - 1) : (a \o b)[i] = IF i < k THEN s[i] ELSE s[i + 1]
        <3>1. /\ a \o b \in Seq(S) /\ Len(a \o b) = Len(a) + Len(b)
              /\ \A i \in 1..(Len(a) + Len(b)) :
                    (a \o b)[i] = IF i <= Len(a) THEN a[i] ELSE b[i - Len(a)]
            BY <2>2, <2>3, ConcatProperties
        <3>2. k \in Nat /\ k <= Len(s) /\ k >= 1 /\ Len(s) \in Nat
            BY <2>1
        <3>3. Len(a \o b) = Len(s) - 1
            BY <2>2, <2>3, <3>1, <3>2
        <3>4. ASSUME NEW i \in 1..(Len(s) - 1)
              PROVE  (a \o b)[i] = IF i < k THEN s[i] ELSE s[i + 1]
            <4>1. (a \o b)[i] = IF i <= k - 1 THEN a[i] ELSE b[i - (k - 1)]
                BY <2>2, <2>3, <3>1, <3>2
            <4>2. CASE i < k
                BY <2>2, <3>2, <4>1, <4>2
            <4>3. CASE ~(i < k)
                <5>1. i - (k - 1) \in 1..(Len(s) - k) /\ k + (i - (k - 1)) = i + 1
                    BY <3>2, <4>3
                <5> QED BY <2>3, <3>2, <4>1, <4>3, <5>1
            <4> QED BY <4>2, <4>3
        <3> QED BY <3>1, <3>3, <3>4
    <2>5. Without(s, l) = a \o b
        BY <1>2 DEF Without, RemoveAt, Occurs, a, b, k
    <2>6. ASSUME NEW x, x # l, Occurs(s, x)
          PROVE  Occurs(a \o b, x)
        <3>1. PICK i \in 1..Len(s) : s[i] = x
            BY <2>6 DEF Occurs
        <3>2. CASE i < k
            <4>1. i \in 1..(Len(s) - 1) /\ i \in Int /\ 1 <= i /\ i <= Len(a \o b)
                BY <2>1, <2>4, <3>1, <3>2
            <4>2. (a \o b)[i] = s[i]
                BY <2>4, <3>2, <4>1
            <4> QED BY <2>4, <3>1, <4>1, <4>2, PositionOccurs
        <3>3. CASE i > k
            <4>1. /\ i - 1 \in 1..(Len(s) - 1) /\ ~(i - 1 < k) /\ (i - 1) + 1 = i
                  /\ i - 1 \in Int /\ 1 <= i - 1 /\ i - 1 <= Len(a \o b)
                BY <2>1, <2>4, <3>1, <3>3
            <4>2. (a \o b)[i - 1] = s[i]
                BY <2>4, <4>1
            <4> QED BY <2>4, <3>1, <4>1, <4>2, PositionOccurs
        <3>4. i # k
            BY <2>1, <2>6, <3>1
        <3> QED BY <2>1, <3>1, <3>2, <3>3, <3>4
    <2> QED BY <1>2, <2>4, <2>5, <2>6
<1> QED BY <1>1, <1>2

\* move_to_end: the label is in the sequence, every other stays in it.
LEMMA MoveToEnd ==
    ASSUME NEW S, NEW s \in Seq(S), NEW l \in S
    PROVE  /\ ToEnd(s, l) \in Seq(S)
           /\ Len(ToEnd(s, l)) = IF Occurs(s, l) THEN Len(s) ELSE Len(s) + 1
           /\ Occurs(ToEnd(s, l), l)
           /\ \A x : Occurs(s, x) => Occurs(ToEnd(s, l), x)
<1> DEFINE w == Without(s, l)
<1>0. ToEnd(s, l) = Append(w, l)
    BY DEF ToEnd
<1>1. /\ w \in Seq(S) /\ Len(w) = IF Occurs(s, l) THEN Len(s) - 1 ELSE Len(s)
      /\ \A x : x # l /\ Occurs(s, x) => Occurs(w, x)
    BY WithoutKeeps
<1> HIDE DEF w
<1>2. /\ ToEnd(s, l) \in Seq(S) /\ Len(ToEnd(s, l)) = Len(w) + 1
      /\ \A i \in 1..Len(w) : ToEnd(s, l)[i] = w[i]
      /\ ToEnd(s, l)[Len(w) + 1] = l
    BY <1>0, <1>1, AppendProperties
<1>3. Occurs(ToEnd(s, l), l)
    BY <1>1, <1>2 DEF Occurs
<1>4. ASSUME NEW x, Occurs(w, x)
      PROVE  Occurs(ToEnd(s, l), x)
    <2>1. PICK i \in 1..Len(w) : w[i] = x
        BY <1>1, <1>4 DEF Occurs
    <2>2. ToEnd(s, l)[i] = x /\ i \in Int /\ 1 <= i /\ i <= Len(ToEnd(s, l))
        BY <1>1, <1>2, <2>1
    <2> QED BY <1>2, <2>2, PositionOccurs
<1>5. \A x : Occurs(s, x) => Occurs(ToEnd(s, l), x)
    BY <1>1, <1>3, <1>4
<1>6. Len(ToEnd(s, l)) = IF Occurs(s, l) THEN Len(s) ELSE Len(s) + 1
    BY <1>1, <1>2
<1> QED BY <1>2, <1>3, <1>5, <1>6

\* popitem(last=False): every label but the first stays.
LEMMA TailKeeps ==
    ASSUME NEW S, NEW s \in Seq(S), Len(s) > 0
    PROVE  /\ Head(s) \in S
           /\ Tail(s) \in Seq(S)
           /\ Len(Tail(s)) = Len(s) - 1
           /\ \A x : x # Head(s) /\ Occurs(s, x) => Occurs(Tail(s), x)
<1>1. /\ Head(s) \in S /\ Tail(s) \in Seq(S) /\ Len(Tail(s)) = Len(s) - 1
      /\ \A i \in 1..Len(Tail(s)) : Tail(s)[i] = s[i + 1]
    BY HeadTailProperties
<1>2. ASSUME NEW x, x # Head(s), Occurs(s, x)
      PROVE  Occurs(Tail(s), x)
    <2>1. PICK i \in 1..Len(s) : s[i] = x
        BY <1>2 DEF Occurs
    <2>2. i # 1
        BY <1>2, <2>1
    <2>3. /\ i - 1 \in 1..Len(Tail(s)) /\ (i - 1) + 1 = i
          /\ i - 1 \in Int /\ 1 <= i - 1 /\ i - 1 <= Len(Tail(s))
        BY <1>1, <2>1, <2>2
    <2>4. Tail(s)[i - 1] = s[i]
        BY <1>1, <2>3
    <2> QED BY <1>1, <2>1, <2>3, <2>4, PositionOccurs
<1> QED BY <1>1, <1>2
-----------------------------------------------------------------------------
\* The inductive invariant

\* The calls that are inside the lock of `run_for`.
Holding == {"close", "start", "evict"}

\* One call at a time is inside, the one the lock is with.
Locked == \A c \in Calls : pc[c] \in Holding <=> lock = c

\* `_runs` maps a label to a run that was opened under it, and its order has the label.
Mapped ==
    \A l \in Labels : runOf[l] # None =>
        /\ live[runOf[l]] # "absent"
        /\ opened[runOf[l]] = l
        /\ Occurs(order, l)

\* A call that is about to append has a run that was opened under its label.
Held ==
    \A c \in Calls : pc[c] \in {"append", "evict"} =>
        /\ got[c] \in Runs
        /\ live[got[c]] # "absent"
        /\ opened[got[c]] = label[c]

\* A call is done when it has its answer.
Answered == \A c \in Calls : pc[c] = "done" <=> reply[c] # "none"

\* Records are in runs that were started.
Started == \A r \in Runs : stored[r] # {} => live[r] # "absent"

\* `_runs` is one label too long while a call is about to evict, and never else.
Bounded ==
    /\ Len(order) <= MaxOpenRuns + 1
    /\ \A c \in Calls : pc[c] = "evict" => Len(order) > MaxOpenRuns
    /\ (\A c \in Calls : pc[c] # "evict") => Len(order) <= MaxOpenRuns

\* Where a run is about to be opened its predecessor is closed, if the store took its end.
Ended ==
    faults = 0 =>
        \A c \in Calls : pc[c] = "start" /\ runOf[label[c]] # None => live[runOf[label[c]]] = "closed"

\* An append whose answer was lost is counted.
Counted == lost # {} => losses > 0

\* The first half of NoLeak.
Current == faults = 0 => \A r \in Runs \ past : live[r] = "open" => runOf[opened[r]] = r

IInv ==
    /\ TypeOK /\ Locked /\ Mapped /\ Held /\ Answered /\ Started
    /\ Bounded /\ Ended /\ Counted /\ Current /\ OwnLabel /\ ToldTrue

LEMMA InitInv == Init => IInv
<1> SUFFICES ASSUME Init PROVE IInv
    OBVIOUS
<1> USE GrouperAssumption
<1>1. TypeOK
    BY DEF Init, TypeOK
<1>2. Locked /\ Mapped /\ Held /\ Answered /\ Started /\ Bounded /\ Ended /\ Current
    BY DEF Init, Locked, Mapped, Held, Answered, Started, Bounded, Ended, Current, Holding
<1>3. OwnLabel /\ ToldTrue
    BY DEF Init, OwnLabel, ToldTrue
<1>4. Counted
    BY DEF Init, Counted
<1> QED BY <1>1, <1>2, <1>3, <1>4 DEF IInv

LEMMA HitInv == ASSUME IInv, NEW c \in Calls, Hit(c) PROVE IInv'
<1> USE GrouperAssumption
<1> DEFINE l == label[c]
<1>1. /\ order' \in Seq(Labels) /\ Len(order') = IF Occurs(order, l) THEN Len(order) ELSE Len(order) + 1
      /\ \A x : Occurs(order, x) => Occurs(order', x)
    <2>1. l \in Labels /\ order \in Seq(Labels) /\ order' = ToEnd(order, l)
        BY DEF IInv, TypeOK, Hit, ToEnd
    <2> QED BY <2>1, MoveToEnd
<1>2. Len(order') = Len(order)
    BY <1>1 DEF IInv, Mapped, Hit
<1>3. TypeOK'
    BY <1>1 DEF IInv, TypeOK, Hit, Goto, runs, raised
<1>4. Locked' /\ Answered'
    BY DEF IInv, TypeOK, Hit, Goto, Locked, Answered, Holding
<1>5. Mapped'
    BY <1>1 DEF IInv, TypeOK, Hit, Mapped, runs
<1>6. Held'
    <2>1. /\ got' = [got EXCEPT ![c] = runOf[l]] /\ UNCHANGED <<live, opened>>
          /\ pc' = [pc EXCEPT ![c] = "append"]
        BY DEF Hit, Goto, runs
    <2>2. runOf[l] \in Runs /\ live[runOf[l]] # "absent" /\ opened[runOf[l]] = l
        BY DEF IInv, TypeOK, Hit, Mapped
    <2> QED BY <2>1, <2>2 DEF IInv, TypeOK, Held
<1>7. Bounded'
    BY <1>2 DEF IInv, TypeOK, Hit, Goto, Bounded
<1>8. Ended' /\ Current'
    BY DEF IInv, TypeOK, Hit, Goto, Ended, Current, runs
<1>9. Started' /\ OwnLabel' /\ ToldTrue'
    BY DEF IInv, Hit, Started, OwnLabel, ToldTrue, runs, raised
<1>10. Counted'
    BY DEF Hit, raised, IInv, Counted
<1> QED BY <1>3, <1>4, <1>5, <1>6, <1>7, <1>8, <1>9, <1>10 DEF IInv

LEMMA ReplaceInv == ASSUME IInv, NEW c \in Calls, Replace(c) PROVE IInv'
<1> USE GrouperAssumption
<1> DEFINE to == IF runOf[label[c]] = None THEN "start" ELSE "close"
<1>1. /\ pc' = [pc EXCEPT ![c] = to] /\ pc[c] = "lookup" /\ lock = None /\ lock' = c
      /\ UNCHANGED <<live, opened, stored, order, runOf, got, reply, faults, losses, lost, past>>
    BY DEF Replace, Goto, runs, map, raised
<1>2. to \in {"start", "close"} /\ (to = "start" => runOf[label[c]] = None)
    OBVIOUS
<1> HIDE DEF to
<1>3. TypeOK'
    BY <1>1, <1>2 DEF IInv, TypeOK, Replace, map
<1>4. Locked' /\ Answered'
    BY <1>1, <1>2 DEF IInv, TypeOK, Locked, Answered, Holding
<1>5. Mapped' /\ Held'
    BY <1>1, <1>2 DEF IInv, TypeOK, Mapped, Held
<1>6. Bounded'
    BY <1>1, <1>2 DEF IInv, TypeOK, Bounded
<1>7. Ended'
    BY <1>1, <1>2 DEF IInv, TypeOK, Ended
<1>8. Current' /\ Started' /\ OwnLabel' /\ ToldTrue'
    BY <1>1 DEF IInv, Current, Started, OwnLabel, ToldTrue
<1>9. Counted'
    BY <1>1 DEF IInv, Counted
<1> QED BY <1>3, <1>4, <1>5, <1>6, <1>7, <1>8, <1>9 DEF IInv

\* What ending a run does to the runs: at most that one changes, from open to closed, and
\* when it is open and the store takes everything, it is closed.
LEMMA EndQuietlyCloses ==
    ASSUME TypeOK, NEW q, EndQuietly(q)
    PROVE  /\ live' \in [Runs -> {"absent", "open", "closed"}]
           /\ faults' \in 0..MaxFaults
           /\ faults' = 0 => faults = 0
           /\ \A r \in Runs : live'[r] = live[r] \/ (r = q /\ live[r] = "open" /\ live'[r] = "closed")
           /\ faults' = 0 /\ q \in Runs => live'[q] # "open"
<1> USE GrouperAssumption
<1>1. CASE live[q] = "open" /\ live' = [live EXCEPT ![q] = "closed"] /\ UNCHANGED faults
    BY <1>1 DEF TypeOK
<1>2. CASE live[q] = "open" /\ faults < MaxFaults /\ faults' = faults + 1 /\ UNCHANGED live
    <2>1. faults' \in 0..MaxFaults /\ faults' # 0
        BY <1>2 DEF TypeOK
    <2> QED BY <1>2, <2>1 DEF TypeOK
<1>3. CASE live[q] # "open" /\ UNCHANGED <<live, faults>>
    BY <1>3 DEF TypeOK
<1> QED BY <1>1, <1>2, <1>3 DEF EndQuietly

LEMMA CloseInv == ASSUME IInv, NEW c \in Calls, Close(c) PROVE IInv'
<1> USE GrouperAssumption
<1> DEFINE l == label[c]
           q == runOf[l]
<1>1. /\ pc' = [pc EXCEPT ![c] = "start"] /\ pc[c] = "close"
      /\ UNCHANGED <<opened, stored, order, runOf, lock, got, reply, losses, lost, past>>
    BY DEF Close, Goto, map, raised
<1>2. /\ live' \in [Runs -> {"absent", "open", "closed"}]
      /\ faults' \in 0..MaxFaults
      /\ faults' = 0 => faults = 0
      /\ \A r \in Runs : live'[r] = live[r] \/ (r = q /\ live[r] = "open" /\ live'[r] = "closed")
      /\ faults' = 0 /\ q \in Runs => live'[q] # "open"
    BY EndQuietlyCloses DEF IInv, Close
<1>3. \A r \in Runs : (live'[r] = "absent" <=> live[r] = "absent") /\ (live'[r] = "open" => live[r] = "open")
    BY <1>2
<1>4. TypeOK'
    BY <1>1, <1>2 DEF IInv, TypeOK, Close, map
<1>5. Locked' /\ Answered'
    BY <1>1 DEF IInv, TypeOK, Locked, Answered, Holding
<1>6. Mapped' /\ Held'
    <2>1. ASSUME NEW m \in Labels, runOf'[m] # None
          PROVE  live'[runOf'[m]] # "absent" /\ opened'[runOf'[m]] = m /\ Occurs(order', m)
        <3>1. runOf[m] \in Runs /\ live[runOf[m]] # "absent" /\ opened[runOf[m]] = m /\ Occurs(order, m)
            BY <1>1, <2>1 DEF IInv, TypeOK, Mapped
        <3> QED BY <1>1, <1>3, <3>1
    <2>2. Held'
        BY <1>1, <1>3 DEF IInv, TypeOK, Held
    <2> QED BY <2>1, <2>2 DEF Mapped
<1>7. Bounded'
    BY <1>1 DEF IInv, TypeOK, Bounded
<1>8. Ended'
    <2> SUFFICES ASSUME faults' = 0, NEW d \in Calls, pc'[d] = "start", runOf[label[d]] # None
                 PROVE  live'[runOf[label[d]]] = "closed"
        BY <1>1 DEF Ended
    <2>1. d = c
        BY <1>1 DEF IInv, TypeOK, Locked, Holding
    <2>2. q \in Runs /\ live[q] # "absent"
        BY <2>1 DEF IInv, TypeOK, Mapped
    <2> QED BY <1>2, <1>3, <2>1, <2>2
<1>9. Current' /\ Started'
    BY <1>1, <1>2, <1>3 DEF IInv, Current, Started
<1>10. OwnLabel' /\ ToldTrue'
    BY <1>1 DEF IInv, OwnLabel, ToldTrue
<1>11. Counted'
    BY <1>1 DEF IInv, Counted
<1> QED BY <1>4, <1>5, <1>6, <1>7, <1>8, <1>9, <1>10, <1>11 DEF IInv

LEMMA StartFailsInv == ASSUME IInv, NEW c \in Calls, StartFails(c) PROVE IInv'
<1> USE GrouperAssumption
<1>1. /\ pc' = [pc EXCEPT ![c] = "done"] /\ pc[c] = "start"
      /\ reply' = [reply EXCEPT ![c] = "failed"] /\ got' = [got EXCEPT ![c] = None]
      /\ lock' = None /\ faults' = faults + 1
      /\ UNCHANGED <<live, opened, stored, order, runOf, losses, lost, past>>
    BY DEF StartFails, Reply, Goto, map, runs, raised
<1>2. TypeOK'
    BY <1>1 DEF IInv, TypeOK, StartFails, Reply, map
<1>3. Locked' /\ Answered'
    BY <1>1 DEF IInv, TypeOK, Locked, Answered, Holding
<1>4. Mapped' /\ Held'
    BY <1>1 DEF IInv, TypeOK, Mapped, Held
<1>5. Bounded'
    BY <1>1 DEF IInv, TypeOK, Bounded
<1>6. Ended' /\ Current'
    BY <1>1 DEF IInv, TypeOK, Ended, Current
<1>7. Started' /\ OwnLabel'
    BY <1>1 DEF IInv, Started, OwnLabel
<1>8. ToldTrue'
    BY <1>1 DEF IInv, TypeOK, ToldTrue, Answered
<1>9. Counted'
    BY <1>1 DEF IInv, Counted
<1> QED BY <1>2, <1>3, <1>4, <1>5, <1>6, <1>7, <1>8, <1>9 DEF IInv

\* A new run was absent, so nothing is stored in it, nobody holds it and no label has it.
LEMMA StartInv == ASSUME IInv, NEW c \in Calls, Start(c) PROVE IInv'
<1> USE GrouperAssumption
<1> DEFINE l == label[c]
<1>1. PICK r \in Runs :
        /\ live[r] = "absent"
        /\ live' = [live EXCEPT ![r] = "open"]
        /\ opened' = [opened EXCEPT ![r] = l]
        /\ runOf' = [runOf EXCEPT ![l] = r]
        /\ got' = [got EXCEPT ![c] = r]
    BY DEF Start
<1>2. /\ pc[c] = "start" /\ order' = ToEnd(order, l)
      /\ UNCHANGED <<stored, reply, faults, losses, lost, past>>
    BY DEF Start, ToEnd, raised
<1>3. /\ order' \in Seq(Labels)
      /\ Len(order') = IF Occurs(order, l) THEN Len(order) ELSE Len(order) + 1
      /\ Occurs(order', l)
      /\ \A x : Occurs(order, x) => Occurs(order', x)
    <2>1. l \in Labels /\ order \in Seq(Labels)
        BY DEF IInv, TypeOK
    <2> QED BY <1>2, <2>1, MoveToEnd
<1>4. lock = c /\ \A d \in Calls : pc[d] \in Holding => d = c
    BY <1>2 DEF IInv, Locked, Holding
<1>5. \/ Len(order') > MaxOpenRuns /\ pc' = [pc EXCEPT ![c] = "evict"] /\ lock' = lock
      \/ ~(Len(order') > MaxOpenRuns) /\ pc' = [pc EXCEPT ![c] = "append"] /\ lock' = None
    BY DEF Start, Goto
<1>6. TypeOK'
    <2>1. /\ opened' \in [Runs -> Labels \cup {None}] /\ runOf' \in [Labels -> Runs \cup {None}]
          /\ live' \in [Runs -> {"absent", "open", "closed"}] /\ got' \in [Calls -> Runs \cup {None}]
        BY <1>1 DEF IInv, TypeOK
    <2>2. /\ pc' \in [Calls -> {"lookup", "close", "start", "evict", "append", "done"}]
          /\ lock' \in Calls \cup {None}
        BY <1>5 DEF IInv, TypeOK
    <2>3. seen' \in [Labels -> 0..MaxTime] /\ at' \in [Calls -> 0..MaxTime]
        <3>1. seen' = [seen EXCEPT ![l] = at[c]] /\ at' = [at EXCEPT ![c] = 0]
            BY DEF Start
        <3>2. 0 \in 0..MaxTime
            OBVIOUS
        <3> QED BY <3>1, <3>2 DEF IInv, TypeOK
    <2>4. UNCHANGED <<now, fresh, ends, lives>>
        BY DEF Start
    <2> QED BY <1>2, <1>3, <2>1, <2>2, <2>3, <2>4 DEF IInv, TypeOK
<1>7. Locked' /\ Answered'
    <2>1. CASE pc' = [pc EXCEPT ![c] = "evict"] /\ lock' = lock
        BY <1>2, <1>4, <2>1 DEF IInv, TypeOK, Locked, Answered, Holding
    <2>2. CASE pc' = [pc EXCEPT ![c] = "append"] /\ lock' = None
        BY <1>2, <1>4, <2>2 DEF IInv, TypeOK, Locked, Answered, Holding
    <2> QED BY <1>5, <2>1, <2>2
<1>8. Mapped'
    BY <1>1, <1>3 DEF IInv, TypeOK, Mapped
<1>9. Held'
    BY <1>1, <1>5 DEF IInv, TypeOK, Held
<1>10. Bounded'
    <2>1. Len(order) <= MaxOpenRuns
        BY <1>2, <1>4 DEF IInv, Bounded, Holding
    <2>2. \A d \in Calls : pc'[d] = "evict" => d = c /\ Len(order') > MaxOpenRuns
        BY <1>4, <1>5 DEF IInv, TypeOK, Holding
    <2>3. (\A d \in Calls : pc'[d] # "evict") => ~(Len(order') > MaxOpenRuns)
        BY <1>5 DEF IInv, TypeOK
    <2>4. Len(order') \in Nat /\ Len(order) \in Nat
        BY <1>3 DEF IInv, TypeOK
    <2>5. Len(order') <= MaxOpenRuns + 1
        BY <1>3, <2>1, <2>4
    <2> QED BY <2>2, <2>3, <2>4, <2>5 DEF Bounded
<1>11. Ended'
    <2>1. \A d \in Calls : pc'[d] # "start"
        BY <1>4, <1>5 DEF IInv, TypeOK, Holding
    <2> QED BY <2>1 DEF Ended
<1>12. Current'
    <2> SUFFICES ASSUME faults = 0, NEW q \in Runs \ past, live'[q] = "open"
                 PROVE  runOf'[opened'[q]] = q
        BY <1>2 DEF Current
    <2>1. CASE q = r
        BY <1>1, <2>1 DEF IInv, TypeOK
    <2>2. CASE q # r
        <3>1. live[q] = "open" /\ opened'[q] = opened[q] /\ runOf[opened[q]] = q
            BY <1>1, <2>2 DEF IInv, TypeOK, Current
        <3>2. opened[q] # l
            <4>1. runOf[l] # None => live[runOf[l]] = "closed"
                BY <1>2 DEF IInv, Ended
            <4> QED BY <3>1, <4>1
        <3> QED BY <1>1, <3>1, <3>2 DEF IInv, TypeOK
    <2> QED BY <2>1, <2>2
<1>13. stored[r] = {}
    BY <1>1 DEF IInv, TypeOK, Started
<1>14. Started' /\ OwnLabel'
    BY <1>1, <1>2, <1>13 DEF IInv, TypeOK, Started, OwnLabel
<1>15. ToldTrue'
    BY <1>2 DEF IInv, ToldTrue
<1>16. Counted'
    BY <1>2 DEF IInv, Counted
<1> QED BY <1>6, <1>7, <1>8, <1>9, <1>10, <1>11, <1>12, <1>14, <1>15, <1>16 DEF IInv

LEMMA EvictInv == ASSUME IInv, NEW c \in Calls, Evict(c) PROVE IInv'
<1> USE GrouperAssumption
<1> DEFINE l == Head(order)
           q == runOf[l]
<1>1. /\ pc[c] = "evict" /\ pc' = [pc EXCEPT ![c] = "append"] /\ lock' = None
      /\ order' = Tail(order) /\ runOf' = [runOf EXCEPT ![l] = None]
      /\ UNCHANGED <<opened, stored, got, reply, losses, lost, past>>
    BY DEF Evict, Goto, raised
<1>2. lock = c /\ \A d \in Calls : pc[d] \in Holding => d = c
    BY <1>1 DEF IInv, Locked, Holding
<1>3. order \in Seq(Labels) /\ Len(order) > 0
    BY <1>1 DEF IInv, TypeOK, Bounded
<1>4. /\ l \in Labels /\ order' \in Seq(Labels) /\ Len(order') = Len(order) - 1
      /\ \A x : x # l /\ Occurs(order, x) => Occurs(order', x)
    BY <1>1, <1>3, TailKeeps
<1> HIDE DEF l
<1>5. /\ live' \in [Runs -> {"absent", "open", "closed"}]
      /\ faults' \in 0..MaxFaults
      /\ faults' = 0 => faults = 0
      /\ \A r \in Runs : live'[r] = live[r] \/ (r = q /\ live[r] = "open" /\ live'[r] = "closed")
      /\ faults' = 0 /\ q \in Runs => live'[q] # "open"
    BY EndQuietlyCloses DEF IInv, Evict, l
<1>6. \A r \in Runs : (live'[r] = "absent" <=> live[r] = "absent") /\ (live'[r] = "open" => live[r] = "open")
    BY <1>5
<1>7. TypeOK'
    <2>1. /\ runOf' \in [Labels -> Runs \cup {None}] /\ lock' \in Calls \cup {None}
          /\ pc' \in [Calls -> {"lookup", "close", "start", "evict", "append", "done"}]
        BY <1>1 DEF IInv, TypeOK
    <2> QED BY <1>1, <1>4, <1>5, <2>1 DEF IInv, TypeOK, Evict
<1>8. Locked' /\ Answered'
    BY <1>1, <1>2 DEF IInv, TypeOK, Locked, Answered, Holding
<1>9. Mapped'
    <2>1. ASSUME NEW m \in Labels, runOf'[m] # None
          PROVE  live'[runOf'[m]] # "absent" /\ opened'[runOf'[m]] = m /\ Occurs(order', m)
        <3>1. m # l /\ runOf'[m] = runOf[m]
            BY <1>1, <2>1 DEF IInv, TypeOK
        <3>2. runOf[m] \in Runs /\ live[runOf[m]] # "absent" /\ opened[runOf[m]] = m /\ Occurs(order, m)
            BY <2>1, <3>1 DEF IInv, TypeOK, Mapped
        <3> QED BY <1>1, <1>4, <1>6, <3>1, <3>2
    <2> QED BY <2>1 DEF Mapped
<1>10. Held'
    BY <1>1, <1>6 DEF IInv, TypeOK, Held
<1>11. Bounded'
    <2>1. Len(order) <= MaxOpenRuns + 1 /\ Len(order) \in Nat
        BY <1>3 DEF IInv, Bounded
    <2>2. Len(order') <= MaxOpenRuns
        BY <1>4, <2>1
    <2>3. \A d \in Calls : pc'[d] # "evict"
        BY <1>1, <1>2 DEF IInv, TypeOK, Holding
    <2> QED BY <1>4, <2>1, <2>2, <2>3 DEF Bounded
<1>12. Ended'
    <2>1. \A d \in Calls : pc'[d] # "start"
        BY <1>1, <1>2 DEF IInv, TypeOK, Holding
    <2> QED BY <2>1 DEF Ended
<1>13. Current'
    <2> SUFFICES ASSUME faults' = 0, NEW r \in Runs \ past, live'[r] = "open"
                 PROVE  runOf'[opened[r]] = r
        BY <1>1 DEF Current
    <2>1. live[r] = "open" /\ runOf[opened[r]] = r
        BY <1>5, <1>6 DEF IInv, Current
    <2>2. opened[r] # l
        BY <1>5, <2>1
    <2> QED BY <1>1, <2>1, <2>2 DEF IInv, TypeOK
<1>14. Started' /\ OwnLabel' /\ ToldTrue'
    BY <1>1, <1>6 DEF IInv, Started, OwnLabel, ToldTrue
<1>15. Counted'
    BY <1>1 DEF IInv, Counted
<1> QED BY <1>7, <1>8, <1>9, <1>10, <1>11, <1>12, <1>13, <1>14, <1>15 DEF IInv

\* Storing the record of a call that is told so keeps the answers true.
LEMMA StoreToldTrue ==
    ASSUME IInv, NEW c \in Calls, NEW q \in Runs, lost' = lost,
           \A r \in Runs : c \in stored[r] => c \in lost \ Named,
           stored' = [r \in Runs |-> IF r = q THEN stored[r] \cup {c} ELSE stored[r]],
           \A d \in Calls : reply'[d] = IF d = c THEN "recorded" ELSE reply[d]
    PROVE  ToldTrue'
<1>1. ASSUME NEW r \in Runs, NEW p \in Runs, NEW d \in stored'[r] \cap stored'[p], r # p
      PROVE  d \in lost \ Named
    <2>1. CASE d = c
        BY <1>1, <2>1
    <2>2. CASE d # c
        <3>1. d \in stored[r] \cap stored[p]
            BY <1>1, <2>2
        <3> QED BY <1>1, <3>1 DEF IInv, ToldTrue
    <2> QED BY <2>1, <2>2
<1>2. ASSUME NEW d \in Calls
      PROVE  /\ reply'[d] = "recorded" => \E r \in Runs : d \in stored'[r]
             /\ reply'[d] # "recorded" => \A r \in Runs : d \in stored'[r] => d \in lost
    <2>1. CASE d = c
        BY <2>1
    <2>2. CASE d # c
        <3>1. \A r \in Runs : d \in stored'[r] <=> d \in stored[r]
            BY <2>2
        <3> QED BY <2>2, <3>1 DEF IInv, ToldTrue
    <2> QED BY <2>1, <2>2
<1> QED BY <1>1, <1>2 DEF ToldTrue

\* A call without an answer has no record, or one of a lost append: storing it is in order.
LEMMA RecordedInv == ASSUME IInv, NEW c \in Calls, Recorded(c) PROVE IInv'
<1> USE GrouperAssumption
<1> DEFINE q == got[c]
<1>1. /\ pc[c] = "append" /\ pc' = [pc EXCEPT ![c] = "done"]
      /\ stored' = [stored EXCEPT ![q] = @ \cup {c}]
      /\ reply' = [reply EXCEPT ![c] = "recorded"] /\ got' = [got EXCEPT ![c] = None]
      /\ UNCHANGED <<live, opened, order, runOf, lock, faults, losses, lost, past>>
    BY DEF Recorded, Store, Reply, Goto, map, raised
<1>2. q \in Runs /\ live[q] # "absent" /\ opened[q] = label[c]
    BY <1>1 DEF IInv, Held
<1> HIDE DEF q
<1>3. TypeOK'
    <2>1. /\ fresh' = [fresh EXCEPT ![c] = FALSE]
          /\ UNCHANGED <<seen, now, at, ends, lives>>
        BY DEF Recorded, Reply, map
    <2>2. stored' \in [Runs -> SUBSET Calls]
        BY <1>1, <1>2 DEF IInv, TypeOK
    <2>3. /\ pc' \in [Calls -> {"lookup", "close", "start", "evict", "append", "done"}]
          /\ reply' \in [Calls -> {"none", "recorded", "failed", "cut"}]
          /\ got' \in [Calls -> Runs \cup {None}] /\ fresh' \in [Calls -> BOOLEAN]
        BY <1>1, <2>1 DEF IInv, TypeOK
    <2> QED BY <1>1, <2>1, <2>2, <2>3 DEF IInv, TypeOK
<1>4. Locked' /\ Answered'
    BY <1>1 DEF IInv, TypeOK, Locked, Answered, Holding
<1>5. Mapped' /\ Held'
    BY <1>1 DEF IInv, TypeOK, Mapped, Held
<1>6. Bounded'
    BY <1>1 DEF IInv, TypeOK, Bounded
<1>7. Ended' /\ Current'
    BY <1>1 DEF IInv, TypeOK, Ended, Current
<1>8. Started' /\ OwnLabel'
    BY <1>1, <1>2 DEF IInv, TypeOK, Started, OwnLabel
<1>9. ToldTrue'
    <2>1. ~Taken(c) /\ \A r \in Runs : c \in stored[r] => c \in lost \ Named
        <3>1. ~Taken(c)
            BY DEF Recorded
        <3>2. reply[c] # "recorded"
            BY <1>1 DEF IInv, TypeOK, Answered
        <3>3. \A r \in Runs : c \in stored[r] => c \in lost
            BY <3>2 DEF IInv, ToldTrue
        <3> QED BY <3>1, <3>3 DEF Taken
    <2>2. lost' = lost /\ stored' = [r \in Runs |-> IF r = q THEN stored[r] \cup {c} ELSE stored[r]]
        BY <1>1, <1>2 DEF IInv, TypeOK
    <2>3. \A d \in Calls : reply'[d] = IF d = c THEN "recorded" ELSE reply[d]
        BY <1>1 DEF IInv, TypeOK
    <2> QED BY <1>2, <2>1, <2>2, <2>3, StoreToldTrue
<1>10. Counted'
    BY <1>1 DEF IInv, Counted
<1> QED BY <1>3, <1>4, <1>5, <1>6, <1>7, <1>8, <1>9, <1>10 DEF IInv

\* What a failed append leaves of the runs: what there was, or the record as well.
LEMMA RaisedGives ==
    ASSUME IInv, NEW c \in Calls, Unrecorded(c)
    PROVE  /\ faults' \in 0..MaxFaults /\ (faults' = 0 => faults = 0)
           /\ losses' \in 0..MaxLosses /\ (lost' # {} => losses' > 0)
           /\ \/ UNCHANGED <<stored, lost>>
              \/ /\ ~Taken(c) /\ lost' = lost \cup {c}
                 /\ stored' = [stored EXCEPT ![got[c]] = @ \cup {c}]
<1> USE GrouperAssumption
<1>1. CASE UNCHANGED <<stored, faults, raised>>
    BY <1>1 DEF IInv, TypeOK, Counted, raised
<1>2. CASE faults < MaxFaults /\ faults' = faults + 1 /\ UNCHANGED <<stored, raised>>
    BY <1>2 DEF IInv, TypeOK, Counted, raised
<1>3. CASE /\ ~Taken(c) /\ losses < MaxLosses /\ losses' = losses + 1
           /\ lost' = lost \cup {c} /\ Store(c) /\ UNCHANGED faults
    BY <1>3 DEF IInv, TypeOK, Store
<1> QED BY <1>1, <1>2, <1>3 DEF Unrecorded, Raised

LEMMA UnrecordedInv == ASSUME IInv, NEW c \in Calls, Unrecorded(c) PROVE IInv'
<1> USE GrouperAssumption
<1> DEFINE q == got[c]
<1>1. /\ pc[c] = "append" /\ got' = [got EXCEPT ![c] = None]
      /\ UNCHANGED <<live, opened, order, runOf, seen, lock, now, at, ends, lives, past>>
    BY DEF Unrecorded, Reply, runs, map
<1>2. \/ /\ pc' = [pc EXCEPT ![c] = "done"] /\ reply' = [reply EXCEPT ![c] = "failed"]
         /\ fresh' = [fresh EXCEPT ![c] = FALSE]
      \/ /\ pc' = [pc EXCEPT ![c] = "lookup"] /\ reply' = reply
         /\ fresh' = [fresh EXCEPT ![c] = TRUE]
    BY DEF Unrecorded, Reply, Goto
<1>3. q \in Runs /\ live[q] # "absent" /\ opened[q] = label[c]
    BY <1>1 DEF IInv, Held
<1> HIDE DEF q
<1>4. /\ faults' \in 0..MaxFaults /\ (faults' = 0 => faults = 0) /\ losses' \in 0..MaxLosses
      /\ \/ UNCHANGED <<stored, lost>>
         \/ /\ ~Taken(c) /\ lost' = lost \cup {c}
            /\ stored' = [stored EXCEPT ![q] = @ \cup {c}]
    BY RaisedGives DEF q
<1>5. TypeOK'
    <2>1. /\ pc' \in [Calls -> {"lookup", "close", "start", "evict", "append", "done"}]
          /\ reply' \in [Calls -> {"none", "recorded", "failed", "cut"}] /\ fresh' \in [Calls -> BOOLEAN]
        BY <1>2 DEF IInv, TypeOK
    <2>2. got' \in [Calls -> Runs \cup {None}]
        BY <1>1 DEF IInv, TypeOK
    <2>3. stored' \in [Runs -> SUBSET Calls] /\ lost' \subseteq Calls
        BY <1>3, <1>4 DEF IInv, TypeOK
    <2> QED BY <1>1, <1>4, <2>1, <2>2, <2>3 DEF IInv, TypeOK
<1>6. Locked'
    BY <1>1, <1>2 DEF IInv, TypeOK, Locked, Holding
<1>7. Answered'
    BY <1>1, <1>2 DEF IInv, TypeOK, Answered
<1>8. Mapped' /\ Held'
    BY <1>1, <1>2 DEF IInv, TypeOK, Mapped, Held
<1>9. Bounded'
    BY <1>1, <1>2 DEF IInv, TypeOK, Bounded
<1>10. Ended' /\ Current'
    BY <1>1, <1>2, <1>4 DEF IInv, TypeOK, Ended, Current
<1>11. Started' /\ OwnLabel'
    BY <1>1, <1>3, <1>4 DEF IInv, TypeOK, Started, OwnLabel
<1>12. ToldTrue'
    <2>1. reply[c] = "none"
        BY <1>1 DEF IInv, TypeOK, Answered
    <2>2. \A d \in Calls : reply'[d] = "recorded" <=> reply[d] = "recorded"
        BY <1>2, <2>1 DEF IInv, TypeOK
    <2>3. CASE UNCHANGED <<stored, lost>>
        BY <2>2, <2>3 DEF IInv, ToldTrue
    <2>4. CASE ~Taken(c) /\ lost' = lost \cup {c} /\ stored' = [stored EXCEPT ![q] = @ \cup {c}]
        <3>1. \A r \in Runs : c \in stored[r] => c \in lost \ Named
            BY <2>1, <2>4 DEF IInv, ToldTrue, Taken
        <3>2. stored' = [r \in Runs |-> IF r = q THEN stored[r] \cup {c} ELSE stored[r]]
            BY <1>3, <2>4 DEF IInv, TypeOK
        <3>3. ASSUME NEW r \in Runs, NEW p \in Runs, NEW d \in stored'[r] \cap stored'[p], r # p
              PROVE  d \in lost' \ Named
            <4>1. CASE d = c
                <5>1. c \in stored[r] \/ c \in stored[p]
                    BY <3>2, <3>3, <4>1
                <5> QED BY <3>1, <4>1, <5>1, <2>4
            <4>2. CASE d # c
                <5>1. d \in stored[r] \cap stored[p]
                    BY <3>2, <3>3, <4>2
                <5> QED BY <2>4, <3>3, <5>1 DEF IInv, ToldTrue
            <4> QED BY <4>1, <4>2
        <3>4. ASSUME NEW d \in Calls
              PROVE  /\ reply'[d] = "recorded" => \E r \in Runs : d \in stored'[r]
                     /\ reply'[d] # "recorded" => \A r \in Runs : d \in stored'[r] => d \in lost'
            <4>1. \A r \in Runs : /\ d \in stored[r] => d \in stored'[r]
                                  /\ d \in stored'[r] => d \in stored[r] \/ d = c
                BY <3>2
            <4> QED BY <2>2, <2>4, <4>1 DEF IInv, ToldTrue
        <3> QED BY <3>3, <3>4 DEF ToldTrue
    <2> QED BY <1>4, <2>3, <2>4
<1>13. Counted'
    BY RaisedGives DEF IInv, Counted
<1> QED BY <1>5, <1>6, <1>7, <1>8, <1>9, <1>10, <1>11, <1>12, <1>13 DEF IInv

LEMMA ApiEndInv == ASSUME IInv, NEW q \in Runs, ApiEnd(q) PROVE IInv'
<1> USE GrouperAssumption
<1>1. /\ live' = [live EXCEPT ![q] = "closed"] /\ live[q] = "open"
      /\ UNCHANGED <<opened, stored, order, runOf, lock, pc, got, reply, faults, losses, lost, past>>
    BY DEF ApiEnd, map, call, raised
<1>2. TypeOK'
    BY <1>1 DEF IInv, TypeOK, ApiEnd, map, call
<1>3. Locked' /\ Answered' /\ Bounded'
    BY <1>1 DEF IInv, Locked, Answered, Bounded
<1>4. Mapped' /\ Held'
    BY <1>1 DEF IInv, TypeOK, Mapped, Held
<1>5. Ended' /\ Current'
    BY <1>1 DEF IInv, TypeOK, Ended, Current
<1>6. Started' /\ OwnLabel' /\ ToldTrue'
    BY <1>1 DEF IInv, TypeOK, Started, OwnLabel, ToldTrue
<1>7. Counted'
    BY <1>1 DEF IInv, Counted
<1> QED BY <1>2, <1>3, <1>4, <1>5, <1>6, <1>7 DEF IInv

LEMMA TickInv == ASSUME IInv, Tick PROVE IInv'
<1> USE GrouperAssumption
<1>1. UNCHANGED <<live, opened, stored, order, runOf, lock, pc, got, reply, faults, losses, lost, past>>
    BY DEF Tick, runs, map, call, raised
<1>2. TypeOK'
    BY <1>1 DEF IInv, TypeOK, Tick, map, call
<1>3. Locked' /\ Answered' /\ Bounded' /\ Mapped' /\ Held'
    BY <1>1 DEF IInv, Locked, Answered, Bounded, Mapped, Held
<1>4. Ended' /\ Current' /\ Started' /\ OwnLabel' /\ ToldTrue'
    BY <1>1 DEF IInv, Ended, Current, Started, OwnLabel, ToldTrue
<1>5. Counted'
    BY <1>1 DEF IInv, Counted
<1> QED BY <1>2, <1>3, <1>4, <1>5 DEF IInv

\* A restart leaves calls that have not begun and calls that are done.
LEMMA RestartInv == ASSUME IInv, Restart PROVE IInv'
<1> USE GrouperAssumption
<1> DEFINE cut == {c \in Calls : pc[c] # "done" /\ (pc[c] # "lookup" \/ fresh[c])}
<1>1. /\ order' = <<>> /\ runOf' = [l \in Labels |-> None] /\ lock' = None
      /\ pc' = [c \in Calls |-> IF c \in cut THEN "done" ELSE pc[c]]
      /\ reply' = [c \in Calls |-> IF c \in cut THEN "cut" ELSE reply[c]]
      /\ past' = {r \in Runs : live[r] # "absent"}
      /\ UNCHANGED <<live, opened, stored, faults, losses, lost>>
    BY DEF Restart, runs, raised
<1>2. \A c \in Calls : c \in cut => pc[c] # "done"
    OBVIOUS
<1>3. \A c \in Calls : pc'[c] \in {"lookup", "done"}
    BY <1>1 DEF IInv, TypeOK
<1> HIDE DEF cut
<1>4. TypeOK'
    <2>1. /\ pc' \in [Calls -> {"lookup", "close", "start", "evict", "append", "done"}]
          /\ reply' \in [Calls -> {"none", "recorded", "failed", "cut"}]
        BY <1>1 DEF IInv, TypeOK
    <2>2. order' \in Seq(Labels)
        BY <1>1
    <2> QED BY <1>1, <2>1, <2>2 DEF IInv, TypeOK, Restart
<1>5. Locked' /\ Mapped' /\ Held' /\ Ended'
    BY <1>1, <1>3 DEF IInv, Locked, Mapped, Held, Ended, Holding
<1>6. Answered'
    BY <1>1, <1>2 DEF IInv, TypeOK, Answered
<1>7. Bounded'
    BY <1>1, <1>3 DEF Bounded
<1>8. Current' /\ Started' /\ OwnLabel'
    BY <1>1 DEF IInv, Current, Started, OwnLabel
<1>9. ToldTrue'
    BY <1>1, <1>2 DEF IInv, TypeOK, Answered, ToldTrue
<1>10. Counted'
    BY <1>1 DEF IInv, Counted
<1> QED BY <1>4, <1>5, <1>6, <1>7, <1>8, <1>9, <1>10 DEF IInv

LEMMA StepInv == IInv /\ [Next]_vars => IInv'
<1> SUFFICES ASSUME IInv, [Next]_vars PROVE IInv'
    OBVIOUS
<1>1. ASSUME NEW c \in Calls, Step(c) PROVE IInv'
    BY <1>1, HitInv, ReplaceInv, CloseInv, StartInv, StartFailsInv, EvictInv, RecordedInv, UnrecordedInv
       DEF Step
<1>2. CASE UNCHANGED vars
    <2>1. TypeOK' /\ Locked' /\ Mapped' /\ Held' /\ Answered' /\ Started'
        BY <1>2 DEF IInv, vars, TypeOK, Locked, Mapped, Held, Answered, Started
    <2>2. Bounded' /\ Ended' /\ Counted' /\ Current' /\ OwnLabel' /\ ToldTrue'
        BY <1>2 DEF IInv, vars, Bounded, Ended, Counted, Current, OwnLabel, ToldTrue
    <2> QED BY <2>1, <2>2 DEF IInv
<1> QED BY <1>1, <1>2, ApiEndInv, TickInv, RestartInv DEF Next

LEMMA Invariant == Spec => []IInv
<1> QED BY InitInv, StepInv, PTL DEF Spec
-----------------------------------------------------------------------------
\* The theorems

\* Every variable keeps its type; the order of the labels stays a sequence of labels.
THEOREM TypeCorrect == Spec => []TypeOK
<1>1. IInv => TypeOK
    BY DEF IInv
<1> QED BY <1>1, Invariant, PTL

\* A record is never in a run that was opened under another label than its call's, however
\* runs are replaced, evicted or ended between `run_for` and `append`.
THEOREM UnderOwnLabel == Spec => []OwnLabel
<1>1. IInv => OwnLabel
    BY DEF IInv
<1> QED BY <1>1, Invariant, PTL

\* What a caller was told is true, and the retry of `record` stores no call twice, except one
\* whose first commit was kept although it raised and whose record has no id of its own. With any
\* faults, lost answers and restarts.
THEOREM AnswersTrue == Spec => []ToldTrue
<1>1. IInv => ToldTrue
    BY DEF IInv
<1> QED BY <1>1, Invariant, PTL

\* While the store takes every transaction no more runs are open than labels remembered,
\* and with the lock free these are at most MAX_OPEN_RUNS.
THEOREM NothingLeaks == Spec => []NoLeak
<1>1. IInv => NoLeak
    <2> SUFFICES ASSUME IInv, faults = 0
                 PROVE  /\ \A r \in Runs \ past : live[r] = "open" => runOf[opened[r]] = r
                        /\ lock = None => Len(order) <= MaxOpenRuns
        BY DEF NoLeak
    <2>1. \A r \in Runs \ past : live[r] = "open" => runOf[opened[r]] = r
        BY DEF IInv, Current
    <2>2. lock = None => \A c \in Calls : pc[c] # "evict"
        BY GrouperAssumption DEF IInv, Locked, Holding
    <2> QED BY <2>1, <2>2 DEF IInv, Bounded
<1> QED BY <1>1, Invariant, PTL
-----------------------------------------------------------------------------
\* The order of `_runs` is the order of use.

\* Each label stands once, and none stands before one that was seen earlier.
InOrder(s, f) == \A i, j \in 1..Len(s) : i < j => s[i] # s[j] /\ f[s[i]] <= f[s[j]]

\* Where the others stand when a label is taken out.
LEMMA WithoutAt ==
    ASSUME NEW S, NEW s \in Seq(S), NEW l, Occurs(s, l)
    PROVE  \E k \in 1..Len(s) :
              /\ s[k] = l
              /\ \A i \in 1..(Len(s) - 1) : Without(s, l)[i] = IF i < k THEN s[i] ELSE s[i + 1]
<1> DEFINE k == CHOOSE i \in DOMAIN s : s[i] = l
           a == SubSeq(s, 1, k - 1)
           b == SubSeq(s, k + 1, Len(s))
<1>1. k \in 1..Len(s) /\ s[k] = l
    BY DEF Occurs
<1> HIDE DEF k
<1>2. a \in Seq(S) /\ Len(a) = k - 1 /\ \A i \in 1..(k - 1) : a[i] = s[i]
    <2>1. \A i \in 1..(k - 1) : s[i] \in S
        BY <1>1
    <2> QED BY <1>1, <2>1, SubSeqProperties
<1>3. b \in Seq(S) /\ Len(b) = Len(s) - k /\ \A i \in 1..(Len(s) - k) : b[i] = s[k + i]
    <2>1. \A i \in (k + 1)..Len(s) : s[i] \in S
        BY <1>1
    <2>2. /\ SubSeq(s, k + 1, Len(s)) \in Seq(S)
          /\ Len(SubSeq(s, k + 1, Len(s))) = IF k + 1 <= Len(s) THEN Len(s) - (k + 1) + 1 ELSE 0
          /\ \A i \in 1..(Len(s) - (k + 1) + 1) : SubSeq(s, k + 1, Len(s))[i] = s[k + 1 + i - 1]
        BY ONLY <1>1, <2>1, s \in Seq(S), Len(s) \in Nat, SubSeqProperties
    <2> QED BY <1>1, <2>2
<1> HIDE DEF a, b
<1>4. /\ Len(a \o b) = Len(a) + Len(b)
      /\ \A i \in 1..(Len(a) + Len(b)) : (a \o b)[i] = IF i <= Len(a) THEN a[i] ELSE b[i - Len(a)]
    BY <1>2, <1>3, ConcatProperties
<1>5. k \in Nat /\ k <= Len(s) /\ k >= 1 /\ Len(s) \in Nat
    BY <1>1
<1>6. ASSUME NEW i \in 1..(Len(s) - 1)
      PROVE  (a \o b)[i] = IF i < k THEN s[i] ELSE s[i + 1]
    <2>1. (a \o b)[i] = IF i <= k - 1 THEN a[i] ELSE b[i - (k - 1)]
        BY <1>2, <1>3, <1>4, <1>5
    <2>2. CASE i < k
        BY <1>2, <1>5, <2>1, <2>2
    <2>3. CASE ~(i < k)
        <3>1. i - (k - 1) \in 1..(Len(s) - k) /\ k + (i - (k - 1)) = i + 1
            BY <1>5, <2>3
        <3> QED BY <1>3, <1>5, <2>1, <2>3, <3>1
    <2> QED BY <2>2, <2>3
<1>7. Without(s, l) = a \o b
    BY DEF Without, RemoveAt, Occurs, a, b, k
<1> QED BY <1>1, <1>6, <1>7

\* Without a label the others keep their order, and the label is gone.
LEMMA WithoutInOrder ==
    ASSUME NEW S, NEW s \in Seq(S), NEW l, NEW f, InOrder(s, f)
    PROVE  /\ InOrder(Without(s, l), f)
           /\ \A i \in 1..Len(Without(s, l)) : Without(s, l)[i] # l /\ Without(s, l)[i] \in S
<1>1. CASE ~Occurs(s, l)
    <2>1. Without(s, l) = s /\ \A i \in 1..Len(s) : s[i] # l /\ s[i] \in S
        BY <1>1 DEF Without, Occurs
    <2> QED BY <2>1
<1>2. CASE Occurs(s, l)
    <2> DEFINE w == Without(s, l)
    <2>1. PICK k \in 1..Len(s) :
              /\ s[k] = l
              /\ \A i \in 1..(Len(s) - 1) : w[i] = IF i < k THEN s[i] ELSE s[i + 1]
        BY <1>2, WithoutAt
    <2>2. Len(w) = Len(s) - 1 /\ Len(s) \in Nat
        BY <1>2, WithoutKeeps
    <2> HIDE DEF w
    <2> DEFINE at0(i) == IF i < k THEN i ELSE i + 1
    <2>3. \A i \in 1..Len(w) : at0(i) \in 1..Len(s) /\ at0(i) # k /\ w[i] = s[at0(i)]
        BY <2>1, <2>2
    <2>4. \A i, j \in 1..Len(w) : i < j => at0(i) < at0(j)
        BY <2>1, <2>2
    <2> HIDE DEF at0
    <2>5. InOrder(w, f)
        BY <2>3, <2>4 DEF InOrder
    <2>6. ASSUME NEW i \in 1..Len(w)
          PROVE  w[i] # l /\ w[i] \in S
        <3>1. at0(i) \in 1..Len(s) /\ at0(i) # k /\ w[i] = s[at0(i)]
            BY <2>3
        <3>2. at0(i) < k \/ k < at0(i)
            BY <2>1, <3>1
        <3>3. s[at0(i)] # s[k]
            BY <2>1, <3>1, <3>2 DEF InOrder
        <3> QED BY <2>1, <3>1, <3>3
    <2> QED BY <2>5, <2>6 DEF w
<1> QED BY <1>1, <1>2

\* The label that is used now goes to the end.
LEMMA ToEndInOrder ==
    ASSUME NEW S, NEW s \in Seq(S), NEW l \in S, NEW f \in [S -> Nat], NEW g, InOrder(s, f),
           \A x \in S : x # l => g[x] = f[x],
           \A x \in S : f[x] <= g[l]
    PROVE  InOrder(ToEnd(s, l), g)
<1> DEFINE w == Without(s, l)
           e == ToEnd(s, l)
<1>1. w \in Seq(S) /\ InOrder(w, f) /\ \A i \in 1..Len(w) : w[i] # l /\ w[i] \in S
    BY WithoutKeeps, WithoutInOrder
<1>2. e = Append(w, l)
    BY DEF ToEnd
<1> HIDE DEF w, e
<1>3. /\ Len(e) = Len(w) + 1 /\ Len(w) \in Nat
      /\ \A i \in 1..Len(w) : e[i] = w[i]
      /\ e[Len(w) + 1] = l
    BY <1>1, <1>2, AppendProperties
<1>4. ASSUME NEW i \in 1..Len(e), NEW j \in 1..Len(e), i < j
      PROVE  e[i] # e[j] /\ g[e[i]] <= g[e[j]]
    <2>1. i \in 1..Len(w) /\ e[i] = w[i] /\ w[i] # l /\ w[i] \in S
        BY <1>1, <1>3, <1>4
    <2>2. CASE j = Len(w) + 1
        <3>1. e[j] = l /\ g[w[i]] = f[w[i]] /\ f[w[i]] <= g[l]
            BY <1>3, <2>1, <2>2
        <3> QED BY <2>1, <3>1
    <2>3. CASE j \in 1..Len(w)
        <3>1. e[j] = w[j] /\ w[j] # l /\ w[j] \in S
            BY <1>1, <1>3, <2>3
        <3>2. w[i] # w[j] /\ f[w[i]] <= f[w[j]]
            BY <1>1, <1>4, <2>1, <2>3 DEF InOrder
        <3>3. g[w[i]] = f[w[i]] /\ g[w[j]] = f[w[j]]
            BY <2>1, <3>1
        <3> QED BY <2>1, <3>1, <3>2, <3>3
    <2> QED BY <1>3, <2>2, <2>3
<1> QED BY <1>4 DEF InOrder, e

LEMMA TailInOrder ==
    ASSUME NEW S, NEW s \in Seq(S), Len(s) > 0, NEW f, InOrder(s, f)
    PROVE  InOrder(Tail(s), f)
<1>1. /\ Len(Tail(s)) = Len(s) - 1 /\ Len(s) \in Nat
      /\ \A i \in 1..Len(Tail(s)) : Tail(s)[i] = s[i + 1]
    BY HeadTailProperties
<1> DEFINE t == Tail(s)
<1> HIDE DEF t
<1>2. \A i \in 1..Len(t) : i + 1 \in 1..Len(s) /\ t[i] = s[i + 1]
    BY <1>1 DEF t
<1>3. \A i, j \in 1..Len(t) : i < j => i + 1 < j + 1
    OBVIOUS
<1>4. InOrder(t, f)
    BY <1>2, <1>3 DEF InOrder
<1> QED BY <1>4 DEF t

\* Nothing was seen in the future, and nothing was seen since the call with the lock read
\* the clock: with the lock taken no other call touches a label.
Aged ==
    /\ InOrder(order, seen)
    /\ \A l \in Labels : seen[l] <= now
    /\ \A c \in Calls : pc[c] \in {"close", "start"} =>
          at[c] <= now /\ \A l \in Labels : seen[l] <= at[c]

LEMMA InitAged == Init => Aged
<1> SUFFICES ASSUME Init PROVE Aged
    OBVIOUS
<1>1. order = <<>> /\ Len(<<>>) = 0 /\ 1..0 = {}
    BY DEF Init
<1>2. InOrder(order, seen)
    BY <1>1 DEF InOrder
<1> QED BY <1>2 DEF Init, Aged

\* A step that touches no label and lets no call past the clock.
LEMMA AgedKept ==
    ASSUME IInv, Aged, order' = order, seen' = seen, now' \in Nat, now <= now',
           \A c \in Calls : pc'[c] \in {"close", "start"} =>
               \/ at'[c] = at[c] /\ pc[c] \in {"close", "start"}
               \/ at'[c] = now /\ now' = now
    PROVE  Aged'
<1>1. /\ now \in Nat /\ \A l \in Labels : seen[l] \in Nat /\ seen[l] <= now
      /\ \A c \in Calls : at[c] \in Nat
    BY GrouperAssumption DEF IInv, TypeOK, Aged
<1>2. \A l \in Labels : seen'[l] <= now'
    BY <1>1
<1>3. ASSUME NEW c \in Calls, pc'[c] \in {"close", "start"}
      PROVE  at'[c] <= now' /\ \A l \in Labels : seen'[l] <= at'[c]
    <2>1. CASE at'[c] = at[c] /\ pc[c] \in {"close", "start"}
        <3>1. at[c] <= now /\ \A l \in Labels : seen[l] <= at[c]
            BY <2>1 DEF Aged
        <3> QED BY <1>1, <2>1, <3>1
    <2>2. CASE at'[c] = now /\ now' = now
        BY <1>1, <2>2
    <2> QED BY <1>3, <2>1, <2>2
<1>4. InOrder(order, seen)'
    BY DEF Aged, InOrder
<1> QED BY <1>2, <1>3, <1>4 DEF Aged

LEMMA StepAged == IInv /\ Aged /\ [Next]_vars => Aged'
<1> SUFFICES ASSUME IInv, Aged, [Next]_vars PROVE Aged'
    OBVIOUS
<1> USE GrouperAssumption
<1>0. /\ now \in Nat /\ seen \in [Labels -> Nat] /\ order \in Seq(Labels)
      /\ at \in [Calls -> Nat] /\ \A c \in Calls : label[c] \in Labels
      /\ pc \in [Calls -> {"lookup", "close", "start", "evict", "append", "done"}]
    BY DEF IInv, TypeOK
<1>1. ASSUME NEW c \in Calls, Hit(c) PROVE Aged'
    <2> DEFINE l == label[c]
    <2>1. /\ seen' = [seen EXCEPT ![l] = now] /\ order' = ToEnd(order, l) /\ now' = now
          /\ lock = None /\ pc' = [pc EXCEPT ![c] = "append"] /\ at' = at
        BY <1>1 DEF Hit, Goto, ToEnd
    <2>2. \A x \in Labels : seen[x] <= now
        BY DEF Aged
    <2>3. seen'[l] = now /\ \A x \in Labels : x # l => seen'[x] = seen[x]
        BY <1>0, <2>1
    <2>4. InOrder(order', seen')
        <3>1. InOrder(order, seen)
            BY DEF Aged
        <3>2. \A x \in Labels : seen[x] <= seen'[l]
            BY <2>2, <2>3
        <3> HIDE DEF l
        <3>3. l \in Labels
            BY <1>0 DEF l
        <3> QED BY <1>0, <2>1, <2>3, <3>1, <3>2, <3>3, ToEndInOrder
    <2>5. \A x \in Labels : seen'[x] <= now'
        BY <1>0, <2>1, <2>2, <2>3
    <2>6. \A d \in Calls : pc'[d] \notin {"close", "start"}
        BY <1>0, <2>1 DEF IInv, Locked, Holding
    <2>7. InOrder(order, seen)'
        BY <2>4 DEF InOrder
    <2> QED BY <2>5, <2>6, <2>7 DEF Aged
<1>2. ASSUME NEW c \in Calls, Replace(c) PROVE Aged'
    <2>1. /\ order' = order /\ seen' = seen /\ now' = now
          /\ at' = [at EXCEPT ![c] = now]
          /\ \A d \in Calls : d # c => pc'[d] = pc[d]
        BY <1>0, <1>2 DEF Replace, Goto, map
    <2>2. \A d \in Calls : pc'[d] \in {"close", "start"} =>
               \/ at'[d] = at[d] /\ pc[d] \in {"close", "start"}
               \/ at'[d] = now /\ now' = now
        BY <1>0, <2>1
    <2> QED BY <1>0, <2>1, <2>2, AgedKept
<1>3. ASSUME NEW c \in Calls, Close(c) PROVE Aged'
    <2>1. /\ order' = order /\ seen' = seen /\ now' = now /\ at' = at
          /\ pc[c] = "close" /\ \A d \in Calls : d # c => pc'[d] = pc[d]
        BY <1>0, <1>3 DEF Close, Goto, map
    <2> QED BY <1>0, <2>1, AgedKept
<1>4. ASSUME NEW c \in Calls, Start(c) PROVE Aged'
    <2> DEFINE l == label[c]
    <2>1. /\ seen' = [seen EXCEPT ![l] = at[c]] /\ order' = ToEnd(order, l) /\ now' = now
          /\ pc[c] = "start" /\ \A d \in Calls : d # c => pc'[d] = pc[d]
          /\ pc'[c] \in {"evict", "append"}
        BY <1>0, <1>4 DEF Start, Goto, ToEnd
    <2>2. at[c] <= now /\ \A x \in Labels : seen[x] <= at[c] /\ seen[x] <= now
        BY <2>1 DEF Aged
    <2>3. seen'[l] = at[c] /\ \A x \in Labels : x # l => seen'[x] = seen[x]
        BY <1>0, <2>1
    <2>4. InOrder(order', seen')
        <3>1. InOrder(order, seen)
            BY DEF Aged
        <3>2. \A x \in Labels : seen[x] <= seen'[l]
            BY <2>2, <2>3
        <3> HIDE DEF l
        <3>3. l \in Labels
            BY <1>0 DEF l
        <3> QED BY <1>0, <2>1, <2>3, <3>1, <3>2, <3>3, ToEndInOrder
    <2>5. \A x \in Labels : seen'[x] <= now'
        BY <1>0, <2>1, <2>2, <2>3
    <2>6. \A d \in Calls : pc'[d] \notin {"close", "start"}
        BY <1>0, <2>1 DEF IInv, Locked, Holding
    <2>7. InOrder(order, seen)'
        BY <2>4 DEF InOrder
    <2> QED BY <2>5, <2>6, <2>7 DEF Aged
<1>5. ASSUME NEW c \in Calls, StartFails(c) PROVE Aged'
    <2>1. /\ order' = order /\ seen' = seen /\ now' = now
          /\ at' = [at EXCEPT ![c] = 0] /\ pc' = [pc EXCEPT ![c] = "done"]
        BY <1>5 DEF StartFails, Reply, Goto, map
    <2>2. \A d \in Calls : pc'[d] \in {"close", "start"} => at'[d] = at[d] /\ pc[d] \in {"close", "start"}
        BY <1>0, <2>1
    <2> QED BY <1>0, <2>1, <2>2, AgedKept
<1>6. ASSUME NEW c \in Calls, Evict(c) PROVE Aged'
    <2>1. /\ order' = Tail(order) /\ seen' = seen /\ now' = now /\ at' = at
          /\ pc[c] = "evict" /\ pc' = [pc EXCEPT ![c] = "append"]
        BY <1>6 DEF Evict, Goto
    <2>2. Len(order) > 0
        BY <1>0, <2>1 DEF IInv, Bounded
    <2>3. InOrder(order', seen)
        BY <1>0, <2>1, <2>2, TailInOrder DEF Aged
    <2>4. \A d \in Calls : pc'[d] \in {"close", "start"} => pc[d] \in {"close", "start"}
        BY <1>0, <2>1
    <2>5. InOrder(order, seen)'
        BY <2>1, <2>3 DEF InOrder
    <2> QED BY <2>1, <2>4, <2>5 DEF Aged
<1>7. ASSUME NEW c \in Calls, Recorded(c) \/ Unrecorded(c) PROVE Aged'
    <2>1. /\ order' = order /\ seen' = seen /\ now' = now /\ at' = at
          /\ \A d \in Calls : pc'[d] \in {"close", "start"} => pc[d] \in {"close", "start"}
        BY <1>0, <1>7 DEF Recorded, Unrecorded, Reply, Goto, map
    <2> QED BY <1>0, <2>1, AgedKept
<1>8. ASSUME NEW r \in Runs, ApiEnd(r) PROVE Aged'
    BY <1>0, <1>8, AgedKept DEF ApiEnd, map, call
<1>9. ASSUME Tick PROVE Aged'
    <2>1. order' = order /\ seen' = seen /\ now' = now + 1 /\ at' = at /\ pc' = pc
        BY <1>9 DEF Tick, map, call
    <2>2. now' \in Nat /\ now <= now'
        BY <1>0, <2>1
    <2> QED BY <2>1, <2>2, AgedKept
<1>10. ASSUME Restart PROVE Aged'
    <2>1. /\ order' = <<>> /\ seen' = [l \in Labels |-> 0] /\ now' = now
          /\ \A d \in Calls : pc'[d] \in {"lookup", "done"}
        BY <1>0, <1>10 DEF Restart
    <2>2. InOrder(order, seen)'
        <3>1. Len(order') = 0
            BY <2>1
        <3> QED BY <3>1 DEF InOrder
    <2>3. \A l \in Labels : seen'[l] <= now'
        BY <1>0, <2>1
    <2> QED BY <2>1, <2>2, <2>3 DEF Aged
<1>11. CASE UNCHANGED vars
    BY <1>0, <1>11, AgedKept DEF vars
<1> QED BY <1>1, <1>2, <1>3, <1>4, <1>5, <1>6, <1>7, <1>8, <1>9, <1>10, <1>11 DEF Next, Step

\* The step that gives up a label for a new one gives up the one used longest ago.
LEMMA StepEvicts ==
    ASSUME IInv, Aged, [Next]_vars, NEW l \in Labels, NEW m \in Labels,
           lives' = lives, runOf[l] # None, runOf'[l] = None, runOf'[m] # None
    PROVE  seen[l] <= seen[m]
<1> USE GrouperAssumption
<1>0. /\ seen \in [Labels -> Nat] /\ order \in Seq(Labels) /\ lives \in Nat
      /\ runOf \in [Labels -> Runs \cup {None}]
    BY DEF IInv, TypeOK
<1>1. PICK c \in Calls : Evict(c)
    <2>1. ASSUME NEW c \in Calls, Hit(c) \/ Replace(c) \/ Close(c) \/ StartFails(c)
                                   \/ Recorded(c) \/ Unrecorded(c)
          PROVE  runOf' = runOf
        BY <2>1 DEF Hit, Replace, Close, StartFails, Recorded, Unrecorded, map
    <2>2. ASSUME NEW c \in Calls, Start(c)
          PROVE  \E r \in Runs : runOf' = [runOf EXCEPT ![label[c]] = r]
        BY <2>2 DEF Start
    <2>3. ASSUME NEW c \in Calls, Start(c)
          PROVE  runOf'[l] # None
        BY <1>0, <2>2, <2>3
    <2>4. ASSUME (\E r \in Runs : ApiEnd(r)) \/ Tick \/ UNCHANGED vars
          PROVE  runOf' = runOf
        BY <2>4 DEF ApiEnd, Tick, map, vars
    <2>5. ~Restart
        BY <1>0 DEF Restart
    <2> QED BY <2>1, <2>3, <2>4, <2>5 DEF Next, Step
<1>2. runOf' = [runOf EXCEPT ![Head(order)] = None] /\ Len(order) > 0
    BY <1>0, <1>1 DEF Evict, IInv, Bounded
<1>3. l = Head(order) /\ runOf[m] # None
    BY <1>0, <1>2
<1>4. PICK j \in 1..Len(order) : order[j] = m
    BY <1>0, <1>3 DEF IInv, Mapped, Occurs
<1>5. order[1] = l /\ 1 \in 1..Len(order)
    BY <1>0, <1>2, <1>3
<1>6. CASE j = 1
    BY <1>0, <1>4, <1>5, <1>6
<1>7. CASE 1 < j
    BY <1>4, <1>5, <1>7 DEF Aged, InOrder
<1> QED BY <1>4, <1>6, <1>7

\* The label that is given up for a new one is the one used longest ago, for any limit and
\* however hits and replacements moved the others about (core.py:188 and 200).
THEOREM OldestEvicted == Spec => EvictsOldest
<1>1. Spec => [](IInv /\ Aged)
    BY InitInv, InitAged, StepInv, StepAged, PTL DEF Spec
<1>2. IInv /\ Aged /\ [Next]_vars =>
        [\A l, m \in Labels :
            /\ Len(order) > MaxOpenRuns /\ lives' = lives
            /\ runOf[l] # None /\ runOf'[l] = None /\ runOf'[m] # None
            => seen[l] <= seen[m]]_vars
    BY StepEvicts
<1> QED BY <1>1, <1>2, PTL DEF Spec, EvictsOldest
-----------------------------------------------------------------------------
\* RunGrouper implements GroupedRun. What GroupedRun counts and RunGrouper has no variable for
\* is added to it here: these variables follow its steps and hold none of them up.

VARIABLES log,      \* log[r]: the calls recorded in r, in their order
          idle,     \* a call has found the label idle
          idled,    \* how often that was
          clashes,  \* how often a second attempt met a closed run, or its own record
          splits    \* how often a run was ended, or replaced while it was in use

history == <<log, idle, idled, clashes, splits>>
hvars == <<vars, history>>

Trouble == {"fault", "lost", "end", "idle", "clash", "split", "restart"}

Counter(t) == CASE t = "fault"   -> faults
                [] t = "lost"    -> losses
                [] t = "end"     -> ends
                [] t = "restart" -> lives
                [] t = "idle"    -> idled
                [] t = "clash"   -> clashes
                [] t = "split"   -> splits

spent == [t \in Trouble |-> Counter(t)]

\* The label all calls carry: a missing header is one too.
Label == CHOOSE l \in Labels : TRUE

Grouped == INSTANCE GroupedRun WITH current <- runOf[Label], Budget <- [Trouble -> Nat]

HInit ==
    /\ Init
    /\ log = [r \in Runs |-> <<>>]
    /\ idle = FALSE /\ idled = 0 /\ clashes = 0 /\ splits = 0

HStep(c) ==
    \/ Hit(c) /\ UNCHANGED history
    \/ /\ Replace(c)
       /\ idle' = (idle \/ (~fresh[c] /\ runOf[Label] # None))
       /\ idled' = IF idle' = idle THEN idled ELSE idled + 1
       /\ UNCHANGED <<log, clashes, splits>>
    \/ /\ Close(c)
       /\ splits' = IF live' = live THEN splits ELSE splits + 1
       /\ UNCHANGED <<log, idle, idled, clashes>>
    \/ /\ Start(c)
       /\ idle' = FALSE
       /\ splits' = IF Grouped!Usable THEN splits + 1 ELSE splits
       /\ UNCHANGED <<log, idled, clashes>>
    \/ (StartFails(c) \/ Evict(c)) /\ UNCHANGED history
    \/ /\ Recorded(c)
       /\ log' = [log EXCEPT ![got[c]] = Append(@, c)]
       /\ UNCHANGED <<idle, idled, clashes, splits>>
    \/ /\ Unrecorded(c)
       /\ log' = IF losses' = losses THEN log ELSE [log EXCEPT ![got[c]] = Append(@, c)]
       /\ clashes' = IF fresh[c] /\ UNCHANGED <<faults, losses>> THEN clashes + 1 ELSE clashes
       /\ UNCHANGED <<idle, idled, splits>>

HNext ==
    \/ \E c \in Calls : HStep(c)
    \/ (Tick \/ \E r \in Runs : ApiEnd(r)) /\ UNCHANGED history
    \/ Restart /\ idle' = FALSE /\ UNCHANGED <<log, idled, clashes, splits>>

HSpec == HInit /\ [][HNext]_hvars

\* The calls are told what GroupedRun promises: who is told of a record has it in a run as
\* `Stored` says, who is told of an error had one, `NotStored` or a record that was `Lost`, and
\* `run_for` names the current run.
AsPromised ==
    [][\A c \in Calls :
        /\ reply[c] = "none" /\ reply'[c] = "recorded" => \E r \in Runs : Grouped!Stored(r, c)
        /\ reply[c] = "none" /\ reply'[c] = "failed" => Grouped!NotStored \/ Grouped!Lost(c)
        /\ got[c] = None /\ got'[c] # None =>
              got'[c] = runOf'[Label] /\ (Grouped!RunFor \/ Grouped!Replacing)]_hvars

\* All calls carry one label: the run of each other label goes its own way.
OneLabel == Labels = {Label}
-----------------------------------------------------------------------------
\* What ties the added variables to the others

HTyped ==
    /\ log \in [Runs -> Seq(Calls)] /\ idle \in BOOLEAN
    /\ idled \in Nat /\ clashes \in Nat /\ splits \in Nat

\* A run that was not started has no records.
Unstarted == \A r \in Runs : live[r] = "absent" => log[r] = <<>>

\* There was a reason for what is closed, and for each second attempt.
Caused ==
    (\E r \in Runs : live[r] = "closed") \/ (\E c \in Calls : fresh[c])
        => faults > 0 \/ losses > 0 \/ ends > 0 \/ idled > 0

\* The label was found idle and not used since: no call hits it before it is replaced.
Idling == idle => idled > 0 /\ runOf[Label] # None /\ now - seen[Label] > IdleSeconds

\* A run is replaced because it was idle, or by a second attempt.
Justified ==
    \A c \in Calls :
        /\ pc[c] = "close" => runOf[Label] # None
        /\ pc[c] \in {"close", "start"} /\ runOf[Label] # None => fresh[c] \/ idle

\* Who is about to append to another run than the current one finds it closed, as long as the
\* store took its end.
Outrun ==
    faults = 0 =>
        \A c \in Calls : pc[c] = "append" /\ got[c] # runOf[Label] => live[got[c]] = "closed"

RInv == HTyped /\ Unstarted /\ Caused /\ Idling /\ Justified /\ Outrun

LEMMA HInitInv == ASSUME HInit PROVE RInv
<1> USE DEF HInit, Init
<1>1. log \in [Runs -> Seq(Calls)]
    BY <<>> \in Seq(Calls)
<1>2. HTyped /\ Unstarted
    BY <1>1 DEF HTyped, Unstarted
<1>3. Caused /\ Idling /\ Justified /\ Outrun
    BY DEF Caused, Idling, Justified, Outrun
<1> QED BY <1>2, <1>3 DEF RInv

\* Every step with the added variables is a step of RunGrouper.
LEMMA HistoryIsSafe == ASSUME [HNext]_hvars PROVE [Next]_vars
<1>1. ASSUME NEW c \in Calls, HStep(c) PROVE Next
    BY <1>1 DEF HStep, Next, Step
<1> QED BY <1>1 DEF HNext, Next, hvars

\* With one label there is nothing to evict.
NoEviction == \A c \in Calls : pc[c] # "evict"

LEMMA NothingEvicted == OneLabel /\ IInv /\ Aged => NoEviction
<1> SUFFICES ASSUME OneLabel, IInv, Aged, NEW c \in Calls, pc[c] = "evict" PROVE FALSE
    BY DEF NoEviction
<1>1. Len(order) > 1
    BY GrouperAssumption DEF IInv, TypeOK, Bounded
<1>2. 1 \in 1..Len(order) /\ 2 \in 1..Len(order) /\ 1 < 2
    BY <1>1 DEF IInv, TypeOK
<1>3. order[1] # order[2]
    BY <1>2 DEF Aged, InOrder
<1>4. order[1] \in Labels /\ order[2] \in Labels
    BY <1>2 DEF IInv, TypeOK
<1> QED BY <1>3, <1>4 DEF OneLabel

LEMMA NothingEvictedNext == (OneLabel /\ IInv /\ Aged)' => NoEviction'
BY NothingEvicted, PTL

\* The facts about a call that the steps below need.
LEMMA OfTheLabel ==
    ASSUME OneLabel, IInv
    PROVE  /\ Label \in Labels /\ runOf[Label] \in Runs \cup {None}
           /\ \A c \in Calls : label[c] = Label
           /\ \A l \in Labels : l = Label
BY GrouperAssumption DEF OneLabel, IInv, TypeOK

LEMMA HitR ==
    ASSUME OneLabel, IInv, RInv, NEW c \in Calls, Hit(c), UNCHANGED history
    PROVE  RInv'
<1> USE GrouperAssumption, OfTheLabel
<1>1. /\ UNCHANGED <<live, runOf, fresh, faults, losses, ends>> /\ got' = [got EXCEPT ![c] = runOf[Label]]
      /\ pc' = [pc EXCEPT ![c] = "append"] /\ UNCHANGED <<log, idle, idled, clashes, splits>>
    BY DEF Hit, Goto, runs, raised, history
<1>2. HTyped' /\ Unstarted' /\ Caused'
    BY <1>1 DEF RInv, HTyped, Unstarted, Caused
<1>4. Idling'
    <2>1. ~(now - seen[Label] > IdleSeconds)
        BY DEF Hit, IInv, TypeOK
    <2> QED BY <1>1, <2>1 DEF RInv, Idling
<1>3. Justified' /\ Outrun'
    BY <1>1 DEF RInv, IInv, TypeOK, Justified, Outrun
<1> QED BY <1>2, <1>3, <1>4 DEF RInv

LEMMA ReplaceR ==
    ASSUME OneLabel, IInv, RInv, NEW c \in Calls, Replace(c),
           idle' = (idle \/ (~fresh[c] /\ runOf[Label] # None)),
           idled' = IF idle' = idle THEN idled ELSE idled + 1,
           UNCHANGED <<log, clashes, splits>>
    PROVE  RInv'
<1> USE GrouperAssumption, OfTheLabel
<1>1. /\ UNCHANGED <<live, runOf, seen, now, fresh, got, faults, losses, ends>>
      /\ pc' = [pc EXCEPT ![c] = IF runOf[Label] = None THEN "start" ELSE "close"]
    BY DEF Replace, Goto, runs, map, raised
<1>2. idle \in BOOLEAN /\ idle' \in BOOLEAN /\ idled \in Nat /\ idled' \in Nat /\ idled' >= idled
    BY DEF RInv, HTyped
<1>3. HTyped' /\ Unstarted'
    BY <1>1, <1>2 DEF RInv, HTyped, Unstarted
<1>4. Caused'
    <2>1. idled > 0 => idled' > 0
        BY <1>2
    <2> QED BY <1>1, <2>1 DEF RInv, Caused
<1>7. Idling'
    <2>1. idle' => idled' > 0 /\ runOf[Label] # None
        BY <1>2 DEF RInv, Idling
    <2>2. ~idle /\ idle' => now - seen[Label] > IdleSeconds
        BY DEF Replace
    <2> QED BY <1>1, <2>1, <2>2 DEF RInv, Idling
<1>5. Justified'
    BY <1>1, <1>2 DEF RInv, IInv, TypeOK, Justified
<1>6. Outrun'
    BY <1>1 DEF RInv, IInv, TypeOK, Outrun
<1> QED BY <1>3, <1>4, <1>5, <1>6, <1>7 DEF RInv

\* What `_end_quietly` makes of the current run.
LEMMA CloseGives ==
    ASSUME OneLabel, IInv, RInv, NEW c \in Calls, Close(c)
    PROVE  /\ runOf[Label] \in Runs
           /\ UNCHANGED <<runOf, seen, now, fresh, got, reply, losses, ends, lives>>
           /\ pc' = [pc EXCEPT ![c] = "start"]
           /\ \/ /\ live[runOf[Label]] = "open" /\ UNCHANGED faults
                 /\ live' = [live EXCEPT ![runOf[Label]] = "closed"]
              \/ faults' = faults + 1 /\ UNCHANGED live
              \/ live[runOf[Label]] = "closed" /\ UNCHANGED <<faults, live>>
<1> USE GrouperAssumption, OfTheLabel
<1>1. pc[c] = "close" /\ EndQuietly(runOf[Label])
    BY DEF Close
<1>2. runOf[Label] \in Runs /\ live[runOf[Label]] \in {"open", "closed"}
    BY <1>1 DEF RInv, Justified, IInv, Mapped, TypeOK
<1>3. \/ /\ live[runOf[Label]] = "open" /\ UNCHANGED faults
         /\ live' = [live EXCEPT ![runOf[Label]] = "closed"]
      \/ faults' = faults + 1 /\ UNCHANGED live
      \/ live[runOf[Label]] = "closed" /\ UNCHANGED <<faults, live>>
    BY <1>1, <1>2 DEF EndQuietly
<1>4. /\ UNCHANGED <<runOf, seen, now, fresh, got, reply, losses, ends, lives>>
      /\ pc' = [pc EXCEPT ![c] = "start"]
    BY DEF Close, Goto, map, raised
<1> QED BY <1>2, <1>3, <1>4

LEMMA CloseR ==
    ASSUME OneLabel, IInv, RInv, NEW c \in Calls, Close(c),
           splits' = IF live' = live THEN splits ELSE splits + 1,
           UNCHANGED <<log, idle, idled, clashes>>
    PROVE  RInv'
<1> USE GrouperAssumption, OfTheLabel
<1> DEFINE q == runOf[Label]
<1>1. /\ q \in Runs /\ UNCHANGED <<runOf, seen, now, fresh, got, losses, ends>>
      /\ pc' = [pc EXCEPT ![c] = "start"] /\ pc[c] = "close"
    BY CloseGives DEF Close
<1>2. /\ faults \in Nat /\ faults' \in Nat /\ faults' >= faults
      /\ live' = live \/ live' = [live EXCEPT ![q] = "closed"]
    <2>1. faults \in Nat
        BY DEF IInv, TypeOK
    <2>2. /\ faults' = faults \/ faults' = faults + 1
          /\ live' = live \/ live' = [live EXCEPT ![q] = "closed"]
        BY CloseGives
    <2> QED BY <2>1, <2>2
<1>3. live \in [Runs -> {"absent", "open", "closed"}] /\ live[q] # "absent"
    BY <1>1 DEF IInv, TypeOK, Mapped
<1>4. HTyped' /\ Unstarted'
    <2>1. \A r \in Runs : live'[r] = "absent" => live[r] = "absent"
        BY <1>1, <1>2, <1>3
    <2>2. HTyped'
        BY DEF RInv, HTyped
    <2> QED BY <2>1, <2>2 DEF RInv, Unstarted
<1>5. Caused'
    <2>1. faults > 0 \/ losses > 0 \/ ends > 0 \/ idled > 0
        BY <1>1 DEF RInv, Caused, Idling, Justified
    <2>2. faults' > 0 \/ losses' > 0 \/ ends' > 0 \/ idled' > 0
        BY <1>1, <1>2, <2>1
    <2> QED BY <1>1, <2>2 DEF RInv, Caused
<1>8. Idling'
    BY <1>1 DEF RInv, Idling
<1>6. Justified'
    BY <1>1 DEF RInv, IInv, TypeOK, Justified
<1>7. Outrun'
    <2> SUFFICES ASSUME faults' = 0, NEW d \in Calls, pc'[d] = "append", got'[d] # runOf'[Label]
                 PROVE  live'[got'[d]] = "closed"
        BY DEF Outrun
    <2>1. faults = 0 /\ pc[d] = "append" /\ got[d] # q /\ got'[d] = got[d] /\ got[d] \in Runs
        BY <1>1, <1>2 DEF IInv, TypeOK, Held
    <2>2. live[got[d]] = "closed"
        BY <2>1 DEF RInv, Outrun
    <2> QED BY <1>1, <1>2, <1>3, <2>1, <2>2
<1> QED BY <1>4, <1>5, <1>6, <1>7, <1>8 DEF RInv

\* A fresh run becomes the current one.
LEMMA StartGives ==
    ASSUME OneLabel, IInv, Aged, NEW c \in Calls, Start(c), IInv', Aged'
    PROVE  \E r \in Runs :
              /\ live[r] = "absent" /\ \A q \in Runs : live[q] = "absent" => r <= q
              /\ live' = [live EXCEPT ![r] = "open"]
              /\ runOf' = [runOf EXCEPT ![Label] = r] /\ runOf'[Label] = r
              /\ got' = [got EXCEPT ![c] = r]
              /\ pc' = [pc EXCEPT ![c] = "append"] /\ pc[c] = "start"
              /\ UNCHANGED <<fresh, reply, faults, losses, ends, lives>>
<1> USE GrouperAssumption, OfTheLabel
<1>0. OneLabel'
    BY DEF OneLabel, Label
<1>1. PICK r \in Runs : /\ live[r] = "absent" /\ \A q \in Runs : live[q] = "absent" => r <= q
                        /\ live' = [live EXCEPT ![r] = "open"]
                        /\ runOf' = [runOf EXCEPT ![Label] = r]
                        /\ got' = [got EXCEPT ![c] = r]
    BY DEF Start
<1>2. pc'[c] # "evict"
    BY <1>0, NothingEvictedNext DEF NoEviction
<1>3. pc' = [pc EXCEPT ![c] = "append"]
    BY <1>2 DEF Start, Goto, IInv, TypeOK
<1>4. runOf'[Label] = r
    BY <1>1 DEF IInv, TypeOK
<1> QED BY <1>1, <1>3, <1>4 DEF Start, raised

LEMMA StartR ==
    ASSUME OneLabel, IInv, Aged, RInv, NEW c \in Calls, Start(c), IInv', Aged',
           idle' = FALSE, splits' \in {splits, splits + 1}, UNCHANGED <<log, idled, clashes>>
    PROVE  RInv'
<1> USE GrouperAssumption, OfTheLabel
<1>1. PICK r \in Runs : /\ live[r] = "absent" /\ live' = [live EXCEPT ![r] = "open"]
                        /\ runOf'[Label] = r /\ got' = [got EXCEPT ![c] = r]
                        /\ pc' = [pc EXCEPT ![c] = "append"] /\ pc[c] = "start"
                        /\ UNCHANGED <<fresh, faults, losses, ends>>
    BY StartGives
<1>2. live \in [Runs -> {"absent", "open", "closed"}]
    BY DEF IInv, TypeOK
<1>3. \A d \in Calls : pc[d] \in {"close", "start"} => d = c
    <2>1. pc[c] \in Holding
        BY <1>1 DEF Holding
    <2>2. \A d \in Calls : pc[d] \in {"close", "start"} => pc[d] \in Holding
        BY DEF Holding
    <2> QED BY <2>1, <2>2 DEF IInv, Locked
<1>4. HTyped' /\ Unstarted' /\ Caused' /\ Idling'
    <2>1. HTyped'
        <3>1. splits' \in Nat
            BY DEF RInv, HTyped
        <3>2. idle' \in BOOLEAN
            OBVIOUS
        <3> QED BY ONLY RInv, UNCHANGED <<log, idled, clashes>>, <3>1, <3>2 DEF RInv, HTyped
    <2>2. \A p \in Runs : /\ live'[p] = "absent" => live[p] = "absent"
                          /\ live'[p] = "closed" => live[p] = "closed"
        BY <1>1, <1>2
    <2>3. Unstarted'
        BY <2>2 DEF RInv, Unstarted
    <2>4. Caused'
        BY <1>1, <2>2 DEF RInv, Caused
    <2> QED BY <2>1, <2>3, <2>4 DEF Idling
<1>5. Justified'
    BY <1>1, <1>3 DEF IInv, TypeOK, Justified
<1>6. Outrun'
    <2> SUFFICES ASSUME faults' = 0, NEW d \in Calls, pc'[d] = "append", got'[d] # runOf'[Label]
                 PROVE  live'[got'[d]] = "closed"
        BY DEF Outrun
    <2>1. d # c /\ got'[d] = got[d] /\ pc[d] = "append" /\ faults = 0
        BY <1>1 DEF IInv, TypeOK
    <2>2. got[d] \in Runs /\ live[got[d]] # "absent" /\ opened[got[d]] = Label
        BY <2>1 DEF IInv, Held
    <2>3. live[got[d]] = "closed"
        <3>1. CASE got[d] # runOf[Label]
            BY <2>1, <3>1 DEF RInv, Outrun
        <3>2. CASE got[d] = runOf[Label]
            BY <1>1, <2>1, <2>2, <3>2 DEF IInv, Ended
        <3> QED BY <3>1, <3>2
    <2> QED BY <1>1, <1>2, <2>1, <2>2, <2>3
<1> QED BY <1>4, <1>5, <1>6 DEF RInv

\* The steps that leave the runs and their label alone.
LEMMA QuietR ==
    ASSUME OneLabel, IInv, RInv, NEW c \in Calls,
           UNCHANGED <<live, runOf, seen, now, ends, idle, idled>>,
           HTyped', Unstarted', Caused',
           faults' \in {faults, faults + 1}, pc'[c] \in {"lookup", "done"},
           \A d \in Calls \ {c} : pc'[d] = pc[d] /\ fresh'[d] = fresh[d] /\ got'[d] = got[d]
    PROVE  RInv'
<1> USE GrouperAssumption, OfTheLabel
<1>1. Idling'
    BY DEF RInv, Idling
<1>2. Justified'
    BY DEF RInv, Justified
<1>3. faults' = 0 => faults = 0
    BY DEF IInv, TypeOK
<1>4. Outrun'
    BY <1>3 DEF RInv, Outrun
<1> QED BY <1>1, <1>2, <1>4 DEF RInv

LEMMA StartFailsR ==
    ASSUME OneLabel, IInv, RInv, NEW c \in Calls, StartFails(c), UNCHANGED history
    PROVE  RInv'
<1>1. /\ UNCHANGED <<live, runOf, seen, now, losses, ends>> /\ UNCHANGED <<log, idle, idled, clashes, splits>>
      /\ faults' = faults + 1 /\ pc' = [pc EXCEPT ![c] = "done"]
      /\ fresh' = [fresh EXCEPT ![c] = FALSE] /\ got' = [got EXCEPT ![c] = None]
    BY DEF StartFails, Reply, Goto, runs, map, raised, history
<1>2. HTyped' /\ Unstarted'
    BY <1>1 DEF RInv, HTyped, Unstarted
<1>3. Caused'
    BY <1>1 DEF Caused, IInv, TypeOK
<1>4. /\ pc'[c] \in {"lookup", "done"}
      /\ \A d \in Calls \ {c} : pc'[d] = pc[d] /\ fresh'[d] = fresh[d] /\ got'[d] = got[d]
    BY <1>1 DEF IInv, TypeOK
<1> QED BY <1>1, <1>2, <1>3, <1>4, QuietR

LEMMA RecordedR ==
    ASSUME OneLabel, IInv, RInv, NEW c \in Calls, Recorded(c),
           log' = [log EXCEPT ![got[c]] = Append(@, c)], UNCHANGED <<idle, idled, clashes, splits>>
    PROVE  RInv'
<1>1. /\ UNCHANGED <<live, runOf, seen, now, faults, losses, ends>>
      /\ pc[c] = "append" /\ live[got[c]] = "open" /\ pc' = [pc EXCEPT ![c] = "done"]
      /\ fresh' = [fresh EXCEPT ![c] = FALSE] /\ got' = [got EXCEPT ![c] = None]
    BY DEF Recorded, Reply, Goto, map, raised
<1>2. got[c] \in Runs
    BY <1>1 DEF IInv, Held
<1>3. HTyped'
    <2>1. Append(log[got[c]], c) \in Seq(Calls)
        BY <1>2 DEF RInv, HTyped
    <2> QED BY <2>1 DEF RInv, HTyped
<1>4. Unstarted'
    BY <1>1, <1>2 DEF RInv, HTyped, Unstarted
<1>5. /\ pc'[c] \in {"lookup", "done"}
      /\ \A d \in Calls \ {c} : pc'[d] = pc[d] /\ fresh'[d] = fresh[d] /\ got'[d] = got[d]
      /\ \A d \in Calls : fresh'[d] => fresh[d]
    BY <1>1 DEF IInv, TypeOK
<1>6. Caused'
    BY <1>1, <1>5 DEF RInv, Caused
<1> QED BY <1>1, <1>3, <1>4, <1>5, <1>6, QuietR

\* A call whose append raises goes back for another run, or is told. The run was closed or the
\* record there, or the store refused the record, or kept it.
LEMMA UnrecordedGives ==
    ASSUME IInv, NEW c \in Calls, Unrecorded(c)
    PROVE  /\ UNCHANGED <<live, runOf, seen, now, ends, lives>>
           /\ pc[c] = "append" /\ got[c] \in Runs
           /\ \/ (live[got[c]] = "closed" \/ Taken(c)) /\ UNCHANGED <<faults, losses>>
              \/ live[got[c]] = "open" /\ faults' = faults + 1 /\ losses' = losses
              \/ live[got[c]] = "open" /\ faults' = faults /\ losses' = losses + 1
           /\ pc'[c] \in {"lookup", "done"} /\ got' = [got EXCEPT ![c] = None]
           /\ \A d \in Calls \ {c} : pc'[d] = pc[d] /\ fresh'[d] = fresh[d]
           /\ IF fresh[c] THEN reply' = [reply EXCEPT ![c] = "failed"] ELSE reply' = reply
<1>1. /\ UNCHANGED <<live, runOf, seen, now, ends, lives>> /\ pc[c] = "append"
    BY DEF Unrecorded, runs, map
<1>2. got[c] \in Runs /\ live[got[c]] \in {"open", "closed"}
    BY <1>1 DEF IInv, Held, TypeOK
<1>3. \/ (live[got[c]] = "closed" \/ Taken(c)) /\ UNCHANGED <<faults, losses>>
      \/ live[got[c]] = "open" /\ faults' = faults + 1 /\ losses' = losses
      \/ live[got[c]] = "open" /\ faults' = faults /\ losses' = losses + 1
    BY <1>2 DEF Unrecorded, Raised, raised
<1>4. CASE fresh[c]
    <2>1. /\ pc' = [pc EXCEPT ![c] = "done"] /\ fresh' = [fresh EXCEPT ![c] = FALSE]
          /\ got' = [got EXCEPT ![c] = None] /\ reply' = [reply EXCEPT ![c] = "failed"]
        BY <1>4 DEF Unrecorded, Reply, Goto
    <2> QED BY <1>1, <1>2, <1>3, <1>4, <2>1 DEF IInv, TypeOK
<1>5. CASE ~fresh[c]
    <2>1. /\ pc' = [pc EXCEPT ![c] = "lookup"] /\ fresh' = [fresh EXCEPT ![c] = TRUE]
          /\ got' = [got EXCEPT ![c] = None] /\ reply' = reply
        BY <1>5 DEF Unrecorded, Goto
    <2> QED BY <1>1, <1>2, <1>3, <1>5, <2>1 DEF IInv, TypeOK
<1> QED BY <1>4, <1>5

\* The second error of a call, and a record that is there already, had a reason.
LEMMA UnrecordedCaused ==
    ASSUME IInv, RInv, NEW c \in Calls, Unrecorded(c)
    PROVE  faults' > 0 \/ losses' > 0 \/ ends > 0 \/ idled > 0
<1> USE GrouperAssumption
<1>1. faults \in Nat /\ losses \in Nat
    BY DEF IInv, TypeOK
<1>2. CASE faults' = faults + 1 \/ losses' = losses + 1
    BY <1>1, <1>2
<1>3. CASE live[got[c]] = "closed" /\ UNCHANGED <<faults, losses>>
    BY <1>3, UnrecordedGives DEF RInv, Caused
<1>4. CASE Taken(c) /\ UNCHANGED <<faults, losses>>
    <2>1. reply[c] # "recorded"
        BY UnrecordedGives DEF IInv, TypeOK, Answered
    <2>2. lost # {}
        BY <1>4, <2>1 DEF IInv, ToldTrue, Taken
    <2> QED BY <1>4, <2>2 DEF IInv, Counted
<1> QED BY <1>2, <1>3, <1>4, UnrecordedGives

LEMMA UnrecordedR ==
    ASSUME OneLabel, IInv, RInv, NEW c \in Calls, Unrecorded(c),
           log' = IF losses' = losses THEN log ELSE [log EXCEPT ![got[c]] = Append(@, c)],
           clashes' \in {clashes, clashes + 1}, UNCHANGED <<idle, idled, splits>>
    PROVE  RInv'
<1>1. HTyped'
    <2>1. Append(log[got[c]], c) \in Seq(Calls)
        BY UnrecordedGives DEF RInv, HTyped
    <2>2. log' \in [Runs -> Seq(Calls)]
        BY <2>1 DEF RInv, HTyped
    <2> QED BY <2>2 DEF RInv, HTyped
<1>2. Unstarted'
    <2>1. live[got[c]] # "absent" /\ live' = live /\ got[c] \in Runs
        BY UnrecordedGives DEF IInv, Held
    <2> QED BY <2>1 DEF RInv, HTyped, Unstarted
<1>3. Caused'
    BY UnrecordedCaused, UnrecordedGives DEF Caused
<1>4. /\ \A d \in Calls \ {c} : pc'[d] = pc[d] /\ fresh'[d] = fresh[d] /\ got'[d] = got[d]
      /\ faults' \in {faults, faults + 1}
    BY UnrecordedGives DEF IInv, TypeOK
<1> QED BY <1>1, <1>2, <1>3, <1>4, UnrecordedGives, QuietR

LEMMA ApiEndR ==
    ASSUME OneLabel, IInv, RInv, NEW r \in Runs, ApiEnd(r), UNCHANGED history
    PROVE  RInv'
<1>1. /\ UNCHANGED <<pc, fresh, got, runOf, seen, now, faults, losses>> /\ ends' = ends + 1
      /\ live[r] = "open" /\ live' = [live EXCEPT ![r] = "closed"]
      /\ UNCHANGED <<log, idle, idled, clashes, splits>>
    BY DEF ApiEnd, call, map, raised, history
<1>2. HTyped' /\ Unstarted' /\ Idling' /\ Justified'
    BY <1>1 DEF RInv, HTyped, Unstarted, Idling, Justified, IInv, TypeOK
<1>3. Caused'
    BY <1>1 DEF Caused, IInv, TypeOK
<1>4. Outrun'
    BY <1>1 DEF RInv, Outrun, IInv, TypeOK, Held
<1> QED BY <1>2, <1>3, <1>4 DEF RInv

LEMMA TickR ==
    ASSUME OneLabel, IInv, RInv, Tick, UNCHANGED history
    PROVE  RInv'
<1> USE GrouperAssumption, OfTheLabel
<1>1. /\ UNCHANGED <<live, pc, fresh, got, runOf, seen, faults, losses, ends>> /\ now' = now + 1
      /\ UNCHANGED <<log, idle, idled, clashes, splits>>
    BY DEF Tick, runs, call, map, raised, history
<1>2. HTyped' /\ Unstarted' /\ Caused' /\ Justified' /\ Outrun'
    BY <1>1 DEF RInv, HTyped, Unstarted, Caused, Justified, Outrun
<1>3. Idling'
    <2>1. now \in Int /\ seen[Label] \in Int /\ IdleSeconds \in Int
        BY DEF IInv, TypeOK
    <2>2. now - seen[Label] > IdleSeconds => now' - seen'[Label] > IdleSeconds
        BY <1>1, <2>1
    <2> QED BY <1>1, <2>2 DEF RInv, Idling
<1> QED BY <1>2, <1>3 DEF RInv

LEMMA RestartR ==
    ASSUME OneLabel, IInv, RInv, Restart, idle' = FALSE, UNCHANGED <<log, idled, clashes, splits>>
    PROVE  RInv'
<1>1. /\ UNCHANGED <<live, faults, losses, ends>> /\ fresh' = [c \in Calls |-> FALSE]
      /\ \A c \in Calls : pc'[c] \in {"lookup", "done"}
    <2>1. \A c \in Calls : pc'[c] = IF pc[c] # "done" /\ (pc[c] # "lookup" \/ fresh[c])
                                    THEN "done" ELSE pc[c]
        BY DEF Restart
    <2> QED BY <2>1 DEF Restart, runs, raised
<1>2. HTyped' /\ Unstarted'
    BY <1>1 DEF RInv, HTyped, Unstarted
<1>3. Caused' /\ Idling' /\ Justified' /\ Outrun'
    BY <1>1 DEF RInv, Caused, Idling, Justified, Outrun
<1> QED BY <1>2, <1>3 DEF RInv

LEMMA StepR == OneLabel /\ IInv /\ Aged /\ RInv /\ (IInv /\ Aged)' /\ [HNext]_hvars => RInv'
<1> SUFFICES ASSUME OneLabel, IInv, Aged, RInv, IInv', Aged', [HNext]_hvars PROVE RInv'
    OBVIOUS
<1>1. ASSUME NEW c \in Calls, HStep(c) PROVE RInv'
    <2>1. ~Evict(c)
        BY NothingEvicted DEF NoEviction, Evict
    <2>2. CASE Hit(c) /\ UNCHANGED history
        BY <2>2, HitR
    <2>3. CASE /\ Replace(c) /\ idle' = (idle \/ (~fresh[c] /\ runOf[Label] # None))
               /\ idled' = IF idle' = idle THEN idled ELSE idled + 1
               /\ UNCHANGED <<log, clashes, splits>>
        BY <2>3, ReplaceR
    <2>4. CASE /\ Close(c) /\ splits' = IF live' = live THEN splits ELSE splits + 1
               /\ UNCHANGED <<log, idle, idled, clashes>>
        BY <2>4, CloseR
    <2>5. CASE /\ Start(c) /\ idle' = FALSE
               /\ splits' = IF Grouped!Usable THEN splits + 1 ELSE splits
               /\ UNCHANGED <<log, idled, clashes>>
        BY <2>5, StartR
    <2>6. CASE StartFails(c) /\ UNCHANGED history
        BY <2>6, StartFailsR
    <2>7. CASE /\ Recorded(c) /\ log' = [log EXCEPT ![got[c]] = Append(@, c)]
               /\ UNCHANGED <<idle, idled, clashes, splits>>
        BY <2>7, RecordedR
    <2>8. CASE /\ Unrecorded(c)
               /\ log' = IF losses' = losses THEN log ELSE [log EXCEPT ![got[c]] = Append(@, c)]
               /\ clashes' = IF fresh[c] /\ UNCHANGED <<faults, losses>> THEN clashes + 1 ELSE clashes
               /\ UNCHANGED <<idle, idled, splits>>
        BY <2>8, UnrecordedR
    <2> QED BY <1>1, <2>1, <2>2, <2>3, <2>4, <2>5, <2>6, <2>7, <2>8 DEF HStep
<1>2. CASE (Tick \/ \E r \in Runs : ApiEnd(r)) /\ UNCHANGED history
    BY <1>2, TickR, ApiEndR
<1>3. CASE Restart /\ idle' = FALSE /\ UNCHANGED <<log, idled, clashes, splits>>
    BY <1>3, RestartR
<1>4. CASE UNCHANGED hvars
    BY <1>4 DEF hvars, vars, history, RInv, HTyped, Unstarted, Caused, Idling, Justified, Outrun
<1> QED BY <1>1, <1>2, <1>3, <1>4 DEF HNext
-----------------------------------------------------------------------------
\* Every step is a step of GroupedRun, or changes nothing there.

Same == UNCHANGED <<live, log, runOf[Label], idle, spent>>

\* The counters, one by one.
LEMMA SpentOf ==
    /\ spent["fault"] = faults /\ spent["lost"] = losses /\ spent["end"] = ends
    /\ spent["restart"] = lives /\ spent["idle"] = idled /\ spent["clash"] = clashes /\ spent["split"] = splits
BY DEF spent, Counter, Trouble

\* One counter goes up and the others stay: that is `Spend`.
LEMMA SpendGives ==
    ASSUME IInv, RInv, NEW u \in Trouble,
           faults'  = IF u = "fault"   THEN faults + 1  ELSE faults,
           losses'  = IF u = "lost"    THEN losses + 1  ELSE losses,
           ends'    = IF u = "end"     THEN ends + 1    ELSE ends,
           lives'   = IF u = "restart" THEN lives + 1   ELSE lives,
           idled'   = IF u = "idle"    THEN idled + 1   ELSE idled,
           clashes' = IF u = "clash"   THEN clashes + 1 ELSE clashes,
           splits'  = IF u = "split"   THEN splits + 1  ELSE splits
    PROVE  Grouped!Spend(u)
<1>1. /\ faults \in Nat /\ losses \in Nat /\ ends \in Nat /\ lives \in Nat
      /\ idled \in Nat /\ clashes \in Nat /\ splits \in Nat
    BY GrouperAssumption DEF IInv, TypeOK, RInv, HTyped
<1>2. \A t \in Trouble : spent[t] \in Nat
    BY <1>1, SpentOf DEF Trouble
<1>3. \A t \in Trouble : spent'[t] = IF t = u THEN spent[t] + 1 ELSE spent[t]
    <2>1. /\ spent'["fault"] = faults' /\ spent'["lost"] = losses' /\ spent'["end"] = ends'
          /\ spent'["restart"] = lives'
          /\ spent'["idle"] = idled' /\ spent'["clash"] = clashes' /\ spent'["split"] = splits'
        BY DEF spent, Counter, Trouble
    <2> SUFFICES ASSUME NEW t \in Trouble PROVE spent'[t] = IF t = u THEN spent[t] + 1 ELSE spent[t]
        OBVIOUS
    <2>2. CASE t = "fault"
        BY <2>1, <2>2, SpentOf
    <2>3. CASE t = "end"
        BY <2>1, <2>3, SpentOf
    <2>4. CASE t = "restart"
        BY <2>1, <2>4, SpentOf
    <2>5. CASE t = "idle"
        BY <2>1, <2>5, SpentOf
    <2>6. CASE t = "clash"
        BY <2>1, <2>6, SpentOf
    <2>7. CASE t = "split"
        BY <2>1, <2>7, SpentOf
    <2>8. CASE t = "lost"
        BY <2>1, <2>8, SpentOf
    <2> QED BY <2>2, <2>3, <2>4, <2>5, <2>6, <2>7, <2>8 DEF Trouble
<1>4. spent = [t \in Trouble |-> spent[t]] /\ spent' = [t \in Trouble |-> spent'[t]]
    <2>1. spent = [t \in Trouble |-> spent[t]]
        BY DEF spent
    <2>2. spent' = [t \in Trouble |-> spent'[t]]
        BY DEF spent
    <2> QED BY <2>1, <2>2
<1> HIDE DEF spent
<1>5. spent' = [spent EXCEPT ![u] = @ + 1]
    BY <1>3, <1>4
<1>6. \A t \in Trouble : spent'[t] \in Nat
    BY <1>2, <1>3
<1>7. spent' \in [Trouble -> Nat]
    BY <1>4, <1>6
<1> QED BY <1>5, <1>7 DEF Grouped!Spend

\* No counter goes up.
LEMMA SpentSame ==
    ASSUME UNCHANGED <<faults, losses, ends, lives, idled, clashes, splits>> PROVE UNCHANGED spent
BY DEF spent, Counter

LEMMA DisturbedGives ==
    ASSUME IInv, RInv, faults > 0 \/ losses > 0 \/ ends > 0 \/ idled > 0 PROVE Grouped!Disturbed
BY SpentOf DEF Grouped!Disturbed

\* A step of RunGrouper with its added variables, and what it keeps of the promise.
Implements ==
    /\ Same \/ Grouped!RunsNext(Calls)
    /\ \A c \in Calls :
        /\ reply[c] = "none" /\ reply'[c] = "recorded" => \E r \in Runs : Grouped!Stored(r, c)
        /\ reply[c] = "none" /\ reply'[c] = "failed" => Grouped!NotStored \/ Grouped!Lost(c)
        /\ got[c] = None /\ got'[c] # None =>
              got'[c] = runOf'[Label] /\ (Grouped!RunFor \/ Grouped!Replacing)

LEMMA HitStep ==
    ASSUME OneLabel, IInv, RInv, NEW c \in Calls, Hit(c), UNCHANGED history
    PROVE  Implements
<1> USE GrouperAssumption, OfTheLabel
<1>1. /\ UNCHANGED <<live, runOf, reply, faults, losses, ends, lives>>
      /\ got' = [got EXCEPT ![c] = runOf[Label]] /\ runOf[Label] # None
      /\ UNCHANGED <<log, idle, idled, clashes, splits>>
    BY DEF Hit, runs, raised, history
<1>2. UNCHANGED spent
    BY <1>1, SpentSame
<1>3. ~idle
    BY DEF Hit, RInv, Idling, IInv, TypeOK
<1>4. Grouped!RunFor
    BY <1>1, <1>2, <1>3 DEF Grouped!RunFor, Grouped!Usable, Grouped!runs
<1>5. \A d \in Calls : got[d] = None /\ got'[d] # None => got'[d] = runOf'[Label]
    BY <1>1 DEF IInv, TypeOK
<1> QED BY <1>1, <1>2, <1>4, <1>5 DEF Implements, Same

LEMMA ReplaceStep ==
    ASSUME OneLabel, IInv, RInv, NEW c \in Calls, Replace(c),
           idle' = (idle \/ (~fresh[c] /\ runOf[Label] # None)),
           idled' = IF idle' = idle THEN idled ELSE idled + 1,
           UNCHANGED <<log, clashes, splits>>
    PROVE  Implements
<1> USE OfTheLabel
<1>1. UNCHANGED <<live, runOf, reply, got, faults, losses, ends, lives>>
    BY DEF Replace, runs, map, raised
<1>2. idle \in BOOLEAN
    BY DEF RInv, HTyped
<1>3. CASE idle' = idle
    <2>1. UNCHANGED spent
        BY <1>1, <1>3, SpentSame
    <2> QED BY <1>1, <1>3, <2>1 DEF Implements, Same
<1>4. CASE idle' # idle
    <2>1. ~idle /\ idle' = TRUE /\ runOf[Label] # None /\ idled' = idled + 1
        BY <1>2, <1>4
    <2>2. Grouped!Spend("idle")
        BY <1>1, <2>1, SpendGives DEF Trouble
    <2>3. Grouped!Idle
        BY <1>1, <2>1, <2>2 DEF Grouped!Idle, Grouped!Usable
    <2> QED BY <1>1, <2>3 DEF Implements, Grouped!RunsNext
<1> QED BY <1>3, <1>4

LEMMA CloseStep ==
    ASSUME OneLabel, IInv, RInv, NEW c \in Calls, Close(c),
           splits' = IF live' = live THEN splits ELSE splits + 1,
           UNCHANGED <<log, idle, idled, clashes>>
    PROVE  Implements
<1> USE GrouperAssumption, OfTheLabel
<1> DEFINE q == runOf[Label]
<1>1. q \in Runs /\ UNCHANGED <<runOf, fresh, got, reply, losses, ends, lives>>
    BY CloseGives
<1>2. CASE live[q] = "open" /\ faults' = faults /\ live' = [live EXCEPT ![q] = "closed"]
    <2>1. live' # live
        BY <1>1, <1>2 DEF IInv, TypeOK
    <2>2. Grouped!Spend("split")
        BY <1>1, <1>2, <2>1, SpendGives DEF Trouble
    <2>3. faults > 0 \/ losses > 0 \/ ends > 0 \/ idled > 0
        BY <1>1 DEF Close, RInv, Justified, Caused, Idling
    <2>4. Grouped!Ended
        BY <1>1, <1>2 DEF Grouped!Ended
    <2>5. Grouped!Replacing
        BY <2>2, <2>3, <2>4, DisturbedGives DEF Grouped!Replacing
    <2> QED BY <1>1, <2>5 DEF Implements, Grouped!RunsNext
<1>3. CASE faults' = faults + 1 /\ live' = live
    <2>1. Grouped!Spend("fault")
        BY <1>1, <1>3, SpendGives DEF Trouble
    <2>2. Grouped!NotStored
        BY <1>1, <1>3, <2>1 DEF Grouped!NotStored, Grouped!runs
    <2> QED BY <1>1, <2>2 DEF Implements, Grouped!RunsNext
<1>4. CASE faults' = faults /\ live' = live
    BY <1>1, <1>4, SpentSame DEF Implements, Same
<1> QED BY <1>2, <1>3, <1>4, CloseGives

\* The fresh run, empty, takes the place of the current one.
LEMMA StartReplaces ==
    ASSUME OneLabel, IInv, Aged, RInv, NEW c \in Calls, Start(c), IInv', Aged',
           idle' = FALSE, UNCHANGED log
    PROVE  Grouped!Replaced(<<>>)
<1> USE GrouperAssumption, OfTheLabel
<1>1. PICK r \in Runs : /\ live[r] = "absent" /\ \A q \in Runs : live[q] = "absent" => r <= q
                        /\ live' = [live EXCEPT ![r] = "open"] /\ runOf'[Label] = r
    BY StartGives
<1>2. Grouped!Fresh(r)
    BY <1>1 DEF Grouped!Fresh
<1>3. log' = [log EXCEPT ![r] = <<>>]
    BY <1>1 DEF RInv, HTyped, Unstarted
<1>4. live' = [q \in Runs |-> IF q = r THEN "open"
                              ELSE IF q = runOf[Label] /\ FALSE THEN "closed" ELSE live[q]]
    BY <1>1 DEF IInv, TypeOK
<1>5. CASE spent'["fault"] # 0
    <2>1. (spent'["fault"] = 0) = FALSE
        BY <1>5
    <2>2. FALSE \in {TRUE, spent'["fault"] = 0}
        BY <2>1
    <2> QED BY <1>1, <1>2, <1>3, <1>4, <2>2 DEF Grouped!Replaced
<1>6. CASE spent'["fault"] = 0
    <2>1. faults = 0 /\ pc[c] = "start"
        BY <1>6, StartGives DEF spent, Counter, Trouble
    <2>2. runOf[Label] # None => live[runOf[Label]] = "closed"
        BY <2>1 DEF IInv, Ended
    <2>3. live' = [q \in Runs |-> IF q = r THEN "open"
                                  ELSE IF q = runOf[Label] /\ TRUE THEN "closed" ELSE live[q]]
        BY <1>4, <2>2
    <2> QED BY <1>1, <1>2, <1>3, <2>3 DEF Grouped!Replaced
<1> QED BY <1>5, <1>6

LEMMA StartStep ==
    ASSUME OneLabel, IInv, Aged, RInv, NEW c \in Calls, Start(c), IInv', Aged',
           idle' = FALSE, splits' = IF Grouped!Usable THEN splits + 1 ELSE splits,
           UNCHANGED <<log, idled, clashes>>
    PROVE  Implements
<1> USE GrouperAssumption, OfTheLabel
<1>0. PICK r \in Runs : /\ runOf'[Label] = r /\ got' = [got EXCEPT ![c] = r]
                        /\ pc[c] = "start" /\ UNCHANGED <<fresh, reply, faults, losses, ends, lives>>
    BY StartGives
<1>1. \A d \in Calls : got[d] = None /\ got'[d] # None => got'[d] = runOf'[Label]
    BY <1>0 DEF IInv, TypeOK
<1>2. Grouped!Replaced(<<>>)
    BY StartReplaces
<1>3. CASE Grouped!Usable
    <2>1. runOf[Label] # None /\ ~idle
        BY <1>3 DEF Grouped!Usable
    <2>2. fresh[c]
        BY <1>0, <2>1 DEF RInv, Justified
    <2>3. Grouped!Disturbed
        BY <2>2, DisturbedGives DEF RInv, Caused
    <2>4. Grouped!Spend("split")
        BY <1>0, <1>3, SpendGives DEF Trouble
    <2>5. live[runOf[Label]] = "closed" \/ spent["fault"] > 0
        <3>1. faults \in Nat
            BY DEF IInv, TypeOK
        <3> QED BY <1>0, <2>1, <3>1, SpentOf DEF IInv, Ended
    <2>6. Grouped!Replacing
        BY <1>2, <2>1, <2>3, <2>4, <2>5 DEF Grouped!Replacing
    <2> QED BY <1>0, <1>1, <2>6 DEF Implements, Grouped!RunsNext
<1>4. CASE ~Grouped!Usable
    <2>1. UNCHANGED spent
        BY <1>0, <1>4, SpentSame
    <2>2. Grouped!RunFor
        BY <1>2, <1>4, <2>1 DEF Grouped!RunFor
    <2> QED BY <1>0, <1>1, <2>2 DEF Implements, Grouped!RunsNext
<1> QED BY <1>3, <1>4

LEMMA StartFailsStep ==
    ASSUME OneLabel, IInv, RInv, NEW c \in Calls, StartFails(c), UNCHANGED history
    PROVE  Implements
<1> USE OfTheLabel
<1>1. /\ UNCHANGED <<live, runOf, losses, ends, lives>> /\ faults' = faults + 1
      /\ got' = [got EXCEPT ![c] = None] /\ reply' = [reply EXCEPT ![c] = "failed"]
      /\ UNCHANGED <<log, idle, idled, clashes, splits>>
    BY DEF StartFails, Reply, runs, map, raised, history
<1>2. Grouped!Spend("fault")
    BY <1>1, SpendGives DEF Trouble
<1>3. Grouped!NotStored
    BY <1>1, <1>2 DEF Grouped!NotStored, Grouped!runs
<1>4. \A d \in Calls : /\ got'[d] # None => got[d] # None
                       /\ reply[d] = "none" => reply'[d] # "recorded"
    BY <1>1 DEF IInv, TypeOK
<1> QED BY <1>3, <1>4 DEF Implements, Grouped!RunsNext

LEMMA RecordedStep ==
    ASSUME OneLabel, IInv, RInv, NEW c \in Calls, Recorded(c),
           log' = [log EXCEPT ![got[c]] = Append(@, c)], UNCHANGED <<idle, idled, clashes, splits>>
    PROVE  Implements
<1> USE OfTheLabel
<1>1. /\ UNCHANGED <<live, runOf, faults, losses, ends, lives>> /\ pc[c] = "append" /\ live[got[c]] = "open"
      /\ got' = [got EXCEPT ![c] = None] /\ reply' = [reply EXCEPT ![c] = "recorded"]
    BY DEF Recorded, Reply, map, raised
<1>2. got[c] \in Runs
    BY <1>1 DEF IInv, Held
<1>3. got[c] = runOf[Label] \/ spent["fault"] > 0
    <2>1. faults \in Nat
        BY DEF IInv, TypeOK
    <2> QED BY <1>1, <2>1, SpentOf DEF RInv, Outrun
<1>4. UNCHANGED spent
    BY <1>1, SpentSame
<1>5. Grouped!Stored(got[c], c)
    BY <1>1, <1>3, <1>4 DEF Grouped!Stored, Grouped!Appended
<1>6. \A d \in Calls : /\ got'[d] # None => got[d] # None
                       /\ reply[d] = "none" => reply'[d] # "failed"
                       /\ reply[d] = "none" /\ reply'[d] = "recorded" => d = c
    BY <1>1 DEF IInv, TypeOK
<1> QED BY <1>2, <1>5, <1>6 DEF Implements, Grouped!RunsNext

LEMMA UnrecordedStep ==
    ASSUME OneLabel, IInv, RInv, NEW c \in Calls, Unrecorded(c),
           log' = IF losses' = losses THEN log ELSE [log EXCEPT ![got[c]] = Append(@, c)],
           clashes' = IF fresh[c] /\ UNCHANGED <<faults, losses>> THEN clashes + 1 ELSE clashes,
           UNCHANGED <<idle, idled, splits>>
    PROVE  Implements
<1> USE OfTheLabel
<1>1. /\ UNCHANGED <<live, runOf, ends, lives>> /\ got[c] \in Runs
      /\ got' = [got EXCEPT ![c] = None]
      /\ IF fresh[c] THEN reply' = [reply EXCEPT ![c] = "failed"] ELSE reply' = reply
    BY UnrecordedGives
<1>2. \A d \in Calls : /\ got'[d] # None => got[d] # None
                       /\ reply[d] = "none" => reply'[d] # "recorded"
                       /\ reply[d] = "none" /\ reply'[d] = "failed" => fresh[c] /\ d = c
    BY <1>1 DEF IInv, TypeOK
<1>0. faults \in Nat /\ losses \in Nat
    BY GrouperAssumption DEF IInv, TypeOK
<1>3. CASE live[got[c]] = "open" /\ faults' = faults + 1 /\ losses' = losses
    <2>1. faults' # faults /\ log' = log
        BY <1>0, <1>3
    <2>2. Grouped!Spend("fault")
        BY <1>1, <1>3, <2>1, SpendGives DEF Trouble
    <2>3. Grouped!NotStored
        BY <1>1, <2>1, <2>2 DEF Grouped!NotStored, Grouped!runs
    <2> QED BY <1>2, <2>3 DEF Implements, Grouped!RunsNext
<1>4. CASE UNCHANGED <<faults, losses>> /\ fresh[c]
    <2>1. Grouped!Disturbed
        BY <1>4, DisturbedGives DEF RInv, Caused
    <2>2. Grouped!Spend("clash")
        BY <1>1, <1>4, SpendGives DEF Trouble
    <2>3. Grouped!NotStored
        BY <1>1, <1>4, <2>1, <2>2 DEF Grouped!NotStored, Grouped!Clash, Grouped!runs
    <2> QED BY <1>2, <2>3 DEF Implements, Grouped!RunsNext
<1>5. CASE UNCHANGED <<faults, losses>> /\ ~fresh[c]
    BY <1>1, <1>2, <1>5, SpentSame DEF Implements, Same
<1>6. CASE live[got[c]] = "open" /\ faults' = faults /\ losses' = losses + 1
    <2>1. losses' # losses
        BY <1>0, <1>6
    <2>2. Grouped!Spend("lost")
        BY <1>1, <1>6, <2>1, SpendGives DEF Trouble
    <2>3. got[c] = runOf[Label] \/ spent["fault"] > 0
        BY <1>0, <1>6, UnrecordedGives, SpentOf DEF RInv, Outrun
    <2>4. Grouped!Appended(got[c], c)
        BY <1>1, <1>6, <2>1, <2>3 DEF Grouped!Appended
    <2>5. Grouped!Lost(c)
        BY <1>1, <2>2, <2>4 DEF Grouped!Lost
    <2> QED BY <1>2, <2>5 DEF Implements, Grouped!RunsNext
<1> QED BY <1>3, <1>4, <1>5, <1>6, UnrecordedGives

\* What is not a call's.
LEMMA OutsideStep ==
    ASSUME OneLabel, IInv, RInv, UNCHANGED <<log, idled, clashes, splits>>,
           \/ (Tick \/ \E r \in Runs : ApiEnd(r)) /\ UNCHANGED idle
           \/ Restart /\ idle' = FALSE
    PROVE  Implements
<1> USE OfTheLabel
<1>1. CASE Tick /\ UNCHANGED idle
    <2>1. UNCHANGED <<live, runOf, got, reply, faults, losses, ends, lives>>
        BY <1>1 DEF Tick, runs, map, call, raised
    <2> QED BY <1>1, <2>1, SpentSame DEF Implements, Same
<1>2. ASSUME NEW r \in Runs, ApiEnd(r), UNCHANGED idle PROVE Implements
    <2>1. /\ UNCHANGED <<runOf, got, reply, faults, losses, lives>> /\ ends' = ends + 1
          /\ live[r] = "open" /\ live' = [live EXCEPT ![r] = "closed"]
        BY <1>2 DEF ApiEnd, map, call, raised
    <2>2. Grouped!Spend("end")
        BY <1>2, <2>1, SpendGives DEF Trouble
    <2>3. Grouped!ApiEnd(r)
        BY <1>2, <2>1, <2>2 DEF Grouped!ApiEnd
    <2> QED BY <2>1, <2>3 DEF Implements, Grouped!RunsNext
<1>3. CASE Restart /\ idle' = FALSE
    <2>1. /\ UNCHANGED <<live, faults, losses, ends>> /\ lives' = lives + 1 /\ runOf'[Label] = None
          /\ \A c \in Calls : got'[c] = None /\ reply'[c] \in {"cut", reply[c]}
        BY <1>3 DEF Restart, runs, raised
    <2>2. Grouped!Spend("restart")
        BY <2>1, SpendGives DEF Trouble
    <2>3. Grouped!Forgotten
        BY <1>3, <2>1 DEF Grouped!Forgotten
    <2> QED BY <2>1, <2>2, <2>3 DEF Implements, Grouped!RunsNext
<1> QED BY <1>1, <1>2, <1>3

LEMMA StepImplements ==
    OneLabel /\ IInv /\ Aged /\ RInv /\ (IInv /\ Aged)' /\ [HNext]_hvars => Implements
<1> SUFFICES ASSUME OneLabel, IInv, Aged, RInv, IInv', Aged', [HNext]_hvars PROVE Implements
    OBVIOUS
<1>1. ASSUME NEW c \in Calls, HStep(c) PROVE Implements
    <2>1. ~Evict(c)
        BY NothingEvicted DEF NoEviction, Evict
    <2>2. CASE Hit(c) /\ UNCHANGED history
        BY <2>2, HitStep
    <2>3. CASE /\ Replace(c) /\ idle' = (idle \/ (~fresh[c] /\ runOf[Label] # None))
               /\ idled' = IF idle' = idle THEN idled ELSE idled + 1
               /\ UNCHANGED <<log, clashes, splits>>
        BY <2>3, ReplaceStep
    <2>4. CASE /\ Close(c) /\ splits' = IF live' = live THEN splits ELSE splits + 1
               /\ UNCHANGED <<log, idle, idled, clashes>>
        BY <2>4, CloseStep
    <2>5. CASE /\ Start(c) /\ idle' = FALSE
               /\ splits' = IF Grouped!Usable THEN splits + 1 ELSE splits
               /\ UNCHANGED <<log, idled, clashes>>
        BY <2>5, StartStep
    <2>6. CASE StartFails(c) /\ UNCHANGED history
        BY <2>6, StartFailsStep
    <2>7. CASE /\ Recorded(c) /\ log' = [log EXCEPT ![got[c]] = Append(@, c)]
               /\ UNCHANGED <<idle, idled, clashes, splits>>
        BY <2>7, RecordedStep
    <2>8. CASE /\ Unrecorded(c)
               /\ log' = IF losses' = losses THEN log ELSE [log EXCEPT ![got[c]] = Append(@, c)]
               /\ clashes' = IF fresh[c] /\ UNCHANGED <<faults, losses>> THEN clashes + 1 ELSE clashes
               /\ UNCHANGED <<idle, idled, splits>>
        BY <2>8, UnrecordedStep
    <2> QED BY <1>1, <2>1, <2>2, <2>3, <2>4, <2>5, <2>6, <2>7, <2>8 DEF HStep
<1>2. CASE (Tick \/ \E r \in Runs : ApiEnd(r)) /\ UNCHANGED history
    BY <1>2, OutsideStep DEF history
<1>3. CASE Restart /\ idle' = FALSE /\ UNCHANGED <<log, idled, clashes, splits>>
    BY <1>3, OutsideStep
<1>4. CASE UNCHANGED hvars
    <2>1. UNCHANGED <<live, log, runOf, idle, spent, got, reply>>
        BY <1>4 DEF hvars, vars, history, spent, Counter
    <2> QED BY <2>1 DEF Implements, Same
<1> QED BY <1>1, <1>2, <1>3, <1>4 DEF HNext

\* What holds in every state of HSpec.
LEMMA HInvariant == ASSUME OneLabel PROVE HSpec => [](IInv /\ Aged /\ RInv)
<1>1. HInit => IInv /\ Aged /\ RInv
    BY InitInv, InitAged, HInitInv DEF HInit
<1>2. IInv /\ Aged /\ RInv /\ [HNext]_hvars => (IInv /\ Aged /\ RInv)'
    BY StepInv, StepAged, StepR, HistoryIsSafe
<1> QED BY <1>1, <1>2, PTL DEF HSpec

\* The record path of the grouper, with its lock, its two attempts and what it swallows, does
\* to the runs of a label what GroupedRun says in one step per call (core.py:169-230).
THEOREM GroupedRunImplemented == ASSUME OneLabel PROVE HSpec => Grouped!RunsSpec(Calls)
<1>1. HInit => Grouped!RunsInit
    <2>1. ASSUME HInit PROVE Grouped!RunsInit
        <3>1. runOf[Label] = None
            BY <2>1 DEF HInit, Init, OneLabel
        <3>2. spent = [t \in Trouble |-> 0]
            BY <2>1 DEF HInit, Init, spent, Counter, Trouble
        <3> QED BY <2>1, <3>1, <3>2 DEF HInit, Init, Grouped!RunsInit
    <2> QED BY <2>1
<1>2. IInv /\ Aged /\ RInv /\ (IInv /\ Aged)' /\ [HNext]_hvars
          => [Grouped!RunsNext(Calls)]_<<Grouped!runs, spent>>
    BY StepImplements DEF Implements, Same, Grouped!runs
<1> QED BY <1>1, <1>2, HInvariant, PTL DEF HSpec, Grouped!RunsSpec

\* Whoever is told of a record has it in a run as GroupedRun says, whoever is told of an error
\* had one, with nothing stored by it or an answer lost, and `run_for` names the run of the label,
\* however many calls replace it at once.
THEOREM PromiseKept == ASSUME OneLabel PROVE HSpec => AsPromised
<1>1. IInv /\ Aged /\ RInv /\ (IInv /\ Aged)' /\ [HNext]_hvars
          => [\A c \in Calls :
                /\ reply[c] = "none" /\ reply'[c] = "recorded" => \E r \in Runs : Grouped!Stored(r, c)
                /\ reply[c] = "none" /\ reply'[c] = "failed" => Grouped!NotStored \/ Grouped!Lost(c)
                /\ got[c] = None /\ got'[c] # None =>
                      got'[c] = runOf'[Label] /\ (Grouped!RunFor \/ Grouped!Replacing)]_hvars
    BY StepImplements DEF Implements
<1> QED BY <1>1, HInvariant, PTL DEF HSpec, AsPromised
=============================================================================
