--------------------------- MODULE StdioWrapProofs --------------------------
(***************************************************************************)
(* The stdio wrapper for every set of requests, any ids, any limit of the  *)
(* table and any number of cancellations: where a request that was read is *)
(* at any time, and what stands behind a result the client is given.       *)
(***************************************************************************)
EXTENDS StdioWrap, SequenceTheorems, TLAPS

Occurs(s, x) == \E i \in 1..Len(s) : s[i] = x

\* No two requests of s have one id.
Apart(s) == \A i, j \in 1..Len(s) : id[s[i]] = id[s[j]] => i = j
-----------------------------------------------------------------------------
\* The inductive invariant

\* What the position of the client relay thread says of its variables.
ClientOK ==
    /\ client.pc = "read" => client.cur = None /\ client.todo = {} /\ client.next = "read"
    /\ client.pc = "post" => client.todo # {} /\ client.next \in {"insert", "write"}
    /\ client.pc = "insert" => client.todo = {} /\ client.next = "insert"
    /\ client.pc = "write" => client.todo = {} /\ client.next = "write"
    /\ client.pc = "ended" => client.cur = None /\ client.todo = {} /\ client.next = "ended"
    /\ client.next = "insert" => client.cur # None

\* What the positions of the other two say of theirs.
OthersOK ==
    /\ server.pc = "post" <=> server.match # None
    /\ server.pc = "post" \/ (server.pc = "deliver" /\ server.line \in Results)
          => server.req \in Requests
    /\ server.pc = "post" => id[server.match] = id[server.req]
    /\ main.pc \in {"join", "finish"} => main.todo = <<>>
    /\ main.pc # "join" => server.pc = "ended"

\* Two open requests have two ids, and neither has the id of the request to come.
IdsApart ==
    /\ Apart(table) /\ Apart(main.todo)
    /\ client.next = "insert" =>
        \A x \in Requests : Occurs(table, x) => id[x] # id[client.cur]

\* Where a request can be.
InRead(q)   == client.cur = q /\ client.next = "insert"
InTable(q)  == Occurs(table, q)
InClient(q) == q \in client.todo
InServer(q) == server.match = q
InMain(q)   == Occurs(main.todo, q)
IsPosted(q) == posted[q] # <<>>

One(b) == IF b THEN 1 ELSE 0

\* A request is in one of these places once it was read, and in none before.
InOnePlace(q) ==
    /\ One(InRead(q)) + One(InTable(q)) + One(InClient(q)) + One(InServer(q)) + One(InMain(q))
        + One(IsPosted(q)) = One(q \notin unsent)
    /\ Len(posted[q]) <= 1

WInv ==
    /\ TypeOK
    /\ ClientOK
    /\ OthersOK
    /\ IdsApart
    /\ \A q \in Requests : InOnePlace(q)

\* No other request has the id of q.
Unique(q) == \A p \in Requests \ {q} : id[p] # id[q]

\* What the client may be told of q rests on a post, or q was given up before.
Stands(q, line) == GivenUp(q) \/ Replied(q, strict /\ line = "result")

\* A reply comes to a request that was written, and the first of them once.
RepliesOnce ==
    /\ written \cap unsent = {}
    /\ client.cur # None => client.cur \notin written \cup unsent
    /\ server.req # None => server.req \in answered
    /\ \A q \in Requests : \A i \in 1..Len(posted[q]) :
        posted[q][i].reply # None =>
            posted[q][i].reply \in answered /\ id[posted[q][i].reply] = id[q]

\* What the server thread is about to say is recorded or was given up before.
Says(q) ==
    /\ server.req = q /\ server.pc = "post" => server.match = q
    /\ \A line \in Results :
        (server.req = q /\ server.pc = "deliver" /\ server.line = line) \/ <<q, line>> \in delivered
            => Stands(q, line)

RInv ==
    /\ RepliesOnce
    /\ \A q \in Requests : Unique(q) => Says(q)
-----------------------------------------------------------------------------
\* Sequences

\* A sequence without its k-th element.
LEMMA RemoveKeeps ==
  ASSUME NEW S, NEW s \in Seq(S), NEW k \in 1..Len(s)
  PROVE  /\ RemoveAt(s, k) \in Seq(S)
         /\ Len(RemoveAt(s, k)) = Len(s) - 1
         /\ \A i \in 1..(Len(s) - 1) : RemoveAt(s, k)[i] = IF i < k THEN s[i] ELSE s[i + 1]
<1> DEFINE a == SubSeq(s, 1, k - 1)
           b == SubSeq(s, k + 1, Len(s))
<1>1. k \in Nat /\ 1 <= k /\ k <= Len(s) /\ Len(s) \in Nat
  BY LenProperties
<1>2. /\ a \in Seq(S) /\ Len(a) = k - 1
      /\ \A i \in 1..(k - 1) : a[i] = s[i]
  <2>1. \A i \in 1..(k - 1) : s[i] \in S
    BY <1>1
  <2> QED
    BY <1>1, <2>1, SubSeqProperties
<1>3. /\ b \in Seq(S) /\ Len(b) = Len(s) - k
      /\ \A i \in 1..(Len(s) - k) : b[i] = s[k + i]
  <2>1. \A i \in (k + 1)..Len(s) : s[i] \in S
    BY <1>1
  <2>2. /\ SubSeq(s, k + 1, Len(s)) \in Seq(S)
        /\ Len(SubSeq(s, k + 1, Len(s))) =
              IF k + 1 <= Len(s) THEN Len(s) - (k + 1) + 1 ELSE 0
        /\ \A i \in 1..(Len(s) - (k + 1) + 1) :
              SubSeq(s, k + 1, Len(s))[i] = s[k + 1 + i - 1]
    BY ONLY <1>1, <2>1, s \in Seq(S), SubSeqProperties
  <2> QED
    BY <1>1, <2>2
<1> HIDE DEF a, b
<1>4. /\ a \o b \in Seq(S) /\ Len(a \o b) = Len(a) + Len(b)
      /\ \A i \in 1..(Len(a) + Len(b)) :
            (a \o b)[i] = IF i <= Len(a) THEN a[i] ELSE b[i - Len(a)]
  BY <1>2, <1>3, ConcatProperties
<1>5. RemoveAt(s, k) = a \o b
  BY DEF RemoveAt, a, b
<1>6. Len(a \o b) = Len(s) - 1
  BY <1>1, <1>2, <1>3, <1>4
<1>7. ASSUME NEW i \in 1..(Len(s) - 1)
      PROVE  (a \o b)[i] = IF i < k THEN s[i] ELSE s[i + 1]
  <2>1. (a \o b)[i] = IF i <= k - 1 THEN a[i] ELSE b[i - (k - 1)]
    BY <1>1, <1>2, <1>3, <1>4
  <2>2. CASE i < k
    BY <1>1, <1>2, <2>1, <2>2
  <2>3. CASE ~(i < k)
    <3>1. i - (k - 1) \in 1..(Len(s) - k) /\ k + (i - (k - 1)) = i + 1 /\ ~(i <= k - 1)
      BY <1>1, <2>3
    <3>2. b[i - (k - 1)] = s[k + (i - (k - 1))]
      BY <1>3, <3>1
    <3>3. b[i - (k - 1)] = s[i + 1]
      BY <3>1, <3>2, Zenon
    <3>4. (a \o b)[i] = b[i - (k - 1)]
      BY <2>1, <3>1, Zenon
    <3> QED
      BY <2>3, <3>3, <3>4, Zenon
  <2> QED
    BY <2>2, <2>3
<1> QED
  BY <1>4, <1>5, <1>6, <1>7

\* It holds the other requests, and their ids stay apart.
LEMMA RemoveFrom ==
  ASSUME NEW s \in Seq(Requests), Apart(s), NEW k \in 1..Len(s)
  PROVE  /\ Apart(RemoveAt(s, k))
         /\ \A x : Occurs(RemoveAt(s, k), x) <=> Occurs(s, x) /\ id[x] # id[s[k]]
<1>1. /\ Len(s) \in Nat /\ k \in Nat /\ 1 <= k /\ k <= Len(s)
      /\ Len(RemoveAt(s, k)) = Len(s) - 1
      /\ \A i \in 1..(Len(s) - 1) : RemoveAt(s, k)[i] = IF i < k THEN s[i] ELSE s[i + 1]
  BY RemoveKeeps, LenProperties
<1> DEFINE w == RemoveAt(s, k)
<1>2. /\ Len(w) = Len(s) - 1
      /\ \A i \in 1..(Len(s) - 1) : w[i] = IF i < k THEN s[i] ELSE s[i + 1]
  BY <1>1
<1> HIDE DEF w
<1>3. Apart(w)
  <2> SUFFICES ASSUME NEW i \in 1..Len(w), NEW j \in 1..Len(w), id[w[i]] = id[w[j]]
               PROVE  i = j
    BY DEF Apart
  <2>1. /\ i \in 1..Len(s) /\ i + 1 \in 1..Len(s) /\ j \in 1..Len(s) /\ j + 1 \in 1..Len(s)
    BY <1>1, <1>2
  <2>2. w[i] = (IF i < k THEN s[i] ELSE s[i + 1]) /\ w[j] = (IF j < k THEN s[j] ELSE s[j + 1])
    BY <1>2
  <2> QED
    BY <2>1, <2>2, <1>1 DEF Apart
<1>4. ASSUME NEW x, Occurs(w, x) PROVE Occurs(s, x) /\ id[x] # id[s[k]]
  <2>1. PICK i \in 1..Len(w) : w[i] = x
    BY <1>4 DEF Occurs
  <2>2. i \in 1..Len(s) /\ i + 1 \in 1..Len(s)
    BY <1>1, <1>2
  <2>3. CASE i < k
    BY <2>1, <2>2, <2>3, <1>1, <1>2 DEF Occurs, Apart
  <2>4. CASE ~(i < k)
    BY <2>1, <2>2, <2>4, <1>1, <1>2 DEF Occurs, Apart
  <2> QED
    BY <2>3, <2>4
<1>5. ASSUME NEW x, Occurs(s, x), id[x] # id[s[k]] PROVE Occurs(w, x)
  <2>1. PICK i \in 1..Len(s) : s[i] = x
    BY <1>5 DEF Occurs
  <2>2. i # k
    BY <2>1, <1>5
  <2>3. CASE i < k
    <3>1. i \in 1..(Len(s) - 1) /\ w[i] = x
      BY <2>1, <2>3, <1>1, <1>2
    <3> QED
      BY <3>1, <1>2 DEF Occurs
  <2>4. CASE i > k
    <3>1. i - 1 \in 1..(Len(s) - 1) /\ ~(i - 1 < k) /\ (i - 1) + 1 = i
      BY <2>1, <2>4, <1>1
    <3>2. w[i - 1] = x
      BY <3>1, <2>1, <1>2
    <3> QED
      BY <3>1, <3>2, <1>2 DEF Occurs
  <2> QED
    BY <2>1, <2>2, <2>3, <2>4, <1>1
<1> QED
  BY <1>3, <1>4, <1>5 DEF w

\* The rest of a sequence holds all but its head.
LEMMA TailOf ==
  ASSUME NEW s \in Seq(Requests), Apart(s), s # <<>>
  PROVE  /\ Head(s) \in Requests /\ Occurs(s, Head(s))
         /\ Tail(s) \in Seq(Requests) /\ Len(Tail(s)) = Len(s) - 1
         /\ Apart(Tail(s))
         /\ \A x : Occurs(Tail(s), x) <=> Occurs(s, x) /\ x # Head(s)
<1> DEFINE w == Tail(s)
<1>1. /\ Len(s) \in Nat \ {0} /\ Head(s) = s[1] /\ Head(s) \in Requests
      /\ w \in Seq(Requests) /\ Len(w) = Len(s) - 1
      /\ \A i \in 1..Len(w) : w[i] = s[i + 1]
  BY HeadTailProperties, EmptySeq
<1>2. Occurs(s, Head(s)) /\ 1 \in 1..Len(s)
  BY <1>1 DEF Occurs
<1> HIDE DEF w
<1>3. Apart(w)
  <2> SUFFICES ASSUME NEW i \in 1..Len(w), NEW j \in 1..Len(w), id[w[i]] = id[w[j]]
               PROVE  i = j
    BY DEF Apart
  <2>1. i + 1 \in 1..Len(s) /\ j + 1 \in 1..Len(s) /\ w[i] = s[i + 1] /\ w[j] = s[j + 1]
    BY <1>1
  <2> QED
    BY <2>1 DEF Apart
<1>4. ASSUME NEW x, Occurs(w, x) PROVE Occurs(s, x) /\ x # Head(s)
  <2>1. PICK i \in 1..Len(w) : w[i] = x
    BY <1>4 DEF Occurs
  <2>2. i + 1 \in 1..Len(s) /\ i + 1 # 1 /\ s[i + 1] = x
    BY <2>1, <1>1
  <2> QED
    BY <2>2, <1>1, <1>2 DEF Occurs, Apart
<1>5. ASSUME NEW x, Occurs(s, x), x # Head(s) PROVE Occurs(w, x)
  <2>1. PICK i \in 1..Len(s) : s[i] = x
    BY <1>5 DEF Occurs
  <2>2. i - 1 \in 1..Len(w) /\ (i - 1) + 1 = i
    BY <2>1, <1>1, <1>5
  <2> QED
    BY <2>1, <2>2, <1>1 DEF Occurs
<1> QED
  BY <1>1, <1>2, <1>3, <1>4, <1>5 DEF w

\* A request of a new id at the end.
LEMMA AppendTo ==
  ASSUME NEW s \in Seq(Requests), Apart(s), NEW q \in Requests,
         \A x \in Requests : Occurs(s, x) => id[x] # id[q]
  PROVE  /\ Append(s, q) \in Seq(Requests) /\ Len(Append(s, q)) = Len(s) + 1
         /\ Append(s, q) # <<>>
         /\ Apart(Append(s, q))
         /\ \A x : Occurs(Append(s, q), x) <=> Occurs(s, x) \/ x = q
<1> DEFINE w == Append(s, q)
<1>1. /\ Len(s) \in Nat /\ w \in Seq(Requests) /\ Len(w) = Len(s) + 1
      /\ \A i \in 1..Len(s) : w[i] = s[i]
      /\ w[Len(s) + 1] = q
  BY AppendProperties, LenProperties
<1>0. \A i \in 1..Len(s) : id[s[i]] # id[q]
  BY ElementOfSeq DEF Occurs
<1> HIDE DEF w
<1>2. w # <<>>
  <2>1. Len(w) # 0
    BY <1>1
  <2>2. ASSUME w = <<>> PROVE Len(w) = 0
    BY <2>2, EmptySeq, Zenon
  <2> QED
    BY <2>1, <2>2
<1>3. Apart(w)
  <2> SUFFICES ASSUME NEW i \in 1..Len(w), NEW j \in 1..Len(w), id[w[i]] = id[w[j]]
               PROVE  i = j
    BY DEF Apart
  <2>1. (i \in 1..Len(s) \/ i = Len(s) + 1) /\ (j \in 1..Len(s) \/ j = Len(s) + 1)
    BY <1>1
  <2> QED
    BY <2>1, <1>0, <1>1 DEF Apart
<1>4. ASSUME NEW x PROVE Occurs(w, x) <=> Occurs(s, x) \/ x = q
  <2>1. ASSUME Occurs(w, x) PROVE Occurs(s, x) \/ x = q
    <3>1. PICK i \in 1..Len(w) : w[i] = x
      BY <2>1 DEF Occurs
    <3>2. i \in 1..Len(s) \/ i = Len(s) + 1
      BY <1>1
    <3> QED
      BY <3>1, <3>2, <1>1 DEF Occurs
  <2>2. ASSUME Occurs(s, x) PROVE Occurs(w, x)
    <3>1. PICK i \in 1..Len(s) : s[i] = x
      BY <2>2 DEF Occurs
    <3>2. i \in 1..Len(w)
      BY <1>1
    <3> QED
      BY <3>1, <3>2, <1>1 DEF Occurs
  <2>3. Occurs(w, q)
    <3>1. Len(s) + 1 \in 1..Len(w)
      BY <1>1
    <3> QED
      BY <3>1, <1>1 DEF Occurs
  <2> QED
    BY <2>1, <2>2, <2>3
<1> QED
  BY <1>1, <1>2, <1>3, <1>4 DEF w

\* `_pending.pop(id)`: the request under the id of q goes, the others stay.
LEMMA TakeFacts ==
  ASSUME TypeOK, Apart(table), NEW q \in Requests, Take(q)
  PROVE  /\ table' \in Seq(Requests) /\ Len(table') <= MaxPending /\ Apart(table')
         /\ \A x \in Requests : Occurs(table', x) <=> Occurs(table, x) /\ id[x] # id[q]
         /\ \A x : x \in Under(q) <=> Occurs(table, x) /\ id[x] = id[q]
         /\ Under(q) \subseteq Requests
         /\ \A x, y \in Under(q) : x = y
<1>1. table \in Seq(Requests) /\ Len(table) \in Nat /\ Len(table) <= MaxPending
      /\ MaxPending \in Nat
  BY WrapAssumption, LenProperties DEF TypeOK
<1>2. \A x : x \in Under(q) <=> Occurs(table, x) /\ id[x] = id[q]
  BY DEF Under, At, Occurs
<1>3. Under(q) \subseteq Requests
  BY <1>1, ElementOfSeq DEF Under, At
<1>4. \A x, y \in Under(q) : x = y
  BY DEF Under, At, Apart
<1>5. CASE At(q) = {}
  <2>1. table' = table
    BY <1>5 DEF Take
  <2>2. \A x : Occurs(table, x) => id[x] # id[q]
    BY <1>5 DEF At, Occurs
  <2> QED
    BY <2>1, <2>2, <1>1, <1>2, <1>3, <1>4
<1>6. CASE At(q) # {}
  <2>1. PICK k \in 1..Len(table) : table' = RemoveAt(table, k) /\ id[table[k]] = id[q]
    <3> DEFINE k == CHOOSE i \in At(q) : TRUE
    <3>1. k \in At(q)
      BY <1>6
    <3>2. table' = RemoveAt(table, k)
      BY <1>6 DEF Take
    <3> HIDE DEF k
    <3> QED
      BY <3>1, <3>2 DEF At
  <2>2. /\ table' \in Seq(Requests)
        /\ Len(table') = Len(table) - 1
        /\ Apart(table')
        /\ \A x : Occurs(table', x) <=> Occurs(table, x) /\ id[x] # id[q]
    BY <2>1, <1>1, RemoveKeeps, RemoveFrom
  <2> QED
    BY <2>2, <1>1, <1>2, <1>3, <1>4
<1> QED
  BY <1>5, <1>6
-----------------------------------------------------------------------------
\* The client relay thread

\* A post is appended to those made for its request.
LEMMA PostFacts ==
  ASSUME TypeOK, NEW q \in Requests, NEW reply \in Requests \cup {None},
         NEW accepted \in BOOLEAN, Post(q, reply, accepted)
  PROVE  /\ posted' \in [Requests -> Seq(PostOf)]
         /\ \A x \in Requests : x # q => posted'[x] = posted[x]
         /\ posted'[q] # <<>>
         /\ Len(posted'[q]) = Len(posted[q]) + 1
         /\ \A i \in 1..Len(posted[q]) : posted'[q][i] = posted[q][i]
         /\ posted'[q][Len(posted[q]) + 1].reply = reply
         /\ posted'[q][Len(posted[q]) + 1].accepted = accepted
<1> DEFINE x == [reply |-> reply, accepted |-> accepted]
<1>1. x \in PostOf /\ x.reply = reply /\ x.accepted = accepted
  BY DEF PostOf
<1>2. posted' = [posted EXCEPT ![q] = Append(@, x)]
  BY DEF Post
<1> HIDE DEF x
<1>3. posted[q] \in Seq(PostOf) /\ posted'[q] = Append(posted[q], x)
  BY <1>2 DEF TypeOK
<1>4. /\ Append(posted[q], x) \in Seq(PostOf)
      /\ Len(Append(posted[q], x)) = Len(posted[q]) + 1
      /\ \A i \in 1..Len(posted[q]) : Append(posted[q], x)[i] = posted[q][i]
      /\ Append(posted[q], x)[Len(posted[q]) + 1] = x
  BY <1>1, <1>3, AppendProperties
<1>5. Append(posted[q], x) # <<>>
  <2>1. Len(Append(posted[q], x)) # 0
    BY <1>3, <1>4, LenProperties
  <2>2. ASSUME Append(posted[q], x) = <<>> PROVE Len(Append(posted[q], x)) = 0
    BY <2>2, EmptySeq, Zenon
  <2> QED
    BY <2>1, <2>2
<1>6. posted' \in [Requests -> Seq(PostOf)] /\ \A y \in Requests : y # q => posted'[y] = posted[y]
  BY <1>2, <1>3, <1>4 DEF TypeOK
<1> QED
  BY <1>1, <1>3, <1>4, <1>5, <1>6

LEMMA ReadRequestKeeps ==
  ASSUME WInv, NEW r \in Requests, ReadRequest(r)
  PROVE  WInv'
<1>1. TypeOK /\ ClientOK /\ OthersOK /\ IdsApart /\ \A q \in Requests : InOnePlace(q)
  BY DEF WInv
<1>2. /\ client.pc = "read" /\ r \in unsent /\ unsent' = unsent \ {r}
      /\ Take(r)
      /\ UNCHANGED <<strict, cancelled, server, main, written, answered, alive, rung, posted, delivered>>
  BY DEF ReadRequest, child
<1>3. /\ client' \in [pc : {"post", "insert"}, cur : {r}, todo : {Under(r)}, next : {"insert"}]
      /\ client'.pc = "post" <=> Under(r) # {}
  BY DEF ReadRequest, ClientGoes
<1>4. /\ table' \in Seq(Requests) /\ Len(table') <= MaxPending /\ Apart(table')
      /\ \A x \in Requests : Occurs(table', x) <=> Occurs(table, x) /\ id[x] # id[r]
      /\ \A x : x \in Under(r) <=> Occurs(table, x) /\ id[x] = id[r]
      /\ Under(r) \subseteq Requests
  BY <1>1, <1>2, TakeFacts DEF IdsApart
<1>5. r # None
  BY WrapAssumption
<1>6. TypeOK'
  BY <1>1, <1>2, <1>3, <1>4 DEF TypeOK
<1>7. ClientOK' /\ OthersOK'
  BY <1>1, <1>2, <1>3, <1>5 DEF ClientOK, OthersOK
<1>8. IdsApart'
  BY <1>1, <1>2, <1>3, <1>4 DEF IdsApart
<1>9. ASSUME NEW q \in Requests PROVE InOnePlace(q)'
  <2>1. /\ InRead(q)' <=> q = r
        /\ ~InRead(q) /\ ~InClient(q)
        /\ InTable(q)' <=> InTable(q) /\ id[q] # id[r]
        /\ InClient(q)' <=> InTable(q) /\ id[q] = id[r]
        /\ InServer(q)' <=> InServer(q)
        /\ InMain(q)' <=> InMain(q)
        /\ IsPosted(q)' <=> IsPosted(q)
    BY <1>1, <1>2, <1>3, <1>4 DEF ClientOK, InRead, InTable, InClient, InServer, InMain, IsPosted
  <2>2. InOnePlace(q) /\ InOnePlace(r)
    BY <1>1
  <2> QED
    BY <2>1, <2>2, <1>2 DEF InOnePlace, One
<1> QED
  BY <1>6, <1>7, <1>8, <1>9 DEF WInv

LEMMA ReadCancelKeeps ==
  ASSUME WInv, NEW r \in Requests, ReadCancel(r)
  PROVE  WInv'
<1>1. TypeOK /\ ClientOK /\ OthersOK /\ IdsApart /\ \A q \in Requests : InOnePlace(q)
  BY DEF WInv
<1>2. /\ client.pc = "read" /\ cancelled' = cancelled \cup {r}
      /\ Take(r)
      /\ UNCHANGED <<strict, unsent, server, main, written, answered, alive, rung, posted, delivered>>
  BY DEF ReadCancel, child
<1>3. /\ client' \in [pc : {"post", "write"}, cur : {None}, todo : {Under(r)}, next : {"write"}]
      /\ client'.pc = "post" <=> Under(r) # {}
  BY DEF ReadCancel, ClientGoes
<1>4. /\ table' \in Seq(Requests) /\ Len(table') <= MaxPending /\ Apart(table')
      /\ \A x \in Requests : Occurs(table', x) <=> Occurs(table, x) /\ id[x] # id[r]
      /\ \A x : x \in Under(r) <=> Occurs(table, x) /\ id[x] = id[r]
      /\ Under(r) \subseteq Requests
  BY <1>1, <1>2, TakeFacts DEF IdsApart
<1>5. TypeOK'
  BY <1>1, <1>2, <1>3, <1>4 DEF TypeOK
<1>6. ClientOK' /\ OthersOK'
  BY <1>1, <1>2, <1>3 DEF ClientOK, OthersOK
<1>7. IdsApart'
  BY <1>1, <1>2, <1>3, <1>4 DEF IdsApart
<1>8. ASSUME NEW q \in Requests PROVE InOnePlace(q)'
  <2>1. /\ ~InRead(q)' /\ ~InRead(q) /\ ~InClient(q)
        /\ InTable(q)' <=> InTable(q) /\ id[q] # id[r]
        /\ InClient(q)' <=> InTable(q) /\ id[q] = id[r]
        /\ InServer(q)' <=> InServer(q)
        /\ InMain(q)' <=> InMain(q)
        /\ IsPosted(q)' <=> IsPosted(q)
    BY <1>1, <1>2, <1>3, <1>4 DEF ClientOK, InRead, InTable, InClient, InServer, InMain, IsPosted
  <2>2. InOnePlace(q)
    BY <1>1
  <2> QED
    BY <2>1, <2>2, <1>2 DEF InOnePlace, One
<1> QED
  BY <1>5, <1>6, <1>7, <1>8 DEF WInv

LEMMA PostTruncatedKeeps ==
  ASSUME WInv, NEW r \in Requests, NEW accepted \in BOOLEAN, PostTruncated(r, accepted)
  PROVE  WInv'
<1>1. TypeOK /\ ClientOK /\ OthersOK /\ IdsApart /\ \A q \in Requests : InOnePlace(q)
  BY DEF WInv
<1>2. /\ client.pc = "post" /\ r \in client.todo /\ Post(r, None, accepted)
      /\ UNCHANGED <<strict, unsent, cancelled, table, server, main,
                     written, answered, alive, rung, delivered>>
  BY DEF PostTruncated, child
<1>3. client \in [pc : {"read", "post", "insert", "write", "ended"},
                 cur : Requests \cup {None}, todo : SUBSET Requests,
                 next : {"read", "insert", "write", "ended"}]
  BY <1>1 DEF TypeOK
<1>4. client.next \in {"insert", "write"}
  BY <1>1, <1>2 DEF ClientOK
<1>5. /\ client' \in [pc : {"post", "insert", "write"}, cur : {client.cur},
                     todo : {client.todo \ {r}}, next : {client.next}]
      /\ client'.pc = IF client.todo \ {r} = {} THEN client.next ELSE "post"
  BY <1>3, <1>4 DEF PostTruncated, ClientGoes
<1>6. /\ posted' \in [Requests -> Seq(PostOf)]
      /\ \A x \in Requests : x # r => posted'[x] = posted[x]
      /\ posted'[r] # <<>> /\ Len(posted'[r]) = Len(posted[r]) + 1
  BY <1>1, <1>2, PostFacts
<1>7. TypeOK'
  BY <1>1, <1>2, <1>3, <1>5, <1>6 DEF TypeOK
<1>8. ClientOK' /\ OthersOK' /\ IdsApart'
  BY <1>1, <1>2, <1>4, <1>5 DEF ClientOK, OthersOK, IdsApart
<1>9. ASSUME NEW q \in Requests PROVE InOnePlace(q)'
  <2>1. /\ InRead(q)' <=> InRead(q)
        /\ InTable(q)' <=> InTable(q)
        /\ InClient(q)' <=> InClient(q) /\ q # r
        /\ InServer(q)' <=> InServer(q)
        /\ InMain(q)' <=> InMain(q)
        /\ IsPosted(q)' <=> IsPosted(q) \/ q = r
        /\ InClient(r)
    BY <1>2, <1>5, <1>6 DEF InRead, InTable, InClient, InServer, InMain, IsPosted
  <2>2. InOnePlace(q)
    BY <1>1
  <2>3. q = r => Len(posted[q]) = 0
    <3>1. InOnePlace(r)
      BY <1>1
    <3>2. ~IsPosted(r)
      BY <2>1, <3>1 DEF InOnePlace, One
    <3>3. Len(posted[r]) = 0
      BY <3>2, EmptySeq DEF IsPosted
    <3> QED
      BY <3>3
  <2> QED
    BY <2>1, <2>2, <2>3, <1>2, <1>6 DEF InOnePlace, One
<1> QED
  BY <1>7, <1>8, <1>9 DEF WInv

LEMMA InsertKeeps ==
  ASSUME WInv, Insert
  PROVE  WInv'
<1>1. TypeOK /\ ClientOK /\ OthersOK /\ IdsApart /\ \A q \in Requests : InOnePlace(q)
  BY DEF WInv
<1>2. PICK r \in Requests : r = client.cur
  BY <1>1 DEF Insert, ClientOK, TypeOK
<1> DEFINE open == Append(table, r)
<1>3. /\ client.pc = "insert" /\ client.next = "insert" /\ client.todo = {}
      /\ UNCHANGED <<strict, unsent, cancelled, server, main,
                     written, answered, alive, rung, posted, delivered>>
  BY <1>1 DEF Insert, ClientOK, child
<1>4. PICK over \in {{}, {Head(open)}} :
        /\ over = {} <=> Len(open) <= MaxPending
        /\ table' = IF over = {} THEN open ELSE Tail(open)
        /\ ClientGoes(r, over, "write")
  <2>1. Len(open) \in Nat /\ MaxPending \in Nat
    BY <1>1, AppendProperties, LenProperties, WrapAssumption DEF TypeOK
  <2> HIDE DEF open
  <2>2. /\ table' = IF (IF Len(open) > MaxPending THEN {Head(open)} ELSE {}) = {}
                   THEN open ELSE Tail(open)
        /\ ClientGoes(r, IF Len(open) > MaxPending THEN {Head(open)} ELSE {}, "write")
    BY <1>2 DEF Insert, open
  <2>3. CASE Len(open) <= MaxPending
    <3>1. ~(Len(open) > MaxPending)
      BY <2>1, <2>3
    <3> QED
      BY <2>2, <2>3, <3>1
  <2>4. CASE ~(Len(open) <= MaxPending)
    <3>1. Len(open) > MaxPending
      BY <2>1, <2>4
    <3>2. table' = Tail(open) /\ ClientGoes(r, {Head(open)}, "write") /\ {Head(open)} # {}
      BY <2>2, <3>1
    <3> QED
      BY <2>4, <3>2
  <2> QED
    BY <2>3, <2>4
<1>5. /\ open \in Seq(Requests) /\ Len(open) = Len(table) + 1 /\ open # <<>> /\ Apart(open)
      /\ \A x : Occurs(open, x) <=> Occurs(table, x) \/ x = r
  <2>1. \A x \in Requests : Occurs(table, x) => id[x] # id[r]
    BY <1>1, <1>2, <1>3 DEF IdsApart
  <2> QED
    BY <2>1, <1>1, AppendTo DEF TypeOK, IdsApart
<1> HIDE DEF open
<1>6. /\ Head(open) \in Requests /\ Occurs(open, Head(open))
      /\ Tail(open) \in Seq(Requests) /\ Len(Tail(open)) = Len(open) - 1
      /\ Apart(Tail(open))
      /\ \A x : Occurs(Tail(open), x) <=> Occurs(open, x) /\ x # Head(open)
  BY <1>5, TailOf
<1>7. /\ client' \in [pc : {"post", "write"}, cur : {r}, todo : {over}, next : {"write"}]
      /\ client'.pc = "post" <=> over # {}
  BY <1>4 DEF ClientGoes
<1>8. /\ table' \in Seq(Requests) /\ Len(table') <= MaxPending /\ Apart(table')
      /\ \A x : Occurs(table', x) <=> Occurs(open, x) /\ x \notin over
      /\ \A x \in over : Occurs(open, x) /\ x \in Requests
  <2>1. Len(table) \in Nat /\ Len(table) <= MaxPending /\ MaxPending \in Nat
    BY <1>1, LenProperties, WrapAssumption DEF TypeOK
  <2>2. CASE over = {}
    BY <2>2, <1>4, <1>5
  <2>3. CASE over # {}
    BY <2>1, <2>3, <1>4, <1>5, <1>6
  <2> QED
    BY <2>2, <2>3
<1>9. TypeOK'
  BY <1>1, <1>3, <1>7, <1>8 DEF TypeOK
<1>10. ClientOK' /\ OthersOK' /\ IdsApart'
  BY <1>1, <1>3, <1>7, <1>8 DEF ClientOK, OthersOK, IdsApart
<1>11. ASSUME NEW q \in Requests PROVE InOnePlace(q)'
  <2>1. /\ InRead(q) <=> q = r
        /\ ~InRead(q)' /\ ~InClient(q)
        /\ InTable(q)' <=> (InTable(q) \/ q = r) /\ q \notin over
        /\ InClient(q)' <=> q \in over
        /\ q \in over => InTable(q) \/ q = r
        /\ InServer(q)' <=> InServer(q)
        /\ InMain(q)' <=> InMain(q)
        /\ IsPosted(q)' <=> IsPosted(q)
    BY <1>2, <1>3, <1>5, <1>7, <1>8 DEF InRead, InTable, InClient, InServer, InMain, IsPosted
  <2>2. InOnePlace(q)
    BY <1>1
  <2> QED
    BY <2>1, <2>2, <1>3 DEF InOnePlace, One
<1> QED
  BY <1>9, <1>10, <1>11 DEF WInv

\* A step that moves no request: its place stays, whatever the thread does.
LEMMA StillKeeps ==
  ASSUME WInv, TypeOK', ClientOK', OthersOK', UNCHANGED <<table, unsent, posted>>,
         client'.todo = client.todo, server'.match = server.match, main'.todo = main.todo,
         client'.next = "insert" <=> client.next = "insert",
         client.next = "insert" => client'.cur = client.cur
  PROVE  WInv'
<1>1. IdsApart /\ \A q \in Requests : InOnePlace(q)
  BY DEF WInv
<1>2. IdsApart'
  BY <1>1 DEF IdsApart
<1>3. ASSUME NEW q \in Requests PROVE InOnePlace(q)'
  <2>1. /\ InRead(q)' <=> InRead(q)
        /\ InTable(q)' <=> InTable(q)
        /\ InClient(q)' <=> InClient(q)
        /\ InServer(q)' <=> InServer(q)
        /\ InMain(q)' <=> InMain(q)
        /\ IsPosted(q)' <=> IsPosted(q)
    BY DEF InRead, InTable, InClient, InServer, InMain, IsPosted
  <2>2. InOnePlace(q)
    BY <1>1
  <2> QED
    BY <2>1, <2>2 DEF InOnePlace, One
<1> QED
  BY <1>2, <1>3 DEF WInv

LEMMA WriteKeeps ==
  ASSUME WInv, Write \/ ClientEof
  PROVE  WInv'
<1>1. TypeOK /\ ClientOK /\ OthersOK
  BY DEF WInv
<1>2. /\ client.pc \in {"write", "read"} /\ client.todo = {} /\ client.next # "insert"
      /\ UNCHANGED <<strict, unsent, cancelled, table, server, main, alive, rung, posted, delivered>>
  BY <1>1 DEF Write, ClientEof, ClientOK, child
<1>3. PICK to \in {"read", "ended"} : client' = [pc |-> to, cur |-> None, todo |-> {}, next |-> to]
  BY DEF Write, ClientEof, ClientGoes
<1>4. answered' \subseteq written' /\ written' \subseteq Requests
  BY <1>1 DEF Write, ClientEof, TypeOK, child
<1>5. TypeOK'
  BY <1>1, <1>2, <1>3, <1>4 DEF TypeOK
<1>6. ClientOK' /\ OthersOK'
  BY <1>1, <1>2, <1>3 DEF ClientOK, OthersOK
<1> QED
  BY <1>2, <1>3, <1>5, <1>6, StillKeeps
-----------------------------------------------------------------------------
\* The server relay thread and the main thread

LEMMA ReadReplyKeeps ==
  ASSUME WInv, NEW r \in Requests, ReadReply(r)
  PROVE  WInv'
<1>1. TypeOK /\ ClientOK /\ OthersOK /\ IdsApart /\ \A q \in Requests : InOnePlace(q)
  BY DEF WInv
<1>2. /\ server.pc = "read" /\ r \in written /\ answered' = answered \cup {r} /\ Take(r)
      /\ UNCHANGED <<strict, unsent, cancelled, client, main, written, alive, rung, posted, delivered>>
  BY DEF ReadReply
<1>3. /\ table' \in Seq(Requests) /\ Len(table') <= MaxPending /\ Apart(table')
      /\ \A x \in Requests : Occurs(table', x) <=> Occurs(table, x) /\ id[x] # id[r]
      /\ \A x : x \in Under(r) <=> Occurs(table, x) /\ id[x] = id[r]
      /\ Under(r) \subseteq Requests
      /\ \A x, y \in Under(r) : x = y
  BY <1>1, <1>2, TakeFacts DEF IdsApart
<1>4. r # None /\ None \notin Under(r)
  BY <1>3, WrapAssumption
<1>5. PICK m \in Under(r) \cup {None} :
        /\ m = None <=> Under(r) = {}
        /\ server' \in [pc : {"post", "deliver"}, req : {r}, match : {m}, line : Results]
        /\ server'.pc = "post" <=> m # None
  <2> DEFINE line == IF r \in answered THEN "again" ELSE "result"
  <2>1. CASE Under(r) = {} /\ server' = [pc |-> "deliver", req |-> r, match |-> None, line |-> line]
    BY <2>1 DEF Results
  <2>2. CASE \E p \in Under(r) :
               server' = [pc |-> "post", req |-> r, match |-> p, line |-> line]
    BY <2>2, <1>4 DEF Results
  <2> QED
    BY <2>1, <2>2 DEF ReadReply
<1>6. TypeOK'
  <2>1. answered' \subseteq written'
    BY <1>1, <1>2 DEF TypeOK
  <2>2. server' \in [pc : {"read", "post", "deliver", "ended"},
                   req : Requests \cup {None}, match : Requests \cup {None},
                   line : {None, "result", "again", "refusal", "unmatchable"}]
    BY <1>3, <1>5 DEF Results
  <2> QED
    BY <2>1, <2>2, <1>1, <1>2, <1>3 DEF TypeOK
<1>7. ClientOK' /\ OthersOK' /\ IdsApart'
  BY <1>1, <1>2, <1>3, <1>4, <1>5 DEF ClientOK, OthersOK, IdsApart
<1>8. ASSUME NEW q \in Requests PROVE InOnePlace(q)'
  <2>1. /\ InRead(q)' <=> InRead(q)
        /\ InTable(q)' <=> InTable(q) /\ id[q] # id[r]
        /\ InClient(q)' <=> InClient(q)
        /\ InMain(q)' <=> InMain(q)
        /\ IsPosted(q)' <=> IsPosted(q)
    BY <1>2, <1>3 DEF InRead, InTable, InClient, InMain, IsPosted
  <2>2. ~InServer(q)
    BY <1>1, <1>2, WrapAssumption DEF OthersOK, InServer
  <2>3. InServer(q)' <=> InTable(q) /\ id[q] = id[r]
    <3>1. q \in Under(r) <=> InTable(q) /\ id[q] = id[r]
      BY <1>3 DEF InTable
    <3>2. q \in Under(r) <=> m = q
      BY <1>3, <1>4, <1>5, WrapAssumption
    <3> QED
      BY <3>1, <3>2, <1>5 DEF InServer
  <2>4. InOnePlace(q)
    BY <1>1
  <2> QED
    BY <2>1, <2>2, <2>3, <2>4, <1>2 DEF InOnePlace, One
<1> QED
  BY <1>6, <1>7, <1>8 DEF WInv

LEMMA PostReplyKeeps ==
  ASSUME WInv, NEW accepted \in BOOLEAN, PostReply(accepted)
  PROVE  WInv'
<1>1. TypeOK /\ ClientOK /\ OthersOK /\ IdsApart /\ \A q \in Requests : InOnePlace(q)
  BY DEF WInv
<1>2. PICK r \in Requests, reply \in Requests : r = server.match /\ reply = server.req
  BY <1>1 DEF PostReply, OthersOK, TypeOK
<1>3. /\ server.pc = "post" /\ Post(r, reply, accepted)
      /\ server' \in [pc : {"deliver"}, req : {reply}, match : {None},
                      line : {"refusal", server.line}]
      /\ UNCHANGED <<strict, unsent, cancelled, table, client, main,
                     written, answered, alive, rung, delivered>>
  BY <1>2 DEF PostReply, child
<1>4. /\ posted' \in [Requests -> Seq(PostOf)]
      /\ \A x \in Requests : x # r => posted'[x] = posted[x]
      /\ posted'[r] # <<>> /\ Len(posted'[r]) = Len(posted[r]) + 1
  BY <1>1, <1>3, PostFacts
<1>5. TypeOK'
  BY <1>1, <1>3, <1>4 DEF TypeOK
<1>6. ClientOK' /\ OthersOK' /\ IdsApart'
  BY <1>1, <1>3, WrapAssumption DEF ClientOK, OthersOK, IdsApart
<1>7. ASSUME NEW q \in Requests PROVE InOnePlace(q)'
  <2>1. /\ InRead(q)' <=> InRead(q)
        /\ InTable(q)' <=> InTable(q)
        /\ InClient(q)' <=> InClient(q)
        /\ InServer(q) <=> q = r
        /\ ~InServer(q)' /\ InServer(r)
        /\ InMain(q)' <=> InMain(q)
        /\ IsPosted(q)' <=> IsPosted(q) \/ q = r
    BY <1>2, <1>3, <1>4, WrapAssumption DEF InRead, InTable, InClient, InServer, InMain, IsPosted
  <2>2. InOnePlace(q)
    BY <1>1
  <2>3. q = r => Len(posted[q]) = 0
    <3>1. InOnePlace(r)
      BY <1>1
    <3>2. ~IsPosted(r)
      BY <2>1, <3>1 DEF InOnePlace, One
    <3> QED
      BY <3>2, EmptySeq DEF IsPosted
  <2> QED
    BY <2>1, <2>2, <2>3, <1>3, <1>4 DEF InOnePlace, One
<1> QED
  BY <1>5, <1>6, <1>7 DEF WInv

LEMMA ServerKeeps ==
  ASSUME WInv, Deliver \/ ServerEof \/ ReadUnmatchable
  PROVE  WInv'
<1>1. TypeOK /\ ClientOK /\ OthersOK
  BY DEF WInv
<1>2. /\ server.pc \in {"read", "deliver"} /\ server.match = None
      /\ UNCHANGED <<strict, unsent, cancelled, table, client, main, written, alive, rung, posted>>
      /\ answered' = answered
  BY <1>1 DEF Deliver, ServerEof, ReadUnmatchable, OthersOK, child
<1>3. delivered' \subseteq Requests \X Results
  <2>1. server.pc = "deliver" =>
          {server.req} \X ({server.line} \cap Results) \subseteq Requests \X Results
    BY <1>1 DEF OthersOK
  <2> QED
    BY <1>1, <2>1 DEF Deliver, ServerEof, ReadUnmatchable, TypeOK
<1>4. main.pc = "join"
  BY <1>1, <1>2 DEF OthersOK
<1>5. /\ server' \in [pc : {"read", "deliver", "ended"}, req : Requests \cup {None}, match : {None},
                      line : {None, "refusal", "unmatchable"}]
      /\ server'.pc = "deliver" => server'.line \notin Results
  BY DEF Deliver, ServerEof, ReadUnmatchable, Listening, Deaf, Results
<1>6. TypeOK'
  <2>1. server' \in [pc : {"read", "post", "deliver", "ended"},
                    req : Requests \cup {None}, match : Requests \cup {None},
                    line : {None, "result", "again", "refusal", "unmatchable"}]
    BY <1>5
  <2> QED
    BY <1>1, <1>2, <1>3, <2>1 DEF TypeOK
<1>7. ClientOK' /\ OthersOK'
  BY <1>1, <1>2, <1>4, <1>5 DEF ClientOK, OthersOK
<1> QED
  BY <1>2, <1>5, <1>6, <1>7, StillKeeps

LEMMA CloseKeeps ==
  ASSUME WInv, Close
  PROVE  WInv'
<1>1. TypeOK /\ ClientOK /\ OthersOK /\ IdsApart /\ \A q \in Requests : InOnePlace(q)
  BY DEF WInv
<1>2. /\ main.pc = "finish" /\ main.todo = <<>> /\ server.pc = "ended"
      /\ main' = [pc |-> "close", todo |-> table] /\ table' = <<>>
      /\ UNCHANGED <<strict, unsent, cancelled, client, server,
                     written, answered, alive, rung, posted, delivered>>
  BY <1>1 DEF Close, OthersOK, child
<1>3. <<>> \in Seq(Requests) /\ Len(<<>>) = 0 /\ \A x : ~Occurs(<<>>, x)
  <2>1. <<>> \in Seq(Requests) /\ Len(<<>>) = 0
    BY EmptySeq
  <2> QED
    BY <2>1 DEF Occurs
<1>4. TypeOK'
  BY <1>1, <1>2, <1>3, WrapAssumption DEF TypeOK
<1>5. ClientOK' /\ OthersOK'
  BY <1>1, <1>2 DEF ClientOK, OthersOK
<1>6. IdsApart'
  BY <1>1, <1>2, <1>3 DEF IdsApart, Apart
<1>7. ASSUME NEW q \in Requests PROVE InOnePlace(q)'
  <2>1. /\ InRead(q)' <=> InRead(q)
        /\ InClient(q)' <=> InClient(q)
        /\ InServer(q)' <=> InServer(q)
        /\ ~InTable(q)' /\ ~InMain(q)
        /\ InMain(q)' <=> InTable(q)
        /\ IsPosted(q)' <=> IsPosted(q)
    BY <1>2, <1>3 DEF InRead, InTable, InClient, InServer, InMain, IsPosted
  <2>2. InOnePlace(q)
    BY <1>1
  <2> QED
    BY <2>1, <2>2, <1>2 DEF InOnePlace, One
<1> QED
  BY <1>4, <1>5, <1>6, <1>7 DEF WInv

LEMMA PostOpenKeeps ==
  ASSUME WInv, NEW accepted \in BOOLEAN, PostOpen(accepted)
  PROVE  WInv'
<1>1. TypeOK /\ ClientOK /\ OthersOK /\ IdsApart /\ \A q \in Requests : InOnePlace(q)
  BY DEF WInv
<1>2. main.todo \in Seq(Requests) /\ main.todo # <<>> /\ Apart(main.todo)
  BY <1>1 DEF PostOpen, TypeOK, IdsApart
<1>3. /\ Occurs(main.todo, Head(main.todo)) /\ Head(main.todo) \in Requests
      /\ Tail(main.todo) \in Seq(Requests) /\ Apart(Tail(main.todo))
      /\ \A x : Occurs(Tail(main.todo), x) <=> Occurs(main.todo, x) /\ x # Head(main.todo)
  BY <1>2, TailOf
<1>4. PICK r \in Requests : r = Head(main.todo)
  BY <1>3
<1>5. /\ main.pc = "close" /\ Post(r, None, accepted)
      /\ main' = [main EXCEPT !.todo = Tail(@)]
      /\ UNCHANGED <<strict, unsent, cancelled, table, client, server,
                     written, answered, alive, rung, delivered>>
  BY <1>4 DEF PostOpen, child
<1>6. main'.pc = "close" /\ main'.todo = Tail(main.todo)
      /\ main' \in [pc : {"join", "finish", "close", "exited"}, todo : Seq(Requests)]
  BY <1>1, <1>3, <1>5 DEF TypeOK
<1>7. /\ posted' \in [Requests -> Seq(PostOf)]
      /\ \A x \in Requests : x # r => posted'[x] = posted[x]
      /\ posted'[r] # <<>> /\ Len(posted'[r]) = Len(posted[r]) + 1
  BY <1>1, <1>5, PostFacts
<1>8. TypeOK'
  BY <1>1, <1>5, <1>6, <1>7 DEF TypeOK
<1>9. ClientOK' /\ OthersOK' /\ IdsApart'
  BY <1>1, <1>3, <1>5, <1>6 DEF ClientOK, OthersOK, IdsApart
<1>10. ASSUME NEW q \in Requests PROVE InOnePlace(q)'
  <2>1. /\ InRead(q)' <=> InRead(q)
        /\ InTable(q)' <=> InTable(q)
        /\ InClient(q)' <=> InClient(q)
        /\ InServer(q)' <=> InServer(q)
        /\ InMain(q)' <=> InMain(q) /\ q # r
        /\ InMain(r)
        /\ IsPosted(q)' <=> IsPosted(q) \/ q = r
    BY <1>3, <1>4, <1>5, <1>6, <1>7 DEF InRead, InTable, InClient, InServer, InMain, IsPosted
  <2>2. InOnePlace(q)
    BY <1>1
  <2>3. q = r => Len(posted[q]) = 0
    <3>1. InOnePlace(r)
      BY <1>1
    <3>2. ~IsPosted(r)
      BY <2>1, <3>1 DEF InOnePlace, One
    <3> QED
      BY <3>2, EmptySeq DEF IsPosted
  <2> QED
    BY <2>1, <2>2, <2>3, <1>5, <1>7 DEF InOnePlace, One
<1> QED
  BY <1>8, <1>9, <1>10 DEF WInv

LEMMA EndKeeps ==
  ASSUME WInv, Joined \/ Exit \/ Escalate \/ ChildEnds
  PROVE  WInv'
<1>1. TypeOK /\ ClientOK /\ OthersOK
  BY DEF WInv
<1>2. UNCHANGED <<strict, unsent, cancelled, table, client, server, written, answered, posted, delivered>>
  BY DEF Joined, Exit, Escalate, ChildEnds, child
<1>3. alive' \in BOOLEAN /\ rung' \in 0..3
  <2>1. alive \in BOOLEAN /\ rung \in 0..3
    BY <1>1 DEF TypeOK
  <2>2. CASE Joined \/ Exit
    BY <2>1, <2>2 DEF Joined, Exit, child
  <2>3. CASE Escalate
    BY <2>1, <2>3 DEF Escalate
  <2>4. CASE ChildEnds
    BY <2>1, <2>4 DEF ChildEnds
  <2> QED
    BY <2>2, <2>3, <2>4
<1>4. /\ main' \in [pc : {"join", "finish", "close", "exited"}, todo : Seq(Requests)]
      /\ main'.todo = main.todo
      /\ main'.pc \in {"join", "finish"} => main.todo = <<>>
      /\ main'.pc # "join" => server.pc = "ended"
  BY <1>1 DEF Joined, Exit, Escalate, ChildEnds, TypeOK, OthersOK
<1>5. TypeOK' /\ ClientOK' /\ OthersOK'
  BY <1>1, <1>2, <1>3, <1>4 DEF TypeOK, ClientOK, OthersOK
<1> QED
  BY <1>2, <1>4, <1>5, StillKeeps

LEMMA InitKeeps ==
  ASSUME Init
  PROVE  WInv
<1>1. <<>> \in Seq(Requests) /\ Len(<<>>) = 0 /\ \A x : ~Occurs(<<>>, x)
  BY EmptySeq DEF Occurs
<1>2. \A P : <<>> \in Seq(P)
  BY EmptySeq
<1>3. \A q \in Requests : posted[q] = <<>>
  BY DEF Init
<1>4. posted \in [Requests -> Seq(PostOf)]
  BY <1>2 DEF Init
<1>5. TypeOK
  BY <1>1, <1>4, WrapAssumption DEF Init, Listening, TypeOK
<1>6. ClientOK /\ OthersOK
  BY WrapAssumption DEF Init, Listening, ClientOK, OthersOK
<1>7. IdsApart
  BY <1>1 DEF Init, IdsApart, Apart
<1>8. ASSUME NEW q \in Requests PROVE InOnePlace(q)
  <2>1. /\ ~InRead(q) /\ ~InTable(q) /\ ~InClient(q) /\ ~InServer(q) /\ ~InMain(q)
        /\ ~IsPosted(q) /\ Len(posted[q]) = 0 /\ q \in unsent
    BY <1>1, <1>3, WrapAssumption
       DEF Init, Listening, InRead, InTable, InClient, InServer, InMain, IsPosted
  <2> QED
    BY <2>1 DEF InOnePlace, One
<1> QED
  BY <1>5, <1>6, <1>7, <1>8 DEF WInv

LEMMA StepKeeps ==
  ASSUME WInv, [Next]_vars
  PROVE  WInv'
<1>1. CASE UNCHANGED vars
  <2>1. UNCHANGED <<strict, unsent, cancelled, table, client, server, main,
                    written, answered, alive, rung, posted, delivered>>
    BY <1>1 DEF vars
  <2>2. TypeOK /\ ClientOK /\ OthersOK
    BY DEF WInv
  <2>3. TypeOK'
    BY <2>1, <2>2 DEF TypeOK
  <2>4. ClientOK' /\ OthersOK'
    BY <2>1, <2>2 DEF ClientOK, OthersOK
  <2> QED
    BY <2>1, <2>3, <2>4, StillKeeps
<1>2. CASE ClientThread
  BY <1>2, ReadRequestKeeps, ReadCancelKeeps, PostTruncatedKeeps, InsertKeeps, WriteKeeps
     DEF ClientThread
<1>3. CASE ServerStep \/ ServerEof \/ ReadUnmatchable \/ \E q \in Requests : ReadReply(q)
  BY <1>3, ReadReplyKeeps, PostReplyKeeps, ServerKeeps DEF ServerStep
<1>4. CASE MainThread \/ Escalate \/ ChildEnds
  BY <1>4, EndKeeps, CloseKeeps, PostOpenKeeps DEF MainThread
<1> QED
  BY <1>1, <1>2, <1>3, <1>4 DEF Next

LEMMA WInvariant == Spec => []WInv
BY InitKeeps, StepKeeps, PTL DEF Spec

\* The variables of the wrapper keep their types and the table of open requests never
\* holds more than MAX_PENDING (mcpwrap.py:151-180).
THEOREM WrapTypeOK == Spec => []TypeOK
<1>1. WInv => TypeOK
  BY DEF WInv
<1> QED
  BY <1>1, WInvariant, PTL

\* The positions of a request in a sequence of requests with different ids: one or none.
LEMMA OnePosition ==
  ASSUME NEW s, Apart(s), NEW q, NEW t
  PROVE  /\ Occurs(s, q) =>
              \E p : {<<t, i>> : i \in {j \in 1..Len(s) : s[j] = q}} = {p}
         /\ ~Occurs(s, q) => {<<t, i>> : i \in {j \in 1..Len(s) : s[j] = q}} = {}
<1>1. ASSUME Occurs(s, q)
      PROVE  \E p : {<<t, i>> : i \in {j \in 1..Len(s) : s[j] = q}} = {p}
  <2>1. PICK k \in 1..Len(s) : s[k] = q
    BY <1>1 DEF Occurs
  <2>2. {j \in 1..Len(s) : s[j] = q} = {k}
    BY <2>1 DEF Apart
  <2>3. {<<t, i>> : i \in {k}} = {<<t, k>>}
    OBVIOUS
  <2> QED
    BY <2>2, <2>3
<1>2. ASSUME ~Occurs(s, q)
      PROVE  {<<t, i>> : i \in {j \in 1..Len(s) : s[j] = q}} = {}
  <2>1. {j \in 1..Len(s) : s[j] = q} = {}
    BY <1>2 DEF Occurs
  <2> QED
    BY <2>1
<1> QED
  BY <1>1, <1>2

LEMMA PlaceIsOne ==
  ASSUME WInv
  PROVE  PostedOnce
<1>1. TypeOK /\ IdsApart /\ \A q \in Requests : InOnePlace(q)
  BY DEF WInv
<1>2. SUFFICES ASSUME NEW q \in Requests \ unsent
               PROVE  \E p \in Places(q) : Places(q) = {p}
  BY DEF PostedOnce
<1> DEFINE a == IF client.cur = q /\ client.next = "insert" THEN {<<"read", 0>>} ELSE {}
           b == {<<"table", i>> : i \in {j \in 1..Len(table) : table[j] = q}}
           c == IF q \in client.todo THEN {<<"client", 0>>} ELSE {}
           d == IF server.match = q THEN {<<"server", 0>>} ELSE {}
           e == {<<"main", i>> : i \in {j \in 1..Len(main.todo) : main.todo[j] = q}}
           f == {<<"posted", i>> : i \in 1..Len(posted[q])}
<1>3. Places(q) = a \cup b \cup c \cup d \cup e \cup f
  BY DEF Places
<1>4. /\ InRead(q) => \E p : a = {p}
      /\ ~InRead(q) => a = {}
      /\ InClient(q) => \E p : c = {p}
      /\ ~InClient(q) => c = {}
      /\ InServer(q) => \E p : d = {p}
      /\ ~InServer(q) => d = {}
  BY DEF InRead, InClient, InServer
<1>5. /\ InTable(q) => \E p : b = {p}
      /\ ~InTable(q) => b = {}
  BY <1>1, OnePosition DEF IdsApart, InTable
<1>6. /\ InMain(q) => \E p : e = {p}
      /\ ~InMain(q) => e = {}
  <2>1. Apart(main.todo)
    BY <1>1 DEF IdsApart
  <2> QED
    BY <2>1, OnePosition, Zenon DEF InMain
<1>7. /\ IsPosted(q) => \E p : f = {p}
      /\ ~IsPosted(q) => f = {}
  <2>1. posted[q] \in Seq(PostOf) /\ Len(posted[q]) <= 1 /\ Len(posted[q]) \in Nat
    BY <1>1, LenProperties DEF TypeOK, InOnePlace
  <2>2. ASSUME IsPosted(q) PROVE \E p : f = {p}
    <3>1. Len(posted[q]) # 0
      BY <2>1, <2>2, EmptySeq DEF IsPosted
    <3>2. 1..Len(posted[q]) = {1}
      BY <2>1, <3>1
    <3>3. {<<"posted", i>> : i \in {1}} = {<<"posted", 1>>}
      OBVIOUS
    <3> QED
      BY <3>2, <3>3
  <2>3. ASSUME ~IsPosted(q) PROVE f = {}
    <3>1. 1..Len(posted[q]) = {}
      BY <2>3, EmptySeq DEF IsPosted
    <3> QED
      BY <3>1
  <2> QED
    BY <2>2, <2>3
<1>8. One(InRead(q)) + One(InTable(q)) + One(InClient(q)) + One(InServer(q)) + One(InMain(q))
        + One(IsPosted(q)) = 1
  BY <1>1, <1>2 DEF InOnePlace, One
<1> HIDE DEF a, b, c, d, e, f
<1>9. \/ InRead(q) /\ ~InTable(q) /\ ~InClient(q) /\ ~InServer(q) /\ ~InMain(q) /\ ~IsPosted(q)
      \/ ~InRead(q) /\ InTable(q) /\ ~InClient(q) /\ ~InServer(q) /\ ~InMain(q) /\ ~IsPosted(q)
      \/ ~InRead(q) /\ ~InTable(q) /\ InClient(q) /\ ~InServer(q) /\ ~InMain(q) /\ ~IsPosted(q)
      \/ ~InRead(q) /\ ~InTable(q) /\ ~InClient(q) /\ InServer(q) /\ ~InMain(q) /\ ~IsPosted(q)
      \/ ~InRead(q) /\ ~InTable(q) /\ ~InClient(q) /\ ~InServer(q) /\ InMain(q) /\ ~IsPosted(q)
      \/ ~InRead(q) /\ ~InTable(q) /\ ~InClient(q) /\ ~InServer(q) /\ ~InMain(q) /\ IsPosted(q)
  BY <1>8 DEF One
<1>10. \E p : a \cup b \cup c \cup d \cup e \cup f = {p}
  <2>1. CASE InRead(q)
    BY <2>1, <1>4, <1>5, <1>6, <1>7, <1>9
  <2>2. CASE InTable(q)
    BY <2>2, <1>4, <1>5, <1>6, <1>7, <1>9
  <2>3. CASE InClient(q)
    BY <2>3, <1>4, <1>5, <1>6, <1>7, <1>9
  <2>4. CASE InServer(q)
    BY <2>4, <1>4, <1>5, <1>6, <1>7, <1>9
  <2>5. CASE InMain(q)
    BY <2>5, <1>4, <1>5, <1>6, <1>7, <1>9
  <2>6. CASE IsPosted(q)
    BY <2>6, <1>4, <1>5, <1>6, <1>7, <1>9
  <2> QED
    BY <1>9, <2>1, <2>2, <2>3, <2>4, <2>5, <2>6, Zenon
<1> QED
  BY <1>3, <1>10

\* Whichever of a reply, a cancellation, a reused id, the limit of the table and the end of
\* the server comes first, a request that was read is in one place, and so it is posted
\* once at most and not forgotten while the wrapper runs (mcpwrap.py:151, 162, 177, 210, 220).
THEOREM WrapPostedOnce == Spec => []PostedOnce
<1>1. WInv => PostedOnce
  BY PlaceIsOne
<1> QED
  BY <1>1, WInvariant, PTL
-----------------------------------------------------------------------------
\* What stands behind a result

\* A post is added to those that were made, and says what it was given.
LEMMA PostsStay ==
  ASSUME TypeOK, NEW r \in Requests, NEW reply \in Requests \cup {None},
         NEW accepted \in BOOLEAN, Post(r, reply, accepted), strict' = strict,
         client.todo \subseteq client'.todo \cup {r}, r \in client'.todo \/ reply = None \/ r \notin client.todo
  PROVE  /\ \A x \in Requests, line \in Results : Stands(x, line) => Stands(x, line)'
         /\ reply = r => \A line \in Results : (strict /\ line = "result" => accepted) => Stands(r, line)'
         /\ \A x \in Requests : \A i \in 1..Len(posted'[x]) :
              \/ i \in 1..Len(posted[x]) /\ posted'[x][i] = posted[x][i]
              \/ x = r /\ posted'[x][i].reply = reply
<1> DEFINE n == Len(posted[r]) + 1
<1>1. /\ posted' \in [Requests -> Seq(PostOf)]
      /\ \A x \in Requests : x # r => posted'[x] = posted[x]
      /\ Len(posted'[r]) = n
      /\ \A i \in 1..Len(posted[r]) : posted'[r][i] = posted[r][i]
      /\ posted'[r][n].reply = reply
      /\ posted'[r][n].accepted = accepted
  BY PostFacts
<1>2. Len(posted[r]) \in Nat
  BY LenProperties DEF TypeOK
<1>3. /\ n \in 1..Len(posted'[r])
      /\ \A i \in 1..Len(posted[r]) : i \in 1..Len(posted'[r])
      /\ \A i \in 1..Len(posted'[r]) : i \in 1..Len(posted[r]) \/ i = n
  BY <1>1, <1>2
<1> HIDE DEF n
<1>4. \A x \in Requests : \A i \in 1..Len(posted[x]) :
        i \in 1..Len(posted'[x]) /\ posted'[x][i] = posted[x][i]
  BY <1>1, <1>3
<1>5. \A x \in Requests, line \in Results :
        Replied(x, strict /\ line = "result") => Replied(x, strict /\ line = "result")'
  BY <1>4 DEF Replied
<1>6. reply = None => GivenUp(r)'
  BY <1>1, <1>3 DEF GivenUp
<1>7. \A x \in Requests : GivenUp(x) => GivenUp(x)'
  <2> SUFFICES ASSUME NEW x \in Requests, GivenUp(x)
               PROVE  GivenUp(x)'
    OBVIOUS
  <2>1. CASE x \in client.todo
    BY <2>1, <1>6 DEF GivenUp
  <2>2. CASE \E i \in 1..Len(posted[x]) : posted[x][i].reply = None
    BY <2>2, <1>4 DEF GivenUp
  <2> QED
    BY <2>1, <2>2 DEF GivenUp
<1>8. reply = r => \A line \in Results :
        (strict /\ line = "result" => accepted) => Replied(r, strict /\ line = "result")'
  BY <1>1, <1>3 DEF Replied
<1>9. \A x \in Requests : \A i \in 1..Len(posted'[x]) :
        \/ i \in 1..Len(posted[x]) /\ posted'[x][i] = posted[x][i]
        \/ x = r /\ posted'[x][i].reply = reply
  BY <1>1, <1>3
<1> QED
  BY <1>5, <1>7, <1>8, <1>9 DEF Stands

\* A step of the client thread that posts and writes nothing.
LEMMA ClientKeepsReplies ==
  ASSUME WInv, RInv,
         Insert \/ ClientEof \/ \E q \in Requests : ReadRequest(q) \/ ReadCancel(q)
  PROVE  RInv'
<1>1. ClientOK /\ RepliesOnce /\ \A q \in Requests : Unique(q) => Says(q)
  BY DEF WInv, RInv
<1>2. client.todo = {} /\ UNCHANGED <<strict, server, written, answered, posted, delivered>>
  BY <1>1 DEF Insert, ClientEof, ReadRequest, ReadCancel, ClientOK, child
<1>3. /\ unsent' \subseteq unsent
      /\ client'.cur # None => client'.cur \notin written \cup unsent'
  <2>1. CASE Insert
    BY <2>1, <1>1 DEF Insert, ClientGoes, RepliesOnce
  <2>2. CASE ClientEof
    BY <2>2, <1>1 DEF ClientEof, ClientGoes, RepliesOnce
  <2>3. ASSUME NEW q \in Requests, ReadRequest(q) \/ ReadCancel(q)
        PROVE  /\ unsent' \subseteq unsent
               /\ client'.cur # None => client'.cur \notin written \cup unsent'
    BY <2>3, <1>1 DEF ReadRequest, ReadCancel, ClientGoes, RepliesOnce
  <2> QED
    BY <2>1, <2>2, <2>3
<1>4. RepliesOnce'
  BY <1>1, <1>2, <1>3 DEF RepliesOnce
<1>5. ASSUME NEW q \in Requests, Unique(q) PROVE Says(q)'
  <2>1. Says(q)
    BY <1>1, <1>5
  <2>2. \A line \in Results : Stands(q, line) => Stands(q, line)'
    BY <1>2 DEF Stands, GivenUp, Replied
  <2> QED
    BY <1>2, <2>1, <2>2 DEF Says
<1> QED
  BY <1>4, <1>5 DEF RInv, Unique

\* A request posted as truncated.
LEMMA TruncatedKeepsReplies ==
  ASSUME WInv, RInv, NEW r \in Requests, NEW accepted \in BOOLEAN,
         Post(r, None, accepted), client.todo \subseteq client'.todo \cup {r},
         client'.cur = client.cur,
         UNCHANGED <<strict, unsent, server, written, answered, delivered>>
  PROVE  RInv'
<1>1. TypeOK /\ RepliesOnce /\ \A q \in Requests : Unique(q) => Says(q)
  BY DEF WInv, RInv
<1>2. /\ \A x \in Requests, line \in Results : Stands(x, line) => Stands(x, line)'
      /\ \A x \in Requests : \A i \in 1..Len(posted'[x]) :
           \/ i \in 1..Len(posted[x]) /\ posted'[x][i] = posted[x][i]
           \/ x = r /\ posted'[x][i].reply = None
  BY <1>1, PostsStay
<1>3. RepliesOnce'
  BY <1>1, <1>2 DEF RepliesOnce
<1>4. ASSUME NEW q \in Requests, Unique(q) PROVE Says(q)'
  BY <1>1, <1>2, <1>4 DEF Says
<1> QED
  BY <1>3, <1>4 DEF RInv, Unique

LEMMA WriteKeepsReplies ==
  ASSUME WInv, RInv, Write
  PROVE  RInv'
<1>1. TypeOK /\ ClientOK /\ RepliesOnce /\ \A q \in Requests : Unique(q) => Says(q)
  BY DEF WInv, RInv
<1>2. /\ client.todo = {}
      /\ client'.cur = None
      /\ UNCHANGED <<strict, unsent, server, posted, delivered>>
  BY <1>1 DEF Write, ClientGoes, ClientOK
<1>3. answered' = answered
      /\ \/ written' = written \cup ({client.cur} \ {None})
         \/ written' = written
  BY DEF Write
<1>4. written' \cap unsent' = {}
  BY <1>1, <1>2, <1>3 DEF RepliesOnce
<1>5. RepliesOnce'
  BY <1>1, <1>2, <1>3, <1>4 DEF RepliesOnce
<1>6. ASSUME NEW q \in Requests, Unique(q) PROVE Says(q)'
  <2>1. Says(q)
    BY <1>1, <1>6
  <2>2. \A line \in Results : Stands(q, line) => Stands(q, line)'
    BY <1>2 DEF Stands, GivenUp, Replied
  <2> QED
    BY <1>2, <2>1, <2>2 DEF Says
<1> QED
  BY <1>5, <1>6 DEF RInv, Unique

\* Nothing a reply rests on changes but the server thread and what it has read.
LEMMA SameReplies ==
  ASSUME UNCHANGED <<strict, client, posted>>
  PROVE  \A q, line : Stands(q, line)' <=> Stands(q, line)
BY DEF Stands, GivenUp, Replied

\* When no open request has the id of the one that is replied to, another thread took it, or
\* it was replied to before.
LEMMA MissedStands ==
  ASSUME WInv, RepliesOnce, NEW r \in Requests, Unique(r), server.pc = "read", r \in written,
         NEW line, line = (IF r \in answered THEN "again" ELSE "result"),
         \A x : x \in Under(r) <=> Occurs(table, x) /\ id[x] = id[r],
         Under(r) = {}
  PROVE  Stands(r, line)
<1>1. TypeOK /\ OthersOK /\ InOnePlace(r)
  BY DEF WInv
<1>2. r \in written /\ r \notin unsent /\ r # None
  BY <1>1, WrapAssumption DEF TypeOK, RepliesOnce
<1>3. ~InRead(r) /\ ~InTable(r) /\ ~InServer(r) /\ ~InMain(r)
  <2>1. ~InRead(r)
    BY <1>2 DEF InRead, RepliesOnce
  <2>2. ~InTable(r)
    BY DEF InTable
  <2>3. ~InServer(r)
    BY <1>1, <1>2 DEF OthersOK, InServer
  <2>4. main.todo = <<>>
    BY <1>1 DEF OthersOK
  <2>5. ~InMain(r)
    BY <2>4, EmptySeq DEF InMain, Occurs
  <2> QED
    BY <2>1, <2>2, <2>3, <2>5
<1>4. InClient(r) \/ IsPosted(r)
  BY <1>1, <1>2, <1>3 DEF InOnePlace, One
<1>5. CASE InClient(r)
  BY <1>5 DEF InClient, GivenUp, Stands
<1>6. CASE IsPosted(r)
  <2>1. posted[r] \in Seq(PostOf) /\ Len(posted[r]) \in Nat
    BY <1>1, LenProperties DEF TypeOK
  <2>2. Len(posted[r]) # 0
    BY <1>6, <2>1, EmptySeq DEF IsPosted
  <2>3. 1 \in 1..Len(posted[r])
    BY <2>1, <2>2
  <2>4. posted[r][1] \in PostOf
    BY <2>1, <2>3, ElementOfSeq
  <2>5. posted[r][1].reply \in Requests \cup {None}
    BY <2>4 DEF PostOf
  <2>6. ASSUME posted[r][1].reply # None
        PROVE  Replied(r, strict /\ line = "result")
    <3>1. posted[r][1].reply \in answered /\ id[posted[r][1].reply] = id[r]
      BY <2>3, <2>6 DEF RepliesOnce
    <3>2. posted[r][1].reply = r
      BY <2>5, <2>6, <3>1 DEF Unique
    <3>3. line = "again"
      BY <3>1, <3>2
    <3> QED
      BY <2>3, <3>2, <3>3 DEF Replied
  <2> QED
    BY <2>3, <2>6 DEF GivenUp, Stands
<1> QED
  BY <1>4, <1>5, <1>6

LEMMA ReadReplyKeepsReplies ==
  ASSUME WInv, RInv, NEW r \in Requests, ReadReply(r)
  PROVE  RInv'
<1>1. TypeOK /\ OthersOK /\ IdsApart /\ RepliesOnce /\ \A q \in Requests : Unique(q) => Says(q)
  BY DEF WInv, RInv
<1>2. /\ server.pc = "read" /\ r \in written /\ answered' = answered \cup {r} /\ Take(r)
      /\ UNCHANGED <<strict, unsent, client, written, posted, delivered>>
  BY DEF ReadReply
<1>3. /\ \A x : x \in Under(r) <=> Occurs(table, x) /\ id[x] = id[r]
      /\ Under(r) \subseteq Requests
  BY <1>1, <1>2, TakeFacts DEF IdsApart
<1>0. PICK line : line = (IF r \in answered THEN "again" ELSE "result")
  OBVIOUS
<1>4. /\ server'.req = r
      /\ \/ server'.pc = "post" /\ server'.match \in Under(r)
         \/ server'.pc = "deliver" /\ server'.line = line /\ Under(r) = {}
  BY <1>0 DEF ReadReply
<1>5. RepliesOnce'
  BY <1>1, <1>2, <1>4 DEF RepliesOnce
<1>6. ASSUME NEW q \in Requests, Unique(q) PROVE Says(q)'
  <2>1. Says(q) /\ \A l : Stands(q, l)' <=> Stands(q, l)
    BY <1>1, <1>2, <1>6, SameReplies
  <2>2. \A l \in Results : <<q, l>> \in delivered' => Stands(q, l)'
    BY <1>2, <2>1 DEF Says
  <2>3. CASE q # r
    BY <1>4, <2>2, <2>3 DEF Says
  <2>4. CASE q = r /\ Under(r) = {}
    <3>1. Stands(r, line)
      BY <1>0, <1>1, <1>2, <1>3, <1>6, <2>4, MissedStands
    <3>2. Stands(q, line)'
      BY <2>1, <2>4, <3>1
    <3> QED
      BY <1>4, <2>2, <2>4, <3>2 DEF Says
  <2>5. CASE q = r /\ Under(r) # {}
    <3>1. server'.pc = "post" /\ server'.match \in Requests /\ id[server'.match] = id[r]
      BY <1>3, <1>4, <2>5
    <3>2. server'.match = r
      BY <3>1, <1>6, <2>5 DEF Unique
    <3> QED
      BY <2>2, <2>5, <3>1, <3>2 DEF Says
  <2> QED
    BY <2>3, <2>4, <2>5
<1> QED
  BY <1>5, <1>6 DEF RInv, Unique

LEMMA PostReplyKeepsReplies ==
  ASSUME WInv, RInv, NEW accepted \in BOOLEAN, PostReply(accepted)
  PROVE  RInv'
<1>1. TypeOK /\ OthersOK /\ RepliesOnce /\ \A q \in Requests : Unique(q) => Says(q)
  BY DEF WInv, RInv
<1>2. PICK r \in Requests, reply \in Requests : r = server.match /\ reply = server.req
  BY <1>1 DEF PostReply, OthersOK, TypeOK
<1>3. /\ server.pc = "post" /\ Post(r, reply, accepted)
      /\ server'.req = reply /\ server'.pc = "deliver"
      /\ server'.line = server.line \/ (server'.line = "refusal" /\ strict)
      /\ strict /\ server'.line = "result" => accepted
      /\ UNCHANGED <<strict, unsent, client, written, answered, delivered>>
  BY <1>2 DEF PostReply, child
<1>4. id[reply] = id[r] /\ reply \in answered
  BY <1>1, <1>2, <1>3, WrapAssumption DEF OthersOK, RepliesOnce
<1>5. /\ \A x \in Requests, line \in Results : Stands(x, line) => Stands(x, line)'
      /\ reply = r => \A line \in Results : (strict /\ line = "result" => accepted) => Stands(r, line)'
      /\ \A x \in Requests : \A i \in 1..Len(posted'[x]) :
           \/ i \in 1..Len(posted[x]) /\ posted'[x][i] = posted[x][i]
           \/ x = r /\ posted'[x][i].reply = reply
  <2>1. /\ client.todo \subseteq client'.todo \cup {r}
        /\ r \in client'.todo \/ reply = None \/ r \notin client.todo
    BY <1>3
  <2> QED
    BY <1>1, <1>3, <2>1, PostsStay
<1>6. RepliesOnce'
  BY <1>1, <1>3, <1>4, <1>5 DEF RepliesOnce
<1>7. ASSUME NEW q \in Requests, Unique(q) PROVE Says(q)'
  <2>1. Says(q)
    BY <1>1, <1>7
  <2>2. q = reply => r = q
    BY <1>2, <1>3, <2>1 DEF Says
  <2> QED
    BY <1>3, <1>5, <2>1, <2>2 DEF Says
<1> QED
  BY <1>6, <1>7 DEF RInv, Unique

LEMMA ServerKeepsReplies ==
  ASSUME WInv, RInv, Deliver \/ ServerEof \/ ReadUnmatchable
  PROVE  RInv'
<1>1. TypeOK /\ OthersOK /\ RepliesOnce /\ \A q \in Requests : Unique(q) => Says(q)
  BY DEF WInv, RInv
<1>2. UNCHANGED <<strict, unsent, client, written, answered, posted>>
  BY DEF Deliver, ServerEof, ReadUnmatchable, child
<1>3. \A d \in delivered' : d \in delivered
        \/ (server.pc = "deliver" /\ server.line \in Results /\ d = <<server.req, server.line>>)
  BY DEF Deliver, ServerEof, ReadUnmatchable
<1>4. /\ server'.req = None /\ server'.pc # "post"
      /\ server'.pc = "deliver" => server'.line \notin Results
  BY <1>1 DEF Deliver, ServerEof, ReadUnmatchable, Listening, Deaf, Results
<1>5. RepliesOnce'
  BY <1>1, <1>2, <1>4 DEF RepliesOnce
<1>6. ASSUME NEW q \in Requests, Unique(q) PROVE Says(q)'
  <2>1. Says(q) /\ \A l : Stands(q, l)' <=> Stands(q, l)
    BY <1>1, <1>2, <1>6, SameReplies
  <2>2. ASSUME NEW l \in Results, <<q, l>> \in delivered'
        PROVE  Stands(q, l)
    BY <1>3, <2>1, <2>2 DEF Says
  <2> QED
    BY <1>4, <2>1, <2>2 DEF Says
<1> QED
  BY <1>5, <1>6 DEF RInv, Unique

LEMMA EndKeepsReplies ==
  ASSUME RInv, UNCHANGED <<strict, unsent, client, server, written, answered, posted, delivered>>
  PROVE  RInv'
<1>1. RepliesOnce /\ \A q \in Requests : Unique(q) => Says(q)
  BY DEF RInv
<1>2. RepliesOnce'
  BY <1>1 DEF RepliesOnce
<1>3. ASSUME NEW q \in Requests, Unique(q) PROVE Says(q)'
  BY <1>1, <1>3, SameReplies DEF Says
<1> QED
  BY <1>2, <1>3 DEF RInv, Unique

LEMMA InitHasReplies ==
  ASSUME Init
  PROVE  RInv
<1>1. \A q \in Requests : 1..Len(posted[q]) = {}
  BY EmptySeq DEF Init
<1>2. RepliesOnce
  BY <1>1 DEF Init, Listening, RepliesOnce
<1>3. ASSUME NEW q \in Requests PROVE Says(q)
  BY DEF Init, Listening, Says
<1> QED
  BY <1>2, <1>3 DEF RInv

LEMMA StepKeepsReplies ==
  ASSUME WInv, RInv, [Next]_vars
  PROVE  RInv'
<1>1. CASE UNCHANGED vars
  BY <1>1, EndKeepsReplies DEF vars
<1>2. CASE Joined \/ Close \/ Exit \/ Escalate \/ ChildEnds
  BY <1>2, EndKeepsReplies DEF Joined, Close, Exit, Escalate, ChildEnds, child
<1>3. ASSUME NEW q \in Requests, NEW accepted \in BOOLEAN, PostTruncated(q, accepted) PROVE RInv'
  <2>1. /\ Post(q, None, accepted) /\ client.todo \subseteq client'.todo \cup {q}
        /\ client'.cur = client.cur
        /\ UNCHANGED <<strict, unsent, server, written, answered, delivered>>
    BY <1>3 DEF PostTruncated, ClientGoes, child
  <2> QED
    BY <2>1, TruncatedKeepsReplies
<1>4. ASSUME NEW accepted \in BOOLEAN, PostOpen(accepted) PROVE RInv'
  <2>1. Head(main.todo) \in Requests
    BY <1>4, HeadTailProperties DEF PostOpen, WInv, TypeOK
  <2>2. /\ Post(Head(main.todo), None, accepted) /\ client' = client
        /\ UNCHANGED <<strict, unsent, server, written, answered, delivered>>
    BY <1>4 DEF PostOpen, child
  <2>3. client.todo \subseteq client'.todo \cup {Head(main.todo)}
    BY <2>2
  <2> QED
    BY <2>1, <2>2, <2>3, TruncatedKeepsReplies
<1>5. CASE Insert \/ ClientEof \/ \E q \in Requests : ReadRequest(q) \/ ReadCancel(q)
  BY <1>5, ClientKeepsReplies
<1>6. CASE Write
  BY <1>6, WriteKeepsReplies
<1>7. CASE ServerStep \/ ServerEof \/ ReadUnmatchable \/ \E q \in Requests : ReadReply(q)
  BY <1>7, ReadReplyKeepsReplies, PostReplyKeepsReplies, ServerKeepsReplies DEF ServerStep
<1> QED
  BY <1>1, <1>2, <1>3, <1>4, <1>5, <1>6, <1>7 DEF Next, ClientThread, MainThread

LEMMA RInvariant == Spec => []RInv
BY InitHasReplies, StepKeepsReplies, WInvariant, PTL DEF Spec

\* The first result the client was given for a request is that of a call which was recorded
\* before, as asked for by --strict, or whose request was cancelled, pushed out or closed by
\* another thread; what is answered again under the id comes after a post of the call, accepted
\* or not: as long as the client gives each open request an id of its own, and for any number of
\* answers (mcpwrap.py:114-115, 210-214).
THEOREM WrapResultIsRecorded == Spec => []ResultIsRecorded
<1>1. WInv /\ RInv => ResultIsRecorded
  <2> SUFFICES ASSUME WInv, RInv, NEW q \in Requests, Unique(q), NEW line \in Results,
                      <<q, line>> \in delivered
               PROVE  GivenUp(q) \/ Replied(q, strict /\ line = "result")
    BY DEF ResultIsRecorded, Unique, Results, Replied
  <2> QED
    BY DEF RInv, Says, Stands
<1> QED
  BY <1>1, WInvariant, RInvariant, PTL
=============================================================================
