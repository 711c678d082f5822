--------------------------- MODULE GatewayProofs ----------------------------
(***************************************************************************)
(* The proxies, the step API and the OTLP receiver for any calls, steps    *)
(* and spans, any number of runs and whatever goes wrong: nothing that     *)
(* acts goes past the rule or the record, and what a client was told of is *)
(* on the chain.                                                           *)
(***************************************************************************)
EXTENDS Gateway, SequenceTheorems, FiniteSetTheorems, WellFoundedInduction, TLAPS
-----------------------------------------------------------------------------
\* Types

Versions == 0..2

Spans == UNION {ToSet(Batch[x]) : x \in Exports}

Outcomes == {"success", "error", "pending", "blocked"}
EntryOf == [by : Calls, outcome : Outcomes, truncated : BOOLEAN, chunks : Nat, version : Versions]
           \cup [by : Posts, outcome : Outcomes, version : Versions]
           \cup [by : Spans]

\* Where a call is that is checked and not yet recorded.
Out == {"announce", "send", "refusal", "relay", "read", "look", "compare"}

CallOf == [pc : {"arrive", "record", "done"} \cup Out, run : Runs \cup {None}, got : Nat, gave : Nat,
           end : {"blocked", "unreachable", "refused", "over", "whole", "cut", "left", None},
           reply : {"refused", "failed", "relayed", "answered", "blocked", "cut", None},
           version : Versions]

PostOf == [pc : {"arrive", "read", "look", "compare", "append", "remember", "done"},
           run : Runs \cup {None},
           reply : {"refused", "failed", "unchanged", "recorded", "cut", None}]

ExportOf == [pc : {"send", "span", "mark", "record", "done"}, i : Nat \ {0}, run : Runs \cup {None},
             rejected : Nat, reply : {"failed", "late", "cut", "ok", None}, sent : Nat]

RunsTyped ==
    /\ live \in [Runs -> {"absent", "open", "closed"}] /\ log \in [Runs -> Seq(EntryOf)]
    /\ current \in Runs \cup {None} /\ idle \in BOOLEAN
    /\ spent \in [Trouble -> Nat]
    /\ \A r \in Runs : live[r] = "absent" => log[r] = <<>>

CallsTyped ==
    /\ shape \in Shapes /\ call \in [Calls -> CallOf]
    /\ tools \in {1, 2} /\ seen \in Seq(Runs \X Versions)

PostsTyped == step \in Steps /\ post \in [Posts -> PostOf]

ExportOK(x) ==
    /\ export[x].pc \in {"mark", "record"} => export[x].i \in 1..Len(Batch[x])
    /\ export[x].pc = "mark" => export[x].run \in Runs

ExportsTyped ==
    /\ export \in [Exports -> ExportOf] /\ marked \in Seq(Runs \X Spans)
    /\ \A x \in Exports : ExportOK(x)

Typed == RunsTyped /\ CallsTyped /\ PostsTyped /\ ExportsTyped
-----------------------------------------------------------------------------
\* Whatever goes wrong

CallOK(c) ==
    /\ call[c].pc \in Out => Parsed(shape[c]) # "refused" /\ ~Blocked(shape[c])
    /\ call[c].pc \in (Out \cup {"record"}) \ {"send"} => Recordable(shape[c])
    /\ call[c].pc = "record" /\ call[c].end # "blocked" => ~Blocked(shape[c])
    /\ call[c].got <= Len(shape[c].events) /\ call[c].gave <= call[c].got
    /\ call[c].pc \in {"read", "relay", "look", "compare"} => call[c].version \in {1, 2}
    /\ call[c].pc \in {"look", "compare"} =>
          shape[c].body = "list" /\ call[c].end # "blocked" /\ Has(Received(c), "result")
    /\ call[c].pc = "compare" => call[c].run \in Runs
    /\ call[c].pc # "done" => call[c].reply = None
    /\ call[c].pc = "arrive" => call[c].run = None

Recorded(who) == \E r \in Runs : RecordedIn(r, who)

\* Who was given a whole answer, or told of the policy, can find the record.
Told(c) ==
    /\ call[c].reply \in {"answered", "blocked"} /\ Recordable(shape[c])
    /\ shape[c].body # "list" /\ (shape[c].stream => Untroubled({"fault", "clash"}))
    => Recorded(c)

PostOK(p) ==
    /\ post[p].pc \in {"look", "compare", "append", "remember"} => ParseStep(step[p])
    /\ post[p].pc \in {"look", "compare", "remember"} => ListStep(p)
    /\ post[p].pc \in {"read", "compare", "append"} /\ step[p].to # None => post[p].run = step[p].to
    /\ post[p].pc = "remember" => post[p].run \in Runs /\ RecordedIn(post[p].run, p)
    /\ post[p].pc = "compare" => post[p].run \in Runs
    /\ post[p].pc = "look" => step[p].to = None
    /\ post[p].reply = "recorded" =>
          IF ListStep(p) THEN post[p].run \in Runs /\ RecordedIn(post[p].run, p) ELSE Recorded(p)
    /\ post[p].pc # "done" => post[p].reply = None

\* What may be on the chain: what is over, and what is tried again after a commit that raised.
MayBeRecorded(c) == call[c].pc = "done" \/ (call[c].pc = "record" /\ spent["lost"] # 0)
MayBePosted(p) == post[p].pc \in {"remember", "done"} \/ (post[p].pc = "append" /\ spent["lost"] # 0)

\* A record says what its call or step has come to.
Truthful(e) ==
    /\ e.by \in Calls => MayBeRecorded(e.by) /\ Recordable(shape[e.by]) /\ e = Entry(e.by)
    /\ e.by \in Posts => MayBePosted(e.by) /\ ParseStep(step[e.by]) /\ e = StepEntry(e.by)

Contents == \A r \in Runs : \A i \in 1..Len(log[r]) : Truthful(log[r][i])

\* One record is all that who can have.
OnceOnly(who) ==
    /\ who \in Calls \cup Posts
    /\ spent["lost"] = 0 \/ (who \in Calls /\ Named(who))

Unique ==
    \A q, r \in Runs : \A i \in 1..Len(log[q]), j \in 1..Len(log[r]) :
        OnceOnly(log[q][i].by) /\ log[r][j].by = log[q][i].by => q = r /\ i = j

SafeInv ==
    /\ Typed /\ Contents /\ Unique
    /\ \A c \in Calls : CallOK(c) /\ Told(c)
    /\ \A p \in Posts : PostOK(p)
-----------------------------------------------------------------------------
\* While the store and the process do not fail

Settled(s) ==
    \/ s \in Invalid \/ Recorded(s)
    \/ \E y \in Exports : export[y].pc = "record" /\ Span(y) = s

\* What is remembered is listed or marked for good reason, who was told that nothing changed
\* was told the truth, and an export has settled whatever it has passed.
SeenListed == \A k \in ToSet(seen) : Listed(k[2])

MarkedSettled == \A k \in ToSet(marked) : Settled(k[2])

ListAnswered(c) ==
    call[c].reply \in {"answered", "blocked"} /\ Recordable(shape[c]) /\ shape[c].body = "list"
        => Recorded(c) \/ Listed(call[c].version)

StepUnchanged(p) == post[p].reply = "unchanged" => Listed(step[p].version)

ExportSettles(x) ==
    /\ export[x].pc \in {"span", "mark", "record"} =>
          \A i \in 1..Len(Batch[x]) : i < export[x].i => Settled(Batch[x][i])
    /\ export[x].reply = "ok" => \A i \in 1..Len(Batch[x]) : Settled(Batch[x][i])

Calm ==
    /\ SeenListed /\ MarkedSettled
    /\ \A c \in Calls : ListAnswered(c)
    /\ \A p \in Posts : StepUnchanged(p)
    /\ \A x \in Exports : ExportSettles(x)

CalmInv == Untroubled({"fault", "clash", "restart"}) => Calm
-----------------------------------------------------------------------------
\* While nothing happens to the run
RunsSteady == ~idle /\ (current # None => current \in Runs /\ live[current] = "open")

\* A delegation is about the current run, and recorded in the run it was announced in.
InRun(c) ==
    shape[c].proxy = "a2a" /\ call[c].run # None =>
        /\ call[c].pc # "done" => call[c].run = current
        /\ call[c].reply \in {"answered", "blocked"} /\ Recordable(shape[c])
              => RecordedIn(call[c].run, c)

Steady == RunsSteady /\ \A c \in Calls : InRun(c)

SteadyInv == Untroubled({"fault", "lost", "end", "idle"}) => Steady
-----------------------------------------------------------------------------
\* While nothing happens to the run, what is remembered and marked is enough

CallMade(c) == call[c].pc # "done" \/ call[c].reply # None
PostMade(p) == post[p].pc # "done" \/ post[p].reply # None

\* The listings that come, or came.
Listers ==
    {c \in Calls : shape[c].body = "list" /\ CallMade(c)}
    \cup {p \in Posts : ListStep(p) /\ PostMade(p)}

\* RecordedOnce is about two of them at a time.
TwoListings == \A a, b, d \in Listers : a = b \/ a = d \/ b = d

\* The tables of the proxy and of the receiver hold what one run can have.
Room ==
    /\ MaxLists \in Nat \ {0} /\ MaxSeen \in Nat
    /\ IsFiniteSet(Spans) /\ Cardinality(Spans) <= MaxSeen

\* A span is with one exporter or in one record, and is marked from then on.
SpanAtHand(x) ==
    /\ export[x].pc \in {"mark", "record"} => export[x].run = current /\ current # None
    /\ export[x].pc = "record" =>
        /\ <<current, Span(x)>> \in ToSet(marked) /\ ~RecordedIn(current, Span(x))
        /\ \A y \in Exports : export[y].pc = "record" /\ Span(y) = Span(x) => y = x

MarksHere ==
    /\ \A i \in 1..Len(marked) : marked[i][1] = current
    /\ \A i, j \in 1..Len(marked) : marked[i] = marked[j] => i = j

SpansMarked ==
    current # None =>
        \A s \in Spans : RecordedIn(current, s) => <<current, s>> \in ToSet(marked)

\* c has a listing that is recorded in the current run, or about to be.
Passing(c) ==
    /\ current # None /\ Listing(Entry(c))
    /\ call[c].pc = "record" \/ RecordedIn(current, c)

\* c has one that may yet be found in it.
Pending(c) == shape[c].body = "list" /\ call[c].pc \notin {"record", "done"}

ListAtHand(c) ==
    /\ call[c].pc = "compare" \/ (call[c].pc = "record" /\ Listing(Entry(c)))
          => call[c].run = current /\ current # None
    /\ call[c].pc = "refusal" => shape[c].proxy = "llm"
    /\ Passing(c) => CallMade(c)
    /\ \A d \in Calls \ {c} : Passing(c) =>
        /\ Pending(d) => Has(seen, <<current, call[c].version>>)
        /\ Passing(d) => call[c].version # call[d].version

NoneTwice ==
    \A r \in Runs : \A i, j \in 1..Len(log[r]) :
        i < j => /\ log[r][i].by # log[r][j].by
                 /\ log[r][i].by \in Calls /\ log[r][j].by \in Calls
                    /\ Listing(log[r][i]) /\ Listing(log[r][j])
                       => log[r][i].version # log[r][j].version

SpansOnce == MarksHere /\ SpansMarked /\ \A x \in Exports : SpanAtHand(x)

Once == NoneTwice /\ SpansOnce /\ \A c \in Calls : ListAtHand(c)

OnceInv == Untroubled({"fault", "lost", "end", "idle"}) => Once
-----------------------------------------------------------------------------
\* Whole numbers, sequences

\* There is no chain of ever smaller naturals.
LEMMA LessIsWellFounded == IsWellFoundedOn({ss \in Nat \X Nat : ss[1] < ss[2]}, Nat)
BY NatLessThanWellFounded, Zenon DEF OpToRel

LEMMA LeastExists ==
  ASSUME NEW S \in SUBSET Nat, S # {}
  PROVE  \E m \in S : \A k \in S : m <= k
<1> DEFINE R == {ss \in Nat \X Nat : ss[1] < ss[2]}
<1>1. \E m \in S : \A k \in S : ~(<<k, m>> \in R)
  <2>1. IsWellFoundedOn(R, Nat)
    BY LessIsWellFounded
  <2> HIDE DEF R
  <2> QED
    BY <2>1, WFMin
<1>2. PICK m \in S : \A k \in S : ~(k < m)
  BY <1>1
<1> QED
  BY <1>2

LEMMA LeastOf ==
  ASSUME NEW S \in SUBSET Nat, S # {}
  PROVE  Min(S) \in S
BY LeastExists DEF Min

LEMMA GreatestOf ==
  ASSUME NEW n \in Nat, NEW S \in SUBSET (1..n), S # {}
  PROVE  Max(S) \in S
<1> DEFINE T == {n - i : i \in S}
<1>1. T \in SUBSET Nat /\ T # {}
  <2>1. \A i \in S : i \in 1..n
    OBVIOUS
  <2>2. \A i \in 1..n : n - i \in Nat
    OBVIOUS
  <2> QED
    BY <2>1, <2>2
<1>2. S \subseteq Int
  OBVIOUS
<1>3. PICK m \in T : \A k \in T : m <= k
  BY <1>1, LeastExists
<1>4. PICK i \in S : m = n - i
  BY <1>3
<1>5. ASSUME NEW j \in S
      PROVE  i >= j
  <2>1. m <= n - j
    BY <1>3
  <2>2. i \in Int /\ j \in Int
    BY <1>2
  <2> QED
    BY <1>4, <2>1, <2>2
<1> QED
  BY <1>5 DEF Max

LEMMA RecordsAre ==
  ASSUME NEW who
  PROVE  \A r \in Runs, i \in Nat :
            <<r, i>> \in RecordsOf(who) <=> i \in 1..Len(log[r]) /\ log[r][i].by = who
BY DEF RecordsOf, Places
-----------------------------------------------------------------------------
\* What a call's record says

\* What Entry reads of a call.
SameCall(c) ==
    /\ shape'[c] = shape[c]
    /\ call'[c].got = call[c].got /\ call'[c].end = call[c].end
    /\ call'[c].version = call[c].version

LEMMA EntryStays ==
  ASSUME NEW c \in Calls, SameCall(c), shape[c].proxy \in {"llm", "mcp", "a2a"}
  PROVE  Entry(c)' = Entry(c) /\ Received(c)' = Received(c)
<1>1. /\ shape'[c] = shape[c]
      /\ call'[c].got = call[c].got /\ call'[c].end = call[c].end
      /\ call'[c].version = call[c].version
  BY DEF SameCall
<1>2. Received(c)' = Received(c)
  BY <1>1 DEF Received
<1>3. ModelTruncated(c)' = ModelTruncated(c)
  BY <1>1, <1>2 DEF ModelTruncated
<1>4. ModelOutcome(c)' = ModelOutcome(c)
  BY <1>1, <1>2, <1>3 DEF ModelOutcome
<1>5. ToolOutcome(c)' = ToolOutcome(c)
  BY <1>2 DEF ToolOutcome
<1>6. DelegationOutcome(c)' = DelegationOutcome(c)
  BY <1>1, <1>2 DEF DelegationOutcome
<1>7. \A o, t : EntryWith(c, o, t)' = EntryWith(c, o, t)
  BY <1>1 DEF EntryWith
<1>8. ModelEntry(c)' = ModelEntry(c)
  BY <1>3, <1>4, <1>7 DEF ModelEntry
<1>9. ToolEntry(c)' = ToolEntry(c)
  BY <1>2, <1>5, <1>7 DEF ToolEntry
<1>10. DelegationEntry(c)' = DelegationEntry(c)
  BY <1>1, <1>6, <1>7 DEF DelegationEntry
<1>11. EntryWith(c, "blocked", FALSE)' = EntryWith(c, "blocked", FALSE)
  BY <1>7
<1>12. Entry(c)' = Entry(c)
  <2>1. CASE call[c].end = "blocked"
    BY <1>1, <1>11, <2>1, Zenon DEF Entry
  <2>2. CASE call[c].end # "blocked"
    <3>1. CASE shape[c].proxy = "llm"
      <4>1. Entry(c) = ModelEntry(c)
        BY <2>2, <3>1 DEF Entry
      <4>2. Entry(c)' = ModelEntry(c)'
        BY <1>1, <2>2, <3>1 DEF Entry
      <4> QED
        BY <1>8, <4>1, <4>2
    <3>2. CASE shape[c].proxy = "mcp"
      <4>1. Entry(c) = ToolEntry(c)
        BY <2>2, <3>2 DEF Entry
      <4>2. Entry(c)' = ToolEntry(c)'
        BY <1>1, <2>2, <3>2 DEF Entry
      <4> QED
        BY <1>9, <4>1, <4>2
    <3>3. CASE shape[c].proxy = "a2a"
      <4>1. Entry(c) = DelegationEntry(c)
        BY <2>2, <3>3 DEF Entry
      <4>2. Entry(c)' = DelegationEntry(c)'
        BY <1>1, <2>2, <3>3 DEF Entry
      <4> QED
        BY <1>10, <4>1, <4>2
    <3> QED
      BY <3>1, <3>2, <3>3
  <2> QED
    BY <2>1, <2>2
<1> QED
  BY <1>2, <1>12
-----------------------------------------------------------------------------
\* The runs

\* Trouble is not taken back, no record goes.
Later == \A t \in Trouble : spent'[t] = 0 => spent[t] = 0
Quiet == RunsTyped' /\ Later /\ log' = log
\* The store has failed a caller, or a clash has.
Failed == spent'["fault"] # 0 \/ (Disturbed /\ spent'["clash"] # 0)
GrownIn(r, e) == RunsTyped' /\ Later /\ r \in Runs /\ log' = [log EXCEPT ![r] = Append(log[r], e)]

LEMMA SpendKeeps ==
  ASSUME spent \in [Trouble -> Nat], NEW t \in Trouble, Spend(t)
  PROVE  spent' \in [Trouble -> Nat] /\ Later /\ spent'[t] # 0
<1>1. spent' = [spent EXCEPT ![t] = @ + 1]
  BY Zenon DEF Spend
<1>2. spent[t] \in Nat /\ spent[t] + 1 \in Nat /\ spent[t] + 1 # 0
  OBVIOUS
<1> QED
  BY <1>1, <1>2 DEF Later

LEMMA ReplacedGives ==
  ASSUME RunsTyped, NEW es \in Seq(EntryOf), Replaced(es)
  PROVE  /\ live' \in [Runs -> {"absent", "open", "closed"}] /\ log' \in [Runs -> Seq(EntryOf)]
         /\ \A r \in Runs : live'[r] = "absent" => log'[r] = <<>>
         /\ current' \in Runs /\ live'[current'] = "open" /\ idle' = FALSE
         /\ log[current'] = <<>> /\ log' = [log EXCEPT ![current'] = es]
<1>1. /\ live \in [Runs -> {"absent", "open", "closed"}] /\ log \in [Runs -> Seq(EntryOf)]
      /\ \A r \in Runs : live[r] = "absent" => log[r] = <<>>
  BY DEF RunsTyped
<1>2. PICK r \in Runs, ended \in {TRUE, spent'["fault"] = 0} :
        /\ live[r] = "absent"
        /\ live' = [q \in Runs |-> IF q = r THEN "open"
                                   ELSE IF q = current /\ ended THEN "closed" ELSE live[q]]
        /\ log' = [log EXCEPT ![r] = es] /\ current' = r
  BY DEF Replaced, Fresh
<1>3. live' \in [Runs -> {"absent", "open", "closed"}] /\ live'[r] = "open"
  BY <1>1, <1>2
<1>4. log' \in [Runs -> Seq(EntryOf)]
  BY <1>1, <1>2
<1>5. ASSUME NEW q \in Runs, live'[q] = "absent"
      PROVE  log'[q] = <<>>
  BY <1>1, <1>2, <1>5
<1>6. log[r] = <<>> /\ idle' = FALSE
  BY <1>1, <1>2 DEF Replaced
<1> QED
  BY <1>2, <1>3, <1>4, <1>5, <1>6

LEMMA EmptyReplaced ==
  ASSUME RunsTyped, Replaced(<<>>), spent' \in [Trouble -> Nat], Later
  PROVE  Quiet /\ current' \in Runs
<1>1. /\ live' \in [Runs -> {"absent", "open", "closed"}] /\ log' \in [Runs -> Seq(EntryOf)]
      /\ \A r \in Runs : live'[r] = "absent" => log'[r] = <<>>
      /\ current' \in Runs /\ idle' = FALSE
      /\ log[current'] = <<>> /\ log' = [log EXCEPT ![current'] = <<>>]
  <2>1. <<>> \in Seq(EntryOf)
    OBVIOUS
  <2> QED
    BY <2>1, ReplacedGives, Zenon
<1>2. log' = log
  BY <1>1 DEF RunsTyped
<1> QED
  BY <1>1, <1>2 DEF Quiet, RunsTyped

LEMMA EndedKeeps ==
  ASSUME RunsTyped, Ended, spent' \in [Trouble -> Nat], Later
  PROVE  Quiet
<1>1. /\ current \in Runs /\ live' = [live EXCEPT ![current] = "closed"]
      /\ log' = log /\ current' = current /\ idle' = idle
  BY DEF Ended, RunsTyped
<1>2. live' \in [Runs -> {"absent", "open", "closed"}]
  BY <1>1 DEF RunsTyped
<1>3. ASSUME NEW q \in Runs, live'[q] = "absent"
      PROVE  log[q] = <<>>
  BY <1>1, <1>3 DEF RunsTyped
<1> QED
  BY <1>1, <1>2, <1>3 DEF Quiet, RunsTyped

LEMMA RunsStay ==
  ASSUME RunsTyped, UNCHANGED runs, spent' \in [Trouble -> Nat], Later
  PROVE  Quiet
<1>1. live' = live /\ log' = log /\ current' = current /\ idle' = idle
  BY DEF runs
<1> QED
  BY <1>1 DEF Quiet, RunsTyped

LEMMA SameSpent ==
  ASSUME RunsTyped, UNCHANGED spent
  PROVE  spent' \in [Trouble -> Nat] /\ Later
BY DEF RunsTyped, Later

LEMMA FaultKeeps ==
  ASSUME RunsTyped, Spend("fault")
  PROVE  spent' \in [Trouble -> Nat] /\ Later /\ spent'["fault"] # 0
<1>1. "fault" \in Trouble /\ spent \in [Trouble -> Nat]
  BY GroupedAssumption DEF RunsTyped
<1> QED
  BY <1>1, SpendKeeps

LEMMA ClashKeeps ==
  ASSUME RunsTyped, Clash
  PROVE  spent' \in [Trouble -> Nat] /\ Later /\ Failed
<1>1. "clash" \in Trouble /\ spent \in [Trouble -> Nat] /\ Spend("clash")
  BY GroupedAssumption DEF RunsTyped, Clash
<1> QED
  BY <1>1, SpendKeeps DEF Clash, Failed

LEMMA RunForKeeps ==
  ASSUME RunsTyped, RunFor
  PROVE  Quiet /\ current' \in Runs
<1>1. CASE Usable /\ UNCHANGED <<runs, spent>>
  BY <1>1, RunsStay, SameSpent DEF Usable, RunsTyped, runs
<1>2. CASE UNCHANGED spent /\ Replaced(<<>>)
  BY <1>2, EmptyReplaced, SameSpent
<1>3. CASE Spend("fault") /\ Replaced(<<>>)
  BY <1>3, EmptyReplaced, FaultKeeps
<1> QED
  BY <1>1, <1>2, <1>3 DEF RunFor

LEMMA NoRunKeeps ==
  ASSUME RunsTyped, NoRun
  PROVE  Quiet /\ Failed
<1>1. Spend("fault") /\ (UNCHANGED runs \/ Ended)
  BY Zenon DEF NoRun
<1> QED
  BY <1>1, FaultKeeps, RunsStay, EndedKeeps DEF Failed

LEMMA NotStoredKeeps ==
  ASSUME RunsTyped, NotStored
  PROVE  Quiet /\ Failed
<1>1. (Spend("fault") \/ Clash) /\ (UNCHANGED runs \/ Ended \/ Replaced(<<>>))
  BY Zenon DEF NotStored
<1>2. spent' \in [Trouble -> Nat] /\ Later /\ Failed
  BY <1>1, FaultKeeps, ClashKeeps DEF Failed
<1> QED
  BY <1>1, <1>2, RunsStay, EndedKeeps, EmptyReplaced

LEMMA ReplacingKeeps ==
  ASSUME RunsTyped, Replacing
  PROVE  Quiet
<1>1. Spend("split") /\ (Ended \/ Replaced(<<>>))
  BY DEF Replacing
<1>2. "split" \in Trouble /\ spent \in [Trouble -> Nat]
  BY GroupedAssumption DEF RunsTyped
<1>3. spent' \in [Trouble -> Nat] /\ Later
  BY <1>1, <1>2, SpendKeeps
<1> QED
  BY <1>1, <1>3, EndedKeeps, EmptyReplaced

LEMMA OneReplaced ==
  ASSUME RunsTyped, NEW e \in EntryOf, Replaced(<<e>>), spent' \in [Trouble -> Nat], Later
  PROVE  GrownIn(current', e)
<1>1. <<e>> \in Seq(EntryOf)
  OBVIOUS
<1>2. /\ live' \in [Runs -> {"absent", "open", "closed"}] /\ log' \in [Runs -> Seq(EntryOf)]
      /\ \A r \in Runs : live'[r] = "absent" => log'[r] = <<>>
      /\ current' \in Runs /\ idle' = FALSE
      /\ log[current'] = <<>> /\ log' = [log EXCEPT ![current'] = <<e>>]
  BY <1>1, ReplacedGives
<1>3. Append(<<>>, e) = <<e>>
  OBVIOUS
<1>4. log' = [log EXCEPT ![current'] = Append(log[current'], e)]
  BY <1>2, <1>3
<1> QED
  BY <1>2, <1>4 DEF GrownIn, RunsTyped

LEMMA AppendedGives ==
  ASSUME RunsTyped, NEW r \in Runs, NEW e \in EntryOf, live[r] = "open",
         log' = [log EXCEPT ![r] = Append(@, e)], UNCHANGED <<live, current, idle>>,
         spent' \in [Trouble -> Nat], Later
  PROVE  GrownIn(r, e)
<1>1. log[r] \in Seq(EntryOf) /\ Append(log[r], e) \in Seq(EntryOf)
  BY DEF RunsTyped
<1>2. log' \in [Runs -> Seq(EntryOf)]
  BY <1>1 DEF RunsTyped
<1>3. ASSUME NEW q \in Runs, live'[q] = "absent"
      PROVE  log'[q] = <<>>
  BY <1>3 DEF RunsTyped
<1> QED
  BY <1>1, <1>2, <1>3 DEF GrownIn, RunsTyped

LEMMA LostSpent ==
  ASSUME RunsTyped, Spend("lost")
  PROVE  spent' \in [Trouble -> Nat] /\ Later /\ spent'["lost"] # 0
<1>1. "lost" \in Trouble /\ spent \in [Trouble -> Nat]
  BY GroupedAssumption DEF RunsTyped
<1> QED
  BY <1>1, SpendKeeps

\* The store has e, and did not say so.
LEMMA LostGives ==
  ASSUME RunsTyped, NEW e \in EntryOf, Lost(e)
  PROVE  spent'["lost"] # 0 /\ \E q \in Runs : GrownIn(q, e)
<1>1. spent' \in [Trouble -> Nat] /\ Later /\ spent'["lost"] # 0
  BY LostSpent, Zenon DEF Lost
<1>2. CASE \E r \in Runs : Appended(r, e)
  BY <1>1, <1>2, AppendedGives DEF Appended
<1>3. CASE Replaced(<<e>>)
  <2>1. GrownIn(current', e)
    BY <1>1, <1>3, OneReplaced
  <2> QED
    BY <1>1, <2>1 DEF GrownIn
<1> QED
  BY <1>2, <1>3, Zenon DEF Lost

LEMMA StoredGives ==
  ASSUME RunsTyped, NEW r \in Runs, NEW e \in EntryOf, Stored(r, e)
  PROVE  GrownIn(r, e)
<1>1. CASE Appended(r, e) /\ UNCHANGED spent
  BY <1>1, AppendedGives, SameSpent DEF Appended
<1>2. CASE UNCHANGED spent /\ Replaced(<<e>>) /\ current' = r
  BY <1>2, OneReplaced, SameSpent
<1>3. CASE Spend("fault") /\ Replaced(<<e>>) /\ current' = r
  BY <1>3, OneReplaced, FaultKeeps
<1>4. CASE Clash /\ Replaced(<<e>>) /\ current' = r
  BY <1>4, OneReplaced, ClashKeeps
<1> QED
  BY <1>1, <1>2, <1>3, <1>4, Zenon DEF Stored
-----------------------------------------------------------------------------
\* What a record says of its reply

LEMMA ShapeIs ==
  ASSUME CallsTyped, NEW c \in Calls
  PROVE  shape[c] \in ShapeOf /\ WellAsked(shape[c])
BY ShapesAssumption DEF CallsTyped

LEMMA ReceivedIs ==
  ASSUME CallsTyped, NEW c \in Calls, call[c].got <= Len(shape[c].events)
  PROVE  /\ call[c].got \in Nat /\ Len(Received(c)) = call[c].got
         /\ \A i \in 1..call[c].got : i \in 1..Len(shape[c].events)
                                     /\ Received(c)[i] = shape[c].events[i]
<1>1. shape[c].events \in Seq({"delta", "working", "completed", "failed", "message", "error", "result",
                               "input"})
  BY ShapeIs DEF ShapeOf
<1>2. call[c].got \in Nat
  BY DEF CallsTyped, CallOf
<1>3. Len(shape[c].events) \in Nat
  BY <1>1
<1> QED
  BY <1>1, <1>2, <1>3 DEF Received

\* Whatever is neither a token nor a sign of work is the last event of a reply.
LEMMA OnlyLast ==
  ASSUME CallsTyped, NEW c \in Calls, NEW i \in 1..Len(shape[c].events),
         shape[c].events[i] \notin {"delta", "working"}
  PROVE  i = Len(shape[c].events)
<1>1. WellAsked(shape[c]) /\ Len(shape[c].events) \in Nat
  BY ShapeIs DEF ShapeOf
<1>2. \A j \in 1..Len(shape[c].events) - 1 : shape[c].events[j] \in {"delta", "working"}
  BY <1>1 DEF WellAsked
<1> QED
  BY <1>1, <1>2

LEMMA ResponsesAre ==
  ASSUME CallsTyped, NEW c \in Calls, call[c].got <= Len(shape[c].events),
         ResponsesIn(Received(c)) # {}
  PROVE  /\ Min(ResponsesIn(Received(c))) = Len(shape[c].events)
         /\ call[c].got = Len(shape[c].events)
         /\ Received(c)[Min(ResponsesIn(Received(c)))] = shape[c].events[Len(shape[c].events)]
         /\ Received(c)[Min(ResponsesIn(Received(c)))] \in {"result", "error", "input"}
<1> DEFINE m == Min(ResponsesIn(Received(c)))
<1>1. /\ call[c].got \in Nat /\ Len(Received(c)) = call[c].got
      /\ \A i \in 1..call[c].got : i \in 1..Len(shape[c].events)
                                  /\ Received(c)[i] = shape[c].events[i]
  BY ReceivedIs
<1>2. ResponsesIn(Received(c)) \in SUBSET Nat
  BY <1>1 DEF ResponsesIn
<1>3. m \in ResponsesIn(Received(c))
  BY <1>2, LeastOf
<1>4. m \in 1..call[c].got /\ Received(c)[m] \in {"result", "error", "input"}
  BY <1>1, <1>3 DEF ResponsesIn
<1>5. m \in 1..Len(shape[c].events) /\ Received(c)[m] = shape[c].events[m]
  BY <1>1, <1>4
<1>6. m = Len(shape[c].events)
  BY <1>4, <1>5, OnlyLast
<1>7. Len(shape[c].events) \in Nat
  BY ShapeIs DEF ShapeOf
<1> QED
  BY <1>1, <1>4, <1>5, <1>6, <1>7

LEMMA ToolOutcomeIs ==
  ASSUME CallsTyped, NEW c \in Calls, call[c].got <= Len(shape[c].events)
  PROVE  /\ ToolOutcome(c) \in {"success", "pending", "error"}
         /\ ToolOutcome(c) = "success" => call[c].got = Len(shape[c].events)
         /\ Has(Received(c), "result") => ToolOutcome(c) = "success"
<1>1. CASE ResponsesIn(Received(c)) = {}
  <2>1. ToolOutcome(c) = "error"
    BY <1>1 DEF ToolOutcome
  <2>2. ~Has(Received(c), "result")
    BY <1>1 DEF Has, ResponsesIn
  <2> QED
    BY <2>1, <2>2
<1>2. CASE ResponsesIn(Received(c)) # {}
  <2> DEFINE m == Min(ResponsesIn(Received(c)))
  <2>1. /\ m = Len(shape[c].events) /\ call[c].got = Len(shape[c].events)
        /\ Received(c)[m] = shape[c].events[Len(shape[c].events)]
        /\ Received(c)[m] \in {"result", "error", "input"}
    BY <1>2, ResponsesAre
  <2>2. /\ Received(c)[m] = "result" => ToolOutcome(c) = "success"
        /\ Received(c)[m] = "input"  => ToolOutcome(c) = "pending"
        /\ Received(c)[m] = "error"  => ToolOutcome(c) = "error"
    BY <1>2 DEF ToolOutcome
  <2>3. ASSUME Has(Received(c), "result")
        PROVE  Received(c)[m] = "result"
    <3>1. /\ call[c].got \in Nat /\ Len(Received(c)) = call[c].got
          /\ \A i \in 1..call[c].got : i \in 1..Len(shape[c].events)
                                      /\ Received(c)[i] = shape[c].events[i]
      BY ReceivedIs
    <3>2. PICK i \in 1..call[c].got : Received(c)[i] = "result"
      BY <2>3, <3>1 DEF Has
    <3>3. i \in 1..Len(shape[c].events) /\ shape[c].events[i] = "result"
      BY <3>1, <3>2
    <3>4. i = Len(shape[c].events)
      BY <3>3, OnlyLast
    <3> QED
      BY <2>1, <3>3, <3>4
  <2> QED
    BY <2>1, <2>2, <2>3
<1> QED
  BY <1>1, <1>2

LEMMA DelegationOutcomeIs ==
  ASSUME CallsTyped, NEW c \in Calls, call[c].got <= Len(shape[c].events)
  PROVE  /\ DelegationOutcome(c) \in {"success", "pending", "error"}
         /\ DelegationOutcome(c) = "success" =>
               call[c].got = Len(shape[c].events) \/ shape[c].body = "other"
<1> DEFINE events == Received(c)
           states == {i \in 1..Len(events) : events[i] \in {"working", "completed", "failed"}}
           s == Max(states)
<1>1. /\ call[c].got \in Nat /\ Len(Received(c)) = call[c].got
      /\ \A i \in 1..call[c].got : i \in 1..Len(shape[c].events)
                                  /\ Received(c)[i] = shape[c].events[i]
  BY ReceivedIs
<1>2. Len(shape[c].events) \in Nat
  BY ShapeIs DEF ShapeOf
<1>3. CASE events = <<>> \/ Has(events, "error")
  BY <1>3 DEF DelegationOutcome
<1>4. CASE ~(events = <<>> \/ Has(events, "error")) /\ states # {}
  <2>1. s \in states
    <3>1. states \in SUBSET (1..call[c].got)
      BY <1>1
    <3> HIDE DEF states
    <3> QED
      BY <1>1, <1>4, <3>1, GreatestOf
  <2>2. /\ events[s] = "completed" => DelegationOutcome(c) = "success"
        /\ events[s] = "failed"    => DelegationOutcome(c) = "error"
        /\ events[s] = "working"   => DelegationOutcome(c) = "pending"
    BY <1>4 DEF DelegationOutcome
  <2>3. s \in 1..call[c].got /\ events[s] \in {"working", "completed", "failed"}
    BY <1>1, <2>1
  <2>4. ASSUME events[s] = "completed"
        PROVE  call[c].got = Len(shape[c].events)
    <3>1. s \in 1..Len(shape[c].events) /\ shape[c].events[s] = "completed"
      BY <1>1, <2>3, <2>4
    <3>2. s = Len(shape[c].events)
      BY <3>1, OnlyLast
    <3> QED
      BY <1>1, <1>2, <2>3, <3>2
  <2> QED
    BY <2>2, <2>3, <2>4
<1>5. CASE ~(events = <<>> \/ Has(events, "error")) /\ states = {}
  <2>1. DelegationOutcome(c) = IF Has(events, "message") \/ shape[c].body = "other"
                               THEN "success" ELSE "error"
    BY <1>5 DEF DelegationOutcome
  <2>2. ASSUME Has(events, "message")
        PROVE  call[c].got = Len(shape[c].events)
    <3>1. PICK i \in 1..call[c].got : events[i] = "message"
      BY <1>1, <2>2 DEF Has
    <3>2. i \in 1..Len(shape[c].events) /\ shape[c].events[i] = "message"
      BY <1>1, <3>1
    <3>3. i = Len(shape[c].events)
      BY <3>2, OnlyLast
    <3> QED
      BY <1>1, <1>2, <3>1, <3>3
  <2> QED
    BY <2>1, <2>2
<1> QED
  BY <1>3, <1>4, <1>5

LEMMA EntryIs ==
  ASSUME CallsTyped, NEW c \in Calls, call[c].got <= Len(shape[c].events)
  PROVE  /\ Entry(c) \in EntryOf /\ Entry(c).by = c /\ Entry(c).chunks = call[c].got
         /\ Entry(c).version = IF shape[c].body = "list" THEN call[c].version ELSE 0
         /\ call[c].end # "blocked" =>
              /\ shape[c].proxy = "llm" => Entry(c) = ModelEntry(c)
              /\ shape[c].proxy = "mcp" => Entry(c) = ToolEntry(c)
              /\ shape[c].proxy = "a2a" => Entry(c) = DelegationEntry(c)
<1>1. shape[c].proxy \in {"llm", "mcp", "a2a"}
  BY ShapeIs DEF ShapeOf
<1>2. call[c].got \in Nat /\ call[c].version \in Versions
  BY DEF CallsTyped, CallOf
<1>3. ASSUME NEW o \in Outcomes, NEW t \in BOOLEAN
      PROVE  /\ EntryWith(c, o, t) \in EntryOf /\ EntryWith(c, o, t).by = c
             /\ EntryWith(c, o, t).chunks = call[c].got
             /\ EntryWith(c, o, t).version = IF shape[c].body = "list" THEN call[c].version ELSE 0
  BY <1>2 DEF EntryWith, EntryOf, Versions
<1>4. ModelOutcome(c) \in Outcomes /\ ModelTruncated(c) \in BOOLEAN
  BY DEF ModelOutcome, ModelTruncated, Outcomes
<1>5. ToolOutcome(c) \in Outcomes /\ DelegationOutcome(c) \in Outcomes
  BY ToolOutcomeIs, DelegationOutcomeIs DEF Outcomes
<1>6. \E o \in Outcomes, t \in BOOLEAN : Entry(c) = EntryWith(c, o, t)
  <2>1. CASE call[c].end = "blocked"
    BY <2>1 DEF Entry, Outcomes
  <2>2. CASE call[c].end # "blocked" /\ shape[c].proxy = "llm"
    BY <1>4, <2>2 DEF Entry, ModelEntry
  <2>3. CASE call[c].end # "blocked" /\ shape[c].proxy = "mcp"
    <3>1. Entry(c) = EntryWith(c, ToolOutcome(c), ResponsesIn(Received(c)) = {})
      BY <2>3 DEF Entry, ToolEntry
    <3>2. (ResponsesIn(Received(c)) = {}) \in BOOLEAN
      OBVIOUS
    <3> QED
      BY <1>5, <3>1, <3>2, Zenon
  <2>4. CASE call[c].end # "blocked" /\ shape[c].proxy = "a2a"
    <3>1. Entry(c) = EntryWith(c, DelegationOutcome(c), call[c].got = 0)
      BY <2>4 DEF Entry, DelegationEntry
    <3>2. (call[c].got = 0) \in BOOLEAN
      OBVIOUS
    <3> QED
      BY <1>5, <3>1, <3>2, Zenon
  <2> QED
    BY <1>1, <2>1, <2>2, <2>3, <2>4
<1>7. call[c].end # "blocked" =>
        /\ shape[c].proxy = "llm" => Entry(c) = ModelEntry(c)
        /\ shape[c].proxy = "mcp" => Entry(c) = ToolEntry(c)
        /\ shape[c].proxy = "a2a" => Entry(c) = DelegationEntry(c)
  BY DEF Entry
<1> QED
  BY <1>3, <1>6, <1>7

LEMMA ListingIs ==
  ASSUME CallsTyped, NEW c \in Calls, call[c].got <= Len(shape[c].events),
         shape[c].body = "list", call[c].end # "blocked", Has(Received(c), "result"),
         call[c].version \in {1, 2}
  PROVE  Listing(Entry(c)) /\ Entry(c).version = call[c].version
<1>1. shape[c].proxy = "mcp"
  BY ShapeIs DEF WellAsked
<1>2. Entry(c) = ToolEntry(c) /\ Entry(c).by = c /\ Entry(c).version = call[c].version
  BY <1>1, EntryIs
<1>3. ToolEntry(c).outcome = "success"
  BY ToolOutcomeIs DEF ToolEntry, EntryWith
<1> QED
  BY <1>2, <1>3 DEF Listing

\* A stream that broke off or was left is recorded as what it was.
LEMMA CutStreamIs ==
  ASSUME CallsTyped, NEW c \in Calls, call[c].got <= Len(shape[c].events), Recordable(shape[c]),
         shape[c].stream, call[c].end \in {"cut", "left"}
  PROVE  /\ Entry(c).outcome = "success" =>
               call[c].got = Len(shape[c].events) \/ shape[c].body = "other"
         /\ shape[c].proxy = "mcp" => (Entry(c).truncated <=> call[c].got # Len(shape[c].events))
         /\ shape[c].proxy = "llm" =>
              (Entry(c).truncated <=> (\/ call[c].got # Len(shape[c].events)
                                       \/ shape[c].events[Len(shape[c].events)] = "error"))
<1> DEFINE n == Len(shape[c].events)
<1>1. /\ call[c].got \in Nat /\ Len(Received(c)) = call[c].got
      /\ \A i \in 1..call[c].got : i \in 1..Len(shape[c].events)
                                  /\ Received(c)[i] = shape[c].events[i]
  BY ReceivedIs
<1>2. n \in Nat /\ WellAsked(shape[c]) /\ shape[c].proxy \in {"llm", "mcp", "a2a"}
      /\ shape[c].events \in Seq({"delta", "working", "completed", "failed", "message", "error",
                                  "result", "input"})
  BY ShapeIs DEF ShapeOf
<1>3. shape[c].proxy \in {"llm", "mcp"} => shape[c].body \in {"act", "list"}
  BY <1>2 DEF Recordable, Parsed, ParseModel, ParseTool
<1>4. shape[c].proxy \in {"llm", "mcp"} => n \in 1..n
  <2>1. shape[c].proxy \in {"llm", "mcp"} => shape[c].events # <<>>
    BY <1>2, <1>3 DEF WellAsked
  <2> QED
    BY <1>2, <2>1
<1>5. shape[c].proxy = "llm" => shape[c].events[n] \in {"result", "error"}
  BY <1>2, <1>3 DEF WellAsked
<1>6. shape[c].proxy = "mcp" => shape[c].events[n] \in {"result", "error", "input"}
  BY <1>2, <1>3 DEF WellAsked
<1>7. /\ shape[c].proxy = "llm" => Entry(c) = ModelEntry(c)
      /\ shape[c].proxy = "mcp" => Entry(c) = ToolEntry(c)
      /\ shape[c].proxy = "a2a" => Entry(c) = DelegationEntry(c)
  BY EntryIs
<1>8. CASE shape[c].proxy = "llm"
  <2>1. Entry(c).outcome = ModelOutcome(c) /\ Entry(c).truncated = ModelTruncated(c)
    BY <1>7, <1>8 DEF ModelEntry, EntryWith
  <2>2. ModelTruncated(c) <=> ~Has(Received(c), "result")
    BY DEF ModelTruncated, EndSeen
  <2>3. ModelOutcome(c) = "success" => Has(Received(c), "result")
    BY <2>2 DEF ModelOutcome
  <2>4. ASSUME Has(Received(c), "result")
        PROVE  call[c].got = n /\ shape[c].events[n] = "result"
    <3>1. PICK i \in 1..call[c].got : Received(c)[i] = "result"
      BY <1>1, <2>4 DEF Has
    <3>2. i \in 1..n /\ shape[c].events[i] = "result"
      BY <1>1, <3>1
    <3>3. i = n
      BY <3>2, OnlyLast
    <3> QED
      BY <1>1, <1>2, <3>1, <3>2, <3>3
  <2>5. ASSUME call[c].got = n, shape[c].events[n] = "result"
        PROVE  Has(Received(c), "result")
    BY <1>1, <1>4, <1>8, <2>5 DEF Has
  <2> QED
    BY <1>5, <1>8, <2>1, <2>2, <2>3, <2>4, <2>5
<1>9. CASE shape[c].proxy = "mcp"
  <2>1. Entry(c).outcome = ToolOutcome(c) /\ Entry(c).truncated = (ResponsesIn(Received(c)) = {})
    BY <1>7, <1>9 DEF ToolEntry, EntryWith
  <2>2. ResponsesIn(Received(c)) # {} => call[c].got = n
    BY ResponsesAre
  <2>3. ASSUME call[c].got = n
        PROVE  ResponsesIn(Received(c)) # {}
    BY <1>1, <1>4, <1>6, <1>9, <2>3 DEF ResponsesIn
  <2>4. ToolOutcome(c) = "success" => call[c].got = n
    BY ToolOutcomeIs
  <2> QED
    BY <1>9, <2>1, <2>2, <2>3, <2>4
<1>10. CASE shape[c].proxy = "a2a"
  <2>1. Entry(c).outcome = DelegationOutcome(c)
    BY <1>7, <1>10 DEF DelegationEntry, EntryWith
  <2> QED
    BY <1>10, <2>1, DelegationOutcomeIs
<1> QED
  BY <1>2, <1>8, <1>9, <1>10

-----------------------------------------------------------------------------
\* What a step of a call does

\* Only the call c moves, and it was not over.
Moved(c) ==
    /\ CallsTyped' /\ shape' = shape /\ tools' = tools
    /\ \A d \in Calls \ {c} : call'[d] = call[d]
    /\ call[c].pc # "done"
    /\ call[c].pc = "record" => SameCall(c) /\ call'[c].pc \in {"record", "done"}

\* The call c moves and nothing is recorded.
Silent(c) == Moved(c) /\ Quiet /\ CallOK(c)' /\ Told(c)'

LEMMA CallIs ==
  ASSUME SafeInv, NEW c \in Calls
  PROVE  /\ CallsTyped /\ RunsTyped /\ CallOK(c) /\ shape[c] \in ShapeOf /\ WellAsked(shape[c])
         /\ call \in [Calls -> CallOf] /\ call[c] \in CallOf /\ Len(shape[c].events) \in Nat
<1>1. CallsTyped /\ RunsTyped /\ CallOK(c)
  BY DEF SafeInv, Typed
<1>2. shape[c] \in ShapeOf /\ WellAsked(shape[c])
  BY <1>1, ShapeIs
<1> QED
  BY <1>1, <1>2 DEF CallsTyped, ShapeOf

LEMMA UnchangedRuns ==
  ASSUME SafeInv, UNCHANGED runs, UNCHANGED spent
  PROVE  Quiet
BY RunsStay, SameSpent DEF SafeInv, Typed

LEMMA CallBecomes ==
  ASSUME call \in [Calls -> CallOf], NEW c \in Calls, NEW k \in CallOf, call' = [call EXCEPT ![c] = k]
  PROVE  call' \in [Calls -> CallOf] /\ call'[c] = k /\ \A d \in Calls \ {c} : call'[d] = call[d]
OBVIOUS

LEMMA RefuseSafe ==
  ASSUME SafeInv, NEW c \in Calls, Refuse(c)
  PROVE  Silent(c)
<1>1. /\ CallsTyped /\ CallOK(c) /\ call \in [Calls -> CallOf] /\ call[c] \in CallOf
      /\ call' = [call EXCEPT ![c].pc = "done", ![c].reply = "refused"] /\ call[c].pc = "arrive"
      /\ shape' = shape /\ tools' = tools /\ seen' = seen
  BY CallIs DEF Refuse, Answer
<1>2. /\ call' \in [Calls -> CallOf] /\ call'[c] = [call[c] EXCEPT !.pc = "done", !.reply = "refused"]
      /\ \A d \in Calls \ {c} : call'[d] = call[d]
  BY <1>1 DEF CallOf
<1>3. Moved(c)
  BY <1>1, <1>2 DEF Moved, CallsTyped
<1>4. CallOK(c)'
  BY <1>1, <1>2 DEF CallOK, CallOf, Out
<1>5. Told(c)'
  BY <1>1, <1>2 DEF Told, CallOf
<1> QED
  BY <1>3, <1>4, <1>5, UnchangedRuns DEF Silent, Refuse

LEMMA BlockSafe ==
  ASSUME SafeInv, NEW c \in Calls, Block(c)
  PROVE  Silent(c)
<1>1. /\ CallsTyped /\ CallOK(c) /\ call \in [Calls -> CallOf] /\ call[c] \in CallOf
      /\ call' = [call EXCEPT ![c].pc = "record", ![c].end = "blocked"] /\ call[c].pc = "arrive"
      /\ shape' = shape /\ tools' = tools /\ seen' = seen /\ Recordable(shape[c])
  BY CallIs DEF Block, Blocked
<1>2. /\ call' \in [Calls -> CallOf] /\ call'[c] = [call[c] EXCEPT !.pc = "record", !.end = "blocked"]
      /\ \A d \in Calls \ {c} : call'[d] = call[d]
  BY <1>1 DEF CallOf
<1>3. Moved(c)
  BY <1>1, <1>2 DEF Moved, CallsTyped
<1>4. CallOK(c)'
  BY <1>1, <1>2 DEF CallOK, CallOf, Out
<1>5. Told(c)'
  BY <1>1, <1>2, GroupedAssumption DEF Told, CallOf, CallOK
<1> QED
  BY <1>3, <1>4, <1>5, UnchangedRuns DEF Silent, Block

LEMMA AdmitSafe ==
  ASSUME SafeInv, NEW c \in Calls, Admit(c)
  PROVE  Silent(c)
<1>1. /\ CallsTyped /\ CallOK(c) /\ shape[c] \in ShapeOf
      /\ call \in [Calls -> CallOf] /\ call[c] \in CallOf
      /\ call' = [call EXCEPT ![c].pc =
                    IF shape[c].proxy = "a2a" /\ Recordable(shape[c]) THEN "announce" ELSE "send"] /\ call[c].pc = "arrive"
      /\ Parsed(shape[c]) # "refused" /\ ~Blocked(shape[c])
      /\ shape' = shape /\ tools' = tools /\ seen' = seen
  BY CallIs DEF Admit, Answer
<1>2. /\ call' \in [Calls -> CallOf] /\ call'[c] = [call[c] EXCEPT !.pc =
                    IF shape[c].proxy = "a2a" /\ Recordable(shape[c]) THEN "announce" ELSE "send"]
      /\ \A d \in Calls \ {c} : call'[d] = call[d]
  BY <1>1 DEF CallOf, Out, CallsTyped, Versions
<1>3. Moved(c)
  BY <1>1, <1>2 DEF Moved, CallsTyped
<1>4. CallOK(c)'
  BY <1>1, <1>2 DEF CallOK, CallOf, Out
<1>5. Told(c)'
  BY <1>1, <1>2, GroupedAssumption DEF Told, CallOf, CallOK
<1> QED
  BY <1>3, <1>4, <1>5, UnchangedRuns DEF Silent, Admit

LEMMA ModelUnreachableSafe ==
  ASSUME SafeInv, NEW c \in Calls, ModelUnreachable(c)
  PROVE  Silent(c)
<1>1. /\ CallsTyped /\ CallOK(c) /\ shape[c] \in ShapeOf
      /\ call \in [Calls -> CallOf] /\ call[c] \in CallOf
      /\ call' = [call EXCEPT ![c].pc = "record", ![c].end = "unreachable"] /\ call[c].pc = "send" /\ shape[c].proxy = "llm"
      /\ shape' = shape /\ tools' = tools /\ seen' = seen
  BY CallIs DEF ModelUnreachable, Answer
<1>2. /\ call' \in [Calls -> CallOf] /\ call'[c] = [call[c] EXCEPT !.pc = "record", !.end = "unreachable"]
      /\ \A d \in Calls \ {c} : call'[d] = call[d]
  BY <1>1 DEF CallOf, Out, CallsTyped, Versions
<1>3. Moved(c)
  BY <1>1, <1>2 DEF Moved, CallsTyped
<1>4. CallOK(c)'
  BY <1>1, <1>2 DEF CallOK, CallOf, Out, Recordable, Parsed, ParseModel
<1>5. Told(c)'
  BY <1>1, <1>2, GroupedAssumption DEF Told, CallOf, CallOK
<1> QED
  BY <1>3, <1>4, <1>5, UnchangedRuns DEF Silent, ModelUnreachable

LEMMA TargetUnreachableSafe ==
  ASSUME SafeInv, NEW c \in Calls, TargetUnreachable(c)
  PROVE  Silent(c)
<1>1. /\ CallsTyped /\ CallOK(c) /\ shape[c] \in ShapeOf
      /\ call \in [Calls -> CallOf] /\ call[c] \in CallOf
      /\ call' = [call EXCEPT ![c].pc = "done", ![c].reply = "failed"] /\ call[c].pc = "send"
      /\ shape' = shape /\ tools' = tools /\ seen' = seen
  BY CallIs DEF TargetUnreachable, Answer
<1>2. /\ call' \in [Calls -> CallOf] /\ call'[c] = [call[c] EXCEPT !.pc = "done", !.reply = "failed"]
      /\ \A d \in Calls \ {c} : call'[d] = call[d]
  BY <1>1 DEF CallOf, Out, CallsTyped, Versions
<1>3. Moved(c)
  BY <1>1, <1>2 DEF Moved, CallsTyped
<1>4. CallOK(c)'
  BY <1>1, <1>2 DEF CallOK, CallOf, Out
<1>5. Told(c)'
  BY <1>1, <1>2, GroupedAssumption DEF Told, CallOf, CallOK
<1> QED
  BY <1>3, <1>4, <1>5, UnchangedRuns DEF Silent, TargetUnreachable

LEMMA ModelRefusedSafe ==
  ASSUME SafeInv, NEW c \in Calls, ModelRefused(c)
  PROVE  Silent(c)
<1>1. /\ CallsTyped /\ CallOK(c) /\ shape[c] \in ShapeOf
      /\ call \in [Calls -> CallOf] /\ call[c] \in CallOf
      /\ call' = [call EXCEPT ![c].pc = "refusal"] /\ call[c].pc = "send" /\ shape[c].proxy = "llm"
      /\ shape' = shape /\ tools' = tools /\ seen' = seen
  BY CallIs DEF ModelRefused, Answer
<1>2. /\ call' \in [Calls -> CallOf] /\ call'[c] = [call[c] EXCEPT !.pc = "refusal"]
      /\ \A d \in Calls \ {c} : call'[d] = call[d]
  BY <1>1 DEF CallOf, Out, CallsTyped, Versions
<1>3. Moved(c)
  BY <1>1, <1>2 DEF Moved, CallsTyped
<1>4. CallOK(c)'
  BY <1>1, <1>2 DEF CallOK, CallOf, Out, Recordable, Parsed, ParseModel
<1>5. Told(c)'
  BY <1>1, <1>2, GroupedAssumption DEF Told, CallOf, CallOK
<1> QED
  BY <1>3, <1>4, <1>5, UnchangedRuns DEF Silent, ModelRefused

LEMMA RelayedSafe ==
  ASSUME SafeInv, NEW c \in Calls, Relayed(c)
  PROVE  Silent(c)
<1>1. /\ CallsTyped /\ CallOK(c) /\ shape[c] \in ShapeOf
      /\ call \in [Calls -> CallOf] /\ call[c] \in CallOf
      /\ call' = [call EXCEPT ![c].pc = "done", ![c].reply = "relayed"] /\ call[c].pc = "send"
      /\ shape' = shape /\ tools' = tools /\ seen' = seen
  BY CallIs DEF Relayed, Answer
<1>2. /\ call' \in [Calls -> CallOf] /\ call'[c] = [call[c] EXCEPT !.pc = "done", !.reply = "relayed"]
      /\ \A d \in Calls \ {c} : call'[d] = call[d]
  BY <1>1 DEF CallOf, Out, CallsTyped, Versions
<1>3. Moved(c)
  BY <1>1, <1>2 DEF Moved, CallsTyped
<1>4. CallOK(c)'
  BY <1>1, <1>2 DEF CallOK, CallOf, Out
<1>5. Told(c)'
  BY <1>1, <1>2, GroupedAssumption DEF Told, CallOf, CallOK
<1> QED
  BY <1>3, <1>4, <1>5, UnchangedRuns DEF Silent, Relayed

LEMMA BeginSafe ==
  ASSUME SafeInv, NEW c \in Calls, Begin(c)
  PROVE  Silent(c)
<1>1. /\ CallsTyped /\ CallOK(c) /\ shape[c] \in ShapeOf
      /\ call \in [Calls -> CallOf] /\ call[c] \in CallOf
      /\ call' = [call EXCEPT ![c].version = tools,
                             ![c].pc = IF shape[c].stream THEN "relay" ELSE "read"] /\ call[c].pc = "send" /\ Recordable(shape[c]) /\ tools \in {1, 2}
      /\ shape' = shape /\ tools' = tools /\ seen' = seen
  BY CallIs DEF Begin, CallsTyped
<1>2. /\ call' \in [Calls -> CallOf]
      /\ call'[c] = [call[c] EXCEPT !.version = tools,
                                   !.pc = IF shape[c].stream THEN "relay" ELSE "read"]
      /\ \A d \in Calls \ {c} : call'[d] = call[d]
  <2> DEFINE pc == IF shape[c].stream THEN "relay" ELSE "read"
             k == [call[c] EXCEPT !.version = tools, !.pc = pc]
  <2>1. pc \in Out
    BY DEF Out
  <2>2. call' = [call EXCEPT ![c] = k]
    BY <1>1
  <2> HIDE DEF pc
  <2>3. k \in CallOf
    BY <1>1, <2>1 DEF CallOf, Versions
  <2> HIDE DEF k
  <2>4. call' \in [Calls -> CallOf] /\ call'[c] = k /\ \A d \in Calls \ {c} : call'[d] = call[d]
    BY <1>1, <2>2, <2>3, CallBecomes
  <2> QED
    BY <2>4 DEF k, pc
<1>3. Moved(c)
  BY <1>1, <1>2 DEF Moved, CallsTyped
<1>4. CallOK(c)'
  BY <1>1, <1>2 DEF CallOK, CallOf, Out
<1>5. Told(c)'
  BY <1>1, <1>2, GroupedAssumption DEF Told, CallOf, CallOK
<1> QED
  BY <1>3, <1>4, <1>5, UnchangedRuns DEF Silent, Begin

LEMMA ReadRefusalSafe ==
  ASSUME SafeInv, NEW c \in Calls, ReadRefusal(c)
  PROVE  Silent(c)
<1>1. /\ CallsTyped /\ CallOK(c) /\ call \in [Calls -> CallOf] /\ call[c] \in CallOf
      /\ \/ call' = [call EXCEPT ![c].pc = "record", ![c].end = "refused"]
         \/ call' = [call EXCEPT ![c].pc = "done", ![c].reply = "failed"]
      /\ call[c].pc = "refusal" /\ shape' = shape /\ tools' = tools /\ seen' = seen
  BY CallIs DEF ReadRefusal, Answer
<1>2. /\ call' \in [Calls -> CallOf]
      /\ \/ call'[c] = [call[c] EXCEPT !.pc = "record", !.end = "refused"]
         \/ call'[c] = [call[c] EXCEPT !.pc = "done", !.reply = "failed"]
      /\ \A d \in Calls \ {c} : call'[d] = call[d]
  <2>1. CASE call' = [call EXCEPT ![c].pc = "record", ![c].end = "refused"]
    BY <1>1, <2>1 DEF CallOf
  <2>2. CASE call' = [call EXCEPT ![c].pc = "done", ![c].reply = "failed"]
    BY <1>1, <2>2 DEF CallOf
  <2> QED
    BY <1>1, <2>1, <2>2
<1>3. Moved(c)
  BY <1>1, <1>2 DEF Moved, CallsTyped
<1>4. CallOK(c)'
  BY <1>1, <1>2 DEF CallOK, CallOf, Out
<1>5. Told(c)'
  BY <1>1, <1>2, GroupedAssumption DEF Told, CallOf, CallOK
<1> QED
  BY <1>3, <1>4, <1>5, UnchangedRuns DEF Silent, ReadRefusal

\* A reply is over with n chunks come and m gone out.
LEMMA OverSafe ==
  ASSUME SafeInv, NEW c \in Calls, NEW n \in Nat, NEW m \in Nat, n <= Len(shape[c].events), m <= n,
         NEW end \in {"unreachable", "over", "whole", "cut", "left"},
         call' = Over(c, end, n, m), call[c].pc \in {"read", "relay"},
         UNCHANGED <<shape, tools, seen, runs, spent>>
  PROVE  Silent(c) /\ call'[c].run = call[c].run
<1> DEFINE result == Has(SubSeq(shape[c].events, 1, n), "result")
           pc == IF shape[c].body = "list" /\ result THEN "look" ELSE "record"
<1>1. /\ CallsTyped /\ CallOK(c) /\ call \in [Calls -> CallOf] /\ call[c] \in CallOf
      /\ call' = [call EXCEPT ![c].pc = pc, ![c].end = end, ![c].got = n, ![c].gave = m]
      /\ shape' = shape /\ tools' = tools /\ seen' = seen
  BY CallIs DEF Over
<1>2. pc \in {"look", "record"} /\ (pc = "look" => shape[c].body = "list" /\ result)
  OBVIOUS
<1> HIDE DEF pc, result
<1>3. /\ call' \in [Calls -> CallOf]
      /\ call'[c] = [call[c] EXCEPT !.pc = pc, !.end = end, !.got = n, !.gave = m]
      /\ \A d \in Calls \ {c} : call'[d] = call[d]
  <2> DEFINE k == [call[c] EXCEPT !.pc = pc, !.end = end, !.got = n, !.gave = m]
  <2>1. k \in CallOf
    BY <1>1, <1>2 DEF CallOf, Out
  <2>2. call' = [call EXCEPT ![c] = k]
    BY <1>1
  <2> HIDE DEF k
  <2>3. call' \in [Calls -> CallOf] /\ call'[c] = k /\ \A d \in Calls \ {c} : call'[d] = call[d]
    BY <1>1, <2>1, <2>2, CallBecomes
  <2> QED
    BY <2>3 DEF k
<1>4. /\ call'[c].pc = pc /\ call'[c].end = end /\ call'[c].got = n /\ call'[c].gave = m
      /\ call'[c].version = call[c].version /\ call'[c].reply = call[c].reply
      /\ call'[c].run = call[c].run
  BY <1>1, <1>3 DEF CallOf
<1>5. Moved(c)
  BY <1>1, <1>3 DEF Moved, CallsTyped
<1>6. result => Has(Received(c), "result")'
  BY <1>1, <1>4 DEF result, Received
<1>7. CallOK(c)'
  BY <1>1, <1>2, <1>4, <1>6 DEF CallOK, Out
<1>8. Told(c)'
  BY <1>1, <1>4, GroupedAssumption DEF Told, CallOK
<1> QED
  BY <1>4, <1>5, <1>7, <1>8, UnchangedRuns DEF Silent

LEMMA ReadModelSafe ==
  ASSUME SafeInv, NEW c \in Calls, ReadModel(c)
  PROVE  Silent(c)
<1>1. Len(shape[c].events) \in Nat /\ call[c].pc = "read"
  BY CallIs DEF ReadModel
<1>2. CASE call' = Over(c, "whole", Len(shape[c].events), 0)
  BY <1>1, <1>2, OverSafe DEF ReadModel
<1>3. CASE \E end \in {"unreachable", "over"} : call' = Over(c, end, 0, 0)
  <2>1. PICK end \in {"unreachable", "over"} : call' = Over(c, end, 0, 0)
    BY <1>3
  <2> QED
    BY <1>1, <2>1, OverSafe DEF ReadModel
<1> QED
  BY <1>2, <1>3 DEF ReadModel

LEMMA ReadTargetSafe ==
  ASSUME SafeInv, NEW c \in Calls, ReadTarget(c)
  PROVE  Silent(c)
<1>1. Len(shape[c].events) \in Nat /\ call[c].pc = "read"
  BY CallIs DEF ReadTarget
<1>2. CASE call' = Over(c, "whole", Len(shape[c].events), 0)
  BY <1>1, <1>2, OverSafe DEF ReadTarget
<1>3. CASE \E end \in {"cut", "over"} : call' = Over(c, end, 0, 0)
  <2>1. PICK end \in {"cut", "over"} : call' = Over(c, end, 0, 0)
    BY <1>3
  <2> QED
    BY <1>1, <2>1, OverSafe DEF ReadTarget
<1> QED
  BY <1>2, <1>3 DEF ReadTarget

LEMMA ChunkSafe ==
  ASSUME SafeInv, NEW c \in Calls, Chunk(c)
  PROVE  Silent(c)
<1>1. /\ CallsTyped /\ CallOK(c) /\ call \in [Calls -> CallOf] /\ call[c] \in CallOf
      /\ call[c].pc = "relay" /\ shape' = shape /\ tools' = tools /\ seen' = seen
      /\ Len(shape[c].events) \in Nat /\ call[c].got < Len(shape[c].events)
  BY CallIs DEF Chunk
<1>2. call[c].got \in Nat /\ call[c].gave \in Nat /\ call[c].gave <= call[c].got
  BY <1>1 DEF CallOf, CallOK
<1>3. CASE call' = Over(c, "left", call[c].got + 1, call[c].gave)
  <2>1. call[c].got + 1 \in Nat /\ call[c].got + 1 <= Len(shape[c].events)
        /\ call[c].gave <= call[c].got + 1
    BY <1>1, <1>2
  <2> QED
    BY <1>1, <1>2, <1>3, <2>1, OverSafe DEF Chunk
<1>4. CASE call' = [call EXCEPT ![c].got = call[c].got + 1, ![c].gave = call[c].got + 1]
  <2>1. /\ call' \in [Calls -> CallOf]
        /\ call'[c] = [call[c] EXCEPT !.got = call[c].got + 1, !.gave = call[c].got + 1]
        /\ \A d \in Calls \ {c} : call'[d] = call[d]
    BY <1>1, <1>2, <1>4 DEF CallOf
  <2>2. Moved(c)
    BY <1>1, <2>1 DEF Moved, CallsTyped
  <2>3. CallOK(c)'
    BY <1>1, <1>2, <2>1 DEF CallOK, CallOf, Out
  <2>4. Told(c)'
    BY <1>1, <2>1, GroupedAssumption DEF Told, CallOf, CallOK
  <2> QED
    BY <2>2, <2>3, <2>4, UnchangedRuns DEF Silent, Chunk
<1> QED
  BY <1>3, <1>4 DEF Chunk

LEMMA StreamEndsSafe ==
  ASSUME SafeInv, NEW c \in Calls, StreamEnds(c)
  PROVE  Silent(c)
<1>1. CallOK(c) /\ call[c] \in CallOf /\ call[c].pc = "relay"
  BY CallIs DEF StreamEnds
<1>2. /\ call[c].got \in Nat /\ call[c].gave \in Nat /\ call[c].gave <= call[c].got
      /\ call[c].got <= Len(shape[c].events)
  BY <1>1 DEF CallOf, CallOK
<1>3. PICK end \in {"whole", "cut", "left"} : call' = Over(c, end, call[c].got, call[c].gave)
  BY DEF StreamEnds
<1> QED
  BY <1>1, <1>2, <1>3, OverSafe DEF StreamEnds

\* ListSeen has one key more, and may lose others.
LEMMA RememberedIs ==
  ASSUME NEW T, seen \in Seq(T), NEW r, NEW v, <<r, v>> \in T
  PROVE  /\ Remembered(r, v) \in Seq(T)
         /\ \A k \in ToSet(Remembered(r, v)) : k \in ToSet(seen) \/ k = <<r, v>>
<1> DEFINE places == {i \in 1..Len(seen) : seen[i][1] = r}
           others == IF places = {} THEN seen ELSE RemoveAt(seen, Min(places))
           kept   == Append(others, <<r, v>>)
<1>1. others \in Seq(T) /\ \A i \in 1..Len(others) : \E j \in 1..Len(seen) : others[i] = seen[j]
  <2>1. CASE places = {}
    BY <2>1
  <2>2. CASE places # {}
    <3> DEFINE m == Min(places)
    <3>1. m \in places
      <4>1. places \in SUBSET Nat
        OBVIOUS
      <4> HIDE DEF places
      <4> QED
        BY <2>2, <4>1, LeastOf
    <3>2. m \in 1..Len(seen)
      BY <3>1
    <3> HIDE DEF m
    <3> DEFINE a == SubSeq(seen, 1, m - 1)
               b == SubSeq(seen, m + 1, Len(seen))
    <3>3. others = a \o b
      BY <2>2 DEF RemoveAt, m
    <3>4. a \in Seq(T) /\ Len(a) = m - 1 /\ \A i \in 1..m - 1 : a[i] = seen[i]
      BY <3>2
    <3>5. b \in Seq(T) /\ Len(b) = Len(seen) - m /\ \A i \in 1..Len(seen) - m : b[i] = seen[m + i]
      BY <3>2
    <3> HIDE DEF others, a, b
    <3>6. /\ others \in Seq(T) /\ Len(others) = Len(a) + Len(b)
          /\ \A i \in 1..Len(others) : others[i] = IF i <= Len(a) THEN a[i] ELSE b[i - Len(a)]
      BY <3>3, <3>4, <3>5
    <3>7. ASSUME NEW i \in 1..Len(others)
          PROVE  \E j \in 1..Len(seen) : others[i] = seen[j]
      <4>1. CASE i <= m - 1
        <5>1. others[i] = seen[i] /\ i \in 1..Len(seen)
          BY <3>2, <3>4, <3>6, <4>1
        <5> QED
          BY <5>1
      <4>2. CASE i > m - 1
        <5> DEFINE j == i - (m - 1)
        <5>1. j \in 1..Len(seen) - m /\ m + j \in 1..Len(seen)
          BY <3>2, <3>4, <3>5, <3>6, <4>2
        <5>2. others[i] = b[j]
          BY <3>2, <3>4, <3>6, <4>2
        <5>3. others[i] = seen[m + j]
          BY <3>5, <5>1, <5>2
        <5> QED
          BY <5>1, <5>3
      <4> QED
        BY <3>2, <3>6, <4>1, <4>2
    <3> QED
      BY <3>6, <3>7
  <2> QED
    BY <2>1, <2>2
<1>2. Remembered(r, v) = IF Len(kept) > MaxLists THEN Tail(kept) ELSE kept
  BY DEF Remembered
<1> HIDE DEF others
<1>3. /\ kept \in Seq(T) /\ Len(kept) = Len(others) + 1 /\ Len(others) \in Nat
      /\ \A i \in 1..Len(kept) : kept[i] = <<r, v>> \/ \E j \in 1..Len(seen) : kept[i] = seen[j]
  BY <1>1
<1> HIDE DEF kept
<1>4. /\ Tail(kept) \in Seq(T) /\ Len(Tail(kept)) = Len(others)
      /\ \A i \in 1..Len(Tail(kept)) : i + 1 \in 1..Len(kept) /\ Tail(kept)[i] = kept[i + 1]
  BY <1>3
<1>5. Remembered(r, v) \in Seq(T) /\ Len(Remembered(r, v)) \in Nat
      /\ \A i \in 1..Len(Remembered(r, v)) :
            Remembered(r, v)[i] = <<r, v>> \/ \E j \in 1..Len(seen) : Remembered(r, v)[i] = seen[j]
  <2> DEFINE Fine(s) == /\ s \in Seq(T) /\ Len(s) \in Nat
                        /\ \A i \in 1..Len(s) : s[i] = <<r, v>> \/ \E j \in 1..Len(seen) : s[i] = seen[j]
  <2>1. Fine(kept)
    BY <1>3
  <2>2. Fine(Tail(kept))
    <3>1. \A i \in 1..Len(Tail(kept)) :
            Tail(kept)[i] = <<r, v>> \/ \E j \in 1..Len(seen) : Tail(kept)[i] = seen[j]
      BY <1>3, <1>4
    <3> QED
      BY <1>3, <1>4, <3>1
  <2> HIDE DEF Fine
  <2>3. Fine(Remembered(r, v))
    BY <1>2, <2>1, <2>2
  <2> QED
    BY <2>3 DEF Fine
<1>6. ASSUME NEW k \in ToSet(Remembered(r, v)), k # <<r, v>>
      PROVE  k \in ToSet(seen)
  <2>1. PICK i \in 1..Len(Remembered(r, v)) : k = Remembered(r, v)[i]
    BY <1>5 DEF ToSet
  <2>2. PICK j \in 1..Len(seen) : k = seen[j]
    BY <1>5, <1>6, <2>1
  <2> QED
    BY <2>2 DEF ToSet
<1> QED
  BY <1>5, <1>6

LEMMA AnnounceSafe ==
  ASSUME SafeInv, NEW c \in Calls, Announce(c)
  PROVE  Silent(c) /\ call'[c].run = current' /\ current' \in Runs
<1>1. /\ CallsTyped /\ RunsTyped /\ CallOK(c) /\ call \in [Calls -> CallOf] /\ call[c] \in CallOf
      /\ call' = [call EXCEPT ![c].pc = "send", ![c].run = current'] /\ call[c].pc = "announce"
      /\ shape' = shape /\ tools' = tools /\ seen' = seen /\ RunFor
  BY CallIs DEF Announce
<1>2. Quiet /\ current' \in Runs
  BY <1>1, RunForKeeps
<1>3. /\ call' \in [Calls -> CallOf] /\ call'[c] = [call[c] EXCEPT !.pc = "send", !.run = current']
      /\ \A d \in Calls \ {c} : call'[d] = call[d]
  <2> DEFINE k == [call[c] EXCEPT !.pc = "send", !.run = current']
  <2>1. k \in CallOf
    BY <1>1, <1>2 DEF CallOf, Out
  <2>2. call' = [call EXCEPT ![c] = k]
    BY <1>1
  <2> HIDE DEF k
  <2>3. call' \in [Calls -> CallOf] /\ call'[c] = k /\ \A d \in Calls \ {c} : call'[d] = call[d]
    BY <1>1, <2>1, <2>2, CallBecomes
  <2> QED
    BY <2>3 DEF k
<1>4. /\ call'[c].pc = "send" /\ call'[c].run = current' /\ call'[c].end = call[c].end
      /\ call'[c].got = call[c].got /\ call'[c].gave = call[c].gave
      /\ call'[c].version = call[c].version /\ call'[c].reply = call[c].reply
  BY <1>1, <1>3 DEF CallOf
<1>5. Moved(c)
  BY <1>1, <1>3 DEF Moved, CallsTyped
<1>6. Received(c)' = Received(c)
  BY <1>1, <1>4 DEF Received
<1>7. CallOK(c)'
  BY <1>1, <1>2, <1>4, <1>6 DEF CallOK, Out
<1>8. Told(c)'
  BY <1>1, <1>4, GroupedAssumption DEF Told, CallOK
<1> QED
  BY <1>2, <1>4, <1>5, <1>7, <1>8 DEF Silent

LEMMA LookSafe ==
  ASSUME SafeInv, NEW c \in Calls, Look(c)
  PROVE  Silent(c) /\ call'[c].run = current' /\ current' \in Runs
<1>1. /\ CallsTyped /\ RunsTyped /\ CallOK(c) /\ call \in [Calls -> CallOf] /\ call[c] \in CallOf
      /\ call' = [call EXCEPT ![c].pc = "compare", ![c].run = current'] /\ call[c].pc = "look"
      /\ shape' = shape /\ tools' = tools /\ seen' = seen /\ RunFor
  BY CallIs DEF Look
<1>2. Quiet /\ current' \in Runs
  BY <1>1, RunForKeeps
<1>3. /\ call' \in [Calls -> CallOf] /\ call'[c] = [call[c] EXCEPT !.pc = "compare", !.run = current']
      /\ \A d \in Calls \ {c} : call'[d] = call[d]
  <2> DEFINE k == [call[c] EXCEPT !.pc = "compare", !.run = current']
  <2>1. k \in CallOf
    BY <1>1, <1>2 DEF CallOf, Out
  <2>2. call' = [call EXCEPT ![c] = k]
    BY <1>1
  <2> HIDE DEF k
  <2>3. call' \in [Calls -> CallOf] /\ call'[c] = k /\ \A d \in Calls \ {c} : call'[d] = call[d]
    BY <1>1, <2>1, <2>2, CallBecomes
  <2> QED
    BY <2>3 DEF k
<1>4. /\ call'[c].pc = "compare" /\ call'[c].run = current' /\ call'[c].end = call[c].end
      /\ call'[c].got = call[c].got /\ call'[c].gave = call[c].gave
      /\ call'[c].version = call[c].version /\ call'[c].reply = call[c].reply
  BY <1>1, <1>3 DEF CallOf
<1>5. Moved(c)
  BY <1>1, <1>3 DEF Moved, CallsTyped
<1>6. Received(c)' = Received(c)
  BY <1>1, <1>4 DEF Received
<1>7. CallOK(c)'
  BY <1>1, <1>2, <1>4, <1>6 DEF CallOK, Out
<1>8. Told(c)'
  BY <1>1, <1>4, GroupedAssumption DEF Told, CallOK
<1> QED
  BY <1>2, <1>4, <1>5, <1>7, <1>8 DEF Silent

LEMMA AnswerGives ==
  ASSUME SafeInv, NEW c \in Calls, NEW what \in {"failed", "answered", "blocked"}, Answer(c, what),
         call[c].pc # "done", shape' = shape, tools' = tools, seen' = seen
  PROVE  /\ Moved(c) /\ CallOK(c)' /\ call'[c].reply = what /\ call'[c].pc = "done"
         /\ call'[c].run = call[c].run /\ SameCall(c)
<1>1. /\ CallsTyped /\ CallOK(c) /\ call \in [Calls -> CallOf] /\ call[c] \in CallOf
      /\ call' = [call EXCEPT ![c].pc = "done", ![c].reply = what]
  BY CallIs DEF Answer
<1>2. /\ call' \in [Calls -> CallOf] /\ call'[c] = [call[c] EXCEPT !.pc = "done", !.reply = what]
      /\ \A d \in Calls \ {c} : call'[d] = call[d]
  <2> DEFINE k == [call[c] EXCEPT !.pc = "done", !.reply = what]
  <2>1. k \in CallOf
    BY <1>1 DEF CallOf
  <2>2. call' = [call EXCEPT ![c] = k]
    BY <1>1
  <2> HIDE DEF k
  <2>3. call' \in [Calls -> CallOf] /\ call'[c] = k /\ \A d \in Calls \ {c} : call'[d] = call[d]
    BY <1>1, <2>1, <2>2, CallBecomes
  <2> QED
    BY <2>3 DEF k
<1>3. /\ call'[c].pc = "done" /\ call'[c].reply = what /\ call'[c].run = call[c].run
      /\ call'[c].end = call[c].end /\ call'[c].got = call[c].got /\ call'[c].gave = call[c].gave
      /\ call'[c].version = call[c].version
  BY <1>1, <1>2 DEF CallOf
<1>4. SameCall(c)
  BY <1>3 DEF SameCall
<1>5. Moved(c)
  BY <1>1, <1>2, <1>3, <1>4 DEF Moved, CallsTyped
<1>6. CallOK(c)'
  BY <1>1, <1>3 DEF CallOK, Out
<1> QED
  BY <1>3, <1>4, <1>5, <1>6

LEMMA AnnounceFailsSafe ==
  ASSUME SafeInv, NEW c \in Calls, AnnounceFails(c)
  PROVE  Silent(c) /\ Failed
<1>1. /\ RunsTyped /\ NoRun /\ Answer(c, "failed") /\ call[c].pc = "announce"
      /\ shape' = shape /\ tools' = tools /\ seen' = seen
  BY CallIs DEF AnnounceFails
<1>2. Moved(c) /\ CallOK(c)' /\ call'[c].reply = "failed"
  BY <1>1, AnswerGives
<1>3. Quiet /\ Failed
  BY <1>1, NoRunKeeps
<1> QED
  BY <1>2, <1>3 DEF Silent, Told

LEMMA RecordFailsSafe ==
  ASSUME SafeInv, NEW c \in Calls, RecordFails(c)
  PROVE  Silent(c) /\ Failed
<1>1. /\ RunsTyped /\ (NotStored \/ NoRun) /\ call[c].pc \in {"record", "look"}
      /\ shape' = shape /\ tools' = tools /\ seen' = seen
      /\ (Answer(c, "failed") \/ (shape[c].stream /\ Answer(c, "answered")))
  BY CallIs DEF RecordFails
<1>2. Quiet /\ Failed
  BY <1>1, NoRunKeeps, NotStoredKeeps
<1>3. CASE Answer(c, "failed")
  <2>1. Moved(c) /\ CallOK(c)' /\ call'[c].reply = "failed"
    BY <1>1, <1>3, AnswerGives
  <2> QED
    BY <1>2, <2>1 DEF Silent, Told
<1>4. CASE shape[c].stream /\ Answer(c, "answered")
  <2>1. Moved(c) /\ CallOK(c)'
    BY <1>1, <1>4, AnswerGives
  <2>2. Told(c)'
    BY <1>1, <1>2, <1>4 DEF Told, Failed, Untroubled
  <2> QED
    BY <1>2, <2>1, <2>2 DEF Silent
<1> QED
  BY <1>1, <1>3, <1>4

LEMMA CompareSafe ==
  ASSUME SafeInv, NEW c \in Calls, Compare(c)
  PROVE  Silent(c)
<1>1. /\ CallsTyped /\ CallOK(c) /\ call \in [Calls -> CallOf] /\ call[c] \in CallOf
      /\ shape' = shape /\ tools' = tools /\ call[c].pc = "compare" /\ shape[c].body = "list"
      /\ call[c].run \in Runs /\ call[c].version \in Versions
  BY CallIs DEF Compare, CallOK, CallOf
<1>2. Quiet
  BY UnchangedRuns DEF Compare
<1>3. CASE Answer(c, "answered") /\ UNCHANGED seen
  <2>1. Moved(c) /\ CallOK(c)'
    BY <1>1, <1>3, AnswerGives
  <2>2. Told(c)'
    BY <1>1 DEF Told
  <2> QED
    BY <1>2, <2>1, <2>2 DEF Silent
<1>4. CASE /\ call' = [call EXCEPT ![c].pc = "record"]
           /\ seen' = Remembered(call[c].run, call[c].version)
  <2>1. /\ call' \in [Calls -> CallOf] /\ call'[c] = [call[c] EXCEPT !.pc = "record"]
        /\ \A d \in Calls \ {c} : call'[d] = call[d]
    BY <1>1, <1>4 DEF CallOf
  <2>2. seen' \in Seq(Runs \X Versions)
    <3>1. seen \in Seq(Runs \X Versions) /\ <<call[c].run, call[c].version>> \in Runs \X Versions
      BY <1>1 DEF CallsTyped
    <3> QED
      BY <1>4, <3>1, RememberedIs
  <2>3. Moved(c)
    BY <1>1, <2>1, <2>2 DEF Moved, CallsTyped
  <2>4. CallOK(c)'
    BY <1>1, <2>1 DEF CallOK, CallOf, Out
  <2>5. Told(c)'
    BY <1>1 DEF Told
  <2> QED
    BY <1>2, <2>3, <2>4, <2>5 DEF Silent
<1> QED
  BY <1>3, <1>4 DEF Compare

-----------------------------------------------------------------------------
\* What a step leaves as it is

LogKept == \A r \in Runs : ToSet(log[r]) \subseteq ToSet(log'[r])

\* Calls that are over stay as they are, steps that are recorded stay recorded, and what a call
\* is about to record does not change.
OverStays ==
    /\ shape' = shape /\ step' = step
    /\ \A c \in Calls :
        /\ call[c].pc = "done" => call'[c] = call[c]
        /\ call[c].pc = "record" => SameCall(c) /\ call'[c].pc \in {"record", "done"}
    /\ \A p \in Posts :
        /\ post[p].pc \in {"remember", "done"} => post'[p].pc \in {"remember", "done"}
        /\ post[p].pc = "append" => post'[p].pc \in {"append", "remember", "done"}

LEMMA QuietIsKept ==
  ASSUME Quiet
  PROVE  LogKept /\ Later /\ RunsTyped'
BY DEF Quiet, LogKept

LEMMA GrownFacts ==
  ASSUME RunsTyped, NEW q, NEW e, GrownIn(q, e)
  PROVE  /\ LogKept /\ e \in ToSet(log'[q]) /\ q \in Runs
         /\ \A r \in Runs : Len(log[r]) \in Nat /\ \A i \in 1..Len(log'[r]) :
              \/ i \in 1..Len(log[r]) /\ log'[r][i] = log[r][i]
              \/ r = q /\ i = Len(log[q]) + 1 /\ log'[r][i] = e
<1>1. log \in [Runs -> Seq(EntryOf)] /\ q \in Runs /\ log' = [log EXCEPT ![q] = Append(log[q], e)]
  BY DEF RunsTyped, GrownIn
<1>2. log[q] \in Seq(EntryOf) /\ log'[q] = Append(log[q], e) /\ \A r \in Runs \ {q} : log'[r] = log[r]
  BY <1>1
<1>3. /\ Len(log'[q]) = Len(log[q]) + 1 /\ Len(log[q]) \in Nat /\ log'[q][Len(log[q]) + 1] = e
      /\ \A i \in 1..Len(log[q]) : log'[q][i] = log[q][i]
      /\ DOMAIN log'[q] = 1..Len(log[q]) + 1 /\ DOMAIN log[q] = 1..Len(log[q])
  BY <1>2
<1>4. e \in ToSet(log'[q]) /\ ToSet(log[q]) \subseteq ToSet(log'[q])
  <2>1. Len(log[q]) + 1 \in DOMAIN log'[q]
    BY <1>3
  <2>2. \A i \in DOMAIN log[q] : i \in DOMAIN log'[q] /\ log[q][i] = log'[q][i]
    BY <1>3
  <2> QED
    BY <1>3, <2>1, <2>2, Zenon DEF ToSet
<1>5. LogKept
  BY <1>2, <1>4 DEF LogKept
<1>6. ASSUME NEW r \in Runs
      PROVE  Len(log[r]) \in Nat /\ \A i \in 1..Len(log'[r]) :
                \/ i \in 1..Len(log[r]) /\ log'[r][i] = log[r][i]
                \/ r = q /\ i = Len(log[q]) + 1 /\ log'[r][i] = e
  <2>1. CASE r = q
    BY <1>3, <2>1
  <2>2. CASE r # q
    BY <1>1, <1>2, <2>2
  <2> QED
    BY <2>1, <2>2
<1> QED
  BY <1>1, <1>4, <1>5, <1>6

LEMMA RecordedStays ==
  ASSUME LogKept
  PROVE  \A who : /\ \A r \in Runs : RecordedIn(r, who) => RecordedIn(r, who)'
                  /\ Recorded(who) => Recorded(who)'
<1> TAKE who
<1>1. ASSUME NEW r \in Runs, RecordedIn(r, who)
      PROVE  RecordedIn(r, who)'
  BY <1>1 DEF RecordedIn, LogKept
<1> QED
  BY <1>1 DEF Recorded

LEMMA CallStays ==
  ASSUME SafeInv, LogKept, Later, NEW c \in Calls, shape' = shape, call'[c] = call[c]
  PROVE  CallOK(c)' /\ Told(c)'
<1>1. CallOK(c) /\ Told(c)
  BY DEF SafeInv
<1>2. Received(c)' = Received(c)
  BY DEF Received
<1>3. CallOK(c)'
  BY <1>1, <1>2 DEF CallOK
<1>4. Untroubled({"fault", "clash"})' => Untroubled({"fault", "clash"})
  BY GroupedAssumption DEF Later, Untroubled
<1>5. Recorded(c) => Recorded(c)'
  BY RecordedStays
<1> QED
  BY <1>1, <1>3, <1>4, <1>5 DEF Told

LEMMA PostStays ==
  ASSUME SafeInv, LogKept, NEW p \in Posts, step' = step, post'[p] = post[p]
  PROVE  PostOK(p)'
<1>1. PostOK(p)
  BY DEF SafeInv
<1>2. \A r \in Runs : RecordedIn(r, p) => RecordedIn(r, p)'
  BY RecordedStays
<1>3. Recorded(p) => Recorded(p)'
  BY RecordedStays
<1>4. ListStep(p)' = ListStep(p)
  BY DEF ListStep
<1>5. \A r : r = post[p].run => (RecordedIn(post[p].run, p)' <=> RecordedIn(r, p)')
  BY DEF RecordedIn
<1> QED
  BY <1>1, <1>2, <1>3, <1>4, <1>5 DEF PostOK

LEMMA TruthStays ==
  ASSUME SafeInv, OverStays, Later, NEW e, Truthful(e)
  PROVE  /\ Truthful(e)'
         /\ e.by \in Calls => SameCall(e.by)
<1>0. spent["lost"] # 0 => spent'["lost"] # 0
  BY GroupedAssumption DEF Later
<1>1. ASSUME e.by \in Calls
      PROVE  /\ MayBeRecorded(e.by)' /\ Recordable(shape'[e.by]) /\ e = Entry(e.by)'
             /\ SameCall(e.by)
  <2>1. PICK c \in Calls : c = e.by
    BY <1>1
  <2>2. MayBeRecorded(c) /\ Recordable(shape[c]) /\ e = Entry(c)
    BY <2>1 DEF Truthful
  <2>3. SameCall(c) /\ MayBeRecorded(c)'
    BY <1>0, <2>2 DEF OverStays, MayBeRecorded, SameCall
  <2>4. Entry(c)' = Entry(c)
    <3>1. shape[c].proxy \in {"llm", "mcp", "a2a"}
      BY CallIs DEF ShapeOf
    <3> QED
      BY <2>3, <3>1, EntryStays
  <2>5. Recordable(shape'[c])
    BY <2>2, <2>3 DEF SameCall
  <2> QED
    BY <2>1, <2>2, <2>3, <2>4, <2>5
<1>2. ASSUME e.by \in Posts
      PROVE  MayBePosted(e.by)' /\ ParseStep(step'[e.by]) /\ e = StepEntry(e.by)'
  BY <1>0, <1>2 DEF Truthful, OverStays, StepEntry, MayBePosted
<1> QED
  BY <1>1, <1>2 DEF Truthful

\* What can have one record only could have one only.
LEMMA OnceOnlyWas ==
  ASSUME SafeInv, OverStays, Later, NEW r \in Runs, NEW i \in 1..Len(log[r]),
         NEW who, log[r][i].by = who, OnceOnly(who)'
  PROVE  OnceOnly(who)
<1>1. PICK e : e = log[r][i] /\ e.by = who
  OBVIOUS
<1>2. Truthful(e)
  BY <1>1 DEF SafeInv, Contents
<1>3. CASE spent'["lost"] = 0
  <2>1. spent["lost"] = 0
    BY <1>3, GroupedAssumption DEF Later
  <2> QED
    BY <2>1 DEF OnceOnly
<1>4. CASE e.by \in Calls /\ Named(e.by)'
  <2>1. SameCall(e.by)
    BY <1>2, <1>4, TruthStays
  <2>2. Named(e.by)
    BY <1>4, <2>1 DEF Named, SameCall
  <2> QED
    BY <1>1, <1>4, <2>2 DEF OnceOnly
<1> QED
  BY <1>1, <1>3, <1>4 DEF OnceOnly

LEMMA QuietStays ==
  ASSUME SafeInv, OverStays, Later, log' = log
  PROVE  Contents' /\ Unique'
<1>1. ASSUME NEW r \in Runs, NEW i \in 1..Len(log'[r])
      PROVE  Truthful(log[r][i])'
  <2>1. PICK e : e = log[r][i]
    OBVIOUS
  <2>2. Truthful(e)
    BY <1>1, <2>1 DEF SafeInv, Contents
  <2>3. Truthful(e)'
    BY <2>2, TruthStays
  <2> QED
    BY <2>1, <2>3
<1>2. Contents'
  BY <1>1 DEF Contents
<1>3. ASSUME NEW r \in Runs, NEW t \in Runs, NEW i \in 1..Len(log[r]), NEW j \in 1..Len(log[t]),
             NEW who, who = log[r][i].by, OnceOnly(who)', log[t][j].by = who
      PROVE  r = t /\ i = j
  <2>1. OnceOnly(who)
    BY <1>3, OnceOnlyWas
  <2> QED
    BY <1>3, <2>1 DEF SafeInv, Unique
<1>4. ASSUME NEW r \in Runs, NEW t \in Runs, NEW i \in 1..Len(log'[r]), NEW j \in 1..Len(log'[t]),
             OnceOnly(log[r][i].by)', log'[t][j].by = log'[r][i].by
      PROVE  r = t /\ i = j
  <2>1. PICK who : who = log'[r][i].by
    OBVIOUS
  <2>2. OnceOnly(who)'
    BY <1>4, <2>1
  <2> QED
    BY <1>3, <1>4, <2>1, <2>2
<1>5. Unique'
  BY <1>4 DEF Unique
<1> QED
  BY <1>2, <1>5

\* A record that is the first of its call or step comes onto the chain, or one more of those
\* that can have more.
LEMMA GrownStays ==
  ASSUME SafeInv, OverStays, NEW q, NEW e, GrownIn(q, e), Truthful(e)',
         OnceOnly(e.by)' => ~Recorded(e.by)
  PROVE  Contents' /\ Unique'
<1>1. /\ q \in Runs /\ Later
      /\ \A r \in Runs : Len(log[r]) \in Nat /\ \A i \in 1..Len(log'[r]) :
           \/ i \in 1..Len(log[r]) /\ log'[r][i] = log[r][i]
           \/ r = q /\ i = Len(log[q]) + 1 /\ log'[r][i] = e
  BY GrownFacts DEF SafeInv, Typed, GrownIn
<1>2. ASSUME NEW r \in Runs, NEW i \in 1..Len(log'[r])
      PROVE  Truthful(log[r][i])'
  <2>1. PICK d : d = log'[r][i]
    OBVIOUS
  <2>2. CASE i \in 1..Len(log[r]) /\ d = log[r][i]
    <3>1. Truthful(d)
      BY <2>2 DEF SafeInv, Contents
    <3> QED
      BY <1>1, <2>1, <3>1, TruthStays
  <2>3. CASE d = e
    BY <2>1, <2>3
  <2> QED
    BY <1>1, <1>2, <2>1, <2>2, <2>3
<1>3. Contents'
  BY <1>2 DEF Contents
<1>4. ASSUME NEW r \in Runs, NEW i \in 1..Len(log[r]), OnceOnly(e.by)'
      PROVE  log[r][i].by # e.by
  <2>1. log[r][i] \in ToSet(log[r])
    BY <1>1, <1>4 DEF ToSet, SafeInv, Typed, RunsTyped
  <2> QED
    BY <1>4, <2>1 DEF Recorded, RecordedIn
<1>5. ASSUME NEW r \in Runs, NEW s \in Runs, NEW i \in 1..Len(log'[r]), NEW j \in 1..Len(log'[s]),
             NEW who, who = log'[r][i].by, OnceOnly(who)', log'[s][j].by = who
      PROVE  r = s /\ i = j
  <2>1. CASE /\ i \in 1..Len(log[r]) /\ log'[r][i] = log[r][i]
             /\ j \in 1..Len(log[s]) /\ log'[s][j] = log[s][j]
    <3>1. log[r][i].by = who /\ log[s][j].by = who
      BY <1>5, <2>1
    <3>2. OnceOnly(who)
      BY <1>1, <1>5, <2>1, <3>1, OnceOnlyWas
    <3> QED
      BY <2>1, <3>1, <3>2 DEF SafeInv, Unique
  <2>2. CASE i \in 1..Len(log[r]) /\ log'[r][i] = log[r][i] /\ log'[s][j] = e
    BY <1>4, <1>5, <2>2
  <2>3. CASE log'[r][i] = e /\ j \in 1..Len(log[s]) /\ log'[s][j] = log[s][j]
    BY <1>4, <1>5, <2>3
  <2>4. CASE r = q /\ s = q /\ i = Len(log[q]) + 1 /\ j = Len(log[q]) + 1
    BY <2>4
  <2>5. \/ i \in 1..Len(log[r]) /\ log'[r][i] = log[r][i]
        \/ r = q /\ i = Len(log[q]) + 1 /\ log'[r][i] = e
    BY <1>1, <1>5
  <2>6. \/ j \in 1..Len(log[s]) /\ log'[s][j] = log[s][j]
        \/ s = q /\ j = Len(log[q]) + 1 /\ log'[s][j] = e
    BY <1>1, <1>5
  <2> QED
    BY <2>1, <2>2, <2>3, <2>4, <2>5, <2>6
<1>6. ASSUME NEW r \in Runs, NEW t \in Runs, NEW i \in 1..Len(log'[r]), NEW j \in 1..Len(log'[t]),
             OnceOnly(log[r][i].by)', log'[t][j].by = log'[r][i].by
      PROVE  r = t /\ i = j
  <2>1. PICK who : who = log'[r][i].by
    OBVIOUS
  <2>2. OnceOnly(who)'
    BY <1>6, <2>1
  <2> QED
    BY <1>5, <1>6, <2>1, <2>2
<1>7. Unique'
  BY <1>6 DEF Unique
<1> QED
  BY <1>3, <1>7

\* Those that do not move.
LEMMA PostsStay ==
  ASSUME SafeInv, LogKept, UNCHANGED posts
  PROVE  PostsTyped' /\ \A p \in Posts : PostOK(p)'
<1>1. step' = step /\ post' = post
  BY DEF posts
<1> QED
  BY <1>1, PostStays DEF PostsTyped, SafeInv, Typed

LEMMA ExportsStay ==
  ASSUME SafeInv, UNCHANGED exports
  PROVE  ExportsTyped'
BY DEF exports, SafeInv, Typed, ExportsTyped, ExportOK

LEMMA SilentKeeps ==
  ASSUME SafeInv, NEW c \in Calls, Silent(c), UNCHANGED posts, UNCHANGED exports
  PROVE  SafeInv'
<1>1. Moved(c) /\ Quiet /\ CallOK(c)' /\ Told(c)' /\ step' = step /\ post' = post
  BY DEF Silent, posts
<1>2. LogKept /\ Later /\ RunsTyped' /\ log' = log
  BY <1>1, QuietIsKept DEF Quiet
<1>3. /\ CallsTyped' /\ shape' = shape /\ call[c].pc # "done"
      /\ \A d \in Calls \ {c} : call'[d] = call[d]
  BY <1>1 DEF Moved
<1>4. OverStays
  BY <1>1, <1>3 DEF OverStays, Moved, SameCall
<1>5. Contents' /\ Unique'
  BY <1>2, <1>4, QuietStays
<1>6. ASSUME NEW d \in Calls
      PROVE  CallOK(d)' /\ Told(d)'
  <2>1. CASE d = c
    BY <1>1, <2>1
  <2>2. CASE d # c
    BY <1>2, <1>3, <2>2, CallStays
  <2> QED
    BY <2>1, <2>2
<1>7. PostsTyped' /\ \A p \in Posts : PostOK(p)'
  BY <1>2, PostsStay
<1>8. ExportsTyped'
  BY ExportsStay
<1> QED
  BY <1>2, <1>3, <1>5, <1>6, <1>7, <1>8 DEF SafeInv, Typed

\* The call c is recorded, or has its record stored once more.
Recording(c) == Record(c) \/ RecordLost(c)

LEMMA RecordingGives ==
  ASSUME SafeInv, NEW c \in Calls, Recording(c)
  PROVE  /\ \E q \in Runs : /\ GrownIn(q, Entry(c)) /\ RecordedIn(q, c)'
                          /\ Entry(c) \in ToSet(log'[q]) /\ (Record(c) => Stored(q, Entry(c)))
         /\ Moved(c) /\ CallOK(c)' /\ Entry(c)' = Entry(c)
         /\ \/ call'[c] = call[c] /\ RecordLost(c)
            \/ call'[c].pc = "done" /\ call'[c].reply \in {"answered", "blocked", "failed"}
         /\ call'[c].run = call[c].run /\ SameCall(c)
         /\ Recordable(shape[c]) /\ Entry(c).by = c /\ Entry(c) \in EntryOf
         /\ call[c].pc = "record" /\ ~Taken(c) /\ seen' = seen
         /\ RecordLost(c) => spent'["lost"] # 0
<1>1. /\ CallsTyped /\ RunsTyped /\ CallOK(c) /\ shape[c] \in ShapeOf /\ call[c].pc = "record"
      /\ shape' = shape /\ tools' = tools /\ seen' = seen /\ ~Taken(c)
      /\ UNCHANGED call \/ \E what \in {"answered", "blocked", "failed"} : Answer(c, what)
  <2>1. Reply(c) \in {"answered", "blocked", "failed"}
    BY DEF Reply
  <2> QED
    BY <2>1, CallIs DEF Recording, Record, RecordLost
<1>2. call[c].got <= Len(shape[c].events) /\ Recordable(shape[c])
  BY <1>1 DEF CallOK
<1>3. Entry(c) \in EntryOf /\ Entry(c).by = c
  BY <1>1, <1>2, EntryIs
<1>4. PICK e : e = Entry(c)
  OBVIOUS
<1>5. /\ \E q \in Runs : GrownIn(q, e) /\ (Record(c) => Stored(q, e))
      /\ RecordLost(c) => spent'["lost"] # 0
  <2>1. CASE Record(c) /\ ~RecordLost(c)
    BY <1>1, <1>3, <1>4, <2>1, StoredGives DEF Record
  <2>2. CASE RecordLost(c) /\ ~Record(c)
    BY <1>1, <1>3, <1>4, <2>2, LostGives DEF RecordLost
  <2>3. CASE RecordLost(c) /\ Record(c)
    <3>1. PICK q \in Runs : Stored(q, e)
      BY <1>4, <2>3 DEF Record
    <3>2. GrownIn(q, e)
      BY <1>1, <1>3, <1>4, <3>1, StoredGives
    <3>3. spent'["lost"] # 0
      BY <1>1, <2>3, LostSpent, Zenon DEF RecordLost, Lost
    <3> QED
      BY <3>1, <3>2, <3>3
  <2> QED
    BY <2>1, <2>2, <2>3 DEF Recording
<1>6. /\ Moved(c) /\ CallOK(c)' /\ call'[c].run = call[c].run /\ SameCall(c)
      /\ \/ UNCHANGED call
         \/ call'[c].pc = "done" /\ call'[c].reply \in {"answered", "blocked", "failed"}
  <2>1. CASE UNCHANGED call
    <3>1. LogKept /\ Later
      <4>1. PICK q \in Runs : GrownIn(q, e)
        BY <1>5
      <4> QED
        BY <1>1, <4>1, GrownFacts DEF GrownIn
    <3>2. CallOK(c)'
      BY <1>1, <2>1, <3>1, CallStays
    <3>3. SameCall(c)
      BY <1>1, <2>1 DEF SameCall
    <3> QED
      BY <1>1, <2>1, <3>2, <3>3 DEF Moved, CallsTyped
  <2>2. CASE \E what \in {"answered", "blocked", "failed"} : Answer(c, what)
    BY <1>1, <2>2, AnswerGives
  <2> QED
    BY <1>1, <2>1, <2>2
<1>7. Entry(c)' = Entry(c)
  BY <1>1, <1>6, EntryStays DEF ShapeOf
<1>8. ASSUME NEW q \in Runs, GrownIn(q, e)
      PROVE  RecordedIn(q, c)' /\ e \in ToSet(log'[q])
  <2>1. e \in ToSet(log'[q])
    BY <1>1, <1>8, GrownFacts
  <2> QED
    BY <1>3, <1>4, <2>1 DEF RecordedIn
<1>9. call'[c].pc = "done" \/ RecordLost(c)
  <2>1. call \in [Calls -> CallOf]
    BY <1>1 DEF CallsTyped
  <2>2. CASE Record(c)
    BY <2>1, <2>2 DEF Record, Answer
  <2> QED
    BY <2>2 DEF Recording
<1>10. \/ call'[c] = call[c] /\ RecordLost(c)
       \/ call'[c].pc = "done" /\ call'[c].reply \in {"answered", "blocked", "failed"}
  BY <1>1, <1>6, <1>9
<1> QED
  BY <1>1, <1>2, <1>3, <1>4, <1>5, <1>6, <1>7, <1>8, <1>10

LEMMA RecordGives ==
  ASSUME SafeInv, NEW c \in Calls, Record(c)
  PROVE  /\ \E q \in Runs : /\ Stored(q, Entry(c)) /\ GrownIn(q, Entry(c)) /\ RecordedIn(q, c)'
                          /\ Entry(c) \in ToSet(log'[q])
         /\ Moved(c) /\ CallOK(c)' /\ Entry(c)' = Entry(c)
         /\ call'[c].pc = "done" /\ call'[c].run = call[c].run
         /\ Recordable(shape[c]) /\ Entry(c).by = c /\ Entry(c) \in EntryOf
<1>1. call'[c].pc = "done"
  BY CallIs DEF Record, Answer
<1> QED
  BY <1>1, RecordingGives DEF Recording

\* What is not on the chain by its id, or has not failed before, is not there at all.
LEMMA FirstOfCall ==
  ASSUME SafeInv, NEW c \in Calls, call[c].pc = "record", spent["lost"] = 0 \/ (Named(c) /\ ~Taken(c))
  PROVE  ~Recorded(c)
<1>1. ASSUME NEW r \in Runs, NEW i \in 1..Len(log[r]), log[r][i].by = c
      PROVE  FALSE
  <2>1. Truthful(log[r][i])
    BY DEF SafeInv, Contents
  <2>2. spent["lost"] # 0 /\ log[r][i] = Entry(c)
    BY <1>1, <2>1 DEF Truthful, MayBeRecorded
  <2>3. Entry(c) \in Records
    <3>1. log[r] \in Seq(EntryOf)
      BY DEF SafeInv, Typed, RunsTyped
    <3>2. log[r][i] \in ToSet(log[r])
      BY <3>1 DEF ToSet
    <3> QED
      BY <2>2, <3>2 DEF Records
  <2> QED
    BY <2>2, <2>3 DEF Taken
<1>2. \A r \in Runs : DOMAIN log[r] = 1..Len(log[r])
  BY DEF SafeInv, Typed, RunsTyped
<1> QED
  BY <1>1, <1>2 DEF Recorded, RecordedIn, ToSet

LEMMA RecordKeeps ==
  ASSUME SafeInv, NEW c \in Calls, Recording(c), UNCHANGED posts, UNCHANGED exports
  PROVE  SafeInv'
<1>1. /\ Moved(c) /\ CallOK(c)' /\ Entry(c)' = Entry(c) /\ SameCall(c)
      /\ Recordable(shape[c]) /\ Entry(c).by = c /\ call[c].pc = "record" /\ ~Taken(c)
      /\ call'[c].pc = "done" \/ (call'[c].pc = "record" /\ spent'["lost"] # 0)
      /\ step' = step /\ post' = post
  BY RecordingGives DEF posts
<1>0. PICK e : e = Entry(c)
  OBVIOUS
<1>2. PICK q \in Runs : GrownIn(q, e) /\ RecordedIn(q, c)' /\ e = Entry(c)
  BY <1>0, RecordingGives
<1>3. LogKept /\ Later /\ RunsTyped' /\ q \in Runs /\ GrownIn(q, e)
  BY <1>1, <1>2, GrownFacts, CallIs DEF GrownIn
<1>4. /\ CallsTyped' /\ shape' = shape
      /\ \A d \in Calls \ {c} : call'[d] = call[d]
  BY <1>1 DEF Moved
<1>5. OverStays
  BY <1>1, <1>4 DEF OverStays, Moved, SameCall
<1>6. Contents' /\ Unique'
  <2>1. e.by = c /\ e = Entry(c)'
    BY <1>1, <1>2
  <2>2. Truthful(e)'
    BY <1>1, <1>4, <2>1, StepsAssumption DEF Truthful, MayBeRecorded
  <2>3. OnceOnly(c)' => ~Recorded(c)
    <3>1. ASSUME OnceOnly(c)'
          PROVE  spent["lost"] = 0 \/ Named(c)
      <4>1. spent'["lost"] = 0 => spent["lost"] = 0
        BY <1>3, GroupedAssumption DEF Later
      <4>2. Named(c)' => Named(c)
        BY <1>1 DEF Named, SameCall
      <4> QED
        BY <3>1, <4>1, <4>2 DEF OnceOnly
    <3> QED
      BY <1>1, <3>1, FirstOfCall
  <2> QED
    BY <1>3, <1>5, <2>1, <2>2, <2>3, GrownStays
<1>7. ASSUME NEW d \in Calls
      PROVE  CallOK(d)' /\ Told(d)'
  <2>1. CASE d = c
    <3>1. Recorded(c)'
      BY <1>1, <1>2, <1>3 DEF Recorded
    <3> QED
      BY <1>1, <2>1, <3>1 DEF Told
  <2>2. CASE d # c
    BY <1>3, <1>4, <2>2, CallStays
  <2> QED
    BY <2>1, <2>2
<1>8. PostsTyped' /\ \A p \in Posts : PostOK(p)'
  BY <1>3, PostsStay
<1>9. ExportsTyped'
  BY ExportsStay
<1> QED
  BY <1>3, <1>4, <1>6, <1>7, <1>8, <1>9 DEF SafeInv, Typed

LEMMA CallStepKeeps ==
  ASSUME SafeInv, NEW c \in Calls, CallStep(c), UNCHANGED posts, UNCHANGED exports
  PROVE  SafeInv'
<1>1. CASE Recording(c)
  BY <1>1, RecordKeeps
<1>2. CASE ~Recording(c)
  <2>1. Silent(c)
    BY <1>2, RefuseSafe, BlockSafe, AdmitSafe, AnnounceSafe, AnnounceFailsSafe, ModelUnreachableSafe,
       TargetUnreachableSafe, ModelRefusedSafe, ReadRefusalSafe, RelayedSafe, BeginSafe, ReadModelSafe,
       ReadTargetSafe, ChunkSafe, StreamEndsSafe, LookSafe, CompareSafe, RecordFailsSafe
       DEF CallStep, Recording
  <2> QED
    BY <2>1, SilentKeeps
<1> QED
  BY <1>1, <1>2

-----------------------------------------------------------------------------
\* What a step of a post does

PostMoved(p) ==
    /\ PostsTyped' /\ step' = step
    /\ \A o \in Posts \ {p} : post'[o] = post[o]
    /\ post[p].pc # "done"
    /\ post[p].pc = "remember" => post'[p].pc = "done"
    /\ post[p].pc = "append" => post'[p].pc \in {"append", "remember", "done"}
    /\ seen' \in Seq(Runs \X Versions)

PostSilent(p) == PostMoved(p) /\ Quiet /\ PostOK(p)'

LEMMA PostIs ==
  ASSUME SafeInv, NEW p \in Posts
  PROVE  /\ RunsTyped /\ PostOK(p) /\ step[p] \in StepOf /\ step \in Steps
         /\ post \in [Posts -> PostOf] /\ post[p] \in PostOf /\ seen \in Seq(Runs \X Versions)
<1>1. RunsTyped /\ PostOK(p) /\ PostsTyped /\ seen \in Seq(Runs \X Versions)
  BY DEF SafeInv, Typed, CallsTyped
<1> QED
  BY <1>1, StepsAssumption DEF PostsTyped

\* The post p goes to k.
LEMMA PostBecomes ==
  ASSUME SafeInv, NEW p \in Posts, NEW k \in PostOf, post' = [post EXCEPT ![p] = k], step' = step,
         seen' \in Seq(Runs \X Versions), post[p].pc # "done", post[p].pc = "remember" => k.pc = "done",
         post[p].pc = "append" => k.pc \in {"remember", "done"}
  PROVE  PostMoved(p) /\ post'[p] = k
<1>1. post \in [Posts -> PostOf] /\ step \in Steps
  BY PostIs
<1>2. /\ post' \in [Posts -> PostOf] /\ post'[p] = k
      /\ \A o \in Posts \ {p} : post'[o] = post[o]
  BY <1>1
<1> QED
  BY <1>1, <1>2 DEF PostMoved, PostsTyped

\* The post p is answered.
LEMMA AnsweredGives ==
  ASSUME SafeInv, NEW p \in Posts, NEW what \in {"refused", "failed", "unchanged", "recorded"},
         Answered(p, what), step' = step, seen' \in Seq(Runs \X Versions), post[p].pc # "done"
  PROVE  /\ PostMoved(p) /\ post'[p].pc = "done" /\ post'[p].reply = what
         /\ post'[p].run = post[p].run
<1>1. post \in [Posts -> PostOf] /\ post[p] \in PostOf
  BY PostIs
<1> DEFINE k == [post[p] EXCEPT !.pc = "done", !.reply = what]
<1>2. k \in PostOf /\ k.pc = "done" /\ k.reply = what /\ k.run = post[p].run
  BY <1>1 DEF PostOf
<1>3. post' = [post EXCEPT ![p] = k]
  BY <1>1 DEF Answered
<1> HIDE DEF k
<1>4. PostMoved(p) /\ post'[p] = k
  BY <1>2, <1>3, PostBecomes
<1> QED
  BY <1>2, <1>4

LEMMA RefusedSafe ==
  ASSUME SafeInv, NEW p \in Posts, NEW what \in {"refused", "failed", "unchanged"},
         Answered(p, what), step' = step, seen' = seen, post[p].pc # "done", Quiet
  PROVE  PostSilent(p)
<1>1. seen' \in Seq(Runs \X Versions)
  BY PostIs
<1>2. PostMoved(p) /\ post'[p].pc = "done" /\ post'[p].reply = what
  BY <1>1, AnsweredGives
<1>3. PostOK(p)'
  BY <1>2 DEF PostOK
<1> QED
  BY <1>2, <1>3 DEF PostSilent

\* The post p goes on to pc, with the run r.
LEMMA GoesOn ==
  ASSUME SafeInv, NEW p \in Posts, NEW pc \in {"read", "look", "compare", "append"},
         NEW r \in Runs \cup {None}, post' = [post EXCEPT ![p] = [post[p] EXCEPT !.pc = pc, !.run = r]],
         post[p].pc \notin {"done", "remember", "append"}, step' = step, seen' = seen
  PROVE  /\ PostMoved(p) /\ post'[p].pc = pc /\ post'[p].run = r /\ post'[p].reply = None
<1>1. post[p] \in PostOf /\ post[p].reply = None /\ seen' \in Seq(Runs \X Versions)
  BY PostIs DEF PostOK
<1> DEFINE k == [post[p] EXCEPT !.pc = pc, !.run = r]
<1>2. k \in PostOf /\ k.pc = pc /\ k.run = r /\ k.reply = None
  BY <1>1 DEF PostOf
<1>3. post' = [post EXCEPT ![p] = k]
  OBVIOUS
<1> HIDE DEF k
<1>4. PostMoved(p) /\ post'[p] = k
  BY <1>1, <1>2, <1>3, PostBecomes
<1> QED
  BY <1>2, <1>4

LEMMA GotoGives ==
  ASSUME SafeInv, NEW p \in Posts, NEW pc \in {"read", "look", "compare", "append"},
         Goto(p, pc), post[p].pc \notin {"done", "remember", "append"}, step' = step, seen' = seen
  PROVE  /\ PostMoved(p) /\ post'[p].pc = pc /\ post'[p].run = post[p].run /\ post'[p].reply = None
<1>1. post \in [Posts -> PostOf] /\ post[p] \in PostOf
  BY PostIs
<1>2. post' = [post EXCEPT ![p] = [post[p] EXCEPT !.pc = pc, !.run = post[p].run]]
  BY <1>1 DEF Goto, PostOf
<1>3. PICK r : r = post[p].run
  OBVIOUS
<1>4. r \in Runs \cup {None}
  BY <1>1, <1>3 DEF PostOf
<1> QED
  BY <1>2, <1>3, <1>4, GoesOn

LEMMA CheckRunSafe ==
  ASSUME SafeInv, NEW p \in Posts, CheckRun(p)
  PROVE  PostSilent(p)
<1>1. step[p] \in StepOf /\ post \in [Posts -> PostOf] /\ post[p] \in PostOf /\ PostOK(p)
  BY PostIs
<1>2. post[p].pc = "arrive" /\ step' = step /\ seen' = seen /\ Quiet
  BY UnchangedRuns DEF CheckRun
<1>3. CASE step[p].to = None /\ Goto(p, "read")
  <2>1. PostMoved(p) /\ post'[p].pc = "read" /\ post'[p].reply = None
    BY <1>2, <1>3, GotoGives
  <2>2. PostOK(p)'
    BY <1>2, <1>3, <2>1, GroupedAssumption DEF PostOK
  <2> QED
    BY <1>2, <2>1, <2>2 DEF PostSilent
<1>4. CASE Answered(p, "refused")
  BY <1>2, <1>4, RefusedSafe
<1>5. CASE step[p].to # None /\ post' = [post EXCEPT ![p].pc = "read", ![p].run = step[p].to]
  <2>1. PICK r : r = step[p].to
    OBVIOUS
  <2>2. r \in Runs \cup {None} /\ post' = [post EXCEPT ![p] = [post[p] EXCEPT !.pc = "read", !.run = r]]
    BY <1>1, <1>5, <2>1 DEF StepOf
  <2>3. PostMoved(p) /\ post'[p].pc = "read" /\ post'[p].run = r /\ post'[p].reply = None
    BY <1>2, <2>2, GoesOn
  <2>4. PostOK(p)'
    BY <1>2, <2>1, <2>3, GroupedAssumption DEF PostOK
  <2> QED
    BY <1>2, <2>3, <2>4 DEF PostSilent
<1>6. \/ step[p].to = None /\ Goto(p, "read")
      \/ Answered(p, "refused")
      \/ step[p].to # None /\ post' = [post EXCEPT ![p].pc = "read", ![p].run = step[p].to]
  BY Zenon DEF CheckRun
<1> QED
  BY <1>3, <1>4, <1>5, <1>6

LEMMA ReadStepSafe ==
  ASSUME SafeInv, NEW p \in Posts, ReadStep(p)
  PROVE  PostSilent(p)
<1>1. step[p] \in StepOf /\ post[p] \in PostOf /\ PostOK(p)
  BY PostIs
<1>2. post[p].pc = "read" /\ step' = step /\ seen' = seen /\ Quiet
  BY UnchangedRuns DEF ReadStep
<1>3. CASE Answered(p, "refused")
  BY <1>2, <1>3, RefusedSafe
<1>4. ASSUME ~Answered(p, "refused")
      PROVE  /\ ParseStep(step[p])
             /\ \/ ~ListStep(p) /\ Goto(p, "append")
                \/ ListStep(p) /\ step[p].to = None /\ Goto(p, "look")
                \/ ListStep(p) /\ step[p].to # None /\ Goto(p, "compare")
  <2> DEFINE where == CASE ~ListStep(p) -> "append"
                        [] ListStep(p) /\ step[p].to = None -> "look"
                        [] OTHER -> "compare"
  <2>1. ParseStep(step[p]) /\ Goto(p, where)
    BY <1>4, Zenon DEF ReadStep
  <2>2. /\ ~ListStep(p) => where = "append"
        /\ ListStep(p) /\ step[p].to = None => where = "look"
        /\ ListStep(p) /\ step[p].to # None => where = "compare"
    OBVIOUS
  <2> HIDE DEF where
  <2> QED
    BY <2>1, <2>2
<1>5. CASE ~ListStep(p) /\ Goto(p, "append") /\ ParseStep(step[p])
  <2>1. PostMoved(p) /\ post'[p].pc = "append" /\ post'[p].run = post[p].run /\ post'[p].reply = None
    BY <1>2, <1>5, GotoGives
  <2>2. PostOK(p)'
    BY <1>1, <1>2, <1>5, <2>1, GroupedAssumption DEF PostOK
  <2> QED
    BY <1>2, <2>1, <2>2 DEF PostSilent
<1>6. CASE ListStep(p) /\ step[p].to = None /\ Goto(p, "look") /\ ParseStep(step[p])
  <2>1. PostMoved(p) /\ post'[p].pc = "look" /\ post'[p].run = post[p].run /\ post'[p].reply = None
    BY <1>2, <1>6, GotoGives
  <2>2. ListStep(p)'
    BY <1>2, <1>6 DEF ListStep
  <2>3. PostOK(p)'
    BY <1>1, <1>2, <1>6, <2>1, <2>2, GroupedAssumption DEF PostOK
  <2> QED
    BY <1>2, <2>1, <2>3 DEF PostSilent
<1>7. CASE ListStep(p) /\ step[p].to # None /\ Goto(p, "compare") /\ ParseStep(step[p])
  <2>1. PostMoved(p) /\ post'[p].pc = "compare" /\ post'[p].run = post[p].run /\ post'[p].reply = None
    BY <1>2, <1>7, GotoGives
  <2>2. ListStep(p)' /\ post[p].run = step[p].to /\ step[p].to \in Runs
    BY <1>1, <1>2, <1>7 DEF ListStep, PostOK, StepOf
  <2>3. PostOK(p)'
    BY <1>1, <1>2, <1>7, <2>1, <2>2, GroupedAssumption DEF PostOK
  <2> QED
    BY <1>2, <2>1, <2>3 DEF PostSilent
<1> QED
  BY <1>3, <1>4, <1>5, <1>6, <1>7

LEMMA LookStepSafe ==
  ASSUME SafeInv, NEW p \in Posts, LookStep(p)
  PROVE  PostSilent(p)
<1>1. step[p] \in StepOf /\ post \in [Posts -> PostOf] /\ post[p] \in PostOf /\ PostOK(p) /\ RunsTyped
  BY PostIs
<1>2. post[p].pc = "look" /\ step' = step /\ seen' = seen /\ ParseStep(step[p]) /\ ListStep(p)
      /\ step[p].to = None
  BY <1>1 DEF LookStep, PostOK
<1>3. Quiet /\ current' \in Runs
  BY <1>1, RunForKeeps DEF LookStep
<1>4. PICK r : r = current'
  OBVIOUS
<1>5. r \in Runs \cup {None} /\ post' = [post EXCEPT ![p] = [post[p] EXCEPT !.pc = "compare", !.run = r]]
  BY <1>1, <1>3, <1>4 DEF LookStep
<1>6. PostMoved(p) /\ post'[p].pc = "compare" /\ post'[p].run = r /\ post'[p].reply = None
  BY <1>2, <1>5, GoesOn
<1>7. ListStep(p)' /\ (step[p].to # None => r = step[p].to)
  BY <1>2 DEF ListStep
<1>8. PostOK(p)'
  BY <1>2, <1>3, <1>4, <1>6, <1>7, GroupedAssumption DEF PostOK
<1> QED
  BY <1>3, <1>6, <1>8 DEF PostSilent

LEMMA CompareStepSafe ==
  ASSUME SafeInv, NEW p \in Posts, CompareStep(p)
  PROVE  PostSilent(p)
<1>1. post[p].pc = "compare" /\ step' = step /\ seen' = seen /\ Quiet /\ PostOK(p)
  BY UnchangedRuns, PostIs DEF CompareStep
<1>2. CASE Answered(p, "unchanged")
  BY <1>1, <1>2, RefusedSafe
<1>3. CASE Goto(p, "append")
  <2>1. PostMoved(p) /\ post'[p].pc = "append" /\ post'[p].run = post[p].run /\ post'[p].reply = None
    BY <1>1, <1>3, GotoGives
  <2>2. PostOK(p)'
    BY <1>1, <2>1, GroupedAssumption DEF PostOK
  <2> QED
    BY <1>1, <2>1, <2>2 DEF PostSilent
<1> QED
  BY <1>2, <1>3, Zenon DEF CompareStep

LEMMA StepRefusedSafe ==
  ASSUME SafeInv, NEW p \in Posts, StepRefused(p)
  PROVE  PostSilent(p)
<1>1. /\ post[p].pc = "append" /\ step' = step /\ seen' = seen /\ RunsTyped /\ UNCHANGED runs
      /\ Answered(p, "refused") /\ (UNCHANGED spent \/ Spend("fault"))
  BY PostIs, Zenon DEF StepRefused
<1>2. Quiet
  BY <1>1, RunsStay, SameSpent, FaultKeeps
<1> QED
  BY <1>1, <1>2, RefusedSafe

LEMMA StepFailsSafe ==
  ASSUME SafeInv, NEW p \in Posts, StepFails(p)
  PROVE  PostSilent(p) /\ Failed
<1>1. /\ post[p].pc \in {"append", "look"} /\ step' = step /\ seen' = seen /\ RunsTyped
      /\ Answered(p, "failed") /\ (NotStored \/ NoRun)
  BY PostIs DEF StepFails
<1>2. Quiet /\ Failed
  BY <1>1, NotStoredKeeps, NoRunKeeps
<1> QED
  BY <1>1, <1>2, RefusedSafe

LEMMA RememberStepSafe ==
  ASSUME SafeInv, NEW p \in Posts, RememberStep(p)
  PROVE  PostSilent(p)
<1>1. /\ post[p].pc = "remember" /\ step' = step /\ seen' = Remembered(post[p].run, step[p].version)
      /\ Quiet /\ PostOK(p) /\ step[p] \in StepOf /\ Answered(p, "recorded") /\ log' = log
      /\ seen \in Seq(Runs \X Versions)
  BY UnchangedRuns, PostIs DEF RememberStep, Quiet
<1>2. ListStep(p) /\ post[p].run \in Runs /\ RecordedIn(post[p].run, p) /\ step[p].version \in Versions
  BY <1>1 DEF PostOK, StepOf, Versions
<1>3. seen' \in Seq(Runs \X Versions)
  BY <1>1, <1>2, RememberedIs
<1>4. /\ PostMoved(p) /\ post'[p].pc = "done" /\ post'[p].reply = "recorded"
      /\ post'[p].run = post[p].run
  BY <1>1, <1>3, AnsweredGives
<1>5. ListStep(p)' /\ RecordedIn(post[p].run, p)'
  <2>1. ListStep(p)'
    BY <1>1, <1>2 DEF ListStep
  <2>2. RecordedIn(post[p].run, p)'
    BY <1>1, <1>2, <1>4 DEF RecordedIn
  <2> QED
    BY <2>1, <2>2
<1>6. PostOK(p)'
  BY <1>2, <1>4, <1>5 DEF PostOK
<1> QED
  BY <1>1, <1>4, <1>6 DEF PostSilent

LEMMA PostSilentKeeps ==
  ASSUME SafeInv, NEW p \in Posts, PostSilent(p), UNCHANGED <<shape, call, tools, exports>>
  PROVE  SafeInv'
<1>1. /\ PostMoved(p) /\ Quiet /\ PostOK(p)' /\ shape' = shape /\ call' = call /\ tools' = tools
      /\ UNCHANGED exports
  BY DEF PostSilent
<1>2. LogKept /\ Later /\ RunsTyped' /\ log' = log
  BY <1>1, QuietIsKept DEF Quiet
<1>3. OverStays
  BY <1>1 DEF OverStays, PostMoved, SameCall
<1>4. Contents' /\ Unique'
  BY <1>2, <1>3, QuietStays
<1>5. ASSUME NEW o \in Posts
      PROVE  PostOK(o)'
  <2>1. CASE o = p
    BY <1>1, <2>1
  <2>2. CASE o # p
    BY <1>1, <1>2, <2>2, PostStays DEF PostMoved
  <2> QED
    BY <2>1, <2>2
<1>6. \A c \in Calls : CallOK(c)' /\ Told(c)'
  BY <1>1, <1>2, CallStays
<1>7. CallsTyped'
  BY <1>1 DEF SafeInv, Typed, CallsTyped, PostMoved
<1> QED
  BY <1>1, <1>2, <1>4, <1>5, <1>6, <1>7, ExportsStay DEF SafeInv, Typed, PostMoved

LEMMA RecordStepGives ==
  ASSUME SafeInv, NEW p \in Posts, RecordStep(p)
  PROVE  /\ PostMoved(p) /\ PostOK(p)' /\ post'[p].pc \in {"remember", "done"} /\ seen' = seen
         /\ \E q \in Runs : GrownIn(q, StepEntry(p)) /\ RecordedIn(q, p)' /\ post'[p].run = q
         /\ ParseStep(step[p]) /\ post[p].pc = "append" /\ post'[p].reply \in {"recorded", None}
<1>1. /\ step[p] \in StepOf /\ post \in [Posts -> PostOf] /\ post[p] \in PostOf /\ PostOK(p)
      /\ RunsTyped /\ seen \in Seq(Runs \X Versions)
  BY PostIs
<1>2. /\ post[p].pc = "append" /\ step' = step /\ seen' = seen /\ ParseStep(step[p])
  BY <1>1 DEF RecordStep, PostOK
<1>3. StepEntry(p) \in EntryOf /\ StepEntry(p).by = p
  BY <1>1 DEF StepEntry, EntryOf, Outcomes, Versions, StepOf
<1>4. PICK e : e = StepEntry(p)
  OBVIOUS
<1>5. PICK q \in Runs : /\ IF step[p].to = None THEN Stored(q, e) ELSE q = step[p].to /\ AppendTo(q, e)
                       /\ post' = [post EXCEPT ![p].pc = IF ListStep(p) THEN "remember" ELSE "done",
                                               ![p].run = q,
                                               ![p].reply = IF ListStep(p) THEN None ELSE "recorded"]
  BY <1>4 DEF RecordStep
<1>6. GrownIn(q, e)
  <2>1. CASE Stored(q, e)
    BY <1>1, <1>3, <1>4, <2>1, StoredGives
  <2>2. CASE AppendTo(q, e)
    BY <1>1, <1>3, <1>4, <2>2, AppendedGives, SameSpent DEF AppendTo
  <2> QED
    BY <1>5, <2>1, <2>2
<1>7. RecordedIn(q, p)'
  BY <1>1, <1>3, <1>4, <1>6, GrownFacts DEF RecordedIn
<1> DEFINE pc == IF ListStep(p) THEN "remember" ELSE "done"
           reply == IF ListStep(p) THEN None ELSE "recorded"
           k == [post[p] EXCEPT !.pc = pc, !.run = q, !.reply = reply]
<1>8. post' = [post EXCEPT ![p] = k]
  BY <1>1, <1>5 DEF PostOf
<1>9. /\ k \in PostOf /\ k.pc = pc /\ k.run = q /\ k.reply = reply
      /\ pc \in {"remember", "done"} /\ reply \in {"recorded", None}
  BY <1>1, <1>6 DEF PostOf
<1> HIDE DEF k
<1>10. PostMoved(p) /\ post'[p] = k
  BY <1>1, <1>2, <1>8, <1>9, PostBecomes
<1>11. ListStep(p)' = ListStep(p)
  BY <1>2 DEF ListStep
<1>12. PostOK(p)'
  <2>1. Recorded(p)'
    BY <1>6, <1>7 DEF Recorded
  <2>2. RecordedIn(post[p].run, p)'
    BY <1>7, <1>9, <1>10 DEF RecordedIn
  <2>3. ListStep(p) \/ (pc = "done" /\ reply = "recorded")
    OBVIOUS
  <2>4. ~ListStep(p) \/ (pc = "remember" /\ reply = None)
    OBVIOUS
  <2> HIDE DEF pc, reply
  <2> QED
    BY <1>2, <1>6, <1>9, <1>10, <1>11, <2>1, <2>2, <2>3, <2>4, GroupedAssumption DEF PostOK
<1> QED
  BY <1>2, <1>4, <1>6, <1>7, <1>9, <1>10, <1>12

LEMMA StepLostGives ==
  ASSUME SafeInv, NEW p \in Posts, StepLost(p)
  PROVE  /\ PostMoved(p) /\ PostOK(p)' /\ seen' = seen /\ spent'["lost"] # 0
         /\ \E q \in Runs : GrownIn(q, StepEntry(p))
         /\ ParseStep(step[p]) /\ post[p].pc = "append"
         /\ \/ post'[p] = post[p]
            \/ post'[p].pc = "done" /\ post'[p].reply \in {"failed", "refused"}
<1>1. /\ step[p] \in StepOf /\ post \in [Posts -> PostOf] /\ post[p] \in PostOf /\ PostOK(p)
      /\ RunsTyped /\ seen \in Seq(Runs \X Versions)
  BY PostIs
<1>2. /\ post[p].pc = "append" /\ step' = step /\ seen' = seen /\ ParseStep(step[p])
      /\ \/ step[p].to = None /\ Lost(StepEntry(p))
         \/ /\ step[p].to \in Runs /\ live[step[p].to] = "open" /\ Spend("lost")
            /\ log' = [log EXCEPT ![step[p].to] = Append(@, StepEntry(p))]
            /\ UNCHANGED <<live, current, idle>>
      /\ UNCHANGED post \/ Answered(p, "failed") \/ Answered(p, "refused")
  BY <1>1 DEF StepLost, PostOK, StepOf
<1>3. StepEntry(p) \in EntryOf
  BY <1>1 DEF StepEntry, EntryOf, Outcomes, Versions, StepOf
<1>4. PICK e : e = StepEntry(p)
  OBVIOUS
<1>5. spent'["lost"] # 0 /\ \E q \in Runs : GrownIn(q, e)
  <2>1. CASE Lost(e)
    BY <1>1, <1>3, <1>4, <2>1, LostGives
  <2>2. ASSUME NEW r \in Runs, live[r] = "open", Spend("lost"),
               log' = [log EXCEPT ![r] = Append(@, e)], UNCHANGED <<live, current, idle>>
        PROVE  spent'["lost"] # 0 /\ GrownIn(r, e)
    BY <1>1, <1>3, <1>4, <2>2, LostSpent, AppendedGives
  <2> QED
    BY <1>2, <1>4, <2>1, <2>2
<1>6. LogKept
  <2>1. PICK q \in Runs : GrownIn(q, e)
    BY <1>5
  <2> QED
    BY <1>1, <2>1, GrownFacts
<1>7. CASE UNCHANGED post
  <2>1. PostOK(p)'
    BY <1>2, <1>6, <1>7, PostStays
  <2>2. PostMoved(p)
    BY <1>1, <1>2, <1>7 DEF PostMoved, PostsTyped, SafeInv, Typed
  <2> QED
    BY <1>2, <1>4, <1>5, <1>7, <2>1, <2>2
<1>8. ASSUME NEW what \in {"failed", "refused"}, Answered(p, what)
      PROVE  PostMoved(p) /\ PostOK(p)' /\ post'[p].pc = "done" /\ post'[p].reply = what
  <2>1. PostMoved(p) /\ post'[p].pc = "done" /\ post'[p].reply = what
    BY <1>1, <1>2, <1>8, AnsweredGives
  <2> QED
    BY <2>1 DEF PostOK
<1> QED
  BY <1>2, <1>4, <1>5, <1>7, <1>8

\* The step p is recorded, or has its record stored and is not told.
Posting(p) == RecordStep(p) \/ StepLost(p)

LEMMA PostingGives ==
  ASSUME SafeInv, NEW p \in Posts, Posting(p)
  PROVE  /\ PostMoved(p) /\ PostOK(p)' /\ seen' = seen
         /\ post'[p].pc \in {"remember", "done"} \/ (post'[p].pc = "append" /\ spent'["lost"] # 0)
         /\ \E q \in Runs : GrownIn(q, StepEntry(p))
         /\ ParseStep(step[p]) /\ post[p].pc = "append"
<1>1. CASE RecordStep(p)
  BY <1>1, RecordStepGives
<1>2. CASE StepLost(p)
  BY <1>2, StepLostGives
<1> QED
  BY <1>1, <1>2 DEF Posting

LEMMA RecordStepKeeps ==
  ASSUME SafeInv, NEW p \in Posts, Posting(p), UNCHANGED <<shape, call, tools, exports>>
  PROVE  SafeInv'
<1>1. /\ PostMoved(p) /\ PostOK(p)'
      /\ post'[p].pc \in {"remember", "done"} \/ (post'[p].pc = "append" /\ spent'["lost"] # 0)
      /\ ParseStep(step[p]) /\ post[p].pc = "append"
      /\ shape' = shape /\ call' = call /\ tools' = tools /\ UNCHANGED exports
  BY PostingGives
<1>2. PICK q \in Runs : GrownIn(q, StepEntry(p))
  BY PostingGives
<1>3. PICK e : e = StepEntry(p)
  OBVIOUS
<1>4. LogKept /\ Later /\ RunsTyped' /\ GrownIn(q, e)
  BY <1>2, <1>3, GrownFacts, PostIs DEF GrownIn
<1>5. OverStays
  BY <1>1 DEF OverStays, PostMoved, SameCall
<1>6. Contents' /\ Unique'
  <2>1. e.by = p /\ step' = step
    BY <1>1, <1>3 DEF StepEntry, PostMoved
  <2>2. StepEntry(p)' = StepEntry(p)
    BY <2>1 DEF StepEntry
  <2>3. Truthful(e)'
    BY <1>1, <1>3, <2>1, <2>2, StepsAssumption DEF Truthful, MayBePosted
  <2>4. ASSUME OnceOnly(p)'
        PROVE  ~Recorded(p)
    <3>1. spent["lost"] = 0
      BY <1>4, <2>4, GroupedAssumption, StepsAssumption DEF Later, OnceOnly
    <3>2. ASSUME NEW r \in Runs, NEW i \in 1..Len(log[r])
          PROVE  log[r][i].by # p
      BY <1>1, <3>1 DEF SafeInv, Contents, Truthful, MayBePosted
    <3>3. \A r \in Runs : DOMAIN log[r] = 1..Len(log[r])
      BY DEF SafeInv, Typed, RunsTyped
    <3> QED
      BY <3>2, <3>3 DEF Recorded, RecordedIn, ToSet
  <2> QED
    BY <1>4, <1>5, <2>1, <2>3, <2>4, GrownStays
<1>7. ASSUME NEW o \in Posts
      PROVE  PostOK(o)'
  <2>1. CASE o = p
    BY <1>1, <2>1
  <2>2. CASE o # p
    BY <1>1, <1>4, <2>2, PostStays DEF PostMoved
  <2> QED
    BY <2>1, <2>2
<1>8. \A c \in Calls : CallOK(c)' /\ Told(c)'
  BY <1>1, <1>4, CallStays
<1>9. CallsTyped'
  BY <1>1 DEF SafeInv, Typed, CallsTyped, PostMoved
<1> QED
  BY <1>1, <1>4, <1>6, <1>7, <1>8, <1>9, ExportsStay DEF SafeInv, Typed, PostMoved

LEMMA PostStepKeeps ==
  ASSUME SafeInv, NEW p \in Posts, PostStep(p), UNCHANGED <<shape, call, tools, exports>>
  PROVE  SafeInv'
<1>1. CASE Posting(p)
  BY <1>1, RecordStepKeeps
<1>2. CASE ~Posting(p)
  <2>1. PostSilent(p)
    BY <1>2, CheckRunSafe, ReadStepSafe, LookStepSafe, CompareStepSafe, StepRefusedSafe, StepFailsSafe,
       RememberStepSafe DEF PostStep, Posting
  <2> QED
    BY <2>1, PostSilentKeeps
<1> QED
  BY <1>1, <1>2

-----------------------------------------------------------------------------
\* What a step of an export does

ExportMoved(x) ==
    /\ ExportsTyped'
    /\ \A y \in Exports \ {x} : export'[y] = export[y]

LEMMA ExportIs ==
  ASSUME SafeInv, NEW x \in Exports
  PROVE  /\ RunsTyped /\ ExportOK(x) /\ export \in [Exports -> ExportOf] /\ export[x] \in ExportOf
         /\ Len(Batch[x]) \in Nat
         /\ \A i \in 1..Len(Batch[x]) : Batch[x][i] \in ToSet(Batch[x]) /\ Batch[x][i] \in Spans
         /\ export[x].pc \in {"mark", "record"} => Span(x) \in Spans
<1>1. RunsTyped /\ ExportOK(x) /\ export \in [Exports -> ExportOf] /\ export[x] \in ExportOf
  BY DEF SafeInv, Typed, ExportsTyped
<1>2. Batch[x] \in Seq(ToSet(Batch[x]))
  BY BatchAssumption
<1>3. ASSUME NEW i \in 1..Len(Batch[x])
      PROVE  Batch[x][i] \in ToSet(Batch[x]) /\ Batch[x][i] \in Spans
  BY <1>2 DEF Spans
<1> QED
  BY <1>1, <1>2, <1>3 DEF ExportOK, Span

\* The exporter x goes to k.
LEMMA ExportBecomes ==
  ASSUME SafeInv, NEW x \in Exports, NEW k \in ExportOf, export' = [export EXCEPT ![x] = k],
         marked' \in Seq(Runs \X Spans), k.pc \in {"mark", "record"} => k.i \in 1..Len(Batch[x]),
         k.pc = "mark" => k.run \in Runs
  PROVE  ExportMoved(x) /\ export'[x] = k
<1>1. export \in [Exports -> ExportOf]
  BY ExportIs
<1>2. /\ export' \in [Exports -> ExportOf] /\ export'[x] = k
      /\ \A y \in Exports \ {x} : export'[y] = export[y]
  BY <1>1
<1>3. ASSUME NEW y \in Exports
      PROVE  ExportOK(y)'
  <2>1. CASE y = x
    BY <1>2, <2>1 DEF ExportOK
  <2>2. CASE y # x
    BY <1>2, <2>2, ExportIs DEF ExportOK
  <2> QED
    BY <2>1, <2>2
<1> QED
  BY <1>2, <1>3 DEF ExportMoved, ExportsTyped

LEMMA MarkedIs ==
  ASSUME SafeInv
  PROVE  marked \in Seq(Runs \X Spans)
BY DEF SafeInv, Typed, ExportsTyped

LEMMA NextSpanGives ==
  ASSUME SafeInv, NEW x \in Exports, NEW more \in Nat, NextSpan(x, more), marked' = marked
  PROVE  /\ ExportMoved(x) /\ export'[x].pc = "span" /\ export'[x].i = export[x].i + 1
         /\ export'[x].reply = export[x].reply
<1>1. /\ export \in [Exports -> ExportOf] /\ export[x] \in ExportOf /\ export[x].i + 1 \in Nat \ {0}
      /\ export[x].rejected + more \in Nat
  BY ExportIs DEF ExportOf
<1> DEFINE k == [export[x] EXCEPT !.pc = "span", !.i = export[x].i + 1,
                                 !.rejected = export[x].rejected + more]
<1>2. k \in ExportOf /\ k.pc = "span" /\ k.i = export[x].i + 1 /\ k.reply = export[x].reply
  BY <1>1 DEF ExportOf
<1>3. export' = [export EXCEPT ![x] = k]
  BY <1>1 DEF NextSpan
<1> HIDE DEF k
<1>4. ExportMoved(x) /\ export'[x] = k
  BY <1>2, <1>3, MarkedIs, ExportBecomes
<1> QED
  BY <1>2, <1>4

LEMMA SendSafe ==
  ASSUME SafeInv, NEW x \in Exports, Send(x)
  PROVE  /\ ExportMoved(x) /\ Quiet /\ marked' = marked /\ export[x].pc = "send"
         /\ export'[x].pc = "span" /\ export'[x].i = 1 /\ export'[x].reply = None
<1>1. export \in [Exports -> ExportOf] /\ export[x] \in ExportOf /\ export[x].sent + 1 \in Nat
  BY ExportIs DEF ExportOf
<1> DEFINE k == [Waiting EXCEPT !.pc = "span", !.sent = export[x].sent + 1]
<1>2. k \in ExportOf /\ k.pc = "span" /\ k.i = 1 /\ k.reply = None
  <2>1. Waiting \in ExportOf /\ Waiting.i = 1 /\ Waiting.reply = None
    BY DEF Waiting, ExportOf
  <2> QED
    BY <1>1, <2>1 DEF ExportOf
<1>3. export' = [export EXCEPT ![x] = k] /\ marked' = marked /\ Quiet /\ export[x].pc = "send"
  BY UnchangedRuns DEF Send
<1> HIDE DEF k
<1>4. ExportMoved(x) /\ export'[x] = k
  BY <1>2, <1>3, MarkedIs, ExportBecomes
<1> QED
  BY <1>2, <1>3, <1>4

LEMMA PlaceSafe ==
  ASSUME SafeInv, NEW x \in Exports, Place(x)
  PROVE  /\ ExportMoved(x) /\ Quiet /\ marked' = marked /\ export[x].pc = "span"
         /\ export'[x].pc = "mark" /\ export'[x].i = export[x].i /\ export'[x].reply = export[x].reply
<1>1. /\ export \in [Exports -> ExportOf] /\ export[x] \in ExportOf /\ RunsTyped
      /\ export[x].i \in 1..Len(Batch[x])
  BY ExportIs DEF Place, ExportOf
<1>2. Quiet /\ current' \in Runs
  BY <1>1, RunForKeeps DEF Place
<1> DEFINE k == [export[x] EXCEPT !.pc = "mark", !.run = current']
<1>3. /\ k \in ExportOf /\ k.pc = "mark" /\ k.run = current' /\ k.i = export[x].i
      /\ k.reply = export[x].reply
  BY <1>1, <1>2 DEF ExportOf
<1>4. export' = [export EXCEPT ![x] = k] /\ marked' = marked /\ export[x].pc = "span"
  BY <1>1 DEF Place
<1> HIDE DEF k
<1>5. PICK m : m = k
  OBVIOUS
<1>6. ExportMoved(x) /\ export'[x] = m
  BY <1>1, <1>2, <1>3, <1>4, <1>5, MarkedIs, ExportBecomes
<1> QED
  BY <1>2, <1>3, <1>4, <1>5, <1>6

\* A span is passed over, or marked and about to be recorded.
LEMMA MarkSafe ==
  ASSUME SafeInv, NEW x \in Exports, Mark(x)
  PROVE  /\ ExportMoved(x) /\ Quiet /\ export[x].pc = "mark" /\ export'[x].reply = export[x].reply
         /\ \/ /\ <<export[x].run, Span(x)>> \in ToSet(marked) /\ marked' = marked
               /\ export'[x].pc = "span" /\ export'[x].i = export[x].i + 1
            \/ /\ export'[x].pc = "record" /\ export'[x].i = export[x].i
               /\ \A k \in ToSet(marked') : k \in ToSet(marked) \/ k = <<export[x].run, Span(x)>>
<1> DEFINE key  == <<export[x].run, Span(x)>>
           kept == Append(marked, key)
<1>1. /\ export \in [Exports -> ExportOf] /\ export[x] \in ExportOf /\ Span(x) \in Spans
      /\ export[x].pc = "mark" /\ export[x].i \in 1..Len(Batch[x]) /\ export[x].run \in Runs
      /\ marked \in Seq(Runs \X Spans)
  BY ExportIs, MarkedIs DEF Mark, ExportOK
<1>2. Quiet
  BY UnchangedRuns DEF Mark
<1>3. CASE key \in ToSet(marked) /\ NextSpan(x, 0) /\ UNCHANGED marked
  BY <1>1, <1>2, <1>3, NextSpanGives
<1>4. CASE /\ export' = [export EXCEPT ![x].pc = "record"]
           /\ marked' = IF Len(kept) > MaxSeen THEN Tail(kept) ELSE kept
  <2> DEFINE k == [export[x] EXCEPT !.pc = "record"]
  <2>1. k \in ExportOf /\ k.pc = "record" /\ k.i = export[x].i /\ k.reply = export[x].reply
    BY <1>1 DEF ExportOf
  <2>2. export' = [export EXCEPT ![x] = k]
    BY <1>1, <1>4
  <2> DEFINE Fine(s) == /\ s \in Seq(Runs \X Spans) /\ Len(s) \in Nat
                        /\ \A i \in 1..Len(s) : s[i] = key \/ \E j \in 1..Len(marked) : s[i] = marked[j]
  <2>3. key \in Runs \X Spans
    BY <1>1
  <2> HIDE DEF key
  <2>4. kept \in Seq(Runs \X Spans) /\ Len(kept) = Len(marked) + 1 /\ Len(marked) \in Nat
        /\ \A i \in 1..Len(kept) : kept[i] = IF i <= Len(marked) THEN marked[i] ELSE key
    BY <1>1, <2>3
  <2>5. Fine(kept)
    BY <2>4
  <2> HIDE DEF kept
  <2>6. Fine(Tail(kept))
    <3>1. /\ Tail(kept) \in Seq(Runs \X Spans) /\ Len(Tail(kept)) = Len(marked)
          /\ \A i \in 1..Len(Tail(kept)) : i + 1 \in 1..Len(kept) /\ Tail(kept)[i] = kept[i + 1]
      BY <2>4
    <3>2. \A i \in 1..Len(Tail(kept)) :
            Tail(kept)[i] = key \/ \E j \in 1..Len(marked) : Tail(kept)[i] = marked[j]
      BY <2>5, <3>1
    <3> QED
      BY <2>4, <3>1, <3>2
  <2> HIDE DEF Fine
  <2>7. Fine(marked')
    BY <1>4, <2>5, <2>6
  <2>8. \A m \in ToSet(marked') : m \in ToSet(marked) \/ m = key
    <3>1. DOMAIN marked' = 1..Len(marked') /\ DOMAIN marked = 1..Len(marked)
      BY <1>1, <2>7 DEF Fine
    <3> QED
      BY <2>7, <3>1 DEF Fine, ToSet
  <2>9. marked' \in Seq(Runs \X Spans)
    BY <2>7 DEF Fine
  <2> HIDE DEF k
  <2>10. ExportMoved(x) /\ export'[x] = k
    BY <1>1, <2>1, <2>2, <2>9, ExportBecomes
  <2> QED
    BY <1>1, <1>2, <2>1, <2>8, <2>10 DEF key
<1> QED
  BY <1>3, <1>4, Zenon DEF Mark

LEMMA RecordSpanGives ==
  ASSUME SafeInv, NEW x \in Exports, RecordSpan(x)
  PROVE  \E q \in Runs, s \in Spans :
           /\ ExportMoved(x) /\ export[x].pc = "record" /\ marked' = marked /\ s = Span(x)
           /\ GrownIn(q, [by |-> s]) /\ RecordedIn(q, s)' /\ Stored(q, [by |-> s])
           /\ export'[x].pc = "span" /\ export'[x].i = export[x].i + 1
           /\ export'[x].reply = export[x].reply
<1>1. /\ RunsTyped /\ Span(x) \in Spans /\ export[x].pc = "record"
      /\ NextSpan(x, 0) /\ marked' = marked
  BY ExportIs DEF RecordSpan
<1>2. PICK s \in Spans : s = Span(x)
  BY <1>1
<1>4. PICK e : e = [by |-> s]
  OBVIOUS
<1>3. PICK q \in Runs : Stored(q, e)
  BY <1>2, <1>4 DEF RecordSpan
<1>5. e \in EntryOf /\ e.by = s
  BY <1>2, <1>4 DEF EntryOf
<1>6. GrownIn(q, e)
  BY <1>1, <1>3, <1>5, StoredGives
<1>7. RecordedIn(q, s)'
  BY <1>1, <1>5, <1>6, GrownFacts DEF RecordedIn
<1>8. /\ ExportMoved(x) /\ export'[x].pc = "span" /\ export'[x].i = export[x].i + 1
      /\ export'[x].reply = export[x].reply
  BY <1>1, NextSpanGives
<1> QED
  BY <1>1, <1>2, <1>3, <1>4, <1>6, <1>7, <1>8

\* The span of x is recorded, or has its record stored and x is not told.
LEMMA SpanLostGives ==
  ASSUME SafeInv, NEW x \in Exports, SpanLost(x)
  PROVE  /\ \E q \in Runs, s \in Spans : s = Span(x) /\ GrownIn(q, [by |-> s]) /\ RecordedIn(q, s)'
         /\ ExportMoved(x) /\ export[x].pc = "record" /\ marked' = marked /\ spent'["lost"] # 0
         /\ export'[x] = export[x] \/ (export'[x].pc = "send" /\ export'[x].reply = "failed")
<1>1. /\ RunsTyped /\ Span(x) \in Spans /\ export[x].pc = "record" /\ marked' = marked
      /\ export \in [Exports -> ExportOf] /\ export[x] \in ExportOf
      /\ \/ UNCHANGED export
         \/ export' = [export EXCEPT ![x].pc = "send", ![x].reply = "failed"]
  BY ExportIs DEF SpanLost
<1>2. PICK s \in Spans : s = Span(x)
  BY <1>1
<1>3. PICK e : e = [by |-> s]
  OBVIOUS
<1>4. e \in EntryOf /\ e.by = s
  BY <1>2, <1>3 DEF EntryOf
<1>5. spent'["lost"] # 0 /\ \E q \in Runs : GrownIn(q, e)
  BY <1>1, <1>2, <1>3, <1>4, LostGives DEF SpanLost
<1>6. PICK q \in Runs : GrownIn(q, e)
  BY <1>5
<1>7. RecordedIn(q, s)'
  BY <1>1, <1>4, <1>6, GrownFacts DEF RecordedIn
<1>8. CASE UNCHANGED export
  <2>1. ExportMoved(x)
    BY <1>1, <1>8 DEF ExportMoved, SafeInv, Typed, ExportsTyped, ExportOK
  <2> QED
    BY <1>1, <1>2, <1>3, <1>5, <1>6, <1>7, <1>8, <2>1
<1>9. CASE export' = [export EXCEPT ![x].pc = "send", ![x].reply = "failed"]
  <2> DEFINE k == [export[x] EXCEPT !.pc = "send", !.reply = "failed"]
  <2>1. /\ k \in ExportOf /\ k.pc = "send" /\ k.reply = "failed"
        /\ export' = [export EXCEPT ![x] = k]
    BY <1>1, <1>9 DEF ExportOf
  <2> HIDE DEF k
  <2>2. ExportMoved(x) /\ export'[x] = k
    BY <1>1, <2>1, MarkedIs, ExportBecomes
  <2> QED
    BY <1>1, <1>2, <1>3, <1>5, <1>6, <1>7, <2>1, <2>2
<1> QED
  BY <1>1, <1>8, <1>9

LEMMA RejectSpanSafe ==
  ASSUME SafeInv, NEW x \in Exports, RejectSpan(x)
  PROVE  /\ ExportMoved(x) /\ Quiet /\ marked' = marked /\ export[x].pc = "record"
         /\ Span(x) \in Invalid /\ export'[x].pc = "span" /\ export'[x].i = export[x].i + 1
         /\ export'[x].reply = export[x].reply
<1>1. /\ NextSpan(x, 1) /\ Quiet /\ marked' = marked /\ export[x].pc = "record"
      /\ Span(x) \in Invalid
  BY UnchangedRuns DEF RejectSpan
<1> QED
  BY <1>1, NextSpanGives

LEMMA SpanFailsSafe ==
  ASSUME SafeInv, NEW x \in Exports, SpanFails(x)
  PROVE  /\ ExportMoved(x) /\ Quiet /\ marked' = marked /\ Failed
<1>1. export \in [Exports -> ExportOf] /\ export[x] \in ExportOf /\ RunsTyped
  BY ExportIs
<1>2. /\ NotStored \/ NoRun
      /\ export' = [export EXCEPT ![x].pc = "send", ![x].reply = "failed"] /\ marked' = marked
  BY Zenon DEF SpanFails
<1>3. Quiet /\ Failed
  BY <1>1, <1>2, NotStoredKeeps, NoRunKeeps
<1> DEFINE k == [export[x] EXCEPT !.pc = "send", !.reply = "failed"]
<1>4. k \in ExportOf /\ k.pc = "send" /\ export' = [export EXCEPT ![x] = k]
  BY <1>1, <1>2 DEF ExportOf
<1> HIDE DEF k
<1>5. ExportMoved(x)
  BY <1>2, <1>4, MarkedIs, ExportBecomes
<1> QED
  BY <1>2, <1>3, <1>5

LEMMA ExportedSafe ==
  ASSUME SafeInv, NEW x \in Exports, Exported(x)
  PROVE  /\ ExportMoved(x) /\ Quiet /\ marked' = marked /\ export[x].pc = "span"
         /\ export[x].i > Len(Batch[x])
         /\ \/ export'[x].pc = "done" /\ export'[x].reply = "ok"
            \/ export'[x].pc = "send" /\ export'[x].reply = "late"
<1>1. export \in [Exports -> ExportOf] /\ export[x] \in ExportOf
  BY ExportIs
<1>2. Quiet /\ marked' = marked /\ export[x].pc = "span" /\ export[x].i > Len(Batch[x])
  BY UnchangedRuns DEF Exported
<1>3. CASE export' = [export EXCEPT ![x].pc = "done", ![x].reply = "ok"]
  <2> DEFINE k == [export[x] EXCEPT !.pc = "done", !.reply = "ok"]
  <2>1. k \in ExportOf /\ k.pc = "done" /\ k.reply = "ok" /\ export' = [export EXCEPT ![x] = k]
    BY <1>1, <1>3 DEF ExportOf
  <2> HIDE DEF k
  <2>2. ExportMoved(x) /\ export'[x] = k
    BY <1>2, <2>1, MarkedIs, ExportBecomes
  <2> QED
    BY <1>2, <2>1, <2>2
<1>4. CASE export' = [export EXCEPT ![x].pc = "send", ![x].reply = "late"]
  <2> DEFINE k == [export[x] EXCEPT !.pc = "send", !.reply = "late"]
  <2>1. k \in ExportOf /\ k.pc = "send" /\ k.reply = "late" /\ export' = [export EXCEPT ![x] = k]
    BY <1>1, <1>4 DEF ExportOf
  <2> HIDE DEF k
  <2>2. ExportMoved(x) /\ export'[x] = k
    BY <1>2, <2>1, MarkedIs, ExportBecomes
  <2> QED
    BY <1>2, <2>1, <2>2
<1> QED
  BY <1>3, <1>4 DEF Exported

\* The calls and the posts while another part moves.
LEMMA RestKeeps ==
  ASSUME SafeInv, UNCHANGED calls, UNCHANGED posts, RunsTyped', ExportsTyped', LogKept, Later,
         Contents', Unique'
  PROVE  SafeInv'
<1>1. shape' = shape /\ call' = call /\ tools' = tools /\ seen' = seen
  BY DEF calls
<1>2. CallsTyped'
  BY <1>1 DEF SafeInv, Typed, CallsTyped
<1>3. \A c \in Calls : CallOK(c)' /\ Told(c)'
  BY <1>1, CallStays
<1> QED
  BY <1>2, <1>3, PostsStay DEF SafeInv, Typed

LEMMA NothingMoves ==
  ASSUME UNCHANGED calls, UNCHANGED posts
  PROVE  OverStays
BY DEF OverStays, calls, posts, SameCall

LEMMA ExportStepKeeps ==
  ASSUME SafeInv, NEW x \in Exports, Send(x) \/ ExportStep(x), UNCHANGED calls, UNCHANGED posts
  PROVE  SafeInv'
<1>1. CASE RecordSpan(x) \/ SpanLost(x)
  <2>1. PICK q \in Runs, s \in Spans : ExportMoved(x) /\ GrownIn(q, [by |-> s])
    BY <1>1, RecordSpanGives, SpanLostGives
  <2>2. PICK e : e = [by |-> s]
    OBVIOUS
  <2>3. LogKept /\ Later /\ RunsTyped' /\ GrownIn(q, e)
    BY <2>1, <2>2, GrownFacts DEF GrownIn, SafeInv, Typed
  <2>4. e.by \notin Calls \cup Posts
    BY <2>2, SpansAssumption DEF Spans
  <2>5. Truthful(e)'
    BY <2>4 DEF Truthful
  <2>6. Contents' /\ Unique'
    BY <2>3, <2>4, <2>5, NothingMoves, GrownStays DEF OnceOnly
  <2> QED
    BY <2>1, <2>3, <2>6, RestKeeps DEF ExportMoved
<1>2. CASE ~RecordSpan(x) /\ ~SpanLost(x)
  <2>1. ExportMoved(x) /\ Quiet
    BY <1>2, SendSafe, PlaceSafe, MarkSafe, RejectSpanSafe, SpanFailsSafe, ExportedSafe DEF ExportStep
  <2>2. LogKept /\ Later /\ RunsTyped' /\ log' = log
    BY <2>1, QuietIsKept DEF Quiet
  <2>3. Contents' /\ Unique'
    BY <2>2, NothingMoves, QuietStays
  <2> QED
    BY <2>1, <2>2, <2>3, RestKeeps DEF ExportMoved
<1> QED
  BY <1>1, <1>2

-----------------------------------------------------------------------------
\* What happens to the label and to the process

LEMMA IdleSafe ==
  ASSUME SafeInv, Idle
  PROVE  Quiet /\ spent'["idle"] # 0
<1>1. /\ RunsTyped /\ Spend("idle") /\ idle' = TRUE
      /\ live' = live /\ log' = log /\ current' = current
  BY DEF Idle, SafeInv, Typed
<1>2. "idle" \in Trouble /\ spent \in [Trouble -> Nat]
  BY <1>1, GroupedAssumption DEF RunsTyped
<1>3. spent' \in [Trouble -> Nat] /\ Later /\ spent'["idle"] # 0
  BY <1>1, <1>2, SpendKeeps
<1> QED
  BY <1>1, <1>3 DEF Quiet, RunsTyped

LEMMA ApiEndSafe ==
  ASSUME SafeInv, NEW r \in Runs, ApiEnd(r)
  PROVE  Quiet /\ spent'["end"] # 0
<1>1. /\ RunsTyped /\ Spend("end") /\ live[r] = "open" /\ live' = [live EXCEPT ![r] = "closed"]
      /\ log' = log /\ current' = current /\ idle' = idle
  BY DEF ApiEnd, SafeInv, Typed
<1>2. "end" \in Trouble /\ spent \in [Trouble -> Nat]
  BY <1>1, GroupedAssumption DEF RunsTyped
<1>3. spent' \in [Trouble -> Nat] /\ Later /\ spent'["end"] # 0
  BY <1>1, <1>2, SpendKeeps
<1>4. live' \in [Runs -> {"absent", "open", "closed"}]
  BY <1>1 DEF RunsTyped
<1>5. ASSUME NEW q \in Runs, live'[q] = "absent"
      PROVE  log[q] = <<>>
  BY <1>1, <1>5 DEF RunsTyped
<1> QED
  BY <1>1, <1>3, <1>4, <1>5 DEF Quiet, RunsTyped

\* A process that dies leaves the chains; what it was doing is cut off.
LEMMA RestartGives ==
  ASSUME SafeInv, Restart
  PROVE  /\ Quiet /\ spent'["restart"] # 0 /\ OverStays
         /\ CallsTyped' /\ PostsTyped' /\ ExportsTyped' /\ current' = None /\ idle' = FALSE
         /\ live' = live
         /\ \A c \in Calls : \/ call'[c] = call[c] /\ call[c].pc \in {"arrive", "done"}
                             \/ call'[c] = [call[c] EXCEPT !.pc = "done", !.reply = "cut"]
         /\ \A p \in Posts : \/ post'[p] = post[p]
                             \/ post'[p] = [post[p] EXCEPT !.pc = "done", !.reply = "cut"]
<1>1. /\ RunsTyped /\ CallsTyped /\ PostsTyped /\ ExportsTyped
      /\ Spend("restart") /\ Forgotten /\ CallsCut /\ PostsCut /\ ExportsCut
  BY DEF Restart, SafeInv, Typed
<1>2. "restart" \in Trouble /\ spent \in [Trouble -> Nat]
  BY <1>1, GroupedAssumption DEF RunsTyped
<1>3. spent' \in [Trouble -> Nat] /\ Later /\ spent'["restart"] # 0
  BY <1>1, <1>2, SpendKeeps
<1>4. Quiet /\ current' = None /\ idle' = FALSE /\ live' = live
  BY <1>1, <1>3 DEF Quiet, RunsTyped, Forgotten
<1>5. /\ shape' = shape /\ tools' = tools /\ seen' = <<>> /\ step' = step
      /\ call' = [c \in Calls |-> IF call[c].pc \in {"arrive", "done"} THEN call[c]
                                  ELSE [call[c] EXCEPT !.pc = "done", !.reply = "cut"]]
      /\ post' = [p \in Posts |-> IF post[p].pc \in {"arrive", "done"} THEN post[p]
                                  ELSE [post[p] EXCEPT !.pc = "done", !.reply = "cut"]]
      /\ export' = [x \in Exports |-> IF export[x].pc \in {"send", "done"} THEN export[x]
                                      ELSE [export[x] EXCEPT !.pc = "send", !.reply = "cut"]]
      /\ marked' = <<>>
  BY <1>1 DEF CallsCut, PostsCut, ExportsCut
<1>6. CallsTyped'
  <2>1. ASSUME NEW c \in Calls
        PROVE  call'[c] \in CallOf
    <3>1. call[c] \in CallOf
      BY <1>1 DEF CallsTyped
    <3>2. [call[c] EXCEPT !.pc = "done", !.reply = "cut"] \in CallOf
      BY <3>1 DEF CallOf
    <3> QED
      BY <1>5, <3>1, <3>2
  <2>2. call' \in [Calls -> CallOf]
    BY <1>5, <2>1
  <2>3. seen' \in Seq(Runs \X Versions)
    <3>1. <<>> \in Seq(Runs \X Versions)
      OBVIOUS
    <3>2. seen' = <<>>
      BY <1>5
    <3> QED
      BY <3>1, <3>2, Zenon
  <2> QED
    BY <1>1, <1>5, <2>2, <2>3 DEF CallsTyped
<1>7. PostsTyped'
  <2>1. ASSUME NEW p \in Posts
        PROVE  post'[p] \in PostOf
    <3>1. post[p] \in PostOf
      BY <1>1 DEF PostsTyped
    <3>2. [post[p] EXCEPT !.pc = "done", !.reply = "cut"] \in PostOf
      BY <3>1 DEF PostOf
    <3> QED
      BY <1>5, <3>1, <3>2
  <2>2. post' \in [Posts -> PostOf]
    BY <1>5, <2>1
  <2> QED
    BY <1>1, <1>5, <2>2 DEF PostsTyped
<1>8. ExportsTyped'
  <2>1. ASSUME NEW x \in Exports
        PROVE  export'[x] \in ExportOf /\ ExportOK(x)'
    <3>1. export[x] \in ExportOf /\ ExportOK(x)
      BY <1>1 DEF ExportsTyped
    <3>2. /\ [export[x] EXCEPT !.pc = "send", !.reply = "cut"] \in ExportOf
          /\ [export[x] EXCEPT !.pc = "send", !.reply = "cut"].pc = "send"
      BY <3>1 DEF ExportOf
    <3>3. \/ export'[x] = export[x]
          \/ export'[x] = [export[x] EXCEPT !.pc = "send", !.reply = "cut"]
      BY <1>5
    <3> QED
      BY <3>1, <3>2, <3>3 DEF ExportOK
  <2>2. export' \in [Exports -> ExportOf]
    BY <1>5, <2>1
  <2>3. marked' \in Seq(Runs \X Spans)
    <3>1. <<>> \in Seq(Runs \X Spans)
      OBVIOUS
    <3>2. marked' = <<>>
      BY <1>5
    <3> QED
      BY <3>1, <3>2, Zenon
  <2> QED
    BY <2>1, <2>2, <2>3 DEF ExportsTyped
<1>9. OverStays
  <2>1. ASSUME NEW p \in Posts
        PROVE  /\ post[p].pc \in {"remember", "done"} => post'[p].pc \in {"remember", "done"}
               /\ post[p].pc = "append" => post'[p].pc = "done"
    <3>1. post[p] \in PostOf
      BY <1>1 DEF PostsTyped
    <3>2. [post[p] EXCEPT !.pc = "done", !.reply = "cut"].pc = "done"
      BY <3>1 DEF PostOf
    <3> QED
      BY <1>5, <2>1, <3>2
  <2>2. ASSUME NEW c \in Calls, call[c].pc = "record"
        PROVE  SameCall(c) /\ call'[c].pc = "done"
    <3>1. call[c] \in CallOf
      BY <1>1 DEF CallsTyped
    <3>2. call'[c] = [call[c] EXCEPT !.pc = "done", !.reply = "cut"]
      BY <1>5, <2>2
    <3> QED
      BY <1>5, <3>1, <3>2 DEF CallOf, SameCall
  <2> QED
    BY <1>5, <2>1, <2>2 DEF OverStays
<1> QED
  BY <1>3, <1>4, <1>5, <1>6, <1>7, <1>8, <1>9

LEMMA RestartKeeps ==
  ASSUME SafeInv, Restart
  PROVE  SafeInv'
<1>1. /\ Quiet /\ OverStays /\ CallsTyped' /\ PostsTyped' /\ ExportsTyped'
      /\ \A c \in Calls : \/ call'[c] = call[c] /\ call[c].pc \in {"arrive", "done"}
                          \/ call'[c] = [call[c] EXCEPT !.pc = "done", !.reply = "cut"]
      /\ \A p \in Posts : \/ post'[p] = post[p]
                          \/ post'[p] = [post[p] EXCEPT !.pc = "done", !.reply = "cut"]
  BY RestartGives
<1>2. LogKept /\ Later /\ RunsTyped' /\ log' = log
  BY <1>1, QuietIsKept DEF Quiet
<1>3. Contents' /\ Unique'
  BY <1>1, <1>2, QuietStays
<1>4. shape' = shape /\ step' = step
  BY <1>1 DEF OverStays
<1>5. ASSUME NEW c \in Calls
      PROVE  CallOK(c)' /\ Told(c)'
  <2>1. CASE call'[c] = call[c]
    BY <1>2, <1>4, <2>1, CallStays
  <2>2. CASE call'[c] = [call[c] EXCEPT !.pc = "done", !.reply = "cut"]
    <3>1. call[c] \in CallOf /\ CallOK(c)
      BY CallIs
    <3>2. /\ call'[c].pc = "done" /\ call'[c].reply = "cut" /\ call'[c].got = call[c].got
          /\ call'[c].gave = call[c].gave
      BY <2>2, <3>1 DEF CallOf
    <3> QED
      BY <1>4, <3>1, <3>2 DEF CallOK, Told, Out
  <2> QED
    BY <1>1, <2>1, <2>2
<1>6. ASSUME NEW p \in Posts
      PROVE  PostOK(p)'
  <2>1. CASE post'[p] = post[p]
    BY <1>2, <1>4, <2>1, PostStays
  <2>2. CASE post'[p] = [post[p] EXCEPT !.pc = "done", !.reply = "cut"]
    <3>1. post[p] \in PostOf
      BY PostIs
    <3>2. post'[p].pc = "done" /\ post'[p].reply = "cut"
      BY <2>2, <3>1 DEF PostOf
    <3> QED
      BY <3>2 DEF PostOK
  <2> QED
    BY <1>1, <2>1, <2>2
<1> QED
  BY <1>1, <1>2, <1>3, <1>5, <1>6 DEF SafeInv, Typed

LEMMA ToolsKeep ==
  ASSUME SafeInv, ToolsChange, UNCHANGED posts, UNCHANGED exports
  PROVE  SafeInv'
<1>1. shape' = shape /\ call' = call /\ seen' = seen /\ tools' = 2 /\ Quiet /\ step' = step /\ post' = post
  BY UnchangedRuns DEF ToolsChange, posts
<1>2. LogKept /\ Later /\ RunsTyped' /\ log' = log
  BY <1>1, QuietIsKept DEF Quiet
<1>3. OverStays
  BY <1>1 DEF OverStays, SameCall
<1>4. Contents' /\ Unique'
  BY <1>2, <1>3, QuietStays
<1>5. CallsTyped'
  BY <1>1 DEF SafeInv, Typed, CallsTyped
<1>6. \A c \in Calls : CallOK(c)' /\ Told(c)'
  BY <1>1, <1>2, CallStays
<1> QED
  BY <1>2, <1>4, <1>5, <1>6, PostsStay, ExportsStay DEF SafeInv, Typed

LEMMA SafeInit == Init => SafeInv
<1> SUFFICES ASSUME Init PROVE SafeInv
  OBVIOUS
<1>1. /\ live = [r \in Runs |-> "absent"] /\ log = [r \in Runs |-> <<>>] /\ current = None
      /\ idle = FALSE /\ spent = [t \in Trouble |-> 0]
  BY DEF Init, RunsInit
<1>2. RunsTyped
  <2>1. <<>> \in Seq(EntryOf)
    OBVIOUS
  <2>2. log \in [Runs -> Seq(EntryOf)]
    BY <1>1, <2>1
  <2>3. live \in [Runs -> {"absent", "open", "closed"}] /\ spent \in [Trouble -> Nat]
    BY <1>1
  <2> QED
    BY <1>1, <2>2, <2>3 DEF RunsTyped
<1>3. shape \in Shapes /\ tools = 1 /\ seen = <<>>
      /\ call \in [Calls -> {Arriving, [Arriving EXCEPT !.pc = "done"]}]
  BY DEF Init, CallsInit
<1>4. ASSUME NEW c \in Calls
      PROVE  /\ call[c] \in CallOf /\ call[c].pc \in {"arrive", "done"} /\ call[c].reply = None
             /\ call[c].got = 0 /\ call[c].gave = 0 /\ call[c].run = None
  <2>1. /\ Arriving \in CallOf /\ Arriving.pc = "arrive" /\ Arriving.reply = None
        /\ Arriving.got = 0 /\ Arriving.gave = 0 /\ Arriving.run = None
    BY DEF Arriving, CallOf, Versions
  <2>2. /\ [Arriving EXCEPT !.pc = "done"] \in CallOf /\ [Arriving EXCEPT !.pc = "done"].pc = "done"
        /\ [Arriving EXCEPT !.pc = "done"].reply = None
        /\ [Arriving EXCEPT !.pc = "done"].got = 0 /\ [Arriving EXCEPT !.pc = "done"].gave = 0
        /\ [Arriving EXCEPT !.pc = "done"].run = None
    BY <2>1 DEF CallOf
  <2>3. call[c] = Arriving \/ call[c] = [Arriving EXCEPT !.pc = "done"]
    BY <1>3
  <2> QED
    BY <2>1, <2>2, <2>3
<1>5. CallsTyped
  <2>1. call \in [Calls -> CallOf]
    BY <1>3, <1>4
  <2> QED
    BY <1>3, <2>1 DEF CallsTyped
<1>6. step \in Steps /\ post \in [Posts -> [pc : {"arrive", "done"}, run : {None}, reply : {None}]]
  BY DEF Init, PostsInit
<1>7. ASSUME NEW p \in Posts
      PROVE  post[p] \in PostOf /\ post[p].pc \in {"arrive", "done"} /\ post[p].reply = None
  BY <1>6 DEF PostOf
<1>8. PostsTyped
  <2>1. post \in [Posts -> PostOf]
    BY <1>6, <1>7
  <2> QED
    BY <1>6, <2>1 DEF PostsTyped
<1>9. export \in [Exports -> {Waiting, [Waiting EXCEPT !.pc = "done"]}] /\ marked = <<>>
  BY DEF Init, ExportsInit
<1>10. ASSUME NEW x \in Exports
       PROVE  export[x] \in ExportOf /\ export[x].pc \in {"send", "done"} /\ export[x].reply = None
  <2>1. Waiting \in ExportOf /\ Waiting.pc = "send" /\ Waiting.reply = None
    BY DEF Waiting, ExportOf
  <2>2. /\ [Waiting EXCEPT !.pc = "done"] \in ExportOf /\ [Waiting EXCEPT !.pc = "done"].pc = "done"
        /\ [Waiting EXCEPT !.pc = "done"].reply = None
    BY <2>1 DEF ExportOf
  <2>3. export[x] = Waiting \/ export[x] = [Waiting EXCEPT !.pc = "done"]
    BY <1>9
  <2> QED
    BY <2>1, <2>2, <2>3
<1>11. ExportsTyped
  <2>1. export \in [Exports -> ExportOf]
    BY <1>9, <1>10
  <2> QED
    BY <1>9, <1>10, <2>1 DEF ExportsTyped, ExportOK
<1>12. Contents /\ Unique
  BY <1>1 DEF Contents, Unique
<1>13. ASSUME NEW c \in Calls
       PROVE  CallOK(c) /\ Told(c)
  <2>1. Len(shape[c].events) \in Nat
    BY <1>5, ShapeIs DEF ShapeOf
  <2> QED
    BY <1>4, <2>1, GroupedAssumption DEF CallOK, Told, Out
<1>14. \A p \in Posts : PostOK(p)
  BY <1>7, GroupedAssumption DEF PostOK
<1> QED
  BY <1>2, <1>5, <1>8, <1>11, <1>12, <1>13, <1>14 DEF SafeInv, Typed

LEMMA SafeStep == SafeInv /\ [Next]_vars => SafeInv'
<1> SUFFICES ASSUME SafeInv, [Next]_vars PROVE SafeInv'
  OBVIOUS
<1>1. CASE ToolsChange /\ UNCHANGED <<posts, exports>>
  BY <1>1, ToolsKeep
<1>2. ASSUME NEW c \in Calls, CallStep(c), UNCHANGED <<posts, exports>>
      PROVE  SafeInv'
  BY <1>2, CallStepKeeps
<1>3. ASSUME NEW p \in Posts, PostStep(p), UNCHANGED <<shape, call, tools, exports>>
      PROVE  SafeInv'
  BY <1>3, PostStepKeeps
<1>4. ASSUME NEW x \in Exports, Send(x) \/ ExportStep(x), UNCHANGED <<calls, posts>>
      PROVE  SafeInv'
  BY <1>4, ExportStepKeeps
<1>5. CASE Quiet /\ UNCHANGED <<calls, posts, exports>>
  <2>1. LogKept /\ Later /\ RunsTyped' /\ log' = log
    BY <1>5, QuietIsKept DEF Quiet
  <2>2. Contents' /\ Unique'
    BY <1>5, <2>1, NothingMoves, QuietStays
  <2>3. ExportsTyped'
    BY <1>5, ExportsStay
  <2> QED
    BY <1>5, <2>1, <2>2, <2>3, RestKeeps
<1>6. CASE (Idle \/ (Busy /\ Replacing) \/ \E r \in Runs : ApiEnd(r)) /\ UNCHANGED <<calls, posts, exports>>
  BY <1>5, <1>6, IdleSafe, ApiEndSafe, ReplacingKeeps DEF SafeInv, Typed
<1>7. CASE Restart
  BY <1>7, RestartKeeps
<1>8. CASE UNCHANGED vars
  <2>1. /\ UNCHANGED runs /\ UNCHANGED spent /\ UNCHANGED calls /\ UNCHANGED posts
        /\ UNCHANGED exports
    BY <1>8 DEF vars
  <2> QED
    BY <1>5, <2>1, UnchangedRuns
<1> QED
  BY <1>1, <1>2, <1>3, <1>4, <1>6, <1>7, <1>8, Zenon DEF Next

\* The invariant the safety theorems rest on: what a call and a step have come to, that a
\* record says just that, once unless the store kept one without saying so, and that who was
\* told of a record has one.
THEOREM SafeInvariant == Spec => []SafeInv
BY SafeInit, SafeStep, PTL DEF Spec

\* No batch and no call that could not be matched to its response goes out, nothing that acts
\* on its target goes out but to be recorded, nothing of what the policy rule keeps from the
\* cloud but messages of MCP that use no tool and what is asked by GET or ended by DELETE, and
\* no step gets onto a chain with what only a recorder can have seen, for any requests and
\* whatever goes wrong (mcp.py:26-28, a2a.py:20-25, steps.py:176).
THEOREM GatewayNothingPast == Spec => []NothingPast
<1>1. SafeInv => NothingPast
  <2> SUFFICES ASSUME SafeInv PROVE NothingPast
    OBVIOUS
  <2>1. ASSUME NEW c \in Calls, NEW s, s = shape[c],
               \/ call[c].pc \in {"send", "refusal", "relay", "read", "look", "compare"}
               \/ call[c].pc = "record" /\ call[c].end # "blocked"
        PROVE  /\ s.body \notin {"batch", "badid"}
               /\ Acting(s) => Recordable(s)
               /\ s.cloud /\ s.barred =>
                     s.body = "get" \/ (s.proxy = "mcp" /\ s.body \in {"list", "other", "unreadable"})
    <3>1. CallOK(c) /\ s \in ShapeOf /\ WellAsked(s)
      BY <2>1, CallIs
    <3>2. Parsed(s) # "refused" /\ ~Blocked(s)
      BY <2>1, <3>1 DEF CallOK, Out, Recordable
    <3>3. /\ s.proxy \in {"llm", "mcp", "a2a"} /\ s.cloud \in BOOLEAN
          /\ s.body \in {"act", "list", "cancel", "other", "get", "batch", "badid", "unreadable",
                         "unserved"}
          /\ s.body = "cancel" => s.proxy = "a2a"
          /\ s.body = "list" => s.proxy = "mcp"
      BY <3>1 DEF ShapeOf, WellAsked
    <3>4. CASE s.proxy = "llm"
      BY <3>2, <3>4 DEF Parsed, ParseModel, Blocked, Recordable, Governed, Blocks
    <3>5. CASE s.proxy = "mcp"
      BY <3>2, <3>3, <3>5 DEF Parsed, ParseTool, Blocked, Recordable, Governed, Blocks, Acting
    <3>6. CASE s.proxy = "a2a"
      BY <3>2, <3>3, <3>6 DEF Parsed, ParseDelegation, Blocked, Recordable, Governed, Blocks, Acting
    <3> QED
      BY <3>3, <3>4, <3>5, <3>6
  <2>2. ASSUME NEW p \in Posts, step[p].body = "claims"
        PROVE  RecordsOf(p) = {}
    <3>1. ASSUME NEW r \in Runs, NEW i \in 1..Len(log[r])
          PROVE  log[r][i].by # p
      BY <2>2 DEF SafeInv, Contents, Truthful, ParseStep, MarkSelfReported
    <3> QED
      BY <3>1 DEF RecordsOf, Places
  <2> QED
    BY <2>1, <2>2 DEF NothingPast
<1> QED
  BY <1>1, SafeInvariant, PTL

\* What the client has seen of a stream is on the chain, whatever ended it; the record of one
\* that broke off says so, for streams of any length (core.py:14-15, mcp.py:16, a2a.py:370).
THEOREM GatewayStreamIsRecorded == Spec => []StreamIsRecorded
<1>1. SafeInv => StreamIsRecorded
  <2> SUFFICES ASSUME SafeInv, NEW r \in Runs, NEW i \in 1..Len(log[r]), NEW e, e = log[r][i],
                      NEW asked, asked = shape[e.by], e.by \in Calls
               PROVE  /\ e.chunks >= call[e.by].gave
                      /\ asked.stream /\ call[e.by].end \in {"cut", "left"} =>
                         /\ e.outcome = "success" =>
                               e.chunks = Len(asked.events) \/ asked.body = "other"
                         /\ asked.proxy = "mcp" => (e.truncated <=> ~(e.chunks = Len(asked.events)))
                         /\ asked.proxy = "llm" =>
                              (e.truncated <=> (\/ ~(e.chunks = Len(asked.events))
                                                \/ Last(asked.events) = "error"))
    BY DEF StreamIsRecorded
  <2>1. PICK c \in Calls : c = e.by
    OBVIOUS
  <2>2. Recordable(shape[c]) /\ e = Entry(c)
    BY <2>1 DEF SafeInv, Contents, Truthful
  <2>3. /\ CallsTyped /\ call[c] \in CallOf /\ call[c].got <= Len(shape[c].events)
        /\ call[c].gave <= call[c].got
    BY CallIs DEF CallOK
  <2>4. e.chunks = call[c].got
    BY <2>2, <2>3, EntryIs
  <2>5. call[c].got \in Nat /\ call[c].gave \in Nat
    BY <2>3 DEF CallOf
  <2>6. e.chunks >= call[c].gave
    BY <2>3, <2>4, <2>5
  <2>7. ASSUME asked.stream, call[c].end \in {"cut", "left"}
        PROVE  /\ e.outcome = "success" => e.chunks = Len(asked.events) \/ asked.body = "other"
               /\ asked.proxy = "mcp" => (e.truncated <=> ~(e.chunks = Len(asked.events)))
               /\ asked.proxy = "llm" => (e.truncated <=> (\/ ~(e.chunks = Len(asked.events))
                                                           \/ Last(asked.events) = "error"))
    BY <2>1, <2>2, <2>3, <2>4, <2>7, CutStreamIs DEF Last
  <2> QED
    BY <2>1, <2>6, <2>7
<1> QED
  BY <1>1, SafeInvariant, PTL

-----------------------------------------------------------------------------
\* While neither the store nor the process fails

\* What a call is about to record, an export is about to record, stays so or is recorded.
ComingKept ==
    \A c \in Calls : call[c].pc = "record" =>
        call'[c] = call[c] \/ \E r \in Runs : Entry(c) \in ToSet(log'[r])

FlightKept ==
    \A y \in Exports, s \in Spans : export[y].pc = "record" /\ Span(y) = s =>
        export'[y] = export[y] \/ s \in Invalid \/ \E r \in Runs : RecordedIn(r, s)'

LEMMA ListedStays ==
  ASSUME SafeInv, LogKept, shape' = shape, ComingKept
  PROVE  \A v : Listed(v) => Listed(v)'
<1> SUFFICES ASSUME NEW v, NEW e, e \in Records \cup Coming, Listing(e), e.version = v
             PROVE  Listed(v)'
  BY DEF Listed
<1>1. Listing(e)'
  BY DEF Listing
<1>2. Records \subseteq Records'
  BY DEF Records, LogKept
<1>3. CASE e \in Records
  BY <1>1, <1>2, <1>3 DEF Listed
<1>4. CASE e \in Coming
  <2>1. PICK c \in Calls : call[c].pc = "record" /\ e = Entry(c)
    BY <1>4 DEF Coming
  <2>2. CASE call'[c] = call[c]
    <3>1. SameCall(c) /\ shape[c].proxy \in {"llm", "mcp", "a2a"}
      BY <2>2, CallIs DEF SameCall, ShapeOf
    <3>2. Entry(c)' = Entry(c)
      BY <3>1, EntryStays
    <3>3. e \in Coming'
      BY <2>1, <2>2, <3>2 DEF Coming
    <3> QED
      BY <1>1, <3>3 DEF Listed
  <2>3. CASE \E r \in Runs : e \in ToSet(log'[r])
    <3>1. e \in Records'
      BY <2>3 DEF Records
    <3> QED
      BY <1>1, <3>1 DEF Listed
  <2> QED
    BY <2>1, <2>2, <2>3 DEF ComingKept
<1> QED
  BY <1>3, <1>4

LEMMA SettledStays ==
  ASSUME SafeInv, LogKept, FlightKept
  PROVE  \A s : Settled(s) => Settled(s)'
<1> SUFFICES ASSUME NEW s, Settled(s)
             PROVE  Settled(s)'
  OBVIOUS
<1>1. CASE s \in Invalid
  BY <1>1 DEF Settled
<1>2. CASE Recorded(s)
  BY <1>2, RecordedStays DEF Settled
<1>3. CASE \E y \in Exports : export[y].pc = "record" /\ Span(y) = s
  <2>1. PICK y \in Exports : export[y].pc = "record" /\ Span(y) = s /\ s \in Spans
    BY <1>3, ExportIs
  <2>2. CASE export'[y] = export[y]
    BY <2>1, <2>2 DEF Settled, Span
  <2>3. CASE s \in Invalid
    BY <2>3 DEF Settled
  <2>4. CASE \E r \in Runs : RecordedIn(r, s)'
    BY <2>4 DEF Settled, Recorded
  <2> QED
    BY <2>1, <2>2, <2>3, <2>4 DEF FlightKept
<1> QED
  BY <1>1, <1>2, <1>3 DEF Settled

\* Only a comparison, a record or a failure can tell a client that it has its answer.
LEMMA NoAnswer ==
  ASSUME SafeInv, NEW c \in Calls, CallStep(c), ~Compare(c), ~Recording(c), ~RecordFails(c)
  PROVE  /\ call'[c].reply \notin {"answered", "blocked"} /\ call[c].pc \notin {"record", "done"}
         /\ seen' = seen /\ (Announce(c) \/ Look(c) \/ call'[c].run = call[c].run)
<1>1. /\ call \in [Calls -> CallOf] /\ call[c] \in CallOf
      /\ call[c].pc # "done" => call[c].reply \notin {"answered", "blocked"}
  BY CallIs, GroupedAssumption DEF CallOK
<1>2. CASE Refuse(c)
  BY <1>1, <1>2 DEF Refuse, Answer, CallOf
<1>3. CASE Block(c)
  BY <1>1, <1>3 DEF Block, CallOf
<1>4. CASE Admit(c)
  BY <1>1, <1>4 DEF Admit, CallOf
<1>5. CASE Announce(c)
  BY <1>1, <1>5 DEF Announce, CallOf
<1>6. CASE AnnounceFails(c)
  BY <1>1, <1>6 DEF AnnounceFails, Answer, CallOf
<1>7. CASE ModelUnreachable(c)
  BY <1>1, <1>7 DEF ModelUnreachable, CallOf
<1>8. CASE TargetUnreachable(c)
  BY <1>1, <1>8 DEF TargetUnreachable, Answer, CallOf
<1>9. CASE ModelRefused(c)
  BY <1>1, <1>9 DEF ModelRefused, CallOf
<1>10. CASE ReadRefusal(c)
  <2>1. CASE call' = [call EXCEPT ![c].pc = "record", ![c].end = "refused"]
    BY <1>1, <1>10, <2>1 DEF ReadRefusal, CallOf
  <2>2. CASE Answer(c, "failed")
    BY <1>1, <1>10, <2>2 DEF ReadRefusal, Answer, CallOf
  <2> QED
    BY <1>10, <2>1, <2>2 DEF ReadRefusal
<1>11. CASE Relayed(c)
  BY <1>1, <1>11 DEF Relayed, Answer, CallOf
<1>12. CASE Begin(c)
  BY <1>1, <1>12 DEF Begin, CallOf
<1>13. ASSUME NEW end, NEW n, NEW m, call' = Over(c, end, n, m), call[c].pc \in {"read", "relay"}
       PROVE  call'[c].reply \notin {"answered", "blocked"} /\ call'[c].run = call[c].run
  BY <1>1, <1>13 DEF Over, CallOf
<1>14. CASE ReadModel(c)
  <2>1. call[c].pc = "read" /\ seen' = seen /\ \E end, n, m : call' = Over(c, end, n, m)
    BY <1>14 DEF ReadModel
  <2> QED
    BY <1>13, <2>1
<1>15. CASE ReadTarget(c)
  <2>1. call[c].pc = "read" /\ seen' = seen /\ \E end, n, m : call' = Over(c, end, n, m)
    BY <1>15 DEF ReadTarget
  <2> QED
    BY <1>13, <2>1
<1>16. CASE Chunk(c)
  <2>1. CASE call' = [call EXCEPT ![c].got = call[c].got + 1, ![c].gave = call[c].got + 1]
    BY <1>1, <1>16, <2>1 DEF Chunk, CallOf
  <2>2. CASE call' = Over(c, "left", call[c].got + 1, call[c].gave)
    BY <1>13, <1>16, <2>2 DEF Chunk
  <2> QED
    BY <1>16, <2>1, <2>2 DEF Chunk
<1>17. CASE StreamEnds(c)
  <2>1. call[c].pc = "relay" /\ seen' = seen /\ \E end, n, m : call' = Over(c, end, n, m)
    BY <1>17 DEF StreamEnds
  <2> QED
    BY <1>13, <2>1
<1>18. CASE Look(c)
  BY <1>1, <1>18 DEF Look, CallOf
<1> QED
  BY <1>2, <1>3, <1>4, <1>5, <1>6, <1>7, <1>8, <1>9, <1>10, <1>11, <1>12, <1>14, <1>15, <1>16, <1>17,
     <1>18 DEF CallStep, Recording

\* A step of a call keeps what the others have and may be about to record.
LEMMA CallStepFrame ==
  ASSUME SafeInv, NEW c \in Calls, CallStep(c)
  PROVE  /\ Moved(c) /\ LogKept /\ Later
         /\ Recording(c) => \E q \in Runs : RecordedIn(q, c)' /\ Entry(c) \in ToSet(log'[q])
<1>1. CASE Recording(c)
  <2>1. Moved(c)
    BY <1>1, RecordingGives
  <2>2. PICK e : e = Entry(c)
    OBVIOUS
  <2>3. PICK q \in Runs : GrownIn(q, e) /\ RecordedIn(q, c)' /\ e \in ToSet(log'[q])
    BY <1>1, <2>2, RecordingGives
  <2>4. LogKept /\ Later
    BY <2>3, GrownFacts, CallIs DEF GrownIn
  <2> QED
    BY <2>1, <2>2, <2>3, <2>4
<1>2. CASE ~Recording(c)
  <2>1. Silent(c)
    BY <1>2, RefuseSafe, BlockSafe, AdmitSafe, AnnounceSafe, AnnounceFailsSafe, ModelUnreachableSafe,
       TargetUnreachableSafe, ModelRefusedSafe, ReadRefusalSafe, RelayedSafe, BeginSafe, ReadModelSafe,
       ReadTargetSafe, ChunkSafe, StreamEndsSafe, LookSafe, CompareSafe, RecordFailsSafe
       DEF CallStep, Recording
  <2> QED
    BY <1>2, <2>1, QuietIsKept DEF Silent
<1> QED
  BY <1>1, <1>2

LEMMA CallCalm ==
  ASSUME SafeInv, Calm, NEW c \in Calls, CallStep(c), UNCHANGED posts, UNCHANGED exports,
         ~Failed
  PROVE  Calm'
<1>1. /\ Moved(c) /\ LogKept /\ ~RecordFails(c)
      /\ Recording(c) => \E q \in Runs : RecordedIn(q, c)' /\ Entry(c) \in ToSet(log'[q])
  BY CallStepFrame, RecordFailsSafe
<1>2. /\ shape' = shape /\ step' = step /\ post' = post /\ export' = export /\ marked' = marked
      /\ \A d \in Calls \ {c} : call'[d] = call[d]
  BY <1>1 DEF Moved, posts, exports
<1>3. ComingKept
  <2>1. call[c].pc = "record" => Recording(c)
    BY <1>1, NoAnswer DEF Compare
  <2> QED
    BY <1>1, <1>2, <2>1 DEF ComingKept
<1>4. \A v : Listed(v) => Listed(v)'
  BY <1>1, <1>2, <1>3, ListedStays
<1>5. \A s : Settled(s) => Settled(s)'
  BY <1>1, <1>2, SettledStays DEF FlightKept
<1>6. MarkedSettled' /\ \A x \in Exports : ExportSettles(x)'
  <2>1. MarkedSettled'
    BY <1>2, <1>5 DEF Calm, MarkedSettled
  <2>2. ASSUME NEW x \in Exports
        PROVE  ExportSettles(x)'
    <3>1. ExportSettles(x)
      BY DEF Calm
    <3>2. \A i \in 1..Len(Batch[x]) : \A s : s = Batch[x][i] /\ Settled(s) => Settled(s)'
      BY <1>5
    <3> QED
      BY <1>2, <3>1, <3>2 DEF ExportSettles
  <2> QED
    BY <2>1, <2>2
<1>7. \A p \in Posts : StepUnchanged(p)'
  <2>1. ASSUME NEW p \in Posts
        PROVE  StepUnchanged(p)'
    <3>1. PICK v : v = step[p].version
      OBVIOUS
    <3> QED
      BY <1>2, <1>4, <3>1 DEF Calm, StepUnchanged
  <2> QED
    BY <2>1
<1>8. SeenListed'
  <2>1. CASE seen' = seen
    BY <1>4, <2>1 DEF Calm, SeenListed
  <2>2. CASE seen' # seen
    <3>1. Compare(c)
      BY <1>1, <2>2, NoAnswer, RecordingGives
    <3>2. /\ call[c].pc = "compare" /\ call' = [call EXCEPT ![c].pc = "record"]
          /\ seen' = Remembered(call[c].run, call[c].version)
      BY <2>2, <3>1, Zenon DEF Compare
    <3>3. /\ CallsTyped /\ CallOK(c) /\ call \in [Calls -> CallOf] /\ call[c] \in CallOf
          /\ shape[c] \in ShapeOf
      BY CallIs
    <3>4. /\ call'[c].pc = "record" /\ call'[c].got = call[c].got /\ call'[c].end = call[c].end
          /\ call'[c].version = call[c].version
      BY <3>2, <3>3 DEF CallOf
    <3>5. Entry(c)' = Entry(c)
      BY <1>2, <3>3, <3>4, EntryStays DEF SameCall, ShapeOf
    <3>6. Listing(Entry(c)) /\ Entry(c).version = call[c].version
      BY <3>2, <3>3, ListingIs DEF CallOK
    <3>7. PICK v, r, e : v = call[c].version /\ r = call[c].run /\ e = Entry(c)
      OBVIOUS
    <3>8. e \in Coming' /\ Listing(e)' /\ e.version = v
      BY <3>4, <3>5, <3>6, <3>7 DEF Coming, Listing
    <3>9. Listed(v)'
      BY <3>8 DEF Listed
    <3>10. \A k \in ToSet(seen') : k \in ToSet(seen) \/ k = <<r, v>>
      <4>1. seen \in Seq(Runs \X Versions) /\ <<r, v>> \in Runs \X Versions
        BY <3>2, <3>3, <3>7 DEF CallsTyped, CallOK, CallOf
      <4> QED
        BY <3>2, <3>7, <4>1, RememberedIs
    <3> QED
      BY <1>4, <3>9, <3>10 DEF Calm, SeenListed
  <2> QED
    BY <2>1, <2>2
<1>9. ASSUME NEW d \in Calls
      PROVE  ListAnswered(d)'
  <2>1. CASE d # c
    <3>1. PICK v : v = call[d].version
      OBVIOUS
    <3>2. Recorded(d) => Recorded(d)'
      BY <1>1, RecordedStays
    <3> QED
      BY <1>2, <1>4, <2>1, <3>1, <3>2 DEF Calm, ListAnswered
  <2>2. CASE d = c /\ Recording(c)
    BY <1>1, <2>2 DEF ListAnswered, Recorded
  <2>3. CASE d = c /\ ~Recording(c) /\ ~Compare(c)
    BY <1>1, <2>3, NoAnswer DEF ListAnswered
  <2>4. CASE d = c /\ Compare(c)
    <3>1. call \in [Calls -> CallOf] /\ call[c] \in CallOf /\ CallOK(c) /\ call[c].pc = "compare"
      BY <2>4, CallIs DEF Compare
    <3>2. CASE Has(seen, <<call[c].run, call[c].version>>) /\ Answer(c, "answered") /\ UNCHANGED seen
      <4>1. PICK v, r : v = call[c].version /\ r = call[c].run
        OBVIOUS
      <4>2. <<r, v>> \in ToSet(seen)
        <5>1. DOMAIN seen = 1..Len(seen)
          BY CallIs DEF CallsTyped
        <5> QED
          BY <3>2, <4>1, <5>1 DEF Has, ToSet
      <4>3. Listed(v)'
        BY <1>4, <4>2 DEF Calm, SeenListed
      <4>4. call'[c].version = v
        BY <3>1, <3>2, <4>1 DEF Answer, CallOf
      <4> QED
        BY <2>4, <4>3, <4>4 DEF ListAnswered, Listed
    <3>3. CASE call' = [call EXCEPT ![c].pc = "record"]
      <4>1. call'[c].reply = None
        BY <3>1, <3>3 DEF CallOK, CallOf
      <4> QED
        BY <2>4, <4>1, GroupedAssumption DEF ListAnswered
    <3> QED
      BY <2>4, <3>2, <3>3, Zenon DEF Compare
  <2> QED
    BY <2>1, <2>2, <2>3, <2>4
<1> QED
  BY <1>6, <1>7, <1>8, <1>9 DEF Calm

LEMMA PostStepFrame ==
  ASSUME SafeInv, NEW p \in Posts, PostStep(p)
  PROVE  PostMoved(p) /\ LogKept /\ Later
<1>1. CASE Posting(p)
  <2>1. PostMoved(p)
    BY <1>1, PostingGives
  <2>2. PICK q \in Runs : GrownIn(q, StepEntry(p))
    BY <1>1, PostingGives
  <2>3. PICK e : e = StepEntry(p)
    OBVIOUS
  <2>4. LogKept /\ Later
    BY <2>2, <2>3, GrownFacts, PostIs DEF GrownIn
  <2> QED
    BY <2>1, <2>4
<1>2. CASE ~Posting(p)
  <2>1. PostSilent(p)
    BY <1>2, CheckRunSafe, ReadStepSafe, LookStepSafe, CompareStepSafe, StepRefusedSafe, StepFailsSafe,
       RememberStepSafe DEF PostStep, Posting
  <2> QED
    BY <2>1, QuietIsKept DEF PostSilent
<1> QED
  BY <1>1, <1>2

LEMMA NotUnchanged ==
  ASSUME SafeInv, NEW p \in Posts, PostStep(p), ~CompareStep(p)
  PROVE  post'[p].reply # "unchanged"
<1>1. /\ post \in [Posts -> PostOf] /\ post[p] \in PostOf /\ PostOK(p)
      /\ post[p].pc # "done" => post[p].reply = None
  BY PostIs DEF PostOK
<1>2. ASSUME NEW what \in {"refused", "failed", "recorded"}, Answered(p, what)
      PROVE  post'[p].reply # "unchanged"
  BY <1>1, <1>2 DEF Answered, PostOf
<1>3. ASSUME NEW where, Goto(p, where), post[p].pc # "done"
      PROVE  post'[p].reply # "unchanged"
  BY <1>1, <1>3, GroupedAssumption DEF Goto, PostOf
<1>4. CASE CheckRun(p)
  <2>1. CASE post' = [post EXCEPT ![p].pc = "read", ![p].run = step[p].to]
    BY <1>1, <1>4, <2>1, GroupedAssumption DEF CheckRun, PostOf
  <2>2. \/ Goto(p, "read") /\ post[p].pc # "done"
        \/ Answered(p, "refused")
        \/ post' = [post EXCEPT ![p].pc = "read", ![p].run = step[p].to]
    BY <1>4, Zenon DEF CheckRun
  <2> QED
    BY <1>2, <1>3, <2>1, <2>2
<1>5. CASE ReadStep(p)
  <2>1. post[p].pc # "done" /\ (Answered(p, "refused") \/ \E where : Goto(p, where))
    BY <1>5, Zenon DEF ReadStep
  <2> QED
    BY <1>2, <1>3, <2>1
<1>6. CASE LookStep(p)
  BY <1>1, <1>6, GroupedAssumption DEF LookStep, PostOf
<1>7. CASE RecordStep(p)
  BY <1>7, RecordStepGives, GroupedAssumption
<1>8. CASE StepRefused(p)
  BY <1>2, <1>8 DEF StepRefused
<1>9. CASE StepFails(p)
  BY <1>2, <1>9 DEF StepFails
<1>10. CASE RememberStep(p)
  BY <1>2, <1>10 DEF RememberStep
<1>11. CASE StepLost(p)
  BY <1>1, <1>11, StepLostGives, GroupedAssumption
<1> QED
  BY <1>4, <1>5, <1>6, <1>7, <1>8, <1>9, <1>10, <1>11 DEF PostStep

LEMMA PostCalm ==
  ASSUME SafeInv, Calm, NEW p \in Posts, PostStep(p), UNCHANGED <<shape, call, tools, exports>>
  PROVE  Calm'
<1>1. /\ PostMoved(p) /\ LogKept /\ shape' = shape /\ call' = call /\ step' = step
      /\ export' = export /\ marked' = marked /\ \A o \in Posts \ {p} : post'[o] = post[o]
  BY PostStepFrame DEF exports, PostMoved
<1>2. \A v : Listed(v) => Listed(v)'
  BY <1>1, ListedStays DEF ComingKept
<1>3. \A s : Settled(s) => Settled(s)'
  BY <1>1, SettledStays DEF FlightKept
<1>4. MarkedSettled' /\ \A x \in Exports : ExportSettles(x)'
  <2>1. MarkedSettled'
    BY <1>1, <1>3 DEF Calm, MarkedSettled
  <2>2. ASSUME NEW x \in Exports
        PROVE  ExportSettles(x)'
    <3>1. ExportSettles(x)
      BY DEF Calm
    <3>2. \A i \in 1..Len(Batch[x]) : \A s : s = Batch[x][i] /\ Settled(s) => Settled(s)'
      BY <1>3
    <3> QED
      BY <1>1, <3>1, <3>2 DEF ExportSettles
  <2> QED
    BY <2>1, <2>2
<1>5. ASSUME NEW d \in Calls
      PROVE  ListAnswered(d)'
  <2>1. PICK v : v = call[d].version
    OBVIOUS
  <2>2. Recorded(d) => Recorded(d)'
    BY <1>1, RecordedStays
  <2> QED
    BY <1>1, <1>2, <2>1, <2>2 DEF Calm, ListAnswered
<1>6. SeenListed'
  <2>1. CASE seen' = seen
    BY <1>2, <2>1 DEF Calm, SeenListed
  <2>2. CASE seen' # seen
    <3>1. RememberStep(p)
      BY <2>2 DEF PostStep, CheckRun, ReadStep, LookStep, CompareStep, RecordStep, StepRefused, StepFails,
         StepLost
    <3>2. /\ post[p].pc = "remember" /\ seen' = Remembered(post[p].run, step[p].version) /\ log' = log
      BY <3>1 DEF RememberStep, runs
    <3>3. /\ PostOK(p) /\ step[p] \in StepOf /\ seen \in Seq(Runs \X Versions) /\ RunsTyped
      BY PostIs
    <3>4. ListStep(p) /\ post[p].run \in Runs /\ RecordedIn(post[p].run, p)
      BY <3>2, <3>3 DEF PostOK
    <3>5. PICK v, r : v = step[p].version /\ r = post[p].run
      OBVIOUS
    <3>6. PICK e \in ToSet(log[r]) : e.by = p
      BY <3>4, <3>5 DEF RecordedIn
    <3>7. e = StepEntry(p)
      <4>1. r \in Runs /\ log[r] \in Seq(EntryOf)
        BY <3>3, <3>4, <3>5 DEF RunsTyped
      <4>2. DOMAIN log[r] = 1..Len(log[r])
        BY <4>1
      <4>3. PICK i \in 1..Len(log[r]) : e = log[r][i]
        BY <3>6, <4>2 DEF ToSet
      <4> QED
        BY <3>6, <4>1, <4>3 DEF SafeInv, Contents, Truthful
    <3>8. Listing(e)' /\ e.version = v
      BY <3>4, <3>5, <3>7 DEF Listing, StepEntry, ListStep
    <3>9. e \in Records'
      BY <3>2, <3>4, <3>5, <3>6 DEF Records
    <3>10. Listed(v)'
      BY <3>8, <3>9 DEF Listed
    <3>11. \A k \in ToSet(seen') : k \in ToSet(seen) \/ k = <<r, v>>
      <4>1. <<r, v>> \in Runs \X Versions
        BY <3>3, <3>4, <3>5 DEF StepOf, Versions
      <4> QED
        BY <3>2, <3>3, <3>5, <4>1, RememberedIs
    <3> QED
      BY <1>2, <3>10, <3>11 DEF Calm, SeenListed
  <2> QED
    BY <2>1, <2>2
<1>7. ASSUME NEW o \in Posts
      PROVE  StepUnchanged(o)'
  <2>1. PICK v : v = step[o].version
    OBVIOUS
  <2>2. CASE o # p
    BY <1>1, <1>2, <2>1, <2>2 DEF Calm, StepUnchanged
  <2>3. CASE o = p /\ ~CompareStep(p)
    BY <2>3, NotUnchanged DEF StepUnchanged
  <2>4. CASE o = p /\ CompareStep(p)
    <3>1. CASE Has(seen, <<post[p].run, step[p].version>>)
      <4>1. PICK r : r = post[p].run
        OBVIOUS
      <4>2. <<r, v>> \in ToSet(seen)
        <5>1. DOMAIN seen = 1..Len(seen)
          BY PostIs
        <5> QED
          BY <2>1, <2>4, <3>1, <4>1, <5>1 DEF Has, ToSet
      <4>3. Listed(v)'
        BY <1>2, <4>2 DEF Calm, SeenListed
      <4> QED
        BY <1>1, <2>1, <4>3 DEF StepUnchanged
    <3>2. CASE Goto(p, "append")
      <4>1. post \in [Posts -> PostOf] /\ post[p] \in PostOf /\ post[p].reply = None
        BY <2>4, PostIs DEF CompareStep, PostOK
      <4> QED
        BY <2>4, <3>2, <4>1, GroupedAssumption DEF Goto, PostOf, StepUnchanged
    <3> QED
      BY <2>4, <3>1, <3>2, Zenon DEF CompareStep
  <2> QED
    BY <2>2, <2>3, <2>4
<1> QED
  BY <1>4, <1>5, <1>6, <1>7 DEF Calm

LEMMA RestCalm ==
  ASSUME SafeInv, Calm, UNCHANGED <<seen, exports, shape, call, posts>>, LogKept
  PROVE  Calm'
<1>1. /\ seen' = seen /\ shape' = shape /\ call' = call /\ step' = step /\ post' = post
      /\ export' = export /\ marked' = marked
  BY DEF exports, posts
<1>2. \A v : Listed(v) => Listed(v)'
  BY <1>1, ListedStays DEF ComingKept
<1>3. \A s : Settled(s) => Settled(s)'
  BY <1>1, SettledStays DEF FlightKept
<1>4. SeenListed' /\ MarkedSettled'
  BY <1>1, <1>2, <1>3 DEF Calm, SeenListed, MarkedSettled
<1>5. ASSUME NEW x \in Exports
      PROVE  ExportSettles(x)'
  <2>1. ExportSettles(x)
    BY DEF Calm
  <2>2. \A i \in 1..Len(Batch[x]) : \A s : s = Batch[x][i] /\ Settled(s) => Settled(s)'
    BY <1>3
  <2> QED
    BY <1>1, <2>1, <2>2 DEF ExportSettles
<1>6. ASSUME NEW d \in Calls
      PROVE  ListAnswered(d)'
  <2>1. PICK v : v = call[d].version
    OBVIOUS
  <2>2. Recorded(d) => Recorded(d)'
    BY RecordedStays
  <2> QED
    BY <1>1, <1>2, <2>1, <2>2 DEF Calm, ListAnswered
<1>7. ASSUME NEW p \in Posts
      PROVE  StepUnchanged(p)'
  <2>1. PICK v : v = step[p].version
    OBVIOUS
  <2> QED
    BY <1>1, <1>2, <2>1 DEF Calm, StepUnchanged
<1> QED
  BY <1>4, <1>5, <1>6, <1>7 DEF Calm

\* One more span of the batch is settled.
LEMMA PassedOn ==
  ASSUME SafeInv, NEW x \in Exports, export[x].pc \in {"mark", "record"}, ExportSettles(x),
         \A s : Settled(s) => Settled(s)', \A s : s = Span(x) => Settled(s)',
         export'[x].pc = "span", export'[x].i = export[x].i + 1, export'[x].reply = export[x].reply
  PROVE  ExportSettles(x)'
<1>1. export[x] \in ExportOf /\ export[x].i \in 1..Len(Batch[x]) /\ Len(Batch[x]) \in Nat
  BY ExportIs DEF ExportOK
<1>2. ASSUME NEW i \in 1..Len(Batch[x]), i < export[x].i + 1
      PROVE  Settled(Batch[x][i])'
  <2>1. PICK s : s = Batch[x][i]
    OBVIOUS
  <2>2. CASE i < export[x].i
    BY <2>1, <2>2 DEF ExportSettles
  <2>3. CASE i = export[x].i
    BY <2>1, <2>3 DEF Span
  <2> QED
    BY <1>1, <1>2, <2>2, <2>3
<1>3. export[x].reply = "ok" => \A i \in 1..Len(Batch[x]) : Settled(Batch[x][i])'
  <2>1. ASSUME export[x].reply = "ok", NEW i \in 1..Len(Batch[x])
        PROVE  Settled(Batch[x][i])'
    <3>1. PICK s : s = Batch[x][i]
      OBVIOUS
    <3> QED
      BY <2>1, <3>1 DEF ExportSettles
  <2> QED
    BY <2>1
<1> QED
  BY <1>2, <1>3 DEF ExportSettles

LEMMA ExportStepFrame ==
  ASSUME SafeInv, NEW x \in Exports, Send(x) \/ ExportStep(x)
  PROVE  ExportMoved(x) /\ LogKept /\ Later
<1>1. CASE RecordSpan(x) \/ SpanLost(x)
  <2>1. PICK q \in Runs, s \in Spans : ExportMoved(x) /\ GrownIn(q, [by |-> s])
    BY <1>1, RecordSpanGives, SpanLostGives
  <2>2. PICK e : e = [by |-> s]
    OBVIOUS
  <2>3. LogKept /\ Later
    BY <2>1, <2>2, GrownFacts DEF GrownIn, SafeInv, Typed
  <2> QED
    BY <2>1, <2>3
<1>2. CASE ~RecordSpan(x) /\ ~SpanLost(x)
  BY <1>2, QuietIsKept, SendSafe, PlaceSafe, MarkSafe, RejectSpanSafe, SpanFailsSafe, ExportedSafe
     DEF ExportStep
<1> QED
  BY <1>1, <1>2

LEMMA ExportCalm ==
  ASSUME SafeInv, Calm, NEW x \in Exports, Send(x) \/ ExportStep(x), UNCHANGED calls, UNCHANGED posts,
         ~Failed
  PROVE  Calm'
<1>1. /\ ExportMoved(x) /\ LogKept /\ ~SpanFails(x) /\ shape' = shape /\ call' = call /\ seen' = seen
      /\ step' = step /\ post' = post /\ \A y \in Exports \ {x} : export'[y] = export[y]
  BY ExportStepFrame, SpanFailsSafe DEF calls, posts, ExportMoved
<1>2. export[x] \in ExportOf /\ ExportSettles(x) /\ Len(Batch[x]) \in Nat
  BY ExportIs DEF Calm
<1>3. FlightKept
  <2>1. ASSUME NEW s \in Spans, export[x].pc = "record", Span(x) = s
        PROVE  s \in Invalid \/ \E r \in Runs : RecordedIn(r, s)'
    <3>1. RecordSpan(x) \/ RejectSpan(x) \/ SpanLost(x)
      BY <1>1, <2>1 DEF ExportStep, Send, Place, Mark, Exported
    <3> QED
      BY <2>1, <3>1, RecordSpanGives, RejectSpanSafe, SpanLostGives
  <2> QED
    BY <1>1, <2>1 DEF FlightKept
<1>4. \A v : Listed(v) => Listed(v)'
  BY <1>1, ListedStays DEF ComingKept
<1>5. \A s : Settled(s) => Settled(s)'
  BY <1>1, <1>3, SettledStays
<1>6. ASSUME Mark(x)
      PROVE  \A s : s = Span(x) => Settled(s)'
  <2>1. PICK s, r : s = Span(x) /\ r = export[x].run
    OBVIOUS
  <2>2. CASE <<export[x].run, Span(x)>> \in ToSet(marked)
    <3>1. Settled(s)
      BY <2>1, <2>2 DEF Calm, MarkedSettled
    <3> QED
      BY <1>5, <2>1, <3>1
  <2>3. CASE export'[x].pc = "record" /\ export'[x].i = export[x].i
    BY <2>1, <2>3 DEF Settled, Span
  <2> QED
    BY <1>6, <2>2, <2>3, MarkSafe
<1>7. MarkedSettled'
  <2>1. CASE ~Mark(x)
    <3>1. marked' = marked
      BY <1>1, <2>1, SendSafe, PlaceSafe, RecordSpanGives, RejectSpanSafe, ExportedSafe,
         SpanLostGives DEF ExportStep
    <3> QED
      BY <1>5, <3>1 DEF Calm, MarkedSettled
  <2>2. CASE Mark(x)
    <3>1. PICK s, r : s = Span(x) /\ r = export[x].run
      OBVIOUS
    <3>2. \A k \in ToSet(marked') : k \in ToSet(marked) \/ k = <<r, s>>
      BY <2>2, <3>1, MarkSafe
    <3>3. Settled(s)'
      BY <1>6, <2>2, <3>1
    <3> QED
      BY <1>5, <3>2, <3>3 DEF Calm, MarkedSettled
  <2> QED
    BY <2>1, <2>2
<1>8. ExportSettles(x)'
  <2>1. CASE Send(x)
    <3>1. export'[x].pc = "span" /\ export'[x].i = 1 /\ export'[x].reply = None
      BY <2>1, SendSafe
    <3>2. \A i \in 1..Len(Batch[x]) : ~(i < 1)
      BY <1>2
    <3> QED
      BY <3>1, <3>2, GroupedAssumption DEF ExportSettles
  <2>2. CASE Place(x)
    <3>1. /\ export'[x].i = export[x].i /\ export'[x].reply = export[x].reply /\ export[x].pc = "span"
      BY <2>2, PlaceSafe
    <3>2. \A i \in 1..Len(Batch[x]) : \A s : s = Batch[x][i] /\ Settled(s) => Settled(s)'
      BY <1>5
    <3> QED
      BY <1>2, <3>1, <3>2 DEF ExportSettles
  <2>3. CASE Mark(x)
    <3>1. CASE export'[x].pc = "span" /\ export'[x].i = export[x].i + 1
      BY <1>2, <1>5, <1>6, <2>3, <3>1, MarkSafe, PassedOn
    <3>2. CASE export'[x].pc = "record" /\ export'[x].i = export[x].i
      <4>1. \A i \in 1..Len(Batch[x]) : \A s : s = Batch[x][i] /\ Settled(s) => Settled(s)'
        BY <1>5
      <4> QED
        BY <1>2, <2>3, <3>2, <4>1, MarkSafe DEF ExportSettles
    <3> QED
      BY <2>3, <3>1, <3>2, MarkSafe
  <2>4. CASE RecordSpan(x)
    <3>1. PICK q \in Runs, s \in Spans :
            /\ export[x].pc = "record" /\ s = Span(x) /\ RecordedIn(q, s)'
            /\ export'[x].pc = "span" /\ export'[x].i = export[x].i + 1
            /\ export'[x].reply = export[x].reply
      BY <2>4, RecordSpanGives
    <3>2. Settled(s)'
      BY <3>1 DEF Settled, Recorded
    <3> QED
      BY <1>2, <1>5, <3>1, <3>2, PassedOn
  <2>5. CASE RejectSpan(x)
    <3>1. /\ export[x].pc = "record" /\ Span(x) \in Invalid /\ export'[x].pc = "span"
          /\ export'[x].i = export[x].i + 1 /\ export'[x].reply = export[x].reply
      BY <2>5, RejectSpanSafe
    <3>2. \A s : s = Span(x) => Settled(s)'
      BY <3>1 DEF Settled
    <3> QED
      BY <1>2, <1>5, <3>1, <3>2, PassedOn
  <2>6. CASE Exported(x)
    <3>1. /\ export[x].pc = "span" /\ export[x].i > Len(Batch[x])
          /\ export'[x].pc \in {"done", "send"}
      BY <2>6, ExportedSafe
    <3>2. ASSUME NEW i \in 1..Len(Batch[x])
          PROVE  Settled(Batch[x][i])'
      <4>1. PICK s : s = Batch[x][i]
        OBVIOUS
      <4>2. i < export[x].i
        BY <1>2, <3>1 DEF ExportOf
      <4> QED
        BY <1>2, <1>5, <3>1, <4>1, <4>2 DEF ExportSettles
    <3> QED
      BY <3>1, <3>2 DEF ExportSettles
  <2>7. CASE SpanLost(x)
    <3>1. CASE export'[x] = export[x]
      <4>1. \A i \in 1..Len(Batch[x]) : \A s : s = Batch[x][i] /\ Settled(s) => Settled(s)'
        BY <1>5
      <4> QED
        BY <1>2, <3>1, <4>1 DEF ExportSettles
    <3>2. CASE export'[x].pc = "send" /\ export'[x].reply = "failed"
      BY <3>2 DEF ExportSettles
    <3> QED
      BY <2>7, <3>1, <3>2, SpanLostGives
  <2> QED
    BY <1>1, <2>1, <2>2, <2>3, <2>4, <2>5, <2>6, <2>7 DEF ExportStep
<1>9. ASSUME NEW y \in Exports
      PROVE  ExportSettles(y)'
  <2>1. CASE y = x
    BY <1>8, <2>1
  <2>2. CASE y # x
    <3>1. ExportSettles(y)
      BY DEF Calm
    <3>2. \A i \in 1..Len(Batch[y]) : \A s : s = Batch[y][i] /\ Settled(s) => Settled(s)'
      BY <1>5
    <3> QED
      BY <1>1, <2>2, <3>1, <3>2 DEF ExportSettles
  <2> QED
    BY <2>1, <2>2
<1>10. SeenListed'
  BY <1>1, <1>4 DEF Calm, SeenListed
<1>11. ASSUME NEW d \in Calls
       PROVE  ListAnswered(d)'
  <2>1. PICK v : v = call[d].version
    OBVIOUS
  <2>2. Recorded(d) => Recorded(d)'
    BY <1>1, RecordedStays
  <2> QED
    BY <1>1, <1>4, <2>1, <2>2 DEF Calm, ListAnswered
<1>12. ASSUME NEW p \in Posts
       PROVE  StepUnchanged(p)'
  <2>1. PICK v : v = step[p].version
    OBVIOUS
  <2> QED
    BY <1>1, <1>4, <2>1 DEF Calm, StepUnchanged
<1> QED
  BY <1>7, <1>9, <1>10, <1>11, <1>12 DEF Calm

LEMMA CalmInit == Init => CalmInv
<1> SUFFICES ASSUME Init PROVE Calm
  BY DEF CalmInv
<1>1. SafeInv /\ seen = <<>> /\ marked = <<>>
  BY SafeInit DEF Init, CallsInit, ExportsInit
<1>2. SeenListed /\ MarkedSettled
  BY <1>1 DEF SeenListed, MarkedSettled, ToSet
<1>3. ASSUME NEW c \in Calls
      PROVE  ListAnswered(c)
  <2>1. call \in [Calls -> {Arriving, [Arriving EXCEPT !.pc = "done"]}]
    BY DEF Init, CallsInit
  <2>2. call[c].reply = None
    BY <2>1 DEF Arriving
  <2> QED
    BY <2>2, GroupedAssumption DEF ListAnswered
<1>4. ASSUME NEW p \in Posts
      PROVE  StepUnchanged(p)
  <2>1. post \in [Posts -> [pc : {"arrive", "done"}, run : {None}, reply : {None}]]
    BY DEF Init, PostsInit
  <2> QED
    BY <2>1, GroupedAssumption DEF StepUnchanged
<1>5. ASSUME NEW x \in Exports
      PROVE  ExportSettles(x)
  <2>1. export \in [Exports -> {Waiting, [Waiting EXCEPT !.pc = "done"]}]
    BY DEF Init, ExportsInit
  <2>2. export[x].pc \in {"send", "done"} /\ export[x].reply = None
    BY <2>1 DEF Waiting
  <2> QED
    BY <2>2, GroupedAssumption DEF ExportSettles
<1> QED
  BY <1>2, <1>3, <1>4, <1>5 DEF Calm

LEMMA CalmStep == SafeInv /\ CalmInv /\ [Next]_vars => CalmInv'
<1> SUFFICES ASSUME SafeInv, CalmInv, [Next]_vars, ~Failed, spent'["fault"] = 0,
                    spent'["clash"] = 0, spent'["restart"] = 0
             PROVE  Calm'
  BY DEF CalmInv, Untroubled, Failed
<1>1. {"fault", "clash", "restart"} \subseteq Trouble
  BY GroupedAssumption
<1>2. ASSUME Later
      PROVE  Calm
  BY <1>1, <1>2 DEF Later, CalmInv, Untroubled
<1>3. CASE ToolsChange /\ UNCHANGED <<posts, exports>>
  <2>1. UNCHANGED <<seen, shape, call>> /\ Quiet
    BY <1>3, UnchangedRuns DEF ToolsChange
  <2> QED
    BY <1>2, <1>3, <2>1, QuietIsKept, RestCalm
<1>4. ASSUME NEW c \in Calls, CallStep(c), UNCHANGED <<posts, exports>>
      PROVE  Calm'
  BY <1>2, <1>4, CallStepFrame, CallCalm
<1>5. ASSUME NEW p \in Posts, PostStep(p), UNCHANGED <<shape, call, tools, exports>>
      PROVE  Calm'
  BY <1>2, <1>5, PostStepFrame, PostCalm
<1>6. ASSUME NEW x \in Exports, Send(x) \/ ExportStep(x), UNCHANGED <<calls, posts>>
      PROVE  Calm'
  BY <1>2, <1>6, ExportStepFrame, ExportCalm
<1>7. CASE Quiet /\ UNCHANGED <<calls, posts, exports>>
  <2>1. UNCHANGED <<seen, shape, call>>
    BY <1>7 DEF calls
  <2> QED
    BY <1>2, <1>7, <2>1, QuietIsKept, RestCalm
<1>8. CASE (Idle \/ (Busy /\ Replacing) \/ \E r \in Runs : ApiEnd(r)) /\ UNCHANGED <<calls, posts, exports>>
  BY <1>7, <1>8, IdleSafe, ApiEndSafe, ReplacingKeeps DEF SafeInv, Typed
<1>9. ~Restart
  BY RestartGives
<1>10. CASE UNCHANGED vars
  <2>1. /\ UNCHANGED runs /\ UNCHANGED spent /\ UNCHANGED calls /\ UNCHANGED posts
        /\ UNCHANGED exports
    BY <1>10 DEF vars
  <2> QED
    BY <1>7, <2>1, UnchangedRuns
<1> QED
  BY <1>3, <1>4, <1>5, <1>6, <1>8, <1>9, <1>10, Zenon DEF Next

\* While neither the store nor the process fails, a remembered listing is on a chain or on its
\* way to one, and so is every span an exporter was told is taken.
THEOREM CalmInvariant == Spec => []CalmInv
BY CalmInit, CalmStep, SafeInvariant, PTL DEF Spec

-----------------------------------------------------------------------------
\* While nothing happens to the run

\* The run of the label stays what it is, and open; if there was none, another one is opened.
RunsKept ==
    /\ RunsSteady'
    /\ \/ current' = current
       \/ current = None /\ current' \in Runs /\ log[current'] = <<>>

LEMMA SteadyStays ==
  ASSUME RunsSteady, UNCHANGED runs
  PROVE  RunsKept
BY DEF RunsSteady, RunsKept, runs

LEMMA SteadyReplaced ==
  ASSUME RunsTyped, NEW es \in Seq(EntryOf), Replaced(es), current = None
  PROVE  RunsKept
BY ReplacedGives DEF RunsKept, RunsSteady

LEMMA SteadyRunFor ==
  ASSUME RunsTyped, RunsSteady, RunFor
  PROVE  RunsKept
<1>1. CASE UNCHANGED runs
  BY <1>1, SteadyStays
<1>2. CASE ~Usable /\ Replaced(<<>>)
  <2>1. <<>> \in Seq(EntryOf)
    OBVIOUS
  <2>2. current = None
    BY <1>2 DEF Usable, RunsSteady
  <2> QED
    BY <1>2, <2>1, <2>2, SteadyReplaced, Zenon
<1> QED
  BY <1>1, <1>2 DEF RunFor

LEMMA SteadyStored ==
  ASSUME RunsTyped, RunsSteady, NEW r \in Runs, NEW e \in EntryOf, Stored(r, e), ~Disturbed, ~Failed
  PROVE  RunsKept /\ r = current'
<1>1. ~Spend("fault") /\ ~Clash
  BY FaultKeeps DEF Clash, Failed
<1>2. CASE Appended(r, e)
  BY <1>2 DEF Appended, RunsKept, RunsSteady, Disturbed
<1>3. CASE (Usable => live[current] = "closed" \/ spent["lost"] > 0) /\ Replaced(<<e>>) /\ current' = r
  <2>1. <<e>> \in Seq(EntryOf)
    OBVIOUS
  <2>2. current = None
    BY <1>3 DEF Usable, RunsSteady, Disturbed
  <2> QED
    BY <1>3, <2>1, <2>2, SteadyReplaced
<1> QED
  BY <1>1, <1>2, <1>3, Zenon DEF Stored

LEMMA CallSteady ==
  ASSUME SafeInv, RunsSteady, NEW c \in Calls, CallStep(c), ~Disturbed, ~Failed,
         spent'["lost"] = 0
  PROVE  RunsKept
<1>1. RunsTyped
  BY CallIs
<1>2. CASE Record(c)
  <2>1. PICK e : e = Entry(c)
    OBVIOUS
  <2>2. e \in EntryOf /\ \E q \in Runs : Stored(q, e)
    BY <1>2, <2>1, RecordGives
  <2> QED
    BY <1>1, <2>2, SteadyStored
<1>3. CASE Announce(c) \/ Look(c)
  BY <1>1, <1>3, SteadyRunFor DEF Announce, Look
<1>4. CASE AnnounceFails(c) \/ RecordFails(c) \/ RecordLost(c)
  BY <1>4, AnnounceFailsSafe, RecordFailsSafe, RecordingGives DEF Recording
<1>5. CASE UNCHANGED runs
  BY <1>5, SteadyStays
<1> QED
  BY <1>2, <1>3, <1>4, <1>5
     DEF CallStep, Refuse, Block, Admit, ModelUnreachable, TargetUnreachable, ModelRefused, ReadRefusal,
         Relayed, Begin, ReadModel, ReadTarget, Chunk, StreamEnds, Compare

LEMMA PostSteady ==
  ASSUME SafeInv, RunsSteady, NEW p \in Posts, PostStep(p), ~Disturbed, ~Failed,
         spent'["lost"] = 0
  PROVE  RunsKept
<1>1. RunsTyped /\ step[p] \in StepOf
  BY PostIs
<1>2. CASE RecordStep(p)
  <2>1. PICK e : e = StepEntry(p)
    OBVIOUS
  <2>2. e \in EntryOf
    BY <1>1, <2>1 DEF StepEntry, EntryOf, Outcomes, Versions, StepOf
  <2>3. CASE \E q \in Runs : Stored(q, e)
    BY <1>1, <2>2, <2>3, SteadyStored
  <2>4. CASE \E q \in Runs : AppendTo(q, e)
    BY <2>4 DEF AppendTo, RunsKept, RunsSteady
  <2> QED
    BY <1>2, <2>1, <2>3, <2>4 DEF RecordStep
<1>3. CASE LookStep(p)
  BY <1>1, <1>3, SteadyRunFor DEF LookStep
<1>4. CASE StepFails(p) \/ StepLost(p)
  BY <1>4, StepFailsSafe, StepLostGives
<1>5. CASE UNCHANGED runs
  BY <1>5, SteadyStays
<1> QED
  BY <1>2, <1>3, <1>4, <1>5 DEF PostStep, CheckRun, ReadStep, CompareStep, StepRefused, RememberStep

LEMMA ExportSteady ==
  ASSUME SafeInv, RunsSteady, NEW x \in Exports, Send(x) \/ ExportStep(x), ~Disturbed, ~Failed,
         spent'["lost"] = 0
  PROVE  RunsKept
<1>1. RunsTyped
  BY ExportIs
<1>2. CASE RecordSpan(x)
  <2>1. PICK s \in Spans : s = Span(x)
    BY <1>2, RecordSpanGives
  <2>2. PICK e : e = [by |-> s]
    OBVIOUS
  <2>3. e \in EntryOf /\ \E q \in Runs : Stored(q, e)
    BY <1>2, <2>1, <2>2 DEF RecordSpan, EntryOf
  <2> QED
    BY <1>1, <2>3, SteadyStored
<1>3. CASE Place(x)
  BY <1>1, <1>3, SteadyRunFor DEF Place
<1>4. CASE SpanFails(x) \/ SpanLost(x)
  BY <1>4, SpanFailsSafe, SpanLostGives
<1>5. CASE UNCHANGED runs
  BY <1>5, SteadyStays
<1> QED
  BY <1>2, <1>3, <1>4, <1>5 DEF ExportStep, Send, Mark, RejectSpan, Exported

\* A call that does not move stays in its run.
LEMMA InRunStays ==
  ASSUME SafeInv, NEW d \in Calls, InRun(d), call'[d] = call[d], shape' = shape, LogKept,
         current # None => current' = current
  PROVE  InRun(d)'
<1> SUFFICES ASSUME shape[d].proxy = "a2a", call[d].run # None
             PROVE  /\ call[d].pc # "done" => call[d].run = current'
                    /\ call[d].reply \in {"answered", "blocked"} /\ Recordable(shape[d])
                          => \E q : q = call[d].run /\ RecordedIn(q, d)'
  BY Zenon DEF InRun
<1>1. call[d].run \in Runs
  BY CallIs DEF CallOf
<1>2. PICK q \in Runs : q = call[d].run
  BY <1>1
<1>3. RecordedIn(q, d) => RecordedIn(q, d)'
  BY RecordedStays
<1> QED
  BY <1>2, <1>3 DEF InRun

\* A call that moves stays in its run too: it is announced in the current one.
LEMMA InRunMoves ==
  ASSUME SafeInv, NEW c \in Calls, InRun(c), CallStep(c), RunsSteady, RunsKept, ~Disturbed, ~Failed,
         spent'["lost"] = 0
  PROVE  InRun(c)'
<1>1. /\ CallOK(c) /\ WellAsked(shape[c]) /\ shape' = shape /\ ~RecordFails(c)
      /\ call[c].pc # "done" /\ RunsTyped /\ ~RecordLost(c)
  BY CallIs, CallStepFrame, RecordFailsSafe, RecordingGives DEF Moved, Recording
<1> SUFFICES ASSUME shape[c].proxy = "a2a", call'[c].run # None
             PROVE  /\ call'[c].pc # "done" => call'[c].run = current'
                    /\ call'[c].reply \in {"answered", "blocked"} /\ Recordable(shape[c])
                          => \E q : q = call'[c].run /\ RecordedIn(q, c)'
  BY <1>1, Zenon DEF InRun
<1>2. ~Look(c) /\ ~Compare(c)
  BY <1>1 DEF Look, Compare, CallOK, WellAsked
<1>3. call[c].run # None => call[c].run = current /\ current' = current
  BY <1>1 DEF InRun, RunsKept
<1>4. CASE Record(c)
  <2>1. call'[c].run = call[c].run /\ call'[c].pc = "done"
    BY <1>4, RecordGives
  <2>2. PICK e : e = Entry(c) /\ e \in EntryOf
    BY <1>4, RecordGives
  <2>3. PICK q \in Runs : Stored(q, e) /\ RecordedIn(q, c)'
    BY <1>4, <2>2, RecordGives
  <2>4. q = current'
    BY <1>1, <2>2, <2>3, SteadyStored
  <2> QED
    BY <1>3, <2>1, <2>3, <2>4
<1>5. CASE Announce(c)
  <2>1. call'[c].run = current' /\ call'[c].reply \notin {"answered", "blocked"}
    BY <1>1, <1>2, <1>4, <1>5, AnnounceSafe, NoAnswer DEF Announce, Record, Recording
  <2> QED
    BY <2>1
<1>6. CASE ~Record(c) /\ ~Announce(c)
  <2>1. call'[c].run = call[c].run /\ call'[c].reply \notin {"answered", "blocked"}
    BY <1>1, <1>2, <1>6, NoAnswer DEF Recording
  <2> QED
    BY <1>3, <2>1
<1> QED
  BY <1>4, <1>5, <1>6

LEMMA SteadyInit == Init => SteadyInv
<1> SUFFICES ASSUME Init PROVE Steady
  BY DEF SteadyInv
<1>1. RunsSteady
  BY DEF Init, RunsInit, RunsSteady
<1>2. ASSUME NEW c \in Calls
      PROVE  InRun(c)
  <2>1. call \in [Calls -> {Arriving, [Arriving EXCEPT !.pc = "done"]}]
    BY DEF Init, CallsInit
  <2>2. call[c].run = None
    BY <2>1 DEF Arriving
  <2> QED
    BY <2>2 DEF InRun
<1> QED
  BY <1>1, <1>2 DEF Steady

LEMMA SteadyStep == SafeInv /\ SteadyInv /\ [Next]_vars => SteadyInv'
<1> SUFFICES ASSUME SafeInv, SteadyInv, [Next]_vars, spent'["fault"] = 0, spent'["lost"] = 0,
                    spent'["end"] = 0, spent'["idle"] = 0
             PROVE  Steady'
  BY DEF SteadyInv, Untroubled
<1>1. {"fault", "lost", "end", "idle"} \subseteq Trouble
  BY GroupedAssumption
<1>2. ASSUME Later
      PROVE  RunsSteady /\ (\A c \in Calls : InRun(c)) /\ ~Disturbed /\ ~Failed
  <2>1. spent["fault"] = 0 /\ spent["lost"] = 0 /\ spent["end"] = 0 /\ spent["idle"] = 0
    BY <1>1, <1>2 DEF Later
  <2>2. ~Disturbed
    BY <2>1 DEF Disturbed
  <2> QED
    BY <2>1, <2>2 DEF SteadyInv, Untroubled, Steady, Failed
<1>3. ASSUME Later, LogKept, RunsKept, call' = call, shape' = shape
      PROVE  Steady'
  BY <1>2, <1>3, InRunStays DEF RunsKept, Steady
<1>4. CASE Quiet /\ UNCHANGED runs /\ UNCHANGED call /\ UNCHANGED shape
  BY <1>2, <1>3, <1>4, QuietIsKept, SteadyStays
<1>5. CASE ToolsChange
  BY <1>4, <1>5, UnchangedRuns DEF ToolsChange
<1>6. ASSUME NEW c \in Calls, CallStep(c)
      PROVE  Steady'
  <2>1. Moved(c) /\ LogKept /\ Later
    BY <1>6, CallStepFrame
  <2>2. RunsKept
    BY <1>2, <1>6, <2>1, CallSteady
  <2>3. InRun(c)'
    BY <1>2, <1>6, <2>1, <2>2, InRunMoves
  <2>4. \A d \in Calls \ {c} : InRun(d)'
    BY <1>2, <2>1, <2>2, InRunStays DEF Moved, RunsKept
  <2> QED
    BY <2>2, <2>3, <2>4 DEF Steady, RunsKept
<1>7. ASSUME NEW p \in Posts, PostStep(p), UNCHANGED <<shape, call>>
      PROVE  Steady'
  BY <1>2, <1>3, <1>7, PostStepFrame, PostSteady
<1>8. ASSUME NEW x \in Exports, Send(x) \/ ExportStep(x), UNCHANGED calls
      PROVE  Steady'
  BY <1>2, <1>3, <1>8, ExportStepFrame, ExportSteady DEF calls
<1>9. ~(Idle \/ (Busy /\ Replacing) \/ \E r \in Runs : ApiEnd(r))
  <2>1. ~Replacing
    BY <1>2, ReplacingKeeps DEF Replacing, Quiet, SafeInv, Typed
  <2> QED
    BY <2>1, IdleSafe, ApiEndSafe
<1>10. CASE Restart
  <2>1. /\ Quiet /\ current' = None /\ idle' = FALSE /\ CallsTyped'
        /\ \A c \in Calls : \/ call'[c] = call[c] /\ call[c].pc \in {"arrive", "done"}
                            \/ call'[c] = [call[c] EXCEPT !.pc = "done", !.reply = "cut"]
    BY <1>10, RestartGives
  <2>2. RunsSteady'
    BY <2>1 DEF RunsSteady
  <2>3. LogKept /\ shape' = shape /\ \A c \in Calls : InRun(c)
    BY <1>2, <1>10, <2>1, QuietIsKept DEF Restart, CallsCut
  <2>4. ASSUME NEW c \in Calls
        PROVE  InRun(c)'
    <3>1. CallOK(c) /\ call[c] \in CallOf
      BY CallIs
    <3>2. CASE call'[c] = call[c] /\ call[c].pc = "arrive"
      BY <3>1, <3>2 DEF CallOK, InRun
    <3>3. CASE call'[c] = call[c] /\ call[c].pc = "done"
      <4> SUFFICES ASSUME shape[c].proxy = "a2a", call[c].run # None,
                          call[c].reply \in {"answered", "blocked"}, Recordable(shape[c])
                   PROVE  \E q : q = call[c].run /\ RecordedIn(q, c)'
        BY <2>3, <3>3, Zenon DEF InRun
      <4>1. call[c].run \in Runs /\ RecordedIn(call[c].run, c)
        BY <2>3, <3>1 DEF InRun, CallOf
      <4>2. PICK q \in Runs : q = call[c].run
        BY <4>1
      <4> QED
        BY <2>3, <4>1, <4>2, RecordedStays
    <3>4. CASE call'[c] = [call[c] EXCEPT !.pc = "done", !.reply = "cut"]
      <4>1. call'[c].pc = "done" /\ call'[c].reply = "cut"
        BY <3>1, <3>4 DEF CallOf
      <4> QED
        BY <4>1 DEF InRun
    <3> QED
      BY <2>1, <3>2, <3>3, <3>4
  <2> QED
    BY <2>2, <2>4 DEF Steady
<1>11. CASE UNCHANGED vars
  <2>1. /\ UNCHANGED runs /\ UNCHANGED spent /\ UNCHANGED calls
    BY <1>11 DEF vars
  <2> QED
    BY <1>4, <2>1, UnchangedRuns DEF calls
<1> QED
  BY <1>5, <1>6, <1>7, <1>8, <1>9, <1>10, <1>11, Zenon DEF Next

\* While no run is ended, falls idle or fails to take a record or to say so, a delegation is about the run
\* the label is in, from its announcement to its record.
THEOREM SteadyInvariant == Spec => []SteadyInv
BY SteadyInit, SteadyStep, SafeInvariant, PTL DEF Spec

-----------------------------------------------------------------------------
\* Nothing is recorded twice

LEMMA ListingSays ==
  ASSUME CallsTyped, NEW c \in Calls, call[c].got <= Len(shape[c].events), Listing(Entry(c))
  PROVE  /\ shape[c].body = "list" /\ Entry(c).version = call[c].version
         /\ call[c].end # "blocked" /\ Has(Received(c), "result")
<1>1. /\ shape[c].body = "list" /\ Entry(c).version = call[c].version /\ Entry(c).outcome = "success"
  BY EntryIs DEF Listing
<1>2. shape[c].proxy = "mcp"
  BY <1>1, ShapeIs DEF WellAsked
<1>3. call[c].end # "blocked"
  BY <1>1 DEF Entry, EntryWith
<1>4. ToolOutcome(c) = "success"
  BY <1>1, <1>2, <1>3, EntryIs DEF ToolEntry, EntryWith
<1>5. ResponsesIn(Received(c)) # {}
  BY <1>4 DEF ToolOutcome
<1> DEFINE m == Min(ResponsesIn(Received(c)))
<1>6. Received(c)[m] = "result"
  <2>1. Received(c)[m] \in {"result", "error", "input"}
    BY <1>5, ResponsesAre
  <2> QED
    BY <1>4, <1>5, <2>1 DEF ToolOutcome
<1>7. m \in 1..Len(Received(c))
  <2>1. ResponsesIn(Received(c)) \in SUBSET Nat
    BY DEF ResponsesIn
  <2>2. m \in ResponsesIn(Received(c))
    BY <1>5, <2>1, LeastOf
  <2> QED
    BY <2>2 DEF ResponsesIn
<1> QED
  BY <1>1, <1>3, <1>6, <1>7 DEF Has

\* What is remembered last is kept.
LEMMA LastRemembered ==
  ASSUME NEW T, seen \in Seq(T), NEW r, NEW v, <<r, v>> \in T, MaxLists \in Nat \ {0}
  PROVE  Has(Remembered(r, v), <<r, v>>)
<1> DEFINE places == {i \in 1..Len(seen) : seen[i][1] = r}
           others == IF places = {} THEN seen ELSE RemoveAt(seen, Min(places))
           kept   == Append(others, <<r, v>>)
<1>1. others \in Seq(T)
  <2>1. CASE places # {}
    <3>1. places \in SUBSET Nat
      OBVIOUS
    <3> HIDE DEF places
    <3>2. Min(places) \in places
      BY <2>1, <3>1, LeastOf
    <3>3. Min(places) \in 1..Len(seen)
      BY <3>2 DEF places
    <3>4. PICK m \in 1..Len(seen) : m = Min(places)
      BY <3>3
    <3>5. SubSeq(seen, 1, m - 1) \in Seq(T) /\ SubSeq(seen, m + 1, Len(seen)) \in Seq(T)
      OBVIOUS
    <3> QED
      BY <2>1, <3>4, <3>5 DEF RemoveAt
  <2> QED
    BY <2>1
<1>2. Remembered(r, v) = IF Len(kept) > MaxLists THEN Tail(kept) ELSE kept
  BY DEF Remembered
<1> HIDE DEF others
<1>3. /\ kept \in Seq(T) /\ Len(kept) = Len(others) + 1 /\ Len(others) \in Nat
      /\ kept[Len(kept)] = <<r, v>>
  BY <1>1
<1> HIDE DEF kept
<1>4. CASE Len(kept) > MaxLists
  <2>1. /\ Tail(kept) \in Seq(T) /\ Len(Tail(kept)) = Len(others)
        /\ \A i \in 1..Len(Tail(kept)) : Tail(kept)[i] = kept[i + 1]
    BY <1>3
  <2>2. Len(others) \in 1..Len(Tail(kept)) /\ Tail(kept)[Len(others)] = <<r, v>>
    BY <1>3, <1>4, <2>1
  <2> QED
    BY <1>2, <1>4, <2>2 DEF Has
<1>5. CASE ~(Len(kept) > MaxLists)
  BY <1>2, <1>3, <1>5 DEF Has
<1> QED
  BY <1>4, <1>5

\* A record of something new leaves every record different from the others.
LEMMA GrownOnce ==
  ASSUME RunsTyped, NoneTwice, NEW q, NEW e, GrownIn(q, e),
         \A i \in 1..Len(log[q]) :
            /\ log[q][i].by # e.by
            /\ log[q][i].by \in Calls /\ e.by \in Calls /\ Listing(log[q][i]) /\ Listing(e)
                  => log[q][i].version # e.version
  PROVE  NoneTwice'
<1>1. /\ log \in [Runs -> Seq(EntryOf)] /\ q \in Runs
      /\ log' = [log EXCEPT ![q] = Append(log[q], e)]
  BY DEF RunsTyped, GrownIn
<1>2. \A d : Listing(d)' <=> Listing(d)
  BY DEF Listing
<1> SUFFICES ASSUME NEW r \in Runs, NEW i \in 1..Len(log'[r]), NEW j \in 1..Len(log'[r]), i < j
             PROVE  /\ log'[r][i].by # log'[r][j].by
                    /\ log'[r][i].by \in Calls /\ log'[r][j].by \in Calls
                       /\ Listing(log'[r][i]) /\ Listing(log'[r][j])
                          => log'[r][i].version # log'[r][j].version
  BY <1>2, Zenon DEF NoneTwice
<1>3. Len(log[r]) \in Nat /\ \A k \in 1..Len(log'[r]) :
        \/ k \in 1..Len(log[r]) /\ log'[r][k] = log[r][k]
        \/ r = q /\ k = Len(log[q]) + 1 /\ log'[r][k] = e
  BY GrownFacts
<1>4. i \in 1..Len(log[r]) /\ log'[r][i] = log[r][i]
  BY <1>3
<1>5. CASE j \in 1..Len(log[r]) /\ log'[r][j] = log[r][j]
  BY <1>4, <1>5 DEF NoneTwice
<1>6. CASE r = q /\ log'[r][j] = e
  BY <1>4, <1>6
<1> QED
  BY <1>3, <1>5, <1>6

LEMMA QuietOnce ==
  ASSUME NoneTwice, log' = log
  PROVE  NoneTwice'
<1>1. \A d : Listing(d)' <=> Listing(d)
  BY DEF Listing
<1> QED
  BY <1>1 DEF NoneTwice

\* A record adds what it is about to the records of its run, and nothing else.
LEMMA OnlyGrownBy ==
  ASSUME RunsTyped, NEW q, NEW e, GrownIn(q, e), NEW r \in Runs, NEW who, RecordedIn(r, who)'
  PROVE  RecordedIn(r, who) \/ (r = q /\ who = e.by)
<1>1. log'[r] \in Seq(EntryOf) /\ log[r] \in Seq(EntryOf)
  BY DEF GrownIn, RunsTyped
<1>2. PICK d \in ToSet(log'[r]) : d.by = who
  BY DEF RecordedIn
<1>3. PICK i \in 1..Len(log'[r]) : d = log'[r][i]
  BY <1>1, <1>2 DEF ToSet
<1>4. \/ i \in 1..Len(log[r]) /\ log'[r][i] = log[r][i]
      \/ r = q /\ log'[r][i] = e
  BY GrownFacts
<1>5. CASE i \in 1..Len(log[r]) /\ log'[r][i] = log[r][i]
  <2>1. log[r][i] \in ToSet(log[r])
    BY <1>1, <1>5 DEF ToSet
  <2> QED
    BY <1>2, <1>3, <1>5, <2>1 DEF RecordedIn
<1> QED
  BY <1>2, <1>3, <1>4, <1>5

LEMMA EmptyHasNone ==
  ASSUME RunsTyped, NEW r \in Runs, log[r] = <<>>, NEW who
  PROVE  ~RecordedIn(r, who)
BY DEF RecordedIn, ToSet

-----------------------------------------------------------------------------
\* Spans: what is marked is in the run, or with one exporter

\* The exporter y has no span to record but one it has just been given a run for.
Idles(y) ==
    /\ export'[y].pc # "record"
    /\ export'[y].pc = "mark" => export'[y].run = current' /\ current' # None

\* A span that is recorded now was with an exporter that is past it.
SpansFromHand ==
    \A r \in Runs, s \in Spans : RecordedIn(r, s)' /\ ~RecordedIn(r, s) =>
        r = current' /\ \E y \in Exports : export[y].pc = "record" /\ Span(y) = s /\ Idles(y)

LEMMA SpansStay ==
  ASSUME SafeInv, SpansOnce, RunsKept, marked' = marked, SpansFromHand,
         \A y \in Exports : export'[y] = export[y] \/ Idles(y)
  PROVE  SpansOnce'
<1>1. RunsTyped /\ marked \in Seq(Runs \X Spans)
  BY DEF SafeInv, Typed, ExportsTyped
<1>2. CASE current' = current
  <2>1. MarksHere'
    BY <1>2 DEF SpansOnce, MarksHere
  <2>2. SpansMarked'
    <3> SUFFICES ASSUME current # None, NEW s \in Spans, RecordedIn(current, s)'
                 PROVE  <<current, s>> \in ToSet(marked)
      BY <1>2 DEF SpansMarked
    <3>1. current \in Runs
      BY <1>1 DEF RunsTyped
    <3>2. CASE RecordedIn(current, s)
      BY <3>2 DEF SpansOnce, SpansMarked
    <3>3. CASE ~RecordedIn(current, s)
      <4>1. PICK y \in Exports : export[y].pc = "record" /\ Span(y) = s
        <5>1. PICK r \in Runs : r = current /\ RecordedIn(r, s)' /\ ~RecordedIn(r, s)
          BY <1>2, <3>1, <3>3 DEF RecordedIn
        <5> QED
          BY <5>1 DEF SpansFromHand
      <4> QED
        BY <4>1 DEF SpansOnce, SpanAtHand
    <3> QED
      BY <3>2, <3>3
  <2>3. ASSUME NEW x \in Exports
        PROVE  SpanAtHand(x)'
    <3>1. CASE Idles(x)
      BY <3>1 DEF SpanAtHand, Idles
    <3>2. CASE export'[x] = export[x] /\ ~Idles(x)
      <4>1. SpanAtHand(x) /\ Span(x)' = Span(x)
        BY <3>2 DEF SpansOnce, Span
      <4>2. export[x].pc \in {"mark", "record"} => export[x].run = current /\ current # None
        BY <4>1 DEF SpanAtHand
      <4> SUFFICES ASSUME export[x].pc = "record"
                   PROVE  /\ <<current, Span(x)>> \in ToSet(marked) /\ ~RecordedIn(current, Span(x))'
                          /\ \A y \in Exports : export'[y].pc = "record" /\ Span(y)' = Span(x) => y = x
        BY <1>2, <3>2, <4>1, <4>2 DEF SpanAtHand
      <4>3. /\ <<current, Span(x)>> \in ToSet(marked) /\ ~RecordedIn(current, Span(x)) /\ current # None
            /\ \A y \in Exports : export[y].pc = "record" /\ Span(y) = Span(x) => y = x
        BY <4>1 DEF SpanAtHand
      <4>4. current \in Runs /\ Span(x) \in Spans
        BY <1>1, <4>3, ExportIs DEF RunsTyped
      <4>5. ASSUME NEW r \in Runs, NEW s \in Spans, r = current, s = Span(x)
            PROVE  ~RecordedIn(r, s)'
        BY <3>2, <4>3, <4>5 DEF SpansFromHand
      <4>6. ASSUME NEW y \in Exports, export'[y].pc = "record", Span(y)' = Span(x)
            PROVE  y = x
        <5>1. export'[y] = export[y] /\ Span(y)' = Span(y)
          BY <4>6 DEF Idles, Span
        <5> QED
          BY <4>3, <4>6, <5>1
      <4> QED
        BY <1>2, <4>1, <4>3, <4>4, <4>5, <4>6 DEF RecordedIn
    <3> QED
      BY <3>1, <3>2
  <2> QED
    BY <2>1, <2>2, <2>3 DEF SpansOnce
<1>3. CASE current = None /\ current' \in Runs /\ log[current'] = <<>>
  <2>1. \A y \in Exports : Idles(y)
    BY <1>3, GroupedAssumption DEF SpansOnce, SpanAtHand, Idles
  <2>2. \A i \in 1..Len(marked) : FALSE
    <3>1. \A i \in 1..Len(marked) : marked[i] \in Runs \X Spans /\ marked[i][1] = None
      BY <1>1, <1>3 DEF SpansOnce, MarksHere
    <3> QED
      BY <3>1, GroupedAssumption
  <2>3. MarksHere'
    BY <2>2 DEF MarksHere
  <2>4. SpansMarked'
    <3> SUFFICES ASSUME NEW s \in Spans, RecordedIn(current, s)'
                 PROVE  FALSE
      BY DEF SpansMarked
    <3>1. PICK r \in Runs : r = current'
      BY <1>3
    <3>2. RecordedIn(r, s)' /\ ~RecordedIn(r, s)
      BY <1>1, <1>3, <3>1, EmptyHasNone DEF RecordedIn
    <3>3. PICK y \in Exports : export[y].pc = "record"
      BY <3>2 DEF SpansFromHand
    <3> QED
      BY <1>3, <3>3 DEF SpansOnce, SpanAtHand
  <2>5. \A x \in Exports : SpanAtHand(x)'
    BY <2>1 DEF SpanAtHand, Idles
  <2> QED
    BY <2>3, <2>4, <2>5 DEF SpansOnce
<1> QED
  BY <1>2, <1>3 DEF RunsKept

\* Spans of one run that are marked once each are no more than there are spans.
LEMMA MarksFit ==
  ASSUME Room, NEW ms \in Seq(Runs \X Spans), NEW r,
         \A i \in 1..Len(ms) : ms[i][1] = r,
         \A i, j \in 1..Len(ms) : ms[i] = ms[j] => i = j
  PROVE  Len(ms) <= MaxSeen
<1> DEFINE f == [i \in 1..Len(ms) |-> ms[i][2]]
<1>1. Len(ms) \in Nat /\ \A i \in 1..Len(ms) : ms[i] \in Runs \X Spans /\ ms[i] = <<r, ms[i][2]>>
  OBVIOUS
<1>2. f \in [1..Len(ms) -> Spans]
  BY <1>1
<1>3. \A i, j \in 1..Len(ms) : f[i] = f[j] => i = j
  BY <1>1
<1>4. f \in Injection(1..Len(ms), Spans)
  BY <1>2, <1>3 DEF Injection, IsInjective
<1>5. Cardinality(1..Len(ms)) <= Cardinality(Spans)
  BY <1>4, FS_Injection DEF Room
<1>6. Cardinality(1..Len(ms)) = Len(ms)
  <2>1. PICK n \in Nat : n = Len(ms)
    BY <1>1
  <2>2. n \in Int /\ 1 \in Int
    OBVIOUS
  <2>3. Cardinality(1..n) = IF 1 > n THEN 0 ELSE n - 1 + 1
    BY <2>2, FS_Interval
  <2>4. Cardinality(1..n) = n
    BY <2>3, n \in Nat
  <2> QED
    BY <2>1, <2>4, Zenon
<1>7. Cardinality(Spans) \in Nat
  BY FS_CardinalityType DEF Room
<1> QED
  BY <1>1, <1>5, <1>6, <1>7 DEF Room

LEMMA MarkOnce ==
  ASSUME SafeInv, SpansOnce, Room, NEW x \in Exports, Mark(x)
  PROVE  SpansOnce'
<1> DEFINE key  == <<export[x].run, Span(x)>>
           kept == Append(marked, key)
<1>1. /\ export \in [Exports -> ExportOf] /\ export[x] \in ExportOf /\ Span(x) \in Spans
      /\ export[x].pc = "mark" /\ export[x].run \in Runs /\ SpanAtHand(x)
      /\ marked \in Seq(Runs \X Spans) /\ UNCHANGED runs
  BY ExportIs, MarkedIs DEF Mark, ExportOK, SpansOnce
<1>2. current' = current /\ log' = log /\ export[x].run = current /\ current # None
  BY <1>1 DEF runs, SpanAtHand
<1>3. CASE key \in ToSet(marked) /\ NextSpan(x, 0) /\ UNCHANGED marked
  <2>1. \A y \in Exports : export'[y] = export[y] \/ (y = x /\ export'[y].pc = "span")
    BY <1>1, <1>3 DEF NextSpan, ExportOf
  <2>2. MarksHere' /\ SpansMarked'
    BY <1>2, <1>3 DEF SpansOnce, MarksHere, SpansMarked, RecordedIn
  <2>3. ASSUME NEW y \in Exports
        PROVE  SpanAtHand(y)'
    <3>1. \A z \in Exports : export'[z] = export[z] => Span(z)' = Span(z)
      BY DEF Span
    <3>2. SpanAtHand(y)
      BY DEF SpansOnce
    <3> QED
      BY <1>2, <1>3, <2>1, <3>1, <3>2 DEF SpanAtHand, RecordedIn
  <2> QED
    BY <2>2, <2>3 DEF SpansOnce
<1>4. CASE /\ key \notin ToSet(marked)
           /\ export' = [export EXCEPT ![x].pc = "record"]
           /\ marked' = IF Len(kept) > MaxSeen THEN Tail(kept) ELSE kept
  <2>1. /\ kept \in Seq(Runs \X Spans) /\ Len(kept) = Len(marked) + 1 /\ Len(marked) \in Nat
        /\ kept[Len(marked) + 1] = key /\ \A i \in 1..Len(marked) : kept[i] = marked[i]
    BY <1>1
  <2>2. \A i \in 1..Len(marked) : marked[i] # key
    BY <1>1, <1>4 DEF ToSet
  <2> HIDE DEF kept
  <2>3. \A i \in 1..Len(kept) : kept[i][1] = current
    BY <1>2, <2>1 DEF SpansOnce, MarksHere
  <2>4. ASSUME NEW i \in 1..Len(kept), NEW j \in 1..Len(kept), kept[i] = kept[j]
        PROVE  i = j
    <3>1. CASE i \in 1..Len(marked) /\ j \in 1..Len(marked)
      BY <2>1, <2>4, <3>1 DEF SpansOnce, MarksHere
    <3>2. CASE i = Len(marked) + 1 /\ j = Len(marked) + 1
      BY <3>2
    <3> QED
      BY <2>1, <2>2, <2>4, <3>1, <3>2
  <2>5. Len(kept) <= MaxSeen
    BY <1>2, <2>1, <2>3, <2>4, MarksFit
  <2>6. marked' = kept
    BY <1>4, <2>1, <2>5 DEF Room
  <2>7. MarksHere'
    BY <1>2, <2>3, <2>4, <2>6 DEF MarksHere
  <2>8. ToSet(marked) \subseteq ToSet(kept) /\ key \in ToSet(kept)
    <3>1. DOMAIN marked = 1..Len(marked) /\ DOMAIN kept = 1..(Len(marked) + 1)
      BY <1>1, <2>1
    <3>2. ToSet(marked) \subseteq ToSet(kept)
      BY <2>1, <3>1 DEF ToSet
    <3>3. key \in ToSet(kept)
      BY <2>1, <3>1 DEF ToSet
    <3> QED
      BY <3>2, <3>3
  <2>9. SpansMarked'
    BY <1>2, <2>6, <2>8 DEF SpansOnce, SpansMarked, RecordedIn
  <2>10. /\ \A y \in Exports : export'[y].run = export[y].run /\ Span(y)' = Span(y)
         /\ \A y \in Exports \ {x} : export'[y] = export[y]
         /\ export'[x].pc = "record"
    BY <1>1, <1>4 DEF Span, ExportOf
  <2>11. \A y \in Exports : ~(export[y].pc = "record" /\ Span(y) = Span(x))
    BY <1>2, <1>4 DEF SpansOnce, SpanAtHand
  <2>12. ~RecordedIn(current, Span(x))
    BY <1>1, <1>2, <1>4 DEF SpansOnce, SpansMarked
  <2>13. ASSUME NEW y \in Exports
         PROVE  SpanAtHand(y)'
    <3>1. CASE y = x
      BY <1>2, <2>6, <2>8, <2>10, <2>11, <2>12, <3>1 DEF SpanAtHand, RecordedIn
    <3>2. CASE y # x
      <4>1. SpanAtHand(y)
        BY DEF SpansOnce
      <4> QED
        BY <1>2, <2>6, <2>8, <2>10, <2>11, <3>2, <4>1 DEF SpanAtHand, RecordedIn
    <3> QED
      BY <3>1, <3>2
  <2> QED
    BY <2>7, <2>9, <2>13 DEF SpansOnce
<1> QED
  BY <1>3, <1>4 DEF Mark

-----------------------------------------------------------------------------
\* Listings: of two that come, the later finds the earlier remembered

\* What the calls have of the current run after the step, they had before.
Holds(c) ==
    /\ call'[c].pc = "compare" \/ (call'[c].pc = "record" /\ Listing(Entry(c))')
          => call'[c].run = current' /\ current' # None
    /\ call'[c].pc = "refusal" => shape[c].proxy = "llm"
    /\ Passing(c)' => Passing(c) /\ CallMade(c)' /\ call'[c].version = call[c].version
    /\ Pending(c)' => Pending(c)

\* What one call needs to find remembered stays remembered.
SeenKept ==
    \A c \in Calls : \A d \in Calls \ {c} : Passing(c) /\ Pending(d) =>
        (Has(seen, <<current, call[c].version>>) => Has(seen', <<current, call[c].version>>))

LEMMA ListsStay ==
  ASSUME RunsKept, SeenKept, \A c \in Calls : ListAtHand(c) /\ Holds(c), shape' = shape
  PROVE  \A c \in Calls : ListAtHand(c)'
<1> SUFFICES ASSUME NEW c \in Calls PROVE ListAtHand(c)'
  OBVIOUS
<1>1. ListAtHand(c) /\ Holds(c)
  OBVIOUS
<1>2. Passing(c)' => current' = current /\ current # None
  BY <1>1 DEF RunsKept, Holds, Passing
<1>3. ASSUME NEW d \in Calls \ {c}, Passing(c)', Pending(d)'
      PROVE  Has(seen, <<current, call[c].version>>)'
  <2>1. Passing(c) /\ Pending(d) /\ call'[c].version = call[c].version
    BY <1>3 DEF Holds
  <2>2. Has(seen', <<current, call[c].version>>)
    BY <1>1, <2>1 DEF ListAtHand, SeenKept
  <2> QED
    BY <1>2, <1>3, <2>1, <2>2 DEF Has
<1>4. ASSUME NEW d \in Calls \ {c}, Passing(c)', Passing(d)'
      PROVE  call'[c].version # call'[d].version
  <2>1. /\ Passing(c) /\ call'[c].version = call[c].version
        /\ Passing(d) /\ call'[d].version = call[d].version
    BY <1>4 DEF Holds
  <2> QED
    BY <1>1, <2>1 DEF ListAtHand
<1> QED
  BY <1>1, <1>3, <1>4 DEF ListAtHand, Holds

\* A call that does not move holds what it has.
LEMMA Unmoved ==
  ASSUME SafeInv, NEW c \in Calls, ListAtHand(c), RunsKept, shape' = shape, call'[c] = call[c],
         \A r \in Runs : RecordedIn(r, c)' => RecordedIn(r, c)
  PROVE  Holds(c)
<1>1. Entry(c)' = Entry(c)
  <2>1. SameCall(c) /\ shape[c].proxy \in {"llm", "mcp", "a2a"}
    BY CallIs DEF SameCall, ShapeOf
  <2> QED
    BY <2>1, EntryStays
<1>2. Listing(Entry(c))' <=> Listing(Entry(c))
  BY <1>1 DEF Listing
<1>3. RunsTyped
  BY CallIs
<1>4. call[c].pc = "compare" \/ (call[c].pc = "record" /\ Listing(Entry(c)))
         => call[c].run = current' /\ current' # None
  BY DEF ListAtHand, RunsKept
<1>5. ASSUME Passing(c)'
      PROVE  Passing(c)
  <2>1. current' # None /\ Listing(Entry(c)) /\ (call[c].pc = "record" \/ RecordedIn(current, c)')
    BY <1>2, <1>5 DEF Passing
  <2>2. CASE current' = current
    <3>1. current \in Runs
      BY <1>3, <2>1, <2>2 DEF RunsTyped
    <3>2. \A r \in Runs : r = current => RecordedIn(r, c)' = RecordedIn(current, c)'
      BY <2>2 DEF RecordedIn
    <3> QED
      BY <2>1, <2>2, <3>1, <3>2 DEF Passing
  <2>3. CASE current = None /\ current' \in Runs /\ log[current'] = <<>>
    <3>1. call[c].pc # "record"
      BY <2>1, <2>3 DEF ListAtHand
    <3>2. PICK r \in Runs : r = current'
      BY <2>3
    <3>3. ~RecordedIn(r, c)'
      BY <1>3, <2>3, <3>2, EmptyHasNone
    <3> QED
      BY <2>1, <3>1, <3>2, <3>3 DEF RecordedIn
  <2> QED
    BY <2>2, <2>3 DEF RunsKept
<1>6. Passing(c) => CallMade(c)'
  BY DEF ListAtHand, CallMade
<1> QED
  BY <1>2, <1>4, <1>5, <1>6 DEF Holds, Pending, ListAtHand

\* Whoever has a listing is one of the two.
LEMMA PassingLists ==
  ASSUME SafeInv, NEW c \in Calls, ListAtHand(c), Passing(c)
  PROVE  c \in Listers /\ shape[c].body = "list" /\ Entry(c).version = call[c].version
<1>1. CallsTyped /\ call[c].got <= Len(shape[c].events) /\ Listing(Entry(c))
  BY CallIs DEF CallOK, Passing
<1> QED
  BY <1>1, ListingSays DEF Listers, ListAtHand

LEMMA PendingLists ==
  ASSUME NEW c \in Calls, Pending(c)
  PROVE  c \in Listers
BY DEF Pending, Listers, CallMade

LEMMA AtMostTwo ==
  ASSUME TwoListings, NEW a \in Listers, NEW b \in Listers, NEW d \in Listers, a # b, a # d
  PROVE  b = d
BY DEF TwoListings

-----------------------------------------------------------------------------
\* A call on its way to its record

LEMMA FirstResponse ==
  ASSUME NEW events, Len(events) \in Nat, ResponsesIn(events) # {}
  PROVE  /\ Min(ResponsesIn(events)) \in 1..Len(events)
         /\ events[Min(ResponsesIn(events))] \in {"result", "error", "input"}
<1>1. ResponsesIn(events) \in SUBSET Nat
  BY DEF ResponsesIn
<1>2. Min(ResponsesIn(events)) \in ResponsesIn(events)
  BY <1>1, LeastOf
<1> QED
  BY <1>2 DEF ResponsesIn

LEMMA NoList ==
  ASSUME NEW c \in Calls, shape'[c].body # "list", shape'[c].proxy \in {"llm", "mcp", "a2a"}
  PROVE  ~Listing(Entry(c))'
<1>1. CASE call'[c].end = "blocked"
  BY <1>1 DEF Listing, Entry, EntryWith
<1>2. CASE call'[c].end # "blocked" /\ shape'[c].proxy = "llm"
  BY <1>2 DEF Listing, Entry, EntryWith, ModelEntry
<1>3. CASE call'[c].end # "blocked" /\ shape'[c].proxy = "mcp"
  BY <1>3 DEF Listing, Entry, EntryWith, ToolEntry
<1>4. CASE call'[c].end # "blocked" /\ shape'[c].proxy = "a2a"
  BY <1>4 DEF Listing, Entry, EntryWith, DelegationEntry
<1> QED
  BY <1>1, <1>2, <1>3, <1>4

\* A reply without a list of tools is recorded without a look at what is remembered.
LEMMA OverLists ==
  ASSUME SafeInv, NEW c \in Calls, NEW n \in Nat, NEW m, n <= Len(shape[c].events),
         NEW end \in {"unreachable", "over", "whole", "cut", "left"}, call' = Over(c, end, n, m),
         shape' = shape, call'[c].pc = "record"
  PROVE  ~Listing(Entry(c))'
<1>1. /\ call \in [Calls -> CallOf] /\ call[c] \in CallOf /\ shape[c] \in ShapeOf
      /\ WellAsked(shape[c])
  BY CallIs
<1>2. shape[c].proxy \in {"llm", "mcp", "a2a"} /\ shape[c].events \in Seq({"delta", "working",
         "completed", "failed", "message", "error", "result", "input"})
  BY <1>1 DEF ShapeOf
<1>3. CASE shape[c].body # "list"
  BY <1>2, <1>3, NoList
<1>4. CASE shape[c].body = "list"
  <2> DEFINE events == SubSeq(shape[c].events, 1, n)
  <2>1. call'[c].got = n /\ call'[c].end = end /\ ~Has(events, "result")
    BY <1>1, <1>4 DEF Over, CallOf
  <2>2. Len(events) = n
    BY <1>2
  <2>3. Received(c)' = events /\ Entry(c)' = ToolEntry(c)'
    BY <1>1, <1>4, <2>1 DEF Received, Entry, WellAsked
  <2> HIDE DEF events
  <2>4. Entry(c)'.outcome = ToolOutcome(c)'
    BY <2>3 DEF ToolEntry, EntryWith
  <2>5. CASE ResponsesIn(events) = {}
    BY <2>3, <2>4, <2>5 DEF ToolOutcome, Listing
  <2>6. CASE ResponsesIn(events) # {}
    <3>1. events[Min(ResponsesIn(events))] \in {"error", "input"}
      BY <2>1, <2>2, <2>6, FirstResponse DEF Has
    <3> QED
      BY <2>3, <2>4, <2>6, <3>1 DEF ToolOutcome, Listing
  <2> QED
    BY <2>5, <2>6
<1> QED
  BY <1>3, <1>4

\* Only what was compared is recorded as a listing.
LEMMA NoListing ==
  ASSUME SafeInv, NEW c \in Calls, ListAtHand(c), CallStep(c), ~Compare(c), ~Recording(c),
         ~RecordFails(c), call'[c].pc = "record"
  PROVE  ~Listing(Entry(c))'
<1>1. /\ call \in [Calls -> CallOf] /\ call[c] \in CallOf /\ shape[c] \in ShapeOf
      /\ WellAsked(shape[c]) /\ shape' = shape /\ CallOK(c) /\ Len(shape[c].events) \in Nat
  BY CallIs, CallStepFrame DEF Moved
<1>2. shape[c].proxy \in {"llm", "mcp", "a2a"} /\ (shape[c].proxy = "llm" => shape[c].body # "list")
  BY <1>1 DEF ShapeOf, WellAsked
<1>3. CASE call'[c].end = "blocked"
  BY <1>3 DEF Listing, Entry, EntryWith
<1>4. CASE shape[c].proxy = "llm"
  BY <1>1, <1>2, <1>4, NoList
<1>5. ASSUME NEW end \in {"unreachable", "over", "whole", "cut", "left"}, NEW n, NEW m,
             n \in Nat, n <= Len(shape[c].events), call' = Over(c, end, n, m)
      PROVE  ~Listing(Entry(c))'
  BY <1>1, <1>5, OverLists
<1>6. call[c].got \in Nat /\ call[c].got <= Len(shape[c].events) /\ 0 <= Len(shape[c].events)
  BY <1>1 DEF CallOK, CallOf
<1>7. CASE ReadModel(c) \/ ReadTarget(c)
  BY <1>1, <1>5, <1>6, <1>7 DEF ReadModel, ReadTarget
<1>8. CASE Chunk(c)
  <2>1. CASE call' = [call EXCEPT ![c].got = call[c].got + 1, ![c].gave = call[c].got + 1]
    BY <1>1, <1>8, <2>1 DEF Chunk, CallOf
  <2>2. CASE call' = Over(c, "left", call[c].got + 1, call[c].gave)
    <3>1. call[c].got + 1 \in Nat /\ call[c].got + 1 <= Len(shape[c].events)
      BY <1>1, <1>6, <1>8 DEF Chunk
    <3> QED
      BY <1>5, <2>2, <3>1
  <2> QED
    BY <1>8, <2>1, <2>2 DEF Chunk
<1>9. CASE StreamEnds(c)
  BY <1>5, <1>6, <1>9 DEF StreamEnds
<1>10. CASE Block(c)
  BY <1>1, <1>3, <1>10 DEF Block, CallOf
<1>11. CASE ModelUnreachable(c) \/ ReadRefusal(c)
  BY <1>4, <1>11 DEF ModelUnreachable, ReadRefusal, ListAtHand
<1>12. CASE Refuse(c) \/ TargetUnreachable(c) \/ Relayed(c) \/ AnnounceFails(c)
  BY <1>1, <1>12 DEF Refuse, TargetUnreachable, Relayed, AnnounceFails, Answer, CallOf
<1>13. CASE Admit(c) \/ Announce(c) \/ ModelRefused(c) \/ Begin(c) \/ Look(c)
  BY <1>1, <1>13 DEF Admit, Announce, ModelRefused, Begin, Look, CallOf
<1> QED
  BY <1>7, <1>8, <1>9, <1>10, <1>11, <1>12, <1>13 DEF CallStep, Recording

\* How a call comes to compare, and to a refusal.
LEMMA ComesFrom ==
  ASSUME SafeInv, NEW c \in Calls, CallStep(c)
  PROVE  /\ call'[c].pc = "compare" => Look(c)
         /\ call'[c].pc = "refusal" => ModelRefused(c)
<1>1. call \in [Calls -> CallOf] /\ call[c] \in CallOf
  BY CallIs
<1> DEFINE there == call'[c].pc \in {"compare", "refusal"}
<1>2. ASSUME NEW end, NEW n, NEW m, call' = Over(c, end, n, m)
      PROVE  ~there
  BY <1>1, <1>2 DEF Over, CallOf
<1>3. CASE ReadModel(c) \/ ReadTarget(c) \/ StreamEnds(c)
  BY <1>2, <1>3 DEF ReadModel, ReadTarget, StreamEnds
<1>4. CASE Chunk(c)
  <2>1. CASE call' = [call EXCEPT ![c].got = call[c].got + 1, ![c].gave = call[c].got + 1]
    BY <1>1, <1>4, <2>1 DEF Chunk, CallOf
  <2> QED
    BY <1>2, <1>4, <2>1 DEF Chunk
<1>5. ASSUME NEW what, Answer(c, what)
      PROVE  ~there
  BY <1>1, <1>5 DEF Answer, CallOf
<1>6. CASE Refuse(c) \/ TargetUnreachable(c) \/ Relayed(c) \/ AnnounceFails(c) \/ Record(c) \/ RecordFails(c)
  BY <1>5, <1>6 DEF Refuse, TargetUnreachable, Relayed, AnnounceFails, Record, RecordFails
<1>11. CASE RecordLost(c)
  <2>1. call[c].pc = "record" /\ (call' = call \/ \E what \in {"failed", "answered"} : Answer(c, what))
    BY <1>11 DEF RecordLost
  <2> QED
    BY <1>5, <2>1
<1>7. CASE Compare(c) \/ ReadRefusal(c)
  BY <1>1, <1>5, <1>7 DEF Compare, ReadRefusal, CallOf
<1>8. CASE Admit(c) \/ Announce(c) \/ Block(c) \/ ModelUnreachable(c) \/ Begin(c)
  BY <1>1, <1>8 DEF Admit, Announce, Block, ModelUnreachable, Begin, CallOf
<1>9. CASE Look(c)
  BY <1>1, <1>9 DEF Look, CallOf
<1>10. CASE ModelRefused(c)
  BY <1>1, <1>10 DEF ModelRefused, CallOf
<1> QED
  BY <1>3, <1>4, <1>6, <1>7, <1>8, <1>9, <1>10, <1>11 DEF CallStep

\* Who is not done is in no record, but what the store kept without saying so.
LEMMA NotYetRecorded ==
  ASSUME SafeInv, NEW c \in Calls, call[c].pc # "done", call[c].pc # "record" \/ spent["lost"] = 0,
         NEW r \in Runs
  PROVE  ~RecordedIn(r, c)
<1> SUFFICES ASSUME NEW e \in ToSet(log[r]), e.by = c
             PROVE  FALSE
  BY DEF RecordedIn
<1>1. log[r] \in Seq(EntryOf)
  BY CallIs DEF RunsTyped
<1>2. PICK i \in 1..Len(log[r]) : e = log[r][i]
  BY <1>1 DEF ToSet
<1> QED
  BY <1>2 DEF SafeInv, Contents, Truthful, MayBeRecorded

LEMMA MovesHold ==
  ASSUME SafeInv, NEW c \in Calls, ListAtHand(c), CallStep(c), RunsKept, ~Compare(c), ~Recording(c),
         ~RecordFails(c)
  PROVE  Holds(c) /\ seen' = seen /\ log' = log
<1>1. Silent(c)
  BY RefuseSafe, BlockSafe, AdmitSafe, AnnounceSafe, AnnounceFailsSafe, ModelUnreachableSafe,
     TargetUnreachableSafe, ModelRefusedSafe, ReadRefusalSafe, RelayedSafe, BeginSafe, ReadModelSafe,
     ReadTargetSafe, ChunkSafe, StreamEndsSafe, LookSafe DEF CallStep, Recording
<1>2. log' = log /\ shape' = shape /\ RunsTyped
  BY <1>1, CallIs DEF Silent, Moved, Quiet
<1>3. seen' = seen /\ call[c].pc \notin {"record", "done"}
  BY NoAnswer
<1>4. call'[c].pc = "record" => ~Listing(Entry(c))'
  BY NoListing
<1>5. call'[c].pc = "compare" => call'[c].run = current' /\ current' # None
  BY ComesFrom, LookSafe, GroupedAssumption
<1>6. call'[c].pc = "refusal" => shape[c].proxy = "llm"
  BY ComesFrom DEF ModelRefused
<1>7. ~Passing(c)'
  <2> SUFFICES ASSUME current' # None, RecordedIn(current, c)'
               PROVE  FALSE
    BY <1>4 DEF Passing
  <2>1. PICK r : r = current'
    OBVIOUS
  <2>2. r \in Runs
    BY <1>2, <2>1 DEF RunsKept, RunsSteady
  <2> QED
    BY <1>2, <1>3, <2>1, <2>2, NotYetRecorded DEF RecordedIn
<1>8. Pending(c)' => Pending(c)
  BY <1>2, <1>3 DEF Pending
<1> QED
  BY <1>2, <1>3, <1>4, <1>5, <1>6, <1>7, <1>8 DEF Holds

LEMMA CompareLists ==
  ASSUME SafeInv, TwoListings, Room, \A d \in Calls : ListAtHand(d), NEW c \in Calls, Compare(c), RunsKept
  PROVE  (\A d \in Calls : ListAtHand(d)') /\ log' = log
<1> DEFINE v == call[c].version
<1>1. /\ call \in [Calls -> CallOf] /\ call[c] \in CallOf /\ CallOK(c) /\ CallsTyped
      /\ shape[c] \in ShapeOf
  BY CallIs
<1>2. /\ call[c].pc = "compare" /\ call[c].run = current /\ current \in Runs /\ current # None
      /\ shape[c].body = "list" /\ v \in Versions /\ seen \in Seq(Runs \X Versions)
  <2>1. call[c].pc = "compare"
    BY DEF Compare
  <2>2. call[c].run = current /\ current # None
    BY <2>1 DEF ListAtHand
  <2>3. call[c].run \in Runs /\ shape[c].body = "list" /\ v \in {1, 2}
    BY <1>1, <2>1 DEF CallOK
  <2> QED
    BY <1>1, <2>1, <2>2, <2>3 DEF Versions, CallsTyped
<1>3. shape' = shape /\ log' = log /\ current' = current /\ \A d \in Calls \ {c} : call'[d] = call[d]
  BY <1>1 DEF Compare, runs, Answer
<1>4. ~RecordedIn(current, c)' /\ Pending(c)
  BY <1>2, <1>3, NotYetRecorded DEF RecordedIn, Pending
<1>5. \A d \in Calls \ {c} : Holds(d)
  BY <1>3, Unmoved DEF RecordedIn
<1>6. CASE Has(seen, <<current, v>>)
  <2>1. seen' = seen /\ call'[c].pc = "done"
    BY <1>1, <1>2, <1>6 DEF Compare, Answer, CallOf
  <2>2. Holds(c)
    BY <1>4, <2>1 DEF Holds, Passing, Pending
  <2> QED
    BY <1>3, <1>5, <2>1, <2>2, ListsStay DEF SeenKept, Has
<1>7. CASE ~Has(seen, <<current, v>>)
  <2>1. /\ call'[c].pc = "record" /\ call'[c].run = current /\ call'[c].version = v
        /\ seen' = Remembered(current, v)
    BY <1>1, <1>2, <1>7 DEF Compare, CallOf
  <2>2. Has(seen', <<current, v>>)
    <3>1. <<current, v>> \in Runs \X Versions /\ MaxLists \in Nat \ {0}
      BY <1>2 DEF Room
    <3>2. Has(Remembered(current, v), <<current, v>>)
      BY <1>2, <3>1, LastRemembered
    <3> QED
      BY <2>1, <3>2
  <2>3. ASSUME NEW d \in Calls \ {c}, Passing(d)'
        PROVE  Passing(d) /\ call'[d].version = call[d].version /\ call[d].version # v
    <3>1. Passing(d) /\ call'[d].version = call[d].version /\ ListAtHand(d)
      BY <1>5, <2>3 DEF Holds
    <3>2. Has(seen, <<current, call[d].version>>)
      BY <1>4, <3>1 DEF ListAtHand
    <3> QED
      BY <1>7, <3>1, <3>2
  <2>4. ASSUME NEW a \in Calls \ {c}, NEW d \in Calls \ {a, c}, Passing(a), Pending(d)
        PROVE  FALSE
    <3>1. a \in Listers /\ d \in Listers /\ c \in Listers
      BY <1>4, <2>4, PassingLists, PendingLists
    <3> QED
      BY <3>1, AtMostTwo
  <2>5. ListAtHand(c)'
    <3>1. \A d \in Calls \ {c} : Pending(d)' => Has(seen, <<current, v>>)'
      BY <1>3, <2>1, <2>2 DEF Has
    <3>2. \A d \in Calls \ {c} : Passing(d)' => v # call'[d].version
      BY <2>3
    <3> QED
      BY <1>2, <1>3, <2>1, <3>1, <3>2 DEF ListAtHand, CallMade, Has
  <2>6. ASSUME NEW a \in Calls \ {c}
        PROVE  ListAtHand(a)'
    <3>1. Holds(a) /\ ListAtHand(a)
      BY <1>5
    <3>2. ASSUME NEW d \in Calls \ {a}, Passing(a)'
          PROVE  ~Pending(d)' /\ (Passing(d)' => call'[a].version # call'[d].version)
      <4>1. Passing(a) /\ call'[a].version = call[a].version /\ call[a].version # v
        BY <2>3, <3>2
      <4>2. CASE d = c
        BY <2>1, <4>1, <4>2 DEF Pending
      <4>3. CASE d # c
        <5>1. ~Pending(d)'
          BY <1>5, <2>4, <4>1, <4>3 DEF Holds
        <5>2. Passing(d)' => call'[a].version # call'[d].version
          BY <2>3, <3>1, <4>1, <4>3 DEF ListAtHand
        <5> QED
          BY <5>1, <5>2
      <4> QED
        BY <4>2, <4>3
    <3> QED
      BY <1>3, <3>1, <3>2 DEF ListAtHand, Holds
  <2> QED
    BY <1>3, <2>5, <2>6
<1> QED
  BY <1>6, <1>7

LEMMA SpansWait ==
  ASSUME SafeInv, SpansOnce, RunsKept, UNCHANGED exports,
         \A r \in Runs, s \in Spans : RecordedIn(r, s)' => RecordedIn(r, s)
  PROVE  SpansOnce'
BY SpansStay DEF exports, SpansFromHand

LEMMA NoSpan ==
  ASSUME NEW s \in Spans
  PROVE  s \notin Calls \cup Posts
BY SpansAssumption DEF Spans

LEMMA RecordOnce ==
  ASSUME SafeInv, RunsSteady, Once, NEW c \in Calls, Record(c), ~Disturbed, ~Failed, UNCHANGED exports,
         spent["lost"] = 0
  PROVE  Once'
<1>1. /\ Moved(c) /\ Entry(c)' = Entry(c) /\ call[c].pc = "record" /\ call'[c].pc = "done"
      /\ call'[c].reply \in {"answered", "blocked", "failed"} /\ seen' = seen
      /\ shape' = shape /\ \A d \in Calls \ {c} : call'[d] = call[d]
  BY RecordGives, RecordingGives, GroupedAssumption DEF Moved, Record, RecordLost, Recording
<1>2. PICK e : e = Entry(c)
  OBVIOUS
<1>3. PICK q \in Runs : Stored(q, e) /\ GrownIn(q, e)
  BY <1>2, RecordGives
<1>4. /\ RunsTyped /\ e.by = c /\ e \in EntryOf
      /\ call \in [Calls -> CallOf] /\ call[c] \in CallOf
  BY <1>2, RecordGives, CallIs
<1>5. RunsKept /\ q = current'
  BY <1>3, <1>4, SteadyStored
<1>6. \A d \in Calls : ListAtHand(d)
  BY DEF Once
<1>7. \A r \in Runs : \A who : RecordedIn(r, who)' => RecordedIn(r, who) \/ who = c
  BY <1>3, <1>4, OnlyGrownBy
<1>8. Listing(e) => current # None /\ q = current /\ Passing(c)
  BY <1>1, <1>2, <1>5, <1>6 DEF ListAtHand, Passing, RunsKept
<1>9. NoneTwice'
  <2>1. ASSUME NEW i \in 1..Len(log[q])
        PROVE  /\ log[q][i].by # e.by
               /\ log[q][i].by \in Calls /\ e.by \in Calls /\ Listing(log[q][i]) /\ Listing(e)
                     => log[q][i].version # e.version
    <3>1. log[q][i] \in ToSet(log[q]) /\ Truthful(log[q][i])
      BY <1>4 DEF ToSet, RunsTyped, SafeInv, Contents
    <3>2. log[q][i].by # c
      BY <1>1, <3>1, NotYetRecorded DEF RecordedIn
    <3>3. ASSUME NEW d \in Calls, d = log[q][i].by, Listing(log[q][i]), Listing(e)
          PROVE  log[q][i].version # e.version
      <4>1. log[q][i] = Entry(d) /\ d # c
        BY <3>1, <3>2, <3>3 DEF Truthful
      <4>2. Passing(c) /\ Passing(d)
        BY <1>8, <3>1, <3>3, <4>1 DEF Passing, RecordedIn
      <4>3. Entry(c).version = call[c].version /\ Entry(d).version = call[d].version
        BY <1>6, <4>2, PassingLists
      <4>4. call[c].version # call[d].version
        BY <1>6, <4>1, <4>2 DEF ListAtHand
      <4> QED
        BY <1>2, <4>1, <4>3, <4>4
    <3> QED
      BY <1>4, <3>2, <3>3
  <2> QED
    BY <1>3, <1>4, <2>1, GrownOnce DEF Once
<1>10. SpansOnce'
  <2>1. \A r \in Runs, s \in Spans : RecordedIn(r, s)' => RecordedIn(r, s)
    BY <1>7, NoSpan
  <2> QED
    BY <1>5, <2>1, SpansWait DEF Once
<1>11. Holds(c)
  <2>1. call'[c].version = call[c].version
    BY <1>4 DEF Record, Answer, CallOf
  <2>2. CallMade(c)'
    BY <1>1, GroupedAssumption DEF CallMade
  <2>3. Passing(c)' => Passing(c)
    BY <1>1, <1>2, <1>8 DEF Passing, Listing
  <2> QED
    BY <1>1, <2>1, <2>2, <2>3 DEF Holds, Pending
<1>12. \A d \in Calls \ {c} : Holds(d)
  BY <1>1, <1>5, <1>6, <1>7, Unmoved
<1>13. \A d \in Calls : ListAtHand(d)'
  BY <1>1, <1>5, <1>6, <1>11, <1>12, ListsStay DEF SeenKept, Has
<1> QED
  BY <1>9, <1>10, <1>13 DEF Once

\* No step of a call records anything twice.
LEMMA CallOnce ==
  ASSUME SafeInv, RunsSteady, TwoListings, Room, Once, NEW c \in Calls, CallStep(c), ~Disturbed, ~Failed,
         UNCHANGED exports, spent["lost"] = 0, spent'["lost"] = 0
  PROVE  Once'
<1>1. CASE Record(c)
  BY <1>1, RecordOnce
<1>2. CASE ~Record(c)
  <2>1. ~RecordFails(c) /\ ~Recording(c) /\ RunsKept /\ Moved(c) /\ \A d \in Calls : ListAtHand(d)
    BY <1>2, RecordFailsSafe, RecordingGives, CallSteady, CallStepFrame DEF Once, Recording
  <2>2. (\A d \in Calls : ListAtHand(d)') /\ log' = log
    <3>1. CASE Compare(c)
      BY <2>1, <3>1, CompareLists
    <3>2. CASE ~Compare(c)
      <4>1. Holds(c) /\ seen' = seen /\ log' = log
        BY <1>2, <2>1, <3>2, MovesHold
      <4>2. \A d \in Calls \ {c} : Holds(d)
        BY <2>1, <4>1, Unmoved DEF Moved, RecordedIn
      <4> QED
        BY <2>1, <4>1, <4>2, ListsStay DEF SeenKept, Has, Moved
    <3> QED
      BY <3>1, <3>2
  <2>3. NoneTwice'
    BY <2>2, QuietOnce DEF Once
  <2>4. SpansOnce'
    BY <2>1, <2>2, SpansWait DEF Once, RecordedIn
  <2> QED
    BY <2>2, <2>3, <2>4 DEF Once
<1> QED
  BY <1>1, <1>2

-----------------------------------------------------------------------------
\* Steps and exports

LEMMA PostOnce ==
  ASSUME SafeInv, RunsSteady, TwoListings, Once, NEW p \in Posts, PostStep(p),
         UNCHANGED <<shape, call, tools, exports>>, ~Disturbed, ~Failed, spent["lost"] = 0,
         spent'["lost"] = 0
  PROVE  Once'
<1>1. PostMoved(p) /\ RunsKept /\ RunsTyped /\ PostOK(p) /\ \A c \in Calls : ListAtHand(c)
  BY PostStepFrame, PostSteady, PostIs DEF Once
<1>2. ASSUME NoneTwice', SeenKept, \A r \in Runs : \A who : RecordedIn(r, who)' => RecordedIn(r, who) \/ who = p
      PROVE  Once'
  <2>1. \A s \in Spans : s # p
    BY NoSpan
  <2>2. SpansOnce'
    BY <1>1, <1>2, <2>1, SpansWait DEF Once
  <2>3. \A c \in Calls : c # p
    BY StepsAssumption
  <2>4. \A c \in Calls : Holds(c)
    BY <1>1, <1>2, <2>3, Unmoved
  <2>5. \A c \in Calls : ListAtHand(c)'
    BY <1>1, <1>2, <2>4, ListsStay
  <2> QED
    BY <1>2, <2>2, <2>5 DEF Once
<1>3. CASE RecordStep(p)
  <2>1. PICK e : e = StepEntry(p)
    OBVIOUS
  <2>2. PICK q \in Runs : GrownIn(q, e)
    BY <1>3, <2>1, RecordStepGives
  <2>3. e.by = p /\ post[p].pc = "append" /\ seen' = seen
    BY <1>3, <2>1, RecordStepGives DEF StepEntry
  <2>4. ASSUME NEW i \in 1..Len(log[q])
        PROVE  log[q][i].by # p
    BY <2>3 DEF SafeInv, Contents, Truthful, MayBePosted
  <2>5. p \notin Calls
    BY StepsAssumption
  <2>6. NoneTwice'
    BY <1>1, <2>2, <2>3, <2>4, <2>5, GrownOnce DEF Once
  <2>7. \A r \in Runs : \A who : RecordedIn(r, who)' => RecordedIn(r, who) \/ who = p
    BY <1>1, <2>2, <2>3, OnlyGrownBy
  <2> QED
    BY <1>2, <2>3, <2>6, <2>7 DEF SeenKept, Has
<1>4. CASE ~RecordStep(p)
  <2>4. ~StepLost(p)
    BY StepLostGives
  <2>1. log' = log
    BY <1>4, <2>4, CheckRunSafe, ReadStepSafe, LookStepSafe, CompareStepSafe, StepRefusedSafe, StepFailsSafe,
       RememberStepSafe DEF PostStep, PostSilent, Quiet
  <2>2. NoneTwice'
    BY <2>1, QuietOnce DEF Once
  <2>3. SeenKept
    <3>1. CASE seen' = seen
      BY <3>1 DEF SeenKept, Has
    <3>2. CASE RememberStep(p)
      <4> SUFFICES ASSUME NEW c \in Calls, NEW d \in Calls \ {c}, Passing(c), Pending(d)
                   PROVE  FALSE
        BY DEF SeenKept
      <4>1. p \in Listers
        BY <1>1, <3>2 DEF RememberStep, PostOK, Listers, PostMade
      <4>2. c \in Listers /\ d \in Listers
        BY <1>1, PassingLists, PendingLists
      <4>3. p # c /\ p # d
        BY StepsAssumption
      <4> QED
        BY <4>1, <4>2, <4>3, AtMostTwo
    <3> QED
      BY <1>4, <2>4, <3>1, <3>2
         DEF PostStep, CheckRun, ReadStep, LookStep, CompareStep, StepRefused, StepFails
  <2> QED
    BY <1>2, <2>1, <2>2, <2>3 DEF RecordedIn
<1> QED
  BY <1>3, <1>4

\* Where an exporter gets to.
LEMMA ExportIdles ==
  ASSUME SafeInv, RunsKept, NEW x \in Exports, Send(x) \/ ExportStep(x), ~Mark(x), ~Failed,
         spent'["lost"] = 0
  PROVE  marked' = marked /\ \A y \in Exports : export'[y] = export[y] \/ Idles(y)
<1>1. \A y \in Exports \ {x} : export'[y] = export[y]
  BY ExportStepFrame DEF ExportMoved
<1>2. CASE Place(x)
  <2>1. export'[x].run = current' /\ marked' = marked
    BY <1>2, ExportIs DEF Place, ExportOf
  <2>2. current' \in Runs /\ current' # None
    BY <1>2, ExportIs, RunForKeeps, GroupedAssumption DEF Place
  <2> QED
    BY <1>1, <2>1, <2>2, <1>2, PlaceSafe DEF Idles
<1>3. CASE Send(x)
  BY <1>1, <1>3, SendSafe DEF Idles
<1>4. CASE RecordSpan(x)
  BY <1>1, <1>4, RecordSpanGives DEF Idles
<1>5. CASE RejectSpan(x)
  BY <1>1, <1>5, RejectSpanSafe DEF Idles
<1>6. CASE Exported(x)
  BY <1>1, <1>6, ExportedSafe DEF Idles
<1> QED
  BY <1>2, <1>3, <1>4, <1>5, <1>6, SpanFailsSafe, SpanLostGives DEF ExportStep

LEMMA ExportOnce ==
  ASSUME SafeInv, RunsSteady, Room, Once, NEW x \in Exports, Send(x) \/ ExportStep(x),
         UNCHANGED calls, ~Disturbed, ~Failed, spent'["lost"] = 0
  PROVE  Once'
<1>1. /\ RunsKept /\ RunsTyped /\ (\A c \in Calls : ListAtHand(c)) /\ SpansOnce
      /\ shape' = shape /\ call' = call /\ seen' = seen
  BY ExportSteady, ExportIs DEF Once, calls
<1>2. ASSUME NoneTwice', SpansOnce', \A r \in Runs, c \in Calls : RecordedIn(r, c)' => RecordedIn(r, c)
      PROVE  Once'
  <2>1. \A c \in Calls : Holds(c)
    BY <1>1, <1>2, Unmoved
  <2>2. \A c \in Calls : ListAtHand(c)'
    BY <1>1, <2>1, ListsStay DEF SeenKept, Has
  <2> QED
    BY <1>2, <2>2 DEF Once
<1>3. CASE RecordSpan(x)
  <2>1. PICK q \in Runs, s \in Spans :
          /\ export[x].pc = "record" /\ s = Span(x) /\ GrownIn(q, [by |-> s]) /\ Stored(q, [by |-> s])
          /\ export'[x].pc = "span"
    BY <1>3, RecordSpanGives
  <2>2. PICK e : e = [by |-> s]
    OBVIOUS
  <2>3. e \in EntryOf /\ e.by = s /\ GrownIn(q, e) /\ Stored(q, e)
    BY <2>1, <2>2 DEF EntryOf
  <2>4. q = current'
    BY <1>1, <2>3, SteadyStored
  <2>5. s \notin Calls \cup Posts
    BY NoSpan
  <2>6. current # None /\ ~RecordedIn(current, s)
    BY <1>1, <2>1 DEF SpansOnce, SpanAtHand
  <2>7. q = current
    BY <1>1, <2>4, <2>6 DEF RunsKept
  <2>8. ASSUME NEW i \in 1..Len(log[q])
        PROVE  log[q][i].by # s
    <3>1. log[q][i] \in ToSet(log[q])
      BY <1>1 DEF ToSet, RunsTyped
    <3> QED
      BY <2>6, <2>7, <3>1 DEF RecordedIn
  <2>9. NoneTwice'
    BY <1>1, <2>3, <2>5, <2>8, GrownOnce DEF Once
  <2>10. \A r \in Runs : \A who : RecordedIn(r, who)' => RecordedIn(r, who) \/ (r = q /\ who = s)
    BY <1>1, <2>3, OnlyGrownBy
  <2>11. SpansOnce'
    <3>1. ~Mark(x)
      BY <2>1 DEF Mark
    <3>2. Idles(x)
      BY <2>1 DEF Idles
    <3>3. SpansFromHand
      BY <2>1, <2>4, <2>10, <3>2 DEF SpansFromHand
    <3> QED
      BY <1>1, <3>1, <3>3, ExportIdles, SpansStay
  <2> QED
    BY <1>2, <2>5, <2>9, <2>10, <2>11
<1>4. CASE ~RecordSpan(x)
  <2>1. log' = log
    BY <1>4, SendSafe, PlaceSafe, MarkSafe, RejectSpanSafe, SpanFailsSafe, SpanLostGives, ExportedSafe
       DEF ExportStep, Quiet
  <2>2. NoneTwice'
    BY <2>1, QuietOnce DEF Once
  <2>3. SpansOnce'
    <3>1. CASE Mark(x)
      BY <1>1, <3>1, MarkOnce
    <3>2. CASE ~Mark(x)
      <4>1. SpansFromHand
        BY <2>1 DEF SpansFromHand, RecordedIn
      <4> QED
        BY <1>1, <3>2, <4>1, ExportIdles, SpansStay
    <3> QED
      BY <3>1, <3>2
  <2> QED
    BY <1>2, <2>1, <2>2, <2>3 DEF RecordedIn
<1> QED
  BY <1>3, <1>4

-----------------------------------------------------------------------------
\* The whole gateway

\* Who is done stays done, and the requests stay what they are.
ListersKept ==
    /\ shape' = shape /\ step' = step
    /\ \A c \in Calls : call[c].pc = "done" => call'[c] = call[c]
    /\ \A p \in Posts : post[p].pc = "done" => post'[p] = post[p]

LEMMA ListersStay ==
  ASSUME ListersKept, TwoListings
  PROVE  TwoListings'
<1>1. Listers' \subseteq Listers
  BY DEF ListersKept, Listers, ListStep, CallMade, PostMade
<1> QED
  BY <1>1 DEF TwoListings

LEMMA TwoStay == SafeInv /\ TwoListings /\ [Next]_vars => TwoListings'
<1> SUFFICES ASSUME SafeInv, [Next]_vars
             PROVE  ListersKept
  BY ListersStay
<1>1. CASE UNCHANGED calls /\ UNCHANGED posts
  BY <1>1 DEF ListersKept, calls, posts
<1>2. CASE (ToolsChange \/ \E c \in Calls : CallStep(c)) /\ UNCHANGED <<posts, exports>>
  <2>1. CASE ToolsChange
    BY <1>2, <2>1 DEF ToolsChange, ListersKept, posts
  <2>2. ASSUME NEW c \in Calls, CallStep(c)
        PROVE  ListersKept
    BY <1>2, <2>2, CallStepFrame DEF Moved, ListersKept, posts
  <2> QED
    BY <1>2, <2>1, <2>2
<1>3. ASSUME NEW p \in Posts, PostStep(p), UNCHANGED <<shape, call, tools, exports>>
      PROVE  ListersKept
  BY <1>3, PostStepFrame DEF PostMoved, ListersKept
<1>4. CASE Restart
  BY <1>4 DEF Restart, CallsCut, PostsCut, ListersKept
<1> QED
  BY <1>1, <1>2, <1>3, <1>4 DEF Next, vars

LEMMA RestartOnce ==
  ASSUME SafeInv, Once, Restart
  PROVE  Once'
<1>1. /\ log' = log /\ current' = None
      /\ \A c \in Calls : \/ call'[c] = call[c] /\ call[c].pc \in {"arrive", "done"}
                          \/ call'[c] = [call[c] EXCEPT !.pc = "done", !.reply = "cut"]
  BY RestartGives DEF Quiet
<1>2. NoneTwice'
  BY <1>1, QuietOnce DEF Once
<1>3. ASSUME NEW x \in Exports
      PROVE  export'[x].pc \notin {"mark", "record"}
  <2>1. export[x] \in ExportOf
    BY ExportIs
  <2>2. \/ export'[x] = export[x] /\ export[x].pc \in {"send", "done"}
        \/ export'[x] = [export[x] EXCEPT !.pc = "send", !.reply = "cut"]
    BY DEF Restart, ExportsCut
  <2> QED
    BY <2>1, <2>2 DEF ExportOf
<1>4. SpansOnce'
  <2>1. marked' = <<>>
    BY DEF Restart, ExportsCut
  <2>2. MarksHere'
    BY <2>1 DEF MarksHere
  <2> QED
    BY <1>1, <1>3, <2>2 DEF SpansOnce, SpansMarked, SpanAtHand
<1>5. ASSUME NEW c \in Calls
      PROVE  ListAtHand(c)'
  <2>1. call[c] \in CallOf
    BY CallIs
  <2>2. call'[c].pc \in {"arrive", "done"}
    BY <1>1, <2>1 DEF CallOf
  <2>3. ~Passing(c)'
    BY <1>1 DEF Passing
  <2> QED
    BY <2>2, <2>3 DEF ListAtHand
<1> QED
  BY <1>2, <1>4, <1>5 DEF Once

LEMMA OnceInit == Init => Once
<1> SUFFICES ASSUME Init PROVE Once
  OBVIOUS
<1>1. /\ log = [r \in Runs |-> <<>>] /\ current = None /\ marked = <<>>
      /\ call \in [Calls -> {Arriving, [Arriving EXCEPT !.pc = "done"]}]
      /\ export \in [Exports -> {Waiting, [Waiting EXCEPT !.pc = "done"]}]
  BY DEF Init, RunsInit, CallsInit, ExportsInit
<1>2. NoneTwice
  BY <1>1 DEF NoneTwice
<1>3. \A x \in Exports : export[x].pc \in {"send", "done"}
  BY <1>1 DEF Waiting
<1>4. SpansOnce
  BY <1>1, <1>3 DEF SpansOnce, MarksHere, SpansMarked, SpanAtHand
<1>5. \A c \in Calls : call[c].pc \in {"arrive", "done"}
  BY <1>1 DEF Arriving
<1>6. \A c \in Calls : ListAtHand(c)
  BY <1>1, <1>5 DEF ListAtHand, Passing
<1> QED
  BY <1>2, <1>4, <1>6 DEF Once

LEMMA OnceStays ==
  ASSUME SafeInv, RunsSteady, Once, UNCHANGED <<runs, shape, call, seen, exports>>
  PROVE  Once'
<1>1. RunsKept /\ log' = log /\ shape' = shape /\ call' = call /\ seen' = seen
      /\ \A c \in Calls : ListAtHand(c)
  BY SteadyStays DEF runs, Once
<1>2. NoneTwice'
  BY <1>1, QuietOnce DEF Once
<1>3. SpansOnce'
  BY <1>1, SpansWait DEF Once, RecordedIn
<1>4. \A c \in Calls : Holds(c)
  BY <1>1, Unmoved DEF RecordedIn
<1>5. \A c \in Calls : ListAtHand(c)'
  BY <1>1, <1>4, ListsStay DEF SeenKept, Has
<1> QED
  BY <1>2, <1>3, <1>5 DEF Once

LEMMA OnceStep ==
  ASSUME Room
  PROVE  SafeInv /\ SteadyInv /\ TwoListings /\ OnceInv /\ [Next]_vars => OnceInv'
<1> SUFFICES ASSUME SafeInv, SteadyInv, TwoListings, OnceInv, [Next]_vars, spent'["fault"] = 0,
                    spent'["lost"] = 0, spent'["end"] = 0, spent'["idle"] = 0
             PROVE  Once'
  BY DEF OnceInv, Untroubled
<1>1. {"fault", "lost", "end", "idle"} \subseteq Trouble
  BY GroupedAssumption
<1>2. ASSUME Later
      PROVE  RunsSteady /\ Once /\ ~Disturbed /\ ~Failed /\ spent["lost"] = 0
  <2>1. spent["fault"] = 0 /\ spent["lost"] = 0 /\ spent["end"] = 0 /\ spent["idle"] = 0
    BY <1>1, <1>2 DEF Later
  <2>2. ~Disturbed
    BY <2>1 DEF Disturbed
  <2> QED
    BY <2>1, <2>2 DEF SteadyInv, OnceInv, Untroubled, Steady, Failed
<1>3. CASE ToolsChange /\ UNCHANGED exports
  <2>1. Later
    BY <1>3, UnchangedRuns DEF ToolsChange, Quiet
  <2> QED
    BY <1>2, <1>3, <2>1, OnceStays DEF ToolsChange
<1>4. ASSUME NEW c \in Calls, CallStep(c), UNCHANGED exports
      PROVE  Once'
  BY <1>2, <1>4, CallStepFrame, CallOnce
<1>5. ASSUME NEW p \in Posts, PostStep(p), UNCHANGED <<shape, call, tools, exports>>
      PROVE  Once'
  BY <1>2, <1>5, PostStepFrame, PostOnce
<1>6. ASSUME NEW x \in Exports, Send(x) \/ ExportStep(x), UNCHANGED calls
      PROVE  Once'
  BY <1>2, <1>6, ExportStepFrame, ExportOnce
<1>7. ~(Idle \/ (Busy /\ Replacing) \/ \E r \in Runs : ApiEnd(r))
  <2>1. ~Replacing
    BY <1>2, ReplacingKeeps DEF Replacing, Quiet, SafeInv, Typed
  <2> QED
    BY <2>1, IdleSafe, ApiEndSafe
<1>8. CASE Restart
  <2>1. Later
    BY <1>8, RestartGives DEF Quiet
  <2> QED
    BY <1>2, <1>8, <2>1, RestartOnce
<1>9. CASE UNCHANGED vars
  <2>1. UNCHANGED runs /\ UNCHANGED spent /\ UNCHANGED calls /\ UNCHANGED exports
    BY <1>9 DEF vars
  <2>2. Later
    BY <2>1, UnchangedRuns DEF Quiet
  <2> QED
    BY <1>2, <2>1, <2>2, OnceStays DEF calls
<1> QED
  BY <1>3, <1>4, <1>5, <1>6, <1>7, <1>8, <1>9, Zenon DEF Next

\* A listing and a span are recorded once, whatever the order in which calls, posted steps and
\* exporters come, and through a restart: of two listings, in tables that a run does not fill,
\* while no run is ended or falls idle and the store neither refuses a record nor keeps one
\* without saying so.
THEOREM GatewayRecordedOnce ==
  ASSUME Room
  PROVE  Spec /\ TwoListings => []RecordedOnce
<1>1. Init => OnceInv
  BY OnceInit DEF OnceInv
<1>2. SafeInv /\ SteadyInv /\ TwoListings /\ OnceInv /\ [Next]_vars => OnceInv'
  BY OnceStep
<1>3. OnceInv => RecordedOnce
  BY DEF OnceInv, Once, NoneTwice, RecordedOnce
<1> QED
  BY <1>1, <1>2, <1>3, TwoStay, SafeInvariant, SteadyInvariant, PTL DEF Spec

-----------------------------------------------------------------------------
\* Who was told can find the record

LEMMA FoundIs ==
  ASSUME SafeInv, NEW who
  PROVE  Recorded(who) <=> RecordsOf(who) # {}
<1>1. \A r \in Runs : log[r] \in Seq(EntryOf)
  BY DEF SafeInv, Typed, RunsTyped
<1>2. ASSUME NEW r \in Runs, RecordedIn(r, who)
      PROVE  RecordsOf(who) # {}
  <2>1. log[r] \in Seq(EntryOf) /\ DOMAIN log[r] = 1..Len(log[r])
    BY <1>1
  <2>2. PICK i \in 1..Len(log[r]) : log[r][i].by = who
    BY <1>2, <2>1 DEF RecordedIn, ToSet
  <2>3. PICK at : at = <<r, i>>
    OBVIOUS
  <2>4. at \in Places /\ at[1] = r /\ at[2] = i
    BY <2>3 DEF Places
  <2> QED
    BY <2>2, <2>4 DEF RecordsOf
<1>3. ASSUME NEW at \in RecordsOf(who)
      PROVE  Recorded(who)
  <2>1. PICK r \in Runs : at \in {r} \X (1..Len(log[r])) /\ log[at[1]][at[2]].by = who
    BY <1>3 DEF RecordsOf, Places
  <2>2. PICK i \in 1..Len(log[r]) : log[r][i].by = who
    BY <2>1
  <2>3. log[r] \in Seq(EntryOf) /\ DOMAIN log[r] = 1..Len(log[r])
    BY <1>1
  <2>4. log[r][i] \in ToSet(log[r])
    BY <2>3 DEF ToSet
  <2> QED
    BY <2>2, <2>4 DEF Recorded, RecordedIn
<1> QED
  BY <1>2, <1>3 DEF Recorded

LEMMA OneRecord ==
  ASSUME SafeInv, NEW who, OnceOnly(who)
  PROVE  Cardinality(RecordsOf(who)) <= 1
<1>1. ASSUME NEW at \in RecordsOf(who), NEW other \in RecordsOf(who)
      PROVE  at = other
  <2>1. PICK q \in Runs : at \in {q} \X (1..Len(log[q])) /\ log[at[1]][at[2]].by = who
    BY DEF RecordsOf, Places
  <2>2. PICK r \in Runs : other \in {r} \X (1..Len(log[r])) /\ log[other[1]][other[2]].by = who
    BY DEF RecordsOf, Places
  <2>3. PICK i \in 1..Len(log[q]) : at = <<q, i>> /\ log[q][i].by = who
    BY <2>1
  <2>4. PICK j \in 1..Len(log[r]) : other = <<r, j>> /\ log[r][j].by = who
    BY <2>2
  <2>5. q = r /\ i = j
    BY <2>3, <2>4 DEF SafeInv, Unique
  <2> QED
    BY <2>3, <2>4, <2>5
<1>2. CASE RecordsOf(who) = {}
  BY <1>2, FS_EmptySet
<1>3. ASSUME NEW at \in RecordsOf(who)
      PROVE  Cardinality(RecordsOf(who)) <= 1
  <2>1. RecordsOf(who) = {at}
    BY <1>1, <1>3
  <2>2. Cardinality({at}) = 1
    BY FS_Singleton, Zenon
  <2> QED
    BY <2>1, <2>2
<1> QED
  BY <1>2, <1>3

\* Who was given a whole answer, told that policy blocks the call, that a step is recorded or
\* that a batch is taken can find it on the chain, and once unless the store kept a record
\* without saying so, which only an announced id survives: for any number of calls, steps,
\* exports and runs, whatever fails, as far as each part of the property says (core.py:9,
\* mcp.py:15, SPEC.md:332).
THEOREM GatewayAnswerIsRecorded == Spec => []AnswerIsRecorded
<1>1. SafeInv /\ CalmInv /\ SteadyInv => AnswerIsRecorded
  <2> SUFFICES ASSUME SafeInv, CalmInv, SteadyInv PROVE AnswerIsRecorded
    OBVIOUS
  <2>1. ASSUME NEW c \in Calls
        PROVE  CallRecorded(c)
    <3>1. /\ spent["lost"] = 0 \/ Named(c) => Cardinality(RecordsOf(c)) <= 1
          /\ Recorded(c) => RecordsOf(c) # {}
      BY OneRecord, FoundIs DEF OnceOnly
    <3>2. Told(c)
      BY DEF SafeInv
    <3>4. Untroubled({"fault", "clash", "restart"}) => ListAnswered(c)
      BY DEF CalmInv, Calm
    <3>5. Untroubled({"fault", "lost", "end", "idle"}) => InRun(c)
      BY DEF SteadyInv, Steady
    <3> QED
      BY <3>1, <3>2, <3>4, <3>5, Zenon DEF CallRecorded, Told, ListAnswered, InRun
  <2>2. ASSUME NEW p \in Posts
        PROVE  PostRecorded(p)
    <3>1. /\ spent["lost"] = 0 => Cardinality(RecordsOf(p)) <= 1
          /\ Recorded(p) => RecordsOf(p) # {}
      BY OneRecord, FoundIs DEF OnceOnly
    <3>2. PostOK(p)
      BY DEF SafeInv
    <3>3. Untroubled({"fault", "clash", "restart"}) => StepUnchanged(p)
      BY DEF CalmInv, Calm
    <3> QED
      BY <3>1, <3>2, <3>3 DEF PostRecorded, PostOK, StepUnchanged
  <2>3. ASSUME NEW x \in Exports
        PROVE  ExportRecorded(x)
    <3> SUFFICES ASSUME export[x].reply = "ok", Untroubled({"fault", "clash", "restart"}),
                        NEW s \in ToSet(Batch[x]) \ Invalid
                 PROVE  RecordsOf(s) # {} \/ \E y \in Exports : export[y].pc = "record" /\ Span(y) = s
      BY DEF ExportRecorded
    <3>1. ExportSettles(x)
      BY DEF CalmInv, Calm
    <3>2. PICK i \in 1..Len(Batch[x]) : s = Batch[x][i]
      <4>1. Batch[x] \in Seq(ToSet(Batch[x]))
        BY BatchAssumption
      <4>2. DOMAIN Batch[x] = 1..Len(Batch[x])
        BY <4>1
      <4> QED
        BY <4>2 DEF ToSet
    <3>3. Settled(s)
      BY <3>1, <3>2 DEF ExportSettles
    <3> QED
      BY <3>3, FoundIs DEF Settled
  <2> QED
    BY <2>1, <2>2, <2>3 DEF AnswerIsRecorded
<1> QED
  BY <1>1, SafeInvariant, CalmInvariant, SteadyInvariant, PTL
=============================================================================
