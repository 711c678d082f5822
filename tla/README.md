# A formal model of SealedRun

SealedRun records what AI agents do as signed, hash-chained *runs* and exports them as bundles
that anyone can verify offline. This directory models its recorder and its verifier in TLA+,
checks the models with TLC on small instances and proves nearly all of their safety with TLAPS
for every size. Paths below are relative to the repository; `recorder/` is short for
`services/recorder/src/sealedrun_recorder/` and `sealedrun/` for
`packages/sealedrun-py/src/sealedrun/`.

## 1. Inventory

### The parts, their state and how they meet

| Part | State it keeps | Operations | Talks to |
|---|---|---|---|
| Live runs (`recorder/live.py`, `db.py`, `sealedrun/records.py`) | `_writers` (ordered cache of RunWriters), `_locks` (one lock per run id), the rows in the database | `start`, `append`, `head`, `end`, `open_runs` | database; called by every other part, each request on a thread of its own |
| Run grouper (`recorder/proxy/core.py` 130-230) | `_runs`: label → run id and last use, under one lock | `run_for`, `record` | live runs; called by all proxies and the OTLP receiver |
| Proxy exchange (`recorder/proxy/core.py` 346-637) | one call | buffered, streamed or blocked call, then one record | grouper, providers, MCP servers, A2A agents |
| MCP and A2A proxies (`proxy/mcp.py`, `proxy/a2a.py`) | `ListSeen`: the last list of tools per run | check, forward and record one call; A2A announces the record to the callee first | grouper; `ListSeen` is shared with posted steps |
| OTLP receiver (`otlp.py`) | `SpansSeen`: spans marked per run | a batch of spans, each recorded once | grouper |
| Steps and API (`api.py`, `steps.py`) | none | start, append, end, export, import, queries | live runs, anchoring, export, importer |
| Model dialects (`proxy/openai.py`, `anthropic.py`, `gemini.py`, `ollama.py`, `systemone.py`) | none | read a reply, a stream, a decision; list models | exchange |
| Upstreams (`upstreams.py`) | the file read at the start | parse and check, route, choose the credential | proxies |
| Anchoring (`recorder/anchoring.py`) | `_busy`: one asyncio lock per run in work | `loop`, `anchor_run` | live runs, two kinds of witnesses; called by the export as well |
| Identity (`recorder/keystore.py`) | four files | `load_identity`, once per process | live runs sign under it |
| Export and import (`recorder/export.py`, `importer.py`) | the tables of bundles, delegations, runs, bodies | `build_bundle`, `import_bundle` | database, verifier |
| Verifier (`sealedrun/verify.py`, `bundle.py`, `delegation.py`, `scope.py`, `approval.py`) | none: a function of the bundle | `verify_run`, `read_bundle`, `verify_bundle`, `verify_delegation` | nothing |
| Stdio wrapper (`sealedrun/mcpwrap.py`) | table of open requests, two relay threads | record one request and its reply | API |
| TypeScript verifier, web viewer, client, command line | none | | API, bundles |

### What is hard here

* **Interleaving.** Request threads meet in `live.py` on one lock per run, and those lock objects
  come and go: `end` and the cache's eviction drop them while others wait. The grouper's lock is
  not held during the append that uses its result. Anchoring waits for witnesses for seconds with
  the head of a run in its hand. Two listings, a listing and a step, or two exporters ask what is
  already recorded and record it afterwards. An import reads the tables, and appends commit before
  it does.
* **Failure.** A commit can be refused, or raise after it succeeded; a process can die between two
  files, two rows or two records; witnesses fail one by one; a provider refuses, breaks off or
  falls silent after any event, and a client leaves in the middle of a stream.
* **Order.** A stream is delivered before it is recorded, a plain reply after; an A2A call tells
  its callee the number of a record that does not exist yet.
* **Time and restarts.** A delegation is bound to a run at its start and runs out; a restart may
  bring another one while runs are open; a label falls idle during a call.
* **Formats.** Five kinds of streams repeat, overwrite or add up their fields, each differently.
* **Boundaries.** 4096 writers, 1024 open runs, 4096 lists, 10 000 spans, 10 000 entries of an
  archive, `max_records` of a scope.

`PROJECT.json` lists each hazard at its line with the property that is about it.

### What makes each part correct

| Part | It is correct if |
|---|---|
| Live runs | the stored records of a run are one chain however calls, failed commits and restarts fall; nothing follows `run_end`; one delegation per run; the figures of the run are those of its records; every call returns |
| Grouper | a record lands in a run of its own label, once where the store says what it did, and the caller is told the truth; runs that are not current are closed; every call is answered |
| Proxies, OTLP, steps | what a client was told is on the chain, once, in the run it was told of; a stream is on it as far as the client saw it, and its outcome is that of its end; what policy or the protocol forbids never leaves |
| Dialects, upstreams | a record says what the provider's reply says, whole or streamed; what is listed can be called; a credential goes only where it belongs |
| Anchoring | what the last anchor of a run covers is under a receipt of every witness that did not fail; failures only delay; no lock object stays behind |
| Identity | a key that has signed something is never replaced |
| Export, import | what a recorder sealed verifies; what was let in is there as a whole and replaces nothing |
| Verifier | what verifies is what was sealed; findings are those of the specification; a narrower scope is stricter; two implementations agree |
| Stdio wrapper | every call that was read is posted once, whichever thread ends it; the result of a call does not overtake its record under `--strict`; the wrapper exits when its client or server is gone |

## 2. Modules

| Module | Models | State | One action is |
|---|---|---|---|
| `RunLog` | the promise of live runs: an append-only log of linked records per run, closed by `run_end` | `log` | one record |
| `LiveRuns` | `live.py` with `RunWriter` of `records.py` and the rows of `db.py` | rows and run rows; writers, their insertion order, RunWriter objects and lock objects; position, lock, writer and record of each thread | what a thread does between two points where another thread can be seen: lock, registry, transaction |
| `RunGrouper` | `RunGrouper` of `core.py` over live runs reduced to open / closed / absent | `_runs` and its order, the lock, positions and answers of the calls | a stretch of `run_for` between two calls of `LiveRuns`, or one append |
| `GroupedRun` | the runs of one label as `RunGrouper` promises them | `log`, which runs are open, the current one | `run_for`, `record`, what others see of one that is not over, an end, an idle label |
| `Exchange` | `forward` and `Exchange` of `core.py`, `mcp.py`, `a2a.py`; EXTENDS `GroupedRun` | each call: what was asked, read, given, announced and answered; the server's tools, `ListSeen` | what a call does between two awaits |
| `Steps` | `steps.py` and posted records; EXTENDS `Exchange`, whose `ListSeen` it shares | each post | what a handler does between two awaits |
| `Traces` | `otlp.py`; EXTENDS `GroupedRun` | each export and its spans, `SpansSeen` | between two calls of the grouper or of `SpansSeen` |
| `Gateway` | the three together, with restarts | – | – |
| `Dialects` | what is read from a reply, a stream and a decision in five wire formats | none | – (operators) |
| `Providers` | external: one and the same reply as each provider writes it | none | – (operators) |
| `Upstreams` | the upstreams file, routing, credentials | none | – (operators) |
| `ModelCalls` | the model proxy from its start to a record, composed of the three | configuration, the call, the reply as far as it came, the record, what was sent | a start, a list, a call, a reply |
| `Anchoring` | `anchoring.py`, and `export_run` as far as it anchors and ends | the chain of each run, `_busy`, positions, heads and witnesses yet to ask of each task | what a task does between two awaits |
| `StdioWrap` | `mcpwrap.py`: two relay threads and the main thread around an MCP server | table of open requests, position of each thread and what it has to post, the server process, what was posted and delivered | what a thread does between two points where another can be seen: the table, a post, a pipe |
| `ScopeRules` | `scope.py`: what a scope forbids, when one lies within another | none | – (operators) |
| `Globs` | the name pattern, in `scope.py` by regular expression and in `scope.ts` by hand | none | – (operators) |
| `Scopes` | the findings of `verify_run` under a scope and its parent's, and the stack of `approval.py` | the run, what was found, answers that wait | one record judged |
| `Verify` | sealing, delegations, `verify_run`, parent links, over symbolic hashes and signatures | none | – (operators) |
| `Bundles` | `write_bundle`, `read_bundle`, `verify_bundle`; EXTENDS `Verify` | none | – (operators) |
| `Evidence` | from key files to a verdict: `load_identity`, sealing onto runs and posted steps, damage, export and slices; EXTENDS `Bundles` | files, identity, clock, stored delegations, rows, bodies, what was sealed | one file, one record, one damage, one tick, one crash |
| `Custody` | `importer.py` beside recording threads and exports; EXTENDS `Bundles` | the tables, the import in work, records in work | a look at the tables, a commit |
| `NoValue` | the constant `None`, which the formats and the scopes share | none | – |
| `MC…` | constants of the runs | | |
| `LiveRunsProofs`, `RunGrouperProofs`, `GatewayProofs`, `AnchoringProofs`, `EvidenceProofs`, `CustodyProofs`, `ScopesProofs`, `StdioWrapProofs` | the theorems about the module each is named for; `ScopesProofs` also has those about `ModelCalls` (§4) | | |

How the code is found in the models:

* **LiveRuns.** `Call` enters `with self._lock(run_id)`: it asks the defaultdict for the lock
  object and waits. `Acquire` is the lock. `Hit`, `NotResumable` and `Resume` are `_writer`;
  `Remember` is `_remember` with its eviction; `Seal` and `SealStart` advance the writer;
  `Stored` is the transaction with the figures of the run row; `NotStored` the transaction that
  raised, with `revert`, whatever the database made of it (`CommitOutcomes`); `Drop` is the end
  of `end`. `ReadHead` answers, `Refuse` is a closed writer or a refused document. `Restart` loses
  every variable of the process. RunWriter and lock objects have identities, because an object
  that is dropped from a dictionary lives on in the threads that hold it, which is where this code
  is difficult. Hashes are fresh numbers: records carry a fresh id and `records.py` hashes all of it.
* **RunGrouper.** `Hit` is the answer of `run_for` for a current run, `Replace`, `Close`, `Start`
  (`StartFails`) and `Evict` are its other steps with the lock held; `Recorded` and `Unrecorded`
  are the append of `record` and its one retry. `Raised` says what an append that raised came to: the
  run was closed, the record's id is taken (`Taken`, for a record whose id was announced to an A2A
  agent), the store refused it, or the store kept it and the answer of the commit was lost (`lost`),
  which the retry cannot tell from the others. `ApiEnd`, `Tick` and `Restart` are what happens
  meanwhile. A live run is open, closed or absent. What the *next* append to a run does after one
  whose answer was lost is a matter of `LiveRuns` and not carried into this module (§6,
  `LiveLostAnswer`). Nor are the lost answers of `start`, which leave a run open that nobody has the
  id of, and of `end`, after which this process may still append to the run.
* **GroupedRun, Exchange, Steps, Traces, Gateway.** `RunFor`, `Stored` and `NotStored` are `run_for`
  and `record` as one step each; `Replaced` is the replacement of the label's run by one with a
  `Fresh` id, in `run_for` and in the retry of `record`. `Replacing` is what other calls see of the
  steps inside: a run that is ended and not yet replaced, a new run without its first record.
  `Clash` is a second attempt of `record` that met another call's replacement: it fails, or replaces
  a run that was good, with no fault of the store. `Lost` is an attempt whose record was stored
  though its commit raised; `RecordLost`, `StepLost` and `SpanLost` are what a call, a step and a
  span make of it: a second attempt, an error, or the conflict a poster by run id is told of. A
  record whose id was announced is `Named`, and the table takes it once. A call goes `arrive` →
  `send` → `relay` or `read` → `record` → reply; a buffered one is recorded and then answered, a
  stream given and then recorded (`Over` notes how it ended: finished, cut by the provider, stopped
  at the size limit, left by the client). `Look`, `Compare` and `Record` of a listing, `LookStep` …
  `RememberStep` of a posted one and `Place`, `Mark`, `RecordSpan` of a span are the points where
  two of them can pass each other. `Announce` asks for a run and names the record before the call of
  an A2A agent goes out. `spent` counts the trouble that came: faults of the store, lost answers,
  ends through the API, idle labels, clashes, splits (a `Replacing` others see) and restarts.
  `Budget` bounds it in the runs and is any set in the proofs. The assumptions of these modules
  (`ShapesAssumption` with `WellAsked`, `StepsAssumption`, `BatchAssumption`, `SpansAssumption`) say
  what a request, a posted step and a batch are, never what the code does with them.
* **Dialects, Providers, Upstreams, ModelCalls.** A JSON object is a function from its fields. The
  operators of `Dialects` have the names of the readers (`ChatUsage`, `GenerateStream`, …) and read
  it field by field as they do. `Providers` writes one abstract reply in every format, from the
  readers' own tests. `Start` loads the file or refuses it, `ListModels`, `Forward` and `Relay`
  (with `Card`, `Details` and others) are the handlers. `Out` is what goes out: for which target, by
  kind and name, which client it is sent for, its headers and its query. A model call takes the
  client's query along without `key` (`WithoutKey`), a request to an MCP server or an A2A agent the
  whole query, lists and details none. `RepliesWhole`, `Refuses` and `Streams` the provider, which
  may end its stream after any event.
* **Anchoring.** `Wake` and `Sleep` are the loop around its list of runs; `Enter` and `Grant` the
  asyncio lock of the run, which is handed to a waiter on release and not before it runs;
  `ReadHead`, `Answer` / `NoAnswer`, `Write` are `_anchor_locked` at its awaits; `missed` notes the
  runs that went without a receipt of a witness (`Misses`); `ExportEnd` is
  the end of an export; `Record` everybody else. That there is a witness is assumed because the
  code asks `enabled` before it anchors (`AnchoringAssumption`).
* **StdioWrap.** `ReadRequest`, `ReadCancel`, `PostTruncated`, `Insert` and `Write` are
  `client_line` and `_pump_client`; `ReadReply`, `ReadUnmatchable`, `PostReply` and `Deliver` are
  `server_line` and `_pump_server`; `Escalate` and `ChildEnds` are the ladder of `_finish` and the
  signals; `Joined`, `Close`, `PostOpen` and `Exit` are `run` with `closed` and `os._exit`.
  A reply the server has written and the wrapper has not read counts as not yet given. `answered` are
  the requests it has replied to; those in `Echoed` it may reply to again, any number of times, and
  such a line, `again`, finds no open request and is passed on. `Places`
  says in how many places a request is: at a thread, in the table, or posted. What a
  thread has to post is a set for the client's relay thread, with the one request it gave up on at
  most (displaced, cancelled or pushed out), and for the main thread the sequence of what is open.
* **Verify, Bundles.** A hash is a term that contains what was hashed, and a signature one that
  contains key, domain and hash: equal exactly if made from equal input, and nobody makes one
  without the key. `RecordOk` is one turn of the loop of `verify_run`: chain, delegation and its
  clock, payload (there, withheld or wrong), anchor, context, receipt. `VerifyRun` takes the
  store of bodies in a set, which is empty where an archive leaves them out. `CheckParentLinks` is
  the composition over the runs of an archive.
* **Scopes.** A behaviour is a run that grows and is judged record by record under two scopes at
  once; `Judge` holds the rules and `JudgeApproval` the stack. What a rule means is in
  `ScopeRules`; which names a pattern matches is the parameter `Matches`, which `MCScopes` takes
  from `Globs`.
* **Evidence.** `sealed` remembers each run as it was stored and `overran` that the process
  sealed something after its delegation ran out; both are only read by properties.
* **Custody.** `Look` is everything `import_bundle` reads, `ImportCommit` and `ImportFails` its
  one commit: it runs on the event loop, so no other import is between them, but a recording
  thread may be (`AppendLook`, `AppendCommit`). `Kept` is what one step may not do to the
  tables, `NothingReplaced` says that no step does. The constants are archives as `read_bundle`
  returns them (`ArchiveAssumption`) and runs of the recorder's own that verify with the bodies
  they were given (`OwnAssumption`): that is what `Evidence` shows of a run.

Refinement and composition: `LiveRuns` implements `RunLog` (`ImplementsRunLog`, through the
sequence of stored records). `RunGrouper` and `Anchoring` use a live run as `LiveRuns` promises
it, one atomic append at a time. `RunGrouper` implements `GroupedRun` for one label
(`GroupedRunImplemented`, with history variables for what `GroupedRun` counts), and `Gateway`
composes three components over it that share runs and `ListSeen`. `Evidence` composes
the identity, the runs and the verifier, `Custody` the importer, the export and the verifier,
`ModelCalls` the upstreams file, the formats and the providers.

## 3. Runs

| Run | Instance | Shows |
|---|---|---|
| `live_runs` | 3 threads, 1 run, 2 delegations, cache of 1, up to 3 records before `run_end`, refused commits, restarts | `Chained`, `HeadIsStored`, `EndIsLast`, `FiguresMatch`, `OneDelegation`, the refinement of `RunLog`, and `AllReturn` |
| `live_evict` | 2 threads, 2 runs, cache of 1 that forgets only idle runs (`CarefulSpec`) | the callers of an open run share the lock that is registered for it (`LockShared`), and no two threads work on one run (`SingleWriter`) |
| `live_eviction` | the same with the cache as it is | `Chained` is violated (§6) |
| `grouper` | 4 calls, 3 labels, room for 2; fewer calls with one or two of a fault, a lost answer, an end through the API, a restart; two ticks | `OwnLabel`, `ToldTrue`, `NoLeak`, `EvictsOldest`, `AllAnswered` |
| `anchoring` | the loop and one export, 2 runs, both witnesses, 2 records, one fault | `SettledIsCovered`, `LocksForgotten`, `AnchoredInTheEnd` |
| `gateway` | a call of any kind at any proxy; two listings; a listing and a posted step; two exporters of one span; a stream beside an export – 3 runs, at most two troubles of different kinds, a lost answer of the store among them | `AnswerIsRecorded`, `StreamIsRecorded`, `NothingPast`, `RecordedOnce` |
| `models` | 12 operations of 5 formats, 2 upstreams files and 4 malformed ones, with and without one key, clients that differ in headers and query, 3 replies | `StreamSaysReply`, `ListedCanBeCalled`, `CredentialsStay` |
| `evidence` | 1 run of up to 3 records, 2 ticks, 2 delegations, two scopes, one damage | `KeysKept`, `GenuineVerifies`, `VerifiedIsSealed` |
| `evidence_step` | posted steps that name a context or a policy set | `AcceptedVerifies` is violated (§6) |
| `scopes` | every run of five steps and answers over 2 requests; every pattern of up to 4 characters with a star against every name of up to 3; pairs of scopes that differ in each field | `NarrowerIsStricter`, `ApprovalsMatched` (the stack against the words of SPEC 6.6, by counting), `PackagesAgree` |
| `custody` | 10 archives of others (whole, early, a slice, without bodies, with a callee, with a broken link, under a wider delegation of a known id, under a known bundle id, torn, of a stranger) and exports of 2 runs that share a body | `StoredIsWhole`, `NothingReplaced` |
| `stdio` | 3 requests, two under one id, a table of 1, one cancellation, two that the server answers any number of times | `PostedOnce`, `ResultIsRecorded`, `ExitsInTheEnd` |

Seven more configurations are not among the runs. Each checks one sentence of the code's that does
not hold without a condition, and TLC answers with the counterexample told in §6:
`LiveLostAnswer`, `GrouperRetry`, `AnchoringMoved`, `StdioExit`, `GatewayParent`,
`GatewayRemembered`, `GatewayFailure`.

### Bounds, and why they are enough

* Records of a run (`MaxRecords`, `MaxLen`): a chain can go wrong at its first record, between two
  and at its end; three plain records and `run_end` have each of these, and a failed commit
  before and after each. For `LiveRuns`, `Evidence` and `Scopes` the proofs remove the bound.
* Threads: two are needed for a race; three let one wait for a lock object that the second
  dropped while the first holds a newer one.
* The cache of one writer with two runs is the smallest that evicts; the code's 4096 changes the
  number of runs, not the steps. `Hashes`, `Locks` and `Objs` are large enough that a fresh one
  is always there, deadlock being checked.
* Grouper (`MCSpec`): four calls under three labels with room for two of them, two calls under one
  label, are the least in which a hit changes which label is given up; among them nothing goes
  wrong. Three calls under three labels meet one trouble (a fault, a lost answer, an end, a
  restart), three under two labels any two: replacement, concurrent replacement and eviction all
  occur, and the two attempts of `record` mean that a call meets at most two errors. With
  `IdleSeconds = 1` two ticks make idle and busy runs. `c1` has a record id of its own. The proofs
  remove these bounds as well.
* Gateway: two calls that race over one piece of state are enough for it to be read too early or
  written too late, so each pair that shares state comes (`MCSpec`), and others are not mixed.
  `MCBudget` has each of the seven kinds of trouble once and two of them in a behaviour: a run that
  is ended before a restart, or two calls that clash over the replacement of an ended run. A
  replacement needs one reason, and a second trouble is what happens during it. `MCIdleOnly` and
  `MCFaultOnly`, in two of the configurations above, leave one kind. Streams
  have two events, so one may be given and one missing. `MaxLists = 1` and `MaxSeen = 2` let the
  tables overflow, `MaxSends = 2` lets an exporter repeat its batch.
* Models: a file with two upstreams of one format (the second may have the key the first lacks)
  and one with four formats. A reply with two tools makes a stream with every kind of repeated
  event; cached and thinking tokens are there and not there. One client has its key, and one the
  recorder's token, in the parameter `key`. All operations, shapes of a stream
  (`counted`) and cuts after any event are enumerated.
* Anchoring: two tasks (the loop never anchors two runs at once), one more record than tasks can
  cover at once, one fault that may fall anywhere.
* Evidence: two delegations and two ticks with a lifetime of one let a delegation run out with
  records on both sides. One damage: each of the kinds already has to be found by the chain, the
  signatures, the payloads or the manifest. `MaxEntries = 5` stands for the 10 000 entries of an
  archive: a run with its bodies and a receipt passes it, one with only either does not.
* Scopes: five records over two requests have every nesting of two steps and their answers, and
  more answers than steps. A longer run repeats them.
* Custody: no table has a bound; there are twelve archives and two runs. `MaxEntries = 8` fits
  them all.
* Stdio: two requests under one id and one under another give a reply that meets its own request,
  the other's or none, and one of each id may be answered again; a table of one overflows at the
  second; `StdioExit` has room for both, so that its counterexample does not need an overflow.
* `Evidence`, `Scopes`, `Gateway`, `RunGrouper` and their runs stop when the bounds are used up,
  and `StdioWrap` when the wrapper has exited, so deadlock is not checked there. `LiveRuns`,
  `Anchoring`, `Custody` and `ModelCalls` never stop.

### Fairness

* `LiveRuns!FairSpec`: some thread that can take a step of its call takes one. Locks of Python's
  `threading` are not fair and the model does not make them so: the condition is one for all
  threads, and `AllReturn` is about callers who stop calling at some time.
* `RunGrouper!Spec`: each call goes on while it can, weakly. The grouper's lock may be given to
  any waiter; as there are finitely many calls, each with at most two attempts, the lock is free
  for good in the end.
* `Anchoring!Spec`: the loop and each export go on while they can, as asyncio schedules ready
  tasks in turn and each wait has a timeout (a witness that does not answer is `NoAnswer`). No
  witness is assumed to answer: `MaxFaults` bounds how often one does not, and what is shown is
  that after finitely many failures everything is anchored.
* `StdioWrap!Spec`: a post has a deadline and the client reads what it is given or closes its end,
  so the server thread and the main thread go on; `_finish` waits with timeouts; a process that
  was killed dies, and its output ends with it. Nothing is assumed of the client's lines or of the
  server's manners. The server replies only to what was written to it, in any order, never, or any
  number of times (`Echoed`).
* `Gateway`, `ModelCalls`, `Evidence`, `Scopes` and `Custody` have no liveness property: a call may
  wait for its provider as long as that one likes to, up to a timeout that is one of the ways a
  call ends, and nothing waits for anything but its own call.

## 4. What is proved

`LiveRunsProofs` proves, for any finite set of runs and any set of threads, any cache size, any
number of records:

| Theorem | Statement |
|---|---|
| `TypeCorrect` | `Spec => []TypeOK` |
| `ChainSafe` | `CarefulSpec => []Chained` |
| `ChainSafeInSmallCache` | `Spec => []Chained` while the cache has room for all runs |
| `OneThreadPerRun` | `CarefulSpec => []SingleWriter` |
| `OneThreadInSmallCache` | `Spec => []SingleWriter` while the cache has room for all runs |
| `WriterAtHead` | `CarefulSpec => []HeadIsStored` |
| `EndStaysLast` | `CarefulSpec => []EndIsLast` |
| `DelegationKept` | `CarefulSpec => []OneDelegation` |
| `OneLockPerRun` | `CarefulSpec => []LockShared` |
| `FiguresTrue` | `CarefulSpec => []FiguresMatch` |
| `LogImplemented` | `CarefulSpec => ImplementsRunLog` |
| `LogImplementedInSmallCache` | `Spec => ImplementsRunLog` while the cache has room for all runs |

Two assumptions, named where they are used. `AnswersArrive`: a commit that raises stored nothing.
The cache forgets only runs no thread is in (`EvictsIdle`, part of `CarefulSpec`), or it never
has to forget one (`NoEviction`). Neither can be dropped: `LiveLostAnswer.cfg` and the run
`live_eviction` are counterexamples without them.

The argument. None of these invariants is inductive. `Chained` says nothing of the writer in
memory from which the next record is made, and the writer says nothing of who else has one.
`IInv` adds what ties them together:

* `RunOK`: the run row's count and last hash are the length and the tip of the stored chain.
* `CacheOK` and `WorkOK`: a writer stands at that tip, in the cache or in the hands of a thread;
  between seal and transaction it stands exactly one record beyond, which is what `revert` undoes.
* `Locking`: a lock object has one owner, and everyone who waits for a run waits for the *same*
  object, except those whose object `end` dropped. These are `Stale`: their run is complete and
  has no cached writer, so `_writer` will turn them away. This exception is the heart of the
  matter: it is why dropping a lock object at `end` is harmless while dropping it in `_remember`
  is not.
* `StartAlone`, `ObjectsApart`: a run id is unknown to others until `start` returns it, and
  no RunWriter object serves two runs.

`InitInv`, one lemma per action (`CallInv` … `RestartInv`) and `CarefulInv` prove it inductive;
the theorems follow. `FreshObject`, `OneWorker`, `WorkKept` and `StoreChain` carry the facts that
several actions need. `ThreadOK` alone with `TypeOK` is inductive without any assumption
(`TInv`), so type correctness needs none.

`FiguresOK` is a second stage over `IInv`: the stored records of a run are a finite set with one
for each number below the count, and each figure is the cardinality of the records it counts; a
transaction adds one record to each side. With it `LogOf` is a sequence as long as that set, and
the refinement follows step by step: the transaction of a sealed record is one record appended to
the log of its run (`StoreExtends`), every other action leaves the logs alone.

`RunGrouperProofs` proves, for any calls, labels and runs, any limit of open runs and any number of
faults, lost answers, ends and restarts, from the assumptions on the constants alone:

| Theorem | Statement |
|---|---|
| `TypeCorrect` | `Spec => []TypeOK` |
| `UnderOwnLabel` | `Spec => []OwnLabel` |
| `AnswersTrue` | `Spec => []ToldTrue` |
| `NothingLeaks` | `Spec => []NoLeak` |
| `OldestEvicted` | `Spec => EvictsOldest`, an action property |
| `GroupedRunImplemented` | `HSpec => Grouped!RunsSpec(Calls)` for one label: the grouper implements `GroupedRun` |
| `PromiseKept` | `HSpec => AsPromised` for one label: the answer a caller gets comes with the step of `GroupedRun` that promises it |

`OwnLabel` looks at stored records and says nothing of the run id a call has in its hand while
others replace, evict or end that run: `Held` does, and `Mapped` says the same of the ids in
`_runs`. `ToldTrue` is kept by `Recorded` because a call without an answer is in no run yet, or is one
whose answer was `lost`, and then in no second one if its record has an id of its own (`Taken`). It
says of such a call no more than that: it can be in two runs, or in one though its caller was told
of an error, because `record` takes every error for an append that stored nothing. For `NoLeak`,
`Locked` shows that one call at a time is between the end of a run and the start of its successor,
`Ended` that the run it is about to forget is closed, and `Bounded` that the labels exceed the
limit by one exactly while a call is about to evict. The lemmas `WithoutKeeps`, `MoveToEnd` and
`TailKeeps` say of the order of labels what the code gets from OrderedDict: `move_to_end` keeps
every label and `popitem` takes one.

`OldestEvicted` needs a second stage, `Aged`: each label stands once in the order and none before
one that was seen earlier (`InOrder`). A hit moves a label to the end with the clock of that
moment, but a replacement moves it with the clock as it was when the lock was taken; that this is
still the latest is so because no call touches any label while the lock is held.

The refinement is what entitles `Gateway` to take `run_for` and `record` as one step each.
`GroupedRun` has a log where `RunGrouper` has the runs each call is in, a label that is idle where
`RunGrouper` has a clock, and counts troubles `RunGrouper` does not name. `HSpec` adds these as
history variables, which follow the steps of `Spec` and hold none of them up (`HStep`); elsewhere
the mapping is the identity, with `runOf[Label]` for the current run. `RInv`, over `IInv` and
`Aged`, ties the two together: a run not started has no records (`Unstarted`); there was a reason
for what is closed and for each second attempt (`Caused`); a label found idle is not hit before its
run is replaced (`Idling`); who replaces a run has found it idle or asks for a fresh one
(`Justified`); and who is about to append to another run than the current one finds it closed, as
long as the store takes what it is given (`Outrun`). `StepImplements` then goes through the actions
with one lemma each: a hit is `RunFor`, the append of `record` is `Stored`, an attempt that fails
for good with nothing stored is `NotStored`, the end and the start of a replacement are `Replacing`
or a `run_for` that opens one, an append whose answer was lost is `Lost`, and what cannot be seen is
a stutter. `AsPromised` stands beside it because a grouper that told its callers anything at all
could still have the right logs. The gateway's models have one label, and so has the refinement
(`OneLabel`): nothing is evicted in it. What several labels do to each other is in the theorems
above it in the table, which do not assume that.

`GatewayProofs` proves, for any calls, posted steps, exports and spans, any number of runs and
streams of any length:

| Theorem | Statement |
|---|---|
| `GatewayNothingPast` | `Spec => []NothingPast` |
| `GatewayStreamIsRecorded` | `Spec => []StreamIsRecorded` |
| `GatewayAnswerIsRecorded` | `Spec => []AnswerIsRecorded` |
| `GatewayRecordedOnce` | `Spec /\ TwoListings => []RecordedOnce`, under `Room` |
| `SafeInvariant`, `CalmInvariant`, `SteadyInvariant` | the three invariants behind them |

`AnswerIsRecorded` promises more the less goes wrong, and so there are three invariants, each proved
with the one before it. `SafeInv` holds whatever happens: a record says what its call or step came
to (`Truthful`), a call or a step is in one record at most unless an answer of the store was lost,
and in any case if its id was announced (`Unique` with `OnceOnly`), and who has been answered is on
the chain. `CalmInv` holds until a record fails, by a fault or a clash, or the process does: what is
remembered of a listing is on a chain (`SeenListed`), a marked span is on one, refused, or just
being recorded by the export that marked it (`MarkedSettled`), and an export has settled what it has
passed. `SteadyInv` holds until a run is ended or falls idle or the store refuses a record or keeps
one without saying so: a delegation stays in the current run from its announcement to its record.
`StreamIsRecorded` leaves out the methods of an agent whose stream has no outcome of its own, and
the proof cannot do without it.

`RecordedOnce` says the converse: nothing is on the chain twice although the answer of an earlier
time was lost or another call came in between. `OnceInv` is a fourth stage over `SafeInv` and
`SteadyInv`. What is in the run is marked, and nothing is marked for another run (`SpansMarked`,
`MarksHere`); a marked span that is not in the run is with one exporter, which is about to record
it (`SpanAtHand`). A call with a listing compares it with the run it is recorded in. From then on
(`Passing`) its listing is remembered for whoever is yet to come to that comparison
(`ListAtHand`). A restart forgets the run together with the marks, and so the spans
of a batch that is sent again go into another run. Two assumptions, named in the module. `Room`: the
tables have at least the places that one run needs. That is one listing, and as many spans as are
exported. The code drops the oldest mark when the table is full, and then records the span again.
`TwoListings`: of the calls and posts that are made, two at most are about lists of tools. With a
third, an old list that was under way can be remembered after the new one, and the next call records
the new one again. It is a condition on the initial state; `TwoStay` shows that it lasts. Both are
true of the run `gateway`.

`AnchoringProofs` proves, for any runs, exports and lock objects, every non-empty sequence of
witnesses and any number of failures, `AnchoringTypeOK`, `AnchoringLocksForgotten`
(`Spec => []LocksForgotten`) and `AnchoringSettledIsCovered` (`Spec => []SettledIsCovered`). For the
lock objects `LInv` says that each has one owner and serves one run (`LocksApart`). For the
receipts `CInv` follows one pass: the witnesses it has yet to ask are the last of the list
(`AskedInOrder`), those before them have a receipt in the run over the head it read or are `missed`
(`Receipts`), and what the last anchor of a run covers all of them cover, or the task that wrote that
anchor is still at work on its head (`CoveredOrAtWork`). Nothing is assumed of what comes in or
fails meanwhile. That the receipts of two tasks at two heads may be stored in any order is why a
receipt over the last anchor's record *or a later one* is asked for.

`EvidenceProofs` proves, for any keys, runs, scopes, posted steps, lifetimes and damages:

| Theorem | Statement |
|---|---|
| `EvidenceTypeOK` | `Spec => []TypeOK` |
| `EvidenceKeysKept` | `Spec => []KeysKept` |
| `EvidenceVerifiedIsSealed` | `Spec => []VerifiedIsSealed`: the verifier is sound |
| `EvidenceGenuineVerifies` | `Spec => []GenuineVerifies`, under `SoundSteps` and `NoneApart`: it is complete |

`EInv` ties the files of the keys, what the process has loaded, the stored delegations, what was
sealed and what is stored: everything sealed is signed with the key on disk and chained to its
predecessor, every row still carries the signature of something sealed, and delegations never
share an id. Soundness follows, because a record that verifies has a signature of the agent's over
its own hash, and so it is what was sealed at its place (the hash is a term that contains it); it
has no hypothesis but the constants'. For completeness `StepsOK` adds what a verifier asks of each
kind of record. `SoundSteps` says that no posted step carries a context or names another policy
set. TLC finds it true of the steps of the run `evidence`; the code does not check it, and the
run `evidence_step` shows what happens without it (§6). `NoneApart` says that the model value
`None` is no record `[seq, hash, receipt]`, which is how the model writes that a record is not an
anchor.

`CustodyProofs` proves `CustodyReplacesNothing` (`Spec => NothingReplaced`, an action property) and
`CustodyStoredIsWhole` (`Spec => []StoredIsWhole`) for any archives of others and any runs of the
recorder's own. Between the look of an import and its commit the tables change. `JobFits` says
what stays true: what the import is not going to add is stored already and is what the archive
holds. `WriteOK` says the same of an append. A body is found under its digest, so two writers of one
key write the same (`BodiesTrue`).

`StdioWrapProofs` proves `WrapTypeOK`, `WrapPostedOnce` (`Spec => []PostedOnce`) and
`WrapResultIsRecorded` (`Spec => []ResultIsRecorded`) for any requests, ids and limit of the table.
`PostedOnce` counts places, which no single step of a thread can keep in view, so `InOnePlace`
names the six places a request can be in, and `OthersOK` and `ClientOK` what the position of each
thread says of its own. `RInv` follows a reply from the server's pipe to the client. Its claim is
about a request whose id no other has, as `ResultIsRecorded` is. Of the first result the client is
given it says that the call was recorded with it, and accepted under `--strict`. The server may
answer again under the same id; that line finds no open request and is passed on unrecorded, under
`--strict` too, also if the record of the first was refused. Of it the theorem only says that a post
of the call came before it.

`ScopesProofs` proves, for all scopes, records and runs of any length:

| Theorem | Statement |
|---|---|
| `ScopesTypeOK` | `Spec => []TypeOK` |
| `ScopesNarrowerIsStricter` | `Spec => []NarrowerIsStricter` |
| `ScopesApprovalsMatched` | `Spec => []ApprovalsMatched` |

The assumption is that `Matches` is transitive, which is what `scope.py` uses when it lets one
pattern cover another by matching its text (`ScopesAssumption`, evaluated by TLC for the patterns of
the run). For the scopes the invariant keeps apart what depends on one record and what depends on
the run: all that was found under the parent's scope but the limit was found under the child's
(`SameFound`), and the limit of each scope was reported exactly where it was passed (`LimitFound`).
`ApprovalsMatched` states in terms of counts over the whole run what `approval.py` does with a
stack. `Waits` are the answers that no step has taken by those counts; `Balanced` says that what
came after such an answer and was not taken is exactly what waits above it, and with it one more
record moves `Waits` as it moves the stack (`WaitsStep`, `LatestAt`, `Holds`).

Its second part is about `ModelCalls`, which it also extends (its specification is `ProxySpec`). For
any upstreams files, environments, clients, models and matching of names, and for whatever the
providers offer and reply:

| Theorem | Statement |
|---|---|
| `ModelCallsCredentialsStay` | `ProxySpec => []CredentialsStay` |
| `ModelCallsListedCanBeCalled` | `ProxySpec => []ListedCanBeCalled` |

Neither is inductive: one says nothing of the targets that are yet to be called, the other nothing
of the list before its call. `ProxyInv` adds that what is configured is nothing or what
`load_upstreams` makes of a file it accepts (`ConfigOK`), whose targets are `Sound`: no static
header is a credential's, no URL has a login or a query, no key is the token (`TargetsSound`). With
that, what is built for a target is `Kept` whoever the client is (`OutKept`): a call, a list, a
version or a relayed request, at each upstream it goes to. A call that is out is on its way to a
configured upstream (`CallOK`). `ListOK` says that who was listed a model may call in that format
and that some upstream of it serves the model. `route` then finds one, though maybe another, as it
takes the first (`RouteIs`), and `ListedCanBeCalled` says that this first one gets the call or is
the reason it is refused. Between the list and the call the configuration cannot change, since a
restart forgets the list. Two assumptions (`ModelCallsAssumption`, evaluated by TLC for the run
`models`). `TokenApart`: the recorder's token is no provider's key, stands in no static header, and
a client sends it only where it is looked for: in those headers, or in the parameter `key` and then
in no header. The code compares the token with nothing else, so whoever made it the key of a
provider would have it sent there; and a client that shows it in a header *and* puts it into the
query of a request to an MCP server or an A2A agent would have it forwarded (`mcp.py` 470, `a2a.py`
589). `UpstreamsRead`: the upstreams of a file are a sequence, and the model value `None` is no
upstream and no status.

Only model-checked:

* liveness (`AllReturn`, `AllAnswered`, `AnchoredInTheEnd`, `ExitsInTheEnd`), which the prover does
  not do under fairness;
* `StreamSaysReply` of `ModelCalls`: `Dialects` folds over events and merges and filters sequences,
  and what it computes for every stream needs induction over data;
* `PackagesAgree`: the matchers of `Globs` recurse over characters, and induction over data is not
  to be had with the installed provers.

## 5. What is not modelled

* *Cryptography and witnesses' receipts*: hashes and signatures are symbolic; a receipt is the
  fact that a witness answered for a head, and what it contains (SPEC 10.9, certificate chains,
  Merkle proofs) is taken as it is. JSON canonicalisation and the ZIP format are byte formats.
* *The database*: a transaction is atomic and happens at its commit. SQLite serialises writers and
  the code touches one run per transaction under that run's lock.
* *Several recorder processes on one database*: the code assumes one (`live.py` keeps the writers
  in memory) and so do the models.
* *Of a model call*: `prompt.py` and sampling, which copy fields of the request; latency; the
  probabilities of a decision. Where the readers differ for one reply and the difference is known,
  `Providers` does not produce it: a chat reply with several choices (`chat_usage` reads the first,
  `chat_stream` all), a buffered reply of the Responses API that says "failed" under status 200 (a
  success, since a buffered outcome is the status), and a provider that closes a stream cleanly
  before its end marker (a success, and `StreamSaysReply` makes no claim on the outcome then).
* *Of MCP and A2A*: session and protocol headers, the content of the GET stream of server messages
  and of the agent card with its rewritten URLs, push notifications, and a server that asks for input
  before it lists its tools (`WellAsked`). Replies other than 2xx are passed on and not
  recorded, which is modelled as the code has it.
* *Of the stdio wrapper*: `initialize`, oversize and unparsable lines, arguments.
* *Of the key files*: one that is there and is no JSON, which `keystore.py` 98 replaces as if it
  were absent; a crash does not leave one behind. *Of a bundle*: several delegations to one agent,
  of which a slice would be judged under the first in the file (`verify.py` 271); the export writes
  one.
* *Size limits of bodies and uploads*, except where one ends a stream.
* *The mapping of span attributes* to fields of a record (`otlp.py`), which keeps no state.
* *The TypeScript verifier* besides `globMatch`: a second implementation of what `Verify` is
  translated from; the vectors under `spec/` hold the two together. `vectors.py`, the client, the
  command line and the web viewer are generators, single requests and presentation.

`PROJECT.json` names every component with the reason.

## 6. Where code and text disagree

Two runs end in a violation:

* `live_eviction` – `live.py` 102 drops the lock object of a run a thread may be in; two threads
  then seal one `seq`. It takes more than 4096 runs open at once. `live.py` 31 promises "One writer
  per run".
* `evidence_step` – a posted step with a `sealedrun.context`, or whose policy names another policy
  set than the run's context, is accepted and sealed, and the run never verifies again. `live.py`
  127 says of the check that "a caller-supplied record that would not verify never enters the chain".

The configurations below are kept to reproduce others by hand (§8); the property named is violated.

* `LiveLostAnswer.cfg`, `HeadIsStored` – `live.py` 188 says of a commit that raised "The record
  never reached the store"; with a database server the answer of a commit that succeeded can get
  lost. The next record repeats a stored `seq`; the primary key is the record id alone, so it is
  stored as well.
* `GrouperRetry.cfg`, `NoCallGivenUp` – `core.py` 222 promises that a run closed through the API is
  replaced; when two calls fail on it at once, the second ends the replacement of the first, which
  then has no attempt left. `GroupedRun` has this as `Clash`: where a stream, a listing or an export
  is told of success before its record is stored, `AnswerIsRecorded` leaves it out, as it does a
  fault.
* `AnchoringMoved.cfg`, `MovedHeadIsCovered` – `anchoring.py` 3 anchors "each open run whose head
  moved since its last anchor"; a record that came in while its predecessor was stamped is below
  the anchor record, and the run is passed over until another record comes. The last records of an
  export can be left out by the same gap.
* `StdioExit.cfg`, `NoneLostAtExit` – `mcpwrap.py` 19 promises that a request cancelled by the
  client is recorded as truncated; when the server exits at that moment, `run` waits (434) for the
  server relay thread only and `os._exit` ends the post of the other one.
* `GatewayParent.cfg`, `ParentOnChain` – an A2A callee is told run and record of a call that is
  recorded when it is over; when the label falls idle meanwhile, the record goes to another run,
  and the parent link (SPEC.md 332) names a record that is in no run.
* `GatewayRemembered.cfg`, `RememberedIsRecorded` – a list of tools is remembered, and a span
  marked, before the record is stored; when the store fails, later ones are dropped as already
  recorded although none is in the run.
* `GatewayFailure.cfg`, `FailureIsRecorded` – the body of an upstream's error status is read
  without catching `httpx.HTTPError` (`core.py` 443); when it breaks off in a streamed call, the
  call ends with an exception and no record.

Met on the way, by reading or as a condition a property could not do without:

* `anchoring.py` 7 has a failed witness asked again in the next cycle; when the authority answered
  and the log failed, the run ends with an anchor and is passed over (128) until another record
  comes. `SettledIsCovered` therefore asks no receipt of a witness that failed for the run.
* `record` retries every `LiveRunError`, and `live.py` 191 makes one of any commit that raised. If
  the database kept the record all the same, the call is recorded twice, in two runs, or its caller
  is told of a failure; only a record whose id was announced is safe, by its primary key. `ToldTrue`,
  `AnswerIsRecorded` and `RecordedOnce` name the case.
* A second answer of an MCP server under the id of a call is delivered unrecorded, under `--strict`
  too when the record of the first was refused (`mcpwrap.py` 210-214).
* SPEC 6.5 bounds the records of the *run*; `verify.py` 169 counts those of the bundle, so a slice
  that starts later hides the first record past the limit.
* A run whose `run_end` the grouper could not store stays open for good (`core.py` 208);
  `NoLeak` therefore assumes a store without faults.
* A process that outlives its delegation goes on sealing records that no verifier accepts, and
  cannot end the runs it left open once it comes back under a new one.
* A slice that does not hold the record its anchor covers is refused (`verify.py` 364).
* The export does not count the entries a reader takes (`bundle.py` 214, SPEC.md 934): a long run
  with its bodies makes an archive nobody can read. `GenuineVerifies` asks for one that `Fits`.
* A model may be listed because a second upstream serves it, and refused with status 503 because
  the first that matches lacks its key (`upstreams.py` 206).
* The two matchers of names differ on a line end, which the dot of the expression excludes.
* The late result of a call that was cancelled, or pushed out of the table, is delivered under
  `--strict` without waiting for the truncated record of that call (`mcpwrap.py` 213).

## 7. Plan

Done, in this order: live runs with their proofs, grouper, anchoring, identity and verifier, stdio
wrapper; then scopes with their proof, bundles and the importer, the three proxies with the OTLP
receiver and posted steps over one chain, the model formats with routing and credentials, and the
proofs about the grouper; then the proofs of anchoring, of the stdio wrapper, of the refinement of
`RunLog`, of custody, of the proxies, of the verifier's soundness and completeness, of the
approvals, of the refinement of `GroupedRun`, of `RecordedOnce`, and of routing and credentials.
What is left:

1. `OwnAssumption` of `Custody` from `Evidence`, which needs the two to speak of one run.
2. Several labels in `Gateway`; `initialize` and the GET stream of MCP.

## 8. Running it

`tlc -config LiveRuns.cfg MCLiveRuns` and likewise for the other configurations: `PROJECT.json`
names the module of each run, and of the seven of §6 `LiveLostAnswer` belongs to `MCLiveRuns`,
`GrouperRetry` to `MCRunGrouper`, `AnchoringMoved` to `MCAnchoring`, `StdioExit` to `MCStdioWrap`,
the `Gateway…` ones to `MCGateway`; `tlapm LiveRunsProofs.tla` for the proofs, and likewise
`RunGrouperProofs`, `GatewayProofs`, `AnchoringProofs`, `EvidenceProofs`, `CustodyProofs`,
`ScopesProofs` and `StdioWrapProofs`. All runs together take about ten minutes, the longest three;
the proofs about half an hour. Each property has a mutant in `PROJECT.json`: a plausible mistake in
one definition (the operators marked *Mutant* in the modules) under which the run of that property
fails.
