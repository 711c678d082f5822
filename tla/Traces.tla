------------------------------- MODULE Traces -------------------------------
(***************************************************************************)
(* The OTLP receiver: an exporter sends a batch of spans, and sends it     *)
(* again when it gets no answer or an error. Each span is recorded in the  *)
(* run of its label unless its id is marked for that run. Exports run on   *)
(* threads of their own; a step is what one does between two calls of the  *)
(* grouper or of SpansSeen.                                                *)
(***************************************************************************)
EXTENDS GroupedRun

CONSTANTS
    Exports,    \* exporters
    Batch,      \* Batch[x]: the GenAI spans x exports, in start order
    Invalid,    \* spans whose record would not verify
    MaxSeen,    \* SEEN_SPANS
    MaxSends    \* bound of the model: times an exporter sends its batch

VARIABLES
    export,     \* export[x]: where it is, the span, the run named, spans rejected, the reply
    marked      \* SpansSeen: <<run, span>>, the oldest first

exports == <<export, marked>>

ASSUME BatchAssumption == \A x \in Exports : Batch[x] \in Seq(ToSet(Batch[x]))

Waiting == [pc |-> "send", i |-> 1, run |-> None, rejected |-> 0, reply |-> None, sent |-> 0]

Span(x) == Batch[x][export[x].i]
NextSpan(x, more) == export' = [export EXCEPT ![x].pc = "span", ![x].i = @ + 1, ![x].rejected = @ + more]
-----------------------------------------------------------------------------

\* The batch arrives, for the first time or again after an error or no answer.
Send(x) ==
    /\ export[x].pc = "send" /\ export[x].sent < MaxSends
    /\ export' = [export EXCEPT ![x] = [Waiting EXCEPT !.pc = "span", !.sent = export[x].sent + 1]]
    /\ UNCHANGED <<marked, runs, spent>>

\* `run_for` names the run of the next span.
Place(x) ==
    /\ export[x].pc = "span" /\ export[x].i <= Len(Batch[x])
    /\ RunFor
    /\ export' = [export EXCEPT ![x].pc = "mark", ![x].run = current']
    /\ UNCHANGED marked

\* Mutant: looking and marking are two steps, and the second is not taken.
MarkNothing(x) ==
    /\ export[x].pc = "mark"
    /\ export' = [export EXCEPT ![x].pc = "record"]
    /\ UNCHANGED <<marked, runs, spent>>

\* `first_time`: a span that is marked for the run is passed over, another one is marked.
Mark(x) ==
    LET key  == <<export[x].run, Span(x)>>
        kept == Append(marked, key)
    IN
    /\ export[x].pc = "mark"
    /\ IF key \in ToSet(marked)
       THEN NextSpan(x, 0) /\ UNCHANGED marked
       ELSE /\ export' = [export EXCEPT ![x].pc = "record"]
            /\ marked' = IF Len(kept) > MaxSeen THEN Tail(kept) ELSE kept
    /\ UNCHANGED <<runs, spent>>

\* The span is recorded.
RecordSpan(x) ==
    /\ export[x].pc = "record" /\ Span(x) \notin Invalid
    /\ \E r \in Runs : Stored(r, [by |-> Span(x)])
    /\ NextSpan(x, 0)
    /\ UNCHANGED marked

\* A span whose record would not verify is counted and skipped.
RejectSpan(x) ==
    /\ export[x].pc = "record" /\ Span(x) \in Invalid
    /\ NextSpan(x, 1)
    /\ UNCHANGED <<marked, runs, spent>>

\* Any other error ends the export: the rest of the batch is not looked at.
SpanFails(x) ==
    /\ \/ export[x].pc = "record" /\ Span(x) \notin Invalid /\ NotStored
       \/ export[x].pc = "span" /\ export[x].i <= Len(Batch[x]) /\ NoRun
    /\ export' = [export EXCEPT ![x].pc = "send", ![x].reply = "failed"]
    /\ UNCHANGED marked

\* The span is stored though the commit raised: a second attempt follows, or this was one.
SpanLost(x) ==
    /\ export[x].pc = "record" /\ Span(x) \notin Invalid
    /\ Lost([by |-> Span(x)])
    /\ \/ UNCHANGED export
       \/ Disturbed /\ export' = [export EXCEPT ![x].pc = "send", ![x].reply = "failed"]
    /\ UNCHANGED marked

\* The export is answered; an exporter that has given up waiting sends again.
Exported(x) ==
    /\ export[x].pc = "span" /\ export[x].i > Len(Batch[x])
    /\ \/ export' = [export EXCEPT ![x].pc = "done", ![x].reply = "ok"]
       \/ export' = [export EXCEPT ![x].pc = "send", ![x].reply = "late"]
    /\ UNCHANGED <<marked, runs, spent>>
-----------------------------------------------------------------------------

ExportStep(x) ==
    Place(x) \/ Mark(x) \/ RecordSpan(x) \/ RejectSpan(x) \/ SpanFails(x) \/ SpanLost(x) \/ Exported(x)

\* The process dies: what it was reading comes again, and nothing is marked any more.
ExportsCut ==
    /\ export' = [x \in Exports |-> IF export[x].pc \in {"send", "done"} THEN export[x]
                                    ELSE [export[x] EXCEPT !.pc = "send", !.reply = "cut"]]
    /\ marked' = <<>>

\* Some of the exporters have something to send.
ExportsInit ==
    /\ export \in [Exports -> {Waiting, [Waiting EXCEPT !.pc = "done"]}]
    /\ marked = <<>>
=============================================================================
