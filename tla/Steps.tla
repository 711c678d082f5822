-------------------------------- MODULE Steps --------------------------------
(***************************************************************************)
(* Self-reported steps posted to the API, to the run of a label or to a    *)
(* run by id. A listing of tools is compared with the one remembered for   *)
(* its run before it is recorded, and remembered afterwards. A step of the *)
(* model is what a handler does between two awaits.                        *)
(***************************************************************************)
EXTENDS Exchange

CONSTANTS
    Posts,   \* steps that are posted
    Steps    \* what the posts may be: functions from Posts to StepOf

VARIABLES
    step,    \* step[p]: the step as posted
    post     \* post[p]: where its handler is, the run it is about, the answer

posts == <<step, post>>

\* A step is malformed, or claims what only a recorder can have seen, or is good, or good but
\* for a record that would not verify; a listing has the version of the tools it lists; it
\* goes to a run or to the label.
StepOf == [body : {"good", "malformed", "claims", "invalid"}, version : {0, 1, 2},
           to : Runs \cup {None}]

ASSUME StepsAssumption == Steps \subseteq [Posts -> StepOf] /\ Calls \cap Posts = {}

ListStep(p) == step[p].version # 0

\* Extensions written by the recorder, labels found by a classifier and receipts of others are
\* not for a step to claim.
MarkSelfReported(s) == s.body # "claims"

ParseStep(s) == s.body # "malformed" /\ MarkSelfReported(s)

Goto(p, where) == post' = [post EXCEPT ![p].pc = where]
Answered(p, what) == post' = [post EXCEPT ![p].pc = "done", ![p].reply = what]
-----------------------------------------------------------------------------

\* `post_run_step` looks the run up before it reads the body.
CheckRun(p) ==
    LET r == step[p].to IN
    /\ post[p].pc = "arrive"
    /\ IF r = None THEN Goto(p, "read")
       ELSE IF live[r] # "open" THEN Answered(p, "refused")
       ELSE post' = [post EXCEPT ![p].pc = "read", ![p].run = r]
    /\ UNCHANGED <<step, seen, runs, spent>>

\* `_read_step`
ReadStep(p) ==
    /\ post[p].pc = "read"
    /\ IF ~ParseStep(step[p]) THEN Answered(p, "refused")
       ELSE Goto(p, CASE ~ListStep(p) -> "append"
                      [] ListStep(p) /\ step[p].to = None -> "look"
                      [] OTHER -> "compare")
    /\ UNCHANGED <<step, seen, runs, spent>>

\* The run of the label a listing would be recorded in.
LookStep(p) ==
    /\ post[p].pc = "look"
    /\ RunFor
    /\ post' = [post EXCEPT ![p].pc = "compare", ![p].run = current']
    /\ UNCHANGED <<step, seen>>

\* `_list_changed`
CompareStep(p) ==
    /\ post[p].pc = "compare"
    /\ IF Has(seen, <<post[p].run, step[p].version>>) THEN Answered(p, "unchanged")
       ELSE Goto(p, "append")
    /\ UNCHANGED <<step, seen, runs, spent>>

StepEntry(p) == [by |-> p, outcome |-> "success", version |-> step[p].version]

\* `live.append` to a run that may have been closed since it was looked up.
AppendTo(r, e) ==
    /\ live[r] = "open"
    /\ log' = [log EXCEPT ![r] = Append(@, e)]
    /\ UNCHANGED <<live, current, idle, spent>>

\* The step is recorded; a listing is still to be remembered, for the run it went into.
RecordStep(p) ==
    /\ post[p].pc = "append" /\ step[p].body # "invalid"
    /\ \E r \in Runs :
        /\ IF step[p].to = None THEN Stored(r, StepEntry(p))
           ELSE r = step[p].to /\ AppendTo(r, StepEntry(p))
        /\ post' = [post EXCEPT ![p].pc = IF ListStep(p) THEN "remember" ELSE "done",
                                ![p].run = r,
                                ![p].reply = IF ListStep(p) THEN None ELSE "recorded"]
    /\ UNCHANGED <<step, seen>>

\* A record that would not verify is refused; a run closed meanwhile, and a record the store
\* does not take, is a conflict.
StepRefused(p) ==
    /\ post[p].pc = "append"
    /\ \/ UNCHANGED spent /\ step[p].body = "invalid"
       \/ UNCHANGED spent /\ step[p].to # None /\ live[step[p].to] = "closed"
       \/ Spend("fault") /\ step[p].to # None
    /\ Answered(p, "refused")
    /\ UNCHANGED <<step, seen, runs>>

\* No run takes the step.
StepFails(p) ==
    /\ \/ post[p].pc = "append" /\ step[p].body # "invalid" /\ step[p].to = None /\ NotStored
       \/ post[p].pc = "look" /\ NoRun
    /\ Answered(p, "failed")
    /\ UNCHANGED <<step, seen>>

\* The step is stored though the commit raised. By label a second attempt follows, or this was
\* one; to a run it is the conflict the poster is told of.
StepLost(p) ==
    /\ post[p].pc = "append" /\ step[p].body # "invalid"
    /\ \/ /\ step[p].to = None
          /\ Lost(StepEntry(p))
          /\ UNCHANGED post \/ (Disturbed /\ Answered(p, "failed"))
       \/ /\ step[p].to # None /\ live[step[p].to] = "open"
          /\ Spend("lost")
          /\ log' = [log EXCEPT ![step[p].to] = Append(@, StepEntry(p))]
          /\ Answered(p, "refused")
          /\ UNCHANGED <<live, current, idle>>
    /\ UNCHANGED <<step, seen>>

\* `_remember_list`
RememberStep(p) ==
    /\ post[p].pc = "remember"
    /\ seen' = Remembered(post[p].run, step[p].version)
    /\ Answered(p, "recorded")
    /\ UNCHANGED <<step, runs, spent>>
-----------------------------------------------------------------------------

PostStep(p) ==
    \/ CheckRun(p) \/ ReadStep(p) \/ LookStep(p) \/ CompareStep(p)
    \/ RecordStep(p) \/ StepRefused(p) \/ StepFails(p) \/ StepLost(p)
    \/ RememberStep(p)

\* The process dies with the posts it was serving.
PostsCut ==
    /\ post' = [p \in Posts |-> IF post[p].pc \in {"arrive", "done"} THEN post[p]
                                ELSE [post[p] EXCEPT !.pc = "done", !.reply = "cut"]]
    /\ UNCHANGED step

\* Some of the posts are made.
PostsInit ==
    /\ step \in Steps
    /\ post \in [Posts -> [pc : {"arrive", "done"}, run : {None}, reply : {None}]]
=============================================================================
