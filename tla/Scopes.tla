------------------------------- MODULE Scopes -------------------------------
(***************************************************************************)
(* What a verifier finds in a run that holds together: records outside the *)
(* structured scope of the delegation and steps that ran without the human *)
(* answer they needed. A run grows record by record and is judged as       *)
(* verify_run judges it, under the scope it was delegated and under the    *)
(* scope of the run that asked for it.                                     *)
(***************************************************************************)
EXTENDS ScopeRules

CONSTANT Settings  \* [child, parent: scopes; calls: records that may come; len: how many]

Parties == {"child", "parent"}

IsScope(s) == s.max \in Nat \cup {None}

\* A pattern that matches another one matches whatever that one does.
ASSUME ScopesAssumption ==
    /\ None \notin Nat
    /\ \A a, b \in Matches : a[2] = b[1] => <<a[1], b[2]>> \in Matches
    /\ \A s \in Settings : IsScope(s.child) /\ IsScope(s.parent) /\ s.len \in Nat

VARIABLES
    setting,  \* the scopes and records of this behaviour
    run,      \* records so far
    found,    \* found[p]: scope findings under the scope of p, [check, seq]
    open,     \* answers that wait under their request, latest last
    missed    \* approval findings
vars == <<setting, run, found, open, missed>>
-----------------------------------------------------------------------------
\* `Approvals.findings` of one record

Answers(x) == x.kind = "human_approval" /\ x.answer # None /\ x.req # None

\* The policy asked for an approval and the step was not blocked.
Executed(x) == x.kind # "human_approval" /\ x.approval /\ x.outcome # "blocked"

Waiting(answers, x) == {i \in DOMAIN answers : x.req # None /\ answers[i].req = x.req}

\* Mutant: the answers to a request are used up in the order they were given.
Oldest(places) == CHOOSE i \in places : \A j \in places : i <= j

\* `answers.pop()`
Latest(places) == CHOOSE i \in places : \A j \in places : j <= i

Without(answers, i) == [k \in 1..Len(answers) - 1 |-> answers[IF k < i THEN k ELSE k + 1]]

\* An answer waits under its request; an executed step takes the latest that waits.
JudgeApproval(x, seq) ==
    LET waiting == Waiting(open, x)
        Miss(check) == missed' = missed \cup {[check |-> check, seq |-> seq]}
    IN
    \/ /\ Answers(x)
       /\ open' = Append(open, [req |-> x.req, answer |-> x.answer])
       /\ UNCHANGED missed
    \/ /\ Executed(x) /\ waiting = {}
       /\ Miss("approval.missing")
       /\ UNCHANGED open
    \/ /\ Executed(x) /\ waiting # {}
       /\ open' = Without(open, Latest(waiting))
       /\ IF open[Latest(waiting)].answer = "denied"
          THEN Miss("approval.denied_but_executed") ELSE UNCHANGED missed
    \/ ~Answers(x) /\ ~Executed(x) /\ UNCHANGED <<open, missed>>

\* The loop of `verify_run` at one more record.
Judge(x) ==
    LET seq == Len(run)
    IN
    /\ seq < setting.len
    /\ run' = Append(run, x)
    /\ found' = [p \in Parties |-> found[p] \cup
                    {[check |-> c, seq |-> seq] : c \in ScopeFindings(setting[p], x, seq + 1)}]
    /\ JudgeApproval(x, seq)
    /\ UNCHANGED setting

Init ==
    /\ setting \in Settings
    /\ run = <<>>
    /\ found = [p \in Parties |-> {}]
    /\ open = <<>>
    /\ missed = {}

Next == \E x \in setting.calls : Judge(x)

Spec == Init /\ [][Next]_vars
-----------------------------------------------------------------------------
\* Properties

\* Every variable keeps its type, each finding names a record of the run and the limit is
\* reported once at most (SPEC.md 6.5, scope.py:79).
TypeOK ==
    /\ setting \in Settings
    /\ Len(run) <= setting.len
    /\ \A p \in Parties :
        /\ \A f \in found[p] : f.seq \in 0..Len(run) - 1
        /\ \A f, g \in found[p] : f.check = "scope.max_records" /\ g.check = f.check => f = g
    /\ Len(open) <= Len(run)
    /\ \A f \in missed : f.seq \in 0..Len(run) - 1

\* A delegation that scope_within accepts as narrower is narrower for every record of every
\* run: nothing outside the parent's scope stays unreported under the child's (SPEC.md 6.4,
\* scope.py:121-155).
NarrowerIsStricter ==
    ScopeWithin(setting.child, setting.parent) =>
        \A f \in found["parent"] : \E g \in found["child"] : g.check = f.check /\ g.seq <= f.seq

\* Records for request q that satisfy P between two positions.
Count(P(_), q, i, j) == Cardinality({k \in i..j : P(run[k]) /\ run[k].req = q})

\* The answer at i is the one for the step at j: between them the answers and the executed
\* steps of the request pair up.
AnswerOf(i, j) ==
    LET q == run[j].req
    IN
    /\ Answers(run[i]) /\ run[i].req = q
    /\ Count(Answers, q, i + 1, j - 1) = Count(Executed, q, i + 1, j - 1)
    /\ \A k \in i + 1..j - 1 : Count(Executed, q, i + 1, k) <= Count(Answers, q, i + 1, k)

\* An executed step that needed approval gets the latest earlier answer to its request that
\* no earlier step has used, and one answer covers one step (SPEC.md 6.6, approval.py:24-60).
ApprovalsMatched ==
    LET due == {j \in DOMAIN run : Executed(run[j])}
        given(j) == {i \in 1..j - 1 : AnswerOf(i, j)}
    IN  missed =
          {[check |-> "approval.missing", seq |-> j - 1] : j \in {k \in due : given(k) = {}}}
          \cup {[check |-> "approval.denied_but_executed", seq |-> j - 1] :
                j \in {k \in due : \E i \in given(k) : run[i].answer = "denied"}}
=============================================================================
