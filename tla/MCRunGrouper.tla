---------------------------- MODULE MCRunGrouper ----------------------------
(* Small instances of RunGrouper for TLC. *)
EXTENDS RunGrouper, FiniteSets

\* Two calls share a label, the others have their own.
MCCalls == {"c1", "c2", "c3", "c4"}
MCTwoCalls == {"c1", "c2"}
MCLabels == {"a", "b", "c"}
MCLabel == [c \in Calls |-> CASE c = "c3" -> "b" [] c = "c4" -> "c" [] OTHER -> "a"]

\* Each call opens at most two runs.
MCRuns == 1..8

\* All four calls are made, or three of them: two and one under two labels, or three under three.
MCInit ==
    /\ Init
    /\ {c \in Calls : reply[c] = "cut"} \in {{}, {"c4"}, {"c2"}}

\* Among all four nothing goes wrong and no run falls idle; under three labels one thing goes
\* wrong, under two labels two.
Here == {c \in Calls : reply[c] # "cut"}
Trouble == faults + losses + ends + lives
Few ==
    /\ Here = Calls => Trouble' = 0 /\ now' <= IdleSeconds
    /\ "c4" \in Here => Trouble' <= 1
    /\ Trouble' <= 2

MCNext == Next /\ Few
MCSpec == MCInit /\ [][MCNext]_vars /\ \A c \in Calls : WF_vars(Step(c) /\ Few)
=============================================================================
