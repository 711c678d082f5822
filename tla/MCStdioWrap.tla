---------------------------- MODULE MCStdioWrap -----------------------------
\* Small instances of StdioWrap for TLC: three requests, two of them under one id.
EXTENDS StdioWrap

MCRequests == {"q1", "q2", "q3"}
MCTwoRequests == {"q1", "q2"}
MCIds == {1, 2}
MCId == [q \in Requests |-> IF q = "q3" THEN 1 ELSE IF q = "q1" THEN 1 ELSE 2]
MCEchoed == {"q1", "q2"}
=============================================================================
