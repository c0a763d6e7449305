------------------------- MODULE MCExecutionLifecycle -------------------------
EXTENDS ExecutionLifecycle, TLC

CONSTANTS c1, c2, c3

MCTwoCalls == {c1, c2}
MCThreeCalls == {c1, c2, c3}
MCTwoExecutions == 1..2
MCThreeExecutions == 1..3
MCNone == {}
MCFirst == {1}

\* All executions are subject to the limit.
MCLimited == [e \in Executions |-> "webhook"]

\* The last one, a retry, passes the limit by.
MCMixed == [e \in Executions |-> IF e = Cardinality(Executions) THEN "retry" ELSE "trigger"]

MCSuccess == {"success"}
MCEnds == {"success", "error"}
MCEndsAndPauses == {"success", "error", "waiting"}

Symmetry == Permutations(Calls)
===============================================================================
