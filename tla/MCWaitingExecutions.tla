-------------------------- MODULE MCWaitingExecutions --------------------------
EXTENDS WaitingExecutions, TLC

CONSTANTS c1, c2

MCTwoCalls == {c1, c2}
MCTwoExecutions == 1..2
MCUnlimited == -1
MCNone == {}
MCFirst == {1}
MCSecond == {2}
MCLimited == [e \in Executions |-> "webhook"]
MCPauses == {"success", "waiting"}
===============================================================================
