-------------------------- MODULE MCAgentWorkbench --------------------------
(* Model values for the instances of AgentWorkbench that TLC checks.        *)
EXTENDS AgentWorkbench
CONSTANTS a, b

TwoProcesses == {a, b}
First  == {1}
Second == {2}
=============================================================================
