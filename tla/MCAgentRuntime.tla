--------------------------- MODULE MCAgentRuntime ---------------------------
(* Instances of AgentRuntime for TLC.  Inputs are interchangeable; Runs    *)
(* are numbered in the order of their creation.                            *)
EXTENDS AgentRuntime

InputSymmetry == Permutations(Input)
=============================================================================
