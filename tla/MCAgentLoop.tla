----------------------------- MODULE MCAgentLoop -----------------------------
(* An instance of AgentLoop for TLC.                                       *)
EXTENDS AgentLoop

CONSTANTS p1, p2
=============================================================================
