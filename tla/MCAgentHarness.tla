--------------------------- MODULE MCAgentHarness ---------------------------
(* Instances of AgentHarness for TLC: calls, writes and messages are model   *)
(* values.                                                                   *)
EXTENDS AgentHarness
=============================================================================
