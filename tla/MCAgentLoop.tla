---------------------------- MODULE MCAgentLoop ----------------------------
(* Instances of AgentLoop for TLC: the bounds are given in the cfg files.   *)
EXTENDS ProviderRequests
=============================================================================
