--------------------------- MODULE MCAgentSession ---------------------------
(* AgentSession with the values of AgentSession_*.cfg.                      *)
EXTENDS AgentSession

=============================================================================
