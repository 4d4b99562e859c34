--------------------------- MODULE MCOrchestrator ---------------------------
(* Instances of Orchestrator for TLC: the cfg file makes the instances and the
   calls of stopInstance model values and bounds registrations and crashes. *)
EXTENDS Orchestrator
=============================================================================
